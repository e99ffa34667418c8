------------------------------ MODULE TaskSpecs ------------------------------
(***************************************************************************)
(* What makes a task acceptable, said twice in the code: validateTask of   *)
(* the orchestrator checks the AgentTask's spec before any sandbox is      *)
(* created, TaskHandler of the sandbox server checks the request built     *)
(* from it.  A spec or a request is the set of its fields that are not     *)
(* empty.                                                                  *)
(***************************************************************************)

TaskTypes == {"comment", "pr"}

(* AgentTaskSpec                                                           *)
SpecFields == {"prompt", "sandboxTemplate", "taskOwner", "taskOwnerEmail",
               "repoOwner", "repoName", "issueNumber", "taskType"}

(* validateTask                                                            *)
ValidateTask(fields) ==
  {"prompt", "repoOwner", "repoName", "sandboxTemplate", "issueNumber",
   "taskType"} \subseteq fields

(* The request trySubmitToSandbox makes of a spec and a TokenResponse.     *)
TaskRequest(fields) ==
  (fields \ {"sandboxTemplate"})
    \union {"taskName", "callbackToken", "githubToken"}

RequestFields == TaskRequest(SpecFields)

(* The fields without which TaskHandler refuses a request.                 *)
RequiredFields(taskType) ==
  {"taskName", "callbackToken", "githubToken", "repoOwner", "repoName",
   "taskType", "prompt"}
    \union IF taskType = "pr" THEN {"taskOwner", "taskOwnerEmail"} ELSE {}

Accepts(taskType, request) == RequiredFields(taskType) \subseteq request

==============================================================================
