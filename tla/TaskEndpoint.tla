----------------------------- MODULE TaskEndpoint -----------------------------
(***************************************************************************)
(* The HTTP server in a sandbox: TaskHandler, which accepts one task in    *)
(* the life of the process, HealthCheckHandler, and the goroutine of an    *)
(* accepted task, whose end ends the process.  Handlers run concurrently.  *)
(* taskAccepted is an atomic flag that a handler loads when it begins and  *)
(* sets when it has a runner, two steps of which others may come between.  *)
(***************************************************************************)
EXTENDS Naturals, FiniteSets, TaskSpecs

CONSTANTS
  Requests,   \* HTTP requests that reach the server
  Payloads    \* what they may ask for

Request == [path : {"task", "health"}, method : {"POST", "GET"},
            json : BOOLEAN, taskType : TaskTypes,
            fields : SUBSET RequestFields]

ASSUME EndpointAssumption == Payloads \subseteq Request

VARIABLES
  req,           \* what each request asks for
  pc,            \* where its handler is, or how it was answered
  taskAccepted,  \* the flag
  runner,        \* the runner of each request
  process,       \* the server's process: up, or ended with a code
  late           \* requests that began after another had been accepted

vars == <<req, pc, taskAccepted, runner, process, late>>

Up == process = "up"
Answered == {"ok", "bad request", "not allowed"}

Go(r, to) == pc' = [pc EXCEPT ![r] = to]

-----------------------------------------------------------------------------
(* TaskHandler                                                             *)

(* A client that knows of the acceptance sends another request only after  *)
(* it: what is "late" here is the request, not the handler.                *)
Begin(r) ==
  /\ Up /\ pc[r] = "sent" /\ req[r].path = "task"
  /\ Go(r, IF taskAccepted THEN "not allowed" ELSE "validate")
  /\ late' = IF \E s \in Requests : pc[s] = "ok" /\ req[s].path = "task"
             THEN late \union {r} ELSE late
  /\ UNCHANGED <<req, taskAccepted, runner, process>>

Acceptable(q) == q.json /\ Accepts(q.taskType, q.fields)

(* Mutant of Validate: the flag is set before the request is looked at.    *)
ValidateLocked(r) ==
  /\ Up /\ pc[r] = "validate"
  /\ taskAccepted' = TRUE
  /\ \/ req[r].method # "POST" /\ Go(r, "not allowed")
     \/ req[r].method = "POST" /\ ~Acceptable(req[r]) /\ Go(r, "bad request")
     \/ req[r].method = "POST" /\ Acceptable(req[r]) /\ Go(r, "accept")
  /\ UNCHANGED <<req, runner, process, late>>

Validate(r) ==
  /\ Up /\ pc[r] = "validate"
  /\ \/ req[r].method # "POST" /\ Go(r, "not allowed")
     \/ req[r].method = "POST" /\ ~Acceptable(req[r]) /\ Go(r, "bad request")
     \/ req[r].method = "POST" /\ Acceptable(req[r]) /\ Go(r, "accept")
  /\ UNCHANGED <<req, taskAccepted, runner, process, late>>

(* Mutant of Accept: the runner's goroutine is to set the flag.            *)
AcceptUnset(r) ==
  /\ Up /\ pc[r] = "accept" /\ Go(r, "start")
  /\ UNCHANGED <<req, taskAccepted, runner, process, late>>

Accept(r) ==
  /\ Up /\ pc[r] = "accept" /\ Go(r, "start")
  /\ taskAccepted' = TRUE
  /\ UNCHANGED <<req, runner, process, late>>

(* Mutant of StartRunner: the response is written before the goroutine is  *)
(* started.                                                                *)
StartRunnerLater(r) ==
  /\ Up /\ pc[r] = "start" /\ Go(r, "respond")
  /\ UNCHANGED <<req, taskAccepted, runner, process, late>>

StartRunner(r) ==
  /\ Up /\ pc[r] = "start" /\ Go(r, "respond")
  /\ runner' = [runner EXCEPT ![r] = "running"]
  /\ UNCHANGED <<req, taskAccepted, process, late>>

Respond(r) ==
  /\ Up /\ pc[r] = "respond" /\ Go(r, "ok")
  /\ UNCHANGED <<req, taskAccepted, runner, process, late>>

TaskHandler(r) ==
  Begin(r) \/ Validate(r) \/ Accept(r) \/ StartRunner(r) \/ Respond(r)

(* The liveness probe, which asks nothing of the task.                     *)
HealthCheckHandler(r) ==
  /\ Up /\ pc[r] = "sent" /\ req[r].path = "health"
  /\ Go(r, IF req[r].method = "GET" THEN "ok" ELSE "not allowed")
  /\ UNCHANGED <<req, taskAccepted, runner, process, late>>

Handler(r) == TaskHandler(r) \/ HealthCheckHandler(r)

-----------------------------------------------------------------------------
(* Mutant of RunnerReturns: as with TEST_SANDBOX_API_URL, the process      *)
(* survives a runner that fails.                                           *)
RunnerReturnsOnly(r) ==
  /\ Up /\ runner[r] = "running"
  /\ runner' = [runner EXCEPT ![r] = "returned"]
  /\ \/ process' = "exited 0"
        /\ pc' = [s \in Requests |-> IF pc[s] \in Answered THEN pc[s] ELSE "cut off"]
     \/ UNCHANGED <<process, pc>>
  /\ UNCHANGED <<req, taskAccepted, late>>

(* The runner of r returns an exit code, and os.Exit ends the process with *)
(* it at once: every handler and every other runner stops where it is, and *)
(* responses that are not written yet never are.                           *)
RunnerReturns(r) ==
  /\ Up /\ runner[r] = "running"
  /\ runner' = [runner EXCEPT ![r] = "returned"]
  /\ process' \in {"exited 0", "exited other"}
  /\ pc' = [s \in Requests |-> IF pc[s] \in Answered THEN pc[s] ELSE "cut off"]
  /\ UNCHANGED <<req, taskAccepted, late>>

Init ==
  /\ req \in [Requests -> Payloads]
  /\ pc = [r \in Requests |-> "sent"]
  /\ taskAccepted = FALSE
  /\ runner = [r \in Requests |-> "none"]
  /\ process = "up"
  /\ late = {}

Next == \E r \in Requests : Handler(r) \/ RunnerReturns(r)

Spec == Init /\ [][Next]_vars

(* A handler and a runner are goroutines that are scheduled again and      *)
(* again; of the runner it is assumed that its coding agent ends.          *)
FairSpec ==
  Spec /\ \A r \in Requests : WF_vars(Handler(r)) /\ WF_vars(RunnerReturns(r))

-----------------------------------------------------------------------------
(* Also: who is told that a task was accepted has a runner.                *)
TypeOK ==
  /\ req \in [Requests -> Payloads]
  /\ pc \in [Requests -> Answered \union
               {"sent", "validate", "accept", "start", "respond", "cut off"}]
  /\ taskAccepted \in BOOLEAN
  /\ runner \in [Requests -> {"none", "running", "returned"}]
  /\ process \in {"up", "exited 0", "exited other"}
  /\ late \subseteq Requests
  /\ \A r \in Requests : /\ pc[r] = "respond" => runner[r] # "none"
                         /\ pc[r] = "ok" /\ req[r].path = "task" => runner[r] # "none"

IsTask(r) == req[r].path = "task"
Started == {r \in Requests : runner[r] # "none"}

(* A request made after another has been told that its task was started    *)
(* never starts a runner.                                                  *)
LateRequestsAreRefused == late \intersect Started = {}

(* Requests that are refused do not lock the server: the flag is set only  *)
(* by a task whose runner has been or is about to be started.              *)
OnlyATaskLocksTheServer ==
  taskAccepted /\ Up =>
    \E r \in Requests : /\ IsTask(r) /\ req[r].method = "POST"
                        /\ Acceptable(req[r])
                        /\ pc[r] = "start" \/ r \in Started

(* Once the flag is set the server's process ends: the pod does not stay,  *)
(* refusing every request, with no task to run.                            *)
LockedServerEnds == taskAccepted ~> ~Up

==============================================================================
