------------------------------- MODULE Cluster -------------------------------
(***************************************************************************)
(* The Kubernetes side of the system, as the repository uses it: AgentTask *)
(* objects guarded by their resourceVersion, the watch notifications the   *)
(* orchestrator consumes, SandboxClaims and the pods bound to them.  The   *)
(* API server and the agent-sandbox controller are external; the AgentTask *)
(* type and the update helpers translate the repository's code.            *)
(*                                                                         *)
(* A claim, its Sandbox and its pod are identified: CreateSandbox resolves *)
(* one Sandbox and one pod per claim, and the three names are recorded and *)
(* cleared together.                                                       *)
(***************************************************************************)
EXTENDS Integers, FiniteSets

CONSTANTS
  Tasks,       \* names of AgentTasks that may be created
  Claims,      \* names of SandboxClaims; bounds the calls of CreateSandbox
  NoClaim,     \* "", the claim name of a status that records no sandbox
  NoTask,      \* the owner of a claim nobody has created yet
  Valid,       \* tasks whose spec passes validateTask
  Accepted,    \* tasks whose payload passes the sandbox server's own checks
  MaxRetries,  \* AGENT_RETRY_COUNT
  MaxTries,    \* attempts at the result callback (WithMaxTries(5))
  MaxFaults,   \* bound: failed or unanswered calls, lost pods, lost tokens
  MaxCrashes   \* bound: restarts of the orchestrator and of the listener

ASSUME ClusterAssumption ==
  /\ NoClaim \notin Claims
  /\ NoTask \notin Tasks
  /\ Valid \subseteq Tasks
  /\ Accepted \subseteq Tasks
  /\ MaxRetries \in Nat
  /\ MaxTries \in Nat \ {0}
  /\ MaxFaults \in Nat
  /\ MaxCrashes \in Nat

VARIABLES
  task,       \* the stored AgentTasks: status and resourceVersion
  events,     \* undelivered Added/Modified notifications, per task
  claim,      \* SandboxClaims: Unused, Live or Deleted
  owner,      \* the task a claim was created for
  pod,        \* the pod of each claim
  podEvents,  \* undelivered notifications that a pod ended, per pod
  faults,     \* faults so far
  crashes     \* restarts so far

clusterVars == <<task, events, claim, owner, pod, podEvents, faults, crashes>>

-----------------------------------------------------------------------------
(* AgentTasks                                                              *)

AgentTaskState == {"", "Pending", "Started", "Running", "Completed", "Failed"}

AgentTask == [state   : AgentTaskState \union {"Absent", "Deleted"},
              retries : 0 .. MaxRetries,
              claim   : Claims \union {NoClaim},
              rv      : Nat]

NoAgentTask == [state |-> "Absent", retries |-> 0, claim |-> NoClaim, rv |-> 0]

Exists(t) == task[t].state \in AgentTaskState

(* One call that does not succeed, or one loss in the infrastructure.      *)
Fault == faults < MaxFaults /\ faults' = faults + 1

NoFault == UNCHANGED faults

(* The API server stores obj only over the version it was read at.         *)
Store(t, obj) ==
  /\ task[t].rv = obj.rv
  /\ task' = [task EXCEPT ![t] = [obj EXCEPT !.rv = @ + 1]]
  /\ events' = [events EXCEPT ![t] = @ + 1]

(* Mutant of UpdateTask: a conflict is overcome by taking over the current *)
(* version and writing the local copy all the same.                        *)
UpdateTaskAnyway(t, obj, ok) ==
  \/ ok /\ Store(t, [obj EXCEPT !.rv = task[t].rv]) /\ NoFault
  \/ ~ok /\ Fault /\ UNCHANGED <<task, events>>

(* updateTaskStatus and the callback's update: UpdateStatus, then Update.  *)
(* The call succeeds, conflicts, or fails with the write lost or applied.  *)
UpdateTask(t, obj, ok) ==
  \/ ok /\ Store(t, obj) /\ NoFault
  \/ ~ok /\ task[t].rv # obj.rv /\ UNCHANGED <<task, events>> /\ NoFault
  \/ ~ok /\ Fault /\ UNCHANGED <<task, events>>
  \/ ~ok /\ Fault /\ Store(t, obj)

(* Delete carries no precondition on the version; the Deleted notification *)
(* that follows is one the orchestrator skips.                             *)
Remove(t) ==
  LET obj == task[t] IN
  task' = [task EXCEPT ![t] = [obj EXCEPT !.state = "Deleted", !.claim = NoClaim,
                                          !.rv = @ + 1]]

-----------------------------------------------------------------------------
(* SandboxClaims and pods                                                  *)

ClaimState == {"Unused", "Live", "Deleted"}

PodState == {"None", "Ready", "Busy", "Succeeded", "Failed", "Gone"}

(* A pod ends.  This is the only change of a pod that Reconcile looks for; *)
(* any other notification makes it read the task and the pod in vain.      *)
EndPod(c, s) ==
  /\ pod' = [pod EXCEPT ![c] = s]
  /\ podEvents' = [podEvents EXCEPT ![c] = @ + 1]

(* Sandbox.Close and the cleanup of CreateSandbox; NotFound is success.    *)
DeleteClaim(c, ok) ==
  \/ ok /\ claim' = [claim EXCEPT ![c] = "Deleted"] /\ NoFault
  \/ ~ok /\ Fault /\ UNCHANGED claim

(* The agent-sandbox controller binds a claim to a warm pod ...            *)
BindSandbox(c) ==
  /\ claim[c] = "Live" /\ pod[c] = "None"
  /\ pod' = [pod EXCEPT ![c] = "Ready"]
  /\ UNCHANGED <<task, events, claim, owner, podEvents, faults, crashes>>

(* ... and removes the pod of a deleted claim, whatever it was doing.      *)
RemovePod(c) ==
  /\ claim[c] = "Deleted" /\ pod[c] \notin {"None", "Gone"}
  /\ EndPod(c, "Gone")
  /\ UNCHANGED <<task, events, claim, owner, faults, crashes>>

(* A pod is evicted or killed while the claim still holds it.              *)
LosePod(c) ==
  /\ pod[c] \in {"Ready", "Busy"}
  /\ Fault
  /\ \E s \in {"Failed", "Gone"} : EndPod(c, s)
  /\ UNCHANGED <<task, events, claim, owner, crashes>>

-----------------------------------------------------------------------------

ClusterInit ==
  /\ task = [t \in Tasks |-> NoAgentTask]
  /\ events = [t \in Tasks |-> 0]
  /\ claim = [c \in Claims |-> "Unused"]
  /\ owner = [c \in Claims |-> NoTask]
  /\ pod = [c \in Claims |-> "None"]
  /\ podEvents = [c \in Claims |-> 0]
  /\ faults = 0
  /\ crashes = 0

ClusterTypeOK ==
  /\ task \in [Tasks -> AgentTask]
  /\ events \in [Tasks -> Nat]
  /\ claim \in [Claims -> ClaimState]
  /\ owner \in [Claims -> Tasks \union {NoTask}]
  /\ pod \in [Claims -> PodState]
  /\ podEvents \in [Claims -> Nat]
  /\ faults \in 0 .. MaxFaults
  /\ crashes \in 0 .. MaxCrashes

==============================================================================
