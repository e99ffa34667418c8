------------------------------ MODULE CloudAgent ------------------------------
(***************************************************************************)
(* The whole system: the orchestrator, the webhook listener, the sandbox   *)
(* servers and the cluster they share, interleaved at every call that one  *)
(* of them makes to another.                                               *)
(***************************************************************************)
EXTENDS Orchestrator

vars == <<clusterVars, listenerVars, orchestratorVars>>

Init == ClusterInit /\ ListenerInit /\ OrchestratorInit

Create == \E t \in Tasks, s \in {"", "Pending"} :
            CreateTask(t, s) /\ UNCHANGED orchestratorVars

Handle(c, i) == Callback(c, i) /\ UNCHANGED orchestratorVars

Run(c) == Runner(c) /\ UNCHANGED orchestratorVars

Provision(c) == /\ BindSandbox(c) \/ RemovePod(c)
                /\ UNCHANGED <<listenerVars, orchestratorVars>>

Watch == \/ \E t \in Tasks : HandleTaskEvent(t)
         \/ \E c \in Claims : HandlePodEvent(c)

(* Failures that belong to no call of the program's own.                   *)
Disturb ==
  \/ \E c \in Claims : LosePod(c) /\ UNCHANGED <<listenerVars, orchestratorVars>>
  \/ \E c \in Claims : RunnerLosesCall(c) /\ UNCHANGED orchestratorVars
  \/ \E t \in Tasks : LoseToken(t) /\ UNCHANGED orchestratorVars
  \/ ListenerRestart /\ UNCHANGED orchestratorVars
  \/ OrchestratorRestart

Next ==
  \/ Create
  \/ \E c \in Claims, i \in 1 .. MaxTries : Handle(c, i)
  \/ \E c \in Claims : Run(c)
  \/ \E c \in Claims : Provision(c)
  \/ Watch
  \/ Reconcile
  \/ \E t \in Tasks : Submission(t)
  \/ Disturb

Spec == Init /\ [][Next]_vars

(* Every goroutine, handler and process takes its next step; the cluster   *)
(* binds claims and removes pods.  The select between the two watches      *)
(* picks at random among those that are ready, so each is strongly fair.   *)
Fairness ==
  /\ WF_vars(Reconcile)
  /\ \A t \in Tasks : SF_vars(HandleTaskEvent(t)) /\ WF_vars(Submission(t))
  /\ \A c \in Claims :
       /\ SF_vars(HandlePodEvent(c))
       /\ WF_vars(Run(c))
       /\ WF_vars(Provision(c))
       /\ \A i \in 1 .. MaxTries : WF_vars(Handle(c, i))

FairSpec == Spec /\ Fairness

-----------------------------------------------------------------------------

TypeOK == ClusterTypeOK /\ ListenerTypeOK /\ OrchestratorTypeOK

ClaimsOf(t) == {c \in Claims : owner[c] = t}

(* Local copies held across calls: by the loop, by the goroutines and by   *)
(* the callback handlers.                                                  *)
LoopHolds(t) == loop.t = t /\ loop.pc \notin {"idle", "get"}
SubHolds(t) == sub[t].pc \in {"create", "await", "tokens", "close", "submit", "update"}
CallbackHolds(c, i) == cb[c][i].pc \in {"verify", "consume", "comment", "complete"}

(* A local copy is never ahead of the store, and a copy of the stored      *)
(* version is the stored object: what makes the update at the end of each  *)
(* of the three read-decide-write paths safe (controller.go Reconcile and  *)
(* runSandboxSubmission, listener.go handleCallback).                      *)
Coherent(t, snap) ==
  /\ snap.rv <= task[t].rv
  /\ snap.rv = task[t].rv => snap = task[t]
SnapshotsCoherent ==
  /\ \A t \in Tasks : /\ LoopHolds(t) => Coherent(t, loop.snap)
                      /\ SubHolds(t) => Coherent(t, sub[t].snap)
  /\ \A c \in Claims, i \in 1 .. MaxTries :
       CallbackHolds(c, i) => Coherent(owner[c], cb[c][i].snap)

(* Every name somebody holds resolves: a live claim has an owner, and so   *)
(* have a pod and a callback; the loop and a goroutine past CreateSandbox  *)
(* hold a task and a claim.                                                *)
NamesResolve ==
  /\ \A c \in Claims : /\ claim[c] = "Live" => owner[c] \in Tasks
                       /\ pod[c] # "None" => owner[c] \in Tasks
                       /\ \A i \in 1 .. MaxTries :
                            cb[c][i].pc # "none" => owner[c] \in Tasks
  /\ loop.pc # "idle" => loop.t \in Tasks
  /\ \A t \in Tasks : sub[t].pc \in {"await", "tokens", "close", "submit", "update"} =>
       /\ sub[t].claim \in Claims
       /\ owner[sub[t].claim] = t /\ claim[sub[t].claim] # "Unused"

(* A claim that is not created yet has no pod and no callback handler.     *)
NothingBeforeClaim ==
  \A c \in Claims : claim[c] = "Unused" =>
    /\ pod[c] = "None"
    /\ \A i \in 1 .. MaxTries : cb[c][i].pc = "none"

(* The phase a local copy is in, at each place that holds one.             *)
PhasesHeld ==
  /\ loop.pc \in {"complete", "fail"} => loop.snap.state = "Running"
  /\ loop.pc \in {"release", "retry"} => loop.snap.state = "Failed"
  /\ loop.pc = "delete" => loop.snap.state = "Completed"
  /\ loop.pc = "dispatch" => loop.snap.state \in AgentTaskState
  /\ \A t \in Tasks : SubHolds(t) => sub[t].snap.state = "Started"
  /\ \A c \in Claims, i \in 1 .. MaxTries :
       CallbackHolds(c, i) => cb[c][i].snap.state \in AgentTaskState

(* What Close has achieved before the record of a sandbox is cleared.      *)
ClosedFirst ==
  /\ loop.pc = "release" => claim[loop.snap.claim] = "Deleted"
  /\ loop.pc = "retry" => loop.snap.claim = NoClaim
  /\ loop.pc = "delete" => /\ task[loop.t].state \in {"Completed", "Deleted"}
                           /\ \/ task[loop.t].claim = NoClaim
                              \/ claim[task[loop.t].claim] = "Deleted"

-----------------------------------------------------------------------------
(* Safety                                                                  *)

(* The status and the sandboxes agree: a recorded sandbox was created for  *)
(* the task, a Running task records one, and a task that has yet to submit *)
(* records none (runSandboxSubmission sets both; StateFailed clears both). *)
RecordedSandboxIsOwn ==
  \A t \in Tasks :
    /\ task[t].claim # NoClaim => owner[task[t].claim] = t
    /\ task[t].state = "Running" => task[t].claim # NoClaim
    /\ task[t].state \in {"", "Pending", "Started"} => task[t].claim = NoClaim

(* Whoever finds a task Completed, or gone, finds an answer on GitHub:     *)
(* the listener posts before it completes the task, and the orchestrator   *)
(* completes it only for a pod that exits 0, which the runner does only    *)
(* after a callback was answered 200.                                      *)
AnsweredWhenCompleted ==
  \A t \in Tasks : task[t].state \in {"Completed", "Deleted"} =>
                     \E c \in ClaimsOf(t) : comments[c] > 0

(* Nothing undoes a completion: neither the goroutine's late update to     *)
(* Running, nor the loop's to Failed, nor a retry, each decided on an      *)
(* older copy, and a deleted task is not written back.                     *)
CompletedIsFinal ==
  [][\A t \in Tasks :
       /\ task[t].state = "Completed" => task'[t].state \in {"Completed", "Deleted"}
       /\ task[t].state = "Deleted" => task'[t].state = "Deleted"]_vars

(* The only record of a sandbox is dropped only when its claim is deleted, *)
(* whatever call fails in between (Reconcile, StateCompleted and           *)
(* StateFailed); otherwise the sandbox could never be found again.         *)
RecordedClaimReleased ==
  [][\A t \in Tasks :
       task[t].claim # NoClaim /\ task'[t].claim # task[t].claim
         => claim[task[t].claim] = "Deleted"]_vars

(* A callback completes a Running task only for the attempt it runs in;    *)
(* the token of an earlier attempt, whose runner may still be retrying,    *)
(* does not pass (handleCallback reads the task, then checks the token).   *)
CompletedByItsAttempt ==
  [][\A c \in Claims, i \in 1 .. MaxTries :
       cb[c][i].pc = "complete" /\ cb'[c][i].pc = "ok" =>
         (task[owner[c]].state = "Running" => task[owner[c]].claim = c)]_vars

(* Nothing will make the loop look at the task again.                      *)
Unattended(t) == events[t] = 0 /\ loop.t # t

(* The task's goroutine still has calls to make for it.                    *)
Submitting(t) == t \in activeTasks /\ sub[t].pc \notin {"none", "exit"}

(* With no failed calls, a task that nobody will look at again needs no    *)
(* look, although Reconcile never queues a task again: every write it      *)
(* loses to another writer leaves a notification, every restart lists      *)
(* everything.  It is at rest; or its goroutine submits it; or its pod     *)
(* runs, or the pod's end is still to be told; or it is Started by a       *)
(* retry, which alone may be left behind (controller.go:107).              *)
NoMissedWork ==
  \A t \in Tasks : Unattended(t) =>
    CASE task[t].state \in {"", "Completed"} -> FALSE
      [] task[t].state = "Pending" -> t \notin Valid
      [] task[t].state = "Started" -> Submitting(t) \/ task[t].retries > 0
      [] task[t].state = "Running" -> \/ pod[task[t].claim] = "Busy"
                                      \/ podEvents[task[t].claim] > 0
      [] task[t].state = "Failed" -> /\ task[t].claim = NoClaim
                                     /\ task[t].retries = MaxRetries
      [] task[t].state \in {"Absent", "Deleted"} -> TRUE

(* Without lost connections an attempt comments at most once, however      *)
(* often its runner repeats the callback and whatever the listener was     *)
(* doing when it restarted: the token is deleted before the comment.       *)
OneCommentPerAttempt == \A c \in Claims : comments[c] <= 1

(* Until a task completes, each live sandbox made for it is recorded in    *)
(* its status or in the hands of its goroutine: none is lost track of by   *)
(* retries and conflicting updates alone, without a failure.               *)
NoForgottenSandbox ==
  crashes = 0 /\ faults = 0 =>
    \A t \in Tasks : task[t].state \in {"Started", "Running", "Failed"} =>
      \A c \in ClaimsOf(t) : claim[c] = "Live" => c \in {task[t].claim, sub[t].claim}

-----------------------------------------------------------------------------
(* The system implements the lifecycle its documentation describes         *)

Lifecycle == INSTANCE TaskLifecycle WITH
  life <- [t \in Tasks |-> [state |-> task[t].state, retries |-> task[t].retries,
                            claim |-> task[t].claim]],
  sandbox <- claim

(* Every step of the program, with its stale copies, lost calls and        *)
(* restarts, is a move of TaskLifecycle or changes nothing one can see.    *)
ImplementsLifecycle == Lifecycle!Spec

-----------------------------------------------------------------------------
(* Liveness                                                                *)

AtRest(t) ==
  \/ task[t].state = "Deleted"
  \/ task[t].state = "Pending" /\ t \notin Valid
  \/ task[t].state = "Failed" /\ task[t].claim = NoClaim

(* Without retries and failed calls, and through restarts, every task      *)
(* comes to rest: answered and removed, refused by validateTask, or Failed *)
(* with its sandbox closed.                                                *)
EventuallyAtRest == \A t \in Tasks : task[t].state = "Pending" ~> AtRest(t)

-----------------------------------------------------------------------------
(* What the documentation and the tests say and the code does not do       *)

(* CONTEXT.md:12, Completed: the task has "closed the sandbox".            *)
CompletedTaskLeavesNoSandbox ==
  \A t \in Tasks : task[t].state = "Deleted" =>
                     \A c \in ClaimsOf(t) : claim[c] # "Live"

(* CONTEXT.md:13, Failed: "retried up to the maximum limit": one sandbox   *)
(* for the first attempt and one for each retry.                           *)
SandboxesBounded == \A t \in Tasks : Cardinality(ClaimsOf(t)) <= MaxRetries + 1

(* CONTEXT.md:10, Started: "The task is submitting its request to the      *)
(* sandbox".                                                               *)
StartedIsSubmitting ==
  \A t \in Tasks : task[t].state = "Started" /\ Unattended(t) => t \in activeTasks

=============================================================================
