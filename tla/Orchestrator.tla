---------------------------- MODULE Orchestrator -----------------------------
(***************************************************************************)
(* The orchestrator: a loop that consumes watch notifications one at a     *)
(* time and reconciles the task each names, and one goroutine per Started  *)
(* task that claims a sandbox and submits the task to it.  The loop and    *)
(* the goroutines interleave at their calls to the API server, the         *)
(* listener and the sandbox, so each call is a step; the local copy of the *)
(* task a step was decided on is kept in snap.                             *)
(***************************************************************************)
EXTENDS SandboxServer

VARIABLES
  loop,        \* the event loop: where it is, the task and its local copy
  sub,         \* the submission goroutine of each task
  activeTasks  \* tasks with an entry in the activeTasks map

orchestratorVars == <<loop, sub, activeTasks>>

LoopPC == {"idle", "get", "dispatch", "complete", "fail", "delete",
           "release", "retry"}

SubPC == {"none", "get", "create", "await", "tokens", "close", "submit",
          "update", "exit"}

IdleLoop == [pc |-> "idle", t |-> NoTask, snap |-> NoAgentTask]

NoSubmission == [pc |-> "none", snap |-> NoAgentTask, claim |-> NoClaim]

-----------------------------------------------------------------------------
(* Start: the event loop                                                   *)

HandleTaskEvent(t) ==
  /\ loop.pc = "idle" /\ events[t] > 0
  /\ events' = [events EXCEPT ![t] = @ - 1]
  /\ loop' = [IdleLoop EXCEPT !.pc = "get", !.t = t]
  /\ UNCHANGED <<task, claim, owner, pod, podEvents, faults, crashes,
                 listenerVars, sub, activeTasks>>

RunningOn(c) == {t \in Tasks : task[t].state = "Running" /\ task[t].claim = c}

(* A pod notification reconciles the Running task that recorded the pod;   *)
(* when the List fails the notification is dropped.  No two tasks record   *)
(* one pod (RecordedSandboxIsOwn), so the loop over the list is one task.  *)
HandlePodEvent(c) ==
  /\ loop.pc = "idle" /\ podEvents[c] > 0
  /\ podEvents' = [podEvents EXCEPT ![c] = @ - 1]
  /\ \/ /\ \E t \in RunningOn(c) : loop' = [IdleLoop EXCEPT !.pc = "get", !.t = t]
        /\ NoFault
     \/ RunningOn(c) = {} /\ NoFault /\ UNCHANGED loop
     \/ Fault /\ UNCHANGED loop
  /\ UNCHANGED <<task, events, claim, owner, pod, crashes,
                 listenerVars, sub, activeTasks>>

-----------------------------------------------------------------------------
(* Reconcile; an error returned is logged and nothing is queued again      *)

Done == loop' = IdleLoop

ReconcileGet ==
  /\ loop.pc = "get"
  /\ \/ /\ Exists(loop.t) /\ NoFault
        /\ loop' = [loop EXCEPT !.pc = "dispatch", !.snap = task[loop.t]]
     \/ ~Exists(loop.t) /\ NoFault /\ Done
     \/ Fault /\ Done
  /\ UNCHANGED <<task, events, claim, owner, pod, podEvents, crashes,
                 listenerVars, sub, activeTasks>>

(* Mutant of Write: the error of the update is ignored.                    *)
WriteIgnoringError(obj, next) ==
  /\ \E ok \in BOOLEAN : UpdateTask(loop.t, obj, ok)
  /\ loop' = [loop EXCEPT !.pc = next, !.snap = obj]
  /\ UNCHANGED <<claim, owner, pod, podEvents, crashes,
                 listenerVars, sub, activeTasks>>

(* updateTaskStatus in the loop: the local copy becomes the stored object. *)
Write(obj, next) ==
  /\ \/ /\ UpdateTask(loop.t, obj, TRUE)
        /\ loop' = [loop EXCEPT !.pc = next, !.snap = [obj EXCEPT !.rv = @ + 1]]
     \/ UpdateTask(loop.t, obj, FALSE) /\ Done
  /\ UNCHANGED <<claim, owner, pod, podEvents, crashes,
                 listenerVars, sub, activeTasks>>

WriteAndReturn(obj) ==
  /\ \E ok \in BOOLEAN : UpdateTask(loop.t, obj, ok)
  /\ Done
  /\ UNCHANGED <<claim, owner, pod, podEvents, crashes,
                 listenerVars, sub, activeTasks>>

Dispatch(state) == loop.pc = "dispatch" /\ loop.snap.state = state

(* The state becomes Pending and the same call goes on as for Pending.     *)
ReconcileInit ==
  /\ Dispatch("")
  /\ Write([loop.snap EXCEPT !.state = "Pending"], "dispatch")

ReconcilePending ==
  /\ Dispatch("Pending")
  /\ loop.t \in Valid
  /\ WriteAndReturn([loop.snap EXCEPT !.state = "Started"])

ReconcileInvalid ==
  /\ Dispatch("Pending")
  /\ loop.t \notin Valid
  /\ Done
  /\ UNCHANGED <<clusterVars, listenerVars, sub, activeTasks>>

(* Only the loop adds to activeTasks, so its test and its insertion, under *)
(* two holds of the lock, are one step.                                    *)
ReconcileStarted ==
  /\ Dispatch("Started")
  /\ \/ /\ loop.t \notin activeTasks
        /\ activeTasks' = activeTasks \union {loop.t}
        /\ sub' = [sub EXCEPT ![loop.t] = [NoSubmission EXCEPT !.pc = "get"]]
     \/ loop.t \in activeTasks /\ UNCHANGED <<activeTasks, sub>>
  /\ Done
  /\ UNCHANGED <<clusterVars, listenerVars>>

(* Mutant of ReconcileRunning: only a missing pod fails the task.          *)
ReconcileRunningIfGone ==
  LET c == loop.snap.claim
      goTo(pc) == loop' = [loop EXCEPT !.pc = pc] IN
  /\ Dispatch("Running")
  /\ \/ c = NoClaim /\ Done /\ NoFault
     \/ /\ c # NoClaim /\ NoFault
        /\ \/ pod[c] = "Gone" /\ goTo("fail")
           \/ pod[c] = "Succeeded" /\ goTo("complete")
           \/ pod[c] \in {"Ready", "Busy", "Failed"} /\ Done
     \/ c # NoClaim /\ Fault /\ Done
  /\ UNCHANGED <<task, events, claim, owner, pod, podEvents, crashes,
                 listenerVars, sub, activeTasks>>

(* The pod decides; the update is a later call.                            *)
ReconcileRunning ==
  LET c == loop.snap.claim
      goTo(pc) == loop' = [loop EXCEPT !.pc = pc] IN
  /\ Dispatch("Running")
  /\ \/ c = NoClaim /\ Done /\ NoFault
     \/ /\ c # NoClaim /\ NoFault
        /\ \/ pod[c] \in {"Gone", "Failed"} /\ goTo("fail")
           \/ pod[c] = "Succeeded" /\ goTo("complete")
           \/ pod[c] \in {"Ready", "Busy"} /\ Done
     \/ c # NoClaim /\ Fault /\ Done
  /\ UNCHANGED <<task, events, claim, owner, pod, podEvents, crashes,
                 listenerVars, sub, activeTasks>>

ReconcilePodFailed ==
  loop.pc = "fail" /\ WriteAndReturn([loop.snap EXCEPT !.state = "Failed"])

ReconcilePodSucceeded ==
  loop.pc = "complete" /\ WriteAndReturn([loop.snap EXCEPT !.state = "Completed"])

(* Mutant of CloseRecorded: an error of Close is logged and passed over.   *)
CloseRecordedAnyway(released, unrecorded) ==
  LET c == loop.snap.claim
      goTo(pc) == loop' = [loop EXCEPT !.pc = pc] IN
  /\ \/ c = NoClaim /\ goTo(unrecorded) /\ NoFault /\ UNCHANGED claim
     \/ c # NoClaim /\ (\E ok \in BOOLEAN : DeleteClaim(c, ok)) /\ goTo(released)
  /\ UNCHANGED <<task, events, owner, pod, podEvents, crashes,
                 listenerVars, sub, activeTasks>>

(* Close the recorded sandbox, if there is one, and go on to next; an      *)
(* error of Close ends the call.                                           *)
CloseRecorded(released, unrecorded) ==
  LET c == loop.snap.claim
      goTo(pc) == loop' = [loop EXCEPT !.pc = pc] IN
  /\ \/ c = NoClaim /\ goTo(unrecorded) /\ NoFault /\ UNCHANGED claim
     \/ c # NoClaim /\ DeleteClaim(c, TRUE) /\ goTo(released)
     \/ c # NoClaim /\ DeleteClaim(c, FALSE) /\ Done
  /\ UNCHANGED <<task, events, owner, pod, podEvents, crashes,
                 listenerVars, sub, activeTasks>>

(* Mutant of ReconcileCompleted: the task is deleted, its sandbox is not.  *)
ReconcileCompletedNoClose ==
  /\ Dispatch("Completed")
  /\ loop' = [loop EXCEPT !.pc = "delete"]
  /\ UNCHANGED <<clusterVars, listenerVars, sub, activeTasks>>

(* StateCompleted: close the sandbox, then delete the task.                *)
ReconcileCompleted == Dispatch("Completed") /\ CloseRecorded("delete", "delete")

ReconcileDelete ==
  /\ loop.pc = "delete"
  /\ Done
  /\ \/ Exists(loop.t) /\ Remove(loop.t) /\ NoFault
     \/ ~Exists(loop.t) /\ UNCHANGED task /\ NoFault
     \/ Fault /\ Exists(loop.t) /\ Remove(loop.t)
     \/ Fault /\ UNCHANGED task
  /\ UNCHANGED <<events, claim, owner, pod, podEvents, crashes,
                 listenerVars, sub, activeTasks>>

(* Mutant of ReconcileFailed: the sandbox is forgotten without a Close.    *)
ReconcileFailedNoClose ==
  /\ Dispatch("Failed")
  /\ loop' = [loop EXCEPT !.pc = IF loop.snap.claim = NoClaim THEN "retry"
                                                            ELSE "release"]
  /\ UNCHANGED <<clusterVars, listenerVars, sub, activeTasks>>

(* StateFailed: close the sandbox, then clear its record.                  *)
ReconcileFailed == Dispatch("Failed") /\ CloseRecorded("release", "retry")

(* Mutant of ReconcileRelease: the status keeps the names of the sandbox.  *)
ReconcileReleaseNothing ==
  /\ loop.pc = "release"
  /\ Write(loop.snap, "retry")

ReconcileRelease ==
  /\ loop.pc = "release"
  /\ Write([loop.snap EXCEPT !.claim = NoClaim], "retry")

(* Mutant of ReconcileRetry: one retry too many.                           *)
ReconcileRetryOffByOne ==
  /\ loop.pc = "retry"
  /\ loop.snap.retries <= MaxRetries
  /\ WriteAndReturn([loop.snap EXCEPT !.retries = @ + 1, !.state = "Started"])

ReconcileRetry ==
  /\ loop.pc = "retry"
  /\ loop.snap.retries < MaxRetries
  /\ WriteAndReturn([loop.snap EXCEPT !.retries = @ + 1, !.state = "Started"])

ReconcileExhausted ==
  /\ loop.pc = "retry"
  /\ loop.snap.retries >= MaxRetries
  /\ Done
  /\ UNCHANGED <<clusterVars, listenerVars, sub, activeTasks>>

Reconcile ==
  \/ ReconcileGet \/ ReconcileInit \/ ReconcilePending \/ ReconcileInvalid
  \/ ReconcileStarted \/ ReconcileRunning \/ ReconcilePodFailed
  \/ ReconcilePodSucceeded \/ ReconcileCompleted \/ ReconcileDelete
  \/ ReconcileFailed \/ ReconcileRelease \/ ReconcileRetry \/ ReconcileExhausted

-----------------------------------------------------------------------------
(* runSandboxSubmission and trySubmitToSandbox, one goroutine per task     *)

SubGoTo(t, pc) == sub' = [sub EXCEPT ![t].pc = pc]

(* Another round starts from a fresh copy of the task.                     *)
SubAgain(t) == sub' = [sub EXCEPT ![t] = [NoSubmission EXCEPT !.pc = "get"]]

SubExit(t) == sub' = [sub EXCEPT ![t] = [NoSubmission EXCEPT !.pc = "exit"]]

SubGet(t) ==
  /\ sub[t].pc = "get"
  /\ \/ /\ task[t].state = "Started" /\ NoFault
        /\ sub' = [sub EXCEPT ![t] = [NoSubmission EXCEPT !.pc = "create",
                                                          !.snap = task[t]]]
     \/ task[t].state # "Started" /\ SubExit(t) /\ NoFault
     \/ Fault /\ SubExit(t)
  /\ UNCHANGED <<task, events, claim, owner, pod, podEvents, crashes,
                 listenerVars, loop, activeTasks>>

SubCreate(t) ==
  /\ sub[t].pc = "create"
  /\ \/ \E c \in Claims :
          /\ claim[c] = "Unused"
          /\ claim' = [claim EXCEPT ![c] = "Live"]
          /\ owner' = [owner EXCEPT ![c] = t]
          /\ \/ NoFault /\ sub' = [sub EXCEPT ![t].pc = "await", ![t].claim = c]
             \/ Fault /\ SubAgain(t)
     \/ Fault /\ SubAgain(t) /\ UNCHANGED <<claim, owner>>
  /\ UNCHANGED <<task, events, pod, podEvents, crashes,
                 listenerVars, loop, activeTasks>>

(* CreateSandbox polls until the sandbox is ready, with no limit of time;  *)
(* an error of a poll deletes the claim, and an error of that is ignored.  *)
SubAwait(t) ==
  LET c == sub[t].claim IN
  /\ sub[t].pc = "await"
  /\ \/ pod[c] = "Ready" /\ SubGoTo(t, "tokens") /\ NoFault /\ UNCHANGED claim
     \/ /\ Fault /\ SubAgain(t)
        /\ claim' \in {claim, [claim EXCEPT ![c] = "Deleted"]}
  /\ UNCHANGED <<task, events, owner, pod, podEvents, crashes,
                 listenerVars, loop, activeTasks>>

SubTokens(t) ==
  /\ sub[t].pc = "tokens"
  /\ \/ GenerateTokens(t, sub[t].claim, TRUE) /\ SubGoTo(t, "submit")
     \/ GenerateTokens(t, sub[t].claim, FALSE) /\ SubGoTo(t, "close")
  /\ UNCHANGED <<task, events, claim, owner, pod, podEvents, crashes,
                 cb, tries, comments, loop, activeTasks>>

(* The deferred Close; its error is only logged.                           *)
SubClose(t) ==
  /\ sub[t].pc = "close"
  /\ \E ok \in BOOLEAN : DeleteClaim(sub[t].claim, ok)
  /\ SubAgain(t)
  /\ UNCHANGED <<task, events, owner, pod, podEvents, crashes,
                 listenerVars, loop, activeTasks>>

(* The err of SubmitTask shadows the one the deferred Close tests, so a    *)
(* refused submission leaves its sandbox open.                             *)
SubSubmit(t) ==
  /\ sub[t].pc = "submit"
  /\ \/ TaskHandler(t, sub[t].claim, TRUE) /\ SubGoTo(t, "update")
     \/ TaskHandler(t, sub[t].claim, FALSE) /\ SubAgain(t)
  /\ UNCHANGED <<task, events, claim, owner, crashes,
                 listenerVars, loop, activeTasks>>

(* The update to Running is of the version read before the sandbox was     *)
(* created; when it fails the goroutine ends all the same.                 *)
SubUpdate(t) ==
  LET obj == [sub[t].snap EXCEPT !.state = "Running", !.claim = sub[t].claim] IN
  /\ sub[t].pc = "update"
  /\ \E ok \in BOOLEAN : UpdateTask(t, obj, ok)
  /\ SubExit(t)
  /\ UNCHANGED <<claim, owner, pod, podEvents, crashes,
                 listenerVars, loop, activeTasks>>

SubReturn(t) ==
  /\ sub[t].pc = "exit"
  /\ sub' = [sub EXCEPT ![t] = NoSubmission]
  /\ activeTasks' = activeTasks \ {t}
  /\ UNCHANGED <<clusterVars, listenerVars, loop>>

Submission(t) ==
  \/ SubGet(t) \/ SubCreate(t) \/ SubAwait(t) \/ SubTokens(t) \/ SubClose(t)
  \/ SubSubmit(t) \/ SubUpdate(t) \/ SubReturn(t)

-----------------------------------------------------------------------------

(* Mutant of OrchestratorRestart: the new watches resume where the old     *)
(* ones were broken off, without the notifications that were in flight.    *)
OrchestratorResume ==
  /\ crashes < MaxCrashes
  /\ crashes' = crashes + 1
  /\ loop' = IdleLoop
  /\ sub' = [t \in Tasks |-> NoSubmission]
  /\ activeTasks' = {}
  /\ events' = [t \in Tasks |-> 0]
  /\ podEvents' = [c \in Claims |-> 0]
  /\ UNCHANGED <<task, claim, owner, pod, faults, listenerVars>>

(* The process is killed, or a watch channel closes and it ends itself.    *)
(* Its memory is gone; the new watches begin with every existing object.   *)
OrchestratorRestart ==
  /\ crashes < MaxCrashes
  /\ crashes' = crashes + 1
  /\ loop' = IdleLoop
  /\ sub' = [t \in Tasks |-> NoSubmission]
  /\ activeTasks' = {}
  /\ events' = [t \in Tasks |-> IF Exists(t) THEN 1 ELSE 0]
  /\ podEvents' = [c \in Claims |-> IF pod[c] \in {"None", "Gone"} THEN 0 ELSE 1]
  /\ UNCHANGED <<task, claim, owner, pod, faults, listenerVars>>

OrchestratorInit ==
  /\ loop = IdleLoop
  /\ sub = [t \in Tasks |-> NoSubmission]
  /\ activeTasks = {}

OrchestratorTypeOK ==
  /\ loop \in [pc : LoopPC, t : Tasks \union {NoTask}, snap : AgentTask]
  /\ sub \in [Tasks -> [pc : SubPC, snap : AgentTask, claim : Claims \union {NoClaim}]]
  /\ activeTasks \subseteq Tasks

==============================================================================
