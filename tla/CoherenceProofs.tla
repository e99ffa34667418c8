---------------------------- MODULE CoherenceProofs ----------------------------
(***************************************************************************)
(* Proofs that the local copies of a task stay coherent with the store,    *)
(* and that therefore nothing undoes a completion, for every set of tasks  *)
(* and claims and every bound.  The argument: a version only grows, every  *)
(* copy is taken from the store or made by a write that succeeded, and a   *)
(* write succeeds only on the version it was read at, so that the object   *)
(* it replaces is the copy it was decided on.                              *)
(***************************************************************************)
EXTENDS CloudAgentProofs

(* The inductive invariant: the names somebody holds resolve, no callback  *)
(* runs for a claim that may still get another owner, the copies are       *)
(* coherent, and each place holds a copy in the phases it may write from.  *)
LoopOK ==
  LoopHolds(loop.t) =>
    /\ Coherent(loop.t, loop.snap)
    /\ loop.pc = "dispatch" => loop.snap.state \in AgentTaskState
    /\ loop.pc \in {"complete", "fail"} => loop.snap.state = "Running"
    /\ loop.pc \in {"release", "retry"} => loop.snap.state = "Failed"
    /\ loop.pc = "delete" => loop.snap.state = "Completed"

SubOK(t) == SubHolds(t) => Coherent(t, sub[t].snap) /\ sub[t].snap.state = "Started"

CallbackOK(c, i) ==
  CallbackHolds(c, i) => /\ Coherent(owner[c], cb[c][i].snap)
                         /\ cb[c][i].snap.state \in AgentTaskState

Inv ==
  /\ Typed
  /\ NothingBeforeClaim
  /\ LoopOK
  /\ \A t \in Tasks : SubOK(t)
  /\ \A c \in Claims, i \in 1 .. MaxTries : CallbackOK(c, i)

(* A task is untouched or its version goes up by one.                      *)
VersionStep(t) == task'[t] = task[t] \/ task'[t].rv = task[t].rv + 1

-----------------------------------------------------------------------------
(* Updates                                                                 *)

(* A write replaces the version it was read at.                            *)
LEMMA UpdateReplaces ==
  ASSUME ClusterTypeOK, NEW t \in Tasks, NEW obj \in AgentTask, NEW ok \in BOOLEAN,
         UpdateTask(t, obj, ok)
  PROVE  /\ \A u \in Tasks : u # t => task'[u] = task[u]
         /\ VersionStep(t)
         /\ \/ task'[t] = task[t]
            \/ task[t].rv = obj.rv /\ task'[t] = [obj EXCEPT !.rv = @ + 1]
         /\ ok => task[t].rv = obj.rv /\ task'[t] = [obj EXCEPT !.rv = @ + 1]
<1>1. Store(t, obj) => /\ \A u \in Tasks : u # t => task'[u] = task[u]
                       /\ task[t].rv = obj.rv
                       /\ task'[t] = [obj EXCEPT !.rv = @ + 1]
  BY DEF Store, ClusterTypeOK
<1>2. [obj EXCEPT !.rv = @ + 1].rv = obj.rv + 1
  BY DEF AgentTask
<1>3. task' = task \/ Store(t, obj)
  BY DEF UpdateTask
<1>4. ok => Store(t, obj)
  BY DEF UpdateTask
<1> QED
  BY <1>1, <1>2, <1>3, <1>4 DEF VersionStep

(* Writing a copy with another state, claim or number of retries is        *)
(* writing over the version of the copy.                                   *)
LEMMA CopiesKeepVersion ==
  ASSUME NEW s \in AgentTask, NEW st, NEW c
  PROVE  /\ [s EXCEPT !.state = st].rv = s.rv
         /\ [s EXCEPT !.claim = c].rv = s.rv
         /\ [s EXCEPT !.state = st, !.claim = c].rv = s.rv
         /\ [s EXCEPT !.retries = @ + 1, !.state = st].rv = s.rv
BY DEF AgentTask

(* A copy that is not written stays coherent.                              *)
LEMMA CoherentKept ==
  ASSUME task \in [Tasks -> AgentTask], NEW t \in Tasks, NEW s \in AgentTask,
         Coherent(t, s), VersionStep(t)
  PROVE  /\ s.rv <= task'[t].rv
         /\ s.rv = task'[t].rv => s = task'[t]
<1>1. s.rv \in Nat /\ task[t].rv \in Nat
  BY DEF AgentTask
<1>2. CASE task'[t] = task[t]
  BY <1>2 DEF Coherent
<1>3. CASE task'[t].rv = task[t].rv + 1
  BY <1>1, <1>3 DEF Coherent
<1> QED BY <1>2, <1>3 DEF VersionStep

-----------------------------------------------------------------------------
(* Frames: what holds of a copy whose holder does not move, in a step of   *)
(* another that changes tasks only by writes.                              *)

LEMMA LoopKept ==
  ASSUME Inv, loop' = loop, \A t \in Tasks : VersionStep(t)
  PROVE  LoopOK'
<1>1. CASE LoopHolds(loop.t)
  <2>1. loop.t \in Tasks /\ loop.snap \in AgentTask /\ task \in [Tasks -> AgentTask]
    BY <1>1 DEF Inv, Typed, TypeOK, ClusterTypeOK, OrchestratorTypeOK, NamesResolve, LoopHolds
  <2>2. Coherent(loop.t, loop.snap)
    BY <1>1 DEF Inv, LoopOK
  <2>3. Coherent(loop.t, loop.snap)'
    BY <2>1, <2>2, CoherentKept DEF Coherent
  <2> QED
    BY <1>1, <2>3 DEF Inv, LoopOK, LoopHolds
<1>2. CASE ~LoopHolds(loop.t)
  BY <1>2 DEF LoopOK, LoopHolds
<1> QED BY <1>1, <1>2

LEMMA SubKept ==
  ASSUME Inv, NEW t \in Tasks, VersionStep(t),
         SubHolds(t)' => SubHolds(t) /\ sub'[t].snap = sub[t].snap
  PROVE  SubOK(t)'
<1>1. CASE SubHolds(t)'
  <2>0. SubHolds(t) /\ sub'[t].snap = sub[t].snap
    BY <1>1
  <2>1. sub[t].snap \in AgentTask /\ task \in [Tasks -> AgentTask]
    BY DEF Inv, Typed, TypeOK, ClusterTypeOK, OrchestratorTypeOK
  <2>2. Coherent(t, sub[t].snap) /\ sub[t].snap.state = "Started"
    BY <2>0 DEF Inv, SubOK
  <2>3. Coherent(t, sub[t].snap)'
    BY <2>0, <2>1, <2>2, CoherentKept DEF Coherent
  <2> QED
    BY <2>0, <2>2, <2>3 DEF SubOK
<1>2. CASE ~SubHolds(t)'
  BY <1>2 DEF SubOK
<1> QED BY <1>1, <1>2

LEMMA CallbackKept ==
  ASSUME Inv, NEW c \in Claims, NEW i \in 1 .. MaxTries,
         \A t \in Tasks : VersionStep(t),
         owner'[c] = owner[c] \/ claim[c] = "Unused",
         CallbackHolds(c, i)' =>
           CallbackHolds(c, i) /\ cb'[c][i].snap = cb[c][i].snap
  PROVE  CallbackOK(c, i)'
<1>1. CASE CallbackHolds(c, i)'
  <2>0. CallbackHolds(c, i) /\ cb'[c][i].snap = cb[c][i].snap
    BY <1>1
  <2>1. /\ cb[c][i].snap \in AgentTask /\ task \in [Tasks -> AgentTask]
        /\ owner[c] \in Tasks
    <3>1. cb \in [Claims -> [1 .. MaxTries -> CallbackType]] /\ task \in [Tasks -> AgentTask]
      BY DEF Inv, Typed, TypeOK, ClusterTypeOK, ListenerTypeOK, CallbackType
    <3>2. cb[c][i] \in CallbackType
      BY <3>1
    <3>3. owner[c] \in Tasks
      BY <2>0 DEF Inv, Typed, NamesResolve, CallbackHolds
    <3> QED
      BY <3>1, <3>2, <3>3 DEF CallbackType
  <2>2. Coherent(owner[c], cb[c][i].snap) /\ cb[c][i].snap.state \in AgentTaskState
    BY <2>0 DEF Inv, CallbackOK
  <2>3. owner'[c] = owner[c]
    BY <2>0 DEF Inv, NothingBeforeClaim, CallbackHolds
  <2>4. Coherent(owner[c], cb[c][i].snap)'
    BY <2>0, <2>1, <2>2, <2>3, CoherentKept DEF Coherent
  <2> QED
    BY <2>0, <2>2, <2>4 DEF CallbackOK
<1>2. CASE ~CallbackHolds(c, i)'
  BY <1>2 DEF CallbackOK
<1> QED BY <1>1, <1>2

-----------------------------------------------------------------------------
(* The event loop                                                          *)

LEMMA LoopTyped ==
  ASSUME Inv
  PROVE  /\ loop \in LoopType /\ loop.snap \in AgentTask
         /\ loop.pc # "idle" => loop.t \in Tasks
         /\ task \in [Tasks -> AgentTask]
BY DEF Inv, Typed, TypeOK, ClusterTypeOK, OrchestratorTypeOK, NamesResolve, LoopType

LEMMA LoopGoesTo ==
  ASSUME Inv, LoopHolds(loop.t), NEW pc \in LoopPC, loop' = [loop EXCEPT !.pc = pc],
         \A t \in Tasks : VersionStep(t)
  PROVE  /\ Coherent(loop.t, loop.snap)'
         /\ loop'.pc = pc /\ loop'.snap = loop.snap
<1>1. /\ loop.t \in Tasks /\ loop.snap \in AgentTask /\ loop \in LoopType
      /\ task \in [Tasks -> AgentTask]
  BY LoopTyped DEF LoopHolds
<1>2. /\ loop'.pc = pc /\ loop'.snap = loop.snap /\ loop'.t = loop.t
  BY <1>1, LoopMoves
<1>3. Coherent(loop.t, loop.snap)
  BY DEF Inv, LoopOK
<1> QED
  BY <1>1, <1>2, <1>3, CoherentKept DEF Coherent

(* An update by the loop replaces the object its copy was taken from.      *)
LEMMA LoopWrites ==
  ASSUME Inv, LoopHolds(loop.t), NEW obj \in AgentTask, obj.rv = loop.snap.rv,
         NEW ok \in BOOLEAN, UpdateTask(loop.t, obj, ok)
  PROVE  /\ \A t \in Tasks : VersionStep(t)
         /\ \A t \in Tasks : t # loop.t => task'[t] = task[t]
         /\ \/ task'[loop.t] = task[loop.t]
            \/ task[loop.t] = loop.snap /\ task'[loop.t] = [obj EXCEPT !.rv = @ + 1]
         /\ ok => task'[loop.t] = [obj EXCEPT !.rv = @ + 1]
<1>1. loop.t \in Tasks /\ ClusterTypeOK
  BY LoopTyped DEF LoopHolds, Inv, Typed, TypeOK
<1>2. Coherent(loop.t, loop.snap)
  BY DEF Inv, LoopOK
<1> QED
  BY <1>1, <1>2, UpdateReplaces DEF Coherent, VersionStep

LEMMA LoopWriteKeeps ==
  ASSUME Inv, LoopHolds(loop.t), NEW obj \in AgentTask, obj.rv = loop.snap.rv,
         NEW next \in LoopPC, Write(obj, next),
         next = "dispatch" => obj.state \in AgentTaskState,
         next = "retry" => obj.state = "Failed",
         next \in {"dispatch", "retry"}
  PROVE  LoopOK' /\ \A t \in Tasks : VersionStep(t)
<1> DEFINE stored == [obj EXCEPT !.rv = @ + 1]
<1>1. /\ stored \in AgentTask /\ stored.state = obj.state /\ stored.rv \in Nat
      /\ loop \in LoopType
  BY LoopTyped DEF AgentTask
<1>2. CASE UpdateTask(loop.t, obj, TRUE) /\ loop' = [loop EXCEPT !.pc = next, !.snap = stored]
  <2>1. task'[loop.t] = stored
    BY <1>2, LoopWrites
  <2> HIDE DEF stored
  <2>2. loop'.pc = next /\ loop'.snap = stored /\ loop'.t = loop.t
    BY <1>1, <1>2 DEF LoopType
  <2>3. Coherent(loop.t, loop.snap)'
    BY <1>1, <2>1, <2>2 DEF Coherent
  <2> QED
    BY <1>1, <1>2, <2>2, <2>3, LoopWrites DEF LoopOK
<1>3. CASE UpdateTask(loop.t, obj, FALSE) /\ Done
  BY <1>3, LoopWrites DEF Done, LoopOK, LoopHolds, IdleLoop
<1> QED BY <1>2, <1>3 DEF Write

LEMMA LoopWriteReturns ==
  ASSUME Inv, LoopHolds(loop.t), NEW obj \in AgentTask, obj.rv = loop.snap.rv,
         WriteAndReturn(obj)
  PROVE  LoopOK' /\ \A t \in Tasks : VersionStep(t)
BY LoopWrites DEF WriteAndReturn, Done, LoopOK, LoopHolds, IdleLoop

LEMMA ReconcileInv ==
  ASSUME Inv, Reconcile
  PROVE  LoopOK' /\ \A t \in Tasks : VersionStep(t)
<1>0. /\ loop \in LoopType /\ loop.snap \in AgentTask
      /\ loop.pc # "idle" => loop.t \in Tasks
      /\ task \in [Tasks -> AgentTask]
      /\ loop.pc \notin {"idle", "get"} <=> LoopHolds(loop.t)
  BY LoopTyped DEF LoopHolds
<1>i. loop' = IdleLoop => LoopOK'
  BY DEF LoopOK, LoopHolds, IdleLoop
<1>1. CASE ReconcileGet
  <2>1. UNCHANGED task
    BY <1>1 DEF ReconcileGet
  <2>2. CASE /\ Exists(loop.t)
             /\ loop' = [loop EXCEPT !.pc = "dispatch", !.snap = task[loop.t]]
    <3>1. task[loop.t] \in AgentTask /\ "dispatch" \in LoopPC
      BY <1>0, <1>1 DEF ReconcileGet, LoopPC
    <3>2. loop'.pc = "dispatch" /\ loop'.snap = task[loop.t] /\ loop'.t = loop.t
      <4> DEFINE copy == task[loop.t]
      <4>1. copy \in AgentTask /\ loop' = [loop EXCEPT !.pc = "dispatch", !.snap = copy]
        BY <2>2, <3>1
      <4> HIDE DEF copy
      <4>2. loop'.pc = "dispatch" /\ loop'.snap = copy /\ loop'.t = loop.t
        BY <1>0, <4>1 DEF LoopType
      <4> QED
        BY <4>2 DEF copy
    <3>3. Coherent(loop.t, loop.snap)' /\ loop'.snap.state \in AgentTaskState
      <4>1. task[loop.t].rv \in Nat
        BY <3>1 DEF AgentTask
      <4> QED
        BY <2>1, <2>2, <3>2, <4>1 DEF Coherent, Exists
    <3> QED
      BY <2>1, <3>2, <3>3 DEF LoopOK, VersionStep
  <2> QED
    BY <1>1, <1>i, <2>1, <2>2 DEF ReconcileGet, Done, VersionStep
<1>2. CASE ReconcileInit
  <2>1. [loop.snap EXCEPT !.state = "Pending"] \in AgentTask
    BY <1>0 DEF AgentTask, AgentTaskState
  <2>2. [loop.snap EXCEPT !.state = "Pending"].state \in AgentTaskState
    BY <1>0 DEF AgentTask, AgentTaskState
  <2> QED
    BY <1>0, <1>2, <2>1, <2>2, LoopWriteKeeps, CopiesKeepVersion DEF ReconcileInit, Dispatch, LoopPC
<1>3. CASE ReconcilePending
  <2>1. [loop.snap EXCEPT !.state = "Started"] \in AgentTask
    BY <1>0 DEF AgentTask, AgentTaskState
  <2> QED
    BY <1>0, <1>3, <2>1, LoopWriteReturns, CopiesKeepVersion DEF ReconcilePending, Dispatch
<1>4. CASE ReconcileInvalid \/ ReconcileStarted \/ ReconcileExhausted
  BY <1>4, <1>i DEF ReconcileInvalid, ReconcileStarted, ReconcileExhausted, Done,
     clusterVars, VersionStep
<1>5. CASE ReconcileRunning
  <2>1. \A t \in Tasks : VersionStep(t)
    BY <1>5 DEF ReconcileRunning, VersionStep
  <2>2. CASE \E pc \in {"complete", "fail"} : loop' = [loop EXCEPT !.pc = pc]
    <3>1. PICK pc \in {"complete", "fail"} : loop' = [loop EXCEPT !.pc = pc]
      BY <2>2
    <3>2. LoopHolds(loop.t) /\ loop.snap.state = "Running"
      BY <1>0, <1>5 DEF ReconcileRunning, Dispatch
    <3>3. Coherent(loop.t, loop.snap)' /\ loop'.pc = pc /\ loop'.snap = loop.snap
      BY <2>1, <3>1, <3>2, LoopGoesTo DEF LoopPC
    <3> QED
      BY <2>1, <3>2, <3>3 DEF LoopOK
  <2> QED
    BY <1>5, <1>i, <2>1, <2>2 DEF ReconcileRunning, Done
<1>6. CASE ReconcilePodFailed
  <2>1. [loop.snap EXCEPT !.state = "Failed"] \in AgentTask
    BY <1>0 DEF AgentTask, AgentTaskState
  <2> QED
    BY <1>0, <1>6, <2>1, LoopWriteReturns, CopiesKeepVersion DEF ReconcilePodFailed
<1>7. CASE ReconcilePodSucceeded
  <2>1. [loop.snap EXCEPT !.state = "Completed"] \in AgentTask
    BY <1>0 DEF AgentTask, AgentTaskState
  <2> QED
    BY <1>0, <1>7, <2>1, LoopWriteReturns, CopiesKeepVersion DEF ReconcilePodSucceeded
<1>8. CASE ReconcileCompleted \/ ReconcileFailed
  <2>1. \A t \in Tasks : VersionStep(t)
    BY <1>8 DEF ReconcileCompleted, ReconcileFailed, CloseRecorded, VersionStep
  <2>2. CASE \E pc \in {"release", "retry"} :
               ReconcileFailed /\ loop' = [loop EXCEPT !.pc = pc]
    <3>1. PICK pc \in {"release", "retry"} : loop' = [loop EXCEPT !.pc = pc]
      BY <2>2
    <3>2. LoopHolds(loop.t) /\ loop.snap.state = "Failed"
      BY <1>0, <2>2 DEF ReconcileFailed, Dispatch
    <3>3. Coherent(loop.t, loop.snap)' /\ loop'.pc = pc /\ loop'.snap = loop.snap
      BY <2>1, <3>1, <3>2, LoopGoesTo DEF LoopPC
    <3> QED
      BY <2>1, <3>2, <3>3 DEF LoopOK
  <2>3. CASE ReconcileCompleted /\ loop' = [loop EXCEPT !.pc = "delete"]
    <3>1. LoopHolds(loop.t) /\ loop.snap.state = "Completed"
      BY <1>0, <2>3 DEF ReconcileCompleted, Dispatch
    <3>2. Coherent(loop.t, loop.snap)' /\ loop'.pc = "delete" /\ loop'.snap = loop.snap
      BY <2>1, <2>3, <3>1, LoopGoesTo DEF LoopPC
    <3> QED
      BY <2>1, <3>1, <3>2 DEF LoopOK
  <2> QED
    BY <1>8, <1>i, <2>1, <2>2, <2>3 DEF ReconcileCompleted, ReconcileFailed, CloseRecorded, Done
<1>9. CASE ReconcileDelete
  <2>1. Remove(loop.t) => \A t \in Tasks : VersionStep(t)
    <3> SUFFICES ASSUME Remove(loop.t), NEW t \in Tasks PROVE VersionStep(t)
      OBVIOUS
    <3> DEFINE removed == [task[loop.t] EXCEPT !.state = "Deleted", !.claim = NoClaim,
                                               !.rv = @ + 1]
    <3>1. removed.rv = task[loop.t].rv + 1
      BY <1>0, <1>9 DEF ReconcileDelete, AgentTask
    <3>2. task' = [task EXCEPT ![loop.t] = removed]
      BY DEF Remove
    <3> HIDE DEF removed
    <3> QED
      BY <1>0, <3>1, <3>2 DEF VersionStep
  <2> QED
    BY <1>9, <1>i, <2>1 DEF ReconcileDelete, Done, VersionStep
<1>10. CASE ReconcileRelease
  <2>1. /\ [loop.snap EXCEPT !.claim = NoClaim] \in AgentTask
        /\ [loop.snap EXCEPT !.claim = NoClaim].state = loop.snap.state
    BY <1>0 DEF AgentTask
  <2>2. loop.snap.state = "Failed"
    BY <1>0, <1>10 DEF Inv, LoopOK, ReconcileRelease
  <2> QED
    BY <1>0, <1>10, <2>1, <2>2, LoopWriteKeeps, CopiesKeepVersion DEF ReconcileRelease, LoopPC
<1>11. CASE ReconcileRetry
  <2>1. loop.snap.retries + 1 \in 0 .. MaxRetries
    BY <1>0, <1>11, ClusterAssumption DEF AgentTask, ReconcileRetry
  <2>2. [loop.snap EXCEPT !.retries = @ + 1, !.state = "Started"] \in AgentTask
    BY <1>0, <2>1 DEF AgentTask, AgentTaskState
  <2> QED
    BY <1>0, <1>11, <2>2, LoopWriteReturns, CopiesKeepVersion DEF ReconcileRetry
<1> QED
  BY <1>1, <1>2, <1>3, <1>4, <1>5, <1>6, <1>7, <1>8, <1>9, <1>10, <1>11 DEF Reconcile

-----------------------------------------------------------------------------
(* The submission goroutines                                               *)

(* The update to Running replaces the object the copy was taken from.      *)
LEMMA SubWrites ==
  ASSUME Inv, NEW t \in Tasks, SubUpdate(t)
  PROVE  /\ \A u \in Tasks : VersionStep(u)
         /\ \A u \in Tasks : u # t => task'[u] = task[u]
         /\ \/ task'[t] = task[t]
            \/ /\ task[t] = sub[t].snap /\ task[t].state = "Started"
               /\ task'[t].state = "Running" /\ task'[t].claim = sub[t].claim
<1> DEFINE obj == [sub[t].snap EXCEPT !.state = "Running", !.claim = sub[t].claim]
<1>1. ClusterTypeOK /\ sub[t] \in SubType
  BY DEF Inv, Typed, TypeOK, OrchestratorTypeOK, SubType
<1>2. /\ obj \in AgentTask /\ obj.rv = sub[t].snap.rv
      /\ [obj EXCEPT !.rv = @ + 1].state = "Running"
      /\ [obj EXCEPT !.rv = @ + 1].claim = sub[t].claim
  BY <1>1 DEF SubType, AgentTask, AgentTaskState
<1>3. Coherent(t, sub[t].snap) /\ sub[t].snap.state = "Started"
  BY DEF Inv, SubOK, SubHolds, SubUpdate
<1>4. \E ok \in BOOLEAN : UpdateTask(t, obj, ok)
  BY DEF SubUpdate
<1> HIDE DEF obj
<1>5. PICK ok \in BOOLEAN : UpdateTask(t, obj, ok)
  BY <1>4
<1>6. /\ \A u \in Tasks : u # t => task'[u] = task[u]
      /\ VersionStep(t)
      /\ \/ task'[t] = task[t]
         \/ task[t].rv = obj.rv /\ task'[t] = [obj EXCEPT !.rv = @ + 1]
  BY <1>1, <1>2, <1>5, UpdateReplaces
<1>7. \A u \in Tasks : VersionStep(u)
  BY <1>6 DEF VersionStep
<1>8. task[t].rv = obj.rv => task[t] = sub[t].snap
  BY <1>2, <1>3 DEF Coherent
<1> QED
  BY <1>2, <1>3, <1>6, <1>7, <1>8

LEMMA SubmissionInv ==
  ASSUME Inv, NEW t \in Tasks, Submission(t)
  PROVE  (\A u \in Tasks : SubOK(u)') /\ \A u \in Tasks : VersionStep(u)
<1>0. sub \in [Tasks -> SubType] /\ task \in [Tasks -> AgentTask]
  BY DEF Inv, Typed, TypeOK, ClusterTypeOK, OrchestratorTypeOK, SubType
<1>1. \A u \in Tasks : VersionStep(u)
  BY SubWrites DEF Submission, SubGet, SubCreate, SubAwait, SubTokens, SubClose, SubSubmit,
     SubReturn, clusterVars, VersionStep
<1>2. CASE /\ SubGet(t) /\ task[t].state = "Started" /\ UNCHANGED task
           /\ sub' = [sub EXCEPT ![t] = [NoSubmission EXCEPT !.pc = "create",
                                                            !.snap = task[t]]]
  <2>1. sub'[t].snap = task[t] /\ task[t].rv \in Nat
    BY <1>0, <1>2 DEF NoSubmission, AgentTask
  <2>2. SubOK(t)'
    BY <1>2, <2>1 DEF SubOK, Coherent
  <2>3. \A u \in Tasks : u # t => sub'[u] = sub[u]
    BY <1>0, <1>2
  <2>4. \A u \in Tasks : u # t => SubOK(u)'
    BY <1>1, <2>3, SubKept DEF SubHolds
  <2> QED
    BY <1>1, <2>2, <2>4
<1>3. CASE \A u \in Tasks : SubHolds(u)' => SubHolds(u) /\ sub'[u].snap = sub[u].snap
  BY <1>1, <1>3, SubKept
<1>4. SubGet(t) \/ SubUpdate(t) \/ SubReturn(t) =>
        \/ SubGet(t) /\ task[t].state = "Started" /\ UNCHANGED task
           /\ sub' = [sub EXCEPT ![t] = [NoSubmission EXCEPT !.pc = "create",
                                                            !.snap = task[t]]]
        \/ \E v \in SubType : sub' = [sub EXCEPT ![t] = v] /\ v.pc \in {"none", "exit"}
  <2>1. /\ NoSubmission \in SubType /\ [NoSubmission EXCEPT !.pc = "exit"] \in SubType
        /\ NoSubmission.pc = "none" /\ [NoSubmission EXCEPT !.pc = "exit"].pc = "exit"
    BY InitialValues DEF NoSubmission, SubType, SubPC
  <2> QED
    BY <2>1 DEF SubGet, SubUpdate, SubReturn, SubExit
<1>5. SubCreate(t) \/ SubAwait(t) \/ SubTokens(t) \/ SubClose(t) \/ SubSubmit(t) =>
        /\ SubHolds(t)
        /\ \/ \E v \in SubType : sub' = [sub EXCEPT ![t] = v] /\ v.snap = sub[t].snap
           \/ \E v \in SubType : sub' = [sub EXCEPT ![t] = v] /\ v.pc = "get"
  <2>1. LET v == [NoSubmission EXCEPT !.pc = "get"] IN v \in SubType /\ v.pc = "get"
    BY InitialValues DEF NoSubmission, SubType, SubPC
  <2>2. SubAgain(t) => \E v \in SubType : sub' = [sub EXCEPT ![t] = v] /\ v.pc = "get"
    BY <2>1 DEF SubAgain
  <2>3. ASSUME NEW p \in SubPC, SubGoTo(t, p)
        PROVE  \E v \in SubType : sub' = [sub EXCEPT ![t] = v] /\ v.snap = sub[t].snap
    <3>1. LET v == [sub[t] EXCEPT !.pc = p] IN v \in SubType /\ v.snap = sub[t].snap
      BY <1>0 DEF SubType
    <3> QED
      BY <2>3, <3>1 DEF SubGoTo
  <2>4. ASSUME NEW c \in Claims, sub' = [sub EXCEPT ![t].pc = "await", ![t].claim = c]
        PROVE  \E v \in SubType : sub' = [sub EXCEPT ![t] = v] /\ v.snap = sub[t].snap
    <3>1. LET v == [sub[t] EXCEPT !.pc = "await", !.claim = c]
          IN  v \in SubType /\ v.snap = sub[t].snap
      BY <1>0 DEF SubType, SubPC
    <3>2. sub' = [sub EXCEPT ![t] = [sub[t] EXCEPT !.pc = "await", !.claim = c]]
      BY <1>0, <2>4
    <3> QED
      BY <3>1, <3>2
  <2>5. {"tokens", "submit", "close", "update"} \subseteq SubPC
    BY DEF SubPC
  <2> QED
    BY <2>2, <2>3, <2>4, <2>5 DEF SubCreate, SubAwait, SubTokens, SubClose, SubSubmit, SubHolds
<1>6. CASE \E v \in SubType : /\ sub' = [sub EXCEPT ![t] = v]
                              /\ \/ v.pc \in {"none", "exit", "get"}
                                 \/ SubHolds(t) /\ v.snap = sub[t].snap
  <2>1. \A u \in Tasks : SubHolds(u)' => SubHolds(u) /\ sub'[u].snap = sub[u].snap
    BY <1>0, <1>6 DEF SubHolds
  <2> QED
    BY <1>3, <2>1
<1> QED
  BY <1>2, <1>4, <1>5, <1>6 DEF Submission

-----------------------------------------------------------------------------
(* The callback handlers                                                   *)

(* The update to Completed replaces the object the copy was taken from.    *)
LEMMA CallbackWrites ==
  ASSUME Inv, NEW c \in Claims, NEW i \in 1 .. MaxTries, CallbackComplete(c, i)
  PROVE  /\ \A u \in Tasks : VersionStep(u)
         /\ \A u \in Tasks : u # owner[c] => task'[u] = task[u]
         /\ \/ task'[owner[c]] = task[owner[c]]
            \/ /\ task[owner[c]] = cb[c][i].snap
               /\ task[owner[c]].state \in AgentTaskState
               /\ task'[owner[c]] = [cb[c][i].snap EXCEPT !.state = "Completed", !.rv = @ + 1]
<1> DEFINE obj == [cb[c][i].snap EXCEPT !.state = "Completed"]
<1>1. ClusterTypeOK /\ cb \in [Claims -> [1 .. MaxTries -> CallbackType]]
  BY DEF Inv, Typed, TypeOK, ListenerTypeOK, CallbackType
<1>2. cb[c][i].snap \in AgentTask
  BY <1>1 DEF CallbackType
<1>3. /\ obj \in AgentTask /\ obj.rv = cb[c][i].snap.rv
      /\ [obj EXCEPT !.rv = @ + 1] = [cb[c][i].snap EXCEPT !.state = "Completed", !.rv = @ + 1]
  BY <1>2 DEF AgentTask, AgentTaskState
<1>4. /\ Coherent(owner[c], cb[c][i].snap) /\ cb[c][i].snap.state \in AgentTaskState
      /\ owner[c] \in Tasks
  BY DEF Inv, CallbackOK, CallbackHolds, CallbackComplete, Typed, NamesResolve
<1>5. (\E ok \in BOOLEAN : UpdateTask(owner[c], obj, ok)) \/ UNCHANGED task
  BY DEF CallbackComplete
<1> HIDE DEF obj
<1> QED
  BY <1>1, <1>3, <1>4, <1>5, UpdateReplaces DEF Coherent, VersionStep

LEMMA HandleInv ==
  ASSUME Inv, NEW c \in Claims, NEW i \in 1 .. MaxTries, Handle(c, i)
  PROVE  /\ \A d \in Claims, j \in 1 .. MaxTries : CallbackOK(d, j)'
         /\ \A u \in Tasks : VersionStep(u)
<1>0. /\ cb \in [Claims -> [1 .. MaxTries -> CallbackType]] /\ task \in [Tasks -> AgentTask]
      /\ cb[c][i] \in CallbackType
  <2>1. cb \in [Claims -> [1 .. MaxTries -> CallbackType]] /\ task \in [Tasks -> AgentTask]
    BY DEF Inv, Typed, TypeOK, ClusterTypeOK, ListenerTypeOK, CallbackType
  <2> QED
    BY <2>1
<1>1. \A u \in Tasks : VersionStep(u)
  <2>1. CallbackComplete(c, i) \/ UNCHANGED task
    BY DEF Handle, Callback, CallbackGet, CallbackVerify, CallbackConsume, CallbackComment
  <2> QED
    BY <2>1, CallbackWrites DEF VersionStep
<1>2. UNCHANGED owner
  BY DEF Handle, Callback, CallbackGet, CallbackVerify, CallbackConsume, CallbackComment,
     CallbackComplete
<1>3. ASSUME NEW d \in Claims, NEW j \in 1 .. MaxTries, <<d, j>> # <<c, i>>
      PROVE  CallbackOK(d, j)'
  <2>1. cb' = [cb EXCEPT ![c][i] = cb'[c][i]] \/ UNCHANGED cb
    <3>1. ASSUME NEW p, Conclude(c, i, p) \/ Proceed(c, i, p)
          PROVE  cb' = [cb EXCEPT ![c][i] = cb'[c][i]]
      BY <1>0, <3>1 DEF Conclude, Proceed
    <3>2. CallbackGet(c, i) => cb' = [cb EXCEPT ![c][i] = cb'[c][i]]
      BY <1>0, <3>1 DEF CallbackGet
    <3> QED
      BY <3>1, <3>2 DEF Handle, Callback, CallbackVerify, CallbackConsume, CallbackComment,
         CallbackComplete
  <2>2. cb'[d][j] = cb[d][j]
    BY <1>0, <1>3, <2>1
  <2> QED
    BY <1>1, <1>2, <2>2, CallbackKept DEF CallbackHolds
<1>4. CallbackOK(c, i)'
  <2>1. CASE /\ UNCHANGED task /\ Exists(owner[c]) /\ owner[c] \in Tasks
             /\ cb' = [cb EXCEPT ![c][i] = [pc |-> "verify", snap |-> task[owner[c]]]]
    <3>1. cb'[c][i].snap = task[owner[c]] /\ task[owner[c]].rv \in Nat
      BY <1>0, <2>1 DEF AgentTask
    <3>2. task'[owner'[c]] = cb'[c][i].snap
      BY <1>2, <2>1, <3>1
    <3> QED
      BY <2>1, <3>1, <3>2 DEF CallbackOK, Coherent, Exists
  <2>2. CASE \E p \in {"ok", "error"} : Conclude(c, i, p)
    <3>1. PICK p \in {"ok", "error"} : Conclude(c, i, p)
      BY <2>2
    <3>2. p \in CallbackPC
      BY DEF CallbackPC
    <3>3. cb'[c][i].pc = p
      BY <1>0, <3>1, <3>2, CallbackMoves
    <3> QED
      BY <3>3 DEF CallbackOK, CallbackHolds
  <2>3. CASE CallbackHolds(c, i) /\ \E p \in CallbackPC : Proceed(c, i, p)
    <3>1. cb'[c][i].snap = cb[c][i].snap
      BY <1>0, <2>3 DEF Proceed, CallbackType
    <3> QED
      BY <1>1, <1>2, <2>3, <3>1, CallbackKept
  <2>4. CallbackGet(c, i) => owner[c] \in Tasks
    BY DEF CallbackGet, Inv, Typed, NamesResolve
  <2> QED
    BY <2>1, <2>2, <2>3, <2>4 DEF Handle, Callback, CallbackGet, CallbackVerify,
       CallbackConsume, CallbackComment, CallbackComplete, CallbackHolds, CallbackPC
<1> QED
  BY <1>1, <1>3, <1>4

-----------------------------------------------------------------------------
(* All steps together                                                      *)

(* Every step but one of the loop leaves its copy alone or lets go of it.  *)
LEMMA OthersLeaveLoop ==
  ASSUME Next, ~Reconcile
  PROVE  loop' = loop \/ ~LoopHolds(loop.t)'
<1>1. /\ IdleLoop.pc = "idle"
      /\ \A t \in Tasks : [IdleLoop EXCEPT !.pc = "get", !.t = t].pc = "get"
  BY DEF IdleLoop
<1>2. Watch => loop' = loop \/ ~LoopHolds(loop.t)'
  BY <1>1 DEF Watch, HandleTaskEvent, HandlePodEvent, RunningOn, LoopHolds
<1>3. Disturb => loop' = loop \/ ~LoopHolds(loop.t)'
  BY <1>1 DEF Disturb, OrchestratorRestart, LoopHolds, orchestratorVars
<1>4. \A t \in Tasks : Submission(t) => loop' = loop
  BY DEF Submission, SubGet, SubCreate, SubAwait, SubTokens, SubClose, SubSubmit, SubUpdate,
     SubReturn
<1>5. Create \/ (\E c \in Claims, i \in 1 .. MaxTries : Handle(c, i))
      \/ (\E c \in Claims : Run(c) \/ Provision(c)) => loop' = loop
  BY DEF Create, Handle, Run, Provision, orchestratorVars
<1> QED
  BY <1>2, <1>3, <1>4, <1>5 DEF Next

(* ... every step but one of a goroutine leaves the goroutines their copies *)
LEMMA OthersLeaveSubs ==
  ASSUME Typed, Next, ~\E t \in Tasks : Submission(t), NEW u \in Tasks
  PROVE  SubHolds(u)' => SubHolds(u) /\ sub'[u].snap = sub[u].snap
<1>0. sub \in [Tasks -> SubType]
  BY DEF Typed, TypeOK, OrchestratorTypeOK, SubType
<1>1. /\ NoSubmission.pc = "none"
      /\ [NoSubmission EXCEPT !.pc = "get"].pc = "get"
  BY DEF NoSubmission
<1>2. UNCHANGED sub => (SubHolds(u)' => SubHolds(u) /\ sub'[u].snap = sub[u].snap)
  BY DEF SubHolds
<1>3. Reconcile => (SubHolds(u)' => SubHolds(u) /\ sub'[u].snap = sub[u].snap)
  <2>1. ReconcileStarted => (SubHolds(u)' => SubHolds(u) /\ sub'[u].snap = sub[u].snap)
    BY <1>0, <1>1 DEF ReconcileStarted, SubHolds
  <2>2. Reconcile => ReconcileStarted \/ UNCHANGED sub
    BY DEF Reconcile, ReconcileGet, ReconcileInit, ReconcilePending, ReconcileInvalid,
       ReconcileRunning, ReconcilePodFailed, ReconcilePodSucceeded, ReconcileCompleted,
       ReconcileDelete, ReconcileFailed, ReconcileRelease, ReconcileRetry,
       ReconcileExhausted, CloseRecorded, Write, WriteAndReturn
  <2> QED
    BY <1>2, <2>1, <2>2
<1>4. Disturb => (SubHolds(u)' => SubHolds(u) /\ sub'[u].snap = sub[u].snap)
  BY <1>1, <1>2 DEF Disturb, OrchestratorRestart, SubHolds, orchestratorVars
<1>5. Create \/ Watch \/ (\E c \in Claims, i \in 1 .. MaxTries : Handle(c, i))
      \/ (\E c \in Claims : Run(c) \/ Provision(c)) => UNCHANGED sub
  BY DEF Create, Watch, HandleTaskEvent, HandlePodEvent, Handle, Run, Provision,
     orchestratorVars
<1> QED
  BY <1>2, <1>3, <1>4, <1>5 DEF Next

(* ... and every step but one of a handler leaves the handlers theirs.     *)
LEMMA OthersLeaveCallbacks ==
  ASSUME Typed, Next, ~\E c \in Claims, i \in 1 .. MaxTries : Handle(c, i),
         NEW d \in Claims, NEW j \in 1 .. MaxTries
  PROVE  CallbackHolds(d, j)' => CallbackHolds(d, j) /\ cb'[d][j].snap = cb[d][j].snap
<1> DEFINE Left == CallbackHolds(d, j)' =>
                     CallbackHolds(d, j) /\ cb'[d][j].snap = cb[d][j].snap
<1>0. cb \in [Claims -> [1 .. MaxTries -> CallbackType]] /\ tries \in [Claims -> 0 .. MaxTries]
  BY DEF Typed, TypeOK, ListenerTypeOK, CallbackType
<1>1. UNCHANGED cb => Left
  BY DEF CallbackHolds
<1>2. ASSUME NEW c \in Claims, NEW i \in 1 .. MaxTries, SendCallback(c, i) PROVE Left
  <2>1. Proceed(c, i, "received") /\ "received" \in CallbackPC
    BY <1>2 DEF SendCallback, Proceed, CallbackPC
  <2>2. cb'[c][i].pc = "received"
    BY <1>0, <2>1, CallbackMoves
  <2>3. <<d, j>> # <<c, i>> => cb'[d][j] = cb[d][j]
    BY <1>0, <2>1, CallbackMoves
  <2> QED
    BY <2>2, <2>3 DEF CallbackHolds
<1>3. \A c \in Claims : TryAgain(c) => Left
  <2>1. \A c \in Claims : TryAgain(c) =>
          UNCHANGED cb \/ \E i \in 1 .. MaxTries : SendCallback(c, i)
    BY <1>0, ClusterAssumption DEF TryAgain
  <2> QED
    BY <1>1, <1>2, <2>1
<1>4. (\E c \in Claims : Run(c)) => Left
  <2>1. 1 \in 1 .. MaxTries
    BY ClusterAssumption
  <2> QED
    BY <1>1, <1>2, <1>3, <2>1 DEF Run, Runner, RunnerFails, RunnerReports, RunnerHears,
       listenerVars
<1>5. Disturb => Left
  <2>1. ListenerRestart => Left
    <3>1. ListenerRestart => \/ cb'[d][j] = cb[d][j]
                             \/ cb'[d][j] = [pc |-> "error", snap |-> NoAgentTask]
      BY <1>0 DEF ListenerRestart
    <3> QED
      BY <3>1 DEF CallbackHolds
  <2> QED
    BY <1>1, <1>3, <2>1 DEF Disturb, LosePod, RunnerLosesCall, LoseToken,
       OrchestratorRestart, listenerVars
<1>6. Reconcile => UNCHANGED cb
  BY DEF Reconcile, ReconcileGet, ReconcileInit, ReconcilePending, ReconcileInvalid,
     ReconcileStarted, ReconcileRunning, ReconcilePodFailed, ReconcilePodSucceeded,
     ReconcileCompleted, ReconcileDelete, ReconcileFailed, ReconcileRelease, ReconcileRetry,
     ReconcileExhausted, CloseRecorded, Write, WriteAndReturn, listenerVars
<1>7. \A t \in Tasks : Submission(t) => UNCHANGED cb
  BY DEF Submission, SubGet, SubCreate, SubAwait, SubTokens, SubClose, SubSubmit, SubUpdate,
     SubReturn, listenerVars
<1>8. Create \/ Watch \/ (\E c \in Claims : Provision(c)) => UNCHANGED cb
  BY DEF Create, CreateTask, Watch, HandleTaskEvent, HandlePodEvent, Provision, listenerVars
<1> QED
  BY <1>1, <1>4, <1>5, <1>6, <1>7, <1>8 DEF Next

(* No step takes a version back.                                           *)
LEMMA VersionsAdvance ==
  ASSUME Inv, Next
  PROVE  \A t \in Tasks : VersionStep(t)
<1>1. CASE Create
  <2>1. PICK u \in Tasks, s \in AgentTaskState : CreateTask(u, s)
    BY <1>1 DEF Create, AgentTaskState
  <2> DEFINE obj == [NoAgentTask EXCEPT !.state = s, !.rv = task[u].rv + 1]
  <2>2. obj.rv = task[u].rv + 1 /\ task' = [task EXCEPT ![u] = obj]
    BY <2>1 DEF CreateTask, NoAgentTask
  <2> HIDE DEF obj
  <2>3. task \in [Tasks -> AgentTask]
    BY DEF Inv, Typed, TypeOK, ClusterTypeOK
  <2> QED
    BY <2>2, <2>3 DEF VersionStep
<1>2. CASE Watch \/ (\E c \in Claims : Run(c) \/ Provision(c)) \/ Disturb
  <2>1. UNCHANGED task
    BY <1>2 DEF Watch, HandleTaskEvent, HandlePodEvent, Run, Runner, RunnerFails,
       RunnerReports, RunnerHears, Provision, BindSandbox, RemovePod, Disturb, LosePod,
       RunnerLosesCall, LoseToken, ListenerRestart, OrchestratorRestart, clusterVars
  <2> QED
    BY <2>1 DEF VersionStep
<1> QED
  BY <1>1, <1>2, ReconcileInv, SubmissionInv, HandleInv DEF Next

(* A claim is given its owner when it is created, and keeps it.            *)
LEMMA OwnersKept ==
  ASSUME Inv, Next
  PROVE  \A c \in Claims : owner'[c] = owner[c] \/ claim[c] = "Unused"
<1>1. CASE \E t \in Tasks : SubCreate(t)
  <2>1. owner \in [Claims -> Tasks \union {NoTask}]
    BY DEF Inv, Typed, TypeOK, ClusterTypeOK
  <2> QED
    BY <1>1, <2>1 DEF SubCreate
<1>2. (\E t \in Tasks : Submission(t)) => UNCHANGED owner \/ \E t \in Tasks : SubCreate(t)
  BY DEF Submission, SubGet, SubAwait, SubTokens, SubClose, SubSubmit, SubUpdate,
     SubReturn, clusterVars
<1>3. Reconcile => UNCHANGED owner
  BY DEF Reconcile, ReconcileGet, ReconcileInit, ReconcilePending, ReconcileInvalid,
     ReconcileStarted, ReconcileRunning, ReconcilePodFailed, ReconcilePodSucceeded,
     ReconcileCompleted, ReconcileDelete, ReconcileFailed, ReconcileRelease, ReconcileRetry,
     ReconcileExhausted, CloseRecorded, Write, WriteAndReturn, clusterVars
<1>4. (\E c \in Claims, i \in 1 .. MaxTries : Handle(c, i)) => UNCHANGED owner
  BY DEF Handle, Callback, CallbackGet, CallbackVerify, CallbackConsume, CallbackComment,
     CallbackComplete
<1>5. Create \/ Watch \/ (\E c \in Claims : Run(c) \/ Provision(c)) \/ Disturb
        => UNCHANGED owner
  BY DEF Create, CreateTask, Watch, HandleTaskEvent, HandlePodEvent, Run, Runner,
     RunnerFails, RunnerReports, RunnerHears, Provision, BindSandbox, RemovePod, Disturb,
     LosePod, RunnerLosesCall, LoseToken, ListenerRestart, OrchestratorRestart, clusterVars
<1> QED
  BY <1>1, <1>2, <1>3, <1>4, <1>5 DEF Next

(* A claim is never unused again.                                          *)
LEMMA ClaimsUsed ==
  ASSUME Inv, Next, NEW c \in Claims, claim'[c] = "Unused"
  PROVE  claim[c] = "Unused"
<1>0. claim \in [Claims -> ClaimState]
  BY DEF Inv, Typed, TypeOK, ClusterTypeOK
<1>1. ASSUME NEW d, NEW ok, DeleteClaim(d, ok) PROVE claim[c] = "Unused"
  BY <1>0, <1>1 DEF DeleteClaim
<1>2. (\E t \in Tasks : Submission(t)) => claim[c] = "Unused"
  BY <1>0, <1>1 DEF Submission, SubGet, SubCreate, SubAwait, SubTokens, SubClose,
     SubSubmit, SubUpdate, SubReturn, clusterVars
<1>3. Reconcile => claim[c] = "Unused"
  BY <1>1 DEF Reconcile, ReconcileGet, ReconcileInit, ReconcilePending, ReconcileInvalid,
     ReconcileStarted, ReconcileRunning, ReconcilePodFailed, ReconcilePodSucceeded,
     ReconcileCompleted, ReconcileDelete, ReconcileFailed, ReconcileRelease, ReconcileRetry,
     ReconcileExhausted, CloseRecorded, Write, WriteAndReturn, clusterVars
<1>4. (\E d \in Claims, i \in 1 .. MaxTries : Handle(d, i)) => UNCHANGED claim
  BY DEF Handle, Callback, CallbackGet, CallbackVerify, CallbackConsume, CallbackComment,
     CallbackComplete
<1>5. Create \/ Watch \/ (\E d \in Claims : Run(d) \/ Provision(d)) \/ Disturb
        => UNCHANGED claim
  BY DEF Create, CreateTask, Watch, HandleTaskEvent, HandlePodEvent, Run, Runner,
     RunnerFails, RunnerReports, RunnerHears, Provision, BindSandbox, RemovePod, Disturb,
     LosePod, RunnerLosesCall, LoseToken, ListenerRestart, OrchestratorRestart, clusterVars
<1> QED
  BY <1>2, <1>3, <1>4, <1>5 DEF Next

(* An unused claim gets no pod: the cluster binds live claims, and every   *)
(* other change of a pod is of one that is there.                          *)
LEMMA PodsAfterClaims ==
  ASSUME Inv, Next, NEW c \in Claims, claim[c] = "Unused"
  PROVE  pod'[c] = "None"
<1>0. pod \in [Claims -> PodState] /\ pod[c] = "None"
  BY DEF Inv, Typed, TypeOK, ClusterTypeOK, NothingBeforeClaim
<1>1. ASSUME NEW d \in Claims, NEW s, pod[d] # "None", EndPod(d, s) PROVE pod'[c] = "None"
  BY <1>0, <1>1 DEF EndPod
<1>2. (\E d \in Claims : Run(d) \/ RunnerLosesCall(d)) => pod'[c] = "None"
  <2>1. \A d \in Claims : TryAgain(d) /\ pod[d] = "Busy" => pod'[c] = "None"
    BY <1>0, <1>1 DEF TryAgain
  <2> QED
    BY <1>0, <1>1, <2>1 DEF Run, Runner, RunnerFails, RunnerReports, RunnerHears,
       RunnerLosesCall, clusterVars
<1>3. (\E d \in Claims : Provision(d) \/ LosePod(d)) => pod'[c] = "None"
  BY <1>0, <1>1 DEF Provision, BindSandbox, RemovePod, LosePod
<1>4. (\E t \in Tasks : Submission(t)) => pod'[c] = "None"
  <2>1. ASSUME NEW t \in Tasks, SubSubmit(t) PROVE pod'[c] = "None"
    <3>1. sub[t].claim \in Claims
      BY <2>1 DEF SubSubmit, Inv, Typed, NamesResolve
    <3>2. PICK ok \in BOOLEAN : TaskHandler(t, sub[t].claim, ok)
      BY <2>1 DEF SubSubmit
    <3> QED
      BY <1>0, <1>1, <3>1, <3>2 DEF TaskHandler
  <2>2. (\E t \in Tasks : Submission(t)) => UNCHANGED pod \/ \E t \in Tasks : SubSubmit(t)
    BY DEF Submission, SubGet, SubCreate, SubAwait, SubTokens, SubClose, SubUpdate,
       SubReturn, clusterVars
  <2> QED
    BY <1>0, <2>1, <2>2
<1>5. Reconcile => UNCHANGED pod
  BY DEF Reconcile, ReconcileGet, ReconcileInit, ReconcilePending, ReconcileInvalid,
     ReconcileStarted, ReconcileRunning, ReconcilePodFailed, ReconcilePodSucceeded,
     ReconcileCompleted, ReconcileDelete, ReconcileFailed, ReconcileRelease, ReconcileRetry,
     ReconcileExhausted, CloseRecorded, Write, WriteAndReturn, clusterVars
<1>6. (\E d \in Claims, i \in 1 .. MaxTries : Handle(d, i)) => UNCHANGED pod
  BY DEF Handle, Callback, CallbackGet, CallbackVerify, CallbackConsume, CallbackComment,
     CallbackComplete
<1>7. Create \/ Watch => UNCHANGED pod
  BY DEF Create, CreateTask, Watch, HandleTaskEvent, HandlePodEvent
<1>8. Disturb => UNCHANGED pod \/ \E d \in Claims : LosePod(d) \/ RunnerLosesCall(d)
  BY DEF Disturb, LoseToken, ListenerRestart, OrchestratorRestart
<1> QED
  BY <1>0, <1>2, <1>3, <1>4, <1>5, <1>6, <1>7, <1>8 DEF Next

(* ... and no callback: only a runner in a busy pod sends one.             *)
LEMMA CallbacksAfterClaims ==
  ASSUME Inv, Next, NEW c \in Claims, claim[c] = "Unused", NEW i \in 1 .. MaxTries
  PROVE  cb'[c][i].pc = "none"
<1>0. /\ cb \in [Claims -> [1 .. MaxTries -> CallbackType]]
      /\ tries \in [Claims -> 0 .. MaxTries] /\ 1 \in 1 .. MaxTries
      /\ cb[c][i].pc = "none" /\ pod[c] = "None"
  BY ClusterAssumption DEF Inv, Typed, TypeOK, ListenerTypeOK, CallbackType,
     NothingBeforeClaim
<1>1. (\E d \in Claims : Run(d) \/ RunnerLosesCall(d)) => cb'[c] = cb[c]
  <2>1. ASSUME NEW d \in Claims, NEW j, SendCallback(d, j), pod[d] = "Busy"
        PROVE  cb'[c] = cb[c]
    BY <1>0, <2>1 DEF SendCallback
  <2>2. \A d \in Claims : TryAgain(d) /\ pod[d] = "Busy" => cb'[c] = cb[c]
    BY <2>1 DEF TryAgain
  <2> QED
    BY <2>1, <2>2 DEF Run, Runner, RunnerFails, RunnerReports, RunnerHears,
       RunnerLosesCall, listenerVars
<1>2. (\E d \in Claims, j \in 1 .. MaxTries : Handle(d, j)) => cb'[c][i] = cb[c][i]
  <2>1. ASSUME NEW d \in Claims, NEW j \in 1 .. MaxTries, NEW v,
               cb' = [cb EXCEPT ![d][j] = v], cb[d][j].pc # "none"
        PROVE  cb'[c][i] = cb[c][i]
    <3>1. <<d, j>> # <<c, i>>
      BY <1>0, <2>1
    <3> QED
      BY <1>0, <2>1, <3>1
  <2>2. ASSUME NEW d \in Claims, NEW j \in 1 .. MaxTries, Handle(d, j)
        PROVE  /\ cb[d][j].pc # "none"
               /\ \E v : cb' = [cb EXCEPT ![d][j] = v]
    <3>1. ASSUME NEW p, Conclude(d, j, p) \/ Proceed(d, j, p)
          PROVE  \E v : cb' = [cb EXCEPT ![d][j] = v]
      <4>1. Proceed(d, j, p) => cb' = [cb EXCEPT ![d][j] = [cb[d][j] EXCEPT !.pc = p]]
        BY <1>0 DEF Proceed
      <4> QED
        BY <3>1, <4>1 DEF Conclude
    <3> QED
      BY <2>2, <3>1 DEF Handle, Callback, CallbackGet, CallbackVerify, CallbackConsume,
         CallbackComment, CallbackComplete
  <2> QED
    BY <2>1, <2>2
<1>3. ListenerRestart => cb'[c][i] = cb[c][i]
  BY <1>0 DEF ListenerRestart, InProgress
<1>4. Reconcile => UNCHANGED cb
  BY DEF Reconcile, ReconcileGet, ReconcileInit, ReconcilePending, ReconcileInvalid,
     ReconcileStarted, ReconcileRunning, ReconcilePodFailed, ReconcilePodSucceeded,
     ReconcileCompleted, ReconcileDelete, ReconcileFailed, ReconcileRelease, ReconcileRetry,
     ReconcileExhausted, CloseRecorded, Write, WriteAndReturn, listenerVars
<1>5. (\E t \in Tasks : Submission(t)) => UNCHANGED cb
  BY DEF Submission, SubGet, SubCreate, SubAwait, SubTokens, SubClose, SubSubmit, SubUpdate,
     SubReturn, listenerVars
<1>6. Create \/ Watch \/ (\E d \in Claims : Provision(d)) => UNCHANGED cb
  BY DEF Create, CreateTask, Watch, HandleTaskEvent, HandlePodEvent, Provision, listenerVars
<1>7. Disturb => \/ UNCHANGED cb \/ ListenerRestart
                 \/ \E d \in Claims : RunnerLosesCall(d)
  BY DEF Disturb, LosePod, LoseToken, OrchestratorRestart, listenerVars
<1> QED
  BY <1>0, <1>1, <1>2, <1>3, <1>4, <1>5, <1>6, <1>7 DEF Next

LEMMA InvInit == Init => Inv
<1> SUFFICES ASSUME Init PROVE Inv
  OBVIOUS
<1>1. Typed
  BY InitType
<1>2. /\ \A c \in Claims : pod[c] = "None"
      /\ \A c \in Claims, i \in 1 .. MaxTries : cb[c][i].pc = "none"
      /\ loop.pc = "idle"
      /\ \A t \in Tasks : sub[t].pc = "none"
  BY DEF Init, ClusterInit, ListenerInit, OrchestratorInit, NoCallback, IdleLoop,
     NoSubmission
<1> QED
  BY <1>1, <1>2 DEF Inv, NothingBeforeClaim, LoopOK, LoopHolds, SubOK, SubHolds,
     CallbackOK, CallbackHolds

LEMMA InvNext == Inv /\ [Next]_vars => Inv'
<1> SUFFICES ASSUME Inv, [Next]_vars PROVE Inv'
  OBVIOUS
<1>0. Typed'
  BY NextType DEF Inv
<1>1. CASE UNCHANGED vars
  <2>1. UNCHANGED <<task, loop, sub, cb, owner, pod, claim>>
    BY <1>1 DEF vars, clusterVars, listenerVars, orchestratorVars
  <2>2. NothingBeforeClaim' /\ LoopOK'
    BY <2>1 DEF Inv, NothingBeforeClaim, LoopOK, LoopHolds, Coherent
  <2>3. \A t \in Tasks : SubOK(t)'
    BY <2>1 DEF Inv, SubOK, SubHolds, Coherent
  <2>4. \A c \in Claims, i \in 1 .. MaxTries : CallbackOK(c, i)'
    BY <2>1 DEF Inv, CallbackOK, CallbackHolds, Coherent
  <2> QED
    BY <1>0, <2>2, <2>3, <2>4 DEF Inv
<1>2. CASE Next
  <2>1. \A t \in Tasks : VersionStep(t)
    BY <1>2, VersionsAdvance
  <2>2. NothingBeforeClaim'
    BY <1>2, ClaimsUsed, PodsAfterClaims, CallbacksAfterClaims DEF NothingBeforeClaim
  <2>3. LoopOK'
    <3>1. CASE loop' = loop
      BY <2>1, <3>1, LoopKept
    <3>2. CASE ~LoopHolds(loop.t)'
      BY <3>2 DEF LoopOK
    <3> QED
      BY <1>2, <3>1, <3>2, ReconcileInv, OthersLeaveLoop
  <2>4. ASSUME NEW t \in Tasks PROVE SubOK(t)'
    <3>1. CASE \E u \in Tasks : Submission(u)
      BY <3>1, SubmissionInv
    <3>2. CASE ~\E u \in Tasks : Submission(u)
      <4>1. SubHolds(t)' => SubHolds(t) /\ sub'[t].snap = sub[t].snap
        BY <1>2, <3>2, OthersLeaveSubs DEF Inv
      <4> QED
        BY <2>1, <4>1, SubKept
    <3> QED
      BY <3>1, <3>2
  <2>5. ASSUME NEW c \in Claims, NEW i \in 1 .. MaxTries PROVE CallbackOK(c, i)'
    <3>1. CASE \E d \in Claims, j \in 1 .. MaxTries : Handle(d, j)
      BY <3>1, HandleInv
    <3>2. CASE ~\E d \in Claims, j \in 1 .. MaxTries : Handle(d, j)
      <4>1. CallbackHolds(c, i)' => CallbackHolds(c, i) /\ cb'[c][i].snap = cb[c][i].snap
        BY <1>2, <3>2, OthersLeaveCallbacks DEF Inv
      <4>2. owner'[c] = owner[c] \/ claim[c] = "Unused"
        BY <1>2, OwnersKept
      <4> QED
        BY <2>1, <4>1, <4>2, CallbackKept
    <3> QED
      BY <3>1, <3>2
  <2> QED
    BY <1>0, <2>2, <2>3, <2>4, <2>5 DEF Inv
<1> QED
  BY <1>1, <1>2

(* No local copy of a task is ahead of the store, and one that is of the   *)
(* stored version is the stored object: an update by Reconcile,            *)
(* runSandboxSubmission or handleCallback that the API server accepts is   *)
(* decided on the object it replaces, whatever failed or restarted between *)
(* the read and the write.                                                 *)
THEOREM Coherence == Spec => []SnapshotsCoherent
<1>1. Inv => SnapshotsCoherent
  <2> SUFFICES ASSUME Inv PROVE SnapshotsCoherent
    OBVIOUS
  <2>1. \A t \in Tasks : LoopHolds(t) => Coherent(t, loop.snap)
    BY DEF Inv, LoopOK, LoopHolds
  <2>2. \A t \in Tasks : SubHolds(t) => Coherent(t, sub[t].snap)
    BY DEF Inv, SubOK
  <2>3. \A c \in Claims, i \in 1 .. MaxTries :
          CallbackHolds(c, i) => Coherent(owner[c], cb[c][i].snap)
    BY DEF Inv, CallbackOK
  <2> QED
    BY <2>1, <2>2, <2>3 DEF SnapshotsCoherent
<1> QED
  BY <1>1, InvInit, InvNext, PTL DEF Spec

(* A copy from which Reconcile, runSandboxSubmission or handleCallback is   *)
(* about to write is in the phase that its switch or its check selected:   *)
(* a failed or completed pod was found for a Running task, a sandbox is    *)
(* released and retried for a Failed one and submitted to for a Started    *)
(* one.                                                                    *)
THEOREM CopiesInPhase == Spec => []PhasesHeld
<1>1. Inv => PhasesHeld
  BY DEF Inv, LoopOK, LoopHolds, SubOK, CallbackOK, PhasesHeld
<1> QED
  BY <1>1, InvInit, InvNext, PTL DEF Spec

-----------------------------------------------------------------------------
(* Completions are final                                                   *)

Final(t) ==
  /\ task[t].state = "Completed" => task'[t].state \in {"Completed", "Deleted"}
  /\ task[t].state = "Deleted" => task'[t].state = "Deleted"

LEMMA StatesDiffer == "Deleted" \notin AgentTaskState /\ "" \notin {"Completed", "Deleted"}
BY DEF AgentTaskState

(* An update over a task that is neither Completed nor deleted is harmless. *)
LEMMA FinalWrite ==
  ASSUME NEW t \in Tasks, NEW u \in Tasks, u # t => task'[u] = task[u],
         \/ task'[t] = task[t]
         \/ task[t].state \notin {"Completed", "Deleted"}
         \/ task'[t].state = "Deleted"
         \/ task[t].state # "Deleted" /\ task'[t].state = "Completed"
  PROVE  Final(u)
BY DEF Final

LEMMA ReconcileFinal ==
  ASSUME Inv, Reconcile, NEW u \in Tasks
  PROVE  Final(u)
<1>0. /\ loop \in LoopType /\ loop.snap \in AgentTask
      /\ loop.pc # "idle" => loop.t \in Tasks
      /\ task \in [Tasks -> AgentTask]
      /\ loop.pc \notin {"idle", "get"} <=> LoopHolds(loop.t)
  BY LoopTyped DEF LoopHolds
<1>1. ASSUME loop.pc \notin {"idle", "get"}, NEW obj \in AgentTask, obj.rv = loop.snap.rv,
             WriteAndReturn(obj) \/ \E next \in LoopPC : Write(obj, next),
             loop.snap.state \notin {"Completed", "Deleted"}
      PROVE  Final(u)
  <2>1. PICK ok \in BOOLEAN : UpdateTask(loop.t, obj, ok)
    BY <1>1 DEF WriteAndReturn, Write
  <2>2. /\ u # loop.t => task'[u] = task[u]
        /\ task'[loop.t] = task[loop.t] \/ task[loop.t] = loop.snap
    BY <1>0, <1>1, <2>1, LoopWrites
  <2> QED
    BY <1>0, <1>1, <2>2, FinalWrite
<1>2. CASE ReconcileInit
  <2>1. [loop.snap EXCEPT !.state = "Pending"] \in AgentTask
    BY <1>0 DEF AgentTask, AgentTaskState
  <2>2. loop.snap.state \notin {"Completed", "Deleted"} /\ loop.pc \notin {"idle", "get"}
    BY <1>2, StatesDiffer DEF ReconcileInit, Dispatch
  <2>3. \E next \in LoopPC : Write([loop.snap EXCEPT !.state = "Pending"], next)
    BY <1>2 DEF ReconcileInit, LoopPC
  <2> QED
    BY <1>0, <1>1, <2>1, <2>2, <2>3, CopiesKeepVersion
<1>3. CASE ReconcilePending
  <2>1. [loop.snap EXCEPT !.state = "Started"] \in AgentTask
    BY <1>0 DEF AgentTask, AgentTaskState
  <2> QED
    BY <1>0, <1>1, <1>3, <2>1, CopiesKeepVersion DEF ReconcilePending, Dispatch
<1>4. CASE ReconcilePodFailed
  <2>1. [loop.snap EXCEPT !.state = "Failed"] \in AgentTask
    BY <1>0 DEF AgentTask, AgentTaskState
  <2>2. loop.snap.state = "Running"
    BY <1>0, <1>4 DEF ReconcilePodFailed, Inv, LoopOK
  <2> QED
    BY <1>0, <1>1, <1>4, <2>1, <2>2, CopiesKeepVersion DEF ReconcilePodFailed
<1>5. CASE ReconcilePodSucceeded
  <2>1. [loop.snap EXCEPT !.state = "Completed"] \in AgentTask
    BY <1>0 DEF AgentTask, AgentTaskState
  <2>2. loop.snap.state = "Running"
    BY <1>0, <1>5 DEF ReconcilePodSucceeded, Inv, LoopOK
  <2> QED
    BY <1>0, <1>1, <1>5, <2>1, <2>2, CopiesKeepVersion DEF ReconcilePodSucceeded
<1>6. CASE ReconcileRelease
  <2>1. [loop.snap EXCEPT !.claim = NoClaim] \in AgentTask
    BY <1>0 DEF AgentTask
  <2>2. loop.snap.state = "Failed" /\ loop.pc \notin {"idle", "get"}
    BY <1>0, <1>6 DEF ReconcileRelease, Inv, LoopOK
  <2>3. \E next \in LoopPC : Write([loop.snap EXCEPT !.claim = NoClaim], next)
    BY <1>6 DEF ReconcileRelease, LoopPC
  <2> QED
    BY <1>0, <1>1, <2>1, <2>2, <2>3, CopiesKeepVersion
<1>7. CASE ReconcileRetry
  <2>1. loop.snap.retries + 1 \in 0 .. MaxRetries
    BY <1>0, <1>7, ClusterAssumption DEF AgentTask, ReconcileRetry
  <2>2. [loop.snap EXCEPT !.retries = @ + 1, !.state = "Started"] \in AgentTask
    BY <1>0, <2>1 DEF AgentTask, AgentTaskState
  <2>3. loop.snap.state = "Failed" /\ loop.pc \notin {"idle", "get"}
    BY <1>0, <1>7 DEF ReconcileRetry, Inv, LoopOK
  <2>4. WriteAndReturn([loop.snap EXCEPT !.retries = @ + 1, !.state = "Started"])
    BY <1>7 DEF ReconcileRetry
  <2> QED
    BY <1>0, <1>1, <2>2, <2>3, <2>4, CopiesKeepVersion
<1>8. CASE ReconcileDelete
  <2>1. Remove(loop.t) => /\ task'[loop.t].state = "Deleted"
                          /\ u # loop.t => task'[u] = task[u]
    <3> DEFINE removed == [task[loop.t] EXCEPT !.state = "Deleted", !.claim = NoClaim,
                                               !.rv = @ + 1]
    <3>1. removed.state = "Deleted" /\ (Remove(loop.t) => task' = [task EXCEPT ![loop.t] = removed])
      BY <1>0, <1>8 DEF ReconcileDelete, AgentTask, Remove
    <3> HIDE DEF removed
    <3> QED
      BY <1>0, <1>8, <3>1 DEF ReconcileDelete
  <2> QED
    BY <1>0, <1>8, <2>1, FinalWrite DEF ReconcileDelete, Final
<1>9. CASE \/ ReconcileGet \/ ReconcileInvalid \/ ReconcileStarted \/ ReconcileRunning
           \/ ReconcileCompleted \/ ReconcileFailed \/ ReconcileExhausted
  BY <1>9 DEF ReconcileGet, ReconcileInvalid, ReconcileStarted, ReconcileRunning,
     ReconcileCompleted, ReconcileFailed, ReconcileExhausted, CloseRecorded, clusterVars,
     Final
<1> QED
  BY <1>2, <1>3, <1>4, <1>5, <1>6, <1>7, <1>8, <1>9 DEF Reconcile

LEMMA NextFinal ==
  ASSUME Inv, [Next]_vars, NEW u \in Tasks
  PROVE  Final(u)
<1>0. UNCHANGED task => Final(u)
  BY DEF Final
<1>1. CASE Create
  <2>1. PICK t \in Tasks, s \in AgentTaskState : CreateTask(t, s)
    BY <1>1 DEF Create, AgentTaskState
  <2>2. task[t].state = "Absent" /\ (u # t => task'[u] = task[u])
    BY <2>1 DEF CreateTask, Inv, Typed, TypeOK, ClusterTypeOK
  <2> QED
    BY <2>2, FinalWrite
<1>2. CASE \E t \in Tasks : Submission(t)
  <2>1. PICK t \in Tasks : Submission(t)
    BY <1>2
  <2>2. CASE SubUpdate(t)
    <3>1. task'[t] = task[t] \/ task[t].state = "Started"
      BY <2>2, SubWrites
    <3>2. u # t => task'[u] = task[u]
      BY <2>2, SubWrites
    <3> QED
      BY <3>1, <3>2, FinalWrite
  <2>3. SubUpdate(t) \/ UNCHANGED task
    BY <2>1 DEF Submission, SubGet, SubCreate, SubAwait, SubTokens, SubClose, SubSubmit,
       SubReturn, clusterVars
  <2> QED
    BY <1>0, <2>2, <2>3
<1>3. CASE \E c \in Claims, i \in 1 .. MaxTries : Handle(c, i)
  <2>1. PICK c \in Claims, i \in 1 .. MaxTries : Handle(c, i)
    BY <1>3
  <2>2. CASE CallbackComplete(c, i)
    <3>1. owner[c] \in Tasks
      BY <2>2 DEF CallbackComplete, Inv, Typed, NamesResolve
    <3>2. cb[c][i].snap \in AgentTask
      <4>1. cb \in [Claims -> [1 .. MaxTries -> CallbackType]]
        BY DEF Inv, Typed, TypeOK, ListenerTypeOK, CallbackType
      <4>2. cb[c][i] \in CallbackType
        BY <4>1
      <4> QED
        BY <4>2 DEF CallbackType
    <3> DEFINE done == [cb[c][i].snap EXCEPT !.state = "Completed", !.rv = @ + 1]
    <3>3. done.state = "Completed"
      BY <3>2 DEF AgentTask
    <3>4. /\ u # owner[c] => task'[u] = task[u]
          /\ \/ task'[owner[c]] = task[owner[c]]
             \/ task[owner[c]].state \in AgentTaskState /\ task'[owner[c]] = done
      BY <2>2, CallbackWrites
    <3> HIDE DEF done
    <3>5. \/ task'[owner[c]] = task[owner[c]]
          \/ task[owner[c]].state # "Deleted" /\ task'[owner[c]].state = "Completed"
      BY <3>3, <3>4, StatesDiffer
    <3> QED
      BY <3>1, <3>4, <3>5, FinalWrite
  <2>3. CallbackComplete(c, i) \/ UNCHANGED task
    BY <2>1 DEF Handle, Callback, CallbackGet, CallbackVerify, CallbackConsume,
       CallbackComment
  <2> QED
    BY <1>0, <2>2, <2>3
<1>4. Watch \/ (\E c \in Claims : Run(c) \/ Provision(c)) \/ Disturb => UNCHANGED task
  BY DEF Watch, HandleTaskEvent, HandlePodEvent, Run, Runner, RunnerFails,
     RunnerReports, RunnerHears, Provision, BindSandbox, RemovePod, Disturb, LosePod,
     RunnerLosesCall, LoseToken, ListenerRestart, OrchestratorRestart, clusterVars
<1>5. UNCHANGED vars => UNCHANGED task
  BY DEF vars, clusterVars
<1> QED
  BY <1>0, <1>1, <1>2, <1>3, <1>4, <1>5, ReconcileFinal DEF Next

(* A Completed task stays Completed until it is deleted, and a deleted one *)
(* is not written back: not by the goroutine's update to Running, not by   *)
(* Reconcile's to Failed or for a retry, and not by another callback, each *)
(* of which was decided on an older copy (controller.go Reconcile and      *)
(* runSandboxSubmission, listener.go handleCallback).                      *)
THEOREM CompletionsFinal == Spec => CompletedIsFinal
<1>1. Inv /\ [Next]_vars => [\A t \in Tasks : Final(t)]_vars
  BY NextFinal
<1>2. [\A t \in Tasks : Final(t)]_vars =>
        [\A t \in Tasks :
           /\ task[t].state = "Completed" => task'[t].state \in {"Completed", "Deleted"}
           /\ task[t].state = "Deleted" => task'[t].state = "Deleted"]_vars
  BY DEF Final
<1> QED
  BY <1>1, <1>2, InvInit, InvNext, PTL DEF Spec, CompletedIsFinal

=============================================================================
