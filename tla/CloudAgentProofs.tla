--------------------------- MODULE CloudAgentProofs ---------------------------
(***************************************************************************)
(* Proofs about CloudAgent, for every set of tasks and claims and every    *)
(* bound of retries, callback attempts, failures and restarts.             *)
(***************************************************************************)
EXTENDS CloudAgent, TLAPS

-----------------------------------------------------------------------------
(* Type correctness.  TypeOK alone is not inductive: a handler looks up    *)
(* the task of its claim, and only NamesResolve says that there is one.    *)

Typed == TypeOK /\ NamesResolve

LoopType == [pc : LoopPC, t : Tasks \union {NoTask}, snap : AgentTask]

SubType == [pc : SubPC, snap : AgentTask, claim : Claims \union {NoClaim}]

(* The objects the code makes out of nothing are of their types.           *)
LEMMA InitialValues ==
  /\ NoAgentTask \in AgentTask
  /\ IdleLoop \in LoopType
  /\ NoSubmission \in SubType
  /\ NoCallback \in [pc : CallbackPC, snap : AgentTask]
BY ClusterAssumption DEF NoAgentTask, AgentTask, IdleLoop, LoopType, LoopPC,
   NoSubmission, SubType, SubPC, NoCallback, CallbackPC

(* Moving the loop or a goroutine along, with or without a new copy.       *)
LEMMA LoopMoves ==
  ASSUME NEW l \in LoopType, NEW p \in LoopPC, NEW s \in AgentTask
  PROVE  /\ [l EXCEPT !.pc = p] \in LoopType
         /\ [l EXCEPT !.pc = p, !.snap = s] \in LoopType
         /\ [l EXCEPT !.pc = p].t = l.t
         /\ [l EXCEPT !.pc = p].pc = p
         /\ [l EXCEPT !.pc = p].snap = l.snap
         /\ [l EXCEPT !.pc = p, !.snap = s].t = l.t
         /\ [l EXCEPT !.pc = p, !.snap = s].pc = p
         /\ [l EXCEPT !.pc = p, !.snap = s].snap = s
BY DEF LoopType

LEMMA SubMoves ==
  ASSUME sub \in [Tasks -> SubType], NEW t \in Tasks, NEW p \in SubPC, SubGoTo(t, p)
  PROVE  /\ sub' \in [Tasks -> SubType]
         /\ sub'[t].pc = p /\ sub'[t].snap = sub[t].snap /\ sub'[t].claim = sub[t].claim
         /\ \A u \in Tasks : u # t => sub'[u] = sub[u]
BY DEF SubGoTo, SubType

LEMMA SubStarts ==
  ASSUME sub \in [Tasks -> SubType], NEW t \in Tasks, NEW p \in SubPC,
         NEW s \in AgentTask,
         \/ sub' = [sub EXCEPT ![t] = NoSubmission] /\ p = "none"
         \/ sub' = [sub EXCEPT ![t] = [NoSubmission EXCEPT !.pc = p]]
         \/ sub' = [sub EXCEPT ![t] = [NoSubmission EXCEPT !.pc = p, !.snap = s]]
  PROVE  /\ sub' \in [Tasks -> SubType]
         /\ sub'[t].pc = p
         /\ \A u \in Tasks : u # t => sub'[u] = sub[u]
<1>1. /\ NoSubmission \in SubType /\ NoSubmission.pc = "none"
      /\ LET v == [NoSubmission EXCEPT !.pc = p] IN v \in SubType /\ v.pc = p
      /\ LET v == [NoSubmission EXCEPT !.pc = p, !.snap = s] IN v \in SubType /\ v.pc = p
  BY InitialValues DEF NoSubmission, SubType
<1>2. PICK v \in SubType : v.pc = p /\ sub' = [sub EXCEPT ![t] = v]
  BY <1>1
<1> QED
  BY <1>2

(* A step that creates no claim and starts no callback keeps the names     *)
(* resolved; it may delete claims and move loop and goroutines along.      *)
LEMMA NamesKept ==
  ASSUME NamesResolve, UNCHANGED owner,
         \A c \in Claims : /\ claim'[c] \in {claim[c], "Deleted"}
                           /\ pod'[c] = "None" \/ pod[c] # "None"
                           /\ \A i \in 1 .. MaxTries :
                                cb'[c][i].pc = "none" \/ cb[c][i].pc # "none",
         loop'.pc = "idle" \/ loop'.t \in Tasks,
         \A t \in Tasks : \/ sub'[t] = sub[t]
                          \/ /\ sub[t].pc \in {"await", "tokens", "close", "submit", "update"}
                             /\ sub'[t].claim = sub[t].claim
                          \/ sub'[t].pc \in {"none", "get", "create", "exit"}
  PROVE  NamesResolve'
BY DEF NamesResolve

(* updateTaskStatus stores an object of the type it is given.              *)
LEMMA UpdateTaskType ==
  ASSUME ClusterTypeOK, NEW t \in Tasks, NEW obj \in AgentTask, NEW ok \in BOOLEAN,
         UpdateTask(t, obj, ok)
  PROVE  /\ task' \in [Tasks -> AgentTask]
         /\ events' \in [Tasks -> Nat]
         /\ faults' \in 0 .. MaxFaults
<1>1. [obj EXCEPT !.rv = @ + 1] \in AgentTask
  BY DEF AgentTask
<1>2. Store(t, obj) => /\ task' \in [Tasks -> AgentTask]
                       /\ events' \in [Tasks -> Nat]
  BY <1>1 DEF Store, ClusterTypeOK
<1>3. Fault => faults' \in 0 .. MaxFaults
  BY ClusterAssumption DEF Fault, ClusterTypeOK
<1> QED
  BY <1>2, <1>3 DEF UpdateTask, NoFault, ClusterTypeOK

LEMMA FaultType ==
  ASSUME ClusterTypeOK, Fault \/ NoFault
  PROVE  faults' \in 0 .. MaxFaults
BY ClusterAssumption DEF Fault, NoFault, ClusterTypeOK

(* The two updates of the loop, for any object it may write.               *)
LEMMA WriteType ==
  ASSUME Typed, loop.pc # "idle", NEW obj \in AgentTask,
         \/ WriteAndReturn(obj)
         \/ \E next \in LoopPC \ {"idle"} : Write(obj, next)
  PROVE  Typed'
<1> USE DEF Typed, TypeOK
<1>1. loop.t \in Tasks /\ loop \in LoopType
  BY DEF NamesResolve, OrchestratorTypeOK, LoopType
<1>2. /\ task' \in [Tasks -> AgentTask]
      /\ events' \in [Tasks -> Nat]
      /\ faults' \in 0 .. MaxFaults
  BY <1>1, UpdateTaskType DEF WriteAndReturn, Write
<1>3. [obj EXCEPT !.rv = @ + 1] \in AgentTask
  BY DEF AgentTask
<1>4. /\ loop' \in LoopType
      /\ loop'.pc # "idle" => loop'.t = loop.t
  <2>1. CASE loop' = IdleLoop
    BY <2>1, InitialValues DEF IdleLoop
  <2>2. CASE \E next \in LoopPC \ {"idle"} :
               loop' = [loop EXCEPT !.pc = next, !.snap = [obj EXCEPT !.rv = @ + 1]]
    <3>1. PICK next \in LoopPC :
               loop' = [loop EXCEPT !.pc = next, !.snap = [obj EXCEPT !.rv = @ + 1]]
      BY <2>2
    <3> QED
      <4> DEFINE stored == [obj EXCEPT !.rv = @ + 1]
      <4>1. stored \in AgentTask /\ loop' = [loop EXCEPT !.pc = next, !.snap = stored]
        BY <3>1, <1>3
      <4> HIDE DEF stored
      <4> QED
        BY <4>1, <1>1 DEF LoopType
  <2> QED BY <2>1, <2>2 DEF WriteAndReturn, Write, Done
<1>5. UNCHANGED <<claim, owner, pod, podEvents, crashes, listenerVars, sub, activeTasks>>
  BY DEF WriteAndReturn, Write
<1>6. TypeOK'
  BY <1>2, <1>4, <1>5 DEF ClusterTypeOK, ListenerTypeOK, OrchestratorTypeOK, listenerVars,
     LoopType
<1>7. NamesResolve'
  BY <1>1, <1>4, <1>5, NamesKept DEF listenerVars
<1> QED BY <1>6, <1>7

LEMMA ReconcileType ==
  ASSUME Typed, Reconcile
  PROVE  Typed'
<1> USE DEF Typed, TypeOK
<1>0. /\ loop \in LoopType
      /\ loop.pc # "idle" => loop.t \in Tasks
      /\ loop.snap \in AgentTask
  BY DEF NamesResolve, OrchestratorTypeOK, LoopType
<1>1. CASE ReconcileGet
  <2>1. loop' \in LoopType /\ (loop'.pc # "idle" => loop'.t \in Tasks)
    BY <1>0, <1>1, InitialValues DEF ReconcileGet, Done, LoopType, LoopPC, IdleLoop,
       ClusterTypeOK
  <2>2. faults' \in 0 .. MaxFaults
    BY <1>1, FaultType DEF ReconcileGet
  <2> QED
    BY <2>1, <2>2, <1>1 DEF ReconcileGet, ClusterTypeOK, ListenerTypeOK, OrchestratorTypeOK,
       NamesResolve, listenerVars, LoopType
<1>2. CASE ReconcileInit
  <2>1. [loop.snap EXCEPT !.state = "Pending"] \in AgentTask
    BY <1>0 DEF AgentTask, AgentTaskState
  <2> QED
    BY <2>1, <1>2, WriteType DEF ReconcileInit, Dispatch, LoopPC
<1>3. CASE ReconcilePending
  <2>1. [loop.snap EXCEPT !.state = "Started"] \in AgentTask
    BY <1>0 DEF AgentTask, AgentTaskState
  <2> QED
    BY <2>1, <1>3, WriteType DEF ReconcilePending, Dispatch
<1>4. CASE ReconcileInvalid
  BY <1>4, InitialValues DEF ReconcileInvalid, Done, clusterVars, listenerVars,
     ClusterTypeOK, ListenerTypeOK, OrchestratorTypeOK, NamesResolve, LoopType, IdleLoop
<1>5. CASE ReconcileStarted
  <2>1. /\ sub' \in [Tasks -> SubType] /\ activeTasks' \subseteq Tasks
        /\ \A t \in Tasks : sub'[t].pc \in {"await", "tokens", "close", "submit", "update"}
                              => sub'[t] = sub[t]
    BY <1>0, <1>5, InitialValues DEF ReconcileStarted, Dispatch, SubType, SubPC, NoSubmission,
       OrchestratorTypeOK
  <2>2. loop' \in LoopType /\ loop'.pc = "idle"
    BY <1>5, InitialValues DEF ReconcileStarted, Done, IdleLoop
  <2> QED
    BY <1>5, <2>1, <2>2 DEF ReconcileStarted, clusterVars, listenerVars,
       ClusterTypeOK, ListenerTypeOK, OrchestratorTypeOK, NamesResolve, LoopType, SubType
<1>6. CASE ReconcileRunning
  <2>1. loop' \in LoopType /\ (loop'.pc # "idle" => loop'.t = loop.t)
    BY <1>0, <1>6, InitialValues DEF ReconcileRunning, Done, LoopType, LoopPC, IdleLoop
  <2>2. faults' \in 0 .. MaxFaults
    BY <1>6, FaultType DEF ReconcileRunning
  <2> QED
    BY <1>0, <1>6, <2>1, <2>2 DEF ReconcileRunning, Dispatch, ClusterTypeOK, ListenerTypeOK,
       OrchestratorTypeOK, NamesResolve, listenerVars, LoopType
<1>7. CASE ReconcilePodFailed
  <2>1. [loop.snap EXCEPT !.state = "Failed"] \in AgentTask
    BY <1>0 DEF AgentTask, AgentTaskState
  <2> QED
    BY <2>1, <1>7, WriteType DEF ReconcilePodFailed
<1>8. CASE ReconcilePodSucceeded
  <2>1. [loop.snap EXCEPT !.state = "Completed"] \in AgentTask
    BY <1>0 DEF AgentTask, AgentTaskState
  <2> QED
    BY <2>1, <1>8, WriteType DEF ReconcilePodSucceeded
<1>9. CASE ReconcileCompleted \/ ReconcileFailed
  <2>1. PICK released \in LoopPC, unrecorded \in LoopPC : CloseRecorded(released, unrecorded)
    BY <1>9 DEF ReconcileCompleted, ReconcileFailed, LoopPC
  <2>2. loop' \in LoopType /\ (loop'.pc # "idle" => loop'.t = loop.t)
    <3>1. \A pc \in LoopPC : /\ [loop EXCEPT !.pc = pc] \in LoopType
                             /\ [loop EXCEPT !.pc = pc].t = loop.t
      BY <1>0, LoopMoves
    <3> QED
      <4>1. loop' = IdleLoop \/ \E pc \in LoopPC : loop' = [loop EXCEPT !.pc = pc]
        BY <2>1 DEF CloseRecorded, Done
      <4>2. IdleLoop.pc = "idle"
        BY DEF IdleLoop
      <4> QED
        BY <3>1, <4>1, <4>2, InitialValues
  <2>3. /\ faults' \in 0 .. MaxFaults
        /\ claim' \in [Claims -> ClaimState]
        /\ \A c \in Claims : claim'[c] \in {claim[c], "Deleted"}
    BY <2>1, FaultType DEF CloseRecorded, DeleteClaim, ClusterTypeOK, ClaimState
  <2>4. NamesResolve'
    BY <1>0, <1>9, <2>1, <2>2, <2>3, NamesKept DEF CloseRecorded, ReconcileCompleted,
       ReconcileFailed, Dispatch, listenerVars
  <2> QED
    BY <2>1, <2>2, <2>3, <2>4 DEF CloseRecorded, ClusterTypeOK, ListenerTypeOK,
       OrchestratorTypeOK, listenerVars, LoopType
<1>10. CASE ReconcileDelete
  <2>1. task' \in [Tasks -> AgentTask]
    <3>1. \A obj \in AgentTask :
            [obj EXCEPT !.state = "Deleted", !.claim = NoClaim, !.rv = @ + 1] \in AgentTask
      <4> SUFFICES ASSUME NEW obj \in AgentTask
                   PROVE  [obj EXCEPT !.state = "Deleted", !.claim = NoClaim,
                                      !.rv = @ + 1] \in AgentTask
        OBVIOUS
      <4>1. obj.rv + 1 \in Nat
        BY DEF AgentTask
      <4> QED
        BY <4>1 DEF AgentTask
    <3>2. Remove(loop.t) => task' \in [Tasks -> AgentTask]
      <4> SUFFICES ASSUME Remove(loop.t) PROVE task' \in [Tasks -> AgentTask]
        OBVIOUS
      <4> DEFINE removed == [task[loop.t] EXCEPT !.state = "Deleted", !.claim = NoClaim,
                                                 !.rv = @ + 1]
      <4>1. loop.t \in Tasks /\ removed \in AgentTask
        BY <1>0, <1>10, <3>1 DEF ReconcileDelete, ClusterTypeOK
      <4>2. task' = [task EXCEPT ![loop.t] = removed]
        BY DEF Remove
      <4> HIDE DEF removed
      <4> QED
        BY <4>1, <4>2 DEF ClusterTypeOK
    <3> QED
      BY <1>10, <3>2 DEF ReconcileDelete, ClusterTypeOK
  <2>2. faults' \in 0 .. MaxFaults
    BY <1>10, FaultType DEF ReconcileDelete
  <2>3. NamesResolve'
    BY <1>10, NamesKept DEF ReconcileDelete, Done, listenerVars, IdleLoop
  <2> QED
    BY <1>10, <2>1, <2>2, <2>3, InitialValues DEF ReconcileDelete, Done, ClusterTypeOK,
       ListenerTypeOK, OrchestratorTypeOK, listenerVars, LoopType
<1>11. CASE ReconcileRelease
  <2>1. [loop.snap EXCEPT !.claim = NoClaim] \in AgentTask
    BY <1>0 DEF AgentTask
  <2> QED
    BY <2>1, <1>11, WriteType DEF ReconcileRelease, LoopPC
<1>12. CASE ReconcileRetry
  <2>1. loop.snap.retries + 1 \in 0 .. MaxRetries
    BY <1>0, <1>12, ClusterAssumption DEF AgentTask, ReconcileRetry
  <2>2. [loop.snap EXCEPT !.retries = @ + 1, !.state = "Started"] \in AgentTask
    BY <1>0, <2>1 DEF AgentTask, AgentTaskState
  <2> QED
    BY <2>2, <1>12, WriteType DEF ReconcileRetry
<1>13. CASE ReconcileExhausted
  BY <1>13, InitialValues DEF ReconcileExhausted, Done, clusterVars, listenerVars,
     ClusterTypeOK, ListenerTypeOK, OrchestratorTypeOK, NamesResolve, LoopType, IdleLoop
<1> QED
  BY <1>1, <1>2, <1>3, <1>4, <1>5, <1>6, <1>7, <1>8, <1>9, <1>10, <1>11, <1>12, <1>13
     DEF Reconcile

LEMMA SubmissionType ==
  ASSUME Typed, NEW t \in Tasks, Submission(t)
  PROVE  Typed'
<1> USE DEF Typed, TypeOK
<1>0. /\ sub \in [Tasks -> SubType]
      /\ loop.pc = "idle" \/ loop.t \in Tasks
  BY DEF OrchestratorTypeOK, SubType, NamesResolve
<1>1. CASE SubGet(t)
  <2>1. sub' \in [Tasks -> SubType]
    BY <1>0, <1>1, SubStarts, InitialValues DEF SubGet, SubExit, SubPC, ClusterTypeOK
  <2>2. \A u \in Tasks : sub'[u] = sub[u] \/ sub'[u].pc \in {"create", "exit"}
    BY <1>0, <1>1, SubStarts, InitialValues DEF SubGet, SubExit, SubPC, ClusterTypeOK
  <2>3. faults' \in 0 .. MaxFaults
    BY <1>1, FaultType DEF SubGet
  <2>4. NamesResolve'
    BY <1>0, <1>1, <2>1, <2>2, <2>3, NamesKept DEF SubGet, listenerVars
  <2> QED
    BY <1>1, <2>1, <2>2, <2>3, <2>4 DEF SubGet, ClusterTypeOK, ListenerTypeOK,
       OrchestratorTypeOK, listenerVars, SubType
<1>2. CASE SubCreate(t)
  <2>1. faults' \in 0 .. MaxFaults
    BY <1>2, FaultType DEF SubCreate
  <2>2. CASE \E c \in Claims :
               /\ claim[c] = "Unused"
               /\ claim' = [claim EXCEPT ![c] = "Live"]
               /\ owner' = [owner EXCEPT ![c] = t]
               /\ \/ sub' = [sub EXCEPT ![t].pc = "await", ![t].claim = c]
                  \/ SubAgain(t)
    <3>1. PICK c \in Claims :
               /\ claim[c] = "Unused"
               /\ claim' = [claim EXCEPT ![c] = "Live"]
               /\ owner' = [owner EXCEPT ![c] = t]
               /\ \/ sub' = [sub EXCEPT ![t].pc = "await", ![t].claim = c]
                  \/ SubAgain(t)
      BY <2>2
    <3>2. sub' \in [Tasks -> SubType]
      BY <1>0, <3>1, InitialValues DEF SubAgain, NoSubmission, SubType, SubPC
    <3>3. \A u \in Tasks : \/ sub'[u] = sub[u]
                           \/ sub'[u].pc = "get"
                           \/ u = t /\ sub'[u].claim = c
      BY <1>0, <3>1 DEF SubAgain, NoSubmission, SubType
    <3>4. NamesResolve'
      BY <1>2, <3>1, <3>2, <3>3 DEF SubCreate, NamesResolve, listenerVars, ClusterTypeOK,
         SubType
    <3> QED
      BY <1>2, <2>1, <3>1, <3>2, <3>4 DEF SubCreate, ClusterTypeOK, ClaimState,
         ListenerTypeOK, OrchestratorTypeOK, listenerVars, SubType
  <2>3. CASE SubAgain(t) /\ UNCHANGED <<claim, owner>>
    BY <1>0, <1>2, <2>1, <2>3, InitialValues DEF SubCreate, SubAgain, NoSubmission,
       ClusterTypeOK, ListenerTypeOK, OrchestratorTypeOK, NamesResolve, listenerVars,
       SubType, SubPC
  <2> QED BY <1>2, <2>2, <2>3 DEF SubCreate
<1>3. CASE SubAwait(t)
  <2>1. /\ faults' \in 0 .. MaxFaults
        /\ claim' \in [Claims -> ClaimState]
        /\ \A c \in Claims : claim'[c] \in {claim[c], "Deleted"}
    BY <1>3, FaultType DEF SubAwait, ClusterTypeOK, ClaimState
  <2>2. /\ sub' \in [Tasks -> SubType]
        /\ \A u \in Tasks : \/ sub'[u] = sub[u] \/ sub'[u].pc = "get"
                            \/ u = t /\ sub'[u].claim = sub[u].claim
    BY <1>0, <1>3, InitialValues, SubStarts, SubMoves DEF SubAwait, SubAgain, SubPC
  <2>4. NamesResolve'
    BY <1>0, <1>3, <2>1, <2>2, NamesKept DEF SubAwait, listenerVars
  <2> QED
    BY <1>3, <2>1, <2>2, <2>4 DEF SubAwait, ClusterTypeOK, ListenerTypeOK,
       OrchestratorTypeOK, listenerVars, SubType
<1>4. CASE SubTokens(t)
  <2>1. sub[t].claim \in Claims
    BY <1>4 DEF SubTokens, NamesResolve
  <2>2. faults' \in 0 .. MaxFaults /\ tokens' \in [Tasks -> Claims \union {NoClaim}]
    BY <1>4, <2>1, FaultType DEF SubTokens, GenerateTokens, StoreToken, ListenerTypeOK
  <2>3. /\ sub' \in [Tasks -> SubType]
        /\ \A u \in Tasks : \/ sub'[u] = sub[u]
                            \/ u = t /\ sub'[u].claim = sub[u].claim
    BY <1>0, <1>4, SubMoves DEF SubTokens, SubPC
  <2>4. NamesResolve'
    BY <1>0, <1>4, <2>2, <2>3, NamesKept DEF SubTokens
  <2> QED
    BY <1>4, <2>2, <2>3, <2>4 DEF SubTokens, ClusterTypeOK, ListenerTypeOK,
       OrchestratorTypeOK, SubType
<1>5. CASE SubClose(t)
  <2>1. sub[t].claim \in Claims
    BY <1>5 DEF SubClose, NamesResolve
  <2>2. /\ faults' \in 0 .. MaxFaults
        /\ claim' \in [Claims -> ClaimState]
        /\ \A c \in Claims : claim'[c] \in {claim[c], "Deleted"}
    BY <1>5, <2>1, FaultType DEF SubClose, DeleteClaim, ClusterTypeOK, ClaimState
  <2>3. /\ sub' \in [Tasks -> SubType]
        /\ \A u \in Tasks : sub'[u] = sub[u] \/ sub'[u].pc = "get"
    BY <1>0, <1>5, InitialValues, SubStarts DEF SubClose, SubAgain, SubPC
  <2>4. NamesResolve'
    BY <1>0, <1>5, <2>2, <2>3, NamesKept DEF SubClose, listenerVars
  <2> QED
    BY <1>5, <2>2, <2>3, <2>4 DEF SubClose, ClusterTypeOK, ListenerTypeOK,
       OrchestratorTypeOK, listenerVars, SubType
<1>6. CASE SubSubmit(t)
  <2>1. sub[t].claim \in Claims
    BY <1>6 DEF SubSubmit, NamesResolve
  <2>2. /\ faults' \in 0 .. MaxFaults
        /\ pod' \in [Claims -> PodState]
        /\ podEvents' \in [Claims -> Nat]
        /\ \A c \in Claims : pod[c] = "None" => pod'[c] = "None"
    BY <1>6, <2>1, FaultType DEF SubSubmit, TaskHandler, EndPod, ClusterTypeOK, PodState
  <2>3. /\ sub' \in [Tasks -> SubType]
        /\ \A u \in Tasks : \/ sub'[u] = sub[u] \/ sub'[u].pc = "get"
                            \/ u = t /\ sub'[u].claim = sub[u].claim
    BY <1>0, <1>6, InitialValues, SubStarts, SubMoves DEF SubSubmit, SubAgain, SubPC
  <2>4. NamesResolve'
    BY <1>0, <1>6, <2>2, <2>3, NamesKept DEF SubSubmit, listenerVars
  <2> QED
    BY <1>6, <2>2, <2>3, <2>4 DEF SubSubmit, ClusterTypeOK, ListenerTypeOK,
       OrchestratorTypeOK, listenerVars, SubType
<1>7. CASE SubUpdate(t)
  <2>1. [sub[t].snap EXCEPT !.state = "Running", !.claim = sub[t].claim] \in AgentTask
    BY <1>0 DEF SubType, AgentTask, AgentTaskState
  <2>2. /\ task' \in [Tasks -> AgentTask]
        /\ events' \in [Tasks -> Nat]
        /\ faults' \in 0 .. MaxFaults
    BY <1>7, <2>1, UpdateTaskType DEF SubUpdate
  <2>3. /\ sub' \in [Tasks -> SubType]
        /\ \A u \in Tasks : sub'[u] = sub[u] \/ sub'[u].pc = "exit"
    BY <1>0, <1>7, InitialValues, SubStarts DEF SubUpdate, SubExit, SubPC
  <2>4. NamesResolve'
    BY <1>0, <1>7, <2>2, <2>3, NamesKept DEF SubUpdate, listenerVars
  <2> QED
    BY <1>7, <2>2, <2>3, <2>4 DEF SubUpdate, ClusterTypeOK, ListenerTypeOK,
       OrchestratorTypeOK, listenerVars, SubType
<1>8. CASE SubReturn(t)
  <2>1. /\ sub' \in [Tasks -> SubType]
        /\ \A u \in Tasks : sub'[u] = sub[u] \/ sub'[u].pc = "none"
    BY <1>0, <1>8, InitialValues, SubStarts DEF SubReturn, SubPC
  <2>4. NamesResolve'
    BY <1>0, <1>8, <2>1, NamesKept DEF SubReturn, listenerVars, clusterVars
  <2> QED
    BY <1>8, <2>1, <2>4 DEF SubReturn, ClusterTypeOK, ListenerTypeOK,
       OrchestratorTypeOK, listenerVars, clusterVars, SubType
<1> QED
  BY <1>1, <1>2, <1>3, <1>4, <1>5, <1>6, <1>7, <1>8 DEF Submission

CallbackType == [pc : CallbackPC, snap : AgentTask]

LEMMA CallbackMoves ==
  ASSUME cb \in [Claims -> [1 .. MaxTries -> CallbackType]],
         NEW c \in Claims, NEW i \in 1 .. MaxTries, NEW p \in CallbackPC,
         Conclude(c, i, p) \/ Proceed(c, i, p)
  PROVE  /\ cb' \in [Claims -> [1 .. MaxTries -> CallbackType]]
         /\ \A d \in Claims, j \in 1 .. MaxTries : <<d, j>> # <<c, i>> => cb'[d][j] = cb[d][j]
         /\ cb'[c][i].pc = p
<1>1. CASE Conclude(c, i, p)
  <2>1. [pc |-> p, snap |-> NoAgentTask] \in CallbackType
    BY InitialValues DEF CallbackType
  <2> QED
    BY <1>1, <2>1 DEF Conclude
<1>2. CASE Proceed(c, i, p)
  <2>1. [cb[c][i] EXCEPT !.pc = p] \in CallbackType /\ [cb[c][i] EXCEPT !.pc = p].pc = p
    BY DEF CallbackType
  <2> QED
    BY <1>2, <2>1 DEF Proceed
<1> QED BY <1>1, <1>2

LEMMA HandleType ==
  ASSUME Typed, NEW c \in Claims, NEW i \in 1 .. MaxTries, Handle(c, i)
  PROVE  Typed'
<1> USE DEF Typed, TypeOK
<1> DEFINE t == owner[c]
<1>0. /\ cb \in [Claims -> [1 .. MaxTries -> CallbackType]]
      /\ loop.pc = "idle" \/ loop.t \in Tasks
      /\ cb[c][i].pc # "none" => t \in Tasks
  BY DEF ListenerTypeOK, CallbackType, NamesResolve
<1>00. UNCHANGED orchestratorVars
  BY DEF Handle
<1>1. CASE CallbackGet(c, i)
  <2>1. /\ cb' \in [Claims -> [1 .. MaxTries -> CallbackType]]
        /\ \A d \in Claims, j \in 1 .. MaxTries :
             cb'[d][j] = cb[d][j] \/ (d = c /\ j = i)
    <3>1. CASE \E p \in CallbackPC : Conclude(c, i, p)
      BY <1>0, <3>1, CallbackMoves
    <3>2. CASE cb' = [cb EXCEPT ![c][i] = [pc |-> "verify", snap |-> task[t]]]
      <4>1. [pc |-> "verify", snap |-> task[t]] \in CallbackType
        BY <1>0, <1>1 DEF CallbackGet, CallbackType, CallbackPC, ClusterTypeOK
      <4> QED
        BY <1>0, <3>2, <4>1
    <3> QED
      BY <1>1, <3>1, <3>2 DEF CallbackGet, CallbackPC
  <2>2. faults' \in 0 .. MaxFaults
    BY <1>1, FaultType DEF CallbackGet, CallFails
  <2>3. NamesResolve'
    BY <1>0, <1>00, <1>1, <2>1, NamesKept DEF CallbackGet, orchestratorVars
  <2> QED
    BY <1>00, <1>1, <2>1, <2>2, <2>3 DEF CallbackGet, ClusterTypeOK, ListenerTypeOK,
       OrchestratorTypeOK, orchestratorVars, CallbackType
<1>2. CASE CallbackVerify(c, i) \/ CallbackConsume(c, i) \/ CallbackComment(c, i)
  <2>1. \E p \in CallbackPC : Conclude(c, i, p) \/ Proceed(c, i, p)
    BY <1>2 DEF CallbackVerify, CallbackConsume, CallbackComment, CallbackPC
  <2>2. /\ cb' \in [Claims -> [1 .. MaxTries -> CallbackType]]
        /\ \A d \in Claims, j \in 1 .. MaxTries :
             cb'[d][j] = cb[d][j] \/ (d = c /\ j = i)
    BY <1>0, <2>1, CallbackMoves
  <2>3. faults' \in 0 .. MaxFaults
    BY <1>2, FaultType DEF CallbackVerify, CallbackConsume, CallbackComment, CallFails
  <2>4. /\ tokens' \in [Tasks -> Claims \union {NoClaim}]
        /\ comments' \in [Claims -> Nat]
    <3>1. /\ UNCHANGED tokens \/ DeleteToken(t)
          /\ UNCHANGED comments \/ PostComment(c)
      BY <1>2 DEF CallbackVerify, CallbackConsume, CallbackComment
    <3>2. DeleteToken(t) => tokens' \in [Tasks -> Claims \union {NoClaim}]
      BY DEF DeleteToken, ListenerTypeOK
    <3>3. PostComment(c) => comments' \in [Claims -> Nat]
      BY DEF PostComment, ListenerTypeOK
    <3> QED
      BY <3>1, <3>2, <3>3 DEF ListenerTypeOK
  <2>5. /\ UNCHANGED <<task, events, claim, owner, pod, podEvents, crashes, tries>>
        /\ cb[c][i].pc # "none"
    BY <1>2 DEF CallbackVerify, CallbackConsume, CallbackComment
  <2>6. NamesResolve'
    BY <1>0, <1>00, <2>2, <2>5, NamesKept DEF orchestratorVars
  <2> QED
    BY <1>00, <2>2, <2>3, <2>4, <2>5, <2>6 DEF ClusterTypeOK, ListenerTypeOK,
       OrchestratorTypeOK, orchestratorVars, CallbackType
<1>3. CASE CallbackComplete(c, i)
  <2>1. [cb[c][i].snap EXCEPT !.state = "Completed"] \in AgentTask
    <3>1. cb[c][i].snap \in AgentTask
      BY <1>0 DEF CallbackType
    <3> QED
      BY <3>1 DEF AgentTask, AgentTaskState
  <2>2. /\ task' \in [Tasks -> AgentTask]
        /\ events' \in [Tasks -> Nat]
        /\ faults' \in 0 .. MaxFaults
    BY <1>0, <1>3, <2>1, UpdateTaskType, FaultType DEF CallbackComplete, ClusterTypeOK
  <2>3. /\ cb' \in [Claims -> [1 .. MaxTries -> CallbackType]]
        /\ \A d \in Claims, j \in 1 .. MaxTries :
             cb'[d][j] = cb[d][j] \/ (d = c /\ j = i)
    <3>1. \E p \in CallbackPC : Conclude(c, i, p)
      BY <1>3 DEF CallbackComplete, CallbackPC
    <3> QED
      BY <1>0, <3>1, CallbackMoves
  <2>4. NamesResolve'
    BY <1>0, <1>00, <1>3, <2>3, NamesKept DEF CallbackComplete, orchestratorVars
  <2> QED
    BY <1>00, <1>3, <2>2, <2>3, <2>4 DEF CallbackComplete, ClusterTypeOK, ListenerTypeOK,
       OrchestratorTypeOK, orchestratorVars, CallbackType
<1> QED
  BY <1>1, <1>2, <1>3 DEF Handle, Callback

(* A pod step of the runner or the cluster, with the callback it may send. *)
LEMMA PodStepType ==
  ASSUME Typed, NEW c \in Claims, owner[c] \in Tasks,
         UNCHANGED <<task, events, claim, owner, crashes, tokens, comments, orchestratorVars>>,
         Fault \/ NoFault,
         \/ UNCHANGED <<pod, podEvents>>
         \/ \E s \in PodState : pod' = [pod EXCEPT ![c] = s] /\ UNCHANGED podEvents
         \/ \E s \in PodState : EndPod(c, s),
         \/ UNCHANGED <<tries, cb>>
         \/ \E i \in 1 .. MaxTries : SendCallback(c, i)
  PROVE  Typed'
<1> USE DEF Typed, TypeOK
<1>1. faults' \in 0 .. MaxFaults
  BY FaultType
<1>2. /\ pod' \in [Claims -> PodState]
      /\ podEvents' \in [Claims -> Nat]
      /\ \A d \in Claims : d # c => pod'[d] = pod[d]
  BY DEF EndPod, ClusterTypeOK
<1>3. /\ tries' \in [Claims -> 0 .. MaxTries]
      /\ cb' \in [Claims -> [1 .. MaxTries -> CallbackType]]
      /\ \A d \in Claims, j \in 1 .. MaxTries : d # c => cb'[d][j] = cb[d][j]
  <2>1. CASE UNCHANGED <<tries, cb>>
    BY <2>1 DEF ListenerTypeOK, CallbackType
  <2>2. CASE \E i \in 1 .. MaxTries : SendCallback(c, i)
    <3>1. PICK i \in 1 .. MaxTries : SendCallback(c, i)
      BY <2>2
    <3>2. Proceed(c, i, "received") /\ "received" \in CallbackPC
      BY <3>1 DEF SendCallback, Proceed, CallbackPC
    <3>3. cb \in [Claims -> [1 .. MaxTries -> CallbackType]]
      BY DEF ListenerTypeOK, CallbackType
    <3>4. tries' \in [Claims -> 0 .. MaxTries]
      BY <3>1, ClusterAssumption DEF SendCallback, ListenerTypeOK
    <3> QED
      BY <3>2, <3>3, <3>4, CallbackMoves
  <2> QED BY <2>1, <2>2
<1>4. NamesResolve'
  BY <1>2, <1>3 DEF NamesResolve, orchestratorVars
<1> QED
  BY <1>1, <1>2, <1>3, <1>4 DEF ClusterTypeOK, ListenerTypeOK, OrchestratorTypeOK,
     orchestratorVars, CallbackType

LEMMA RunType ==
  ASSUME Typed, NEW c \in Claims,
         Run(c) \/ (RunnerLosesCall(c) /\ UNCHANGED orchestratorVars)
  PROVE  Typed'
<1>1. owner[c] \in Tasks
  BY DEF Typed, NamesResolve, Run, Runner, RunnerFails, RunnerReports, RunnerHears,
     RunnerLosesCall
<1>2. tries[c] \in 0 .. MaxTries /\ 1 \in 1 .. MaxTries
  BY ClusterAssumption DEF Typed, TypeOK, ListenerTypeOK
<1>3. TryAgain(c) => \/ UNCHANGED <<pod, podEvents>> /\ \E i \in 1 .. MaxTries : SendCallback(c, i)
                     \/ EndPod(c, "Failed") /\ UNCHANGED <<tries, cb>>
  BY <1>2, ClusterAssumption DEF TryAgain
<1>4. {"Failed", "Succeeded"} \subseteq PodState
  BY DEF PodState
<1> QED
  BY <1>1, <1>2, <1>3, <1>4, PodStepType DEF Run, Runner, RunnerFails, RunnerReports,
     RunnerHears, RunnerLosesCall, NoFault, clusterVars, listenerVars

LEMMA ClusterStepType ==
  ASSUME Typed, NEW c \in Claims,
         Provision(c) \/ (LosePod(c) /\ UNCHANGED <<listenerVars, orchestratorVars>>)
  PROVE  Typed'
<1>1. owner[c] \in Tasks
  BY DEF Typed, NamesResolve, Provision, BindSandbox, RemovePod, LosePod
<1>2. {"Ready", "Gone", "Failed"} \subseteq PodState
  BY DEF PodState
<1> QED
  BY <1>1, <1>2, PodStepType DEF Provision, BindSandbox, RemovePod, LosePod, NoFault,
     listenerVars

LEMMA WatchType ==
  ASSUME Typed, Watch
  PROVE  Typed'
<1> USE DEF Typed, TypeOK
<1>1. CASE \E t \in Tasks : HandleTaskEvent(t)
  <2>1. PICK t \in Tasks : HandleTaskEvent(t)
    BY <1>1
  <2>2. loop' \in LoopType /\ loop'.t \in Tasks
    BY <2>1, InitialValues DEF HandleTaskEvent, IdleLoop, LoopType, LoopPC
  <2>3. events' \in [Tasks -> Nat]
    BY <2>1 DEF HandleTaskEvent, ClusterTypeOK
  <2>4. NamesResolve'
    BY <2>1, <2>2, NamesKept DEF HandleTaskEvent, listenerVars
  <2> QED
    BY <2>1, <2>2, <2>3, <2>4 DEF HandleTaskEvent, ClusterTypeOK, ListenerTypeOK,
       OrchestratorTypeOK, listenerVars, LoopType
<1>2. CASE \E c \in Claims : HandlePodEvent(c)
  <2>1. PICK c \in Claims : HandlePodEvent(c)
    BY <1>2
  <2>2. loop' \in LoopType /\ (loop'.pc = "idle" \/ loop'.t \in Tasks)
    BY <2>1, InitialValues DEF HandlePodEvent, RunningOn, IdleLoop, LoopType, LoopPC,
       OrchestratorTypeOK
  <2>3. podEvents' \in [Claims -> Nat]
    <3>1. podEvents[c] - 1 \in Nat
      <4>1. podEvents \in [Claims -> Nat] /\ podEvents[c] > 0
        BY <2>1 DEF HandlePodEvent, ClusterTypeOK
      <4> QED
        BY <2>1, <4>1
    <3> QED
      BY <2>1, <3>1 DEF HandlePodEvent, ClusterTypeOK
  <2>4. faults' \in 0 .. MaxFaults
    BY <2>1, FaultType DEF HandlePodEvent
  <2>5. NamesResolve'
    BY <2>1, <2>2, NamesKept DEF HandlePodEvent, listenerVars
  <2> QED
    BY <2>1, <2>2, <2>3, <2>4, <2>5 DEF HandlePodEvent, ClusterTypeOK, ListenerTypeOK,
       OrchestratorTypeOK, listenerVars, LoopType
<1> QED BY <1>1, <1>2 DEF Watch

LEMMA CreateTaskType ==
  ASSUME Typed, NEW t \in Tasks, NEW s \in AgentTaskState,
         CreateTask(t, s), UNCHANGED orchestratorVars
  PROVE  Typed'
<1> USE DEF Typed, TypeOK
<1> DEFINE obj == [NoAgentTask EXCEPT !.state = s, !.rv = task[t].rv + 1]
<1>1. task[t].rv + 1 \in Nat
  BY DEF ClusterTypeOK, AgentTask
<1>2. obj \in AgentTask /\ task' = [task EXCEPT ![t] = obj]
  BY <1>1, InitialValues DEF AgentTask, CreateTask
<1> HIDE DEF obj
<1>3. task' \in [Tasks -> AgentTask] /\ events' \in [Tasks -> Nat]
  BY <1>2 DEF CreateTask, ClusterTypeOK
<1>4. NamesResolve'
  BY DEF CreateTask, NamesResolve, listenerVars, orchestratorVars
<1> QED
  BY <1>3, <1>4 DEF CreateTask, ClusterTypeOK, ListenerTypeOK, OrchestratorTypeOK,
     listenerVars, orchestratorVars

LEMMA CreateType ==
  ASSUME Typed, Create
  PROVE  Typed'
BY CreateTaskType DEF Create, AgentTaskState

LEMMA DisturbType ==
  ASSUME Typed, Disturb
  PROVE  Typed'
<1> USE DEF Typed, TypeOK
<1>1. CASE \E t \in Tasks : LoseToken(t) /\ UNCHANGED orchestratorVars
  <2>1. tokens' \in [Tasks -> Claims \union {NoClaim}] /\ faults' \in 0 .. MaxFaults
    BY <1>1, FaultType DEF LoseToken, DeleteToken, ListenerTypeOK
  <2>2. NamesResolve'
    BY <1>1 DEF LoseToken, NamesResolve, orchestratorVars
  <2> QED
    BY <1>1, <2>1, <2>2 DEF LoseToken, ClusterTypeOK, ListenerTypeOK, OrchestratorTypeOK,
       orchestratorVars
<1>2. CASE ListenerRestart /\ UNCHANGED orchestratorVars
  <2>1. /\ cb' \in [Claims -> [1 .. MaxTries -> CallbackType]]
        /\ \A c \in Claims, i \in 1 .. MaxTries :
             cb'[c][i] = cb[c][i] \/ cb[c][i].pc # "none"
    BY <1>2, InitialValues DEF ListenerRestart, InProgress, ListenerTypeOK, CallbackType,
       CallbackPC
  <2>2. tokens' \in [Tasks -> Claims \union {NoClaim}] /\ crashes' \in 0 .. MaxCrashes
    BY <1>2, ClusterAssumption DEF ListenerRestart, ClusterTypeOK, ListenerTypeOK
  <2>3. NamesResolve'
    BY <1>2, <2>1 DEF ListenerRestart, NamesResolve, orchestratorVars
  <2> QED
    BY <1>2, <2>1, <2>2, <2>3 DEF ListenerRestart, ClusterTypeOK, ListenerTypeOK,
       OrchestratorTypeOK, orchestratorVars, CallbackType
<1>3. CASE OrchestratorRestart
  <2>1. /\ crashes' \in 0 .. MaxCrashes
        /\ events' \in [Tasks -> Nat] /\ podEvents' \in [Claims -> Nat]
    BY <1>3, ClusterAssumption DEF OrchestratorRestart, ClusterTypeOK
  <2>2. /\ loop' \in LoopType /\ loop'.pc = "idle"
        /\ sub' \in [Tasks -> SubType]
        /\ \A t \in Tasks : sub'[t].pc = "none"
    BY <1>3, InitialValues DEF OrchestratorRestart, IdleLoop, NoSubmission
  <2>3. NamesResolve'
    BY <1>3, <2>2, NamesKept DEF OrchestratorRestart, listenerVars
  <2> QED
    BY <1>3, <2>1, <2>2, <2>3 DEF OrchestratorRestart, ClusterTypeOK, ListenerTypeOK,
       OrchestratorTypeOK, listenerVars, LoopType, SubType
<1> QED
  BY <1>1, <1>2, <1>3, ClusterStepType, RunType DEF Disturb

LEMMA InitType == Init => Typed
<1> SUFFICES ASSUME Init PROVE Typed
  OBVIOUS
<1> USE InitialValues DEF Init
<1>1. ClusterTypeOK
  BY ClusterAssumption DEF ClusterInit, ClusterTypeOK, ClaimState, PodState
<1>2. ListenerTypeOK
  BY ClusterAssumption DEF ListenerInit, ListenerTypeOK
<1>3. OrchestratorTypeOK
  BY DEF OrchestratorInit, OrchestratorTypeOK, LoopType, SubType
<1>4. NamesResolve
  BY DEF ClusterInit, ListenerInit, OrchestratorInit, NamesResolve, IdleLoop, NoSubmission,
     NoCallback
<1> QED BY <1>1, <1>2, <1>3, <1>4 DEF Typed, TypeOK

LEMMA NextType == Typed /\ [Next]_vars => Typed'
<1> SUFFICES ASSUME Typed, [Next]_vars PROVE Typed'
  OBVIOUS
<1>1. CASE UNCHANGED vars
  BY <1>1 DEF Typed, TypeOK, NamesResolve, ClusterTypeOK, ListenerTypeOK,
     OrchestratorTypeOK, vars, clusterVars, listenerVars, orchestratorVars
<1>2. CASE Next
  BY <1>2, CreateType, HandleType, RunType, ClusterStepType, WatchType, ReconcileType,
     SubmissionType, DisturbType DEF Next
<1> QED BY <1>1, <1>2

(* Every variable keeps to its type, and every task and claim that the     *)
(* loop, a goroutine, a pod or a callback handler names exists; retries    *)
(* never exceed AGENT_RETRY_COUNT (StateFailed of Reconcile).              *)
THEOREM TypeCorrect == Spec => [](TypeOK /\ NamesResolve)
<1>1. Spec => []Typed
  BY InitType, NextType, PTL DEF Spec
<1> QED
  BY <1>1 DEF Typed
=============================================================================
