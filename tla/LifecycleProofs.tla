---------------------------- MODULE LifecycleProofs ----------------------------
(***************************************************************************)
(* Proofs of what the whole system promises about a task and its           *)
(* sandboxes, for every set of tasks and claims and every bound: that the  *)
(* status records the sandbox the task runs in, that a sandbox is closed   *)
(* before its record is dropped, that a completed task was answered and    *)
(* was completed by its own attempt, that without failures nothing is      *)
(* missed, repeated or forgotten, and that every step is a move of         *)
(* TaskLifecycle.                                                          *)
(*                                                                         *)
(* The argument has two layers.  The first says, variable by variable,     *)
(* what any step of Next may do to it and under which conditions; it uses  *)
(* the coherence of the local copies proved in CoherenceProofs.  The       *)
(* second proves the inductive invariant LifeInv from these facts alone.   *)
(***************************************************************************)
EXTENDS CoherenceProofs

-----------------------------------------------------------------------------
(* What a step may do to each variable                                     *)

LEMMA Shapes ==
  ASSUME Typed
  PROVE  /\ task \in [Tasks -> AgentTask]
         /\ claim \in [Claims -> ClaimState]
         /\ owner \in [Claims -> Tasks \union {NoTask}]
         /\ pod \in [Claims -> PodState]
         /\ events \in [Tasks -> Nat] /\ podEvents \in [Claims -> Nat]
         /\ faults \in Nat /\ crashes \in Nat
         /\ tokens \in [Tasks -> Claims \union {NoClaim}]
         /\ cb \in [Claims -> [1 .. MaxTries -> CallbackType]]
         /\ tries \in [Claims -> 0 .. MaxTries]
         /\ comments \in [Claims -> Nat]
         /\ loop \in LoopType
         /\ sub \in [Tasks -> SubType]
         /\ activeTasks \subseteq Tasks
BY ClusterAssumption DEF Typed, TypeOK, ClusterTypeOK, ListenerTypeOK, OrchestratorTypeOK,
   LoopType, SubType, CallbackType

(* What each part of the system leaves alone.                              *)
LEMMA Frames ==
  /\ Create => UNCHANGED <<claim, owner, pod, podEvents, faults, crashes, tokens, cb,
                           tries, comments, loop, sub, activeTasks>>
  /\ \A c \in Claims, i \in 1 .. MaxTries :
       Handle(c, i) => UNCHANGED <<claim, owner, pod, podEvents, crashes, tries, loop,
                                   sub, activeTasks>>
  /\ \A c \in Claims :
       /\ Run(c) => UNCHANGED <<task, events, claim, owner, faults, crashes, tokens,
                                comments, loop, sub, activeTasks>>
       /\ Provision(c) => UNCHANGED <<task, events, claim, owner, faults, crashes, tokens,
                                      cb, tries, comments, loop, sub, activeTasks>>
  /\ Watch => UNCHANGED <<task, claim, owner, pod, crashes, tokens, cb, tries, comments,
                          sub, activeTasks>>
  /\ Reconcile => UNCHANGED <<owner, pod, podEvents, crashes, tokens, cb, tries, comments>>
  /\ \A t \in Tasks :
       Submission(t) => UNCHANGED <<crashes, cb, tries, comments, loop>>
  /\ Disturb => UNCHANGED <<task, claim, owner, comments>>
<1>1. Create => UNCHANGED <<claim, owner, pod, podEvents, faults, crashes, tokens, cb,
                           tries, comments, loop, sub, activeTasks>>
  BY DEF Create, CreateTask, listenerVars, orchestratorVars
<1>2. \A c \in Claims, i \in 1 .. MaxTries :
       Handle(c, i) => UNCHANGED <<claim, owner, pod, podEvents, crashes, tries, loop,
                                   sub, activeTasks>>
  BY DEF Handle, Callback, CallbackGet, CallbackVerify, CallbackConsume, CallbackComment,
     CallbackComplete, orchestratorVars
<1>3. \A c \in Claims :
        Run(c) => UNCHANGED <<task, events, claim, owner, faults, crashes, tokens,
                              comments, loop, sub, activeTasks>>
  BY DEF Run, Runner, RunnerFails, RunnerReports, RunnerHears, listenerVars, clusterVars,
     orchestratorVars
<1>4. \A c \in Claims :
        Provision(c) => UNCHANGED <<task, events, claim, owner, faults, crashes, tokens,
                                    cb, tries, comments, loop, sub, activeTasks>>
  BY DEF Provision, BindSandbox, RemovePod, listenerVars, orchestratorVars
<1>5. Watch => UNCHANGED <<task, claim, owner, pod, crashes, tokens, cb, tries, comments,
                          sub, activeTasks>>
  BY DEF Watch, HandleTaskEvent, HandlePodEvent, listenerVars
<1>6. Reconcile => UNCHANGED <<owner, pod, podEvents, crashes, tokens, cb, tries, comments>>
  BY DEF Reconcile, ReconcileGet, ReconcileInit, ReconcilePending, ReconcileInvalid,
     ReconcileStarted, ReconcileRunning, ReconcilePodFailed, ReconcilePodSucceeded,
     ReconcileCompleted, ReconcileDelete, ReconcileFailed, ReconcileRelease, ReconcileRetry,
     ReconcileExhausted, CloseRecorded, Write, WriteAndReturn, clusterVars, listenerVars
<1>7. \A t \in Tasks : Submission(t) => UNCHANGED <<crashes, cb, tries, comments, loop>>
  BY DEF Submission, SubGet, SubCreate, SubAwait, SubTokens, SubClose, SubSubmit, SubUpdate,
     SubReturn, clusterVars, listenerVars
<1>8. Disturb => UNCHANGED <<task, claim, owner, comments>>
  BY DEF Disturb, LosePod, RunnerLosesCall, LoseToken, ListenerRestart, OrchestratorRestart,
     listenerVars
<1> QED
  BY <1>1, <1>2, <1>3, <1>4, <1>5, <1>6, <1>7, <1>8

(* A claim is opened for a task whose goroutine is at CreateSandbox, and   *)
(* deleted by the goroutine that holds it or by Reconcile, which found it  *)
(* recorded in the copy it works on.                                       *)
Opened(c, t) ==
  /\ sub[t].pc = "create" /\ claim[c] = "Unused"
  /\ claim'[c] = "Live" /\ owner'[c] = t
  /\ \/ sub'[t].pc = "await" /\ sub'[t].claim = c
     \/ sub'[t].pc = "get" /\ faults' = faults + 1

DroppedBySub(c, t) ==
  /\ sub[t].pc \in {"await", "close"} /\ sub[t].claim = c
  /\ claim'[c] = "Deleted"
  /\ sub'[t].pc = "get"

ClosedByLoop(c) ==
  /\ loop.pc = "dispatch" /\ loop.snap.state \in {"Failed", "Completed"}
  /\ loop.snap.claim = c
  /\ claim'[c] = "Deleted"
  /\ UNCHANGED <<sub, task>>

ClaimStep(c) ==
  \/ claim'[c] = claim[c] /\ owner'[c] = owner[c]
  \/ \E t \in Tasks : Opened(c, t)
  \/ /\ owner'[c] = owner[c]
     /\ (\E t \in Tasks : DroppedBySub(c, t)) \/ ClosedByLoop(c)

(* At most one claim changes in a step, and no task changes with it.       *)
OneClaimStep ==
  \/ UNCHANGED claim
  \/ /\ UNCHANGED task
     /\ \E c \in Claims : \A d \in Claims : d # c => claim'[d] = claim[d]

LEMMA SubmissionClaims ==
  ASSUME Typed, NEW t \in Tasks, Submission(t)
  PROVE  OneClaimStep /\ \A c \in Claims : ClaimStep(c)
<1>0. /\ claim \in [Claims -> ClaimState] /\ owner \in [Claims -> Tasks \union {NoTask}]
      /\ sub \in [Tasks -> SubType]
  BY Shapes
<1>1. SubAgain(t) => sub'[t].pc = "get"
  BY <1>0, SubStarts, InitialValues DEF SubAgain, SubPC
<1>2. CASE SubCreate(t)
  <2>1. CASE UNCHANGED <<claim, owner>>
    BY <2>1 DEF ClaimStep, OneClaimStep
  <2>2. CASE \E c \in Claims :
               /\ claim[c] = "Unused"
               /\ claim' = [claim EXCEPT ![c] = "Live"]
               /\ owner' = [owner EXCEPT ![c] = t]
               /\ \/ sub' = [sub EXCEPT ![t].pc = "await", ![t].claim = c]
                  \/ Fault /\ SubAgain(t)
    <3>1. PICK c \in Claims :
               /\ claim[c] = "Unused"
               /\ claim' = [claim EXCEPT ![c] = "Live"]
               /\ owner' = [owner EXCEPT ![c] = t]
               /\ \/ sub' = [sub EXCEPT ![t].pc = "await", ![t].claim = c]
                  \/ Fault /\ SubAgain(t)
      BY <2>2
    <3>2. \/ sub'[t].pc = "await" /\ sub'[t].claim = c
          \/ sub'[t].pc = "get" /\ faults' = faults + 1
      BY <1>0, <1>1, <3>1 DEF SubType, Fault
    <3>3. claim'[c] = "Live" /\ owner'[c] = t /\ sub[t].pc = "create"
      BY <1>0, <1>2, <3>1 DEF SubCreate
    <3>4. \A d \in Claims : d # c => claim'[d] = claim[d] /\ owner'[d] = owner[d]
      BY <1>0, <3>1
    <3>5. Opened(c, t) /\ UNCHANGED task
      BY <1>2, <3>1, <3>2, <3>3 DEF Opened, SubCreate
    <3> QED
      BY <3>4, <3>5 DEF ClaimStep, OneClaimStep
  <2> QED
    BY <1>2, <2>1, <2>2 DEF SubCreate
<1>3. CASE SubAwait(t) \/ SubClose(t)
  <2>1. /\ UNCHANGED <<owner, task>> /\ sub[t].pc \in {"await", "close"}
        /\ claim' = claim \/ (SubAgain(t) /\ claim' = [claim EXCEPT ![sub[t].claim] = "Deleted"])
    BY <1>3 DEF SubAwait, SubClose, DeleteClaim
  <2>2. sub[t].claim \in Claims
    BY <2>1 DEF Typed, NamesResolve
  <2>3. CASE claim' = claim
    BY <2>1, <2>3 DEF ClaimStep, OneClaimStep
  <2>4. CASE SubAgain(t) /\ claim' = [claim EXCEPT ![sub[t].claim] = "Deleted"]
    <3>1. DroppedBySub(sub[t].claim, t)
      BY <1>0, <1>1, <2>1, <2>2, <2>4 DEF DroppedBySub
    <3>2. \A d \in Claims : d # sub[t].claim => claim'[d] = claim[d]
      BY <1>0, <2>2, <2>4
    <3> QED
      BY <2>1, <2>2, <3>1, <3>2 DEF ClaimStep, OneClaimStep
  <2> QED
    BY <2>1, <2>3, <2>4
<1>4. SubCreate(t) \/ SubAwait(t) \/ SubClose(t) \/ UNCHANGED <<claim, owner>>
  BY DEF Submission, SubGet, SubTokens, SubSubmit, SubUpdate, SubReturn, clusterVars
<1> QED
  BY <1>2, <1>3, <1>4 DEF ClaimStep, OneClaimStep

LEMMA ReconcileClaims ==
  ASSUME Typed, Reconcile
  PROVE  OneClaimStep /\ \A c \in Claims : ClaimStep(c)
<1>0. claim \in [Claims -> ClaimState] /\ loop \in LoopType
  BY Shapes
<1>1. UNCHANGED owner
  BY Frames
<1>2. CASE ReconcileCompleted \/ ReconcileFailed
  <2>1. /\ loop.pc = "dispatch" /\ loop.snap.state \in {"Completed", "Failed"}
        /\ UNCHANGED <<task, sub>>
        /\ \/ claim' = claim
           \/ /\ loop.snap.claim # NoClaim
              /\ claim' = [claim EXCEPT ![loop.snap.claim] = "Deleted"]
    BY <1>2 DEF ReconcileCompleted, ReconcileFailed, CloseRecorded, DeleteClaim, Dispatch
  <2>2. loop.snap.claim # NoClaim => loop.snap.claim \in Claims
    BY <1>0 DEF LoopType, AgentTask
  <2>3. CASE claim' = claim
    BY <1>1, <2>3 DEF ClaimStep, OneClaimStep
  <2>4. CASE loop.snap.claim # NoClaim /\ claim' = [claim EXCEPT ![loop.snap.claim] = "Deleted"]
    <3>1. ClosedByLoop(loop.snap.claim)
      BY <1>0, <2>1, <2>2, <2>4 DEF ClosedByLoop
    <3>2. \A d \in Claims : d # loop.snap.claim => claim'[d] = claim[d]
      BY <1>0, <2>2, <2>4
    <3> QED
      BY <1>1, <2>1, <2>2, <2>4, <3>1, <3>2 DEF ClaimStep, OneClaimStep
  <2> QED
    BY <2>1, <2>3, <2>4
<1>3. ReconcileCompleted \/ ReconcileFailed \/ UNCHANGED claim
  BY DEF Reconcile, ReconcileGet, ReconcileInit, ReconcilePending, ReconcileInvalid,
     ReconcileStarted, ReconcileRunning, ReconcilePodFailed, ReconcilePodSucceeded,
     ReconcileDelete, ReconcileRelease, ReconcileRetry, ReconcileExhausted, Write,
     WriteAndReturn, clusterVars
<1> QED
  BY <1>1, <1>2, <1>3 DEF ClaimStep, OneClaimStep

LEMMA ClaimSteps ==
  ASSUME Typed, Next
  PROVE  OneClaimStep /\ \A c \in Claims : ClaimStep(c)
<1>1. UNCHANGED <<claim, owner>> => OneClaimStep /\ \A c \in Claims : ClaimStep(c)
  BY DEF ClaimStep, OneClaimStep
<1>2. CASE \E t \in Tasks : Submission(t)
  BY <1>2, SubmissionClaims
<1>3. CASE Reconcile
  BY <1>3, ReconcileClaims
<1> QED
  BY <1>1, <1>2, <1>3, Frames DEF Next

(* A pod is bound, accepts the task its claim was made for, or ends; it    *)
(* succeeds only when a callback of its attempt was answered 200, and one  *)
(* that has not accepted a task ends only by a failure or with its claim.  *)
Submitted(c, t) ==
  /\ sub[t].pc = "submit" /\ sub[t].claim = c
  /\ pod[c] = "Ready" /\ pod'[c] = "Busy"
  /\ sub'[t].pc = "update" \/ faults' = faults + 1
  /\ sub'[t].pc \in {"update", "get"}

Ended(c) ==
  /\ pod[c] # "None" /\ pod'[c] \in {"Failed", "Gone", "Succeeded"}
  /\ podEvents'[c] = podEvents[c] + 1
  /\ pod'[c] = "Succeeded" =>
       pod[c] = "Busy" /\ \E i \in 1 .. MaxTries : cb[c][i].pc = "ok"
  /\ pod[c] = "Ready" => faults' = faults + 1 \/ claim[c] = "Deleted"

PodStep(c) ==
  \/ pod'[c] = pod[c]
  \/ pod[c] = "None" /\ pod'[c] = "Ready"
  \/ \E t \in Tasks : Submitted(c, t)
  \/ Ended(c)

LEMMA PodEnds ==
  ASSUME Typed, NEW c \in Claims, NEW s \in {"Failed", "Gone", "Succeeded"}, EndPod(c, s)
  PROVE  /\ pod'[c] = s /\ podEvents'[c] = podEvents[c] + 1
         /\ \A d \in Claims : d # c => pod'[d] = pod[d]
BY Shapes DEF EndPod

LEMMA PodSteps ==
  ASSUME Typed, Next, NEW c \in Claims
  PROVE  PodStep(c)
<1>0. /\ pod \in [Claims -> PodState] /\ sub \in [Tasks -> SubType]
      /\ tries \in [Claims -> 0 .. MaxTries]
  BY Shapes
<1>1. UNCHANGED pod => PodStep(c)
  BY DEF PodStep
<1>2. ASSUME NEW d \in Claims, Run(d) \/ RunnerLosesCall(d) PROVE PodStep(c)
  <2>1. \/ UNCHANGED pod
        \/ pod[d] = "Busy" /\ EndPod(d, "Failed")
        \/ /\ pod[d] = "Busy" /\ EndPod(d, "Succeeded")
           /\ tries[d] # 0 /\ cb[d][tries[d]].pc = "ok"
    BY <1>2 DEF Run, Runner, RunnerFails, RunnerReports, RunnerHears, RunnerLosesCall,
       TryAgain, clusterVars
  <2>2. tries[d] # 0 => tries[d] \in 1 .. MaxTries
    BY <1>0, ClusterAssumption
  <2>3. pod[d] = "Busy" /\ EndPod(d, "Failed") => PodStep(c)
    BY PodEnds DEF PodStep, Ended
  <2>4. ASSUME pod[d] = "Busy", EndPod(d, "Succeeded"), tries[d] # 0,
               cb[d][tries[d]].pc = "ok"
        PROVE  PodStep(c)
    BY <2>2, <2>4, PodEnds DEF PodStep, Ended
  <2> QED
    BY <1>1, <2>1, <2>3, <2>4
<1>3. ASSUME NEW d \in Claims, Provision(d) PROVE PodStep(c)
  <2>1. CASE BindSandbox(d)
    BY <1>0, <2>1 DEF BindSandbox, PodStep
  <2>2. CASE RemovePod(d)
    <3>1. pod[d] # "None" /\ claim[d] = "Deleted" /\ EndPod(d, "Gone")
      BY <2>2 DEF RemovePod
    <3> QED
      BY <3>1, PodEnds DEF PodStep, Ended
  <2> QED
    BY <1>3, <2>1, <2>2 DEF Provision
<1>4. ASSUME NEW d \in Claims, LosePod(d) PROVE PodStep(c)
  <2>1. PICK s \in {"Failed", "Gone"} : EndPod(d, s)
    BY <1>4 DEF LosePod
  <2>2. pod[d] \in {"Ready", "Busy"} /\ faults' = faults + 1
    BY <1>4 DEF LosePod, Fault
  <2> QED
    BY <2>1, <2>2, PodEnds DEF PodStep, Ended
<1>5. ASSUME NEW t \in Tasks, SubSubmit(t) PROVE PodStep(c)
  <2> DEFINE d == sub[t].claim
  <2>1. d \in Claims /\ sub[t].pc = "submit"
    BY <1>5 DEF SubSubmit, Typed, NamesResolve
  <2>2. /\ SubGoTo(t, "update") => sub'[t].pc = "update"
        /\ SubAgain(t) => sub'[t].pc = "get"
    BY <1>0, SubMoves, SubStarts, InitialValues DEF SubAgain, SubPC
  <2>3. \/ UNCHANGED pod
        \/ /\ pod[d] = "Ready" /\ pod' = [pod EXCEPT ![d] = "Busy"]
           /\ SubGoTo(t, "update") \/ (SubAgain(t) /\ faults' = faults + 1)
        \/ pod[d] = "Ready" /\ faults' = faults + 1 /\ EndPod(d, "Failed")
    BY <1>5 DEF SubSubmit, TaskHandler, Fault
  <2>4. ASSUME pod[d] = "Ready", pod' = [pod EXCEPT ![d] = "Busy"],
               SubGoTo(t, "update") \/ (SubAgain(t) /\ faults' = faults + 1)
        PROVE  PodStep(c)
    <3>1. Submitted(d, t)
      BY <1>0, <2>1, <2>2, <2>4 DEF Submitted
    <3>2. c # d => pod'[c] = pod[c]
      BY <1>0, <2>1, <2>4
    <3> QED
      BY <3>1, <3>2 DEF PodStep
  <2>5. ASSUME pod[d] = "Ready", faults' = faults + 1, EndPod(d, "Failed")
        PROVE  PodStep(c)
    BY <2>1, <2>5, PodEnds DEF PodStep, Ended
  <2> QED
    BY <1>1, <2>3, <2>4, <2>5
<1>6. ASSUME NEW t \in Tasks, Submission(t) PROVE PodStep(c)
  <2>1. SubSubmit(t) \/ UNCHANGED pod
    BY <1>6 DEF Submission, SubGet, SubCreate, SubAwait, SubTokens, SubClose, SubUpdate,
       SubReturn, clusterVars
  <2> QED
    BY <1>1, <1>5, <2>1
<1>7. ASSUME Disturb PROVE PodStep(c)
  <2>1. \/ UNCHANGED pod
        \/ \E d \in Claims : LosePod(d) \/ RunnerLosesCall(d)
    BY <1>7 DEF Disturb, LoseToken, ListenerRestart, OrchestratorRestart
  <2> QED
    BY <1>1, <1>2, <1>4, <2>1
<1> QED
  BY <1>1, <1>2, <1>3, <1>6, <1>7, Frames DEF Next

(* The runner's requests follow one another, without a failure each an     *)
(* answer to the one before; a handler goes from call to call or gives up. *)
Sent(c, i) ==
  /\ pod[c] = "Busy"
  /\ i = tries[c] + 1 /\ tries'[c] = i
  /\ cb'[c][i].pc = "received"
  /\ faults' = faults + 1 \/ tries[c] = 0 \/ cb[c][tries[c]].pc = "error"

Passes(c, i, from, to) == cb[c][i].pc = from /\ cb'[c][i].pc = to

KeepsCopy(c, i) == cb'[c][i].snap = cb[c][i].snap

CallbackStep(c, i) ==
  \/ cb'[c][i] = cb[c][i]
  \/ Sent(c, i)
  \/ Passes(c, i, "received", "verify") /\ cb'[c][i].snap = task[owner[c]] /\ UNCHANGED tokens
  \/ /\ Passes(c, i, "verify", "consume") /\ KeepsCopy(c, i)
     /\ tokens[owner[c]] = c /\ UNCHANGED tokens
  \/ Passes(c, i, "consume", "comment") /\ KeepsCopy(c, i) /\ tokens'[owner[c]] = NoClaim
  \/ /\ Passes(c, i, "comment", "complete") /\ KeepsCopy(c, i)
     /\ comments'[c] = comments[c] + 1 /\ UNCHANGED tokens
  \/ Passes(c, i, "complete", "ok") /\ task[owner[c]].rv = cb[c][i].snap.rv
  \/ InProgress(c, i) /\ cb'[c][i].pc = "error"

TriesStep(c) == tries'[c] = tries[c] \/ \E i \in 1 .. MaxTries : Sent(c, i)

CommentStep(c) ==
  \/ comments'[c] = comments[c]
  \/ /\ comments'[c] = comments[c] + 1 /\ UNCHANGED tries
     /\ \E i \in 1 .. MaxTries :
          \/ Passes(c, i, "comment", "complete")
          \/ cb[c][i].pc = "comment" /\ faults' = faults + 1

TokenStep(t) ==
  \/ tokens'[t] \in {tokens[t], NoClaim}
  \/ sub[t].pc = "tokens" /\ tokens'[t] = sub[t].claim

LEMMA HandlerMoves ==
  ASSUME Typed, NEW c \in Claims, NEW i \in 1 .. MaxTries, NEW p \in CallbackPC
  PROVE  /\ Proceed(c, i, p) =>
              /\ cb'[c][i].pc = p /\ KeepsCopy(c, i)
              /\ \A d \in Claims, j \in 1 .. MaxTries :
                   <<d, j>> # <<c, i>> => cb'[d][j] = cb[d][j]
         /\ Conclude(c, i, p) =>
              /\ cb'[c][i].pc = p
              /\ \A d \in Claims, j \in 1 .. MaxTries :
                   <<d, j>> # <<c, i>> => cb'[d][j] = cb[d][j]
<1>0. cb \in [Claims -> [1 .. MaxTries -> CallbackType]]
  BY Shapes
<1>1. Proceed(c, i, p) => KeepsCopy(c, i)
  BY <1>0 DEF Proceed, KeepsCopy, CallbackType
<1> QED
  BY <1>0, <1>1, CallbackMoves

LEMMA HandleSteps ==
  ASSUME Typed, NEW c \in Claims, NEW i \in 1 .. MaxTries, Handle(c, i)
  PROVE  /\ \A d \in Claims, j \in 1 .. MaxTries : CallbackStep(d, j)
         /\ \A d \in Claims : CommentStep(d)
         /\ \A t \in Tasks : tokens'[t] \in {tokens[t], NoClaim}
<1>0. /\ cb \in [Claims -> [1 .. MaxTries -> CallbackType]]
      /\ tokens \in [Tasks -> Claims \union {NoClaim}]
      /\ comments \in [Claims -> Nat] /\ task \in [Tasks -> AgentTask]
      /\ {"consume", "comment", "complete", "ok", "error"} \subseteq CallbackPC
      /\ InProgress(c, i) => owner[c] \in Tasks
      /\ UNCHANGED tries
  BY Shapes, Frames DEF CallbackPC, Typed, NamesResolve, InProgress
<1> DEFINE Others == \A d \in Claims, j \in 1 .. MaxTries :
                       <<d, j>> # <<c, i>> => cb'[d][j] = cb[d][j]
<1>1. SUFFICES ASSUME InProgress(c, i)
               PROVE  /\ Others /\ CallbackStep(c, i)
                      /\ \A d \in Claims : CommentStep(d)
                      /\ \A t \in Tasks : tokens'[t] \in {tokens[t], NoClaim}
  <2>1. InProgress(c, i)
    BY DEF Handle, Callback, CallbackGet, CallbackVerify, CallbackConsume, CallbackComment,
       CallbackComplete, InProgress
  <2> QED
    BY <2>1 DEF CallbackStep
<1>2. Conclude(c, i, "error") => Others /\ CallbackStep(c, i)
  BY <1>0, <1>1, HandlerMoves DEF CallbackStep
<1>3. UNCHANGED tokens => \A t \in Tasks : tokens'[t] \in {tokens[t], NoClaim}
  OBVIOUS
<1>4. UNCHANGED comments => \A d \in Claims : CommentStep(d)
  BY DEF CommentStep
<1>5. CASE CallbackGet(c, i)
  <2>1. ASSUME cb' = [cb EXCEPT ![c][i] = [pc |-> "verify", snap |-> task[owner[c]]]]
        PROVE  Others /\ cb'[c][i].pc = "verify" /\ cb'[c][i].snap = task[owner[c]]
    BY <1>0, <2>1
  <2> QED
    BY <1>2, <1>3, <1>4, <1>5, <2>1 DEF CallbackGet, CallbackStep, Passes
<1>6. CASE CallbackVerify(c, i)
  <2>1. Proceed(c, i, "consume") =>
          Others /\ cb'[c][i].pc = "consume" /\ KeepsCopy(c, i)
    BY <1>0, HandlerMoves
  <2> QED
    BY <1>2, <1>3, <1>4, <1>6, <2>1 DEF CallbackVerify, VerifyToken, CallbackStep, Passes
<1>7. CASE CallbackConsume(c, i)
  <2>1. Proceed(c, i, "comment") =>
          Others /\ cb'[c][i].pc = "comment" /\ KeepsCopy(c, i)
    BY <1>0, HandlerMoves
  <2>2. DeleteToken(owner[c]) => /\ tokens'[owner[c]] = NoClaim
                                 /\ \A t \in Tasks : tokens'[t] \in {tokens[t], NoClaim}
    BY <1>0, <1>1 DEF DeleteToken
  <2> QED
    BY <1>2, <1>3, <1>4, <1>7, <2>1, <2>2 DEF CallbackConsume, CallbackStep, Passes
<1>8. CASE CallbackComment(c, i)
  <2>1. Proceed(c, i, "complete") =>
          Others /\ cb'[c][i].pc = "complete" /\ KeepsCopy(c, i)
    BY <1>0, HandlerMoves
  <2>2. PostComment(c) => /\ comments'[c] = comments[c] + 1
                          /\ \A d \in Claims : d # c => comments'[d] = comments[d]
    BY <1>0 DEF PostComment
  <2>3. PostComment(c) /\ Proceed(c, i, "complete") =>
          Others /\ CallbackStep(c, i) /\ \A d \in Claims : CommentStep(d)
    BY <1>0, <1>8, <2>1, <2>2 DEF CallbackComment, CallbackStep, CommentStep, Passes
  <2>4. Fault /\ (PostComment(c) \/ UNCHANGED comments) => \A d \in Claims : CommentStep(d)
    BY <1>0, <1>4, <1>8, <2>2 DEF CallbackComment, CommentStep, Fault
  <2> QED
    BY <1>2, <1>3, <1>8, <2>3, <2>4 DEF CallbackComment
<1>9. CASE CallbackComplete(c, i)
  <2>1. Conclude(c, i, "ok") => Others /\ cb'[c][i].pc = "ok"
    BY <1>0, HandlerMoves
  <2> DEFINE obj == [cb[c][i].snap EXCEPT !.state = "Completed"]
  <2>2. obj.rv = cb[c][i].snap.rv
    BY <1>0, CopiesKeepVersion DEF CallbackType
  <2>3. UNCHANGED <<tokens, comments>> /\ cb[c][i].pc = "complete"
        /\ \/ UpdateTask(owner[c], obj, TRUE) /\ Conclude(c, i, "ok")
           \/ Conclude(c, i, "error")
    BY <1>9 DEF CallbackComplete
  <2> HIDE DEF obj
  <2>4. UpdateTask(owner[c], obj, TRUE) => task[owner[c]].rv = cb[c][i].snap.rv
    BY <2>2 DEF UpdateTask, Store
  <2> QED
    BY <1>2, <1>3, <1>4, <2>1, <2>3, <2>4 DEF CallbackStep, Passes
<1> QED
  BY <1>5, <1>6, <1>7, <1>8, <1>9 DEF Handle, Callback

LEMMA RunnerSends ==
  ASSUME Typed, NEW c \in Claims, Run(c) \/ RunnerLosesCall(c)
  PROVE  /\ \A d \in Claims, j \in 1 .. MaxTries : CallbackStep(d, j)
         /\ \A d \in Claims : TriesStep(d)
<1>0. /\ cb \in [Claims -> [1 .. MaxTries -> CallbackType]]
      /\ tries \in [Claims -> 0 .. MaxTries] /\ MaxTries \in Nat \ {0}
  BY Shapes, ClusterAssumption
<1>1. ASSUME NEW i \in 1 .. MaxTries, i = tries[c] + 1, SendCallback(c, i), pod[c] = "Busy",
             faults' = faults + 1 \/ tries[c] = 0 \/ cb[c][tries[c]].pc = "error"
      PROVE  /\ \A d \in Claims, j \in 1 .. MaxTries : CallbackStep(d, j)
             /\ \A d \in Claims : TriesStep(d)
  <2>1. Proceed(c, i, "received") /\ "received" \in CallbackPC
    BY <1>1 DEF SendCallback, Proceed, CallbackPC
  <2>2. /\ cb'[c][i].pc = "received"
        /\ \A d \in Claims, j \in 1 .. MaxTries : <<d, j>> # <<c, i>> => cb'[d][j] = cb[d][j]
    BY <2>1, HandlerMoves
  <2>3. tries'[c] = i /\ \A d \in Claims : d # c => tries'[d] = tries[d]
    BY <1>0, <1>1 DEF SendCallback
  <2>4. Sent(c, i)
    BY <1>1, <2>2, <2>3 DEF Sent
  <2> QED
    BY <2>2, <2>3, <2>4 DEF CallbackStep, TriesStep
<1>2. UNCHANGED <<tries, cb>> => /\ \A d \in Claims, j \in 1 .. MaxTries : CallbackStep(d, j)
                                 /\ \A d \in Claims : TriesStep(d)
  BY DEF CallbackStep, TriesStep
<1>3. CASE RunnerReports(c)
  BY <1>0, <1>1, <1>3 DEF RunnerReports
<1>4. CASE TryAgain(c) /\ pod[c] = "Busy"
           /\ (faults' = faults + 1 \/ cb[c][tries[c]].pc = "error")
  BY <1>0, <1>1, <1>2, <1>4 DEF TryAgain
<1> QED
  BY <1>2, <1>3, <1>4 DEF Run, Runner, RunnerFails, RunnerHears, RunnerLosesCall, Fault,
     listenerVars

LEMMA DisturbSteps ==
  ASSUME Typed, Disturb
  PROVE  /\ \A d \in Claims, j \in 1 .. MaxTries : CallbackStep(d, j)
         /\ \A d \in Claims : TriesStep(d)
         /\ \A t \in Tasks : tokens'[t] \in {tokens[t], NoClaim}
<1>0. /\ cb \in [Claims -> [1 .. MaxTries -> CallbackType]]
      /\ tokens \in [Tasks -> Claims \union {NoClaim}]
  BY Shapes
<1>1. UNCHANGED <<tries, cb>> => /\ \A d \in Claims, j \in 1 .. MaxTries : CallbackStep(d, j)
                                 /\ \A d \in Claims : TriesStep(d)
  BY DEF CallbackStep, TriesStep
<1>2. ASSUME ListenerRestart
      PROVE  /\ \A d \in Claims, j \in 1 .. MaxTries : CallbackStep(d, j)
             /\ \A d \in Claims : TriesStep(d)
             /\ \A t \in Tasks : tokens'[t] \in {tokens[t], NoClaim}
  <2>1. ASSUME NEW d \in Claims, NEW j \in 1 .. MaxTries PROVE CallbackStep(d, j)
    <3>1. cb'[d][j] = IF InProgress(d, j) THEN [pc |-> "error", snap |-> NoAgentTask]
                                          ELSE cb[d][j]
      BY <1>2 DEF ListenerRestart
    <3> QED
      BY <3>1 DEF CallbackStep
  <2> QED
    BY <1>2, <2>1 DEF ListenerRestart, TriesStep
<1>3. ASSUME NEW t \in Tasks, LoseToken(t)
      PROVE  \A u \in Tasks : tokens'[u] \in {tokens[u], NoClaim}
  BY <1>0, <1>3 DEF LoseToken, DeleteToken
<1> QED
  BY <1>1, <1>2, <1>3, RunnerSends DEF Disturb, LosePod, LoseToken, OrchestratorRestart,
     RunnerLosesCall, listenerVars

LEMMA AttemptSteps ==
  ASSUME Typed, Next
  PROVE  /\ \A c \in Claims, i \in 1 .. MaxTries : CallbackStep(c, i)
         /\ \A c \in Claims : TriesStep(c) /\ CommentStep(c)
         /\ \A t \in Tasks : TokenStep(t)
<1>1. UNCHANGED <<tries, cb>> => /\ \A c \in Claims, i \in 1 .. MaxTries : CallbackStep(c, i)
                                 /\ \A c \in Claims : TriesStep(c)
  BY DEF CallbackStep, TriesStep
<1>2. UNCHANGED comments => \A c \in Claims : CommentStep(c)
  BY DEF CommentStep
<1>3. UNCHANGED tokens => \A t \in Tasks : TokenStep(t)
  BY DEF TokenStep
<1>4. CASE \E c \in Claims, i \in 1 .. MaxTries : Handle(c, i)
  <2>1. \A c \in Claims : TriesStep(c)
    BY <1>4, Frames DEF TriesStep
  <2> QED
    BY <1>4, <2>1, HandleSteps DEF TokenStep
<1>5. CASE \E c \in Claims : Run(c)
  BY <1>2, <1>3, <1>5, RunnerSends, Frames
<1>6. CASE \E t \in Tasks : Submission(t)
  <2>1. PICK u \in Tasks : Submission(u)
    BY <1>6
  <2>2. SubTokens(u) => /\ sub[u].pc = "tokens"
                        /\ tokens' = tokens \/ tokens' = [tokens EXCEPT ![u] = sub[u].claim]
    BY DEF SubTokens, GenerateTokens, StoreToken
  <2>3. SubTokens(u) \/ UNCHANGED tokens
    BY <2>1 DEF Submission, SubGet, SubCreate, SubAwait, SubClose, SubSubmit, SubUpdate,
       SubReturn, listenerVars
  <2>4. \A t \in Tasks : TokenStep(t)
    BY <1>3, <2>2, <2>3, Shapes DEF TokenStep
  <2> QED
    BY <1>1, <1>2, <1>6, <2>4, Frames
<1>7. CASE Disturb
  BY <1>2, <1>7, DisturbSteps, Frames DEF TokenStep
<1> QED
  BY <1>1, <1>2, <1>3, <1>4, <1>5, <1>6, <1>7, Frames DEF Next

(* A goroutine goes from call to call, or lets go of its claim and exits   *)
(* or starts again; LetGo says on what occasions it does.                  *)
HasClaim == {"await", "tokens", "close", "submit", "update"}

LetGo(t) ==
  \/ sub[t].pc \notin HasClaim
  \/ t \notin activeTasks
  \/ faults' = faults + 1
  \/ crashes' = crashes + 1
  \/ sub[t].pc = "close" /\ claim'[sub[t].claim] = "Deleted"
  \/ sub[t].pc = "submit" /\ ~(pod[sub[t].claim] = "Ready" /\ t \in Accepted)
  \/ /\ sub[t].pc = "update"
     /\ task'[t].claim = sub[t].claim \/ task[t].rv # sub[t].snap.rv

Rests(t) ==
  /\ sub'[t].pc \in {"none", "get", "exit"} /\ sub'[t].claim = NoClaim
  /\ LetGo(t)

Takes(t) ==
  /\ sub[t].pc = "get" /\ sub'[t].pc = "create"
  /\ sub'[t].claim = NoClaim /\ sub'[t].snap = task[t]
  /\ UNCHANGED task

Opens(t) ==
  /\ sub[t].pc = "create" /\ sub'[t].pc = "await"
  /\ sub'[t].snap = sub[t].snap
  /\ \E c \in Claims : Opened(c, t) /\ sub'[t].claim = c
  /\ UNCHANGED <<task, tokens, pod>>

Advances(t) ==
  /\ sub'[t].snap = sub[t].snap /\ sub'[t].claim = sub[t].claim
  /\ \/ /\ sub[t].pc = "await" /\ sub'[t].pc = "tokens"
        /\ pod[sub[t].claim] = "Ready" /\ UNCHANGED pod
     \/ /\ sub[t].pc = "tokens" /\ sub'[t].pc = "submit"
        /\ tokens'[t] = sub[t].claim /\ UNCHANGED pod
     \/ sub[t].pc = "tokens" /\ sub'[t].pc = "close" /\ UNCHANGED pod
     \/ /\ sub[t].pc = "submit" /\ sub'[t].pc = "update"
        /\ pod'[sub[t].claim] = "Busy" /\ UNCHANGED tokens
  /\ UNCHANGED <<task, claim>>

SubStep(t) == sub'[t] = sub[t] \/ Rests(t) \/ Takes(t) \/ Opens(t) \/ Advances(t)

ActiveStep(t) ==
  /\ sub[t].pc = "none" /\ sub'[t].pc # "none" => t \in activeTasks'
  /\ t \in activeTasks /\ t \notin activeTasks' => sub'[t].pc = "none"

LEMMA SubRests ==
  ASSUME Typed, NEW t \in Tasks
  PROVE  /\ SubAgain(t) => /\ sub'[t].pc = "get" /\ sub'[t].claim = NoClaim
                           /\ \A u \in Tasks : u # t => sub'[u] = sub[u]
         /\ SubExit(t) => /\ sub'[t].pc = "exit" /\ sub'[t].claim = NoClaim
                          /\ \A u \in Tasks : u # t => sub'[u] = sub[u]
<1>0. sub \in [Tasks -> SubType]
  BY Shapes
<1>1. ASSUME NEW p \in SubPC, sub' = [sub EXCEPT ![t] = [NoSubmission EXCEPT !.pc = p]]
      PROVE  /\ sub'[t].pc = p /\ sub'[t].claim = NoClaim
             /\ \A u \in Tasks : u # t => sub'[u] = sub[u]
  <2> DEFINE v == [NoSubmission EXCEPT !.pc = p]
  <2>1. v.pc = p /\ v.claim = NoClaim
    BY DEF NoSubmission
  <2>2. sub' = [sub EXCEPT ![t] = v]
    BY <1>1
  <2> HIDE DEF v
  <2> QED
    BY <1>0, <2>1, <2>2
<1> QED
  BY <1>1 DEF SubAgain, SubExit, SubPC

LEMMA SubmissionSteps ==
  ASSUME Inv, NEW t \in Tasks, Submission(t)
  PROVE  /\ \A u \in Tasks : u # t => sub'[u] = sub[u]
         /\ SubStep(t)
<1>0. /\ sub \in [Tasks -> SubType] /\ task \in [Tasks -> AgentTask] /\ Typed
      /\ claim \in [Claims -> ClaimState] /\ pod \in [Claims -> PodState]
      /\ tokens \in [Tasks -> Claims \union {NoClaim}]
      /\ {"none", "get", "create", "await", "tokens", "close", "submit", "update", "exit"}
           \subseteq SubPC
      /\ sub[t].pc \in HasClaim => sub[t].claim \in Claims
  BY Shapes DEF Inv, SubPC, Typed, NamesResolve, HasClaim
<1> DEFINE Others == \A u \in Tasks : u # t => sub'[u] = sub[u]
<1>1. ASSUME SubAgain(t) \/ SubExit(t), LetGo(t) PROVE Others /\ SubStep(t)
  BY <1>0, <1>1, SubRests DEF SubStep, Rests
<1>2. ASSUME NEW p \in SubPC, SubGoTo(t, p)
      PROVE  /\ Others /\ sub'[t].pc = p
             /\ sub'[t].snap = sub[t].snap /\ sub'[t].claim = sub[t].claim
  BY <1>0, <1>2, SubMoves
<1>3. CASE SubGet(t)
  <2>1. ASSUME sub' = [sub EXCEPT ![t] = [NoSubmission EXCEPT !.pc = "create", !.snap = task[t]]]
        PROVE  Others /\ Takes(t)
    <3> DEFINE v == [NoSubmission EXCEPT !.pc = "create", !.snap = task[t]]
    <3>1. v.pc = "create" /\ v.snap = task[t] /\ v.claim = NoClaim
      BY DEF NoSubmission
    <3>2. sub' = [sub EXCEPT ![t] = v]
      BY <2>1
    <3> HIDE DEF v
    <3> QED
      BY <1>0, <1>3, <3>1, <3>2 DEF Takes, SubGet
  <2> QED
    BY <1>1, <1>3, <2>1 DEF SubGet, LetGo, HasClaim, SubStep
<1>4. CASE SubCreate(t)
  <2>1. ASSUME NEW c \in Claims, claim[c] = "Unused", claim' = [claim EXCEPT ![c] = "Live"],
               owner' = [owner EXCEPT ![c] = t],
               sub' = [sub EXCEPT ![t].pc = "await", ![t].claim = c]
        PROVE  Others /\ Opens(t)
    <3>1. claim'[c] = "Live" /\ owner'[c] = t
      BY <1>0, <2>1, Shapes
    <3>2. Others /\ sub'[t].pc = "await" /\ sub'[t].snap = sub[t].snap /\ sub'[t].claim = c
      BY <1>0, <2>1 DEF SubType
    <3> QED
      BY <1>4, <2>1, <3>1, <3>2 DEF Opens, Opened, SubCreate, listenerVars
  <2> QED
    BY <1>1, <1>4, <2>1 DEF SubCreate, LetGo, HasClaim, SubStep
<1>5. CASE SubAwait(t)
  BY <1>0, <1>1, <1>2, <1>5 DEF SubAwait, LetGo, Fault, SubStep, Advances
<1>6. CASE SubTokens(t)
  <2>1. sub[t].claim \in Claims /\ sub[t].pc = "tokens" /\ UNCHANGED <<task, claim, pod>>
    BY <1>0, <1>6 DEF SubTokens, HasClaim
  <2>2. CASE GenerateTokens(t, sub[t].claim, TRUE) /\ SubGoTo(t, "submit")
    <3>1. tokens'[t] = sub[t].claim
      BY <1>0, <2>2 DEF GenerateTokens, StoreToken
    <3> QED
      BY <1>0, <1>2, <2>1, <2>2, <3>1 DEF SubStep, Advances
  <2>3. CASE SubGoTo(t, "close")
    BY <1>0, <1>2, <2>1, <2>3 DEF SubStep, Advances
  <2> QED
    BY <1>6, <2>2, <2>3 DEF SubTokens
<1>7. CASE SubClose(t)
  <2>1. faults' = faults + 1 \/ claim'[sub[t].claim] = "Deleted"
    BY <1>0, <1>7 DEF SubClose, DeleteClaim, Fault, HasClaim
  <2> QED
    BY <1>1, <1>7, <2>1 DEF SubClose, LetGo
<1>8. CASE SubSubmit(t)
  <2>1. sub[t].claim \in Claims /\ sub[t].pc = "submit" /\ UNCHANGED <<task, claim, tokens>>
    BY <1>0, <1>8 DEF SubSubmit, HasClaim, listenerVars
  <2>2. CASE TaskHandler(t, sub[t].claim, TRUE) /\ SubGoTo(t, "update")
    <3>1. pod'[sub[t].claim] = "Busy"
      BY <1>0, <2>1, <2>2 DEF TaskHandler
    <3> QED
      BY <1>0, <1>2, <2>1, <2>2, <3>1 DEF SubStep, Advances
  <2>3. CASE TaskHandler(t, sub[t].claim, FALSE) /\ SubAgain(t)
    BY <1>1, <2>1, <2>3 DEF TaskHandler, Fault, LetGo
  <2> QED
    BY <1>8, <2>2, <2>3 DEF SubSubmit
<1>9. CASE SubUpdate(t)
  <2>1. SubExit(t) /\ sub[t].pc = "update" /\ sub[t] \in SubType
    BY <1>0, <1>9 DEF SubUpdate
  <2> DEFINE obj == [sub[t].snap EXCEPT !.state = "Running", !.claim = sub[t].claim]
  <2>2. /\ obj.rv = sub[t].snap.rv /\ [obj EXCEPT !.rv = @ + 1].claim = sub[t].claim
    BY <2>1 DEF SubType, AgentTask
  <2>3. \E ok \in BOOLEAN : UpdateTask(t, obj, ok)
    BY <1>9 DEF SubUpdate
  <2> HIDE DEF obj
  <2>4. \/ task'[t].claim = sub[t].claim
        \/ task[t].rv # sub[t].snap.rv
        \/ faults' = faults + 1
    BY <1>0, <2>2, <2>3 DEF UpdateTask, Store, Fault
  <2> QED
    BY <1>1, <2>1, <2>4 DEF LetGo
<1>10. CASE SubReturn(t)
  <2>1. Others /\ sub'[t].pc = "none" /\ sub'[t].claim = NoClaim /\ sub[t].pc = "exit"
    BY <1>0, <1>10 DEF SubReturn, NoSubmission
  <2> QED
    BY <2>1 DEF SubStep, Rests, LetGo, HasClaim
<1> QED
  BY <1>3, <1>4, <1>5, <1>6, <1>7, <1>8, <1>9, <1>10 DEF Submission

LEMMA SubSteps ==
  ASSUME Inv, Next, NEW t \in Tasks
  PROVE  SubStep(t) /\ ActiveStep(t)
<1>0. /\ sub \in [Tasks -> SubType] /\ Typed
      /\ loop.pc # "idle" => loop.t \in Tasks
  BY Shapes DEF Inv, Typed, NamesResolve
<1>1. UNCHANGED <<sub, activeTasks>> => SubStep(t) /\ ActiveStep(t)
  BY DEF SubStep, ActiveStep
<1>2. ASSUME NEW u \in Tasks, Submission(u) PROVE SubStep(t) /\ ActiveStep(t)
  <2>1. SubStep(t)
    BY <1>2, SubmissionSteps DEF SubStep
  <2>2. CASE SubReturn(u)
    <3>1. activeTasks' = activeTasks \ {u} /\ sub'[u].pc = "none"
          /\ \A v \in Tasks : v # u => sub'[v] = sub[v]
      BY <1>0, <2>2 DEF SubReturn, NoSubmission
    <3> QED
      BY <2>1, <3>1 DEF ActiveStep
  <2>3. CASE ~SubReturn(u)
    <3>1. UNCHANGED activeTasks /\ sub[u].pc # "none"
      BY <1>2, <2>3 DEF Submission, SubGet, SubCreate, SubAwait, SubTokens, SubClose,
         SubSubmit, SubUpdate
    <3>2. u # t => sub'[t] = sub[t]
      BY <1>2, SubmissionSteps
    <3> QED
      BY <2>1, <3>1, <3>2 DEF ActiveStep
  <2> QED
    BY <2>2, <2>3
<1>3. CASE Reconcile
  <2>1. CASE /\ ReconcileStarted /\ loop.t \notin activeTasks
             /\ activeTasks' = activeTasks \union {loop.t}
             /\ SubAgain(loop.t)
    <3>1. loop.t \in Tasks
      BY <1>0, <2>1 DEF ReconcileStarted, Dispatch
    <3>2. /\ sub'[loop.t].pc = "get" /\ sub'[loop.t].claim = NoClaim
          /\ \A u \in Tasks : u # loop.t => sub'[u] = sub[u]
      BY <1>0, <2>1, <3>1, SubRests
    <3> QED
      BY <2>1, <3>2 DEF SubStep, Rests, LetGo, ActiveStep
  <2>2. ReconcileStarted =>
          \/ UNCHANGED <<sub, activeTasks>>
          \/ /\ ReconcileStarted /\ loop.t \notin activeTasks
             /\ activeTasks' = activeTasks \union {loop.t}
             /\ SubAgain(loop.t)
    BY DEF ReconcileStarted, SubAgain
  <2>3. ReconcileStarted \/ UNCHANGED <<sub, activeTasks>>
    BY <1>3 DEF Reconcile, ReconcileGet, ReconcileInit, ReconcilePending, ReconcileInvalid,
       ReconcileRunning, ReconcilePodFailed, ReconcilePodSucceeded, ReconcileCompleted,
       ReconcileDelete, ReconcileFailed, ReconcileRelease, ReconcileRetry,
       ReconcileExhausted, CloseRecorded, Write, WriteAndReturn
  <2> QED
    BY <1>1, <2>1, <2>2, <2>3
<1>4. CASE Disturb
  <2>1. CASE OrchestratorRestart
    <3>1. sub'[t].pc = "none" /\ sub'[t].claim = NoClaim /\ crashes' = crashes + 1
      BY <2>1 DEF OrchestratorRestart, NoSubmission
    <3> QED
      BY <3>1 DEF SubStep, Rests, LetGo, ActiveStep
  <2>2. OrchestratorRestart \/ UNCHANGED <<sub, activeTasks>>
    BY <1>4 DEF Disturb, LosePod, RunnerLosesCall, LoseToken, ListenerRestart,
       orchestratorVars
  <2> QED
    BY <1>1, <2>1, <2>2
<1> QED
  BY <1>1, <1>2, <1>3, <1>4, Frames DEF Next

(* A task is created; it is written by the loop, from the copy it holds,   *)
(* by the goroutine that submitted it or by a callback that completes it;  *)
(* and the loop removes it.                                                *)
Created(t) ==
  /\ task[t].state = "Absent" /\ task'[t].state \in {"", "Pending"}
  /\ task'[t].claim = NoClaim /\ task'[t].retries = 0

Keeps(t) == task'[t].claim = task[t].claim /\ task'[t].retries = task[t].retries

Changes(t, from, to) == task[t].state = from /\ task'[t].state = to

WrittenByLoop(t) ==
  /\ loop.t = t /\ loop.snap = task[t]
  /\ \/ Changes(t, "", "Pending") /\ Keeps(t)
     \/ Changes(t, "Pending", "Started") /\ Keeps(t) /\ t \in Valid
     \/ loop.pc = "fail" /\ Changes(t, "Running", "Failed") /\ Keeps(t)
     \/ loop.pc = "complete" /\ Changes(t, "Running", "Completed") /\ Keeps(t)
     \/ /\ loop.pc = "release" /\ Changes(t, "Failed", "Failed")
        /\ task'[t].claim = NoClaim /\ task'[t].retries = task[t].retries
     \/ /\ loop.pc = "retry" /\ Changes(t, "Failed", "Started")
        /\ task[t].retries < MaxRetries /\ task'[t].retries = task[t].retries + 1
        /\ task'[t].claim = task[t].claim

RemovedByLoop(t) ==
  /\ loop.t = t /\ loop.pc = "delete" /\ loop' = IdleLoop
  /\ task'[t].state = "Deleted" /\ task'[t].claim = NoClaim
  /\ task'[t].retries = task[t].retries

RanBySub(t) ==
  /\ sub[t].pc = "update" /\ sub[t].snap = task[t] /\ Changes(t, "Started", "Running")
  /\ task'[t].claim = sub[t].claim /\ task'[t].retries = task[t].retries
  /\ sub'[t].claim = NoClaim /\ sub'[t].pc = "exit"
  /\ UNCHANGED <<pod, tokens>>

CompletedByCallback(t) ==
  /\ \E c \in Claims, i \in 1 .. MaxTries :
       /\ owner[c] = t
       /\ cb[c][i].pc = "complete" /\ cb[c][i].snap = task[t]
  /\ task[t].state \in AgentTaskState /\ task'[t].state = "Completed" /\ Keeps(t)

TaskStep(t) ==
  \/ task'[t] = task[t]
  \/ Created(t) \/ WrittenByLoop(t) \/ RemovedByLoop(t)
  \/ RanBySub(t) \/ CompletedByCallback(t)

OneTaskStep ==
  \/ UNCHANGED task
  \/ \E t \in Tasks : \A u \in Tasks : u # t => task'[u] = task[u]

(* The loop drops its copy, or reads one, judges by the pod, closes the    *)
(* sandbox its copy records, or goes on with what it stored.               *)
Reads ==
  /\ loop.pc = "get" /\ loop'.pc = "dispatch"
  /\ loop'.snap = task[loop.t] /\ Exists(loop.t)
  /\ UNCHANGED task

Judges ==
  /\ loop.pc = "dispatch" /\ loop'.pc \in {"complete", "fail"}
  /\ loop'.snap = loop.snap
  /\ loop.snap.state = "Running" /\ loop.snap.claim # NoClaim
  /\ loop'.pc = "complete" => pod[loop.snap.claim] = "Succeeded"
  /\ UNCHANGED task

Closes ==
  /\ loop.pc = "dispatch" /\ loop'.snap = loop.snap
  /\ \/ /\ loop.snap.state = "Failed" /\ loop'.pc = "retry" /\ loop.snap.claim = NoClaim
     \/ /\ loop.snap.state = "Failed" /\ loop'.pc = "release"
        /\ loop.snap.claim # NoClaim /\ claim'[loop.snap.claim] = "Deleted"
     \/ /\ loop.snap.state = "Completed" /\ loop'.pc = "delete"
        /\ loop.snap.claim = NoClaim \/ claim'[loop.snap.claim] = "Deleted"
  /\ UNCHANGED task

GoesOn ==
  /\ loop'.snap = task'[loop.t]
  /\ \/ loop.pc = "dispatch" /\ loop'.pc = "dispatch" /\ task'[loop.t].state = "Pending"
     \/ /\ loop.pc = "release" /\ loop'.pc = "retry"
        /\ task'[loop.t].state = "Failed" /\ task'[loop.t].claim = NoClaim

LoopStep ==
  \/ loop' = loop
  \/ loop' = IdleLoop
  \/ loop.pc = "idle" /\ loop'.pc = "get"
  \/ /\ loop.pc # "idle" /\ loop'.t = loop.t /\ UNCHANGED sub
     /\ Reads \/ Judges \/ Closes \/ GoesOn

LEMMA LoopTurns ==
  ASSUME loop \in LoopType, NEW p \in LoopPC, NEW s \in AgentTask,
         loop' = [loop EXCEPT !.pc = p, !.snap = s]
  PROVE  loop'.t = loop.t /\ loop'.pc = p /\ loop'.snap = s
BY DEF LoopType

(* What an update by the loop stores, and where the loop goes on.          *)
LEMMA LoopStored ==
  ASSUME Inv, LoopHolds(loop.t), NEW obj \in AgentTask, obj.rv = loop.snap.rv,
         WriteAndReturn(obj) \/ \E next \in {"dispatch", "retry"} : Write(obj, next)
  PROVE  /\ OneTaskStep
         /\ \A u \in Tasks : u # loop.t => task'[u] = task[u]
         /\ \/ UNCHANGED task
            \/ /\ loop.snap = task[loop.t]
               /\ task'[loop.t].state = obj.state /\ task'[loop.t].claim = obj.claim
               /\ task'[loop.t].retries = obj.retries
         /\ \/ loop' = IdleLoop
            \/ /\ loop'.t = loop.t /\ loop'.snap = task'[loop.t]
               /\ task'[loop.t].state = obj.state /\ task'[loop.t].claim = obj.claim
<1>0. /\ loop.t \in Tasks /\ task \in [Tasks -> AgentTask] /\ loop \in LoopType
      /\ task' \in [Tasks -> AgentTask]
  <2>1. loop.t \in Tasks /\ Typed
    BY DEF LoopHolds, Inv, Typed, NamesResolve
  <2>2. PICK ok \in BOOLEAN : UpdateTask(loop.t, obj, ok)
    BY DEF WriteAndReturn, Write
  <2> QED
    BY <2>1, <2>2, Shapes, UpdateTaskType DEF Typed, TypeOK
<1> DEFINE stored == [obj EXCEPT !.rv = @ + 1]
<1>1. /\ stored \in AgentTask /\ stored.state = obj.state /\ stored.claim = obj.claim
      /\ stored.retries = obj.retries
  BY DEF AgentTask
<1>2. ASSUME NEW ok \in BOOLEAN, UpdateTask(loop.t, obj, ok)
      PROVE  /\ \A u \in Tasks : u # loop.t => task'[u] = task[u]
             /\ \/ task'[loop.t] = task[loop.t]
                \/ task[loop.t] = loop.snap /\ task'[loop.t] = stored
             /\ ok => task'[loop.t] = stored
  BY <1>2, LoopWrites
<1> HIDE DEF stored
<1>3. ASSUME task'[loop.t] = task[loop.t], \A u \in Tasks : u # loop.t => task'[u] = task[u]
      PROVE  UNCHANGED task
  BY <1>0, <1>3
<1>4. ASSUME NEW next \in {"dispatch", "retry"}, UpdateTask(loop.t, obj, TRUE),
             loop' = [loop EXCEPT !.pc = next, !.snap = stored]
      PROVE  /\ loop'.t = loop.t /\ loop'.snap = task'[loop.t] /\ loop'.pc = next
  <2>1. next \in LoopPC
    BY DEF LoopPC
  <2>2. task'[loop.t] = stored
    BY <1>2, <1>4
  <2> QED
    BY <1>0, <1>1, <1>4, <2>1, <2>2, LoopTurns
<1>5. \/ loop' = IdleLoop
      \/ /\ loop'.t = loop.t /\ loop'.snap = task'[loop.t] /\ task'[loop.t] = stored
  <2>1. CASE WriteAndReturn(obj)
    BY <2>1 DEF WriteAndReturn, Done
  <2>2. CASE \E next \in {"dispatch", "retry"} : Write(obj, next)
    <3>1. PICK next \in {"dispatch", "retry"} : Write(obj, next)
      BY <2>2
    <3>2. \/ loop' = IdleLoop
          \/ /\ UpdateTask(loop.t, obj, TRUE)
             /\ loop' = [loop EXCEPT !.pc = next, !.snap = stored]
      BY <3>1 DEF Write, Done, stored
    <3>3. CASE /\ UpdateTask(loop.t, obj, TRUE)
               /\ loop' = [loop EXCEPT !.pc = next, !.snap = stored]
      BY <1>2, <1>4, <3>1, <3>3
    <3> QED
      BY <3>2, <3>3
  <2> QED
    BY <2>1, <2>2
<1>6. PICK ok \in BOOLEAN : UpdateTask(loop.t, obj, ok)
  BY DEF WriteAndReturn, Write
<1>7. /\ \A u \in Tasks : u # loop.t => task'[u] = task[u]
      /\ UNCHANGED task \/ (task[loop.t] = loop.snap /\ task'[loop.t] = stored)
  BY <1>2, <1>3, <1>6
<1>8. OneTaskStep
  BY <1>0, <1>7 DEF OneTaskStep
<1> QED
  BY <1>1, <1>5, <1>7, <1>8

LEMMA Removal ==
  ASSUME task \in [Tasks -> AgentTask], NEW t \in Tasks, Remove(t)
  PROVE  /\ task'[t].state = "Deleted" /\ task'[t].claim = NoClaim
         /\ task'[t].retries = task[t].retries
         /\ \A u \in Tasks : u # t => task'[u] = task[u]
<1> DEFINE obj == task[t]
           removed == [obj EXCEPT !.state = "Deleted", !.claim = NoClaim, !.rv = @ + 1]
<1>1. task' = [task EXCEPT ![t] = removed]
  BY DEF Remove
<1>2. /\ removed.state = "Deleted" /\ removed.claim = NoClaim
      /\ removed.retries = obj.retries
  BY DEF AgentTask
<1> HIDE DEF removed
<1> QED
  BY <1>1, <1>2

LEMMA ReconcileSteps ==
  ASSUME Inv, Reconcile
  PROVE  /\ OneTaskStep /\ LoopStep
         /\ \A t \in Tasks : TaskStep(t)
<1>0. /\ loop \in LoopType /\ loop.snap \in AgentTask
      /\ loop.pc # "idle" => loop.t \in Tasks
      /\ task \in [Tasks -> AgentTask] /\ Typed
      /\ loop.pc \notin {"idle", "get"} <=> LoopHolds(loop.t)
  BY LoopTyped DEF LoopHolds, Inv
<1> DEFINE Goal == /\ OneTaskStep /\ LoopStep
                   /\ \A t \in Tasks : TaskStep(t)
<1>1. UNCHANGED task => OneTaskStep /\ \A t \in Tasks : TaskStep(t)
  BY DEF OneTaskStep, TaskStep
<1>2. loop' = IdleLoop => LoopStep
  BY DEF LoopStep
<1>3. ASSUME NEW p \in LoopPC, loop' = [loop EXCEPT !.pc = p]
      PROVE  loop'.t = loop.t /\ loop'.pc = p /\ loop'.snap = loop.snap
  BY <1>0, <1>3, LoopMoves
<1>p. {"dispatch", "complete", "fail", "delete", "release", "retry"} \subseteq LoopPC
  BY DEF LoopPC
\* The updates: what is stored is the copy with the fields obj changes.
<1>4. ASSUME LoopHolds(loop.t), NEW obj \in AgentTask, obj.rv = loop.snap.rv,
             WriteAndReturn(obj),
             loop.snap = task[loop.t] /\ task'[loop.t].state = obj.state
               /\ task'[loop.t].claim = obj.claim /\ task'[loop.t].retries = obj.retries
             => WrittenByLoop(loop.t)
      PROVE  Goal
  <2>1. /\ OneTaskStep
        /\ \A u \in Tasks : u # loop.t => task'[u] = task[u]
        /\ UNCHANGED task \/ WrittenByLoop(loop.t)
    BY <1>4, LoopStored
  <2>2. loop' = IdleLoop
    BY <1>4 DEF WriteAndReturn, Done
  <2> QED
    BY <1>1, <1>2, <2>1, <2>2 DEF TaskStep
<1>5. ASSUME LoopHolds(loop.t), NEW obj \in AgentTask, obj.rv = loop.snap.rv,
             NEW next \in {"dispatch", "retry"}, Write(obj, next),
             loop.snap = task[loop.t] /\ task'[loop.t].state = obj.state
               /\ task'[loop.t].claim = obj.claim /\ task'[loop.t].retries = obj.retries
             => WrittenByLoop(loop.t),
             loop'.snap = task'[loop.t] /\ task'[loop.t].state = obj.state
               /\ task'[loop.t].claim = obj.claim /\ loop'.pc = next
             => GoesOn
      PROVE  Goal
  <2>1. /\ OneTaskStep
        /\ \A u \in Tasks : u # loop.t => task'[u] = task[u]
        /\ UNCHANGED task \/ WrittenByLoop(loop.t)
        /\ \/ loop' = IdleLoop
           \/ /\ loop'.t = loop.t /\ loop'.snap = task'[loop.t]
              /\ task'[loop.t].state = obj.state /\ task'[loop.t].claim = obj.claim
    BY <1>5, LoopStored
  <2>2. loop' = IdleLoop \/ loop'.pc = next
    <3> DEFINE stored == [obj EXCEPT !.rv = @ + 1]
    <3>1. stored \in AgentTask /\ next \in LoopPC
      BY DEF AgentTask, LoopPC
    <3>2. loop' = IdleLoop \/ loop' = [loop EXCEPT !.pc = next, !.snap = stored]
      BY <1>5 DEF Write, Done
    <3> HIDE DEF stored
    <3> QED
      BY <1>0, <3>1, <3>2, LoopTurns
  <2>3. UNCHANGED sub
    BY <1>5 DEF Write
  <2>4. LoopStep
    BY <1>0, <1>2, <1>5, <2>1, <2>2, <2>3 DEF LoopStep
  <2> QED
    BY <1>1, <2>1, <2>4 DEF TaskStep
<1>6. CASE ReconcileGet
  <2>1. UNCHANGED <<task, sub>>
    BY <1>6 DEF ReconcileGet
  <2>2. ASSUME Exists(loop.t), loop' = [loop EXCEPT !.pc = "dispatch", !.snap = task[loop.t]]
        PROVE  LoopStep
    <3> DEFINE copy == task[loop.t]
    <3>1. copy \in AgentTask /\ loop' = [loop EXCEPT !.pc = "dispatch", !.snap = copy]
      BY <1>0, <1>6, <2>2 DEF ReconcileGet
    <3> HIDE DEF copy
    <3>2. loop'.pc = "dispatch" /\ loop'.snap = copy /\ loop'.t = loop.t
      BY <1>0, <1>p, <3>1, LoopTurns
    <3> QED
      BY <1>6, <2>1, <2>2, <3>2 DEF LoopStep, Reads, ReconcileGet, copy
  <2> QED
    BY <1>1, <1>2, <1>6, <2>1, <2>2 DEF ReconcileGet, Done
<1>7. CASE ReconcileInit
  <2> DEFINE obj == [loop.snap EXCEPT !.state = "Pending"]
  <2>1. /\ obj \in AgentTask /\ obj.rv = loop.snap.rv /\ obj.state = "Pending"
        /\ obj.claim = loop.snap.claim /\ obj.retries = loop.snap.retries
    BY <1>0 DEF AgentTask, AgentTaskState
  <2>2. LoopHolds(loop.t) /\ Write(obj, "dispatch") /\ loop.snap.state = "" /\ loop.pc = "dispatch"
    BY <1>0, <1>7 DEF ReconcileInit, Dispatch
  <2> HIDE DEF obj
  <2> QED
    BY <1>5, <2>1, <2>2 DEF WrittenByLoop, Changes, Keeps, GoesOn
<1>8. CASE ReconcilePending
  <2> DEFINE obj == [loop.snap EXCEPT !.state = "Started"]
  <2>1. /\ obj \in AgentTask /\ obj.rv = loop.snap.rv /\ obj.state = "Started"
        /\ obj.claim = loop.snap.claim /\ obj.retries = loop.snap.retries
    BY <1>0 DEF AgentTask, AgentTaskState
  <2>2. LoopHolds(loop.t) /\ WriteAndReturn(obj) /\ loop.snap.state = "Pending" /\ loop.t \in Valid
    BY <1>0, <1>8 DEF ReconcilePending, Dispatch
  <2> HIDE DEF obj
  <2> QED
    BY <1>4, <2>1, <2>2 DEF WrittenByLoop, Changes, Keeps
<1>9. CASE ReconcilePodFailed
  <2> DEFINE obj == [loop.snap EXCEPT !.state = "Failed"]
  <2>1. /\ obj \in AgentTask /\ obj.rv = loop.snap.rv /\ obj.state = "Failed"
        /\ obj.claim = loop.snap.claim /\ obj.retries = loop.snap.retries
    BY <1>0 DEF AgentTask, AgentTaskState
  <2>2. LoopHolds(loop.t) /\ WriteAndReturn(obj) /\ loop.snap.state = "Running" /\ loop.pc = "fail"
    BY <1>0, <1>9 DEF ReconcilePodFailed, Inv, LoopOK
  <2> HIDE DEF obj
  <2> QED
    BY <1>4, <2>1, <2>2 DEF WrittenByLoop, Changes, Keeps
<1>10. CASE ReconcilePodSucceeded
  <2> DEFINE obj == [loop.snap EXCEPT !.state = "Completed"]
  <2>1. /\ obj \in AgentTask /\ obj.rv = loop.snap.rv /\ obj.state = "Completed"
        /\ obj.claim = loop.snap.claim /\ obj.retries = loop.snap.retries
    BY <1>0 DEF AgentTask, AgentTaskState
  <2>2. LoopHolds(loop.t) /\ WriteAndReturn(obj) /\ loop.snap.state = "Running" /\ loop.pc = "complete"
    BY <1>0, <1>10 DEF ReconcilePodSucceeded, Inv, LoopOK
  <2> HIDE DEF obj
  <2> QED
    BY <1>4, <2>1, <2>2 DEF WrittenByLoop, Changes, Keeps
<1>11. CASE ReconcileRelease
  <2> DEFINE obj == [loop.snap EXCEPT !.claim = NoClaim]
  <2>1. /\ obj \in AgentTask /\ obj.rv = loop.snap.rv /\ obj.state = loop.snap.state
        /\ obj.claim = NoClaim /\ obj.retries = loop.snap.retries
    BY <1>0 DEF AgentTask
  <2>2. LoopHolds(loop.t) /\ Write(obj, "retry") /\ loop.snap.state = "Failed" /\ loop.pc = "release"
    BY <1>0, <1>11 DEF ReconcileRelease, Inv, LoopOK
  <2> HIDE DEF obj
  <2> QED
    BY <1>5, <2>1, <2>2 DEF WrittenByLoop, Changes, GoesOn
<1>12. CASE ReconcileRetry
  <2> DEFINE obj == [loop.snap EXCEPT !.retries = @ + 1, !.state = "Started"]
  <2>1. loop.snap.retries + 1 \in 0 .. MaxRetries /\ loop.snap.retries < MaxRetries
    BY <1>0, <1>12, ClusterAssumption DEF AgentTask, ReconcileRetry
  <2>2. /\ obj \in AgentTask /\ obj.rv = loop.snap.rv /\ obj.state = "Started"
        /\ obj.claim = loop.snap.claim /\ obj.retries = loop.snap.retries + 1
    BY <1>0, <2>1 DEF AgentTask, AgentTaskState
  <2>3. LoopHolds(loop.t) /\ WriteAndReturn(obj) /\ loop.snap.state = "Failed" /\ loop.pc = "retry"
    BY <1>0, <1>12 DEF ReconcileRetry, Inv, LoopOK
  <2> HIDE DEF obj
  <2> QED
    BY <1>4, <2>1, <2>2, <2>3 DEF WrittenByLoop, Changes
<1>13. CASE ReconcileRunning
  <2>1. UNCHANGED <<task, sub>>
    BY <1>13 DEF ReconcileRunning
  <2>2. ASSUME NEW p \in {"complete", "fail"}, loop' = [loop EXCEPT !.pc = p],
               loop.snap.claim # NoClaim, p = "complete" => pod[loop.snap.claim] = "Succeeded"
        PROVE  LoopStep
    BY <1>3, <1>p, <1>13, <2>1, <2>2 DEF LoopStep, Judges, ReconcileRunning, Dispatch
  <2> QED
    BY <1>1, <1>2, <1>13, <2>1, <2>2 DEF ReconcileRunning, Done
<1>14. CASE ReconcileCompleted \/ ReconcileFailed
  <2>1. UNCHANGED <<task, sub>> /\ loop.pc = "dispatch"
    BY <1>14 DEF ReconcileCompleted, ReconcileFailed, CloseRecorded, Dispatch
  <2>2. loop.snap.claim # NoClaim /\ DeleteClaim(loop.snap.claim, TRUE)
          => claim'[loop.snap.claim] = "Deleted"
    <3>1. loop.snap.claim # NoClaim => loop.snap.claim \in Claims
      BY <1>0 DEF AgentTask
    <3> QED
      BY <1>0, <3>1, Shapes DEF DeleteClaim
  <2>3. CASE ReconcileCompleted
    <3>1. loop.snap.state = "Completed"
      BY <2>3 DEF ReconcileCompleted, Dispatch
    <3>2. \/ loop' = IdleLoop
          \/ /\ loop' = [loop EXCEPT !.pc = "delete"]
             /\ loop.snap.claim = NoClaim \/ claim'[loop.snap.claim] = "Deleted"
      BY <2>2, <2>3 DEF ReconcileCompleted, CloseRecorded, Done
    <3> QED
      BY <1>1, <1>2, <1>3, <1>p, <2>1, <3>1, <3>2 DEF LoopStep, Closes
  <2>4. CASE ReconcileFailed
    <3>1. loop.snap.state = "Failed"
      BY <2>4 DEF ReconcileFailed, Dispatch
    <3>2. \/ loop' = IdleLoop
          \/ loop' = [loop EXCEPT !.pc = "retry"] /\ loop.snap.claim = NoClaim
          \/ /\ loop' = [loop EXCEPT !.pc = "release"]
             /\ loop.snap.claim # NoClaim /\ claim'[loop.snap.claim] = "Deleted"
      BY <2>2, <2>4 DEF ReconcileFailed, CloseRecorded, Done
    <3> QED
      BY <1>1, <1>2, <1>3, <1>p, <2>1, <3>1, <3>2 DEF LoopStep, Closes
  <2> QED
    BY <1>14, <2>3, <2>4
<1>15. CASE ReconcileDelete
  <2>1. loop' = IdleLoop /\ loop.pc = "delete" /\ loop.t \in Tasks
    BY <1>0, <1>15 DEF ReconcileDelete, Done
  <2>2. ASSUME Remove(loop.t)
        PROVE  /\ \A u \in Tasks : u # loop.t => task'[u] = task[u]
               /\ RemovedByLoop(loop.t)
    BY <1>0, <2>1, <2>2, Removal DEF RemovedByLoop
  <2>3. Remove(loop.t) \/ UNCHANGED task
    BY <1>15 DEF ReconcileDelete
  <2> QED
    BY <1>1, <1>2, <2>1, <2>2, <2>3 DEF OneTaskStep, TaskStep
<1>16. CASE ReconcileInvalid \/ ReconcileStarted \/ ReconcileExhausted
  BY <1>1, <1>2, <1>16 DEF ReconcileInvalid, ReconcileStarted, ReconcileExhausted, Done,
     clusterVars
<1> QED
  BY <1>6, <1>7, <1>8, <1>9, <1>10, <1>11, <1>12, <1>13, <1>14, <1>15, <1>16 DEF Reconcile
LEMMA TaskSteps ==
  ASSUME Inv, Next
  PROVE  OneTaskStep /\ \A t \in Tasks : TaskStep(t)
<1>0. task \in [Tasks -> AgentTask] /\ Typed /\ ClusterTypeOK
  BY Shapes DEF Inv, Typed, TypeOK
<1>1. UNCHANGED task => OneTaskStep /\ \A t \in Tasks : TaskStep(t)
  BY DEF OneTaskStep, TaskStep
<1>2. CASE Create
  <2>1. PICK t \in Tasks, s \in {"", "Pending"} : CreateTask(t, s)
    BY <1>2 DEF Create
  <2> DEFINE new == [NoAgentTask EXCEPT !.state = s, !.rv = task[t].rv + 1]
  <2>2. new.state = s /\ new.claim = NoClaim /\ new.retries = 0
    BY DEF NoAgentTask
  <2>3. task' = [task EXCEPT ![t] = new] /\ task[t].state = "Absent"
    BY <2>1 DEF CreateTask
  <2> HIDE DEF new
  <2>4. Created(t) /\ \A u \in Tasks : u # t => task'[u] = task[u]
    BY <1>0, <2>2, <2>3 DEF Created
  <2> QED
    BY <2>4 DEF OneTaskStep, TaskStep
<1>3. ASSUME NEW c \in Claims, NEW i \in 1 .. MaxTries, Handle(c, i)
      PROVE  OneTaskStep /\ \A t \in Tasks : TaskStep(t)
  <2>1. CASE CallbackComplete(c, i)
    <3>1. owner[c] \in Tasks /\ cb[c][i].pc = "complete" /\ cb[c][i].snap \in AgentTask
      BY <1>0, <2>1, Shapes DEF CallbackComplete, Typed, NamesResolve, CallbackType
    <3> DEFINE done == [cb[c][i].snap EXCEPT !.state = "Completed", !.rv = @ + 1]
    <3>2. /\ done.state = "Completed" /\ done.claim = cb[c][i].snap.claim
          /\ done.retries = cb[c][i].snap.retries
      BY <3>1 DEF AgentTask
    <3>3. /\ \A u \in Tasks : u # owner[c] => task'[u] = task[u]
          /\ \/ task'[owner[c]] = task[owner[c]]
             \/ /\ task[owner[c]] = cb[c][i].snap
                /\ task[owner[c]].state \in AgentTaskState
                /\ task'[owner[c]] = done
      BY <2>1, CallbackWrites
    <3> HIDE DEF done
    <3>4. task'[owner[c]] = task[owner[c]] \/ CompletedByCallback(owner[c])
      BY <3>1, <3>2, <3>3 DEF CompletedByCallback, Keeps
    <3> QED
      BY <3>1, <3>3, <3>4 DEF OneTaskStep, TaskStep
  <2>2. CallbackComplete(c, i) \/ UNCHANGED task
    BY <1>3 DEF Handle, Callback, CallbackGet, CallbackVerify, CallbackConsume, CallbackComment
  <2> QED
    BY <1>1, <2>1, <2>2
<1>4. ASSUME NEW t \in Tasks, Submission(t)
      PROVE  OneTaskStep /\ \A u \in Tasks : TaskStep(u)
  <2>1. CASE SubUpdate(t)
    <3> DEFINE obj == [sub[t].snap EXCEPT !.state = "Running", !.claim = sub[t].claim]
               stored == [obj EXCEPT !.rv = @ + 1]
    <3>1. sub[t] \in SubType /\ sub[t].pc = "update" /\ SubExit(t)
          /\ UNCHANGED <<pod, tokens>>
      BY <1>0, <2>1, Shapes DEF SubUpdate, listenerVars
    <3>2. sub[t].claim \in Claims
      BY <1>0, <3>1 DEF Typed, NamesResolve
    <3>3. /\ obj \in AgentTask /\ obj.retries = sub[t].snap.retries
          /\ stored.retries = obj.retries
      BY <3>1, <3>2 DEF SubType, AgentTask, AgentTaskState
    <3>4. PICK ok \in BOOLEAN : UpdateTask(t, obj, ok)
      BY <2>1 DEF SubUpdate
    <3> HIDE DEF obj
    <3>5. task'[t] = task[t] \/ task'[t] = stored
      BY <1>0, <3>3, <3>4, UpdateReplaces
    <3> HIDE DEF stored
    <3>6. /\ \A u \in Tasks : u # t => task'[u] = task[u]
          /\ \/ task'[t] = task[t]
             \/ /\ task[t] = sub[t].snap /\ task[t].state = "Started"
                /\ task'[t].state = "Running" /\ task'[t].claim = sub[t].claim
      BY <2>1, SubWrites
    <3>7. sub'[t].pc = "exit" /\ sub'[t].claim = NoClaim
      BY <1>0, <3>1, SubRests
    <3>8. task'[t] = task[t] \/ RanBySub(t)
      BY <3>1, <3>3, <3>5, <3>6, <3>7 DEF RanBySub, Changes
    <3> QED
      BY <3>6, <3>8 DEF OneTaskStep, TaskStep
  <2>2. SubUpdate(t) \/ UNCHANGED task
    BY <1>4 DEF Submission, SubGet, SubCreate, SubAwait, SubTokens, SubClose, SubSubmit,
       SubReturn, clusterVars
  <2> QED
    BY <1>1, <2>1, <2>2
<1> QED
  BY <1>1, <1>2, <1>3, <1>4, ReconcileSteps, Frames DEF Next

LEMMA LoopSteps ==
  ASSUME Inv, Next
  PROVE  LoopStep
<1>1. CASE Watch
  <2>1. ASSUME NEW t \in Tasks, loop' = [IdleLoop EXCEPT !.pc = "get", !.t = t]
        PROVE  loop'.pc = "get"
    BY <2>1 DEF IdleLoop
  <2> QED
    BY <1>1, <2>1 DEF Watch, HandleTaskEvent, HandlePodEvent, RunningOn, LoopStep
<1>2. CASE Disturb
  BY <1>2 DEF Disturb, LosePod, RunnerLosesCall, LoseToken, ListenerRestart,
     OrchestratorRestart, orchestratorVars, LoopStep
<1> QED
  BY <1>1, <1>2, ReconcileSteps, Frames DEF Next, LoopStep
-----------------------------------------------------------------------------
(* The inductive invariant                                                 *)

(* A sandbox whose pod has accepted no task yet: nothing was reported.     *)
Fresh(c) ==
  /\ pod[c] \notin {"Busy", "Succeeded"}
  /\ comments[c] = 0 /\ tries[c] = 0
  /\ \A i \in 1 .. MaxTries : cb[c][i].pc = "none"

ClaimOK(c) ==
  /\ claim[c] = "Unused" => owner[c] = NoTask /\ Fresh(c)
  /\ claim[c] # "Unused" => owner[c] \in Tasks

(* The sandbox a status records, in the store or in a copy of it, was made *)
(* for the task and is no longer in the hands of its goroutine.            *)
Records(t, s) ==
  /\ s.claim # NoClaim => owner[s.claim] = t /\ s.claim # sub[t].claim
  /\ s.state = "Running" => s.claim # NoClaim
  /\ s.state \notin {"Running", "Completed", "Failed"} => s.claim = NoClaim

Begun == {"Started", "Running", "Completed", "Failed", "Deleted"}

Answered(t) == \E c \in Claims : owner[c] = t /\ comments[c] > 0

TaskOK(t) ==
  /\ Records(t, task[t])
  /\ task[t].state = "Absent" => task[t].retries = 0
  /\ task[t].state \in Begun => t \in Valid
  /\ task[t].state = "Running" => /\ pod[task[t].claim] \notin {"None", "Ready"}
                                  /\ tokens[t] \in {task[t].claim, NoClaim}
  /\ task[t].state \in {"Completed", "Deleted"} => Answered(t)

(* A goroutine past CreateSandbox works on a live sandbox of its task, and *)
(* nobody but a callback writes the task it took a copy of.                *)
GoroutineOK(t) ==
  /\ sub[t].pc \notin HasClaim => sub[t].claim = NoClaim
  /\ sub[t].pc \in HasClaim => claim[sub[t].claim] = "Live"
  /\ SubHolds(t) => task[t] = sub[t].snap \/ task[t].state \in {"Completed", "Deleted"}
  /\ sub[t].pc \in HasClaim \ {"update"} => Fresh(sub[t].claim)
  /\ sub[t].pc = "update" => pod[sub[t].claim] \notin {"None", "Ready"}
  /\ sub[t].pc \in {"submit", "update"} => tokens[t] \in {sub[t].claim, NoClaim}
  /\ sub[t].pc # "none" => t \in activeTasks

(* What the loop has found out at each of its calls still holds.           *)
TurnOK ==
  /\ loop.pc = "idle" => loop.t = NoTask
  /\ LoopHolds(loop.t) => Records(loop.t, loop.snap)
  /\ loop.pc = "complete" => comments[loop.snap.claim] > 0
  /\ loop.pc = "dispatch" /\ loop.snap.state = "Failed" =>
       ~(task[loop.t].state = "Running" /\ task[loop.t].claim = loop.snap.claim)
  /\ loop.pc = "release" => loop.snap.claim # NoClaim /\ claim[loop.snap.claim] = "Deleted"
  /\ loop.pc = "retry" => loop.snap.claim = NoClaim
  /\ loop.pc \in {"dispatch", "delete"} /\ loop.snap.state = "Completed" =>
       /\ task[loop.t].state \in {"Completed", "Deleted"}
       /\ task[loop.t].claim \in {loop.snap.claim, NoClaim}
  /\ loop.pc = "delete" => loop.snap.claim = NoClaim \/ claim[loop.snap.claim] = "Deleted"

(* A callback is past the token check only in the attempt its copy of a    *)
(* Running task records, and past the comment only when it was posted.     *)
HandlerOK(c, i) ==
  /\ cb[c][i].pc \in {"complete", "ok"} => comments[c] > 0
  /\ cb[c][i].snap.state = "Running" =>
       /\ cb[c][i].pc = "verify" /\ tokens[owner[c]] = c => cb[c][i].snap.claim = c
       /\ cb[c][i].pc \in {"consume", "comment", "complete"} => cb[c][i].snap.claim = c

AttemptOK(c) ==
  /\ owner[c] \in Tasks => task[owner[c]].state \in Begun
  /\ pod[c] = "Succeeded" => comments[c] > 0

LifeInv ==
  /\ \A c \in Claims : ClaimOK(c) /\ AttemptOK(c)
  /\ \A t \in Tasks : TaskOK(t) /\ GoroutineOK(t)
  /\ \A c \in Claims, i \in 1 .. MaxTries : HandlerOK(c, i)
  /\ TurnOK

LEMMA LifeInit == Init => LifeInv
<1> SUFFICES ASSUME Init PROVE LifeInv
  OBVIOUS
<1>1. /\ \A t \in Tasks : /\ task[t].state = "Absent" /\ task[t].claim = NoClaim
                          /\ task[t].retries = 0
                          /\ sub[t].pc = "none" /\ sub[t].claim = NoClaim
      /\ \A c \in Claims : /\ claim[c] = "Unused" /\ owner[c] = NoTask /\ pod[c] = "None"
                           /\ comments[c] = 0 /\ tries[c] = 0
                           /\ \A i \in 1 .. MaxTries :
                                cb[c][i].pc = "none" /\ cb[c][i].snap.state = "Absent"
      /\ loop.pc = "idle" /\ loop.t = NoTask
  BY DEF Init, ClusterInit, ListenerInit, OrchestratorInit, NoAgentTask, NoCallback, IdleLoop,
     NoSubmission
<1>2. \A c \in Claims : ClaimOK(c) /\ AttemptOK(c)
  BY <1>1, ClusterAssumption DEF ClaimOK, AttemptOK, Fresh
<1>3. \A t \in Tasks : TaskOK(t) /\ GoroutineOK(t)
  BY <1>1 DEF TaskOK, Records, GoroutineOK, Begun, HasClaim, SubHolds
<1>4. \A c \in Claims, i \in 1 .. MaxTries : HandlerOK(c, i)
  BY <1>1 DEF HandlerOK
<1>5. TurnOK
  BY <1>1 DEF TurnOK, LoopHolds
<1> QED
  BY <1>2, <1>3, <1>4, <1>5 DEF LifeInv

(* A claim never changes hands and is never opened again; comments stay.   *)
LEMMA ClaimsKept ==
  ASSUME Inv, LifeInv, Next, NEW c \in Claims
  PROVE  /\ owner[c] \in Tasks => owner'[c] = owner[c]
         /\ claim[c] = "Deleted" => claim'[c] = "Deleted"
         /\ claim'[c] = "Unused" => claim[c] = "Unused" /\ owner'[c] = owner[c]
         /\ claim'[c] # "Unused" => owner'[c] \in Tasks
         /\ comments'[c] \in Nat /\ comments'[c] >= comments[c]
<1>0. Typed /\ comments \in [Claims -> Nat] /\ ClaimOK(c) /\ claim \in [Claims -> ClaimState]
  BY Shapes DEF Inv, LifeInv
<1>1. ClaimStep(c) /\ CommentStep(c)
  BY <1>0, ClaimSteps, AttemptSteps
<1>2. comments'[c] = comments[c] \/ comments'[c] = comments[c] + 1
  BY <1>1 DEF CommentStep
<1>3. comments[c] \in Nat /\ comments'[c] \in Nat /\ comments'[c] >= comments[c]
  BY <1>0, <1>2
<1>4. CASE \E t \in Tasks : Opened(c, t)
  BY <1>0, <1>3, <1>4, ClusterAssumption DEF Opened, ClaimOK
<1>5. CASE owner'[c] = owner[c] /\ claim'[c] \in {claim[c], "Deleted"}
  <2>1. claim'[c] = "Deleted" => owner'[c] \in Tasks \/ claim[c] = "Unused"
    BY <1>0, <1>5 DEF ClaimOK
  <2>2. claim[c] = "Unused" => claim'[c] = claim[c]
    <3>1. ASSUME claim[c] = "Unused", NEW t \in Tasks, DroppedBySub(c, t) PROVE FALSE
      BY <1>0, <3>1 DEF DroppedBySub, Typed, NamesResolve
    <3>2. ASSUME claim[c] = "Unused", ClosedByLoop(c) PROVE FALSE
      <4>1. LoopHolds(loop.t) /\ loop.t \in Tasks /\ loop.snap.claim = c
        BY <1>0, <3>2 DEF ClosedByLoop, LoopHolds, Typed, NamesResolve
      <4>2. owner[c] = loop.t
        BY <4>1, ClusterAssumption DEF LifeInv, TurnOK, Records
      <4> QED
        BY <1>0, <3>2, <4>1, <4>2, ClusterAssumption DEF ClaimOK
    <3>3. ASSUME claim[c] = "Unused", NEW t \in Tasks, Opened(c, t) PROVE FALSE
      BY <1>0, <1>5, <3>3 DEF Opened
    <3> QED
      BY <1>1, <3>1, <3>2, <3>3 DEF ClaimStep
  <2> QED
    BY <1>0, <1>3, <1>5, <2>1, <2>2 DEF ClaimOK
<1> QED
  BY <1>1, <1>4, <1>5 DEF ClaimStep, DroppedBySub, ClosedByLoop

LEMMA FreshKept ==
  ASSUME Inv, LifeInv, Next, NEW c \in Claims, Fresh(c),
         ~\E t \in Tasks : Submitted(c, t)
  PROVE  Fresh(c)'
<1>0. Typed /\ 1 \in 1 .. MaxTries
  BY ClusterAssumption DEF Inv
<1>1. /\ PodStep(c) /\ TriesStep(c) /\ CommentStep(c)
      /\ \A i \in 1 .. MaxTries : CallbackStep(c, i)
  BY <1>0, PodSteps, AttemptSteps
<1>2. pod'[c] \notin {"Busy", "Succeeded"}
  BY <1>1 DEF PodStep, Ended, Fresh
<1>3. ~\E i \in 1 .. MaxTries : Sent(c, i)
  BY DEF Sent, Fresh
<1>4. tries'[c] = 0 /\ comments'[c] = 0
  BY <1>1, <1>3 DEF TriesStep, CommentStep, Passes, Fresh
<1>5. \A i \in 1 .. MaxTries : cb'[c][i].pc = "none"
  BY <1>1, <1>3 DEF CallbackStep, Passes, Fresh, InProgress
<1> QED
  BY <1>2, <1>4, <1>5 DEF Fresh

(* What is said of a recorded sandbox stays true of the same record.       *)
LEMMA RecordsKept ==
  ASSUME Inv, LifeInv, Next, NEW t \in Tasks, NEW s \in AgentTask, Records(t, s),
         s.claim # NoClaim
  PROVE  s.claim \in Claims /\ owner'[s.claim] = t /\ s.claim # sub'[t].claim
<1>0. s.claim \in Claims /\ owner[s.claim] = t /\ s.claim # sub[t].claim
  BY DEF Records, AgentTask
<1>1. owner'[s.claim] = t
  BY <1>0, ClaimsKept
<1>2. SubStep(t)
  BY SubSteps
<1>3. \A c \in Claims : claim[c] = "Unused" => owner[c] = NoTask
  BY DEF LifeInv, ClaimOK
<1> QED
  BY <1>0, <1>1, <1>2, <1>3, ClusterAssumption
     DEF SubStep, Rests, Takes, Opens, Advances, Opened

LEMMA ClaimNext ==
  ASSUME Inv, LifeInv, Next, NEW c \in Claims
  PROVE  ClaimOK(c)'
<1>1. ASSUME claim[c] = "Unused"
      PROVE  ~\E t \in Tasks : Submitted(c, t)
  BY <1>1 DEF Submitted, Inv, NothingBeforeClaim
<1>2. ASSUME claim'[c] = "Unused"
      PROVE  owner'[c] = NoTask /\ Fresh(c)'
  <2>1. claim[c] = "Unused" /\ owner'[c] = owner[c] /\ ClaimOK(c)
    BY <1>2, ClaimsKept DEF LifeInv
  <2>2. Fresh(c)'
    BY <1>1, <2>1, FreshKept DEF ClaimOK
  <2> QED
    BY <2>1, <2>2 DEF ClaimOK
<1> QED
  BY <1>2, ClaimsKept DEF ClaimOK

(* A task that was started stays so.                                       *)
LEMMA BegunKept ==
  ASSUME Inv, LifeInv, Next, NEW t \in Tasks, task[t].state \in Begun
  PROVE  task'[t].state \in Begun
<1>1. TaskStep(t)
  BY TaskSteps
<1> QED
  BY <1>1 DEF TaskStep, Created, WrittenByLoop, RemovedByLoop, RanBySub, CompletedByCallback,
     Changes, Begun

LEMMA AttemptNext ==
  ASSUME Inv, LifeInv, Next, NEW c \in Claims
  PROVE  AttemptOK(c)'
<1>0. Typed /\ ClaimOK(c) /\ AttemptOK(c) /\ comments \in [Claims -> Nat]
  BY Shapes DEF Inv, LifeInv
<1>1. ASSUME owner'[c] \in Tasks PROVE task'[owner'[c]].state \in Begun
  <2>1. ClaimStep(c)
    BY <1>0, ClaimSteps
  <2>2. ASSUME NEW t \in Tasks, Opened(c, t) PROVE task[t].state \in Begun
    BY <2>2 DEF Opened, LifeInv, GoroutineOK, SubHolds, Inv, SubOK, Begun
  <2>3. owner'[c] = owner[c] \/ Opened(c, owner'[c])
    BY <2>1 DEF ClaimStep, Opened
  <2>4. task[owner'[c]].state \in Begun
    BY <1>0, <1>1, <2>2, <2>3 DEF AttemptOK
  <2> QED
    BY <1>1, <2>4, BegunKept
<1>2. ASSUME pod'[c] = "Succeeded" PROVE comments'[c] > 0
  <2>1. PodStep(c)
    BY <1>0, PodSteps
  <2>2. comments[c] > 0
    BY <1>0, <1>2, <2>1 DEF PodStep, Submitted, Ended, AttemptOK, LifeInv, HandlerOK
  <2> QED
    BY <1>0, <2>2, ClaimsKept
<1> QED
  BY <1>1, <1>2 DEF AttemptOK
(* Who holds a claim: one goroutine at most, and then not the loop.        *)
LEMMA OneHolder ==
  ASSUME Inv, LifeInv, NEW t \in Tasks, sub[t].pc \in HasClaim
  PROVE  /\ sub[t].claim \in Claims /\ owner[sub[t].claim] = t
         /\ \A u \in Tasks : sub[u].pc \in HasClaim /\ sub[u].claim = sub[t].claim => u = t
         /\ LoopHolds(loop.t) => loop.snap.claim # sub[t].claim
<1>1. \A u \in Tasks : sub[u].pc \in HasClaim =>
        sub[u].claim \in Claims /\ owner[sub[u].claim] = u
  BY DEF Inv, Typed, NamesResolve, HasClaim
<1>2. LoopHolds(loop.t) => loop.snap.claim # sub[t].claim
  BY <1>1, ClusterAssumption DEF LifeInv, TurnOK, Records
<1> QED
  BY <1>1, <1>2

LEMMA GoroutineNext ==
  ASSUME Inv, LifeInv, Next, NEW t \in Tasks
  PROVE  GoroutineOK(t)'
<1>0. /\ Typed /\ GoroutineOK(t) /\ SubStep(t) /\ ActiveStep(t) /\ TaskStep(t) /\ TokenStep(t)
      /\ SubHolds(t) => sub[t].snap.state = "Started"
  BY SubSteps, TaskSteps, AttemptSteps DEF Inv, SubOK, LifeInv
<1>1. sub'[t].pc # "none" => t \in activeTasks'
  BY <1>0 DEF GoroutineOK, ActiveStep
<1>2. CASE Rests(t)
  BY <1>1, <1>2 DEF Rests, GoroutineOK, HasClaim, SubHolds
<1>3. CASE Takes(t)
  BY <1>1, <1>3 DEF Takes, GoroutineOK, HasClaim, SubHolds
<1>4. CASE Opens(t)
  <2>1. PICK d \in Claims : Opened(d, t) /\ sub'[t].claim = d
    BY <1>4 DEF Opens
  <2>2. Fresh(d) /\ claim'[d] = "Live"
    BY <2>1 DEF Opened, LifeInv, ClaimOK
  <2>3. ~\E u \in Tasks : Submitted(d, u)
    BY <1>4 DEF Opens, Submitted
  <2>4. Fresh(d)'
    BY <2>2, <2>3, FreshKept
  <2>5. SubHolds(t) /\ sub'[t].snap = sub[t].snap /\ sub'[t].pc = "await" /\ UNCHANGED task
    BY <1>4 DEF Opens, SubHolds
  <2> QED
    BY <1>0, <1>1, <2>1, <2>2, <2>4, <2>5 DEF GoroutineOK, HasClaim
<1>5. CASE Advances(t)
  <2>1. /\ sub[t].pc \in HasClaim \ {"update"} /\ sub'[t].pc \in HasClaim \ {"await"}
        /\ sub'[t].claim = sub[t].claim /\ sub'[t].snap = sub[t].snap
        /\ SubHolds(t) /\ UNCHANGED <<task, claim>>
    BY <1>5 DEF Advances, HasClaim, SubHolds
  <2>2. PICK c \in Claims : c = sub[t].claim
    BY <2>1, OneHolder
  <2>3. Fresh(c) /\ claim[c] = "Live"
    BY <1>0, <2>1, <2>2 DEF GoroutineOK
  <2>4. sub'[t].pc # "update" => Fresh(c)'
    <3>1. sub'[t].pc # "update" => ~\E u \in Tasks : Submitted(c, u)
      BY <1>5 DEF Advances, Submitted
    <3> QED
      BY <2>3, <3>1, FreshKept
  <2>5. sub'[t].pc = "update" => pod'[c] \notin {"None", "Ready"}
    BY <1>5, <2>2 DEF Advances
  <2>6. sub'[t].pc \in {"submit", "update"} => tokens'[t] \in {c, NoClaim}
    BY <1>0, <1>5, <2>2 DEF Advances, GoroutineOK
  <2>7. sub'[t].claim = c /\ claim'[c] = "Live"
    BY <2>1, <2>2, <2>3
  <2>8. task'[t] = sub'[t].snap \/ task'[t].state \in {"Completed", "Deleted"}
    BY <1>0, <2>1 DEF GoroutineOK
  <2> QED
    BY <1>1, <2>1, <2>4, <2>5, <2>6, <2>7, <2>8 DEF GoroutineOK, HasClaim
<1>6. CASE sub'[t] = sub[t]
  <2>1. SubHolds(t)' =>
          task'[t] = sub'[t].snap \/ task'[t].state \in {"Completed", "Deleted"}
    BY <1>0, <1>6 DEF GoroutineOK, SubHolds, TaskStep, Created, WrittenByLoop, RemovedByLoop,
       RanBySub, CompletedByCallback, Changes, AgentTaskState
  <2>2. CASE sub[t].pc \notin HasClaim
    BY <1>0, <1>1, <1>6, <2>1, <2>2 DEF GoroutineOK, HasClaim
  <2>3. CASE sub[t].pc \in HasClaim
    <3>1. PICK c \in Claims : c = sub[t].claim
      BY <2>3, OneHolder
    <3>2. claim[c] = "Live" /\ sub'[t].claim = c
      BY <1>0, <1>6, <2>3, <3>1 DEF GoroutineOK
    <3>3. claim'[c] = "Live"
      <4>1. ClaimStep(c)
        BY <1>0, ClaimSteps
      <4>2. ~ClosedByLoop(c)
        BY <2>3, <3>1, OneHolder DEF ClosedByLoop, LoopHolds
      <4>3. ASSUME NEW u \in Tasks, DroppedBySub(c, u) PROVE FALSE
        <5>1. u = t
          BY <2>3, <3>1, <4>3, OneHolder DEF DroppedBySub, HasClaim
        <5> QED
          BY <1>6, <4>3, <5>1 DEF DroppedBySub
      <4>4. ASSUME NEW u \in Tasks, Opened(c, u) PROVE FALSE
        BY <3>2, <4>4 DEF Opened
      <4> QED
        BY <3>2, <4>1, <4>2, <4>3, <4>4 DEF ClaimStep
    <3>4. sub[t].pc # "update" => Fresh(c)'
      <4> SUFFICES ASSUME sub[t].pc # "update" PROVE Fresh(c)'
        OBVIOUS
      <4>1. Fresh(c)
        BY <1>0, <2>3, <3>1 DEF GoroutineOK
      <4>2. ASSUME NEW u \in Tasks, Submitted(c, u) PROVE FALSE
        <5>1. u = t
          BY <2>3, <3>1, <4>2, OneHolder DEF Submitted, HasClaim
        <5> QED
          BY <1>6, <4>2, <5>1 DEF Submitted
      <4> QED
        BY <4>1, <4>2, FreshKept
    <3>5. sub[t].pc = "update" => pod'[c] \notin {"None", "Ready"}
      BY <1>0, <3>1, PodSteps DEF GoroutineOK, PodStep, Submitted, Ended
    <3>6. sub[t].pc \in {"submit", "update"} => tokens'[t] \in {c, NoClaim}
      BY <1>0, <3>1 DEF GoroutineOK, TokenStep
    <3> QED
      BY <1>1, <1>6, <2>1, <2>3, <3>2, <3>3, <3>4, <3>5, <3>6 DEF GoroutineOK
  <2> QED
    BY <2>2, <2>3
<1> QED
  BY <1>0, <1>2, <1>3, <1>4, <1>5, <1>6 DEF SubStep

LEMMA TaskNext ==
  ASSUME Inv, LifeInv, Next, NEW t \in Tasks
  PROVE  TaskOK(t)'
<1>0. /\ Typed /\ TaskOK(t) /\ GoroutineOK(t) /\ TurnOK /\ TaskStep(t) /\ TokenStep(t)
      /\ task[t] \in AgentTask /\ sub'[t] = sub'[t]
      /\ SubHolds(t) => sub[t].snap.state = "Started"
  BY SubSteps, TaskSteps, AttemptSteps, Shapes DEF Inv, SubOK, LifeInv
\* A task keeps its record, and its answer.
<1>1. task[t].claim # NoClaim =>
        task[t].claim \in Claims /\ owner'[task[t].claim] = t /\ task[t].claim # sub'[t].claim
  BY <1>0, RecordsKept DEF TaskOK
<1>2. ASSUME NEW c \in Claims, owner[c] = t, comments[c] > 0 PROVE Answered(t)'
  <2>1. owner'[c] = t /\ comments'[c] > 0
    BY <1>0, <1>2, ClaimsKept, Shapes
  <2> QED
    BY <2>1 DEF Answered
<1>3. task'[t].claim \in {task[t].claim, NoClaim} =>
        (task'[t].claim # NoClaim => owner'[task'[t].claim] = t /\ task'[t].claim # sub'[t].claim)
  BY <1>1
<1>4. CASE task'[t] = task[t]
  <2>1. ASSUME task[t].state = "Running"
        PROVE  /\ pod'[task[t].claim] \notin {"None", "Ready"}
               /\ tokens'[t] \in {task[t].claim, NoClaim}
    <3>1. task[t].claim \in Claims /\ pod[task[t].claim] \notin {"None", "Ready"}
      BY <1>0, <1>1, <2>1 DEF TaskOK, Records
    <3>2. pod'[task[t].claim] \notin {"None", "Ready"}
      BY <1>0, <3>1, PodSteps DEF PodStep, Submitted, Ended
    <3>3. sub[t].pc # "tokens"
      BY <1>0, <2>1 DEF GoroutineOK, SubHolds
    <3> QED
      BY <1>0, <2>1, <3>2, <3>3 DEF TaskOK, TokenStep
  <2>2. task[t].state \in {"Completed", "Deleted"} => Answered(t)'
    BY <1>0, <1>2 DEF TaskOK, Answered
  <2> QED
    BY <1>0, <1>3, <1>4, <2>1, <2>2 DEF TaskOK, Records
<1>5. CASE Created(t)
  BY <1>5 DEF Created, TaskOK, Records, Begun
<1>6. CASE WrittenByLoop(t)
  <2>1. /\ task'[t].state \in {"Pending", "Started", "Failed", "Completed"}
        /\ task'[t].claim \in {task[t].claim, NoClaim}
        /\ task'[t].state = "Completed" => loop.pc = "complete" /\ task[t].state = "Running"
        /\ task'[t].state \in {"Pending", "Started"} => task'[t].claim = NoClaim
        /\ task'[t].state \in Begun => t \in Valid
    BY <1>0, <1>6 DEF WrittenByLoop, Changes, Keeps, TaskOK, Records, TurnOK, Begun
  <2>2. task'[t].state = "Completed" => Answered(t)'
    <3> SUFFICES ASSUME task'[t].state = "Completed" PROVE Answered(t)'
      OBVIOUS
    <3>1. task[t].claim # NoClaim /\ owner[task[t].claim] = t /\ comments[task[t].claim] > 0
      BY <1>0, <1>6, <2>1 DEF WrittenByLoop, TaskOK, Records, TurnOK
    <3> QED
      BY <1>1, <1>2, <3>1
  <2> QED
    BY <1>3, <2>1, <2>2 DEF TaskOK, Records
<1>7. CASE RemovedByLoop(t)
  <2>1. /\ task[t].state \in {"Completed", "Deleted"}
        /\ task'[t].state = "Deleted" /\ task'[t].claim = NoClaim
    BY <1>0, <1>7 DEF RemovedByLoop, TurnOK, Inv, LoopOK, LoopHolds
  <2> QED
    BY <1>0, <1>2, <2>1 DEF TaskOK, Records, Answered, Begun
<1>8. CASE RanBySub(t)
  <2> DEFINE c == sub[t].claim
  <2>1. /\ sub[t].pc \in HasClaim /\ task'[t].state = "Running" /\ task'[t].claim = c
        /\ task[t].state = "Started" /\ sub'[t].claim = NoClaim /\ UNCHANGED <<pod, tokens>>
    BY <1>8 DEF RanBySub, Changes, HasClaim
  <2>2. c \in Claims /\ owner[c] = t
    BY <2>1, OneHolder
  <2>3. c # NoClaim /\ owner'[c] = t
    BY <2>2, ClaimsKept, ClusterAssumption
  <2>4. pod'[c] \notin {"None", "Ready"} /\ tokens'[t] \in {c, NoClaim}
    BY <1>0, <1>8 DEF RanBySub, GoroutineOK
  <2> HIDE DEF c
  <2> QED
    BY <1>0, <2>1, <2>3, <2>4 DEF TaskOK, Records, Begun
<1>9. CASE CompletedByCallback(t)
  <2>1. PICK c \in Claims, i \in 1 .. MaxTries : owner[c] = t /\ cb[c][i].pc = "complete"
    BY <1>9 DEF CompletedByCallback
  <2>2. comments[c] > 0 /\ task[t].state \in Begun
    BY <2>1 DEF LifeInv, HandlerOK, AttemptOK
  <2>3. Answered(t)'
    BY <1>2, <2>1, <2>2
  <2>4. task'[t].state = "Completed" /\ task'[t].claim = task[t].claim
    BY <1>9 DEF CompletedByCallback, Keeps
  <2> QED
    BY <1>0, <1>3, <2>2, <2>3, <2>4 DEF TaskOK, Records
<1> QED
  BY <1>0, <1>4, <1>5, <1>6, <1>7, <1>8, <1>9 DEF TaskStep
(* A token that is new to the store is for an attempt nobody reports on.   *)
LEMMA TokensKept ==
  ASSUME Inv, LifeInv, Next, NEW c \in Claims, owner[c] \in Tasks, ~Fresh(c),
         tokens'[owner[c]] = c
  PROVE  tokens[owner[c]] = c
<1>1. TokenStep(owner[c])
  BY AttemptSteps DEF Inv
<1>2. ASSUME sub[owner[c]].pc = "tokens", tokens'[owner[c]] = sub[owner[c]].claim
      PROVE  FALSE
  BY <1>2 DEF LifeInv, GoroutineOK, HasClaim
<1> QED
  BY <1>1, <1>2, ClusterAssumption DEF TokenStep

LEMMA HandlerNext ==
  ASSUME Inv, LifeInv, Next, NEW c \in Claims, NEW i \in 1 .. MaxTries
  PROVE  HandlerOK(c, i)'
<1>0. /\ Typed /\ HandlerOK(c, i) /\ CallbackStep(c, i)
      /\ comments \in [Claims -> Nat]
      /\ comments'[c] \in Nat /\ comments'[c] >= comments[c]
  BY AttemptSteps, ClaimsKept, Shapes DEF Inv, LifeInv
<1>1. cb[c][i].pc # "none" =>
        /\ owner[c] \in Tasks /\ owner'[c] = owner[c] /\ ~Fresh(c)
  BY <1>0, ClaimsKept DEF Typed, NamesResolve, Fresh
<1>2. cb'[c][i].pc \in {"complete", "ok"} => comments'[c] > 0
  BY <1>0 DEF CallbackStep, HandlerOK, Sent, Passes
<1>3. ASSUME cb'[c][i].snap.state = "Running", cb'[c][i].pc = "verify", tokens'[owner'[c]] = c
      PROVE  cb'[c][i].snap.claim = c
  <2>1. CASE cb'[c][i] = cb[c][i]
    BY <1>0, <1>1, <1>3, <2>1, TokensKept DEF HandlerOK
  <2>2. CASE Passes(c, i, "received", "verify") /\ cb'[c][i].snap = task[owner[c]]
             /\ UNCHANGED tokens
    BY <1>1, <1>3, <2>2, ClusterAssumption DEF Passes, LifeInv, TaskOK
  <2> QED
    BY <1>0, <1>3, <2>1, <2>2 DEF CallbackStep, Sent, Passes
<1>4. ASSUME cb'[c][i].snap.state = "Running", cb'[c][i].pc \in {"consume", "comment", "complete"}
      PROVE  cb'[c][i].snap.claim = c
  BY <1>0, <1>4 DEF CallbackStep, HandlerOK, Sent, Passes, KeepsCopy
<1> QED
  BY <1>2, <1>3, <1>4 DEF HandlerOK

LEMMA TurnNext ==
  ASSUME Inv, LifeInv, Next
  PROVE  TurnOK'
<1>0. /\ Typed /\ TurnOK /\ LoopStep /\ loop.snap \in AgentTask
      /\ LoopHolds(loop.t) => loop.t \in Tasks /\ TaskStep(loop.t)
      /\ LoopHolds(loop.t) <=> loop.pc \notin {"idle", "get"}
      /\ LoopHolds(loop.t)' <=> loop'.pc \notin {"idle", "get"}
  BY LoopSteps, TaskSteps, Shapes
     DEF Inv, LifeInv, Typed, NamesResolve, LoopHolds, LoopType
<1>1. LoopHolds(loop.t) /\ loop.snap.claim # NoClaim =>
        /\ loop.snap.claim \in Claims
        /\ owner'[loop.snap.claim] = loop.t /\ loop.snap.claim # sub'[loop.t].claim
  BY <1>0, RecordsKept DEF TurnOK
<1>2. \A c \in Claims : /\ claim[c] = "Deleted" => claim'[c] = "Deleted"
                        /\ comments[c] > 0 => comments'[c] > 0
  BY <1>0, ClaimsKept, Shapes
<1>3. LoopHolds(loop.t) /\ loop'.t = loop.t => Records(loop.t, task[loop.t])'
  <2> SUFFICES ASSUME LoopHolds(loop.t), loop'.t = loop.t
               PROVE  Records(loop.t, task[loop.t])'
    OBVIOUS
  <2>1. PICK t \in Tasks : t = loop.t
    BY <1>0
  <2>2. Records(t, task[t])'
    BY TaskNext DEF TaskOK
  <2> QED
    BY <2>1, <2>2 DEF Records
<1>4. CASE loop' = IdleLoop
  BY <1>4 DEF TurnOK, LoopHolds, IdleLoop
<1>5. CASE loop'.pc = "get"
  BY <1>5 DEF TurnOK, LoopHolds
<1>6. CASE /\ LoopHolds(loop.t) /\ loop'.pc \notin {"idle", "get"} /\ loop'.t = loop.t
           /\ loop'.snap = loop.snap
           /\ loop' = loop \/ Judges \/ Closes
  <2>1. Records(loop.t, loop.snap)'
    BY <1>0, <1>1, <1>6 DEF TurnOK, Records
  <2>2. loop'.pc = "complete" => comments'[loop.snap.claim] > 0
    <3> SUFFICES ASSUME loop'.pc = "complete" PROVE comments'[loop.snap.claim] > 0
      OBVIOUS
    <3>1. loop.snap.state = "Running"
      BY <1>6 DEF Judges, Closes, Inv, LoopOK
    <3>2. loop.snap.claim \in Claims
      BY <1>0, <1>1, <1>6, <3>1 DEF TurnOK, Records
    <3>3. comments[loop.snap.claim] > 0
      BY <1>0, <1>6, <3>2 DEF Judges, Closes, TurnOK, LifeInv, AttemptOK
    <3> QED
      BY <1>2, <3>2, <3>3
  <2>3. loop'.pc = "dispatch" => loop' = loop
    BY <1>6 DEF Judges, Closes
  <2>4. loop'.pc = "dispatch" /\ loop.snap.state = "Failed" =>
          ~(task'[loop.t].state = "Running" /\ task'[loop.t].claim = loop.snap.claim)
    <3> SUFFICES ASSUME loop'.pc = "dispatch", loop.snap.state = "Failed",
                        task'[loop.t].state = "Running", task'[loop.t].claim = loop.snap.claim
                 PROVE  FALSE
      OBVIOUS
    <3>1. task'[loop.t] # task[loop.t]
      BY <1>0, <2>3 DEF TurnOK
    <3>2. RanBySub(loop.t)
      BY <1>0, <1>6, <3>1 DEF TaskStep, Created, WrittenByLoop, Changes, RemovedByLoop,
         CompletedByCallback
    <3>3. sub[loop.t].claim = loop.snap.claim /\ sub[loop.t].pc \in HasClaim
      BY <3>2 DEF RanBySub, HasClaim
    <3> QED
      BY <1>0, <1>6, <3>3, OneHolder
  <2>5. loop'.pc = "release" => /\ loop.snap.claim # NoClaim
                                /\ claim'[loop.snap.claim] = "Deleted"
    BY <1>0, <1>1, <1>2, <1>6 DEF Judges, Closes, TurnOK
  <2>6. loop'.pc = "retry" => loop.snap.claim = NoClaim
    BY <1>0, <1>6 DEF Judges, Closes, TurnOK
  <2>7. loop'.pc \in {"dispatch", "delete"} /\ loop.snap.state = "Completed" =>
          /\ task'[loop.t].state \in {"Completed", "Deleted"}
          /\ task'[loop.t].claim \in {loop.snap.claim, NoClaim}
    <3> SUFFICES ASSUME loop'.pc \in {"dispatch", "delete"}, loop.snap.state = "Completed"
                 PROVE  /\ task'[loop.t].state \in {"Completed", "Deleted"}
                        /\ task'[loop.t].claim \in {loop.snap.claim, NoClaim}
      OBVIOUS
    <3>1. /\ task[loop.t].state \in {"Completed", "Deleted"}
          /\ task[loop.t].claim \in {loop.snap.claim, NoClaim}
      BY <1>0, <1>6 DEF Judges, Closes, TurnOK
    <3> QED
      BY <1>0, <1>6, <3>1 DEF TaskStep, Created, WrittenByLoop, Changes, RemovedByLoop,
         RanBySub, CompletedByCallback, Keeps
  <2>8. loop'.pc = "delete" => loop.snap.claim = NoClaim \/ claim'[loop.snap.claim] = "Deleted"
    BY <1>0, <1>1, <1>2, <1>6 DEF Judges, Closes, TurnOK
  <2> QED
    BY <1>6, <2>1, <2>2, <2>4, <2>5, <2>6, <2>7, <2>8 DEF TurnOK
<1>7. CASE LoopHolds(loop.t) /\ loop'.t = loop.t /\ GoesOn
  <2>1. Records(loop.t, loop.snap)'
    BY <1>3, <1>7 DEF GoesOn, Records
  <2> QED
    BY <1>7, <2>1 DEF GoesOn, TurnOK
<1>8. CASE loop'.t = loop.t /\ Reads
  <2>1. loop.t \in Tasks /\ loop'.pc = "dispatch" /\ loop'.snap = task'[loop.t]
    BY <1>0, <1>8 DEF Reads, Typed, NamesResolve
  <2>2. Records(loop.t, loop.snap)'
    BY <1>8, <2>1, TaskNext DEF TaskOK, Records
  <2> QED
    BY <1>8, <2>1, <2>2 DEF TurnOK
<1>9. CASE loop' = loop /\ ~LoopHolds(loop.t)
  BY <1>0, <1>9 DEF TurnOK
<1> QED
  BY <1>0, <1>4, <1>5, <1>6, <1>7, <1>8, <1>9 DEF LoopStep, Judges, Closes, GoesOn

LEMMA LifeNext == Inv /\ LifeInv /\ [Next]_vars => LifeInv'
<1> SUFFICES ASSUME Inv, LifeInv, [Next]_vars PROVE LifeInv'
  OBVIOUS
<1>1. CASE Next
  BY <1>1, ClaimNext, AttemptNext, TaskNext, GoroutineNext, HandlerNext, TurnNext DEF LifeInv
<1>2. CASE UNCHANGED vars
  BY <1>2 DEF vars, clusterVars, listenerVars, orchestratorVars, LifeInv, ClaimOK, AttemptOK,
     TaskOK, GoroutineOK, HandlerOK, TurnOK, Records, Fresh, Answered, SubHolds, LoopHolds
<1> QED
  BY <1>1, <1>2

LEMMA LifeAlways == Spec => [](Inv /\ LifeInv)
<1>1. Init => Inv /\ LifeInv
  BY InvInit, LifeInit
<1>2. Inv /\ LifeInv /\ [Next]_vars => (Inv /\ LifeInv)'
  BY InvNext, LifeNext
<1> QED
  BY <1>1, <1>2, PTL DEF Spec
-----------------------------------------------------------------------------
(* What follows from the invariant                                         *)

(* The status of an AgentTask records only a sandbox that was created for  *)
(* it, a Running task records one and a task that has yet to submit none   *)
(* (runSandboxSubmission sets both, StateFailed of Reconcile clears both). *)
THEOREM SandboxRecorded == Spec => []RecordedSandboxIsOwn
<1>1. LifeInv => RecordedSandboxIsOwn
  BY DEF LifeInv, TaskOK, Records, RecordedSandboxIsOwn
<1> QED
  BY <1>1, LifeAlways, PTL

(* A task that is Completed, or deleted after that, has an answer on       *)
(* GitHub, through every failure and restart: handleCallback posts it      *)
(* before the update, and StatePodSucceeded of Reconcile trusts a pod that *)
(* exits 0 only after its callback was answered 200.                       *)
THEOREM CompletedIsAnswered == Spec => []AnsweredWhenCompleted
<1>1. LifeInv => AnsweredWhenCompleted
  BY DEF LifeInv, TaskOK, Answered, AnsweredWhenCompleted, ClaimsOf
<1> QED
  BY <1>1, LifeAlways, PTL

(* Where Reconcile is about to clear the record of a sandbox, or to delete *)
(* the task that records it, Close has deleted the claim (StateFailed and  *)
(* StateCompleted), however old the copy of the task it works on is.       *)
THEOREM ClosesFirst == Spec => []ClosedFirst
<1>1. Inv /\ LifeInv => ClosedFirst
  <2> SUFFICES ASSUME Inv, LifeInv PROVE ClosedFirst
    OBVIOUS
  <2>1. loop.pc = "delete" => loop.snap.state = "Completed"
    BY DEF Inv, LoopOK, LoopHolds
  <2> QED
    BY <2>1 DEF LifeInv, TurnOK, ClosedFirst
<1> QED
  BY <1>1, LifeAlways, PTL

(* A record of a sandbox is dropped only when its claim is deleted,        *)
(* whatever call of Reconcile fails in between: otherwise nothing would    *)
(* know the sandbox any more.                                              *)
Releases(t) ==
  task[t].claim # NoClaim /\ task'[t].claim # task[t].claim => claim[task[t].claim] = "Deleted"

THEOREM RecordsReleased == Spec => RecordedClaimReleased
<1>1. ASSUME Inv, LifeInv, Next, NEW t \in Tasks PROVE Releases(t)
  <2>1. TaskStep(t) /\ TaskOK(t) /\ TurnOK
    BY <1>1, TaskSteps DEF LifeInv
  <2>2. loop.pc = "delete" => loop.snap.state = "Completed"
    BY <1>1 DEF Inv, LoopOK, LoopHolds
  <2> QED
    BY <2>1, <2>2 DEF TaskStep, Created, WrittenByLoop, Keeps, RemovedByLoop, RanBySub,
       Changes, CompletedByCallback, TaskOK, Records, TurnOK, Releases
<1>2. Inv /\ LifeInv /\ [Next]_vars => [\A t \in Tasks : Releases(t)]_vars
  BY <1>1
<1>3. [\A t \in Tasks : Releases(t)]_vars =>
        [\A t \in Tasks :
           task[t].claim # NoClaim /\ task'[t].claim # task[t].claim
             => claim[task[t].claim] = "Deleted"]_vars
  BY DEF Releases
<1> QED
  BY <1>2, <1>3, LifeAlways, PTL DEF Spec, RecordedClaimReleased

(* A callback that completes a Running task is of the attempt the task     *)
(* runs in: neither the token of an earlier attempt nor a copy read before *)
(* a retry gets past VerifyToken and the update (handleCallback).          *)
Completes(c, i) ==
  cb[c][i].pc = "complete" /\ cb'[c][i].pc = "ok" =>
    (task[owner[c]].state = "Running" => task[owner[c]].claim = c)

THEOREM AttemptCompletes == Spec => CompletedByItsAttempt
<1>1. ASSUME Inv, LifeInv, Next, NEW c \in Claims, NEW i \in 1 .. MaxTries
      PROVE  Completes(c, i)
  <2>1. CallbackStep(c, i) /\ HandlerOK(c, i)
    BY <1>1, AttemptSteps DEF Inv, LifeInv
  <2>2. cb[c][i].pc = "complete" => Coherent(owner[c], cb[c][i].snap)
    BY <1>1 DEF Inv, CallbackOK, CallbackHolds
  <2>3. ASSUME cb[c][i].pc = "complete", cb'[c][i].pc = "ok"
        PROVE  task[owner[c]] = cb[c][i].snap
    BY <2>1, <2>2, <2>3 DEF CallbackStep, Sent, Passes, Coherent
  <2> QED
    BY <2>1, <2>3 DEF HandlerOK, Completes
<1>2. Inv /\ LifeInv /\ [Next]_vars =>
        [\A c \in Claims, i \in 1 .. MaxTries : Completes(c, i)]_vars
  BY <1>1
<1>3. [\A c \in Claims, i \in 1 .. MaxTries : Completes(c, i)]_vars =>
        [\A c \in Claims, i \in 1 .. MaxTries :
           cb[c][i].pc = "complete" /\ cb'[c][i].pc = "ok" =>
             (task[owner[c]].state = "Running" => task[owner[c]].claim = c)]_vars
  BY DEF Completes
<1> QED
  BY <1>2, <1>3, LifeAlways, PTL DEF Spec, CompletedByItsAttempt

-----------------------------------------------------------------------------
(* The refinement of TaskLifecycle                                         *)

(* A step that changes the phase of one task alone is a move of it.        *)
LEMMA MoveSeen ==
  ASSUME NEW t \in Tasks, \A u \in Tasks : u # t => task'[u] = task[u], UNCHANGED claim,
         Keeps(t), NEW from, task[t].state \in from, NEW to, task'[t].state = to
  PROVE  Lifecycle!Move(t, from, to)
BY DEF Lifecycle!Move, Keeps

(* What a step of one task shows.                                          *)
LEMMA TaskSeen ==
  ASSUME Inv, LifeInv, Next, NEW t \in Tasks, UNCHANGED claim,
         \A u \in Tasks : u # t => task'[u] = task[u]
  PROVE  Lifecycle!Next \/ UNCHANGED Lifecycle!lifecycleVars
<1>0. TaskStep(t) /\ TaskOK(t) /\ GoroutineOK(t) /\ TurnOK
  BY TaskSteps DEF LifeInv
<1>1. Keeps(t) /\ task'[t].state = task[t].state => UNCHANGED Lifecycle!lifecycleVars
  BY DEF Lifecycle!lifecycleVars, Keeps
<1>2. CASE Created(t)
  <2>1. task[t].state = "Absent" /\ Keeps(t) /\ task'[t].state \in {"", "Pending"}
    BY <1>0, <1>2 DEF Created, Keeps, TaskOK, Records
  <2>2. Lifecycle!Move(t, {"Absent"}, "") \/ Lifecycle!Move(t, {"Absent"}, "Pending")
    BY <2>1, MoveSeen
  <2>3. Lifecycle!Create(t)
    BY <2>1, <2>2 DEF Lifecycle!Create
  <2> QED
    BY <2>3 DEF Lifecycle!Next
<1>3. CASE WrittenByLoop(t)
  <2>1. CASE Changes(t, "", "Pending") /\ Keeps(t)
    <3>1. Lifecycle!Initialise(t)
      BY <2>1, MoveSeen DEF Lifecycle!Initialise, Changes
    <3> QED
      BY <3>1 DEF Lifecycle!Next
  <2>2. CASE Changes(t, "Pending", "Started") /\ Keeps(t) /\ t \in Valid
    <3>1. Lifecycle!Validate(t)
      BY <2>2, MoveSeen DEF Lifecycle!Validate, Changes
    <3> QED
      BY <3>1 DEF Lifecycle!Next
  <2>3. CASE Changes(t, "Running", "Failed") /\ Keeps(t)
    <3>1. Lifecycle!Fail(t)
      BY <2>3, MoveSeen DEF Lifecycle!Fail, Changes
    <3> QED
      BY <3>1 DEF Lifecycle!Next
  <2>4. CASE Changes(t, "Running", "Completed") /\ Keeps(t)
    <3>1. Lifecycle!Complete(t)
      BY <2>4, MoveSeen DEF Lifecycle!Complete, Changes
    <3> QED
      BY <3>1 DEF Lifecycle!Next
  <2>5. CASE /\ loop.pc = "release" /\ Changes(t, "Failed", "Failed")
             /\ task'[t].claim = NoClaim /\ task'[t].retries = task[t].retries
    <3>1. claim[task[t].claim] = "Deleted"
      BY <1>0, <1>3, <2>5 DEF WrittenByLoop, TurnOK
    <3>2. Lifecycle!Release(t)
      BY <2>5, <3>1 DEF Lifecycle!Release, Lifecycle!Closed, Changes
    <3> QED
      BY <3>2 DEF Lifecycle!Next
  <2>6. CASE /\ loop.pc = "retry" /\ Changes(t, "Failed", "Started")
             /\ task[t].retries < MaxRetries /\ task'[t].retries = task[t].retries + 1
             /\ task'[t].claim = task[t].claim
    <3>1. task[t].claim = NoClaim
      BY <1>0, <1>3, <2>6 DEF WrittenByLoop, TurnOK
    <3>2. Lifecycle!Retry(t)
      BY <2>6, <3>1 DEF Lifecycle!Retry, Changes
    <3> QED
      BY <3>2 DEF Lifecycle!Next
  <2> QED
    BY <1>3, <2>1, <2>2, <2>3, <2>4, <2>5, <2>6 DEF WrittenByLoop
<1>4. CASE RemovedByLoop(t)
  <2>1. /\ task[t].state \in {"Completed", "Deleted"}
        /\ task[t].claim = NoClaim \/ claim[task[t].claim] = "Deleted"
    BY <1>0, <1>4 DEF RemovedByLoop, TurnOK, Inv, LoopOK, LoopHolds
  <2>2. CASE task[t].state = "Deleted"
    BY <1>0, <1>1, <1>4, <2>2 DEF TaskOK, Records, RemovedByLoop, Keeps
  <2>3. CASE task[t].state = "Completed"
    <3>1. Lifecycle!Delete(t)
      BY <1>4, <2>1, <2>3 DEF Lifecycle!Delete, Lifecycle!Closed, RemovedByLoop
    <3> QED
      BY <3>1 DEF Lifecycle!Next
  <2> QED
    BY <2>1, <2>2, <2>3
<1>5. CASE RanBySub(t)
  <2>1. PICK c \in Claims : c = sub[t].claim /\ owner[c] = t /\ claim[c] = "Live"
    BY <1>0, <1>5, OneHolder DEF RanBySub, GoroutineOK, HasClaim
  <2>2. \A u \in Tasks : task[u].claim # c
    <3>1. ASSUME NEW u \in Tasks, task[u].claim = c PROVE FALSE
      <4>1. owner[c] = u /\ c # sub[u].claim
        BY <3>1, ClusterAssumption DEF LifeInv, TaskOK, Records
      <4> QED
        BY <2>1, <4>1
    <3> QED
      BY <3>1
  <2>3. Lifecycle!Run(t, c)
    BY <1>5, <2>1, <2>2 DEF Lifecycle!Run, RanBySub, Changes
  <2> QED
    BY <2>3 DEF Lifecycle!Next
<1>6. CASE CompletedByCallback(t)
  <2>1. /\ task[t].state \in Begun /\ task[t].state # "Deleted"
        /\ Keeps(t) /\ task'[t].state = "Completed"
    BY <1>6 DEF CompletedByCallback, LifeInv, AttemptOK, AgentTaskState
  <2>2. CASE task[t].state = "Completed"
    BY <1>1, <2>1, <2>2
  <2>3. CASE task[t].state # "Completed"
    <3>1. Lifecycle!Complete(t)
      BY <2>1, <2>3, MoveSeen DEF Lifecycle!Complete, Begun
    <3> QED
      BY <3>1 DEF Lifecycle!Next
  <2> QED
    BY <2>2, <2>3
<1>7. CASE task'[t] = task[t]
  BY <1>1, <1>7 DEF Keeps
<1> QED
  BY <1>0, <1>2, <1>3, <1>4, <1>5, <1>6, <1>7 DEF TaskStep

(* What a step of one claim shows.                                         *)
LEMMA ClaimSeen ==
  ASSUME Inv, LifeInv, Next, NEW c \in Claims, UNCHANGED task,
         \A d \in Claims : d # c => claim'[d] = claim[d]
  PROVE  Lifecycle!Next \/ UNCHANGED Lifecycle!lifecycleVars
<1>0. /\ claim \in [Claims -> ClaimState] /\ claim' \in [Claims -> ClaimState]
      /\ ClaimStep(c) /\ ClaimOK(c)
  BY Shapes, InvNext, ClaimSteps DEF Inv, LifeInv, Typed, TypeOK, ClusterTypeOK
<1>1. claim'[c] = claim[c] => UNCHANGED Lifecycle!lifecycleVars
  BY <1>0 DEF Lifecycle!lifecycleVars
<1>2. CASE \E t \in Tasks : Opened(c, t)
  <2>1. claim[c] = "Unused" /\ claim'[c] = "Live"
    BY <1>2 DEF Opened
  <2>2. Lifecycle!Open(c)
    BY <1>0, <2>1 DEF Lifecycle!Open
  <2> QED
    BY <2>2 DEF Lifecycle!Next
<1>3. ASSUME claim[c] = "Live", claim'[c] = "Deleted",
             \A t \in Tasks : task[t].claim = c => task[t].state # "Running"
      PROVE  Lifecycle!Next
  <2>1. Lifecycle!Close(c)
    BY <1>0, <1>3 DEF Lifecycle!Close
  <2> QED
    BY <2>1 DEF Lifecycle!Next
<1>4. \A t \in Tasks : task[t].claim = c => owner[c] = t /\ c # sub[t].claim
  BY ClusterAssumption DEF LifeInv, TaskOK, Records
<1>5. ASSUME NEW t \in Tasks, DroppedBySub(c, t)
      PROVE  Lifecycle!Next
  <2>1. owner[c] = t /\ claim[c] = "Live" /\ claim'[c] = "Deleted"
    BY <1>5, OneHolder DEF DroppedBySub, HasClaim, LifeInv, GoroutineOK
  <2> QED
    BY <1>3, <1>4, <1>5, <2>1 DEF DroppedBySub
<1>6. CASE ClosedByLoop(c)
  <2>1. /\ LoopHolds(loop.t) /\ loop.t \in Tasks /\ loop.snap.claim = c
        /\ loop.snap.state \in {"Failed", "Completed"} /\ loop.pc = "dispatch"
        /\ claim'[c] = "Deleted"
    BY <1>6 DEF ClosedByLoop, LoopHolds, Inv, Typed, NamesResolve
  <2>2. owner[c] = loop.t /\ claim[c] # "Unused"
    BY <1>0, <2>1, ClusterAssumption DEF LifeInv, TurnOK, Records, ClaimOK
  <2>3. task[loop.t].claim = c => task[loop.t].state # "Running"
    BY <2>1 DEF LifeInv, TurnOK
  <2> QED
    BY <1>0, <1>1, <1>3, <1>4, <2>1, <2>2, <2>3 DEF ClaimState
<1> QED
  BY <1>0, <1>1, <1>2, <1>5, <1>6 DEF ClaimStep

(* The orchestrator, the listener and the runners, with stale copies, lost *)
(* calls and restarts, implement TaskLifecycle, the phases of CONTEXT.md:  *)
(* every step is one of its moves or changes nothing one can see.          *)
THEOREM SystemIsLifecycle == Spec => ImplementsLifecycle
<1>1. Init => Lifecycle!Init
  BY DEF Init, ClusterInit, NoAgentTask, Lifecycle!Init
<1>2. ASSUME Inv, LifeInv, [Next]_vars
      PROVE  Lifecycle!Next \/ UNCHANGED Lifecycle!lifecycleVars
  <2>1. CASE Next
    <3>1. OneTaskStep /\ OneClaimStep
      BY <1>2, <2>1, TaskSteps, ClaimSteps DEF Inv
    <3>2. UNCHANGED <<task, claim>> => UNCHANGED Lifecycle!lifecycleVars
      BY DEF Lifecycle!lifecycleVars
    <3>3. CASE UNCHANGED claim
      BY <1>2, <2>1, <3>1, <3>2, <3>3, TaskSeen DEF OneTaskStep
    <3>4. CASE ~UNCHANGED claim
      BY <1>2, <2>1, <3>1, <3>4, ClaimSeen DEF OneClaimStep
    <3> QED
      BY <3>3, <3>4
  <2>2. CASE UNCHANGED vars
    BY <2>2 DEF vars, clusterVars, Lifecycle!lifecycleVars
  <2> QED
    BY <1>2, <2>1, <2>2
<1>3. Inv /\ LifeInv /\ [Next]_vars => [Lifecycle!Next]_(Lifecycle!lifecycleVars)
  BY <1>2
<1> QED
  BY <1>1, <1>3, LifeAlways, PTL DEF Spec, ImplementsLifecycle, Lifecycle!Spec
-----------------------------------------------------------------------------
(* Without failures                                                        *)

(* Failures and restarts are only ever added up.                           *)
LEMMA CountersGrow ==
  ASSUME Typed, Next
  PROVE  /\ faults' \in {faults, faults + 1} /\ crashes' \in {crashes, crashes + 1}
         /\ faults' = 0 => faults = 0 /\ faults' # faults + 1
         /\ crashes' = 0 => crashes = 0 /\ crashes' # crashes + 1
<1>1. faults' \in {faults, faults + 1}
  <2>1. \A t \in Tasks, obj \in AgentTask, ok \in BOOLEAN :
          UpdateTask(t, obj, ok) => faults' \in {faults, faults + 1}
    BY DEF UpdateTask, Fault, NoFault
  <2>2. CASE \E c \in Claims, i \in 1 .. MaxTries : Handle(c, i)
    BY <2>2 DEF Handle, Callback, CallbackGet, CallbackVerify, CallbackConsume,
       CallbackComment, CallbackComplete, CallFails, UpdateTask, Fault, NoFault
  <2>3. CASE Watch
    BY <2>3 DEF Watch, HandleTaskEvent, HandlePodEvent, Fault, NoFault
  <2>4. CASE Reconcile
    <3>1. ASSUME NEW obj, NEW next, WriteAndReturn(obj) \/ Write(obj, next)
          PROVE  faults' \in {faults, faults + 1}
      BY <3>1 DEF WriteAndReturn, Write, UpdateTask, Fault, NoFault
    <3>2. ASSUME NEW p, NEW q, CloseRecorded(p, q)
          PROVE  faults' \in {faults, faults + 1}
      BY <3>2 DEF CloseRecorded, DeleteClaim, Fault, NoFault
    <3> QED
      BY <2>4, <3>1, <3>2 DEF Reconcile, ReconcileGet, ReconcileInit, ReconcilePending,
         ReconcileInvalid, ReconcileStarted, ReconcileRunning, ReconcilePodFailed,
         ReconcilePodSucceeded, ReconcileCompleted, ReconcileDelete, ReconcileFailed,
         ReconcileRelease, ReconcileRetry, ReconcileExhausted, Fault, NoFault, clusterVars
  <2>5. CASE \E t \in Tasks : Submission(t)
    BY <2>5 DEF Submission, SubGet, SubCreate, SubAwait, SubTokens, SubClose, SubSubmit,
       SubUpdate, SubReturn, GenerateTokens, DeleteClaim, TaskHandler, UpdateTask, Fault,
       NoFault, clusterVars
  <2>6. CASE Disturb
    BY <2>6 DEF Disturb, LosePod, RunnerLosesCall, LoseToken, ListenerRestart,
       OrchestratorRestart, Fault
  <2> QED
    BY <2>2, <2>3, <2>4, <2>5, <2>6, Frames DEF Next
<1>2. crashes' \in {crashes, crashes + 1}
  <2>1. CASE Disturb
    BY <2>1 DEF Disturb, LosePod, RunnerLosesCall, LoseToken, ListenerRestart,
       OrchestratorRestart
  <2> QED
    BY <2>1, Frames DEF Next
<1>3. faults \in Nat /\ crashes \in Nat
  BY Shapes
<1> QED
  BY <1>1, <1>2, <1>3

(* While no connection was lost, only the request the runner waits on is   *)
(* in progress, and a token is gone before its attempt comments.           *)
OneOK(c) ==
  /\ comments[c] <= 1
  /\ comments[c] > 0 => tokens[owner[c]] # c
  /\ \A i \in 1 .. MaxTries :
       /\ i # tries[c] => ~InProgress(c, i)
       /\ cb[c][i].pc = "consume" => comments[c] = 0
       /\ cb[c][i].pc = "comment" => comments[c] = 0 /\ tokens[owner[c]] # c

OneInv == faults = 0 => \A c \in Claims : OneOK(c)

LEMMA OneNext ==
  ASSUME Inv, LifeInv, Next, faults' = 0, NEW c \in Claims, OneOK(c)
  PROVE  OneOK(c)'
<1>0. /\ Typed /\ TriesStep(c) /\ CommentStep(c) /\ ClaimOK(c)
      /\ \A i \in 1 .. MaxTries : CallbackStep(c, i)
      /\ faults' # faults + 1
      /\ comments \in [Claims -> Nat] /\ tries \in [Claims -> 0 .. MaxTries]
  BY AttemptSteps, CountersGrow, Shapes DEF Inv, LifeInv
<1>1. ASSUME NEW i \in 1 .. MaxTries, i # tries'[c] PROVE ~InProgress(c, i)'
  <2>1. CASE tries'[c] = tries[c]
    BY <1>0, <1>1, <2>1 DEF OneOK, CallbackStep, Sent, Passes, InProgress
  <2>2. CASE \E j \in 1 .. MaxTries : Sent(c, j)
    <3>1. tries'[c] = tries[c] + 1 /\ (tries[c] = 0 \/ cb[c][tries[c]].pc = "error")
      BY <1>0, <2>2 DEF Sent
    <3>2. ~InProgress(c, i) /\ ~Sent(c, i)
      BY <1>0, <1>1, <3>1 DEF OneOK, InProgress, Sent
    <3> QED
      BY <1>0, <3>2 DEF CallbackStep, Passes, InProgress
  <2> QED
    BY <1>0, <2>1, <2>2 DEF TriesStep
\* The token of an attempt that was reported on does not come back.
<1>2. ASSUME ~Fresh(c)
      PROVE  /\ owner'[c] = owner[c]
             /\ tokens[owner[c]] # c => tokens'[owner'[c]] # c
  <2>1. owner[c] \in Tasks
    BY <1>0, <1>2 DEF ClaimOK
  <2> QED
    BY <1>2, <2>1, ClaimsKept, TokensKept
<1>3. /\ comments[c] > 0 => ~Fresh(c)
      /\ \A i \in 1 .. MaxTries : cb[c][i].pc # "none" => ~Fresh(c)
  BY <1>0 DEF Fresh
<1>4. CASE comments'[c] = comments[c]
  <2>1. comments'[c] > 0 => tokens'[owner'[c]] # c
    BY <1>2, <1>3, <1>4 DEF OneOK
  <2>2. ASSUME NEW i \in 1 .. MaxTries
        PROVE  /\ cb'[c][i].pc = "consume" => comments'[c] = 0
               /\ cb'[c][i].pc = "comment" => comments'[c] = 0 /\ tokens'[owner'[c]] # c
    <3>1. CASE cb'[c][i] = cb[c][i]
      BY <1>2, <1>3, <1>4, <3>1 DEF OneOK
    <3>2. CASE Passes(c, i, "verify", "consume") /\ tokens[owner[c]] = c
      BY <1>0, <1>4, <3>2 DEF OneOK, Passes
    <3>3. CASE Passes(c, i, "consume", "comment") /\ tokens'[owner[c]] = NoClaim
      BY <1>2, <1>3, <1>4, <3>3, ClusterAssumption DEF OneOK, Passes
    <3> QED
      BY <1>0, <3>1, <3>2, <3>3 DEF CallbackStep, Sent, Passes
  <2> QED
    BY <1>1, <1>4, <2>1, <2>2 DEF OneOK
<1>5. CASE /\ comments'[c] = comments[c] + 1 /\ UNCHANGED tries
           /\ \E j \in 1 .. MaxTries : Passes(c, j, "comment", "complete")
  <2>1. PICK j \in 1 .. MaxTries : Passes(c, j, "comment", "complete")
    BY <1>5
  <2>2. comments'[c] = 1 /\ tokens'[owner'[c]] # c /\ j = tries'[c]
    BY <1>0, <1>2, <1>3, <1>5, <2>1 DEF OneOK, Passes, InProgress
  <2>3. \A i \in 1 .. MaxTries : cb'[c][i].pc \notin {"consume", "comment"}
    BY <1>1, <2>1, <2>2 DEF Passes, InProgress
  <2> QED
    BY <1>1, <2>2, <2>3 DEF OneOK
<1> QED
  BY <1>0, <1>4, <1>5 DEF CommentStep

(* Without lost connections an attempt comments at most once, however many *)
(* of its callbacks are repeated and whatever the listener was doing when  *)
(* it restarted: handleCallback deletes the token before it comments.      *)
THEOREM CommentsOnce == Spec => [](faults = 0 => OneCommentPerAttempt)
<1>1. Init => OneInv
  BY DEF Init, ListenerInit, ClusterInit, NoCallback, OneInv, OneOK, InProgress
<1>2. Inv /\ LifeInv /\ OneInv /\ [Next]_vars => OneInv'
  <2> SUFFICES ASSUME Inv, LifeInv, OneInv, [Next]_vars, faults' = 0, NEW c \in Claims
               PROVE  OneOK(c)'
    BY DEF OneInv
  <2>1. CASE Next
    BY <2>1, OneNext, CountersGrow DEF Inv, OneInv
  <2>2. CASE UNCHANGED vars
    BY <2>2 DEF vars, clusterVars, listenerVars, OneInv, OneOK, InProgress
  <2> QED
    BY <2>1, <2>2
<1>3. OneInv => (faults = 0 => OneCommentPerAttempt)
  BY DEF OneInv, OneOK, OneCommentPerAttempt
<1> QED
  BY <1>1, <1>2, <1>3, LifeAlways, PTL DEF Spec

(* Without a failure or a restart, a goroutine lets go of a live sandbox   *)
(* only by the update that records it.                                     *)
HeldOK(t) ==
  /\ sub[t].pc \in {"tokens", "submit"} => pod[sub[t].claim] = "Ready"
  /\ task[t].state \in {"Started", "Running", "Failed"} =>
       \A c \in Claims : owner[c] = t /\ claim[c] = "Live" => c \in {task[t].claim, sub[t].claim}

HeldInv == crashes = 0 /\ faults = 0 => \A t \in Tasks : HeldOK(t)

LEMMA HeldNext ==
  ASSUME Valid \subseteq Accepted, Inv, LifeInv, Next, crashes' = 0, faults' = 0,
         NEW t \in Tasks, HeldOK(t)
  PROVE  HeldOK(t)'
<1>0. /\ Typed /\ SubStep(t) /\ TaskStep(t) /\ GoroutineOK(t) /\ TaskOK(t) /\ TurnOK
      /\ faults' # faults + 1 /\ crashes' # crashes + 1
  BY SubSteps, TaskSteps, CountersGrow DEF Inv, LifeInv
<1>1. ASSUME sub'[t].pc \in {"tokens", "submit"} PROVE pod'[sub'[t].claim] = "Ready"
  <2>1. CASE Advances(t)
    BY <1>0, <1>1, <2>1 DEF Advances, HeldOK
  <2>2. CASE sub'[t] = sub[t]
    <3>1. PICK c \in Claims : c = sub[t].claim
      BY <1>1, <2>2, OneHolder DEF HasClaim
    <3>2. pod[c] = "Ready" /\ claim[c] = "Live"
      BY <1>0, <1>1, <2>2, <3>1 DEF HeldOK, GoroutineOK, HasClaim
    <3>3. ASSUME NEW u \in Tasks, Submitted(c, u) PROVE FALSE
      <4>1. u = t
        BY <1>1, <2>2, <3>1, <3>3, OneHolder DEF Submitted, HasClaim
      <4> QED
        BY <1>1, <2>2, <3>3, <4>1 DEF Submitted
    <3>4. PodStep(c)
      BY <1>0, PodSteps
    <3> QED
      BY <1>0, <2>2, <3>1, <3>2, <3>3, <3>4 DEF PodStep, Ended
  <2> QED
    BY <1>0, <1>1, <2>1, <2>2 DEF SubStep, Rests, Takes, Opens
<1>2. ASSUME task'[t].state \in {"Started", "Running", "Failed"},
             NEW c \in Claims, owner'[c] = t, claim'[c] = "Live"
      PROVE  c \in {task'[t].claim, sub'[t].claim}
  <2>0. ClaimStep(c) /\ ClaimOK(c) /\ AttemptOK(c) /\ c # NoClaim
    BY <1>0, ClaimSteps, ClusterAssumption DEF LifeInv
  <2>1. CASE Opened(c, t)
    <3>1. sub'[t].pc = "await" /\ sub'[t].claim = c
      BY <1>0, <2>1 DEF Opened
    <3> QED
      BY <3>1
  <2>2. CASE ~Opened(c, t)
    <3>1. owner[c] = t /\ claim[c] = "Live"
      BY <1>2, <2>0, <2>2 DEF ClaimStep, Opened, DroppedBySub, ClosedByLoop
    <3>2. task[t].state \in {"Started", "Running", "Failed"}
      BY <1>0, <1>2, <2>0, <3>1 DEF AttemptOK, Begun, TaskStep, Created, WrittenByLoop,
         Changes, RemovedByLoop, RanBySub, CompletedByCallback
    <3>3. CASE c = task[t].claim
      <4>1. task[t].state # "Started"
        BY <1>0, <2>0, <3>3 DEF TaskOK, Records
      <4>2. ~(WrittenByLoop(t) /\ loop.pc = "release")
        <5>1. claim[c] = "Deleted" => FALSE
          BY <3>1
        <5> QED
          BY <1>0, <3>3, <5>1 DEF WrittenByLoop, TurnOK
      <4>3. task'[t].claim = c
        BY <1>0, <1>2, <3>2, <3>3, <4>1, <4>2 DEF TaskStep, Created, WrittenByLoop, Changes,
           Keeps, RemovedByLoop, RanBySub, CompletedByCallback
      <4> QED
        BY <4>3
    <3>4. CASE c = sub[t].claim
      <4>1. sub[t].pc \in HasClaim /\ t \in activeTasks
        BY <1>0, <2>0, <3>4 DEF GoroutineOK, HasClaim
      <4>2. CASE Rests(t)
        <5>1. LetGo(t)
          BY <4>2 DEF Rests
        <5>2. sub[t].pc = "submit" => pod[sub[t].claim] = "Ready" /\ t \in Accepted
          BY <1>0, <3>2 DEF HeldOK, TaskOK, Begun
        <5>3. sub[t].pc = "update" => task[t].rv = sub[t].snap.rv
          BY <1>0, <3>2 DEF GoroutineOK, SubHolds
        <5>4. sub[t].pc = "close" => claim'[sub[t].claim] # "Deleted"
          BY <1>2, <3>4
        <5> QED
          BY <1>0, <3>4, <4>1, <5>1, <5>2, <5>3, <5>4 DEF LetGo
      <4>3. ~Takes(t) /\ ~Opens(t)
        BY <4>1 DEF Takes, Opens, HasClaim
      <4> QED
        BY <1>0, <3>4, <4>2, <4>3 DEF SubStep, Advances
    <3> QED
      BY <3>1, <3>2, <3>3, <3>4 DEF HeldOK
  <2> QED
    BY <2>1, <2>2
<1> QED
  BY <1>1, <1>2 DEF HeldOK

(* Where every task that passes validateTask also passes the checks of the *)
(* sandbox server, retries and conflicting updates alone never lose a live *)
(* sandbox: until its task completes it is recorded in the status or held  *)
(* by the task's goroutine (trySubmitToSandbox, runSandboxSubmission).     *)
THEOREM SandboxesHeld ==
  ASSUME Valid \subseteq Accepted
  PROVE  Spec => []NoForgottenSandbox
<1>1. Init => HeldInv
  BY DEF Init, ClusterInit, OrchestratorInit, NoSubmission, NoAgentTask, HeldInv, HeldOK
<1>2. Inv /\ LifeInv /\ HeldInv /\ [Next]_vars => HeldInv'
  <2> SUFFICES ASSUME Inv, LifeInv, HeldInv, [Next]_vars, crashes' = 0, faults' = 0,
                      NEW t \in Tasks
               PROVE  HeldOK(t)'
    BY DEF HeldInv
  <2>1. CASE Next
    BY <2>1, HeldNext, CountersGrow DEF Inv, HeldInv
  <2>2. CASE UNCHANGED vars
    BY <2>2 DEF vars, clusterVars, orchestratorVars, HeldInv, HeldOK
  <2> QED
    BY <2>1, <2>2
<1>3. HeldInv => NoForgottenSandbox
  BY DEF HeldInv, HeldOK, NoForgottenSandbox, ClaimsOf
<1> QED
  BY <1>1, <1>2, <1>3, LifeAlways, PTL DEF Spec
-----------------------------------------------------------------------------
(* Nothing is missed                                                       *)

(* Notifications are taken only by the loop, which then has the task they  *)
(* name, or by a restart, after which every object is listed.              *)
EventStep(t) ==
  \/ events'[t] >= events[t]
  \/ loop.pc = "idle" /\ loop'.t = t
  \/ OrchestratorRestart

PodEventStep(c) ==
  \/ podEvents'[c] >= podEvents[c]
  \/ HandlePodEvent(c)
  \/ OrchestratorRestart

(* Whoever writes a task leaves a notification, except for its removal.    *)
NotedStep(t) ==
  task'[t] = task[t] \/ events'[t] > 0 \/ (task'[t].state = "Deleted" /\ loop' = IdleLoop)

LEMMA UpdateNotes ==
  ASSUME Typed, NEW u \in Tasks, NEW obj, NEW ok \in BOOLEAN, UpdateTask(u, obj, ok),
         NEW t \in Tasks
  PROVE  events'[t] >= events[t] /\ NotedStep(t)
<1>0. task \in [Tasks -> AgentTask] /\ events \in [Tasks -> Nat]
  BY Shapes
<1>1. CASE UNCHANGED <<task, events>>
  BY <1>0, <1>1 DEF NotedStep
<1>2. CASE Store(u, obj)
  <2> DEFINE stored == [obj EXCEPT !.rv = @ + 1]
  <2>1. /\ task' = [task EXCEPT ![u] = stored]
        /\ events' = [events EXCEPT ![u] = @ + 1]
    BY <1>2 DEF Store
  <2> HIDE DEF stored
  <2> QED
    BY <1>0, <2>1 DEF NotedStep
<1> QED
  BY <1>1, <1>2 DEF UpdateTask

LEMMA NoteSteps ==
  ASSUME Inv, Next, NEW t \in Tasks
  PROVE  EventStep(t) /\ NotedStep(t)
<1>0. task \in [Tasks -> AgentTask] /\ events \in [Tasks -> Nat] /\ Typed
  BY Shapes DEF Inv
<1>1. UNCHANGED <<task, events>> => EventStep(t) /\ NotedStep(t)
  BY <1>0 DEF EventStep, NotedStep
<1>2. ASSUME NEW u \in Tasks, NEW obj, NEW ok \in BOOLEAN, UpdateTask(u, obj, ok)
      PROVE  EventStep(t) /\ NotedStep(t)
  BY <1>0, <1>2, UpdateNotes DEF EventStep
<1>3. CASE Create
  <2>1. \E u \in Tasks : \E new : /\ task' = [task EXCEPT ![u] = new]
                                 /\ events' = [events EXCEPT ![u] = @ + 1]
    BY <1>3 DEF Create, CreateTask
  <2>2. PICK u \in Tasks : \E new : /\ task' = [task EXCEPT ![u] = new]
                                    /\ events' = [events EXCEPT ![u] = @ + 1]
    BY <2>1
  <2> QED
    BY <1>0, <2>2 DEF EventStep, NotedStep
<1>4. ASSUME NEW c \in Claims, NEW i \in 1 .. MaxTries, Handle(c, i)
      PROVE  EventStep(t) /\ NotedStep(t)
  <2>1. InProgress(c, i) => owner[c] \in Tasks
    BY <1>0 DEF Typed, NamesResolve, InProgress
  <2>2. CallbackComplete(c, i) \/ UNCHANGED <<task, events>>
    BY <1>4 DEF Handle, Callback, CallbackGet, CallbackVerify, CallbackConsume, CallbackComment
  <2>3. CallbackComplete(c, i) =>
          \/ UNCHANGED <<task, events>>
          \/ owner[c] \in Tasks /\ \E obj : \E ok \in BOOLEAN : UpdateTask(owner[c], obj, ok)
    BY <2>1 DEF CallbackComplete, InProgress
  <2> QED
    BY <1>1, <1>2, <2>2, <2>3
<1>5. CASE Watch
  <2>1. ASSUME NEW u \in Tasks, HandleTaskEvent(u) PROVE EventStep(t) /\ NotedStep(t)
    <3>1. loop.pc = "idle" /\ loop'.t = u /\ UNCHANGED task
          /\ (u # t => events'[t] = events[t])
      BY <1>0, <2>1 DEF HandleTaskEvent, IdleLoop
    <3> QED
      BY <1>0, <3>1 DEF EventStep, NotedStep
  <2> QED
    BY <1>1, <1>5, <2>1 DEF Watch, HandlePodEvent
<1>6. CASE Reconcile
  <2>1. CASE ReconcileDelete
    <3>1. UNCHANGED events /\ loop.t \in Tasks /\ loop' = IdleLoop
      BY <1>0, <2>1 DEF ReconcileDelete, Done, Typed, NamesResolve
    <3>2. Remove(loop.t) \/ UNCHANGED task
      BY <2>1 DEF ReconcileDelete
    <3>3. task'[t] = task[t] \/ task'[t].state = "Deleted"
      BY <1>0, <3>1, <3>2, Removal
    <3> QED
      BY <1>0, <3>1, <3>3 DEF EventStep, NotedStep
  <2>2. ASSUME NEW obj, NEW next, WriteAndReturn(obj) \/ Write(obj, next), loop.pc # "idle"
        PROVE  EventStep(t) /\ NotedStep(t)
    <3>1. loop.t \in Tasks
      BY <1>0, <2>2 DEF Typed, NamesResolve
    <3>2. \E ok \in BOOLEAN : UpdateTask(loop.t, obj, ok)
      BY <2>2 DEF WriteAndReturn, Write
    <3> QED
      BY <1>2, <3>1, <3>2
  <2>3. \/ ReconcileDelete \/ UNCHANGED <<task, events>>
        \/ loop.pc # "idle" /\ \E obj, next : WriteAndReturn(obj) \/ Write(obj, next)
    BY <1>6 DEF Reconcile, ReconcileGet, ReconcileInit, ReconcilePending,
       ReconcileInvalid, ReconcileStarted, ReconcileRunning, ReconcilePodFailed,
       ReconcilePodSucceeded, ReconcileCompleted, ReconcileFailed,
       ReconcileRelease, ReconcileRetry, ReconcileExhausted, CloseRecorded, Dispatch,
       clusterVars
  <2> QED
    BY <1>1, <2>1, <2>2, <2>3
<1>7. ASSUME NEW u \in Tasks, Submission(u) PROVE EventStep(t) /\ NotedStep(t)
  <2>1. \/ UNCHANGED <<task, events>>
        \/ \E obj : \E ok \in BOOLEAN : UpdateTask(u, obj, ok)
    BY <1>7 DEF Submission, SubGet, SubCreate, SubAwait, SubTokens, SubClose, SubSubmit,
       SubUpdate, SubReturn, clusterVars
  <2> QED
    BY <1>1, <1>2, <2>1
<1>8. CASE Disturb
  <2>1. CASE OrchestratorRestart
    BY <2>1 DEF EventStep, NotedStep, OrchestratorRestart
  <2>2. OrchestratorRestart \/ UNCHANGED <<task, events>>
    BY <1>8 DEF Disturb, LosePod, RunnerLosesCall, LoseToken, ListenerRestart
  <2> QED
    BY <1>1, <2>1, <2>2
<1> QED
  BY <1>1, <1>3, <1>4, <1>5, <1>6, <1>7, <1>8, Frames DEF Next

LEMMA PodNoteSteps ==
  ASSUME Inv, Next, NEW c \in Claims
  PROVE  PodEventStep(c)
<1>0. podEvents \in [Claims -> Nat]
  BY Shapes DEF Inv
<1>1. UNCHANGED podEvents => PodEventStep(c)
  BY <1>0 DEF PodEventStep
<1>2. ASSUME NEW d, NEW s, EndPod(d, s) PROVE PodEventStep(c)
  <2>1. podEvents' = [podEvents EXCEPT ![d] = @ + 1]
    BY <1>2 DEF EndPod
  <2> QED
    BY <1>0, <2>1 DEF PodEventStep
<1>3. ASSUME NEW d \in Claims, HandlePodEvent(d) PROVE PodEventStep(c)
  <2>1. d # c => podEvents'[c] = podEvents[c]
    BY <1>0, <1>3 DEF HandlePodEvent
  <2> QED
    BY <1>0, <1>3, <2>1 DEF PodEventStep
<1>4. CASE Watch
  BY <1>1, <1>3, <1>4 DEF Watch, HandleTaskEvent
<1>5. ASSUME NEW d \in Claims, Run(d) \/ RunnerLosesCall(d) \/ Provision(d) \/ LosePod(d)
      PROVE  PodEventStep(c)
  <2>1. UNCHANGED podEvents \/ \E s : EndPod(d, s)
    BY <1>5 DEF Run, Runner, RunnerFails, RunnerReports, RunnerHears, RunnerLosesCall,
       TryAgain, Provision, BindSandbox, RemovePod, LosePod, clusterVars
  <2> QED
    BY <1>1, <1>2, <2>1
<1>6. ASSUME NEW t \in Tasks, Submission(t) PROVE PodEventStep(c)
  <2>1. UNCHANGED podEvents \/ EndPod(sub[t].claim, "Failed")
    BY <1>6 DEF Submission, SubGet, SubCreate, SubAwait, SubTokens, SubClose, SubSubmit,
       TaskHandler, SubUpdate, SubReturn, clusterVars
  <2> QED
    BY <1>1, <1>2, <2>1
<1>7. CASE Disturb
  BY <1>1, <1>5, <1>7 DEF Disturb, LoseToken, ListenerRestart, PodEventStep
<1> QED
  BY <1>1, <1>4, <1>5, <1>6, <1>7, Frames DEF Next
(* How goroutines come and go: the loop starts one for a Started task, and *)
(* without a failure one exits only when the task is not Started any more. *)
Exits(t) ==
  \/ faults' = faults + 1
  \/ sub[t].pc = "get" /\ task[t].state # "Started" /\ UNCHANGED task
  \/ /\ sub[t].pc = "update"
     /\ \/ task'[t].state = "Running"
        \/ task[t].rv # sub[t].snap.rv /\ UNCHANGED task

ComesAndGoes(t) ==
  /\ t \in activeTasks' => sub'[t].pc # "none" \/ (t \in activeTasks /\ sub[t].pc = "none")
  /\ sub[t].pc = "none" /\ sub'[t].pc # "none" =>
       LoopHolds(t) /\ loop.snap.state = "Started" /\ sub'[t].pc = "get"
  /\ sub[t].pc # "exit" /\ sub'[t].pc = "exit" => Exits(t)
  /\ sub'[t].pc = "none" => sub[t].pc \in {"none", "exit"} \/ OrchestratorRestart

LEMMA SubmissionExits ==
  ASSUME Inv, NEW t \in Tasks, Submission(t)
  PROVE  ComesAndGoes(t)
<1>0. /\ sub \in [Tasks -> SubType] /\ task \in [Tasks -> AgentTask] /\ Typed
      /\ {"get", "create", "await", "tokens", "close", "submit", "update", "exit"}
           \subseteq SubPC
  BY Shapes DEF Inv, SubPC
<1>1. ASSUME NEW p \in SubPC, p \notin {"none", "exit"}, sub[t].pc # "none",
             sub'[t].pc = p
      PROVE  ComesAndGoes(t)
  BY <1>1 DEF ComesAndGoes
<1>2. SubAgain(t) /\ sub[t].pc # "none" => ComesAndGoes(t)
  BY <1>0, <1>1, SubRests
<1>3. ASSUME NEW p \in SubPC, p \notin {"none", "exit"}, sub[t].pc # "none", SubGoTo(t, p)
      PROVE  ComesAndGoes(t)
  BY <1>0, <1>1, <1>3, SubMoves
<1>4. ASSUME SubExit(t), sub[t].pc # "none", Exits(t) PROVE ComesAndGoes(t)
  BY <1>0, <1>4, SubRests DEF ComesAndGoes
<1>5. CASE SubGet(t)
  <2>1. ASSUME sub' = [sub EXCEPT ![t] = [NoSubmission EXCEPT !.pc = "create", !.snap = task[t]]]
        PROVE  ComesAndGoes(t)
    <3> DEFINE v == [NoSubmission EXCEPT !.pc = "create", !.snap = task[t]]
    <3>1. v.pc = "create"
      BY DEF NoSubmission
    <3>2. sub' = [sub EXCEPT ![t] = v]
      BY <2>1
    <3> HIDE DEF v
    <3>3. sub'[t].pc = "create" /\ sub[t].pc # "none"
      BY <1>0, <1>5, <3>1, <3>2 DEF SubGet
    <3> QED
      BY <1>0, <1>1, <3>3
  <2> QED
    BY <1>4, <1>5, <2>1 DEF SubGet, Exits, Fault
<1>6. CASE SubCreate(t)
  <2>1. ASSUME NEW c \in Claims, sub' = [sub EXCEPT ![t].pc = "await", ![t].claim = c]
        PROVE  ComesAndGoes(t)
    <3>1. sub'[t].pc = "await" /\ sub[t].pc # "none"
      BY <1>0, <1>6, <2>1 DEF SubType, SubCreate
    <3> QED
      BY <1>0, <1>1, <3>1
  <2> QED
    BY <1>2, <1>6, <2>1 DEF SubCreate
<1>7. CASE SubAwait(t)
  BY <1>0, <1>2, <1>3, <1>7 DEF SubAwait
<1>8. CASE SubTokens(t)
  BY <1>0, <1>3, <1>8 DEF SubTokens
<1>9. CASE SubClose(t)
  BY <1>2, <1>9 DEF SubClose
<1>10. CASE SubSubmit(t)
  BY <1>0, <1>2, <1>3, <1>10 DEF SubSubmit
<1>11. CASE SubUpdate(t)
  <2>1. SubExit(t) /\ sub[t].pc = "update" /\ sub[t] \in SubType
    BY <1>0, <1>11 DEF SubUpdate
  <2> DEFINE obj == [sub[t].snap EXCEPT !.state = "Running", !.claim = sub[t].claim]
  <2>2. obj.rv = sub[t].snap.rv /\ [obj EXCEPT !.rv = @ + 1].state = "Running"
    BY <2>1 DEF SubType, AgentTask
  <2>3. \E ok \in BOOLEAN : UpdateTask(t, obj, ok)
    BY <1>11 DEF SubUpdate
  <2> HIDE DEF obj
  <2>4. Exits(t)
    BY <1>0, <2>1, <2>2, <2>3 DEF UpdateTask, Store, Fault, Exits
  <2> QED
    BY <1>4, <2>1, <2>4
<1>12. CASE SubReturn(t)
  BY <1>0, <1>12 DEF SubReturn, NoSubmission, ComesAndGoes
<1> QED
  BY <1>5, <1>6, <1>7, <1>8, <1>9, <1>10, <1>11, <1>12 DEF Submission

LEMMA GoroutineSteps ==
  ASSUME Inv, Next, NEW t \in Tasks
  PROVE  ComesAndGoes(t)
<1>0. /\ sub \in [Tasks -> SubType] /\ Typed
      /\ loop.pc # "idle" => loop.t \in Tasks
  BY Shapes DEF Inv, Typed, NamesResolve
<1>1. UNCHANGED <<sub, activeTasks>> => ComesAndGoes(t)
  BY DEF ComesAndGoes
<1>2. ASSUME NEW u \in Tasks, Submission(u) PROVE ComesAndGoes(t)
  <2>1. CASE u = t
    BY <1>2, <2>1, SubmissionExits
  <2>2. CASE u # t
    <3>1. sub'[t] = sub[t]
      BY <1>2, <2>2, SubmissionSteps
    <3>2. activeTasks' \subseteq activeTasks
      BY <1>2 DEF Submission, SubGet, SubCreate, SubAwait, SubTokens, SubClose,
         SubSubmit, SubUpdate, SubReturn
    <3> QED
      BY <3>1, <3>2 DEF ComesAndGoes
  <2> QED
    BY <2>1, <2>2
<1>3. CASE Reconcile
  <2>1. CASE /\ ReconcileStarted
             /\ activeTasks' = activeTasks \union {loop.t}
             /\ SubAgain(loop.t)
    <3>1. loop.t \in Tasks /\ loop.pc = "dispatch" /\ loop.snap.state = "Started"
      BY <1>0, <2>1 DEF ReconcileStarted, Dispatch
    <3>2. /\ sub'[loop.t].pc = "get"
          /\ \A u \in Tasks : u # loop.t => sub'[u] = sub[u]
      BY <1>0, <2>1, <3>1, SubRests
    <3> QED
      BY <2>1, <3>1, <3>2 DEF ComesAndGoes, LoopHolds
  <2>2. ReconcileStarted =>
          \/ UNCHANGED <<sub, activeTasks>>
          \/ /\ ReconcileStarted
             /\ activeTasks' = activeTasks \union {loop.t}
             /\ SubAgain(loop.t)
    BY DEF ReconcileStarted, SubAgain
  <2>3. ReconcileStarted \/ UNCHANGED <<sub, activeTasks>>
    BY <1>3 DEF Reconcile, ReconcileGet, ReconcileInit, ReconcilePending, ReconcileInvalid,
       ReconcileRunning, ReconcilePodFailed, ReconcilePodSucceeded, ReconcileCompleted,
       ReconcileDelete, ReconcileFailed, ReconcileRelease, ReconcileRetry,
       ReconcileExhausted, CloseRecorded, Write, WriteAndReturn
  <2> QED
    BY <1>1, <2>1, <2>2, <2>3
<1>4. CASE Disturb
  <2>1. CASE OrchestratorRestart
    <3>1. sub'[t].pc = "none" /\ activeTasks' = {}
      BY <2>1 DEF OrchestratorRestart, NoSubmission
    <3> QED
      BY <2>1, <3>1 DEF ComesAndGoes
  <2>2. OrchestratorRestart \/ UNCHANGED <<sub, activeTasks>>
    BY <1>4 DEF Disturb, LosePod, RunnerLosesCall, LoseToken, ListenerRestart,
       orchestratorVars
  <2> QED
    BY <1>1, <2>1, <2>2
<1> QED
  BY <1>1, <1>2, <1>3, <1>4, Frames DEF Next

(* An entry of activeTasks has its goroutine, which works for a task past  *)
(* Pending; a goroutine that is about to remove its entry leaves behind a  *)
(* Started task only when a retry made it Started.                         *)
EntryOK(t) ==
  /\ t \in activeTasks => sub[t].pc # "none"
  /\ sub[t].pc # "none" => task[t].state \in Begun
  /\ sub[t].pc = "exit" => task[t].state # "Started" \/ task[t].retries > 0

CopyBegun ==
  LoopHolds(loop.t) /\ loop.snap.state \in Begun => task[loop.t].state \in Begun

(* A task the loop is not at and no notification names is at rest, or a    *)
(* goroutine submits it, or its pod still runs or the pod's end is still   *)
(* to be told, or a retry made it Started.                                 *)
Settled(t) ==
  /\ task[t].state \notin {"", "Completed"}
  /\ task[t].state = "Pending" => t \notin Valid
  /\ task[t].state = "Started" => Submitting(t) \/ task[t].retries > 0
  /\ task[t].state = "Running" => \/ pod[task[t].claim] = "Busy"
                                  \/ podEvents[task[t].claim] > 0
  /\ task[t].state = "Failed" => task[t].claim = NoClaim /\ task[t].retries = MaxRetries

MissedOK(t) == Unattended(t) => Settled(t)

(* When the task has changed since the loop read it, the loop will be told. *)
KnownOK == LoopHolds(loop.t) => task[loop.t] = loop.snap \/ events[loop.t] > 0

MissInv ==
  faults = 0 => /\ KnownOK /\ CopyBegun
                /\ \A t \in Tasks : MissedOK(t) /\ EntryOK(t)

LEMMA CopyBegunNext ==
  ASSUME Inv, LifeInv, CopyBegun, Next
  PROVE  CopyBegun'
<1> SUFFICES ASSUME loop'.pc \notin {"idle", "get"}, loop'.snap.state \in Begun
             PROVE  task'[loop'.t].state \in Begun
  BY DEF CopyBegun, LoopHolds
<1>0. Typed /\ LoopStep /\ loop' # IdleLoop
  BY LoopSteps DEF Inv, IdleLoop
<1>1. loop.pc # "idle" /\ loop'.t = loop.t
  BY <1>0 DEF LoopStep
<1>2. loop.t \in Tasks
  BY <1>0, <1>1 DEF Typed, NamesResolve
<1>3. task[loop.t].state \in Begun => task'[loop.t].state \in Begun
  BY <1>2, BegunKept
<1>4. CASE loop' = loop \/ Judges \/ Closes
  BY <1>1, <1>3, <1>4 DEF CopyBegun, LoopHolds, Judges, Closes
<1>5. CASE Reads \/ GoesOn
  BY <1>1, <1>5 DEF Reads, GoesOn
<1> QED
  BY <1>0, <1>1, <1>4, <1>5 DEF LoopStep

LEMMA EntryNext ==
  ASSUME Inv, LifeInv, CopyBegun, Next, faults' # faults + 1, NEW t \in Tasks, EntryOK(t)
  PROVE  EntryOK(t)'
<1>0. /\ ComesAndGoes(t) /\ TaskStep(t) /\ GoroutineOK(t)
      /\ task[t] \in AgentTask /\ Typed
      /\ SubHolds(t) => Coherent(t, sub[t].snap)
  BY GoroutineSteps, TaskSteps, Shapes DEF Inv, LifeInv, SubOK
<1>1. sub'[t].pc # "none" => task[t].state \in Begun
  BY <1>0 DEF ComesAndGoes, EntryOK, CopyBegun, LoopHolds, Begun
<1>2. task[t].state \in Begun => task'[t].state \in Begun
  BY BegunKept
<1>3. ASSUME sub'[t].pc = "exit", task'[t].state = "Started" PROVE task'[t].retries > 0
  <2>1. \/ task'[t] = task[t]
        \/ task'[t].retries = task[t].retries + 1
    BY <1>0, <1>1, <1>3 DEF TaskStep, Created, WrittenByLoop, RemovedByLoop, RanBySub,
       CompletedByCallback, Changes, Begun
  <2>2. CASE task'[t] # task[t]
    <3>1. task[t].retries \in Nat
      BY <1>0, ClusterAssumption DEF AgentTask
    <3> QED
      BY <2>1, <2>2, <3>1
  <2>3. CASE task'[t] = task[t] /\ sub[t].pc = "exit"
    BY <1>3, <2>3 DEF EntryOK
  <2>4. CASE task'[t] = task[t] /\ sub[t].pc # "exit"
    <3>1. Exits(t)
      BY <1>0, <1>3, <2>4 DEF ComesAndGoes
    <3>2. sub[t].pc = "update" /\ task[t].rv # sub[t].snap.rv
      BY <1>3, <2>4, <3>1 DEF Exits
    <3>3. task[t].state \in {"Completed", "Deleted"}
      BY <1>0, <3>2 DEF GoroutineOK, SubHolds
    <3> QED
      BY <1>3, <2>4, <3>3
  <2> QED
    BY <2>2, <2>3, <2>4
<1>4. t \in activeTasks' => sub'[t].pc # "none"
  BY <1>0 DEF ComesAndGoes, EntryOK
<1> QED
  BY <1>1, <1>2, <1>3, <1>4 DEF EntryOK

(* An update of the stored version leaves a notification.                  *)
LEMMA CurrentIsStored ==
  ASSUME Typed, NEW t \in Tasks, NEW obj, NEW ok \in BOOLEAN, UpdateTask(t, obj, ok),
         task[t].rv = obj.rv, faults' # faults + 1
  PROVE  events'[t] > 0
<1>1. Store(t, obj)
  BY DEF UpdateTask, Fault
<1>2. events' = [events EXCEPT ![t] = @ + 1]
  BY <1>1 DEF Store
<1> QED
  BY <1>2, Shapes

(* Whatever way a reconciliation ends, the task needs no other one before  *)
(* something happens to it.                                                *)
LEMMA TurnSettles ==
  ASSUME Inv, LifeInv, KnownOK, Reconcile, faults' # faults + 1,
         NEW t \in Tasks, EntryOK(t), loop.t = t, loop'.t # t, events[t] = 0, ~(events'[t] > 0)
  PROVE  Settled(t)'
<1>0. /\ loop \in LoopType /\ loop.snap \in AgentTask /\ Typed
      /\ task \in [Tasks -> AgentTask] /\ task[t] \in AgentTask
      /\ events \in [Tasks -> Nat]
      /\ TaskOK(t) /\ TurnOK
  BY LoopTyped, Shapes DEF Inv, LifeInv
<1>1. LoopHolds(t) => task[t] = loop.snap
  BY DEF KnownOK
<1>2. ~Fault
  BY DEF Fault
<1>3. ASSUME NEW p \in LoopPC, loop' = [loop EXCEPT !.pc = p]
      PROVE  FALSE
  BY <1>0, <1>3, LoopMoves
<1>4. ASSUME LoopHolds(t), NEW obj, obj.rv = loop.snap.rv,
             WriteAndReturn(obj) \/ \E next : Write(obj, next)
      PROVE  FALSE
  <2>1. PICK ok \in BOOLEAN : UpdateTask(loop.t, obj, ok)
    BY <1>4 DEF WriteAndReturn, Write
  <2>2. task[t].rv = obj.rv
    BY <1>1, <1>4
  <2> QED
    BY <1>0, <2>1, <2>2, CurrentIsStored
<1>5. CASE ReconcileGet
  <2>1. UNCHANGED task
    BY <1>5 DEF ReconcileGet
  <2>2. loop' # [loop EXCEPT !.pc = "dispatch", !.snap = task[loop.t]]
    <3> DEFINE copy == task[loop.t]
    <3>1. copy \in AgentTask /\ "dispatch" \in LoopPC
      BY <1>0 DEF LoopPC
    <3> HIDE DEF copy
    <3>2. loop' # [loop EXCEPT !.pc = "dispatch", !.snap = copy]
      BY <1>0, <3>1, LoopTurns
    <3> QED
      BY <3>2 DEF copy
  <2>3. ~Exists(t)
    BY <1>2, <1>5, <2>2 DEF ReconcileGet
  <2> QED
    BY <2>1, <2>3 DEF Exists, Settled, AgentTaskState
<1>6. CASE ReconcileInit
  <2>1. LoopHolds(t)
    BY <1>6 DEF ReconcileInit, Dispatch, LoopHolds
  <2>2. [loop.snap EXCEPT !.state = "Pending"].rv = loop.snap.rv
    BY <1>0 DEF AgentTask
  <2> QED
    BY <1>4, <1>6, <2>1, <2>2 DEF ReconcileInit
<1>7. CASE ReconcilePending
  <2>1. LoopHolds(t)
    BY <1>7 DEF ReconcilePending, Dispatch, LoopHolds
  <2>2. [loop.snap EXCEPT !.state = "Started"].rv = loop.snap.rv
    BY <1>0 DEF AgentTask
  <2> QED
    BY <1>4, <1>7, <2>1, <2>2 DEF ReconcilePending
<1>8. CASE ReconcilePodFailed
  <2>1. LoopHolds(t)
    BY <1>8 DEF ReconcilePodFailed, LoopHolds
  <2>2. [loop.snap EXCEPT !.state = "Failed"].rv = loop.snap.rv
    BY <1>0 DEF AgentTask
  <2> QED
    BY <1>4, <1>8, <2>1, <2>2 DEF ReconcilePodFailed
<1>9. CASE ReconcilePodSucceeded
  <2>1. LoopHolds(t)
    BY <1>9 DEF ReconcilePodSucceeded, LoopHolds
  <2>2. [loop.snap EXCEPT !.state = "Completed"].rv = loop.snap.rv
    BY <1>0 DEF AgentTask
  <2> QED
    BY <1>4, <1>9, <2>1, <2>2 DEF ReconcilePodSucceeded
<1>10. CASE ReconcileRelease
  <2>1. LoopHolds(t)
    BY <1>10 DEF ReconcileRelease, LoopHolds
  <2>2. [loop.snap EXCEPT !.claim = NoClaim].rv = loop.snap.rv
    BY <1>0 DEF AgentTask
  <2> QED
    BY <1>4, <1>10, <2>1, <2>2 DEF ReconcileRelease
<1>11. CASE ReconcileRetry
  <2>1. LoopHolds(t)
    BY <1>11 DEF ReconcileRetry, LoopHolds
  <2>2. [loop.snap EXCEPT !.retries = @ + 1, !.state = "Started"].rv = loop.snap.rv
    BY <1>0 DEF AgentTask
  <2> QED
    BY <1>4, <1>11, <2>1, <2>2 DEF ReconcileRetry
<1>12. CASE ReconcileInvalid
  <2>1. task[t].state = "Pending" /\ t \notin Valid /\ UNCHANGED task
    BY <1>1, <1>12 DEF ReconcileInvalid, Dispatch, LoopHolds, clusterVars
  <2> QED
    BY <2>1 DEF Settled
<1>13. CASE ReconcileStarted
  <2>1. task[t].state = "Started" /\ UNCHANGED task
    BY <1>1, <1>13 DEF ReconcileStarted, Dispatch, LoopHolds, clusterVars
  <2>2. Submitting(t)' \/ task[t].retries > 0
    <3>1. CASE t \in activeTasks' /\ SubAgain(t)
      BY <1>0, <3>1, SubRests DEF Submitting
    <3>2. CASE t \in activeTasks /\ UNCHANGED <<sub, activeTasks>>
      BY <2>1, <3>2 DEF Submitting, EntryOK
    <3> QED
      BY <1>13, <3>1, <3>2 DEF ReconcileStarted, SubAgain
  <2> QED
    BY <2>1, <2>2 DEF Settled
<1>14. CASE ReconcileRunning
  <2>1. /\ task[t].state = "Running" /\ task[t] = loop.snap
        /\ UNCHANGED <<task, pod>>
    BY <1>1, <1>14 DEF ReconcileRunning, Dispatch, LoopHolds, clusterVars, listenerVars
  <2>2. task[t].claim # NoClaim /\ pod[task[t].claim] # "Ready"
    BY <1>0, <2>1 DEF TaskOK, Records
  <2>3. {"complete", "fail"} \subseteq LoopPC
    BY DEF LoopPC
  <2>4. pod[task[t].claim] = "Busy"
    BY <1>2, <1>3, <1>14, <2>1, <2>2, <2>3 DEF ReconcileRunning
  <2>5. task'[t].state = "Running" /\ pod'[task'[t].claim] = "Busy"
    BY <2>1, <2>4
  <2> QED
    BY <2>5 DEF Settled
<1>15. CASE ReconcileCompleted \/ ReconcileFailed
  <2>1. {"delete", "release", "retry"} \subseteq LoopPC
    BY DEF LoopPC
  <2>2. ~DeleteClaim(loop.snap.claim, FALSE)
    BY <1>2 DEF DeleteClaim
  <2> QED
    BY <1>3, <1>15, <2>1, <2>2 DEF ReconcileCompleted, ReconcileFailed, CloseRecorded
<1>16. CASE ReconcileDelete
  <2>1. task'[t].state = "Deleted" \/ (UNCHANGED task /\ ~Exists(t))
    BY <1>0, <1>2, <1>16, Removal DEF ReconcileDelete
  <2> QED
    BY <2>1 DEF Settled, Exists, AgentTaskState
<1>17. CASE ReconcileExhausted
  <2>1. /\ task[t].state = "Failed" /\ task[t].claim = NoClaim /\ task[t].retries >= MaxRetries
        /\ UNCHANGED task
    BY <1>0, <1>1, <1>17 DEF ReconcileExhausted, LoopHolds, TurnOK, Inv, LoopOK, clusterVars
  <2>2. task[t].retries \in 0 .. MaxRetries
    BY <1>0 DEF AgentTask
  <2>3. task[t].retries = MaxRetries
    BY <2>1, <2>2, ClusterAssumption
  <2> QED
    BY <2>1, <2>3 DEF Settled
<1> QED
  BY <1>5, <1>6, <1>7, <1>8, <1>9, <1>10, <1>11, <1>12, <1>13, <1>14, <1>15, <1>16, <1>17
     DEF Reconcile

LEMMA EventShapes ==
  ASSUME Inv, Next
  PROVE  events' \in [Tasks -> Nat] /\ podEvents' \in [Claims -> Nat]
BY InvNext DEF Inv, Typed, TypeOK, ClusterTypeOK

LEMMA KnownNext ==
  ASSUME Inv, LifeInv, KnownOK, Next
  PROVE  KnownOK'
<1> SUFFICES ASSUME loop'.pc \notin {"idle", "get"}
             PROVE  task'[loop'.t] = loop'.snap \/ events'[loop'.t] > 0
  BY DEF KnownOK, LoopHolds
<1>0. Typed /\ LoopStep /\ loop' # IdleLoop
  BY LoopSteps DEF Inv, IdleLoop
<1>1. loop.pc # "idle" /\ loop'.t = loop.t
  BY <1>0 DEF LoopStep
<1>2. PICK t \in Tasks : t = loop.t
  BY <1>0, <1>1 DEF Typed, NamesResolve
<1>3. events \in [Tasks -> Nat] /\ EventStep(t) /\ NotedStep(t) /\ ~OrchestratorRestart
  BY <1>0, Shapes, NoteSteps DEF OrchestratorRestart
<1>4. events[t] > 0 => events'[t] > 0
  <2>1. events[t] \in Nat /\ events'[t] \in Nat
    BY <1>3, EventShapes
  <2>2. events'[t] >= events[t]
    BY <1>1, <1>3 DEF EventStep
  <2> QED
    BY <2>1, <2>2
<1>5. CASE loop' = loop
  <2>1. task[t] = loop.snap \/ events[t] > 0
    BY <1>2, <1>5 DEF KnownOK, LoopHolds
  <2>2. task'[t] = task[t] \/ events'[t] > 0
    BY <1>0, <1>3 DEF NotedStep
  <2> QED
    BY <1>2, <1>4, <1>5, <2>1, <2>2
<1>6. CASE Judges \/ Closes
  <2>1. task[t] = loop.snap \/ events[t] > 0
    BY <1>2, <1>6 DEF KnownOK, LoopHolds, Judges, Closes
  <2>2. loop'.snap = loop.snap /\ task'[t] = task[t]
    BY <1>6 DEF Judges, Closes
  <2> QED
    BY <1>1, <1>2, <1>4, <2>1, <2>2
<1>7. CASE Reads \/ GoesOn
  BY <1>1, <1>7 DEF Reads, GoesOn
<1> QED
  BY <1>0, <1>1, <1>5, <1>6, <1>7 DEF LoopStep

(* The end of a pod is told to the one task that runs in it.               *)
LEMMA EndIsTold ==
  ASSUME LifeInv, faults' # faults + 1, NEW t \in Tasks, NEW c \in Claims,
         task[t].state = "Running", task[t].claim = c, HandlePodEvent(c)
  PROVE  loop'.t = t
<1>1. PICK u \in RunningOn(c) : loop' = [IdleLoop EXCEPT !.pc = "get", !.t = u]
  BY DEF HandlePodEvent, RunningOn, Fault
<1>2. u \in Tasks /\ task[u].claim = c
  BY <1>1 DEF RunningOn
<1>3. c # NoClaim
  BY ClusterAssumption
<1>4. \A v \in Tasks : Records(v, task[v])
  BY DEF LifeInv, TaskOK
<1>5. owner[c] = u /\ owner[c] = t
  BY <1>2, <1>3, <1>4 DEF Records
<1> QED
  BY <1>1, <1>5 DEF IdleLoop

LEMMA MissedNext ==
  ASSUME Inv, LifeInv, KnownOK, Next, faults' = 0, NEW t \in Tasks, MissedOK(t),
         EntryOK(t), EntryOK(t)'
  PROVE  MissedOK(t)'
<1> SUFFICES ASSUME events'[t] = 0, loop'.t # t
             PROVE  Settled(t)'
  BY DEF MissedOK, Unattended
<1>0. /\ Typed /\ faults' # faults + 1 /\ EventStep(t) /\ NotedStep(t)
      /\ events \in [Tasks -> Nat] /\ podEvents \in [Claims -> Nat]
      /\ task \in [Tasks -> AgentTask] /\ task[t] \in AgentTask
      /\ TaskOK(t) /\ TurnOK
  BY CountersGrow, NoteSteps, Shapes DEF Inv, LifeInv
<1>1. CASE OrchestratorRestart
  <2>1. UNCHANGED task /\ ~Exists(t)
    BY <1>1 DEF OrchestratorRestart
  <2> QED
    BY <2>1 DEF Settled, Exists, AgentTaskState
<1>2. CASE ~OrchestratorRestart /\ loop.t = t
  <2>1. events[t] = 0
    BY <1>0, <1>2 DEF EventStep
  <2>2. loop.pc # "idle"
    BY <1>0, <1>2, ClusterAssumption DEF TurnOK
  <2>3. Watch => FALSE
    BY <2>2 DEF Watch, HandleTaskEvent, HandlePodEvent
  <2>4. Disturb => loop' = loop
    BY <1>2 DEF Disturb, orchestratorVars
  <2>5. Reconcile \/ loop' = loop
    BY <2>3, <2>4, Frames DEF Next
  <2>6. ~(events'[t] > 0)
    OBVIOUS
  <2>7. Reconcile
    BY <1>2, <2>5
  <2> QED
    BY <1>0, <1>2, <2>1, <2>6, <2>7, TurnSettles
<1>3. CASE ~OrchestratorRestart /\ loop.t # t
  <2>1. events[t] = 0
    BY <1>0, <1>3 DEF EventStep
  <2>2. Settled(t)
    BY <1>3, <2>1 DEF MissedOK, Unattended
  <2>3. CASE task'[t].state = "Deleted"
    BY <2>3 DEF Settled
  <2>4. CASE task'[t] = task[t]
    <3>1. CASE task[t].state \notin {"Started", "Running"}
      BY <2>2, <2>4, <3>1 DEF Settled
    <3>3. CASE task[t].state = "Started"
      <4>1. CASE task[t].retries > 0
        BY <2>4, <3>3, <4>1 DEF Settled
      <4>2. CASE ~(task[t].retries > 0)
        <5>1. t \in activeTasks /\ sub[t].pc \notin {"none", "exit"}
          BY <2>2, <3>3, <4>2 DEF Settled, Submitting
        <5>2. ComesAndGoes(t) /\ ActiveStep(t)
          BY GoroutineSteps, SubSteps
        <5>3. sub'[t].pc # "exit"
          BY <2>4, <3>3, <4>2 DEF EntryOK
        <5>4. sub'[t].pc # "none" /\ t \in activeTasks'
          BY <1>3, <5>1, <5>2 DEF ComesAndGoes, ActiveStep
        <5> QED
          BY <2>4, <3>3, <5>3, <5>4 DEF Settled, Submitting
      <4> QED
        BY <4>1, <4>2
    <3>2. CASE task[t].state = "Running"
      <4>1. PICK c \in Claims : c = task[t].claim
        BY <1>0, <3>2 DEF TaskOK, Records, AgentTask
      <4>2. PodStep(c) /\ PodEventStep(c)
        BY <1>0, PodSteps, PodNoteSteps
      <4>3. ~HandlePodEvent(c)
        BY <1>0, <3>2, <4>1, EndIsTold
      <4>4. podEvents[c] > 0 => podEvents'[c] > 0
        <5>1. podEvents[c] \in Nat /\ podEvents'[c] \in Nat
          BY <1>0, EventShapes
        <5>2. podEvents'[c] >= podEvents[c]
          BY <1>3, <4>2, <4>3 DEF PodEventStep
        <5> QED
          BY <5>1, <5>2
      <4>5. pod[c] = "Busy" => pod'[c] = "Busy" \/ podEvents'[c] > 0
        BY <1>0, <4>2 DEF PodStep, Submitted, Ended
      <4>6. pod[c] = "Busy" \/ podEvents[c] > 0
        BY <2>2, <3>2, <4>1 DEF Settled
      <4>7. pod'[c] = "Busy" \/ podEvents'[c] > 0
        BY <4>4, <4>5, <4>6
      <4>8. task'[t].state = "Running" /\ task'[t].claim = c
        BY <2>4, <3>2, <4>1
      <4> QED
        BY <4>7, <4>8 DEF Settled
    <3> QED
      BY <3>1, <3>2, <3>3
  <2>5. ~(events'[t] > 0)
    OBVIOUS
  <2> QED
    BY <1>0, <2>3, <2>4, <2>5 DEF NotedStep
<1> QED
  BY <1>1, <1>2, <1>3

(* Without failed calls a task that no notification will bring back to the *)
(* loop is at rest, or a goroutine submits it, or its pod runs or the      *)
(* pod's end is still to be told, or a retry made it Started: although     *)
(* Reconcile never queues a task again (Start, Reconcile), every other     *)
(* writer's update and every restart makes the loop look once more, and    *)
(* only the goroutine of an earlier attempt that is late to leave          *)
(* activeTasks (controller.go:107) can leave a task behind.                *)
THEOREM NothingMissed == Spec => [](faults = 0 => NoMissedWork)
<1>1. Init => MissInv
  <2> SUFFICES ASSUME Init
               PROVE  KnownOK /\ CopyBegun /\ \A t \in Tasks : Settled(t) /\ EntryOK(t)
    BY DEF MissInv, MissedOK
  <2>1. /\ loop.pc = "idle" /\ activeTasks = {}
        /\ \A t \in Tasks : task[t].state = "Absent" /\ sub[t].pc = "none"
    BY DEF Init, ClusterInit, OrchestratorInit, NoAgentTask, IdleLoop, NoSubmission
  <2> QED
    BY <2>1 DEF KnownOK, CopyBegun, LoopHolds, Settled, EntryOK
<1>2. Inv /\ LifeInv /\ MissInv /\ [Next]_vars => MissInv'
  <2> SUFFICES ASSUME Inv, LifeInv, MissInv, [Next]_vars, faults' = 0
               PROVE  /\ KnownOK' /\ CopyBegun'
                      /\ \A t \in Tasks : MissedOK(t)' /\ EntryOK(t)'
    BY DEF MissInv
  <2>1. CASE Next
    <3>1. /\ KnownOK /\ CopyBegun /\ faults' # faults + 1
          /\ \A t \in Tasks : MissedOK(t) /\ EntryOK(t)
      BY <2>1, CountersGrow DEF Inv, MissInv
    <3>2. \A t \in Tasks : EntryOK(t)'
      BY <2>1, <3>1, EntryNext
    <3> QED
      BY <2>1, <3>1, <3>2, KnownNext, CopyBegunNext, MissedNext
  <2>2. CASE UNCHANGED vars
    BY <2>2 DEF vars, clusterVars, orchestratorVars, MissInv, KnownOK, CopyBegun, LoopHolds,
       MissedOK, EntryOK, Unattended, Settled, Submitting
  <2> QED
    BY <2>1, <2>2
<1>3. Inv /\ MissInv => (faults = 0 => NoMissedWork)
  <2> SUFFICES ASSUME Inv, MissInv, faults = 0, NEW t \in Tasks, Unattended(t)
               PROVE  CASE task[t].state \in {"", "Completed"} -> FALSE
                        [] task[t].state = "Pending" -> t \notin Valid
                        [] task[t].state = "Started" -> Submitting(t) \/ task[t].retries > 0
                        [] task[t].state = "Running" -> \/ pod[task[t].claim] = "Busy"
                                                        \/ podEvents[task[t].claim] > 0
                        [] task[t].state = "Failed" -> /\ task[t].claim = NoClaim
                                                       /\ task[t].retries = MaxRetries
                        [] task[t].state \in {"Absent", "Deleted"} -> TRUE
    BY DEF NoMissedWork
  <2>1. Settled(t)
    BY DEF MissInv, MissedOK
  <2>2. CASE task[t].state = "Pending"
    BY <2>1, <2>2 DEF Settled
  <2>3. CASE task[t].state = "Running"
    BY <2>1, <2>3 DEF Settled
  <2>4. CASE task[t].state = "Failed"
    BY <2>1, <2>4 DEF Settled
  <2>5. CASE task[t].state = "Started"
    BY <2>1, <2>5 DEF Settled
  <2>6. CASE task[t].state \in {"Absent", "Deleted"}
    BY <2>6
  <2>7. task[t].state \in {"", "Pending", "Started", "Running", "Completed", "Failed",
                           "Absent", "Deleted"}
    <3>1. task[t] \in AgentTask
      BY Shapes DEF Inv
    <3> QED
      BY <3>1 DEF AgentTask, AgentTaskState
  <2>8. task[t].state \notin {"", "Completed"}
    BY <2>1 DEF Settled
  <2> QED
    BY <2>2, <2>3, <2>4, <2>5, <2>6, <2>7, <2>8
<1> QED
  BY <1>1, <1>2, <1>3, LifeAlways, PTL DEF Spec

=============================================================================
