---------------------------- MODULE RollingUpdate ----------------------------
(***************************************************************************)
(* Two orchestrators at once, as while a rolling update of the Deployment  *)
(* replaces one by the other: each has a loop, goroutines, an activeTasks  *)
(* map and watches of its own, and both act on the same tasks and claims.  *)
(* The two are instances of Orchestrator; what is added here is that each  *)
(* is told of what the other, the listener and the sandboxes do.           *)
(***************************************************************************)
EXTENDS Integers, FiniteSets

CONSTANTS Tasks, Claims, NoClaim, NoTask, Valid, Accepted, MaxRetries, MaxTries,
          MaxFaults, MaxCrashes,
          MaxOverlap  \* bound: steps of the old process beside the new one

ASSUME OverlapAssumption == MaxOverlap \in Nat

VARIABLES
  task, claim, owner, pod, faults, crashes,             \* of Cluster
  tokens, cb, tries, comments,                          \* of Listener
  loopOld, subOld, activeOld, eventsOld, podEventsOld,  \* of each Orchestrator,
  loopNew, subNew, activeNew, eventsNew, podEventsNew,  \* with its two watches
  phase,    \* who is running: "old", "both" or "new"
  overlap   \* steps of the old process since the new one has started

shared == <<task, claim, owner, pod, faults, crashes, tokens, cb, tries, comments>>
oldVars == <<loopOld, subOld, activeOld>>
newVars == <<loopNew, subNew, activeNew>>
watches == <<eventsOld, podEventsOld, eventsNew, podEventsNew>>
vars == <<shared, oldVars, newVars, watches, phase, overlap>>

Old == INSTANCE Orchestrator WITH
  loop <- loopOld, sub <- subOld, activeTasks <- activeOld,
  events <- eventsOld, podEvents <- podEventsOld

New == INSTANCE Orchestrator WITH
  loop <- loopNew, sub <- subNew, activeTasks <- activeNew,
  events <- eventsNew, podEvents <- podEventsNew

-----------------------------------------------------------------------------
(* A watch is told of every write of a task that leaves it in existence,   *)
(* and of every pod that ends.                                             *)
Written(t) == task'[t] # task[t] /\ task'[t].state \in Old!AgentTaskState
Ended(c) == pod'[c] # pod[c] /\ pod'[c] \in {"Succeeded", "Failed", "Gone"}

Tell(events, podEvents, nextEvents, nextPodEvents) ==
  /\ nextEvents = [t \in Tasks |-> events[t] + (IF Written(t) THEN 1 ELSE 0)]
  /\ nextPodEvents = [c \in Claims |-> podEvents[c] + (IF Ended(c) THEN 1 ELSE 0)]

TellOld ==
  IF phase = "new" THEN UNCHANGED <<eventsOld, podEventsOld>>
                   ELSE Tell(eventsOld, podEventsOld, eventsOld', podEventsOld')

TellNew ==
  IF phase = "old" THEN UNCHANGED <<eventsNew, podEventsNew>>
                   ELSE Tell(eventsNew, podEventsNew, eventsNew', podEventsNew')

OldCluster(c) ==
  /\ Old!BindSandbox(c) \/ Old!RemovePod(c)
  /\ UNCHANGED <<tokens, cb, tries, comments>>

NewCluster(c) ==
  /\ New!BindSandbox(c) \/ New!RemovePod(c)
  /\ UNCHANGED <<tokens, cb, tries, comments>>

OldSteps ==
  /\ \/ phase = "old" /\ UNCHANGED overlap
     \/ phase = "both" /\ overlap < MaxOverlap /\ overlap' = overlap + 1
  /\ \/ Old!Reconcile
     \/ \E t \in Tasks : Old!HandleTaskEvent(t) \/ Old!Submission(t)
     \/ \E c \in Claims : Old!HandlePodEvent(c)
  /\ TellNew /\ UNCHANGED <<newVars, phase>>

NewSteps ==
  /\ phase # "old"
  /\ \/ New!Reconcile
     \/ \E t \in Tasks : New!HandleTaskEvent(t) \/ New!Submission(t)
     \/ \E c \in Claims : New!HandlePodEvent(c)
  /\ TellOld /\ UNCHANGED <<oldVars, phase, overlap>>

(* The listener, the sandboxes and the cluster, which either instance has. *)
OtherSteps ==
  /\ IF phase = "new"
     THEN \/ \E t \in Tasks : New!CreateTask(t, "Pending")
          \/ \E c \in Claims, i \in 1 .. MaxTries : New!Callback(c, i)
          \/ \E c \in Claims : New!Runner(c) \/ NewCluster(c)
     ELSE \/ \E t \in Tasks : Old!CreateTask(t, "Pending")
          \/ \E c \in Claims, i \in 1 .. MaxTries : Old!Callback(c, i)
          \/ \E c \in Claims : Old!Runner(c) \/ OldCluster(c)
  /\ TellOld /\ TellNew /\ UNCHANGED <<oldVars, newVars, phase, overlap>>

(* The watches of the new process begin with what exists.                  *)
StartNew ==
  /\ phase = "old" /\ phase' = "both"
  /\ eventsNew' = [t \in Tasks |-> IF Old!Exists(t) THEN 1 ELSE 0]
  /\ podEventsNew' = [c \in Claims |-> IF pod[c] \in {"None", "Gone"} THEN 0 ELSE 1]
  /\ UNCHANGED <<shared, oldVars, newVars, eventsOld, podEventsOld, overlap>>

(* The old process ends, with its goroutines where they are.               *)
StopOld ==
  /\ phase = "both" /\ phase' = "new"
  /\ loopOld' = Old!IdleLoop /\ activeOld' = {}
  /\ subOld' = [t \in Tasks |-> Old!NoSubmission]
  /\ eventsOld' = [t \in Tasks |-> 0] /\ podEventsOld' = [c \in Claims |-> 0]
  /\ overlap' = 0
  /\ UNCHANGED <<shared, newVars, eventsNew, podEventsNew>>

Init ==
  /\ Old!ClusterInit /\ Old!ListenerInit /\ Old!OrchestratorInit
  /\ New!ClusterInit /\ New!OrchestratorInit
  /\ phase = "old" /\ overlap = 0

Next == OldSteps \/ NewSteps \/ OtherSteps \/ StartNew \/ StopOld

Spec == Init /\ [][Next]_vars
-----------------------------------------------------------------------------
(* However two orchestrators take turns on a task, neither takes it out of *)
(* Completed nor writes back one that the other has deleted.               *)
CompletedIsFinal ==
  [][\A t \in Tasks :
       /\ task[t].state = "Completed" => task'[t].state \in {"Completed", "Deleted"}
       /\ task[t].state = "Deleted" => task'[t].state = "Deleted"]_vars

(* The record of a sandbox, whichever of the two wrote it, is dropped only *)
(* when its claim is deleted.                                              *)
RecordedClaimReleased ==
  [][\A t \in Tasks :
       task[t].claim # NoClaim /\ task'[t].claim # task[t].claim
         => claim[task[t].claim] = "Deleted"]_vars

Lifecycle == INSTANCE TaskLifecycle WITH
  life <- [t \in Tasks |-> [state |-> task[t].state, retries |-> task[t].retries,
                            claim |-> task[t].claim]],
  sandbox <- claim

(* Two orchestrators together make only moves that one may make.           *)
ImplementsLifecycle == Lifecycle!Spec

==============================================================================
