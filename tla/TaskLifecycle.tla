---------------------------- MODULE TaskLifecycle ----------------------------
(***************************************************************************)
(* What an AgentTask and its sandboxes promise to whoever looks at them,   *)
(* with no orchestrator, listener or runner: the phases of CONTEXT.md with *)
(* the moves between them that the code makes.  A phase changes only by a  *)
(* listed move, a recorded sandbox is forgotten only when it is closed,    *)
(* and none is closed under the task that runs in it.                      *)
(***************************************************************************)
EXTENDS Naturals

CONSTANTS Tasks, Claims, NoClaim, Valid, MaxRetries

VARIABLES
  life,    \* per task: its phase, its retries and the sandbox it records
  sandbox  \* per claim: Unused, Live or Deleted

lifecycleVars == <<life, sandbox>>

Init ==
  /\ life = [t \in Tasks |-> [state |-> "Absent", retries |-> 0, claim |-> NoClaim]]
  /\ sandbox = [c \in Claims |-> "Unused"]

Move(t, from, to) ==
  /\ life[t].state \in from
  /\ life' = [life EXCEPT ![t].state = to]
  /\ UNCHANGED sandbox

Create(t) == Move(t, {"Absent"}, "") \/ Move(t, {"Absent"}, "Pending")

Initialise(t) == Move(t, {""}, "Pending")

Validate(t) == t \in Valid /\ Move(t, {"Pending"}, "Started")

(* The task starts to run in a live sandbox no other task records.         *)
Run(t, c) ==
  /\ life[t].state = "Started"
  /\ sandbox[c] = "Live"
  /\ \A u \in Tasks : life[u].claim # c
  /\ life' = [life EXCEPT ![t].state = "Running", ![t].claim = c]
  /\ UNCHANGED sandbox

(* A result may arrive before the task is seen to run, and after it is     *)
(* seen to fail.                                                           *)
Complete(t) == Move(t, {"Started", "Running", "Failed"}, "Completed")

Fail(t) == Move(t, {"Running"}, "Failed")

Closed(c) == c = NoClaim \/ sandbox[c] = "Deleted"

Release(t) ==
  /\ life[t].state = "Failed"
  /\ Closed(life[t].claim)
  /\ life' = [life EXCEPT ![t].claim = NoClaim]
  /\ UNCHANGED sandbox

Retry(t) ==
  /\ life[t].state = "Failed" /\ life[t].claim = NoClaim
  /\ life[t].retries < MaxRetries
  /\ life' = [life EXCEPT ![t].state = "Started", ![t].retries = @ + 1]
  /\ UNCHANGED sandbox

Delete(t) ==
  /\ life[t].state = "Completed"
  /\ Closed(life[t].claim)
  /\ life' = [life EXCEPT ![t].state = "Deleted", ![t].claim = NoClaim]
  /\ UNCHANGED sandbox

Open(c) ==
  /\ sandbox[c] = "Unused"
  /\ sandbox' = [sandbox EXCEPT ![c] = "Live"]
  /\ UNCHANGED life

Close(c) ==
  /\ sandbox[c] = "Live"
  /\ \A t \in Tasks : life[t].claim = c => life[t].state # "Running"
  /\ sandbox' = [sandbox EXCEPT ![c] = "Deleted"]
  /\ UNCHANGED life

Next ==
  \/ \E t \in Tasks :
       \/ Create(t) \/ Initialise(t) \/ Validate(t)
       \/ \E c \in Claims : Run(t, c)
       \/ Complete(t) \/ Fail(t) \/ Release(t) \/ Retry(t) \/ Delete(t)
  \/ \E c \in Claims : Open(c) \/ Close(c)

Spec == Init /\ [][Next]_lifecycleVars

=============================================================================
