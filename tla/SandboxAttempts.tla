--------------------------- MODULE SandboxAttempts ---------------------------
(***************************************************************************)
(* What the attempts at a task, each in a sandbox of its own, promise the  *)
(* rest of the system: an attempt fails before it has called back, or it   *)
(* calls back until it is heard or has no tries left; it succeeds only if  *)
(* it was heard.  This is the runner that SandboxServer composes with the  *)
(* listener and the orchestrator.                                          *)
(***************************************************************************)
EXTENDS Naturals

CONSTANTS
  Attempts,   \* the sandboxes
  MaxTries    \* callbacks an attempt makes at most

VARIABLES
  pod,    \* the pod of each attempt
  tries,  \* callbacks each has begun
  heard   \* attempts one of whose callbacks was answered with success

vars == <<pod, tries, heard>>

Init ==
  /\ pod = [a \in Attempts |-> "Busy"]
  /\ tries = [a \in Attempts |-> 0]
  /\ heard = {}

Ends(a, how) ==
  /\ pod[a] = "Busy"
  /\ pod' = [pod EXCEPT ![a] = how]
  /\ UNCHANGED <<tries, heard>>

Fails(a) == tries[a] = 0 /\ Ends(a, "Failed")
GivesUp(a) == tries[a] = MaxTries /\ a \notin heard /\ Ends(a, "Failed")
Succeeds(a) == a \in heard /\ Ends(a, "Succeeded")
IsLost(a) == Ends(a, "Gone")

Calls(a) ==
  /\ pod[a] = "Busy" /\ tries[a] < MaxTries /\ a \notin heard
  /\ tries' = [tries EXCEPT ![a] = @ + 1]
  /\ UNCHANGED <<pod, heard>>

IsHeard(a) ==
  /\ pod[a] = "Busy" /\ tries[a] > 0 /\ a \notin heard
  /\ heard' = heard \union {a}
  /\ UNCHANGED <<pod, tries>>

Next ==
  \E a \in Attempts :
    Fails(a) \/ GivesUp(a) \/ Succeeds(a) \/ IsLost(a) \/ Calls(a) \/ IsHeard(a)

Spec == Init /\ [][Next]_vars

==============================================================================
