---------------------------- MODULE TokenRegister ----------------------------
(***************************************************************************)
(* What a token store promises the handlers that use it: a register for    *)
(* each task, whose calls take effect one at a time, at some moment        *)
(* between their beginning and their return.  RedisTokenStore is such a    *)
(* store directly, for each of its calls is one command of the server; the *)
(* in-memory one has to earn it with a lock.                               *)
(***************************************************************************)

CONSTANTS
  Handlers,   \* goroutines that use the store
  Tasks,
  Tokens,
  NoToken

VARIABLES
  tokens,   \* the token on record for each task
  call,     \* the call each handler makes
  stage,    \* whether it has begun, has taken effect, has returned
  valid     \* what the handler's last VerifyToken returned

vars == <<tokens, call, stage, valid>>

Calls == [op : {"store", "verify", "delete"}, task : Tasks, token : Tokens]

Init ==
  /\ tokens = [t \in Tasks |-> NoToken]
  /\ call \in [Handlers -> Calls]
  /\ stage = [h \in Handlers |-> "returned"]
  /\ valid = [h \in Handlers |-> FALSE]

Begin(h) ==
  /\ stage[h] = "returned"
  /\ stage' = [stage EXCEPT ![h] = "begun"]
  /\ \E c \in Calls : call' = [call EXCEPT ![h] = c]
  /\ UNCHANGED <<tokens, valid>>

(* SET, DEL                                                                *)
Effect(h) ==
  /\ stage[h] = "begun" /\ call[h].op # "verify"
  /\ stage' = [stage EXCEPT ![h] = "done"]
  /\ tokens' = [tokens EXCEPT ![call[h].task] =
                  IF call[h].op = "store" THEN call[h].token ELSE NoToken]
  /\ UNCHANGED <<call, valid>>

(* GET, and the comparison with what the handler was given.                *)
Verify(h) ==
  /\ stage[h] = "begun" /\ call[h].op = "verify"
  /\ stage' = [stage EXCEPT ![h] = "done"]
  /\ valid' = [valid EXCEPT ![h] = tokens[call[h].task] = call[h].token]
  /\ UNCHANGED <<tokens, call>>

Return(h) ==
  /\ stage[h] = "done"
  /\ stage' = [stage EXCEPT ![h] = "returned"]
  /\ UNCHANGED <<tokens, call, valid>>

Next == \E h \in Handlers : Begin(h) \/ Effect(h) \/ Verify(h) \/ Return(h)

Spec == Init /\ [][Next]_vars

==============================================================================
