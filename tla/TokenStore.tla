------------------------------ MODULE TokenStore ------------------------------
(***************************************************************************)
(* InMemoryTokenStore: a map of tokens by task and a sync.RWMutex, used by *)
(* the handlers of the listener at once.  A Go map does not stand a write  *)
(* during another access: what is read then is undefined (the runtime may  *)
(* also end the process).  So a write takes two steps here, and a read     *)
(* between them, or a write that meets another, has any result.            *)
(***************************************************************************)
EXTENDS FiniteSets

CONSTANTS
  Handlers,   \* goroutines that use the store
  Tasks,
  Tokens,
  NoToken,
  NoHandler

ASSUME StoreAssumption == NoHandler \notin Handlers /\ NoToken \notin Tokens

VARIABLES
  tokens,   \* the map: the token of each task, NoToken for a missing entry
  call,     \* the call each handler makes
  pc,       \* where each handler is in it
  valid,    \* what the handler's last VerifyToken returned
  readers,  \* the RWMutex: handlers that hold it for reading
  writer    \* the handler that holds it for writing, or waits for readers

vars == <<tokens, call, pc, valid, readers, writer>>

Calls == [op : {"store", "verify", "delete"}, task : Tasks, token : Tokens]
Reads(h) == call[h].op = "verify"

Go(h, from, to) == pc[h] = from /\ pc' = [pc EXCEPT ![h] = to]

Begin(h) ==
  /\ Go(h, "idle", "lock")
  /\ \E c \in Calls : call' = [call EXCEPT ![h] = c]
  /\ UNCHANGED <<tokens, valid, readers, writer>>

-----------------------------------------------------------------------------
(* sync.RWMutex: a writer waits for the readers that came before it, and   *)
(* holds up those that come after.                                         *)
Lock(h) ==
  /\ writer = NoHandler /\ writer' = h
  /\ Go(h, "lock", "drain")
  /\ UNCHANGED <<tokens, call, valid, readers>>

Drain(h) ==
  /\ readers = {}
  /\ Go(h, "drain", "access")
  /\ UNCHANGED <<tokens, call, valid, readers, writer>>

RLock(h) ==
  /\ writer = NoHandler
  /\ readers' = readers \union {h}
  /\ Go(h, "lock", "access")
  /\ UNCHANGED <<tokens, call, valid, writer>>

Unlock(h) ==
  /\ Go(h, "unlock", "idle")
  /\ IF writer = h THEN writer' = NoHandler /\ UNCHANGED readers
                   ELSE readers' = readers \ {h} /\ UNCHANGED writer
  /\ UNCHANGED <<tokens, call, valid>>

-----------------------------------------------------------------------------
(* Mutant of Acquire: VerifyToken does not lock, it only reads.            *)
AcquireToWrite(h) ==
  \/ ~Reads(h) /\ Lock(h)
  \/ /\ Reads(h) /\ Go(h, "lock", "access")
     /\ UNCHANGED <<tokens, call, valid, readers, writer>>

(* Lock in StoreToken and DeleteToken, RLock in VerifyToken.               *)
Acquire(h) == (~Reads(h) /\ Lock(h)) \/ (Reads(h) /\ RLock(h))

(* Somebody else is writing to the map.                                    *)
Torn(h) == \E g \in Handlers \ {h} : pc[g] = "writing"

StartWrite(h) ==
  /\ ~Reads(h) /\ Go(h, "access", "writing")
  /\ UNCHANGED <<tokens, call, valid, readers, writer>>

(* StoreToken: s.tokens[taskID] = token                                    *)
StoreToken(h) ==
  /\ call[h].op = "store" /\ Go(h, "writing", "unlock")
  /\ \E k \in IF Torn(h) THEN Tokens \union {NoToken} ELSE {call[h].token} :
       tokens' = [tokens EXCEPT ![call[h].task] = k]
  /\ UNCHANGED <<call, valid, readers, writer>>

(* Mutant of DeleteToken: the entry stays, with nothing in it.             *)
DeleteTokenValue(h) ==
  /\ call[h].op = "delete" /\ Go(h, "writing", "unlock")
  /\ tokens' = [tokens EXCEPT ![call[h].task] = ""]
  /\ UNCHANGED <<call, valid, readers, writer>>

(* DeleteToken: delete(s.tokens, taskID)                                   *)
DeleteToken(h) ==
  /\ call[h].op = "delete" /\ Go(h, "writing", "unlock")
  /\ \E k \in IF Torn(h) THEN Tokens \union {NoToken} ELSE {NoToken} :
       tokens' = [tokens EXCEPT ![call[h].task] = k]
  /\ UNCHANGED <<call, valid, readers, writer>>

(* Mutant of VerifyToken: an early return without the deferred RUnlock.    *)
VerifyTokenStuck(h) ==
  /\ Reads(h)
  /\ Go(h, "access", IF tokens[call[h].task] = NoToken THEN "idle" ELSE "unlock")
  /\ valid' = [valid EXCEPT ![h] = tokens[call[h].task] = call[h].token]
  /\ UNCHANGED <<tokens, call, readers, writer>>

(* VerifyToken: a missing entry is no error and no match.                  *)
VerifyToken(h) ==
  /\ Reads(h) /\ Go(h, "access", "unlock")
  /\ \E v \in IF Torn(h) THEN BOOLEAN
              ELSE {tokens[call[h].task] = call[h].token} :
       valid' = [valid EXCEPT ![h] = v]
  /\ UNCHANGED <<tokens, call, readers, writer>>

Step(h) ==
  \/ Acquire(h) \/ Drain(h) \/ StartWrite(h) \/ StoreToken(h) \/ DeleteToken(h)
  \/ VerifyToken(h) \/ Unlock(h)

Init ==
  /\ tokens = [t \in Tasks |-> NoToken]
  /\ call \in [Handlers -> Calls]
  /\ pc = [h \in Handlers |-> "idle"]
  /\ valid = [h \in Handlers |-> FALSE]
  /\ readers = {} /\ writer = NoHandler

Next == \E h \in Handlers : Begin(h) \/ Step(h)

Spec == Init /\ [][Next]_vars

(* Goroutines are scheduled again and again.  A mutex is handed to each    *)
(* that waits for it in the end (its starvation mode): strong fairness.    *)
FairSpec ==
  Spec /\ \A h \in Handlers : WF_vars(Step(h)) /\ SF_vars(Acquire(h))

-----------------------------------------------------------------------------
TypeOK ==
  /\ tokens \in [Tasks -> Tokens \union {NoToken}]
  /\ call \in [Handlers -> Calls]
  /\ pc \in [Handlers -> {"idle", "lock", "drain", "access", "writing", "unlock"}]
  /\ valid \in [Handlers -> BOOLEAN]
  /\ readers \subseteq Handlers
  /\ writer \in Handlers \union {NoHandler}

(* The map is never written while it is accessed by another handler: the   *)
(* Go runtime has no reason to end the listener.                           *)
NoConcurrentMapAccess ==
  \A g, h \in Handlers :
    pc[g] = "writing" /\ g # h => pc[h] \notin {"access", "writing"}

(* To the handlers the store is a register per task: what VerifyToken says *)
(* is what the last of the stores and deletes before it left.              *)
Stage(h) ==
  CASE pc[h] = "idle"   -> "returned"
    [] pc[h] = "unlock" -> "done"
    [] OTHER            -> "begun"

Register == INSTANCE TokenRegister WITH stage <- [h \in Handlers |-> Stage(h)]

ImplementsRegister == Register!Spec

(* Nobody is left waiting for the lock: every call returns.                *)
EveryCallReturns == \A h \in Handlers : pc[h] = "lock" ~> pc[h] = "idle"

==============================================================================
