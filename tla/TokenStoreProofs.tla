--------------------------- MODULE TokenStoreProofs ---------------------------
(***************************************************************************)
(* The lock of the in-memory token store, for any number of handlers,      *)
(* tasks and tokens: a write to the map meets no other access, and so the  *)
(* store is the register that its users take it for.                       *)
(***************************************************************************)
EXTENDS TokenStore, TLAPS

Holding == {"access", "writing", "unlock"}

(* Who holds the lock, or waits for readers to leave, is who the mutex     *)
(* says, and a handler that holds it for writing does so alone.            *)
LockInv ==
  /\ TypeOK
  /\ \A h \in Handlers :
       /\ pc[h] = "drain" => ~Reads(h) /\ writer = h
       /\ pc[h] = "writing" => ~Reads(h)
       /\ pc[h] \in Holding /\ ~Reads(h) => writer = h /\ readers = {}
       /\ pc[h] \in Holding /\ Reads(h) => h \in readers
       /\ writer = h => ~Reads(h) /\ pc[h] \in Holding \union {"drain"}
       /\ h \in readers => Reads(h) /\ pc[h] \in Holding

LEMMA LockInvInit == Init => LockInv
  BY StoreAssumption DEF Init, LockInv, TypeOK, Holding, Calls, Reads

(* Nobody writes to the map while a handler is at it.                      *)
LEMMA NobodyElseWrites ==
  ASSUME LockInv, NEW h \in Handlers, pc[h] \in {"access", "writing"}
  PROVE  ~Torn(h)
BY StoreAssumption DEF LockInv, TypeOK, Torn, Holding

(* A step that changes only where h is keeps what is known of the others.  *)
LEMMA LockInvStep ==
  ASSUME LockInv, NEW h \in Handlers, Begin(h) \/ Step(h)
  PROVE  LockInv'
<1>0. TypeOK /\ NoHandler \notin Handlers
  BY StoreAssumption DEF LockInv
<1>1. CASE Begin(h)
  <2>1. PICK c \in Calls : call' = [call EXCEPT ![h] = c]
    BY <1>1 DEF Begin
  <2>2. TypeOK'
    BY <1>0, <1>1, <2>1 DEF TypeOK, Begin, Go
  <2> QED
    BY <1>0, <1>1, <2>1, <2>2 DEF LockInv, TypeOK, Begin, Go, Holding, Reads
<1>2. CASE Acquire(h)
  <2>1. CASE ~Reads(h) /\ Lock(h)
    <3>1. TypeOK'
      BY <1>0, <2>1 DEF TypeOK, Lock, Go
    <3> QED
      BY <1>0, <2>1, <3>1 DEF LockInv, TypeOK, Lock, Go, Holding, Reads
  <2>2. CASE Reads(h) /\ RLock(h)
    <3>1. TypeOK'
      BY <1>0, <2>2 DEF TypeOK, RLock, Go
    <3> QED
      BY <1>0, <2>2, <3>1 DEF LockInv, TypeOK, RLock, Go, Holding, Reads
  <2> QED
    BY <1>2, <2>1, <2>2 DEF Acquire
<1>3. CASE Drain(h)
  <2>1. TypeOK'
    BY <1>0, <1>3 DEF TypeOK, Drain, Go
  <2> QED
    BY <1>0, <1>3, <2>1 DEF LockInv, TypeOK, Drain, Go, Holding, Reads
<1>4. CASE StartWrite(h)
  <2>1. TypeOK'
    BY <1>0, <1>4 DEF TypeOK, StartWrite, Go
  <2> QED
    BY <1>0, <1>4, <2>1 DEF LockInv, TypeOK, StartWrite, Go, Holding, Reads
<1>5. CASE StoreToken(h) \/ DeleteToken(h)
  <2>1. call[h].task \in Tasks /\ call[h].token \in Tokens
    BY <1>0 DEF TypeOK, Calls
  <2>2. PICK k \in Tokens \union {NoToken} : tokens' = [tokens EXCEPT ![call[h].task] = k]
    BY <1>5, <2>1 DEF StoreToken, DeleteToken
  <2>3. /\ Go(h, "writing", "unlock")
        /\ UNCHANGED <<call, valid, readers, writer>>
    BY <1>5 DEF StoreToken, DeleteToken
  <2>4. TypeOK'
    BY <1>0, <2>1, <2>2, <2>3 DEF TypeOK, Go
  <2> QED
    BY <1>0, <2>3, <2>4 DEF LockInv, TypeOK, Go, Holding, Reads
<1>6. CASE VerifyToken(h)
  <2>1. PICK v \in BOOLEAN : valid' = [valid EXCEPT ![h] = v]
    BY <1>6 DEF VerifyToken
  <2>2. TypeOK'
    BY <1>0, <1>6, <2>1 DEF TypeOK, VerifyToken, Go
  <2> QED
    BY <1>0, <1>6, <2>2 DEF LockInv, TypeOK, VerifyToken, Go, Holding, Reads
<1>7. CASE Unlock(h)
  <2>1. TypeOK'
    BY <1>0, <1>7 DEF TypeOK, Unlock, Go
  <2> QED
    BY <1>0, <1>7, <2>1 DEF LockInv, TypeOK, Unlock, Go, Holding, Reads
<1> QED
  BY <1>1, <1>2, <1>3, <1>4, <1>5, <1>6, <1>7 DEF Step

LEMMA LockInvAlways == Spec => []LockInv
<1>1. LockInv /\ [Next]_vars => LockInv'
  <2>1. ASSUME LockInv, UNCHANGED vars PROVE LockInv'
    BY <2>1 DEF LockInv, TypeOK, vars, Holding, Reads
  <2> QED
    BY <2>1, LockInvStep DEF Next
<1> QED
  BY LockInvInit, <1>1, PTL DEF Spec

(* The variables of the store keep their types.                            *)
THEOREM StoreTyped == Spec => []TypeOK
<1>1. LockInv => TypeOK
  BY DEF LockInv
<1> QED
  BY <1>1, LockInvAlways, PTL

(* However many handlers use the store at once, the map is never written   *)
(* while another accesses it (store.go, Lock and RLock).                   *)
THEOREM AccessIsExclusive == Spec => []NoConcurrentMapAccess
<1>1. LockInv => NoConcurrentMapAccess
  BY StoreAssumption DEF LockInv, TypeOK, NoConcurrentMapAccess, Holding
<1> QED
  BY <1>1, LockInvAlways, PTL

-----------------------------------------------------------------------------
(* The refinement: a step of the store is a call taking effect, a call     *)
(* beginning or returning, or nothing that the register shows.             *)
stageNow == [h \in Handlers |-> Stage(h)]

StageAt(place) ==
  CASE place = "idle"   -> "returned"
    [] place = "unlock" -> "done"
    [] OTHER            -> "begun"

LEMMA StageChanges ==
  ASSUME LockInv, NEW h \in Handlers, NEW from, NEW to, Go(h, from, to)
  PROVE  /\ stageNow[h] = StageAt(from)
         /\ stageNow' = [stageNow EXCEPT ![h] = StageAt(to)]
<1>1. pc[h] = from /\ pc'[h] = to /\ \A g \in Handlers \ {h} : pc'[g] = pc[g]
  BY DEF LockInv, TypeOK, Go
<1>2. \A g \in Handlers : Stage(g) = StageAt(pc[g]) /\ Stage(g)' = StageAt(pc'[g])
  BY DEF Stage, StageAt
<1>3. /\ stageNow = [g \in Handlers |-> StageAt(pc[g])]
      /\ stageNow' = [g \in Handlers |-> StageAt(pc'[g])]
  BY <1>2 DEF stageNow
<1> QED
  BY <1>1, <1>3

LEMMA StepsRefine ==
  ASSUME LockInv, NEW h \in Handlers, Begin(h) \/ Step(h)
  PROVE  Register!Next \/ UNCHANGED Register!vars
<1>1. CASE Begin(h)
  <2>1. stageNow[h] = "returned" /\ stageNow' = [stageNow EXCEPT ![h] = "begun"]
    <3>1. Go(h, "idle", "lock")
      BY <1>1 DEF Begin
    <3> QED
      BY <3>1, StageChanges DEF StageAt
  <2> QED
    BY <1>1, <2>1 DEF Begin, Register!Next, Register!Begin, Register!Calls, Calls, stageNow
<1>2. CASE Acquire(h) \/ Drain(h) \/ StartWrite(h)
  <2>1. stageNow' = stageNow
    <3>1. \/ Go(h, "lock", "drain") \/ Go(h, "lock", "access")
          \/ Go(h, "drain", "access") \/ Go(h, "access", "writing")
      BY <1>2 DEF Acquire, Lock, RLock, Drain, StartWrite
    <3>2. \E p, q \in {"lock", "drain", "access", "writing"} : Go(h, p, q)
      BY <3>1
    <3>3. PICK p \in {"lock", "drain", "access", "writing"},
               q \in {"lock", "drain", "access", "writing"} : Go(h, p, q)
      BY <3>2
    <3>4. stageNow[h] = "begun" /\ stageNow' = [stageNow EXCEPT ![h] = "begun"]
      BY <3>3, StageChanges DEF StageAt
    <3> QED
      BY <3>4 DEF stageNow
  <2> QED
    BY <1>2, <2>1 DEF Acquire, Lock, RLock, Drain, StartWrite, Register!vars, stageNow
<1>3. CASE StoreToken(h) \/ DeleteToken(h)
  <2>1. stageNow[h] = "begun" /\ stageNow' = [stageNow EXCEPT ![h] = "done"]
    <3>1. Go(h, "writing", "unlock")
      BY <1>3 DEF StoreToken, DeleteToken
    <3> QED
      BY <3>1, StageChanges DEF StageAt
  <2>2. pc[h] = "writing"
    BY <1>3 DEF StoreToken, DeleteToken, Go
  <2>3. ~Torn(h)
    BY <2>2, NobodyElseWrites
  <2>4. Register!Effect(h)
    BY <1>3, <2>1, <2>3 DEF StoreToken, DeleteToken, Register!Effect, stageNow
  <2> QED
    BY <2>4 DEF Register!Next
<1>4. CASE VerifyToken(h)
  <2>1. stageNow[h] = "begun" /\ stageNow' = [stageNow EXCEPT ![h] = "done"]
    <3>1. Go(h, "access", "unlock")
      BY <1>4 DEF VerifyToken
    <3> QED
      BY <3>1, StageChanges DEF StageAt
  <2>2. pc[h] = "access"
    BY <1>4 DEF VerifyToken, Go
  <2>3. ~Torn(h)
    BY <2>2, NobodyElseWrites
  <2>4. Register!Verify(h)
    BY <1>4, <2>1, <2>3 DEF VerifyToken, Reads, Register!Verify, stageNow
  <2> QED
    BY <2>4 DEF Register!Next
<1>5. CASE Unlock(h)
  <2>1. stageNow[h] = "done" /\ stageNow' = [stageNow EXCEPT ![h] = "returned"]
    <3>1. Go(h, "unlock", "idle")
      BY <1>5 DEF Unlock
    <3> QED
      BY <3>1, StageChanges DEF StageAt
  <2>2. Register!Return(h)
    BY <1>5, <2>1 DEF Unlock, Register!Return, stageNow
  <2> QED
    BY <2>2 DEF Register!Next
<1> QED
  BY <1>1, <1>2, <1>3, <1>4, <1>5 DEF Step

(* To its users the store is a register per task whose calls take effect   *)
(* one at a time, like the Redis store.                                    *)
THEOREM StoreIsRegister == Spec => ImplementsRegister
<1>1. Init => Register!Init
  BY DEF Init, Register!Init, Register!Calls, Calls, Stage
<1>2. LockInv /\ [Next]_vars => [Register!Next]_(Register!vars)
  <2>1. ASSUME UNCHANGED vars PROVE UNCHANGED Register!vars
    BY <2>1 DEF vars, Register!vars, Stage
  <2> QED
    BY <2>1, StepsRefine DEF Next
<1> QED
  BY <1>1, <1>2, LockInvAlways, PTL DEF Spec, ImplementsRegister, Register!Spec

==============================================================================
