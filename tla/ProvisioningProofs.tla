-------------------------- MODULE ProvisioningProofs --------------------------
(***************************************************************************)
(* No claim is lost track of by CreateSandbox, and no claim but a created  *)
(* one is polled or deleted, for any number of calls, templates and pools  *)
(* and however little room there is.                                       *)
(***************************************************************************)
EXTENDS Provisioning, TLAPS

ClaimStates == {"Unused", "Live", "Deleted"}

(* A call that has not begun has no claim, a closed one has none left, and *)
(* one that failed with a live claim saw a Create or Delete fail.          *)
Accounted ==
  /\ pc \in [Calls -> Places]
  /\ claim \in [Calls -> ClaimStates]
  /\ unsure \subseteq Calls
  /\ \A c \in Calls : /\ pc[c] = "idle" => claim[c] = "Unused"
                      /\ pc[c] = "closed" => claim[c] = "Deleted"
                      /\ pc[c] = "failed" /\ claim[c] = "Live" => c \in unsure

LEMMA AccountedInit == Init => Accounted
<1>1. SUFFICES ASSUME Init PROVE Accounted
  OBVIOUS
<1>2. /\ pc = [c \in Calls |-> "idle"] /\ claim = [c \in Calls |-> "Unused"]
      /\ unsure = {}
  BY <1>1 DEF Init
<1> HIDE <1>1
<1> QED
  BY <1>2 DEF Accounted, Places, ClaimStates

LEMMA CreateSandboxKeeps ==
  ASSUME Accounted, NEW c \in Calls, CreateSandbox(c)
  PROVE  Accounted'
<1>1. CASE Refuse(c)
  BY <1>1 DEF Accounted, Refuse, Go, Places, ClaimStates, cluster
<1>2. CASE Create(c)
  <2>1. claim' = claim \/ claim' = [claim EXCEPT ![c] = "Live"]
    BY <1>2 DEF Create, Live
  <2>2. \/ Go(c, "idle", "name") /\ UNCHANGED unsure
        \/ Go(c, "idle", "failed") /\ claim' = claim /\ UNCHANGED unsure
        \/ Go(c, "idle", "failed") /\ unsure' = unsure \union {c}
    BY <1>2 DEF Create, Certain, Unsure
  <2> QED
    BY <2>1, <2>2 DEF Accounted, Go, Places, ClaimStates
<1>3. CASE PollName(c) \/ PollReady(c) \/ ReadPod(c)
  <2>1. UNCHANGED <<claim, unsure>>
    BY <1>3 DEF PollName, PollReady, ReadPod, cluster
  <2>2. \/ Go(c, "name", "ready") \/ Go(c, "name", "cleanup") \/ Go(c, "ready", "pod")
        \/ Go(c, "ready", "cleanup") \/ Go(c, "pod", "handle")
    BY <1>3 DEF PollName, PollReady, ReadPod
  <2> QED
    BY <2>1, <2>2 DEF Accounted, Go, Places
<1>4. CASE Cleanup(c)
  <2>1. Go(c, "cleanup", "failed")
    BY <1>4 DEF Cleanup
  <2>2. \/ claim' = [claim EXCEPT ![c] = "Deleted"]
             /\ (UNCHANGED unsure \/ unsure' = unsure \union {c})
        \/ claim' = claim /\ unsure' = unsure \union {c}
    BY <1>4 DEF Cleanup, Delete, Certain, Unsure, cluster
  <2> QED
    BY <2>1, <2>2 DEF Accounted, Go, Places, ClaimStates
<1> QED
  BY <1>1, <1>2, <1>3, <1>4 DEF CreateSandbox

LEMMA CloseKeeps ==
  ASSUME Accounted, NEW c \in Calls, Close(c)
  PROVE  Accounted'
<1>1. \/ /\ Go(c, "handle", "closed") /\ claim' = [claim EXCEPT ![c] = "Deleted"]
         /\ UNCHANGED unsure
      \/ /\ Go(c, "handle", "handle") /\ unsure' = unsure \union {c}
         /\ claim' = [claim EXCEPT ![c] = "Deleted"] \/ claim' = claim
  BY DEF Close, Delete, Certain, Unsure, cluster
<1> QED
  BY <1>1 DEF Accounted, Go, Places, ClaimStates

(* The cluster and the callers' contexts touch neither calls nor claims.   *)
LEMMA OthersKeep ==
  ASSUME Accounted, NEW c \in Calls, AgentSandbox(c) \/ Unsettle(c) \/ Cancel(c)
  PROVE  Accounted'
<1>1. UNCHANGED <<pc, claim, unsure>>
  BY DEF AgentSandbox, Bind, GetReady, Collect, Unsettle, Cancel, SetSandbox, cluster
<1> QED
  BY <1>1 DEF Accounted

LEMMA AccountedAlways == Spec => []Accounted
<1>1. Accounted /\ [Next]_vars => Accounted'
  <2>1. ASSUME Accounted, UNCHANGED vars PROVE Accounted'
    BY <2>1 DEF Accounted, vars, cluster
  <2> QED
    BY <2>1, CreateSandboxKeeps, CloseKeeps, OthersKeep DEF Next
<1> QED
  BY AccountedInit, <1>1, PTL DEF Spec

(* However calls compete, are cancelled or fail, a claim that is left over *)
(* is one whose own Create or Delete failed (client.go:117).               *)
THEOREM NoneForgotten == Spec => []ClaimsAreAccountedFor
<1>1. Accounted => ClaimsAreAccountedFor
  BY DEF Accounted, ClaimsAreAccountedFor, Forgotten
<1> QED
  BY <1>1, AccountedAlways, PTL

-----------------------------------------------------------------------------
NoPool == ""

LEMMA TemplatesNamed == \A t \in Templates : WarmPool(t) # NoPool
BY TemplatesAssumption DEF WarmPool, NoPool

SandboxStates == {"None", "Starting", "Ready", "Gone"}

(* What is known of one call: its claim refers to a pool from its creation *)
(* on, and past Create, until it fails, the call has a claim.              *)
CallOK(c) ==
  /\ pool[c] = NoPool <=> claim[c] = "Unused"
  /\ pc[c] \notin {"idle", "failed"} => claim[c] # "Unused"

Shaped ==
  /\ pc \in [Calls -> Places]
  /\ claim \in [Calls -> ClaimStates]
  /\ pool = [c \in Calls |-> pool[c]]
  /\ sandbox \in [Calls -> SandboxStates]
  /\ cancelled \subseteq Calls /\ unsure \subseteq Calls
  /\ faults \in 0 .. MaxFaults

Consistent == Shaped /\ \A c \in Calls : CallOK(c)

LEMMA ConsistentInit == Init => Consistent
<1> SUFFICES ASSUME Init PROVE Consistent
  OBVIOUS
<1>0. faults = 0
  BY DEF Init
<1>1. faults \in 0 .. MaxFaults
  BY <1>0, ProvisioningAssumption
<1>2. /\ pc \in [Calls -> Places] /\ claim \in [Calls -> ClaimStates]
      /\ sandbox \in [Calls -> SandboxStates]
      /\ cancelled \subseteq Calls /\ unsure \subseteq Calls
      /\ \A c \in Calls : pc[c] = "idle" /\ claim[c] = "Unused"
  BY DEF Init, Places, ClaimStates, SandboxStates
<1>3. pool = [c \in Calls |-> NoPool]
  BY DEF Init, NoPool
<1>4. pool = [c \in Calls |-> pool[c]] /\ \A c \in Calls : pool[c] = NoPool
  BY <1>3
<1> QED
  BY <1>1, <1>2, <1>4 DEF Consistent, Shaped, CallOK

LEMMA FaultsCounted ==
  ASSUME Shaped, Fault \/ NoFault
  PROVE  faults' \in 0 .. MaxFaults
BY ProvisioningAssumption DEF Shaped, Fault, NoFault

(* What a step may do to the call it is of; it touches no other call.      *)
CallStep(c) ==
  \/ claim' = claim /\ pool' = pool /\ pc' = pc
  \/ /\ claim' = claim /\ pool' = pool
     /\ \E from \in Places, to \in Places :
          /\ Go(c, from, to)
          /\ to \notin {"idle", "failed"} => from \notin {"idle", "failed"}
  \/ /\ \E to \in {"name", "failed"} : Go(c, "idle", to)
     /\ \E t \in Templates : Live(c, WarmPool(t))
  \/ /\ pool' = pool /\ claim' = [claim EXCEPT ![c] = "Deleted"]
     /\ \E from \in {"cleanup", "handle"}, to \in {"failed", "handle", "closed"} :
          Go(c, from, to)

LEMMA CallSteps ==
  ASSUME Shaped, NEW c \in Calls,
         CreateSandbox(c) \/ Close(c) \/ AgentSandbox(c) \/ Unsettle(c) \/ Cancel(c)
  PROVE  /\ CallStep(c)
         /\ Fault \/ NoFault
         /\ unsure' \subseteq Calls /\ cancelled' \subseteq Calls
         /\ UNCHANGED sandbox \/ \E s \in SandboxStates : sandbox' = [sandbox EXCEPT ![c] = s]
<1>0. unsure \subseteq Calls /\ cancelled \subseteq Calls
  BY DEF Shaped
<1> DEFINE Goal == /\ CallStep(c)
                   /\ Fault \/ NoFault
                   /\ unsure' \subseteq Calls /\ cancelled' \subseteq Calls
                   /\ \/ UNCHANGED sandbox
                      \/ \E s \in SandboxStates : sandbox' = [sandbox EXCEPT ![c] = s]
<1>1. CASE Refuse(c)
  BY <1>0, <1>1 DEF Refuse, CallStep, cluster, NoFault, Places
<1>2. CASE Create(c)
  <2>1. CallStep(c)
    BY <1>2 DEF Create, CallStep, Places
  <2>2. /\ Fault \/ NoFault
        /\ unsure' \in {unsure, unsure \union {c}}
        /\ UNCHANGED <<sandbox, cancelled>>
    BY <1>2 DEF Create, Certain, Unsure
  <2> QED
    BY <1>0, <2>1, <2>2
<1>3. CASE PollName(c) \/ PollReady(c) \/ ReadPod(c)
  <2>1. /\ \/ Go(c, "name", "ready") \/ Go(c, "name", "cleanup") \/ Go(c, "ready", "pod")
           \/ Go(c, "ready", "cleanup") \/ Go(c, "pod", "handle")
        /\ Fault \/ NoFault
        /\ UNCHANGED <<cluster, cancelled, unsure>>
    BY <1>3 DEF PollName, PollReady, ReadPod
  <2>2. CallStep(c)
    BY <2>1 DEF CallStep, cluster, Places
  <2> QED
    BY <1>0, <2>1, <2>2 DEF cluster
<1>4. CASE Cleanup(c) \/ Close(c)
  <2>1. \/ Go(c, "cleanup", "failed") \/ Go(c, "handle", "closed") \/ Go(c, "handle", "handle")
    BY <1>4 DEF Cleanup, Close
  <2>2. /\ Delete(c) \/ UNCHANGED cluster
        /\ Certain \/ Unsure(c)
        /\ UNCHANGED cancelled
    BY <1>4 DEF Cleanup, Close
  <2>3. CallStep(c) /\ UNCHANGED sandbox
    BY <2>1, <2>2 DEF CallStep, Delete, cluster, Places
  <2> QED
    BY <1>0, <2>2, <2>3 DEF Certain, Unsure
<1>5. CASE AgentSandbox(c) \/ Unsettle(c) \/ Cancel(c)
  <2>1. /\ UNCHANGED <<pc, claim, pool, unsure>> /\ cancelled' \in {cancelled, cancelled \union {c}}
        /\ Fault \/ NoFault
        /\ UNCHANGED sandbox \/ \E s \in SandboxStates : sandbox' = [sandbox EXCEPT ![c] = s]
    BY <1>5 DEF AgentSandbox, Bind, GetReady, Collect, Unsettle, Cancel, SetSandbox,
       SandboxStates, cluster, NoFault
  <2> QED
    BY <1>0, <2>1 DEF CallStep
<1> QED
  BY <1>1, <1>2, <1>3, <1>4, <1>5 DEF CreateSandbox

LEMMA CallStepKeeps ==
  ASSUME Consistent, NEW c \in Calls, CallStep(c)
  PROVE  /\ pc' \in [Calls -> Places] /\ claim' \in [Calls -> ClaimStates]
         /\ pool' = [d \in Calls |-> pool'[d]]
         /\ \A d \in Calls : CallOK(d)'
<1>0. /\ pc \in [Calls -> Places] /\ claim \in [Calls -> ClaimStates]
      /\ pool = [d \in Calls |-> pool[d]]
      /\ \A d \in Calls : CallOK(d)
  BY DEF Consistent, Shaped
<1>1. CASE claim' = claim /\ pool' = pool /\ pc' = pc
  BY <1>0, <1>1 DEF CallOK
<1>2. CASE /\ claim' = claim /\ pool' = pool
           /\ \E from \in Places, to \in Places :
                /\ Go(c, from, to)
                /\ to \notin {"idle", "failed"} => from \notin {"idle", "failed"}
  BY <1>0, <1>2 DEF CallOK, Go
<1>3. CASE /\ \E to \in {"name", "failed"} : Go(c, "idle", to)
           /\ \E t \in Templates : Live(c, WarmPool(t))
  <2>1. PICK p : p # NoPool /\ Live(c, p)
    BY <1>3, TemplatesNamed
  <2>2. PICK to \in {"name", "failed"} : pc' = [pc EXCEPT ![c] = to]
    BY <1>3 DEF Go
  <2>3. /\ claim' \in [Calls -> ClaimStates] /\ pc' \in [Calls -> Places]
        /\ pool' = [d \in Calls |-> pool'[d]]
    BY <1>0, <2>1, <2>2 DEF Live, ClaimStates, Places
  <2>4. /\ claim'[c] = "Live" /\ pool'[c] = p
        /\ \A d \in Calls : d # c => claim'[d] = claim[d] /\ pool'[d] = pool[d] /\ pc'[d] = pc[d]
    BY <1>0, <2>1, <2>2 DEF Live
  <2> QED
    BY <1>0, <2>1, <2>3, <2>4 DEF CallOK
<1>4. CASE /\ pool' = pool /\ claim' = [claim EXCEPT ![c] = "Deleted"]
           /\ \E from \in {"cleanup", "handle"}, to \in {"failed", "handle", "closed"} :
                Go(c, from, to)
  <2>1. claim[c] # "Unused"
    BY <1>0, <1>4 DEF CallOK, Go
  <2>2. claim' \in [Calls -> ClaimStates] /\ pc' \in [Calls -> Places]
    BY <1>0, <1>4 DEF Go, ClaimStates, Places
  <2>3. /\ claim'[c] = "Deleted"
        /\ \A d \in Calls : d # c => claim'[d] = claim[d] /\ pc'[d] = pc[d]
    BY <1>0, <1>4 DEF Go
  <2> QED
    BY <1>0, <1>4, <2>1, <2>2, <2>3 DEF CallOK
<1> QED
  BY <1>1, <1>2, <1>3, <1>4 DEF CallStep

(* The variables of CreateSandbox keep their types, a claim refers to a    *)
(* pool from its creation on, and a call that waits or cleans up knows a   *)
(* claim that was created, so that none polls or deletes the empty name.   *)
THEOREM ProvisioningTyped == Spec => []TypeOK
<1>1. Consistent /\ [Next]_vars => Consistent'
  <2> SUFFICES ASSUME Consistent, [Next]_vars PROVE Consistent'
    OBVIOUS
  <2>1. ASSUME NEW c \in Calls,
               CreateSandbox(c) \/ Close(c) \/ AgentSandbox(c) \/ Unsettle(c) \/ Cancel(c)
        PROVE  Consistent'
    <3>1. Shaped
      BY DEF Consistent
    <3>2. sandbox' \in [Calls -> SandboxStates]
      BY <2>1, <3>1, CallSteps DEF Shaped
    <3>3. faults' \in 0 .. MaxFaults
      BY <2>1, <3>1, CallSteps, FaultsCounted
    <3> QED
      BY <2>1, <3>1, <3>2, <3>3, CallSteps, CallStepKeeps DEF Consistent, Shaped
  <2>2. CASE UNCHANGED vars
    BY <2>2 DEF vars, cluster, Consistent, Shaped, CallOK
  <2> QED
    BY <2>1, <2>2 DEF Next
<1>2. Consistent => TypeOK
  BY DEF Consistent, Shaped, CallOK, TypeOK, NoPool, ClaimStates, SandboxStates
<1> QED
  BY ConsistentInit, <1>1, <1>2, PTL DEF Spec

==============================================================================
