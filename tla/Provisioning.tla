----------------------------- MODULE Provisioning -----------------------------
(***************************************************************************)
(* Client.CreateSandbox step by step: the claim on a warm pool, the polls  *)
(* for the name and the readiness of the Sandbox, the pod, and the cleanup *)
(* of a claim that came to nothing.  Calls are concurrent, one goroutine   *)
(* per task; what they share is the room of the cluster.  Cluster and      *)
(* Orchestrator take a call as two steps; this module is what is inside.   *)
(*                                                                         *)
(* The exit of the process in the middle of a call is OrchestratorRestart. *)
(***************************************************************************)
EXTENDS Integers, FiniteSets

CONSTANTS
  Calls,      \* calls of CreateSandbox, and the claims the API server names
  Templates,  \* [name, suffixed]: "<name>-template", or "<name>" alone
  Pools,      \* names n of the deployed warm pools, "<n>-warmpool"
  Room,       \* sandboxes the cluster has room for
  Cancels,    \* whether a caller may cancel the context of its call
  MaxFaults   \* bound: failed calls, sandboxes lost or not ready any more

ASSUME ProvisioningAssumption ==
  Room \in Nat \ {0} /\ MaxFaults \in Nat /\ Cancels \in BOOLEAN

(* No Kubernetes object is called "-template".                             *)
ASSUME TemplatesAssumption == \A t \in Templates : t.name # ""

VARIABLES
  pc,         \* where each call is; "handle" is the caller's Sandbox
  claim,      \* the SandboxClaim of each call: Unused, Live or Deleted
  pool,       \* the warm pool each claim refers to
  sandbox,    \* the Sandbox of each claim: None, Starting, Ready or Gone
  cancelled,  \* calls whose context is done
  faults,
  unsure      \* history: calls whose Create or Delete returned an error

cluster == <<claim, pool, sandbox>>
vars == <<pc, cluster, cancelled, faults, unsure>>

Places == {"idle", "name", "ready", "pod", "cleanup", "handle", "closed", "failed"}

Fault == faults < MaxFaults /\ faults' = faults + 1
NoFault == UNCHANGED faults

(* The error of a Create or Delete leaves open whether it was applied.     *)
Unsure(c) == Fault /\ unsure' = unsure \union {c}
Certain == NoFault /\ UNCHANGED unsure

Go(c, from, to) == pc[c] = from /\ pc' = [pc EXCEPT ![c] = to]

(* TrimSuffix of "-template", and "-warmpool" appended.                    *)
WarmPool(template) == template.name

Live(c, p) ==
  /\ claim' = [claim EXCEPT ![c] = "Live"]
  /\ pool' = [pool EXCEPT ![c] = p]

Delete(c) == claim' = [claim EXCEPT ![c] = "Deleted"] /\ UNCHANGED <<pool, sandbox>>

-----------------------------------------------------------------------------
(* Without a template nothing is created.                                  *)
Refuse(c) ==
  /\ Go(c, "idle", "failed")
  /\ UNCHANGED <<cluster, cancelled, faults, unsure>>

(* Mutant of Create: the error of the call is not looked at.               *)
CreateIgnoringError(c) ==
  /\ Go(c, "idle", "name")
  /\ \/ Certain /\ c \notin cancelled /\ \E t \in Templates : Live(c, WarmPool(t))
     \/ UNCHANGED <<claim, pool>> /\ (Unsure(c) \/ (c \in cancelled /\ Certain))
  /\ UNCHANGED <<sandbox, cancelled>>

(* An error hides whether the claim was created.                           *)
Create(c) ==
  /\ \/ /\ Go(c, "idle", "name") /\ Certain /\ c \notin cancelled
        /\ \E t \in Templates : Live(c, WarmPool(t))
     \/ /\ Go(c, "idle", "failed") /\ c \in cancelled /\ Certain
        /\ UNCHANGED <<claim, pool>>
     \/ /\ Go(c, "idle", "failed") /\ Unsure(c)
        /\ UNCHANGED <<claim, pool>> \/ \E t \in Templates : Live(c, WarmPool(t))
  /\ UNCHANGED <<sandbox, cancelled>>

(* A tick: read the claim until its status names a Sandbox.                *)
PollName(c) ==
  /\ \/ Go(c, "name", "ready") /\ sandbox[c] # "None" /\ c \notin cancelled /\ NoFault
     \/ Go(c, "name", "cleanup") /\ (Fault \/ (c \in cancelled /\ NoFault))
  /\ UNCHANGED <<cluster, cancelled, unsure>>

(* Mutants of PollReady: a Sandbox that is gone is one that is not ready   *)
(* yet; the claim of one that is gone is left alone.                       *)
PollReadyOnly(c) ==
  /\ \/ Go(c, "ready", "pod") /\ sandbox[c] = "Ready" /\ c \notin cancelled /\ NoFault
     \/ Go(c, "ready", "cleanup") /\ (Fault \/ (c \in cancelled /\ NoFault))
  /\ UNCHANGED <<cluster, cancelled, unsure>>

PollReadyNoCleanup(c) ==
  /\ \/ Go(c, "ready", "pod") /\ sandbox[c] = "Ready" /\ c \notin cancelled /\ NoFault
     \/ Go(c, "ready", "failed") /\ sandbox[c] = "Gone" /\ NoFault
     \/ Go(c, "ready", "cleanup") /\ (Fault \/ (c \in cancelled /\ NoFault))
  /\ UNCHANGED <<cluster, cancelled, unsure>>

(* A tick: read the Sandbox until its condition Ready is true; NotFound,   *)
(* like any error, ends the call.                                          *)
PollReady(c) ==
  /\ \/ Go(c, "ready", "pod") /\ sandbox[c] = "Ready" /\ c \notin cancelled /\ NoFault
     \/ Go(c, "ready", "cleanup") /\ sandbox[c] = "Gone" /\ NoFault
     \/ Go(c, "ready", "cleanup") /\ (Fault \/ (c \in cancelled /\ NoFault))
  /\ UNCHANGED <<cluster, cancelled, unsure>>

(* The pod's address may come from the Sandbox instead, or be missing: an  *)
(* error here is none of the call.                                         *)
ReadPod(c) ==
  /\ Go(c, "pod", "handle")
  /\ NoFault \/ Fault
  /\ UNCHANGED <<cluster, cancelled, unsure>>

(* The deletion has ten seconds of its own; its error is ignored.          *)
Cleanup(c) ==
  /\ Go(c, "cleanup", "failed")
  /\ \/ Delete(c) /\ (Certain \/ Unsure(c))
     \/ UNCHANGED cluster /\ Unsure(c)
  /\ UNCHANGED cancelled

CreateSandbox(c) ==
  Refuse(c) \/ Create(c) \/ PollName(c) \/ PollReady(c) \/ ReadPod(c) \/ Cleanup(c)

(* The caller closes the handle, or never does; after an error it has it   *)
(* still, and a claim that is not found is closed.                         *)
Close(c) ==
  /\ \/ Go(c, "handle", "closed") /\ Delete(c) /\ Certain
     \/ Go(c, "handle", "handle") /\ Unsure(c) /\ (Delete(c) \/ UNCHANGED cluster)
  /\ UNCHANGED cancelled

-----------------------------------------------------------------------------
(* agent-sandbox: claims of a deployed pool get a Sandbox while there is   *)
(* room, Sandboxes become ready, those of deleted claims are removed.      *)
Held == {c \in Calls : sandbox[c] \in {"Starting", "Ready"}}

SetSandbox(c, s) ==
  sandbox' = [sandbox EXCEPT ![c] = s] /\ UNCHANGED <<pc, claim, pool, cancelled, unsure>>

Bind(c) ==
  /\ claim[c] = "Live" /\ sandbox[c] = "None"
  /\ pool[c] \in Pools /\ Cardinality(Held) < Room
  /\ SetSandbox(c, "Starting") /\ NoFault

GetReady(c) == sandbox[c] = "Starting" /\ SetSandbox(c, "Ready") /\ NoFault

Collect(c) ==
  claim[c] = "Deleted" /\ c \in Held /\ SetSandbox(c, "Gone") /\ NoFault

(* A pod is not ready any more, or its node is lost.                       *)
Unsettle(c) ==
  /\ c \in Held /\ \E s \in {"Starting", "Gone"} : SetSandbox(c, s)
  /\ Fault

(* The orchestrator's contexts never are: runCtx is cancelled only when    *)
(* the goroutine that makes the call returns.                              *)
Cancel(c) ==
  /\ Cancels /\ cancelled' = cancelled \union {c}
  /\ UNCHANGED <<pc, cluster, faults, unsure>>

Init ==
  /\ pc = [c \in Calls |-> "idle"]
  /\ claim = [c \in Calls |-> "Unused"]
  /\ pool = [c \in Calls |-> ""]
  /\ sandbox = [c \in Calls |-> "None"]
  /\ cancelled = {}
  /\ faults = 0
  /\ unsure = {}

AgentSandbox(c) == Bind(c) \/ GetReady(c) \/ Collect(c)

Next ==
  \E c \in Calls :
    CreateSandbox(c) \/ Close(c) \/ AgentSandbox(c) \/ Unsettle(c) \/ Cancel(c)

Spec == Init /\ [][Next]_vars

(* A call that was made goes on: the ticker ticks and the API server       *)
(* answers.  The controller works.  Nothing makes a caller close what it   *)
(* was given, and no Close that failed is repeated.                        *)
FairSpec ==
  Spec /\ \A c \in Calls : /\ WF_vars(pc[c] # "idle" /\ CreateSandbox(c))
                           /\ WF_vars(AgentSandbox(c))

-----------------------------------------------------------------------------
(* Also: a call that waits or cleans up knows a claim that was created.    *)
TypeOK ==
  /\ pc \in [Calls -> Places]
  /\ claim \in [Calls -> {"Unused", "Live", "Deleted"}]
  /\ \A c \in Calls : pool[c] = "" <=> claim[c] = "Unused"
  /\ sandbox \in [Calls -> {"None", "Starting", "Ready", "Gone"}]
  /\ cancelled \subseteq Calls
  /\ faults \in 0 .. MaxFaults
  /\ unsure \subseteq Calls
  /\ \A c \in Calls : pc[c] \notin {"idle", "failed"} => claim[c] # "Unused"

(* Claims that exist although their call is over and has returned nothing  *)
(* that could be closed.                                                   *)
Forgotten == {c \in Calls : claim[c] = "Live" /\ pc[c] \in {"failed", "closed"}}

(* client.go:117: whatever becomes of a call, its claim is closed, handed  *)
(* over or cleaned up, unless its own Create or Delete failed; that error  *)
(* is ignored and the claim recorded nowhere.                              *)
ClaimsAreAccountedFor == Forgotten \subseteq unsure

Over(c) == pc[c] \in {"handle", "closed", "failed"}

(* The sandboxes that run although the call they were made for is over:    *)
(* their caller has not closed them, or nobody can.                        *)
Kept == {c \in Held : claim[c] = "Live" /\ Over(c)}

(* client.go:127: CreateSandbox sets no limit of time, so that it returns  *)
(* rests on a warm pool of its template and on room for one more sandbox.  *)
(* If from some time on the sandboxes that were not closed leave room in   *)
(* the cluster, every call for a pool that is deployed comes to an end,    *)
(* whatever sandboxes are lost and whoever else is waiting.                *)
EveryCallReturns ==
  <>[](Cardinality(Kept) < Room) =>
    \A c \in Calls : pc[c] = "name" /\ pool[c] \in Pools ~> Over(c)

==============================================================================
