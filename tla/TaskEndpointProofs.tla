-------------------------- MODULE TaskEndpointProofs --------------------------
(***************************************************************************)
(* What the acceptance flag of the sandbox server achieves, for any number *)
(* of requests of any kind.                                                *)
(***************************************************************************)
EXTENDS TaskEndpoint, TLAPS

IsValidTask(r) == IsTask(r) /\ req[r].method = "POST" /\ Acceptable(req[r])

(* A handler past its checks has a valid task; the flag is set before the  *)
(* runner starts and before anybody is told; a late request is refused.    *)
Locking ==
  /\ \A r \in Requests :
       /\ pc[r] = "validate" => IsTask(r)
       /\ pc[r] \in {"accept", "start", "respond"} => IsValidTask(r)
       /\ runner[r] # "none" => IsValidTask(r) /\ taskAccepted
       /\ pc[r] \in {"start", "respond"} => taskAccepted
       /\ pc[r] \in {"sent", "validate", "accept", "start", "not allowed"}
            => runner[r] = "none"
       /\ r \in late => pc[r] = "not allowed"
  /\ taskAccepted /\ Up => \E r \in Requests : IsValidTask(r) /\ (pc[r] = "start" \/ r \in Started)

EndpointInv == TypeOK /\ Locking

LEMMA EndpointInit == Init => EndpointInv
  BY DEF Init, EndpointInv, TypeOK, Locking, Started, Answered

LEMMA HandlerStep ==
  ASSUME EndpointInv, NEW r \in Requests, Handler(r)
  PROVE  EndpointInv'
<1>0. TypeOK /\ Locking
  BY DEF EndpointInv
<1>u. UNCHANGED req
  BY DEF Handler, TaskHandler, HealthCheckHandler, Begin, Validate, Accept, StartRunner, Respond
<1>v. \A s \in Requests : IsValidTask(s)' = IsValidTask(s) /\ IsTask(s)' = IsTask(s)
  BY <1>u DEF IsValidTask, IsTask
<1>1. CASE Begin(r)
  <2>1. (\E s \in Requests : pc[s] = "ok" /\ req[s].path = "task") => taskAccepted
    BY <1>0 DEF TypeOK, Locking
  <2>2. TypeOK'
    BY <1>0, <1>1 DEF TypeOK, Begin, Go, Answered
  <2>3. IsTask(r) /\ pc[r] = "sent" /\ UNCHANGED <<taskAccepted, runner, process>>
    BY <1>1 DEF Begin, IsTask
  <2>4. r \notin late /\ runner[r] = "none"
    BY <1>0, <2>3 DEF Locking
  <2>5. /\ pc' = [pc EXCEPT ![r] = IF taskAccepted THEN "not allowed" ELSE "validate"]
        /\ late' \subseteq late \union {r}
        /\ r \in late' => taskAccepted
    <3>1. late' = IF \E s \in Requests : pc[s] = "ok" /\ req[s].path = "task"
                  THEN late \union {r} ELSE late
      BY <1>1 DEF Begin
    <3>2. late' = late \/ (late' = late \union {r} /\ taskAccepted)
      BY <2>1, <3>1
    <3> QED
      BY <1>1, <2>4, <3>2 DEF Begin, Go
  <2>6. \A s \in Requests \ {r} : pc'[s] = pc[s] /\ (s \in late' => s \in late)
    BY <1>0, <2>5 DEF TypeOK
  <2>7. pc'[r] \in {"not allowed", "validate"} /\ (taskAccepted => pc'[r] = "not allowed")
    BY <1>0, <2>5 DEF TypeOK
  <2>8. Locking'
    BY <1>0, <1>v, <2>3, <2>4, <2>5, <2>6, <2>7 DEF Locking, Started, Up
  <2> QED
    BY <2>2, <2>8 DEF EndpointInv
<1>2. CASE Validate(r)
  <2>1. TypeOK'
    BY <1>0, <1>2 DEF TypeOK, Validate, Go, Answered
  <2>2. pc'[r] = "accept" => IsValidTask(r)
    BY <1>0, <1>2 DEF TypeOK, Locking, Validate, Go, IsValidTask
  <2>3. /\ pc[r] = "validate" /\ pc'[r] \in {"not allowed", "bad request", "accept"}
        /\ \A s \in Requests \ {r} : pc'[s] = pc[s]
        /\ UNCHANGED <<taskAccepted, runner, process, late>>
    BY <1>0, <1>2 DEF TypeOK, Validate, Go
  <2>4. Locking'
    BY <1>0, <1>v, <2>2, <2>3 DEF Locking, Started, Up
  <2> QED
    BY <2>1, <2>4 DEF EndpointInv
<1>3. CASE Accept(r)
  <2>1. TypeOK'
    BY <1>0, <1>3 DEF TypeOK, Accept, Go, Answered
  <2>2. Locking'
    BY <1>0, <1>3, <1>v, <2>1 DEF TypeOK, Locking, Accept, Go, Started, Up, Answered
  <2> QED
    BY <2>1, <2>2 DEF EndpointInv
<1>4. CASE StartRunner(r)
  <2>1. TypeOK'
    BY <1>0, <1>4 DEF TypeOK, StartRunner, Go, Answered
  <2>2. Locking'
    BY <1>0, <1>4, <1>v, <2>1 DEF TypeOK, Locking, StartRunner, Go, Started, Up, Answered
  <2> QED
    BY <2>1, <2>2 DEF EndpointInv
<1>5. CASE Respond(r)
  <2>1. TypeOK'
    BY <1>0, <1>5 DEF TypeOK, Respond, Go, Answered
  <2>2. Locking'
    BY <1>0, <1>5, <1>v, <2>1 DEF TypeOK, Locking, Respond, Go, Started, Up, Answered
  <2> QED
    BY <2>1, <2>2 DEF EndpointInv
<1>6. CASE HealthCheckHandler(r)
  <2>1. TypeOK'
    BY <1>0, <1>6 DEF TypeOK, HealthCheckHandler, Go, Answered
  <2>2. Locking'
    BY <1>0, <1>6, <1>v, <2>1 DEF TypeOK, Locking, HealthCheckHandler, Go, Started, Up, Answered
  <2> QED
    BY <2>1, <2>2 DEF EndpointInv
<1> QED
  BY <1>1, <1>2, <1>3, <1>4, <1>5, <1>6 DEF Handler, TaskHandler

LEMMA RunnerStep ==
  ASSUME EndpointInv, NEW r \in Requests, RunnerReturns(r)
  PROVE  EndpointInv'
<1>0. TypeOK /\ Locking
  BY DEF EndpointInv
<1>1. \A s \in Requests : IsValidTask(s)' = IsValidTask(s) /\ IsTask(s)' = IsTask(s)
  BY DEF RunnerReturns, IsValidTask, IsTask
<1>2. TypeOK'
  BY <1>0 DEF TypeOK, RunnerReturns, Answered
<1>3. Locking'
  BY <1>0, <1>1 DEF TypeOK, Locking, RunnerReturns, Up, Answered
<1> QED
  BY <1>2, <1>3 DEF EndpointInv

LEMMA EndpointAlways == Spec => []EndpointInv
<1>1. EndpointInv /\ [Next]_vars => EndpointInv'
  <2>1. ASSUME EndpointInv, UNCHANGED vars PROVE EndpointInv'
    BY <2>1 DEF EndpointInv, TypeOK, Locking, vars, IsValidTask, IsTask, Started, Up, Answered
  <2> QED
    BY <2>1, HandlerStep, RunnerStep DEF Next
<1> QED
  BY EndpointInit, <1>1, PTL DEF Spec

(* The server's variables keep their types, and whoever is told that a     *)
(* task was accepted has a runner.                                         *)
THEOREM EndpointTyped == Spec => []TypeOK
<1>1. EndpointInv => TypeOK
  BY DEF EndpointInv
<1> QED
  BY <1>1, EndpointAlways, PTL

(* A request sent after another was accepted never starts a runner, for    *)
(* any number of requests in flight (http.go, taskAccepted).               *)
THEOREM LateRefused == Spec => []LateRequestsAreRefused
<1>1. EndpointInv => LateRequestsAreRefused
  BY DEF EndpointInv, TypeOK, Locking, LateRequestsAreRefused, Started
<1> QED
  BY <1>1, EndpointAlways, PTL

(* The flag is never set by a request that is refused: a server that no    *)
(* longer accepts tasks has one.                                           *)
THEOREM OnlyTasksLock == Spec => []OnlyATaskLocksTheServer
<1>1. EndpointInv => OnlyATaskLocksTheServer
  BY DEF EndpointInv, Locking, OnlyATaskLocksTheServer, IsValidTask
<1> QED
  BY <1>1, EndpointAlways, PTL

==============================================================================
