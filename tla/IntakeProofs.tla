----------------------------- MODULE IntakeProofs -----------------------------
(***************************************************************************)
(* What holds of every task, answer and handler of the webhook, for any    *)
(* threads, page length, number of deliveries, failures and restarts.      *)
(***************************************************************************)
EXTENDS WebhookIntake, TLAPS

Wanted(e) == Mentions(e) \/ (Labels(e) /\ ~OnPullRequest(e))

Runnable(t) == ValidateTask(t.fields) /\ Accepts(t.taskType, TaskRequest(t.fields))

(* What GitHub sends was reported after its comment was posted, has a      *)
(* sender and names its thread.                                            *)
Complete(d) ==
  /\ event[d].comment <= thread[event[d].thread]
  /\ event[d].action = "labeled" => event[d].sender = "user"
  /\ Found(event[d])

(* What a handler knows: it goes on only with a request it trusts, and     *)
(* from the time it has read the thread of one that GitHub sent it has     *)
(* read the comment.                                                       *)
HandlerOK(d) ==
  /\ event[d] = NoEvent => pc[d] = "received" /\ task[d] = NoTask
  /\ event[d] # NoEvent /\ Genuine(d) => Complete(d)
  /\ pc[d] \in {"label", "read", "limit", "template", "create", "refused"} \/ d \in Created
       => Trusted(d)
  /\ pc[d] = "label" => Labels(event[d]) /\ OnPullRequest(event[d])
  /\ pc[d] \in {"read", "limit", "template", "create"} => Wanted(event[d])
  /\ pc[d] \in {"template", "create"} /\ Genuine(d) => event[d].comment <= seen[d]
  /\ pc[d] = "created" => d \in Created
  /\ pc[d] = "refused" /\ event[d].action = "labeled" /\ Genuine(d)
       => d \in posted \/ event[d].thread \notin PullRequests
  /\ d \in Created /\ Genuine(d)
       => Runnable(task[d]) /\ event[d].comment <= task[d].comments

IntakeInv == TypeOK /\ \A d \in Deliveries : HandlerOK(d)

LEMMA IntakeInit == Init => IntakeInv
<1> SUFFICES ASSUME Init PROVE IntakeInv
  OBVIOUS
<1>1. TypeOK
  BY IntakeAssumption DEF Init, TypeOK
<1>2. \A d \in Deliveries : HandlerOK(d)
  BY DEF Init, HandlerOK, Genuine, Created
<1> QED
  BY <1>1, <1>2 DEF IntakeInv

-----------------------------------------------------------------------------
(* A delivery stays as it is, or was free and is now somebody's request.   *)
Arrives(d) ==
  \/ event'[d] = event[d] /\ signature'[d] = signature[d]
  \/ event[d] = NoEvent /\ (Genuine(d)' => Complete(d)')

(* A handler that does not move stays right while threads grow, answers    *)
(* are posted, and a request may be delivered to it.                       *)
LEMMA HandlerFrame ==
  ASSUME IntakeInv, NEW d \in Deliveries,
         pc'[d] = pc[d], seen'[d] = seen[d], task'[d] = task[d], secret' = secret,
         posted \subseteq posted',
         thread' \in [Threads -> Nat], \A i \in Threads : thread[i] <= thread'[i],
         Arrives(d)
  PROVE  HandlerOK(d)'
<1>1. HandlerOK(d) /\ TypeOK
  BY DEF IntakeInv
<1>2. (d \in Created)' <=> d \in Created
  BY DEF Created
<1>3. CASE event'[d] = event[d] /\ signature'[d] = signature[d]
  <2>1. (Genuine(d)' <=> Genuine(d)) /\ (Trusted(d)' <=> Trusted(d))
    BY <1>3 DEF Genuine, Trusted
  <2>2. event[d] # NoEvent /\ Genuine(d) => Complete(d)'
    <3> SUFFICES ASSUME event[d] # NoEvent, Genuine(d)
                 PROVE  Complete(d)'
      OBVIOUS
    <3>1. event[d] \in Event
      BY <1>1 DEF TypeOK
    <3>2. event[d].comment \in Nat /\ event[d].thread \in Threads
      BY <3>1 DEF Event
    <3>3. Complete(d)
      BY <1>1 DEF HandlerOK
    <3>4. thread[event[d].thread] \in Nat
      BY <1>1, <3>2 DEF TypeOK
    <3>5. event[d].comment <= thread'[event[d].thread]
      BY <3>2, <3>3, <3>4 DEF Complete
    <3> QED
      BY <1>3, <3>3, <3>5 DEF Complete
  <2> QED
    BY <1>1, <1>2, <1>3, <2>1, <2>2 DEF HandlerOK
<1>4. CASE event[d] = NoEvent /\ (Genuine(d)' => Complete(d)')
  <2>1. pc'[d] = "received" /\ task'[d] = NoTask
    BY <1>1, <1>4 DEF HandlerOK
  <2>2. ~(d \in Created)'
    BY <2>1 DEF Created
  <2> QED
    BY <1>4, <2>1, <2>2 DEF HandlerOK
<1> QED
  BY <1>3, <1>4 DEF Arrives

LEMMA ForeignEvent ==
  ASSUME NEW i \in Threads, NEW f \in Foreign
  PROVE  /\ LabelEvent(i, "agent", f.by, f.names) \in Event
         /\ CommentEvent(i, MaxComments + 1, TRUE, f.by, f.names) \in Event
<1>1. f.by \in Authors /\ f.names \in SUBSET ThreadNames
  BY IntakeAssumption
<1>2. MaxComments + 1 \in Nat
  BY IntakeAssumption
<1> QED
  BY <1>1, <1>2 DEF LabelEvent, CommentEvent, Event, Authors

LEMMA DeliverKeeps ==
  ASSUME TypeOK, NEW e \in Event, NEW sig \in {"valid", "invalid", "missing"},
         Deliver(e, sig)
  PROVE  /\ event' \in [Deliveries -> Event \union {NoEvent}]
         /\ signature' \in [Deliveries -> {"valid", "invalid", "missing"}]
         /\ \A d \in Deliveries :
              \/ event'[d] = event[d] /\ signature'[d] = signature[d]
              \/ event[d] = NoEvent /\ event'[d] = e /\ signature'[d] = sig
<1>1. /\ event \in [Deliveries -> Event \union {NoEvent}]
      /\ signature \in [Deliveries -> {"valid", "invalid", "missing"}]
  BY DEF TypeOK
<1>2. CASE UNCHANGED <<event, signature>>
  BY <1>1, <1>2
<1>3. CASE \E d \in Free : /\ event' = [event EXCEPT ![d] = e]
                           /\ signature' = [signature EXCEPT ![d] = sig]
  BY <1>1, <1>3 DEF Free
<1> QED
  BY <1>2, <1>3 DEF Deliver

(* The events GitHub sends are complete.                                   *)
CompleteEvent(e) ==
  /\ e.comment <= thread'[e.thread]
  /\ e.action = "labeled" => e.sender = "user"
  /\ Found(e)

LEMMA DeliveryArrives ==
  ASSUME TypeOK, NEW e \in Event, NEW sig \in {"valid", "invalid", "missing"},
         Deliver(e, sig), sig = "valid" => CompleteEvent(e)
  PROVE  /\ event' \in [Deliveries -> Event \union {NoEvent}]
         /\ signature' \in [Deliveries -> {"valid", "invalid", "missing"}]
         /\ \A d \in Deliveries : Arrives(d)
<1>1. /\ event' \in [Deliveries -> Event \union {NoEvent}]
      /\ signature' \in [Deliveries -> {"valid", "invalid", "missing"}]
      /\ \A d \in Deliveries :
           \/ event'[d] = event[d] /\ signature'[d] = signature[d]
           \/ event[d] = NoEvent /\ event'[d] = e /\ signature'[d] = sig
  BY DeliverKeeps
<1>2. ASSUME NEW d \in Deliveries PROVE Arrives(d)
  BY <1>1 DEF Arrives, Genuine, Complete, CompleteEvent
<1> QED
  BY <1>1, <1>2

LEMMA AddCommentKeeps ==
  ASSUME TypeOK, NEW i \in Threads, NEW mention \in BOOLEAN,
         NEW by \in Authors, AddComment(i, mention, by)
  PROVE  /\ event' \in [Deliveries -> Event \union {NoEvent}]
         /\ signature' \in [Deliveries -> {"valid", "invalid", "missing"}]
         /\ thread' \in [Threads -> Nat] /\ \A j \in Threads : thread[j] <= thread'[j]
         /\ \A d \in Deliveries : Arrives(d)
<1> DEFINE e == CommentEvent(i, thread[i] + 1, mention, by, ThreadNames)
<1>1. thread \in [Threads -> Nat] /\ thread' = [thread EXCEPT ![i] = @ + 1]
  BY DEF TypeOK, AddComment
<1>2. e \in Event
  BY <1>1 DEF CommentEvent, Event, Authors
<1>3. e.comment = thread[i] + 1 /\ e.thread = i /\ e.action # "labeled" /\ Found(e)
  BY DEF CommentEvent, Found
<1>4. Deliver(e, "valid")
  BY DEF AddComment
<1> HIDE DEF e
<1>5. thread' \in [Threads -> Nat] /\ \A j \in Threads : thread[j] <= thread'[j]
  BY <1>1
<1>6. thread'[i] = thread[i] + 1 /\ thread[i] \in Nat
  BY <1>1
<1>7. CompleteEvent(e)
  BY <1>3, <1>6 DEF CompleteEvent
<1> QED
  BY <1>2, <1>4, <1>5, <1>7, DeliveryArrives

(* What GitHub and the callbacks do disturbs no handler.                   *)
LEMMA QuietGitHub ==
  ASSUME IntakeInv, UNCHANGED <<pc, seen, task, posted, secret>>,
         thread' \in [Threads -> Nat], \A i \in Threads : thread[i] <= thread'[i],
         \A d \in Deliveries : Arrives(d)
  PROVE  \A d \in Deliveries : HandlerOK(d)'
<1> SUFFICES ASSUME NEW d \in Deliveries PROVE HandlerOK(d)'
  OBVIOUS
<1>1. /\ pc'[d] = pc[d] /\ seen'[d] = seen[d] /\ task'[d] = task[d]
      /\ secret' = secret /\ posted \subseteq posted'
  OBVIOUS
<1> QED
  BY <1>1, HandlerFrame

LEMMA DeliveryKeeps ==
  ASSUME IntakeInv, NEW e \in Event, NEW sig \in {"valid", "invalid", "missing"},
         Deliver(e, sig), sig = "valid" => CompleteEvent(e),
         UNCHANGED <<handlerVars, thread, config, secret, posted, answered, pc, faults,
                     crashes>>,
         redelivered' \subseteq Deliveries
  PROVE  IntakeInv'
<1>1. TypeOK
  BY DEF IntakeInv
<1>2. /\ event' \in [Deliveries -> Event \union {NoEvent}]
      /\ signature' \in [Deliveries -> {"valid", "invalid", "missing"}]
      /\ \A d \in Deliveries : Arrives(d)
  BY <1>1, DeliveryArrives
<1>3. TypeOK'
  BY <1>1, <1>2 DEF TypeOK, handlerVars
<1>4. UNCHANGED <<pc, seen, task, posted, secret, thread>>
  BY DEF handlerVars
<1>5. thread' \in [Threads -> Nat] /\ \A i \in Threads : thread[i] <= thread'[i]
  <2>1. thread \in [Threads -> Nat]
    BY <1>1 DEF TypeOK
  <2> QED
    BY <1>4, <2>1
<1>6. \A d \in Deliveries : HandlerOK(d)'
  BY <1>2, <1>4, <1>5, QuietGitHub
<1> QED
  BY <1>3, <1>6 DEF IntakeInv

LEMMA NewCommentKeeps ==
  ASSUME IntakeInv, NEW i \in Threads, NEW mention \in BOOLEAN,
         NEW by \in Authors, AddComment(i, mention, by),
         UNCHANGED <<handlerVars, config, secret, posted, redelivered, pc, faults, crashes>>,
         answered' \subseteq Deliveries
  PROVE  IntakeInv'
<1>1. TypeOK
  BY DEF IntakeInv
<1>2. /\ event' \in [Deliveries -> Event \union {NoEvent}]
      /\ signature' \in [Deliveries -> {"valid", "invalid", "missing"}]
      /\ thread' \in [Threads -> Nat] /\ \A j \in Threads : thread[j] <= thread'[j]
      /\ \A d \in Deliveries : Arrives(d)
  BY <1>1, AddCommentKeeps
<1>3. TypeOK'
  BY <1>1, <1>2 DEF TypeOK, handlerVars
<1>4. UNCHANGED <<pc, seen, task, posted, secret>>
  BY DEF handlerVars
<1>5. \A d \in Deliveries : HandlerOK(d)'
  BY <1>2, <1>4, QuietGitHub
<1> QED
  BY <1>3, <1>5 DEF IntakeInv

LEMMA GitHubStep ==
  ASSUME IntakeInv, GitHub
  PROVE  IntakeInv'
<1>1. TypeOK /\ redelivered \subseteq Deliveries /\ answered \subseteq Deliveries
  BY DEF IntakeInv, TypeOK
<1>2. ASSUME NEW i \in Threads, NEW mention \in BOOLEAN, UserComments(i, mention)
      PROVE  IntakeInv'
  BY <1>1, <1>2, NewCommentKeeps DEF UserComments, Authors
<1>3. ASSUME NEW i \in Threads, thread' = thread,
             NEW e \in {LabelEvent(i, "agent", "user", ThreadNames),
               LabelEvent(i, "other", "user", ThreadNames),
               OtherEvent(i, "created"), OtherEvent(i, "edited"), OtherEvent(i, "malformed")}
      PROVE  e \in Event /\ CompleteEvent(e)
  <2>1. \A label \in {"agent", "other"} :
          LET l == LabelEvent(i, label, "user", ThreadNames) IN
          /\ l \in Event /\ l.comment = 0 /\ l.thread = i /\ l.sender = "user"
          /\ l.names = ThreadNames
    BY DEF LabelEvent, Event, Authors
  <2>2. \A a \in {"created", "edited", "malformed"} :
          LET o == OtherEvent(i, a) IN
          /\ o \in Event /\ o.comment = 0 /\ o.thread = i /\ o.sender = "user"
          /\ o.names = ThreadNames
    BY DEF OtherEvent, Event, Authors
  <2>3. /\ e \in Event /\ e.comment = 0 /\ e.thread = i /\ e.sender = "user"
        /\ e.names = ThreadNames
    BY <1>3, <2>1, <2>2
  <2>4. thread'[i] \in Nat
    BY <1>1, <1>3 DEF TypeOK
  <2> QED
    BY <2>3, <2>4 DEF CompleteEvent, Found
<1>4. ASSUME NEW i \in Threads, NEW label \in {"agent", "other"}, UserLabels(i, label)
      PROVE  IntakeInv'
  <2>1. Deliver(LabelEvent(i, label, "user", ThreadNames), "valid")
    BY <1>4 DEF UserLabels
  <2>2. UNCHANGED <<handlerVars, thread, config, secret, posted, answered, pc, faults, crashes>>
    BY <1>4 DEF UserLabels
  <2>3. redelivered' \subseteq Deliveries
    BY <1>1, <1>4 DEF UserLabels
  <2>4. LET l == LabelEvent(i, label, "user", ThreadNames) IN l \in Event /\ CompleteEvent(l)
    BY <1>3, <2>2
  <2> QED
    BY <2>1, <2>2, <2>3, <2>4, DeliveryKeeps
<1>5. ASSUME NEW i \in Threads, OtherRequest(i)
      PROVE  IntakeInv'
  <2>1. UNCHANGED <<handlerVars, thread, config, secret, posted, answered, pc, faults, crashes>>
    BY <1>5 DEF OtherRequest
  <2>2. redelivered' \subseteq Deliveries
    BY <1>1, <1>5 DEF OtherRequest
  <2>3. ASSUME NEW a \in {"created", "edited", "malformed"}, Deliver(OtherEvent(i, a), "valid")
        PROVE  IntakeInv'
    <3>1. OtherEvent(i, a) \in Event /\ CompleteEvent(OtherEvent(i, a))
      BY <1>3, <2>1
    <3> QED
      BY <2>1, <2>2, <2>3, <3>1, DeliveryKeeps
  <2>4. ASSUME NEW f \in Foreign, NEW e,
               \/ e = LabelEvent(i, "agent", f.by, f.names)
               \/ e = CommentEvent(i, MaxComments + 1, TRUE, f.by, f.names),
               Deliver(e, f.signature)
        PROVE  IntakeInv'
    <3>1. e \in Event
      BY <2>4, ForeignEvent
    <3>2. f.signature \in {"valid", "invalid", "missing"} /\ f.signature # "valid"
      BY IntakeAssumption
    <3> QED
      BY <2>1, <2>2, <2>4, <3>1, <3>2, DeliveryKeeps
  <2> QED
    BY <1>5, <2>3, <2>4 DEF OtherRequest
<1>6. ASSUME NEW d \in Deliveries, Redeliver(d)
      PROVE  IntakeInv'
  <2>1. /\ event[d] # NoEvent /\ Genuine(d) /\ Deliver(event[d], "valid")
        /\ UNCHANGED <<handlerVars, thread, config, secret, posted, answered, pc, faults,
                       crashes>>
    BY <1>6 DEF Redeliver
  <2>2. event[d] \in Event
    BY <1>1, <2>1 DEF TypeOK
  <2>3. CompleteEvent(event[d])
    BY <2>1 DEF IntakeInv, HandlerOK, Complete, CompleteEvent
  <2>4. redelivered' \subseteq Deliveries
    BY <1>1, <1>6 DEF Redeliver, Free
  <2> QED
    BY <2>1, <2>2, <2>3, <2>4, DeliveryKeeps
<1>7. ASSUME NEW d \in Deliveries, NEW mention \in BOOLEAN, Answer(d, mention)
      PROVE  IntakeInv'
  <2>1. event[d] # NoEvent
    BY <1>7 DEF Answer, IntakeInv, HandlerOK
  <2>2. event[d].thread \in Threads
    BY <1>1, <2>1 DEF TypeOK, Event
  <2>3. answered' \subseteq Deliveries
    BY <1>1, <1>7 DEF Answer
  <2>4. /\ AddComment(event[d].thread, mention, "agent") /\ "agent" \in Authors
        /\ UNCHANGED <<handlerVars, config, secret, posted, redelivered, pc, faults, crashes>>
    BY <1>7 DEF Answer, Authors
  <2> QED
    BY <2>2, <2>3, <2>4, NewCommentKeeps
<1> QED
  BY <1>2, <1>4, <1>5, <1>6, <1>7 DEF GitHub

-----------------------------------------------------------------------------
(* A step of one handler that only reads what GitHub keeps.                *)
LEMMA OneHandlerMoves ==
  ASSUME IntakeInv, NEW d \in Deliveries, UNCHANGED <<event, signature, secret, thread, posted>>,
         \A f \in Deliveries \ {d} : pc'[f] = pc[f] /\ seen'[f] = seen[f] /\ task'[f] = task[f],
         TypeOK', HandlerOK(d)'
  PROVE  IntakeInv'
<1>1. thread' \in [Threads -> Nat]
  BY DEF TypeOK
<1>2. \A i \in Threads : thread[i] <= thread'[i]
  BY <1>1
<1>3. ASSUME NEW f \in Deliveries \ {d} PROVE HandlerOK(f)'
  <2>1. Arrives(f) /\ secret' = secret /\ posted \subseteq posted'
    BY DEF Arrives
  <2> QED
    BY <1>1, <1>2, <2>1, HandlerFrame
<1> QED
  BY <1>3 DEF IntakeInv

(* What a handler knows of its delivery, when its delivery stays.          *)
LEMMA DeliveryStays ==
  ASSUME NEW d \in Deliveries, UNCHANGED <<event, signature, secret, thread>>
  PROVE  /\ Genuine(d)' <=> Genuine(d)
         /\ Trusted(d)' <=> Trusted(d)
         /\ Complete(d)' <=> Complete(d)
         /\ event'[d] = event[d]
BY DEF Genuine, Trusted, Complete

LEMMA FaultCounted ==
  ASSUME TypeOK, Fault \/ NoFault
  PROVE  faults' \in 0 .. MaxFaults
<1>1. MaxFaults \in Nat
  BY IntakeAssumption
<1>2. faults \in 0 .. MaxFaults
  BY DEF TypeOK
<1>3. CASE Fault
  BY <1>1, <1>2, <1>3 DEF Fault
<1>4. CASE NoFault
  BY <1>2, <1>4 DEF NoFault
<1> QED
  BY <1>3, <1>4

LEMMA ScreenStep ==
  ASSUME IntakeInv, NEW d \in Deliveries, Screen(d)
  PROVE  IntakeInv'
<1>1. TypeOK /\ HandlerOK(d)
  BY DEF IntakeInv
<1>2. /\ UNCHANGED <<githubVars, handlerVars, posted, faults, crashes>>
      /\ event[d] # NoEvent /\ pc[d] = "received"
  BY DEF Screen
<1>3. PICK to \in {"unauthorized", "bad request", "ignored", "label", "read"} :
        /\ pc' = [pc EXCEPT ![d] = to]
        /\ to = "label" => Labels(event[d]) /\ OnPullRequest(event[d]) /\ Trusted(d)
        /\ to = "read" => Wanted(event[d]) /\ Trusted(d)
  BY DEF Screen, Go, Wanted
<1>4. TypeOK'
  BY <1>1, <1>2, <1>3 DEF TypeOK, githubVars, handlerVars
<1>5. UNCHANGED <<event, signature, secret, thread, posted, seen, task>>
  BY <1>2 DEF githubVars, handlerVars
<1>6. pc'[d] = to /\ \A f \in Deliveries \ {d} : pc'[f] = pc[f]
  BY <1>1, <1>3 DEF TypeOK
<1>7. HandlerOK(d)'
  BY <1>1, <1>2, <1>3, <1>5, <1>6, DeliveryStays DEF HandlerOK, Created, Wanted
<1> QED
  BY <1>4, <1>5, <1>6, <1>7, OneHandlerMoves

LEMMA ReadStep ==
  ASSUME IntakeInv, NEW d \in Deliveries, ReadComments(d)
  PROVE  IntakeInv'
<1> DEFINE n == Comments(event[d])
<1>1. TypeOK /\ HandlerOK(d)
  BY DEF IntakeInv
<1>2. pc[d] = "read" /\ UNCHANGED <<githubVars, template, task, made, posted, crashes>>
  BY DEF ReadComments
<1>3. event[d] # NoEvent /\ event[d] \in Event
  BY <1>1, <1>2 DEF HandlerOK, TypeOK
<1>4. n \in Nat /\ (Genuine(d) => event[d].comment <= n)
  <2>1. thread[event[d].thread] \in Nat
    BY <1>1, <1>3 DEF TypeOK, Event
  <2>2. Genuine(d) => Complete(d)
    BY <1>1, <1>3 DEF HandlerOK
  <2> QED
    BY <2>1, <2>2 DEF Comments, Complete
<1>5. faults' \in 0 .. MaxFaults
  <2>1. Fault \/ NoFault
    BY DEF ReadComments, ReadFails
  <2> QED
    BY <1>1, <2>1, FaultCounted
<1>6. PICK to \in {"limit", "template", "failed"} :
        /\ pc' = [pc EXCEPT ![d] = to]
        /\ IF to = "template" THEN seen' = [seen EXCEPT ![d] = n] ELSE seen' = seen
  BY DEF ReadComments, Go
<1> HIDE DEF n
<1>7. TypeOK'
  BY <1>1, <1>2, <1>4, <1>5, <1>6 DEF TypeOK, githubVars
<1>8. UNCHANGED <<event, signature, secret, thread, posted, task>>
  BY <1>2 DEF githubVars
<1>9. /\ pc'[d] = to /\ (to = "template" => seen'[d] = n)
      /\ \A f \in Deliveries \ {d} : pc'[f] = pc[f] /\ seen'[f] = seen[f]
  BY <1>1, <1>6 DEF TypeOK
<1>10. HandlerOK(d)'
  BY <1>1, <1>2, <1>3, <1>4, <1>8, <1>9, DeliveryStays DEF HandlerOK, Created, Wanted
<1> QED
  BY <1>7, <1>8, <1>9, <1>10, OneHandlerMoves

LEMMA TemplateStep ==
  ASSUME IntakeInv, NEW d \in Deliveries, ReadTemplate(d)
  PROVE  IntakeInv'
<1>1. TypeOK /\ HandlerOK(d)
  BY DEF IntakeInv
<1>2. /\ pc[d] = "template" /\ pc' = [pc EXCEPT ![d] = "create"]
      /\ UNCHANGED <<githubVars, seen, task, made, posted, crashes>>
  BY DEF ReadTemplate, Go
<1>3. faults' \in 0 .. MaxFaults
  <2>1. Fault \/ NoFault
    BY DEF ReadTemplate
  <2> QED
    BY <1>1, <2>1, FaultCounted
<1>4. template' \in [Deliveries -> {"default", "named"}]
  <2>1. ConfigOf(event[d]) \in {"default", "named"}
    BY <1>1 DEF ConfigOf, TypeOK
  <2> QED
    BY <1>1, <2>1 DEF ReadTemplate, TypeOK
<1>5. TypeOK'
  BY <1>1, <1>2, <1>3, <1>4 DEF TypeOK, githubVars
<1>6. UNCHANGED <<event, signature, secret, thread, posted, task, seen>>
  BY <1>2 DEF githubVars
<1>7. pc'[d] = "create" /\ \A f \in Deliveries \ {d} : pc'[f] = pc[f]
  BY <1>1, <1>2 DEF TypeOK
<1>8. HandlerOK(d)'
  BY <1>1, <1>2, <1>6, <1>7, DeliveryStays DEF HandlerOK, Created, Wanted
<1> QED
  BY <1>5, <1>6, <1>7, <1>8, OneHandlerMoves

(* What GitHub sends names its thread, a label event of its has a sender,  *)
(* and only a comment may have no author.                                  *)
LEMMA NewTaskIsRunnable ==
  ASSUME IntakeInv, NEW d \in Deliveries, pc[d] = "create"
  PROVE  /\ NewTask(d) \in AgentTask
         /\ Genuine(d) => Runnable(NewTask(d)) /\ event[d].comment <= NewTask(d).comments
<1> DEFINE e == event[d]
           owner == TaskOwner(e)
           type == IF e.action = "created" THEN "comment" ELSE "pr"
           fields == Fields(e)
<1>1. TypeOK /\ HandlerOK(d)
  BY DEF IntakeInv
<1>2. e \in Event /\ e # NoEvent
  BY <1>1 DEF HandlerOK, TypeOK
<1>3. owner \in Authors /\ e.names \in SUBSET ThreadNames
  BY <1>2 DEF TaskOwner, Event
<1>4. Genuine(d) => e.names = ThreadNames /\ (e.action # "created" => owner = "user")
  BY <1>1, <1>2 DEF HandlerOK, Complete, Found, Wanted, Mentions, Labels, TaskOwner
<1>5. NewTask(d) = [taskType |-> type, fields |-> fields, template |-> template[d],
                    comments |-> seen[d], owner |-> owner]
  BY DEF NewTask
<1>6. type \in TaskTypes /\ fields \in SUBSET SpecFields
  BY <1>3 DEF TaskTypes, Fields, ThreadNames, SpecFields
<1>7. template[d] \in {"default", "named"} /\ seen[d] \in Nat
  BY <1>1 DEF TypeOK
<1>8. Genuine(d) => event[d].comment <= seen[d]
  BY <1>1 DEF HandlerOK
<1>9. Genuine(d) => /\ SpecFields \ {"taskOwner"} \subseteq fields
                    /\ type = "pr" => SpecFields \subseteq fields
  BY <1>4 DEF Fields, ThreadNames, SpecFields
<1> HIDE DEF e, owner, type, fields
<1>10. Genuine(d) => ValidateTask(fields)
  BY <1>9 DEF ValidateTask, SpecFields
<1>11. Genuine(d) => Accepts(type, TaskRequest(fields))
  <2>1. CASE type = "pr"
    BY <1>9, <2>1 DEF Accepts, RequiredFields, TaskRequest, SpecFields
  <2>2. CASE type # "pr"
    BY <1>9, <2>2 DEF Accepts, RequiredFields, TaskRequest, SpecFields
  <2> QED
    BY <2>1, <2>2
<1>12. NewTask(d) \in AgentTask
  BY <1>3, <1>5, <1>6, <1>7 DEF AgentTask
<1>13. NewTask(d).taskType = type /\ NewTask(d).fields = fields /\ NewTask(d).comments = seen[d]
  BY <1>5
<1> QED
  BY <1>8, <1>10, <1>11, <1>12, <1>13 DEF Runnable

LEMMA CreateStep ==
  ASSUME IntakeInv, NEW d \in Deliveries, Create(d)
  PROVE  IntakeInv'
<1>1. TypeOK /\ HandlerOK(d)
  BY DEF IntakeInv
<1>2. pc[d] = "create" /\ UNCHANGED <<githubVars, seen, template, posted, crashes>>
  BY DEF Create
<1>3. faults' \in 0 .. MaxFaults
  <2>1. Fault \/ NoFault
    BY DEF Create
  <2> QED
    BY <1>1, <2>1, FaultCounted
<1>4. PICK to \in {"created", "failed"} :
        /\ pc' = [pc EXCEPT ![d] = to]
        /\ \/ task' = [task EXCEPT ![d] = NewTask(d)] /\ made' = [made EXCEPT ![d] = @ + 1]
           \/ to = "failed" /\ UNCHANGED <<task, made>>
  BY DEF Create, CreateTask, Go
<1>5. /\ NewTask(d) \in AgentTask /\ NewTask(d) # NoTask
      /\ Genuine(d) => Runnable(NewTask(d)) /\ event[d].comment <= NewTask(d).comments
  BY <1>2, NewTaskIsRunnable, NamesAssumption
<1>6. task' \in [Deliveries -> AgentTask \union {NoTask}] /\ made' \in [Deliveries -> Nat]
  <2>1. task \in [Deliveries -> AgentTask \union {NoTask}] /\ made \in [Deliveries -> Nat]
    BY <1>1 DEF TypeOK
  <2>2. task' = task \/ task' = [task EXCEPT ![d] = NewTask(d)]
    BY <1>4
  <2>3. made' = made \/ made' = [made EXCEPT ![d] = @ + 1]
    BY <1>4
  <2>4. task' \in [Deliveries -> AgentTask \union {NoTask}]
    BY <1>5, <2>1, <2>2
  <2>5. made' \in [Deliveries -> Nat]
    BY <2>1, <2>3
  <2> QED
    BY <2>4, <2>5
<1>7. pc' \in [Deliveries ->
       {"received", "limit", "label", "read", "template", "create", "created",
        "refused", "ignored", "bad request", "unauthorized", "failed", "broken"}]
  BY <1>1, <1>4 DEF TypeOK
<1>8. TypeOK'
  BY <1>1, <1>2, <1>3, <1>6, <1>7 DEF TypeOK, githubVars
<1>9. UNCHANGED <<event, signature, secret, thread, posted, seen>>
  BY <1>2 DEF githubVars
<1>10. /\ pc'[d] = to
       /\ \A f \in Deliveries \ {d} : pc'[f] = pc[f] /\ task'[f] = task[f]
       /\ task'[d] = NewTask(d) \/ (to = "failed" /\ task'[d] = task[d])
  BY <1>1, <1>4 DEF TypeOK
<1>11. HandlerOK(d)'
  <2>1. CASE task'[d] = NewTask(d)
    BY <1>1, <1>2, <1>5, <1>9, <1>10, <2>1, DeliveryStays DEF HandlerOK, Created
  <2>2. CASE to = "failed" /\ task'[d] = task[d]
    BY <1>1, <1>2, <1>9, <1>10, <2>2, DeliveryStays DEF HandlerOK, Created
  <2> QED
    BY <1>10, <2>1, <2>2
<1> QED
  BY <1>8, <1>9, <1>10, <1>11, OneHandlerMoves

LEMMA RefuseStep ==
  ASSUME IntakeInv, NEW d \in Deliveries, Refuse(d)
  PROVE  IntakeInv'
<1>1. TypeOK /\ HandlerOK(d)
  BY DEF IntakeInv
<1>2. /\ pc[d] \in {"limit", "label"}
      /\ UNCHANGED <<handlerVars, config, secret, answered, redelivered, crashes>>
  BY DEF Refuse
<1>3. PICK to \in {"refused", "failed"} :
        /\ pc' = [pc EXCEPT ![d] = to]
        /\ PostRefusal(d) \/ PostNothing
        /\ PostRefusal(d) \/ ~Found(event[d]) \/ to = "failed" \/ pc[d] = "limit"
  BY <1>2 DEF Refuse, Go
<1>4. event[d] # NoEvent /\ event[d] \in Event
  BY <1>1, <1>2 DEF HandlerOK, TypeOK
<1>5. /\ event' \in [Deliveries -> Event \union {NoEvent}]
      /\ signature' \in [Deliveries -> {"valid", "invalid", "missing"}]
      /\ thread' \in [Threads -> Nat] /\ \A j \in Threads : thread[j] <= thread'[j]
      /\ \A f \in Deliveries : Arrives(f)
  <2>1. CASE PostRefusal(d)
    <3>1. AddComment(event[d].thread, FALSE, "agent") /\ "agent" \in Authors
      BY <2>1 DEF PostRefusal, Authors
    <3>2. event[d].thread \in Threads
      BY <1>4 DEF Event
    <3> QED
      BY <1>1, <3>1, <3>2, AddCommentKeeps
  <2>2. CASE PostNothing
    <3>1. /\ event \in [Deliveries -> Event \union {NoEvent}]
          /\ signature \in [Deliveries -> {"valid", "invalid", "missing"}]
          /\ thread \in [Threads -> Nat]
      BY <1>1 DEF TypeOK
    <3>2. \A j \in Threads : thread[j] <= thread'[j]
      BY <2>2, <3>1 DEF PostNothing
    <3> QED
      BY <2>2, <3>1, <3>2 DEF PostNothing, Arrives
  <2> QED
    BY <1>3, <2>1, <2>2
<1>6. posted \subseteq posted' /\ posted' \subseteq Deliveries /\ (PostRefusal(d) => d \in posted')
  BY <1>1, <1>3 DEF PostRefusal, PostNothing, TypeOK
<1>7. faults' \in 0 .. MaxFaults
  <2>1. Fault \/ NoFault
    BY DEF Refuse
  <2> QED
    BY <1>1, <2>1, FaultCounted
<1>8. TypeOK'
  BY <1>1, <1>2, <1>3, <1>5, <1>6, <1>7 DEF TypeOK, handlerVars
<1>9. pc'[d] = to /\ \A f \in Deliveries \ {d} : pc'[f] = pc[f]
  BY <1>1, <1>3 DEF TypeOK
<1>10. UNCHANGED <<seen, task, secret>>
  BY <1>2 DEF handlerVars
<1>11. ASSUME NEW f \in Deliveries \ {d} PROVE HandlerOK(f)'
  <2>1. pc'[f] = pc[f] /\ seen'[f] = seen[f] /\ task'[f] = task[f] /\ secret' = secret
    BY <1>9, <1>10
  <2> QED
    BY <1>5, <1>6, <2>1, HandlerFrame
<1>12. HandlerOK(d)'
  <2>1. event'[d] = event[d] /\ signature'[d] = signature[d]
    BY <1>4, <1>5 DEF Arrives
  <2>2. (Genuine(d)' <=> Genuine(d)) /\ (Trusted(d)' <=> Trusted(d))
    BY <1>10, <2>1 DEF Genuine, Trusted
  <2>3. Genuine(d) => Complete(d) /\ Complete(d)'
    <3> SUFFICES ASSUME Genuine(d) PROVE Complete(d) /\ Complete(d)'
      OBVIOUS
    <3>1. event[d].comment \in Nat /\ event[d].thread \in Threads
      BY <1>4 DEF Event
    <3>2. Complete(d)
      BY <1>1, <1>4 DEF HandlerOK
    <3>3. thread[event[d].thread] \in Nat
      BY <1>1, <3>1 DEF TypeOK
    <3>4. event[d].comment <= thread'[event[d].thread]
      BY <1>5, <3>1, <3>2, <3>3 DEF Complete
    <3> QED
      BY <2>1, <3>2, <3>4 DEF Complete
  <2>4. event[d].action = "labeled" /\ pc[d] = "limit" => event[d].thread \notin PullRequests
    BY <1>1 DEF HandlerOK, Wanted, Mentions, OnPullRequest
  <2>5. Genuine(d) => Found(event[d])
    BY <2>3 DEF Complete
  <2> QED
    BY <1>1, <1>2, <1>3, <1>4, <1>6, <1>9, <1>10, <2>1, <2>2, <2>3, <2>4, <2>5
    DEF HandlerOK, Created
<1> QED
  BY <1>8, <1>11, <1>12 DEF IntakeInv

LEMMA RestartStep ==
  ASSUME IntakeInv, Restart
  PROVE  IntakeInv'
<1>1. TypeOK
  BY DEF IntakeInv
<1>2. /\ pc' = [d \in Deliveries |-> IF Open(d) THEN "broken" ELSE pc[d]]
      /\ UNCHANGED <<githubVars, handlerVars, posted, faults>>
      /\ crashes < MaxCrashes /\ crashes' = crashes + 1
  BY DEF Restart
<1>3. crashes' \in 0 .. MaxCrashes
  <2>1. MaxCrashes \in Nat /\ crashes \in 0 .. MaxCrashes
    BY <1>1, IntakeAssumption DEF TypeOK
  <2> QED
    BY <1>2, <2>1
<1>4. pc' \in [Deliveries ->
       {"received", "limit", "label", "read", "template", "create", "created",
        "refused", "ignored", "bad request", "unauthorized", "failed", "broken"}]
  <2>1. \A d \in Deliveries : pc[d] \in
       {"received", "limit", "label", "read", "template", "create", "created",
        "refused", "ignored", "bad request", "unauthorized", "failed", "broken"}
    BY <1>1 DEF TypeOK
  <2> QED
    BY <1>2, <2>1
<1>5. TypeOK'
  BY <1>1, <1>2, <1>3, <1>4 DEF TypeOK, githubVars, handlerVars
<1>6. UNCHANGED <<thread, event, signature, secret, posted, seen, task>>
  BY <1>2 DEF githubVars, handlerVars
<1>7. ASSUME NEW d \in Deliveries PROVE HandlerOK(d)'
  <2>1. HandlerOK(d)
    BY DEF IntakeInv
  <2>2. (d \in Created)' <=> d \in Created
    BY <1>6 DEF Created
  <2>3. CASE Open(d)
    <3>1. event[d] # NoEvent /\ pc'[d] = "broken"
      BY <1>2, <2>3 DEF Open
    <3> QED
      BY <1>6, <2>1, <2>2, <3>1, DeliveryStays DEF HandlerOK
  <2>4. CASE ~Open(d)
    <3>1. pc'[d] = pc[d]
      BY <1>2, <2>4
    <3> QED
      BY <1>6, <2>1, <2>2, <3>1, DeliveryStays DEF HandlerOK
  <2> QED
    BY <2>3, <2>4
<1> QED
  BY <1>5, <1>7 DEF IntakeInv

LEMMA IntakeAlways == Spec => []IntakeInv
<1>1. IntakeInv /\ [Next]_vars => IntakeInv'
  <2> SUFFICES ASSUME IntakeInv, [Next]_vars PROVE IntakeInv'
    OBVIOUS
  <2>1. ASSUME NEW d \in Deliveries, HandleWebhook(d) PROVE IntakeInv'
    BY <2>1, ScreenStep, ReadStep, RefuseStep, TemplateStep, CreateStep DEF HandleWebhook
  <2>2. CASE UNCHANGED vars
    <3>1. TypeOK'
      BY <2>2 DEF IntakeInv, TypeOK, vars, githubVars, handlerVars
    <3>2. \A d \in Deliveries : HandlerOK(d)'
      BY <2>2, DeliveryStays DEF IntakeInv, HandlerOK, Created, vars, githubVars, handlerVars
    <3> QED
      BY <3>1, <3>2 DEF IntakeInv
  <2> QED
    BY <2>1, <2>2, GitHubStep, RestartStep DEF Next
<1> QED
  BY IntakeInit, <1>1, PTL DEF Spec

-----------------------------------------------------------------------------
(* The variables of the intake keep their types: what handleWebhook makes  *)
(* of any event is an AgentTask.                                           *)
THEOREM IntakeTyped == Spec => []TypeOK
<1>1. IntakeInv => TypeOK
  BY DEF IntakeInv
<1> QED
  BY <1>1, IntakeAlways, PTL

(* A task of what GitHub sent, of any request where a secret is set,       *)
(* passes both checks of a spec, that of the orchestrator and that of the  *)
(* sandbox server (listener.go:237); what anybody else sends does not get  *)
(* that far (listener.go:111).                                             *)
THEOREM TasksRunnable == Spec => []TasksAreRunnable
<1>1. IntakeInv => TasksAreRunnable
  BY DEF IntakeInv, HandlerOK, Runnable, TasksAreRunnable, Vouched, Created, Trusted, Genuine
<1> QED
  BY <1>1, IntakeAlways, PTL

(* The prompt of a task holds the comment that asked for it, however the   *)
(* thread grows before and after the handler reads it (listener.go:192).   *)
THEOREM MentionIsRead == Spec => []PromptHoldsTheMention
<1>1. IntakeInv => PromptHoldsTheMention
  BY DEF IntakeInv, HandlerOK, PromptHoldsTheMention, Vouched, Created, Trusted, Genuine
<1> QED
  BY <1>1, IntakeAlways, PTL

(* What GitHub is answered is true: a task that was said to be created is, *)
(* an explanation that was said to be posted is.                           *)
THEOREM AnswersTrue == Spec => []AnswersAreTrue
<1>1. IntakeInv => AnswersAreTrue
  BY DEF IntakeInv, HandlerOK, AnswersAreTrue, Trusted, Genuine
<1> QED
  BY <1>1, IntakeAlways, PTL

-----------------------------------------------------------------------------
(* A handler that may still create its task has not created it.            *)
Working == {"received", "limit", "label", "read", "template", "create"}

MadeOK(d) == made[d] <= 1 /\ (pc[d] \in Working => made[d] = 0)

(* A comment that GitHub reports is reported once, but for the deliveries  *)
(* somebody asked for again.                                               *)
ReportedOnce(d, f) ==
  /\ {d, f} \intersect redelivered = {} /\ Genuine(d) /\ Genuine(f)
  /\ event[d] # NoEvent /\ event[d].comment # 0 /\ event[d] = event[f]
  => d = f

OnceInv == /\ \A d \in Deliveries : MadeOK(d)
           /\ \A d, f \in Deliveries : ReportedOnce(d, f)

(* Tasks are made by Create alone, at the end of a handler.                *)
LEMMA MadeKept ==
  ASSUME IntakeInv, Next, NEW d \in Deliveries, MadeOK(d)
  PROVE  MadeOK(d)'
<1>0. /\ made \in [Deliveries -> Nat]
      /\ pc \in [Deliveries ->
           {"received", "limit", "label", "read", "template", "create", "created",
            "refused", "ignored", "bad request", "unauthorized", "failed", "broken"}]
  BY DEF IntakeInv, TypeOK
<1>1. ASSUME made'[d] = made[d], pc'[d] \in Working => pc[d] \in Working
      PROVE  MadeOK(d)'
  BY <1>1 DEF MadeOK
<1>2. CASE GitHub
  BY <1>1, <1>2 DEF GitHub, UserComments, UserLabels, OtherRequest, Redeliver, Answer,
     handlerVars
<1>3. ASSUME NEW f \in Deliveries, Screen(f) \/ ReadComments(f) \/ Refuse(f) \/ ReadTemplate(f)
      PROVE  MadeOK(d)'
  <2>1. UNCHANGED made
    BY <1>3 DEF Screen, ReadComments, Refuse, ReadTemplate, handlerVars
  <2>2. pc[f] \in Working /\ \E to : Go(f, to)
    BY <1>3 DEF Screen, ReadComments, Refuse, ReadTemplate, Working
  <2>3. d # f => pc'[d] = pc[d]
    BY <1>0, <2>2 DEF Go
  <2> QED
    BY <1>1, <2>1, <2>2, <2>3
<1>4. ASSUME NEW f \in Deliveries, Create(f) PROVE MadeOK(d)'
  <2>1. /\ pc[f] = "create" /\ \E to \in {"created", "failed"} : Go(f, to)
        /\ UNCHANGED made \/ made' = [made EXCEPT ![f] = @ + 1]
    BY <1>4 DEF Create, CreateTask
  <2>2. CASE d = f
    <3>1. made[d] = 0 /\ pc'[d] \in {"created", "failed"}
      BY <1>0, <2>1, <2>2 DEF MadeOK, Working, Go
    <3>2. made'[d] \in {made[d], made[d] + 1}
      BY <1>0, <2>1, <2>2
    <3>3. made'[d] <= 1
      BY <3>1, <3>2
    <3> QED
      BY <3>1, <3>3 DEF MadeOK, Working
  <2>3. CASE d # f
    <3>1. made'[d] = made[d] /\ pc'[d] = pc[d]
      BY <1>0, <2>1, <2>3 DEF Go
    <3> QED
      BY <1>1, <3>1
  <2> QED
    BY <2>2, <2>3
<1>5. CASE Restart
  <2>1. made' = made /\ pc' = [f \in Deliveries |-> IF Open(f) THEN "broken" ELSE pc[f]]
    BY <1>5 DEF Restart, handlerVars
  <2>2. pc'[d] = "broken" \/ pc'[d] = pc[d]
    BY <2>1
  <2> QED
    BY <1>1, <2>1, <2>2 DEF Working
<1> QED
  BY <1>2, <1>3, <1>4, <1>5 DEF Next, HandleWebhook

(* A delivery that changes is a foreign one, or of no comment, or of the   *)
(* comment that was just added, or one that somebody asked for again.      *)
News(d) ==
  \/ ~Genuine(d)' \/ event'[d].comment = 0 \/ d \in redelivered'
  \/ event'[d].comment = thread[event'[d].thread] + 1

Delivered(d) ==
  /\ event[d] = NoEvent /\ News(d)
  /\ \A f \in Deliveries \ {d} : event'[f] = event[f] /\ signature'[f] = signature[f]

DeliveryStep ==
  /\ redelivered \subseteq redelivered'
  /\ UNCHANGED <<event, signature>> \/ \E d \in Deliveries : Delivered(d)

LEMMA DeliverySteps ==
  ASSUME IntakeInv, Next
  PROVE  DeliveryStep
<1>0. /\ event \in [Deliveries -> Event \union {NoEvent}]
      /\ thread \in [Threads -> Nat]
      /\ signature \in [Deliveries -> {"valid", "invalid", "missing"}]
  BY DEF IntakeInv, TypeOK
<1>1. ASSUME NEW e \in Event, NEW sig, Deliver(e, sig), redelivered \subseteq redelivered',
             \/ sig # "valid" \/ e.comment = 0 \/ e.comment = thread[e.thread] + 1
             \/ {f \in Free : event'[f] # NoEvent} \subseteq redelivered'
      PROVE  DeliveryStep
  <2>1. CASE UNCHANGED <<event, signature>>
    BY <1>1, <2>1 DEF DeliveryStep
  <2>2. ASSUME NEW d \in Free, event' = [event EXCEPT ![d] = e],
               signature' = [signature EXCEPT ![d] = sig]
        PROVE  DeliveryStep
    <3>1. d \in Deliveries /\ event[d] = NoEvent
      BY DEF Free
    <3>2. event'[d] = e /\ signature'[d] = sig /\ e # NoEvent
      BY <1>0, <2>2, <3>1, NamesAssumption
    <3>3. News(d)
      BY <1>1, <3>2 DEF News, Genuine
    <3>4. \A f \in Deliveries \ {d} : event'[f] = event[f] /\ signature'[f] = signature[f]
      BY <1>0, <2>2
    <3> QED
      BY <1>1, <3>1, <3>3, <3>4 DEF DeliveryStep, Delivered
  <2> QED
    BY <1>1, <2>1, <2>2 DEF Deliver
<1>2. ASSUME NEW i \in Threads, NEW mention \in BOOLEAN, NEW by \in Authors,
             AddComment(i, mention, by), redelivered' = redelivered
      PROVE  DeliveryStep
  <2> DEFINE e == CommentEvent(i, thread[i] + 1, mention, by, ThreadNames)
  <2>1. thread[i] + 1 \in Nat
    BY <1>0
  <2>2. e \in Event /\ e.comment = thread[i] + 1 /\ e.thread = i
    BY <2>1 DEF CommentEvent, Event, Authors
  <2>3. Deliver(e, "valid")
    BY <1>2 DEF AddComment
  <2> HIDE DEF e
  <2> QED
    BY <1>1, <1>2, <2>2, <2>3
<1>3. ASSUME NEW i \in Threads, NEW label \in {"agent", "other"},
             Deliver(LabelEvent(i, label, "user", ThreadNames), "valid"), redelivered' = redelivered
      PROVE  DeliveryStep
  <2> DEFINE e == LabelEvent(i, label, "user", ThreadNames)
  <2>1. e \in Event /\ e.comment = 0
    BY DEF LabelEvent, Event, Authors
  <2> HIDE DEF e
  <2>2. Deliver(e, "valid")
    BY <1>3 DEF e
  <2> QED
    BY <1>1, <1>3, <2>1, <2>2
<1>4. ASSUME NEW i \in Threads, OtherRequest(i)
      PROVE  DeliveryStep
  <2>1. redelivered' = redelivered
    BY <1>4 DEF OtherRequest
  <2>2. ASSUME NEW a \in {"created", "edited", "malformed"}, Deliver(OtherEvent(i, a), "valid")
        PROVE  DeliveryStep
    <3>1. OtherEvent(i, a) \in Event /\ OtherEvent(i, a).comment = 0
      BY DEF OtherEvent, Event, Authors
    <3> QED
      BY <1>1, <2>1, <2>2, <3>1
  <2>3. ASSUME NEW f \in Foreign, NEW e,
               \/ e = LabelEvent(i, "agent", f.by, f.names)
               \/ e = CommentEvent(i, MaxComments + 1, TRUE, f.by, f.names),
               Deliver(e, f.signature)
        PROVE  DeliveryStep
    <3>1. e \in Event /\ f.signature # "valid"
      BY <2>3, ForeignEvent, IntakeAssumption
    <3> QED
      BY <1>1, <2>1, <2>3, <3>1
  <2> QED
    BY <1>4, <2>2, <2>3 DEF OtherRequest
<1>5. \A d \in Deliveries : event[d] # NoEvent => event[d] \in Event /\ event[d].thread \in Threads
  BY <1>0 DEF Event
<1>6. CASE GitHub
  <2>1. ASSUME NEW i \in Threads, NEW mention \in BOOLEAN, UserComments(i, mention)
        PROVE  DeliveryStep
    BY <1>2, <2>1 DEF UserComments, Authors
  <2>2. ASSUME NEW i \in Threads, NEW label \in {"agent", "other"}, UserLabels(i, label)
        PROVE  DeliveryStep
    BY <1>3, <2>2 DEF UserLabels
  <2>3. ASSUME NEW d \in Deliveries, Redeliver(d) PROVE DeliveryStep
    <3>1. /\ event[d] # NoEvent /\ Deliver(event[d], "valid")
          /\ redelivered' = redelivered \union {f \in Free : event'[f] # NoEvent}
      BY <2>3 DEF Redeliver
    <3> QED
      BY <1>1, <1>5, <3>1
  <2>4. ASSUME NEW d \in Deliveries, NEW mention \in BOOLEAN, Answer(d, mention)
        PROVE  DeliveryStep
    <3>1. event[d] # NoEvent
      BY <2>4 DEF Answer, IntakeInv, HandlerOK
    <3> QED
      BY <1>2, <1>5, <2>4, <3>1 DEF Answer, Authors
  <2> QED
    BY <1>4, <1>6, <2>1, <2>2, <2>3, <2>4 DEF GitHub
<1>7. ASSUME NEW d \in Deliveries, Refuse(d) PROVE DeliveryStep
  <2>1. event[d] # NoEvent
    BY <1>7 DEF Refuse, IntakeInv, HandlerOK
  <2>2. redelivered' = redelivered
        /\ (AddComment(event[d].thread, FALSE, "agent") \/ UNCHANGED <<event, signature>>)
    BY <1>7 DEF Refuse, PostRefusal, PostNothing
  <2> QED
    BY <1>2, <1>5, <2>1, <2>2 DEF DeliveryStep, Authors
<1>8. (\E d \in Deliveries : HandleWebhook(d)) \/ Restart =>
        (\E d \in Deliveries : Refuse(d)) \/ UNCHANGED <<event, signature, redelivered>>
  BY DEF HandleWebhook, Screen, ReadComments, ReadTemplate, Create, Restart, githubVars
<1> QED
  BY <1>6, <1>7, <1>8 DEF Next, DeliveryStep

(* The event of a new comment is like none that was delivered before.      *)
LEMMA NewsIsNew ==
  ASSUME IntakeInv, NEW d \in Deliveries, NEW f \in Deliveries \ {d}, Delivered(d),
         redelivered \subseteq redelivered',
         {d, f} \intersect redelivered' = {}, Genuine(d)', Genuine(f)',
         event'[d] = event'[f], event'[f] # NoEvent, event'[d].comment # 0
  PROVE  FALSE
<1>1. event'[f] = event[f] /\ signature'[f] = signature[f]
  BY DEF Delivered
<1>2. event[f] \in Event /\ Genuine(f)
  BY <1>1 DEF IntakeInv, TypeOK, Genuine
<1>3. event[f].comment <= thread[event[f].thread]
  BY <1>1, <1>2 DEF IntakeInv, HandlerOK, Complete
<1>4. event[f].comment \in Nat /\ thread[event[f].thread] \in Nat
  BY <1>2 DEF IntakeInv, TypeOK, Event
<1>5. event[f].comment = thread[event[f].thread] + 1
  BY <1>1 DEF Delivered, News
<1> QED
  BY <1>3, <1>4, <1>5

LEMMA ReportsKept ==
  ASSUME IntakeInv, DeliveryStep, NEW d \in Deliveries, NEW f \in Deliveries, ReportedOnce(d, f)
  PROVE  ReportedOnce(d, f)'
<1> SUFFICES ASSUME {d, f} \intersect redelivered' = {}, Genuine(d)', Genuine(f)',
                    event'[d] # NoEvent, event'[d].comment # 0, event'[d] = event'[f], d # f
             PROVE  FALSE
  BY DEF ReportedOnce
<1>1. redelivered \subseteq redelivered'
  BY DEF DeliveryStep
<1>2. CASE /\ event'[d] = event[d] /\ signature'[d] = signature[d]
           /\ event'[f] = event[f] /\ signature'[f] = signature[f]
  BY <1>1, <1>2 DEF ReportedOnce, Genuine
<1>3. ASSUME NEW g \in Deliveries, Delivered(g) PROVE FALSE
  <2>1. CASE g = d
    BY <1>1, <1>3, <2>1, NewsIsNew
  <2>2. CASE g = f
    BY <1>1, <1>3, <2>2, NewsIsNew
  <2>3. CASE g \notin {d, f}
    BY <1>2, <1>3, <2>3 DEF Delivered
  <2> QED
    BY <2>1, <2>2, <2>3
<1> QED
  BY <1>2, <1>3 DEF DeliveryStep

(* However deliveries interleave, calls fail and the listener restarts, a  *)
(* delivery makes one task at most, and of two tasks of one comment one is *)
(* of a delivery that somebody asked for again (listener.go:237).          *)
THEOREM OneTask == Spec => []OneTaskPerDelivery
<1>1. Init => OnceInv
  BY DEF Init, OnceInv, MadeOK, ReportedOnce
<1>2. IntakeInv /\ OnceInv /\ [Next]_vars => OnceInv'
  <2> SUFFICES ASSUME IntakeInv, OnceInv, [Next]_vars PROVE OnceInv'
    OBVIOUS
  <2>1. CASE Next
    BY <2>1, MadeKept, DeliverySteps, ReportsKept DEF OnceInv
  <2>2. CASE UNCHANGED vars
    BY <2>2 DEF vars, githubVars, handlerVars, OnceInv, MadeOK, ReportedOnce, Genuine
  <2> QED
    BY <2>1, <2>2
<1>3. IntakeInv /\ OnceInv => OneTaskPerDelivery
  <2> SUFFICES ASSUME IntakeInv, OnceInv PROVE OneTaskPerDelivery
    OBVIOUS
  <2>1. \A d \in Deliveries : made[d] <= 1
    BY DEF OnceInv, MadeOK
  <2>2. ASSUME NEW d \in Vouched \ redelivered, NEW f \in Vouched \ redelivered,
               event[d] = event[f], event[d].comment # 0
        PROVE  d = f
    <3>1. d \in Deliveries /\ f \in Deliveries /\ Genuine(d) /\ Genuine(f)
      BY DEF Vouched, Created, IntakeInv, HandlerOK, Trusted, Genuine
    <3>2. event[d] # NoEvent
      BY <3>1 DEF Vouched, Created, IntakeInv, HandlerOK
    <3> QED
      BY <2>2, <3>1, <3>2 DEF OnceInv, ReportedOnce
  <2> QED
    BY <2>1, <2>2 DEF OneTaskPerDelivery
<1> QED
  BY <1>1, <1>2, <1>3, IntakeAlways, PTL DEF Spec

=============================================================================
