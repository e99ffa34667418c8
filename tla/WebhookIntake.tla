---------------------------- MODULE WebhookIntake ----------------------------
(***************************************************************************)
(* handleWebhook, the listener's handler of GitHub events, from a delivery *)
(* to the AgentTask it creates.  Deliveries are handled concurrently; each *)
(* call to GitHub or to the API server is a step, may fail, and may have   *)
(* been applied although it failed.  GitHub itself (threads of comments,   *)
(* the deliveries it makes, redeliveries somebody asks for) is the         *)
(* environment, and so are the callback that later answers a task and      *)
(* whoever else sends requests to the endpoint.                            *)
(*                                                                         *)
(* Comments of a thread are numbered; what GetIssueComments returns is the *)
(* number of the last comment on the first page, which is all a prompt is. *)
(* The task created for delivery d is task[d]: its name has a random part. *)
(***************************************************************************)
EXTENDS Naturals, FiniteSets, TaskSpecs

CONSTANTS
  Threads,          \* issues and pull requests of the repository
  PullRequests,     \* the threads that are pull requests
  Foreign,          \* requests that are none of GitHub's
  PerPage,          \* comments on one page (30 in the code)
  MaxDeliveries,    \* bound: deliveries GitHub makes
  MaxRedeliveries,  \* bound: deliveries that repeat an earlier one
  MaxComments,      \* bound: comments on a thread
  MaxFaults,        \* bound: failed calls
  MaxCrashes,       \* bound: restarts of the listener
  NoEvent, NoTask

Authors == {"user", "agent", "nobody"}

(* The fields of an event that name its thread.                            *)
ThreadNames == {"repoOwner", "repoName", "issueNumber"}

ASSUME IntakeAssumption ==
  /\ PullRequests \subseteq Threads
  /\ Foreign \subseteq [by : Authors, names : SUBSET ThreadNames,
                        signature : {"missing", "invalid"}]
  /\ {PerPage, MaxDeliveries, MaxRedeliveries, MaxComments, MaxFaults,
      MaxCrashes} \subseteq Nat

VARIABLES
  thread,     \* the number of comments on each thread
  config,     \* what .cloud-agent.yaml says: a template, or nothing of use
  secret,     \* whether GITHUB_APP_WEBHOOK_SECRET is set
  event,      \* the event of each delivery
  signature,  \* its X-Hub-Signature-256 header; "valid" is GitHub's
  pc,         \* where its handler is, or how it was answered
  seen,       \* the last comment the handler has read
  template,   \* the sandbox template the handler has chosen
  task,       \* the AgentTask created for the delivery
  made,       \* how many AgentTasks were created for it
  posted,     \* deliveries whose refusal is a comment on the thread
  answered,   \* deliveries whose task has been answered by a callback
  redelivered, \* the deliveries that repeat an earlier one
  faults,     \* failed calls so far
  crashes     \* restarts so far

githubVars ==
  <<thread, config, secret, event, signature, answered, redelivered>>
handlerVars == <<seen, template, task, made>>
vars == <<githubVars, handlerVars, pc, posted, faults, crashes>>

Deliveries == 1 .. MaxDeliveries

(* GitHubWebhookEvent: comment 0 is an event without a comment; an event   *)
(* that is no JSON has the action "malformed"; names are the fields that   *)
(* are not empty.  Nothing requires a field: an author or sender may be    *)
(* missing ("nobody").                                                     *)
Event == [action : {"created", "labeled", "edited", "malformed"},
          thread : Threads, comment : Nat, mention : BOOLEAN,
          label : {"agent", "other", "none"}, author : Authors, sender : Authors,
          names : SUBSET ThreadNames]

AgentTask == [taskType : TaskTypes, fields : SUBSET SpecFields,
              template : {"default", "named"}, comments : Nat, owner : Authors]

ASSUME NamesAssumption == NoEvent \notin Event /\ NoTask \notin AgentTask

Free == {d \in Deliveries : event[d] = NoEvent}
Open(d) ==
  /\ event[d] # NoEvent
  /\ pc[d] \in {"received", "limit", "label", "read", "template", "create"}

(* A call fails, or the App's installation for the repository, which every *)
(* call to GitHub looks up first, is not found.                            *)
Fault == faults < MaxFaults /\ faults' = faults + 1
NoFault == UNCHANGED faults

-----------------------------------------------------------------------------
(* GitHub                                                                  *)

(* An event is delivered, or lost when there is no delivery left to model. *)
Deliver(e, sig) ==
  \/ Free = {} /\ UNCHANGED <<event, signature>>
  \/ \E d \in Free : /\ \A f \in Free : d <= f
                     /\ event' = [event EXCEPT ![d] = e]
                     /\ signature' = [signature EXCEPT ![d] = sig]

CommentEvent(i, n, mention, by, names) ==
  [action |-> "created", thread |-> i, comment |-> n, mention |-> mention,
   label |-> "none", author |-> by, sender |-> by, names |-> names]

LabelEvent(i, label, by, names) ==
  [action |-> "labeled", thread |-> i, comment |-> 0, mention |-> FALSE,
   label |-> label, author |-> "nobody", sender |-> by, names |-> names]

OtherEvent(i, action) ==
  [action |-> action, thread |-> i, comment |-> 0, mention |-> FALSE,
   label |-> "none", author |-> "nobody", sender |-> "user", names |-> ThreadNames]

(* A comment is on its thread before its event is delivered.               *)
AddComment(i, mention, by) ==
  /\ thread' = [thread EXCEPT ![i] = @ + 1]
  /\ Deliver(CommentEvent(i, thread[i] + 1, mention, by, ThreadNames), "valid")

UserComments(i, mention) ==
  /\ Free # {} /\ thread[i] < MaxComments
  /\ AddComment(i, mention, "user")
  /\ UNCHANGED <<handlerVars, config, secret, posted, answered, redelivered,
                 pc, faults, crashes>>

UserLabels(i, label) ==
  /\ Free # {}
  /\ Deliver(LabelEvent(i, label, "user", ThreadNames), "valid")
  /\ UNCHANGED <<handlerVars, thread, config, secret, posted, answered,
                 redelivered, pc, faults, crashes>>

(* Events of other actions, and requests that are none of GitHub's, of a   *)
(* label or of a comment that is on no thread.                             *)
OtherRequest(i) ==
  /\ Free # {}
  /\ \/ \E a \in {"created", "edited", "malformed"} :
          Deliver(OtherEvent(i, a), "valid")
     \/ \E f \in Foreign :
          \/ Deliver(LabelEvent(i, "agent", f.by, f.names), f.signature)
          \/ Deliver(CommentEvent(i, MaxComments + 1, TRUE, f.by, f.names), f.signature)
  /\ UNCHANGED <<handlerVars, thread, config, secret, posted, answered,
                 redelivered, pc, faults, crashes>>

(* GitHub's own delivery.  It alone can sign one when there is a secret;   *)
(* without one nobody looks at the header.                                 *)
Genuine(d) == signature[d] = "valid"

(* GitHub does not repeat a delivery by itself, but on request.            *)
Redeliver(d) ==
  /\ event[d] # NoEvent /\ Genuine(d) /\ ~Open(d) /\ Free # {}
  /\ Cardinality(redelivered) < MaxRedeliveries
  /\ Deliver(event[d], "valid")
  /\ redelivered' = redelivered \union {f \in Free : event'[f] # NoEvent}
  /\ UNCHANGED <<handlerVars, thread, config, secret, posted, answered,
                 pc, faults, crashes>>

(* The thread an event names can be found by the client.                   *)
Found(e) == e.names = ThreadNames

(* handleCallback posts the answer to a task as a comment of the App, and  *)
(* GitHub reports that comment like any other.                             *)
Answer(d, mention) ==
  /\ task[d] # NoTask /\ Found(event[d]) /\ d \notin answered
  /\ answered' = answered \union {d}
  /\ AddComment(event[d].thread, mention, "agent")
  /\ UNCHANGED <<handlerVars, config, secret, posted, redelivered, pc,
                 faults, crashes>>

-----------------------------------------------------------------------------
(* handleWebhook                                                           *)

Go(d, to) == pc' = [pc EXCEPT ![d] = to]

(* Mutant of Trusted: a request without the header is let through.         *)
TrustedIfUnsigned(d) == secret => signature[d] # "invalid"

Trusted(d) == secret => signature[d] = "valid"
BadRequest(e) ==
  e.action = "malformed" \/ (e.action = "created" /\ e.comment = 0)
Mentions(e) == e.action = "created" /\ e.comment # 0 /\ e.mention
Labels(e) == e.action = "labeled" /\ e.label = "agent"
OnPullRequest(e) == e.thread \in PullRequests

(* The checks before the first call to an outside service.                 *)
Screen(d) ==
  LET e == event[d] IN
  /\ e # NoEvent /\ pc[d] = "received"
  /\ \/ ~Trusted(d) /\ Go(d, "unauthorized")
     \/ Trusted(d) /\ BadRequest(e) /\ Go(d, "bad request")
     \/ /\ Trusted(d) /\ ~BadRequest(e) /\ ~Mentions(e) /\ ~Labels(e)
        /\ Go(d, "ignored")
     \/ Trusted(d) /\ Labels(e) /\ OnPullRequest(e) /\ Go(d, "label")
     \/ /\ Trusted(d) /\ (Mentions(e) \/ (Labels(e) /\ ~OnPullRequest(e)))
        /\ Go(d, "read")
  /\ UNCHANGED <<githubVars, handlerVars, posted, faults, crashes>>

(* GetIssueComments returns the first page, the oldest comments, and       *)
(* whether there are more.  Of a thread that is not named AppClient makes  *)
(* an error, MockClient an empty page.                                     *)
HasMore(n) == n > PerPage
Comments(e) == IF Found(e) THEN thread[e.thread] ELSE 0
ReadFails(e) == Fault \/ (NoFault /\ ~Found(e))

(* Mutant of ReadComments: the first page will do.                         *)
ReadFirstPage(d) ==
  LET n == Comments(event[d]) IN
  /\ pc[d] = "read"
  /\ \/ /\ Go(d, "template") /\ NoFault
        /\ seen' = [seen EXCEPT ![d] = IF HasMore(n) THEN PerPage ELSE n]
     \/ ReadFails(event[d]) /\ Go(d, "failed") /\ UNCHANGED seen
  /\ UNCHANGED <<githubVars, template, task, made, posted, crashes>>

(* The prompt is of the comments the call returned; a longer thread is not *)
(* worked on.                                                              *)
ReadComments(d) ==
  LET n == Comments(event[d]) IN
  /\ pc[d] = "read"
  /\ \/ HasMore(n) /\ Go(d, "limit") /\ UNCHANGED seen /\ NoFault
     \/ /\ ~HasMore(n) /\ Go(d, "template") /\ NoFault
        /\ seen' = [seen EXCEPT ![d] = n]
     \/ ReadFails(event[d]) /\ Go(d, "failed") /\ UNCHANGED seen
  /\ UNCHANGED <<githubVars, template, task, made, posted, crashes>>

(* PostComment of a refusal; without a thread there is nothing to post on. *)
PostRefusal(d) ==
  /\ Found(event[d])
  /\ posted' = posted \union {d}
  /\ AddComment(event[d].thread, FALSE, "agent")
PostNothing == UNCHANGED <<posted, thread, event, signature>>

(* Mutant of Refuse: no error of PostComment is answered.                  *)
RefuseIgnoringError(d) ==
  /\ pc[d] \in {"limit", "label"} /\ Go(d, "refused")
  /\ \/ NoFault /\ (PostRefusal(d) \/ (~Found(event[d]) /\ PostNothing))
     \/ Fault /\ (PostRefusal(d) \/ PostNothing)
  /\ UNCHANGED <<handlerVars, config, secret, answered, redelivered, crashes>>

(* An error of PostComment is ignored when the thread is too long, and     *)
(* answered with 500 when a pull request was labelled; MockClient makes    *)
(* none of a thread that is not named.                                     *)
Refuse(d) ==
  /\ pc[d] \in {"limit", "label"}
  /\ \/ NoFault /\ PostRefusal(d) /\ Go(d, "refused")
     \/ /\ NoFault /\ ~Found(event[d]) /\ PostNothing
        /\ Go(d, "refused") \/ Go(d, "failed")
     \/ /\ Fault /\ Go(d, IF pc[d] = "limit" THEN "refused" ELSE "failed")
        /\ PostRefusal(d) \/ PostNothing
  /\ UNCHANGED <<handlerVars, config, secret, answered, redelivered, crashes>>

(* What GetFile finds: nothing in a repository that is not named.          *)
ConfigOf(e) ==
  IF {"repoOwner", "repoName"} \subseteq e.names THEN config ELSE "default"

(* Mutant of ReadTemplate: a repository without the file is an error.      *)
ReadTemplateOrFail(d) ==
  /\ pc[d] = "template" /\ NoFault
  /\ \/ /\ ConfigOf(event[d]) = "named" /\ Go(d, "create")
        /\ template' = [template EXCEPT ![d] = config]
     \/ ConfigOf(event[d]) = "default" /\ Go(d, "failed") /\ UNCHANGED template
  /\ UNCHANGED <<githubVars, seen, task, made, posted, crashes>>

(* The template of SYSTEM_AGENT, unless .cloud-agent.yaml can be read and  *)
(* names another; an error of GetFile is no error here.                    *)
ReadTemplate(d) ==
  /\ pc[d] = "template" /\ Go(d, "create")
  /\ \/ NoFault /\ template' = [template EXCEPT ![d] = ConfigOf(event[d])]
     \/ Fault /\ template' = [template EXCEPT ![d] = "default"]
  /\ UNCHANGED <<githubVars, seen, task, made, posted, crashes>>

(* Who asked: the author of a comment, the sender of a label event.        *)
TaskOwner(e) == IF e.action = "created" THEN e.author ELSE e.sender

(* The fields of the spec that are not empty: the prompt ends in a fixed   *)
(* text, the email is formatted from an ID and a login, the rest is        *)
(* whatever the event holds.                                               *)
Fields(e) ==
  {"prompt", "sandboxTemplate", "taskOwnerEmail", "taskType"} \union e.names
    \union IF TaskOwner(e) = "nobody" THEN {} ELSE {"taskOwner"}

(* Mutant of NewTask: the type is the action of the event.                 *)
NewTaskOfAction(d) ==
  [taskType |-> event[d].action, fields |-> Fields(event[d]),
   template |-> template[d], comments |-> seen[d], owner |-> TaskOwner(event[d])]

NewTask(d) ==
  [taskType |-> IF event[d].action = "created" THEN "comment" ELSE "pr",
   fields |-> Fields(event[d]), template |-> template[d],
   comments |-> seen[d], owner |-> TaskOwner(event[d])]

CreateTask(d) ==
  /\ task' = [task EXCEPT ![d] = NewTask(d)]
  /\ made' = [made EXCEPT ![d] = @ + 1]

(* Mutant of Create: an error is tried again, under another random name.   *)
CreateAgain(d) ==
  /\ pc[d] = "create"
  /\ \/ NoFault /\ CreateTask(d) /\ Go(d, "created")
     \/ Fault /\ UNCHANGED pc /\ (CreateTask(d) \/ UNCHANGED <<task, made>>)
  /\ UNCHANGED <<githubVars, seen, template, posted, crashes>>

(* Create is under the request's context, and refused when the name, whose *)
(* random part may repeat, is taken.                                       *)
Create(d) ==
  /\ pc[d] = "create"
  /\ \/ NoFault /\ CreateTask(d) /\ Go(d, "created")
     \/ Fault /\ Go(d, "failed") /\ (CreateTask(d) \/ UNCHANGED <<task, made>>)
  /\ UNCHANGED <<githubVars, seen, template, posted, crashes>>

HandleWebhook(d) ==
  Screen(d) \/ ReadComments(d) \/ Refuse(d) \/ ReadTemplate(d) \/ Create(d)

(* Handlers break off where they are; the listener keeps nothing of them.  *)
Restart ==
  /\ crashes < MaxCrashes /\ crashes' = crashes + 1
  /\ pc' = [d \in Deliveries |-> IF Open(d) THEN "broken" ELSE pc[d]]
  /\ UNCHANGED <<githubVars, handlerVars, posted, faults>>

Init ==
  /\ thread \in [Threads -> 0 .. MaxComments]
  /\ config \in {"default", "named"} /\ secret \in BOOLEAN
  /\ event = [d \in Deliveries |-> NoEvent]
  /\ signature = [d \in Deliveries |-> "missing"]
  /\ pc = [d \in Deliveries |-> "received"]
  /\ seen = [d \in Deliveries |-> 0]
  /\ template = [d \in Deliveries |-> "default"]
  /\ task = [d \in Deliveries |-> NoTask]
  /\ made = [d \in Deliveries |-> 0]
  /\ posted = {} /\ answered = {}
  /\ redelivered = {} /\ faults = 0 /\ crashes = 0

GitHub ==
  \/ \E i \in Threads :
       \/ \E mention \in BOOLEAN : UserComments(i, mention)
       \/ \E label \in {"agent", "other"} : UserLabels(i, label)
       \/ OtherRequest(i)
  \/ \E d \in Deliveries :
       Redeliver(d) \/ \E mention \in BOOLEAN : Answer(d, mention)

Next == GitHub \/ (\E d \in Deliveries : HandleWebhook(d)) \/ Restart

Spec == Init /\ [][Next]_vars

(* Every handler has a goroutine of its own and only waits for answers.    *)
FairSpec == Spec /\ \A d \in Deliveries : WF_vars(HandleWebhook(d))

-----------------------------------------------------------------------------
TypeOK ==
  /\ thread \in [Threads -> Nat]
  /\ config \in {"default", "named"} /\ secret \in BOOLEAN
  /\ event \in [Deliveries -> Event \union {NoEvent}]
  /\ signature \in [Deliveries -> {"valid", "invalid", "missing"}]
  /\ pc \in [Deliveries ->
       {"received", "limit", "label", "read", "template", "create", "created",
        "refused", "ignored", "bad request", "unauthorized", "failed", "broken"}]
  /\ seen \in [Deliveries -> Nat]
  /\ template \in [Deliveries -> {"default", "named"}]
  /\ task \in [Deliveries -> AgentTask \union {NoTask}]
  /\ made \in [Deliveries -> Nat]
  /\ {posted, answered, redelivered} \subseteq SUBSET Deliveries
  /\ faults \in 0 .. MaxFaults /\ crashes \in 0 .. MaxCrashes

Created == {d \in Deliveries : task[d] # NoTask}

(* The tasks of what GitHub sent: all of them where a secret is set.       *)
(* Without one anybody's request may become a task, and says what it likes *)
(* or nothing at all.                                                      *)
Vouched == {d \in Created : secret \/ Genuine(d)}

(* Every task of what GitHub sent passes validateTask, and the request the *)
(* orchestrator makes of it is accepted by the sandbox server.  Where a    *)
(* secret is set no request, whoever sends it, becomes a task that is      *)
(* refused for ever.                                                       *)
TasksAreRunnable ==
  \A d \in Vouched :
    /\ ValidateTask(task[d].fields)
    /\ Accepts(task[d].taskType, TaskRequest(task[d].fields))

(* However long the thread has grown when the handler reads it, the prompt *)
(* of a task holds the comment that asked for it.                          *)
PromptHoldsTheMention ==
  \A d \in Vouched : event[d].comment <= task[d].comments

(* An answer of 201 is true, the task exists; and so is one of 200 to what *)
(* GitHub sent of a label on a pull request, the explanation is there.     *)
AnswersAreTrue ==
  \A d \in Deliveries :
    /\ pc[d] = "created" => d \in Created
    /\ pc[d] = "refused" /\ event[d].action = "labeled" /\ (secret \/ Genuine(d))
         => d \in posted \/ event[d].thread \notin PullRequests

(* A delivery leads to one task at most, whatever calls fail and whenever  *)
(* the listener restarts.  Nothing in it recognises a comment it has seen: *)
(* of two tasks of one comment, one is of a delivery of that comment's     *)
(* event that somebody asked GitHub to make again.                         *)
OneTaskPerDelivery ==
  /\ \A d \in Deliveries : made[d] <= 1
  /\ \A d, f \in Vouched \ redelivered :
       event[d] = event[f] /\ event[d].comment # 0 => d = f

(* A genuine request, a mention on any thread or the label on an issue, is *)
(* answered by a task or by a comment that explains why there is none.     *)
(* Only a call that failed or a restart may leave it without either.       *)
Requested(d) ==
  event[d] # NoEvent /\ Genuine(d) /\ (Mentions(event[d]) \/ Labels(event[d]))
EveryRequestIsAnswered ==
  \A d \in Deliveries :
    Requested(d) ~> \/ d \in Created \union posted
                    \/ faults > 0 /\ pc[d] \in {"failed", "refused"}
                    \/ crashes > 0 /\ pc[d] = "broken"

==============================================================================
