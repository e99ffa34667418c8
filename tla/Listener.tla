------------------------------ MODULE Listener ------------------------------
(***************************************************************************)
(* The webhook listener after it has read a GitHub event: it creates       *)
(* AgentTasks, issues the result callback token of an attempt and handles  *)
(* the callback a sandbox makes when its coding agent is done.  The        *)
(* callback handler runs once per HTTP request, concurrently with every    *)
(* other handler and with the orchestrator, so each of its calls to the    *)
(* API server, the token store and GitHub is a step.                       *)
(*                                                                         *)
(* A token is the claim of the attempt it was issued for: the token store  *)
(* holds at most one per task and a new one overwrites it.                 *)
(***************************************************************************)
EXTENDS Cluster

VARIABLES
  tokens,    \* the token store: the token on record for each task
  cb,        \* the callback handler of each attempt's i-th request
  tries,     \* the callback request the runner in each pod is waiting on
  comments   \* comments posted on GitHub by the callbacks of each attempt

listenerVars == <<tokens, cb, tries, comments>>

CallbackPC == {"none", "received", "verify", "consume", "comment", "complete",
               "ok", "error"}

NoCallback == [pc |-> "none", snap |-> NoAgentTask]

InProgress(c, i) == cb[c][i].pc \notin {"none", "ok", "error"}

(* The token store                                                         *)
StoreToken(t, c) == tokens' = [tokens EXCEPT ![t] = c]
VerifyToken(t, c) == tokens[t] = c
DeleteToken(t) == tokens' = [tokens EXCEPT ![t] = NoClaim]

(* Task creation ends handleWebhook; objects created by hand have state "".*)
CreateTask(t, s) ==
  /\ task[t].state = "Absent"
  /\ task' = [task EXCEPT ![t] = [NoAgentTask EXCEPT !.state = s, !.rv = task[t].rv + 1]]
  /\ events' = [events EXCEPT ![t] = @ + 1]
  /\ UNCHANGED <<claim, owner, pod, podEvents, faults, crashes, listenerVars>>

(* handleGenerateTokens as its caller sees it: a minted token is on record *)
(* before the response, which may be lost.                                 *)
GenerateTokens(t, c, ok) ==
  \/ ok /\ Exists(t) /\ StoreToken(t, c) /\ NoFault
  \/ ~ok /\ ~Exists(t) /\ UNCHANGED tokens /\ NoFault
  \/ ~ok /\ Fault /\ UNCHANGED tokens
  \/ ~ok /\ Fault /\ Exists(t) /\ StoreToken(t, c)

-----------------------------------------------------------------------------
(* handleCallback                                                          *)

(* The runner still holds the connection of this request.                  *)
Waiting(c, i) == pod[c] = "Busy" /\ tries[c] = i

(* A call under the request's context fails; it may whenever the client    *)
(* has gone, for that cancels the context.                                 *)
CallFails(c, i) == Fault \/ (~Waiting(c, i) /\ NoFault)

Conclude(c, i, result) ==
  cb' = [cb EXCEPT ![c][i] = [pc |-> result, snap |-> NoAgentTask]]

Proceed(c, i, pc) == cb' = [cb EXCEPT ![c][i].pc = pc]

(* The AgentTask is read here; the update at the end is of this version.   *)
CallbackGet(c, i) ==
  /\ cb[c][i].pc = "received"
  /\ \/ /\ Exists(owner[c])
        /\ cb' = [cb EXCEPT ![c][i] = [pc |-> "verify", snap |-> task[owner[c]]]]
        /\ NoFault
     \/ ~Exists(owner[c]) /\ Conclude(c, i, "error") /\ NoFault
     \/ CallFails(c, i) /\ Conclude(c, i, "error")
  /\ UNCHANGED <<task, events, claim, owner, pod, podEvents, crashes,
                 tokens, tries, comments>>

(* Mutant of CallbackVerify: any token on record for the task will do.     *)
CallbackVerifyAnyToken(c, i) ==
  /\ cb[c][i].pc = "verify"
  /\ \/ tokens[owner[c]] # NoClaim /\ Proceed(c, i, "consume") /\ NoFault
     \/ tokens[owner[c]] = NoClaim /\ Conclude(c, i, "error") /\ NoFault
     \/ CallFails(c, i) /\ Conclude(c, i, "error")
  /\ UNCHANGED <<task, events, claim, owner, pod, podEvents, crashes,
                 tokens, tries, comments>>

(* The token presented must be the one on record for the task.             *)
CallbackVerify(c, i) ==
  /\ cb[c][i].pc = "verify"
  /\ \/ VerifyToken(owner[c], c) /\ Proceed(c, i, "consume") /\ NoFault
     \/ ~VerifyToken(owner[c], c) /\ Conclude(c, i, "error") /\ NoFault
     \/ CallFails(c, i) /\ Conclude(c, i, "error")
  /\ UNCHANGED <<task, events, claim, owner, pod, podEvents, crashes,
                 tokens, tries, comments>>

(* Mutant of CallbackConsume: the token stays on record.                   *)
CallbackConsumeNothing(c, i) ==
  /\ cb[c][i].pc = "consume"
  /\ \/ Proceed(c, i, "comment") /\ NoFault
     \/ CallFails(c, i) /\ Conclude(c, i, "error")
  /\ UNCHANGED <<task, events, claim, owner, pod, podEvents, crashes,
                 tokens, tries, comments>>

(* DeleteToken is by task: it removes whatever token is on record.         *)
CallbackConsume(c, i) ==
  /\ cb[c][i].pc = "consume"
  /\ \/ DeleteToken(owner[c]) /\ Proceed(c, i, "comment") /\ NoFault
     \/ /\ CallFails(c, i) /\ Conclude(c, i, "error")
        /\ DeleteToken(owner[c]) \/ UNCHANGED tokens
  /\ UNCHANGED <<task, events, claim, owner, pod, podEvents, crashes,
                 tries, comments>>

PostComment(c) == comments' = [comments EXCEPT ![c] = @ + 1]

(* The call to GitHub is not under the request's context.                  *)
CallbackComment(c, i) ==
  /\ cb[c][i].pc = "comment"
  /\ \/ PostComment(c) /\ Proceed(c, i, "complete") /\ NoFault
     \/ Fault /\ Conclude(c, i, "error") /\ (PostComment(c) \/ UNCHANGED comments)
  /\ UNCHANGED <<task, events, claim, owner, pod, podEvents, crashes,
                 tokens, tries>>

CallbackComplete(c, i) ==
  LET obj == [cb[c][i].snap EXCEPT !.state = "Completed"] IN
  /\ cb[c][i].pc = "complete"
  /\ \/ UpdateTask(owner[c], obj, TRUE) /\ Conclude(c, i, "ok")
     \/ UpdateTask(owner[c], obj, FALSE) /\ Conclude(c, i, "error")
     \/ /\ ~Waiting(c, i) /\ NoFault /\ UNCHANGED <<task, events>>
        /\ Conclude(c, i, "error")
  /\ UNCHANGED <<claim, owner, pod, podEvents, crashes, tokens, tries, comments>>

Callback(c, i) ==
  \/ CallbackGet(c, i)
  \/ CallbackVerify(c, i)
  \/ CallbackConsume(c, i)
  \/ CallbackComment(c, i)
  \/ CallbackComplete(c, i)

-----------------------------------------------------------------------------

(* A token's 24 hours pass, or Redis, which persists nothing, restarts.    *)
LoseToken(t) ==
  /\ tokens[t] # NoClaim
  /\ Fault
  /\ DeleteToken(t)
  /\ UNCHANGED <<task, events, claim, owner, pod, podEvents, crashes,
                 cb, tries, comments>>

(* The listener restarts: requests in progress break off where they are,   *)
(* and the in-memory token store, used without REDIS_URL, starts empty.    *)
ListenerRestart ==
  /\ crashes < MaxCrashes
  /\ crashes' = crashes + 1
  /\ cb' = [c \in Claims |-> [i \in 1 .. MaxTries |->
              IF InProgress(c, i) THEN [pc |-> "error", snap |-> NoAgentTask]
                                  ELSE cb[c][i]]]
  /\ tokens' \in {tokens, [t \in Tasks |-> NoClaim]}
  /\ UNCHANGED <<task, events, claim, owner, pod, podEvents, faults,
                 tries, comments>>

ListenerInit ==
  /\ tokens = [t \in Tasks |-> NoClaim]
  /\ cb = [c \in Claims |-> [i \in 1 .. MaxTries |-> NoCallback]]
  /\ tries = [c \in Claims |-> 0]
  /\ comments = [c \in Claims |-> 0]

ListenerTypeOK ==
  /\ tokens \in [Tasks -> Claims \union {NoClaim}]
  /\ cb \in [Claims -> [1 .. MaxTries -> [pc : CallbackPC, snap : AgentTask]]]
  /\ tries \in [Claims -> 0 .. MaxTries]
  /\ comments \in [Claims -> Nat]

==============================================================================
