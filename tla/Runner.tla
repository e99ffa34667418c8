-------------------------------- MODULE Runner --------------------------------
(***************************************************************************)
(* Runner.Run, the work of a sandbox: clone, branch, coding agent, commit, *)
(* push, pull request, callback, exit code.  The attempts at one task each *)
(* run in a sandbox of their own, one after the other or, when a failure   *)
(* made the orchestrator submit again, at the same time; what they share   *)
(* is the repository on GitHub: the branch named after the task and the    *)
(* pull requests of that branch.                                           *)
(*                                                                         *)
(* The configuration of git and the model file, which decide nothing here, *)
(* are part of the step they precede.                                      *)
(***************************************************************************)
EXTENDS Integers, Sequences, FiniteSets

CONSTANTS
  Attempts,    \* sandboxes the task is submitted to
  MaxTries,    \* callbacks an attempt makes (5 in the code)
  MaxFaults,   \* bound: failed calls
  NoAttempt

ASSUME RunnerAssumption ==
  /\ MaxTries \in Nat \ {0} /\ MaxFaults \in Nat
  /\ NoAttempt \notin Attempts

VARIABLES
  taskType,   \* of the task: "comment" or "pr"
  pc,         \* where each attempt is
  code,       \* the exit code of each process that has ended, or Running
  workspace,  \* what the agent left: commits of its own, uncommitted changes
  response,   \* what the callback will say: a pull request, a text, nothing
  tries,      \* callbacks begun
  heard,      \* attempts whose callback was answered with 200
  branch,     \* the attempt whose commits are on each branch of the task
  pulls,      \* pull requests created, by number: their branch and attempt
  open,       \* numbers of the open ones
  faults      \* failed calls so far

local == <<workspace, response>>
github == <<branch, pulls, open>>
vars == <<taskType, pc, code, local, tries, heard, github, faults>>

Running == -1000
Untouched == [commits |-> FALSE, changes |-> FALSE]
NoResponse == [pull |-> 0, text |-> FALSE]
Steps == {"idle", "clone", "branch", "agent", "status", "commit", "push",
          "pull", "callback", "waiting", "exited", "gone"}

(* Mutant of BranchName: each attempt has a branch of its own.             *)
BranchNameOfAttempt(a) == a

(* attribution-test-<task>: every attempt of a task has the same branch.   *)
BranchName(a) == 1

Fault == faults < MaxFaults /\ faults' = faults + 1
NoFault == UNCHANGED faults
Active(a) == pc[a] \notin {"idle", "exited", "gone"}

Go(a, from, to) == pc[a] = from /\ pc' = [pc EXCEPT ![a] = to]

(* Run's first result becomes the process's status, of which the system    *)
(* keeps eight bits.                                                       *)
Exit(a, from, result) ==
  /\ Go(a, from, "exited")
  /\ code' = [code EXCEPT ![a] = result % 256]

-----------------------------------------------------------------------------
(* The task endpoint starts the runner.  A retry follows an attempt that   *)
(* has ended unheard; only a response that was lost or a restart of the    *)
(* orchestrator makes a second submission of a task that is running.       *)
Start(a) ==
  /\ Go(a, "idle", "clone")
  /\ Fault \/ (NoFault /\ heard = {} /\ \A b \in Attempts : ~Active(b))
  /\ UNCHANGED <<taskType, code, local, tries, heard, github>>

(* A step with git that may fail, and leaves the shared state alone.       *)
GitStep(a, from, to) ==
  /\ \/ Go(a, from, to) /\ NoFault /\ UNCHANGED code
     \/ Fault /\ Exit(a, from, 1)
  /\ UNCHANGED <<tries, heard, github>>

Clone(a) ==
  /\ GitStep(a, "clone", IF taskType = "pr" THEN "branch" ELSE "agent")
  /\ UNCHANGED local

Checkout(a) == GitStep(a, "branch", "agent") /\ UNCHANGED local

(* Mutant of Agent: the code of an agent ended by a signal is no failure.  *)
AgentKilledUnnoticed(a) ==
  /\ \/ /\ Go(a, "agent", IF taskType = "pr" THEN "status" ELSE "callback")
        /\ workspace' \in [Attempts -> [commits : BOOLEAN, changes : BOOLEAN]]
        /\ \A b \in Attempts \ {a} : workspace'[b] = workspace[b]
        /\ \E t \in BOOLEAN : response' = [response EXCEPT ![a].text = t]
        /\ UNCHANGED code
     \/ /\ \E c \in {-1, 1, 2} : Exit(a, "agent", IF c > 0 THEN c ELSE 0)
        /\ UNCHANGED local
  /\ UNCHANGED <<tries, heard, github, faults>>

(* The coding agent ends with a code of its own, -1 when a signal ended    *)
(* it, or with a text, maybe empty, and the workspace as it likes.         *)
Agent(a) ==
  /\ \/ /\ Go(a, "agent", IF taskType = "pr" THEN "status" ELSE "callback")
        /\ workspace' \in [Attempts -> [commits : BOOLEAN, changes : BOOLEAN]]
        /\ \A b \in Attempts \ {a} : workspace'[b] = workspace[b]
        /\ \E t \in BOOLEAN : response' = [response EXCEPT ![a].text = t]
        /\ UNCHANGED code
     \/ /\ \E c \in {-1, 1, 2} : Exit(a, "agent", c)
        /\ UNCHANGED local
  /\ UNCHANGED <<tries, heard, github, faults>>

(* git status --porcelain: nothing in it is taken for no changes made.     *)
Status(a) ==
  /\ \/ workspace[a].changes /\ Go(a, "status", "commit") /\ NoFault /\ UNCHANGED code
     \/ ~workspace[a].changes /\ Exit(a, "status", 1) /\ NoFault
     \/ Fault /\ Exit(a, "status", 1)
  /\ UNCHANGED <<local, tries, heard, github>>

Commit(a) ==
  /\ GitStep(a, "commit", "push")
  /\ workspace' = [workspace EXCEPT ![a] = [commits |-> TRUE, changes |-> FALSE]]
  /\ UNCHANGED response

(* push -f: what an earlier attempt pushed is replaced.                    *)
Push(a) ==
  LET pushed == branch' = [branch EXCEPT ![BranchName(a)] = a] IN
  /\ \/ Go(a, "push", "pull") /\ pushed /\ NoFault /\ UNCHANGED code
     \/ Fault /\ Exit(a, "push", 1) /\ (pushed \/ UNCHANGED branch)
  /\ UNCHANGED <<local, tries, heard, pulls, open>>

(* GitHub refuses a second open pull request of one branch.                *)
HasPull(a) == \E n \in open : pulls[n].branch = BranchName(a)
NewPull(a) ==
  /\ pulls' = Append(pulls, [branch |-> BranchName(a), by |-> a])
  /\ open' = open \union {Len(pulls) + 1}

(* Mutant of CreatePull: a pull request that exists is no failure.         *)
CreatePullOrNot(a) ==
  /\ \/ /\ ~HasPull(a) /\ NewPull(a) /\ NoFault
        /\ response' = [response EXCEPT ![a] = [pull |-> Len(pulls) + 1, text |-> TRUE]]
     \/ HasPull(a) /\ NoFault /\ UNCHANGED <<response, pulls, open>>
  /\ Go(a, "pull", "callback")
  /\ UNCHANGED <<code, workspace, tries, heard, branch>>

(* Repositories.Get and PullRequests.Create.                               *)
CreatePull(a) ==
  /\ \/ /\ ~HasPull(a) /\ NewPull(a) /\ NoFault
        /\ Go(a, "pull", "callback") /\ UNCHANGED code
        /\ response' = [response EXCEPT ![a] = [pull |-> Len(pulls) + 1, text |-> TRUE]]
     \/ /\ HasPull(a) /\ Exit(a, "pull", 1) /\ NoFault
        /\ UNCHANGED <<response, pulls, open>>
     \/ /\ Fault /\ Exit(a, "pull", 1) /\ UNCHANGED response
        /\ (~HasPull(a) /\ NewPull(a)) \/ UNCHANGED <<pulls, open>>
  /\ UNCHANGED <<workspace, tries, heard, branch>>

-----------------------------------------------------------------------------
(* backoff.Retry of the callback                                           *)

(* Mutant of Call: the tries are not counted.                              *)
CallUncounted(a) ==
  /\ tries[a] < MaxTries
  /\ Go(a, "callback", "waiting")
  /\ UNCHANGED <<code, local, tries, heard, github, faults>>

(* Mutant of Call: one try too many.                                       *)
CallOnceMore(a) ==
  /\ tries[a] <= MaxTries
  /\ Go(a, "callback", "waiting")
  /\ tries' = [tries EXCEPT ![a] = @ + 1]
  /\ UNCHANGED <<code, local, heard, github, faults>>

Call(a) ==
  /\ tries[a] < MaxTries
  /\ Go(a, "callback", "waiting")
  /\ tries' = [tries EXCEPT ![a] = @ + 1]
  /\ UNCHANGED <<code, local, heard, github, faults>>

(* The listener posts the response and says so; it has no answer for an    *)
(* empty response, which GitHub does not take as a comment.                *)
Hear(a) ==
  /\ response[a].text /\ a \notin heard
  /\ Go(a, "waiting", "waiting")
  /\ heard' = heard \union {a}
  /\ UNCHANGED <<code, local, tries, github, faults>>

NotHeard(a) ==
  /\ a \notin heard /\ (Fault \/ (~response[a].text /\ NoFault))
  /\ Go(a, "waiting", "callback")
  /\ UNCHANGED <<code, local, tries, heard, github>>

(* Mutant of GiveUp: an error of the callback is only logged.              *)
GiveUpAnyway(a) ==
  /\ tries[a] = MaxTries /\ Exit(a, "callback", 0)
  /\ UNCHANGED <<local, tries, heard, github, faults>>

GiveUp(a) ==
  /\ tries[a] = MaxTries /\ Exit(a, "callback", 1)
  /\ UNCHANGED <<local, tries, heard, github, faults>>

Return(a) ==
  /\ a \in heard /\ Exit(a, "waiting", 0)
  /\ UNCHANGED <<local, tries, heard, github, faults>>

Run(a) ==
  /\ \/ Clone(a) \/ Checkout(a) \/ Agent(a) \/ Status(a) \/ Commit(a) \/ Push(a)
     \/ CreatePull(a) \/ Call(a) \/ Hear(a) \/ NotHeard(a) \/ GiveUp(a) \/ Return(a)
  /\ UNCHANGED taskType

-----------------------------------------------------------------------------
(* The sandbox is closed, or its node is lost.                             *)
Lose(a) ==
  /\ Active(a) /\ Go(a, pc[a], "gone")
  /\ UNCHANGED <<taskType, code, local, tries, heard, github, faults>>

(* Somebody merges or closes a pull request.                               *)
ClosePull(n) ==
  /\ open' = open \ {n}
  /\ UNCHANGED <<taskType, pc, code, local, tries, heard, branch, pulls, faults>>

Init ==
  /\ taskType \in {"comment", "pr"}
  /\ pc = [a \in Attempts |-> "idle"]
  /\ code = [a \in Attempts |-> Running]
  /\ workspace = [a \in Attempts |-> Untouched]
  /\ response = [a \in Attempts |-> NoResponse]
  /\ tries = [a \in Attempts |-> 0]
  /\ heard = {}
  /\ branch = [b \in {BranchName(a) : a \in Attempts} |-> NoAttempt]
  /\ pulls = <<>> /\ open = {}
  /\ faults = 0

Next ==
  \/ \E a \in Attempts : Start(a) \/ Run(a) \/ Lose(a)
  \/ \E n \in open : ClosePull(n)

Spec == Init /\ [][Next]_vars

(* The runner is one goroutine; its calls return, and its agent ends.      *)
FairSpec == Spec /\ \A a \in Attempts : WF_vars(Run(a))

-----------------------------------------------------------------------------
TypeOK ==
  /\ taskType \in {"comment", "pr"}
  /\ pc \in [Attempts -> Steps]
  /\ code \in [Attempts -> 0 .. 255 \union {Running}]
  /\ workspace \in [Attempts -> [commits : BOOLEAN, changes : BOOLEAN]]
  /\ response \in [Attempts -> [pull : Nat, text : BOOLEAN]]
  /\ tries \in [Attempts -> 0 .. MaxTries]
  /\ heard \subseteq Attempts
  /\ \A b \in DOMAIN branch : branch[b] \in Attempts \union {NoAttempt}
  /\ \A n \in DOMAIN pulls : pulls[n].by \in Attempts
  /\ open \subseteq DOMAIN pulls
  /\ faults \in 0 .. MaxFaults

(* server.go:252: an attempt at a pr task that calls back announces a pull *)
(* request that exists and that this very attempt created, whatever other  *)
(* attempts at the task push and create meanwhile.                         *)
AnnouncedPullIsItsOwn ==
  taskType = "pr" =>
    \A a \in Attempts : tries[a] > 0 =>
      /\ response[a].pull \in DOMAIN pulls
      /\ pulls[response[a].pull].by = a

(* However many attempts are made at a task, and at whatever point each of *)
(* them fails, the repository never shows two open proposals of it.        *)
OneOpenPullRequest == Cardinality(open) <= 1

(* What the rest of the system relies on: each attempt calls back only     *)
(* after its work, a bounded number of times, and its process ends with 0  *)
(* only if it was heard.                                                   *)
Pod(a) ==
  CASE pc[a] = "exited" -> IF code[a] = 0 THEN "Succeeded" ELSE "Failed"
    [] pc[a] = "gone"   -> "Gone"
    [] OTHER            -> "Busy"

Promise == INSTANCE SandboxAttempts WITH pod <- [a \in Attempts |-> Pod(a)]

ImplementsAttempts == Promise!Spec

(* An attempt that was started ends: the process exits, and with it the    *)
(* pod the orchestrator waits for.                                         *)
EveryAttemptEnds == \A a \in Attempts : pc[a] = "clone" ~> ~Active(a)

==============================================================================
