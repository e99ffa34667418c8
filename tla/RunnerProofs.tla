----------------------------- MODULE RunnerProofs -----------------------------
(***************************************************************************)
(* What the attempts at a task promise, for any number of attempts, tries  *)
(* and failures: each announces only the pull request it created, there is *)
(* never a second open one, and to the rest of the system each is the      *)
(* runner of SandboxAttempts.                                              *)
(***************************************************************************)
EXTENDS Runner, TLAPS, FiniteSetTheorems

Work == {"clone", "branch", "agent", "status", "commit", "push", "pull"}
PullRequest == [branch : {1}, by : Attempts]

Own(a) == response[a].pull \in DOMAIN pulls /\ pulls[response[a].pull].by = a

(* Types, as far as the rest needs them.                                   *)
Typed ==
  /\ taskType \in {"comment", "pr"}
  /\ pc \in [Attempts -> Steps]
  /\ code \in [Attempts -> Int]
  /\ response \in [Attempts -> [pull : Nat, text : BOOLEAN]]
  /\ tries \in [Attempts -> 0 .. MaxTries]
  /\ heard \subseteq Attempts
  /\ pulls \in Seq(PullRequest)
  /\ open \subseteq DOMAIN pulls

(* An attempt calls back after its work, and is heard only while it waits; *)
(* from its first callback on it has a pull request of its own.            *)
Progress ==
  \A a \in Attempts :
    /\ pc[a] \in Work \union {"idle"} => tries[a] = 0
    /\ pc[a] = "waiting" => tries[a] > 0
    /\ a \in heard => pc[a] \in {"waiting", "exited", "gone"}
    /\ taskType = "pr" /\ (pc[a] = "callback" \/ tries[a] > 0) => Own(a)

AtMostOneOpen == \A m, n \in open : m = n

RunnerInv == Typed /\ Progress /\ AtMostOneOpen

LEMMA RunnerInit == Init => RunnerInv
<1> SUFFICES ASSUME Init PROVE RunnerInv
  OBVIOUS
<1>1. Typed
  BY RunnerAssumption DEF Init, Typed, Steps, NoResponse, Running, PullRequest
<1>2. Progress
  BY DEF Init, Progress, Work
<1>3. AtMostOneOpen
  BY DEF Init, AtMostOneOpen
<1> QED
  BY <1>1, <1>2, <1>3 DEF RunnerInv

-----------------------------------------------------------------------------
(* A step of one attempt that leaves the pull requests and the callback    *)
(* alone: from work to work, to the callback, or out.                      *)
LEMMA QuietStep ==
  ASSUME RunnerInv, NEW a \in Attempts, NEW from \in Steps, NEW to \in Steps,
         pc[a] = from, pc' = [pc EXCEPT ![a] = to],
         code' \in [Attempts -> Int],
         response' \in [Attempts -> [pull : Nat, text : BOOLEAN]],
         \A b \in Attempts : response'[b].pull = response[b].pull,
         UNCHANGED <<taskType, tries, heard, pulls>>,
         open' \subseteq open,
         to \in Work => from \in Work \union {"idle"},
         to = "callback" => (from = "waiting" /\ a \notin heard) \/ (taskType # "pr" /\ from \in Work),
         to \in {"idle", "waiting"} => FALSE
  PROVE  RunnerInv'
<1>1. Typed'
  BY DEF RunnerInv, Typed
<1>2. \A b \in Attempts : Own(b)' = Own(b)
  BY DEF Own
<1>3. \A b \in Attempts \ {a} : pc'[b] = pc[b]
  BY DEF RunnerInv, Typed
<1>4. pc'[a] = to
  BY DEF RunnerInv, Typed
<1>5. ASSUME NEW b \in Attempts
      PROVE  /\ pc'[b] \in Work \union {"idle"} => tries'[b] = 0
             /\ pc'[b] = "waiting" => tries'[b] > 0
             /\ b \in heard' => pc'[b] \in {"waiting", "exited", "gone"}
             /\ taskType' = "pr" /\ (pc'[b] = "callback" \/ tries'[b] > 0) => Own(b)'
  <2>1. CASE b # a
    BY <1>2, <1>3, <1>5, <2>1 DEF RunnerInv, Progress
  <2>2. CASE b = a
    <3>1. a \in heard => to \in {"exited", "gone"}
      BY DEF RunnerInv, Progress, Work, Steps
    <3>2. taskType = "pr" /\ to = "callback" => Own(a)
      <4>1. from = "waiting" => tries[a] > 0
        BY DEF RunnerInv, Progress
      <4> QED
        BY <4>1 DEF RunnerInv, Progress
    <3> QED
      BY <1>2, <1>4, <2>2, <3>1, <3>2 DEF RunnerInv, Progress
  <2> QED
    BY <2>1, <2>2
<1>6. AtMostOneOpen'
  BY DEF RunnerInv, AtMostOneOpen
<1> QED
  BY <1>1, <1>5, <1>6 DEF RunnerInv, Progress

LEMMA ExitStep ==
  ASSUME RunnerInv, NEW a \in Attempts, NEW from \in Steps, NEW result \in Int,
         Exit(a, from, result),
         UNCHANGED <<taskType, response, tries, heard, pulls, open>>
  PROVE  RunnerInv'
<1>1. pc[a] = from /\ pc' = [pc EXCEPT ![a] = "exited"] /\ "exited" \in Steps
  BY DEF Exit, Go, Steps
<1>2. code' \in [Attempts -> Int]
  <2>1. result % 256 \in Int
    OBVIOUS
  <2> QED
    BY <2>1 DEF Exit, RunnerInv, Typed
<1>3. response' \in [Attempts -> [pull : Nat, text : BOOLEAN]]
  BY DEF RunnerInv, Typed
<1>4. "exited" \notin Work \union {"callback", "idle", "waiting"}
  BY DEF Work
<1> HIDE DEF Steps
<1> QED
  BY <1>1, <1>2, <1>3, <1>4, QuietStep

LEMMA GoStep ==
  ASSUME RunnerInv, NEW a \in Attempts, NEW from \in Steps, NEW to \in Steps,
         Go(a, from, to), to \notin {"idle", "waiting", "callback"},
         to \in Work => from \in Work \union {"idle"},
         UNCHANGED <<taskType, code, response, tries, heard, pulls, open>>
  PROVE  RunnerInv'
<1>1. pc[a] = from /\ pc' = [pc EXCEPT ![a] = to]
  BY DEF Go
<1>2. /\ code' \in [Attempts -> Int]
      /\ response' \in [Attempts -> [pull : Nat, text : BOOLEAN]]
  BY DEF RunnerInv, Typed
<1> QED
  BY <1>1, <1>2, QuietStep

(* The steps before the pull request.                                      *)
LEMMA WorkSteps ==
  ASSUME RunnerInv, NEW a \in Attempts, UNCHANGED taskType,
         Clone(a) \/ Checkout(a) \/ Status(a) \/ Commit(a) \/ Push(a)
  PROVE  RunnerInv'
<1>1. UNCHANGED <<response, tries, heard, pulls, open>>
  BY DEF Clone, Checkout, Status, Commit, Push, GitStep, local, github
<1>2. \/ \E from \in Work : Exit(a, from, 1)
      \/ \E from, to \in Work : Go(a, from, to) /\ UNCHANGED code
  BY DEF Clone, Checkout, Status, Commit, Push, GitStep, Work
<1>3. Work \subseteq Steps /\ Work \intersect {"idle", "waiting", "callback"} = {}
  BY DEF Work, Steps
<1>4. CASE \E from \in Work : Exit(a, from, 1)
  BY <1>1, <1>3, <1>4, ExitStep
<1>5. CASE \E from, to \in Work : Go(a, from, to) /\ UNCHANGED code
  <2>1. PICK from \in Work, to \in Work : Go(a, from, to) /\ UNCHANGED code
    BY <1>5
  <2> QED
    BY <1>1, <1>3, <2>1, GoStep
<1> QED
  BY <1>2, <1>4, <1>5

LEMMA AgentStep ==
  ASSUME RunnerInv, NEW a \in Attempts, UNCHANGED taskType, Agent(a)
  PROVE  RunnerInv'
<1>1. UNCHANGED <<tries, heard, pulls, open>>
  BY DEF Agent, github
<1>2. CASE /\ Go(a, "agent", IF taskType = "pr" THEN "status" ELSE "callback")
           /\ \E t \in BOOLEAN : response' = [response EXCEPT ![a].text = t]
           /\ UNCHANGED code
  <2>1. PICK t \in BOOLEAN : response' = [response EXCEPT ![a].text = t]
    BY <1>2
  <2>2. response \in [Attempts -> [pull : Nat, text : BOOLEAN]]
    BY DEF RunnerInv, Typed
  <2>3. response' \in [Attempts -> [pull : Nat, text : BOOLEAN]]
    <3>1. [response[a] EXCEPT !.text = t] \in [pull : Nat, text : BOOLEAN]
      BY <2>2
    <3> QED
      BY <2>1, <2>2, <3>1
  <2>4. \A b \in Attempts : response'[b].pull = response[b].pull
    BY <2>1, <2>2
  <2> DEFINE to == IF taskType = "pr" THEN "status" ELSE "callback"
  <2>5. /\ to \in Steps /\ "agent" \in Steps /\ "agent" \in Work
        /\ to \notin {"idle", "waiting"} /\ (to = "callback" => taskType # "pr")
    BY DEF Steps, Work
  <2>6. pc[a] = "agent" /\ pc' = [pc EXCEPT ![a] = to]
    BY <1>2 DEF Go
  <2>7. code' \in [Attempts -> Int]
    BY <1>2 DEF RunnerInv, Typed
  <2> HIDE DEF to
  <2> QED
    BY <1>1, <2>3, <2>4, <2>5, <2>6, <2>7, QuietStep
<1>3. CASE (\E c \in {-1, 1, 2} : Exit(a, "agent", c)) /\ UNCHANGED local
  <2>1. PICK c \in {-1, 1, 2} : Exit(a, "agent", c)
    BY <1>3
  <2>2. "agent" \in Steps /\ c \in Int /\ UNCHANGED response
    BY <1>3 DEF Steps, local
  <2> QED
    BY <1>1, <2>1, <2>2, ExitStep
<1> QED
  BY <1>2, <1>3 DEF Agent

-----------------------------------------------------------------------------
(* A pull request that is created gets a number no other has, and is       *)
(* refused while there is an open one.                                     *)
LEMMA NewPullStep ==
  ASSUME RunnerInv, NEW a \in Attempts, ~HasPull(a), NewPull(a)
  PROVE  /\ pulls' \in Seq(PullRequest)
         /\ open' \subseteq DOMAIN pulls' /\ \A m, n \in open' : m = n
         /\ DOMAIN pulls \subseteq DOMAIN pulls'
         /\ \A n \in DOMAIN pulls : pulls'[n] = pulls[n]
         /\ Len(pulls) + 1 \in Nat \intersect DOMAIN pulls'
         /\ pulls'[Len(pulls) + 1].by = a
<1> DEFINE new == [branch |-> 1, by |-> a]
<1>1. pulls \in Seq(PullRequest) /\ open \subseteq DOMAIN pulls
  BY DEF RunnerInv, Typed
<1>2. new \in PullRequest /\ new.by = a
  BY DEF PullRequest
<1>3. pulls' = Append(pulls, new)
  BY DEF NewPull, BranchName
<1>4. open = {}
  <2>1. \A n \in open : pulls[n] \in PullRequest
    BY <1>1
  <2>2. \A n \in open : pulls[n].branch = 1
    BY <2>1 DEF PullRequest
  <2> QED
    BY <2>2 DEF HasPull, BranchName
<1>5. open' = {Len(pulls) + 1}
  BY <1>4 DEF NewPull
<1> HIDE DEF new
<1>6. pulls' \in Seq(PullRequest) /\ Len(pulls') = Len(pulls) + 1
  BY <1>1, <1>2, <1>3
<1>7. pulls'[Len(pulls) + 1] = new /\ \A n \in DOMAIN pulls : pulls'[n] = pulls[n]
  BY <1>1, <1>2, <1>3
<1>8. DOMAIN pulls = 1 .. Len(pulls) /\ DOMAIN pulls' = 1 .. Len(pulls) + 1 /\ Len(pulls) \in Nat
  BY <1>1, <1>6
<1> QED
  BY <1>2, <1>5, <1>6, <1>7, <1>8

LEMMA CreatePullStep ==
  ASSUME RunnerInv, NEW a \in Attempts, UNCHANGED taskType, CreatePull(a)
  PROVE  RunnerInv'
<1> USE DEF RunnerInv
<1>1. UNCHANGED <<tries, heard>>
  BY DEF CreatePull
<1>2. \A b \in Attempts : Own(b) /\ UNCHANGED response /\ (UNCHANGED pulls \/ (~HasPull(a) /\ NewPull(a)))
                            => Own(b)'
  BY NewPullStep DEF Own
<1>3. CASE /\ ~HasPull(a) /\ NewPull(a) /\ Go(a, "pull", "callback") /\ UNCHANGED code
           /\ response' = [response EXCEPT ![a] = [pull |-> Len(pulls) + 1, text |-> TRUE]]
  <2>1. /\ pulls' \in Seq(PullRequest) /\ open' \subseteq DOMAIN pulls'
        /\ \A m, n \in open' : m = n
        /\ \A n \in DOMAIN pulls : n \in DOMAIN pulls' /\ pulls'[n] = pulls[n]
        /\ Len(pulls) + 1 \in Nat \intersect DOMAIN pulls'
        /\ pulls'[Len(pulls) + 1].by = a
    BY <1>3, NewPullStep
  <2>2. pc \in [Attempts -> Steps] /\ response \in [Attempts -> [pull : Nat, text : BOOLEAN]]
    BY DEF Typed
  <2>3. pc[a] = "pull" /\ pc' = [pc EXCEPT ![a] = "callback"]
    BY <1>3 DEF Go
  <2>4. [pull |-> Len(pulls) + 1, text |-> TRUE] \in [pull : Nat, text : BOOLEAN]
    BY <2>1
  <2>5. response' \in [Attempts -> [pull : Nat, text : BOOLEAN]] /\ response'[a].pull = Len(pulls) + 1
    BY <1>3, <2>2, <2>4
  <2>6. Typed'
    <3>1. pc' \in [Attempts -> Steps]
      BY <2>2, <2>3 DEF Steps
    <3> QED
      BY <1>1, <1>3, <2>1, <2>5, <3>1 DEF Typed
  <2>7. Own(a)'
    BY <2>1, <2>5 DEF Own
  <2>8. ASSUME NEW b \in Attempts \ {a}
        PROVE  pc'[b] = pc[b] /\ response'[b] = response[b] /\ (Own(b) => Own(b)')
    <3>1. pc'[b] = pc[b] /\ response'[b] = response[b]
      BY <1>3, <2>2, <2>3
    <3> QED
      BY <2>1, <3>1 DEF Own
  <2>9. Progress'
    <3>1. tries[a] = 0 /\ a \notin heard
      BY <2>3 DEF Progress, Work
    <3>2. pc'[a] = "callback"
      BY <2>2, <2>3
    <3>3. "callback" \notin Work \union {"idle", "waiting"}
      BY DEF Work
    <3> QED
      BY <1>1, <2>7, <2>8, <3>1, <3>2, <3>3 DEF Progress
  <2> QED
    BY <2>1, <2>6, <2>9 DEF AtMostOneOpen
<1>4. CASE Exit(a, "pull", 1) /\ UNCHANGED <<response, pulls, open>>
  <2>1. "pull" \in Steps
    BY DEF Steps
  <2> QED
    BY <1>1, <1>4, <2>1, ExitStep
<1>5. CASE Exit(a, "pull", 1) /\ UNCHANGED response /\ ~HasPull(a) /\ NewPull(a)
  <2>1. /\ pulls' \in Seq(PullRequest) /\ open' \subseteq DOMAIN pulls'
        /\ \A m, n \in open' : m = n
    BY <1>5, NewPullStep
  <2>2. pc \in [Attempts -> Steps] /\ code \in [Attempts -> Int] /\ 1 % 256 \in Int
    BY DEF Typed
  <2>3. /\ pc[a] = "pull" /\ pc' = [pc EXCEPT ![a] = "exited"]
        /\ code' = [code EXCEPT ![a] = 1 % 256]
    BY <1>5 DEF Exit, Go
  <2>4. Typed'
    <3>1. pc' \in [Attempts -> Steps] /\ code' \in [Attempts -> Int]
      BY <2>2, <2>3 DEF Steps
    <3> QED
      BY <1>1, <1>5, <2>1, <3>1 DEF Typed
  <2>5. \A b \in Attempts : Own(b) => Own(b)'
    BY <1>2, <1>5
  <2>6. pc'[a] = "exited" /\ \A b \in Attempts \ {a} : pc'[b] = pc[b]
    BY <2>2, <2>3
  <2>7. Progress'
    <3>1. "exited" \notin Work \union {"callback", "idle", "waiting"}
      BY DEF Work
    <3> QED
      BY <1>1, <2>5, <2>6, <3>1 DEF Progress
  <2> QED
    BY <2>1, <2>4, <2>7 DEF AtMostOneOpen
<1> QED
  BY <1>3, <1>4, <1>5 DEF CreatePull

-----------------------------------------------------------------------------
(* The callback: called, heard or not, given up or returned from.          *)
LEMMA CallStep ==
  ASSUME RunnerInv, NEW a \in Attempts, UNCHANGED taskType, Call(a)
  PROVE  RunnerInv'
<1>1. UNCHANGED <<code, response, heard, pulls, open>>
  BY DEF Call, local, github
<1>2. pc[a] = "callback" /\ pc' = [pc EXCEPT ![a] = "waiting"]
  BY DEF Call, Go
<1>3. tries[a] < MaxTries /\ tries' = [tries EXCEPT ![a] = @ + 1]
  BY DEF Call
<1>4. pc \in [Attempts -> Steps] /\ tries \in [Attempts -> 0 .. MaxTries]
  BY DEF RunnerInv, Typed
<1>5. pc' \in [Attempts -> Steps]
  BY <1>2, <1>4 DEF Steps
<1>6. tries' \in [Attempts -> 0 .. MaxTries] /\ tries'[a] > 0
  BY <1>3, <1>4, RunnerAssumption
<1>7. \A b \in Attempts : Own(b)' = Own(b)
  BY <1>1 DEF Own
<1>8. \A b \in Attempts \ {a} : pc'[b] = pc[b] /\ tries'[b] = tries[b]
  BY <1>2, <1>3, <1>4
<1>9. Progress'
  <2>1. pc'[a] = "waiting" /\ "waiting" \notin Work \union {"idle", "callback"}
    BY <1>2, <1>4 DEF Work
  <2> QED
    BY <1>1, <1>2, <1>6, <1>7, <1>8, <2>1 DEF RunnerInv, Progress
<1> QED
  BY <1>1, <1>5, <1>6, <1>9 DEF RunnerInv, Typed, AtMostOneOpen

LEMMA HearStep ==
  ASSUME RunnerInv, NEW a \in Attempts, UNCHANGED taskType, Hear(a)
  PROVE  RunnerInv'
<1>1. UNCHANGED <<code, response, tries, pulls, open>> /\ heard' = heard \union {a}
  BY DEF Hear, local, github
<1>2. pc[a] = "waiting" /\ pc' = pc
  BY DEF Hear, Go, RunnerInv, Typed
<1>3. \A b \in Attempts : Own(b)' = Own(b)
  BY <1>1 DEF Own
<1>4. Progress'
  BY <1>1, <1>2, <1>3 DEF RunnerInv, Progress
<1> QED
  BY <1>1, <1>2, <1>4 DEF RunnerInv, Typed, AtMostOneOpen

LEMMA CallbackSteps ==
  ASSUME RunnerInv, NEW a \in Attempts, UNCHANGED taskType,
         Call(a) \/ Hear(a) \/ NotHeard(a) \/ GiveUp(a) \/ Return(a)
  PROVE  RunnerInv'
<1>1. CASE NotHeard(a)
  <2> DEFINE from == "waiting"
             to == "callback"
  <2>1. /\ pc[a] = from /\ pc' = [pc EXCEPT ![a] = to]
        /\ UNCHANGED <<code, response, tries, heard, pulls, open>> /\ a \notin heard
    BY <1>1 DEF NotHeard, Go, local, github
  <2>2. /\ code' \in [Attempts -> Int]
        /\ response' \in [Attempts -> [pull : Nat, text : BOOLEAN]]
    BY <2>1 DEF RunnerInv, Typed
  <2>3. /\ from \in Steps /\ to \in Steps /\ to \notin Work
        /\ to \notin {"idle", "waiting"}
    BY DEF Steps, Work
  <2>4. from = "waiting"
    OBVIOUS
  <2> HIDE DEF from, to
  <2> QED
    BY <2>1, <2>2, <2>3, <2>4, QuietStep
<1>2. CASE GiveUp(a) \/ Return(a)
  <2>1. /\ UNCHANGED <<response, tries, heard, pulls, open>>
        /\ \E from \in {"callback", "waiting"}, c \in {0, 1} : Exit(a, from, c)
    BY <1>2 DEF GiveUp, Return, local, github
  <2>2. {"callback", "waiting"} \subseteq Steps
    BY DEF Steps
  <2> QED
    BY <2>1, <2>2, ExitStep
<1> QED
  BY <1>1, <1>2, CallStep, HearStep

LEMMA RunnerNext == RunnerInv /\ [Next]_vars => RunnerInv'
<1> SUFFICES ASSUME RunnerInv, [Next]_vars PROVE RunnerInv'
  OBVIOUS
<1>1. ASSUME NEW a \in Attempts, Start(a) PROVE RunnerInv'
  <2>1. /\ Go(a, "idle", "clone")
        /\ UNCHANGED <<taskType, code, response, tries, heard, pulls, open>>
    BY <1>1 DEF Start, local, github
  <2>2. {"idle", "clone"} \subseteq Steps
    BY DEF Steps
  <2> QED
    BY <2>1, <2>2, GoStep
<1>2. ASSUME NEW a \in Attempts, Run(a) PROVE RunnerInv'
  BY <1>2, WorkSteps, AgentStep, CreatePullStep, CallbackSteps DEF Run
<1>3. ASSUME NEW a \in Attempts, Lose(a) PROVE RunnerInv'
  <2>1. /\ Go(a, pc[a], "gone")
        /\ UNCHANGED <<taskType, code, response, tries, heard, pulls, open>>
    BY <1>3 DEF Lose, local, github
  <2>2. pc[a] \in Steps /\ "gone" \in Steps /\ "gone" \notin Work
    BY DEF RunnerInv, Typed, Steps, Work
  <2> QED
    BY <2>1, <2>2, GoStep
<1>4. ASSUME NEW n \in open, ClosePull(n) PROVE RunnerInv'
  <2>1. /\ UNCHANGED <<taskType, pc, code, response, tries, heard, pulls>>
        /\ open' \subseteq open
    BY <1>4 DEF ClosePull, local
  <2>2. \A b \in Attempts : Own(b)' = Own(b)
    BY <2>1 DEF Own
  <2>3. Progress'
    BY <2>1, <2>2 DEF RunnerInv, Progress
  <2> QED
    BY <2>1, <2>3 DEF RunnerInv, Typed, AtMostOneOpen
<1>5. CASE UNCHANGED vars
  <2>1. UNCHANGED <<taskType, pc, code, response, tries, heard, pulls, open>>
    BY <1>5 DEF vars, local, github
  <2>2. \A b \in Attempts : Own(b)' = Own(b)
    BY <2>1 DEF Own
  <2>3. Progress'
    BY <2>1, <2>2 DEF RunnerInv, Progress
  <2> QED
    BY <2>1, <2>3 DEF RunnerInv, Typed, AtMostOneOpen
<1> QED
  BY <1>1, <1>2, <1>3, <1>4, <1>5 DEF Next

LEMMA RunnerAlways == Spec => []RunnerInv
  BY RunnerInit, RunnerNext, PTL DEF Spec

-----------------------------------------------------------------------------
(* The rest of the types.                                                  *)
Status8 == 0 .. 255 \union {Running}
Workspaces == [commits : BOOLEAN, changes : BOOLEAN]

Rest ==
  /\ code \in [Attempts -> Status8]
  /\ workspace \in [Attempts -> Workspaces]
  /\ \A b \in DOMAIN branch : branch[b] \in Attempts \union {NoAttempt}
  /\ faults \in 0 .. MaxFaults

LEMMA RestStep ==
  ASSUME Rest, NEW a \in Attempts, Start(a) \/ Run(a) \/ Lose(a)
  PROVE  Rest'
<1>1. code' \in [Attempts -> Status8]
  <2>1. \/ UNCHANGED code
        \/ \E from \in Steps, result \in {-1, 0, 1, 2} : Exit(a, from, result)
    <3>1. CASE Agent(a) \/ GiveUp(a) \/ Return(a)
      BY <3>1 DEF Agent, GiveUp, Return, Steps
    <3>2. CASE Clone(a) \/ Checkout(a) \/ Status(a) \/ Commit(a) \/ Push(a) \/ CreatePull(a)
      BY <3>2 DEF Clone, Checkout, Status, Commit, Push, CreatePull, GitStep, Steps
    <3>3. CASE Start(a) \/ Lose(a) \/ Call(a) \/ Hear(a) \/ NotHeard(a)
      BY <3>3 DEF Start, Lose, Call, Hear, NotHeard
    <3> QED
      BY <3>1, <3>2, <3>3 DEF Run
  <2>2. \A result \in {-1, 0, 1, 2} : result % 256 \in 0 .. 255
    BY SMT
  <2> QED
    BY <2>1, <2>2 DEF Rest, Exit, Status8
<1>2. workspace' \in [Attempts -> Workspaces]
  <2>1. \/ workspace' \in [Attempts -> Workspaces]
        \/ workspace' = [workspace EXCEPT ![a] = [commits |-> TRUE, changes |-> FALSE]]
    <3>1. CASE Agent(a) \/ Commit(a)
      BY <3>1 DEF Agent, Commit, Workspaces, Rest, local
    <3>2. CASE \/ Start(a) \/ Lose(a) \/ Clone(a) \/ Checkout(a) \/ Status(a) \/ Push(a)
               \/ CreatePull(a) \/ Call(a) \/ Hear(a) \/ NotHeard(a) \/ GiveUp(a) \/ Return(a)
      BY <3>2 DEF Start, Lose, Clone, Checkout, Status, Push, CreatePull, Call, Hear,
                  NotHeard, GiveUp, Return, Rest, local
    <3> QED
      BY <3>1, <3>2 DEF Run
  <2>2. [commits |-> TRUE, changes |-> FALSE] \in Workspaces
    BY DEF Workspaces
  <2> QED
    BY <2>1, <2>2 DEF Rest
<1>3. \A b \in DOMAIN branch' : branch'[b] \in Attempts \union {NoAttempt}
  <2>1. branch' = branch \/ branch' = [branch EXCEPT ![BranchName(a)] = a]
    BY DEF Run, Start, Lose, Clone, Checkout, Agent, Status, Commit, Push, CreatePull, Call,
           Hear, NotHeard, GiveUp, Return, GitStep, github
  <2> QED
    BY <2>1 DEF Rest
<1>4. faults' \in 0 .. MaxFaults
  <2>1. Fault \/ NoFault
    BY DEF Run, Start, Lose, Clone, Checkout, Agent, Status, Commit, Push, CreatePull, Call,
           Hear, NotHeard, GiveUp, Return, GitStep, NoFault
  <2> QED
    BY <2>1, RunnerAssumption DEF Rest, Fault, NoFault
<1> QED
  BY <1>1, <1>2, <1>3, <1>4 DEF Rest

LEMMA RestAlways == Spec => []Rest
<1>1. Init => Rest
  <2> SUFFICES ASSUME Init PROVE Rest
    OBVIOUS
  <2>1. /\ code \in [Attempts -> Status8] /\ workspace \in [Attempts -> Workspaces]
        /\ faults \in 0 .. MaxFaults
    BY RunnerAssumption DEF Init, Status8, Workspaces, Untouched
  <2>2. \A b \in DOMAIN branch : branch[b] \in Attempts \union {NoAttempt}
    BY DEF Init
  <2> QED
    BY <2>1, <2>2 DEF Rest
<1>2. Rest /\ [Next]_vars => Rest'
  <2> SUFFICES ASSUME Rest, [Next]_vars PROVE Rest'
    OBVIOUS
  <2>1. ASSUME UNCHANGED <<code, workspace, branch, faults>> PROVE Rest'
    BY <2>1 DEF Rest
  <2>2. CASE \E n \in open : ClosePull(n)
    BY <2>1, <2>2 DEF ClosePull, local
  <2>3. CASE UNCHANGED vars
    BY <2>1, <2>3 DEF vars, local, github
  <2> QED
    BY <2>2, <2>3, RestStep DEF Next
<1> QED
  BY <1>1, <1>2, PTL DEF Spec

(* Every variable of the attempts keeps its type, a status its eight bits. *)
THEOREM RunnerTyped == Spec => []TypeOK
<1>1. RunnerInv /\ Rest => TypeOK
  <2> SUFFICES ASSUME RunnerInv, Rest PROVE TypeOK
    OBVIOUS
  <2>1. \A n \in DOMAIN pulls : pulls[n].by \in Attempts
    <3>1. \A n \in DOMAIN pulls : pulls[n] \in PullRequest
      BY DEF RunnerInv, Typed
    <3> QED
      BY <3>1 DEF PullRequest
  <2> QED
    BY <2>1 DEF RunnerInv, Typed, Rest, Status8, Workspaces, TypeOK
<1> QED
  BY <1>1, RunnerAlways, RestAlways, PTL

(* server.go:252: whatever other attempts at the task do meanwhile, one    *)
(* that calls back announces the pull request it created itself.           *)
THEOREM AnnouncesItsOwn == Spec => []AnnouncedPullIsItsOwn
<1>1. RunnerInv => AnnouncedPullIsItsOwn
  BY DEF RunnerInv, Progress, Own, AnnouncedPullIsItsOwn
<1> QED
  BY <1>1, RunnerAlways, PTL

(* server.go:246: since all attempts push the branch of the task, GitHub   *)
(* shows at most one open proposal of it.                                  *)
THEOREM OneProposal == Spec => []OneOpenPullRequest
<1>1. AtMostOneOpen => OneOpenPullRequest
  <2> SUFFICES ASSUME AtMostOneOpen PROVE OneOpenPullRequest
    OBVIOUS
  <2>1. CASE open = {}
    BY <2>1, FS_EmptySet DEF OneOpenPullRequest
  <2>2. CASE open # {}
    <3>1. PICK n : open = {n}
      BY <2>2 DEF AtMostOneOpen
    <3>2. Cardinality(open) = 1
      BY <3>1, FS_Singleton
    <3> QED
      BY <3>2 DEF OneOpenPullRequest
  <2> QED
    BY <2>1, <2>2
<1> QED
  BY <1>1, RunnerAlways, PTL DEF RunnerInv

-----------------------------------------------------------------------------
(* The refinement: what the rest of the system sees of an attempt.         *)
Ended == {"exited", "gone"}
Pods == [a \in Attempts |-> Pod(a)]

LEMMA PodValue ==
  ASSUME NEW a \in Attempts
  PROVE  /\ pc[a] = "exited" /\ code[a] = 0 => Pod(a) = "Succeeded"
         /\ pc[a] = "exited" /\ code[a] # 0 => Pod(a) = "Failed"
         /\ pc[a] = "gone" => Pod(a) = "Gone"
         /\ pc[a] \notin Ended => Pod(a) = "Busy"
  BY DEF Pod, Ended

LEMMA PodValueAfter ==
  ASSUME NEW a \in Attempts
  PROVE  /\ pc'[a] = "exited" /\ code'[a] = 0 => Pod(a)' = "Succeeded"
         /\ pc'[a] = "exited" /\ code'[a] # 0 => Pod(a)' = "Failed"
         /\ pc'[a] = "gone" => Pod(a)' = "Gone"
         /\ pc'[a] \notin Ended => Pod(a)' = "Busy"
  BY DEF Pod, Ended

LEMMA PodUnchanged ==
  ASSUME NEW a \in Attempts, pc'[a] = pc[a], code'[a] = code[a]
  PROVE  Pod(a)' = Pod(a)
  BY DEF Pod

(* A step of a busy attempt changes its own pod only.                      *)
LEMMA PodsAfter ==
  ASSUME RunnerInv, NEW a \in Attempts, NEW to, pc[a] \notin Ended,
         pc' = [pc EXCEPT ![a] = to],
         \A b \in Attempts \ {a} : code'[b] = code[b]
  PROVE  Pods[a] = "Busy" /\ Pods' = [Pods EXCEPT ![a] = Pod(a)']
<1>1. \A b \in Attempts \ {a} : pc'[b] = pc[b]
  BY DEF RunnerInv, Typed
<1>2. \A b \in Attempts \ {a} : Pod(b)' = Pod(b)
  BY <1>1, PodUnchanged
<1>3. Pods[a] = "Busy"
  BY PodValue DEF Pods
<1>4. Pods' = [b \in Attempts |-> Pod(b)']
  BY DEF Pods
<1>5. [Pods EXCEPT ![a] = Pod(a)'] = [b \in Attempts |-> IF b = a THEN Pod(a)' ELSE Pod(b)]
  BY DEF Pods
<1> QED
  BY <1>2, <1>3, <1>4, <1>5

Visible == <<Pods, tries, heard>>

LEMMA StayIsHidden ==
  ASSUME RunnerInv, NEW a \in Attempts, NEW to, pc[a] \notin Ended, to \notin Ended,
         pc' = [pc EXCEPT ![a] = to], UNCHANGED <<code, tries, heard>>
  PROVE  UNCHANGED Visible
<1>1. Pods[a] = "Busy" /\ Pods' = [Pods EXCEPT ![a] = Pod(a)']
  BY PodsAfter
<1>2. pc'[a] = to
  BY DEF RunnerInv, Typed
<1>3. Pod(a)' = "Busy"
  BY <1>2, PodValueAfter
<1>4. Pods' = Pods
  BY <1>1, <1>3 DEF Pods
<1> QED
  BY <1>4 DEF Visible

LEMMA ExitIsVisible ==
  ASSUME RunnerInv, NEW a \in Attempts, NEW from \in Steps \ Ended,
         NEW result \in {-1, 0, 1, 2}, Exit(a, from, result),
         UNCHANGED <<tries, heard>>,
         result = 0 => a \in heard,
         result # 0 => tries[a] = 0 \/ (tries[a] = MaxTries /\ a \notin heard)
  PROVE  Promise!Next
<1>1. /\ pc[a] = from /\ pc' = [pc EXCEPT ![a] = "exited"]
      /\ code' = [code EXCEPT ![a] = result % 256]
  BY DEF Exit, Go
<1>2. pc'[a] = "exited" /\ code'[a] = result % 256 /\ \A b \in Attempts \ {a} : code'[b] = code[b]
  BY <1>1 DEF RunnerInv, Typed
<1>3. Pods[a] = "Busy" /\ Pods' = [Pods EXCEPT ![a] = Pod(a)']
  BY <1>1, <1>2, PodsAfter
<1>4. CASE result = 0
  <2>1. 0 % 256 = 0
    OBVIOUS
  <2>2. Pod(a)' = "Succeeded"
    BY <1>2, <1>4, <2>1, PodValueAfter
  <2>3. Promise!Succeeds(a)
    BY <1>3, <1>4, <2>2 DEF Promise!Succeeds, Promise!Ends, Pods
  <2> QED
    BY <2>3 DEF Promise!Next
<1>5. CASE result # 0
  <2>1. \A r \in Int : r > -256 /\ r < 256 /\ r # 0 => r % 256 # 0
    BY SMT
  <2>2. Pod(a)' = "Failed"
    <3>1. result % 256 # 0
      BY <1>5, <2>1
    <3> QED
      BY <1>2, <3>1, PodValueAfter
  <2>3. Promise!Fails(a) \/ Promise!GivesUp(a)
    BY <1>3, <1>5, <2>2 DEF Promise!Fails, Promise!GivesUp, Promise!Ends, Pods
  <2> QED
    BY <2>3 DEF Promise!Next
<1> QED
  BY <1>4, <1>5

(* The work before the callback fails or is not seen.                      *)
LEMMA WorkIsHidden ==
  ASSUME RunnerInv, NEW a \in Attempts, UNCHANGED taskType,
         \/ Clone(a) \/ Checkout(a) \/ Agent(a) \/ Status(a) \/ Commit(a)
         \/ Push(a) \/ CreatePull(a)
  PROVE  Promise!Next \/ UNCHANGED Visible
<1>1. UNCHANGED <<tries, heard>>
  BY DEF Clone, Checkout, Agent, Status, Commit, Push, CreatePull, GitStep
<1>2. \/ \E from \in Work, c \in {-1, 1, 2} : Exit(a, from, c)
      \/ \E from \in Work, to \in Work \union {"callback"} : Go(a, from, to) /\ UNCHANGED code
  BY DEF Clone, Checkout, Agent, Status, Commit, Push, CreatePull, GitStep, Work
<1>3. Work \subseteq Steps \ Ended /\ "callback" \notin Ended
  BY DEF Work, Steps, Ended
<1>4. ASSUME NEW from \in Work, NEW c \in {-1, 1, 2}, Exit(a, from, c)
      PROVE  Promise!Next
  <2>1. tries[a] = 0
    BY <1>4 DEF Exit, Go, RunnerInv, Progress
  <2> QED
    BY <1>1, <1>3, <1>4, <2>1, ExitIsVisible
<1>5. ASSUME NEW from \in Work, NEW to \in Work \union {"callback"},
             Go(a, from, to), UNCHANGED code
      PROVE  UNCHANGED Visible
  BY <1>1, <1>3, <1>5, StayIsHidden DEF Go
<1> QED
  BY <1>2, <1>4, <1>5

LEMMA CallbackIsVisible ==
  ASSUME RunnerInv, NEW a \in Attempts,
         Call(a) \/ Hear(a) \/ NotHeard(a) \/ GiveUp(a) \/ Return(a)
  PROVE  Promise!Next \/ UNCHANGED Visible
<1>1. {"callback", "waiting"} \subseteq Steps \ Ended
  BY DEF Steps, Ended
<1>2. pc[a] = "callback" => a \notin heard
  BY DEF RunnerInv, Progress
<1>3. CASE Call(a)
  <2>1. /\ pc[a] = "callback" /\ pc' = [pc EXCEPT ![a] = "waiting"]
        /\ tries[a] < MaxTries /\ tries' = [tries EXCEPT ![a] = @ + 1]
        /\ UNCHANGED <<code, heard>>
    BY <1>3 DEF Call, Go
  <2>2. Pods[a] = "Busy" /\ Pods' = [Pods EXCEPT ![a] = Pod(a)']
    BY <1>1, <2>1, PodsAfter
  <2>3. pc'[a] = "waiting"
    BY <2>1 DEF RunnerInv, Typed
  <2>4. Pod(a)' = "Busy"
    BY <1>1, <2>3, PodValueAfter
  <2>5. Pods' = Pods
    BY <2>2, <2>4 DEF Pods
  <2>6. Promise!Calls(a)
    BY <1>2, <2>1, <2>2, <2>5 DEF Promise!Calls, Pods
  <2> QED
    BY <2>6 DEF Promise!Next
<1>4. CASE Hear(a)
  <2>1. pc[a] = "waiting" /\ pc' = pc /\ UNCHANGED <<code, tries>>
    BY <1>4 DEF Hear, Go, RunnerInv, Typed
  <2>2. tries[a] > 0 /\ a \notin heard /\ heard' = heard \union {a}
    BY <1>4, <2>1 DEF Hear, RunnerInv, Progress
  <2>3. \A b \in Attempts : Pod(b)' = Pod(b)
    BY <2>1, PodUnchanged
  <2>4. Pods' = Pods
    BY <2>3 DEF Pods
  <2>5. Pods[a] = "Busy"
    BY <1>1, <2>1, PodValue DEF Pods
  <2>6. Promise!IsHeard(a)
    BY <2>1, <2>2, <2>4, <2>5 DEF Promise!IsHeard, Pods
  <2> QED
    BY <2>6 DEF Promise!Next
<1>5. CASE NotHeard(a)
  <2>1. /\ pc[a] = "waiting" /\ pc' = [pc EXCEPT ![a] = "callback"]
        /\ UNCHANGED <<code, tries, heard>>
    BY <1>5 DEF NotHeard, Go
  <2> QED
    BY <1>1, <2>1, StayIsHidden
<1>6. CASE GiveUp(a)
  <2>1. pc[a] = "callback" /\ Exit(a, "callback", 1) /\ tries[a] = MaxTries /\ UNCHANGED <<tries, heard>>
    BY <1>6 DEF GiveUp, Exit, Go
  <2> QED
    BY <1>1, <1>2, <2>1, ExitIsVisible
<1>7. CASE Return(a)
  <2>1. Exit(a, "waiting", 0) /\ a \in heard /\ UNCHANGED <<tries, heard>>
    BY <1>7 DEF Return
  <2> QED
    BY <1>1, <2>1, ExitIsVisible
<1> QED
  BY <1>3, <1>4, <1>5, <1>6, <1>7

LEMMA RunnerSimulates == RunnerInv /\ [Next]_vars => [Promise!Next]_Visible
<1> SUFFICES ASSUME RunnerInv, [Next]_vars
             PROVE  Promise!Next \/ UNCHANGED Visible
  OBVIOUS
<1>1. ASSUME NEW a \in Attempts, Start(a) PROVE UNCHANGED Visible
  <2>1. /\ pc[a] = "idle" /\ pc' = [pc EXCEPT ![a] = "clone"]
        /\ UNCHANGED <<code, tries, heard>>
    BY <1>1 DEF Start, Go
  <2>2. "idle" \notin Ended /\ "clone" \notin Ended
    BY DEF Ended
  <2> QED
    BY <2>1, <2>2, StayIsHidden
<1>2. ASSUME NEW a \in Attempts, Run(a) PROVE Promise!Next \/ UNCHANGED Visible
  BY <1>2, WorkIsHidden, CallbackIsVisible DEF Run
<1>3. ASSUME NEW a \in Attempts, Lose(a) PROVE Promise!Next
  <2>1. /\ pc[a] \notin Ended /\ pc' = [pc EXCEPT ![a] = "gone"]
        /\ UNCHANGED <<code, tries, heard>>
    BY <1>3 DEF Lose, Active, Go, Ended
  <2>2. Pods[a] = "Busy" /\ Pods' = [Pods EXCEPT ![a] = Pod(a)']
    BY <2>1, PodsAfter
  <2>3. pc'[a] = "gone"
    BY <2>1 DEF RunnerInv, Typed
  <2>4. Pod(a)' = "Gone"
    BY <2>3, PodValueAfter
  <2>5. Promise!IsLost(a)
    BY <2>1, <2>2, <2>4 DEF Promise!IsLost, Promise!Ends, Pods
  <2> QED
    BY <2>5 DEF Promise!Next
<1>4. ASSUME UNCHANGED <<pc, code, tries, heard>> PROVE UNCHANGED Visible
  <2>1. \A b \in Attempts : Pod(b)' = Pod(b)
    BY <1>4, PodUnchanged
  <2>2. Pods' = Pods
    BY <2>1 DEF Pods
  <2> QED
    BY <1>4, <2>2 DEF Visible
<1>5. ASSUME NEW n \in open, ClosePull(n) PROVE UNCHANGED Visible
  BY <1>4, <1>5 DEF ClosePull
<1>6. CASE UNCHANGED vars
  BY <1>4, <1>6 DEF vars
<1> QED
  BY <1>1, <1>2, <1>3, <1>5, <1>6 DEF Next

(* Each attempt is the runner SandboxServer takes it for: it fails before  *)
(* it calls back, or calls back until it is heard or out of tries, and     *)
(* succeeds only if it was heard.                                          *)
THEOREM RunnerKeepsPromise == Spec => ImplementsAttempts
<1>1. Init => Promise!Init
  <2> SUFFICES ASSUME Init PROVE Promise!Init
    OBVIOUS
  <2>1. \A a \in Attempts : pc[a] \notin Ended
    BY DEF Init, Ended
  <2>2. Pods = [a \in Attempts |-> "Busy"]
    BY <2>1, PodValue DEF Pods
  <2> QED
    BY <2>2 DEF Init, Promise!Init, Pods
<1>2. [Promise!Next]_Visible => [Promise!Next]_(Promise!vars)
  BY DEF Visible, Promise!vars, Pods
<1> QED
  BY <1>1, <1>2, RunnerSimulates, RunnerAlways, PTL DEF Spec, ImplementsAttempts, Promise!Spec

=============================================================================
