---------------------------- MODULE SandboxServer ----------------------------
(***************************************************************************)
(* The sandbox server in each pod.  It accepts one task, runs the coding   *)
(* agent in a goroutine of its own, reports the result to the webhook      *)
(* listener with retries, and exits the process with the runner's code;    *)
(* the pod template says restartPolicy: Never, so the pod ends with it.    *)
(*                                                                         *)
(* pod[c] = "Ready" is a server whose taskAccepted flag is not set and     *)
(* "Busy" one that accepted a task; the git, agent and pull request steps  *)
(* of Run, none of which touches the rest of the system, are one.          *)
(***************************************************************************)
EXTENDS Listener

(* SubmitTask and the TaskHandler that serves it, as the caller sees them: *)
(* the request is accepted, refused, undelivered, or accepted although no  *)
(* response arrives (the runner may even exit before it is flushed).       *)
TaskHandler(t, c, ok) ==
  LET accept == pod[c] = "Ready" /\ t \in Accepted IN
  \/ /\ ok /\ accept /\ NoFault
     /\ pod' = [pod EXCEPT ![c] = "Busy"]
     /\ UNCHANGED podEvents
  \/ ~ok /\ ~accept /\ NoFault /\ UNCHANGED <<pod, podEvents>>
  \/ ~ok /\ Fault /\ UNCHANGED <<pod, podEvents>>
  \/ /\ ~ok /\ Fault /\ accept
     /\ \/ pod' = [pod EXCEPT ![c] = "Busy"] /\ UNCHANGED podEvents
        \/ EndPod(c, "Failed")

-----------------------------------------------------------------------------
(* Runner.Run                                                              *)

(* Workspace, clone, branch, coding agent, commit, push or pull request    *)
(* fails: exit with a code other than 0, and no callback.                  *)
RunnerFails(c) ==
  /\ pod[c] = "Busy" /\ tries[c] = 0
  /\ EndPod(c, "Failed")
  /\ UNCHANGED <<task, events, claim, owner, faults, crashes, listenerVars>>

SendCallback(c, i) ==
  /\ tries' = [tries EXCEPT ![c] = i]
  /\ cb' = [cb EXCEPT ![c][i].pc = "received"]

RunnerReports(c) ==
  /\ pod[c] = "Busy" /\ tries[c] = 0
  /\ SendCallback(c, 1)
  /\ UNCHANGED <<clusterVars, tokens, comments>>

(* Mutant of TryAgain: the process exits 0 when the attempts are used up.  *)
TryAgainThenSucceed(c) ==
  \/ tries[c] < MaxTries /\ SendCallback(c, tries[c] + 1)
                         /\ UNCHANGED <<pod, podEvents>>
  \/ tries[c] = MaxTries /\ EndPod(c, "Succeeded") /\ UNCHANGED <<tries, cb>>

(* backoff.Retry after an attempt that failed.                             *)
TryAgain(c) ==
  \/ tries[c] < MaxTries /\ SendCallback(c, tries[c] + 1)
                         /\ UNCHANGED <<pod, podEvents>>
  \/ tries[c] = MaxTries /\ EndPod(c, "Failed") /\ UNCHANGED <<tries, cb>>

RunnerHears(c) ==
  /\ pod[c] = "Busy" /\ tries[c] # 0
  /\ \/ /\ cb[c][tries[c]].pc = "ok"
        /\ EndPod(c, "Succeeded") /\ UNCHANGED <<tries, cb>>
     \/ cb[c][tries[c]].pc = "error" /\ TryAgain(c)
  /\ UNCHANGED <<task, events, claim, owner, faults, crashes, tokens, comments>>

(* The connection breaks before the response arrives; the handler, unless  *)
(* it notices, goes on.                                                    *)
RunnerLosesCall(c) ==
  /\ pod[c] = "Busy" /\ tries[c] # 0
  /\ Fault
  /\ TryAgain(c)
  /\ UNCHANGED <<task, events, claim, owner, crashes, tokens, comments>>

Runner(c) == RunnerFails(c) \/ RunnerReports(c) \/ RunnerHears(c)

==============================================================================
