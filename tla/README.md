# Verification of cloud-agent

TLA+ models of cloud-agent, the service that hands GitHub issues to coding
agents in Kubernetes sandboxes, with TLC runs on small instances and TLAPS
proofs for every instance. Paths such as `controller.go` are short for the files
under `pkg/`; line numbers refer to the commit this directory is kept beside.

## The system

Three programs share the Kubernetes API server and never share memory.

| Component | State it keeps | Operations |
|---|---|---|
| Orchestrator loop (`pkg/orchestrator/controller.go`) | `activeTasks`; the local copy of the task being reconciled | `Start`: one notification at a time from the task watch and the pod watch; `Reconcile`, one branch per phase |
| Submission goroutines (same file) | one goroutine per task in `activeTasks`, its copy of the task and its sandbox | `runSandboxSubmission`, `trySubmitToSandbox`, the deferred `Close` and the deferred removal from `activeTasks` |
| Sandbox client (`pkg/sandbox/client.go`) | none | `CreateSandbox` (create a claim, poll until ready, clean up), `Close`, `SubmitTask` |
| Webhook listener (`pkg/webhook/listener.go`) | none between requests | `handleWebhook` filters events, reads the thread and the template, creates AgentTasks; `handleGenerateTokens` issues a token per attempt; `handleCallback` verifies and consumes it, comments and completes the task |
| Token store (`pkg/webhook/store.go`) | at most one token per task, in Redis for 24 hours or in a map under a `sync.RWMutex` | store, verify, delete by task |
| Sandbox server (`pkg/sandbox/http.go`) | `taskAccepted`; the process itself | `TaskHandler` accepts one task in the life of the process, `HealthCheckHandler` |
| Runner (`pkg/sandbox/server.go`) | the workspace; on GitHub, the task's branch and pull request | clone, branch, coding agent, status, commit, push, pull request, callback with up to five tries, exit |
| GitHub clients (`pkg/github`) | installation tokens in a transport | comments, files, tokens |
| AgentTask (`pkg/apis`, `k8s/base/crds`) | phase, retries, recorded claim, sandbox and pod, `resourceVersion`; the spec | written by orchestrator and listener, the latter without telling the former; checked by `validateTask` and again by `TaskHandler` |
| Deployments (`k8s/base`) | replicas and strategy, `restartPolicy`, warm pools | a rolling update runs two orchestrators at once |
| API server, agent-sandbox controller, kubelet, Redis, GitHub | external | modelled from how the code uses them |

How they interact: the listener creates a task; the task watch wakes the loop,
which validates it and starts a goroutine; the goroutine creates a claim, waits
for the sandbox, asks the listener for a token, posts the task to the sandbox
server and records the sandbox; the runner calls the listener, which comments and
completes the task; the watches tell the loop, which closes the sandbox and
deletes the task. A failed pod takes the task through `Failed`, where the sandbox
is closed, its names are cleared, and the task is started again until
`AGENT_RETRY_COUNT` is used up.

What is hard, and what makes each component correct:

* **Read, decide, write on stale copies.** The loop, the goroutine and the callback
  handler each read the task, make other calls and write the copy back. Only the
  `resourceVersion` stands between them. Correct: no write undoes a completion or
  drops a sandbox that is still open (`SnapshotsCoherent`, `CompletedIsFinal`,
  `RecordedClaimReleased`).
* **No work queue.** An error of `Reconcile` is logged and forgotten. Correct:
  without failed calls, a task nobody will look at again is at rest, or is being
  submitted, or waits for its pod; the one exception is a task that a retry made
  Started, which the code can leave behind (`NoMissedWork`, the finding `stranded`,
  `EventuallyAtRest`).
* **Attempts overlap.** A runner may still repeat its callback when its task has
  failed and been submitted again. Correct: a result counts for its own attempt
  (`CompletedByItsAttempt`), and is reported once (`OneCommentPerAttempt`).
* **Order of the callback's effects.** Token, comment, update. Correct: a task is
  never finished without an answer (`AnsweredWhenCompleted`).
* **Bookkeeping of sandboxes.** Correct: a recorded sandbox was created for that
  task, a running task has one, a fresh one has none (`RecordedSandboxIsOwn`), and
  none is lost by retries and conflicts (`NoForgottenSandbox`).
* **Provisioning waits on others.** `CreateSandbox` polls without a limit, for room
  that other sandboxes take up. Correct: a claim is closed, handed over or cleaned
  up (`ClaimsAreAccountedFor`), and a call returns if the sandboxes that nobody closes
  leave room (`EveryCallReturns`).
* **Intake reads what goes on changing.** Between an event and the task, the thread
  grows, calls fail, deliveries repeat, and where no secret is set anybody may send
  a request. Correct: the task of what GitHub sent can be run (`TasksAreRunnable`), its
  prompt holds the request (`PromptHoldsTheMention`), what
  is answered is true (`AnswersAreTrue`), a request is never passed over
  (`EveryRequestIsAnswered`) and doubled only by a redelivery (`OneTaskPerDelivery`).
* **Attempts share a repository.** They push one branch by force and compete for one
  pull request. Correct: an attempt announces only its own
  (`AnnouncedPullIsItsOwn`), and there are never two (`OneOpenPullRequest`).
* **One process, many handlers.** The acceptance flag of the sandbox server
  (`LateRequestsAreRefused`, `OnlyATaskLocksTheServer`) and the map of tokens
  (`NoConcurrentMapAccess`, `ImplementsRegister`).
* **Crashes, lost calls, lost pods, lost tokens, two orchestrators** at any point of
  the above.

`PROJECT.json` lists every hazard at its line with the properties that cover it.

## The modules

    Cluster <- Listener <- SandboxServer <- Orchestrator <- CloudAgent <- MCCloudAgent
                                                            CloudAgent <- CloudAgentProofs <- CoherenceProofs <- LifecycleProofs
                                            TaskLifecycle <-(INSTANCE)- CloudAgent
    Orchestrator, twice, and TaskLifecycle <-(INSTANCE)- RollingUpdate <- MCRollingUpdate
    TaskSpecs <- WebhookIntake <- MCIntake, IntakeProofs
    TaskSpecs <- TaskEndpoint <- MCTaskEndpoint, TaskEndpointProofs
    SandboxAttempts <-(INSTANCE)- Runner <- RunnerProofs
    TokenRegister <-(INSTANCE)- TokenStore <- TokenStoreProofs
    Provisioning <- MCProvisioning, ProvisioningProofs

Other arrows are EXTENDS. There are three layers. The first line is the
**composition**: the programs together, with each component reduced to what the
others see of it. `RollingUpdate` composes it again with two orchestrators. The
modules below are the **components in detail**, each where the composition takes one
step or one choice:

| The composition has | The detail is in |
|---|---|
| `CreateTask` | `WebhookIntake`: the handler from the delivery to the task |
| the sets `Valid` and `Accepted` | `TaskSpecs`: the two checks of a spec |
| `StartCreateSandbox`, `FinishCreateSandbox` | `Provisioning`: polls, cleanup, room |
| the acceptance of a request | `TaskEndpoint`: handlers, flag, end of the process |
| `RunnerFails`, `RunnerReports`, `TryAgain`, `RunnerHears` | `Runner`, which implements `SandboxAttempts`, the promise those actions are |
| `tokens`, changed in one step per call | `TokenStore`, which implements `TokenRegister` |

In the composition every module declares the variables its component owns; an
action is one call from one component to another, or the code between two calls,
and leaves the variables of later modules to `CloudAgent`, which adds their
UNCHANGED.

* **Cluster**: what Kubernetes keeps. `task[t]` is the stored AgentTask (`state`,
  `retries`, `claim`, `rv`), with two states of no object: `Absent` before creation
  and `Deleted` after. `events[t]` and `podEvents[c]` count notifications that have
  not been consumed. `claim`, `owner` and `pod` are the SandboxClaims, the task each
  was created for, and their pods. `UpdateTask` is `updateTaskStatus`: success,
  conflict, a failed call, or a call that is applied but answered with an error.
* **Listener**: `tokens`, the callback handlers `cb[c][i]` (attempt `c`, request
  `i`) as processes of five steps (`CallbackGet`, `CallbackVerify`,
  `CallbackConsume`, `CallbackComment`, `CallbackComplete`) with the copy of the task
  they will write back, `tries[c]`, the request a runner is waiting on, and
  `comments[c]`.
* **SandboxServer**: `TaskHandler` as `SubmitTask` sees it and the runner: it fails
  before the callback, reports, tries again after a refusal or a broken connection,
  and exits.
* **Orchestrator**: `loop`, the event loop with a program counter within
  `Reconcile`; `sub[t]`, the goroutines with a program counter within
  `runSandboxSubmission`; `activeTasks`.
* **CloudAgent**: `Next`, the fairness, and every property.
* **TaskLifecycle**: the abstract specification. Its state is what an observer of the
  API server sees: phase, retries, recorded sandbox, claims. It has one action per
  documented move. `CloudAgent!ImplementsLifecycle` instantiates it with
  `life <- ` the stored tasks without their version and `sandbox <- claim`: every
  step of the program is such a move or a stutter.
* **RollingUpdate**: two instances of `Orchestrator`, `Old` and `New`, over the same
  tasks, claims, tokens and callbacks, each with its own loop, goroutines,
  `activeTasks` and watches. `phase` is "old", "both" or "new"; every step that writes
  a task or ends a pod tells the watches of the processes that run.
* **WebhookIntake**: a delivery `d` is a process with a program counter within
  `handleWebhook`: `Screen` (signature, JSON, mention, label), `ReadComments`, `Refuse`
  (the comment that explains), `ReadTemplate`, `Create`. `thread[i]` is the number of
  comments on a thread, and GitHub adds to it at any time, the App's own answers
  included. `config` is what `.cloud-agent.yaml` says. `secret` says whether
  `GITHUB_APP_WEBHOOK_SECRET` is set, `signature[d]` is the header of the request.
  `Foreign` is the set of requests that are not GitHub's: they may lack the sender or the
  names of the thread, as that of `listener_test.go:212` does, for `handleWebhook` checks
  neither. `redelivered` is the set of deliveries that repeat an earlier one.
* **TaskSpecs**: a spec or a request as the set of its fields that are not empty;
  `ValidateTask`, `TaskRequest` and `Accepts` are the two checks and what the
  orchestrator makes of the one for the other.
* **TaskEndpoint**: a request is a goroutine that loads the flag (`Begin`), checks
  (`Validate`), sets the flag (`Accept`), starts the runner and responds;
  `RunnerReturns` ends the process and cuts everything else off.
* **Runner**: an attempt is a process with one step per call of `Run`, an exit code
  of eight bits, and what attempts share: the branch and the pull requests.
* **SandboxAttempts**: fail before calling back, or call back until heard or out of
  tries; succeed only if heard.
* **TokenStore**: handlers that lock, access and unlock. A write to the map takes two
  steps, and what an access returns that meets it is arbitrary, for that is undefined
  in Go; the lock is what makes it never happen. **TokenRegister** is the store as
  its users see it: calls that take effect one at a time between their beginning and
  their return, which `RedisTokenStore` does by sending one command each.
* **Provisioning**: a call is a process with one step per poll; agent-sandbox binds
  claims of deployed pools while there is `Room`. A failed Create or Delete puts the
  call in `unsure`, for nobody knows what became of its claim; a failed read does not.

### What the abstraction leaves out

* Claim, Sandbox and pod of one attempt are one name, because `CreateSandbox`
  resolves one of each and they are recorded and cleared together. A callback token
  is named by the attempt it was issued for; guessing a token is not modelled.
* A spec is reduced to two sets: `Valid`, the tasks that pass `validateTask`, and
  `Accepted`, those that pass the sandbox server's checks. They differ: a `pr` task
  without owner passes only the first.
* Notifications are counted per object, as `Reconcile` looks only at the name. A
  pod's notifications other than its end make the loop read the task in vain and
  are left out.
* The pod of a claim is not replaced by the agent-sandbox controller when it is
  lost. In the composition every claim is bound sooner or later; that it may not be
  is the subject of `Provisioning`.
* A thread is the number of its comments, a prompt the number of the last one it
  holds. Whether a comment mentions the App, and who wrote it, is chosen by GitHub.
* Of a branch only the attempt that pushed last is kept, of the workspace only
  whether there are changes and commits of the agent's own.
* `RollingUpdate` has no failed calls and no retries: each process's own handling of
  those is `CloudAgent`'s subject.
* Recorded Events, logs, prompts, model files, and the length of back-offs.

`Foreign` is the environment's, not a bound; `MCIntake` gives it an unsigned request that
names only the number of an issue and a wrongly signed one that names the whole thread,
both without a sender.

The constants that bound a run: `Claims` (the number of times `CreateSandbox` may
be called), `MaxTries` (five in the code), `MaxFaults` and `MaxCrashes`;
`MaxDeliveries`, `MaxRedeliveries` and `MaxComments` in `WebhookIntake`, where `PerPage`
stands for GitHub's thirty; `MaxOverlap`, the steps the old orchestrator takes beside
the new one; the sets of requests, handlers, attempts and calls. `MaxRetries` is the
program's own parameter, `Room` the cluster's.

## The runs

Runs set `CHECK_DEADLOCK FALSE` where the system comes to rest: when tasks are
deleted, refused or failed for good, processes have ended, or the model's claims,
deliveries and calls are used up. `MC_tokens` and `MC_provisioning` check for
deadlock: handlers go on using a store, and contexts may be cancelled, for ever.

| Run | Instance | Shows |
|---|---|---|
| `MC_faults` | 1 task, 2 claims, 1 retry, 1 callback try, 1 fault | One failed call, broken connection, lost pod or lost token at every point of a life with a retry: coherent copies, own sandboxes, answers before completions, final completions of the right attempt, sandboxes closed before they are forgotten, and the refinement of `TaskLifecycle`. Two claims make two attempts overlap. |
| `MC_restarts` | 2 tasks (one invalid), 2 claims, 1 retry, 2 tries, 1 restart | A restart of either program anywhere: no task but one that a retry made Started is left behind, no attempt comments twice, no completion is unanswered; in the lives without the restart, retries and conflicts lose track of no sandbox. |
| `MC_settles` | `FairSpec`, 1 task, 2 claims, no retry, 2 tries, 1 restart | Every Pending task comes to rest. |
| `MC_update` | 1 task, 2 claims, 2 overlapping steps | Two orchestrators take a task through no move that one alone could not make (`TaskLifecycle`), undo no completion and drop no open sandbox they recorded. Two steps suffice for the old process to act on what it had read before the new one started, twice. |
| `MC_intake` | `FairSpec`, 2 deliveries (1 may be a repetition), 2 threads (1 a pull request) of up to 2 comments, 1 comment a page, with and without a secret, 2 kinds of foreign requests, 1 fault, 1 restart | What holds of every task, every answer and every request of GitHub's, whatever fails. Threads begin at any length, so the page overflows before, between or after the two events. |
| `MC_endpoint` | `FairSpec`, 3 requests of 7 kinds | Two may overlap and the third come late; the flag is set by tasks only, and then the process ends. |
| `MC_runner` | `FairSpec`, 2 attempts at a task of either type, 2 tries, 2 faults | Attempts that overlap or follow each other; the refinement of `SandboxAttempts`; an agent that says nothing uses up its tries, and the process still ends. One fault makes the attempts overlap, the other hits any call. |
| `MC_tokens` | `FairSpec`, 3 handlers, 1 task, 1 token | A reader, a writer and a third that waits for either: no access meets a write, the refinement of `TokenRegister`, and every call returns. The lock knows no tasks, so one suffices. |
| `MC_provisioning` | `FairSpec`, 3 calls, 2 templates (one without a pool), room for 2, 1 fault, cancelled contexts | Competition for room, with a holder that is slow, lost, leaked or never closed: one sandbox may be kept for ever and the two other calls still return one after the other. |

Claims are symmetric in the runs of the composition that check no liveness. No two
tasks share anything but the pool of claims and the loop's attention, so one task
reaches the interesting interleavings; the second shows that the loop serves both.
The faults of a run are the weakest that make its properties interesting. Four
properties are promises only of lives without failed calls, because the code
deliberately gives up on an error: `NoMissedWork` and `EventuallyAtRest` are checked
where no call fails, `NoForgottenSandbox` and `EveryRequestIsAnswered` say so
themselves.

**Fairness.** In the composition the loop, each goroutine, each handler, each runner,
and the cluster's binding and removing of pods are weakly fair: each is a running
goroutine or controller, the coding agent is assumed to end, and the warm pool to
supply. The two watches are strongly fair, because `select` picks at random among the
ready channels (`controller.go:430`), so neither starves. `EventuallyAtRest` is checked
with `MaxRetries = 0`: with retries the finding `stranded` refutes it. In the detailed
modules handlers, endpoint requests, runners and calls of `CreateSandbox` are weakly
fair for the same reason: a goroutine is scheduled again and again. That a call to
another program returns, with an answer or an error, is an assumption: requests through
`http.DefaultClient` (`sandbox/client.go:281`, `webhook/client.go:84`) and calls under
`context.Background` have no time limit of the code's own. That the agent of a runner
ends is assumed too, for nothing limits it. `Acquire` of the token store is
strongly fair, for a `sync.RWMutex` lets neither readers nor writers starve.
In `Provisioning` only the calls that were made and the controller are fair. Nothing
makes a caller close what it was given: a conflict on the update to Running leaves the
sandbox open (`controller.go:320`), a failed deferred `Close` is dropped (`:355`), a
shadowed error skips it (`:380`), and a `Reconcile` that failed to close is not queued
again (`:443`). So `EveryCallReturns` has its conditions in the formula: the pool of the
template is deployed, and from some time on the sandboxes whose call is over and that
were not closed leave room for one more.
Nothing is assumed of users, of GitHub's deliveries, of failures or of restarts.

Every property of a passing run has a mutant (an operator whose comment begins
"Mutant of"), a plausible bug of the code under which TLC finds the property
violated.

### Findings

Three runs state what `CONTEXT.md` says of a task and end in a counterexample.

* `MC_leak`: the callback overtakes the update to Running. The goroutine's write
  conflicts, the task is deleted with no sandbox recorded, and the sandbox stays.
  `CONTEXT.md:12`: a Completed task has "closed the sandbox". The integration test
  sleeps at line 386 to avoid this race.
* `MC_refused`: a task the sandbox server refuses is submitted for ever, and each
  round leaves a sandbox open (`err` is shadowed at `controller.go:380`).
  `CONTEXT.md:13`: "retried up to the maximum limit".
* `MC_stranded`: a retry handled before the first goroutine's `defer` leaves the task
  Started with nobody submitting it. `CONTEXT.md:10`: "The task is submitting its
  request to the sandbox."

Other losses are not runs of their own. The models contain each of them, and the
properties named say how far it goes:

* A failed call while a Completed task is removed (`controller.go:443`), or while the
  end of a Running task's pod is looked into (`:456`), leaves the task where it is until
  the orchestrator restarts. `NoMissedWork` holds where no call fails. A goroutine whose
  first read fails gives up in the same way (`:300`).
* Where no secret is set, an event without sender or repository, like that of
  `listener_test.go:212`, is answered with 201 and becomes a task (`listener.go:195`,
  `:237`), for neither the handler nor the CRD requires a field. Without a
  repository's name it stays Pending; a `pr` task that lacks only the owner is refused by
  the sandbox server, which is how the finding `refused` begins. `TasksAreRunnable` is about GitHub's own events, and about
  every request where a secret is set.
* A callback that comments and then loses the conflict with the update to Running makes
  the task fail, be retried and be answered again (`listener.go:369`), and two
  overlapping requests with one token both pass (`:332`) when a connection broke.
  `OneCommentPerAttempt` is what is left of "exactly 1 comment".
* In a rolling update both orchestrators may submit a Started task; the token of the one
  and the record of the other may survive, so `CompletedByItsAttempt` is not a property
  of `MC_update`.
* A template without a warm pool keeps a task Started for ever (`client.go:127`): the
  condition on `pool` in `EveryCallReturns`.
* A failed read of `.cloud-agent.yaml` is taken for its absence (`listener.go:216`), and
  the App's own comments can trigger tasks (`:145`).
* Two requests to a sandbox server that overlap both start a runner (`http.go:118`);
  `LateRequestsAreRefused` is about those that do not.
* An agent that commits its work itself leaves nothing for `git status` to show, and the
  work is lost (`server.go:205`); an attempt that failed after its pull request was
  created makes its retries fail at the same point (`:246`), which is how
  `OneOpenPullRequest` is kept.

## The proofs

`CloudAgentProofs`, `CoherenceProofs` and `LifecycleProofs` prove, from
`ClusterAssumption` alone (the names of "no claim" and "no task" are not names, the
bounds are naturals, a runner reports at least once) and for any sets of tasks and
claims:

* `TypeCorrect`: `Spec => [](TypeOK /\ NamesResolve)`. `TypeOK` alone is not
  inductive: a handler looks up the task of its attempt, and `NamesResolve` is what
  says that the lookup finds one. One lemma per component shows that its steps
  preserve both; `NamesKept` is the frame lemma they share.
* `Coherence`: `Spec => []SnapshotsCoherent`. A copy of a task is taken from the
  store or made by a write that succeeded; from then on the stored version only
  grows (`VersionsAdvance`), and a write succeeds only on the version of its copy
  (`UpdateReplaces`). So an accepted write replaces the very object it was decided
  on. The inductive invariant `Inv` adds to `SnapshotsCoherent` the names (without
  which a copy is of no task), the phase of each copy (without which the completion
  theorem below says nothing), and `NothingBeforeClaim`: a callback handler's task is
  the owner of its claim, which `CreateSandbox` sets, so no handler may exist before.
  Each of the loop, the goroutines and the handlers has a lemma that its own steps
  preserve its part (`ReconcileInv`, `SubmissionInv`, `HandleInv`) and one that the
  others' steps leave its copy alone (`OthersLeaveLoop` and so on).
* `CopiesInPhase`: `Spec => []PhasesHeld`, from the same invariant: each place that is
  about to write holds a copy in the phase the code before it selected.
* `CompletionsFinal`: `Spec => CompletedIsFinal`. By coherence the object a write
  replaces is the writer's copy, and by its phase that copy is neither Completed nor
  deleted, unless the write is a callback's, which leaves a Completed task Completed.

`LifecycleProofs` goes on from there in two layers. The first says, variable by
variable, what any step of `Next` may do to it and on which condition: `ClaimStep` and
`PodStep` for what the cluster keeps, `TaskStep` for the stored task, `LoopStep` and
`SubStep` for the orchestrator, `AttemptSteps` for callbacks, comments and tries. Here
coherence is used once and for all: a write replaces what its copy says. The second
layer proves the inductive invariant `LifeInv` from these facts without opening an
action again. Its parts need each other:

* `ClaimOK`: an unused claim has no owner, and nothing was reported for it (`Fresh`).
  A claim's owner is set once, which is why a record, once right, stays right.
* `Records`, in `TaskOK` for the store and in `TurnOK` for the loop's copy: a recorded
  sandbox was made for the task and its goroutine has let go of it. A task is Running
  only with a record; before Running it has none.
* `GoroutineOK`: a goroutine past `CreateSandbox` has a live, fresh sandbox, and its
  copy is the stored task unless a callback has completed it. This is what makes its
  update to Running put a sandbox of this task in the place of no record at all.
* `HandlerOK` and the tokens in `TaskOK` and `GoroutineOK`: a callback gets past the
  token check only in the attempt its copy records, and past the comment only after
  commenting.
* `AttemptOK`, `TurnOK`: a task with a sandbox has begun; what the loop found out before
  a call (the sandbox is closed, the task is completed, the comment is there) holds
  when the call is made.

From it follow:

* `SandboxRecorded`: `Spec => []RecordedSandboxIsOwn`, and `CompletedIsAnswered`:
  `Spec => []AnsweredWhenCompleted`, with crashes and failed calls anywhere.
* `ClosesFirst`, and from it `RecordsReleased`: `Spec => RecordedClaimReleased`. The
  loop drops a record only at a place it reaches after the sandbox's deletion.
* `AttemptCompletes`: `Spec => CompletedByItsAttempt`.
* `SystemIsLifecycle`: `Spec => ImplementsLifecycle`. `TaskSeen` maps each `TaskStep`,
  and `ClaimSeen` each step of a claim, to an action of `TaskLifecycle` or a stutter; no
  step is both, since the one kind writes the API server's tasks and the other its claims.
* `CommentsOnce`: `Spec => [](faults = 0 => OneCommentPerAttempt)`. `OneOK` says that of
  an attempt's callbacks only the latest is in progress, and that with a comment posted
  the token is gone.
* `SandboxesHeld`: `Spec => []NoForgottenSandbox` if `Valid \subseteq Accepted`. `HeldOK`
  adds that a sandbox which still waits for its request is there to take it.
* `NothingMissed`: `Spec => [](faults = 0 => NoMissedWork)`. A task is attended or
  `Settled`, the property itself. `KnownOK` makes that inductive: when the loop's
  copy is no longer the stored task, the writer's notification is still to come, and so
  is that of a pod that ended. So a branch of `Reconcile` may end its turn when its copy
  is at rest, or when its write is refused. For a Started task that it finds in
  `activeTasks` this needs `EntryOK`: an entry has its goroutine, which works for a task
  that has begun (`CopyBegun` says so of the copy it is started with) and, without a
  failure, exits only when the task is not Started any more. Only a retry makes it
  Started again behind the entry's back, so only a retry's task is left.

The hypotheses are those under which the code promises anything. `faults = 0` is the
part of a life before the first failed call or broken connection: the code gives up on
an error of either kind (`controller.go:443`, `:456`), and a callback whose answer was
lost is a second one. `MC_restarts` checks the same two properties with `MaxFaults = 0`.
`Valid \subseteq Accepted` says that the sandbox server takes what `validateTask` let
through; it does so for every task of GitHub's events, and for every task where a secret is set
(`TasksRunnable`); without it
the finding `refused` is a counterexample.

The detailed modules have a proof module each, on the same pattern: an inductive
invariant, one lemma per step or kind of step, and the theorems that follow from it.

* `RunnerProofs` (from `RunnerAssumption`: an attempt makes at least one try):
  `RunnerTyped`, `AnnouncesItsOwn`, `OneProposal` and the refinement
  `RunnerKeepsPromise`. `RunnerInv`
  says how far an attempt has come: no callback during its work, heard only while it
  waits or afterwards, and from the first callback of a `pr` task on a pull request of
  its own (`Own`). That a later attempt does not take it away is `NewPullStep`: a
  number, once given, stays with its attempt. Since all attempts have one branch,
  GitHub's refusal makes any two open pull requests equal (`AtMostOneOpen`). For the
  refinement, a step that leaves an attempt busy and its callbacks alone is hidden
  (`StayIsHidden`), and an exit is one of `SandboxAttempts`'s ends, by what the
  invariant says of the place it exits from (`ExitIsVisible`); that a result other than
  0 is still not 0 after the system kept eight bits of it is part of that.
* `IntakeProofs` (from `IntakeAssumption` and `NamesAssumption`): `IntakeTyped`,
  `TasksRunnable`, `MentionIsRead`, `AnswersTrue`, `OneTask`.
  `HandlerOK` is what a handler knows
  at each place. A comment is on its thread before its event is delivered, and threads
  only grow, so a handler that reads a whole thread later has read the comment. A `pr`
  task comes of a label event, and GitHub's have a sender, who is its owner
  (`NewTaskIsRunnable`); other requests get past the signature only without a secret.
  `HandlerFrame` is the lemma that all else that happens leaves a handler right.
  `OneTask` has two halves (`OnceInv`): a delivery makes its task in its last call, and
  the number of a new comment is above every number reported before, so that of two
  deliveries that report one comment one was asked for again.
* `TokenStoreProofs` (from `StoreAssumption`): `StoreTyped`, `AccessIsExclusive`,
  `StoreIsRegister`. Who accesses the map holds the lock in the mode the access needs,
  so what a reader finds is the map, and each call takes effect in its access.
* `TaskEndpointProofs` (from no assumption): `EndpointTyped`, `LateRefused`,
  `OnlyTasksLock`, because whoever is answered with 200 has set the flag before, and
  nothing resets it.
* `ProvisioningProofs`: `NoneForgotten` (from no assumption), from what a call's place
  says of its claim, and `ProvisioningTyped` (from `ProvisioningAssumption` and
  `TemplatesAssumption`: no template has the empty name), which needs to know that a
  call beyond `Create` has a claim, of its own template.

**Out of the prover's reach**, and left to TLC: liveness, and anything under fairness
or about ENABLED (`EventuallyAtRest`, `EveryRequestIsAnswered`, `LockedServerEnds`,
`EveryAttemptEnds`, `EveryCallReturns` of `TokenStore` and of `Provisioning`).

**Model-checked and not proved**: the three properties of `RollingUpdate`, that is
`CompletedIsFinal`, `RecordedClaimReleased` and the refinement of `TaskLifecycle` with two
orchestrators; the three of `CloudAgent` of the same names are proved.

## Not modelled

* `MockClient` (`pkg/github/client.go`), a double for tests and for running without a
  GitHub App, but for its answers about threads that are not named; of
  `AppClient`, how an installation's client is made and kept.
* The reading of flags and environment, the construction of clientsets, RBAC, images and
  the agent's configuration: declarations or pure input. What follows from the
  manifests is used: `restartPolicy: Never`, Redis without a volume, the default
  rolling update, the names of warm pools.
* Recorded Events, which no program reads. (One is never recorded: `closeFailed` at
  `controller.go:381` is read before the deferred function sets it.)
* The lengths of back-offs and time-outs, which decide only how long a step takes.
* The coding agent, git, GitHub and Kubernetes beyond what the code uses of them.

## Plan

Done: the composition, the components in detail, and a theorem for every invariant and
every action property a passing run checks, those of `MC_update` excepted.

To come: a type invariant of `RollingUpdate`, then the coherence of the copies of two
orchestrators, then `CompletedIsFinal`, `RecordedClaimReleased` and the refinement of
`TaskLifecycle` there. The lemmas about `ReconcileInv`, `SubmissionInv` and `HandleInv`
have to be stated again over the two instances `Old` and `New`, each with the other one
among those whose steps leave its copies alone.
