# A TLA+ model of AvityOS

AvityOS runs software projects with AI agents.  A control plane (one Node
process over SQLite) owns every durable state change; workers on other hosts
execute commands under leases; providers (external agents) write and review
code in git worktrees; a relay carries encrypted requests of remote devices; an
operator's command line keeps the credentials, the backups and the live
campaigns.  This directory models the parts of it in which something can go
wrong over several steps, checks the models with TLC and proves what matters
most with TLAPS.  Paths below are relative to the repository root.

| file | what it is |
|---|---|
| `Transitions.tla` | the transition tables of missions, runs and projects |
| `MissionEngine.tla` | the mission engine over the rows of one project |
| `TerminalLease.tla` | terminal sessions, worker leases, check commands, the worker |
| `BrainPipeline.tla` | planning: objectives, questions, plans, replans |
| `RemoteDelivery.tla`, `OrderedService.tla` | delivery between devices and host, and the service it implements |
| `RemoteHost.tla` | pairing, revocation, renewal and the connector loop of the host |
| `WorkerRotation.tla` | rotation of a worker's bearer and certificate |
| `OperatorCredentials.tla` | rotation of the administrator bearer and of external credentials |
| `CredentialVault.tla` | the encrypted vault, its lock, its key and its recovery files |
| `OperatorBackup.tla` | backup and restore |
| `LiveCampaign.tla` | the live campaign command beside the objective route |
| `E2EPreflight.tla`, `GitHubReadiness.tla` | the preflight of a campaign, and its probe of git and GitHub |
| `MissionBranch.tla` | the worktree, branch and pull request of a mission |
| `ProviderRun.tla` | a provider run and its two consumers |
| `EventFeed.tla` | the event stream and the two clients that follow it |
| `PlanProposal.tla`, `PlanSearch.tla` | what a plan of the brain is checked for, and whether it can be carried out; the cycle search of the code |
| `AppUpdate.tla` | releases, updates, installations and rollbacks of the macOS application |
| `OperatorTools.tla`, `AgentsAndClients.tla` | compositions: the five modules of the operator's tools, and ProviderRun, MissionBranch, EventFeed and PlanProposal |
| `*Proofs.tla` | the theorems of the module they are named after; `OperatorProofs` has those of OperatorCredentials and OperatorTools, `ControlPlaneProofs` those of BrainPipeline and AgentsAndClients |
| `MC*.tla`, `*.cfg` | the instances TLC explores |
| `PROJECT.json` | components, runs, mutants, the map from definitions to lines, findings, hazards, theorems |

To repeat: `tlc -config MissionEngine_fence.cfg MCMissionEngine.tla` (and so on
for each run of `PROJECT.json`), `tlapm MissionEngineProofs.tla`.

## 1. Inventory

| component | state it keeps | operations | hard behaviours |
|---|---|---|---|
| state machines, `packages/orchestration/src/machines.ts` | none (tables) | legal transitions, pauseable and cancellable sets | every other part relies on them |
| scheduler, DAG, correction, fallback, `packages/orchestration/src/` | none (pure) | promote, select, bound corrections, choose a fallback | off-by-one, stale inputs |
| mission engine, `services/control-plane/src/engine.ts` | coroutines, `activeRuns`, `stopped` (memory) | tick, execute, validate, review, integrate, fail, approve, cancel, pause, resume, reconcile | continuations resumed after the state they read has changed; crashes |
| store, `services/control-plane/src/store.ts` | projects, missions, runs, approvals, sessions, workers, objectives, plans, clarifications, budgets, events | one transaction per operation; pause generation as fence | what one transaction covers and what it does not |
| terminal sessions and leases, `store.ts`, `server.ts`, `Engine.runCheckCommand` | `terminal_sessions`, worker heartbeats | create, lease, renew, expire, output, exit, cancel, revoke | lost answers, expiry, revocation, requeue |
| worker, `services/worker/src/` | executions in progress | poll, execute, report | restarts under the same identity, silence |
| planning pipeline, `brain.ts` | in-flight token per project, brain runs, plans, `resume_pending` outbox | analyse, clarify, plan, replan, answer, claim, kick, reconcile | pause and resume around awaits; crash between the transactions of an answer |
| credential rotations, `*-authority.ts`, `apps/cli/src/operator/` | pending value in the worker row and in the authority | prepare, prove, commit, abort | lost answers, crashed commands, two commands at once |
| credential vault, `apps/cli/src/operator/vault.ts` | vault file, lock file, key store, recovery files | set, swap, remove, migrate, rotate the key, export, restore | death between two file operations, stale locks |
| remote bridge and relay, `packages/remote-bridge`, `services/remote-relay`, `RemoteDeviceClient.swift` | cursor, sequences, pending delivery, audit, inboxes | poll, handle, publish, acknowledge, expire | at-least-once delivery over crashes |
| remote host, `remote-host.ts` | configuration, devices, pairing sessions, certificates | configure, pair, revoke, renew, restart the connector | API calls interleave with the loop at every await |
| providers, `packages/providers`, and their consumers | agent processes, timers, requests | start, cancel, time out, settle | late results, agents that ignore a signal |
| event stream and clients, `server.ts`, `apps/macos`, `apps/web` | event log, durable cursor, loads under way | replay, follow, refresh, reconnect | gaps, overtaking loads, relaunches |
| backup, campaign and preflight, `apps/cli/src/operator/`, `e2e-preflight.ts`, `github-readiness.ts` | bundles, campaign state file, cached probe | create, verify, restore; run; report; probe | two stores copied one after the other, reruns, stale answers |
| HTTP API, `server.ts` | none | routes | requests interleave with coroutines |
| git and GitHub, `packages/git/src/git.ts` and its callers in `engine.ts` | worktree, branch, its copy on GitHub, pull request; `baselineCommit` in the row | prepare, scan, commit, publish, review, clean up | commands take effect after their coroutine is fenced; each may fail; people act on GitHub |
| application updates, `packages/app-update`, `scripts/*-macos-app.sh` | the installed application, the copies kept beside it, the update channel | sign, download, verify, install, roll back | kills between two renames, commands that overlap, a channel that changes |
| repository snapshot and plan validation, `snapshot.ts`, `plan-validation.ts`, `packages/policy` | the checks found, the proposal, the missions it becomes | detect, validate, repair, write, promote | rules that are each right and together accept a plan that cannot be carried out |
| sandbox profile, TLS | local or none | | external effects, or checks of one input |

How they interact.  HTTP routes and the scheduler start engine coroutines and
planning pipelines; every durable change of one is a store transaction guarded
by the pause generation.  A pause (store) cancels provider runs and revokes
worker leases (engine).  Check commands of a validation are terminal sessions
that workers lease; a worker only ever speaks first.  A failed mission asks the
brain for a replan, and a committed plan replaces missions.  Rotation commands
move a credential in two places, the control plane's rows and the operator's
vault, while the worker or the control plane may restart from either.  The
remote host's loop and its API calls share one configuration and one state
store with the delivery connector.

What makes each correct:

* **mission engine** - the pause fence (nothing starts, no late answer counts,
  stale coroutines end), one driver per mission, dependencies first, only
  validated work reviewed, no run lost in `cancelling`, everything in progress
  is driven or handed to a human;
* **terminal sessions** - capacity, no replay of work with side effects, final
  revocation, isolation between projects, no check passed under an old lease;
* **planning** - a fenced pipeline can only end, open questions hold planning,
  planning ends and answers are read;
* **rotations** - at any moment what is stored is accepted, a rotation is
  settled in the end, a report is true;
* **vault** - it can be opened at every moment and no update is lost;
* **remote delivery** - requests are served in order, with one answer and fresh
  sequence numbers, and are answered in the end;
* **remote host** - host, relay and device agree about who is paired and who is
  revoked, and certificates are renewed;
* **repository** - what is published was scanned, what is completed was reviewed
  and published;
* **provider runs** - an outcome is what happened, in time and under the fence;
  nothing is left behind; a run ends;
* **event stream** - nothing is skipped, and a screen catches up;
* **operator tools** - a restore is a certified bundle, a rerun resumes, a
  pass is earned, the preflight keeps its contract, an answer is recent;
* **plans** - a plan that is accepted can be carried out to its end;
* **updates** - an update goes forward, and an application that starts is there.

## 2. What is modelled, and how it maps to the code

Every process here is a single event loop (Node, or Swift's main actor) or a
command that does one file operation after another, so the code between two
awaits, or two file operations, is one atomic action.  The tables name the
actions; `PROJECT.json` maps each definition to its lines.

### MissionEngine

A coroutine of the engine is a *thread* `<<m, k>>`: its `pc` is the await it is
parked at, `gen` the pause generation it captured, `caught` whether its caller
attached a `catch` (only `tick` does; any other rejection ends the Node
process, which is the last disjunct of `Throw`), `run` the run it owns and
`tries` the fallbacks it used.

| code | action |
|---|---|
| `tick` | `Tick` |
| `executeMission` | `ExecuteOutcomes` (up to the first await), `WorktreePrepared`, `StartRun`, `ProviderCompletes`, `ProviderFails`, `StreamThrows`, `BackoffOver` |
| `validateMission`, `runCheckCommand` | `ValidateOutcomes`, `ChecksPass`, `ValidationFails`, `Published`, `PublicationFails` |
| `reviewMission` | `ReviewOutcomes`, `StartReview`, `ReviewFenced`, `ReviewCompletes`, `ReviewFails` |
| `integrateMission` | `IntegrateOutcomes`, `CleanupOver` |
| `failValidation`, `blockIndependentReview` | `FailOutcomes` and `Fail`, `BlockReview` |
| `pauseProject`, `beginProjectPause`, `completePausedRunCancellation` | `PauseBegin`, `PauseCancelsRun` |
| `resumeProject` | `ResumeProject` |
| `applyApprovalDecision` | `Resolve` |
| `cancelMission` | `CancelBegin`, `CancelContinues` |
| `POST /v1/missions/:id/transition` | `UserTransition` |
| a crash, `start` and `reconcile` | `Crash`, `Restart` |

An `Outcome` is what the synchronous prefix of a method commits: the state it
leaves the mission in, the await it parks at, the attempts it records and the
approval it opens.  Several callers share these prefixes (a correction starts
`executeMission`, a resume starts `validateMission`), which is why they are
operators and not actions.  `Launch` is what an execution and a review do to
create a run: `adapter.startRun` gives a handle or throws, and a stream may throw
while it is read.  The coroutine then ends with the exception, and the run stays
active without a handle: `run = "left"` in its slot, until a pause, a cancel
(`WithoutLeft`) or a restart meets it.

Abstracted: budgets, policy verdicts, git (MissionBranch has it), checks, diffs
and providers are the nondeterministic outcome of the step that asks them;
priorities and ages in the scheduler are "any selection of the right size"; the
project is `active`, `paused` or `completed` (planning is BrainPipeline's); the
handles one pause cancels are cancelled in any order rather than in turn.
`succeeded` says a run of the mission is in state `succeeded`, which, as in the
code, a reviewer's run can be as well.  `validated` is a history variable.

### TerminalLease

Every route is synchronous up to its answer, so one route is one action.
`row[t]` is the session's row: state, worker, whether `lease_expires_at` is
null, ahead or past, the token (the number of the lease that issued it, 0 for
null) and `lease_attempts`.

| code | action |
|---|---|
| `POST /v1/projects/:id/terminals`, the start of `runCheckCommand` | `Create` |
| `POST /v1/terminals/:id/cancel` | `Cancel` |
| the polling loop of `runCheckCommand` | `CheckReturns`, `CheckGivesUp` |
| `pauseProject`: the pause, then the revocation after its awaits | `Pause`, `RevokeProject` |
| `resumeProject`; `POST /v1/workers/:id/revoke` | `Resume`; `RevokeWorker` |
| `POST /v1/workers/lease`: heartbeat, expiry, lease, and an answer that may be lost | `Poll` |
| `POST /v1/terminals/:id/output`, `/exit` | `Output`, `ExitReported` |
| a worker that stops, or a report refused or lost | `ExitUnreported` |
| 30 s without a poll; a crash of the control plane | `Lapse`; `Crash` |

`leasedIn`, `reported` and `passed` are history variables; `createdIn` is the
generation `runCheckCommand` captured.  Abstracted: output text, exit codes,
command policy, authentication and the order of the queue.  Expiry needs no
clock: a lease may lapse at any moment.

### BrainPipeline

A call of `ensurePlan` that passes its checks is a *pipeline* `pipes[p]`, parked
at an await.  Several may be alive: a pause frees the planning slot (`token`)
while the pipeline it fenced still waits for its provider.  A pipeline that ends
with an error `run` does not know is `thrown`: its caller writes an audit and no
more.  `groups` are the clarification groups with their `resume_pending` outbox,
`plans` the plan versions, `work` the mission of each version (with a coarse
state; MissionEngine has the detail), `heard` the groups a pipeline has read.

| code | action |
|---|---|
| objective intake and revision | `SubmitObjective`, `ReviseObjective` |
| `POST /v1/clarifications/:id/answer`, `resumeAfterClarification` | `Answer`; with a crash between its transactions `CrashInAnswer` |
| planning approvals | `ResolvePlanning`, `ResolveMission` |
| the awaits of a pipeline: snapshot, model discovery, provider steps with their repairs, the commit of questions or a plan | `SnapshotTaken`, `ModelsListed`, `ProviderEnds` |
| a mission that is scheduled, completes, or fails and asks for a replan | `Schedule`, `MissionCompletes`, `MissionFails` |
| pause, its cancellations, resume | `Pause`, `CancelReturns`, `Resume` |
| a crash, and `reconcile` of the brain and the outbox | `Crash`, `Restart` |

### RemoteDelivery and OrderedService

`log[i]` is every message the relay ever queued for inbox `i`, its place its
cursor; `held[i]` those still queued.  The connector persists its state after
every change and before the next await, so memory and disk are one record,
`host`; a crash loses the batch and the handler's result.  `sends[d][k]` is a
send of the macOS app, which works on its own copy of the configuration.

| code | action |
|---|---|
| `pollOnce`, batch, verification | `HostPoll`, `HostReject` |
| `handleRequest` and its audit | `HostHandle`, `HostHandlerThrows` |
| seal, persist, publish, commit, acknowledge | `HostRecord`, `HostPublish`, `HostCommit`, `HostAck` |
| `send` of `RemoteDeviceClient` | `AppSend`, `AppAckFirst`, `AppPublish`, `AppPoll`, `AppAck`, `AppGivesUp` |
| expiry of a message, revocation on both sides, crashes | `Expire`, `Revoke`, `RevokeAtRelay`, `HostCrash`, `AppCrash` |

`OrderedService` is what the bridge promises: requests are served one by one in
the order the relay accepted them; each has its effect, perhaps again after a
crash, then one answer, then it is done; nothing is skipped.  The refinement
mapping is `accepted` = the host's inbox log, `answered` = requests with a
published response, `done` = the durable cursor (`ServesInOrder`).

### RemoteHost

`relay`, `disk`, `sessions` and `secret` are durable, `conf`, `pending`,
`calls` and `loops` memory; a certificate is named by the moment it was issued.
Every call to the relay is one step that may fail, or be applied and its answer
lost (`Relay`).  `Configure`, `Enroll`, `Save`, `Restart` are `configure`;
`Accept`, `Pair`, `Complete`, `Compensate` are `acceptPairing`; `Revoke`,
`RevokeAtRelay` are `revokeDevice`; `Ensure` to `DeviceSave` are one turn of
`runConnectorLoop`; `CreatePairing`, `BeginPairing` and `Expire` are the
pairing session; `Crash` and `Start` the process.

### WorkerRotation and OperatorCredentials

Values are numbers in the order they were drawn.  In WorkerRotation `current`,
`pending`, `rotation`, `seen` and `committed` are columns of the worker's row,
per factor (bearer or certificate); `stored` is what the worker process loads
when it starts, `worker` what the running one loaded.  In OperatorCredentials
they belong to the administrator's authority, and `vault` and `plane` are the
stored and the loaded values.  An operator command is a record with the step it
is at; each request it sends is answered, fails before or after it is applied
(`RequestFails`, `ResponseLost`), and the command may die (`CliCrash`).  `Rerun`
is the operator who runs a command again whose rotation is still prepared.
A staging may throw (`StageFails`), and that of a certificate after the new paths
were saved: the command aborts its rotation and leaves them (`stray`, history).
`given` is a history variable: which rotation was given to which command, also
when the answer was lost.

### CredentialVault

A command is a process whose steps are its file operations: create the lock,
write its owner, read the vault, write the new one, release, stage and promote a
recovery file, change the key store.  `lock.full` distinguishes a lock file
whose owner is not written yet.  `Recover` is the recovery command on a machine
that lost its key store.  `clashed` is a history variable: a live command's lock
or staged escrow was replaced.

### OperatorBackup, LiveCampaign, E2EPreflight, GitHubReadiness

*OperatorBackup*: `BeginCreate` to `Publish` are the copies, the certification
and the one rename of `backup create`; `BeginRestore` to `Install` those of
`restore`; beside them the control plane rotates a bearer through both stores,
the vault's key rotates and media are altered.  *LiveCampaign*: `Start` to
`Mark` are the campaign command with its state file, `Post` the objective route
with the crash between its transactions and the early return of a repeated key.
*E2EPreflight* is a pure computation: provider registration, status, preflight
report and readiness of a deployment, evaluated over every deployment of the
instance; a provider chain is the set of its providers, because all that is
asked of a chain is who is in it.  *GitHubReadiness*: the six facts a probe asks
for one after another, and the cache of the promise (`Probe`, `Run`) on a host
that changes.

### MissionBranch

A branch is the set of the changes on it, numbered as they are made; `origin`
says who made each (the dependency, the author, a check, an agent nobody waits
for) and whether the contract allows its path.  `tree`, `branch`, `remote` are
sets of changes or `Absent`, `mission.baseline` is `baselineCommit`.  Every git
and gh command is a step of its own: a coroutine of `flow` that was fenced while
its command ran still makes it happen and then stops (`Unless`).

| code | action |
|---|---|
| `executeMission`, `ensureWorktree`, `composeDependencyBaseline` | `Schedule`, `Ignored`, `Lookup`, `Compose`, `AddWorktree`, `Checkout`, `Added`, `MergeBase`, `PreparationFails` |
| an agent, a check command | `AuthorWrites`, `StrayWrites`, `CheckWrites`, `AuthorEnds`, `ChecksEnd` |
| `worktreeChangedFiles` and the path rules | `Diff`, `Status` |
| `isCleanWorkingTree`, `commitAll` | `Clean`, `Commit`, `CommitFails`, `Committed` |
| `publishGitHubPullRequest`, `upsertPullRequest`, the approval to retry | `Push`, `List`, `Create`, `Reopen`, `Edit`, `Recorded`, `PublicationFails`, `Unblock` |
| the review's diff and verdict, `integrateMission`, `cleanupWorktree` | `ReviewDiff`, `Approves`, `Rejects`, `Cleanup`, `Completes` |
| pause, resume, crash, `reconcile` | `Pause`, `Resume`, `Crash`, `Restart` |
| a person on GitHub | `MergeDependency`, `Merge`, `Close` |

`scanned`, `reviewed`, `raced` are history.  Abstracted: changes are never
undone, so a mission with a forbidden one never passes; the project has a GitHub
remote and the mission one dependency; a user approves no mission in a
reviewer's place, cancels none and grants no further attempts (MissionEngine has
all of it).

### ProviderRun and EventFeed

*ProviderRun*: `loop` is the consumer's attempt loop (the engine's or the
brain's), `runs` every run with its staged HOME, its agent process, what its
consumer took of it (`taken`) and how it was left.  `StartCli`, `StartRequest`,
`FixtureCompletes` are the adapters; `Deadline` is the adapter's timer and
`StepDeadline` the brain's; `Pause`, `Stop`, `Exit`, `Crash` what interrupts
it.  *EventFeed*: `feed.wire` holds the lines sent and not yet read, so a cut
stream loses them; `cursor` is the Mac's durable event number; `loads` are the
pairs of reads a client has under way, each overlapping with the next on the
web and serialised on the Mac.

### PlanProposal

`repo` is what the repository holds, `listed` what the snapshot was told of it,
`checks` a command for each kind of check found, `plan` the proposal and `state`
its mission rows.  `List` and `Read` are `buildRepoSnapshot` with
`detectRepositoryChecks`, and developers may change the repository between the
two (`Edit`); `Propose` is `validatePlanProposal` with the bounded repair and
`createBrainPlan`; `Promote` and `Work` promote the missions and validate the
work of each by the rules of `validateMission`.  A path is the sequence of its
segments, so that pattern matching is modelled by what it does.  `NoCycle` is
what the depth-first search of `assertAcyclic` decides: among any missions some
one waits for none of them.  The search itself is `PlanSearch!AssertAcyclic`, and
TLC compares the two on every graph of three missions that may also wait for one
that is not there (`SearchIsExact` of `MCAgentsAndClients`).

### AppUpdate

`feed` is what the channel may serve, `dest` the installed application, `copies`
the applications kept beside it, `command[c]` an operator's command at one of its
steps.  `Create` signs a release (`createSignedMacOSUpdate`), `Foreign` puts a
manifest of another key in the channel; `Start`, `FetchManifest`,
`FetchArchive`, `CheckBundle` are `update-macos-app.sh` with
`downloadVerifiedMacOSUpdate` and `check-bundle`; `StartInstall`,
`StartRollback`, `Stage`, `Keep`, `Activate` are the installer and the rollback
with their two renames; `Fail` is an error with the `trap` that puts the old
application back, `Kill` a death without it.  `last` and `once` are history.

### Instances and parts

A module whose questions need different bounds has a constant `Instances`: a
set of records of bounds, one of which the variable `max` takes in `Init`.  One
run then explores several instances, each aimed at one question, and the MC
module says which.  `OperatorTools` and `AgentsAndClients` go one step further:
their variable `part` says of which of several independent modules a behaviour
is, and the variables of the others rest at a constant.  Each is a module with
constants of its own, so that one run explores its parts and theorems about them
are theorems about the composition (`ToolsSpec`, `EdgesSpec`).

## 3. Runs

All runs pass.  Where the code departs from a document, the property names the
departure as an exception and section 5 describes it.

| run | what it explores | properties |
|---|---|---|
| `MissionEngine_fence` | two chained missions, supervised, one pause, one crash, users may move missions to `ready` and `paused`; 1.05 million states | `DependencyGate`, `PausedProjectIsFrozen`, `StaleContinuationsAreDropped` |
| `MissionEngine_recovery` | two chained missions, independent review, two coroutines each, one correction, one pause, one crash, runs that throw; 1.7 million states | `OnlyValidatedWorkIsReviewed`, `OneDriverPerMission`, `OpenWorkIsDriven` |
| `MissionEngine_progress` | one mission, two pauses, runs that throw, fairness; 0.3 million states | `StartedWorkIsHandedOver`, `CancellingRunsEnd` |
| `TerminalLease_fencing` | a check and a user terminal of two projects, two workers of capacity 1, two pauses, two leases of the check; 1 million states | `LeasesWithinCapacity`, `PassedChecksAreFenced`, `ReportedWorkIsNeverReplayed` |
| `BrainPipeline` | five instances: pauses around slow cancellations; questions of two objective revisions, with three pipelines or with a pause; failures that ask for replans; a crash at every transaction of an answer; errors nothing handles in each; fairness | `QuestionsHoldPlanning`, `PauseFencesPlanning`, `AnswersAreRead`, `PlanningEnds` |
| `RemoteDelivery` | four instances: two devices with expiry, revocation and failed calls; every kind of request with a crash; three requests that are retried; sends that overlap; fairness | `NothingIsRepeated` (`OneAnswer` and `SequencesAreFresh`), `ServesInOrder` (refinement), `RequestsAreAnswered` |
| `RemoteHost` | three instances: configurations and a restart; pairings and revocations of two devices; renewals of a paired device; fairness | `PairedDeviceIsAccepted`, `RevocationIsFinal`, `HostCertificateIsRenewed` |
| `WorkerRotation` | two rotations of either factor with a crash and two faults, each a failed request, a lost response or a staging that throws; two commands together on a worker that is revoked; fairness | `StoredIsAccepted`, `RotationsDrain`, `RotationsSettle` |
| `OperatorCredentials` | three rotations with two crashes and two failed requests; three rotations by two commands at once | `VaultBearerIsAccepted`, `ReportsAreTrue` |
| `CredentialVault` | every command with a death between any two file operations, alone or two together; set-up and migration; three commands at a stale lock | `VaultIsRecoverable`, `UpdatesAreKept` |
| `OperatorTools` | backup beside bearer and key rotations with altered media; campaigns with crashes on both sides, reruns and interventions; every deployment; overlapping probes; updates, installations and rollbacks with kills, failures and two commands at once | `RestoredIsCertified`, `CampaignIsHonest` (`RerunsResume` with `AwaitedIsPlanned`, and `PassedIsEarned`), `ReadinessIsTrue` (`PreflightIsTrue` and `AnswersAreRecent`), `UpdatesAreSafe` |
| `AgentsAndClients` | two provider runs of every adapter and consumer, a pause, a halt; a mission's repository with a pause, with a crash that agents outlive, and with a contract that allows no change; two events followed by either client through a cut, an outage and changed settings; plans with every dependency, check and path a model may propose; fairness | `OutcomeIsEarned`, `NothingIsLeft`, `RunsEnd`, `PublishedIsScanned`, `CompletedIsPublished`, `FeedSkipsNothing`, `ScreensCatchUp`, `AcceptedPlansAreWorkable` |

Every property is broken by a *mutant* in `PROJECT.json`: a plausible bug in
the mapped definition (a dropped fence, an off-by-one, a missing reset) that TLC
finds under the same configuration.

Bounds, and why they are enough.

* MissionEngine.  `Slots` bounds the coroutines of a mission alive at once: two
  are needed for a stale one beside its successor, and a step that would need a
  third is disabled (in `MissionEngine_fence`, with one slot, a successor starts
  once the old coroutine has ended).  `MaxGen` is the number of pauses: one
  separates an old generation from a new one, two let a stale coroutine meet a
  second pause.  `MaxCrashes` bounds only the crashes that come from outside.
  `MaxApprovals` saturates the count of open approvals of one kind.  `MaxTries`
  stands for the bounded chain of retries and switches of `decideFallback`.  The
  recovery instance was also run once with `HasRepository = FALSE`, which
  disables the dependency check of `ensureWorktree` (4.2 million states, its
  properties hold); it is too slow to keep.
* TerminalLease.  `MaxLeases` bounds the leases of a session (two: an expired
  and a fresh one) and `MaxGen` the pauses of each project (two, so that a
  revocation left over from the first pause can come after the second).
* BrainPipeline.  Two pipelines are the fenced one and its successor, a third
  one is the answer's; two groups belong to two revisions; `tries` and `rounds`
  stand for the configured repairs and clarification rounds.
* RemoteDelivery.  Two requests of one device show order and reuse of a number,
  a third one shows a number reused after a retry; capacity 2 fills.
* RemoteHost.  Two or three API calls and three loops: the one running, the one
  that replaces it, the one a second configuration starts.
* WorkerRotation, OperatorCredentials, CredentialVault.  Two commands are a
  race; a second or third command after it is the rerun or the takeover.
* OperatorTools.  Two bundles and two bearers make a stale copy; three campaign
  commands are the first, the one beside it and a rerun; two probes overlap.
  Applications differ in version, build, minimum and team, so that each
  comparison alone can decide; two commands overlap, three follow one another.
* AgentsAndClients.  Two runs are one that is being left and its successor in
  the same worktree; two events are one more than a replay carries.  A mission
  has two coroutines, the fenced one and its successor, two changes (before and
  after a correction) and one correction; two larger
  instances, a pause together with a crash and two pauses, were also explored
  (3.3 million states, both properties hold) and are too slow to keep.
  Three missions make the shortest cycle that is not a pair; a plan has every
  dependency a model may name, or every check and path of one mission.

Deadlock is not checked: a project that is over or waits for a user, a command
that has ended and a budget of events that is used up all stop.

## 4. Fairness

Nothing is assumed of users, of the order of events, or that a fault will end,
beyond the following, all of it weak fairness.

* `MissionEngine!Fairness`: timers fire and awaited calls return.  `Tick` is a
  `setInterval`; providers, checks, git and publication run under a timeout, so
  every parked coroutine continues; the loops of `pauseProject` and
  `cancelMission` do not stop half-way; the service manager in `deploy/` restarts
  a dead process.  `StartedWorkIsHandedOver` adds one hypothesis in the property
  itself, that cancel requests eventually stop: a cancel that races the verdict
  of a review makes the store throw in a detached coroutine, which ends the
  process, and a user who does this for ever keeps the engine restarting.  The
  hypothesis is that the process is up in the end (`<>[]up`), and it also covers
  runs that throw in a correction or in the review a restart resumes, which end it
  in the same way.
* `BrainPipeline!Fairness`: a pipeline's awaited call returns (the brain gives
  every step a timeout), a cancellation returns, the process is restarted.
* `RemoteDelivery!FairSpec`: the connector loop, which retries for ever with a
  bounded delay.  Nothing of the devices.
* `RemoteHost!FairSpec`: an API call and a loop continue after an await (a
  request is answered or fails: `fetch` has limits of its own), and the process
  is restarted.
* `WorkerRotation!FairSpec`: the worker polls, a command takes its next step,
  and the operator reruns a command whose rotation is still prepared, as the
  runbook asks (`docs/RUNBOOKS.md:134`, `:233`).
* `ProviderRun!Fairness`: timers fire, `fetch` has time limits, the fixture
  stops, and an agent that obeys SIGTERM exits once told.  An agent that does
  not obey is assumed nothing of.
* `EventFeed!Fairness`: the control plane is restarted, the Mac's poll and
  settings timer fire, requests are answered or fail.  The poll comes rarely
  enough for a cancelled load to have failed before the next one.
* OperatorCredentials, CredentialVault, OperatorBackup, LiveCampaign,
  E2EPreflight, GitHubReadiness, AppUpdate and PlanProposal are checked for
  safety only.

## 5. Where the code and its documents disagree

The findings of `PROJECT.json` quote the document and the line; each is a named
exception of a property that a run shows to hold with exactly that exception.

**Missions** (`OpenWorkIsDriven`).  A running mission between two runs is lost
when the process dies: `reconcile` starts from orphaned runs, and a mission that
was discovering models or waiting to retry has none.  The process dies of a
crash and also of an exception in a coroutine nobody awaits (`died`).  An
integrated mission is not completed after a pause: a pause while its worktree is
removed restores it to `integrated`, which neither `resumeProject` nor
`reconcile` drives.  A provider that throws out of `startRun` (a spawn that
fails at once, `command.ts:224`) or while its stream is read is caught only by
the `catch` of `tick` (`engine.ts:507-509`), which writes an audit: the mission
stays `running` or `review_required` with an active run that nobody drives,
until a pause, a cancel or a restart meets it (`LeftBehind`).  In a coroutine
that has no such `catch`, a correction or the review a restart resumes
(`engine.ts:240`), it ends the process; with a provider that keeps throwing,
that review ends every restart.

**Planning.**  A kick that finds the planning slot held by the pipeline of an
older objective revision is lost (`PlanningEnds`, `KickMayBeLost`).  An error that
`run` does not know is rethrown (`brain.ts:447`) to a caller that writes an audit:
a provider that throws, questions with two options of one key (the proposal's
schema allows them, the stored group's does not), a plan that names a dependency
twice (`store.ts:1641`).  The project then stays in `planning` with no pipeline,
until a restart, a pause with its resume, or until somebody plans again
(`PlanningWasThrown`).  The answers
to the questions of a replan are never read: the active plan is for the same
objective, so `ensurePlan` returns `exists` (`AnswersAreRead`).  A provider handle
whose `cancel` waits would let a pause return after the project was resumed and
free the slot of the pipeline started meanwhile (`QuestionsHoldPlanning`,
`max.slowCancel`); the handles of `packages/providers` do not wait.

**Remote delivery.**  A certificate renewal audited as failed cannot be audited
as accepted when its retry succeeds, and holds the queue for ever
(`RequestsAreAnswered`).  Two overlapping sends of the app may publish one
sequence number twice (`SequencesAreFresh`).

**Remote host** (`HostCertificateIsRenewed`).  A relay failure while the host
starts ends `start()` before a connector loop exists; nothing retries.

**Rotations.**  Two overlapping `worker-token-rotate` commands may leave the
vault with a bearer nothing accepts (`StoredIsAccepted`).  A certificate whose
staging throws after the save has its rotation aborted and stays stored
(`worker-certificate-rotation.ts:233-236`, `LeftStored`): a worker that restarts
is refused, and no later rotation can be proved by it (`RotationsSettle`).  And
two commands given the same administrator bearer share a rotation, and one
aborts it for the other (`VaultBearerIsAccepted`); the rollback that one of them
then reports may name a bearer that the other has made pending again
(`ReportsAreTrue`).

**Vault** (`VaultIsRecoverable`).  Recovery files are staged outside the lock;
of two overlapping key rotations the second replaces the first one's file.

**Operator tools.**  An objective submitted to a paused project, or whose
handler died before the analysis, is never planned (`AwaitedIsPlanned`); a death
between the objective and its idempotency key gives one key two objectives
(`RerunsResume`); a campaign passes when its polls run out although missions
still run (`PassedIsEarned`); all three are checked through `CampaignIsHonest`.
A provider that lacks things of two categories makes the preflight break its own
contract (`PreflightIsTrue`, through `ReadinessIsTrue`).

**Updates** (`UpdatesAreSafe`).  The update command compares its manifest with
the version installed when it started: of two commands that overlap the older
release may end last.  A command killed between the two renames leaves no
application at its place, and then neither the update nor the rollback starts.

**Plans** (`AcceptedPlansAreWorkable`).  A plan that names a dependency twice
passes validation, and its second row violates a primary key: the transaction
throws, and no repair is asked for.

**Repository.**  What a check writes is committed after the scan and published
unscanned, and a fenced commit between the two reads of a scan hides the changes
it commits (`PublishedIsScanned`).  After an early merge by a person the later
commits of a mission are pushed beside the merged pull request, and the mission
completes (`CompletedIsPublished`).

**Agents and clients.**  A replay sends at most 500 events and the stream then
goes live, so a client further behind never gets the rest (`FeedSkipsNothing`).
A detached agent outlives a crash of the control plane on macOS, and the mission
is run again beside it (`NothingIsLeft`).

Seen while modelling, and not stated by a property:

* *Missions.*  A correction and an approved restart enter `assigned` without the
  scheduler, above the cap on running missions (`engine.ts:1254`, `:1688`
  against `scheduler.ts:4`).  A pause turns "retry the review" into "redo the
  work": the kind of a block is the prefix of `state_reason`, which pause and
  resume overwrite (`engine.ts:1674`).  Cancelling or rejecting the last mission
  does not complete the project; an approval resolved during a pause is
  consumed without effect; a supervised review opens one more approval at every
  restart and resume.
* *Leases.*  Leases are revoked after the awaited cancellation of provider runs,
  not in the transaction of the pause, so a lease of before a pause may be used
  after a quick resume (`engine.ts:404` against `docs/PROJECT-LIFECYCLE.md:89-90`);
  a stale *check* still cannot pass (`PassedChecksAreFenced`).  Cancelling only
  marks the row, and the worker's polls go on renewing the lease
  (`store.ts:2278` against `docs/RUNBOOKS.md:172-173`).
* *Remote host.*  A renewal in flight may write the old administration token
  over a configuration saved meanwhile (`remote-host.ts:551-554`); overlapping
  configurations start two connector loops (`:655-663`); overlapping accepts of
  one pairing leave the device revoked or with a dead token (`:442-464`).
* *Rotations.*  Of two external rotations of the administrator bearer at once the
  process may run with either credential.
* *Campaigns.*  Two commands write over each other's state file, and the first
  to end then throws; a campaign may pass on the pull request of another
  objective created after its baseline.
* *Provider runs.*  A spawn that throws leaves its staged HOME (`command.ts:224`);
  a run the engine starts after `stop()`, during model discovery, is never
  cancelled (`engine.ts:718-733`), and `NothingIsLeft` does not say so, because it
  excuses what an exit leaves; the engine has no
  timer of its own, so an agent that ignores SIGTERM keeps its run open until
  somebody cancels it (`command.ts:104-107`).
* *Clients.*  Loads of the web application overtake each other until the next
  poll; an event that arrives while the Mac's refresh reads starts no refresh of
  its own; the poll repairs both.

## 6. Proofs

The theorems hold for every value of the constants under the named assumptions
of the modules they are about, which TLC evaluates on the instances: finite sets
and right domains, and a few more.  In OperatorTools an answer of the readiness
cache is kept for some time (`KeptAssumption`), an application that is there is
not the value for none and the pinned team is a team (`ReleasedAssumption`), the
fixture is no provider that is configured and chains are sequences of providers
(`DeployedAssumption`).  In AgentsAndClients a replay's limit is a number
(`LimitAssumption`) and a mission of a proposal has every field, as the parser of
proposals makes sure (`ProposedAssumption`).  In
CredentialVault an instance that sets up a new vault asks for no removal (what is
removed on request is in neither place afterwards); in RemoteHost the host is no
device; in RemoteDelivery `MaxHandled` is not 0, because handlings are counted up
to it.  Nothing is assumed of the order of steps, and no fairness is used.

| theorem | statement |
|---|---|
| `MissionEngineProofs!TypeCorrect` | `Spec => []TypeOK` |
| `MissionEngineProofs!DependenciesFirst` | `Spec => []DependencyGate` |
| `MissionEngineProofs!PauseFreezes` | `Spec => PausedProjectIsFrozen` |
| `MissionEngineProofs!StaleWorkIsDropped` | `Spec => StaleContinuationsAreDropped` |
| `MissionEngineProofs!DriversAreAlone` | `UserTargets = {} => (Spec => []OneDriverPerMission)` |
| `MissionEngineProofs!ReviewIsOfValidated` | `UserTargets = {} => (Spec => []OnlyValidatedWorkIsReviewed)` |
| `MissionEngineProofs!OpenWorkIsDrivenHolds` | `UserTargets = {} => (Spec => []OpenWorkIsDriven)` |
| `TerminalLeaseProofs!TypeCorrect` | `Spec => []TypeOK` |
| `TerminalLeaseProofs!NeverReplayed` | `Spec => ReportedWorkIsNeverReplayed` |
| `TerminalLeaseProofs!PauseFences` | `Spec => PausedSessionsAreFenced` |
| `TerminalLeaseProofs!PauseIsolates` | `Spec => PauseIsIsolated` |
| `TerminalLeaseProofs!RevocationIsFinal` | `Spec => []RevokedWorkersHoldNoLease` |
| `TerminalLeaseProofs!ChecksAreFenced` | `Spec => []PassedChecksAreFenced` |
| `TerminalLeaseProofs!CapacityIsKept` | `Spec => []LeasesWithinCapacity` |
| `WorkerRotationProofs!DrainsExactly` | `FairSpec => []RotationsDrain` |
| `WorkerRotationProofs!AlwaysAccepted` | `FairSpec => []StoredIsAccepted` |
| `OperatorProofs!TypeCorrect` | `Spec => []TypeOK` |
| `OperatorProofs!NeverLockedOut` | `Spec => []VaultBearerIsAccepted` |
| `OperatorProofs!ReportsTellTheTruth` | `Spec => ReportsAreTrue` |
| `OperatorProofs!RestoresAreCertified` | `ToolsSpec => []RestoredIsCertified` |
| `OperatorProofs!ReadinessStaysTrue` | `ToolsSpec => []ReadinessIsTrue` |
| `OperatorProofs!UpdatesStaySafe` | `ToolsSpec => []UpdatesAreSafe` |
| `OperatorProofs!CampaignsAreHonest` | `ToolsSpec => []CampaignIsHonest` |
| `CredentialVaultProofs!TypeCorrect` | `Spec => []TypeOK` |
| `CredentialVaultProofs!AlwaysRecoverable` | `Spec => []VaultIsRecoverable` |
| `CredentialVaultProofs!NoUpdateIsLost` | `Spec => UpdatesAreKept` |
| `RemoteHostProofs!TypeCorrect` | `FairSpec => []TypeOK` |
| `RemoteHostProofs!PairedStaysAccepted` | `FairSpec => []PairedDeviceIsAccepted` |
| `RemoteHostProofs!RevokedStaysRevoked` | `FairSpec => []RevocationIsFinal` |
| `RemoteDeliveryProofs!TypeCorrect` | `FairSpec => []TypeOK` |
| `RemoteDeliveryProofs!NothingRepeats` | `FairSpec => []NothingIsRepeated` |
| `RemoteDeliveryProofs!ImplementsOrderedService` | `FairSpec => ServesInOrder` |
| `ControlPlaneProofs!TypeCorrect` | `Spec => []TypeOK` |
| `ControlPlaneProofs!QuestionsHoldPlanningHolds` | `Spec => []QuestionsHoldPlanning` |
| `ControlPlaneProofs!PauseFences` | `Spec => PauseFencesPlanning` |
| `ControlPlaneProofs!OutcomesAreEarned` | `EdgesSpec => []OutcomeIsEarned` |
| `ControlPlaneProofs!NothingStays` | `EdgesSpec => []NothingIsLeft` |
| `ControlPlaneProofs!NothingIsSkipped` | `EdgesSpec => []FeedSkipsNothing` |
| `ControlPlaneProofs!PublishedWasScanned` | `EdgesSpec => []PublishedIsScanned` |
| `ControlPlaneProofs!CompletedWasPublished` | `EdgesSpec => []CompletedIsPublished` |
| `ControlPlaneProofs!AcceptedPlansWork` | `EdgesSpec => []AcceptedPlansAreWorkable` |

*Type correctness of the engine* goes by what a step can do to a mission: a
lemma for each kind of outcome (it is a typed record), then one for `Commit`,
`Move`, `Throw` and `Fail`, then one step per action.

*DependenciesFirst* needs two facts beside the gate itself: a completed mission
never leaves `completed` (no table entry, and no operation that bypasses the
table), so dependencies stay completed; and a coroutine enters an execution
await only through `ExecuteOutcomes`, which asks `WorktreeAllowed`, or from
another execution await.  The invariant is inductive with `TypeOK`.

*PauseFreezes and StaleWorkIsDropped* are about steps.  A step of a coroutine is
either one of the fenced steps or asked `AcceptingWork`; the first end it, the
second is impossible under a pause or in an older generation.  What is left are
users, the pause itself and the process: none of them moves a coroutine to
another await, and a restart finds none, because a process that is down runs no
coroutine (`DownIsEmpty`, the invariant `StaleWorkIsDropped` needs).

*DriversAreAlone* and *ReviewIsOfValidated* share the invariant `Fit`: a coroutine
of the current generation sits at an await of the state its mission is in, so two
of them would belong to one step of one mission; an open question of a kind says
which state waits for it; and the result a mission carries into its review was
validated, also while a pause suspends it or a missing reviewer blocks it.  The
hypothesis `UserTargets = {}` says that no user moves missions by hand.  It is
needed: `POST /v1/missions/:id/transition` obeys the transition table only, so a
user may send a mission back to `ready` while its coroutine lives, or on to
`review_required` without a result.  `OpenWorkIsDrivenHolds` has it for the same
reason, and `MissionEngine_recovery` checks the three under it; the other theorems
do not have it.

*OpenWorkIsDrivenHolds* adds to `Fit` the invariant `Drive`.  `Attended`: of an
active project, a mission in progress has a current coroutine at an await of its
state, or an open question to a human, or a cancel in flight, but for the named
losses.  It needs `RunFits` (a coroutine that waits for its run finds it
running, or a cancel of its mission waits for it: otherwise the coroutine would
end and leave the mission behind; and a run that was left has no coroutine, so
that what `LeftBehind` excuses is one that threw) and `RequestsFit` (a cancel
request has one run to cancel, a process that is down has none).  An outcome is
`Cared` for: the state it leaves a mission in comes with an await or a question
of that state; so each caller of an outcome has the rest to show.

*The leases.*  Every store update of a row is shown to be one of a few kinds
("it only weakens the row", "it creates", "it leases", "it reports"), and a
lemma classifies every step of the system as seen from one session.
`NeverReplayed` then needs the strengthening that a reported session has left
`queued` for good: it was leased, and while it holds a token it is in a state
from which no update requeues it - `starting` with a report is impossible,
because the first report moves it on.  `ChecksAreFenced` orders three
generations: a session is created no later than it is leased, and leased no
later than now; a check that passes compares the first with the last.
`CapacityIsKept` bounds the sessions with a token by those counted at the last
lease: every row that keeps a token is counted by `Load`.  `RevocationIsFinal`
and `PauseFences` follow from the guards of `Poll` and `Accepts` together with
the row shape of `TypeOK`; `PauseIsolates` from the two halves of a pause.

*The rotations.*  `RotationsDrain` is not inductive: the commit or abort that
reopens the worker must forget its only rotation, and must be of one at all.
`DrainInv` adds that at most one factor is being rotated, and that a command
between `role` and `commit` names a rotation: a commit that named none would
match the factor that is not being rotated and reopen the worker under the other.
One lemma per transaction of the authorities (prepare, abort, commit) keeps the
drain exact; the steps of a command then only have to keep its name.  The
operator's reruns are steps of `FairSpec` and are covered; its fairness is not
used.  `AlwaysAccepted` needs what a command remembers (`AcceptInv`): until it
stages, the stored value is the one it read; from then on the pending value is
stored and the one it would roll back to is an old one: the current value, or a
certificate that a thrown staging left there, which is the property's other
exception.  That is true of the only
command at work, and the property excepts commands that overlap.

*The administrator bearer.*  `NeverLockedOut` follows one rotation through its
command: from its preparation on, the prepared rotation is the command's and the
vault is as it left it (`Tells`), so that it aborts only with the old bearer
stored and commits only with the new one.  A command that has not asked yet may
act on a vault that has changed since it read it, but then the prepared rotation
was given to another as well, and asking for it makes it shared.  The number of
commands is not bounded.  *ReportsTellTheTruth* needs one thing more (`Honesty`):
bearers come into use in the order they were drawn, unless a rotation is shared,
so the bearer in use is the one that the command names.

*The operator's tools.* A lemma each splits the start and the steps of
`ToolsSpec` by `part` (`PartsStart`, `PartsMove`); what remains is an invariant
of each part.  Backup (`BackupFits`): a bundle is only ever copied with its
manifest, a manifest that verifies is of a bundle that was certified, and
between its two verifications a restore has in hand what the manifest says.
Campaign (`CampaignFits`): the key of every objective was saved before it was
posted, and is now pending in the file, marked as ended or written over by
another command (`KeysFit`); what a command and the file know of an objective is
its row (`Knows`), and the baseline they compare with is no less than what
existed when the campaign started (`Hides`).  Readiness cache (`ReadinessFits`):
an entry that can be served expires no later than `Ttl` after each of its facts
was seen, however the probes of one target overlap, and earlier when something
was missing. Preflight: every scenario stands by a case of its own, but for a
provider that lacks things of several categories; and of two ready reviewers one
is not the author.  Updates (`UpdateFits`): every application that was once
installed is installed or among the copies, what a command is about to install
is newer than the one it read (`Carries`), and of a command that runs alone the
one it read is the installed one, or the copy it has just moved aside.

*Planning.*  `QuestionsHoldPlanningHolds` rests on the shape of every row
(`TypeCorrect`, from `FitInv`: rows only refer to rows that are there) and on two
facts: of the pipelines of the current generation only the one that holds the
planning slot is alive (`SlotHeld`), and it plans no objective with an open
question (`QuestionsHold`): a group is opened by the pipeline that ends there.
Both need that no cancellation of a handle waits, which is the property's
exception.  `PauseFences` follows from the captured generation, which
every step of a pipeline compares with the project's after its await.

*The edges of the control plane* are split by `part` in the same way
(`EdgesStart`, `EdgesMove`).  Provider runs (`RunsFit`): only the last run is
under way, every other one is cleaned up, and a run that was revoked was stopped
or belongs to an older generation, so its result is not taken.  Event feed
(`FeedFits`): an open stream carries, in order, every event after the durable
number that no replay's limit cut off, each data line behind the line of its
number, so the number moves past an event only when it is handed over; for any
limit, and any number of events and cuts.  The mission's branch (`BranchFits`):
an invariant of the mission's row and the branch (`MissionFits`), of each of its
two coroutines at each await (`SlotFits`), of one that is not fenced
(`AwakeFits`) and of the two together (`PairFits`); it was checked by TLC first,
on 2.3 million states.  It says what of the tree, the branch and its copy on
GitHub a scan has seen, and that of two coroutines only one is current.  It is
proved for the two coroutines of `Slots`, and for any number of changes,
corrections, pauses and crashes.  Plans (`PlanFits`): what was written is a
proposal that validation accepted against the checks as they still are.  If no
mission could go on, the keys of those that have not completed would each wait
for another of them, and validation found no such cycle (`SomeGoesOn`); the
artifacts of a mission, with a file its patterns leave it, are a result that
passes its validation (`CanPass`).

*The vault.*  As long as nothing clashed the lock excludes: at most one command
is between taking it and releasing it, and only that one has a key staged.  What
a command read under the lock is therefore still the vault when it writes
(`NoUpdateIsLost`).  For `AlwaysRecoverable` the invariant follows the key: a
rotation stages the recovery file of the new key before the vault is written
with it and promotes it after, so one of the two opens the vault between any two
file operations; a migration removes a plain file only after it has checked that
the entry is in the vault, and nobody removes entries meanwhile.

*The remote host.* `Fit` says that tokens are drawn once, that only a device
that was paired is known to the host, that a call which revokes has marked the
device, that the session of a paired device is used up, and that a device is
accepted by one call at a time and before it is paired, the relay keeping what
it registered until that call completes - unless accepts overlap, the property's
exception. Steps that neither pair nor revoke are dealt with by one frame lemma
(`QuietFits`).

*The delivery.*  `Fit` has five parts: what is held or remembered was once
queued; a request is queued once, under a number drawn for it; without overlap
each number is drawn once; the connector's batch is what follows its cursor in
the queue, and a pending delivery is of the request after the cursor; an answer
is of a request the cursor has passed or that is in delivery, and a request is
handled again only after a crash.  `NothingRepeats` follows from the last two.
The refinement maps `HostHandle` to `Serve`, `HostPublish` to `Answer`, `HostAck`
to `Finish` and `AppPublish` to `Accept`; every other step stutters, for which a
frame lemma (`Aside`) separates the steps that leave the connector alone.

What the proofs corrected.  Two outcomes of the engine were chosen by a `CASE`
whose guards overlap (in `ValidateOutcomes` and `ReviewOutcomes`): TLC takes the
first that holds, TLA+ leaves the choice open, and the proofs could not follow
it; the guards now exclude each other as the code's early returns do.  The
exception of `VaultBearerIsAccepted` looked only at what commands remember now:
after two of them have shared a rotation and one has started again, the stored
bearer may be rejected and nothing tells why; and of three commands one may
resume a rotation whose preparation another never heard of.  The exception is
now history (`given`), and the run has one more rotation, which shows the
difference. `ResolveMission` of BrainPipeline had a `CASE` of the same kind.
`OpenWorkIsDriven` excepted crashes, and a process that dies of an exception in
a detached coroutine loses the same missions: the exception is now `died`. An
error path is as easily left out: that a provider may throw out of `startRun`
and that a staging may throw after its save were missing, and the properties
held for want of them; they are now steps, and what they lose is named by the
properties. `QuestionsHoldPlanning` does not hold when a cancellation outlives a
pause, which no handle of `packages/providers` does; that is now its exception.
And a rollback that reports the bearer it verified may be wrong once its
rotation is shared, which `ReportsAreTrue` now says.

`PausedSessionsAreFenced`, `PauseIsIsolated`, `RevokedWorkersHoldNoLease` and
the type invariants are proved and not run.

Every invariant and every action property that a run checks is stated by a
theorem.  Only model-checked: what must eventually happen, because liveness under
fairness is beyond the prover (`StartedWorkIsHandedOver`, `CancellingRunsEnd`,
`AnswersAreRead`, `PlanningEnds`, `RequestsAreAnswered`, `RotationsSettle`,
`HostCertificateIsRenewed`, `RunsEnd`, `ScreensCatchUp`); and that the recursive
search for cycles finds what `NoCycle` says, because the prover can not follow
recursive operators.  Three theorems have a hypothesis, `UserTargets = {}`, whose
reason is above.

## 7. Not modelled

* Policy decisions but for the rules on paths and commands (PlanProposal), the
  profile of the OS sandbox, transport security: a check of one input, or an
  external effect with no second actor; their verdict is an outcome of the step
  that asks.
* Budgets and usage; the writing of the event log (EventFeed reads it);
  idempotency keys outside the campaign's; the evidence of pull requests.
* A branch checked out in a stale worktree, the parsing of remote URLs, the
  metadata file that hides `.avity` (MissionBranch starts after it).
* MissionEngine and BrainPipeline in one state: each has the other's part as
  coarse steps (the missions of a plan as `work`, planning as nothing).
* The graceful `stop()` of the engine (ProviderRun has it for one run);
  worker enrollment; requests of a worker delayed until after a newer one (the
  agent sends in sequence).
* Model discovery, prices, the commands of
  the CLI that send one request and print the answer, the screens of the
  clients, authentication as such, schemas and migrations.

`PROJECT.json` gives the status and the reason for each component.

## 8. What could come next

1. MissionEngine and BrainPipeline composed: a plan that replaces missions while
   a coroutine drives one of them.
2. The mission's branch with any number of coroutines; the invariant speaks of
   each coroutine and of each pair, so the argument should carry over.
3. What a user may do by hand: which of the engine's invariants survive which
   targets of `POST /v1/missions/:id/transition`.
4. The routes and rows of the store that section 7 leaves out, budgets first.
