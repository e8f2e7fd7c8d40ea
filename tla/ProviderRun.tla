----------------------------- MODULE ProviderRun ----------------------------
\* One mission's (or planning step's) provider runs: an adapter of
\* packages/providers drives an agent process, an HTTP request or a fixture,
\* and the engine or the brain consumes its events.  The generator between
\* them is drained in microtasks, so an event is consumed in the step that
\* produces it.  Output, usage, artifact and checkpoint events decide nothing
\* here and are left out.
EXTENDS Naturals, Sequences

CONSTANTS
    Runs,               \* bound on the runs of a behaviour
    Pauses,             \* bound on project pauses
    Halts               \* bound on crashes and shutdowns of the control plane

VARIABLES
    setup,              \* [adapter, consumer, reaps, obeys], fixed
    control,            \* [up, stopped, halts] of the control plane
    project,            \* [paused, generation]
    loop,               \* [at, generation] of the consumer's attempt loop
    live,               \* the handle of the run whose events are consumed
    runs                \* every run started, in order

vars == <<setup, control, project, loop, live, runs>>

None == "none"
Categories == {"auth", "rate_limited", "quota_exhausted", "invalid_request",
               "transient_network", "unknown", "agent_crash", "sandbox_unavailable"}

\* normalizeHttpStatus: what a refused request may be reported as.
HttpCategories == Categories \ {"agent_crash", "sandbox_unavailable"}

\* What the model is about, chosen once: `reaps` is a Linux host, where
\* bubblewrap kills the agent with its parent; `obeys` an agent that SIGTERM ends.
Setups == [adapter : {"unauthenticated", "unsandboxed", "cli", "http", "fixture"},
           consumer : {"engine", "brain"}, reaps : BOOLEAN, obeys : BOOLEAN]

Idle == [at |-> "idle", generation |-> 0]

\* A handle: the CLI adapter's timer, the brain's own, the outcome so far, whether
\* it was cancelled, and where its HTTP request is.
Rests == [timer |-> None, step |-> None, outcome |-> None, cancelled |-> FALSE, request |-> None]
Armed == [Rests EXCEPT
             !.timer = IF setup.adapter = "cli" THEN "armed" ELSE None,
             !.step = IF setup.consumer = "brain" THEN "armed" ELSE None,
             !.request = IF setup.adapter = "http" THEN "fetch" ELSE None]

\* A run's record: its agent process, whether SIGTERM was sent, whether the
\* throwaway HOME is on disk, what left it behind; and, for the properties, how
\* its work really ended, whether that was late or revoked, and what was taken.
Started(agent, staged, left) ==
    [agent |-> agent, told |-> FALSE, staged |-> staged, left |-> left,
     ended |-> FALSE, late |-> FALSE, revoked |-> FALSE, taken |-> None]

Init ==
    /\ setup \in Setups
    /\ control = [up |-> TRUE, stopped |-> FALSE, halts |-> 0]
    /\ project = [paused |-> FALSE, generation |-> 0]
    /\ loop = Idle
    /\ live = Rests
    /\ runs = <<>>

Open == loop.at = "open"
Last == Len(runs)
Current(i) == Open /\ i = Last

\* fencePausedWork, assertNotPaused: the project was paused since the loop began.
FencedBy(p) == p.paused \/ p.generation # loop.generation

\* What the consumer makes of a stream that ends with outcome `out`: nothing
\* when the process stops or the project was paused; the brain's own timeout
\* overrides what the stream said; no outcome at all is an agent crash.
Taken(handle, out) ==
    IF control'.stopped \/ FencedBy(project') THEN None
    ELSE IF handle.step = "fired" THEN "transient_network"
    ELSE IF out = None THEN "agent_crash" ELSE out

\* The stream of the current run, whose record is now r, ends with outcome out.
\* Whether another run follows is the fallback's decision: Discover may follow.
EndsWith(r, handle, out) ==
    /\ runs' = [runs EXCEPT ![Last] = [r EXCEPT !.taken = Taken(handle, out)]]
    /\ loop' = Idle
    /\ live' = Rests

\* killGroup and cleanupSandbox: a process still alive is sent SIGTERM, not awaited.
Killed(r) == [r EXCEPT !.told = @ \/ r.agent = "alive", !.staged = FALSE]

\* Mutant: a cancelled CLI is waited for like one that timed out.
CancelHandleAwaits(r, handle) ==
    /\ runs' = [runs EXCEPT ![Last] = IF setup.adapter = "cli" THEN Killed(r) ELSE r]
    /\ live' = [handle EXCEPT !.cancelled = TRUE]
    /\ UNCHANGED loop

\* handle.cancel() of the open run, its record and handle given: a CLI's stream
\* is done at once, an HTTP request is aborted, the fixture is flagged.
CancelHandle(r, handle) ==
    IF setup.adapter = "cli"
    THEN EndsWith(Killed(r), handle, handle.outcome)
    ELSE /\ runs' = [runs EXCEPT ![Last] = r]
         /\ live' = [handle EXCEPT !.cancelled = TRUE]
         /\ UNCHANGED loop

\* The top of the attempt loop: the providers' models are asked for.
Discover ==
    /\ control.up /\ ~control.stopped /\ ~project.paused
    /\ loop.at = "idle"
    /\ Last < Runs
    /\ loop' = [at |-> "discovering", generation |-> project.generation]
    /\ UNCHANGED <<setup, control, project, live, runs>>

\* The models arrive.  Both consumers look at the pause again; only the brain
\* looks at its own stop again.
MayStart == ~FencedBy(project) /\ ~(setup.consumer = "brain" /\ control.stopped)

Withdraw ==
    /\ loop.at = "discovering"
    /\ ~MayStart
    /\ loop' = Idle
    /\ UNCHANGED <<setup, control, project, live, runs>>

\* createRun, beside startRun: the record of the run.
Begin(record) == runs' = Append(runs, record)

\* startRun, without credentials or without a sandbox: one error event, no process.
StartRefused ==
    /\ loop.at = "discovering" /\ MayStart
    /\ setup.adapter \in {"unauthenticated", "unsandboxed"}
    /\ UNCHANGED <<setup, control, project, live>>
    /\ Begin([Started("gone", FALSE, None) EXCEPT
                 !.taken = Taken(Rests, IF setup.adapter = "unauthenticated"
                                        THEN "auth" ELSE "sandbox_unavailable")])
    /\ loop' = Idle

\* startRun of a CLI: the HOME is staged and the process is spawned.
StartCli ==
    /\ loop.at = "discovering" /\ MayStart
    /\ setup.adapter = "cli"
    /\ Begin(Started("alive", TRUE, None))
    /\ live' = Armed
    /\ loop' = [loop EXCEPT !.at = "open"]
    /\ UNCHANGED <<setup, control, project>>

\* spawn throws (an argument list longer than the system takes), and startRun
\* with it, after the HOME was staged.
SpawnThrows ==
    /\ loop.at = "discovering" /\ MayStart
    /\ setup.adapter = "cli"
    /\ Begin(Started("gone", TRUE, "throw"))
    /\ loop' = Idle
    /\ UNCHANGED <<setup, control, project, live>>

\* Mutant: the staged HOME is left on disk.
SpawnFailsStaged ==
    /\ loop.at = "discovering" /\ MayStart
    /\ setup.adapter = "cli"
    /\ UNCHANGED <<setup, control, project, live>>
    /\ Begin([Started("gone", TRUE, None) EXCEPT !.taken = Taken(Rests, "agent_crash")])
    /\ loop' = Idle

\* child.on("error"): the executable could not be started, which Node reports
\* before anything else happens.
SpawnFails ==
    /\ loop.at = "discovering" /\ MayStart
    /\ setup.adapter = "cli"
    /\ UNCHANGED <<setup, control, project, live>>
    /\ Begin([Started("gone", FALSE, None) EXCEPT !.taken = Taken(Rests, "agent_crash")])
    /\ loop' = Idle

\* startRun of an HTTP adapter or of the fixture.
StartRequest ==
    /\ loop.at = "discovering" /\ MayStart
    /\ setup.adapter \in {"http", "fixture"}
    /\ Begin(Started("gone", FALSE, None))
    /\ live' = Armed
    /\ loop' = [loop EXCEPT !.at = "open"]
    /\ UNCHANGED <<setup, control, project>>

-----------------------------------------------------------------------------
\* child.on("close"): the agent exits with 0 or not, by itself or because it was
\* told to.  After a timeout the close only ends the stream.  The handler of a
\* control plane that has gone does not run.
AgentExits(i, zero) ==
    /\ runs[i].agent = "alive"
    /\ UNCHANGED <<setup, control, project>>
    /\ LET r == [runs[i] EXCEPT !.agent = "gone",
                    !.staged = @ /\ runs[i].left # None,
                    !.ended = zero /\ ~runs[i].told]
       IN  IF Current(i)
           THEN EndsWith(r, live, IF live.cancelled THEN live.outcome
                                  ELSE IF zero THEN "completed" ELSE "agent_crash")
           ELSE runs' = [runs EXCEPT ![i] = r] /\ UNCHANGED <<loop, live>>

\* Mutant: the adapter does not remember that it gave the run up.
DeadlineForgotten ==
    /\ Open /\ live.timer = "armed"
    /\ runs' = [runs EXCEPT ![Last] = [Killed(runs[Last]) EXCEPT !.late = TRUE]]
    /\ live' = [live EXCEPT !.timer = "fired", !.outcome = "unknown"]
    /\ UNCHANGED <<setup, control, project, loop>>

\* The CLI adapter's timer: an error event, SIGTERM, and the close is awaited.
Deadline ==
    /\ Open /\ live.timer = "armed"
    /\ runs' = [runs EXCEPT ![Last] = [Killed(runs[Last]) EXCEPT !.late = TRUE]]
    /\ live' = [live EXCEPT !.timer = "fired", !.outcome = "unknown", !.cancelled = TRUE]
    /\ UNCHANGED <<setup, control, project, loop>>

\* The brain's timer around a step.  A CLI's own, armed first, has fired before.
StepDeadline ==
    /\ Open /\ live.step = "armed" /\ live.timer # "armed"
    /\ UNCHANGED <<setup, control, project>>
    /\ CancelHandle([runs[Last] EXCEPT !.late = TRUE], [live EXCEPT !.step = "fired"])

\* fetch: aborted, failed, or answered with a status.
Fetched ==
    /\ Open /\ live.request = "fetch"
    /\ UNCHANGED <<setup, control, project>>
    /\ IF live.cancelled THEN EndsWith(runs[Last], live, None)
       ELSE \/ EndsWith(runs[Last], live, "transient_network")
            \/ /\ \E request \in {"body", "refusal"} : live' = [live EXCEPT !.request = request]
               /\ UNCHANGED <<loop, runs>>

\* The body of a refusal: an abort only loses its text.
RefusalRead ==
    /\ Open /\ live.request = "refusal"
    /\ UNCHANGED <<setup, control, project>>
    /\ \E category \in HttpCategories : EndsWith(runs[Last], live, category)

\* The body of an answer: aborted, not JSON, or the result.
BodyRead ==
    /\ Open /\ live.request = "body"
    /\ UNCHANGED <<setup, control, project>>
    /\ IF live.cancelled THEN EndsWith(runs[Last], live, None)
       ELSE \/ EndsWith(runs[Last], live, "transient_network")
            \/ EndsWith([runs[Last] EXCEPT !.ended = TRUE], live, "completed")

\* The fixture: a script that completes or fails as its model name says, or a
\* slow one that polls its deadline and its cancellation.
FixtureCompletes ==
    /\ Open /\ setup.adapter = "fixture" /\ ~live.cancelled
    /\ UNCHANGED <<setup, control, project>>
    /\ \/ EndsWith([runs[Last] EXCEPT !.ended = TRUE], live, "completed")
       \/ \E category \in Categories : EndsWith(runs[Last], live, category)

FixtureGivesUp ==
    /\ Open /\ setup.adapter = "fixture"
    /\ UNCHANGED <<setup, control, project>>
    /\ IF live.cancelled THEN EndsWith(runs[Last], live, None)
       ELSE EndsWith([runs[Last] EXCEPT !.late = TRUE], live, "unknown")

-----------------------------------------------------------------------------
\* pauseProject: the generation moves, then the project's handles are cancelled.
Pause ==
    /\ control.up /\ ~project.paused /\ project.generation < Pauses
    /\ project' = [paused |-> TRUE, generation |-> project.generation + 1]
    /\ UNCHANGED <<setup, control>>
    /\ IF Open THEN CancelHandle([runs[Last] EXCEPT !.revoked = TRUE], live)
       ELSE UNCHANGED <<loop, live, runs>>

Resume ==
    /\ control.up /\ ~control.stopped /\ project.paused
    /\ project' = [project EXCEPT !.paused = FALSE]
    /\ UNCHANGED <<setup, control, loop, live, runs>>

\* shutdown: engine.stop cancels the handles it knows; the process exits later.
Stop ==
    /\ control.up /\ ~control.stopped /\ control.halts < Halts
    /\ control' = [control EXCEPT !.stopped = TRUE]
    /\ UNCHANGED <<setup, project>>
    /\ IF Open THEN CancelHandle([runs[Last] EXCEPT !.revoked = TRUE], live)
       ELSE UNCHANGED <<loop, live, runs>>

\* The control plane's process is gone.  Its detached agents are not, where
\* nothing reaps them.
Gone(how) ==
    /\ control' = [up |-> FALSE, stopped |-> FALSE, halts |-> control.halts + 1]
    /\ runs' = [i \in 1..Last |->
                  [runs[i] EXCEPT
                     !.agent = IF setup.reaps THEN "gone" ELSE @,
                     !.left = IF @ = None /\ (runs[i].agent = "alive" \/ runs[i].staged) THEN how ELSE @]]
    /\ loop' = Idle
    /\ live' = Rests
    /\ UNCHANGED <<setup, project>>

Exit == control.up /\ control.stopped /\ Gone("exit")
Crash == control.up /\ control.halts < Halts /\ Gone("crash")

\* reconcile fails the runs a dead process left and offers the mission again.
Restart ==
    /\ ~control.up
    /\ control' = [control EXCEPT !.up = TRUE]
    /\ UNCHANGED <<setup, project, loop, live, runs>>

Exits == \E i \in 1..Last, zero \in BOOLEAN : AgentExits(i, zero)

Next ==
    \/ Discover \/ Withdraw \/ StartRefused \/ StartCli \/ StartRequest
    \/ SpawnThrows \/ SpawnFails \/ Exits \/ Deadline \/ StepDeadline
    \/ Fetched \/ RefusalRead \/ BodyRead \/ FixtureCompletes \/ FixtureGivesUp
    \/ Pause \/ Resume \/ Stop \/ Exit \/ Crash \/ Restart

\* An agent that obeys SIGTERM exits; timers fire; fetch has its own time limits.
ObedientExits ==
    \E i \in 1..Last, zero \in BOOLEAN :
        setup.obeys /\ runs[i].told /\ AgentExits(i, zero)

Fairness ==
    /\ WF_vars(ObedientExits)
    /\ WF_vars(Deadline) /\ WF_vars(StepDeadline)
    /\ WF_vars(Fetched) /\ WF_vars(RefusalRead) /\ WF_vars(BodyRead)
    /\ WF_vars(FixtureGivesUp)

Spec == Init /\ [][Next]_vars /\ Fairness

-----------------------------------------------------------------------------
\* What is taken of a run is what happened to it: completed only if its agent
\* exited with 0 (its request answered) in time, a run that was late as the
\* error its consumer gives a timeout even when the agent traps SIGTERM and
\* exits with 0, and nothing of a run whose project was paused meanwhile or
\* whose control plane was stopping.
OutcomeIsEarned ==
    \A i \in 1..Last :
        /\ runs[i].taken = "completed" => runs[i].ended
        /\ runs[i].late => runs[i].taken \in {None, "unknown", "transient_network"}
        /\ runs[i].revoked => runs[i].taken = None

\* When a run is over its throwaway HOME is gone and its agent, if still alive,
\* was told to stop, so two agents work in one worktree only while an earlier
\* one is dying.  Except: spawn threw; the control plane crashed; or it exited
\* with a run the engine started after its stop.
NothingIsLeft ==
    \A i \in 1..Last : ~Current(i) =>
        /\ runs[i].staged => runs[i].left # None
        /\ runs[i].agent = "alive" => runs[i].told \/ runs[i].left \in {"crash", "exit"}

\* Every run ends, cancelled, late or by itself; except one of the engine whose
\* agent ignores SIGTERM, which only a cancellation ends: the brain cancels
\* when its own timer fires, the engine has none.
Deaf == setup.consumer = "engine" /\ setup.adapter = "cli" /\ ~setup.obeys
Ending == Open /\ ~Deaf
RunsEnd == Ending ~> ~Open

=============================================================================
