--------------------------- MODULE MissionEngine ---------------------------
(***************************************************************************)
(* The mission half of the control plane: Engine                           *)
(* (services/control-plane/src/engine.ts) over the rows Store              *)
(* (services/control-plane/src/store.ts) keeps for one project.            *)
(*                                                                         *)
(* The process is one Node event loop, so code between two awaits is one   *)
(* atomic step; what interleaves are the continuations.  An engine         *)
(* continuation is a thread <<m, k>>: the k-th coroutine of mission m, with *)
(* the await it is parked at (pc) and the pause generation it captured     *)
(* when it started.  Threads are memory, and a crash loses them; missions, *)
(* runs and approvals are durable.                                         *)
(*                                                                         *)
(* Abstracted: budgets, policies, providers, git and check commands are    *)
(* the nondeterministic outcome of the step that consults them; names,     *)
(* prompts, diffs, logs and events are left out.                           *)
(***************************************************************************)
EXTENDS Integers, FiniteSets, Transitions

CONSTANTS
    Missions,       \* the missions of the project
    Slots,          \* bound: coroutines of one mission alive at a time
    Deps,           \* [Missions -> SUBSET Missions], mission_dependencies
    MaxConcurrent,  \* min of config.maxConcurrentRuns and ...PerProject
    MaxAttempts,    \* mission.maxCorrectionAttempts
    MaxTries,       \* provider retries and switches decideFallback allows
    HasRepository,  \* project.repoPath is set
    Supervised,     \* project.autonomyProfile = "supervised"
    UserTargets,    \* states a user asks for on POST /missions/:id/transition
    MaxGen,         \* bound: project pauses
    MaxCrashes,     \* bound: crashes of the process not caused by its own code
    MaxApprovals    \* bound: open approvals of one kind counted per mission

ASSUME ConstantsAssumption ==
    /\ IsFiniteSet(Missions)
    /\ Slots \subseteq Nat /\ Slots # {}
    /\ Deps \in [Missions -> SUBSET Missions]
    /\ MaxConcurrent \in Nat /\ MaxAttempts \in Nat /\ MaxTries \in Nat
    /\ HasRepository \in BOOLEAN /\ Supervised \in BOOLEAN
    /\ UserTargets \subseteq MissionState
    /\ MaxGen \in Nat /\ MaxCrashes \in Nat
    /\ MaxApprovals \in Nat \ {0}

VARIABLES
    status,         \* projects.status: active, paused or completed
    gen,            \* projects.pause_generation
    state,          \* missions.state
    pausedFrom,     \* missions.paused_from_state, "none" when NULL
    attempts,       \* missions.correction_attempts
    reviewBlocked,  \* state_reason starts with REVIEW_BLOCK_REASON_PREFIX
    approvals,      \* open approvals of a mission, by what they ask
    succeeded,      \* the mission has a run in state succeeded
    validated,      \* history: the last accepted author result passed validation
    flow,           \* the engine's coroutines and the run each one owns
    pauseTodo,      \* runs that in-flight pauseProject calls still cancel
    cancelTodo,     \* runs that in-flight cancelMission calls have yet to reach
    cancelCur,      \* runs whose handle.cancel() a cancelMission awaits
    up,             \* the control-plane process is running
    crashes,
    died            \* history: the process has died, of a crash or of an exception

projectVars == <<status, gen>>
missionVars == <<state, pausedFrom, attempts, reviewBlocked, approvals>>
resultVars  == <<succeeded, validated>>
callVars    == <<pauseTodo, cancelTodo, cancelCur>>
hostVars    == <<up, crashes, died>>
vars == <<projectVars, missionVars, resultVars, flow, callVars, hostVars>>

Threads == Missions \X Slots

\* What an approval asks: retry the mission, retry its review, or judge it.
ApprovalKind == {"retry", "review", "human"}

\* The awaits a coroutine can be parked at.
ExecutePC  == {"worktree", "models", "provider", "backoff"}
ValidatePC == {"checking", "publishing"}
ReviewPC   == {"diff", "reviewing", "rbackoff"}
PC == {"idle", "cleanup"} \cup ExecutePC \cup ValidatePC \cup ReviewPC

\* The current run of a coroutine; queued and starting never outlive a step in
\* which it goes on.  A run is `left` when it is still starting or running and
\* its coroutine has ended: nothing has a handle of it any more.
FlowRun == {"none", "left", "running", "cancelling", "cancelled", "failed"}

Flow == [pc : PC, gen : Nat, caught : BOOLEAN, run : FlowRun, tries : Nat]

NoFlow == [pc |-> "idle", gen |-> 0, caught |-> FALSE, run |-> "none", tries |-> 0]

\* A coroutine that ends leaves its run behind if the run is still active.
Exit(f) == CASE f.run \in {"running", "left"} -> [NoFlow EXCEPT !.run = "left"]
             [] f.run = "cancelling"          -> [NoFlow EXCEPT !.run = "cancelling"]
             [] OTHER                         -> NoFlow

WithRun(f, r) == IF f.pc = "idle" THEN Exit([f EXCEPT !.run = r])
                                  ELSE [f EXCEPT !.run = r]

\* A slot that may host a new coroutine of m: no code and no live run in it.
FreeSlots(m) == {k \in Slots : /\ flow[<<m, k>>] = NoFlow
                               /\ <<m, k>> \notin pauseTodo \cup cancelTodo \cup cancelCur}

SlotFor(m) == CHOOSE k \in FreeSlots(m) : TRUE

-----------------------------------------------------------------------------
(* Fencing *)

\* Mutant: the generation is not compared.
AcceptingWorkOfAnyGeneration(g) == status # "paused"

\* Store.assertProjectAcceptingWork and Engine.fencePausedWork.
AcceptingWork(g) == status # "paused" /\ gen = g

Fenced(t) == ~AcceptingWork(flow[t].gen)

At(t, p) == up /\ flow[t].pc = p

-----------------------------------------------------------------------------
(* Outcomes.  The synchronous prefix of an Engine method, from its call to *)
(* its first await, ends in one of a set of outcomes: the state it leaves  *)
(* the mission in, the await it parks at ("idle" when it returned), the    *)
(* correction attempts recorded and the approval it opens.                 *)

Outcome(m, s, p) == [state |-> s, pc |-> p, attempts |-> attempts[m], ask |-> "none"]

\* Mutant: the intervention is recorded but no approval is opened.
AskingNobody(m, s, kind) == Outcome(m, s, "idle")

Asking(m, s, kind) == [Outcome(m, s, "idle") EXCEPT !.ask = kind]

DependenciesCompleted(m) == \A d \in Deps[m] : state[d] = "completed"

\* ensureWorktree: in a project with a repository every dependency must be
\* completed with its branch; without one nothing is checked.
WorktreeAllowed(m) == HasRepository => DependenciesCompleted(m)

\* Mutant: ensureWorktree trusts the promotion.
ExecuteOutcomesUngated(m, a, open) ==
    {[Outcome(m, "assigned", IF open THEN "worktree" ELSE "idle") EXCEPT !.attempts = a]}

\* executeMission of a mission just assigned with `a` correction attempts; the
\* budget may be exhausted.  `open` is false when the project is paused.
ExecuteOutcomes(m, a, open) ==
    {[o EXCEPT !.attempts = a] : o \in
        IF ~open THEN {Outcome(m, "assigned", "idle")}
        ELSE {Asking(m, "blocked", "retry")} \cup
             (IF WorktreeAllowed(m) THEN {Outcome(m, "assigned", "worktree")} ELSE {})}

\* decideCorrection: the next attempt is within the mission's limit.
MayCorrect(m) == attempts[m] + 1 <= MaxAttempts

\* failValidation: a bounded correction, or an intervention.
FailOutcomes(m, open) ==
    IF MayCorrect(m) THEN ExecuteOutcomes(m, attempts[m] + 1, open)
                     ELSE {Asking(m, "failed", "retry")}

\* validateMission; the caller knows whether a succeeded run exists.
ValidateOutcomes(m, hasRun, open) ==
    CASE ~open           -> {Outcome(m, "validating", "idle")}
      [] open /\ hasRun  -> {Outcome(m, "validating", "checking")}
      [] open /\ ~hasRun -> FailOutcomes(m, open)

\* reviewMission: a human in a supervised project, an independent reviewer
\* otherwise, or an intervention when no reviewer provider is configured.
ReviewOutcomes(m, open) ==
    CASE ~open               -> {Outcome(m, "review_required", "idle")}
      [] open /\ Supervised  -> {Asking(m, "review_required", "human")}
      [] open /\ ~Supervised ->
            {Outcome(m, "review_required", "diff"), Asking(m, "blocked", "review")}

\* integrateMission.
IntegrateOutcomes(m, open) ==
    {IF open THEN Outcome(m, "integrated", "cleanup") ELSE Outcome(m, "approved", "idle")}

\* createApproval: one more open approval (the count saturates at its bound).
OpenApproval(count, kind) ==
    [j \in ApprovalKind |-> IF j = kind /\ count[j] < MaxApprovals THEN count[j] + 1
                                                                  ELSE count[j]]

\* Commit outcome o to mission m.  The new state_reason replaces the old one.
Commit(m, o) ==
    /\ state' = [state EXCEPT ![m] = o.state]
    /\ attempts' = [attempts EXCEPT ![m] = o.attempts]
    /\ approvals' = [approvals EXCEPT ![m] = OpenApproval(@, o.ask)]
    /\ reviewBlocked' = [reviewBlocked EXCEPT ![m] = (o.ask = "review")]
    /\ UNCHANGED pausedFrom

\* A coroutine started now; `caught` when its caller handles its rejection.
Spawned(o, caught) ==
    IF o.pc = "idle" THEN NoFlow
    ELSE [NoFlow EXCEPT !.pc = o.pc, !.gen = gen, !.caught = caught]

\* The same coroutine parked at its next await, its last run over.
Parked(t, p) ==
    IF p = "idle" THEN NoFlow ELSE [flow[t] EXCEPT !.pc = p, !.run = "none", !.tries = 0]

\* The next attempt of the same coroutine: parked at p, its new run being r.
Retried(f, p, r) == [f EXCEPT !.pc = p, !.run = r, !.tries = @ + 1]

-----------------------------------------------------------------------------
(* How a continuation ends without its effect *)

Abandon(t) ==
    /\ flow' = [flow EXCEPT ![t] = Exit(@)]
    /\ UNCHANGED <<projectVars, missionVars, resultVars, callVars, hostVars>>

LoseMemory ==
    /\ up' = FALSE /\ died' = TRUE
    /\ pauseTodo' = {} /\ cancelTodo' = {} /\ cancelCur' = {}

\* An exception leaves coroutine t, whose record has become f.  The scheduler
\* attaches a catch to the coroutines it starts; the rejection of any other
\* is unhandled, which ends the Node process.
Throw(t, f) ==
    IF f.caught
    THEN /\ flow' = [flow EXCEPT ![t] = Exit(f)]
         /\ UNCHANGED <<callVars, up, died>>
    ELSE /\ flow' = [u \in Threads |-> Exit(IF u = t THEN f ELSE flow[u])]
         /\ LoseMemory

\* The step of t that moves its mission through `via` to outcome o, and leaves
\* `next` in its thread; the store throws when the move is illegal.
Move(t, via, o, next, thrown) ==
    IF CanTransitionMission(state[t[1]], via)
    THEN /\ Commit(t[1], o)
         /\ flow' = [flow EXCEPT ![t] = next]
         /\ UNCHANGED <<callVars, up, died>>
    ELSE Throw(t, thrown) /\ UNCHANGED missionVars

\* failValidation called by t: a correction runs as a coroutine of its own.
\* The attempt is recorded before the transition that may throw.
Fail(t) ==
    LET m == t[1]
        via == IF MayCorrect(m) THEN "retrying" ELSE "failed"
    IN  IF CanTransitionMission(state[m], via)
        THEN \E o \in FailOutcomes(m, TRUE) : Move(t, via, o, Spawned(o, FALSE), flow[t])
        ELSE /\ Throw(t, WithRun(flow[t], "none"))
             /\ attempts' = [attempts EXCEPT ![m] = IF MayCorrect(m) THEN @ + 1 ELSE @]
             /\ UNCHANGED <<state, pausedFrom, reviewBlocked, approvals>>

\* The coroutine t, become f, creates a run: queued -> starting -> running around
\* adapter.startRun.  A spawn that fails at once throws out of it, and the run
\* is left when the coroutine ends with the exception.
Launch(t, f) ==
    /\ \/ /\ flow' = [flow EXCEPT ![t] = [f EXCEPT !.run = "running"]]
          /\ UNCHANGED <<callVars, up, died>>
       \/ Throw(t, [f EXCEPT !.run = "left"])
    /\ UNCHANGED <<projectVars, missionVars, resultVars, crashes>>

-----------------------------------------------------------------------------
(* executeMission *)

\* The worktree is ready, or it (or the provider chain) is not usable.
WorktreePrepared(t) ==
    /\ At(t, "worktree")
    /\ IF Fenced(t) THEN Abandon(t)
       ELSE /\ \E o \in {Outcome(t[1], "running", "models"), Asking(t[1], "blocked", "retry")} :
                  Move(t, o.state, o, Parked(t, o.pc), flow[t])
            /\ UNCHANGED <<projectVars, resultVars, crashes>>

\* Mutant: the fence after listModels is missing.
StartRunUnfenced(t) == At(t, "models") /\ Launch(t, [flow[t] EXCEPT !.pc = "provider"])

\* listModels answered: create the run and start the agent.
\* Only the project is re-checked here, not the state of the mission.
StartRun(t) ==
    /\ At(t, "models")
    /\ IF Fenced(t) THEN Abandon(t) ELSE Launch(t, [flow[t] EXCEPT !.pc = "provider"])

\* The event stream ended with `completed`: accept the result and validate it.
ProviderCompletes(t) ==
    /\ At(t, "provider")
    /\ IF Fenced(t) \/ flow[t].run # "running" THEN Abandon(t)
       ELSE /\ \E o \in ValidateOutcomes(t[1], TRUE, TRUE) :
                  Move(t, "result_submitted", o, Parked(t, o.pc), WithRun(flow[t], "none"))
            /\ succeeded' = [succeeded EXCEPT ![t[1]] = TRUE]
            /\ validated' = [validated EXCEPT ![t[1]] = FALSE]
            /\ UNCHANGED <<projectVars, crashes>>

\* The head of the retry loop: go on only while the mission is running.
LoopHead(t, p) ==
    flow' = [flow EXCEPT ![t] =
        IF state[t[1]] = "running" THEN [@ EXCEPT !.pc = p, !.run = "none"] ELSE NoFlow]

\* decideFallback: to wait and retry, or to go on with another model or provider,
\* while attempts and alternatives last; to ask the user, whatever the error.
Fallbacks(f) ==
    IF f.tries < MaxTries THEN {"retry", "switch", "escalate"} ELSE {"escalate"}

\* The stream ended in an error or without an outcome: the fallback's decision.
ProviderFails(t) ==
    /\ At(t, "provider")
    /\ IF Fenced(t) \/ flow[t].run # "running" THEN Abandon(t)
       ELSE /\ \/ /\ "retry" \in Fallbacks(flow[t])
                  /\ flow' = [flow EXCEPT ![t] = Retried(@, "backoff", "none")]
                  /\ UNCHANGED <<missionVars, callVars, up, died>>
               \/ /\ "switch" \in Fallbacks(flow[t])
                  /\ flow' = [flow EXCEPT ![t] = IF state[t[1]] = "running"
                                                 THEN Retried(@, "models", "none") ELSE NoFlow]
                  /\ UNCHANGED <<missionVars, callVars, up, died>>
               \/ Move(t, "blocked", Asking(t[1], "blocked", "retry"), NoFlow,
                       WithRun(flow[t], "none"))
            /\ UNCHANGED <<projectVars, resultVars, crashes>>

\* The stream itself throws, on an answer of a shape its adapter does not expect;
\* reviewMission catches that and executeMission does not.  A cancelled run has
\* no answer: its request is aborted.
StreamThrows(t) ==
    /\ At(t, "provider") /\ flow[t].run = "running"
    /\ Throw(t, flow[t])
    /\ UNCHANGED <<projectVars, missionVars, resultVars, crashes>>

\* The retry wait is over.
BackoffOver(t) ==
    /\ At(t, "backoff")
    /\ IF Fenced(t) THEN Abandon(t)
       ELSE /\ LoopHead(t, "models")
            /\ UNCHANGED <<projectVars, missionVars, resultVars, callVars, hostVars>>

-----------------------------------------------------------------------------
(* validateMission *)

\* The path scan, the artifacts and every required check passed.
ChecksPass(t) ==
    /\ At(t, "checking")
    /\ IF Fenced(t) THEN Abandon(t)
       ELSE /\ flow' = [flow EXCEPT ![t].pc = "publishing"]
            /\ UNCHANGED <<projectVars, missionVars, resultVars, callVars, hostVars>>

\* One of them failed, or (publishing) the commit did.
ValidationFails(t) ==
    /\ At(t, "checking") \/ At(t, "publishing")
    /\ IF Fenced(t) THEN Abandon(t)
       ELSE Fail(t) /\ UNCHANGED <<projectVars, resultVars, crashes>>

\* Committed and published: hand over to the review.
Published(t) ==
    /\ At(t, "publishing")
    /\ IF Fenced(t) THEN Abandon(t)
       ELSE /\ \E o \in ReviewOutcomes(t[1], TRUE) :
                  Move(t, "review_required", o, Parked(t, o.pc), flow[t])
            /\ validated' = [validated EXCEPT ![t[1]] =
                    @ \/ CanTransitionMission(state[t[1]], "review_required")]
            /\ UNCHANGED <<projectVars, succeeded, crashes>>

\* The pull request could not be published.  The catch around the publication
\* also takes the exception of an illegal move for a failed commit.
PublicationFails(t) ==
    /\ At(t, "publishing")
    /\ IF Fenced(t) THEN Abandon(t)
       ELSE /\ IF CanTransitionMission(state[t[1]], "blocked")
               THEN Move(t, "blocked", Asking(t[1], "blocked", "retry"), NoFlow, flow[t])
               ELSE Fail(t)
            /\ UNCHANGED <<projectVars, resultVars, crashes>>

-----------------------------------------------------------------------------
(* reviewMission and integrateMission *)

\* The diff is read, or a retry wait is over: start a reviewer run if the
\* mission still awaits its review.
StartReview(t) ==
    /\ At(t, "diff") \/ At(t, "rbackoff")
    /\ IF Fenced(t) \/ state[t[1]] # "review_required" THEN Abandon(t)
       ELSE Launch(t, [flow[t] EXCEPT !.pc = "reviewing"])

\* A verdict that comes after a pause fails its run if it is still active.
ReviewFenced(t) ==
    /\ At(t, "reviewing") /\ Fenced(t)
    /\ flow' = [flow EXCEPT ![t] = IF @.run = "running" THEN NoFlow ELSE Exit(@)]
    /\ UNCHANGED <<projectVars, missionVars, resultVars, callVars, hostVars>>

\* The reviewer completed.  Unlike executeMission this does not look at the
\* run first: a run being cancelled makes transitionRun throw.
ReviewCompletes(t) ==
    LET m == t[1]
        done == WithRun(flow[t], "none")
    IN  /\ At(t, "reviewing") /\ ~Fenced(t)
        /\ IF ~CanTransitionRun(flow[t].run, "succeeded")
           THEN Throw(t, flow[t]) /\ UNCHANGED <<missionVars, succeeded>>
           ELSE /\ \/ \E o \in IntegrateOutcomes(m, TRUE) :
                         Move(t, "approved", o, Parked(t, o.pc), done)
                   \/ Fail(t)
                /\ succeeded' = [succeeded EXCEPT ![m] = TRUE]
        /\ UNCHANGED <<projectVars, validated, crashes>>

\* blockIndependentReview does nothing when the mission has moved on.
BlockReview(t) ==
    IF state[t[1]] = "review_required"
    THEN Move(t, "blocked", Asking(t[1], "blocked", "review"), NoFlow, flow[t])
    ELSE /\ flow' = [flow EXCEPT ![t] = NoFlow]
         /\ UNCHANGED <<missionVars, callVars, up, died>>

\* The reviewer did not complete; a run being cancelled becomes failed here.
\* The fallback is to wait, to go on with another provider, or to ask.
ReviewFails(t) ==
    /\ At(t, "reviewing") /\ ~Fenced(t)
    /\ IF ~CanTransitionRun(flow[t].run, "failed")
       THEN Throw(t, flow[t]) /\ UNCHANGED missionVars
       ELSE \/ /\ flow[t].tries < MaxTries
               /\ flow' = [flow EXCEPT ![t] = Retried(@, "rbackoff", "none")]
               /\ UNCHANGED <<missionVars, callVars, up, died>>
            \/ /\ flow[t].tries < MaxTries
               /\ IF state[t[1]] = "review_required"
                  THEN Launch(t, Retried(flow[t], "reviewing", "none"))
                  ELSE /\ flow' = [flow EXCEPT ![t] = NoFlow]
                       /\ UNCHANGED <<missionVars, callVars, up, died>>
            \/ BlockReview(t)
    /\ UNCHANGED <<projectVars, resultVars, crashes>>

\* No other mission of the project is left.
LastMission(m) == \A n \in Missions \ {m} : state[n] \in {"completed", "cancelled"}

\* integrateMission after cleanupWorktree: the mission completes, and the
\* project with it when no mission is left.
CleanupOver(t) ==
    LET m == t[1]
        done == CanTransitionMission(state[m], "completed")
    IN  /\ At(t, "cleanup")
        /\ IF Fenced(t) THEN Abandon(t)
           ELSE /\ Move(t, "completed", Outcome(m, "completed", "idle"), NoFlow, flow[t])
                /\ status' = IF done /\ LastMission(m) THEN "completed" ELSE status
                /\ UNCHANGED <<gen, resultVars, crashes>>

-----------------------------------------------------------------------------
(* tick *)

Promoted == {m \in Missions : /\ state[m] = "proposed"
                              /\ \A d \in Deps[m] : state[d] \in Satisfied}

Ready == Promoted \cup {m \in Missions : state[m] = "ready"}

Executing == {m \in Missions : state[m] \in {"assigned", "running"}}

\* selectMissionsToStart: as many ready missions as the capacity left allows.
\* Priority and age decide which in the code; here any choice of that size.
Selections ==
    LET busy == Cardinality(Executing)
        capacity == IF busy < MaxConcurrent THEN MaxConcurrent - busy ELSE 0
    IN  {S \in SUBSET Ready : /\ Cardinality(S) <= capacity
                              /\ S = Ready \/ Cardinality(S) = capacity}

\* Promote what is unblocked, then assign and start what is selected: one
\* synchronous pass, for active projects only.
Tick ==
    /\ up /\ status = "active"
    /\ Ready # {}
    /\ \E S \in Selections :
         /\ S # {} \/ Promoted # {}
         /\ \A m \in S : FreeSlots(m) # {}
         /\ \E o \in [S -> UNION {ExecuteOutcomes(m, attempts[m], TRUE) : m \in S}] :
              /\ \A m \in S : o[m] \in ExecuteOutcomes(m, attempts[m], TRUE)
              /\ state' = [m \in Missions |-> IF m \in S THEN o[m].state
                                             ELSE IF m \in Promoted THEN "ready" ELSE state[m]]
              /\ approvals' = [m \in Missions |-> IF m \in S THEN OpenApproval(approvals[m], o[m].ask)
                                                 ELSE approvals[m]]
              /\ flow' = [t \in Threads |-> IF t[1] \in S /\ t[2] = SlotFor(t[1])
                                            THEN Spawned(o[t[1]], TRUE) ELSE flow[t]]
    /\ UNCHANGED <<projectVars, pausedFrom, attempts, reviewBlocked, resultVars, callVars, hostVars>>

-----------------------------------------------------------------------------
(* pauseProject and resumeProject *)

\* Mutant: a pause keeps the generation.
SameGeneration == gen

\* pause_generation + 1, the fence of everything captured before this pause.
NextGeneration == gen + 1

\* beginProjectPause, one transaction: fence, suspend missions, cancel runs.
PauseBegin ==
    LET cancelled == {t \in Threads : flow[t].run \in RunCancellableOnPause \cup {"left"}}
    IN  /\ up /\ gen < MaxGen
        /\ status # "paused" /\ CanTransitionProject(status, "paused")
        /\ status' = "paused"
        /\ gen' = NextGeneration
        /\ state' = [m \in Missions |-> IF state[m] \in MissionPauseable THEN "paused" ELSE state[m]]
        /\ pausedFrom' = [m \in Missions |-> IF state[m] \in MissionPauseable THEN state[m]
                                             ELSE pausedFrom[m]]
        /\ reviewBlocked' = [m \in Missions |-> FALSE]
        /\ flow' = [t \in Threads |-> IF t \in cancelled THEN WithRun(flow[t], "cancelling")
                                                         ELSE flow[t]]
        /\ pauseTodo' = pauseTodo \cup cancelled
        /\ UNCHANGED <<attempts, approvals, resultVars, cancelTodo, cancelCur, hostVars>>

\* Mutant: a run whose coroutine is gone is not completed.
PauseCancelsLiveRun(t) ==
    /\ up /\ t \in pauseTodo
    /\ pauseTodo' = pauseTodo \ {t}
    /\ flow' = [flow EXCEPT ![t] = IF @.run = "cancelling" /\ @.pc # "idle"
                                  THEN WithRun(@, "cancelled") ELSE @]
    /\ UNCHANGED <<projectVars, missionVars, resultVars, cancelTodo, cancelCur, hostVars>>

\* handle.cancel() returned: completePausedRunCancellation.  The calls of one
\* pause are made in turn; here they come in any order.
PauseCancelsRun(t) ==
    /\ up /\ t \in pauseTodo
    /\ pauseTodo' = pauseTodo \ {t}
    /\ flow' = [flow EXCEPT ![t] = IF @.run = "cancelling" THEN WithRun(@, "cancelled") ELSE @]
    /\ UNCHANGED <<projectVars, missionVars, resultVars, cancelTodo, cancelCur, hostVars>>

\* resumeMissionTarget, with its default for a mission paused by a user.
ResumeTarget(m) ==
    ResumeMissionTarget(IF pausedFrom[m] = "none" THEN "ready" ELSE pausedFrom[m])

\* What resumeProject does of a paused mission: restore it and, when its next
\* step belongs to the engine, start that step again in the new generation.
ResumeOutcomes(m) ==
    CASE ResumeTarget(m) = "validating"      -> ValidateOutcomes(m, succeeded[m], TRUE)
      [] ResumeTarget(m) = "review_required" -> ReviewOutcomes(m, TRUE)
      [] ResumeTarget(m) = "approved"        -> IntegrateOutcomes(m, TRUE)
      [] OTHER                               -> {Outcome(m, ResumeTarget(m), "idle")}

\* Apply o to the missions of S at once.
CommitAll(S, o) ==
    /\ state' = [m \in Missions |-> IF m \in S THEN o[m].state ELSE state[m]]
    /\ attempts' = [m \in Missions |-> IF m \in S THEN o[m].attempts ELSE attempts[m]]
    /\ approvals' = [m \in Missions |-> IF m \in S THEN OpenApproval(approvals[m], o[m].ask)
                                       ELSE approvals[m]]
    /\ reviewBlocked' = [m \in Missions |-> IF m \in S THEN o[m].ask = "review"
                                           ELSE reviewBlocked[m]]

ResumeProject ==
    LET S == {m \in Missions : state[m] = "paused"}
    IN  /\ up /\ status = "paused"
        /\ \A m \in S : FreeSlots(m) # {}
        /\ status' = "active"
        /\ \E o \in [S -> UNION {ResumeOutcomes(m) : m \in S}] :
             /\ \A m \in S : o[m] \in ResumeOutcomes(m)
             /\ CommitAll(S, o)
             /\ flow' = [t \in Threads |-> IF t[1] \in S /\ t[2] = SlotFor(t[1])
                                           THEN Spawned(o[t[1]], FALSE) ELSE flow[t]]
        /\ pausedFrom' = [m \in Missions |-> IF m \in S THEN "none" ELSE pausedFrom[m]]
        /\ UNCHANGED <<gen, resultVars, callVars, hostVars>>

-----------------------------------------------------------------------------
(* What users ask of one mission *)

\* resolveApproval and applyApprovalDecision; neither looks at the pause.
Resolve(m, kind, approved) ==
    LET open == status # "paused"
        outcomes ==
            CASE approved /\ state[m] = "blocked" /\ reviewBlocked[m] -> ReviewOutcomes(m, open)
              [] approved /\ state[m] = "blocked" /\ ~reviewBlocked[m] -> {Outcome(m, "ready", "idle")}
              [] approved /\ state[m] = "failed"          -> ExecuteOutcomes(m, 0, open)
              [] approved /\ state[m] = "review_required" -> IntegrateOutcomes(m, open)
              [] ~approved /\ state[m] \in {"blocked", "review_required", "failed"} ->
                    {Outcome(m, "cancelled", "idle")}
              [] OTHER -> {}
        rest == [approvals[m] EXCEPT ![kind] = @ - 1]
    IN  /\ up /\ approvals[m][kind] > 0
        /\ IF outcomes = {}
           THEN /\ approvals' = [approvals EXCEPT ![m] = rest]
                /\ UNCHANGED <<state, attempts, reviewBlocked, flow>>
           ELSE /\ FreeSlots(m) # {}
                /\ \E o \in outcomes :
                    /\ state' = [state EXCEPT ![m] = o.state]
                    /\ attempts' = [attempts EXCEPT ![m] = o.attempts]
                    /\ approvals' = [approvals EXCEPT ![m] = OpenApproval(rest, o.ask)]
                    /\ reviewBlocked' = [reviewBlocked EXCEPT ![m] = (o.ask = "review")]
                    /\ flow' = [flow EXCEPT ![<<m, SlotFor(m)>>] = Spawned(o, FALSE)]
        /\ UNCHANGED <<projectVars, pausedFrom, resultVars, callVars, hostVars>>

\* POST /missions/:id/transition with a state other than cancelled: the table
\* is the only guard, and no coroutine is started or stopped.
UserTransition(m, to) ==
    /\ up /\ to \in UserTargets
    /\ CanTransitionMission(state[m], to)
    /\ state' = [state EXCEPT ![m] = to]
    /\ reviewBlocked' = [reviewBlocked EXCEPT ![m] = FALSE]
    /\ UNCHANGED <<projectVars, pausedFrom, attempts, approvals, resultVars, flow, callVars, hostVars>>

RunsOf(m) == {t \in Threads : t[1] = m /\ flow[t].run = "running"}

\* The end of cancelMission, after its last run.
CancelState(m) ==
    state' = IF CanTransitionMission(state[m], "cancelled")
             THEN [state EXCEPT ![m] = "cancelled"] ELSE state

\* The runs without a handle are cancelled as they are listed.
WithoutLeft(m) ==
    [t \in Threads |-> IF t[1] = m /\ flow[t].run = "left" THEN WithRun(flow[t], "cancelled")
                                                          ELSE flow[t]]

\* cancelMission up to its first await: list the active runs, cancel one.
CancelBegin(m) ==
    /\ up /\ \A t \in cancelTodo \cup cancelCur : t[1] # m
    /\ state[m] \notin {"completed", "cancelled"}
    /\ IF RunsOf(m) = {}
       THEN flow' = WithoutLeft(m) /\ CancelState(m) /\ UNCHANGED callVars
       ELSE \E t \in RunsOf(m) :
              /\ flow' = [WithoutLeft(m) EXCEPT ![t] = WithRun(@, "cancelling")]
              /\ cancelCur' = cancelCur \cup {t}
              /\ cancelTodo' = cancelTodo \cup (RunsOf(m) \ {t})
              /\ UNCHANGED <<state, pauseTodo>>
    /\ reviewBlocked' = [reviewBlocked EXCEPT ![m] = @ /\ state'[m] = "blocked"]
    /\ UNCHANGED <<projectVars, pausedFrom, attempts, approvals, resultVars, hostVars>>

\* handle.cancel() returned: the run is cancelled, then the next one listed is,
\* or the mission.  A run that left its expected state makes the store throw,
\* which abandons the request.
CancelContinues(t) ==
    LET m == t[1]
        mine == {u \in cancelTodo : u[1] = m}
        done == [flow EXCEPT ![t] = WithRun(@, "cancelled")]
        abandon == cancelTodo' = cancelTodo \ mine /\ cancelCur' = cancelCur \ {t}
    IN  /\ up /\ t \in cancelCur
        /\ \/ /\ ~CanTransitionRun(flow[t].run, "cancelled")
              /\ abandon /\ UNCHANGED <<flow, state>>
           \/ /\ CanTransitionRun(flow[t].run, "cancelled") /\ mine = {}
              /\ flow' = done /\ CancelState(m) /\ abandon
           \/ /\ CanTransitionRun(flow[t].run, "cancelled")
              /\ \E u \in mine :
                   IF CanTransitionRun(flow[u].run, "cancelling")
                   THEN /\ flow' = [done EXCEPT ![u] = WithRun(@, "cancelling")]
                        /\ cancelTodo' = cancelTodo \ {u}
                        /\ cancelCur' = (cancelCur \ {t}) \cup {u}
                   ELSE flow' = done /\ abandon
              /\ UNCHANGED state
        /\ reviewBlocked' = [reviewBlocked EXCEPT ![m] = @ /\ state'[m] = "blocked"]
        /\ UNCHANGED <<projectVars, pausedFrom, attempts, approvals, resultVars, pauseTodo, hostVars>>

-----------------------------------------------------------------------------
(* Crash and restart *)

Crash ==
    /\ up /\ crashes < MaxCrashes
    /\ crashes' = crashes + 1
    /\ flow' = [t \in Threads |-> Exit(flow[t])]
    /\ LoseMemory
    /\ UNCHANGED <<projectVars, missionVars, resultVars>>

\* Mutant: only running and assigned missions are recovered.
ReconcileExecutions(m) ==
    CASE state[m] = "running" /\ (\E k \in Slots : flow[<<m, k>>].run # "none") ->
            FailOutcomes(m, status # "paused")
      [] state[m] = "assigned" -> {Outcome(m, "ready", "idle")}
      [] OTHER                 -> {}

\* reconcile, for one mission: an orphaned run routes a running mission to a
\* bounded correction; assigned, validating and review_required missions are
\* driven again.  Every other mission is left as it is.
ReconcileOutcomes(m) ==
    LET open == status # "paused"
        orphaned == \E k \in Slots : flow[<<m, k>>].run # "none"
    IN  CASE state[m] = "running" /\ orphaned -> FailOutcomes(m, open)
          [] state[m] = "assigned"             -> {Outcome(m, "ready", "idle")}
          [] state[m] = "validating"           -> ValidateOutcomes(m, succeeded[m], open)
          [] state[m] = "review_required"      -> ReviewOutcomes(m, open)
          [] OTHER                             -> {}

\* Engine.start: fail the orphaned runs once and reconcile.
Restart ==
    LET S == {m \in Missions : ReconcileOutcomes(m) # {}}
        first == CHOOSE k \in Slots : TRUE
    IN  /\ ~up
        /\ up' = TRUE
        /\ \E o \in [S -> UNION {ReconcileOutcomes(m) : m \in S}] :
             /\ \A m \in S : o[m] \in ReconcileOutcomes(m)
             /\ CommitAll(S, o)
             /\ flow' = [t \in Threads |-> IF t[1] \in S /\ t[2] = first
                                           THEN Spawned(o[t[1]], FALSE) ELSE NoFlow]
        /\ UNCHANGED <<projectVars, pausedFrom, resultVars, callVars, crashes, died>>

-----------------------------------------------------------------------------
Init ==
    /\ status = "active" /\ gen = 0
    /\ state = [m \in Missions |-> "proposed"]
    /\ pausedFrom = [m \in Missions |-> "none"]
    /\ attempts = [m \in Missions |-> 0]
    /\ reviewBlocked = [m \in Missions |-> FALSE]
    /\ approvals = [m \in Missions |-> [k \in ApprovalKind |-> 0]]
    /\ succeeded = [m \in Missions |-> FALSE]
    /\ validated = [m \in Missions |-> FALSE]
    /\ flow = [t \in Threads |-> NoFlow]
    /\ pauseTodo = {} /\ cancelTodo = {} /\ cancelCur = {}
    /\ up = TRUE /\ crashes = 0 /\ died = FALSE

\* One continuation of the engine.
Continue(t) ==
    \/ WorktreePrepared(t) \/ StartRun(t) \/ ProviderCompletes(t) \/ ProviderFails(t)
    \/ StreamThrows(t) \/ BackoffOver(t) \/ ChecksPass(t) \/ ValidationFails(t) \/ Published(t)
    \/ PublicationFails(t) \/ StartReview(t) \/ ReviewFenced(t) \/ ReviewCompletes(t)
    \/ ReviewFails(t) \/ CleanupOver(t)

UserAction ==
    \/ PauseBegin
    \/ ResumeProject
    \/ \E m \in Missions :
        \/ CancelBegin(m)
        \/ \E kind \in ApprovalKind, approved \in BOOLEAN : Resolve(m, kind, approved)
        \/ \E to \in UserTargets : UserTransition(m, to)

Next ==
    \/ Tick
    \/ \E t \in Threads : Continue(t) \/ PauseCancelsRun(t) \/ CancelContinues(t)
    \/ UserAction
    \/ Crash
    \/ Restart

Spec == Init /\ [][Next]_vars

\* Timers and callbacks fire: the scheduler ticks, an awaited call returns
\* (providers, checks and git all run under a timeout) and the supervisor
\* restarts a dead process.  Nothing is assumed of the users.
Fairness ==
    /\ WF_vars(Tick)
    /\ WF_vars(Restart)
    /\ \A t \in Threads : WF_vars(Continue(t)) /\ WF_vars(PauseCancelsRun(t))
                           /\ WF_vars(CancelContinues(t))

FairSpec == Spec /\ Fairness

-----------------------------------------------------------------------------
(* Properties *)

\* Every variable keeps its type.
TypeOK ==
    /\ status \in {"active", "paused", "completed"}
    /\ gen \in 0..MaxGen
    /\ state \in [Missions -> MissionState]
    /\ pausedFrom \in [Missions -> MissionPauseable \cup {"none"}]
    /\ attempts \in [Missions -> Nat]
    /\ reviewBlocked \in [Missions -> BOOLEAN]
    /\ approvals \in [Missions -> [ApprovalKind -> Nat]]
    /\ succeeded \in [Missions -> BOOLEAN]
    /\ validated \in [Missions -> BOOLEAN]
    /\ flow \in [Threads -> Flow]
    /\ pauseTodo \subseteq Threads
    /\ cancelTodo \subseteq Threads
    /\ cancelCur \subseteq Threads
    /\ up \in BOOLEAN /\ died \in BOOLEAN
    /\ crashes \in 0..MaxCrashes

\* In a project with a repository no coroutine prepares, starts or awaits an
\* author run of a mission before every mission it depends on is completed,
\* whatever promoted it (tick, resume, an approval, a correction or a restart):
\* tick promotes on weaker states, ensureWorktree is the gate that counts, and
\* it is passed long before the run it protects.
DependencyGate ==
    HasRepository =>
        \A t \in Threads : flow[t].pc \in ExecutePC => DependenciesCompleted(t[1])

\* A mission never reaches its review, approval or integration on a result that
\* did not pass validation: no correction, retry of a blocked review, resume or
\* restart lets a fresh author result slip past validateMission.
OnlyValidatedWorkIsReviewed ==
    \A m \in Missions :
        state[m] \in {"review_required", "approved", "integrated", "completed"} => validated[m]

\* At most one coroutine of the current generation drives a mission, so two
\* agents are never let to work for the same worktree at once.
OneDriverPerMission ==
    \A m \in Missions : \A j, k \in Slots :
        /\ flow[<<m, j>>].pc # "idle" /\ flow[<<m, j>>].gen = gen
        /\ flow[<<m, k>>].pc # "idle" /\ flow[<<m, k>>].gen = gen
        => j = k

\* Whoever moves mission m on: a coroutine of the current generation at one of
\* pcs, or a cancel request in flight.
Driven(m, pcs) ==
    \/ \E k \in Slots : flow[<<m, k>>].pc \in pcs /\ flow[<<m, k>>].gen = gen
    \/ \E t \in cancelTodo \cup cancelCur : t[1] = m

\* The known exceptions: a death of the process between two runs of a mission
\* leaves it running, and a pause or a death while its worktree is removed leaves
\* it integrated, with nobody to go on.  The process also dies of itself: of the
\* exception of a coroutine that nobody catches.
Restarted == died
Interrupted == gen > 0 \/ died

\* Another one: adapter.startRun or its stream threw in a coroutine of tick, which
\* only writes an audit.  The run stays active and the mission where it was, until
\* a pause, a cancel or a restart meets the run.
LeftBehind(m) == \E k \in Slots : flow[<<m, k>>].run = "left"

\* Work that is not waiting for a human is driven: validation, review, and, with
\* the exceptions above, execution and integration (docs/PROJECT-LIFECYCLE.md:3,
\* "all steps durable, all resumable after restart").  Pauses, restarts, failed
\* cancels and every failure of a provider that is not thrown included.
OpenWorkIsDriven ==
    up /\ status = "active" => \A m \in Missions :
        /\ state[m] = "validating" => Driven(m, ValidatePC)
        /\ state[m] = "review_required" =>
              Driven(m, ReviewPC) \/ approvals[m]["human"] > 0 \/ LeftBehind(m)
        /\ state[m] = "running" => Driven(m, ExecutePC) \/ Restarted \/ LeftBehind(m)
        /\ state[m] = "integrated" => Driven(m, {"cleanup"}) \/ Interrupted

\* P-FENCE: while the project is paused no run starts, no result is accepted
\* and no suspended mission leaves `paused`, unless a user moves it.
PausedProjectIsFrozen ==
    [][status = "paused" /\ status' = "paused" =>
        /\ \A t \in Threads : flow'[t].run = "running" => flow[t].run = "running"
        /\ UNCHANGED resultVars
        /\ \A m \in Missions : state[m] = "paused" =>
              state'[m] \in {"paused", "cancelled"} \cup UserTargets]_vars

\* P-FENCE after a fast resume: a coroutine that captured an older generation
\* does nothing more; its next step ends it and touches no mission.
StaleContinuationsAreDropped ==
    [][\A t \in Threads :
        /\ up' /\ flow[t].pc # "idle" /\ flow[t].gen # gen
        /\ flow'[t].pc # flow[t].pc
        => flow'[t].pc = "idle" /\ UNCHANGED <<missionVars, resultVars>>]_vars

\* Work the engine may start, or has a coroutine for, comes to an end: the
\* mission is over, is suspended, or waits for a human with an open approval; or
\* it is left behind by a run that threw, or stranded by a death of the process.
\* Provided the process stops dying of exceptions nobody catches: a run that
\* throws in a correction or in the review a restart resumes, and a cancel that
\* races a verdict, end it again and again.
Pending(m) ==
    \/ status = "active" /\ state[m] = "ready"
    \/ status = "active" /\ state[m] = "proposed" /\ DependenciesCompleted(m)
    \/ \E k \in Slots : flow[<<m, k>>].pc # "idle" /\ flow[<<m, k>>].gen = gen

HandedOver(m) ==
    \/ status = "paused"
    \/ state[m] \in {"completed", "cancelled"}
    \/ /\ state[m] \in {"blocked", "failed", "review_required"}
       /\ \E kind \in ApprovalKind : approvals[m][kind] > 0

Stranded(m) ==
    Restarted /\ \/ state[m] = "running" /\ ~Driven(m, ExecutePC)
                 \/ state[m] = "integrated" /\ ~Driven(m, {"cleanup"})

StartedWorkIsHandedOver ==
    <>[]up => \A m \in Missions : Pending(m) ~> HandedOver(m) \/ LeftBehind(m) \/ Stranded(m)

\* Every run a pause or a cancel puts in `cancelling` leaves that state, even
\* when two requests, a late verdict and a crash race for it.
CancellingRunsEnd ==
    \A t \in Threads : flow[t].run = "cancelling" ~> flow[t].run # "cancelling"
=============================================================================
