--------------------------- MODULE BrainPipeline ---------------------------
(***************************************************************************)
(* The planning pipeline of one project: BrainPipeline                     *)
(* (services/control-plane/src/brain.ts), the objectives, clarification    *)
(* groups, plans and brain runs of Store, and the parts of Engine that     *)
(* start it: objective intake, answers, planning approvals, the pause and  *)
(* the resume, a failed mission, and the recovery after a crash.           *)
(*                                                                         *)
(* A call of ensurePlan that passes its checks is a pipeline: it is parked *)
(* at an await (`pc`), and what it does between two awaits is one step.    *)
(* Several may be alive: a pause frees the planning slot (`token`) while   *)
(* the pipeline it fenced still waits for its provider.                    *)
(*                                                                         *)
(* Abstracted: prompts, snapshots and proposals; the fallback chain is a   *)
(* bound on tries; budget refusals are among the failures of a step; the   *)
(* missions of a plan are one mission with a coarse state (MissionEngine   *)
(* has the detail).                                                        *)
(***************************************************************************)
EXTENDS Integers, Sequences, FiniteSets, Transitions

CONSTANTS
    Instances   \* the bounds TLC explores together, one record per instance:
                \*   objectives, pipes, groups, plans, asks, pauses, crashes: how many at most
                \*     (of pipes, restarts aside)
                \*   tries: maxProviderRetries and maxRepairAttempts together
                \*   rounds: maxClarificationRounds
                \*   replans: maxReplansPerObjective
                \*   supervised: the project's autonomy profile
                \*   slowCancel: RunHandle.cancel may wait; those of packages/providers do not

ASSUME InstancesAssumption ==
    Instances \subseteq
        [objectives : Nat, pipes : Nat, groups : Nat, plans : Nat, asks : Nat, pauses : Nat, crashes : Nat,
         tries : Nat, rounds : Nat, replans : Nat, supervised : BOOLEAN, slowCancel : BOOLEAN]

VARIABLES
    max,        \* the instance's bounds
    status,     \* projects.status
    before,     \* projects.status_before_pause
    gen,        \* projects.pause_generation
    objective,  \* the latest revision, 0 before the first
    groups,     \* clarifications, oldest first; pending is resume_pending
    plans,      \* plan versions, the last one active; key is the replan's
    work,       \* the mission of each plan version
    asked,      \* plan versions whose mission has an open approval
    asks,       \* open planning approvals (mission_id null)
    pipes,      \* the pipelines, in the order they were started
    handles,    \* pipelines in activeHandles
    token,      \* inFlight: the pipeline that holds the planning slot, or 0
    cancels,    \* cancelProject calls that wait for a handle
    up,         \* the process runs
    crashes,
    heard       \* history: groups whose answers some pipeline read

durable == <<status, before, gen, objective, groups, plans, work, asked, asks>>
memory  == <<pipes, handles, token, cancels, up>>
vars    == <<max, durable, memory, crashes, heard>>

NoKey == <<>>
Live  == {"snapshot", "models", "provider"}

\* A pipeline: key is the idempotency key of its replan, base the plan version
\* it started from, run the state of its latest brain_runs row; plain says that
\* the clarification step found nothing to ask, which drops the replan.
Pipe(S, o, key) ==
    [pc |-> "snapshot", step |-> "analysis", obj |-> o, gen |-> S.gen, key |-> key,
     base |-> Len(S.plans), plain |-> FALSE, run |-> "none", tries |-> 0]

-----------------------------------------------------------------------------
(* Operations on the state, composed by the actions *)

Now == [status |-> status, gen |-> gen, objective |-> objective, groups |-> groups,
        plans |-> plans, work |-> work, asked |-> asked, asks |-> asks,
        pipes |-> pipes, token |-> token]

Become(S) ==
    /\ status' = S.status /\ gen' = S.gen /\ objective' = S.objective
    /\ groups' = S.groups /\ plans' = S.plans /\ work' = S.work
    /\ asked' = S.asked /\ asks' = S.asks /\ pipes' = S.pipes /\ token' = S.token
    /\ Len(S.groups) <= max.groups /\ Len(S.plans) <= max.plans
    /\ S.asks <= max.asks /\ UNCHANGED max

\* Bound: pipelines are started by users and by failures while there is room;
\* a restart is bounded by the crashes.
Room == Len(pipes) < max.pipes

\* Store.setProjectStatus: a change to or from `paused`, or one the table does
\* not list, throws.
CanSet(S, to) ==
    \/ S.status = to
    \/ "paused" \notin {S.status, to} /\ CanTransitionProject(S.status, to)

ActiveIsFor(S, o) == S.plans # <<>> /\ S.plans[Len(S.plans)].obj = o

OpenGroups(S) == {g \in DOMAIN S.groups : S.groups[g].state = "open"}

\* markClarificationObsolete on every open group.
Expired(S) ==
    [S EXCEPT !.groups = [g \in DOMAIN @ |->
        IF @[g].state = "open" THEN [@[g] EXCEPT !.state = "expired"] ELSE @[g]]]

\* createClarification: the new group replaces the open ones.
Opened(S, o) ==
    [Expired(S) EXCEPT !.groups = Append(@, [obj |-> o, state |-> "open", pending |-> 0])]

\* blockPlanning: the status, then an approval; a status that cannot move throws.
Blocked(S) ==
    IF CanSet(S, "blocked") THEN [S EXCEPT !.status = "blocked", !.asks = @ + 1] ELSE S

\* The plans of an objective that record a replan.
Replans(S, o) == {v \in DOMAIN S.plans : S.plans[v].obj = o /\ S.plans[v].key # NoKey}

InFlightWork(S) == {v \in DOMAIN S.work : S.work[v] = "inflight"}

\* Mutant: open questions do not hold planning.
EnsurePlanOverQuestions(S, o, key) ==
    IF S.token # 0 \/ S.status = "paused" \/ o # S.objective
       \/ (key # NoKey /\ (InFlightWork(S) # {} \/ \E v \in DOMAIN S.plans : S.plans[v].key = key))
    THEN S
    ELSE IF CanSet(S, "planning")
         THEN [S EXCEPT !.status = "planning", !.pipes = Append(@, Pipe(S, o, key)),
                        !.token = Len(S.pipes) + 1]
         ELSE S

\* ensurePlan up to its first await, building the snapshot.  It is turned away
\* while another pipeline holds the slot, while the project is paused, for a
\* superseded objective and while questions are open; an objective that has its
\* plan is only made active again.
EnsurePlan(S, o, key) ==
    IF S.token # 0 \/ S.status = "paused" \/ o # S.objective \/ OpenGroups(S) # {}
       \/ (key # NoKey /\ (InFlightWork(S) # {} \/ \E v \in DOMAIN S.plans : S.plans[v].key = key))
    THEN S
    ELSE IF key = NoKey /\ ActiveIsFor(S, o) THEN
        IF S.status = "planning" THEN [S EXCEPT !.status = "active"] ELSE S
    ELSE IF key # NoKey /\ Cardinality(Replans(S, o)) >= max.replans THEN Blocked(S)
    ELSE IF CanSet(S, "planning")
         THEN [S EXCEPT !.status = "planning", !.pipes = Append(@, Pipe(S, o, key)),
                        !.token = Len(S.pipes) + 1]
         ELSE S

\* Engine.startPlanning, when setProjectStatus does not throw.
Kicked(S, o) ==
    EnsurePlan([S EXCEPT !.status = "planning"], o,
               IF S.plans # <<>> /\ ~ActiveIsFor(S, o)
               THEN <<"objective_revised", o, Len(S.plans)>> ELSE NoKey)

Pending(S) == {g \in DOMAIN S.groups : S.groups[g].pending = 1}

WithPending(S, g, n) == [S EXCEPT !.groups[g].pending = n]

\* resumeAfterClarification: claim, start planning, clear; a start that throws
\* releases the claim.
Resumed(S, g) ==
    IF S.status = "paused" THEN S
    ELSE IF CanSet(S, "planning") THEN WithPending(Kicked(S, S.groups[g].obj), g, 0)
    ELSE WithPending(S, g, 1)

\* A pipeline that ended leaves its brain run.
Over(r) == [r EXCEPT !.pc = "done", !.step = "analysis", !.key = NoKey, !.base = 0,
                     !.plain = FALSE, !.tries = 0]

\* The end of a pipeline frees the slot if it still has it.
Ended(S, p) ==
    [S EXCEPT !.pipes[p] = Over(@), !.token = IF @ = p THEN 0 ELSE @]

\* An error that `run` does not know ends it too, with nothing but an audit.
Thrown(S, p) == [Ended(S, p) EXCEPT !.pipes[p].pc = "thrown"]

\* Mutant: only the status is compared.
FencedByStatus(p) == status = "paused"

\* assertNotPaused and assertProjectAcceptingWork with the captured generation.
Fenced(p) == status = "paused" \/ gen # pipes[p].gen

-----------------------------------------------------------------------------
(* Objectives, answers and approvals *)

\* analyzeObjective after createObjective: a short objective asks first.  A
\* status that cannot move throws after the rows are written.
Analyzed(S, o, vague) ==
    LET asking == Opened(S, o)
    IN  CASE S.status = "paused" -> S
          [] S.status # "paused" /\ vague ->
                [asking EXCEPT !.status = IF CanSet(S, "clarifying") THEN "clarifying" ELSE @]
          [] OTHER -> IF CanSet(S, "planning") THEN Kicked(S, o) ELSE S

\* POST /v1/projects/:id/objectives.
SubmitObjective(vague) ==
    /\ up /\ objective < max.objectives /\ Room
    /\ Become(Analyzed(Expired([Now EXCEPT !.objective = @ + 1]), objective + 1, vague))
    /\ UNCHANGED <<before, handles, cancels, up, crashes, heard>>

\* PATCH /v1/projects/:id with a new objective: refused while a mission is in
\* flight or waits for a decision, otherwise the missions are cancelled first.
ReviseObjective(vague) ==
    /\ up /\ objective \in 1..(max.objectives - 1) /\ Room
    /\ \A v \in DOMAIN work : work[v] \notin {"inflight", "failed"}
    /\ LET S == [Now EXCEPT !.objective = @ + 1,
                            !.work = [v \in DOMAIN @ |-> IF @[v] = "open" THEN "cancelled" ELSE @[v]]]
       IN  Become(Analyzed(Expired(S), objective + 1, vague))
    /\ UNCHANGED <<before, handles, cancels, up, crashes, heard>>

\* POST /v1/clarifications/:id/answers.
Answer(g) ==
    /\ up /\ g \in OpenGroups(Now) /\ status # "paused" /\ Room
    /\ Become(Resumed([Now EXCEPT !.groups[g].state = "answered", !.groups[g].pending = 1], g))
    /\ UNCHANGED <<before, handles, cancels, up, crashes, heard>>

\* POST /v1/approvals/:id/resolve of a planning approval.  A setProjectStatus
\* that throws leaves the approval consumed.
ResolvePlanning(approved) ==
    /\ up /\ asks > 0 /\ Room
    /\ LET S == [Now EXCEPT !.asks = @ - 1]
       IN  Become(CASE approved /\ ActiveIsFor(S, objective) ->
                          [S EXCEPT !.status = IF CanSet(S, "active") THEN "active" ELSE @]
                    [] approved /\ ~ActiveIsFor(S, objective) /\ CanSet(S, "planning") ->
                          Kicked(S, objective)
                    [] OTHER -> S)
    /\ UNCHANGED <<before, handles, cancels, up, crashes, heard>>

\* The approval of a failed mission: granted, the mission is executed again.
ResolveMission(v, approved) ==
    /\ up /\ v \in asked
    /\ Become([Now EXCEPT !.asked = @ \ {v},
                          !.work[v] = IF v # Len(plans) \/ @ # "failed" THEN @
                                      ELSE IF approved THEN "inflight" ELSE "cancelled"])
    /\ UNCHANGED <<before, handles, cancels, up, crashes, heard>>

-----------------------------------------------------------------------------
(* The awaits of a pipeline *)

\* buildRepoSnapshot returns; the answers given so far enter the prompts.
SnapshotTaken(p) ==
    /\ up /\ pipes[p].pc = "snapshot"
    /\ \/ Fenced(p) /\ Become(Ended(Now, p)) /\ UNCHANGED heard
       \/ ~Fenced(p) /\ Become(Ended(Blocked(Now), p)) /\ UNCHANGED heard
       \/ /\ ~Fenced(p)
          /\ Become([Now EXCEPT !.pipes[p].pc = "models"])
          /\ heard' = heard \cup {g \in DOMAIN groups :
                                    groups[g].obj = pipes[p].obj /\ groups[g].state = "answered"}
    /\ UNCHANGED <<before, handles, cancels, up, crashes>>

\* The wait before a retry and listModels, then createBrainRun and startRun,
\* which may throw: its row stays `running`, without a handle.
ModelsListed(p) ==
    /\ up /\ pipes[p].pc = "models"
    /\ \/ Fenced(p) /\ Become(Ended(Now, p)) /\ UNCHANGED handles
       \/ /\ ~Fenced(p)
          /\ Become([Now EXCEPT !.pipes[p].pc = "provider", !.pipes[p].run = "running"])
          /\ handles' = handles \cup {p}
       \/ /\ ~Fenced(p)
          /\ Become(Thrown([Now EXCEPT !.pipes[p].run = "running"], p))
          /\ UNCHANGED handles
    /\ UNCHANGED <<before, cancels, up, crashes, heard>>

\* The next step of the pipeline starts with a new runStep.
Step(S, p, step) ==
    [S EXCEPT !.pipes[p].step = step, !.pipes[p].pc = "models", !.pipes[p].tries = 0]

\* persistPlan and createBrainPlan, one transaction: nothing is written for a
\* replan that was written before, for a superseded objective, over another
\* base version, or when the project cannot become active.
Committed(S, p) ==
    LET r   == S.pipes[p]
        key == IF r.plain THEN NoKey ELSE r.key
    IN  IF \/ r.obj # S.objective \/ ~CanSet(S, "active")
           \/ key # NoKey /\ (r.base # Len(S.plans) \/ \E v \in DOMAIN S.plans : S.plans[v].key = key)
        THEN S
        ELSE [S EXCEPT !.plans = Append(@, [obj |-> r.obj, key |-> key]),
                       !.work = Append([v \in DOMAIN @ |-> IF @[v] = "open" THEN "cancelled" ELSE @[v]],
                                       "open"),
                       !.asked = {}, !.status = "active"]

\* What follows a valid answer of each step.  Both writes may throw on an answer
\* that was validated: on two options of one key, which the schema of a stored
\* group refuses, and on a dependency named twice, which the table does.
Outcomes(S, p) ==
    LET r == S.pipes[p]
        Refused == Ended(Blocked(S), p)
    IN  CASE r.step = "analysis" ->
                {Refused, Step(S, p, "architecture"),
                 IF Cardinality({g \in DOMAIN S.groups : S.groups[g].obj = r.obj}) >= max.rounds
                 THEN Refused ELSE Step(S, p, "clarification")}
          [] r.step = "clarification" ->
                {Refused, [Step(S, p, "architecture") EXCEPT !.pipes[p].plain = TRUE],
                 Ended([Opened(S, r.obj) EXCEPT
                          !.status = IF CanSet(S, "clarifying") THEN "clarifying" ELSE @], p),
                 Thrown(S, p)}
          [] r.step = "architecture" -> {Refused, Step(S, p, "plan")}
          [] OTHER -> {Ended(Committed(S, p), p), Thrown(S, p)}

\* The provider's stream ends: fenced, valid, or invalid or failed and then
\* tried again or given up; or it throws, and the row stays `running`.
ProviderEnds(p) ==
    /\ up /\ pipes[p].pc = "provider"
    /\ \/ Fenced(p) /\ Become(Ended(Now, p))
       \/ /\ ~Fenced(p)
          /\ \E S \in Outcomes([Now EXCEPT !.pipes[p].run = "succeeded"], p) : Become(S)
       \/ /\ ~Fenced(p) /\ pipes[p].tries < max.tries
          /\ Become([Now EXCEPT !.pipes[p].run = "failed", !.pipes[p].pc = "models",
                                !.pipes[p].tries = @ + 1])
       \/ /\ ~Fenced(p)
          /\ Become(Ended(Blocked([Now EXCEPT !.pipes[p].run = "failed"]), p))
       \/ ~Fenced(p) /\ Become(Thrown(Now, p))
    /\ handles' = handles \ {p}
    /\ UNCHANGED <<before, cancels, up, crashes, heard>>

-----------------------------------------------------------------------------
(* Pause and resume *)

RunsCancelled(S, P) ==
    [S EXCEPT !.pipes = [p \in DOMAIN @ |->
        IF p \in P /\ @[p].run = "running" THEN [@[p] EXCEPT !.run = "cancelled"] ELSE @[p]]]

\* pauseProject up to the first cancellation it waits for.
Pause ==
    /\ up /\ gen < max.pauses /\ CanTransitionProject(status, "paused")
    /\ LET S == [Now EXCEPT !.status = "paused", !.gen = @ + 1]
       IN  IF max.slowCancel /\ handles # {}
           THEN /\ Become(S) /\ UNCHANGED handles
                /\ cancels' = cancels \cup {[gen |-> gen + 1, left |-> handles]}
           ELSE /\ Become([RunsCancelled(S, handles) EXCEPT !.token = 0])
                /\ handles' = {} /\ UNCHANGED cancels
    /\ before' = status
    /\ UNCHANGED <<up, crashes, heard>>

\* A cancellation of cancelProject returns; the last one frees the slot.
CancelReturns(c, p) ==
    /\ up /\ p \in c.left
    /\ LET rest == c.left \ {p}
       IN  /\ Become([RunsCancelled(Now, {p}) EXCEPT !.token = IF rest = {} THEN 0 ELSE @])
           /\ cancels' = (cancels \ {c}) \cup
                         (IF rest = {} THEN {} ELSE {[c EXCEPT !.left = rest]})
    /\ handles' = handles \ {p}
    /\ UNCHANGED <<before, up, crashes, heard>>

\* resumeProject: the transaction, then the pending answers or the planning
\* that was interrupted.  Interrupted work is executed again or driven on.
Resume ==
    /\ up /\ status = "paused" /\ Room
    /\ \E redone \in SUBSET InFlightWork(Now) :
          LET S == [Now EXCEPT !.status = before,
                               !.work = [v \in DOMAIN @ |-> IF v \in redone THEN "open" ELSE @[v]]]
          IN  IF Pending(S) # {}
              THEN \E g \in Pending(S) : Become(Resumed(S, g))
              ELSE Become(IF before \in {"planning", "clarifying", "draft"} /\ objective # 0
                          THEN Kicked(S, objective) ELSE S)
    /\ UNCHANGED <<before, handles, cancels, up, crashes, heard>>

-----------------------------------------------------------------------------
(* Missions, crash and recovery *)

\* tick starts the mission of a plan.
Schedule(v) ==
    /\ up /\ status = "active" /\ work[v] = "open"
    /\ Become([Now EXCEPT !.work[v] = "inflight"])
    /\ UNCHANGED <<before, handles, cancels, up, crashes, heard>>

Lost == /\ up' = FALSE /\ handles' = {} /\ cancels' = {}

\* What dies with the process.
Dead(S) == [S EXCEPT !.token = 0,
                     !.pipes = [p \in DOMAIN @ |-> Over(@[p])]]

\* integrateMission of the last mission completes the project; a status that
\* cannot move rejects the detached coroutine, which ends the process.
MissionCompletes(v) ==
    /\ up /\ work[v] = "inflight" /\ status # "paused"
    /\ LET S    == [Now EXCEPT !.work[v] = "completed"]
           over == \A u \in DOMAIN S.work : S.work[u] \in {"completed", "cancelled"}
       IN  IF over /\ ~CanSet(S, "completed")
           THEN Become(Dead(S)) /\ Lost
           ELSE /\ Become([S EXCEPT !.status = IF over THEN "completed" ELSE @])
                /\ UNCHANGED <<handles, cancels, up>>
    /\ UNCHANGED <<before, crashes, heard>>

\* failValidation at its bound: an approval, and unless supervised a replan,
\* keyed by the evidence, which is the same again or new.
MissionFails(v, evidence) ==
    /\ up /\ work[v] = "inflight" /\ status # "paused" /\ Room
    /\ LET S == [Now EXCEPT !.work[v] = "failed", !.asked = @ \cup {v}]
       IN  Become(IF max.supervised THEN S
                  ELSE EnsurePlan(S, objective, <<"mission_failed", objective, v, evidence>>))
    /\ UNCHANGED <<before, handles, cancels, up, crashes, heard>>

Crash ==
    /\ up /\ crashes < max.crashes
    /\ Become(Dead(Now)) /\ Lost
    /\ crashes' = crashes + 1
    /\ UNCHANGED <<before, heard>>

\* A crash between the transactions of an answer: after the answer, after the
\* claim, or after the status of startPlanning.
CrashInAnswer(g) ==
    /\ up /\ crashes < max.crashes /\ g \in OpenGroups(Now) /\ status # "paused"
    /\ LET S == [Now EXCEPT !.groups[g].state = "answered"]
       IN  \/ Become(Dead(WithPending(S, g, 1)))
           \/ Become(Dead(WithPending(S, g, 2)))
           \/ CanSet(S, "planning") /\ Become(Dead([WithPending(S, g, 2) EXCEPT !.status = "planning"]))
    /\ Lost
    /\ crashes' = crashes + 1
    /\ UNCHANGED <<before, heard>>

\* Mutant: the claims of the dead process are kept.
RecoveredKeepingClaims(S) ==
    [S EXCEPT !.pipes = [p \in DOMAIN @ |->
        IF @[p].run = "running" THEN [@[p] EXCEPT !.run = "failed"] ELSE @[p]]]

\* Claims are released and brain runs of the dead process fail.
Recovered(S) ==
    [S EXCEPT !.groups = [g \in DOMAIN @ |->
                            IF @[g].pending = 2 THEN [@[g] EXCEPT !.pending = 1] ELSE @[g]],
              !.pipes = [p \in DOMAIN @ |->
                            IF @[p].run = "running" THEN [@[p] EXCEPT !.run = "failed"] ELSE @[p]]]

\* Mutant: planning that was interrupted is not started again.
ReconciledIdle(S) == S

\* BrainPipeline.reconcile, after the pending answers.
Reconciled(S) ==
    CASE S.status # "planning" \/ S.objective = 0 -> S
      [] OTHER -> IF ActiveIsFor(S, S.objective) THEN [S EXCEPT !.status = "active"]
                  ELSE EnsurePlan(S, S.objective, NoKey)

\* Engine.start and reconcile.  A pending answer that cannot start planning
\* throws out of start, and the process does not come up.
Restart ==
    /\ ~up
    /\ \E redone \in SUBSET InFlightWork(Now) :
          LET S == Recovered([Now EXCEPT
                     !.work = [v \in DOMAIN @ |-> IF v \in redone THEN "open" ELSE @[v]]])
          IN  IF Pending(S) = {} \/ S.status = "paused"
              THEN Become(Reconciled(S))
              ELSE /\ CanSet(S, "planning")
                   /\ \E g \in Pending(S) : Become(Reconciled(Resumed(S, g)))
    /\ up' = TRUE
    /\ UNCHANGED <<before, handles, cancels, crashes, heard>>

-----------------------------------------------------------------------------
Init ==
    /\ max \in Instances
    /\ status = "draft" /\ before = "draft" /\ gen = 0 /\ objective = 0
    /\ groups = <<>> /\ plans = <<>> /\ work = <<>> /\ asked = {} /\ asks = 0
    /\ pipes = <<>> /\ handles = {} /\ token = 0 /\ cancels = {} /\ up = TRUE
    /\ crashes = 0 /\ heard = {}

PipeStep(p) == SnapshotTaken(p) \/ ModelsListed(p) \/ ProviderEnds(p)

Next ==
    \/ \E vague \in BOOLEAN : SubmitObjective(vague) \/ ReviseObjective(vague)
    \/ \E g \in DOMAIN groups : Answer(g) \/ CrashInAnswer(g)
    \/ \E approved \in BOOLEAN :
          \/ ResolvePlanning(approved)
          \/ \E v \in asked : ResolveMission(v, approved)
    \/ \E p \in DOMAIN pipes : PipeStep(p)
    \/ \E v \in DOMAIN work :
          Schedule(v) \/ MissionCompletes(v) \/ \E evidence \in 0..1 : MissionFails(v, evidence)
    \/ \E c \in cancels : \E p \in c.left : CancelReturns(c, p)
    \/ Pause \/ Resume \/ Crash \/ Restart

Spec == Init /\ [][Next]_vars

\* Awaited calls return and a dead process is restarted; nothing is assumed of
\* users.
Fairness ==
    /\ \A p \in UNION {1..(i.pipes + i.crashes) : i \in Instances} : WF_vars(p \in DOMAIN pipes /\ PipeStep(p))
    /\ WF_vars(\E c \in cancels : \E p \in c.left : CancelReturns(c, p))
    /\ WF_vars(Restart)

FairSpec == Spec /\ Fairness

-----------------------------------------------------------------------------
(* Properties *)

RunStates == {"none", "running", "succeeded", "failed", "cancelled"}

\* Every variable has a value of its kind.
TypeOK ==
    /\ {status, before} \subseteq ProjectStatus
    /\ gen \in 0..max.pauses /\ objective \in 0..max.objectives /\ asks \in Nat
    /\ \A g \in DOMAIN groups : groups[g] \in
          [obj : 1..max.objectives, state : {"open", "answered", "expired"}, pending : 0..2]
    /\ \A v \in DOMAIN plans : plans[v].obj \in 1..max.objectives
    /\ DOMAIN work = DOMAIN plans /\ asked \subseteq DOMAIN work
    /\ \A v \in DOMAIN work :
          work[v] \in {"open", "inflight", "completed", "failed", "cancelled"}
    /\ \A p \in DOMAIN pipes : pipes[p].pc \in Live \cup {"done", "thrown"} /\ pipes[p].run \in RunStates
    /\ handles \subseteq DOMAIN pipes /\ token \in 0..Len(pipes) /\ up \in BOOLEAN

\* A pipeline that was started before a pause can only end afterwards, also when
\* the project was resumed in the meantime: it starts no provider run, finishes
\* none as its own, asks no question and writes no plan; and while the project
\* is paused no plan and no group is written at all.
PauseFencesPlanning == [][
    /\ \A p \in DOMAIN pipes : pipes[p].gen # gen =>
          /\ pipes'[p].pc \in {pipes[p].pc, "done"}
          /\ pipes'[p].run # pipes[p].run => pipes'[p].run \in {"cancelled", "failed"}
          /\ pipes'[p].pc # pipes[p].pc => plans' = plans /\ Len(groups') = Len(groups)
    /\ status = "paused" /\ status' = "paused" => plans' = plans /\ Len(groups') = Len(groups)]_vars

\* While questions about an objective are open, nothing plans that objective,
\* however it was kicked: by a resume, a restart, an approval or a failure.
\* Excepted is a cancellation that waits: when it returns after the project was
\* resumed, it frees the slot of the pipeline that was started meanwhile.
QuestionsHoldPlanning ==
    ~max.slowCancel =>
        \A g \in OpenGroups(Now) : \A p \in DOMAIN pipes :
            pipes[p].pc \in Live /\ pipes[p].gen = gen => pipes[p].obj # groups[g].obj

Answered == {g \in DOMAIN groups : groups[g].state = "answered" /\ groups[g].obj = objective}

KickMayBeLost == objective > 1 \/ max.slowCancel

\* P-RESUME: the answers of a group are, in the end, read by a pipeline, unless
\* the project is paused, the answers are superseded or planning needs a user.
\* Excepted are an objective that has its plan, where the answers to the questions
\* of a replan are never read, and a revised objective (see PlanningEnds).
AnswersAreRead ==
    \A g \in UNION {1..i.groups : i \in Instances} :
        g \in Answered ~> \/ g \in heard \/ g \notin Answered
                          \/ status \in {"paused", "blocked"}
                          \/ ActiveIsFor(Now, objective) \/ KickMayBeLost

\* The latest pipeline ended with an error nothing handles.
PlanningWasThrown == pipes # <<>> /\ pipes[Len(pipes)].pc = "thrown"

\* A project does not stay in `planning` for ever: planning ends in a plan,
\* questions, an approval or a pause, whatever crash interrupts it and whatever
\* failure its provider reports.  Excepted are an error that ends the pipeline
\* with an audit only (a provider that throws out of startRun or its stream, an
\* answer that passes validation and cannot be written), which stays until a
\* restart, a pause and resume, or the user plans again; and a kick that finds the
\* slot taken by a pipeline that can only end, which nothing repeats: the pipeline
\* of a superseded objective, or one that a pause fenced while its cancellation,
\* were it slow, still waits.
PlanningEnds ==
    status = "planning" ~> \/ status # "planning" \/ OpenGroups(Now) # {}
                           \/ PlanningWasThrown \/ KickMayBeLost
=============================================================================
