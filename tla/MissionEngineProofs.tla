------------------------ MODULE MissionEngineProofs ------------------------
(***************************************************************************)
(* Theorems about MissionEngine, for every set of missions, every          *)
(* dependency relation and every value of the bounds: its tables, gates    *)
(* and fences first, then who drives a mission and on which result, and    *)
(* last that open work is driven.                                          *)
(***************************************************************************)
EXTENDS MissionEngine, TLAPS

Outcomes ==
    [state : MissionState, pc : PC, attempts : Nat, ask : ApprovalKind \cup {"none"}]

\* The parts of TypeOK that the steps of a coroutine may change.
MissionsTyped ==
    /\ state \in [Missions -> MissionState]
    /\ pausedFrom \in [Missions -> MissionPauseable \cup {"none"}]
    /\ attempts \in [Missions -> Nat]
    /\ reviewBlocked \in [Missions -> BOOLEAN]
    /\ approvals \in [Missions -> [ApprovalKind -> Nat]]

CallsTyped ==
    /\ flow \in [Threads -> Flow]
    /\ pauseTodo \subseteq Threads
    /\ cancelTodo \subseteq Threads
    /\ cancelCur \subseteq Threads
    /\ up \in BOOLEAN /\ died \in BOOLEAN

OthersTyped ==
    /\ status \in {"active", "paused", "completed"}
    /\ gen \in 0..MaxGen
    /\ succeeded \in [Missions -> BOOLEAN]
    /\ validated \in [Missions -> BOOLEAN]
    /\ crashes \in 0..MaxCrashes

\* The type invariant is the conjunction of these parts.
LEMMA TypeParts == TypeOK <=> MissionsTyped /\ CallsTyped /\ OthersTyped
  BY DEF TypeOK, MissionsTyped, CallsTyped, OthersTyped

-----------------------------------------------------------------------------
(* Outcomes are typed *)

LEMMA OutcomeTyped ==
  ASSUME MissionsTyped, NEW m \in Missions, NEW s \in MissionState, NEW p \in PC
  PROVE  Outcome(m, s, p) \in Outcomes
  BY DEF MissionsTyped, Outcome, Outcomes

LEMMA AskingTyped ==
  ASSUME MissionsTyped, NEW m \in Missions, NEW s \in MissionState, NEW kind \in ApprovalKind
  PROVE  Asking(m, s, kind) \in Outcomes
  BY DEF MissionsTyped, Asking, Outcome, Outcomes, PC

LEMMA ExecuteOutcomesTyped ==
  ASSUME MissionsTyped, NEW m \in Missions, NEW a \in Nat, NEW open \in BOOLEAN
  PROVE  ExecuteOutcomes(m, a, open) \subseteq Outcomes
<1>1. /\ Outcome(m, "assigned", "idle") \in Outcomes
      /\ Outcome(m, "assigned", "worktree") \in Outcomes
      /\ Asking(m, "blocked", "retry") \in Outcomes
  BY OutcomeTyped, AskingTyped DEF PC, ExecutePC, ApprovalKind, MissionState
<1>2. \A o \in Outcomes : [o EXCEPT !.attempts = a] \in Outcomes
  BY DEF Outcomes
<1> QED
  BY <1>1, <1>2 DEF ExecuteOutcomes

LEMMA FailOutcomesTyped ==
  ASSUME MissionsTyped, NEW m \in Missions, NEW open \in BOOLEAN
  PROVE  FailOutcomes(m, open) \subseteq Outcomes
<1>1. attempts[m] + 1 \in Nat
  BY DEF MissionsTyped
<1>2. Asking(m, "failed", "retry") \in Outcomes
  BY AskingTyped DEF ApprovalKind, MissionState
<1> QED
  BY <1>1, <1>2, ExecuteOutcomesTyped DEF FailOutcomes

LEMMA ValidateOutcomesTyped ==
  ASSUME MissionsTyped, NEW m \in Missions, NEW hasRun \in BOOLEAN, NEW open \in BOOLEAN
  PROVE  ValidateOutcomes(m, hasRun, open) \subseteq Outcomes
<1>1. /\ Outcome(m, "validating", "idle") \in Outcomes
      /\ Outcome(m, "validating", "checking") \in Outcomes
  BY OutcomeTyped DEF PC, ValidatePC, MissionState
<1> QED
  BY <1>1, FailOutcomesTyped DEF ValidateOutcomes

LEMMA ReviewOutcomesTyped ==
  ASSUME MissionsTyped, NEW m \in Missions, NEW open \in BOOLEAN
  PROVE  ReviewOutcomes(m, open) \subseteq Outcomes
<1>1. /\ Outcome(m, "review_required", "idle") \in Outcomes
      /\ Outcome(m, "review_required", "diff") \in Outcomes
      /\ Asking(m, "review_required", "human") \in Outcomes
      /\ Asking(m, "blocked", "review") \in Outcomes
  BY OutcomeTyped, AskingTyped DEF PC, ReviewPC, ApprovalKind, MissionState
<1> QED
  BY <1>1 DEF ReviewOutcomes

LEMMA IntegrateOutcomesTyped ==
  ASSUME MissionsTyped, NEW m \in Missions, NEW open \in BOOLEAN
  PROVE  IntegrateOutcomes(m, open) \subseteq Outcomes
  BY OutcomeTyped DEF IntegrateOutcomes, PC, MissionState

-----------------------------------------------------------------------------
(* The building blocks of the steps keep the types *)

LEMMA OpenApprovalTyped ==
  ASSUME NEW count \in [ApprovalKind -> Nat], NEW kind
  PROVE  OpenApproval(count, kind) \in [ApprovalKind -> Nat]
  BY DEF OpenApproval

LEMMA FlowTyped ==
  /\ NoFlow \in Flow
  /\ \A f \in Flow : Exit(f) \in Flow
  /\ \A f \in Flow, r \in FlowRun : WithRun(f, r) \in Flow
<1>1. NoFlow \in Flow
  BY DEF NoFlow, Flow, PC, FlowRun
<1>2. \A f \in Flow : Exit(f) \in Flow
  BY <1>1 DEF NoFlow, Exit, Flow, PC, FlowRun
<1>3. \A f \in Flow, r \in FlowRun : [f EXCEPT !.run = r] \in Flow
  BY DEF Flow
<1> QED
  BY <1>1, <1>2, <1>3 DEF WithRun

\* A coroutine that goes on to another await.
LEMMA NextAwaitTyped ==
  /\ \A f \in Flow, p \in PC, r \in FlowRun : [f EXCEPT !.pc = p, !.run = r] \in Flow
  /\ \A f \in Flow, p \in PC, r \in FlowRun : Retried(f, p, r) \in Flow
<1>1. \A f \in Flow : f.tries + 1 \in Nat
  BY DEF Flow
<1> QED
  BY <1>1 DEF Flow, Retried

\* The names of the awaits and of the run states.
LEMMA AwaitNames ==
  /\ {"idle", "cleanup", "worktree", "models", "provider", "backoff", "checking",
      "publishing", "diff", "reviewing", "rbackoff"} = PC
  /\ {"none", "left", "running", "cancelling", "cancelled", "failed"} = FlowRun
  BY DEF PC, ExecutePC, ValidatePC, ReviewPC, FlowRun

LEMMA SpawnedTyped ==
  ASSUME gen \in Nat, NEW o \in Outcomes, NEW c \in BOOLEAN
  PROVE  Spawned(o, c) \in Flow
  BY FlowTyped DEF Spawned, NoFlow, Flow, Outcomes, FlowRun

LEMMA CommitTyped ==
  ASSUME MissionsTyped, NEW m \in Missions, NEW o \in Outcomes, Commit(m, o)
  PROVE  MissionsTyped'
<1>1. OpenApproval(approvals[m], o.ask) \in [ApprovalKind -> Nat]
  BY OpenApprovalTyped DEF MissionsTyped
<1>2. o.state \in MissionState /\ o.attempts \in Nat
  BY DEF Outcomes
<1> QED
  BY <1>1, <1>2 DEF Commit, MissionsTyped

LEMMA ThrowTyped ==
  ASSUME CallsTyped, NEW t \in Threads, NEW f \in Flow, Throw(t, f)
  PROVE  CallsTyped'
  BY FlowTyped DEF CallsTyped, Throw, LoseMemory, callVars

LEMMA MoveTyped ==
  ASSUME MissionsTyped, CallsTyped, NEW t \in Threads, NEW via, NEW o \in Outcomes,
         NEW next \in Flow, NEW thrown \in Flow, Move(t, via, o, next, thrown)
  PROVE  MissionsTyped' /\ CallsTyped'
<1>1. t[1] \in Missions
  BY DEF Threads
<1>2. CASE CanTransitionMission(state[t[1]], via)
  <2>1. MissionsTyped'
    BY <1>1, <1>2, CommitTyped DEF Move
  <2>2. CallsTyped'
    BY <1>2 DEF Move, CallsTyped, callVars
  <2> QED
    BY <2>1, <2>2
<1>3. CASE ~CanTransitionMission(state[t[1]], via)
  <2>1. Throw(t, thrown) /\ UNCHANGED missionVars
    BY <1>3 DEF Move
  <2> QED
    BY <2>1, ThrowTyped DEF missionVars, MissionsTyped
<1> QED
  BY <1>2, <1>3

LEMMA FailTyped ==
  ASSUME MissionsTyped, CallsTyped, gen \in Nat, NEW t \in Threads, Fail(t)
  PROVE  MissionsTyped' /\ CallsTyped'
<1> DEFINE m == t[1]
           via == IF MayCorrect(m) THEN "retrying" ELSE "failed"
<1>1. m \in Missions /\ flow[t] \in Flow
  BY DEF Threads, CallsTyped
<1>2. CASE CanTransitionMission(state[m], via)
  <2>1. PICK o \in FailOutcomes(m, TRUE) : Move(t, via, o, Spawned(o, FALSE), flow[t])
    BY <1>2 DEF Fail
  <2>2. o \in Outcomes
    BY <1>1, FailOutcomesTyped
  <2>3. Spawned(o, FALSE) \in Flow
    BY <2>2, SpawnedTyped
  <2> QED
    BY <1>1, <2>1, <2>2, <2>3, MoveTyped
<1>3. CASE ~CanTransitionMission(state[m], via)
  <2>1. /\ Throw(t, WithRun(flow[t], "none"))
        /\ attempts' = [attempts EXCEPT ![m] = IF MayCorrect(m) THEN @ + 1 ELSE @]
        /\ UNCHANGED <<state, pausedFrom, reviewBlocked, approvals>>
    BY <1>3 DEF Fail
  <2>2. WithRun(flow[t], "none") \in Flow
    BY <1>1, FlowTyped DEF FlowRun
  <2>3. MissionsTyped'
    BY <1>1, <2>1 DEF MissionsTyped
  <2> QED
    BY <2>1, <2>2, <2>3, ThrowTyped
<1> QED
  BY <1>2, <1>3

-----------------------------------------------------------------------------
(* Every step keeps the types *)

LEMMA AbandonTyped ==
  ASSUME TypeOK, NEW t \in Threads, Abandon(t)
  PROVE  TypeOK'
  BY FlowTyped DEF Abandon, TypeOK, projectVars, missionVars, resultVars, callVars, hostVars

\* A continuation changes only these parts, or abandons.
LEMMA PartsTyped ==
  ASSUME TypeOK, MissionsTyped', CallsTyped', status' \in {"active", "paused", "completed"},
         gen' = gen, crashes' = crashes,
         succeeded' \in [Missions -> BOOLEAN], validated' \in [Missions -> BOOLEAN]
  PROVE  TypeOK'
  BY DEF TypeOK, MissionsTyped, CallsTyped

LEMMA ParkedTyped ==
  ASSUME CallsTyped, NEW t \in Threads, NEW p \in PC
  PROVE  Parked(t, p) \in Flow
  BY FlowTyped DEF CallsTyped, Parked, Flow, FlowRun

LEMMA LaunchTyped ==
  ASSUME TypeOK, NEW t \in Threads, NEW f \in Flow, Launch(t, f)
  PROVE  TypeOK'
<1>0. MissionsTyped /\ CallsTyped /\ OthersTyped
  BY TypeParts
<1>1. [f EXCEPT !.run = "running"] \in Flow /\ [f EXCEPT !.run = "left"] \in Flow
  BY AwaitNames DEF Flow
<1>2. UNCHANGED <<projectVars, missionVars, resultVars, crashes>>
  BY DEF Launch
<1>3. CallsTyped'
  <2>1. CASE Throw(t, [f EXCEPT !.run = "left"])
    BY <1>0, <1>1, <2>1, ThrowTyped
  <2>2. CASE /\ flow' = [flow EXCEPT ![t] = [f EXCEPT !.run = "running"]]
             /\ UNCHANGED <<callVars, up, died>>
    BY <1>0, <1>1, <2>2 DEF CallsTyped, callVars
  <2> QED
    BY <2>1, <2>2 DEF Launch
<1> QED
  BY <1>0, <1>2, <1>3, PartsTyped DEF TypeOK, MissionsTyped, missionVars, projectVars, resultVars

LEMMA ExecuteStepsTyped ==
  ASSUME TypeOK, NEW t \in Threads
  PROVE  /\ WorktreePrepared(t) => TypeOK'
         /\ StartRun(t) => TypeOK'
         /\ ProviderCompletes(t) => TypeOK'
         /\ ProviderFails(t) => TypeOK'
         /\ StreamThrows(t) => TypeOK'
         /\ BackoffOver(t) => TypeOK'
<1>0. /\ t[1] \in Missions /\ flow[t] \in Flow
      /\ MissionsTyped /\ CallsTyped /\ gen \in Nat
      /\ status \in {"active", "paused", "completed"}
      /\ succeeded \in [Missions -> BOOLEAN] /\ validated \in [Missions -> BOOLEAN]
  BY TypeParts DEF Threads, TypeOK
<1>1. ASSUME WorktreePrepared(t), ~Fenced(t) PROVE TypeOK'
  <2>1. PICK o \in {Outcome(t[1], "running", "models"), Asking(t[1], "blocked", "retry")} :
              Move(t, o.state, o, Parked(t, o.pc), flow[t])
    BY <1>1 DEF WorktreePrepared
  <2>2. o \in Outcomes
    BY <1>0, OutcomeTyped, AskingTyped DEF MissionState, PC, ExecutePC, ApprovalKind
  <2>3. Parked(t, o.pc) \in Flow
    BY <1>0, <2>2, ParkedTyped DEF Outcomes
  <2>4. MissionsTyped' /\ CallsTyped'
    BY <1>0, <2>1, <2>2, <2>3, MoveTyped
  <2> QED
    BY <1>0, <1>1, <2>4, PartsTyped DEF WorktreePrepared, projectVars, resultVars
<1>2. ASSUME StartRun(t), ~Fenced(t) PROVE TypeOK'
  <2>1. [flow[t] EXCEPT !.pc = "provider"] \in Flow
    BY <1>0, AwaitNames DEF Flow
  <2> QED
    BY <1>2, <2>1, LaunchTyped DEF StartRun
<1>3. ASSUME ProviderCompletes(t), ~Fenced(t), flow[t].run = "running" PROVE TypeOK'
  <2>1. PICK o \in ValidateOutcomes(t[1], TRUE, TRUE) :
              Move(t, "result_submitted", o, Parked(t, o.pc), WithRun(flow[t], "none"))
    BY <1>3 DEF ProviderCompletes
  <2>2. o \in Outcomes
    BY <1>0, ValidateOutcomesTyped
  <2>3. Parked(t, o.pc) \in Flow /\ WithRun(flow[t], "none") \in Flow
    BY <1>0, <2>2, ParkedTyped, FlowTyped DEF Outcomes, FlowRun
  <2>4. MissionsTyped' /\ CallsTyped'
    BY <1>0, <2>1, <2>2, <2>3, MoveTyped
  <2> QED
    BY <1>0, <1>3, <2>4, PartsTyped DEF ProviderCompletes, projectVars
<1>4. ASSUME ProviderFails(t), ~Fenced(t), flow[t].run = "running" PROVE TypeOK'
  <2>1. CASE UNCHANGED missionVars /\ UNCHANGED <<callVars, up, died>> /\ flow' \in [Threads -> Flow]
    BY <1>0, <1>4, <2>1, PartsTyped
    DEF ProviderFails, projectVars, resultVars, missionVars, callVars, MissionsTyped, CallsTyped
  <2>2. CASE /\ flow' = [flow EXCEPT ![t] = Retried(@, "backoff", "none")]
             /\ UNCHANGED <<missionVars, callVars, up, died>>
    <3>1. Retried(flow[t], "backoff", "none") \in Flow
      BY <1>0, NextAwaitTyped, AwaitNames
    <3> QED
      BY <1>0, <2>1, <2>2, <3>1 DEF CallsTyped
  <2>3. CASE /\ flow' = [flow EXCEPT ![t] = IF state[t[1]] = "running"
                                           THEN Retried(@, "models", "none") ELSE NoFlow]
             /\ UNCHANGED <<missionVars, callVars, up, died>>
    <3>1. Retried(flow[t], "models", "none") \in Flow
      BY <1>0, NextAwaitTyped, AwaitNames
    <3> QED
      BY <1>0, <2>1, <2>3, <3>1, FlowTyped DEF CallsTyped
  <2>4. CASE Move(t, "blocked", Asking(t[1], "blocked", "retry"), NoFlow, WithRun(flow[t], "none"))
    <3>1. /\ Asking(t[1], "blocked", "retry") \in Outcomes
          /\ WithRun(flow[t], "none") \in Flow
      BY <1>0, AskingTyped, FlowTyped DEF MissionState, ApprovalKind, FlowRun
    <3>2. MissionsTyped' /\ CallsTyped'
      BY <1>0, <2>4, <3>1, FlowTyped, MoveTyped
    <3> QED
      BY <1>0, <1>4, <3>2, PartsTyped DEF ProviderFails, projectVars, resultVars
  <2> QED
    BY <1>4, <2>2, <2>3, <2>4 DEF ProviderFails
<1>5. ASSUME BackoffOver(t), ~Fenced(t) PROVE TypeOK'
  <2>1. [flow[t] EXCEPT !.pc = "models", !.run = "none"] \in Flow
    BY <1>0, NextAwaitTyped, AwaitNames
  <2> QED
    BY <1>5, <2>1, FlowTyped
    DEF BackoffOver, LoopHead, TypeOK, projectVars, missionVars, resultVars, callVars, hostVars
<1>6. ASSUME StreamThrows(t) PROVE TypeOK'
  <2>1. CallsTyped' /\ MissionsTyped'
    BY <1>0, <1>6, ThrowTyped DEF StreamThrows, missionVars, MissionsTyped
  <2> QED
    BY <1>0, <1>6, <2>1, PartsTyped DEF StreamThrows, projectVars, resultVars
<1> QED
  BY <1>1, <1>2, <1>3, <1>4, <1>5, <1>6, AbandonTyped
  DEF WorktreePrepared, StartRun, ProviderCompletes, ProviderFails, BackoffOver

LEMMA ValidateStepsTyped ==
  ASSUME TypeOK, NEW t \in Threads
  PROVE  /\ ChecksPass(t) => TypeOK'
         /\ ValidationFails(t) => TypeOK'
         /\ Published(t) => TypeOK'
         /\ PublicationFails(t) => TypeOK'
<1>0. /\ t[1] \in Missions /\ flow[t] \in Flow
      /\ MissionsTyped /\ CallsTyped /\ gen \in Nat
      /\ status \in {"active", "paused", "completed"}
      /\ succeeded \in [Missions -> BOOLEAN] /\ validated \in [Missions -> BOOLEAN]
  BY TypeParts DEF Threads, TypeOK
<1>1. ASSUME ChecksPass(t), ~Fenced(t) PROVE TypeOK'
  <2>1. [flow[t] EXCEPT !.pc = "publishing"] \in Flow
    BY <1>0 DEF Flow, PC, ValidatePC
  <2> QED
    BY <1>1, <2>1 DEF ChecksPass, TypeOK, projectVars, missionVars, resultVars, callVars, hostVars
<1>2. ASSUME ValidationFails(t), ~Fenced(t) PROVE TypeOK'
  <2>1. MissionsTyped' /\ CallsTyped'
    BY <1>0, <1>2, FailTyped DEF ValidationFails
  <2> QED
    BY <1>0, <1>2, <2>1, PartsTyped DEF ValidationFails, projectVars, resultVars
<1>3. ASSUME Published(t), ~Fenced(t) PROVE TypeOK'
  <2>1. PICK o \in ReviewOutcomes(t[1], TRUE) :
              Move(t, "review_required", o, Parked(t, o.pc), flow[t])
    BY <1>3 DEF Published
  <2>2. o \in Outcomes
    BY <1>0, ReviewOutcomesTyped
  <2>3. Parked(t, o.pc) \in Flow
    BY <1>0, <2>2, ParkedTyped DEF Outcomes
  <2>4. MissionsTyped' /\ CallsTyped'
    BY <1>0, <2>1, <2>2, <2>3, MoveTyped
  <2>5. validated' \in [Missions -> BOOLEAN]
    BY <1>0, <1>3 DEF Published, CanTransitionMission
  <2> QED
    BY <1>0, <1>3, <2>4, <2>5, PartsTyped DEF Published, projectVars
<1>4. ASSUME PublicationFails(t), ~Fenced(t) PROVE TypeOK'
  <2>1. Asking(t[1], "blocked", "retry") \in Outcomes
    BY <1>0, AskingTyped DEF MissionState, ApprovalKind
  <2>2. MissionsTyped' /\ CallsTyped'
    BY <1>0, <1>4, <2>1, FlowTyped, MoveTyped, FailTyped DEF PublicationFails
  <2> QED
    BY <1>0, <1>4, <2>2, PartsTyped DEF PublicationFails, projectVars, resultVars
<1> QED
  BY <1>1, <1>2, <1>3, <1>4, AbandonTyped
  DEF ChecksPass, ValidationFails, Published, PublicationFails

LEMMA ReviewStepsTyped ==
  ASSUME TypeOK, NEW t \in Threads
  PROVE  /\ StartReview(t) => TypeOK'
         /\ ReviewFenced(t) => TypeOK'
         /\ ReviewCompletes(t) => TypeOK'
         /\ ReviewFails(t) => TypeOK'
         /\ CleanupOver(t) => TypeOK'
<1>0. /\ t[1] \in Missions /\ flow[t] \in Flow
      /\ MissionsTyped /\ CallsTyped /\ gen \in Nat
      /\ status \in {"active", "paused", "completed"}
      /\ succeeded \in [Missions -> BOOLEAN] /\ validated \in [Missions -> BOOLEAN]
  BY TypeParts DEF Threads, TypeOK
<1>1. ASSUME StartReview(t), ~Abandon(t) PROVE TypeOK'
  <2>1. [flow[t] EXCEPT !.pc = "reviewing"] \in Flow
    BY <1>0, AwaitNames DEF Flow
  <2> QED
    BY <1>1, <2>1, LaunchTyped DEF StartReview
<1>2. ASSUME ReviewFenced(t) PROVE TypeOK'
  <2>1. flow' \in [Threads -> Flow]
    BY <1>0, <1>2, FlowTyped DEF ReviewFenced, CallsTyped
  <2> QED
    BY <1>2, <2>1 DEF ReviewFenced, TypeOK, projectVars, missionVars, resultVars, callVars, hostVars
<1>3. ASSUME ReviewCompletes(t) PROVE TypeOK'
  <2>1. CASE ~CanTransitionRun(flow[t].run, "succeeded")
    <3>1. /\ Throw(t, flow[t]) /\ UNCHANGED <<missionVars, succeeded>>
          /\ UNCHANGED <<projectVars, validated, crashes>>
      BY <1>3, <2>1 DEF ReviewCompletes
    <3>2. CallsTyped'
      BY <1>0, <3>1, ThrowTyped
    <3>3. MissionsTyped'
      BY <1>0, <3>1 DEF missionVars, MissionsTyped
    <3> QED
      BY <1>0, <3>1, <3>2, <3>3, PartsTyped DEF projectVars
  <2>2. CASE CanTransitionRun(flow[t].run, "succeeded")
    <3>1. /\ \/ \E o \in IntegrateOutcomes(t[1], TRUE) :
                   Move(t, "approved", o, Parked(t, o.pc), WithRun(flow[t], "none"))
             \/ Fail(t)
          /\ succeeded' = [succeeded EXCEPT ![t[1]] = TRUE]
          /\ UNCHANGED <<projectVars, validated, crashes>>
      BY <1>3, <2>2 DEF ReviewCompletes
    <3>2. MissionsTyped' /\ CallsTyped'
      <4>1. CASE Fail(t)
        BY <1>0, <4>1, FailTyped
      <4>2. ASSUME NEW o \in IntegrateOutcomes(t[1], TRUE),
                   Move(t, "approved", o, Parked(t, o.pc), WithRun(flow[t], "none"))
            PROVE  MissionsTyped' /\ CallsTyped'
        <5>1. o \in Outcomes
          BY <1>0, IntegrateOutcomesTyped
        <5>2. Parked(t, o.pc) \in Flow /\ WithRun(flow[t], "none") \in Flow
          BY <1>0, <5>1, ParkedTyped, FlowTyped, AwaitNames DEF Outcomes
        <5> QED
          BY <1>0, <4>2, <5>1, <5>2, MoveTyped
      <4> QED
        BY <3>1, <4>1, <4>2
    <3> QED
      BY <1>0, <3>1, <3>2, PartsTyped DEF projectVars
  <2> QED
    BY <2>1, <2>2
<1>4. ASSUME ReviewFails(t) PROVE TypeOK'
  <2>0. UNCHANGED <<projectVars, resultVars, crashes>>
    BY <1>4 DEF ReviewFails
  <2>1. CASE Throw(t, flow[t]) /\ UNCHANGED missionVars
    <3>1. CallsTyped' /\ MissionsTyped'
      BY <1>0, <2>1, ThrowTyped DEF missionVars, MissionsTyped
    <3> QED
      BY <1>0, <2>0, <3>1, PartsTyped DEF projectVars, resultVars
  <2>2. ASSUME NEW f \in {Retried(flow[t], "rbackoff", "none"), NoFlow},
               flow' = [flow EXCEPT ![t] = f],
               UNCHANGED <<missionVars, callVars, up, died>>
        PROVE  TypeOK'
    <3>1. f \in Flow
      BY <1>0, NextAwaitTyped, AwaitNames, FlowTyped
    <3>2. flow' \in [Threads -> Flow]
      BY <1>0, <2>2, <3>1 DEF CallsTyped
    <3>3. CallsTyped' /\ MissionsTyped'
      BY <1>0, <2>2, <3>2 DEF CallsTyped, MissionsTyped, callVars, missionVars
    <3> QED
      BY <1>0, <2>0, <3>3, PartsTyped DEF projectVars, resultVars
  <2>3. CASE BlockReview(t)
    <3>1. Asking(t[1], "blocked", "review") \in Outcomes
      BY <1>0, AskingTyped DEF MissionState, ApprovalKind
    <3>2. MissionsTyped' /\ CallsTyped'
      <4>1. CASE state[t[1]] = "review_required"
        BY <1>0, <2>3, <3>1, <4>1, FlowTyped, MoveTyped DEF BlockReview
      <4>2. CASE state[t[1]] # "review_required"
        BY <1>0, <2>3, <4>2, FlowTyped
        DEF BlockReview, missionVars, callVars, MissionsTyped, CallsTyped
      <4> QED
        BY <4>1, <4>2
    <3> QED
      BY <1>0, <2>0, <3>2, PartsTyped DEF projectVars, resultVars
  <2>4. CASE Launch(t, Retried(flow[t], "reviewing", "none"))
    BY <1>0, <2>4, LaunchTyped, NextAwaitTyped, AwaitNames
  <2> QED
    BY <1>4, <2>1, <2>2, <2>3, <2>4 DEF ReviewFails
<1>5. ASSUME CleanupOver(t), ~Fenced(t) PROVE TypeOK'
  <2>1. Outcome(t[1], "completed", "idle") \in Outcomes
    BY <1>0, OutcomeTyped, AwaitNames DEF MissionState
  <2>2. MissionsTyped' /\ CallsTyped'
    BY <1>0, <1>5, <2>1, FlowTyped, MoveTyped DEF CleanupOver
  <2> QED
    BY <1>0, <1>5, <2>2, PartsTyped DEF CleanupOver, resultVars
<1> QED
  BY <1>1, <1>2, <1>3, <1>4, <1>5, AbandonTyped DEF StartReview, CleanupOver

LEMMA CommitAllTyped ==
  ASSUME MissionsTyped, NEW S \in SUBSET Missions, NEW o,
         \A m \in S : o[m] \in Outcomes, CommitAll(S, o)
  PROVE  /\ state' \in [Missions -> MissionState]
         /\ attempts' \in [Missions -> Nat]
         /\ approvals' \in [Missions -> [ApprovalKind -> Nat]]
         /\ reviewBlocked' \in [Missions -> BOOLEAN]
<1>1. \A m \in S : o[m].state \in MissionState /\ o[m].attempts \in Nat
  BY DEF Outcomes
<1>2. \A m \in Missions : OpenApproval(approvals[m], o[m].ask) \in [ApprovalKind -> Nat]
  BY OpenApprovalTyped DEF MissionsTyped
<1> QED
  BY <1>1, <1>2 DEF CommitAll, MissionsTyped

LEMMA ResumeOutcomesTyped ==
  ASSUME TypeOK, NEW m \in Missions
  PROVE  ResumeOutcomes(m) \subseteq Outcomes
<1>0. MissionsTyped /\ succeeded[m] \in BOOLEAN
  BY TypeParts DEF OthersTyped
<1>1. ResumeTarget(m) \in MissionState
  BY <1>0 DEF MissionsTyped, ResumeTarget, ResumeMissionTarget, MissionState, MissionPauseable
<1>2. Outcome(m, ResumeTarget(m), "idle") \in Outcomes
  BY <1>0, <1>1, OutcomeTyped, AwaitNames
<1> QED
  BY <1>0, <1>2, ValidateOutcomesTyped, ReviewOutcomesTyped, IntegrateOutcomesTyped
  DEF ResumeOutcomes

LEMMA ReconcileOutcomesTyped ==
  ASSUME TypeOK, NEW m \in Missions
  PROVE  ReconcileOutcomes(m) \subseteq Outcomes
<1>0. MissionsTyped /\ succeeded[m] \in BOOLEAN /\ (status # "paused") \in BOOLEAN
  BY TypeParts DEF OthersTyped
<1>1. Outcome(m, "ready", "idle") \in Outcomes
  BY <1>0, OutcomeTyped, AwaitNames DEF MissionState
<1> QED
  BY <1>0, <1>1, FailOutcomesTyped, ValidateOutcomesTyped, ReviewOutcomesTyped
  DEF ReconcileOutcomes

LEMMA SchedulerStepsTyped ==
  ASSUME TypeOK
  PROVE  /\ Tick => TypeOK'
         /\ PauseBegin => TypeOK'
         /\ ResumeProject => TypeOK'
<1>0. MissionsTyped /\ CallsTyped /\ OthersTyped /\ gen \in Nat
  BY TypeParts DEF OthersTyped
<1>1. ASSUME Tick PROVE TypeOK'
  <2>1. PICK S \in Selections :
          \E o \in [S -> UNION {ExecuteOutcomes(m, attempts[m], TRUE) : m \in S}] :
              /\ \A m \in S : o[m] \in ExecuteOutcomes(m, attempts[m], TRUE)
              /\ state' = [m \in Missions |-> IF m \in S THEN o[m].state
                                             ELSE IF m \in Promoted THEN "ready" ELSE state[m]]
              /\ approvals' = [m \in Missions |-> IF m \in S THEN OpenApproval(approvals[m], o[m].ask)
                                                 ELSE approvals[m]]
              /\ flow' = [t \in Threads |-> IF t[1] \in S /\ t[2] = SlotFor(t[1])
                                            THEN Spawned(o[t[1]], TRUE) ELSE flow[t]]
    BY <1>1 DEF Tick
  <2>2. PICK o :
              /\ \A m \in S : o[m] \in ExecuteOutcomes(m, attempts[m], TRUE)
              /\ state' = [m \in Missions |-> IF m \in S THEN o[m].state
                                             ELSE IF m \in Promoted THEN "ready" ELSE state[m]]
              /\ approvals' = [m \in Missions |-> IF m \in S THEN OpenApproval(approvals[m], o[m].ask)
                                                 ELSE approvals[m]]
              /\ flow' = [t \in Threads |-> IF t[1] \in S /\ t[2] = SlotFor(t[1])
                                            THEN Spawned(o[t[1]], TRUE) ELSE flow[t]]
    BY <2>1
  <2>3. S \subseteq Missions
    BY DEF Selections, Ready, Promoted
  <2>4. \A m \in S : o[m] \in Outcomes
    BY <1>0, <2>2, <2>3, ExecuteOutcomesTyped DEF MissionsTyped
  <2>5. \A m \in S : o[m].state \in MissionState /\ Spawned(o[m], TRUE) \in Flow
    BY <1>0, <2>4, SpawnedTyped DEF Outcomes
  <2>6. \A m \in Missions : OpenApproval(approvals[m], o[m].ask) \in [ApprovalKind -> Nat]
    BY <1>0, OpenApprovalTyped DEF MissionsTyped
  <2>7. state' \in [Missions -> MissionState]
    BY <1>0, <2>2, <2>5 DEF MissionsTyped, MissionState
  <2>8. approvals' \in [Missions -> [ApprovalKind -> Nat]]
    BY <1>0, <2>2, <2>6 DEF MissionsTyped
  <2>9. flow' \in [Threads -> Flow]
    BY <1>0, <2>2, <2>5 DEF CallsTyped
  <2> QED
    BY <1>1, <2>7, <2>8, <2>9
    DEF Tick, TypeOK, projectVars, resultVars, callVars, hostVars
<1>2. ASSUME PauseBegin PROVE TypeOK'
  <2>1. \A t \in Threads : WithRun(flow[t], "cancelling") \in Flow
    BY <1>0, FlowTyped, AwaitNames DEF CallsTyped
  <2>2. flow' \in [Threads -> Flow] /\ pauseTodo' \subseteq Threads
    BY <1>0, <1>2, <2>1 DEF PauseBegin, CallsTyped
  <2>3. state' \in [Missions -> MissionState]
    BY <1>0, <1>2 DEF PauseBegin, MissionsTyped, MissionState
  <2>4. /\ pausedFrom' \in [Missions -> MissionPauseable \cup {"none"}]
        /\ reviewBlocked' \in [Missions -> BOOLEAN]
    BY <1>0, <1>2 DEF PauseBegin, MissionsTyped
  <2>5. status' = "paused" /\ gen' \in 0..MaxGen
    BY <1>0, <1>2, ConstantsAssumption DEF PauseBegin, NextGeneration, OthersTyped
  <2> QED
    BY <1>2, <2>2, <2>3, <2>4, <2>5 DEF PauseBegin, TypeOK, resultVars, hostVars
<1>3. ASSUME ResumeProject PROVE TypeOK'
  <2> DEFINE S == {m \in Missions : state[m] = "paused"}
  <2>1. PICK o \in [S -> UNION {ResumeOutcomes(m) : m \in S}] :
             /\ \A m \in S : o[m] \in ResumeOutcomes(m)
             /\ CommitAll(S, o)
             /\ flow' = [t \in Threads |-> IF t[1] \in S /\ t[2] = SlotFor(t[1])
                                           THEN Spawned(o[t[1]], FALSE) ELSE flow[t]]
    BY <1>3 DEF ResumeProject
  <2>2. \A m \in S : o[m] \in Outcomes
    BY <2>1, ResumeOutcomesTyped
  <2>3. flow' \in [Threads -> Flow]
    BY <1>0, <2>1, <2>2, SpawnedTyped DEF CallsTyped
  <2>4. /\ state' \in [Missions -> MissionState]
        /\ attempts' \in [Missions -> Nat]
        /\ approvals' \in [Missions -> [ApprovalKind -> Nat]]
        /\ reviewBlocked' \in [Missions -> BOOLEAN]
    BY <1>0, <2>1, <2>2, CommitAllTyped
  <2>5. pausedFrom' \in [Missions -> MissionPauseable \cup {"none"}]
    BY <1>0, <1>3 DEF ResumeProject, MissionsTyped
  <2> QED
    BY <1>3, <2>3, <2>4, <2>5 DEF ResumeProject, TypeOK, resultVars, callVars, hostVars
<1> QED
  BY <1>1, <1>2, <1>3

LEMMA ResolveTyped ==
  ASSUME TypeOK, NEW m \in Missions, NEW kind \in ApprovalKind, NEW approved \in BOOLEAN,
         Resolve(m, kind, approved)
  PROVE  TypeOK'
<1> DEFINE open == status # "paused"
           outcomes ==
             CASE approved /\ state[m] = "blocked" /\ reviewBlocked[m] -> ReviewOutcomes(m, open)
               [] approved /\ state[m] = "blocked" /\ ~reviewBlocked[m] -> {Outcome(m, "ready", "idle")}
               [] approved /\ state[m] = "failed"          -> ExecuteOutcomes(m, 0, open)
               [] approved /\ state[m] = "review_required" -> IntegrateOutcomes(m, open)
               [] ~approved /\ state[m] \in {"blocked", "review_required", "failed"} ->
                     {Outcome(m, "cancelled", "idle")}
               [] OTHER -> {}
           rest == [approvals[m] EXCEPT ![kind] = @ - 1]
<1>0. MissionsTyped /\ CallsTyped /\ gen \in Nat /\ open \in BOOLEAN
  BY TypeParts DEF OthersTyped
<1>1. outcomes \subseteq Outcomes
  <2>1. /\ Outcome(m, "ready", "idle") \in Outcomes
        /\ Outcome(m, "cancelled", "idle") \in Outcomes
    BY <1>0, OutcomeTyped, AwaitNames DEF MissionState
  <2>2. /\ ReviewOutcomes(m, open) \subseteq Outcomes
        /\ ExecuteOutcomes(m, 0, open) \subseteq Outcomes
        /\ IntegrateOutcomes(m, open) \subseteq Outcomes
    BY <1>0, ReviewOutcomesTyped, ExecuteOutcomesTyped, IntegrateOutcomesTyped
  <2> HIDE DEF open
  <2> QED
    BY <2>1, <2>2
<1>2. rest \in [ApprovalKind -> Nat]
  <2>1. approvals[m] \in [ApprovalKind -> Nat] /\ approvals[m][kind] > 0
    BY <1>0 DEF Resolve, MissionsTyped
  <2>2. approvals[m][kind] - 1 \in Nat
    BY <2>1
  <2> QED
    BY <2>1, <2>2
<1>3. CASE outcomes = {}
  <2>1. /\ approvals' = [approvals EXCEPT ![m] = rest]
        /\ UNCHANGED <<state, attempts, reviewBlocked, flow>>
        /\ UNCHANGED <<projectVars, pausedFrom, resultVars, callVars, hostVars>>
    BY <1>3 DEF Resolve
  <2> HIDE DEF rest, outcomes
  <2>2. approvals' \in [Missions -> [ApprovalKind -> Nat]]
    BY <1>0, <1>2, <2>1 DEF MissionsTyped
  <2> QED
    BY <2>1, <2>2 DEF TypeOK, projectVars, resultVars, callVars, hostVars
<1>4. CASE outcomes # {}
  <2>1. PICK o \in outcomes :
          /\ state' = [state EXCEPT ![m] = o.state]
          /\ attempts' = [attempts EXCEPT ![m] = o.attempts]
          /\ approvals' = [approvals EXCEPT ![m] = OpenApproval(rest, o.ask)]
          /\ reviewBlocked' = [reviewBlocked EXCEPT ![m] = (o.ask = "review")]
          /\ flow' = [flow EXCEPT ![<<m, SlotFor(m)>>] = Spawned(o, FALSE)]
    BY <1>4 DEF Resolve
  <2>2. UNCHANGED <<projectVars, pausedFrom, resultVars, callVars, hostVars>>
    BY DEF Resolve
  <2> HIDE DEF rest, outcomes
  <2>3. o \in Outcomes /\ o.state \in MissionState /\ o.attempts \in Nat
    BY <1>1, <2>1 DEF Outcomes
  <2>4. /\ OpenApproval(rest, o.ask) \in [ApprovalKind -> Nat]
        /\ Spawned(o, FALSE) \in Flow
    BY <1>0, <1>2, <2>3, OpenApprovalTyped, SpawnedTyped
  <2>5. MissionsTyped'
    BY <1>0, <2>1, <2>2, <2>3, <2>4 DEF MissionsTyped
  <2>6. flow' \in [Threads -> Flow]
    BY <1>0, <2>1, <2>4 DEF CallsTyped
  <2> QED
    BY <2>2, <2>5, <2>6 DEF TypeOK, MissionsTyped, projectVars, resultVars, callVars, hostVars
<1> QED
  BY <1>3, <1>4

LEMMA CancelStepsTyped ==
  ASSUME TypeOK
  PROVE  /\ \A m \in Missions, to \in UserTargets : UserTransition(m, to) => TypeOK'
         /\ \A m \in Missions : CancelBegin(m) => TypeOK'
         /\ \A t \in Threads : CancelContinues(t) => TypeOK'
         /\ \A t \in Threads : PauseCancelsRun(t) => TypeOK'
<1>0. MissionsTyped /\ CallsTyped
  BY TypeParts
<1>1. ASSUME NEW m \in Missions, NEW to \in UserTargets, UserTransition(m, to) PROVE TypeOK'
  <2>1. to \in MissionState
    BY ConstantsAssumption
  <2> QED
    BY <1>1, <2>1
    DEF UserTransition, TypeOK, projectVars, resultVars, callVars, hostVars
<1>2. \A m \in Missions : CancelState(m) => state' \in [Missions -> MissionState]
  BY <1>0 DEF CancelState, MissionsTyped, MissionState
<1>3. \A t \in Threads, r \in FlowRun : WithRun(flow[t], r) \in Flow
  BY <1>0, FlowTyped DEF CallsTyped
<1>4. ASSUME NEW m \in Missions, CancelBegin(m) PROVE TypeOK'
  <2>1. /\ reviewBlocked' = [reviewBlocked EXCEPT ![m] = @ /\ state'[m] = "blocked"]
        /\ UNCHANGED <<projectVars, pausedFrom, attempts, approvals, resultVars, hostVars>>
    BY <1>4 DEF CancelBegin
  <2>2. reviewBlocked' \in [Missions -> BOOLEAN]
    BY <1>0, <2>1 DEF MissionsTyped
  <2>3. /\ state' \in [Missions -> MissionState]
        /\ flow' \in [Threads -> Flow]
        /\ pauseTodo' \subseteq Threads /\ cancelTodo' \subseteq Threads
        /\ cancelCur' \subseteq Threads
    <3>0. WithoutLeft(m) \in [Threads -> Flow]
      BY <1>0, FlowTyped, AwaitNames DEF CallsTyped, WithoutLeft
    <3>1. CASE flow' = WithoutLeft(m) /\ CancelState(m) /\ UNCHANGED callVars
      BY <1>0, <1>2, <3>0, <3>1 DEF CallsTyped, callVars
    <3>2. ASSUME NEW t \in RunsOf(m),
                 flow' = [WithoutLeft(m) EXCEPT ![t] = WithRun(@, "cancelling")],
                 cancelCur' = cancelCur \cup {t},
                 cancelTodo' = cancelTodo \cup (RunsOf(m) \ {t}),
                 UNCHANGED <<state, pauseTodo>>
          PROVE  /\ state' \in [Missions -> MissionState]
                 /\ flow' \in [Threads -> Flow]
                 /\ pauseTodo' \subseteq Threads /\ cancelTodo' \subseteq Threads
                 /\ cancelCur' \subseteq Threads
      <4>1. RunsOf(m) \subseteq Threads
        BY DEF RunsOf
      <4>2. WithRun(WithoutLeft(m)[t], "cancelling") \in Flow
        BY <3>0, <4>1, FlowTyped, AwaitNames
      <4> QED
        BY <1>0, <3>0, <3>2, <4>1, <4>2 DEF CallsTyped, MissionsTyped
    <3> QED
      BY <1>4, <3>1, <3>2 DEF CancelBegin
  <2> QED
    BY <2>1, <2>2, <2>3 DEF TypeOK, projectVars, resultVars, hostVars
<1>5. ASSUME NEW t \in Threads, CancelContinues(t) PROVE TypeOK'
  <2> DEFINE m == t[1]
             mine == {u \in cancelTodo : u[1] = m}
             done == [flow EXCEPT ![t] = WithRun(@, "cancelled")]
             abandon == cancelTodo' = cancelTodo \ mine /\ cancelCur' = cancelCur \ {t}
  <2>0. m \in Missions
    BY DEF Threads
  <2>1. /\ reviewBlocked' = [reviewBlocked EXCEPT ![m] = @ /\ state'[m] = "blocked"]
        /\ UNCHANGED <<projectVars, pausedFrom, attempts, approvals, resultVars, pauseTodo, hostVars>>
    BY <1>5 DEF CancelContinues
  <2>2. reviewBlocked' \in [Missions -> BOOLEAN]
    BY <1>0, <2>0, <2>1 DEF MissionsTyped
  <2>3. done \in [Threads -> Flow]
    BY <1>0, <1>3, AwaitNames DEF CallsTyped
  <2>4. abandon => cancelTodo' \subseteq Threads /\ cancelCur' \subseteq Threads
    BY <1>0 DEF CallsTyped
  <2>5. /\ state' \in [Missions -> MissionState]
        /\ flow' \in [Threads -> Flow]
        /\ cancelTodo' \subseteq Threads /\ cancelCur' \subseteq Threads
    <3>1. CASE abandon /\ UNCHANGED <<flow, state>>
      BY <1>0, <2>4, <3>1 DEF CallsTyped, MissionsTyped
    <3>2. CASE flow' = done /\ CancelState(m) /\ abandon
      BY <1>2, <2>0, <2>3, <2>4, <3>2
    <3>3. ASSUME NEW u \in mine, UNCHANGED state,
                 flow' = [done EXCEPT ![u] = WithRun(@, "cancelling")],
                 cancelTodo' = cancelTodo \ {u},
                 cancelCur' = (cancelCur \ {t}) \cup {u}
          PROVE  /\ state' \in [Missions -> MissionState]
                 /\ flow' \in [Threads -> Flow]
                 /\ cancelTodo' \subseteq Threads /\ cancelCur' \subseteq Threads
      <4>1. u \in Threads
        BY <1>0 DEF CallsTyped
      <4> HIDE DEF done
      <4>2. WithRun(done[u], "cancelling") \in Flow
        BY <2>3, <4>1, FlowTyped, AwaitNames
      <4> QED
        BY <1>0, <2>3, <3>3, <4>1, <4>2 DEF CallsTyped, MissionsTyped
    <3>4. CASE flow' = done /\ abandon /\ UNCHANGED state
      BY <1>0, <2>3, <2>4, <3>4 DEF MissionsTyped
    <3> HIDE DEF done, abandon, mine
    <3>5. \/ abandon /\ UNCHANGED <<flow, state>>
          \/ flow' = done /\ CancelState(m) /\ abandon
          \/ /\ UNCHANGED state
             /\ \E u \in mine :
                  \/ /\ flow' = [done EXCEPT ![u] = WithRun(@, "cancelling")]
                     /\ cancelTodo' = cancelTodo \ {u}
                     /\ cancelCur' = (cancelCur \ {t}) \cup {u}
                  \/ flow' = done /\ abandon
      BY <1>5 DEF CancelContinues, done, abandon, mine
    <3> QED
      BY <3>1, <3>2, <3>3, <3>4, <3>5
  <2> QED
    BY <2>1, <2>2, <2>5 DEF TypeOK, projectVars, resultVars, hostVars
<1>6. ASSUME NEW t \in Threads, PauseCancelsRun(t) PROVE TypeOK'
  <2>1. flow' \in [Threads -> Flow]
    BY <1>0, <1>3, <1>6, AwaitNames DEF PauseCancelsRun, CallsTyped
  <2> QED
    BY <1>6, <2>1
    DEF PauseCancelsRun, TypeOK, projectVars, missionVars, resultVars, hostVars
<1> QED
  BY <1>1, <1>4, <1>5, <1>6

LEMMA HostStepsTyped ==
  ASSUME TypeOK
  PROVE  /\ Crash => TypeOK'
         /\ Restart => TypeOK'
<1>0. MissionsTyped /\ CallsTyped /\ gen \in Nat
  BY TypeParts DEF TypeOK
<1>1. ASSUME Crash PROVE TypeOK'
  <2>1. flow' \in [Threads -> Flow]
    BY <1>0, <1>1, FlowTyped DEF Crash, CallsTyped
  <2>2. crashes' \in 0..MaxCrashes
    BY <1>1, ConstantsAssumption DEF Crash, TypeOK
  <2> QED
    BY <1>1, <2>1, <2>2 DEF Crash, LoseMemory, TypeOK, projectVars, missionVars, resultVars
<1>2. ASSUME Restart PROVE TypeOK'
  <2> DEFINE S == {m \in Missions : ReconcileOutcomes(m) # {}}
             first == CHOOSE k \in Slots : TRUE
  <2>1. PICK o \in [S -> UNION {ReconcileOutcomes(m) : m \in S}] :
             /\ \A m \in S : o[m] \in ReconcileOutcomes(m)
             /\ CommitAll(S, o)
             /\ flow' = [t \in Threads |-> IF t[1] \in S /\ t[2] = first
                                           THEN Spawned(o[t[1]], FALSE) ELSE NoFlow]
    BY <1>2 DEF Restart
  <2>2. \A m \in S : o[m] \in Outcomes
    BY <2>1, ReconcileOutcomesTyped
  <2>3. flow' \in [Threads -> Flow]
    BY <1>0, <2>1, <2>2, SpawnedTyped, FlowTyped
  <2>4. /\ state' \in [Missions -> MissionState]
        /\ attempts' \in [Missions -> Nat]
        /\ approvals' \in [Missions -> [ApprovalKind -> Nat]]
        /\ reviewBlocked' \in [Missions -> BOOLEAN]
    BY <1>0, <2>1, <2>2, CommitAllTyped
  <2> QED
    BY <1>2, <2>3, <2>4 DEF Restart, TypeOK, projectVars, resultVars, callVars
<1> QED
  BY <1>1, <1>2

LEMMA InitTyped == Init => TypeOK
<1> SUFFICES ASSUME Init PROVE TypeOK
  OBVIOUS
<1>1. MissionsTyped
  BY DEF Init, MissionsTyped, MissionState, MissionPauseable, ApprovalKind
<1>2. CallsTyped
  BY FlowTyped DEF Init, CallsTyped
<1>3. OthersTyped
  BY ConstantsAssumption DEF Init, OthersTyped
<1> QED
  BY <1>1, <1>2, <1>3, TypeParts

LEMMA NextTyped ==
  ASSUME TypeOK, [Next]_vars
  PROVE  TypeOK'
<1>1. ASSUME NEW t \in Threads, Continue(t) PROVE TypeOK'
  BY <1>1, ExecuteStepsTyped, ValidateStepsTyped, ReviewStepsTyped DEF Continue
<1>2. ASSUME UserAction PROVE TypeOK'
  BY <1>2, SchedulerStepsTyped, ResolveTyped, CancelStepsTyped DEF UserAction
<1>3. CASE UNCHANGED vars
  BY <1>3 DEF vars, projectVars, missionVars, resultVars, callVars, hostVars, TypeOK
<1> QED
  BY <1>1, <1>2, <1>3, SchedulerStepsTyped, CancelStepsTyped, HostStepsTyped DEF Next

\* Type correctness: whatever pauses, cancels, crashes and restarts happen, a
\* mission is in a state of its machine, the state it was paused in is one that
\* a pause suspends, and no count of approvals becomes negative.
THEOREM TypeCorrect == Spec => []TypeOK
  BY InitTyped, NextTyped, PTL DEF Spec

-----------------------------------------------------------------------------
(***************************************************************************)
(* The dependency gate.  It is inductive together with the types, because  *)
(* of two facts about single steps: a completed mission stays completed,   *)
(* and a coroutine gets to an await of executeMission only from another    *)
(* one or by a step that has just found every dependency completed.        *)
(***************************************************************************)

CompletedStays == \A m \in Missions : state[m] = "completed" => state'[m] = "completed"

EntersGated ==
    \A t \in Threads :
        flow'[t].pc \in ExecutePC => flow[t].pc \in ExecutePC \/ WorktreeAllowed(t[1])

GatedOutcomes(m) == {o \in Outcomes : o.pc \in ExecutePC => WorktreeAllowed(m)}

LEMMA CompletedIsTerminal == \A to : ~CanTransitionMission("completed", to)
  BY DEF CanTransitionMission, MissionTransitions

\* Where the operators that build a coroutine's record leave its pc.
LEMMA PcOf ==
  /\ NoFlow.pc = "idle"
  /\ \A f \in Flow : Exit(f).pc = "idle"
  /\ \A f \in Flow, r \in FlowRun : WithRun(f, r).pc = f.pc
  /\ \A f \in Flow, p \in PC, r \in FlowRun : Retried(f, p, r).pc = p
<1>1. NoFlow.pc = "idle"
  BY DEF NoFlow
<1>2. \A f \in Flow : Exit(f).pc = "idle"
  BY DEF NoFlow, Exit
<1>3. \A f \in Flow, r \in FlowRun : [f EXCEPT !.run = r] \in Flow /\ [f EXCEPT !.run = r].pc = f.pc
  BY DEF Flow
<1>4. \A f \in Flow, p \in PC, r \in FlowRun : Retried(f, p, r).pc = p
  BY DEF Retried, Flow
<1> QED
  BY <1>1, <1>2, <1>3, <1>4 DEF WithRun

LEMMA SpawnedPc ==
  ASSUME gen \in Nat, NEW o \in Outcomes, NEW c \in BOOLEAN
  PROVE  Spawned(o, c).pc = o.pc
  BY DEF Spawned, NoFlow, Outcomes

LEMMA ParkedPc ==
  ASSUME CallsTyped, NEW t \in Threads, NEW p \in PC
  PROVE  Parked(t, p).pc = p
  BY DEF CallsTyped, Parked, Flow, NoFlow

LEMMA IdleIsNotExecuting ==
  /\ "idle" \notin ExecutePC /\ "cleanup" \notin ExecutePC
  /\ ValidatePC \cap ExecutePC = {} /\ ReviewPC \cap ExecutePC = {}
  BY DEF ExecutePC, ValidatePC, ReviewPC

LEMMA ExecuteOutcomesGated ==
  ASSUME MissionsTyped, NEW m \in Missions, NEW a \in Nat, NEW open \in BOOLEAN
  PROVE  ExecuteOutcomes(m, a, open) \subseteq GatedOutcomes(m)
<1>1. ExecuteOutcomes(m, a, open) \subseteq Outcomes
  BY ExecuteOutcomesTyped
<1>2. ASSUME NEW o \in ExecuteOutcomes(m, a, open), ~WorktreeAllowed(m)
      PROVE  o.pc = "idle"
  BY <1>2 DEF ExecuteOutcomes, Outcome, Asking
<1> QED
  BY <1>1, <1>2, IdleIsNotExecuting DEF GatedOutcomes

LEMMA FailOutcomesGated ==
  ASSUME MissionsTyped, NEW m \in Missions, NEW open \in BOOLEAN
  PROVE  FailOutcomes(m, open) \subseteq GatedOutcomes(m)
<1>1. FailOutcomes(m, open) \subseteq Outcomes /\ attempts[m] + 1 \in Nat
  BY FailOutcomesTyped DEF MissionsTyped
<1>2. Asking(m, "failed", "retry").pc = "idle"
  BY DEF Asking, Outcome
<1> QED
  BY <1>1, <1>2, ExecuteOutcomesGated, IdleIsNotExecuting DEF FailOutcomes, GatedOutcomes

LEMMA OtherOutcomesGated ==
  ASSUME MissionsTyped, NEW m \in Missions, NEW hasRun \in BOOLEAN, NEW open \in BOOLEAN
  PROVE  /\ ValidateOutcomes(m, hasRun, open) \subseteq GatedOutcomes(m)
         /\ ReviewOutcomes(m, open) \subseteq GatedOutcomes(m)
         /\ IntegrateOutcomes(m, open) \subseteq GatedOutcomes(m)
<1>1. /\ ValidateOutcomes(m, hasRun, open) \subseteq Outcomes
      /\ ReviewOutcomes(m, open) \subseteq Outcomes
      /\ IntegrateOutcomes(m, open) \subseteq Outcomes
  BY ValidateOutcomesTyped, ReviewOutcomesTyped, IntegrateOutcomesTyped
<1>2. \A o \in ValidateOutcomes(m, hasRun, open) :
          o \in FailOutcomes(m, open) \/ o.pc \in {"idle", "checking"}
  BY DEF ValidateOutcomes, Outcome
<1>3. \A o \in ReviewOutcomes(m, open) : o.pc \in {"idle", "diff"}
  BY DEF ReviewOutcomes, Outcome, Asking
<1>4. \A o \in IntegrateOutcomes(m, open) : o.pc \in {"idle", "cleanup"}
  BY DEF IntegrateOutcomes, Outcome
<1>5. {"idle", "checking", "diff", "cleanup"} \cap ExecutePC = {}
  BY DEF ExecutePC
<1> QED
  BY <1>1, <1>2, <1>3, <1>4, <1>5, FailOutcomesGated DEF GatedOutcomes

LEMMA ResumeAndReconcileGated ==
  ASSUME TypeOK, NEW m \in Missions
  PROVE  /\ ResumeOutcomes(m) \subseteq GatedOutcomes(m)
         /\ ReconcileOutcomes(m) \subseteq GatedOutcomes(m)
<1>0. MissionsTyped /\ succeeded[m] \in BOOLEAN /\ (status # "paused") \in BOOLEAN
  BY TypeParts DEF OthersTyped
<1>1. /\ ResumeOutcomes(m) \subseteq Outcomes
      /\ ReconcileOutcomes(m) \subseteq Outcomes
  BY ResumeOutcomesTyped, ReconcileOutcomesTyped
<1>2. \A s : Outcome(m, s, "idle").pc = "idle"
  BY DEF Outcome
<1>3. ASSUME NEW o \in ResumeOutcomes(m) PROVE o \in GatedOutcomes(m)
  <2>1. \/ o \in ValidateOutcomes(m, succeeded[m], TRUE)
        \/ o \in ReviewOutcomes(m, TRUE)
        \/ o \in IntegrateOutcomes(m, TRUE)
        \/ o.pc = "idle"
    BY <1>2 DEF ResumeOutcomes
  <2> QED
    BY <1>0, <1>1, <2>1, OtherOutcomesGated, IdleIsNotExecuting DEF GatedOutcomes
<1>4. ASSUME NEW o \in ReconcileOutcomes(m) PROVE o \in GatedOutcomes(m)
  <2>1. \/ o \in FailOutcomes(m, status # "paused")
        \/ o \in ValidateOutcomes(m, succeeded[m], status # "paused")
        \/ o \in ReviewOutcomes(m, status # "paused")
        \/ o.pc = "idle"
    BY <1>2 DEF ReconcileOutcomes
  <2> QED
    BY <1>0, <1>1, <2>1, FailOutcomesGated, OtherOutcomesGated, IdleIsNotExecuting
    DEF GatedOutcomes
<1> QED
  BY <1>3, <1>4

LEMMA AbandonGated ==
  ASSUME TypeOK, NEW t \in Threads, Abandon(t)
  PROVE  CompletedStays /\ EntersGated
<1>1. \A u \in Threads : flow'[u].pc \in {"idle", flow[u].pc}
  BY PcOf DEF TypeOK, Abandon
<1> QED
  BY <1>1, IdleIsNotExecuting DEF Abandon, missionVars, CompletedStays, EntersGated

LEMMA ThrowGated ==
  ASSUME CallsTyped, NEW t \in Threads, NEW f \in Flow, Throw(t, f)
  PROVE  EntersGated
<1>1. \A u \in Threads : flow'[u].pc \in {"idle", flow[u].pc}
  <2>1. CASE f.caught
    BY <2>1, PcOf DEF Throw, CallsTyped
  <2>2. CASE ~f.caught
    <3>1. \A u \in Threads : flow'[u] = Exit(IF u = t THEN f ELSE flow[u])
      BY <2>2 DEF Throw
    <3> QED
      BY <3>1, PcOf DEF CallsTyped
  <2> QED
    BY <2>1, <2>2
<1> QED
  BY <1>1, IdleIsNotExecuting DEF EntersGated

LEMMA MoveGated ==
  ASSUME MissionsTyped, CallsTyped, NEW t \in Threads, NEW via, NEW o \in Outcomes,
         NEW next \in Flow, NEW thrown \in Flow, Move(t, via, o, next, thrown),
         next.pc \in ExecutePC => flow[t].pc \in ExecutePC \/ WorktreeAllowed(t[1])
  PROVE  CompletedStays /\ EntersGated
<1>1. CASE CanTransitionMission(state[t[1]], via)
  <2>1. Commit(t[1], o) /\ flow' = [flow EXCEPT ![t] = next]
    BY <1>1 DEF Move
  <2>2. state[t[1]] # "completed"
    BY <1>1, CompletedIsTerminal
  <2> QED
    BY <2>1, <2>2 DEF Commit, MissionsTyped, CallsTyped, CompletedStays, EntersGated
<1>2. CASE ~CanTransitionMission(state[t[1]], via)
  <2>1. Throw(t, thrown) /\ UNCHANGED missionVars
    BY <1>2 DEF Move
  <2> QED
    BY <2>1, ThrowGated DEF missionVars, CompletedStays
<1> QED
  BY <1>1, <1>2

LEMMA FailGated ==
  ASSUME MissionsTyped, CallsTyped, gen \in Nat, NEW t \in Threads, Fail(t)
  PROVE  CompletedStays /\ EntersGated
<1> DEFINE m == t[1]
           via == IF MayCorrect(m) THEN "retrying" ELSE "failed"
<1>1. m \in Missions /\ flow[t] \in Flow
  BY DEF Threads, CallsTyped
<1>2. CASE CanTransitionMission(state[m], via)
  <2>1. PICK o \in FailOutcomes(m, TRUE) : Move(t, via, o, Spawned(o, FALSE), flow[t])
    BY <1>2 DEF Fail
  <2>2. o \in GatedOutcomes(m) /\ o \in Outcomes
    BY <1>1, FailOutcomesGated DEF GatedOutcomes
  <2>3. Spawned(o, FALSE) \in Flow /\ Spawned(o, FALSE).pc = o.pc
    BY <2>2, SpawnedTyped, SpawnedPc
  <2>4. o.pc \in ExecutePC => WorktreeAllowed(m)
    BY <2>2 DEF GatedOutcomes
  <2> QED
    BY <1>1, <2>1, <2>2, <2>3, <2>4, MoveGated
<1>3. CASE ~CanTransitionMission(state[m], via)
  <2>1. Throw(t, WithRun(flow[t], "none")) /\ UNCHANGED state
    BY <1>3 DEF Fail
  <2>2. WithRun(flow[t], "none") \in Flow
    BY <1>1, FlowTyped, AwaitNames
  <2> QED
    BY <2>1, <2>2, ThrowGated DEF CompletedStays
<1> QED
  BY <1>2, <1>3

LEMMA LaunchGated ==
  ASSUME CallsTyped, NEW t \in Threads, NEW f \in Flow, Launch(t, f),
         f.pc \in ExecutePC => flow[t].pc \in ExecutePC
  PROVE  CompletedStays /\ EntersGated
<1>1. CompletedStays
  BY DEF Launch, missionVars, CompletedStays
<1>2. CASE flow' = [flow EXCEPT ![t] = [f EXCEPT !.run = "running"]]
  <2>1. [f EXCEPT !.run = "running"].pc = f.pc
    BY DEF Flow
  <2> QED
    BY <1>1, <1>2, <2>1 DEF CallsTyped, EntersGated
<1>3. CASE Throw(t, [f EXCEPT !.run = "left"])
  <2>1. [f EXCEPT !.run = "left"] \in Flow
    BY AwaitNames DEF Flow
  <2> QED
    BY <1>1, <1>3, <2>1, ThrowGated
<1> QED
  BY <1>2, <1>3 DEF Launch

LEMMA ContinueGated ==
  ASSUME TypeOK, NEW t \in Threads, Continue(t)
  PROVE  CompletedStays /\ EntersGated
<1>0. /\ t[1] \in Missions /\ flow[t] \in Flow /\ gen \in Nat
      /\ MissionsTyped /\ CallsTyped
  BY TypeParts DEF Threads, TypeOK
<1>1. CASE Abandon(t)
  BY <1>1, AbandonGated
\* A step that leaves the missions alone and ends t, or keeps it executing or
\* not executing as it was.
<1>2. ASSUME NEW f \in Flow, flow' = [flow EXCEPT ![t] = f], UNCHANGED missionVars,
             f.pc \in ExecutePC => flow[t].pc \in ExecutePC
      PROVE  CompletedStays /\ EntersGated
  BY <1>0, <1>2 DEF missionVars, CompletedStays, EntersGated, CallsTyped
<1>3. CASE WorktreePrepared(t) /\ ~Fenced(t)
  <2>1. PICK o \in {Outcome(t[1], "running", "models"), Asking(t[1], "blocked", "retry")} :
              Move(t, o.state, o, Parked(t, o.pc), flow[t])
    BY <1>3 DEF WorktreePrepared
  <2>2. o \in Outcomes
    BY <1>0, OutcomeTyped, AskingTyped, AwaitNames DEF MissionState, ApprovalKind
  <2>3. Parked(t, o.pc) \in Flow
    BY <1>0, <2>2, ParkedTyped DEF Outcomes
  <2>4. flow[t].pc \in ExecutePC
    BY <1>3 DEF WorktreePrepared, At, ExecutePC
  <2> QED
    BY <1>0, <2>1, <2>2, <2>3, <2>4, MoveGated
<1>4. CASE StartRun(t) /\ ~Fenced(t)
  <2>1. [flow[t] EXCEPT !.pc = "provider"] \in Flow
    BY <1>0, AwaitNames DEF Flow
  <2>2. Launch(t, [flow[t] EXCEPT !.pc = "provider"]) /\ flow[t].pc \in ExecutePC
    BY <1>4 DEF StartRun, At, ExecutePC
  <2> QED
    BY <1>0, <2>1, <2>2, LaunchGated
<1>5. CASE ProviderCompletes(t) /\ ~Fenced(t) /\ flow[t].run = "running"
  <2>1. PICK o \in ValidateOutcomes(t[1], TRUE, TRUE) :
              Move(t, "result_submitted", o, Parked(t, o.pc), WithRun(flow[t], "none"))
    BY <1>5 DEF ProviderCompletes
  <2>2. o \in Outcomes
    BY <1>0, ValidateOutcomesTyped
  <2>3. Parked(t, o.pc) \in Flow /\ WithRun(flow[t], "none") \in Flow
    BY <1>0, <2>2, ParkedTyped, FlowTyped, AwaitNames DEF Outcomes
  <2>4. flow[t].pc \in ExecutePC
    BY <1>5 DEF ProviderCompletes, At, ExecutePC
  <2> QED
    BY <1>0, <2>1, <2>2, <2>3, <2>4, MoveGated
<1>6. CASE ProviderFails(t) /\ ~Fenced(t) /\ flow[t].run = "running"
  <2>0. flow[t].pc \in ExecutePC
    BY <1>6 DEF ProviderFails, At, ExecutePC
  <2>1. \/ \E f \in {Retried(flow[t], "backoff", "none"), Retried(flow[t], "models", "none"), NoFlow} :
              flow' = [flow EXCEPT ![t] = f] /\ UNCHANGED missionVars
        \/ Move(t, "blocked", Asking(t[1], "blocked", "retry"), NoFlow, WithRun(flow[t], "none"))
    BY <1>6 DEF ProviderFails
  <2>2. /\ Retried(flow[t], "backoff", "none") \in Flow
        /\ Retried(flow[t], "models", "none") \in Flow
        /\ NoFlow \in Flow /\ WithRun(flow[t], "none") \in Flow
    BY <1>0, NextAwaitTyped, FlowTyped, AwaitNames
  <2>3. Asking(t[1], "blocked", "retry") \in Outcomes
    BY <1>0, AskingTyped DEF MissionState, ApprovalKind
  <2> QED
    BY <1>0, <1>2, <2>0, <2>1, <2>2, <2>3, MoveGated
<1>7. CASE BackoffOver(t) /\ ~Fenced(t)
  <2>0. flow[t].pc \in ExecutePC
    BY <1>7 DEF BackoffOver, At, ExecutePC
  <2>1. \E f \in {[flow[t] EXCEPT !.pc = "models", !.run = "none"], NoFlow} :
              flow' = [flow EXCEPT ![t] = f] /\ UNCHANGED missionVars
    BY <1>7 DEF BackoffOver, LoopHead, missionVars
  <2>2. [flow[t] EXCEPT !.pc = "models", !.run = "none"] \in Flow /\ NoFlow \in Flow
    BY <1>0, NextAwaitTyped, FlowTyped, AwaitNames
  <2> QED
    BY <1>2, <2>0, <2>1, <2>2
<1>8. CASE ChecksPass(t) /\ ~Fenced(t)
  <2> DEFINE f == [flow[t] EXCEPT !.pc = "publishing"]
  <2>1. f \in Flow /\ f.pc \notin ExecutePC
    BY <1>0, AwaitNames DEF Flow, ExecutePC
  <2>2. flow' = [flow EXCEPT ![t] = f] /\ UNCHANGED missionVars
    BY <1>8 DEF ChecksPass, missionVars
  <2> HIDE DEF f
  <2> QED
    BY <1>2, <2>1, <2>2
<1>9. CASE ValidationFails(t) /\ ~Fenced(t)
  BY <1>0, <1>9, FailGated DEF ValidationFails
<1>10. CASE Published(t) /\ ~Fenced(t)
  <2>1. PICK o \in ReviewOutcomes(t[1], TRUE) :
              Move(t, "review_required", o, Parked(t, o.pc), flow[t])
    BY <1>10 DEF Published
  <2>2. o \in GatedOutcomes(t[1]) /\ o \in Outcomes /\ o.pc \in PC
    BY <1>0, OtherOutcomesGated DEF GatedOutcomes, Outcomes
  <2>3. Parked(t, o.pc) \in Flow /\ Parked(t, o.pc).pc = o.pc
    BY <1>0, <2>2, ParkedTyped, ParkedPc
  <2> QED
    BY <1>0, <2>1, <2>2, <2>3, MoveGated DEF GatedOutcomes
<1>11. CASE PublicationFails(t) /\ ~Fenced(t)
  <2>1. Asking(t[1], "blocked", "retry") \in Outcomes /\ NoFlow.pc \notin ExecutePC
    BY <1>0, AskingTyped, PcOf, IdleIsNotExecuting DEF MissionState, ApprovalKind
  <2> QED
    BY <1>0, <1>11, <2>1, FlowTyped, MoveGated, FailGated DEF PublicationFails
<1>12. CASE StartReview(t) /\ ~Abandon(t)
  <2>1. [flow[t] EXCEPT !.pc = "reviewing"] \in Flow
    BY <1>0, AwaitNames DEF Flow
  <2>2. [flow[t] EXCEPT !.pc = "reviewing"].pc \notin ExecutePC
    BY <1>0 DEF Flow, ExecutePC
  <2>3. Launch(t, [flow[t] EXCEPT !.pc = "reviewing"])
    BY <1>12 DEF StartReview
  <2> QED
    BY <1>0, <2>1, <2>2, <2>3, LaunchGated
<1>13. CASE ReviewFenced(t)
  <2>1. \E f \in {NoFlow, Exit(flow[t])} :
              flow' = [flow EXCEPT ![t] = f] /\ UNCHANGED missionVars
    BY <1>13 DEF ReviewFenced, missionVars
  <2> QED
    BY <1>0, <1>2, <2>1, FlowTyped, PcOf, IdleIsNotExecuting
<1>14. CASE ReviewCompletes(t)
  <2>1. CASE Throw(t, flow[t]) /\ UNCHANGED missionVars
    BY <1>0, <2>1, ThrowGated DEF missionVars, CompletedStays
  <2>2. CASE Fail(t)
    BY <1>0, <2>2, FailGated
  <2>3. ASSUME NEW o \in IntegrateOutcomes(t[1], TRUE),
               Move(t, "approved", o, Parked(t, o.pc), WithRun(flow[t], "none"))
        PROVE  CompletedStays /\ EntersGated
    <3>1. o \in GatedOutcomes(t[1]) /\ o \in Outcomes /\ o.pc \in PC
      BY <1>0, OtherOutcomesGated DEF GatedOutcomes, Outcomes
    <3>2. /\ Parked(t, o.pc) \in Flow /\ Parked(t, o.pc).pc = o.pc
          /\ WithRun(flow[t], "none") \in Flow
      BY <1>0, <3>1, ParkedTyped, ParkedPc, FlowTyped, AwaitNames
    <3> QED
      BY <1>0, <2>3, <3>1, <3>2, MoveGated DEF GatedOutcomes
  <2> QED
    BY <1>14, <2>1, <2>2, <2>3 DEF ReviewCompletes
<1>15. CASE ReviewFails(t)
  <2>1. CASE Throw(t, flow[t]) /\ UNCHANGED missionVars
    BY <1>0, <2>1, ThrowGated DEF missionVars, CompletedStays
  <2>0. /\ Retried(flow[t], "rbackoff", "none") \in Flow
        /\ Retried(flow[t], "reviewing", "none") \in Flow
        /\ NoFlow \in Flow
        /\ Retried(flow[t], "rbackoff", "none").pc = "rbackoff"
        /\ Retried(flow[t], "reviewing", "none").pc = "reviewing"
        /\ NoFlow.pc = "idle"
        /\ {"rbackoff", "reviewing", "idle"} \cap ExecutePC = {}
    <3>1. {"rbackoff", "reviewing", "idle"} \cap ExecutePC = {}
      BY DEF ExecutePC
    <3>2. {"rbackoff", "reviewing"} \subseteq PC /\ "none" \in FlowRun
      BY AwaitNames
    <3>3. \A p \in {"rbackoff", "reviewing"} :
              Retried(flow[t], p, "none") \in Flow /\ Retried(flow[t], p, "none").pc = p
      BY <1>0, <3>2, NextAwaitTyped, PcOf
    <3> QED
      BY <3>1, <3>3, FlowTyped, PcOf
  <2>2. CASE \E f \in {Retried(flow[t], "rbackoff", "none"), NoFlow} :
              flow' = [flow EXCEPT ![t] = f] /\ UNCHANGED missionVars
    BY <1>2, <2>0, <2>2
  <2>4. CASE Launch(t, Retried(flow[t], "reviewing", "none"))
    BY <1>0, <2>0, <2>4, LaunchGated
  <2>3. CASE BlockReview(t)
    <3>1. Asking(t[1], "blocked", "review") \in Outcomes /\ NoFlow.pc \notin ExecutePC
      BY <1>0, AskingTyped, PcOf, IdleIsNotExecuting DEF MissionState, ApprovalKind
    <3>2. CASE state[t[1]] = "review_required"
      BY <1>0, <2>3, <3>1, <3>2, FlowTyped, MoveGated DEF BlockReview
    <3>3. CASE state[t[1]] # "review_required"
      BY <1>2, <2>3, <3>1, <3>3, FlowTyped DEF BlockReview
    <3> QED
      BY <3>2, <3>3
  <2> QED
    BY <1>15, <2>1, <2>2, <2>3, <2>4 DEF ReviewFails
<1>16. CASE CleanupOver(t) /\ ~Fenced(t)
  <2>1. Outcome(t[1], "completed", "idle") \in Outcomes /\ NoFlow.pc \notin ExecutePC
    BY <1>0, OutcomeTyped, AwaitNames, PcOf, IdleIsNotExecuting DEF MissionState
  <2> QED
    BY <1>0, <1>16, <2>1, FlowTyped, MoveGated DEF CleanupOver
<1>17. CASE CleanupOver(t) /\ Fenced(t)
  BY <1>1, <1>17 DEF CleanupOver
<1>18. CASE StreamThrows(t)
  BY <1>0, <1>18, ThrowGated DEF StreamThrows, missionVars, CompletedStays
<1> QED
  BY <1>1, <1>3, <1>4, <1>5, <1>6, <1>7, <1>8, <1>9, <1>10, <1>11, <1>12, <1>13,
     <1>14, <1>15, <1>16, <1>17, <1>18
  DEF Continue, WorktreePrepared, StartRun, ProviderCompletes, ProviderFails, BackoffOver,
      ChecksPass, ValidationFails, Published, PublicationFails, StartReview

\* Several missions at once: those of S are not completed and start at gated
\* outcomes; the other coroutines go on or end.
LEMMA SpawnAllGated ==
  ASSUME NEW S \in SUBSET Missions, NEW o,
         \A m \in S : state[m] # "completed" /\ o[m] \in GatedOutcomes(m),
         \A m \in Missions \ S : state[m] = "completed" => state'[m] = "completed",
         \A t \in Threads : \/ t[1] \in S /\ flow'[t].pc = o[t[1]].pc
                            \/ flow'[t].pc \in {flow[t].pc, "idle"}
  PROVE  CompletedStays /\ EntersGated
<1>1. CompletedStays
  BY DEF CompletedStays
<1>2. ASSUME NEW t \in Threads, flow'[t].pc \in ExecutePC
      PROVE  flow[t].pc \in ExecutePC \/ WorktreeAllowed(t[1])
  BY <1>2, IdleIsNotExecuting DEF GatedOutcomes
<1> QED
  BY <1>1, <1>2 DEF EntersGated

\* A step that moves runs and missions but no coroutine to another await.
LEMMA SamePcGated ==
  ASSUME CompletedStays, \A t \in Threads : flow'[t].pc \in {flow[t].pc, "idle"}
  PROVE  CompletedStays /\ EntersGated
  BY IdleIsNotExecuting DEF EntersGated

LEMMA TickGated ==
  ASSUME TypeOK, Tick
  PROVE  CompletedStays /\ EntersGated
<1>0. MissionsTyped /\ gen \in Nat
  BY TypeParts DEF TypeOK
<1>1. PICK S \in Selections :
          \E o \in [S -> UNION {ExecuteOutcomes(m, attempts[m], TRUE) : m \in S}] :
              /\ \A m \in S : o[m] \in ExecuteOutcomes(m, attempts[m], TRUE)
              /\ state' = [m \in Missions |-> IF m \in S THEN o[m].state
                                             ELSE IF m \in Promoted THEN "ready" ELSE state[m]]
              /\ flow' = [t \in Threads |-> IF t[1] \in S /\ t[2] = SlotFor(t[1])
                                            THEN Spawned(o[t[1]], TRUE) ELSE flow[t]]
  BY DEF Tick
<1>2. PICK o :
              /\ \A m \in S : o[m] \in ExecuteOutcomes(m, attempts[m], TRUE)
              /\ state' = [m \in Missions |-> IF m \in S THEN o[m].state
                                             ELSE IF m \in Promoted THEN "ready" ELSE state[m]]
              /\ flow' = [t \in Threads |-> IF t[1] \in S /\ t[2] = SlotFor(t[1])
                                            THEN Spawned(o[t[1]], TRUE) ELSE flow[t]]
  BY <1>1
<1>3. S \in SUBSET Missions /\ \A m \in S \cup Promoted : state[m] # "completed"
  BY DEF Selections, Ready, Promoted
<1>4. \A m \in S : o[m] \in GatedOutcomes(m)
  BY <1>0, <1>2, <1>3, ExecuteOutcomesGated DEF MissionsTyped
<1>5. \A m \in Missions \ S : state[m] = "completed" => state'[m] = "completed"
  BY <1>2, <1>3
<1>6. \A t \in Threads : \/ t[1] \in S /\ flow'[t].pc = o[t[1]].pc
                         \/ flow'[t].pc \in {flow[t].pc, "idle"}
  <2>1. \A m \in S : Spawned(o[m], TRUE).pc = o[m].pc
    BY <1>0, <1>2, <1>4, SpawnedPc DEF GatedOutcomes, TypeOK
  <2> QED
    BY <1>2, <2>1, PcOf
<1> QED
  <2>1. \A m \in S : state[m] # "completed" /\ o[m] \in GatedOutcomes(m)
    BY <1>3, <1>4
  <2> QED
    BY <1>3, <1>5, <1>6, <2>1, SpawnAllGated

LEMMA ResumeProjectGated ==
  ASSUME TypeOK, ResumeProject
  PROVE  CompletedStays /\ EntersGated
<1>0. gen \in Nat
  BY DEF TypeOK
<1> DEFINE S == {m \in Missions : state[m] = "paused"}
<1>1. PICK o \in [S -> UNION {ResumeOutcomes(m) : m \in S}] :
             /\ \A m \in S : o[m] \in ResumeOutcomes(m)
             /\ CommitAll(S, o)
             /\ flow' = [t \in Threads |-> IF t[1] \in S /\ t[2] = SlotFor(t[1])
                                           THEN Spawned(o[t[1]], FALSE) ELSE flow[t]]
  BY DEF ResumeProject
<1>2. \A m \in S : state[m] # "completed" /\ o[m] \in GatedOutcomes(m)
  BY <1>1, ResumeAndReconcileGated
<1>3. \A m \in Missions \ S : state[m] = "completed" => state'[m] = "completed"
  BY <1>1 DEF CommitAll
<1>4. \A t \in Threads : \/ t[1] \in S /\ flow'[t].pc = o[t[1]].pc
                         \/ flow'[t].pc \in {flow[t].pc, "idle"}
  <2> HIDE DEF S
  <2>1. \A m \in S : Spawned(o[m], FALSE).pc = o[m].pc
    BY <1>0, <1>2, SpawnedPc DEF GatedOutcomes
  <2> QED
    BY <1>1, <2>1, PcOf
<1> HIDE DEF S
<1>5. S \in SUBSET Missions
  BY DEF S
<1> QED
  BY <1>2, <1>3, <1>4, <1>5, SpawnAllGated

LEMMA RestartGated ==
  ASSUME TypeOK, Restart
  PROVE  CompletedStays /\ EntersGated
<1>0. gen \in Nat
  BY DEF TypeOK
<1> DEFINE S == {m \in Missions : ReconcileOutcomes(m) # {}}
           first == CHOOSE k \in Slots : TRUE
<1>1. PICK o \in [S -> UNION {ReconcileOutcomes(m) : m \in S}] :
             /\ \A m \in S : o[m] \in ReconcileOutcomes(m)
             /\ CommitAll(S, o)
             /\ flow' = [t \in Threads |-> IF t[1] \in S /\ t[2] = first
                                           THEN Spawned(o[t[1]], FALSE) ELSE NoFlow]
  BY DEF Restart
<1>2. \A m \in S : state[m] # "completed"
  BY DEF ReconcileOutcomes
<1>3. \A m \in S : state[m] # "completed" /\ o[m] \in GatedOutcomes(m)
  BY <1>1, <1>2, ResumeAndReconcileGated
<1>4. \A m \in Missions \ S : state[m] = "completed" => state'[m] = "completed"
  BY <1>1 DEF CommitAll
<1>5. \A t \in Threads : \/ t[1] \in S /\ flow'[t].pc = o[t[1]].pc
                         \/ flow'[t].pc \in {flow[t].pc, "idle"}
  <2> HIDE DEF S
  <2>1. \A m \in S : Spawned(o[m], FALSE).pc = o[m].pc
    BY <1>0, <1>3, SpawnedPc DEF GatedOutcomes
  <2> QED
    BY <1>1, <2>1, PcOf
<1> HIDE DEF S
<1>6. S \in SUBSET Missions
  BY DEF S
<1> QED
  BY <1>3, <1>4, <1>5, <1>6, SpawnAllGated

LEMMA ResolveGated ==
  ASSUME TypeOK, NEW m \in Missions, NEW kind \in ApprovalKind, NEW approved \in BOOLEAN,
         Resolve(m, kind, approved)
  PROVE  CompletedStays /\ EntersGated
<1> DEFINE open == status # "paused"
           slot == <<m, SlotFor(m)>>
<1>0. MissionsTyped /\ CallsTyped /\ gen \in Nat /\ open \in BOOLEAN
  BY TypeParts DEF OthersTyped
<1>1. CASE UNCHANGED <<state, flow>>
  BY <1>1 DEF CompletedStays, EntersGated
<1>2. ASSUME NEW o \in GatedOutcomes(m), state[m] # "completed",
             state' = [state EXCEPT ![m] = o.state],
             flow' = [flow EXCEPT ![slot] = Spawned(o, FALSE)]
      PROVE  CompletedStays /\ EntersGated
  <2>1. CompletedStays
    BY <1>0, <1>2 DEF CompletedStays, MissionsTyped
  <2>2. o \in Outcomes /\ (o.pc \in ExecutePC => WorktreeAllowed(m))
    BY DEF GatedOutcomes
  <2>3. Spawned(o, FALSE).pc = o.pc
    BY <1>0, <2>2, SpawnedPc
  <2>4. slot[1] = m
    OBVIOUS
  <2> HIDE DEF slot
  <2>5. \A t \in Threads : \/ flow'[t] = flow[t]
                           \/ t = slot /\ flow'[t] = Spawned(o, FALSE)
    BY <1>0, <1>2 DEF CallsTyped
  <2> QED
    BY <2>1, <2>2, <2>3, <2>4, <2>5 DEF EntersGated
<1>3. /\ ReviewOutcomes(m, open) \subseteq GatedOutcomes(m)
      /\ ExecuteOutcomes(m, 0, open) \subseteq GatedOutcomes(m)
      /\ IntegrateOutcomes(m, open) \subseteq GatedOutcomes(m)
  BY <1>0, OtherOutcomesGated, ExecuteOutcomesGated
<1>4. /\ Outcome(m, "ready", "idle") \in GatedOutcomes(m)
      /\ Outcome(m, "cancelled", "idle") \in GatedOutcomes(m)
  <2>1. /\ Outcome(m, "ready", "idle").pc = "idle"
        /\ Outcome(m, "cancelled", "idle").pc = "idle"
    BY DEF Outcome
  <2> QED
    BY <1>0, <2>1, OutcomeTyped, AwaitNames, IdleIsNotExecuting DEF GatedOutcomes, MissionState
<1>5. \/ UNCHANGED <<state, flow>>
      \/ \E o \in ReviewOutcomes(m, open) \cup ExecuteOutcomes(m, 0, open)
                \cup IntegrateOutcomes(m, open)
                \cup {Outcome(m, "ready", "idle"), Outcome(m, "cancelled", "idle")} :
            /\ state[m] # "completed"
            /\ state' = [state EXCEPT ![m] = o.state]
            /\ flow' = [flow EXCEPT ![slot] = Spawned(o, FALSE)]
  BY DEF Resolve
<1> HIDE DEF open, slot
<1> QED
  BY <1>1, <1>2, <1>3, <1>4, <1>5

LEMMA CallStepsGated ==
  ASSUME TypeOK
  PROVE  /\ PauseBegin => CompletedStays /\ EntersGated
         /\ \A m \in Missions, to \in UserTargets :
               UserTransition(m, to) => CompletedStays /\ EntersGated
         /\ \A m \in Missions : CancelBegin(m) => CompletedStays /\ EntersGated
         /\ \A t \in Threads : CancelContinues(t) => CompletedStays /\ EntersGated
         /\ \A t \in Threads : PauseCancelsRun(t) => CompletedStays /\ EntersGated
         /\ Crash => CompletedStays /\ EntersGated
<1>0. MissionsTyped /\ CallsTyped
  BY TypeParts
<1>1. \A t \in Threads, r \in FlowRun : WithRun(flow[t], r).pc = flow[t].pc
  BY <1>0, PcOf DEF CallsTyped
<1>2. \A m \in Missions : CancelState(m) => CompletedStays
  BY <1>0, CompletedIsTerminal DEF CancelState, CompletedStays, MissionsTyped
<1>3. (UNCHANGED state) => CompletedStays
  BY DEF CompletedStays
<1>4. (UNCHANGED flow) => \A t \in Threads : flow'[t].pc \in {flow[t].pc, "idle"}
  OBVIOUS
<1>5. ASSUME PauseBegin PROVE CompletedStays /\ EntersGated
  <2>1. CompletedStays
    BY <1>5 DEF PauseBegin, CompletedStays, MissionPauseable
  <2>2. \A t \in Threads : flow'[t].pc \in {flow[t].pc, "idle"}
    BY <1>1, <1>5, AwaitNames DEF PauseBegin
  <2> QED
    BY <2>1, <2>2, SamePcGated
<1>6. ASSUME NEW m \in Missions, NEW to \in UserTargets, UserTransition(m, to)
      PROVE  CompletedStays /\ EntersGated
  <2>1. CompletedStays
    BY <1>0, <1>6, CompletedIsTerminal DEF UserTransition, CompletedStays, MissionsTyped
  <2> QED
    BY <1>4, <1>6, <2>1, SamePcGated DEF UserTransition
<1>7. ASSUME NEW m \in Missions, CancelBegin(m) PROVE CompletedStays /\ EntersGated
  <2>1. CompletedStays
    BY <1>2, <1>3, <1>7 DEF CancelBegin
  <2>2. \A t \in Threads : flow'[t].pc \in {flow[t].pc, "idle"}
    <3>0. WithoutLeft(m) \in [Threads -> Flow] /\ \A t \in Threads : WithoutLeft(m)[t].pc = flow[t].pc
      BY <1>0, FlowTyped, PcOf, AwaitNames DEF CallsTyped, WithoutLeft
    <3>1. CASE flow' = WithoutLeft(m)
      BY <3>0, <3>1
    <3>2. ASSUME NEW u \in RunsOf(m), flow' = [WithoutLeft(m) EXCEPT ![u] = WithRun(@, "cancelling")]
          PROVE  \A t \in Threads : flow'[t].pc \in {flow[t].pc, "idle"}
      <4>1. u \in Threads /\ WithRun(WithoutLeft(m)[u], "cancelling").pc = WithoutLeft(m)[u].pc
        BY <3>0, PcOf, AwaitNames DEF RunsOf
      <4> QED
        BY <3>0, <3>2, <4>1
    <3> QED
      BY <1>7, <3>1, <3>2 DEF CancelBegin
  <2> QED
    BY <2>1, <2>2, SamePcGated
<1>8. ASSUME NEW t \in Threads, CancelContinues(t) PROVE CompletedStays /\ EntersGated
  <2> DEFINE m == t[1]
             mine == {u \in cancelTodo : u[1] = m}
             done == [flow EXCEPT ![t] = WithRun(@, "cancelled")]
  <2>1. CompletedStays
    <3>1. t[1] \in Missions /\ (UNCHANGED state \/ CancelState(t[1]))
      BY <1>8 DEF CancelContinues, Threads
    <3> QED
      BY <1>2, <1>3, <3>1
  <2>2. done \in [Threads -> Flow] /\ \A u \in Threads : done[u].pc \in {flow[u].pc, "idle"}
    BY <1>0, <1>1, FlowTyped, AwaitNames DEF CallsTyped
  <2>3. \/ UNCHANGED flow
        \/ flow' = done
        \/ \E u \in mine : flow' = [done EXCEPT ![u] = WithRun(@, "cancelling")]
    BY <1>8 DEF CancelContinues
  <2>4. mine \subseteq Threads
    BY <1>0 DEF CallsTyped
  <2> HIDE DEF done, mine
  <2>5. ASSUME NEW u \in mine, flow' = [done EXCEPT ![u] = WithRun(@, "cancelling")]
        PROVE  \A v \in Threads : flow'[v].pc \in {flow[v].pc, "idle"}
    <3>1. WithRun(done[u], "cancelling").pc = done[u].pc
      BY <2>2, <2>4, PcOf, AwaitNames
    <3> QED
      BY <2>2, <2>4, <2>5, <3>1
  <2>6. \A v \in Threads : flow'[v].pc \in {flow[v].pc, "idle"}
    BY <1>4, <2>2, <2>3, <2>5
  <2> QED
    BY <2>1, <2>6, SamePcGated
<1>9. ASSUME NEW t \in Threads, PauseCancelsRun(t) PROVE CompletedStays /\ EntersGated
  <2>1. \A u \in Threads : flow'[u].pc \in {flow[u].pc, "idle"}
    BY <1>0, <1>1, <1>9, AwaitNames DEF PauseCancelsRun, CallsTyped
  <2> QED
    BY <1>3, <1>9, <2>1, SamePcGated DEF PauseCancelsRun, missionVars
<1>10. ASSUME Crash PROVE CompletedStays /\ EntersGated
  <2>1. \A u \in Threads : flow'[u].pc \in {flow[u].pc, "idle"}
    BY <1>0, <1>10, PcOf DEF Crash, CallsTyped
  <2> QED
    BY <1>3, <1>10, <2>1, SamePcGated DEF Crash, missionVars
<1> QED
  BY <1>5, <1>6, <1>7, <1>8, <1>9, <1>10

LEMMA NextGated ==
  ASSUME TypeOK, [Next]_vars
  PROVE  CompletedStays /\ EntersGated
<1>1. CASE UNCHANGED vars
  BY <1>1 DEF vars, missionVars, CompletedStays, EntersGated
<1>2. ASSUME UserAction PROVE CompletedStays /\ EntersGated
  BY <1>2, ResumeProjectGated, ResolveGated, CallStepsGated DEF UserAction
<1> QED
  BY <1>1, <1>2, TickGated, ContinueGated, RestartGated, CallStepsGated DEF Next

\* Two agents never work on top of unfinished work: whichever of tick, resume,
\* approval, correction or restart starts the author of a mission, every mission
\* it depends on is completed then and as long as the author is at work.
THEOREM DependenciesFirst == Spec => []DependencyGate
<1>1. Init => DependencyGate
  BY PcOf, IdleIsNotExecuting DEF Init, DependencyGate
<1>2. ASSUME TypeOK, TypeOK', DependencyGate, [Next]_vars PROVE DependencyGate'
  <2>1. CompletedStays /\ EntersGated
    BY <1>2, NextGated
  <2>2. ASSUME HasRepository, NEW t \in Threads, flow'[t].pc \in ExecutePC
        PROVE  DependenciesCompleted(t[1])'
    <3>1. DependenciesCompleted(t[1])
      BY <1>2, <2>1, <2>2 DEF EntersGated, DependencyGate, WorktreeAllowed
    <3>2. t[1] \in Missions /\ Deps[t[1]] \subseteq Missions
      BY ConstantsAssumption DEF Threads
    <3> QED
      BY <2>1, <3>1, <3>2 DEF DependenciesCompleted, CompletedStays
  <2> QED
    BY <2>2 DEF DependencyGate
<1> QED
  BY <1>1, <1>2, TypeCorrect, PTL DEF Spec

-----------------------------------------------------------------------------
(***************************************************************************)
(* The pause fence.  A paused project fences every coroutine, and what     *)
(* users, cancellations and a restart do beside them starts no run.        *)
(***************************************************************************)

Frozen ==
    status = "paused" /\ status' = "paused" =>
        /\ \A t \in Threads : flow'[t].run = "running" => flow[t].run = "running"
        /\ UNCHANGED resultVars
        /\ \A m \in Missions : state[m] = "paused" =>
              state'[m] \in {"paused", "cancelled"} \cup UserTargets

\* Runs that end or are cancelled are not started.
LEMMA RunOf ==
  /\ NoFlow.run = "none"
  /\ \A f : Exit(f).run \in {"left", "cancelling", "none"}
  /\ \A f \in Flow, r \in FlowRun \ {"running"} :
        WithRun(f, r).run # "running" /\ (r # "left" => WithRun(f, r).run # "left")
  /\ \A o : Spawned(o, TRUE).run = "none" /\ Spawned(o, FALSE).run = "none"
<1>1. NoFlow.run = "none"
  BY DEF NoFlow
<1>2. \A f : Exit(f).run \in {"left", "cancelling", "none"}
  BY <1>1 DEF Exit, NoFlow
<1>3. ASSUME NEW f \in Flow, NEW r \in FlowRun \ {"running"}
      PROVE  WithRun(f, r).run # "running" /\ (r # "left" => WithRun(f, r).run # "left")
  <2>1. [f EXCEPT !.run = r].run = r
    BY DEF Flow
  <2>2. r # "left" => Exit([f EXCEPT !.run = r]).run # "left"
    BY <1>1, <2>1 DEF Exit, NoFlow
  <2> QED
    BY <1>2, <2>1, <2>2 DEF WithRun
<1>4. \A o : Spawned(o, TRUE).run = "none" /\ Spawned(o, FALSE).run = "none"
  BY DEF Spawned, NoFlow
<1> QED
  BY <1>1, <1>2, <1>3, <1>4

LEMMA ContinueFrozen ==
  ASSUME TypeOK, NEW t \in Threads, Continue(t)
  PROVE  Frozen
<1> SUFFICES ASSUME status = "paused" PROVE Frozen
  BY DEF Frozen
<1>0. CallsTyped /\ Fenced(t)
  BY TypeParts DEF Fenced, AcceptingWork
<1>1. CASE Abandon(t)
  <2>1. \A u \in Threads : flow'[u] = flow[u] \/ flow'[u] = Exit(flow[u])
    BY <1>0, <1>1 DEF Abandon, CallsTyped
  <2>2. \A u \in Threads : flow'[u].run = "running" => flow[u].run = "running"
    BY <2>1, RunOf
  <2> QED
    BY <1>1, <2>2 DEF Abandon, Frozen, missionVars
<1>2. CASE ReviewFenced(t)
  <2>1. \A u \in Threads : flow'[u] = flow[u] \/ flow'[u] \in {NoFlow, Exit(flow[u])}
    BY <1>0, <1>2 DEF ReviewFenced, CallsTyped
  <2>2. \A u \in Threads : flow'[u].run = "running" => flow[u].run = "running"
    BY <2>1, RunOf
  <2> QED
    BY <1>2, <2>2 DEF ReviewFenced, Frozen, missionVars
<1>3. CASE StreamThrows(t)
  <2>1. \A u \in Threads : \/ flow'[u] = flow[u]
                           \/ \E f : flow'[u] = Exit(f)
    BY <1>0, <1>3 DEF StreamThrows, Throw, CallsTyped
  <2>2. \A u \in Threads : flow'[u].run = "running" => flow[u].run = "running"
    BY <2>1, RunOf
  <2> QED
    BY <1>3, <2>2 DEF StreamThrows, Frozen, missionVars
<1> QED
  BY <1>0, <1>1, <1>2, <1>3
  DEF Continue, WorktreePrepared, StartRun, ProviderCompletes, ProviderFails, BackoffOver,
      ChecksPass, ValidationFails, Published, PublicationFails, StartReview, ReviewCompletes,
      ReviewFails, CleanupOver

LEMMA ResolveFrozen ==
  ASSUME TypeOK, NEW m \in Missions, NEW kind \in ApprovalKind, NEW approved \in BOOLEAN,
         Resolve(m, kind, approved)
  PROVE  Frozen
<1>0. MissionsTyped /\ CallsTyped /\ UNCHANGED resultVars
  BY TypeParts DEF Resolve
<1>1. \/ UNCHANGED <<state, flow>>
      \/ /\ state[m] # "paused"
         /\ \E o : /\ state' = [state EXCEPT ![m] = o.state]
                   /\ flow' = [flow EXCEPT ![<<m, SlotFor(m)>>] = Spawned(o, FALSE)]
  BY DEF Resolve
<1>2. CASE UNCHANGED <<state, flow>>
  BY <1>0, <1>2 DEF Frozen
<1>3. ASSUME NEW o, state[m] # "paused", state' = [state EXCEPT ![m] = o.state],
             flow' = [flow EXCEPT ![<<m, SlotFor(m)>>] = Spawned(o, FALSE)]
      PROVE  Frozen
  <2>1. \A t \in Threads : flow'[t] = flow[t] \/ flow'[t] = Spawned(o, FALSE)
    BY <1>0, <1>3 DEF CallsTyped
  <2>2. \A t \in Threads : flow'[t].run = "running" => flow[t].run = "running"
    BY <2>1, RunOf
  <2>3. \A n \in Missions : state[n] = "paused" => state'[n] = "paused"
    BY <1>0, <1>3 DEF MissionsTyped
  <2> QED
    BY <1>0, <2>2, <2>3 DEF Frozen
<1> QED
  BY <1>1, <1>2, <1>3

LEMMA RestartFrozen ==
  ASSUME TypeOK, Restart
  PROVE  Frozen
<1> DEFINE S == {m \in Missions : ReconcileOutcomes(m) # {}}
           first == CHOOSE k \in Slots : TRUE
<1>1. PICK o : /\ CommitAll(S, o)
               /\ flow' = [t \in Threads |-> IF t[1] \in S /\ t[2] = first
                                           THEN Spawned(o[t[1]], FALSE) ELSE NoFlow]
  BY DEF Restart
<1>2. \A m \in S : state[m] # "paused"
  BY DEF ReconcileOutcomes
<1>3. UNCHANGED resultVars
  BY DEF Restart
<1> HIDE DEF S, first
<1>4. \A t \in Threads : flow'[t].run = "none"
  BY <1>1, RunOf
<1>5. \A m \in Missions : state[m] = "paused" => state'[m] = "paused"
  BY <1>1, <1>2 DEF CommitAll
<1> QED
  BY <1>3, <1>4, <1>5 DEF Frozen

LEMMA CallsFrozen ==
  ASSUME TypeOK
  PROVE  /\ \A m \in Missions, to \in UserTargets : UserTransition(m, to) => Frozen
         /\ \A m \in Missions : CancelBegin(m) => Frozen
         /\ \A t \in Threads : CancelContinues(t) => Frozen
         /\ \A t \in Threads : PauseCancelsRun(t) => Frozen
         /\ Crash => Frozen
<1>0. MissionsTyped /\ CallsTyped
  BY TypeParts
<1>1. \A t \in Threads, r \in {"cancelling", "cancelled"} :
          WithRun(flow[t], r) \in Flow /\ WithRun(flow[t], r).run # "running"
  BY <1>0, RunOf, FlowTyped, AwaitNames DEF CallsTyped
<1>2. \A m \in Missions : CancelState(m) =>
          \A n \in Missions : state[n] = "paused" => state'[n] \in {"paused", "cancelled"}
  BY <1>0 DEF CancelState, MissionsTyped
<1>3. ASSUME NEW m \in Missions, NEW to \in UserTargets, UserTransition(m, to) PROVE Frozen
  BY <1>0, <1>3 DEF UserTransition, Frozen, MissionsTyped
<1>4. ASSUME NEW m \in Missions, CancelBegin(m) PROVE Frozen
  <2>1. UNCHANGED resultVars
    BY <1>4 DEF CancelBegin
  <2>0. /\ WithoutLeft(m) \in [Threads -> Flow]
        /\ \A u \in Threads : WithoutLeft(m)[u].run = "running" => flow[u].run = "running"
    BY <1>0, <1>1 DEF CallsTyped, WithoutLeft
  <2>2. \/ CancelState(m) /\ flow' = WithoutLeft(m)
        \/ /\ UNCHANGED state
           /\ \E t \in RunsOf(m) : flow' = [WithoutLeft(m) EXCEPT ![t] = WithRun(@, "cancelling")]
    BY <1>4 DEF CancelBegin
  <2>3. \A n \in Missions : state[n] = "paused" => state'[n] \in {"paused", "cancelled"}
    BY <1>2, <2>2
  <2>4. \A u \in Threads : flow'[u].run = "running" => flow[u].run = "running"
    BY <2>0, <2>2, RunOf, AwaitNames DEF RunsOf
  <2> QED
    BY <2>1, <2>3, <2>4 DEF Frozen
<1>5. ASSUME NEW t \in Threads, CancelContinues(t) PROVE Frozen
  <2> DEFINE done == [flow EXCEPT ![t] = WithRun(@, "cancelled")]
  <2>1. UNCHANGED resultVars /\ t[1] \in Missions
    BY <1>5 DEF CancelContinues, Threads
  <2>2. \/ UNCHANGED <<state, flow>>
        \/ flow' = done /\ (CancelState(t[1]) \/ UNCHANGED state)
        \/ /\ UNCHANGED state
           /\ \E u \in cancelTodo : flow' = [done EXCEPT ![u] = WithRun(@, "cancelling")]
    BY <1>5 DEF CancelContinues
  <2>3. \A n \in Missions : state[n] = "paused" => state'[n] \in {"paused", "cancelled"}
    BY <1>2, <2>1, <2>2
  <2>4. /\ done \in [Threads -> Flow]
        /\ \A u \in Threads : done[u].run = "running" => flow[u].run = "running"
    BY <1>0, <1>1 DEF CallsTyped
  <2> HIDE DEF done
  <2>5. ASSUME NEW u \in Threads, flow' = [done EXCEPT ![u] = WithRun(@, "cancelling")]
        PROVE  \A v \in Threads : flow'[v].run = "running" => flow[v].run = "running"
    <3>1. WithRun(done[u], "cancelling").run # "running"
      BY <2>4, RunOf, AwaitNames
    <3> QED
      BY <2>4, <2>5, <3>1
  <2>6. \A v \in Threads : flow'[v].run = "running" => flow[v].run = "running"
    BY <1>0, <2>2, <2>4, <2>5 DEF CallsTyped
  <2> QED
    BY <2>1, <2>3, <2>6 DEF Frozen
<1>6. ASSUME NEW t \in Threads, PauseCancelsRun(t) PROVE Frozen
  <2>1. \A u \in Threads : flow'[u] = flow[u] \/ flow'[u] = WithRun(flow[u], "cancelled")
    BY <1>0, <1>6 DEF PauseCancelsRun, CallsTyped
  <2>2. \A u \in Threads : flow'[u].run = "running" => flow[u].run = "running"
    BY <1>1, <2>1
  <2> QED
    BY <1>6, <2>2 DEF PauseCancelsRun, Frozen, missionVars
<1>7. ASSUME Crash PROVE Frozen
  <2>1. \A u \in Threads : flow'[u].run = "running" => flow[u].run = "running"
    BY <1>0, <1>7, RunOf DEF Crash, CallsTyped
  <2> QED
    BY <1>7, <2>1 DEF Crash, Frozen, missionVars
<1> QED
  BY <1>3, <1>4, <1>5, <1>6, <1>7

LEMMA NextFrozen ==
  ASSUME TypeOK, [Next]_vars
  PROVE  Frozen
<1>1. CASE UNCHANGED vars
  BY <1>1 DEF vars, missionVars, Frozen
<1>2. ASSUME Tick \/ PauseBegin \/ ResumeProject PROVE Frozen
  BY <1>2 DEF Tick, PauseBegin, ResumeProject, Frozen
<1> QED
  BY <1>1, <1>2, ContinueFrozen, ResolveFrozen, RestartFrozen, CallsFrozen DEF Next, UserAction

\* P-FENCE, for any missions, any coroutines and whatever users ask: while the
\* project is paused no run starts, no result is accepted and a suspended mission
\* stays so unless a user moves it (engine.ts, fencePausedWork; store.ts,
\* assertProjectAcceptingWork).
THEOREM PauseFreezes == Spec => PausedProjectIsFrozen
<1>1. TypeOK /\ [Next]_vars => [Frozen]_vars
  BY NextFrozen
<1>2. PausedProjectIsFrozen <=> [][Frozen]_vars
  BY DEF PausedProjectIsFrozen, Frozen
<1> QED
  BY <1>1, <1>2, TypeCorrect, PTL DEF Spec

-----------------------------------------------------------------------------
(***************************************************************************)
(* A continuation changes the record of its own coroutine only, unless it  *)
(* takes the process down with it.                                         *)
(***************************************************************************)

Alone(t) ==
    \/ up' /\ \A u \in Threads : u # t => flow'[u] = flow[u]
    \/ ~up' /\ \A u \in Threads : flow'[u].pc = "idle"

LEMMA ThrowAlone ==
  ASSUME CallsTyped, up, NEW t \in Threads, NEW f \in Flow, Throw(t, f)
  PROVE  Alone(t) /\ flow'[t].pc = "idle"
<1>1. CASE f.caught
  BY <1>1, PcOf DEF Throw, CallsTyped, Alone
<1>2. CASE ~f.caught
  <2>1. (\A u \in Threads : flow'[u] = Exit(IF u = t THEN f ELSE flow[u])) /\ ~up'
    BY <1>2 DEF Throw, LoseMemory
  <2> QED
    BY <2>1, PcOf DEF CallsTyped, Alone
<1> QED
  BY <1>1, <1>2

LEMMA MoveAlone ==
  ASSUME CallsTyped, up, NEW t \in Threads, NEW via, NEW o, NEW next, NEW f \in Flow,
         Move(t, via, o, next, f)
  PROVE  Alone(t)
  BY ThrowAlone DEF Move, CallsTyped, Alone

LEMMA FailAlone ==
  ASSUME CallsTyped, up, NEW t \in Threads, Fail(t)
  PROVE  Alone(t)
<1>1. flow[t] \in Flow /\ WithRun(flow[t], "none") \in Flow
  BY FlowTyped, AwaitNames DEF CallsTyped
<1> QED
  BY <1>1, ThrowAlone, MoveAlone DEF Fail

LEMMA LaunchAlone ==
  ASSUME CallsTyped, up, NEW t \in Threads, NEW f \in Flow, Launch(t, f)
  PROVE  Alone(t)
<1>1. [f EXCEPT !.run = "left"] \in Flow
  BY AwaitNames DEF Flow
<1> QED
  BY <1>1, ThrowAlone DEF Launch, CallsTyped, Alone

LEMMA ContinueAlone ==
  ASSUME TypeOK, NEW t \in Threads, Continue(t)
  PROVE  up /\ Alone(t)
<1>0. CallsTyped /\ flow[t] \in Flow /\ WithRun(flow[t], "none") \in Flow
  BY TypeParts, FlowTyped, AwaitNames DEF CallsTyped
<1>1. up
  BY DEF Continue, WorktreePrepared, StartRun, ProviderCompletes, ProviderFails, StreamThrows,
         BackoffOver, ChecksPass, ValidationFails, Published, PublicationFails, StartReview,
         ReviewFenced, ReviewCompletes, ReviewFails, CleanupOver, At
<1>2. ASSUME UNCHANGED up, \E f : flow' = [flow EXCEPT ![t] = f] PROVE Alone(t)
  BY <1>0, <1>1, <1>2 DEF CallsTyped, Alone
<1>3. /\ Abandon(t) => Alone(t)
      /\ Fail(t) => Alone(t)
      /\ Throw(t, flow[t]) => Alone(t)
  BY <1>0, <1>1, <1>2, FailAlone, ThrowAlone DEF Abandon, hostVars
<1>4. \A via, o, next : /\ Move(t, via, o, next, flow[t]) => Alone(t)
                        /\ Move(t, via, o, next, WithRun(flow[t], "none")) => Alone(t)
  BY <1>0, <1>1, MoveAlone
<1>5. CASE WorktreePrepared(t)
  BY <1>1, <1>3, <1>4, <1>5 DEF WorktreePrepared
<1>6. CASE StartRun(t)
  <2>1. [flow[t] EXCEPT !.pc = "provider"] \in Flow
    BY <1>0, AwaitNames DEF Flow
  <2> QED
    BY <1>0, <1>1, <1>3, <1>6, <2>1, LaunchAlone DEF StartRun
<1>7. CASE ProviderCompletes(t)
  BY <1>1, <1>3, <1>4, <1>7 DEF ProviderCompletes
<1>8. CASE ProviderFails(t)
  BY <1>1, <1>2, <1>3, <1>4, <1>8 DEF ProviderFails
<1>9. CASE BackoffOver(t)
  BY <1>1, <1>2, <1>3, <1>9 DEF BackoffOver, LoopHead, hostVars
<1>10. CASE ChecksPass(t)
  BY <1>1, <1>2, <1>3, <1>10 DEF ChecksPass, hostVars
<1>11. CASE ValidationFails(t)
  BY <1>1, <1>3, <1>4, <1>11 DEF ValidationFails
<1>12. CASE Published(t)
  BY <1>1, <1>3, <1>4, <1>12 DEF Published
<1>13. CASE PublicationFails(t)
  BY <1>1, <1>3, <1>4, <1>13 DEF PublicationFails
<1>14. CASE StartReview(t)
  <2>1. [flow[t] EXCEPT !.pc = "reviewing"] \in Flow
    BY <1>0, AwaitNames DEF Flow
  <2> QED
    BY <1>0, <1>1, <1>3, <1>14, <2>1, LaunchAlone DEF StartReview
<1>15. CASE ReviewFenced(t)
  BY <1>1, <1>2, <1>15 DEF ReviewFenced, hostVars
<1>16. CASE ReviewCompletes(t)
  BY <1>1, <1>3, <1>4, <1>16 DEF ReviewCompletes
<1>17. CASE ReviewFails(t)
  <2>1. Launch(t, Retried(flow[t], "reviewing", "none")) => Alone(t)
    BY <1>0, <1>1, LaunchAlone, NextAwaitTyped, AwaitNames
  <2> QED
    BY <1>1, <1>2, <1>3, <1>4, <1>17, <2>1 DEF ReviewFails, BlockReview
<1>18. CASE CleanupOver(t)
  BY <1>1, <1>3, <1>4, <1>18 DEF CleanupOver
<1>19. CASE StreamThrows(t)
  BY <1>1, <1>3, <1>19 DEF StreamThrows
<1> QED
  BY <1>1, <1>5, <1>6, <1>7, <1>8, <1>9, <1>10, <1>11, <1>12, <1>13, <1>14, <1>15, <1>16,
     <1>17, <1>18, <1>19 DEF Continue

\* What users, the pause and a crash do to the records of coroutines: none is
\* moved to another await.
SamePcs == \A t \in Threads : flow'[t].pc = flow[t].pc

\* A coroutine of an older generation is dropped.
Dropped ==
    \A t \in Threads :
        /\ up' /\ flow[t].pc # "idle" /\ flow[t].gen # gen
        /\ flow'[t].pc # flow[t].pc
        => flow'[t].pc = "idle" /\ UNCHANGED <<missionVars, resultVars>>

\* A process that is down runs no coroutine.
DownIsEmpty == ~up => \A t \in Threads : flow[t].pc = "idle"

LEMMA ContinueDrops ==
  ASSUME TypeOK, NEW t \in Threads, Continue(t)
  PROVE  Dropped
<1>1. up /\ Alone(t)
  BY ContinueAlone
<1>2. ASSUME flow[t].gen # gen
      PROVE  Abandon(t) \/ ReviewFenced(t) \/ StreamThrows(t)
  <2>1. Fenced(t)
    BY <1>2 DEF Fenced, AcceptingWork
  <2> QED
    BY <2>1 DEF Continue, WorktreePrepared, StartRun, ProviderCompletes, ProviderFails, BackoffOver,
      ChecksPass, ValidationFails, Published, PublicationFails, StartReview, ReviewCompletes,
      ReviewFails, CleanupOver
<1>3. Abandon(t) \/ ReviewFenced(t) => flow'[t].pc = "idle" /\ UNCHANGED <<missionVars, resultVars>>
  BY TypeParts, PcOf DEF Abandon, ReviewFenced, CallsTyped
<1>4. StreamThrows(t) => flow'[t].pc = "idle" /\ UNCHANGED <<missionVars, resultVars>>
  BY <1>1, TypeParts, ThrowAlone DEF StreamThrows, CallsTyped
<1> QED
  BY <1>1, <1>2, <1>3, <1>4 DEF Alone, Dropped

LEMMA CallPcs ==
  ASSUME TypeOK
  PROVE  /\ PauseBegin => SamePcs /\ UNCHANGED up
         /\ \A m \in Missions, to \in UserTargets : UserTransition(m, to) => SamePcs /\ UNCHANGED up
         /\ \A m \in Missions : CancelBegin(m) => SamePcs /\ UNCHANGED up
         /\ \A t \in Threads : CancelContinues(t) => SamePcs /\ UNCHANGED up
         /\ \A t \in Threads : PauseCancelsRun(t) => SamePcs /\ UNCHANGED up
<1>0. CallsTyped
  BY TypeParts
<1>1. \A t \in Threads, r \in FlowRun : WithRun(flow[t], r).pc = flow[t].pc
  BY <1>0, PcOf DEF CallsTyped
<1>2. ASSUME PauseBegin PROVE SamePcs /\ UNCHANGED up
  BY <1>1, <1>2, AwaitNames DEF PauseBegin, SamePcs, hostVars
<1>3. ASSUME NEW m \in Missions, NEW to \in UserTargets, UserTransition(m, to)
      PROVE  SamePcs /\ UNCHANGED up
  BY <1>3 DEF UserTransition, SamePcs, hostVars
<1>4. ASSUME NEW m \in Missions, CancelBegin(m) PROVE SamePcs /\ UNCHANGED up
  <2>1. UNCHANGED up
    BY <1>4 DEF CancelBegin, hostVars
  <2>2. /\ WithoutLeft(m) \in [Threads -> Flow]
        /\ \A t \in Threads : WithoutLeft(m)[t].pc = flow[t].pc
    BY <1>0, <1>1, FlowTyped, AwaitNames DEF CallsTyped, WithoutLeft
  <2>3. \/ flow' = WithoutLeft(m)
        \/ \E u \in RunsOf(m) : flow' = [WithoutLeft(m) EXCEPT ![u] = WithRun(@, "cancelling")]
    BY <1>4 DEF CancelBegin
  <2> QED
    BY <2>1, <2>2, <2>3, PcOf, AwaitNames DEF RunsOf, SamePcs
<1>5. ASSUME NEW t \in Threads, CancelContinues(t) PROVE SamePcs /\ UNCHANGED up
  <2> DEFINE done == [flow EXCEPT ![t] = WithRun(@, "cancelled")]
  <2>1. UNCHANGED up
    BY <1>5 DEF CancelContinues, hostVars
  <2>2. done \in [Threads -> Flow] /\ \A u \in Threads : done[u].pc = flow[u].pc
    BY <1>0, <1>1, FlowTyped, AwaitNames DEF CallsTyped
  <2>3. \/ UNCHANGED flow
        \/ flow' = done
        \/ \E u \in cancelTodo : flow' = [done EXCEPT ![u] = WithRun(@, "cancelling")]
    BY <1>5 DEF CancelContinues
  <2> HIDE DEF done
  <2>4. ASSUME NEW u \in cancelTodo, flow' = [done EXCEPT ![u] = WithRun(@, "cancelling")]
        PROVE  SamePcs
    <3>1. u \in Threads /\ WithRun(done[u], "cancelling").pc = done[u].pc
      BY <1>0, <2>2, PcOf, AwaitNames DEF CallsTyped
    <3> QED
      BY <2>2, <2>4, <3>1 DEF SamePcs
  <2> QED
    BY <2>1, <2>2, <2>3, <2>4 DEF SamePcs
<1>6. ASSUME NEW t \in Threads, PauseCancelsRun(t) PROVE SamePcs /\ UNCHANGED up
  BY <1>0, <1>1, <1>6, AwaitNames DEF PauseCancelsRun, CallsTyped, SamePcs, hostVars
<1> QED
  BY <1>2, <1>3, <1>4, <1>5, <1>6

\* A new coroutine starts in a slot that hosts none.
LEMMA SlotIsFree ==
  ASSUME NEW m \in Missions, FreeSlots(m) # {}
  PROVE  SlotFor(m) \in Slots /\ flow[<<m, SlotFor(m)>>] = NoFlow
  BY DEF SlotFor, FreeSlots

LEMMA StartsDrop ==
  ASSUME TypeOK
  PROVE  /\ Tick => Dropped /\ up'
         /\ ResumeProject => Dropped /\ up'
         /\ \A m \in Missions, kind \in ApprovalKind, approved \in BOOLEAN :
               Resolve(m, kind, approved) => Dropped /\ up'
<1>1. ASSUME Tick PROVE Dropped /\ up'
  <2>1. PICK S \in Selections :
            /\ \A m \in S : FreeSlots(m) # {}
            /\ \E o : flow' = [t \in Threads |-> IF t[1] \in S /\ t[2] = SlotFor(t[1])
                                                 THEN Spawned(o[t[1]], TRUE) ELSE flow[t]]
    BY <1>1 DEF Tick
  <2>2. S \subseteq Missions
    BY DEF Selections, Ready, Promoted
  <2>3. \A t \in Threads : flow'[t] = flow[t] \/ flow[t] = NoFlow
    <3>1. \A m \in S : flow[<<m, SlotFor(m)>>] = NoFlow
      BY <2>1, <2>2, SlotIsFree
    <3>2. \A t \in Threads : t[1] \in S /\ t[2] = SlotFor(t[1]) => flow[t] = NoFlow
      BY <3>1 DEF Threads
    <3> QED
      BY <2>1, <3>2
  <2> QED
    BY <1>1, <2>3, PcOf DEF Tick, Dropped, hostVars
<1>2. ASSUME ResumeProject PROVE Dropped /\ up'
  <2> DEFINE S == {m \in Missions : state[m] = "paused"}
  <2>1. /\ \A m \in S : FreeSlots(m) # {}
        /\ \E o : flow' = [t \in Threads |-> IF t[1] \in S /\ t[2] = SlotFor(t[1])
                                             THEN Spawned(o[t[1]], FALSE) ELSE flow[t]]
    BY <1>2 DEF ResumeProject
  <2>2. S \subseteq Missions
    OBVIOUS
  <2> HIDE DEF S
  <2>3. \A t \in Threads : flow'[t] = flow[t] \/ flow[t] = NoFlow
    <3>1. \A m \in S : flow[<<m, SlotFor(m)>>] = NoFlow
      BY <2>1, <2>2, SlotIsFree
    <3>2. \A t \in Threads : t[1] \in S /\ t[2] = SlotFor(t[1]) => flow[t] = NoFlow
      BY <3>1 DEF Threads
    <3> QED
      BY <2>1, <3>2
  <2> QED
    BY <1>2, <2>3, PcOf DEF ResumeProject, Dropped, hostVars
<1>3. ASSUME NEW m \in Missions, NEW kind \in ApprovalKind, NEW approved \in BOOLEAN,
             Resolve(m, kind, approved)
      PROVE  Dropped /\ up'
  <2>1. \/ UNCHANGED flow
        \/ /\ FreeSlots(m) # {}
           /\ \E f : flow' = [flow EXCEPT ![<<m, SlotFor(m)>>] = f]
    BY <1>3 DEF Resolve
  <2>2. \A t \in Threads : flow'[t] = flow[t] \/ flow[t] = NoFlow
    BY <2>1, SlotIsFree, TypeParts DEF Threads, CallsTyped
  <2> QED
    BY <1>3, <2>2, PcOf DEF Resolve, Dropped, hostVars
<1> QED
  BY <1>1, <1>2, <1>3

LEMMA NextDrops ==
  ASSUME TypeOK, DownIsEmpty, [Next]_vars
  PROVE  Dropped /\ DownIsEmpty'
<1>1. CASE UNCHANGED vars
  BY <1>1 DEF vars, hostVars, Dropped, DownIsEmpty
<1>2. ASSUME SamePcs, UNCHANGED up PROVE Dropped /\ DownIsEmpty'
  BY <1>2 DEF SamePcs, Dropped, DownIsEmpty
<1>3. ASSUME Dropped, up' PROVE Dropped /\ DownIsEmpty'
  BY <1>3 DEF DownIsEmpty
<1>4. ASSUME NEW t \in Threads, Continue(t) PROVE Dropped /\ DownIsEmpty'
  BY <1>4, ContinueAlone, ContinueDrops DEF Alone, DownIsEmpty
<1>5. ASSUME Crash PROVE Dropped /\ DownIsEmpty'
  <2>1. ~up' /\ \A t \in Threads : flow'[t].pc = "idle"
    BY <1>5, PcOf, TypeParts DEF Crash, LoseMemory, CallsTyped
  <2> QED
    BY <2>1 DEF Dropped, DownIsEmpty
<1>6. ASSUME Restart PROVE Dropped /\ DownIsEmpty'
  BY <1>6 DEF Restart, DownIsEmpty, Dropped
<1> QED
  BY <1>1, <1>2, <1>3, <1>4, <1>5, <1>6, CallPcs, StartsDrop DEF Next, UserAction

\* P-FENCE after a fast resume, for any missions and any number of pauses: a
\* coroutine that captured an older generation ends at its next step and touches
\* no mission and no result (engine.ts, fencePausedWork; store.ts,
\* assertProjectAcceptingWork).
THEOREM StaleWorkIsDropped == Spec => StaleContinuationsAreDropped
<1>1. Init => DownIsEmpty
  BY DEF Init, DownIsEmpty
<1>2. TypeOK /\ DownIsEmpty /\ [Next]_vars => DownIsEmpty' /\ [Dropped]_vars
  BY NextDrops
<1>3. StaleContinuationsAreDropped <=> [][Dropped]_vars
  BY DEF StaleContinuationsAreDropped, Dropped
<1> QED
  BY <1>1, <1>2, <1>3, TypeCorrect, PTL DEF Spec

-----------------------------------------------------------------------------
(* Who drives a mission, and on which result it goes on, as long as no user *)
(* moves a mission by hand (UserTargets = {}): POST                         *)
(* /missions/:id/transition obeys the table alone, and leaves coroutines    *)
(* and results as they are.  The inductive invariant.                       *)

\* The state of the mission a coroutine parked at p works on.
Home(p) ==
    CASE p = "worktree"                          -> "assigned"
      [] p \in {"models", "provider", "backoff"} -> "running"
      [] p \in ValidatePC                        -> "validating"
      [] p \in ReviewPC                          -> "review_required"
      [] OTHER                                   -> "integrated"

Homes == {"assigned", "running", "validating", "review_required", "integrated"}

\* A coroutine the fences let through.
Current(t) == flow[t].pc # "idle" /\ flow[t].gen = gen

\* The states that rest on a validated result.
Judged == {"review_required", "approved", "integrated", "completed"}

\* A mission has one current coroutine at most, which works on the mission as
\* it stands unless a user cancelled it.
ThreadsFit(m) ==
    /\ \A k \in Slots : flow[<<m, k>>].pc # "idle" =>
          up /\ flow[<<m, k>>].gen <= gen /\ (flow[<<m, k>>].pc \in ReviewPC => ~Supervised)
    /\ \A k \in Slots : Current(<<m, k>>) =>
          status # "paused" /\ state[m] \in {Home(flow[<<m, k>>].pc), "cancelled"}
    /\ \A j, k \in Slots : Current(<<m, j>>) /\ Current(<<m, k>>) => j = k

Asked(count) == count["retry"] + count["review"]

\* Unsupervised, a mission has one open question at most, asked where it is
\* blocked or failed (or was before a pause): an answer starts nothing twice.
QuestionsFit(m) ==
    ~Supervised =>
        /\ approvals[m]["human"] = 0
        /\ Asked(approvals[m]) <= 1
        /\ Asked(approvals[m]) > 0 => \/ state[m] \in {"blocked", "failed", "cancelled"}
                                      \/ state[m] = "paused" /\ pausedFrom[m] = "blocked"

\* The result under judgement was validated, also while a pause suspends the
\* mission or a missing reviewer blocks it.
ResultFits(m) ==
    /\ reviewBlocked[m] => state[m] = "blocked" /\ validated[m]
    /\ state[m] \in Judged => validated[m]
    /\ state[m] = "paused" /\ pausedFrom[m] \in Judged => validated[m]

MissionFits(m) == QuestionsFit(m) /\ ResultFits(m)

Fit == \A m \in Missions : ThreadsFit(m) /\ MissionFits(m)

-----------------------------------------------------------------------------
(* Outcomes *)

Judges(o) == o.state \in Judged \/ o.ask = "review"

Sound(o) ==
    /\ o \in Outcomes
    /\ o.state # "paused"
    /\ o.pc # "idle" => o.state = Home(o.pc)
    /\ o.pc \in ReviewPC => ~Supervised
    /\ ~Supervised => o.ask # "human"
    /\ o.ask \in {"retry", "review"} => o.state \in {"blocked", "failed"}
    /\ o.ask = "review" => o.state = "blocked"

\* What executing, correcting and validating end in.
Unjudged(o) == Sound(o) /\ ~Judges(o)

LEMMA HomeOf ==
  /\ Home("worktree") = "assigned"
  /\ Home("models") = "running" /\ Home("provider") = "running" /\ Home("backoff") = "running"
  /\ Home("checking") = "validating" /\ Home("publishing") = "validating"
  /\ Home("diff") = "review_required" /\ Home("reviewing") = "review_required"
  /\ Home("rbackoff") = "review_required"
  /\ Home("cleanup") = "integrated"
  BY DEF Home, ValidatePC, ReviewPC

LEMMA HomeIn == \A p \in PC \ {"idle"} : Home(p) \in Homes
  BY HomeOf, AwaitNames DEF Homes

LEMMA OutcomeFields ==
  ASSUME NEW m, NEW s, NEW p
  PROVE  /\ Outcome(m, s, p).state = s /\ Outcome(m, s, p).pc = p
         /\ Outcome(m, s, p).ask = "none"
  BY DEF Outcome

LEMMA AskingFields ==
  ASSUME NEW m, NEW s, NEW kind
  PROVE  /\ Asking(m, s, kind).state = s /\ Asking(m, s, kind).pc = "idle"
         /\ Asking(m, s, kind).ask = kind
  BY DEF Asking, Outcome

LEMMA OutcomeSound ==
  ASSUME MissionsTyped, NEW m \in Missions, NEW s \in MissionState \ {"paused"}, NEW p \in PC,
         p # "idle" => s = Home(p), p \in ReviewPC => ~Supervised
  PROVE  Sound(Outcome(m, s, p))
  BY OutcomeTyped, OutcomeFields DEF Sound

LEMMA AskingSound ==
  ASSUME MissionsTyped, NEW m \in Missions
  PROVE  /\ Unjudged(Asking(m, "blocked", "retry"))
         /\ Unjudged(Asking(m, "failed", "retry"))
         /\ Sound(Asking(m, "blocked", "review"))
         /\ Supervised => Sound(Asking(m, "review_required", "human"))
<1>1. /\ Asking(m, "blocked", "retry") \in Outcomes
      /\ Asking(m, "failed", "retry") \in Outcomes
      /\ Asking(m, "blocked", "review") \in Outcomes
      /\ Asking(m, "review_required", "human") \in Outcomes
  BY AskingTyped DEF MissionState, ApprovalKind
<1> QED
  BY <1>1, AskingFields DEF Sound, Unjudged, Judges, Judged, ReviewPC

LEMMA ExecuteSound ==
  ASSUME MissionsTyped, NEW m \in Missions, NEW a \in Nat, NEW open \in BOOLEAN,
         NEW o \in ExecuteOutcomes(m, a, open)
  PROVE  Unjudged(o) /\ (~open => o.pc = "idle")
<1>1. PICK q \in {Outcome(m, "assigned", "idle"), Outcome(m, "assigned", "worktree"),
                  Asking(m, "blocked", "retry")} :
          /\ o = [q EXCEPT !.attempts = a]
          /\ ~open => q = Outcome(m, "assigned", "idle")
  BY DEF ExecuteOutcomes
<1>2. Unjudged(q)
  <2>1. /\ Sound(Outcome(m, "assigned", "idle"))
        /\ Sound(Outcome(m, "assigned", "worktree"))
    BY OutcomeSound, HomeOf, AwaitNames DEF MissionState, ReviewPC
  <2> QED
    BY <1>1, <2>1, OutcomeFields, AskingSound DEF Unjudged, Judges, Judged
<1>3. q \in Outcomes
  BY <1>2 DEF Unjudged, Sound
<1>4. o \in Outcomes /\ o.state = q.state /\ o.pc = q.pc /\ o.ask = q.ask
  BY <1>1, <1>3 DEF Outcomes
<1> QED
  BY <1>1, <1>2, <1>4, OutcomeFields DEF Unjudged, Sound, Judges

LEMMA FailSound ==
  ASSUME MissionsTyped, NEW m \in Missions, NEW open \in BOOLEAN, NEW o \in FailOutcomes(m, open)
  PROVE  Unjudged(o) /\ (~open => o.pc = "idle")
<1>1. attempts[m] + 1 \in Nat
  BY DEF MissionsTyped
<1> QED
  BY <1>1, ExecuteSound, AskingSound, AskingFields DEF FailOutcomes

LEMMA ValidateSound ==
  ASSUME MissionsTyped, NEW m \in Missions, NEW hasRun \in BOOLEAN, NEW open \in BOOLEAN,
         NEW o \in ValidateOutcomes(m, hasRun, open)
  PROVE  Unjudged(o) /\ (~open => o.pc = "idle")
<1>1. /\ Unjudged(Outcome(m, "validating", "idle"))
      /\ Unjudged(Outcome(m, "validating", "checking"))
  BY OutcomeSound, OutcomeFields, HomeOf, AwaitNames
  DEF MissionState, ReviewPC, Unjudged, Judges, Judged
<1>2. /\ ~open => o = Outcome(m, "validating", "idle")
      /\ open /\ hasRun => o = Outcome(m, "validating", "checking")
      /\ open /\ ~hasRun => o \in FailOutcomes(m, open)
  BY DEF ValidateOutcomes
<1> QED
  BY <1>1, <1>2, FailSound, OutcomeFields

LEMMA ReviewSound ==
  ASSUME MissionsTyped, NEW m \in Missions, NEW open \in BOOLEAN, NEW o \in ReviewOutcomes(m, open)
  PROVE  Sound(o) /\ (~open => o.pc = "idle")
<1>1. /\ Sound(Outcome(m, "review_required", "idle"))
      /\ ~Supervised => Sound(Outcome(m, "review_required", "diff"))
  <2>1. "review_required" \in MissionState \ {"paused"} /\ "idle" \notin ReviewPC
    BY DEF MissionState, ReviewPC
  <2> QED
    BY <2>1, OutcomeSound, HomeOf, AwaitNames
<1>2. /\ ~open => o = Outcome(m, "review_required", "idle")
      /\ open /\ Supervised => o = Asking(m, "review_required", "human")
      /\ open /\ ~Supervised =>
            o \in {Outcome(m, "review_required", "diff"), Asking(m, "blocked", "review")}
  BY DEF ReviewOutcomes
<1> QED
  BY <1>1, <1>2, AskingSound, OutcomeFields

LEMMA IntegrateSound ==
  ASSUME MissionsTyped, NEW m \in Missions, NEW open \in BOOLEAN,
         NEW o \in IntegrateOutcomes(m, open)
  PROVE  Sound(o) /\ (~open => o.pc = "idle")
<1>1. /\ Sound(Outcome(m, "integrated", "cleanup"))
      /\ Sound(Outcome(m, "approved", "idle"))
  <2>1. /\ {"integrated", "approved"} \subseteq MissionState \ {"paused"}
        /\ "idle" \notin ReviewPC /\ "cleanup" \notin ReviewPC
    BY DEF MissionState, ReviewPC
  <2> QED
    BY <2>1, OutcomeSound, HomeOf, AwaitNames
<1>2. \/ open /\ o = Outcome(m, "integrated", "cleanup")
      \/ o = Outcome(m, "approved", "idle")
  BY DEF IntegrateOutcomes
<1> QED
  BY <1>1, <1>2, OutcomeFields

-----------------------------------------------------------------------------
(* One mission *)

LEMMA OpenApprovalCounts ==
  ASSUME NEW old \in [ApprovalKind -> Nat], NEW kind
  PROVE  \A j \in ApprovalKind :
            /\ OpenApproval(old, kind)[j] \in Nat
            /\ OpenApproval(old, kind)[j] <= old[j] + 1
            /\ j # kind => OpenApproval(old, kind)[j] = old[j]
  BY DEF OpenApproval

\* An outcome is committed to m, whose open approvals were `old`.
LEMMA MissionCommitted ==
  ASSUME NEW m \in Missions, NEW o, Sound(o), NEW old \in [ApprovalKind -> Nat],
         ~Supervised => /\ old["human"] = 0
                        /\ \/ Asked(old) = 0
                           \/ Asked(old) <= 1 /\ o.ask = "none" /\ o.state = "blocked",
         state'[m] = o.state, approvals'[m] = OpenApproval(old, o.ask),
         reviewBlocked'[m] = (o.ask = "review"), Judges(o) => validated'[m]
  PROVE  MissionFits(m)'
<1>1. ResultFits(m)'
  BY DEF ResultFits, Sound, Judges
<1>2. ASSUME ~Supervised
      PROVE  /\ approvals'[m]["human"] = 0
             /\ Asked(approvals'[m]) <= 1
             /\ Asked(approvals'[m]) > 0 => state'[m] \in {"blocked", "failed"}
  <2>1. o.ask \in {"none", "retry", "review"}
    BY <1>2 DEF Sound, Outcomes, ApprovalKind
  <2> DEFINE new == OpenApproval(old, o.ask)
  <2>2. /\ old["retry"] \in Nat /\ old["review"] \in Nat
        /\ new["human"] = old["human"]
        /\ new["retry"] \in Nat /\ new["retry"] <= old["retry"] + 1
        /\ new["review"] \in Nat /\ new["review"] <= old["review"] + 1
        /\ o.ask # "retry" => new["retry"] = old["retry"]
        /\ o.ask # "review" => new["review"] = old["review"]
    BY <2>1, OpenApprovalCounts DEF ApprovalKind
  <2>3. o.ask # "none" => o.state \in {"blocked", "failed"}
    BY <2>1 DEF Sound
  <2> HIDE DEF new
  <2>4. /\ new["human"] = 0
        /\ Asked(new) <= 1
        /\ Asked(new) > 0 => o.state \in {"blocked", "failed"}
    <3>1. CASE o.ask = "none"
      BY <1>2, <2>2, <3>1 DEF Asked
    <3>2. CASE o.ask = "retry"
      BY <1>2, <2>2, <2>3, <3>2 DEF Asked
    <3>3. CASE o.ask = "review"
      BY <1>2, <2>2, <2>3, <3>3 DEF Asked
    <3> QED
      BY <2>1, <3>1, <3>2, <3>3
  <2> QED
    BY <2>4 DEF new
<1> QED
  BY <1>1, <1>2 DEF MissionFits, QuestionsFit

LEMMA MissionKept ==
  ASSUME NEW m \in Missions, MissionFits(m), state'[m] = state[m], pausedFrom'[m] = pausedFrom[m],
         approvals'[m] = approvals[m], reviewBlocked'[m] = reviewBlocked[m],
         \/ validated[m] => validated'[m]
         \/ state[m] \in {"running", "cancelled"}
  PROVE  MissionFits(m)'
  BY DEF MissionFits, QuestionsFit, ResultFits, Judged

LEMMA MissionCancelled ==
  ASSUME NEW m \in Missions, MissionFits(m), state'[m] \in {state[m], "cancelled"},
         pausedFrom'[m] = pausedFrom[m], approvals'[m] = approvals[m],
         reviewBlocked'[m] = (reviewBlocked[m] /\ state'[m] = "blocked"),
         validated'[m] = validated[m]
  PROVE  MissionFits(m)'
  BY DEF MissionFits, QuestionsFit, ResultFits, Judged

\* A mission at work, or ready for it, has no open question.
LEMMA NothingAsked ==
  ASSUME MissionsTyped, NEW m \in Missions, MissionFits(m), ~Supervised,
         state[m] \notin {"blocked", "failed", "cancelled"},
         ~(state[m] = "paused" /\ pausedFrom[m] = "blocked")
  PROVE  approvals[m]["human"] = 0 /\ Asked(approvals[m]) = 0
<1>1. approvals[m]["retry"] \in Nat /\ approvals[m]["review"] \in Nat
  BY DEF MissionsTyped, ApprovalKind
<1> QED
  BY <1>1 DEF MissionFits, QuestionsFit, Asked

-----------------------------------------------------------------------------
(* The coroutines of one mission *)

\* No coroutine of m moves on; the mission stays, is cancelled, or had none.
LEMMA ThreadsKept ==
  ASSUME NEW m \in Missions, ThreadsFit(m), gen' = gen, status' = "paused" => status = "paused",
         \A k \in Slots : \/ flow'[<<m, k>>].pc = "idle"
                          \/ /\ up'
                             /\ flow'[<<m, k>>].pc = flow[<<m, k>>].pc
                             /\ flow'[<<m, k>>].gen = flow[<<m, k>>].gen,
         state'[m] \in {state[m], "cancelled"} \/ \A k \in Slots : ~Current(<<m, k>>)
  PROVE  ThreadsFit(m)'
<1>1. \A k \in Slots : Current(<<m, k>>)' => /\ Current(<<m, k>>)
                                             /\ flow'[<<m, k>>].pc = flow[<<m, k>>].pc
  BY DEF Current
<1> QED
  BY <1>1 DEF ThreadsFit

\* One coroutine of m, the only current one if there is any, goes on or starts.
LEMMA ThreadEntered ==
  ASSUME NEW m \in Missions, ThreadsFit(m), NEW k \in Slots, gen \in Nat, gen' = gen, up',
         \A j \in Slots : j # k =>
            /\ ~Current(<<m, j>>)
            /\ flow'[<<m, j>>].pc = flow[<<m, j>>].pc
            /\ flow'[<<m, j>>].gen = flow[<<m, j>>].gen,
         flow'[<<m, k>>].pc # "idle" =>
            /\ flow'[<<m, k>>].gen = gen /\ status' # "paused"
            /\ state'[m] \in {Home(flow'[<<m, k>>].pc), "cancelled"}
            /\ flow'[<<m, k>>].pc \in ReviewPC => ~Supervised
  PROVE  ThreadsFit(m)'
<1>1. \A j \in Slots : Current(<<m, j>>)' => j = k
  BY DEF Current
<1> QED
  BY <1>1 DEF ThreadsFit, Current

\* A mission nobody works on has no current coroutine.
LEMMA Unattended ==
  ASSUME TypeOK, NEW m \in Missions, ThreadsFit(m),
         \/ state[m] \notin Homes \cup {"cancelled"}
         \/ status = "paused"
         \/ ~up
         \/ state[m] = "review_required" /\ Supervised
  PROVE  \A k \in Slots : ~Current(<<m, k>>)
<1> SUFFICES ASSUME NEW k \in Slots, Current(<<m, k>>) PROVE FALSE
  OBVIOUS
<1>1. flow[<<m, k>>].pc \in PC \ {"idle"}
  BY DEF TypeOK, Threads, Flow, Current
<1>2. state[m] \in Homes \cup {"cancelled"} /\ status # "paused" /\ up
  BY <1>1, HomeIn DEF ThreadsFit, Current
<1>3. flow[<<m, k>>].pc \in ReviewPC => ~Supervised
  BY <1>1 DEF ThreadsFit
<1>4. state[m] = "review_required" => flow[<<m, k>>].pc \in ReviewPC
  BY <1>1, HomeOf, AwaitNames DEF ThreadsFit, ReviewPC
<1> QED
  BY <1>2, <1>3, <1>4
-----------------------------------------------------------------------------
(* What a continuation does *)

\* Coroutine t ends and leaves its mission as it is.
Ended(t) ==
    /\ flow'[t].pc = "idle"
    /\ UNCHANGED <<state, pausedFrom, reviewBlocked, approvals>>

\* It goes on to another await of the same work.
WentOn(t) ==
    /\ UNCHANGED <<state, pausedFrom, reviewBlocked, approvals>>
    /\ Home(flow'[t].pc) = Home(flow[t].pc) /\ flow'[t].gen = flow[t].gen
    /\ flow'[t].pc \in ReviewPC => flow[t].pc \in ReviewPC

\* It moves its mission on.
Moved(t) ==
    \E o : /\ Sound(o) /\ Commit(t[1], o)
           /\ state[t[1]] = Home(flow[t].pc)
           /\ flow'[t].pc = o.pc
           /\ o.pc # "idle" => flow'[t].gen = gen
           /\ Judges(o) => validated'[t[1]]

Stepped(t) == Ended(t) \/ WentOn(t) \/ Moved(t)

\* Results are only replaced by a run of the author, and validated in place.
ResultsOf(t) ==
    /\ \A n \in Missions : n # t[1] => validated'[n] = validated[n]
    /\ \/ validated[t[1]] => validated'[t[1]]
       \/ state[t[1]] \in {"running", "cancelled"}

LEMMA CancelledIsTerminal == \A to : ~CanTransitionMission("cancelled", to)
  BY DEF CanTransitionMission, MissionTransitions

LEMMA ThrowEnds ==
  ASSUME CallsTyped, up, NEW t \in Threads, NEW f \in Flow, Throw(t, f),
         UNCHANGED <<state, pausedFrom, reviewBlocked, approvals>>
  PROVE  Stepped(t)
  BY ThrowAlone DEF Stepped, Ended

LEMMA MoveSteps ==
  ASSUME CallsTyped, up, NEW t \in Threads, NEW via, NEW o, Sound(o), NEW next, NEW f \in Flow,
         Move(t, via, o, next, f),
         state[t[1]] \in {Home(flow[t].pc), "cancelled"},
         next.pc = o.pc, o.pc # "idle" => next.gen = gen,
         Judges(o) /\ CanTransitionMission(state[t[1]], via) => validated'[t[1]]
  PROVE  Stepped(t)
<1>1. CASE CanTransitionMission(state[t[1]], via)
  <2>1. Commit(t[1], o) /\ flow' = [flow EXCEPT ![t] = next]
    BY <1>1 DEF Move
  <2>2. state[t[1]] = Home(flow[t].pc)
    BY <1>1, CancelledIsTerminal
  <2>3. flow'[t] = next
    BY <2>1 DEF CallsTyped
  <2> QED
    BY <1>1, <2>1, <2>2, <2>3 DEF Stepped, Moved
<1>2. CASE ~CanTransitionMission(state[t[1]], via)
  <2>1. Throw(t, f) /\ UNCHANGED missionVars
    BY <1>2 DEF Move
  <2> QED
    BY <2>1, ThrowEnds DEF missionVars
<1> QED
  BY <1>1, <1>2

\* The record of a coroutine started, or parked at its next await.
LEMMA NextRecord ==
  ASSUME CallsTyped, gen \in Nat, NEW t \in Threads, NEW o \in Outcomes
  PROVE  /\ \A c \in BOOLEAN : /\ Spawned(o, c).pc = o.pc
                               /\ o.pc # "idle" => Spawned(o, c).gen = gen
         /\ Parked(t, o.pc).pc = o.pc
         /\ o.pc # "idle" => Parked(t, o.pc).gen = flow[t].gen
<1>1. o.pc \in PC /\ flow[t] \in Flow
  BY DEF Outcomes, CallsTyped
<1>2. ASSUME NEW c \in BOOLEAN, o.pc # "idle" PROVE Spawned(o, c).gen = gen
  BY <1>2 DEF Spawned, NoFlow
<1>3. ASSUME o.pc # "idle" PROVE Parked(t, o.pc).gen = flow[t].gen
  BY <1>1, <1>3 DEF Parked, Flow
<1> QED
  BY <1>1, <1>2, <1>3, SpawnedPc, ParkedPc

LEMMA FailSteps ==
  ASSUME MissionsTyped, CallsTyped, gen \in Nat, up, NEW t \in Threads, Fail(t),
         state[t[1]] \in {Home(flow[t].pc), "cancelled"}
  PROVE  Stepped(t)
<1> DEFINE m == t[1]
           via == IF MayCorrect(m) THEN "retrying" ELSE "failed"
<1>1. m \in Missions /\ flow[t] \in Flow /\ WithRun(flow[t], "none") \in Flow
  BY FlowTyped, AwaitNames DEF Threads, CallsTyped
<1>2. CASE CanTransitionMission(state[m], via)
  <2>1. PICK o \in FailOutcomes(m, TRUE) : Move(t, via, o, Spawned(o, FALSE), flow[t])
    BY <1>2 DEF Fail
  <2>2. Sound(o) /\ ~Judges(o) /\ o \in Outcomes
    BY <1>1, FailSound DEF Unjudged, Sound
  <2>3. Spawned(o, FALSE).pc = o.pc /\ (o.pc # "idle" => Spawned(o, FALSE).gen = gen)
    BY <2>2, NextRecord
  <2> QED
    BY <1>1, <2>1, <2>2, <2>3, MoveSteps
<1>3. CASE ~CanTransitionMission(state[m], via)
  <2>1. /\ Throw(t, WithRun(flow[t], "none"))
        /\ UNCHANGED <<state, pausedFrom, reviewBlocked, approvals>>
    BY <1>3 DEF Fail
  <2> QED
    BY <1>1, <2>1, ThrowEnds
<1> QED
  BY <1>2, <1>3

\* A continuation that is fenced or throws ends; nothing else happens.
LEMMA FencedEnds ==
  ASSUME TypeOK, NEW t \in Threads, Abandon(t) \/ ReviewFenced(t) \/ StreamThrows(t)
  PROVE  Ended(t) /\ Stepped(t) /\ ResultsOf(t) /\ UNCHANGED <<gen, status>>
<1>1. CASE Abandon(t) \/ ReviewFenced(t)
  BY <1>1, TypeParts, PcOf
  DEF Abandon, ReviewFenced, CallsTyped, Stepped, Ended, ResultsOf, projectVars, missionVars,
      resultVars
<1>2. CASE StreamThrows(t)
  <2>1. flow'[t].pc = "idle"
    BY <1>2, TypeParts, ThrowAlone DEF StreamThrows, At, CallsTyped
  <2> QED
    BY <1>2, <2>1 DEF StreamThrows, Stepped, Ended, ResultsOf, projectVars, missionVars, resultVars
<1> QED
  BY <1>1, <1>2

LEMMA ContinueFences ==
  ASSUME NEW t \in Threads, Continue(t), Fenced(t)
  PROVE  Abandon(t) \/ ReviewFenced(t) \/ StreamThrows(t)
  BY DEF Continue, WorktreePrepared, StartRun, ProviderCompletes, ProviderFails, BackoffOver,
      ChecksPass, ValidationFails, Published, PublicationFails, StartReview, ReviewCompletes,
      ReviewFails, CleanupOver

\* A launched run leaves its coroutine where it waits for it, or ends it.
LEMMA LaunchSteps ==
  ASSUME CallsTyped, up, NEW t \in Threads, NEW f \in Flow, Launch(t, f),
         Home(f.pc) = Home(flow[t].pc), f.gen = flow[t].gen,
         f.pc \in ReviewPC => flow[t].pc \in ReviewPC
  PROVE  Stepped(t)
<1>0. UNCHANGED <<state, pausedFrom, reviewBlocked, approvals>>
  BY DEF Launch, missionVars
<1>1. CASE flow' = [flow EXCEPT ![t] = [f EXCEPT !.run = "running"]]
  <2>1. flow'[t].pc = f.pc /\ flow'[t].gen = f.gen
    BY <1>1 DEF CallsTyped, Flow
  <2> QED
    BY <1>0, <2>1 DEF Stepped, WentOn
<1>2. CASE Throw(t, [f EXCEPT !.run = "left"])
  <2>1. [f EXCEPT !.run = "left"] \in Flow
    BY AwaitNames DEF Flow
  <2> QED
    BY <1>0, <1>2, <2>1, ThrowEnds
<1> QED
  BY <1>1, <1>2 DEF Launch

LEMMA ContinueSteps ==
  ASSUME TypeOK, Fit, NEW t \in Threads, Continue(t), ~Fenced(t)
  PROVE  Stepped(t) /\ ResultsOf(t) /\ gen' = gen /\ status' \in {status, "completed"}
<1> DEFINE m == t[1]
<1>0. /\ m \in Missions /\ flow[t] \in Flow /\ gen \in Nat /\ up
      /\ MissionsTyped /\ CallsTyped
      /\ WithRun(flow[t], "none") \in Flow
  BY TypeParts, ContinueAlone, FlowTyped, AwaitNames DEF Threads, TypeOK
<1>1. flow[t].gen = gen
  BY DEF Fenced, AcceptingWork
<1>2. ASSUME flow[t].pc # "idle" PROVE state[m] \in {Home(flow[t].pc), "cancelled"}
  <2>1. t = <<m, t[2]>> /\ t[2] \in Slots
    BY DEF Threads
  <2> QED
    BY <1>0, <1>1, <1>2, <2>1 DEF Fit, ThreadsFit, Current
\* A step that leaves the mission alone.
<1>3. ASSUME NEW f, flow' = [flow EXCEPT ![t] = f], UNCHANGED missionVars,
             \/ f.pc = "idle"
             \/ /\ Home(f.pc) = Home(flow[t].pc) /\ f.gen = flow[t].gen
                /\ f.pc \in ReviewPC => flow[t].pc \in ReviewPC
      PROVE  Stepped(t)
  <2>1. flow'[t] = f
    BY <1>0, <1>3 DEF CallsTyped
  <2> QED
    BY <1>3, <2>1 DEF missionVars, Stepped, Ended, WentOn
\* A move to an outcome, with the record that belongs to it.
<1>4. ASSUME flow[t].pc # "idle", NEW via, NEW o, Sound(o),
             NEW f \in {flow[t], WithRun(flow[t], "none")},
             NEW next, next = Parked(t, o.pc) \/ (o.pc = "idle" /\ next = NoFlow),
             Move(t, via, o, next, f),
             Judges(o) /\ CanTransitionMission(state[m], via) => validated'[m]
      PROVE  Stepped(t)
  <2>1. o \in Outcomes
    BY <1>4 DEF Sound
  <2>2. next.pc = o.pc /\ (o.pc # "idle" => next.gen = gen)
    BY <1>0, <1>1, <1>4, <2>1, NextRecord, PcOf
  <2> QED
    BY <1>0, <1>2, <1>4, <2>2, MoveSteps
<1>5. ASSUME flow[t].pc # "idle", Fail(t) PROVE Stepped(t)
  BY <1>0, <1>2, <1>5, FailSteps
<1>6. ASSUME UNCHANGED resultVars PROVE ResultsOf(t)
  BY <1>6 DEF resultVars, ResultsOf
<1>7. ASSUME UNCHANGED projectVars PROVE gen' = gen /\ status' \in {status, "completed"}
  BY <1>7 DEF projectVars
<1>8. CASE WorktreePrepared(t)
  <2>1. PICK o \in {Outcome(m, "running", "models"), Asking(m, "blocked", "retry")} :
              Move(t, o.state, o, Parked(t, o.pc), flow[t])
    BY <1>8 DEF WorktreePrepared
  <2>2. Sound(Outcome(m, "running", "models"))
    <3>1. "running" \in MissionState \ {"paused"} /\ "models" \notin ReviewPC
      BY DEF MissionState, ReviewPC
    <3> QED
      BY <1>0, <3>1, OutcomeSound, HomeOf, AwaitNames
  <2>3. Sound(o) /\ ~Judges(o)
    BY <1>0, <2>1, <2>2, OutcomeFields, AskingSound DEF Unjudged, Judges, Judged
  <2>4. flow[t].pc # "idle" /\ UNCHANGED <<projectVars, resultVars>>
    BY <1>8 DEF WorktreePrepared, At
  <2> QED
    BY <1>4, <1>6, <1>7, <2>1, <2>3, <2>4
<1>9. CASE StartRun(t)
  <2> DEFINE f == [flow[t] EXCEPT !.pc = "provider"]
  <2>1. f \in Flow /\ f.pc = "provider" /\ f.gen = flow[t].gen
    BY <1>0, AwaitNames DEF Flow
  <2>2. Launch(t, f) /\ flow[t].pc = "models"
    BY <1>9 DEF StartRun, At, Abandon, Fenced
  <2> HIDE DEF f
  <2>3. Stepped(t) /\ UNCHANGED <<projectVars, resultVars>>
    <3>1. "provider" \notin ReviewPC
      BY DEF ReviewPC
    <3> QED
      BY <1>0, <2>1, <2>2, <3>1, HomeOf, LaunchSteps DEF Launch
  <2> QED
    BY <1>6, <1>7, <2>3
<1>10. CASE ProviderCompletes(t) /\ flow[t].run = "running"
  <2>1. PICK o \in ValidateOutcomes(m, TRUE, TRUE) :
              Move(t, "result_submitted", o, Parked(t, o.pc), WithRun(flow[t], "none"))
    BY <1>10 DEF ProviderCompletes
  <2>2. Sound(o) /\ ~Judges(o)
    BY <1>0, ValidateSound DEF Unjudged
  <2>3. /\ flow[t].pc = "provider" /\ UNCHANGED projectVars
        /\ validated' = [validated EXCEPT ![m] = FALSE]
    BY <1>10 DEF ProviderCompletes, At
  <2>4. state[m] \in {"running", "cancelled"}
    BY <1>2, <2>3, HomeOf
  <2>5. ResultsOf(t)
    BY <2>3, <2>4 DEF ResultsOf, TypeOK
  <2> QED
    BY <1>4, <1>7, <2>1, <2>2, <2>3, <2>5
<1>11. CASE ProviderFails(t) /\ flow[t].run = "running"
  <2>0. flow[t].pc = "provider" /\ UNCHANGED <<projectVars, resultVars>>
    BY <1>11 DEF ProviderFails, At
  <2>1. \/ \E f \in {Retried(flow[t], "backoff", "none"), Retried(flow[t], "models", "none"), NoFlow} :
              flow' = [flow EXCEPT ![t] = f] /\ UNCHANGED missionVars
        \/ Move(t, "blocked", Asking(m, "blocked", "retry"), NoFlow, WithRun(flow[t], "none"))
    BY <1>11 DEF ProviderFails
  <2>2. ASSUME NEW p \in {"backoff", "models"}
        PROVE  Retried(flow[t], p, "none").pc = p /\ Retried(flow[t], p, "none").gen = flow[t].gen
    BY <1>0, PcOf, AwaitNames DEF Retried, Flow
  <2>3. /\ Sound(Asking(m, "blocked", "retry")) /\ ~Judges(Asking(m, "blocked", "retry"))
        /\ Asking(m, "blocked", "retry").pc = "idle"
    BY <1>0, AskingSound, AskingFields DEF Unjudged
  <2>4. "backoff" \notin ReviewPC /\ "models" \notin ReviewPC /\ NoFlow.pc = "idle"
    BY PcOf DEF ReviewPC
  <2>5. CASE \E f \in {Retried(flow[t], "backoff", "none"), Retried(flow[t], "models", "none"), NoFlow} :
              flow' = [flow EXCEPT ![t] = f] /\ UNCHANGED missionVars
    <3>1. PICK f \in {Retried(flow[t], "backoff", "none"), Retried(flow[t], "models", "none"), NoFlow} :
              flow' = [flow EXCEPT ![t] = f] /\ UNCHANGED missionVars
      BY <2>5
    <3>2. \/ f.pc = "idle"
          \/ f.pc \in {"backoff", "models"} /\ f.gen = flow[t].gen
      BY <2>2, <2>4
    <3>3. Stepped(t)
      BY <1>3, <2>0, <2>4, <3>1, <3>2, HomeOf
    <3> QED
      BY <1>6, <1>7, <2>0, <3>3
  <2>6. CASE Move(t, "blocked", Asking(m, "blocked", "retry"), NoFlow, WithRun(flow[t], "none"))
    BY <1>4, <1>6, <1>7, <2>0, <2>3, <2>6
  <2> QED
    BY <2>1, <2>5, <2>6
<1>12. CASE BackoffOver(t)
  <2>1. \E f \in {[flow[t] EXCEPT !.pc = "models", !.run = "none"], NoFlow} :
              flow' = [flow EXCEPT ![t] = f]
    BY <1>12 DEF BackoffOver, LoopHead
  <2>2. flow[t].pc = "backoff" /\ UNCHANGED <<projectVars, missionVars, resultVars>>
    BY <1>12 DEF BackoffOver, At
  <2> DEFINE f == [flow[t] EXCEPT !.pc = "models", !.run = "none"]
  <2>3. f.pc = "models" /\ f.gen = flow[t].gen
    BY <1>0 DEF Flow
  <2> HIDE DEF f
  <2>4. flow' = [flow EXCEPT ![t] = f] \/ flow' = [flow EXCEPT ![t] = NoFlow]
    BY <2>1 DEF f
  <2>5. "models" \notin ReviewPC /\ NoFlow.pc = "idle"
    BY PcOf DEF ReviewPC
  <2>6. Stepped(t)
    BY <1>3, <2>2, <2>3, <2>4, <2>5, HomeOf
  <2> QED
    BY <1>6, <1>7, <2>2, <2>6
<1>13. CASE ChecksPass(t)
  <2> DEFINE f == [flow[t] EXCEPT !.pc = "publishing"]
  <2>1. f.pc = "publishing" /\ f.gen = flow[t].gen
    BY <1>0 DEF Flow
  <2>2. /\ flow' = [flow EXCEPT ![t] = f] /\ UNCHANGED <<projectVars, missionVars, resultVars>>
        /\ flow[t].pc = "checking"
    BY <1>13 DEF ChecksPass, At
  <2> HIDE DEF f
  <2>3. "publishing" \notin ReviewPC
    BY DEF ReviewPC
  <2>4. Stepped(t)
    BY <1>3, <2>1, <2>2, <2>3, HomeOf
  <2> QED
    BY <1>6, <1>7, <2>2, <2>4
<1>14. CASE ValidationFails(t)
  BY <1>5, <1>6, <1>7, <1>14 DEF ValidationFails, At
<1>15. CASE Published(t)
  <2>1. PICK o \in ReviewOutcomes(m, TRUE) : Move(t, "review_required", o, Parked(t, o.pc), flow[t])
    BY <1>15 DEF Published
  <2>2. Sound(o)
    BY <1>0, ReviewSound
  <2>3. /\ flow[t].pc # "idle" /\ UNCHANGED projectVars
        /\ validated' = [validated EXCEPT ![m] =
                    @ \/ CanTransitionMission(state[m], "review_required")]
    BY <1>15 DEF Published, At
  <2>4. /\ validated'[m] <=> validated[m] \/ CanTransitionMission(state[m], "review_required")
        /\ \A n \in Missions \ {m} : validated'[n] = validated[n]
    BY <1>0, <2>3 DEF TypeOK
  <2>5. ResultsOf(t)
    BY <2>4 DEF ResultsOf
  <2> QED
    BY <1>4, <1>7, <2>1, <2>2, <2>3, <2>4, <2>5
<1>16. CASE PublicationFails(t)
  <2>1. flow[t].pc # "idle" /\ UNCHANGED <<projectVars, resultVars>>
    BY <1>16 DEF PublicationFails, At
  <2>2. /\ Sound(Asking(m, "blocked", "retry")) /\ ~Judges(Asking(m, "blocked", "retry"))
        /\ Asking(m, "blocked", "retry").pc = "idle"
    BY <1>0, AskingSound, AskingFields DEF Unjudged
  <2>3. Move(t, "blocked", Asking(m, "blocked", "retry"), NoFlow, flow[t]) \/ Fail(t)
    BY <1>16 DEF PublicationFails
  <2> QED
    BY <1>4, <1>5, <1>6, <1>7, <2>1, <2>2, <2>3
<1>17. CASE StartReview(t) /\ ~Abandon(t)
  <2> DEFINE f == [flow[t] EXCEPT !.pc = "reviewing"]
  <2>1. f \in Flow /\ f.pc = "reviewing" /\ f.gen = flow[t].gen
    BY <1>0, AwaitNames DEF Flow
  <2>2. Launch(t, f) /\ flow[t].pc \in {"diff", "rbackoff"}
    BY <1>17 DEF StartReview, At
  <2> HIDE DEF f
  <2>3. Stepped(t) /\ UNCHANGED <<projectVars, resultVars>>
    <3>1. {"diff", "rbackoff"} \subseteq ReviewPC
      BY DEF ReviewPC
    <3> QED
      BY <1>0, <2>1, <2>2, <3>1, HomeOf, LaunchSteps DEF Launch
  <2> QED
    BY <1>6, <1>7, <2>3
<1>18. CASE ReviewCompletes(t)
  <2>1. /\ flow[t].pc = "reviewing" /\ UNCHANGED <<projectVars, validated>>
    BY <1>18 DEF ReviewCompletes, At
  <2>2. ResultsOf(t) /\ gen' = gen /\ status' = status
    BY <2>1 DEF ResultsOf, projectVars
  <2>3. CASE Throw(t, flow[t]) /\ UNCHANGED missionVars
    BY <1>0, <2>2, <2>3, ThrowEnds DEF missionVars
  <2>4. CASE Fail(t)
    BY <1>5, <2>1, <2>2, <2>4
  <2>5. ASSUME NEW o \in IntegrateOutcomes(m, TRUE),
               Move(t, "approved", o, Parked(t, o.pc), WithRun(flow[t], "none"))
        PROVE  Stepped(t)
    <3>1. Sound(o)
      BY <1>0, IntegrateSound
    <3>2. CanTransitionMission(state[m], "approved") => validated[m]
      <4>1. state[m] \in {"review_required", "cancelled"}
        BY <1>2, <2>1, HomeOf
      <4> QED
        BY <1>0, <4>1, CancelledIsTerminal DEF Fit, MissionFits, ResultFits, Judged
    <3> QED
      BY <1>4, <2>1, <2>5, <3>1, <3>2
  <2> QED
    BY <1>18, <2>2, <2>3, <2>4, <2>5 DEF ReviewCompletes
<1>19. CASE ReviewFails(t)
  <2>1. /\ flow[t].pc = "reviewing" /\ UNCHANGED <<projectVars, resultVars>>
    BY <1>19 DEF ReviewFails, At
  <2>2. CASE Throw(t, flow[t]) /\ UNCHANGED missionVars
    BY <1>0, <1>6, <1>7, <2>1, <2>2, ThrowEnds DEF missionVars
  <2>0. /\ Retried(flow[t], "rbackoff", "none").pc = "rbackoff"
        /\ Retried(flow[t], "rbackoff", "none").gen = flow[t].gen
        /\ Retried(flow[t], "reviewing", "none").pc = "reviewing"
        /\ Retried(flow[t], "reviewing", "none").gen = flow[t].gen
        /\ NoFlow.pc = "idle"
    BY <1>0, PcOf, AwaitNames DEF Retried, Flow
  <2>r. {"rbackoff", "reviewing"} \subseteq ReviewPC
    BY DEF ReviewPC
  <2>3. CASE \E f \in {Retried(flow[t], "rbackoff", "none"), NoFlow} :
              flow' = [flow EXCEPT ![t] = f] /\ UNCHANGED missionVars
    <3>1. PICK f \in {Retried(flow[t], "rbackoff", "none"), NoFlow} :
              flow' = [flow EXCEPT ![t] = f] /\ UNCHANGED missionVars
      BY <2>3
    <3>2. f.pc = "idle" \/ (f.pc = "rbackoff" /\ f.gen = flow[t].gen)
      BY <2>0
    <3>3. Stepped(t)
      BY <1>3, <2>1, <2>r, <3>1, <3>2, HomeOf
    <3> QED
      BY <1>6, <1>7, <2>1, <3>3
  <2>5. CASE Launch(t, Retried(flow[t], "reviewing", "none"))
    <3>1. Retried(flow[t], "reviewing", "none") \in Flow
      BY <1>0, NextAwaitTyped, AwaitNames
    <3>2. Stepped(t)
      BY <1>0, <2>0, <2>1, <2>r, <2>5, <3>1, HomeOf, LaunchSteps
    <3> QED
      BY <1>6, <1>7, <2>1, <3>2
  <2>4. CASE BlockReview(t)
    <3>1. /\ Sound(Asking(m, "blocked", "review"))
          /\ Asking(m, "blocked", "review").pc = "idle" /\ NoFlow.pc = "idle"
      BY <1>0, AskingSound, AskingFields, PcOf
    <3>2. CASE state[m] = "review_required"
      <4>1. validated'[m]
        BY <1>0, <2>1, <3>2 DEF Fit, MissionFits, ResultFits, Judged, resultVars
      <4>2. Move(t, "blocked", Asking(m, "blocked", "review"), NoFlow, flow[t])
        BY <2>4, <3>2 DEF BlockReview
      <4> QED
        BY <1>4, <1>6, <1>7, <2>1, <3>1, <4>1, <4>2
    <3>3. CASE state[m] # "review_required"
      BY <1>3, <1>6, <1>7, <2>1, <2>4, <3>1, <3>3 DEF BlockReview
    <3> QED
      BY <3>2, <3>3
  <2> QED
    BY <1>19, <2>2, <2>3, <2>4, <2>5 DEF ReviewFails
<1>20. CASE CleanupOver(t)
  <2>1. /\ flow[t].pc = "cleanup" /\ UNCHANGED <<gen, resultVars>> /\ status' \in {status, "completed"}
        /\ Move(t, "completed", Outcome(m, "completed", "idle"), NoFlow, flow[t])
    BY <1>20 DEF CleanupOver, At
  <2>2. Sound(Outcome(m, "completed", "idle")) /\ Outcome(m, "completed", "idle").pc = "idle"
    <3>1. "completed" \in MissionState \ {"paused"} /\ "idle" \notin ReviewPC
      BY DEF MissionState, ReviewPC
    <3> QED
      BY <1>0, <3>1, OutcomeSound, OutcomeFields, AwaitNames
  <2>3. CanTransitionMission(state[m], "completed") => validated'[m]
    <3>1. state[m] \in {"integrated", "cancelled"}
      BY <1>2, <2>1, HomeOf
    <3> QED
      BY <1>0, <2>1, <3>1, CancelledIsTerminal DEF Fit, MissionFits, ResultFits, Judged, resultVars
  <2> QED
    BY <1>4, <1>6, <2>1, <2>2, <2>3
<1>21. CASE Abandon(t) \/ ReviewFenced(t) \/ StreamThrows(t)
  BY <1>21, FencedEnds
<1> QED
  BY <1>8, <1>9, <1>10, <1>11, <1>12, <1>13, <1>14, <1>15, <1>16, <1>17, <1>18, <1>19, <1>20, <1>21
  DEF Continue, ProviderCompletes, ProviderFails, StartReview
-----------------------------------------------------------------------------
(* Every step keeps the invariant *)

\* A mission that a step leaves alone, up to its coroutines, which stay or end.
LEMMA AloneFits ==
  ASSUME TypeOK, NEW t \in Threads, Alone(t), NEW n \in Missions, n # t[1],
         ThreadsFit(n), gen' = gen, status' = "paused" => status = "paused", state'[n] = state[n]
  PROVE  ThreadsFit(n)'
<1>1. \A k \in Slots : <<n, k>> \in Threads /\ <<n, k>> # t
  BY DEF Threads
<1>2. \A k \in Slots : \/ flow'[<<n, k>>].pc = "idle"
                       \/ /\ up'
                          /\ flow'[<<n, k>>].pc = flow[<<n, k>>].pc
                          /\ flow'[<<n, k>>].gen = flow[<<n, k>>].gen
  BY <1>1 DEF Alone
<1> QED
  BY <1>2, ThreadsKept

LEMMA ContinueFits ==
  ASSUME TypeOK, Fit, NEW t \in Threads, Continue(t)
  PROVE  Fit'
<1> DEFINE m == t[1]
           k == t[2]
<1>0. /\ m \in Missions /\ k \in Slots /\ t = <<m, k>>
      /\ up /\ Alone(t) /\ gen \in Nat
      /\ MissionsTyped /\ CallsTyped
      /\ ThreadsFit(m) /\ MissionFits(m)
  BY TypeParts, ContinueAlone DEF Threads, TypeOK, Fit
<1>1. /\ Stepped(t) /\ ResultsOf(t) /\ gen' = gen
      /\ status' = "paused" => status = "paused"
  <2>1. CASE Fenced(t)
    BY <2>1, ContinueFences, FencedEnds
  <2>2. CASE ~Fenced(t)
    BY <2>2, ContinueSteps
  <2> QED
    BY <2>1, <2>2
<1>2. CASE Ended(t) \/ WentOn(t)
  <2>1. \A n \in Missions : MissionFits(n)'
    <3>1. ASSUME NEW n \in Missions PROVE validated[n] => validated'[n] \/ state[n] \in {"running", "cancelled"}
      BY <1>1, <3>1 DEF ResultsOf
    <3> QED
      BY <1>2, <3>1, MissionKept DEF Fit, Ended, WentOn
  <2>2. \A n \in Missions \ {m} : ThreadsFit(n)'
    BY <1>0, <1>1, <1>2, AloneFits DEF Fit, Ended, WentOn
  <2>3. ThreadsFit(m)'
    <3>1. \A j \in Slots : j # k => <<m, j>> \in Threads /\ <<m, j>> # t
      BY <1>0 DEF Threads
    <3>2. CASE flow'[t].pc = "idle" \/ ~up'
      <4>1. \A j \in Slots : \/ flow'[<<m, j>>].pc = "idle"
                             \/ up' /\ flow'[<<m, j>>] = flow[<<m, j>>]
        BY <1>0, <3>1, <3>2 DEF Alone
      <4> QED
        BY <1>0, <1>1, <1>2, <4>1, ThreadsKept DEF Ended, WentOn
    <3>3. CASE flow'[t].pc # "idle" /\ up' /\ flow[t].pc # "idle" /\ WentOn(t)
      <4>1. \A j \in Slots : j # k => flow'[<<m, j>>] = flow[<<m, j>>]
        BY <1>0, <3>1, <3>3 DEF Alone
      <4>2. Current(t)' => Current(t)
        BY <1>1, <3>3 DEF Current, WentOn
      <4>3. \A j \in Slots : /\ Current(<<m, j>>)' => Current(<<m, j>>)
                             /\ Current(<<m, j>>)' => Home(flow'[<<m, j>>].pc) = Home(flow[<<m, j>>].pc)
        BY <1>0, <1>1, <3>3, <4>1, <4>2 DEF Current, WentOn
      <4>4. \A j \in Slots : flow'[<<m, j>>].pc # "idle" =>
                /\ flow[<<m, j>>].pc # "idle" /\ flow'[<<m, j>>].gen = flow[<<m, j>>].gen
                /\ flow'[<<m, j>>].pc \in ReviewPC => flow[<<m, j>>].pc \in ReviewPC
        BY <1>0, <3>3, <4>1 DEF WentOn
      <4>5. state'[m] = state[m]
        BY <3>3 DEF WentOn
      <4> QED
        BY <1>0, <1>1, <3>3, <4>3, <4>4, <4>5 DEF ThreadsFit
    <3>4. flow[t].pc # "idle"
      BY DEF Continue, WorktreePrepared, StartRun, ProviderCompletes, ProviderFails, StreamThrows,
             BackoffOver, ChecksPass, ValidationFails, Published, PublicationFails, StartReview,
             ReviewFenced, ReviewCompletes, ReviewFails, CleanupOver, At
    <3> QED
      BY <1>2, <3>2, <3>3, <3>4 DEF Ended
  <2> QED
    BY <2>1, <2>2, <2>3 DEF Fit
<1>3. CASE Moved(t) /\ Current(t)
  <2>1. PICK o : /\ Sound(o) /\ Commit(m, o)
                 /\ state[m] = Home(flow[t].pc)
                 /\ flow'[t].pc = o.pc
                 /\ o.pc # "idle" => flow'[t].gen = gen
                 /\ Judges(o) => validated'[m]
    BY <1>3 DEF Moved
  <2>2. /\ state'[m] = o.state /\ approvals'[m] = OpenApproval(approvals[m], o.ask)
        /\ reviewBlocked'[m] = (o.ask = "review")
        /\ \A n \in Missions \ {m} : /\ state'[n] = state[n] /\ approvals'[n] = approvals[n]
                                     /\ reviewBlocked'[n] = reviewBlocked[n]
        /\ UNCHANGED pausedFrom
    BY <1>0, <2>1 DEF Commit, MissionsTyped
  <2>3. MissionFits(m)'
    <3>1. state[m] \in Homes
      BY <1>0, <1>3, <2>1, HomeIn DEF Current, CallsTyped, Flow
    <3>2. approvals[m] \in [ApprovalKind -> Nat]
      BY <1>0 DEF MissionsTyped
    <3>3. ~Supervised => approvals[m]["human"] = 0 /\ Asked(approvals[m]) = 0
      BY <1>0, <3>1, NothingAsked DEF Homes
    <3> QED
      BY <1>0, <2>1, <2>2, <3>2, <3>3, MissionCommitted
  <2>4. \A n \in Missions \ {m} : MissionFits(n)'
    <3>1. \A n \in Missions \ {m} : validated'[n] = validated[n]
      BY <1>1 DEF ResultsOf
    <3> QED
      BY <2>2, <3>1, MissionKept DEF Fit
  <2>5. \A n \in Missions \ {m} : ThreadsFit(n)'
    BY <1>0, <1>1, <2>2, AloneFits DEF Fit
  <2>6. ThreadsFit(m)'
    <3>1. \A j \in Slots : j # k => <<m, j>> \in Threads /\ <<m, j>> # t
      BY <1>0 DEF Threads
    <3>2. CASE ~up'
      <4>1. \A j \in Slots : flow'[<<m, j>>].pc = "idle"
        BY <1>0, <3>2 DEF Alone, Threads
      <4> QED
        BY <4>1 DEF ThreadsFit, Current
    <3>3. CASE up'
      <4>1. \A j \in Slots : j # k => flow'[<<m, j>>] = flow[<<m, j>>] /\ ~Current(<<m, j>>)
        BY <1>0, <1>3, <3>1, <3>3 DEF Alone, ThreadsFit
      <4>2. flow'[<<m, k>>].pc # "idle" =>
                /\ flow'[<<m, k>>].gen = gen
                /\ state'[m] = Home(flow'[<<m, k>>].pc)
                /\ flow'[<<m, k>>].pc \in ReviewPC => ~Supervised
        BY <1>0, <2>1, <2>2 DEF Sound
      <4>3. status' # "paused"
        BY <1>0, <1>1, <1>3 DEF ThreadsFit
      <4> QED
        BY <1>0, <1>1, <3>3, <4>1, <4>2, <4>3, ThreadEntered
    <3> QED
      BY <1>0, <3>2, <3>3
  <2> QED
    BY <2>3, <2>4, <2>5, <2>6 DEF Fit
<1>4. CASE Moved(t) /\ ~Current(t)
  <2>1. CASE Fenced(t)
    <3>1. flow'[t].pc = "idle" /\ UNCHANGED <<state, pausedFrom, reviewBlocked, approvals>>
      BY <2>1, ContinueFences, FencedEnds DEF Ended
    <3> QED
      BY <1>2, <3>1 DEF Ended
  <2>2. CASE ~Fenced(t)
    <3>1. flow[t].gen = gen
      BY <2>2 DEF Fenced, AcceptingWork
    <3>2. flow[t].pc # "idle"
      BY DEF Continue, WorktreePrepared, StartRun, ProviderCompletes, ProviderFails, StreamThrows,
             BackoffOver, ChecksPass, ValidationFails, Published, PublicationFails, StartReview,
             ReviewFenced, ReviewCompletes, ReviewFails, CleanupOver, At
    <3> QED
      BY <1>4, <3>1, <3>2 DEF Current
  <2> QED
    BY <2>1, <2>2
<1> QED
  BY <1>1, <1>2, <1>3, <1>4 DEF Stepped
\* A coroutine is started for a mission that has no current one.
LEMMA SpawnFits ==
  ASSUME TypeOK, NEW m \in Missions, ThreadsFit(m), \A j \in Slots : ~Current(<<m, j>>),
         gen' = gen, up', NEW k \in Slots, NEW o, Sound(o), NEW c \in BOOLEAN,
         flow'[<<m, k>>] = Spawned(o, c),
         \A j \in Slots : j # k => flow'[<<m, j>>] = flow[<<m, j>>],
         state'[m] = o.state, o.pc # "idle" => status' # "paused"
  PROVE  ThreadsFit(m)'
<1>1. gen \in Nat /\ o \in Outcomes
  BY DEF TypeOK, Sound
<1>2. Spawned(o, c).pc = o.pc /\ (o.pc # "idle" => Spawned(o, c).gen = gen)
  BY <1>1, SpawnedPc DEF Spawned, NoFlow
<1> QED
  BY <1>1, <1>2, ThreadEntered DEF Sound

LEMMA TickFits ==
  ASSUME TypeOK, Fit, Tick
  PROVE  Fit'
<1>0. /\ MissionsTyped /\ gen \in Nat
      /\ UNCHANGED <<projectVars, pausedFrom, reviewBlocked, resultVars, hostVars>>
      /\ up /\ status = "active"
  BY TypeParts DEF Tick, TypeOK
<1>1. PICK S \in Selections :
          /\ \A m \in S : FreeSlots(m) # {}
          /\ \E o : /\ \A m \in S : o[m] \in ExecuteOutcomes(m, attempts[m], TRUE)
                    /\ state' = [m \in Missions |-> IF m \in S THEN o[m].state
                                             ELSE IF m \in Promoted THEN "ready" ELSE state[m]]
                    /\ approvals' = [m \in Missions |-> IF m \in S THEN OpenApproval(approvals[m], o[m].ask)
                                                 ELSE approvals[m]]
                    /\ flow' = [t \in Threads |-> IF t[1] \in S /\ t[2] = SlotFor(t[1])
                                            THEN Spawned(o[t[1]], TRUE) ELSE flow[t]]
  BY DEF Tick
<1>2. PICK o : /\ \A m \in S : o[m] \in ExecuteOutcomes(m, attempts[m], TRUE)
               /\ state' = [m \in Missions |-> IF m \in S THEN o[m].state
                                             ELSE IF m \in Promoted THEN "ready" ELSE state[m]]
               /\ approvals' = [m \in Missions |-> IF m \in S THEN OpenApproval(approvals[m], o[m].ask)
                                                 ELSE approvals[m]]
               /\ flow' = [t \in Threads |-> IF t[1] \in S /\ t[2] = SlotFor(t[1])
                                            THEN Spawned(o[t[1]], TRUE) ELSE flow[t]]
  BY <1>1
<1>3. /\ S \subseteq Missions
      /\ \A m \in S \cup Promoted : state[m] \in {"proposed", "ready"}
  BY DEF Selections, Ready, Promoted
<1>4. ASSUME NEW n \in Missions PROVE ThreadsFit(n)' /\ MissionFits(n)'
  <2>0. ThreadsFit(n) /\ MissionFits(n)
    BY DEF Fit
  <2>1. CASE n \in S
    <3>1. Unjudged(o[n])
      BY <1>0, <1>2, <2>1, ExecuteSound DEF MissionsTyped
    <3>2. state[n] \in {"proposed", "ready"} /\ reviewBlocked[n] = FALSE
      BY <1>0, <1>3, <2>0, <2>1 DEF MissionFits, ResultFits, MissionsTyped
    <3>3. MissionFits(n)'
      <4>1. ~Supervised => approvals[n]["human"] = 0 /\ Asked(approvals[n]) = 0
        BY <1>0, <2>0, <3>2, NothingAsked
      <4>2. state'[n] = o[n].state /\ approvals'[n] = OpenApproval(approvals[n], o[n].ask)
        BY <1>2, <2>1
      <4>3. reviewBlocked'[n] = (o[n].ask = "review")
        BY <1>0, <3>1, <3>2 DEF Unjudged, Judges
      <4>4. approvals[n] \in [ApprovalKind -> Nat]
        BY <1>0 DEF MissionsTyped
      <4> QED
        BY <3>1, <4>1, <4>2, <4>3, <4>4, MissionCommitted DEF Unjudged
    <3>4. ThreadsFit(n)'
      <4>1. \A j \in Slots : ~Current(<<n, j>>)
        BY <2>0, <3>2, Unattended DEF Homes
      <4>2. SlotFor(n) \in Slots
        BY <1>1, <2>1, SlotIsFree
      <4>3. \A j \in Slots : <<n, j>> \in Threads
        BY DEF Threads
      <4>4. /\ flow'[<<n, SlotFor(n)>>] = Spawned(o[n], TRUE)
            /\ \A j \in Slots : j # SlotFor(n) => flow'[<<n, j>>] = flow[<<n, j>>]
        BY <1>2, <2>1, <4>2, <4>3
      <4>5. state'[n] = o[n].state /\ gen' = gen /\ up' /\ status' # "paused"
        BY <1>0, <1>2, <2>1 DEF projectVars, hostVars
      <4> QED
        BY <2>0, <3>1, <4>1, <4>2, <4>4, <4>5, SpawnFits DEF Unjudged
    <3> QED
      BY <3>3, <3>4
  <2>2. CASE n \notin S
    <3>1. /\ state'[n] = IF n \in Promoted THEN "ready" ELSE state[n]
          /\ approvals'[n] = approvals[n] /\ validated'[n] = validated[n]
          /\ reviewBlocked'[n] = reviewBlocked[n] /\ pausedFrom'[n] = pausedFrom[n]
      BY <1>0, <1>2, <2>2 DEF resultVars
    <3>2. MissionFits(n)'
      <4>1. CASE n \in Promoted
        <5>1. state[n] \in {"proposed", "ready"}
          BY <1>3, <4>1
        <5>2. ~Supervised => approvals[n]["human"] = 0 /\ Asked(approvals[n]) = 0
          BY <1>0, <2>0, <5>1, NothingAsked
        <5> QED
          BY <2>0, <3>1, <4>1, <5>1, <5>2 DEF MissionFits, QuestionsFit, ResultFits, Judged
      <4>2. CASE n \notin Promoted
        BY <2>0, <3>1, <4>2, MissionKept
      <4> QED
        BY <4>1, <4>2
    <3>3. ThreadsFit(n)'
      <4>1. \A j \in Slots : flow'[<<n, j>>] = flow[<<n, j>>]
        BY <1>2, <2>2 DEF Threads
      <4>2. n \in Promoted => \A j \in Slots : ~Current(<<n, j>>)
        BY <1>3, <2>0, Unattended DEF Homes
      <4>3. gen' = gen /\ up' /\ status' = status
        BY <1>0 DEF projectVars, hostVars
      <4> QED
        BY <2>0, <3>1, <4>1, <4>2, <4>3, ThreadsKept
    <3> QED
      BY <3>2, <3>3
  <2> QED
    BY <2>1, <2>2
<1> QED
  BY <1>4 DEF Fit

\* Where resumeProject puts a paused mission.
LEMMA ResumeSound ==
  ASSUME TypeOK, Fit, NEW m \in Missions, state[m] = "paused", NEW o \in ResumeOutcomes(m)
  PROVE  /\ Sound(o)
         /\ Judges(o) => validated[m]
         /\ pausedFrom[m] = "blocked" => o.ask = "none" /\ o.state = "blocked"
<1>0. /\ MissionsTyped /\ pausedFrom[m] \in MissionPauseable \cup {"none"}
      /\ succeeded[m] \in BOOLEAN
      /\ pausedFrom[m] \in Judged => validated[m]
  BY TypeParts DEF TypeOK, Fit, MissionFits, ResultFits
<1> DEFINE to == ResumeTarget(m)
<1>1. /\ to \in {"proposed", "ready", "validating", "review_required", "approved", "integrated",
                 "blocked"}
      /\ to \in Judged => pausedFrom[m] = to
      /\ pausedFrom[m] = "blocked" <=> to = "blocked"
  BY <1>0 DEF ResumeTarget, ResumeMissionTarget, MissionPauseable, Judged
<1> HIDE DEF to
<1>2. CASE to = "validating"
  <2>1. o \in ValidateOutcomes(m, succeeded[m], TRUE)
    BY <1>2 DEF ResumeOutcomes, to
  <2> QED
    BY <1>0, <1>1, <1>2, <2>1, ValidateSound DEF Unjudged
<1>3. CASE to = "review_required"
  <2>1. o \in ReviewOutcomes(m, TRUE)
    BY <1>3 DEF ResumeOutcomes, to
  <2> QED
    BY <1>0, <1>1, <1>3, <2>1, ReviewSound DEF Judged
<1>4. CASE to = "approved"
  <2>1. o \in IntegrateOutcomes(m, TRUE)
    BY <1>4 DEF ResumeOutcomes, to
  <2> QED
    BY <1>0, <1>1, <1>4, <2>1, IntegrateSound DEF Judged
<1>5. CASE to \in {"proposed", "ready", "integrated", "blocked"}
  <2>1. o = Outcome(m, to, "idle")
    BY <1>5 DEF ResumeOutcomes, to
  <2>2. to \in MissionState \ {"paused"} /\ "idle" \notin ReviewPC
    BY <1>5 DEF MissionState, ReviewPC
  <2>3. Sound(o)
    BY <1>0, <2>1, <2>2, OutcomeSound, AwaitNames
  <2> QED
    BY <1>0, <1>1, <2>1, <2>3, OutcomeFields DEF Judges
<1> QED
  BY <1>1, <1>2, <1>3, <1>4, <1>5

LEMMA ResumeProjectFits ==
  ASSUME TypeOK, Fit, ResumeProject
  PROVE  Fit'
<1>0. /\ MissionsTyped /\ gen \in Nat
      /\ UNCHANGED <<gen, resultVars, hostVars>>
      /\ up /\ status = "paused" /\ status' = "active"
      /\ pausedFrom' = [m \in Missions |-> IF m \in {n \in Missions : state[n] = "paused"}
                                           THEN "none" ELSE pausedFrom[m]]
  BY TypeParts DEF ResumeProject, TypeOK
<1> DEFINE S == {m \in Missions : state[m] = "paused"}
<1>1. PICK o : /\ \A m \in S : o[m] \in ResumeOutcomes(m)
               /\ CommitAll(S, o)
               /\ \A m \in S : FreeSlots(m) # {}
               /\ flow' = [t \in Threads |-> IF t[1] \in S /\ t[2] = SlotFor(t[1])
                                           THEN Spawned(o[t[1]], FALSE) ELSE flow[t]]
  BY DEF ResumeProject
<1>2. ASSUME NEW n \in Missions PROVE ThreadsFit(n)' /\ MissionFits(n)'
  <2>0. ThreadsFit(n) /\ MissionFits(n)
    BY DEF Fit
  <2>1. \A j \in Slots : ~Current(<<n, j>>) /\ <<n, j>> \in Threads
    BY <1>0, <2>0, Unattended DEF Threads
  <2>2. gen' = gen /\ up' /\ status' # "paused" /\ validated'[n] = validated[n]
    BY <1>0 DEF hostVars, resultVars
  <2>3. CASE state[n] = "paused"
    <3>0. n \in S
      BY <2>3
    <3>1. /\ Sound(o[n])
          /\ Judges(o[n]) => validated[n]
          /\ pausedFrom[n] = "blocked" => o[n].ask = "none" /\ o[n].state = "blocked"
      BY <1>1, <2>3, <3>0, ResumeSound
    <3> HIDE DEF S
    <3>2. /\ state'[n] = o[n].state /\ approvals'[n] = OpenApproval(approvals[n], o[n].ask)
          /\ reviewBlocked'[n] = (o[n].ask = "review")
      BY <1>1, <3>0 DEF CommitAll
    <3>3. MissionFits(n)'
      <4>1. approvals[n] \in [ApprovalKind -> Nat]
        BY <1>0 DEF MissionsTyped
      <4>2. ~Supervised =>
                /\ approvals[n]["human"] = 0
                /\ \/ Asked(approvals[n]) = 0
                   \/ Asked(approvals[n]) <= 1 /\ o[n].ask = "none" /\ o[n].state = "blocked"
        <5>1. CASE pausedFrom[n] = "blocked"
          BY <2>0, <3>1, <5>1 DEF MissionFits, QuestionsFit
        <5>2. CASE pausedFrom[n] # "blocked"
          BY <1>0, <2>0, <2>3, <5>2, NothingAsked
        <5> QED
          BY <5>1, <5>2
      <4> QED
        BY <2>2, <3>1, <3>2, <4>1, <4>2, MissionCommitted
    <3>4. ThreadsFit(n)'
      <4>1. SlotFor(n) \in Slots
        BY <1>1, <3>0, SlotIsFree
      <4>2. /\ flow'[<<n, SlotFor(n)>>] = Spawned(o[n], FALSE)
            /\ \A j \in Slots : j # SlotFor(n) => flow'[<<n, j>>] = flow[<<n, j>>]
        BY <1>1, <2>1, <3>0, <4>1
      <4> QED
        BY <2>0, <2>1, <2>2, <3>1, <3>2, <4>1, <4>2, SpawnFits
    <3> QED
      BY <3>3, <3>4
  <2>4. CASE state[n] # "paused"
    <3>0. n \notin S
      BY <2>4
    <3> HIDE DEF S
    <3>1. /\ state'[n] = state[n] /\ approvals'[n] = approvals[n]
          /\ reviewBlocked'[n] = reviewBlocked[n]
      BY <1>1, <3>0 DEF CommitAll
    <3>2. pausedFrom'[n] = pausedFrom[n]
      BY <1>0, <2>4
    <3>3. \A j \in Slots : flow'[<<n, j>>] = flow[<<n, j>>]
      BY <1>1, <2>1, <3>0
    <3>4. MissionFits(n)'
      BY <2>0, <2>2, <3>1, <3>2, MissionKept
    <3> QED
      BY <2>0, <2>2, <3>1, <3>3, <3>4, ThreadsKept
  <2> QED
    BY <2>3, <2>4
<1> QED
  BY <1>2 DEF Fit
\* What reconcile does of a mission after a restart.
LEMMA ReconcileSound ==
  ASSUME TypeOK, Fit, NEW m \in Missions, NEW o \in ReconcileOutcomes(m)
  PROVE  /\ Sound(o)
         /\ Judges(o) => validated[m]
         /\ status = "paused" => o.pc = "idle"
         /\ state[m] \in {"running", "assigned", "validating", "review_required"}
<1> DEFINE open == status # "paused"
<1>0. MissionsTyped /\ succeeded[m] \in BOOLEAN /\ open \in BOOLEAN /\ MissionFits(m)
  BY TypeParts DEF TypeOK, Fit
<1>1. \/ state[m] = "running" /\ o \in FailOutcomes(m, open)
      \/ state[m] = "assigned" /\ o = Outcome(m, "ready", "idle")
      \/ state[m] = "validating" /\ o \in ValidateOutcomes(m, succeeded[m], open)
      \/ state[m] = "review_required" /\ o \in ReviewOutcomes(m, open)
  BY DEF ReconcileOutcomes
<1>2. state[m] = "review_required" => validated[m]
  BY <1>0 DEF MissionFits, ResultFits, Judged
<1>3. Unjudged(Outcome(m, "ready", "idle")) /\ Outcome(m, "ready", "idle").pc = "idle"
  <2>1. "ready" \in MissionState \ {"paused"} /\ "idle" \notin ReviewPC /\ "ready" \notin Judged
    BY DEF MissionState, ReviewPC, Judged
  <2> QED
    BY <1>0, <2>1, OutcomeSound, OutcomeFields, AwaitNames DEF Unjudged, Judges
<1> HIDE DEF open
<1>4. Sound(o) /\ (~open => o.pc = "idle") /\ (Judges(o) => validated[m])
  BY <1>0, <1>1, <1>2, <1>3, FailSound, ValidateSound, ReviewSound DEF Unjudged
<1> QED
  BY <1>1, <1>4 DEF open

LEMMA RestartFits ==
  ASSUME TypeOK, Fit, Restart
  PROVE  Fit'
<1> DEFINE S == {m \in Missions : ReconcileOutcomes(m) # {}}
           first == CHOOSE k \in Slots : TRUE
<1>0. /\ MissionsTyped /\ ~up /\ up' /\ first \in Slots
      /\ UNCHANGED <<status, gen, pausedFrom, validated>>
  BY TypeParts, ConstantsAssumption DEF Restart, projectVars, resultVars
<1>1. PICK o : /\ \A m \in S : o[m] \in ReconcileOutcomes(m)
               /\ CommitAll(S, o)
               /\ flow' = [t \in Threads |-> IF t[1] \in S /\ t[2] = first
                                           THEN Spawned(o[t[1]], FALSE) ELSE NoFlow]
  BY DEF Restart
<1>2. S \subseteq Missions
  OBVIOUS
<1> HIDE DEF S, first
<1>3. ASSUME NEW n \in Missions PROVE ThreadsFit(n)' /\ MissionFits(n)'
  <2>0. ThreadsFit(n) /\ MissionFits(n) /\ \A j \in Slots : <<n, j>> \in Threads
    BY DEF Fit, Threads
  <2>1. NoFlow.pc = "idle" /\ \A j \in Slots : ~Current(<<n, j>>)
    BY <1>0, <2>0, PcOf, Unattended
  <2>2. CASE n \in S
    <3>1. /\ Sound(o[n]) /\ (Judges(o[n]) => validated[n])
          /\ status = "paused" => o[n].pc = "idle"
          /\ state[n] \in {"running", "assigned", "validating", "review_required"}
      BY <1>1, <2>2, ReconcileSound
    <3>2. /\ state'[n] = o[n].state /\ approvals'[n] = OpenApproval(approvals[n], o[n].ask)
          /\ reviewBlocked'[n] = (o[n].ask = "review")
      BY <1>1, <2>2 DEF CommitAll
    <3>3. MissionFits(n)'
      <4>1. approvals[n] \in [ApprovalKind -> Nat]
        BY <1>0 DEF MissionsTyped
      <4>2. ~Supervised => approvals[n]["human"] = 0 /\ Asked(approvals[n]) = 0
        BY <1>0, <2>0, <3>1, NothingAsked
      <4> QED
        BY <1>0, <3>1, <3>2, <4>1, <4>2, MissionCommitted
    <3>4. ThreadsFit(n)'
      <4>1. /\ flow'[<<n, first>>] = Spawned(o[n], FALSE)
            /\ \A j \in Slots : j # first => flow'[<<n, j>>] = NoFlow
        BY <1>0, <1>1, <2>0, <2>2
      <4>2. /\ Spawned(o[n], FALSE).pc = o[n].pc
            /\ o[n].pc # "idle" => Spawned(o[n], FALSE).gen = gen
        <5>1. gen \in Nat /\ o[n] \in Outcomes
          BY <3>1 DEF TypeOK, Sound
        <5> QED
          BY <5>1, SpawnedPc DEF Spawned, NoFlow
      <4>3. \A j \in Slots : flow'[<<n, j>>].pc # "idle" =>
                /\ j = first /\ flow'[<<n, j>>].gen = gen /\ status # "paused"
                /\ state'[n] = Home(flow'[<<n, j>>].pc)
                /\ flow'[<<n, j>>].pc \in ReviewPC => ~Supervised
        BY <2>1, <3>1, <3>2, <4>1, <4>2 DEF Sound
      <4>4. gen \in Nat
        BY DEF TypeOK
      <4> QED
        BY <1>0, <4>3, <4>4 DEF ThreadsFit, Current
    <3> QED
      BY <3>3, <3>4
  <2>3. CASE n \notin S
    <3>1. /\ state'[n] = state[n] /\ approvals'[n] = approvals[n]
          /\ reviewBlocked'[n] = reviewBlocked[n]
      BY <1>1, <2>3 DEF CommitAll
    <3>2. \A j \in Slots : flow'[<<n, j>>].pc = "idle"
      BY <1>1, <2>0, <2>1, <2>3
    <3>3. MissionFits(n)'
      BY <1>0, <2>0, <3>1, MissionKept
    <3>4. ThreadsFit(n)'
      BY <1>0, <2>0, <3>1, <3>2, ThreadsKept
    <3> QED
      BY <3>3, <3>4
  <2> QED
    BY <2>2, <2>3
<1> QED
  BY <1>3 DEF Fit

\* The records of coroutines that get a run cancelled.
LEMMA RunCancelled ==
  ASSUME NEW f \in Flow, NEW r \in FlowRun
  PROVE  \/ WithRun(f, r).pc = "idle"
         \/ WithRun(f, r).pc = f.pc /\ WithRun(f, r).gen = f.gen
<1>1. CASE f.pc = "idle"
  BY <1>1, PcOf
<1>2. CASE f.pc # "idle"
  BY <1>2, PcOf DEF WithRun, Flow
<1> QED
  BY <1>1, <1>2

SameThreads ==
    \A t \in Threads : \/ flow'[t].pc = "idle"
                       \/ flow'[t].pc = flow[t].pc /\ flow'[t].gen = flow[t].gen

LEMMA PauseFits ==
  ASSUME TypeOK, Fit, PauseBegin
  PROVE  Fit'
<1> DEFINE cancelled == {t \in Threads : flow[t].run \in RunCancellableOnPause \cup {"left"}}
<1>0. /\ MissionsTyped /\ CallsTyped /\ gen \in Nat /\ gen' = gen + 1 /\ up'
      /\ state' = [m \in Missions |-> IF state[m] \in MissionPauseable THEN "paused" ELSE state[m]]
      /\ pausedFrom' = [m \in Missions |-> IF state[m] \in MissionPauseable THEN state[m]
                                             ELSE pausedFrom[m]]
      /\ reviewBlocked' = [m \in Missions |-> FALSE]
      /\ flow' = [t \in Threads |-> IF t \in cancelled THEN WithRun(flow[t], "cancelling")
                                                         ELSE flow[t]]
      /\ UNCHANGED <<approvals, validated>>
  BY TypeParts DEF PauseBegin, NextGeneration, hostVars, resultVars, TypeOK
<1> HIDE DEF cancelled
<1>1. SameThreads
  BY <1>0, RunCancelled, AwaitNames DEF SameThreads, CallsTyped
<1>2. ASSUME NEW n \in Missions PROVE ThreadsFit(n)' /\ MissionFits(n)'
  <2>0. /\ ThreadsFit(n) /\ MissionFits(n)
        /\ \A j \in Slots : <<n, j>> \in Threads /\ flow[<<n, j>>] \in Flow
    BY <1>0 DEF Fit, Threads, CallsTyped
  <2>1. ThreadsFit(n)'
    <3>1. \A j \in Slots : flow'[<<n, j>>].pc # "idle" =>
              /\ flow'[<<n, j>>].gen < gen + 1
              /\ flow'[<<n, j>>].pc \in ReviewPC => ~Supervised
      <4>1. \A j \in Slots : flow[<<n, j>>].gen \in Nat
        BY <2>0 DEF Flow
      <4>2. \A j \in Slots : flow'[<<n, j>>].pc # "idle" =>
                flow'[<<n, j>>].pc = flow[<<n, j>>].pc /\ flow'[<<n, j>>].gen = flow[<<n, j>>].gen
        BY <1>1, <2>0 DEF SameThreads
      <4> QED
        BY <1>0, <2>0, <4>1, <4>2 DEF ThreadsFit
    <3>2. \A j \in Slots : flow'[<<n, j>>].pc # "idle" =>
              flow'[<<n, j>>].gen <= gen' /\ flow'[<<n, j>>].gen # gen'
      <4>1. \A j \in Slots : flow'[<<n, j>>].pc # "idle" => flow'[<<n, j>>].gen \in Nat
        BY <1>1, <2>0 DEF SameThreads, Flow
      <4> QED
        BY <1>0, <3>1, <4>1
    <3> QED
      BY <1>0, <3>1, <3>2 DEF ThreadsFit, Current
  <2>2. MissionFits(n)'
    <3>1. /\ state[n] # "paused" => pausedFrom'[n] = state[n] \/ state'[n] # "paused"
          /\ state[n] = "paused" => pausedFrom'[n] = pausedFrom[n]
          /\ state'[n] \in {state[n], "paused"} /\ (state[n] = "blocked" => state'[n] = "paused")
          /\ approvals'[n] = approvals[n] /\ validated'[n] = validated[n] /\ ~reviewBlocked'[n]
      BY <1>0 DEF MissionPauseable
    <3>2. state[n] \in {"failed", "cancelled"} => state'[n] = state[n]
      BY <1>0 DEF MissionPauseable
    <3>3. QuestionsFit(n)'
      BY <2>0, <3>1, <3>2 DEF MissionFits, QuestionsFit
    <3>4. ResultFits(n)'
      BY <2>0, <3>1 DEF MissionFits, ResultFits, Judged
    <3> QED
      BY <3>3, <3>4 DEF MissionFits
  <2> QED
    BY <2>1, <2>2
<1> QED
  BY <1>2 DEF Fit

\* A cancel request, the end of a run cancelled by a pause, and a crash.
LEMMA CancelsFit ==
  ASSUME TypeOK, Fit, SameThreads, gen' = gen, status' = status,
         up' \/ \A t \in Threads : flow'[t].pc = "idle",
         UNCHANGED <<pausedFrom, approvals, validated>>,
         NEW m \in Missions,
         state' = state \/ state' = [state EXCEPT ![m] = "cancelled"],
         \/ UNCHANGED <<state, reviewBlocked>>
         \/ reviewBlocked' = [reviewBlocked EXCEPT ![m] = @ /\ state'[m] = "blocked"]
  PROVE  Fit'
<1> SUFFICES ASSUME NEW n \in Missions PROVE ThreadsFit(n)' /\ MissionFits(n)'
  BY DEF Fit
<1>0. ThreadsFit(n) /\ MissionFits(n) /\ MissionsTyped /\ \A j \in Slots : <<n, j>> \in Threads
  BY TypeParts DEF Fit, Threads
<1>1. /\ state'[n] \in {state[n], "cancelled"}
      /\ \/ state'[n] = state[n] /\ reviewBlocked'[n] = reviewBlocked[n]
         \/ reviewBlocked'[n] = (reviewBlocked[n] /\ state'[n] = "blocked")
  <2>1. state'[n] \in {state[n], "cancelled"}
    BY <1>0 DEF MissionsTyped
  <2>2. CASE UNCHANGED <<state, reviewBlocked>>
    BY <2>2
  <2>3. CASE reviewBlocked' = [reviewBlocked EXCEPT ![m] = @ /\ state'[m] = "blocked"]
    <3>1. CASE n = m
      BY <1>0, <2>1, <2>3, <3>1 DEF MissionsTyped
    <3>2. CASE n # m
      BY <1>0, <2>3, <3>2 DEF MissionsTyped
    <3> QED
      BY <3>1, <3>2
  <2> QED
    BY <2>1, <2>2, <2>3
<1>2. MissionFits(n)'
  BY <1>0, <1>1, MissionKept, MissionCancelled
<1>3. ThreadsFit(n)'
  BY <1>0, <1>1, ThreadsKept DEF SameThreads, ThreadsFit
<1> QED
  BY <1>2, <1>3
LEMMA CallsFit ==
  ASSUME TypeOK, Fit
  PROVE  /\ \A m \in Missions : CancelBegin(m) => Fit'
         /\ \A t \in Threads : CancelContinues(t) => Fit'
         /\ \A t \in Threads : PauseCancelsRun(t) => Fit'
         /\ Crash => Fit'
<1>0. MissionsTyped /\ CallsTyped
  BY TypeParts
<1>1. ASSUME NEW f \in [Threads -> Flow], NEW t \in Threads, NEW r \in {"cancelling", "cancelled"},
             NEW u \in Threads
      PROVE  LET g == [f EXCEPT ![t] = WithRun(@, r)]
             IN  g[u].pc = "idle" \/ (g[u].pc = f[u].pc /\ g[u].gen = f[u].gen)
  <2>1. WithRun(f[t], r).pc = "idle" \/ (WithRun(f[t], r).pc = f[t].pc /\ WithRun(f[t], r).gen = f[t].gen)
    <3>1. f[t] \in Flow /\ r \in FlowRun
      BY AwaitNames
    <3> QED
      BY <3>1, RunCancelled
  <2>2. CASE u = t
    BY <2>1, <2>2
  <2>3. CASE u # t
    BY <2>3
  <2> QED
    BY <2>2, <2>3
<1>2. ASSUME NEW m \in Missions, CancelBegin(m) PROVE Fit'
  <2>1. /\ up /\ UNCHANGED <<gen, status, up, pausedFrom, approvals, validated>>
        /\ reviewBlocked' = [reviewBlocked EXCEPT ![m] = @ /\ state'[m] = "blocked"]
    BY <1>2 DEF CancelBegin, projectVars, resultVars, hostVars
  <2>2. \/ CancelState(m) /\ flow' = WithoutLeft(m)
        \/ /\ UNCHANGED state
           /\ \E t \in RunsOf(m) : flow' = [WithoutLeft(m) EXCEPT ![t] = WithRun(@, "cancelling")]
    BY <1>2 DEF CancelBegin
  <2>3. state' = state \/ state' = [state EXCEPT ![m] = "cancelled"]
    BY <2>2 DEF CancelState
  <2>a. WithoutLeft(m) \in [Threads -> Flow]
    BY <1>0, FlowTyped, AwaitNames DEF CallsTyped, WithoutLeft
  <2>b. \A u \in Threads : \/ WithoutLeft(m)[u].pc = "idle"
                           \/ WithoutLeft(m)[u].pc = flow[u].pc /\ WithoutLeft(m)[u].gen = flow[u].gen
    <3>1. \A u \in Threads : WithoutLeft(m)[u] \in {flow[u], WithRun(flow[u], "cancelled")}
      BY DEF WithoutLeft
    <3>2. "cancelled" \in FlowRun /\ \A u \in Threads : flow[u] \in Flow
      BY <1>0, AwaitNames DEF CallsTyped
    <3>3. ASSUME NEW u \in Threads
          PROVE  \/ WithRun(flow[u], "cancelled").pc = "idle"
                 \/ /\ WithRun(flow[u], "cancelled").pc = flow[u].pc
                    /\ WithRun(flow[u], "cancelled").gen = flow[u].gen
      BY <3>2, RunCancelled
    <3>4. ASSUME NEW u \in Threads
          PROVE  \/ WithoutLeft(m)[u].pc = "idle"
                 \/ WithoutLeft(m)[u].pc = flow[u].pc /\ WithoutLeft(m)[u].gen = flow[u].gen
      <4>1. CASE WithoutLeft(m)[u] = flow[u]
        BY <4>1
      <4>2. CASE WithoutLeft(m)[u] = WithRun(flow[u], "cancelled")
        BY <3>3, <4>2
      <4> QED
        BY <3>1, <4>1, <4>2
    <3> QED
      BY <3>4
  <2>c. ASSUME NEW t \in RunsOf(m), flow' = [WithoutLeft(m) EXCEPT ![t] = WithRun(@, "cancelling")]
        PROVE  SameThreads
    <3>1. t \in Threads
      BY DEF RunsOf
    <3>2. \A u \in Threads : \/ flow'[u].pc = "idle"
                             \/ flow'[u].pc = WithoutLeft(m)[u].pc /\ flow'[u].gen = WithoutLeft(m)[u].gen
      <4>1. flow' = [WithoutLeft(m) EXCEPT ![t] = WithRun(WithoutLeft(m)[t], "cancelling")]
        BY <2>c
      <4>2. WithoutLeft(m)[t] \in Flow /\ "cancelling" \in FlowRun
        BY <2>a, <3>1, AwaitNames
      <4>3. \/ WithRun(WithoutLeft(m)[t], "cancelling").pc = "idle"
            \/ /\ WithRun(WithoutLeft(m)[t], "cancelling").pc = WithoutLeft(m)[t].pc
               /\ WithRun(WithoutLeft(m)[t], "cancelling").gen = WithoutLeft(m)[t].gen
        BY <4>2, RunCancelled
      <4>4. \A u \in Threads : flow'[u] = IF u = t THEN WithRun(WithoutLeft(m)[t], "cancelling")
                                                  ELSE WithoutLeft(m)[u]
        BY <2>a, <3>1, <4>1
      <4>5. ASSUME NEW u \in Threads
            PROVE  \/ flow'[u].pc = "idle"
                   \/ flow'[u].pc = WithoutLeft(m)[u].pc /\ flow'[u].gen = WithoutLeft(m)[u].gen
        BY <4>3, <4>4
      <4> QED
        BY <4>5
    <3> QED
      BY <2>b, <3>2 DEF SameThreads
  <2>4. SameThreads
    BY <2>2, <2>b, <2>c DEF SameThreads
  <2> QED
    BY <2>1, <2>3, <2>4, CancelsFit
<1>3. ASSUME NEW t \in Threads, CancelContinues(t) PROVE Fit'
  <2> DEFINE m == t[1]
             done == [flow EXCEPT ![t] = WithRun(@, "cancelled")]
  <2>1. /\ up /\ UNCHANGED <<gen, status, up, pausedFrom, approvals, validated>>
        /\ reviewBlocked' = [reviewBlocked EXCEPT ![m] = @ /\ state'[m] = "blocked"]
        /\ m \in Missions
    BY <1>3 DEF CancelContinues, projectVars, resultVars, hostVars, Threads
  <2>2. \/ UNCHANGED <<flow, state>>
        \/ flow' = done /\ (CancelState(m) \/ UNCHANGED state)
        \/ /\ UNCHANGED state
           /\ \E u \in cancelTodo : flow' = [done EXCEPT ![u] = WithRun(@, "cancelling")]
    BY <1>3 DEF CancelContinues
  <2>3. state' = state \/ state' = [state EXCEPT ![m] = "cancelled"]
    BY <2>2 DEF CancelState
  <2>4. /\ done \in [Threads -> Flow]
        /\ \A u \in Threads : done[u].pc = "idle" \/ (done[u].pc = flow[u].pc /\ done[u].gen = flow[u].gen)
    BY <1>0, <1>1, FlowTyped, AwaitNames DEF CallsTyped
  <2> HIDE DEF done, m
  <2>5. ASSUME NEW u \in cancelTodo, flow' = [done EXCEPT ![u] = WithRun(@, "cancelling")]
        PROVE  SameThreads
    <3>1. u \in Threads
      BY <1>0 DEF CallsTyped
    <3>2. ASSUME NEW v \in Threads
          PROVE  flow'[v].pc = "idle" \/ (flow'[v].pc = done[v].pc /\ flow'[v].gen = done[v].gen)
      BY <1>1, <2>4, <2>5, <3>1
    <3> QED
      BY <2>4, <3>2 DEF SameThreads
  <2>6. SameThreads
    BY <2>2, <2>4, <2>5 DEF SameThreads
  <2> QED
    BY <2>1, <2>3, <2>6, CancelsFit
<1>4. ASSUME NEW t \in Threads, PauseCancelsRun(t) PROVE Fit'
  <2>1. /\ up /\ UNCHANGED <<gen, status, up, pausedFrom, approvals, validated, state, reviewBlocked>>
        /\ t[1] \in Missions
    BY <1>4 DEF PauseCancelsRun, projectVars, missionVars, resultVars, hostVars, Threads
  <2>2. \A u \in Threads : flow'[u] = flow[u] \/ flow'[u] = WithRun(flow[u], "cancelled")
    BY <1>0, <1>4 DEF PauseCancelsRun, CallsTyped
  <2>3. SameThreads
    BY <1>0, <2>2, RunCancelled, AwaitNames DEF SameThreads, CallsTyped
  <2> QED
    BY <2>1, <2>3, CancelsFit
<1>5. ASSUME Crash PROVE Fit'
  <2>1. /\ UNCHANGED <<gen, status, pausedFrom, approvals, validated, state, reviewBlocked>>
        /\ \A u \in Threads : flow'[u].pc = "idle"
    BY <1>0, <1>5, PcOf DEF Crash, projectVars, missionVars, resultVars, CallsTyped
  <2>2. ASSUME NEW n \in Missions PROVE ThreadsFit(n)' /\ MissionFits(n)'
    <3>1. \A k \in Slots : flow'[<<n, k>>].pc = "idle"
      BY <2>1 DEF Threads
    <3> QED
      BY <2>1, <3>1, MissionKept DEF Fit, ThreadsFit, Current
  <2> QED
    BY <2>2 DEF Fit
<1> QED
  BY <1>2, <1>3, <1>4, <1>5

\* The outcomes an answer has.
Answers(m, approved, o) ==
    LET open == status # "paused"
    IN  \/ approved /\ state[m] = "blocked" /\ reviewBlocked[m] /\ o \in ReviewOutcomes(m, open)
        \/ approved /\ state[m] = "blocked" /\ o = Outcome(m, "ready", "idle")
        \/ approved /\ state[m] = "failed" /\ o \in ExecuteOutcomes(m, 0, open)
        \/ approved /\ state[m] = "review_required" /\ o \in IntegrateOutcomes(m, open)
        \/ ~approved /\ o = Outcome(m, "cancelled", "idle")

\* They are sound, rest on a validated result if on any, and are given while
\* nobody works on the mission, unless they only cancel it.
LEMMA AnswersSound ==
  ASSUME TypeOK, Fit, NEW m \in Missions, NEW kind \in ApprovalKind, NEW approved \in BOOLEAN,
         approvals[m][kind] > 0, NEW o, Answers(m, approved, o)
  PROVE  /\ Sound(o) /\ (Judges(o) => validated[m]) /\ (status = "paused" => o.pc = "idle")
         /\ (\A k \in Slots : ~Current(<<m, k>>)) \/ (o.state = "cancelled" /\ o.pc = "idle")
<1> DEFINE open == status # "paused"
<1>0. /\ MissionsTyped /\ open \in BOOLEAN /\ ThreadsFit(m) /\ MissionFits(m)
      /\ approvals[m][kind] \in Nat /\ approvals[m][kind] > 0
      /\ approvals[m] \in [ApprovalKind -> Nat] /\ (status = "paused") = ~open
  BY TypeParts DEF Fit, MissionsTyped
<1> HIDE DEF open
<1>1. /\ Unjudged(Outcome(m, "ready", "idle")) /\ Unjudged(Outcome(m, "cancelled", "idle"))
      /\ Outcome(m, "ready", "idle").pc = "idle"
      /\ Outcome(m, "cancelled", "idle").pc = "idle"
      /\ Outcome(m, "cancelled", "idle").state = "cancelled"
  <2>1. /\ {"ready", "cancelled"} \subseteq MissionState \ {"paused"}
        /\ "idle" \notin ReviewPC /\ {"ready", "cancelled"} \cap Judged = {}
    BY DEF MissionState, ReviewPC, Judged
  <2> QED
    BY <1>0, <2>1, OutcomeSound, OutcomeFields, AwaitNames DEF Unjudged, Judges
<1>2. /\ state[m] = "blocked" /\ reviewBlocked[m] => validated[m]
      /\ state[m] = "review_required" => validated[m]
  BY <1>0 DEF MissionFits, ResultFits, Judged
\* Unsupervised, nothing is asked of a mission under review.
<1>3. ASSUME state[m] = "review_required", ~Supervised PROVE FALSE
  <2>1. approvals[m]["human"] = 0 /\ Asked(approvals[m]) = 0
    BY <1>0, <1>3, NothingAsked
  <2>2. approvals[m]["retry"] \in Nat /\ approvals[m]["review"] \in Nat
    BY <1>0 DEF ApprovalKind
  <2> QED
    BY <1>0, <2>1, <2>2 DEF Asked, ApprovalKind
<1>4. state[m] \in {"blocked", "failed", "review_required"} => \A k \in Slots : ~Current(<<m, k>>)
  BY <1>0, <1>3, Unattended DEF Homes
<1>5. CASE state[m] = "blocked" /\ reviewBlocked[m] /\ o \in ReviewOutcomes(m, open)
  BY <1>0, <1>2, <1>4, <1>5, ReviewSound
<1>6. CASE state[m] = "failed" /\ o \in ExecuteOutcomes(m, 0, open)
  BY <1>0, <1>4, <1>6, ExecuteSound DEF Unjudged
<1>7. CASE state[m] = "review_required" /\ o \in IntegrateOutcomes(m, open)
  BY <1>0, <1>2, <1>4, <1>7, IntegrateSound
<1>8. CASE state[m] = "blocked" /\ o = Outcome(m, "ready", "idle")
  BY <1>1, <1>4, <1>8 DEF Unjudged
<1>9. CASE o = Outcome(m, "cancelled", "idle")
  BY <1>1, <1>9 DEF Unjudged
<1>10. \/ approved /\ state[m] = "blocked" /\ reviewBlocked[m] /\ o \in ReviewOutcomes(m, open)
       \/ approved /\ state[m] = "blocked" /\ o = Outcome(m, "ready", "idle")
       \/ approved /\ state[m] = "failed" /\ o \in ExecuteOutcomes(m, 0, open)
       \/ approved /\ state[m] = "review_required" /\ o \in IntegrateOutcomes(m, open)
       \/ ~approved /\ o = Outcome(m, "cancelled", "idle")
  BY DEF Answers, open
<1> QED
  BY <1>5, <1>6, <1>7, <1>8, <1>9, <1>10

\* How an answer moves its mission.
Answering(m, rest, o) ==
    /\ FreeSlots(m) # {}
    /\ state' = [state EXCEPT ![m] = o.state]
    /\ approvals' = [approvals EXCEPT ![m] = OpenApproval(rest, o.ask)]
    /\ reviewBlocked' = [reviewBlocked EXCEPT ![m] = (o.ask = "review")]
    /\ flow' = [flow EXCEPT ![<<m, SlotFor(m)>>] = Spawned(o, FALSE)]

\* What an answer does: it is spent, or moves its mission.
LEMMA ResolveAnswers ==
  ASSUME NEW m \in Missions, NEW kind \in ApprovalKind, NEW approved \in BOOLEAN,
         Resolve(m, kind, approved),
         NEW rest, rest = [approvals[m] EXCEPT ![kind] = @ - 1]
  PROVE  \/ /\ approvals' = [approvals EXCEPT ![m] = rest]
            /\ UNCHANGED <<state, reviewBlocked, flow>>
            /\ state[m] # "review_required"
         \/ \E o : Answers(m, approved, o) /\ Answering(m, rest, o)
<1>1. IntegrateOutcomes(m, status # "paused") # {}
  BY DEF IntegrateOutcomes
<1> QED
  BY <1>1 DEF Resolve, Answers, Answering

\* What an answer starts: it is sound, rests on a validated result if on any, and
\* is given while nobody works on the mission, unless it only cancels it.
Answered(m, rest, o) ==
    /\ Sound(o)
    /\ Judges(o) => validated[m]
    /\ status = "paused" => o.pc = "idle"
    /\ (\A k \in Slots : ~Current(<<m, k>>)) \/ (o.state = "cancelled" /\ o.pc = "idle")
    /\ FreeSlots(m) # {}
    /\ state' = [state EXCEPT ![m] = o.state]
    /\ approvals' = [approvals EXCEPT ![m] = OpenApproval(rest, o.ask)]
    /\ reviewBlocked' = [reviewBlocked EXCEPT ![m] = (o.ask = "review")]
    /\ flow' = [flow EXCEPT ![<<m, SlotFor(m)>>] = Spawned(o, FALSE)]

LEMMA AnswerSound ==
  ASSUME TypeOK, Fit, NEW m \in Missions, NEW kind \in ApprovalKind, NEW approved \in BOOLEAN,
         Resolve(m, kind, approved),
         NEW rest, rest = [approvals[m] EXCEPT ![kind] = @ - 1]
  PROVE  \/ /\ approvals' = [approvals EXCEPT ![m] = rest]
            /\ UNCHANGED <<state, reviewBlocked, flow>>
         \/ \E o : Answered(m, rest, o)
<1>1. approvals[m][kind] > 0
  BY DEF Resolve
<1>2. ASSUME NEW o, Answers(m, approved, o), Answering(m, rest, o)
      PROVE  Answered(m, rest, o)
  BY <1>1, <1>2, AnswersSound DEF Answered, Answering
<1> QED
  BY <1>2, ResolveAnswers

LEMMA ResolveFits ==
  ASSUME TypeOK, Fit, NEW m \in Missions, NEW kind \in ApprovalKind, NEW approved \in BOOLEAN,
         Resolve(m, kind, approved)
  PROVE  Fit'
<1> DEFINE rest == [approvals[m] EXCEPT ![kind] = @ - 1]
<1>0. /\ MissionsTyped /\ CallsTyped /\ ThreadsFit(m) /\ MissionFits(m) /\ up
      /\ UNCHANGED <<status, gen, up, pausedFrom, validated>>
      /\ approvals[m][kind] \in Nat /\ approvals[m][kind] > 0
      /\ approvals[m] \in [ApprovalKind -> Nat]
      /\ \A n \in Missions, j \in Slots : <<n, j>> \in Threads
  BY TypeParts DEF Fit, Resolve, MissionsTyped, projectVars, resultVars, hostVars, Threads
\* The answered question was the only one.
<1>1. /\ rest \in [ApprovalKind -> Nat]
      /\ ~Supervised => rest["human"] = 0 /\ Asked(rest) = 0
  <2>1. rest \in [ApprovalKind -> Nat] /\ rest[kind] = approvals[m][kind] - 1
        /\ \A j \in ApprovalKind : j # kind => rest[j] = approvals[m][j]
    BY <1>0
  <2>2. /\ approvals[m]["retry"] \in Nat /\ approvals[m]["review"] \in Nat
        /\ approvals[m]["human"] \in Nat
    BY <1>0 DEF ApprovalKind
  <2> HIDE DEF rest
  <2>3. ASSUME ~Supervised PROVE rest["human"] = 0 /\ Asked(rest) = 0
    <3>1. approvals[m]["human"] = 0 /\ approvals[m]["retry"] + approvals[m]["review"] <= 1
      BY <1>0, <2>3 DEF MissionFits, QuestionsFit, Asked
    <3>2. CASE kind = "retry"
      BY <1>0, <2>1, <2>2, <3>1, <3>2 DEF Asked, ApprovalKind
    <3>3. CASE kind = "review"
      BY <1>0, <2>1, <2>2, <3>1, <3>3 DEF Asked, ApprovalKind
    <3>4. kind # "human"
      BY <1>0, <3>1
    <3> QED
      BY <3>2, <3>3, <3>4 DEF ApprovalKind
  <2> QED
    BY <2>1, <2>3
<1> HIDE DEF rest
<1>2. \/ /\ approvals' = [approvals EXCEPT ![m] = rest]
         /\ UNCHANGED <<state, reviewBlocked, flow>>
      \/ \E o : Answered(m, rest, o)
  BY AnswerSound DEF rest
<1>3. CASE /\ approvals' = [approvals EXCEPT ![m] = rest]
           /\ UNCHANGED <<state, reviewBlocked, flow>>
  <2>1. approvals'[m] = rest /\ \A n \in Missions \ {m} : approvals'[n] = approvals[n]
    BY <1>0, <1>3 DEF MissionsTyped
  <2>2. MissionFits(m)'
    BY <1>0, <1>1, <1>3, <2>1 DEF MissionFits, QuestionsFit, ResultFits
  <2>3. ASSUME NEW n \in Missions PROVE ThreadsFit(n)' /\ MissionFits(n)'
    <3>1. ThreadsFit(n)'
      BY <1>0, <1>3, ThreadsKept DEF Fit
    <3>2. n # m => MissionFits(n)'
      BY <1>0, <1>3, <2>1, MissionKept DEF Fit
    <3> QED
      BY <2>2, <3>1, <3>2
  <2> QED
    BY <2>3 DEF Fit
<1>4. ASSUME NEW o, Answered(m, rest, o) PROVE Fit'
  <2>1. /\ state'[m] = o.state /\ approvals'[m] = OpenApproval(rest, o.ask)
        /\ reviewBlocked'[m] = (o.ask = "review")
        /\ \A n \in Missions \ {m} : /\ state'[n] = state[n] /\ approvals'[n] = approvals[n]
                                     /\ reviewBlocked'[n] = reviewBlocked[n]
    BY <1>0, <1>4 DEF Answered, MissionsTyped
  <2>2. SlotFor(m) \in Slots /\ flow[<<m, SlotFor(m)>>] = NoFlow
    BY <1>4, SlotIsFree DEF Answered
  <2>3. /\ flow'[<<m, SlotFor(m)>>] = Spawned(o, FALSE)
        /\ \A n \in Missions, j \in Slots :
              n # m \/ j # SlotFor(m) => flow'[<<n, j>>] = flow[<<n, j>>]
    BY <1>0, <1>4, <2>2 DEF Answered, CallsTyped
  <2>4. MissionFits(m)'
    BY <1>0, <1>1, <1>4, <2>1, MissionCommitted DEF Answered
  <2>5. ThreadsFit(m)'
    <3>1. CASE \A k \in Slots : ~Current(<<m, k>>)
      BY <1>0, <1>4, <2>1, <2>2, <2>3, <3>1, SpawnFits DEF Answered
    <3>2. CASE o.state = "cancelled" /\ o.pc = "idle"
      <4>1. Spawned(o, FALSE).pc = "idle"
        BY <3>2, PcOf DEF Spawned
      <4>2. \A j \in Slots : flow'[<<m, j>>].pc = "idle" \/ flow'[<<m, j>>] = flow[<<m, j>>]
        BY <2>3, <4>1
      <4> QED
        BY <1>0, <2>1, <3>2, <4>2, ThreadsKept
    <3> QED
      BY <1>4, <3>1, <3>2 DEF Answered
  <2>6. ASSUME NEW n \in Missions, n # m PROVE ThreadsFit(n)' /\ MissionFits(n)'
    <3>1. MissionFits(n)'
      BY <1>0, <2>1, <2>6, MissionKept DEF Fit
    <3>2. ThreadsFit(n)'
      BY <1>0, <2>1, <2>3, <2>6, ThreadsKept DEF Fit
    <3> QED
      BY <3>1, <3>2
  <2> QED
    BY <2>4, <2>5, <2>6 DEF Fit
<1> QED
  BY <1>2, <1>3, <1>4

LEMMA InitFits == Init => Fit
<1> SUFFICES ASSUME Init, NEW m \in Missions PROVE ThreadsFit(m) /\ MissionFits(m)
  BY DEF Fit
<1>1. \A k \in Slots : flow[<<m, k>>].pc = "idle"
  BY PcOf DEF Init, Threads
<1>2. state[m] = "proposed" /\ ~reviewBlocked[m] /\ approvals[m] = [k \in ApprovalKind |-> 0]
  BY DEF Init
<1>3. approvals[m]["human"] = 0 /\ approvals[m]["retry"] = 0 /\ approvals[m]["review"] = 0
  BY <1>2 DEF ApprovalKind
<1> QED
  BY <1>1, <1>2, <1>3 DEF ThreadsFit, Current, MissionFits, QuestionsFit, ResultFits, Judged, Asked

LEMMA NextFits ==
  ASSUME UserTargets = {}, TypeOK, Fit, [Next]_vars
  PROVE  Fit'
<1>1. CASE UNCHANGED vars
  BY <1>1
  DEF vars, projectVars, missionVars, resultVars, hostVars, Fit, ThreadsFit, MissionFits,
      QuestionsFit, ResultFits, Current
<1>2. ASSUME UserAction PROVE Fit'
  BY <1>2, PauseFits, ResumeProjectFits, CallsFit, ResolveFits DEF UserAction
<1> QED
  BY <1>1, <1>2, TickFits, ContinueFits, CallsFit, RestartFits DEF Next

LEMMA AlwaysFit == UserTargets = {} => (Spec => []Fit)
<1> SUFFICES ASSUME UserTargets = {} PROVE Spec => []Fit
  OBVIOUS
<1>1. TypeOK /\ Fit /\ [Next]_vars => Fit'
  BY NextFits
<1> QED
  BY <1>1, InitFits, TypeCorrect, PTL DEF Spec

-----------------------------------------------------------------------------
(***************************************************************************)
(* Open work is driven.  The inductive invariant relates each run to its   *)
(* coroutine and each state a mission cannot leave by itself to whoever    *)
(* moves it on: a current coroutine, a human, or a cancel in flight.       *)
(***************************************************************************)

\* The awaits a coroutine reaches with a live run.
Live == {"provider", "reviewing"}

\* The states a pause leaves missions in.
Suspended == {"paused", "failed", "cancelled", "completed", "assigned", "ready"}

\* A running run has a current coroutine and a run left behind has none; a current
\* coroutine at its run finds it running, unless a cancel of its mission waits for
\* it.
RunFits(t) ==
    /\ up /\ flow[t].run = "running" => Current(t)
    /\ flow[t].run = "left" => flow[t].pc = "idle"
    /\ Current(t) =>
          /\ t \notin pauseTodo
          /\ flow[t].pc \notin Live => flow[t].run = "none"
          /\ flow[t].pc \in Live /\ state[t[1]] # "cancelled" =>
                \/ flow[t].run = "running"
                \/ flow[t].run = "cancelling" /\ t \in cancelCur

\* As a mission has one running run at most, a cancel request lists one.
RequestsFit ==
    /\ cancelTodo = {}
    /\ ~up => died /\ pauseTodo = {} /\ cancelCur = {}
    /\ status = "paused" => gen > 0

\* A cancel request waits for a run of m to end, and will cancel m.
Cancelling(m) ==
    \E t \in cancelCur \ pauseTodo : t[1] = m /\ flow[t].run = "cancelling"

DrivenBy(m, pcs) == \E k \in Slots : flow[<<m, k>>].pc \in pcs /\ flow[<<m, k>>].gen = gen

Attended(m) ==
    /\ status = "paused" => state[m] \in Suspended
    /\ up /\ status = "active" =>
          /\ state[m] = "validating" => DrivenBy(m, ValidatePC)
          /\ state[m] = "review_required" =>
                \/ DrivenBy(m, ReviewPC) \/ approvals[m]["human"] > 0
                \/ Cancelling(m) \/ LeftBehind(m)
          /\ state[m] = "running" =>
                DrivenBy(m, ExecutePC) \/ Cancelling(m) \/ LeftBehind(m) \/ died
          /\ state[m] = "integrated" => DrivenBy(m, {"cleanup"}) \/ gen > 0 \/ died

Drive ==
    /\ RequestsFit
    /\ \A t \in Threads : RunFits(t)
    /\ \A m \in Missions : Attended(m)

\* An outcome leaves its mission in a state it will be moved on from.
Cared(o) ==
    /\ o.state = "validating" => o.pc \in ValidatePC
    /\ o.state = "review_required" => o.pc \in ReviewPC \/ o.ask = "human"
    /\ o.state = "running" => o.pc \in ExecutePC
    /\ o.state = "integrated" => o.pc = "cleanup"
    /\ o.pc \notin Live

-----------------------------------------------------------------------------
(* Outcomes are cared for *)

LEMMA Awaits ==
  /\ ExecutePC = {"worktree", "models", "provider", "backoff"}
  /\ ValidatePC = {"checking", "publishing"}
  /\ ReviewPC = {"diff", "reviewing", "rbackoff"}
  /\ Live = {"provider", "reviewing"}
  BY DEF ExecutePC, ValidatePC, ReviewPC, Live

LEMMA ExecuteCared ==
  ASSUME MissionsTyped, NEW m \in Missions, NEW a \in Nat, NEW open \in BOOLEAN,
         NEW o \in ExecuteOutcomes(m, a, open)
  PROVE  Cared(o) /\ o.state \in {"assigned", "blocked"} /\ (~open => o.state = "assigned")
<1>1. PICK q \in {Outcome(m, "assigned", "idle"), Outcome(m, "assigned", "worktree"),
                  Asking(m, "blocked", "retry")} :
          o = [q EXCEPT !.attempts = a] /\ (~open => q = Outcome(m, "assigned", "idle"))
  BY DEF ExecuteOutcomes
<1>2. q \in Outcomes
  BY <1>1, OutcomeTyped, AskingTyped, AwaitNames DEF MissionState, ApprovalKind
<1>3. o.state = q.state /\ o.pc = q.pc
  BY <1>1, <1>2 DEF Outcomes
<1>4. /\ q.state \in {"assigned", "blocked"} /\ q.pc \in {"idle", "worktree"}
      /\ ~open => q.state = "assigned"
  BY <1>1, OutcomeFields, AskingFields
<1> QED
  BY <1>3, <1>4, Awaits DEF Cared

LEMMA FailCared ==
  ASSUME MissionsTyped, NEW m \in Missions, NEW open \in BOOLEAN, NEW o \in FailOutcomes(m, open)
  PROVE  Cared(o) /\ o.state \in {"assigned", "blocked", "failed"}
         /\ (~open => o.state \in {"assigned", "failed"})
<1>1. attempts[m] + 1 \in Nat
  BY DEF MissionsTyped
<1>2. CASE o \in ExecuteOutcomes(m, attempts[m] + 1, open)
  BY <1>1, <1>2, ExecuteCared
<1>3. CASE o = Asking(m, "failed", "retry")
  BY <1>3, AskingFields, Awaits DEF Cared
<1> QED
  BY <1>2, <1>3 DEF FailOutcomes

LEMMA ValidateCared ==
  ASSUME MissionsTyped, NEW m \in Missions, NEW hasRun \in BOOLEAN,
         NEW o \in ValidateOutcomes(m, hasRun, TRUE)
  PROVE  Cared(o)
<1>1. CASE o = Outcome(m, "validating", "checking")
  BY <1>1, OutcomeFields, Awaits DEF Cared
<1> QED
  BY <1>1, FailCared DEF ValidateOutcomes

LEMMA ReviewCared ==
  ASSUME NEW m, NEW o \in ReviewOutcomes(m, TRUE)
  PROVE  Cared(o)
<1>1. o \in {Asking(m, "review_required", "human"), Outcome(m, "review_required", "diff"),
             Asking(m, "blocked", "review")}
  BY DEF ReviewOutcomes
<1> QED
  BY <1>1, OutcomeFields, AskingFields, Awaits DEF Cared

LEMMA IntegrateCared ==
  ASSUME NEW m, NEW open \in BOOLEAN, NEW o \in IntegrateOutcomes(m, open)
  PROVE  Cared(o)
<1>1. o \in {Outcome(m, "integrated", "cleanup"), Outcome(m, "approved", "idle")}
  BY DEF IntegrateOutcomes
<1> QED
  BY <1>1, OutcomeFields, Awaits DEF Cared

LEMMA OtherCared ==
  ASSUME NEW m, NEW s, s \notin {"validating", "review_required", "running", "integrated"}, NEW kind
  PROVE  Cared(Outcome(m, s, "idle")) /\ Cared(Asking(m, s, kind))
  BY OutcomeFields, AskingFields, Awaits DEF Cared

-----------------------------------------------------------------------------
(* One mission *)

\* An approval asked for is open.
LEMMA AskedIsOpen ==
  ASSUME NEW old \in [ApprovalKind -> Nat], NEW kind \in ApprovalKind
  PROVE  OpenApproval(old, kind)[kind] > 0
  BY ConstantsAssumption DEF OpenApproval

\* A mission left alone, whose current coroutines stay where they are.
LEMMA AttendedKept ==
  ASSUME NEW m \in Missions, Attended(m), state'[m] = state[m], gen' = gen,
         status' \in {status, "completed"},
         up' => /\ up /\ (died => died')
                /\ \/ approvals'[m]["human"] = approvals[m]["human"]
                   \/ state[m] # "review_required"
                /\ \A k \in Slots : Current(<<m, k>>) =>
                      /\ flow'[<<m, k>>].pc = flow[<<m, k>>].pc
                      /\ flow'[<<m, k>>].gen = flow[<<m, k>>].gen
                /\ Cancelling(m) => Cancelling(m)'
                /\ LeftBehind(m) => LeftBehind(m)' \/ Cancelling(m)'
  PROVE  Attended(m)'
<1>1. ASSUME up', NEW pcs, "idle" \notin pcs, DrivenBy(m, pcs)
      PROVE  \E k \in Slots : flow'[<<m, k>>].pc \in pcs /\ flow'[<<m, k>>].gen = gen'
  BY <1>1 DEF DrivenBy, Current
<1>2. ~("idle" \in ValidatePC \/ "idle" \in ReviewPC \/ "idle" \in ExecutePC \/ "idle" \in {"cleanup"})
  BY Awaits
<1>3. up' /\ DrivenBy(m, ValidatePC) => DrivenBy(m, ValidatePC)'
  BY <1>1, <1>2 DEF DrivenBy, ValidatePC
<1>4. up' /\ DrivenBy(m, ReviewPC) => DrivenBy(m, ReviewPC)'
  BY <1>1, <1>2 DEF DrivenBy, ReviewPC
<1>5. up' /\ DrivenBy(m, ExecutePC) => DrivenBy(m, ExecutePC)'
  BY <1>1, <1>2 DEF DrivenBy, ExecutePC
<1>6. up' /\ DrivenBy(m, {"cleanup"}) => DrivenBy(m, {"cleanup"})'
  BY <1>1, <1>2 DEF DrivenBy
<1> QED
  BY <1>3, <1>4, <1>5, <1>6 DEF Attended

\* A mission moved to outcome o.
LEMMA AttendedMoved ==
  ASSUME NEW m \in Missions, NEW o, state'[m] = o.state,
         Cared(o) \/ (o.state = "integrated" /\ o.pc = "idle" /\ gen' > 0),
         o.pc # "idle" => \E k \in Slots : flow'[<<m, k>>].pc = o.pc /\ flow'[<<m, k>>].gen = gen',
         o.ask = "human" => approvals'[m]["human"] > 0,
         status' = "paused" => o.state \in Suspended
  PROVE  Attended(m)'
<1>1. ASSUME NEW pcs, o.pc \in pcs, o.pc # "idle"
      PROVE  \E k \in Slots : flow'[<<m, k>>].pc \in pcs /\ flow'[<<m, k>>].gen = gen'
  BY <1>1
<1>2. /\ o.pc \in ValidatePC => DrivenBy(m, ValidatePC)'
      /\ o.pc \in ReviewPC => DrivenBy(m, ReviewPC)'
      /\ o.pc \in ExecutePC => DrivenBy(m, ExecutePC)'
      /\ o.pc = "cleanup" => DrivenBy(m, {"cleanup"})'
  BY <1>1 DEF DrivenBy, ValidatePC, ReviewPC, ExecutePC
<1> QED
  BY <1>2 DEF Attended, Cared

\* A mission whose state asks nothing of the engine.
LEMMA AttendedAtRest ==
  ASSUME NEW m \in Missions, state'[m] \notin {"validating", "review_required", "running", "integrated"},
         status' = "paused" => state'[m] \in Suspended
  PROVE  Attended(m)'
  BY DEF Attended

-----------------------------------------------------------------------------
(* One run *)

LEMMA RunKept ==
  ASSUME NEW t \in Threads, RunFits(t), flow'[t] = flow[t], gen' = gen, up' => up,
         pauseTodo' \subseteq pauseTodo, t \in cancelCur => t \in cancelCur',
         state'[t[1]] \in {state[t[1]], "cancelled"} \/ ~Current(t)
  PROVE  RunFits(t)'
<1>1. Current(t)' => Current(t)
  BY DEF Current
<1>2. Current(t) => Current(t)'
  BY DEF Current
<1> QED
  BY <1>1, <1>2 DEF RunFits

LEMMA RunLost ==
  ASSUME NEW t \in Threads, ~up', flow'[t].pc = "idle"
  PROVE  RunFits(t)'
  BY DEF RunFits, Current

LEMMA RunStarted ==
  ASSUME NEW t \in Threads, flow'[t].run = "none", flow'[t].pc \notin Live, t \notin pauseTodo'
  PROVE  RunFits(t)'
  BY DEF RunFits, Live

-----------------------------------------------------------------------------
(* What a continuation does *)

\* The moves of coroutines are legal from the states they work on.
LEMMA LegalMoves ==
  /\ CanTransitionMission("assigned", "running") /\ CanTransitionMission("assigned", "blocked")
  /\ CanTransitionMission("running", "result_submitted")
  /\ CanTransitionMission("running", "blocked")
  /\ CanTransitionMission("validating", "review_required")
  /\ CanTransitionMission("validating", "blocked")
  /\ CanTransitionMission("validating", "retrying") /\ CanTransitionMission("validating", "failed")
  /\ CanTransitionMission("review_required", "approved")
  /\ CanTransitionMission("review_required", "blocked")
  /\ CanTransitionMission("review_required", "retrying")
  /\ CanTransitionMission("review_required", "failed")
  /\ CanTransitionMission("integrated", "completed")
  /\ CanTransitionMission("running", "cancelled")
  /\ CanTransitionMission("review_required", "cancelled")
  BY DEF CanTransitionMission, MissionTransitions

LEMMA RunMoves ==
  ASSUME NEW r \in FlowRun
  PROVE  /\ CanTransitionRun(r, "succeeded") <=> r = "running"
         /\ CanTransitionRun(r, "failed") <=> r \in {"running", "cancelling"}
         /\ CanTransitionRun(r, "cancelled") <=> r = "cancelling"
  BY DEF CanTransitionRun, RunTransitions, FlowRun

\* Coroutine t leaves its mission to its user, to the cancel that waits for it, or
\* to nobody with a run that threw.
Handed(t) ==
    /\ flow'[t].pc = "idle" /\ flow'[t].run # "running"
    /\ UNCHANGED <<state, approvals>>
    /\ \/ state[t[1]] = "cancelled"
       \/ flow'[t].run = "cancelling" /\ t \in cancelCur /\ flow[t].pc \in Live
       \/ flow'[t].run = "left" /\ Home(flow[t].pc) \in {"running", "review_required"}

\* It goes on to another await of the same work.
Pursued(t) ==
    /\ UNCHANGED <<state, approvals>>
    /\ flow'[t].pc # "idle" /\ flow'[t].gen = gen
    /\ Home(flow'[t].pc) = Home(flow[t].pc)
    /\ flow'[t].pc \in Live => flow'[t].run = "running"
    /\ flow'[t].pc \notin Live => flow'[t].run = "none"

\* It moves its mission to where it is cared for.
Delivered(t) ==
    \E o \in Outcomes :
        /\ Cared(o) /\ Commit(t[1], o)
        /\ flow'[t].pc = o.pc /\ flow'[t].run = "none"
        /\ o.pc # "idle" => flow'[t].gen = gen

Goes(t) == Handed(t) \/ Pursued(t) \/ Delivered(t)

LEMMA ThrowGoes ==
  ASSUME CallsTyped, up', NEW t \in Threads, NEW f \in Flow, Throw(t, f),
         UNCHANGED <<state, approvals>>,
         \/ state[t[1]] = "cancelled"
         \/ f.run = "cancelling" /\ t \in cancelCur /\ flow[t].pc \in Live
         \/ f.run \in {"left", "running"} /\ Home(flow[t].pc) \in {"running", "review_required"}
  PROVE  Handed(t)
<1>1. flow'[t] = Exit(f)
  BY DEF Throw, LoseMemory, CallsTyped
<1>2. /\ Exit(f).pc = "idle" /\ Exit(f).run # "running"
      /\ f.run = "cancelling" => Exit(f).run = "cancelling"
      /\ f.run \in {"left", "running"} => Exit(f).run = "left"
  BY PcOf, RunOf DEF Exit, NoFlow
<1> QED
  BY <1>1, <1>2 DEF Handed

LEMMA MoveGoes ==
  ASSUME CallsTyped, up', NEW t \in Threads, NEW via, NEW o \in Outcomes, Cared(o), NEW next,
         NEW f \in Flow, Move(t, via, o, next, f),
         state[t[1]] \in {Home(flow[t].pc), "cancelled"},
         CanTransitionMission(Home(flow[t].pc), via),
         next.pc = o.pc, next.run = "none", o.pc # "idle" => next.gen = gen
  PROVE  Goes(t)
<1>1. CASE CanTransitionMission(state[t[1]], via)
  <2>1. Commit(t[1], o) /\ flow'[t] = next
    BY <1>1 DEF Move, CallsTyped
  <2> QED
    BY <2>1 DEF Delivered, Goes
<1>2. CASE ~CanTransitionMission(state[t[1]], via)
  <2>1. Throw(t, f) /\ UNCHANGED <<state, approvals>> /\ state[t[1]] = "cancelled"
    BY <1>2 DEF Move, missionVars
  <2> QED
    BY <2>1, ThrowGoes DEF Goes
<1> QED
  BY <1>1, <1>2

\* The record of a coroutine started or parked has no run.
LEMMA NoRun ==
  ASSUME CallsTyped, NEW t \in Threads, NEW p \in PC
  PROVE  Parked(t, p).run = "none"
  BY RunOf DEF Parked, CallsTyped, Flow

LEMMA FailGoes ==
  ASSUME MissionsTyped, CallsTyped, gen \in Nat, up', NEW t \in Threads, Fail(t),
         flow[t].pc \in {"checking", "publishing", "reviewing"},
         state[t[1]] \in {Home(flow[t].pc), "cancelled"}
  PROVE  Goes(t)
<1> DEFINE m == t[1]
           via == IF MayCorrect(m) THEN "retrying" ELSE "failed"
<1>1. /\ m \in Missions /\ flow[t] \in Flow /\ WithRun(flow[t], "none") \in Flow
      /\ WithRun(flow[t], "none").run # "running"
  BY FlowTyped, RunOf, AwaitNames DEF Threads, CallsTyped
<1>2. CanTransitionMission(Home(flow[t].pc), via)
  BY HomeOf, LegalMoves
<1>3. CASE CanTransitionMission(state[m], via)
  <2>1. PICK o \in FailOutcomes(m, TRUE) : Move(t, via, o, Spawned(o, FALSE), flow[t])
    BY <1>3 DEF Fail
  <2>2. Cared(o) /\ o \in Outcomes
    BY <1>1, FailCared, FailSound DEF Unjudged, Sound
  <2>3. /\ Spawned(o, FALSE).pc = o.pc /\ (o.pc # "idle" => Spawned(o, FALSE).gen = gen)
        /\ Spawned(o, FALSE).run = "none"
    BY <2>2, NextRecord, RunOf
  <2>4. state[m] # "cancelled"
    BY <1>3, CancelledIsTerminal
  <2> QED
    BY <1>1, <1>2, <2>1, <2>2, <2>3, <2>4, MoveGoes
<1>4. CASE ~CanTransitionMission(state[m], via)
  <2>1. /\ Throw(t, WithRun(flow[t], "none")) /\ UNCHANGED <<state, approvals>>
        /\ state[m] = "cancelled"
    BY <1>2, <1>4 DEF Fail
  <2> QED
    BY <1>1, <2>1, ThrowGoes DEF Goes
<1> QED
  BY <1>3, <1>4

\* A step of t that leaves its mission alone.
LEMMA StayGoes ==
  ASSUME CallsTyped, NEW t \in Threads, flow[t].gen = gen, UNCHANGED missionVars,
         NEW f, flow' = [flow EXCEPT ![t] = f],
         \/ /\ f.pc = "idle" /\ f.run # "running"
            /\ \/ state[t[1]] = "cancelled"
               \/ f.run = "cancelling" /\ t \in cancelCur /\ flow[t].pc \in Live
         \/ /\ f.pc # "idle" /\ f.gen = flow[t].gen /\ Home(f.pc) = Home(flow[t].pc)
            /\ f.pc \in Live => f.run = "running"
            /\ f.pc \notin Live => f.run = "none"
  PROVE  Goes(t)
<1>1. flow'[t] = f /\ UNCHANGED <<state, approvals>>
  BY DEF CallsTyped, missionVars
<1> QED
  BY <1>1 DEF Goes, Handed, Pursued

\* A launched run is awaited, or left.
LEMMA LaunchGoes ==
  ASSUME CallsTyped, up', NEW t \in Threads, NEW f \in Flow, Launch(t, f),
         f.pc \in Live, f.gen = gen, Home(f.pc) = Home(flow[t].pc)
  PROVE  Goes(t)
<1>0. UNCHANGED <<state, approvals>>
  BY DEF Launch, missionVars
<1>1. CASE flow' = [flow EXCEPT ![t] = [f EXCEPT !.run = "running"]]
  <2>1. flow'[t].pc = f.pc /\ flow'[t].gen = f.gen /\ flow'[t].run = "running"
    BY <1>1 DEF CallsTyped, Flow
  <2>2. f.pc # "idle"
    BY DEF Live
  <2> QED
    BY <1>0, <2>1, <2>2 DEF Goes, Pursued
<1>2. CASE Throw(t, [f EXCEPT !.run = "left"])
  <2>1. [f EXCEPT !.run = "left"] \in Flow /\ [f EXCEPT !.run = "left"].run = "left"
    BY AwaitNames DEF Flow
  <2>2. Home(f.pc) \in {"running", "review_required"}
    BY HomeOf DEF Live
  <2> QED
    BY <1>0, <1>2, <2>1, <2>2, ThrowGoes DEF Goes
<1> QED
  BY <1>1, <1>2 DEF Launch

\* Only a coroutine whose exception nobody catches touches the requests in flight:
\* it takes the process down.
CallsKept ==
    \/ up' /\ UNCHANGED <<callVars, died>>
    \/ ~up' /\ died' /\ pauseTodo' = {} /\ cancelTodo' = {} /\ cancelCur' = {}

LEMMA ContinueKeepsCalls ==
  ASSUME NEW t \in Threads, Continue(t)
  PROVE  CallsKept
<1>1. up
  BY DEF Continue, WorktreePrepared, StartRun, ProviderCompletes, ProviderFails, StreamThrows,
         BackoffOver, ChecksPass, ValidationFails, Published, PublicationFails, StartReview,
         ReviewFenced, ReviewCompletes, ReviewFails, CleanupOver, At
<1>2. UNCHANGED <<callVars, hostVars>> => CallsKept
  BY <1>1 DEF hostVars, CallsKept
<1>3. UNCHANGED <<callVars, up, died>> => CallsKept
  BY <1>1 DEF CallsKept
<1>4. \A f : Throw(t, f) => CallsKept
  BY <1>3 DEF Throw, LoseMemory, CallsKept
<1>5. \A via, o, next, f : Move(t, via, o, next, f) => CallsKept
  BY <1>3, <1>4 DEF Move
<1>6. Fail(t) => CallsKept
  BY <1>4, <1>5 DEF Fail
<1>7. Abandon(t) => CallsKept
  BY <1>2 DEF Abandon
<1>l. \A f : Launch(t, f) => CallsKept
  BY <1>3, <1>4 DEF Launch
<1>8. WorktreePrepared(t) \/ StartRun(t) \/ BackoffOver(t) \/ ChecksPass(t) => CallsKept
  BY <1>2, <1>5, <1>7, <1>l DEF WorktreePrepared, StartRun, BackoffOver, ChecksPass
<1>9. ProviderCompletes(t) \/ ProviderFails(t) => CallsKept
  BY <1>3, <1>5, <1>7 DEF ProviderCompletes, ProviderFails
<1>10. ValidationFails(t) \/ Published(t) \/ PublicationFails(t) => CallsKept
  BY <1>5, <1>6, <1>7 DEF ValidationFails, Published, PublicationFails
<1>11. StartReview(t) \/ ReviewFenced(t) => CallsKept
  BY <1>2, <1>7, <1>l DEF StartReview, ReviewFenced
<1>12. ReviewCompletes(t) => CallsKept
  BY <1>4, <1>5, <1>6 DEF ReviewCompletes
<1>13. ReviewFails(t) => CallsKept
  BY <1>3, <1>4, <1>5, <1>l DEF ReviewFails, BlockReview
<1>14. CleanupOver(t) => CallsKept
  BY <1>5, <1>7 DEF CleanupOver
<1>15. StreamThrows(t) => CallsKept
  BY <1>4 DEF StreamThrows
<1> QED
  BY <1>8, <1>9, <1>10, <1>11, <1>12, <1>13, <1>14, <1>15 DEF Continue

LEMMA ContinueGoes ==
  ASSUME TypeOK, Fit, Drive, NEW t \in Threads, Continue(t), ~Fenced(t), up'
  PROVE  Goes(t)
<1> DEFINE m == t[1]
           p == flow[t].pc
<1>0. /\ m \in Missions /\ flow[t] \in Flow /\ gen \in Nat
      /\ MissionsTyped /\ CallsTyped /\ RunFits(t)
      /\ WithRun(flow[t], "none") \in Flow
      /\ WithRun(flow[t], "none").run # "running"
      /\ flow[t].run \in FlowRun /\ p \in PC
  <2>1. /\ MissionsTyped /\ CallsTyped /\ gen \in Nat /\ RunFits(t) /\ m \in Missions
    BY TypeParts DEF Threads, TypeOK, Drive
  <2>2. flow[t] \in Flow /\ "none" \in FlowRun \ {"running"}
    BY <2>1, AwaitNames DEF CallsTyped
  <2>3. flow[t].run \in FlowRun /\ p \in PC
    BY <2>2 DEF Flow
  <2> QED
    BY <2>1, <2>2, <2>3, FlowTyped, RunOf
<1>1. flow[t].gen = gen
  BY DEF Fenced, AcceptingWork
<1>2. p # "idle"
  BY DEF Continue, WorktreePrepared, StartRun, ProviderCompletes, ProviderFails, StreamThrows,
         BackoffOver, ChecksPass, ValidationFails, Published, PublicationFails, StartReview,
         ReviewFenced, ReviewCompletes, ReviewFails, CleanupOver, At
<1>3. Current(t) /\ state[m] \in {Home(p), "cancelled"}
  <2>1. t = <<m, t[2]>> /\ t[2] \in Slots
    BY DEF Threads
  <2> QED
    BY <1>0, <1>1, <1>2, <2>1 DEF Fit, ThreadsFit, Current
<1>4. /\ p \notin Live => flow[t].run = "none"
      /\ p \in Live /\ state[m] # "cancelled" =>
            \/ flow[t].run = "running"
            \/ flow[t].run = "cancelling" /\ t \in cancelCur
  BY <1>0, <1>3 DEF RunFits
\* It ends of itself.
<1>5. ASSUME Abandon(t), flow[t].run # "running",
             state[m] = "cancelled" \/ p \in Live
      PROVE  Goes(t)
  <2>1. flow' = [flow EXCEPT ![t] = Exit(flow[t])] /\ UNCHANGED missionVars
    BY <1>5 DEF Abandon
  <2>2. /\ Exit(flow[t]).pc = "idle" /\ Exit(flow[t]).run # "running"
        /\ flow[t].run = "cancelling" => Exit(flow[t]).run = "cancelling"
    BY <1>0, <1>5, PcOf, RunOf DEF Exit, NoFlow
  <2> QED
    BY <1>0, <1>1, <1>4, <1>5, <2>1, <2>2, StayGoes
<1>6. ASSUME flow' = [flow EXCEPT ![t] = NoFlow], UNCHANGED missionVars, state[m] = "cancelled"
      PROVE  Goes(t)
  BY <1>0, <1>1, <1>6, PcOf, RunOf, StayGoes
\* A move to an outcome, with the record that belongs to it.
<1>7. ASSUME NEW via, NEW o \in Outcomes, Cared(o),
             NEW f \in {flow[t], WithRun(flow[t], "none")},
             NEW next, next = Parked(t, o.pc) \/ (o.pc = "idle" /\ next = NoFlow),
             Move(t, via, o, next, f), CanTransitionMission(Home(p), via)
      PROVE  Goes(t)
  <2>1. next.pc = o.pc /\ next.run = "none" /\ (o.pc # "idle" => next.gen = gen)
    <3>1. o.pc \in PC
      BY DEF Outcomes
    <3> QED
      BY <1>0, <1>1, <1>7, <3>1, NextRecord, NoRun, PcOf, RunOf
  <2> QED
    BY <1>0, <1>3, <1>7, <2>1, MoveGoes
<1>8. ASSUME Fail(t), p \in {"checking", "publishing", "reviewing"} PROVE Goes(t)
  BY <1>0, <1>3, <1>8, FailGoes
<1>9. /\ Asking(m, "blocked", "retry") \in Outcomes /\ Asking(m, "blocked", "retry").pc = "idle"
      /\ Asking(m, "blocked", "review") \in Outcomes /\ Asking(m, "blocked", "review").pc = "idle"
      /\ Cared(Asking(m, "blocked", "retry")) /\ Cared(Asking(m, "blocked", "review"))
  <2>1. "blocked" \in MissionState /\ {"retry", "review"} \subseteq ApprovalKind
    BY DEF MissionState, ApprovalKind
  <2>2. Cared(Asking(m, "blocked", "retry")) /\ Cared(Asking(m, "blocked", "review"))
    BY OtherCared
  <2> QED
    BY <1>0, <2>1, <2>2, AskingTyped, AskingFields
<1>10. CASE WorktreePrepared(t)
  <2>1. PICK o \in {Outcome(m, "running", "models"), Asking(m, "blocked", "retry")} :
              Move(t, o.state, o, Parked(t, o.pc), flow[t])
    BY <1>10 DEF WorktreePrepared
  <2>2. Outcome(m, "running", "models") \in Outcomes /\ Cared(Outcome(m, "running", "models"))
    <3>1. "running" \in MissionState /\ "models" \in PC
      BY AwaitNames DEF MissionState
    <3> QED
      BY <1>0, <3>1, OutcomeTyped, OutcomeFields, Awaits DEF Cared
  <2>3. p = "worktree" /\ o.state \in {"running", "blocked"}
    BY <1>10, <2>1, OutcomeFields, AskingFields DEF WorktreePrepared, At
  <2>4. CanTransitionMission(Home(p), o.state) /\ flow[t].run # "running"
    BY <1>4, <2>3, HomeOf, LegalMoves, Awaits
  <2> QED
    BY <1>7, <1>9, <2>1, <2>2, <2>4
<1>11. CASE StartRun(t)
  <2> DEFINE f == [flow[t] EXCEPT !.pc = "provider"]
  <2>1. f \in Flow /\ f.pc = "provider" /\ f.gen = flow[t].gen
    BY <1>0, AwaitNames DEF Flow
  <2>2. Launch(t, f) /\ p = "models"
    BY <1>11 DEF StartRun, At
  <2> HIDE DEF f
  <2> QED
    BY <1>0, <1>1, <2>1, <2>2, HomeOf, Awaits, LaunchGoes
<1>12. CASE ProviderCompletes(t) \/ ProviderFails(t)
  <2>1. p = "provider"
    BY <1>12 DEF ProviderCompletes, ProviderFails, At
  <2>2. Home(p) = "running" /\ p \in Live
    BY <2>1, HomeOf, Awaits
  <2>3. CASE flow[t].run # "running"
    <3>1. Abandon(t)
      BY <1>12, <2>3 DEF ProviderCompletes, ProviderFails
    <3> QED
      BY <1>5, <2>2, <2>3, <3>1
  <2>4. CASE flow[t].run = "running" /\ ProviderCompletes(t)
    <3>1. PICK o \in ValidateOutcomes(m, TRUE, TRUE) :
              Move(t, "result_submitted", o, Parked(t, o.pc), WithRun(flow[t], "none"))
      BY <2>4 DEF ProviderCompletes
    <3>2. Cared(o) /\ o \in Outcomes
      BY <1>0, <3>1, ValidateCared, ValidateOutcomesTyped
    <3> QED
      BY <1>0, <1>7, <2>2, <3>1, <3>2, LegalMoves
  <2>5. CASE flow[t].run = "running" /\ ProviderFails(t)
    <3>1. \/ flow' = [flow EXCEPT ![t] = Retried(flow[t], "backoff", "none")] /\ UNCHANGED missionVars
          \/ flow' = [flow EXCEPT ![t] = Retried(flow[t], "models", "none")] /\ UNCHANGED missionVars
          \/ /\ flow' = [flow EXCEPT ![t] = NoFlow] /\ UNCHANGED missionVars
             /\ state[m] # "running"
          \/ Move(t, "blocked", Asking(m, "blocked", "retry"), NoFlow, WithRun(flow[t], "none"))
      BY <2>5 DEF ProviderFails
    <3>2. ASSUME NEW q \in {"backoff", "models"},
                 flow' = [flow EXCEPT ![t] = Retried(flow[t], q, "none")], UNCHANGED missionVars
          PROVE  Goes(t)
      <4>1. /\ Retried(flow[t], q, "none").pc = q /\ Retried(flow[t], q, "none").gen = flow[t].gen
            /\ Retried(flow[t], q, "none").run = "none"
        BY <1>0, PcOf, AwaitNames DEF Retried, Flow
      <4>2. Home(q) = Home(p) /\ q \notin Live /\ q # "idle"
        BY <2>2, HomeOf, Awaits
      <4> QED
        BY <1>0, <1>1, <3>2, <4>1, <4>2, StayGoes
    <3>3. CASE Move(t, "blocked", Asking(m, "blocked", "retry"), NoFlow, WithRun(flow[t], "none"))
      BY <1>0, <1>7, <1>9, <2>2, <3>3, LegalMoves
    <3> QED
      BY <1>3, <1>6, <2>2, <3>1, <3>2, <3>3
  <2> QED
    BY <1>12, <2>3, <2>4, <2>5
<1>13. CASE BackoffOver(t)
  <2>1. p = "backoff" /\ UNCHANGED missionVars
    BY <1>13 DEF BackoffOver, At
  <2> DEFINE f == [flow[t] EXCEPT !.pc = "models", !.run = "none"]
  <2>2. f.pc = "models" /\ f.gen = flow[t].gen /\ f.run = "none"
    BY <1>0 DEF Flow
  <2>3. \/ flow' = [flow EXCEPT ![t] = f]
        \/ flow' = [flow EXCEPT ![t] = NoFlow] /\ state[m] # "running"
    BY <1>13 DEF BackoffOver, LoopHead
  <2> HIDE DEF f
  <2>4. CASE flow' = [flow EXCEPT ![t] = f]
    BY <1>0, <1>1, <2>1, <2>2, <2>4, HomeOf, Awaits, StayGoes
  <2>5. CASE flow' = [flow EXCEPT ![t] = NoFlow] /\ state[m] # "running"
    BY <1>3, <1>6, <2>1, <2>5, HomeOf
  <2> QED
    BY <2>3, <2>4, <2>5
<1>14. CASE ChecksPass(t)
  <2> DEFINE f == [flow[t] EXCEPT !.pc = "publishing"]
  <2>1. f.pc = "publishing" /\ f.gen = flow[t].gen /\ f.run = flow[t].run
    BY <1>0 DEF Flow
  <2>2. flow' = [flow EXCEPT ![t] = f] /\ UNCHANGED missionVars /\ p = "checking"
    BY <1>14 DEF ChecksPass, At
  <2> HIDE DEF f
  <2>3. f.run = "none"
    BY <1>4, <2>1, <2>2, Awaits
  <2> QED
    BY <1>0, <1>1, <2>1, <2>2, <2>3, HomeOf, Awaits, StayGoes
<1>15. CASE ValidationFails(t)
  BY <1>8, <1>15 DEF ValidationFails, At
<1>16. CASE Published(t)
  <2>1. PICK o \in ReviewOutcomes(m, TRUE) : Move(t, "review_required", o, Parked(t, o.pc), flow[t])
    BY <1>16 DEF Published
  <2>2. Cared(o) /\ o \in Outcomes
    BY <1>0, <2>1, ReviewCared, ReviewSound DEF Sound
  <2>3. p = "publishing"
    BY <1>16 DEF Published, At
  <2>4. CanTransitionMission(Home(p), "review_required") /\ flow[t].run # "running"
    BY <1>4, <2>3, HomeOf, LegalMoves, Awaits
  <2> QED
    BY <1>7, <2>1, <2>2, <2>4
<1>17. CASE PublicationFails(t)
  <2>1. p = "publishing"
    BY <1>17 DEF PublicationFails, At
  <2>2. Move(t, "blocked", Asking(m, "blocked", "retry"), NoFlow, flow[t]) \/ Fail(t)
    BY <1>17 DEF PublicationFails
  <2>3. CanTransitionMission(Home(p), "blocked") /\ flow[t].run # "running"
    BY <1>4, <2>1, HomeOf, LegalMoves, Awaits
  <2> QED
    BY <1>7, <1>8, <1>9, <2>1, <2>2, <2>3
<1>18. CASE StartReview(t)
  <2> DEFINE f == [flow[t] EXCEPT !.pc = "reviewing"]
  <2>1. f \in Flow /\ f.pc = "reviewing" /\ f.gen = flow[t].gen
    BY <1>0, AwaitNames DEF Flow
  <2>2. /\ p \in {"diff", "rbackoff"}
        /\ Launch(t, f) \/ (Abandon(t) /\ state[m] # "review_required")
    BY <1>18 DEF StartReview, At
  <2> HIDE DEF f
  <2>3. Home(p) = "review_required" /\ flow[t].run = "none"
    BY <1>4, <2>2, HomeOf, Awaits
  <2>4. CASE Launch(t, f)
    BY <1>0, <1>1, <2>1, <2>3, <2>4, HomeOf, Awaits, LaunchGoes
  <2>5. CASE Abandon(t) /\ state[m] # "review_required"
    BY <1>3, <1>5, <2>3, <2>5
  <2> QED
    BY <2>2, <2>4, <2>5
<1>19. CASE ReviewCompletes(t)
  <2>1. p = "reviewing"
    BY <1>19 DEF ReviewCompletes, At
  <2>2. Home(p) = "review_required" /\ p \in Live
    BY <2>1, HomeOf, Awaits
  <2>3. CASE Throw(t, flow[t]) /\ UNCHANGED missionVars /\ ~CanTransitionRun(flow[t].run, "succeeded")
    <3>1. flow[t].run # "running" /\ UNCHANGED <<state, approvals>>
      BY <1>0, <2>3, RunMoves DEF missionVars
    <3> QED
      BY <1>0, <1>4, <2>2, <2>3, <3>1, ThrowGoes DEF Goes
  <2>4. ASSUME NEW o \in IntegrateOutcomes(m, TRUE),
               Move(t, "approved", o, Parked(t, o.pc), WithRun(flow[t], "none"))
        PROVE  Goes(t)
    <3>1. Cared(o) /\ o \in Outcomes
      BY <1>0, <2>4, IntegrateCared, IntegrateSound DEF Sound
    <3> QED
      BY <1>0, <1>7, <2>2, <2>4, <3>1, LegalMoves
  <2> QED
    BY <1>8, <1>19, <2>1, <2>3, <2>4 DEF ReviewCompletes
<1>20. CASE ReviewFails(t)
  <2>1. p = "reviewing"
    BY <1>20 DEF ReviewFails, At
  <2>2. Home(p) = "review_required" /\ p \in Live
    BY <2>1, HomeOf, Awaits
  <2>3. CASE Throw(t, flow[t]) /\ UNCHANGED missionVars /\ ~CanTransitionRun(flow[t].run, "failed")
    <3>1. /\ flow[t].run \notin {"running", "cancelling"}
          /\ UNCHANGED <<state, approvals>>
      BY <1>0, <2>3, RunMoves DEF missionVars
    <3> QED
      BY <1>0, <1>4, <2>2, <2>3, <3>1, ThrowGoes DEF Goes
  <2>a. ASSUME NEW q \in {"rbackoff", "reviewing"}
        PROVE  /\ Retried(flow[t], q, "none").pc = q /\ Retried(flow[t], q, "none").gen = flow[t].gen
               /\ Retried(flow[t], q, "none").run = "none" /\ Retried(flow[t], q, "none") \in Flow
               /\ Home(q) = Home(p) /\ (q \in Live <=> q = "reviewing") /\ q # "idle"
    <3>1. q \in PC /\ "none" \in FlowRun
      BY AwaitNames
    <3>2. Retried(flow[t], q, "none") \in Flow
      BY <1>0, <3>1, NextAwaitTyped
    <3>3. /\ Retried(flow[t], q, "none").pc = q /\ Retried(flow[t], q, "none").gen = flow[t].gen
          /\ Retried(flow[t], q, "none").run = "none"
      BY <1>0, PcOf, AwaitNames DEF Retried, Flow
    <3> QED
      BY <2>2, <3>2, <3>3, HomeOf, Awaits
  <2>4. CASE flow' = [flow EXCEPT ![t] = Retried(flow[t], "rbackoff", "none")] /\ UNCHANGED missionVars
    BY <1>0, <1>1, <2>4, <2>a, StayGoes
  <2>b. CASE Launch(t, Retried(flow[t], "reviewing", "none"))
    BY <1>0, <1>1, <2>a, <2>b, LaunchGoes
  <2>5. CASE BlockReview(t)
    <3>1. CASE state[m] = "review_required"
      <4>1. Move(t, "blocked", Asking(m, "blocked", "review"), NoFlow, flow[t])
        BY <2>5, <3>1 DEF BlockReview
      <4>2. CanTransitionMission(Home(p), "blocked")
        BY <2>2, LegalMoves
      <4> QED
        BY <1>7, <1>9, <3>1, <4>1, <4>2
    <3>2. CASE state[m] # "review_required"
      <4>1. flow' = [flow EXCEPT ![t] = NoFlow] /\ UNCHANGED missionVars
        BY <2>5, <3>2 DEF BlockReview
      <4> QED
        BY <1>3, <1>6, <2>2, <3>2, <4>1
    <3> QED
      BY <3>1, <3>2
  <2>6. \/ Throw(t, flow[t]) /\ UNCHANGED missionVars /\ ~CanTransitionRun(flow[t].run, "failed")
        \/ /\ UNCHANGED missionVars
           /\ \/ flow' = [flow EXCEPT ![t] = Retried(flow[t], "rbackoff", "none")]
              \/ flow' = [flow EXCEPT ![t] = NoFlow] /\ state[m] # "review_required"
        \/ Launch(t, Retried(flow[t], "reviewing", "none"))
        \/ BlockReview(t)
    BY <1>20 DEF ReviewFails
  <2> QED
    BY <1>3, <1>6, <2>2, <2>3, <2>4, <2>b, <2>5, <2>6
<1>21. CASE CleanupOver(t)
  <2>1. p = "cleanup" /\ Move(t, "completed", Outcome(m, "completed", "idle"), NoFlow, flow[t])
    BY <1>21 DEF CleanupOver, At
  <2>2. /\ Outcome(m, "completed", "idle") \in Outcomes /\ Outcome(m, "completed", "idle").pc = "idle"
        /\ Cared(Outcome(m, "completed", "idle"))
    <3>1. "completed" \in MissionState
      BY DEF MissionState
    <3> QED
      BY <1>0, <3>1, OutcomeTyped, OutcomeFields, OtherCared, AwaitNames
  <2>3. CanTransitionMission(Home(p), "completed") /\ flow[t].run # "running"
    BY <1>4, <2>1, HomeOf, LegalMoves, Awaits
  <2> QED
    BY <1>7, <2>1, <2>2, <2>3
<1>22. ~ReviewFenced(t)
  BY DEF ReviewFenced
<1>23. CASE StreamThrows(t)
  <2>1. /\ flow[t].run = "running" /\ Throw(t, flow[t])
        /\ UNCHANGED <<state, approvals>>
    BY <1>23 DEF StreamThrows, missionVars
  <2>2. Home(p) = "running"
    BY <1>23, HomeOf DEF StreamThrows, At
  <2> QED
    BY <1>0, <2>1, <2>2, ThrowGoes DEF Goes
<1> QED
  BY <1>10, <1>11, <1>12, <1>13, <1>14, <1>15, <1>16, <1>17, <1>18, <1>19, <1>20, <1>21, <1>22, <1>23
  DEF Continue

\* A fenced coroutine ends, and only its record changes.
LEMMA FencedLeaves ==
  ASSUME TypeOK, Fit, Drive, NEW t \in Threads, Continue(t), Fenced(t)
  PROVE  /\ UNCHANGED <<projectVars, missionVars, callVars, hostVars>> /\ up
         /\ \E f : flow' = [flow EXCEPT ![t] = f] /\ f.pc = "idle"
                   /\ f.run # "running"
                   /\ (flow[t].run = "cancelling" => f.run = "cancelling")
<1>0. flow[t] \in Flow /\ up
  BY TypeParts, ContinueAlone DEF CallsTyped
<1>1. /\ Exit(flow[t]).pc = "idle" /\ Exit(flow[t]).run # "running"
      /\ flow[t].run = "cancelling" => Exit(flow[t]).run = "cancelling"
  BY <1>0, PcOf, RunOf DEF Exit, NoFlow
<1>2. CASE Abandon(t)
  BY <1>0, <1>1, <1>2 DEF Abandon
<1>3. CASE ReviewFenced(t)
  <2>1. /\ UNCHANGED <<projectVars, missionVars, callVars, hostVars>>
        /\ flow' = [flow EXCEPT ![t] = IF flow[t].run = "running" THEN NoFlow ELSE Exit(flow[t])]
    BY <1>3 DEF ReviewFenced
  <2>2. CASE flow[t].run = "running"
    BY <1>0, <2>1, <2>2, PcOf, RunOf
  <2>3. CASE flow[t].run # "running"
    BY <1>0, <1>1, <2>1, <2>3
  <2> QED
    BY <2>2, <2>3
<1>4. ~StreamThrows(t)
  <2>1. t = <<t[1], t[2]>> /\ t[1] \in Missions /\ t[2] \in Slots
    BY DEF Threads
  <2>2. Current(t) => flow[t].gen = gen /\ status # "paused"
    BY <2>1 DEF Fit, ThreadsFit, Current
  <2>3. flow[t].run # "running"
    BY <1>0, <2>2 DEF Drive, RunFits, Fenced, AcceptingWork
  <2> QED
    BY <2>3 DEF StreamThrows
<1> QED
  BY <1>2, <1>3, <1>4, ContinueFences

LEMMA HomeAwaits ==
  ASSUME NEW p \in PC, p # "idle"
  PROVE  /\ Home(p) = "validating" => p \in ValidatePC
         /\ Home(p) = "review_required" => p \in ReviewPC
         /\ Home(p) = "running" => p \in ExecutePC
         /\ Home(p) = "integrated" => p = "cleanup"
  BY Awaits, HomeOf, AwaitNames

LEMMA ContinueDrives ==
  ASSUME TypeOK, Fit, Drive, NEW t \in Threads, Continue(t)
  PROVE  Drive'
<1> DEFINE m == t[1]
           k == t[2]
<1>0. /\ m \in Missions /\ k \in Slots /\ t = <<m, k>>
      /\ up /\ Alone(t) /\ CallsKept
      /\ MissionsTyped /\ CallsTyped
      /\ RequestsFit /\ \A u \in Threads : RunFits(u) /\ u[1] \in Missions
      /\ \A n \in Missions : Attended(n) /\ \A j \in Slots : <<n, j>> \in Threads
  BY TypeParts, ContinueAlone, ContinueKeepsCalls DEF Threads, Drive
<1>1. gen' = gen /\ status' \in {status, "completed"}
  <2>1. CASE Fenced(t)
    BY <2>1, ContinueFences, FencedEnds
  <2>2. CASE ~Fenced(t)
    BY <2>2, ContinueSteps
  <2> QED
    BY <2>1, <2>2
<1>2. RequestsFit'
  BY <1>0, <1>1 DEF RequestsFit, CallsKept, callVars
<1>3. ~Fenced(t) => /\ Current(t) /\ status # "paused" /\ status' # "paused"
                    /\ state[m] \in {Home(flow[t].pc), "cancelled"}
                    /\ \A j \in Slots : Current(<<m, j>>) => j = k
  <2>1. flow[t].pc # "idle"
    BY DEF Continue, WorktreePrepared, StartRun, ProviderCompletes, ProviderFails, StreamThrows,
         BackoffOver, ChecksPass, ValidationFails, Published, PublicationFails, StartReview,
         ReviewFenced, ReviewCompletes, ReviewFails, CleanupOver, At
  <2>2. ~Fenced(t) => Current(t) /\ status # "paused"
    BY <2>1 DEF Fenced, AcceptingWork, Current
  <2> QED
    BY <1>0, <1>1, <2>2 DEF Fit, ThreadsFit
<1>6. flow[t].pc # "idle"
  BY DEF Continue, WorktreePrepared, StartRun, ProviderCompletes, ProviderFails, StreamThrows,
         BackoffOver, ChecksPass, ValidationFails, Published, PublicationFails, StartReview,
         ReviewFenced, ReviewCompletes, ReviewFails, CleanupOver, At
<1>4. CASE ~up'
  <2>1. \A u \in Threads : RunFits(u)'
    BY <1>0, <1>4, RunLost DEF Alone
  <2>2. ~Fenced(t)
    BY <1>0, <1>4, FencedLeaves DEF hostVars
  <2>3. \A n \in Missions : Attended(n)'
    BY <1>3, <1>4, <2>2 DEF Attended
  <2> QED
    BY <1>2, <2>1, <2>3 DEF Drive
<1>5. CASE up'
  <2>0. UNCHANGED <<pauseTodo, cancelTodo, cancelCur, died>>
    BY <1>0, <1>5 DEF CallsKept, callVars
  <2>1. \A u \in Threads : u # t => flow'[u] = flow[u]
    BY <1>0, <1>5 DEF Alone
  <2>2. ASSUME NEW n \in Missions, state'[n] = state[n], approvals'[n] = approvals[n],
               n # m \/ (~Current(t) /\ (flow[t].run = "cancelling" => flow'[t].run = "cancelling"))
        PROVE  Attended(n)'
    <3>1. \A j \in Slots : Current(<<n, j>>) => flow'[<<n, j>>] = flow[<<n, j>>]
      BY <1>0, <2>1, <2>2
    <3>2. ASSUME Cancelling(n) PROVE Cancelling(n)'
      <4>1. PICK u \in cancelCur \ pauseTodo : u[1] = n /\ flow[u].run = "cancelling"
        BY <3>2 DEF Cancelling
      <4>2. flow'[u].run = "cancelling"
        BY <1>0, <2>1, <2>2, <4>1 DEF CallsTyped
      <4> QED
        BY <2>0, <4>1, <4>2 DEF Cancelling
    <3>3. LeftBehind(n) => LeftBehind(n)'
      <4>1. \A j \in Slots : flow[<<n, j>>].run = "left" => <<n, j>> # t
        BY <1>0, <1>6 DEF RunFits
      <4> QED
        BY <1>0, <2>1, <4>1 DEF LeftBehind
    <3> QED
      BY <1>0, <1>1, <1>5, <2>0, <2>2, <3>1, <3>2, <3>3, AttendedKept
  <2>3. ASSUME NEW u \in Threads, u # t,
               state'[u[1]] = state[u[1]] \/ ~Current(u)
        PROVE  RunFits(u)'
    BY <1>0, <1>1, <1>5, <2>0, <2>1, <2>3, RunKept
  <2>4. CASE Fenced(t)
    <3>1. /\ UNCHANGED <<state, approvals>>
          /\ \E f : flow' = [flow EXCEPT ![t] = f] /\ f.pc = "idle"
                   /\ f.run # "running"
                   /\ (flow[t].run = "cancelling" => f.run = "cancelling")
      BY <2>4, FencedLeaves DEF missionVars
    <3>2. ~Current(t)
      BY <1>0, <2>4 DEF Fit, ThreadsFit, Fenced, AcceptingWork, Current
    <3>4. /\ flow'[t].pc = "idle" /\ flow'[t].run # "running"
          /\ flow[t].run = "cancelling" => flow'[t].run = "cancelling"
      BY <1>0, <3>1 DEF CallsTyped
    <3>5. RunFits(t)'
      BY <3>4 DEF RunFits, Current
    <3>6. \A u \in Threads : RunFits(u)'
      BY <2>3, <3>1, <3>5
    <3>7. \A n \in Missions : Attended(n)'
      BY <2>2, <3>1, <3>2, <3>4
    <3> QED
      BY <1>2, <3>6, <3>7 DEF Drive
  <2>5. CASE ~Fenced(t)
    <3>1. Goes(t)
      BY <1>5, <2>5, ContinueGoes
    <3>2. \A n \in Missions \ {m} : state'[n] = state[n] /\ approvals'[n] = approvals[n]
      BY <1>0, <3>1 DEF Goes, Handed, Pursued, Delivered, Commit, MissionsTyped
    <3>3. \A n \in Missions \ {m} : Attended(n)'
      BY <2>2, <3>2
    <3>4. ASSUME NEW u \in Threads, u # t PROVE RunFits(u)'
      <4>1. CASE u[1] = m
        <5>1. u = <<m, u[2]>> /\ u[2] \in Slots /\ u[2] # k
          BY <1>0, <3>4, <4>1 DEF Threads
        <5> QED
          BY <1>3, <2>3, <2>5, <3>4, <5>1
      <4>2. CASE u[1] # m
        BY <1>0, <2>3, <3>2, <3>4, <4>2
      <4> QED
        BY <4>1, <4>2
    <3>5. t \notin pauseTodo /\ t \notin pauseTodo'
      BY <1>0, <1>3, <2>0, <2>5 DEF RunFits
    <3>6. CASE Handed(t)
      <4>1. RunFits(t)'
        BY <3>6 DEF Handed, RunFits, Current
      <4>2. ASSUME state[m] = "cancelled" PROVE Attended(m)'
        <5>1. state'[m] = "cancelled"
          BY <3>6, <4>2 DEF Handed
        <5> QED
          BY <1>0, <1>3, <2>5, <5>1, AttendedAtRest
      <4>3. ASSUME flow'[t].run = "cancelling", t \in cancelCur, flow[t].pc \in Live
            PROVE  Attended(m)'
        <5>1. Cancelling(m)'
          BY <2>0, <3>5, <4>3 DEF Cancelling
        <5>2. state'[m] \in {"running", "review_required", "cancelled"}
          BY <1>3, <2>5, <3>6, <4>3, HomeOf, Awaits DEF Handed
        <5> QED
          BY <1>3, <2>5, <5>1, <5>2 DEF Attended
      <4>5. ASSUME flow'[t].run = "left", Home(flow[t].pc) \in {"running", "review_required"}
            PROVE  Attended(m)'
        <5>1. LeftBehind(m)'
          BY <1>0, <4>5 DEF LeftBehind
        <5>2. state'[m] \in {"running", "review_required", "cancelled"}
          BY <1>3, <2>5, <3>6, <4>5 DEF Handed
        <5> QED
          BY <1>3, <2>5, <5>1, <5>2 DEF Attended
      <4>4. Attended(m)'
        BY <3>6, <4>2, <4>3, <4>5 DEF Handed
      <4> QED
        BY <1>2, <3>3, <3>4, <4>1, <4>4 DEF Drive
    <3>7. CASE Pursued(t)
      <4>1. RunFits(t)'
        BY <1>1, <3>5, <3>7 DEF RunFits, Current, Pursued
      <4>2. flow'[t].pc \in PC
        <5>1. TypeOK'
          BY ExecuteStepsTyped, ValidateStepsTyped, ReviewStepsTyped DEF Continue
        <5> QED
          BY <5>1 DEF TypeOK, Flow
      <4>3. /\ state'[m] \in {Home(flow'[t].pc), "cancelled"}
            /\ flow'[<<m, k>>].pc # "idle" /\ flow'[<<m, k>>].gen = gen'
            /\ flow'[<<m, k>>].pc = flow'[t].pc
        BY <1>0, <1>1, <1>3, <2>5, <3>7 DEF Pursued
      <4>4. /\ state'[m] = "validating" => DrivenBy(m, ValidatePC)'
            /\ state'[m] = "review_required" => DrivenBy(m, ReviewPC)'
            /\ state'[m] = "running" => DrivenBy(m, ExecutePC)'
            /\ state'[m] = "integrated" => DrivenBy(m, {"cleanup"})'
        BY <1>0, <4>2, <4>3, HomeAwaits DEF DrivenBy, ValidatePC, ReviewPC, ExecutePC
      <4>5. Attended(m)'
        BY <1>3, <2>5, <4>4 DEF Attended
      <4> QED
        BY <1>2, <3>3, <3>4, <4>1, <4>5 DEF Drive
    <3>8. CASE Delivered(t)
      <4>1. PICK o \in Outcomes :
              /\ Cared(o) /\ Commit(m, o)
              /\ flow'[t].pc = o.pc /\ flow'[t].run = "none"
              /\ o.pc # "idle" => flow'[t].gen = gen
        BY <3>8 DEF Delivered
      <4>2. RunFits(t)'
        BY <3>5, <4>1, RunStarted DEF Cared
      <4>3. state'[m] = o.state /\ approvals'[m] = OpenApproval(approvals[m], o.ask)
        BY <1>0, <4>1 DEF Commit, MissionsTyped
      <4>4. o.ask = "human" => approvals'[m]["human"] > 0
        <5>1. approvals[m] \in [ApprovalKind -> Nat] /\ "human" \in ApprovalKind
          BY <1>0 DEF MissionsTyped, ApprovalKind
        <5> QED
          BY <4>3, <5>1, AskedIsOpen
      <4>5. Attended(m)'
        BY <1>0, <1>1, <1>3, <2>5, <4>1, <4>3, <4>4, AttendedMoved
      <4> QED
        BY <1>2, <3>3, <3>4, <4>2, <4>5 DEF Drive
    <3> QED
      BY <3>1, <3>6, <3>7, <3>8 DEF Goes
  <2> QED
    BY <2>4, <2>5
<1> QED
  BY <1>4, <1>5

-----------------------------------------------------------------------------
(* Every other step keeps the invariant *)

\* A free slot holds no run that a request waits for.
LEMMA FreeSlotUnwaited ==
  ASSUME NEW m \in Missions, FreeSlots(m) # {}
  PROVE  <<m, SlotFor(m)>> \notin pauseTodo \cup cancelTodo \cup cancelCur
  BY DEF SlotFor, FreeSlots

\* The record of a coroutine started with an outcome.
LEMMA SpawnedRecord ==
  ASSUME gen \in Nat, NEW o \in Outcomes, NEW c \in BOOLEAN
  PROVE  /\ Spawned(o, c).pc = o.pc /\ Spawned(o, c).run = "none"
         /\ o.pc # "idle" => Spawned(o, c).gen = gen
  BY SpawnedPc, RunOf DEF Spawned, NoFlow

\* A mission none of whose coroutines is touched.
LEMMA MissionUntouched ==
  ASSUME CallsTyped, NEW m \in Missions, Attended(m), state'[m] = state[m],
         approvals'[m]["human"] = approvals[m]["human"] \/ state[m] # "review_required",
         gen' = gen, status' = status, up,
         UNCHANGED <<died, pauseTodo, cancelCur>>,
         \A j \in Slots : flow'[<<m, j>>] = flow[<<m, j>>]
  PROVE  Attended(m)'
<1>1. ASSUME Cancelling(m) PROVE Cancelling(m)'
  <2>1. PICK u \in cancelCur \ pauseTodo : u[1] = m /\ flow[u].run = "cancelling"
    BY <1>1 DEF Cancelling
  <2>2. u = <<m, u[2]>> /\ u[2] \in Slots
    BY <2>1 DEF CallsTyped, Threads
  <2> QED
    BY <2>1, <2>2 DEF Cancelling
<1>2. LeftBehind(m) => LeftBehind(m)'
  BY DEF LeftBehind
<1> QED
  BY <1>1, <1>2, AttendedKept

LEMMA TickDrives ==
  ASSUME TypeOK, Fit, Drive, Tick
  PROVE  Drive'
<1>0. /\ MissionsTyped /\ CallsTyped /\ gen \in Nat
      /\ UNCHANGED <<status, gen, callVars, up, died>>
      /\ up /\ status = "active"
      /\ RequestsFit
  BY TypeParts DEF Tick, TypeOK, Drive, projectVars, hostVars
<1>1. PICK S \in Selections :
          /\ \A m \in S : FreeSlots(m) # {}
          /\ \E o : /\ \A m \in S : o[m] \in ExecuteOutcomes(m, attempts[m], TRUE)
                    /\ state' = [m \in Missions |-> IF m \in S THEN o[m].state
                                             ELSE IF m \in Promoted THEN "ready" ELSE state[m]]
                    /\ approvals' = [m \in Missions |-> IF m \in S THEN OpenApproval(approvals[m], o[m].ask)
                                                 ELSE approvals[m]]
                    /\ flow' = [t \in Threads |-> IF t[1] \in S /\ t[2] = SlotFor(t[1])
                                            THEN Spawned(o[t[1]], TRUE) ELSE flow[t]]
  BY DEF Tick
<1>2. PICK o : /\ \A m \in S : o[m] \in ExecuteOutcomes(m, attempts[m], TRUE)
               /\ state' = [m \in Missions |-> IF m \in S THEN o[m].state
                                             ELSE IF m \in Promoted THEN "ready" ELSE state[m]]
               /\ approvals' = [m \in Missions |-> IF m \in S THEN OpenApproval(approvals[m], o[m].ask)
                                                 ELSE approvals[m]]
               /\ flow' = [t \in Threads |-> IF t[1] \in S /\ t[2] = SlotFor(t[1])
                                            THEN Spawned(o[t[1]], TRUE) ELSE flow[t]]
  BY <1>1
<1>3. /\ S \subseteq Missions
      /\ \A m \in S \cup Promoted : state[m] \in {"proposed", "ready"}
  BY DEF Selections, Ready, Promoted
<1>4. RequestsFit'
  BY <1>0 DEF RequestsFit, callVars
<1>5. \A m \in S : /\ o[m] \in Outcomes /\ Cared(o[m]) /\ o[m].state \in {"assigned", "blocked"}
  <2>1. \A m \in S : attempts[m] \in Nat /\ m \in Missions
    BY <1>0, <1>3 DEF MissionsTyped
  <2> QED
    BY <1>0, <1>2, <2>1, ExecuteCared, ExecuteSound DEF Unjudged, Sound
<1>6. ASSUME NEW n \in Missions PROVE Attended(n)'
  <2>1. ASSUME n \in S \cup Promoted PROVE Attended(n)'
    <3>1. state'[n] \in {"assigned", "blocked", "ready"}
      BY <1>2, <1>5, <2>1
    <3> QED
      BY <1>0, <3>1, AttendedAtRest
  <2>2. ASSUME n \notin S \cup Promoted PROVE Attended(n)'
    <3>1. state'[n] = state[n] /\ approvals'[n] = approvals[n]
      BY <1>2, <2>2
    <3>2. \A j \in Slots : flow'[<<n, j>>] = flow[<<n, j>>]
      BY <1>2, <2>2 DEF Threads
    <3> QED
      BY <1>0, <3>1, <3>2, MissionUntouched DEF Drive, callVars
  <2> QED
    BY <2>1, <2>2
<1>7. ASSUME NEW u \in Threads PROVE RunFits(u)'
  <2>0. u[1] \in Missions /\ u[2] \in Slots /\ u = <<u[1], u[2]>>
    BY DEF Threads
  <2>1. ASSUME u[1] \in S, u[2] = SlotFor(u[1]) PROVE RunFits(u)'
    <3>1. flow'[u] = Spawned(o[u[1]], TRUE)
      BY <1>2, <2>1
    <3>2. u \notin pauseTodo'
      BY <1>0, <1>1, <2>0, <2>1, FreeSlotUnwaited DEF callVars
    <3>3. flow'[u].run = "none" /\ flow'[u].pc \notin Live
      BY <1>0, <1>5, <2>1, <3>1, SpawnedRecord DEF Cared
    <3> QED
      BY <3>2, <3>3, RunStarted
  <2>2. ASSUME ~(u[1] \in S /\ u[2] = SlotFor(u[1])) PROVE RunFits(u)'
    <3>1. flow'[u] = flow[u]
      BY <1>2, <2>2
    <3>2. state'[u[1]] = state[u[1]] \/ ~Current(u)
      <4>1. CASE u[1] \in S \cup Promoted
        <5>1. state[u[1]] \notin Homes \cup {"cancelled"}
          BY <1>3, <4>1 DEF Homes
        <5> QED
          BY <2>0, <5>1, Unattended DEF Fit
      <4>2. CASE u[1] \notin S \cup Promoted
        BY <1>2, <2>0, <4>2
      <4> QED
        BY <4>1, <4>2
    <3> QED
      BY <1>0, <3>1, <3>2, RunKept DEF Drive, callVars
  <2> QED
    BY <2>1, <2>2
<1> QED
  BY <1>4, <1>6, <1>7 DEF Drive

LEMMA PauseDrives ==
  ASSUME TypeOK, Fit, Drive, PauseBegin
  PROVE  Drive'
<1> DEFINE cancelled == {t \in Threads : flow[t].run \in RunCancellableOnPause \cup {"left"}}
<1>0. /\ CallsTyped /\ gen \in Nat /\ gen' = gen + 1 /\ up /\ up' /\ status' = "paused"
      /\ state' = [m \in Missions |-> IF state[m] \in MissionPauseable THEN "paused" ELSE state[m]]
      /\ flow' = [t \in Threads |-> IF t \in cancelled THEN WithRun(flow[t], "cancelling")
                                                         ELSE flow[t]]
      /\ UNCHANGED cancelTodo
      /\ state \in [Missions -> MissionState]
  BY TypeParts DEF PauseBegin, NextGeneration, hostVars, TypeOK
<1>1. RequestsFit'
  BY <1>0 DEF Drive, RequestsFit
<1>2. ASSUME NEW m \in Missions PROVE Attended(m)'
  <2>1. state'[m] \in Suspended
    BY <1>0 DEF MissionPauseable, MissionState, Suspended
  <2> QED
    BY <1>0, <2>1 DEF Attended
<1>3. ASSUME NEW t \in Threads PROVE RunFits(t)'
  <2>1. flow[t] \in Flow /\ (flow[t].pc # "idle" => flow[t].gen <= gen)
    <3>1. flow[t] \in Flow /\ t = <<t[1], t[2]>> /\ t[1] \in Missions /\ t[2] \in Slots
      BY <1>0 DEF CallsTyped, Threads
    <3> QED
      BY <3>1 DEF Fit, ThreadsFit
  <2>2. "cancelling" \in FlowRun \ {"running"} /\ "running" \in RunCancellableOnPause
    BY AwaitNames DEF RunCancellableOnPause
  <2>3. /\ flow'[t].run \notin {"running", "left"}
        /\ \/ flow'[t].pc = "idle"
           \/ flow'[t].pc = flow[t].pc /\ flow'[t].gen = flow[t].gen
    <3>1. CASE t \in cancelled
      <4>1. flow'[t] = WithRun(flow[t], "cancelling")
        BY <1>0, <3>1
      <4> QED
        BY <2>1, <2>2, <4>1, RunCancelled, RunOf
    <3>2. CASE t \notin cancelled
      BY <1>0, <2>2, <3>2
    <3> QED
      BY <3>1, <3>2
  <2>4. flow[t].gen \in Nat
    BY <2>1 DEF Flow
  <2>5. ~Current(t)'
    BY <1>0, <2>1, <2>3, <2>4 DEF Current
  <2> QED
    BY <2>3, <2>5 DEF RunFits
<1> QED
  BY <1>1, <1>2, <1>3 DEF Drive

\* Where resumeProject puts a paused mission, it is cared for.
LEMMA ResumeCared ==
  ASSUME TypeOK, NEW m \in Missions, NEW o \in ResumeOutcomes(m)
  PROVE  Cared(o) \/ (o.state = "integrated" /\ o.pc = "idle")
<1>0. /\ MissionsTyped /\ pausedFrom[m] \in MissionPauseable \cup {"none"}
      /\ succeeded[m] \in BOOLEAN
  BY TypeParts DEF TypeOK
<1> DEFINE to == ResumeTarget(m)
<1>1. to \in {"proposed", "ready", "validating", "review_required", "approved", "integrated", "blocked"}
  BY <1>0 DEF ResumeTarget, ResumeMissionTarget, MissionPauseable
<1>2. /\ to = "validating" => o \in ValidateOutcomes(m, succeeded[m], TRUE)
      /\ to = "review_required" => o \in ReviewOutcomes(m, TRUE)
      /\ to = "approved" => o \in IntegrateOutcomes(m, TRUE)
      /\ to \in {"proposed", "ready", "integrated", "blocked"} => o = Outcome(m, to, "idle")
  BY DEF ResumeOutcomes
<1> HIDE DEF to
<1>3. CASE to = "validating"
  BY <1>0, <1>2, <1>3, ValidateCared
<1>4. CASE to = "review_required"
  BY <1>2, <1>4, ReviewCared
<1>5. CASE to = "approved"
  BY <1>2, <1>5, IntegrateCared
<1>6. CASE to = "integrated"
  BY <1>2, <1>6, OutcomeFields
<1>7. CASE to \in {"proposed", "ready", "blocked"}
  BY <1>2, <1>7, OtherCared
<1> QED
  BY <1>1, <1>3, <1>4, <1>5, <1>6, <1>7

LEMMA ResumeDrives ==
  ASSUME TypeOK, Fit, Drive, ResumeProject
  PROVE  Drive'
<1> DEFINE S == {m \in Missions : state[m] = "paused"}
<1>0. /\ MissionsTyped /\ CallsTyped /\ gen \in Nat
      /\ UNCHANGED <<gen, callVars, up, died>>
      /\ up /\ status = "paused" /\ status' = "active"
      /\ RequestsFit /\ gen > 0
  BY TypeParts DEF ResumeProject, TypeOK, Drive, RequestsFit, hostVars
<1>1. PICK o : /\ \A m \in S : o[m] \in ResumeOutcomes(m)
               /\ CommitAll(S, o)
               /\ \A m \in S : FreeSlots(m) # {}
               /\ flow' = [t \in Threads |-> IF t[1] \in S /\ t[2] = SlotFor(t[1])
                                           THEN Spawned(o[t[1]], FALSE) ELSE flow[t]]
  BY DEF ResumeProject
<1>2. RequestsFit'
  BY <1>0 DEF RequestsFit, callVars
<1>3. \A m \in S : /\ o[m] \in Outcomes
                   /\ Cared(o[m]) \/ (o[m].state = "integrated" /\ o[m].pc = "idle")
  BY <1>1, ResumeCared, ResumeSound DEF Sound
<1>4. \A m \in Missions \ S : state[m] \in Suspended
  BY <1>0 DEF Drive, Attended
<1>5. S \subseteq Missions
  OBVIOUS
<1> HIDE DEF S
<1>6. ASSUME NEW n \in Missions PROVE Attended(n)'
  <2>1. ASSUME n \in S PROVE Attended(n)'
    <3>1. state'[n] = o[n].state /\ approvals'[n] = OpenApproval(approvals[n], o[n].ask)
      BY <1>1, <2>1 DEF CommitAll
    <3>2. o[n].ask = "human" => approvals'[n]["human"] > 0
      <4>1. approvals[n] \in [ApprovalKind -> Nat] /\ "human" \in ApprovalKind
        BY <1>0 DEF MissionsTyped, ApprovalKind
      <4> QED
        BY <3>1, <4>1, AskedIsOpen
    <3>3. /\ SlotFor(n) \in Slots /\ <<n, SlotFor(n)>> \in Threads
          /\ flow'[<<n, SlotFor(n)>>] = Spawned(o[n], FALSE)
      <4>1. SlotFor(n) \in Slots /\ <<n, SlotFor(n)>> \in Threads
        BY <1>1, <2>1, SlotIsFree DEF Threads
      <4> QED
        BY <1>1, <2>1, <4>1
    <3>4. o[n].pc # "idle" => \E j \in Slots : flow'[<<n, j>>].pc = o[n].pc /\ flow'[<<n, j>>].gen = gen'
      BY <1>0, <1>3, <2>1, <3>3, SpawnedRecord
    <3> QED
      BY <1>0, <1>3, <2>1, <3>1, <3>2, <3>4, AttendedMoved
  <2>2. ASSUME n \notin S PROVE Attended(n)'
    <3>1. state'[n] = state[n]
      BY <1>1, <2>2 DEF CommitAll
    <3>2. state'[n] \notin {"validating", "review_required", "running", "integrated"}
      BY <1>4, <2>2, <3>1 DEF Suspended
    <3> QED
      BY <1>0, <3>2, AttendedAtRest
  <2> QED
    BY <2>1, <2>2
<1>7. ASSUME NEW u \in Threads PROVE RunFits(u)'
  <2>0. u[1] \in Missions /\ u[2] \in Slots /\ u = <<u[1], u[2]>>
    BY DEF Threads
  <2>1. ASSUME u[1] \in S, u[2] = SlotFor(u[1]) PROVE RunFits(u)'
    <3>1. flow'[u] = Spawned(o[u[1]], FALSE)
      BY <1>1, <2>1
    <3>2. u \notin pauseTodo'
      BY <1>0, <1>1, <2>0, <2>1, FreeSlotUnwaited DEF callVars
    <3>3. o[u[1]] \in Outcomes /\ o[u[1]].pc \notin Live
      BY <1>3, <2>1, Awaits DEF Cared
    <3>4. flow'[u].run = "none" /\ flow'[u].pc \notin Live
      BY <1>0, <3>1, <3>3, SpawnedRecord
    <3> QED
      BY <3>2, <3>4, RunStarted
  <2>2. ASSUME ~(u[1] \in S /\ u[2] = SlotFor(u[1])) PROVE RunFits(u)'
    <3>1. flow'[u] = flow[u]
      BY <1>1, <2>2
    <3>2. ~Current(u)
      BY <1>0, <2>0, Unattended DEF Fit
    <3> QED
      BY <1>0, <3>1, <3>2, RunKept DEF Drive, callVars
  <2> QED
    BY <2>1, <2>2
<1> QED
  BY <1>2, <1>6, <1>7 DEF Drive

LEMMA PauseCancelDrives ==
  ASSUME TypeOK, Fit, Drive, NEW t \in Threads, PauseCancelsRun(t)
  PROVE  Drive'
<1>0. /\ CallsTyped /\ RequestsFit /\ \A u \in Threads : RunFits(u) /\ u[1] \in Missions
      /\ \A n \in Missions : Attended(n) /\ \A j \in Slots : <<n, j>> \in Threads
      /\ up /\ t \in pauseTodo /\ pauseTodo' = pauseTodo \ {t}
      /\ flow' = [flow EXCEPT ![t] = IF @.run = "cancelling" THEN WithRun(@, "cancelled") ELSE @]
      /\ UNCHANGED <<gen, status, state, approvals, up, died, cancelTodo, cancelCur>>
  BY TypeParts
  DEF Drive, Threads, PauseCancelsRun, projectVars, missionVars, resultVars, hostVars
<1>1. RequestsFit'
  BY <1>0 DEF RequestsFit
<1>2. flow[t] \in Flow /\ ~Current(t) /\ flow[t].run # "running"
  BY <1>0 DEF RunFits, CallsTyped
<1>3. \A u \in Threads : u # t => flow'[u] = flow[u]
  BY <1>0 DEF CallsTyped
<1>4. RunFits(t)'
  <2>1. \/ flow'[t] = flow[t]
        \/ flow'[t] = WithRun(flow[t], "cancelled")
    BY <1>0 DEF CallsTyped
  <2>2. "cancelled" \in FlowRun \ {"running"}
    BY AwaitNames
  <2>3. flow'[t].run # "running" /\ ~Current(t)'
    BY <1>0, <1>2, <2>1, <2>2, RunCancelled, RunOf DEF Current
  <2>4. CASE flow'[t] = flow[t]
    BY <1>0, <2>3, <2>4 DEF RunFits
  <2>5. CASE flow'[t] = WithRun(flow[t], "cancelled")
    <3>1. flow'[t].run # "left"
      BY <1>2, <2>2, <2>5, RunOf
    <3> QED
      BY <2>3, <3>1 DEF RunFits
  <2> QED
    BY <2>1, <2>4, <2>5
<1>5. ASSUME NEW u \in Threads, u # t PROVE RunFits(u)'
  BY <1>0, <1>3, <1>5, RunKept
<1>6. ASSUME NEW n \in Missions PROVE Attended(n)'
  <2>1. \A j \in Slots : Current(<<n, j>>) => flow'[<<n, j>>] = flow[<<n, j>>]
    BY <1>0, <1>2, <1>3
  <2>2. Cancelling(n) => Cancelling(n)'
    BY <1>0, <1>3 DEF Cancelling, CallsTyped
  <2>3. LeftBehind(n) => LeftBehind(n)'
    <3>1. \A u \in Threads : flow[u].run = "left" => flow'[u].run = "left"
      BY <1>0 DEF CallsTyped
    <3> QED
      BY <1>0, <3>1 DEF LeftBehind
  <2> QED
    BY <1>0, <2>1, <2>2, <2>3, AttendedKept
<1> QED
  BY <1>1, <1>4, <1>5, <1>6 DEF Drive

LEMMA CrashDrives ==
  ASSUME TypeOK, Drive, Crash
  PROVE  Drive'
<1>0. /\ CallsTyped /\ ~up' /\ died' /\ pauseTodo' = {} /\ cancelTodo' = {} /\ cancelCur' = {}
      /\ flow' = [t \in Threads |-> Exit(flow[t])]
      /\ UNCHANGED <<status, gen, state>>
  BY TypeParts DEF Crash, LoseMemory, projectVars, missionVars
<1>1. RequestsFit'
  BY <1>0 DEF Drive, RequestsFit
<1>2. \A t \in Threads : RunFits(t)'
  BY <1>0, PcOf, RunLost DEF CallsTyped
<1>3. \A m \in Missions : Attended(m)'
  BY <1>0 DEF Drive, Attended
<1> QED
  BY <1>1, <1>2, <1>3 DEF Drive

\* A mission that is cancelled, or left where it was with its coroutines.
LEMMA CancelStateDrives ==
  ASSUME TypeOK, Drive, NEW m \in Missions, CancelState(m), up,
         UNCHANGED <<status, gen, approvals, up, died, pauseTodo>>,
         \A t \in Threads : /\ Current(t) => flow'[t].pc = flow[t].pc /\ flow'[t].gen = flow[t].gen
                            /\ t[1] # m => flow'[t] = flow[t] /\ (t \in cancelCur => t \in cancelCur'),
         \/ \A t \in Threads : flow'[t] = flow[t] /\ (t \in cancelCur => t \in cancelCur')
         \/ state'[m] = "cancelled"
         \/ state[m] \notin {"running", "review_required"}
  PROVE  \A n \in Missions : Attended(n)'
<1>0. /\ CallsTyped /\ state \in [Missions -> MissionState]
      /\ \A n \in Missions : Attended(n) /\ \A j \in Slots : <<n, j>> \in Threads
  BY TypeParts DEF Drive, TypeOK, Threads
<1>1. /\ \A n \in Missions \ {m} : state'[n] = state[n]
      /\ state'[m] \in {state[m], "cancelled"}
  BY <1>0 DEF CancelState
<1>2. ASSUME NEW n \in Missions, n # m PROVE Attended(n)'
  <2>1. Cancelling(n) => Cancelling(n)'
    BY <1>0, <1>2 DEF Cancelling, CallsTyped
  <2>2. LeftBehind(n) => LeftBehind(n)'
    <3>1. \A j \in Slots : flow'[<<n, j>>] = flow[<<n, j>>]
      BY <1>0, <1>2
    <3> QED
      BY <3>1 DEF LeftBehind
  <2> QED
    BY <1>0, <1>1, <1>2, <2>1, <2>2, AttendedKept
<1>3. Attended(m)'
  <2>1. ASSUME state'[m] = "cancelled" PROVE Attended(m)'
    BY <2>1 DEF Attended, Suspended
  <2>2. ASSUME state'[m] = state[m],
               \A t \in Threads : flow'[t] = flow[t] /\ (t \in cancelCur => t \in cancelCur')
        PROVE  Attended(m)'
    <3>1. Cancelling(m) => Cancelling(m)'
      BY <1>0, <2>2 DEF Cancelling, CallsTyped
    <3>2. LeftBehind(m) => LeftBehind(m)'
      BY <1>0, <2>2 DEF LeftBehind
    <3> QED
      BY <1>0, <2>2, <3>1, <3>2, AttendedKept
  <2>4. ASSUME state[m] \notin {"running", "review_required"}, state'[m] = state[m]
        PROVE  Attended(m)'
    <3>1. /\ state[m] = "validating" /\ up /\ status = "active" => DrivenBy(m, ValidatePC)
          /\ state[m] = "integrated" /\ up /\ status = "active" =>
                DrivenBy(m, {"cleanup"}) \/ gen > 0 \/ died
          /\ status = "paused" => state[m] \in Suspended
      BY <1>0 DEF Attended
    <3>2. ASSUME NEW pcs, "idle" \notin pcs, DrivenBy(m, pcs)
          PROVE  \E k \in Slots : flow'[<<m, k>>].pc \in pcs /\ flow'[<<m, k>>].gen = gen'
      BY <1>0, <3>2 DEF DrivenBy, Current
    <3>3. /\ DrivenBy(m, ValidatePC) => DrivenBy(m, ValidatePC)'
          /\ DrivenBy(m, {"cleanup"}) => DrivenBy(m, {"cleanup"})'
      BY <3>2, Awaits DEF DrivenBy, ValidatePC
    <3> QED
      BY <2>4, <3>1, <3>3 DEF Attended
  <2> QED
    BY <1>1, <2>1, <2>2, <2>4
<1> QED
  BY <1>2, <1>3

\* The runs without a handle of m are idle: only they change.
LEMMA LeftRunsEnd ==
  ASSUME CallsTyped, NEW m \in Missions, \A t \in Threads : RunFits(t)
  PROVE  /\ WithoutLeft(m) \in [Threads -> Flow]
         /\ \A t \in Threads : t[1] # m \/ flow[t].run # "left" => WithoutLeft(m)[t] = flow[t]
         /\ \A t \in Threads : WithoutLeft(m)[t] # flow[t] =>
               /\ flow[t].pc = "idle" /\ WithoutLeft(m)[t].pc = "idle"
               /\ WithoutLeft(m)[t].run \notin {"running", "left"}
<1>1. WithoutLeft(m) \in [Threads -> Flow]
  BY FlowTyped, AwaitNames DEF CallsTyped, WithoutLeft
<1>2. \A t \in Threads : t[1] # m \/ flow[t].run # "left" => WithoutLeft(m)[t] = flow[t]
  BY DEF WithoutLeft
<1>3. ASSUME NEW t \in Threads, WithoutLeft(m)[t] # flow[t]
      PROVE  /\ flow[t].pc = "idle" /\ WithoutLeft(m)[t].pc = "idle"
             /\ WithoutLeft(m)[t].run \notin {"running", "left"}
  <2>1. WithoutLeft(m)[t] = WithRun(flow[t], "cancelled") /\ flow[t].run = "left"
    BY <1>2, <1>3 DEF WithoutLeft
  <2>2. flow[t] \in Flow /\ "cancelled" \in FlowRun \ {"running", "left"}
    BY AwaitNames DEF CallsTyped
  <2>3. flow[t].pc = "idle"
    BY <2>1 DEF RunFits
  <2>4. WithoutLeft(m)[t].pc = "idle"
    BY <2>1, <2>2, <2>3, RunCancelled
  <2>5. WithoutLeft(m)[t].run \notin {"running", "left"}
    BY <2>1, <2>2, RunOf
  <2> QED
    BY <2>3, <2>4, <2>5
<1> QED
  BY <1>1, <1>2, <1>3

LEMMA CancelBeginDrives ==
  ASSUME TypeOK, Fit, Drive, NEW m \in Missions, CancelBegin(m)
  PROVE  Drive'
<1>0. /\ CallsTyped /\ RequestsFit /\ \A u \in Threads : RunFits(u) /\ u[1] \in Missions
      /\ \A n \in Missions : Attended(n) /\ \A j \in Slots : <<n, j>> \in Threads
      /\ up /\ UNCHANGED <<gen, status, approvals, up, died>>
      /\ state \in [Missions -> MissionState]
  BY TypeParts DEF Drive, Threads, CancelBegin, projectVars, resultVars, hostVars, TypeOK
<1>a. /\ WithoutLeft(m) \in [Threads -> Flow]
      /\ \A u \in Threads : u[1] # m \/ flow[u].run # "left" => WithoutLeft(m)[u] = flow[u]
      /\ \A u \in Threads : WithoutLeft(m)[u] # flow[u] =>
            /\ flow[u].pc = "idle" /\ WithoutLeft(m)[u].pc = "idle"
            /\ WithoutLeft(m)[u].run \notin {"running", "left"}
  BY <1>0, LeftRunsEnd
<1>1. CASE RunsOf(m) = {}
  <2>1. CancelState(m) /\ flow' = WithoutLeft(m) /\ UNCHANGED <<pauseTodo, cancelTodo, cancelCur>>
    BY <1>1 DEF CancelBegin, callVars
  <2>2. \A n \in Missions : Attended(n)'
    <3>1. state[m] \in {"running", "review_required"} => state'[m] = "cancelled"
      BY <1>0, <2>1, LegalMoves DEF CancelState
    <3>2. \A u \in Threads :
            /\ Current(u) => flow'[u].pc = flow[u].pc /\ flow'[u].gen = flow[u].gen
            /\ u[1] # m => flow'[u] = flow[u] /\ (u \in cancelCur => u \in cancelCur')
      BY <1>a, <2>1 DEF Current
    <3> QED
      BY <1>0, <2>1, <3>1, <3>2, CancelStateDrives
  <2>3. \A u \in Threads : RunFits(u)'
    <3>1. \A n \in Missions : state'[n] \in {state[n], "cancelled"}
      BY <1>0, <2>1 DEF CancelState
    <3>2. ASSUME NEW u \in Threads, flow'[u] = flow[u] PROVE RunFits(u)'
      BY <1>0, <2>1, <3>1, <3>2, RunKept
    <3>3. ASSUME NEW u \in Threads, flow'[u] # flow[u] PROVE RunFits(u)'
      BY <1>a, <2>1, <3>3 DEF RunFits, Current
    <3> QED
      BY <3>2, <3>3
  <2>4. RequestsFit'
    BY <1>0, <2>1 DEF RequestsFit, callVars
  <2> QED
    BY <2>2, <2>3, <2>4 DEF Drive
<1>2. CASE RunsOf(m) # {}
  <2>1. PICK t \in RunsOf(m) :
              /\ flow' = [WithoutLeft(m) EXCEPT ![t] = WithRun(WithoutLeft(m)[t], "cancelling")]
              /\ cancelCur' = cancelCur \cup {t}
              /\ cancelTodo' = cancelTodo \cup (RunsOf(m) \ {t})
              /\ UNCHANGED <<state, pauseTodo>>
    BY <1>2 DEF CancelBegin
  <2>2. /\ t \in Threads /\ t[1] = m /\ flow[t].run = "running" /\ flow[t] \in Flow
    BY <1>0, <2>1 DEF RunsOf, CallsTyped
  <2>3. \A u \in RunsOf(m) : u \in Threads /\ u[1] = m /\ Current(u)
    BY <1>0 DEF RunsOf, RunFits
  <2>4. RunsOf(m) = {t}
    <3>1. \A u \in RunsOf(m) : u = <<m, u[2]>> /\ u[2] \in Slots
      BY <2>3 DEF Threads
    <3>2. \A u \in RunsOf(m) : u[2] = t[2]
      BY <2>1, <2>3, <3>1 DEF Fit, ThreadsFit
    <3> QED
      BY <2>1, <3>1, <3>2
  <2>5. RequestsFit'
    BY <1>0, <2>1, <2>4 DEF RequestsFit
  <2>6. /\ flow[t].pc # "idle" /\ flow[t].pc \in Live /\ t \notin pauseTodo
        /\ flow'[t].pc = flow[t].pc /\ flow'[t].gen = flow[t].gen /\ flow'[t].run = "cancelling"
    <3>1. flow[t].pc # "idle" /\ flow[t].pc \in Live /\ t \notin pauseTodo
      BY <1>0, <2>1, <2>2, <2>3 DEF RunFits, Current
    <3>a. WithoutLeft(m)[t] = flow[t]
      BY <1>a, <2>2
    <3>2. flow'[t] = [flow[t] EXCEPT !.run = "cancelling"]
      BY <1>a, <2>1, <2>2, <3>1, <3>a DEF WithRun
    <3> QED
      BY <2>2, <3>1, <3>2 DEF Flow
  <2>7. \A u \in Threads : u # t => flow'[u] = WithoutLeft(m)[u]
    BY <1>a, <2>1, <2>2
  <2>8. ASSUME NEW u \in Threads PROVE RunFits(u)'
    <3>1. CASE u = t
      <4>1. t \in cancelCur' /\ t \notin pauseTodo'
        BY <2>1, <2>6
      <4> QED
        BY <2>1, <2>3, <2>6, <1>0, <3>1, <4>1 DEF RunFits, Current
    <3>2. CASE u # t /\ WithoutLeft(m)[u] = flow[u]
      BY <1>0, <2>1, <2>7, <3>2, RunKept
    <3>3. CASE u # t /\ WithoutLeft(m)[u] # flow[u]
      BY <1>a, <2>7, <3>3 DEF RunFits, Current
    <3> QED
      BY <3>1, <3>2, <3>3
  <2>9. ASSUME NEW n \in Missions PROVE Attended(n)'
    <3>1. \A u \in Threads : Current(u) => flow'[u].pc = flow[u].pc /\ flow'[u].gen = flow[u].gen
      BY <1>a, <2>6, <2>7 DEF Current
    <3>2. Cancelling(n) => Cancelling(n)'
      <4>1. \A u \in Threads : flow[u].run = "cancelling" => flow'[u].run = "cancelling"
        BY <1>a, <2>6, <2>7
      <4> QED
        BY <1>0, <2>1, <4>1 DEF Cancelling, CallsTyped
    <3>3. LeftBehind(n) => LeftBehind(n)' \/ Cancelling(n)'
      <4>1. CASE n = m
        <5>1. t \in cancelCur' \ pauseTodo'
          BY <2>1, <2>6
        <5> QED
          BY <2>2, <2>6, <4>1, <5>1 DEF Cancelling
      <4>2. CASE n # m
        <5>1. \A j \in Slots : flow'[<<n, j>>] = flow[<<n, j>>]
          BY <1>0, <1>a, <2>2, <2>7, <4>2
        <5> QED
          BY <5>1 DEF LeftBehind
      <4> QED
        BY <4>1, <4>2
    <3> QED
      BY <1>0, <2>1, <3>1, <3>2, <3>3, AttendedKept
  <2> QED
    BY <2>5, <2>8, <2>9 DEF Drive
<1> QED
  BY <1>1, <1>2

LEMMA CancelContinuesDrives ==
  ASSUME TypeOK, Fit, Drive, NEW t \in Threads, CancelContinues(t)
  PROVE  Drive'
<1> DEFINE m == t[1]
           done == [flow EXCEPT ![t] = WithRun(flow[t], "cancelled")]
<1>0. /\ CallsTyped /\ RequestsFit /\ \A u \in Threads : RunFits(u) /\ u[1] \in Missions
      /\ \A n \in Missions : Attended(n) /\ \A j \in Slots : <<n, j>> \in Threads
      /\ up /\ t \in cancelCur /\ UNCHANGED <<gen, status, approvals, up, died, pauseTodo>>
      /\ state \in [Missions -> MissionState]
      /\ flow[t] \in Flow /\ flow[t].run \in FlowRun
  <2>1. flow[t] \in Flow /\ flow[t].run \in FlowRun
    BY TypeParts DEF CallsTyped, Flow
  <2> QED
    BY <2>1, TypeParts
    DEF Drive, Threads, CancelContinues, projectVars, resultVars, hostVars, TypeOK
<1>1. /\ cancelTodo' = {} /\ cancelCur' = cancelCur \ {t}
      /\ \/ flow[t].run # "cancelling" /\ UNCHANGED <<flow, state>>
         \/ flow[t].run = "cancelling" /\ flow' = done /\ CancelState(m)
  <2>1. cancelTodo = {}
    BY <1>0 DEF RequestsFit
  <2>2. CanTransitionRun(flow[t].run, "cancelled") <=> flow[t].run = "cancelling"
    BY <1>0, RunMoves
  <2> QED
    BY <2>1, <2>2 DEF CancelContinues
<1> HIDE DEF done
<1>2. RequestsFit'
  BY <1>0, <1>1 DEF RequestsFit
<1>3. CASE flow[t].run # "cancelling" /\ UNCHANGED <<flow, state>>
  <2>1. ASSUME NEW u \in Threads PROVE RunFits(u)'
    <3>1. CASE u = t
      BY <1>0, <1>3, <3>1 DEF RunFits, Current
    <3>2. CASE u # t
      BY <1>0, <1>1, <1>3, <3>2, RunKept
    <3> QED
      BY <3>1, <3>2
  <2>2. ASSUME NEW n \in Missions PROVE Attended(n)'
    <3>1. Cancelling(n) => Cancelling(n)'
      BY <1>0, <1>1, <1>3 DEF Cancelling
    <3>2. LeftBehind(n) => LeftBehind(n)'
      BY <1>3 DEF LeftBehind
    <3> QED
      BY <1>0, <1>3, <3>1, <3>2, AttendedKept
  <2> QED
    BY <1>2, <2>1, <2>2 DEF Drive
<1>4. CASE flow[t].run = "cancelling" /\ flow' = done /\ CancelState(m)
  <2>1. \A u \in Threads : u # t => flow'[u] = flow[u]
    BY <1>0, <1>4 DEF CallsTyped, done
  <2>2. flow'[t] = WithRun(flow[t], "cancelled")
    BY <1>0, <1>4 DEF CallsTyped, done
  <2>3. /\ flow'[t].run \notin {"running", "left"}
        /\ flow[t].pc # "idle" => flow'[t].pc = flow[t].pc /\ flow'[t].gen = flow[t].gen
        /\ flow[t].pc = "idle" => flow'[t].pc = "idle"
    <3>1. "cancelled" \in FlowRun \ {"running", "left"}
      BY AwaitNames
    <3>2. flow'[t].run \notin {"running", "left"} /\ flow'[t].pc = flow[t].pc
      BY <1>0, <2>2, <3>1, PcOf, RunOf
    <3>3. flow[t].pc # "idle" => flow'[t].gen = flow[t].gen
      BY <1>0, <2>2, <3>1, <3>2, RunCancelled
    <3> QED
      BY <3>2, <3>3
  <2>4. state[m] \in {"running", "review_required"} => state'[m] = "cancelled"
    BY <1>0, <1>4, LegalMoves DEF CancelState
  <2>5. \A n \in Missions : Attended(n)'
    <3>1. m \in Missions
      BY <1>0
    <3>2. \A u \in Threads :
            /\ Current(u) => flow'[u].pc = flow[u].pc /\ flow'[u].gen = flow[u].gen
            /\ u[1] # m => flow'[u] = flow[u] /\ (u \in cancelCur => u \in cancelCur')
      BY <1>1, <2>1, <2>3 DEF Current
    <3> HIDE DEF m
    <3> QED
      BY <1>0, <1>4, <2>4, <3>1, <3>2, CancelStateDrives
  <2>6. \A n \in Missions : state'[n] \in {state[n], "cancelled"}
    BY <1>0, <1>4 DEF CancelState
  <2>7. RunFits(t)'
    <3>1. CASE Current(t)
      <4>1. t \notin pauseTodo /\ flow[t].pc \in Live
        BY <1>0, <1>4, <3>1 DEF RunFits
      <4>2. state[m] \in {Home(flow[t].pc), "cancelled"}
        <5>1. t = <<m, t[2]>> /\ t[2] \in Slots
          BY DEF Threads
        <5> QED
          BY <1>0, <3>1, <5>1 DEF Fit, ThreadsFit
      <4>3. state'[m] = "cancelled"
        BY <1>0, <2>4, <2>6, <4>1, <4>2, HomeOf, Awaits
      <4> QED
        BY <1>0, <2>3, <3>1, <4>1, <4>3 DEF RunFits, Current
    <3>2. CASE ~Current(t)
      BY <1>0, <2>3, <3>2 DEF RunFits, Current
    <3> QED
      BY <3>1, <3>2
  <2>8. ASSUME NEW u \in Threads, u # t PROVE RunFits(u)'
    BY <1>0, <1>1, <2>1, <2>6, <2>8, RunKept
  <2> QED
    BY <1>2, <2>5, <2>7, <2>8 DEF Drive
<1> QED
  BY <1>1, <1>3, <1>4

LEMMA ReconcileCared ==
  ASSUME TypeOK, NEW m \in Missions
  PROVE  /\ status # "paused" => \A o \in ReconcileOutcomes(m) : Cared(o)
         /\ status = "paused" /\ state[m] \in Suspended =>
               \A o \in ReconcileOutcomes(m) : o.state = "ready" /\ o.pc = "idle"
         /\ state[m] \in {"validating", "review_required"} => ReconcileOutcomes(m) # {}
<1> DEFINE open == status # "paused"
<1>0. MissionsTyped /\ succeeded[m] \in BOOLEAN /\ open \in BOOLEAN
  BY TypeParts DEF TypeOK
<1>1. ASSUME NEW o \in ReconcileOutcomes(m)
      PROVE  \/ state[m] = "running" /\ o \in FailOutcomes(m, open)
             \/ state[m] = "assigned" /\ o = Outcome(m, "ready", "idle")
             \/ state[m] = "validating" /\ o \in ValidateOutcomes(m, succeeded[m], open)
             \/ state[m] = "review_required" /\ o \in ReviewOutcomes(m, open)
  BY DEF ReconcileOutcomes
<1>2. ASSUME open, NEW o \in ReconcileOutcomes(m) PROVE Cared(o)
  BY <1>0, <1>1, <1>2, FailCared, ValidateCared, ReviewCared, OtherCared
<1>3. ASSUME state[m] \in Suspended, NEW o \in ReconcileOutcomes(m)
      PROVE  o.state = "ready" /\ o.pc = "idle"
  BY <1>1, <1>3, OutcomeFields DEF Suspended
<1>4. FailOutcomes(m, open) # {} /\ ReviewOutcomes(m, open) # {}
  <2>1. \A a : ExecuteOutcomes(m, a, open) # {}
    BY DEF ExecuteOutcomes
  <2> QED
    BY <2>1 DEF FailOutcomes, ReviewOutcomes
<1>5. ValidateOutcomes(m, succeeded[m], open) # {}
  BY <1>0, <1>4 DEF ValidateOutcomes
<1>6. state[m] \in {"validating", "review_required"} => ReconcileOutcomes(m) # {}
  BY <1>4, <1>5 DEF ReconcileOutcomes
<1> QED
  BY <1>2, <1>3, <1>6

LEMMA RestartDrives ==
  ASSUME TypeOK, Fit, Drive, Restart
  PROVE  Drive'
<1> DEFINE S == {m \in Missions : ReconcileOutcomes(m) # {}}
           first == CHOOSE k \in Slots : TRUE
<1>0. /\ MissionsTyped /\ ~up /\ up' /\ first \in Slots /\ gen \in Nat
      /\ UNCHANGED <<status, gen, died, callVars>>
      /\ RequestsFit /\ died /\ pauseTodo = {} /\ cancelTodo = {}
  BY TypeParts, ConstantsAssumption DEF Restart, projectVars, Drive, RequestsFit, TypeOK
<1>1. PICK o : /\ \A m \in S : o[m] \in ReconcileOutcomes(m)
               /\ CommitAll(S, o)
               /\ flow' = [t \in Threads |-> IF t[1] \in S /\ t[2] = first
                                           THEN Spawned(o[t[1]], FALSE) ELSE NoFlow]
  BY DEF Restart
<1>2. /\ S \subseteq Missions
      /\ \A m \in Missions \ S : state[m] \notin {"validating", "review_required"}
  BY ReconcileCared
<1> HIDE DEF S, first
<1>3. \A m \in S : o[m] \in Outcomes
  BY <1>1, <1>2, ReconcileSound DEF Sound
<1>4. ASSUME NEW m \in S
      PROVE  IF status = "paused" THEN o[m].state = "ready" /\ o[m].pc = "idle" ELSE Cared(o[m])
  BY <1>1, <1>2, ReconcileCared DEF Drive, Attended
<1>5. RequestsFit'
  BY <1>0 DEF RequestsFit, callVars
<1>6. ASSUME NEW u \in Threads PROVE RunFits(u)'
  <2>1. flow'[u].run = "none" /\ flow'[u].pc \notin Live
    <3>1. CASE u[1] \in S /\ u[2] = first
      <4>1. flow'[u] = Spawned(o[u[1]], FALSE)
        BY <1>1, <3>1
      <4>2. o[u[1]].pc \notin Live
        BY <1>4, <3>1, Awaits DEF Cared
      <4>3. o[u[1]] \in Outcomes
        BY <1>3, <3>1
      <4> QED
        BY <1>0, <4>1, <4>2, <4>3, SpawnedRecord
    <3>2. CASE ~(u[1] \in S /\ u[2] = first)
      BY <1>1, <3>2, PcOf, RunOf, Awaits
    <3> QED
      BY <3>1, <3>2
  <2> QED
    BY <1>0, <2>1, RunStarted DEF callVars
<1>7. ASSUME NEW n \in Missions PROVE Attended(n)'
  <2>1. ASSUME n \in S PROVE Attended(n)'
    <3>1. state'[n] = o[n].state /\ approvals'[n] = OpenApproval(approvals[n], o[n].ask)
      BY <1>1, <2>1 DEF CommitAll
    <3>2. o[n].ask = "human" => approvals'[n]["human"] > 0
      <4>1. approvals[n] \in [ApprovalKind -> Nat] /\ "human" \in ApprovalKind
        BY <1>0 DEF MissionsTyped, ApprovalKind
      <4> QED
        BY <3>1, <4>1, AskedIsOpen
    <3>3. flow'[<<n, first>>] = Spawned(o[n], FALSE)
      BY <1>0, <1>1, <2>1 DEF Threads
    <3>4. o[n].pc # "idle" => \E j \in Slots : flow'[<<n, j>>].pc = o[n].pc /\ flow'[<<n, j>>].gen = gen'
      BY <1>0, <1>3, <2>1, <3>3, SpawnedRecord
    <3>5. CASE status = "paused"
      <4>1. state'[n] = "ready" /\ status' = "paused"
        BY <1>0, <1>4, <2>1, <3>1, <3>5
      <4>2. Attended(n)'
        BY <4>1 DEF Attended, Suspended
      <4> QED
        BY <4>2
    <3>6. CASE status # "paused"
      BY <1>0, <1>4, <2>1, <3>1, <3>2, <3>4, <3>6, AttendedMoved
    <3> QED
      BY <3>5, <3>6
  <2>2. ASSUME n \notin S PROVE Attended(n)'
    <3>1. state'[n] = state[n]
      BY <1>1, <2>2 DEF CommitAll
    <3>2. status = "paused" => state[n] \in Suspended
      BY DEF Drive, Attended
    <3> QED
      BY <1>0, <1>2, <2>2, <3>1, <3>2 DEF Attended
  <2> QED
    BY <2>1, <2>2
<1> QED
  BY <1>5, <1>6, <1>7 DEF Drive

LEMMA AnswersCared ==
  ASSUME TypeOK, Drive, NEW m \in Missions, NEW approved \in BOOLEAN, NEW o, Answers(m, approved, o)
  PROVE  Cared(o) /\ (status = "paused" => o.state \in Suspended)
<1> DEFINE open == status # "paused"
<1>1. /\ MissionsTyped /\ open \in BOOLEAN /\ 0 \in Nat
      /\ ~open => state[m] \in Suspended
  BY TypeParts DEF Drive, Attended
<1>2. /\ "blocked" \notin Suspended /\ "review_required" \notin Suspended
      /\ {"assigned", "cancelled"} \subseteq Suspended
  BY DEF Suspended
<1>3. ASSUME state[m] = "blocked", o \in ReviewOutcomes(m, open)
      PROVE  Cared(o) /\ open
  BY <1>1, <1>2, <1>3, ReviewCared
<1>4. ASSUME state[m] = "blocked", o = Outcome(m, "ready", "idle")
      PROVE  Cared(o) /\ open
  BY <1>1, <1>2, <1>4, OtherCared
<1>5. ASSUME o \in ExecuteOutcomes(m, 0, open)
      PROVE  Cared(o) /\ (~open => o.state = "assigned")
  BY <1>1, <1>5, ExecuteCared
<1>6. ASSUME state[m] = "review_required", o \in IntegrateOutcomes(m, open)
      PROVE  Cared(o) /\ open
  BY <1>1, <1>2, <1>6, IntegrateCared
<1>7. ASSUME o = Outcome(m, "cancelled", "idle")
      PROVE  Cared(o) /\ o.state = "cancelled"
  BY <1>7, OtherCared, OutcomeFields
<1>8. \/ state[m] = "blocked" /\ o \in ReviewOutcomes(m, open)
      \/ state[m] = "blocked" /\ o = Outcome(m, "ready", "idle")
      \/ o \in ExecuteOutcomes(m, 0, open)
      \/ state[m] = "review_required" /\ o \in IntegrateOutcomes(m, open)
      \/ o = Outcome(m, "cancelled", "idle")
  BY DEF Answers
<1>9. status = "paused" <=> ~open
  OBVIOUS
<1> HIDE DEF open
<1> QED
  BY <1>2, <1>3, <1>4, <1>5, <1>6, <1>7, <1>8, <1>9

LEMMA ResolveDrives ==
  ASSUME TypeOK, Fit, Drive, NEW m \in Missions, NEW kind \in ApprovalKind, NEW approved \in BOOLEAN,
         Resolve(m, kind, approved)
  PROVE  Drive'
<1>0. PICK rest : rest = [approvals[m] EXCEPT ![kind] = @ - 1]
  OBVIOUS
<1>1. /\ MissionsTyped /\ CallsTyped /\ gen \in Nat /\ up
      /\ UNCHANGED <<status, gen, callVars, up, died>>
      /\ approvals[m][kind] > 0 /\ rest \in [ApprovalKind -> Nat]
  <2>1. /\ approvals[m] \in [ApprovalKind -> Nat] /\ approvals[m][kind] > 0
    BY TypeParts DEF MissionsTyped, Resolve
  <2>2. approvals[m][kind] - 1 \in Nat
    BY <2>1
  <2> QED
    BY <1>0, <2>1, <2>2, TypeParts DEF Resolve, projectVars, hostVars, TypeOK
<1>2. RequestsFit'
  BY <1>1 DEF Drive, RequestsFit, callVars
<1>3. CASE /\ approvals' = [approvals EXCEPT ![m] = rest]
           /\ UNCHANGED <<state, reviewBlocked, flow>>
           /\ state[m] # "review_required"
  <2>1. ASSUME NEW u \in Threads PROVE RunFits(u)'
    BY <1>1, <1>3, RunKept DEF Drive, callVars
  <2>2. ASSUME NEW n \in Missions PROVE Attended(n)'
    <3>1. approvals'[n]["human"] = approvals[n]["human"] \/ state[n] # "review_required"
      BY <1>1, <1>3 DEF MissionsTyped
    <3> QED
      BY <1>1, <1>3, <3>1, MissionUntouched DEF Drive, callVars
  <2> QED
    BY <1>2, <2>1, <2>2 DEF Drive
<1>4. ASSUME NEW o, Answers(m, approved, o), Answering(m, rest, o) PROVE Drive'
  <2>1. /\ Sound(o) /\ Cared(o) /\ (status = "paused" => o.state \in Suspended)
        /\ (\A k \in Slots : ~Current(<<m, k>>)) \/ o.state = "cancelled"
    BY <1>1, <1>4, AnswersSound, AnswersCared
  <2>2. o \in Outcomes /\ o.pc \notin Live
    BY <2>1, Awaits DEF Sound, Cared
  <2>3. /\ state'[m] = o.state /\ approvals'[m] = OpenApproval(rest, o.ask)
        /\ \A n \in Missions \ {m} : state'[n] = state[n] /\ approvals'[n] = approvals[n]
    BY <1>1, <1>4 DEF Answering, MissionsTyped
  <2>4. SlotFor(m) \in Slots /\ <<m, SlotFor(m)>> \in Threads
    BY <1>4, SlotIsFree DEF Answering, Threads
  <2>5. /\ flow'[<<m, SlotFor(m)>>] = Spawned(o, FALSE)
        /\ \A u \in Threads \ {<<m, SlotFor(m)>>} : flow'[u] = flow[u]
    BY <1>1, <1>4, <2>4 DEF Answering, CallsTyped
  <2>6. /\ flow'[<<m, SlotFor(m)>>].pc = o.pc /\ flow'[<<m, SlotFor(m)>>].run = "none"
        /\ o.pc # "idle" => flow'[<<m, SlotFor(m)>>].gen = gen
    BY <1>1, <2>2, <2>5, SpawnedRecord
  <2>7. ASSUME NEW u \in Threads PROVE RunFits(u)'
    <3>0. u[1] \in Missions /\ u[2] \in Slots /\ u = <<u[1], u[2]>>
      BY DEF Threads
    <3>1. CASE u = <<m, SlotFor(m)>>
      <4>1. u \notin pauseTodo'
        BY <1>1, <1>4, <3>1, FreeSlotUnwaited DEF callVars, Answering
      <4> QED
        BY <2>2, <2>6, <3>1, <4>1, RunStarted
    <3>2. CASE u # <<m, SlotFor(m)>>
      <4>1. flow'[u] = flow[u]
        BY <2>5, <3>2
      <4>2. state'[u[1]] \in {state[u[1]], "cancelled"} \/ ~Current(u)
        BY <2>1, <2>3, <3>0
      <4> QED
        BY <1>1, <4>1, <4>2, RunKept DEF Drive, callVars
    <3> QED
      BY <3>1, <3>2
  <2>8. Attended(m)'
    <3>1. o.ask = "human" => approvals'[m]["human"] > 0
      <4>1. "human" \in ApprovalKind
        BY DEF ApprovalKind
      <4> QED
        BY <1>1, <2>3, <4>1, AskedIsOpen
    <3>2. o.pc # "idle" => \E k \in Slots : flow'[<<m, k>>].pc = o.pc /\ flow'[<<m, k>>].gen = gen'
      BY <1>1, <2>4, <2>6
    <3> QED
      BY <1>1, <2>1, <2>3, <3>1, <3>2, AttendedMoved
  <2>9. ASSUME NEW n \in Missions, n # m PROVE Attended(n)'
    <3>1. \A j \in Slots : flow'[<<n, j>>] = flow[<<n, j>>]
      BY <2>5, <2>9 DEF Threads
    <3> QED
      BY <1>1, <2>3, <2>9, <3>1, MissionUntouched DEF Drive, callVars
  <2> QED
    BY <1>2, <2>7, <2>8, <2>9 DEF Drive
<1> QED
  BY <1>0, <1>3, <1>4, ResolveAnswers

LEMMA InitDrives == Init => Drive
<1> SUFFICES ASSUME Init PROVE Drive
  OBVIOUS
<1>1. \A t \in Threads : flow[t].pc = "idle" /\ flow[t].run = "none"
  BY PcOf, RunOf DEF Init
<1>2. /\ up /\ status = "active" /\ cancelTodo = {}
      /\ \A m \in Missions : state[m] = "proposed"
  BY DEF Init
<1>3. RequestsFit /\ \A t \in Threads : RunFits(t)
  BY <1>1, <1>2 DEF RequestsFit, RunFits, Current
<1> QED
  BY <1>2, <1>3 DEF Drive, Attended

LEMMA NextDrives ==
  ASSUME UserTargets = {}, TypeOK, Fit, Drive, [Next]_vars
  PROVE  Drive'
<1>1. CASE UNCHANGED vars
  <2>1. UNCHANGED <<status, gen, state, approvals, flow, pauseTodo, cancelTodo, cancelCur, up, died>>
    BY <1>1 DEF vars, projectVars, missionVars, callVars, hostVars
  <2>2. RequestsFit'
    BY <2>1 DEF Drive, RequestsFit
  <2>3. ASSUME NEW t \in Threads PROVE RunFits(t)'
    BY <2>1, RunKept DEF Drive
  <2>4. ASSUME NEW m \in Missions PROVE Attended(m)'
    <3>1. Attended(m)
      BY DEF Drive
    <3> QED
      BY <2>1, <3>1 DEF Attended, DrivenBy, Cancelling, LeftBehind
  <2> QED
    BY <2>2, <2>3, <2>4 DEF Drive
<1>2. ASSUME UserAction PROVE Drive'
  BY <1>2, PauseDrives, ResumeDrives, CancelBeginDrives, ResolveDrives DEF UserAction
<1>3. ASSUME NEW t \in Threads, Continue(t) \/ PauseCancelsRun(t) \/ CancelContinues(t)
      PROVE  Drive'
  BY <1>3, ContinueDrives, PauseCancelDrives, CancelContinuesDrives
<1> QED
  BY <1>1, <1>2, <1>3, TickDrives, CrashDrives, RestartDrives DEF Next

LEMMA AlwaysDriven == UserTargets = {} => (Spec => []Drive)
<1> SUFFICES ASSUME UserTargets = {} PROVE Spec => []Drive
  OBVIOUS
<1>1. TypeOK /\ Fit /\ Drive /\ [Next]_vars => Drive'
  BY NextDrives
<1>2. Spec => []Fit
  BY AlwaysFit
<1> QED
  BY <1>1, <1>2, InitDrives, TypeCorrect, PTL DEF Spec

-----------------------------------------------------------------------------
(* Theorems *)

\* Two agents are never let to work for the same worktree at once: pauses, fast
\* resumes, answers, restarts and late continuations included, a mission has one
\* coroutine of the current generation at most (engine.ts, executeMission,
\* validateMission, reviewMission and integrateMission).
THEOREM DriversAreAlone == UserTargets = {} => (Spec => []OneDriverPerMission)
<1>1. Fit => OneDriverPerMission
  BY DEF Fit, ThreadsFit, Current, OneDriverPerMission
<1> QED
  BY <1>1, AlwaysFit, PTL

\* No mission is reviewed, approved or integrated on a result that did not pass
\* validation: no correction, retried review, resume or restart lets a fresh
\* author result slip past validateMission.
THEOREM ReviewIsOfValidated == UserTargets = {} => (Spec => []OnlyValidatedWorkIsReviewed)
<1>1. Fit => OnlyValidatedWorkIsReviewed
  BY DEF Fit, MissionFits, ResultFits, Judged, OnlyValidatedWorkIsReviewed
<1> QED
  BY <1>1, AlwaysFit, PTL

\* Work that is not waiting for a human is always driven: whatever pauses, resumes,
\* answers, cancels, restarts and late continuations come in between, a mission
\* left in validation, review, execution or integration has a coroutine of the
\* current generation at an await of that state, or a human question, or a cancel
\* in flight, but for the deaths and pauses that OpenWorkIsDriven names and for a
\* provider that throws out of startRun or out of its stream, which leaves its run
\* without a handle (engine.ts, executeMission to integrateMission, resumeProject,
\* reconcile; command.ts, startRun).
THEOREM OpenWorkIsDrivenHolds == UserTargets = {} => (Spec => []OpenWorkIsDriven)
<1>1. Drive => OpenWorkIsDriven
  <2> SUFFICES ASSUME Drive, up, status = "active", NEW m \in Missions
               PROVE  /\ state[m] = "validating" => Driven(m, ValidatePC)
                      /\ state[m] = "review_required" =>
                            Driven(m, ReviewPC) \/ approvals[m]["human"] > 0 \/ LeftBehind(m)
                      /\ state[m] = "running" =>
                            Driven(m, ExecutePC) \/ Restarted \/ LeftBehind(m)
                      /\ state[m] = "integrated" => Driven(m, {"cleanup"}) \/ Interrupted
    BY DEF OpenWorkIsDriven
  <2>1. \A pcs : DrivenBy(m, pcs) \/ Cancelling(m) => Driven(m, pcs)
    BY DEF DrivenBy, Cancelling, Driven
  <2> QED
    BY <2>1 DEF Drive, Attended, Restarted, Interrupted
<1> QED
  BY <1>1, AlwaysDriven, PTL
=============================================================================
