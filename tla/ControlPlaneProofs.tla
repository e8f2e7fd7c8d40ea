------------------------- MODULE ControlPlaneProofs -------------------------
(***************************************************************************)
(* The planning pipelines of the control plane (BrainPipeline), and then   *)
(* the edges of the control plane (AgentsAndClients): the provider runs,   *)
(* the Mac's event feed, the missions' Git and the plans of the brain,     *)
(* each in a section of its own, for every value of their constants.       *)
(*                                                                         *)
(* The operations of BrainPipeline are functions from states to states: a  *)
(* state is the record that Now is of.  `Sound` is the inductive invariant *)
(* as a predicate on such a record, so that it is proved of an operation   *)
(* once, whichever action calls it; an action then keeps the invariant     *)
(* when what it Becomes is Sound.                                          *)
(***************************************************************************)
EXTENDS BrainPipeline, AgentsAndClients, SequenceTheorems, TLAPS

WorkState == {"open", "inflight", "completed", "failed", "cancelled"}
Steps == {"analysis", "clarification", "architecture", "plan"}
Keys == {NoKey} \cup ({"objective_revised"} \X Nat \X Nat)
                \cup ({"mission_failed"} \X Nat \X Nat \X (0..1))

GroupRow == [obj : Nat, state : {"open", "answered", "expired"}, pending : 0..2]
PlanRow == [obj : Nat, key : Keys]
PipeRow == [pc : Live \cup {"done", "thrown"}, step : Steps, obj : Nat, gen : Nat, key : Keys,
            base : Nat, plain : BOOLEAN, run : RunStates, tries : Nat]

\* The states the operations work on.
State == [status : ProjectStatus, gen : Nat, objective : Nat, groups : Seq(GroupRow),
          plans : Seq(PlanRow), work : Seq(WorkState), asked : SUBSET Nat, asks : Nat,
          pipes : Seq(PipeRow), token : Nat]

\* A pipeline that may still do something: it is parked, and no pause came since.
Current(S, p) == S.pipes[p].pc \in Live /\ S.pipes[p].gen = S.gen

\* Rows point at objectives that were given, a plan has its mission, a question
\* for a mission belongs to a plan, one about planning to an objective.
RowsFit(S) ==
    /\ \A g \in DOMAIN S.groups : S.groups[g].obj \in 1..S.objective
    /\ \A v \in DOMAIN S.plans : S.plans[v].obj \in 1..S.objective
    /\ Len(S.work) = Len(S.plans) /\ S.asked \subseteq DOMAIN S.work
    /\ \A p \in DOMAIN S.pipes : S.pipes[p].obj \in 1..S.objective /\ S.pipes[p].gen <= S.gen
    /\ S.token <= Len(S.pipes) /\ (S.asks # 0 => S.objective # 0)

\* At most one pipeline is current, the one that holds the slot, and it plans no
\* objective that has open questions.
SlotHeld(S) == \A p \in DOMAIN S.pipes : Current(S, p) => S.token = p
QuestionsHold(S) ==
    \A g \in OpenGroups(S) : \A p \in DOMAIN S.pipes :
        Current(S, p) => S.pipes[p].obj # S.groups[g].obj

Fit(S) == S \in State /\ RowsFit(S)
Sound(S) == Fit(S) /\ SlotHeld(S) /\ QuestionsHold(S)

\* The invariant of the variables that are no part of a state.
Around ==
    /\ max \in Instances /\ before \in ProjectStatus /\ up \in BOOLEAN
    /\ handles \subseteq DOMAIN pipes
    /\ gen <= max.pauses /\ objective <= max.objectives
    /\ \A c \in cancels : c.left \subseteq DOMAIN pipes
    /\ ~max.slowCancel => cancels = {}

FitInv == Fit(Now) /\ Around
IInv == FitInv /\ (~max.slowCancel => Sound(Now))

-----------------------------------------------------------------------------
(* Sequences and states                                                    *)

\* A sequence with one element replaced, or every element mapped, is one.
LEMMA Replaced ==
    ASSUME NEW R, NEW s \in Seq(R), NEW i \in DOMAIN s, NEW e \in R
    PROVE  /\ [s EXCEPT ![i] = e] \in Seq(R)
           /\ Len([s EXCEPT ![i] = e]) = Len(s) /\ DOMAIN [s EXCEPT ![i] = e] = DOMAIN s
  <1>1. i \in 1..Len(s)
    OBVIOUS
  <1> QED
    BY <1>1, ExceptSeq

LEMMA Mapped ==
    ASSUME NEW R, NEW Q, NEW s \in Seq(Q), NEW t, DOMAIN t = DOMAIN s, t = [i \in DOMAIN s |-> t[i]],
           \A i \in DOMAIN s : t[i] \in R
    PROVE  t \in Seq(R) /\ Len(t) = Len(s)
  <1>1. DOMAIN s = 1..Len(s) /\ Len(s) \in Nat
    OBVIOUS
  <1>2. t \in [1..Len(s) -> R]
    BY <1>1
  <1> QED
    BY <1>1, <1>2, IsASeq, LenProperties

\* What the sequences of a state are.
LEMMA StateSequences ==
    ASSUME NEW S \in State
    PROVE  /\ S.groups \in Seq(GroupRow) /\ S.plans \in Seq(PlanRow)
           /\ S.work \in Seq(WorkState) /\ S.pipes \in Seq(PipeRow)
           /\ DOMAIN S.groups = 1..Len(S.groups) /\ DOMAIN S.plans = 1..Len(S.plans)
           /\ DOMAIN S.work = 1..Len(S.work) /\ DOMAIN S.pipes = 1..Len(S.pipes)
           /\ Len(S.groups) \in Nat /\ Len(S.plans) \in Nat
           /\ Len(S.work) \in Nat /\ Len(S.pipes) \in Nat
           /\ \A g \in DOMAIN S.groups : S.groups[g] \in GroupRow
           /\ \A v \in DOMAIN S.plans : S.plans[v] \in PlanRow
           /\ \A v \in DOMAIN S.work : S.work[v] \in WorkState
           /\ \A p \in DOMAIN S.pipes : S.pipes[p] \in PipeRow
  BY DEF State

-----------------------------------------------------------------------------
(* Changes that leave the pipelines alone                                  *)

\* T has the pipelines of S; its groups are those of S, of which some may have
\* been closed.
Calm(S, T) ==
    /\ T \in State
    /\ T.pipes = S.pipes /\ T.gen = S.gen /\ T.token = S.token /\ T.objective = S.objective
    /\ T.plans = S.plans /\ Len(T.work) = Len(S.work) /\ T.asked \subseteq S.asked \cup DOMAIN S.work
    /\ T.asks # 0 => S.asks # 0 \/ S.objective # 0
    /\ Len(T.groups) = Len(S.groups)
    /\ \A g \in DOMAIN S.groups :
          T.groups[g].obj = S.groups[g].obj /\ (T.groups[g].state = "open" => S.groups[g].state = "open")

LEMMA CalmKeeps ==
    ASSUME NEW S, NEW T, Fit(S), Calm(S, T)
    PROVE  Fit(T) /\ (SlotHeld(S) => SlotHeld(T)) /\ (QuestionsHold(S) => QuestionsHold(T))
  <1>1. S \in State /\ T \in State
    BY DEF Fit, Calm
  <1>2. /\ DOMAIN T.groups = DOMAIN S.groups /\ DOMAIN T.work = DOMAIN S.work
    BY <1>1, StateSequences DEF Calm
  <1>3. RowsFit(T)
    BY <1>1, <1>2 DEF Fit, RowsFit, Calm
  <1>4. SlotHeld(S) => SlotHeld(T)
    BY DEF SlotHeld, Current, Calm
  <1>5. QuestionsHold(S) => QuestionsHold(T)
    BY <1>2 DEF QuestionsHold, OpenGroups, Current, Calm
  <1> QED
    BY <1>1, <1>3, <1>4, <1>5 DEF Fit

LEMMA CalmSelf == ASSUME NEW S \in State PROVE Calm(S, S)
  BY DEF Calm

LEMMA CalmTwice ==
    ASSUME NEW S \in State, NEW T, NEW U, Calm(S, T), Calm(T, U)
    PROVE  Calm(S, U)
  <1>1. T \in State
    BY DEF Calm
  <1>2. DOMAIN T.groups = DOMAIN S.groups /\ DOMAIN T.work = DOMAIN S.work
    BY <1>1, StateSequences DEF Calm
  <1> QED
    BY <1>2 DEF Calm

LEMMA StatusCalm ==
    ASSUME NEW S \in State, NEW s \in ProjectStatus
    PROVE  Calm(S, [S EXCEPT !.status = s])
  <1>1. [S EXCEPT !.status = s] \in State
    BY DEF State
  <1> QED
    BY <1>1 DEF Calm, State

LEMMA BlockedCalm ==
    ASSUME NEW S \in State, S.objective # 0
    PROVE  Calm(S, Blocked(S))
  <1>1. [S EXCEPT !.status = "blocked", !.asks = @ + 1] \in State
    <2>1. S.asks + 1 \in Nat /\ "blocked" \in ProjectStatus
      BY DEF State, ProjectStatus
    <2> QED
      BY <2>1 DEF State
  <1>2. Calm(S, [S EXCEPT !.status = "blocked", !.asks = @ + 1])
    BY <1>1 DEF Calm, State
  <1> QED
    BY <1>2, CalmSelf DEF Blocked

LEMMA PendingCalm ==
    ASSUME NEW S \in State, NEW g \in DOMAIN S.groups, NEW n \in 0..2
    PROVE  Calm(S, WithPending(S, g, n))
  <1> DEFINE row == [S.groups[g] EXCEPT !.pending = n]
             rows == [S.groups EXCEPT ![g] = row]
             T == [S EXCEPT !.groups = rows]
  <1>1. S.groups[g] \in GroupRow
    BY StateSequences
  <1>2. row \in GroupRow
    BY <1>1 DEF GroupRow
  <1>3. rows \in Seq(GroupRow) /\ Len(rows) = Len(S.groups) /\ DOMAIN rows = DOMAIN S.groups
    BY <1>2, StateSequences, Replaced
  <1>4. WithPending(S, g, n) = T
    BY DEF WithPending
  <1>5. T \in State /\ T.groups = rows
    BY <1>3 DEF State
  <1>6. \A h \in DOMAIN S.groups : rows[h].obj = S.groups[h].obj /\ rows[h].state = S.groups[h].state
    BY <1>1 DEF GroupRow
  <1> HIDE DEF rows
  <1>7. Calm(S, T)
    BY <1>3, <1>5, <1>6 DEF Calm, State
  <1> QED
    BY <1>4, <1>7

LEMMA ExpiredCalm ==
    ASSUME NEW S \in State
    PROVE  Calm(S, Expired(S)) /\ OpenGroups(Expired(S)) = {}
  <1> DEFINE rows == [g \in DOMAIN S.groups |->
                        IF S.groups[g].state = "open" THEN [S.groups[g] EXCEPT !.state = "expired"]
                        ELSE S.groups[g]]
             T == [S EXCEPT !.groups = rows]
  <1>1. \A g \in DOMAIN S.groups : /\ rows[g] \in GroupRow /\ rows[g].obj = S.groups[g].obj
                                   /\ rows[g].state # "open"
    BY StateSequences DEF GroupRow
  <1>2. rows \in Seq(GroupRow) /\ Len(rows) = Len(S.groups) /\ DOMAIN rows = DOMAIN S.groups
    <2>1. S.groups \in Seq(GroupRow)
      BY StateSequences
    <2>2. DOMAIN rows = DOMAIN S.groups /\ rows = [g \in DOMAIN S.groups |-> rows[g]]
      OBVIOUS
    <2>3. \A g \in DOMAIN S.groups : rows[g] \in GroupRow
      BY <1>1
    <2> HIDE DEF rows
    <2> QED
      BY <2>1, <2>2, <2>3, Mapped
  <1>3. Expired(S) = T
    BY DEF Expired
  <1>4. T \in State /\ T.groups = rows
    BY <1>2 DEF State
  <1> HIDE DEF rows
  <1>5. Calm(S, T)
    BY <1>1, <1>2, <1>4 DEF Calm, State
  <1>6. OpenGroups(T) = {}
    BY <1>1, <1>2, <1>4 DEF OpenGroups
  <1> QED
    BY <1>3, <1>5, <1>6

-----------------------------------------------------------------------------
(* Operations that start a pipeline at most                                *)

\* T has the pipelines of S, and perhaps another one; no plan was written.
Grows(S, T) ==
    /\ T.gen = S.gen /\ T.objective = S.objective /\ T.plans = S.plans
    /\ DOMAIN S.pipes \subseteq DOMAIN T.pipes
    /\ \A p \in DOMAIN S.pipes : T.pipes[p] = S.pipes[p]

\* The state T is as sound as S, and no group was opened.
Kept(S, T) ==
    /\ Fit(T) /\ Grows(S, T) /\ Len(T.groups) = Len(S.groups)
    /\ SlotHeld(S) => SlotHeld(T)
    /\ SlotHeld(S) /\ QuestionsHold(S) => QuestionsHold(T)

LEMMA CalmKept == ASSUME NEW S, NEW T, Fit(S), Calm(S, T) PROVE Kept(S, T)
  <1>1. Fit(T) /\ (SlotHeld(S) => SlotHeld(T)) /\ (QuestionsHold(S) => QuestionsHold(T))
    BY CalmKeeps
  <1>2. Grows(S, T) /\ Len(T.groups) = Len(S.groups)
    BY DEF Grows, Calm
  <1> QED
    BY <1>1, <1>2 DEF Kept

LEMMA KeptSelf == ASSUME NEW S, Fit(S) PROVE Kept(S, S)
  BY CalmSelf, CalmKept DEF Fit

LEMMA KeptTwice ==
    ASSUME NEW S, NEW T, NEW U, Kept(S, T), Kept(T, U)
    PROVE  Kept(S, U)
  <1>1. Grows(S, U)
    BY DEF Kept, Grows
  <1> QED
    BY <1>1 DEF Kept

\* A pipeline is started when the slot is free and no question is open.
LEMMA StartedKept ==
    ASSUME NEW S, Fit(S), NEW o \in 1..S.objective, NEW key \in Keys,
           S.token = 0, OpenGroups(S) = {}
    PROVE  Kept(S, [S EXCEPT !.status = "planning", !.pipes = Append(@, Pipe(S, o, key)),
                             !.token = Len(S.pipes) + 1])
  <1> DEFINE T == [S EXCEPT !.status = "planning", !.pipes = Append(@, Pipe(S, o, key)),
                            !.token = Len(S.pipes) + 1]
             n == Len(S.pipes) + 1
  <1>1. S \in State /\ S.gen \in Nat /\ S.objective \in Nat
    BY DEF Fit, State
  <1>2. Pipe(S, o, key) \in PipeRow
    <2>1. Len(S.plans) \in Nat /\ o \in Nat
      BY <1>1, StateSequences
    <2> QED
      BY <1>1, <2>1 DEF Pipe, PipeRow, Live, Steps, RunStates
  <1>3. /\ Append(S.pipes, Pipe(S, o, key)) \in Seq(PipeRow)
        /\ Len(Append(S.pipes, Pipe(S, o, key))) = n
        /\ DOMAIN Append(S.pipes, Pipe(S, o, key)) = DOMAIN S.pipes \cup {n}
        /\ \A p \in DOMAIN S.pipes : Append(S.pipes, Pipe(S, o, key))[p] = S.pipes[p]
        /\ Append(S.pipes, Pipe(S, o, key))[n] = Pipe(S, o, key)
        /\ n \in Nat /\ n \notin DOMAIN S.pipes
    BY <1>1, <1>2, StateSequences
  <1>4. /\ T \in State
        /\ T.pipes = Append(S.pipes, Pipe(S, o, key)) /\ T.token = n /\ T.gen = S.gen
        /\ T.groups = S.groups /\ T.plans = S.plans /\ T.work = S.work /\ T.asked = S.asked
        /\ T.objective = S.objective /\ T.asks = S.asks
    <2>1. "planning" \in ProjectStatus
      BY DEF ProjectStatus
    <2> QED
      BY <1>1, <1>3, <2>1 DEF State
  <1>5. Pipe(S, o, key).obj = o /\ Pipe(S, o, key).gen = S.gen
    BY DEF Pipe
  <1> HIDE DEF T, n
  <1>6. RowsFit(T)
    BY <1>1, <1>3, <1>4, <1>5 DEF Fit, RowsFit
  <1>7. Grows(S, T)
    BY <1>3, <1>4 DEF Grows
  <1>8. ASSUME SlotHeld(S) PROVE SlotHeld(T)
    <2>1. \A p \in DOMAIN S.pipes : S.token # p
      BY <1>1, StateSequences
    <2> QED
      BY <1>3, <1>4, <1>8, <2>1 DEF SlotHeld, Current
  <1>9. QuestionsHold(T)
    BY <1>4 DEF QuestionsHold, OpenGroups
  <1> QED
    BY <1>4, <1>6, <1>7, <1>8, <1>9 DEF Kept, Fit, T

LEMMA EnsurePlanKept ==
    ASSUME NEW S, Fit(S), NEW o \in 1..S.objective, NEW key \in Keys
    PROVE  Kept(S, EnsurePlan(S, o, key))
  <1>1. S \in State /\ "active" \in ProjectStatus /\ S.objective # 0
    BY DEF Fit, ProjectStatus, State
  <1>2. Kept(S, S)
    BY KeptSelf
  <1>3. Kept(S, [S EXCEPT !.status = "active"])
    BY <1>1, StatusCalm, CalmKept
  <1>4. Kept(S, Blocked(S))
    BY <1>1, BlockedCalm, CalmKept
  <1>5. ASSUME S.token = 0, OpenGroups(S) = {}
        PROVE  Kept(S, [S EXCEPT !.status = "planning", !.pipes = Append(@, Pipe(S, o, key)),
                                 !.token = Len(S.pipes) + 1])
    BY <1>5, StartedKept
  <1> QED
    BY <1>2, <1>3, <1>4, <1>5 DEF EnsurePlan

LEMMA KickedKept ==
    ASSUME NEW S, Fit(S), NEW o \in 1..S.objective
    PROVE  Kept(S, Kicked(S, o))
  <1> DEFINE T == [S EXCEPT !.status = "planning"]
             key == IF S.plans # <<>> /\ ~ActiveIsFor(S, o)
                    THEN <<"objective_revised", o, Len(S.plans)>> ELSE NoKey
  <1>1. S \in State /\ "planning" \in ProjectStatus /\ Len(S.plans) \in Nat /\ S.objective \in Nat
    BY StateSequences DEF Fit, ProjectStatus, State
  <1>2. Kept(S, T)
    BY <1>1, StatusCalm, CalmKept
  <1>3. key \in Keys
    BY <1>1 DEF Keys
  <1>4. Fit(T) /\ T.objective = S.objective
    BY <1>2 DEF Kept, Grows
  <1> HIDE DEF T, key
  <1>5. Kept(T, EnsurePlan(T, o, key))
    BY <1>3, <1>4, EnsurePlanKept
  <1>6. Kept(S, EnsurePlan(T, o, key))
    BY <1>2, <1>5, KeptTwice
  <1> QED
    BY <1>6 DEF Kicked, T, key

LEMMA ResumedKept ==
    ASSUME NEW S, Fit(S), NEW g \in DOMAIN S.groups
    PROVE  Kept(S, Resumed(S, g))
  <1>1. S \in State /\ S.groups[g].obj \in 1..S.objective
    BY DEF Fit, RowsFit
  <1>2. Kept(S, Kicked(S, S.groups[g].obj))
    BY <1>1, KickedKept
  <1>3. ASSUME NEW T, Kept(S, T), NEW n \in 0..2 PROVE Kept(S, WithPending(T, g, n))
    <2>1. Fit(T) /\ T \in State /\ Len(T.groups) = Len(S.groups)
      BY <1>3 DEF Kept, Fit
    <2>2. g \in DOMAIN T.groups
      BY <1>1, <2>1, StateSequences
    <2>3. Kept(T, WithPending(T, g, n))
      BY <2>1, <2>2, PendingCalm, CalmKept
    <2> QED
      BY <1>3, <2>3, KeptTwice
  <1>4. Kept(S, S)
    BY KeptSelf
  <1> QED
    BY <1>2, <1>3, <1>4 DEF Resumed

LEMMA ReconciledKept ==
    ASSUME NEW S, Fit(S)
    PROVE  Kept(S, Reconciled(S))
  <1>1. S \in State /\ "active" \in ProjectStatus /\ S.objective \in Nat /\ NoKey \in Keys
    BY DEF Fit, State, ProjectStatus, Keys
  <1>2. Kept(S, S)
    BY KeptSelf
  <1>3. Kept(S, [S EXCEPT !.status = "active"])
    BY <1>1, StatusCalm, CalmKept
  <1>4. ASSUME S.objective # 0 PROVE Kept(S, EnsurePlan(S, S.objective, NoKey))
    BY <1>1, <1>4, EnsurePlanKept
  <1>5. Reconciled(S) = IF S.status # "planning" \/ S.objective = 0 THEN S
                        ELSE IF ActiveIsFor(S, S.objective) THEN [S EXCEPT !.status = "active"]
                             ELSE EnsurePlan(S, S.objective, NoKey)
    BY DEF Reconciled
  <1> QED
    BY <1>2, <1>3, <1>4, <1>5

-----------------------------------------------------------------------------
(* Operations on the pipelines there are                                   *)

\* A pipeline of before the last pause, from r to s, can only end.
OnlyEnds(r, s) ==
    /\ s.gen = r.gen /\ s.pc \in {r.pc, "done"}
    /\ s.run # r.run => s.run \in {"cancelled", "failed"}

\* What no pause could object to: no plan, no group, no pause, and pipelines of
\* before only end.
Tame(S, T) ==
    /\ T.gen = S.gen /\ T.plans = S.plans /\ Len(T.groups) = Len(S.groups)
    /\ DOMAIN S.pipes \subseteq DOMAIN T.pipes
    /\ \A p \in DOMAIN S.pipes : S.pipes[p].gen # S.gen => OnlyEnds(S.pipes[p], T.pipes[p])

\* T has the pipelines of S and none of them is current that was not, and the
\* open groups of S or fewer; the slot is only taken from a pipeline that ended.
Fewer(S, T) ==
    /\ T.gen = S.gen /\ T.objective = S.objective
    /\ DOMAIN T.pipes = DOMAIN S.pipes
    /\ \A p \in DOMAIN S.pipes :
          /\ T.pipes[p].obj = S.pipes[p].obj /\ T.pipes[p].gen = S.pipes[p].gen
          /\ Current(T, p) => Current(S, p) /\ (T.token = S.token \/ S.token # p)
    /\ \A g \in OpenGroups(T) : g \in OpenGroups(S) /\ T.groups[g].obj = S.groups[g].obj

\* T is S with the pipelines `rows`, or with some open groups less; it may have
\* freed the slot.
Repiped(S, T, rows) ==
    /\ T \in State
    /\ T.gen = S.gen /\ T.objective = S.objective /\ T.plans = S.plans
    /\ T.work = S.work /\ T.asked = S.asked /\ T.asks = S.asks
    /\ T.pipes = rows /\ T.token \in {0, S.token}
    /\ Len(T.groups) = Len(S.groups)
    /\ \A g \in DOMAIN S.groups :
          T.groups[g].obj = S.groups[g].obj /\ T.groups[g].state = S.groups[g].state

LEMMA KeptTame == ASSUME NEW S, NEW T, Kept(S, T) PROVE Tame(S, T)
  BY DEF Kept, Grows, Tame, OnlyEnds

LEMMA TameTwice ==
    ASSUME NEW S, NEW T, NEW U, Tame(S, T), Tame(T, U) PROVE Tame(S, U)
  <1>1. ASSUME NEW p \in DOMAIN S.pipes, S.pipes[p].gen # S.gen
        PROVE  OnlyEnds(S.pipes[p], U.pipes[p])
    <2>1. OnlyEnds(S.pipes[p], T.pipes[p])
      BY <1>1 DEF Tame
    <2>2. OnlyEnds(T.pipes[p], U.pipes[p])
      BY <1>1, <2>1 DEF Tame, OnlyEnds
    <2> QED
      BY <2>1, <2>2 DEF OnlyEnds
  <1> QED
    BY <1>1 DEF Tame

LEMMA FewerKeeps ==
    ASSUME NEW S, NEW T, Fewer(S, T)
    PROVE  (SlotHeld(S) => SlotHeld(T)) /\ (QuestionsHold(S) => QuestionsHold(T))
  <1>1. SlotHeld(S) => SlotHeld(T)
    BY DEF Fewer, SlotHeld
  <1>2. QuestionsHold(S) => QuestionsHold(T)
    BY DEF Fewer, QuestionsHold
  <1> QED
    BY <1>1, <1>2

\* The pipelines are mapped: the rows are rows again.
LEMMA PipesMapped ==
    ASSUME NEW S, Fit(S), NEW rows, DOMAIN rows = DOMAIN S.pipes,
           rows = [p \in DOMAIN S.pipes |-> rows[p]],
           \A p \in DOMAIN S.pipes : rows[p] \in PipeRow
    PROVE  rows \in Seq(PipeRow) /\ Len(rows) = Len(S.pipes)
  <1>1. S.pipes \in Seq(PipeRow)
    BY StateSequences DEF Fit
  <1> QED
    BY <1>1, Mapped

\* It is a state the invariant holds of, when none becomes current.
LEMMA RepipedFits ==
    ASSUME NEW S, Fit(S), NEW T, NEW rows, Repiped(S, T, rows), Len(rows) = Len(S.pipes),
           \A p \in DOMAIN S.pipes :
               /\ rows[p].obj = S.pipes[p].obj /\ rows[p].gen = S.pipes[p].gen
               /\ rows[p].pc \in Live => S.pipes[p].pc \in Live /\ (T.token = S.token \/ S.token # p)
    PROVE  Fit(T) /\ Fewer(S, T)
  <1>1. S \in State /\ T \in State
    BY DEF Fit, Repiped
  <1>2. DOMAIN T.pipes = DOMAIN S.pipes /\ DOMAIN T.groups = DOMAIN S.groups
    BY <1>1, StateSequences DEF Repiped
  <1>3. RowsFit(T)
    <2>1. T.token <= Len(T.pipes)
      BY <1>1, StateSequences DEF Fit, RowsFit, Repiped
    <2> QED
      BY <1>2, <2>1 DEF Fit, RowsFit, Repiped
  <1>4. Fewer(S, T)
    BY <1>2 DEF Fewer, Current, OpenGroups, Repiped
  <1> QED
    BY <1>1, <1>3, <1>4 DEF Fit

LEMMA RepipedTame ==
    ASSUME NEW S, Fit(S), NEW T, NEW rows, Repiped(S, T, rows), Len(rows) = Len(S.pipes),
           \A p \in DOMAIN S.pipes : S.pipes[p].gen # S.gen => OnlyEnds(S.pipes[p], rows[p])
    PROVE  Tame(S, T)
  <1>1. S \in State /\ T \in State
    BY DEF Fit, Repiped
  <1>2. DOMAIN T.pipes = DOMAIN S.pipes
    BY <1>1, StateSequences DEF Repiped
  <1> QED
    BY <1>2 DEF Repiped, Tame

\* One pipeline is replaced by `row`.
Replaces(S, p, row) ==
    /\ p \in DOMAIN S.pipes /\ row \in PipeRow
    /\ row.obj = S.pipes[p].obj /\ row.gen = S.pipes[p].gen
    /\ row.pc \in Live => S.pipes[p].pc \in Live

LEMMA PipeReplaced ==
    ASSUME NEW S, Fit(S), NEW p, NEW row, Replaces(S, p, row),
           NEW T, Repiped(S, T, [S.pipes EXCEPT ![p] = row]),
           T.token # S.token => S.token = p /\ row.pc = "done"
    PROVE  Fit(T) /\ Fewer(S, T)
  <1> DEFINE rows == [S.pipes EXCEPT ![p] = row]
  <1>1. p \in DOMAIN S.pipes /\ row \in PipeRow /\ "done" \notin Live
    BY DEF Replaces, Live
  <1>2. Len(rows) = Len(S.pipes)
    BY <1>1, StateSequences, Replaced DEF Fit
  <1>3. \A q \in DOMAIN S.pipes : rows[q] = IF q = p THEN row ELSE S.pipes[q]
    OBVIOUS
  <1> HIDE DEF rows
  <1>4. Repiped(S, T, rows)
    BY DEF rows
  <1>5. \A q \in DOMAIN S.pipes :
               /\ rows[q].obj = S.pipes[q].obj /\ rows[q].gen = S.pipes[q].gen
               /\ rows[q].pc \in Live => S.pipes[q].pc \in Live /\ (T.token = S.token \/ S.token # q)
    BY <1>1, <1>3 DEF Replaces
  <1> QED
    BY <1>2, <1>4, <1>5, RepipedFits

LEMMA OverRow ==
    ASSUME NEW r \in PipeRow
    PROVE  Over(r) \in PipeRow /\ Over(r).obj = r.obj /\ Over(r).gen = r.gen
           /\ Over(r).pc = "done" /\ Over(r).run = r.run
  <1>1. NoKey \in Keys /\ "analysis" \in Steps /\ "done" \in Live \cup {"done", "thrown"} /\ 0 \in Nat
    BY DEF Keys, Steps
  <1>2. Over(r) \in PipeRow
    BY <1>1 DEF Over, PipeRow
  <1> QED
    BY <1>2 DEF Over, PipeRow

\* A pipeline ends.
LEMMA EndedFits ==
    ASSUME NEW S, Fit(S), NEW p \in DOMAIN S.pipes
    PROVE  /\ Fit(Ended(S, p)) /\ Fewer(S, Ended(S, p)) /\ Tame(S, Ended(S, p))
           /\ Ended(S, p).pipes = [S.pipes EXCEPT ![p] = Over(S.pipes[p])]
           /\ Ended(S, p).groups = S.groups /\ Ended(S, p).status = S.status
  <1> DEFINE T == Ended(S, p)
             row == Over(S.pipes[p])
             rows == [S.pipes EXCEPT ![p] = row]
  <1>1. S \in State /\ S.pipes[p] \in PipeRow
    BY StateSequences DEF Fit
  <1>2. row \in PipeRow /\ row.obj = S.pipes[p].obj /\ row.gen = S.pipes[p].gen
        /\ row.pc = "done" /\ row.run = S.pipes[p].run
    BY <1>1, OverRow
  <1> HIDE DEF row
  <1>3. rows \in Seq(PipeRow) /\ Len(rows) = Len(S.pipes)
    BY <1>1, <1>2, StateSequences, Replaced
  <1>4. /\ T \in State /\ T.pipes = rows /\ T.token = (IF S.token = p THEN 0 ELSE S.token)
        /\ T.groups = S.groups /\ T.status = S.status /\ T.gen = S.gen /\ T.objective = S.objective
        /\ T.plans = S.plans /\ T.work = S.work /\ T.asked = S.asked /\ T.asks = S.asks
    <2>1. (IF S.token = p THEN 0 ELSE S.token) \in Nat
      BY <1>1 DEF State
    <2> QED
      BY <1>1, <1>3, <2>1 DEF State, Ended, row
  <1>5. \A q \in DOMAIN S.pipes : rows[q] = IF q = p THEN row ELSE S.pipes[q]
    OBVIOUS
  <1> HIDE DEF T
  <1>6. Repiped(S, T, rows)
    BY <1>4 DEF Repiped
  <1>7. Replaces(S, p, row)
    BY <1>2 DEF Replaces, Live
  <1>8. Fit(T) /\ Fewer(S, T)
    BY <1>2, <1>4, <1>6, <1>7, PipeReplaced
  <1> HIDE DEF rows
  <1>9. Tame(S, T)
    <2>1. \A q \in DOMAIN S.pipes : OnlyEnds(S.pipes[q], rows[q])
      BY <1>2, <1>5 DEF OnlyEnds
    <2> QED
      BY <1>3, <1>6, <2>1, RepipedTame
  <1> QED
    BY <1>4, <1>8, <1>9 DEF T, rows, row

\* Every pipeline ends, with the process.
LEMMA DeadFits ==
    ASSUME NEW S, Fit(S)
    PROVE  Fit(Dead(S)) /\ Fewer(S, Dead(S)) /\ Tame(S, Dead(S))
  <1> DEFINE T == Dead(S)
             rows == [p \in DOMAIN S.pipes |-> Over(S.pipes[p])]
  <1>1. S \in State
    BY DEF Fit
  <1>2. \A p \in DOMAIN S.pipes :
            /\ rows[p] \in PipeRow /\ rows[p].obj = S.pipes[p].obj /\ rows[p].gen = S.pipes[p].gen
            /\ rows[p].pc = "done" /\ rows[p].run = S.pipes[p].run
    BY <1>1, StateSequences, OverRow
  <1>3. DOMAIN rows = DOMAIN S.pipes /\ rows = [p \in DOMAIN S.pipes |-> rows[p]]
    OBVIOUS
  <1>4. /\ T.pipes = rows /\ (rows \in Seq(PipeRow) => T \in State) /\ T.token = 0
        /\ T.groups = S.groups /\ T.gen = S.gen /\ T.objective = S.objective
        /\ T.plans = S.plans /\ T.work = S.work /\ T.asked = S.asked /\ T.asks = S.asks
    BY <1>1 DEF State, Dead
  <1> HIDE DEF T, rows
  <1>5. rows \in Seq(PipeRow) /\ Len(rows) = Len(S.pipes)
    BY <1>2, <1>3, PipesMapped
  <1>6. Repiped(S, T, rows)
    BY <1>4, <1>5 DEF Repiped
  <1>7. "done" \notin Live
    BY DEF Live
  <1>8. Fit(T) /\ Fewer(S, T)
    BY <1>2, <1>5, <1>6, <1>7, RepipedFits
  <1>9. Tame(S, T)
    <2>1. \A q \in DOMAIN S.pipes : OnlyEnds(S.pipes[q], rows[q])
      BY <1>2 DEF OnlyEnds
    <2> QED
      BY <1>5, <1>6, <2>1, RepipedTame
  <1> QED
    BY <1>8, <1>9 DEF T

LEMMA RunRow ==
    ASSUME NEW r \in PipeRow, NEW x \in RunStates
    PROVE  /\ [r EXCEPT !.run = x] \in PipeRow /\ [r EXCEPT !.run = x].obj = r.obj
           /\ [r EXCEPT !.run = x].gen = r.gen /\ [r EXCEPT !.run = x].pc = r.pc
           /\ [r EXCEPT !.run = x].run = x
  BY DEF PipeRow

LEMMA PendingRow ==
    ASSUME NEW r \in GroupRow, NEW n \in 0..2
    PROVE  /\ [r EXCEPT !.pending = n] \in GroupRow /\ [r EXCEPT !.pending = n].obj = r.obj
           /\ [r EXCEPT !.pending = n].state = r.state
  BY DEF GroupRow

\* Runs of some pipelines are cancelled.
LEMMA RunsCancelledFits ==
    ASSUME NEW S, Fit(S), NEW P
    PROVE  /\ Fit(RunsCancelled(S, P)) /\ Fewer(S, RunsCancelled(S, P)) /\ Tame(S, RunsCancelled(S, P))
           /\ RunsCancelled(S, P).status = S.status
  <1> DEFINE T == RunsCancelled(S, P)
             rows == [p \in DOMAIN S.pipes |->
                        IF p \in P /\ S.pipes[p].run = "running"
                        THEN [S.pipes[p] EXCEPT !.run = "cancelled"] ELSE S.pipes[p]]
  <1>1. S \in State /\ "cancelled" \in RunStates
    BY DEF Fit, RunStates
  <1>2. \A p \in DOMAIN S.pipes :
            /\ rows[p] \in PipeRow /\ rows[p].obj = S.pipes[p].obj /\ rows[p].gen = S.pipes[p].gen
            /\ rows[p].pc = S.pipes[p].pc
            /\ rows[p].run # S.pipes[p].run => rows[p].run = "cancelled"
    <2> TAKE p \in DOMAIN S.pipes
    <2>1. S.pipes[p] \in PipeRow
      BY <1>1, StateSequences
    <2> QED
      BY <1>1, <2>1, RunRow
  <1>3. DOMAIN rows = DOMAIN S.pipes /\ rows = [p \in DOMAIN S.pipes |-> rows[p]]
    OBVIOUS
  <1>4. /\ T.pipes = rows /\ (rows \in Seq(PipeRow) => T \in State) /\ T.token = S.token
        /\ T.groups = S.groups /\ T.gen = S.gen /\ T.objective = S.objective /\ T.status = S.status
        /\ T.plans = S.plans /\ T.work = S.work /\ T.asked = S.asked /\ T.asks = S.asks
    BY <1>1 DEF State, RunsCancelled
  <1> HIDE DEF T, rows
  <1>5. rows \in Seq(PipeRow) /\ Len(rows) = Len(S.pipes)
    BY <1>2, <1>3, PipesMapped
  <1>6. Repiped(S, T, rows)
    BY <1>4, <1>5 DEF Repiped
  <1>7. Fit(T) /\ Fewer(S, T)
    BY <1>2, <1>4, <1>5, <1>6, RepipedFits
  <1>8. Tame(S, T)
    <2>1. \A q \in DOMAIN S.pipes : OnlyEnds(S.pipes[q], rows[q])
      BY <1>2 DEF OnlyEnds
    <2> QED
      BY <1>5, <1>6, <2>1, RepipedTame
  <1> QED
    BY <1>4, <1>7, <1>8 DEF T

\* What recovery finds: claims are released and runs have failed.
LEMMA RecoveredFits ==
    ASSUME NEW S, Fit(S)
    PROVE  Fit(Recovered(S)) /\ Fewer(S, Recovered(S)) /\ Tame(S, Recovered(S))
           /\ Len(Recovered(S).groups) = Len(S.groups)
  <1> DEFINE T == Recovered(S)
             rows == [p \in DOMAIN S.pipes |->
                        IF S.pipes[p].run = "running"
                        THEN [S.pipes[p] EXCEPT !.run = "failed"] ELSE S.pipes[p]]
             gs == [g \in DOMAIN S.groups |->
                        IF S.groups[g].pending = 2
                        THEN [S.groups[g] EXCEPT !.pending = 1] ELSE S.groups[g]]
  <1>1. S \in State /\ "failed" \in RunStates
    BY DEF Fit, RunStates
  <1>2. \A p \in DOMAIN S.pipes :
            /\ rows[p] \in PipeRow /\ rows[p].obj = S.pipes[p].obj /\ rows[p].gen = S.pipes[p].gen
            /\ rows[p].pc = S.pipes[p].pc
            /\ rows[p].run # S.pipes[p].run => rows[p].run = "failed"
    <2> TAKE p \in DOMAIN S.pipes
    <2>1. S.pipes[p] \in PipeRow
      BY <1>1, StateSequences
    <2> QED
      BY <1>1, <2>1, RunRow
  <1>3. DOMAIN rows = DOMAIN S.pipes /\ rows = [p \in DOMAIN S.pipes |-> rows[p]]
    OBVIOUS
  <1>4. \A g \in DOMAIN S.groups :
            gs[g] \in GroupRow /\ gs[g].obj = S.groups[g].obj /\ gs[g].state = S.groups[g].state
    <2> TAKE g \in DOMAIN S.groups
    <2>1. S.groups[g] \in GroupRow /\ 1 \in 0..2
      BY <1>1, StateSequences
    <2> QED
      BY <2>1, PendingRow
  <1>5. DOMAIN gs = DOMAIN S.groups /\ gs = [g \in DOMAIN S.groups |-> gs[g]]
    OBVIOUS
  <1>6. /\ T.pipes = rows /\ T.groups = gs
        /\ (rows \in Seq(PipeRow) /\ gs \in Seq(GroupRow) => T \in State) /\ T.token = S.token
        /\ T.gen = S.gen /\ T.objective = S.objective
        /\ T.plans = S.plans /\ T.work = S.work /\ T.asked = S.asked /\ T.asks = S.asks
    BY <1>1 DEF State, Recovered
  <1> HIDE DEF T, rows, gs
  <1>7. rows \in Seq(PipeRow) /\ Len(rows) = Len(S.pipes)
    BY <1>2, <1>3, PipesMapped
  <1>8. gs \in Seq(GroupRow) /\ Len(gs) = Len(S.groups)
    <2>1. S.groups \in Seq(GroupRow)
      BY <1>1, StateSequences
    <2> QED
      BY <1>4, <1>5, <2>1, Mapped
  <1>9. Repiped(S, T, rows)
    BY <1>4, <1>6, <1>7, <1>8 DEF Repiped
  <1>10. Fit(T) /\ Fewer(S, T)
    BY <1>2, <1>6, <1>7, <1>9, RepipedFits
  <1>11. Tame(S, T)
    <2>1. \A q \in DOMAIN S.pipes : OnlyEnds(S.pipes[q], rows[q])
      BY <1>2 DEF OnlyEnds
    <2> QED
      BY <1>7, <1>9, <2>1, RepipedTame
  <1> QED
    BY <1>6, <1>8, <1>10, <1>11 DEF T

\* The slot is freed.
LEMMA FreedFits ==
    ASSUME NEW S, Fit(S)
    PROVE  LET T == [S EXCEPT !.token = 0] IN
           /\ Fit(T) /\ Tame(S, T) /\ T.status = S.status
           /\ T.pipes = S.pipes /\ T.gen = S.gen
  <1> DEFINE T == [S EXCEPT !.token = 0]
  <1>1. S \in State
    BY DEF Fit
  <1>2. /\ T \in State /\ T.pipes = S.pipes /\ T.groups = S.groups /\ T.token = 0
        /\ T.gen = S.gen /\ T.objective = S.objective /\ T.status = S.status
        /\ T.plans = S.plans /\ T.work = S.work /\ T.asked = S.asked /\ T.asks = S.asks
    BY <1>1 DEF State
  <1> HIDE DEF T
  <1>3. RowsFit(T)
    <2>1. 0 <= Len(T.pipes)
      BY <1>2, StateSequences
    <2> QED
      BY <1>2, <2>1 DEF Fit, RowsFit
  <1>4. Tame(S, T)
    BY <1>2 DEF Tame, OnlyEnds
  <1> QED
    BY <1>2, <1>3, <1>4 DEF Fit, T

\* A new group replaces the open ones.
LEMMA OpenedFits ==
    ASSUME NEW S, Fit(S), NEW o \in 1..S.objective
    PROVE  LET T == Opened(S, o) IN
           /\ Fit(T) /\ T.pipes = S.pipes /\ T.token = S.token /\ T.gen = S.gen
           /\ T.plans = S.plans /\ T.status = S.status /\ T.objective = S.objective
           /\ \A g \in OpenGroups(T) : T.groups[g].obj = o
  <1> DEFINE E == Expired(S)
             row == [obj |-> o, state |-> "open", pending |-> 0]
             gs == Append(E.groups, row)
             T == [E EXCEPT !.groups = gs]
  <1>1. S \in State /\ S.objective \in Nat
    BY DEF Fit, State
  <1>2. Calm(S, E) /\ OpenGroups(E) = {} /\ E.status = S.status
    BY <1>1, ExpiredCalm DEF Expired, State
  <1>3. Fit(E) /\ E \in State
    BY <1>2, CalmKeeps DEF Fit
  <1>4. row \in GroupRow /\ row.obj = o
    BY <1>1 DEF GroupRow
  <1> HIDE DEF E, row
  <1>5. /\ gs \in Seq(GroupRow) /\ DOMAIN gs = DOMAIN E.groups \cup {Len(E.groups) + 1}
        /\ \A g \in DOMAIN E.groups : gs[g] = E.groups[g]
        /\ gs[Len(E.groups) + 1] = row
    BY <1>3, <1>4, StateSequences
  <1>6. /\ T \in State /\ T.groups = gs /\ T.pipes = E.pipes /\ T.token = E.token /\ T.gen = E.gen
        /\ T.plans = E.plans /\ T.work = E.work /\ T.asked = E.asked /\ T.asks = E.asks /\ T.objective = E.objective
        /\ T.status = E.status
    BY <1>3, <1>5 DEF State
  <1> HIDE DEF T, gs
  <1>7. RowsFit(T)
    <2>1. T.objective = S.objective
      BY <1>2, <1>6 DEF Calm
    <2>2. \A g \in DOMAIN T.groups : T.groups[g].obj \in 1..T.objective
      BY <1>3, <1>4, <1>5, <1>6, <2>1 DEF Fit, RowsFit
    <2> QED
      BY <1>3, <1>6, <2>2 DEF Fit, RowsFit
  <1>8. \A g \in OpenGroups(T) : T.groups[g].obj = o
    BY <1>2, <1>4, <1>5, <1>6 DEF OpenGroups
  <1>9. Opened(S, o) = T
    BY DEF Opened, T, E, gs, row
  <1>10. T.pipes = S.pipes /\ T.token = S.token /\ T.gen = S.gen /\ T.plans = S.plans
         /\ T.status = S.status /\ T.objective = S.objective
    BY <1>2, <1>6 DEF Calm
  <1> QED
    BY <1>6, <1>7, <1>8, <1>9, <1>10 DEF Fit

-----------------------------------------------------------------------------
(* What an operation does, as the invariant and the pause see it           *)

Holds(S, T) == SlotHeld(S) /\ QuestionsHold(S) => SlotHeld(T) /\ QuestionsHold(T)

\* No plan is written, no group is opened, and no pause came.
Mild(S, T) == Fit(T) /\ Tame(S, T) /\ T.objective = S.objective /\ Holds(S, T)

\* Only the pipeline p changes among the pipelines.
Acts(S, T, p) ==
    /\ Fit(T) /\ T.gen = S.gen /\ T.objective = S.objective /\ Holds(S, T)
    /\ DOMAIN T.pipes = DOMAIN S.pipes
    /\ \A q \in DOMAIN S.pipes : q # p => T.pipes[q] = S.pipes[q]

LEMMA KeptMild == ASSUME NEW S, NEW T, Kept(S, T) PROVE Mild(S, T)
  BY KeptTame DEF Kept, Grows, Mild, Holds

LEMMA CalmMild == ASSUME NEW S, NEW T, Fit(S), Calm(S, T) PROVE Mild(S, T)
  BY CalmKept, KeptMild

LEMMA FewerMild == ASSUME NEW S, NEW T, Fit(T), Fewer(S, T), Tame(S, T) PROVE Mild(S, T)
  BY FewerKeeps DEF Fewer, Mild, Holds

LEMMA MildTwice == ASSUME NEW S, NEW T, NEW U, Mild(S, T), Mild(T, U) PROVE Mild(S, U)
  BY TameTwice DEF Mild, Holds

LEMMA CalmActs == ASSUME NEW S, NEW T, Fit(S), Calm(S, T), NEW p PROVE Acts(S, T, p)
  BY CalmKeeps DEF Calm, Acts, Holds

LEMMA ActsTwice ==
    ASSUME NEW S, NEW T, NEW U, NEW p, Acts(S, T, p), Acts(T, U, p) PROVE Acts(S, U, p)
  BY DEF Acts, Holds

LEMMA EndedActs == ASSUME NEW S, Fit(S), NEW p \in DOMAIN S.pipes PROVE Acts(S, Ended(S, p), p)
  <1>1. /\ Fit(Ended(S, p)) /\ Fewer(S, Ended(S, p))
        /\ Ended(S, p).pipes = [S.pipes EXCEPT ![p] = Over(S.pipes[p])]
    BY EndedFits
  <1>2. Ended(S, p).gen = S.gen /\ Ended(S, p).objective = S.objective
        /\ DOMAIN Ended(S, p).pipes = DOMAIN S.pipes /\ Holds(S, Ended(S, p))
    BY <1>1, FewerKeeps DEF Fewer, Holds
  <1> QED
    BY <1>1, <1>2 DEF Acts

\* The pipeline p is replaced by row.
Put(S, p, row) == [S EXCEPT !.pipes[p] = row]

LEMMA PutActs ==
    ASSUME NEW S, Fit(S), NEW p, NEW row, Replaces(S, p, row)
    PROVE  Acts(S, Put(S, p, row), p) /\ Put(S, p, row).pipes[p] = row
           /\ Put(S, p, row).status = S.status
  <1> DEFINE T == Put(S, p, row)
             rows == [S.pipes EXCEPT ![p] = row]
  <1>1. S \in State /\ p \in DOMAIN S.pipes /\ row \in PipeRow
    BY DEF Fit, Replaces
  <1>2. rows \in Seq(PipeRow) /\ DOMAIN rows = DOMAIN S.pipes /\ rows[p] = row
    BY <1>1, StateSequences, Replaced
  <1>3. /\ T \in State /\ T.pipes = rows /\ T.token = S.token /\ T.groups = S.groups
        /\ T.gen = S.gen /\ T.objective = S.objective /\ T.status = S.status
        /\ T.plans = S.plans /\ T.work = S.work /\ T.asked = S.asked /\ T.asks = S.asks
    BY <1>1, <1>2 DEF State, Put
  <1>4. \A q \in DOMAIN S.pipes : q # p => rows[q] = S.pipes[q]
    OBVIOUS
  <1> HIDE DEF T
  <1>5. Repiped(S, T, rows)
    BY <1>3 DEF Repiped
  <1>6. Fit(T) /\ Fewer(S, T)
    BY <1>3, <1>5, PipeReplaced
  <1> HIDE DEF rows
  <1>7. Acts(S, T, p)
    BY <1>2, <1>3, <1>4, <1>6, FewerKeeps DEF Acts, Holds
  <1> QED
    BY <1>2, <1>3, <1>7 DEF T

\* The next step of a pipeline.
LEMMA StepActs ==
    ASSUME NEW S, Fit(S), NEW p \in DOMAIN S.pipes, S.pipes[p].pc \in Live, NEW step \in Steps
    PROVE  /\ Acts(S, Step(S, p, step), p)
           /\ p \in DOMAIN Step(S, p, step).pipes /\ Step(S, p, step).pipes[p].pc = "models"
  <1> DEFINE row == [S.pipes[p] EXCEPT !.step = step, !.pc = "models", !.tries = 0]
  <1>1. S.pipes[p] \in PipeRow /\ S \in State
    BY StateSequences DEF Fit
  <1>2. row \in PipeRow /\ row.obj = S.pipes[p].obj /\ row.gen = S.pipes[p].gen
    BY <1>1 DEF PipeRow, Live
  <1>3. Step(S, p, step) = Put(S, p, row)
    BY <1>1, StateSequences DEF Step, Put, State, PipeRow
  <1>4. row.pc = "models"
    BY <1>1 DEF PipeRow
  <1> HIDE DEF row
  <1>5. Replaces(S, p, row)
    BY <1>2 DEF Replaces
  <1> QED
    BY <1>3, <1>4, <1>5, PutActs DEF Acts

\* The same, for a pipeline that found nothing to ask.
LEMMA PlainStepActs ==
    ASSUME NEW S, Fit(S), NEW p \in DOMAIN S.pipes, S.pipes[p].pc \in Live, NEW step \in Steps
    PROVE  Acts(S, [Step(S, p, step) EXCEPT !.pipes[p].plain = TRUE], p)
  <1> DEFINE T == Step(S, p, step)
             row == [T.pipes[p] EXCEPT !.plain = TRUE]
  <1>1. Acts(S, T, p) /\ p \in DOMAIN T.pipes /\ T.pipes[p].pc = "models"
    BY StepActs
  <1>2. Fit(T)
    BY <1>1 DEF Acts
  <1> HIDE DEF T
  <1>3. T.pipes[p] \in PipeRow
    BY <1>1, <1>2, StateSequences DEF Fit
  <1>4. row \in PipeRow /\ row.obj = T.pipes[p].obj /\ row.gen = T.pipes[p].gen /\ row.pc = T.pipes[p].pc
    BY <1>3 DEF PipeRow
  <1>5. [T EXCEPT !.pipes[p].plain = TRUE] = Put(T, p, row)
    BY DEF Put
  <1> HIDE DEF row
  <1>6. Replaces(T, p, row)
    BY <1>1, <1>4 DEF Replaces
  <1>7. Acts(S, Put(T, p, row), p)
    BY <1>1, <1>2, <1>6, PutActs, ActsTwice
  <1> QED
    BY <1>5, <1>7 DEF T

\* The plan of a pipeline is written.
LEMMA CommittedActs ==
    ASSUME NEW S, Fit(S), NEW p \in DOMAIN S.pipes
    PROVE  Acts(S, Committed(S, p), p)
  <1> DEFINE r == S.pipes[p]
             key == IF r.plain THEN NoKey ELSE r.key
             row == [obj |-> r.obj, key |-> key]
             left == [v \in DOMAIN S.work |-> IF S.work[v] = "open" THEN "cancelled" ELSE S.work[v]]
             T == [S EXCEPT !.plans = Append(S.plans, row), !.work = Append(left, "open"),
                            !.asked = {}, !.status = "active"]
  <1>1. S \in State /\ r \in PipeRow /\ r.obj \in 1..S.objective /\ S.objective \in Nat
    BY StateSequences DEF Fit, RowsFit, State
  <1>2. row \in PlanRow /\ row.obj \in 1..S.objective
    BY <1>1 DEF PlanRow, PipeRow, Keys
  <1>3. left \in Seq(WorkState) /\ Len(left) = Len(S.work)
    <2>1. S.work \in Seq(WorkState) /\ \A v \in DOMAIN S.work : left[v] \in WorkState
      BY <1>1, StateSequences DEF WorkState
    <2>2. DOMAIN left = DOMAIN S.work /\ left = [v \in DOMAIN S.work |-> left[v]]
      OBVIOUS
    <2> HIDE DEF left
    <2> QED
      BY <2>1, <2>2, Mapped
  <1> HIDE DEF row, left
  <1>4. /\ Append(S.plans, row) \in Seq(PlanRow) /\ Len(Append(S.plans, row)) = Len(S.plans) + 1
        /\ \A v \in DOMAIN Append(S.plans, row) :
              Append(S.plans, row)[v] = row \/ (v \in DOMAIN S.plans /\ Append(S.plans, row)[v] = S.plans[v])
    BY <1>1, <1>2, StateSequences
  <1>5. Append(left, "open") \in Seq(WorkState) /\ Len(Append(left, "open")) = Len(S.work) + 1
    BY <1>3 DEF WorkState
  <1>6. /\ T \in State /\ T.pipes = S.pipes /\ T.groups = S.groups /\ T.token = S.token
        /\ T.gen = S.gen /\ T.objective = S.objective /\ T.asks = S.asks /\ T.asked = {}
        /\ T.plans = Append(S.plans, row) /\ T.work = Append(left, "open")
    <2>1. "active" \in ProjectStatus /\ {} \in SUBSET Nat
      BY DEF ProjectStatus
    <2> QED
      BY <1>1, <1>4, <1>5, <2>1 DEF State
  <1> HIDE DEF T
  <1>7. RowsFit(T)
    BY <1>1, <1>2, <1>3, <1>4, <1>5, <1>6 DEF Fit, RowsFit
  <1>8. Acts(S, T, p)
    BY <1>6, <1>7 DEF Acts, Fit, Holds, SlotHeld, QuestionsHold, OpenGroups, Current
  <1>9. Acts(S, S, p)
    BY DEF Acts, Holds
  <1>10. Committed(S, p) = S \/ Committed(S, p) = T
    BY DEF Committed, T, left, row
  <1> QED
    BY <1>8, <1>9, <1>10

\* A current pipeline asks, and ends: then no pipeline is current.
LEMMA AskedActs ==
    ASSUME NEW S, Fit(S), NEW p \in DOMAIN S.pipes, Current(S, p), NEW s \in ProjectStatus
    PROVE  Acts(S, Ended([Opened(S, S.pipes[p].obj) EXCEPT !.status = s], p), p)
  <1> DEFINE o == S.pipes[p].obj
             T == Opened(S, o)
             U == [T EXCEPT !.status = s]
             E == Ended(U, p)
  <1>1. S \in State /\ o \in 1..S.objective
    BY DEF Fit, RowsFit
  <1>2. Fit(T) /\ T.pipes = S.pipes /\ T.gen = S.gen /\ T.objective = S.objective /\ T.token = S.token
    BY <1>1, OpenedFits
  <1> HIDE DEF T
  <1>3. Calm(T, U)
    BY <1>2, StatusCalm DEF Fit
  <1>4. Fit(U) /\ U.pipes = T.pipes /\ U.gen = T.gen /\ U.objective = T.objective /\ U.token = T.token
    BY <1>2, <1>3, CalmKeeps DEF Calm
  <1> HIDE DEF U
  <1>5. p \in DOMAIN U.pipes
    BY <1>2, <1>4
  <1>6. Acts(U, E, p) /\ E.pipes = [U.pipes EXCEPT ![p] = Over(U.pipes[p])] /\ Fewer(U, E)
    BY <1>4, <1>5, EndedActs, EndedFits
  <1> HIDE DEF E
  <1>7. E.pipes[p].pc \notin Live
    <2>1. U.pipes[p] \in PipeRow
      BY <1>4, <1>5, StateSequences DEF Fit
    <2> QED
      BY <1>5, <1>6, <2>1, OverRow DEF Live
  <1>8. ASSUME SlotHeld(S), NEW q \in DOMAIN E.pipes PROVE ~Current(E, q)
    <2>1. S.token = p
      BY <1>8 DEF SlotHeld
    <2>2. ASSUME q # p PROVE Current(E, q) => Current(S, q) /\ q \in DOMAIN S.pipes
      BY <1>2, <1>4, <1>6, <1>8, <2>2 DEF Acts, Current
    <2> QED
      BY <1>7, <1>8, <2>1, <2>2 DEF SlotHeld, Current
  <1>9. Holds(S, E)
    BY <1>8 DEF Holds, SlotHeld, QuestionsHold
  <1>10. Acts(S, E, p)
    BY <1>2, <1>4, <1>6, <1>9 DEF Acts
  <1> QED
    BY <1>10 DEF E, U, T

\* Blocking planning is calm for a pipeline: it has an objective.
LEMMA RefusedActs ==
    ASSUME NEW S, Fit(S), NEW p \in DOMAIN S.pipes
    PROVE  Acts(S, Ended(Blocked(S), p), p)
  <1>1. S \in State /\ S.objective # 0
    BY DEF Fit, RowsFit, State
  <1>2. Acts(S, Blocked(S), p)
    BY <1>1, BlockedCalm, CalmActs
  <1>3. Fit(Blocked(S)) /\ p \in DOMAIN Blocked(S).pipes
    BY <1>2 DEF Acts
  <1>4. Acts(Blocked(S), Ended(Blocked(S), p), p)
    BY <1>3, EndedActs
  <1> QED
    BY <1>2, <1>4, ActsTwice

\* An error that ends a pipeline is an end with another mark.
LEMMA ThrownActs ==
    ASSUME NEW S, Fit(S), NEW p \in DOMAIN S.pipes
    PROVE  Acts(S, Thrown(S, p), p)
  <1> DEFINE T == Ended(S, p)
             row == [T.pipes[p] EXCEPT !.pc = "thrown"]
  <1>1. Acts(S, T, p)
    BY EndedActs
  <1>2. Fit(T) /\ p \in DOMAIN T.pipes
    BY <1>1 DEF Acts
  <1>3. Thrown(S, p) = Put(T, p, row)
    BY DEF Thrown, Put
  <1> HIDE DEF T
  <1>4. T.pipes[p] \in PipeRow
    BY <1>2, StateSequences DEF Fit
  <1>5. row \in PipeRow /\ row.obj = T.pipes[p].obj /\ row.gen = T.pipes[p].gen /\ row.pc \notin Live
    BY <1>4 DEF PipeRow, Live
  <1> HIDE DEF row
  <1>6. Acts(T, Put(T, p, row), p)
    BY <1>2, <1>5, PutActs DEF Replaces
  <1> QED
    BY <1>1, <1>3, <1>6, ActsTwice

LEMMA OutcomesAct ==
    ASSUME NEW S, Fit(S), NEW p \in DOMAIN S.pipes, Current(S, p), NEW T \in Outcomes(S, p)
    PROVE  Acts(S, T, p)
  <1> DEFINE r == S.pipes[p]
  <1>1. S.pipes[p].pc \in Live /\ S \in State /\ S.status \in ProjectStatus
    BY DEF Current, Fit, State
  <1>2. Acts(S, Ended(Blocked(S), p), p)
    BY RefusedActs
  <1>3. Acts(S, Step(S, p, "architecture"), p) /\ Acts(S, Step(S, p, "clarification"), p)
        /\ Acts(S, Step(S, p, "plan"), p)
    BY <1>1, StepActs DEF Steps
  <1>4. Acts(S, [Step(S, p, "architecture") EXCEPT !.pipes[p].plain = TRUE], p)
    BY <1>1, PlainStepActs DEF Steps
  <1>5. Acts(S, Ended([Opened(S, r.obj) EXCEPT
                         !.status = IF CanSet(S, "clarifying") THEN "clarifying" ELSE @], p), p)
    <2> DEFINE Q == Opened(S, r.obj)
               s == IF CanSet(S, "clarifying") THEN "clarifying" ELSE Q.status
    <2>1. Fit(Q)
      BY OpenedFits DEF Fit, RowsFit
    <2>2. s \in ProjectStatus
      BY <2>1 DEF Fit, State, ProjectStatus
    <2> HIDE DEF s
    <2>3. Acts(S, Ended([Q EXCEPT !.status = s], p), p)
      BY <2>2, AskedActs
    <2> QED
      BY <2>3 DEF s
  <1>6. Acts(S, Ended(Committed(S, p), p), p)
    <2>1. Acts(S, Committed(S, p), p)
      BY CommittedActs
    <2>2. Fit(Committed(S, p)) /\ p \in DOMAIN Committed(S, p).pipes
      BY <2>1 DEF Acts
    <2>3. Acts(Committed(S, p), Ended(Committed(S, p), p), p)
      BY <2>2, EndedActs
    <2> QED
      BY <2>1, <2>3, ActsTwice
  <1>7. \/ T = Ended(Blocked(S), p)
        \/ T \in {Step(S, p, "architecture"), Step(S, p, "clarification"), Step(S, p, "plan")}
        \/ T = [Step(S, p, "architecture") EXCEPT !.pipes[p].plain = TRUE]
        \/ T = Ended([Opened(S, r.obj) EXCEPT
                         !.status = IF CanSet(S, "clarifying") THEN "clarifying" ELSE @], p)
        \/ T = Ended(Committed(S, p), p)
        \/ T = Thrown(S, p)
    BY DEF Outcomes
  <1> QED
    BY <1>2, <1>3, <1>4, <1>5, <1>6, <1>7, ThrownActs

-----------------------------------------------------------------------------
(* The actions                                                             *)

\* PauseFencesPlanning, as a relation between states.
Follows(S, T) ==
    /\ DOMAIN S.pipes \subseteq DOMAIN T.pipes
    /\ \A p \in DOMAIN S.pipes : S.pipes[p].gen # S.gen =>
          /\ T.pipes[p].pc \in {S.pipes[p].pc, "done"}
          /\ T.pipes[p].run # S.pipes[p].run => T.pipes[p].run \in {"cancelled", "failed"}
          /\ T.pipes[p].pc # S.pipes[p].pc => T.plans = S.plans /\ Len(T.groups) = Len(S.groups)
    /\ S.status = "paused" /\ T.status = "paused" => T.plans = S.plans /\ Len(T.groups) = Len(S.groups)

\* What is shown of the step from S to T.
Goes(S, T) == Fit(T) /\ Follows(S, T) /\ Holds(S, T)
Same(S, T) == T.gen = S.gen /\ T.objective = S.objective

LEMMA MildGoes == ASSUME NEW S, NEW T, Mild(S, T) PROVE Goes(S, T) /\ Same(S, T)
  BY DEF Mild, Tame, OnlyEnds, Goes, Follows, Same

LEMMA ActsGoes ==
    ASSUME NEW S, NEW T, NEW p, Acts(S, T, p), S.status # "paused", S.pipes[p].gen = S.gen
    PROVE  Goes(S, T) /\ Same(S, T)
  BY DEF Acts, Goes, Follows, Same

LEMMA NowIsState ==
    ASSUME NEW T \in State, Become(T)
    PROVE  Now' = T /\ max' = max
  <1>1. T = [status |-> T.status, gen |-> T.gen, objective |-> T.objective, groups |-> T.groups,
             plans |-> T.plans, work |-> T.work, asked |-> T.asked, asks |-> T.asks,
             pipes |-> T.pipes, token |-> T.token]
    BY DEF State
  <1>2. Now' = [status |-> T.status, gen |-> T.gen, objective |-> T.objective, groups |-> T.groups,
             plans |-> T.plans, work |-> T.work, asked |-> T.asked, asks |-> T.asks,
             pipes |-> T.pipes, token |-> T.token]
    BY DEF Become, Now
  <1> QED
    BY <1>1, <1>2 DEF Become

LEMMA BecomeGoes ==
    ASSUME NEW T, Become(T), Goes(Now, T)
    PROVE  Goes(Now, Now') /\ max' = max /\ (Same(Now, T) => gen' = gen /\ objective' = objective)
           /\ DOMAIN pipes \subseteq DOMAIN pipes' /\ gen' = T.gen /\ objective' = T.objective
  <1>1. T \in State
    BY DEF Goes, Fit
  <1>2. Now' = T /\ max' = max
    BY <1>1, NowIsState
  <1>3. T.gen = gen' /\ T.objective = objective' /\ T.pipes = pipes'
    BY DEF Become
  <1>4. Now.gen = gen /\ Now.objective = objective /\ Now.pipes = pipes
    BY DEF Now
  <1> QED
    BY <1>2, <1>3, <1>4 DEF Same, Goes, Follows

\* An action keeps the invariant and the promise of the pause.
Moves == Goes(Now, Now') /\ max' = max /\ gen' = gen /\ objective' = objective
         /\ DOMAIN pipes \subseteq DOMAIN pipes'

LEMMA MildMoves == ASSUME NEW T, Become(T), Mild(Now, T) PROVE Moves
  BY MildGoes, BecomeGoes DEF Moves

LEMMA ActsMoves ==
    ASSUME NEW p, NEW T, Become(T), Acts(Now, T, p), ~Fenced(p)
    PROVE  Moves
  <1>1. Now.status # "paused" /\ Now.pipes[p].gen = Now.gen
    BY DEF Fenced, Now
  <1> QED
    BY <1>1, ActsGoes, BecomeGoes DEF Moves

\* Answers, work and approvals change no pipeline.
LEMMA AnsweredCalm ==
    ASSUME NEW S \in State, NEW g \in DOMAIN S.groups
    PROVE  Calm(S, [S EXCEPT !.groups[g].state = "answered"])
  <1> DEFINE row == [S.groups[g] EXCEPT !.state = "answered"]
             rows == [S.groups EXCEPT ![g] = row]
             T == [S EXCEPT !.groups = rows]
  <1>1. S.groups[g] \in GroupRow
    BY StateSequences
  <1>2. row \in GroupRow /\ row.obj = S.groups[g].obj /\ row.state # "open"
    BY <1>1 DEF GroupRow
  <1> HIDE DEF row
  <1>3. rows \in Seq(GroupRow) /\ Len(rows) = Len(S.groups) /\ DOMAIN rows = DOMAIN S.groups
    BY <1>2, StateSequences, Replaced
  <1>4. T \in State /\ T.groups = rows
    BY <1>3 DEF State
  <1>5. \A h \in DOMAIN S.groups :
            rows[h].obj = S.groups[h].obj /\ (rows[h].state = "open" => S.groups[h].state = "open")
    BY <1>2
  <1> HIDE DEF rows
  <1>6. Calm(S, T)
    BY <1>3, <1>4, <1>5 DEF Calm, State
  <1> QED
    BY <1>6 DEF rows, row

\* The columns of missions and approvals.
Sides(S, T) ==
    /\ T \in State /\ T.pipes = S.pipes /\ T.gen = S.gen /\ T.token = S.token
    /\ T.objective = S.objective /\ T.plans = S.plans /\ T.groups = S.groups
    /\ Len(T.work) = Len(S.work) /\ T.asked \subseteq S.asked \cup DOMAIN S.work
    /\ T.asks # 0 => S.asks # 0

LEMMA SidesCalm == ASSUME NEW S, NEW T, Sides(S, T) PROVE Calm(S, T)
  BY DEF Sides, Calm

LEMMA WorkSet ==
    ASSUME NEW S \in State, NEW v \in DOMAIN S.work, NEW w \in WorkState
    PROVE  Sides(S, [S EXCEPT !.work[v] = w])
  <1>1. [S.work EXCEPT ![v] = w] \in Seq(WorkState) /\ Len([S.work EXCEPT ![v] = w]) = Len(S.work)
    BY StateSequences, Replaced
  <1> DEFINE T == [S EXCEPT !.work[v] = w]
  <1>2. T \in State /\ T.work = [S.work EXCEPT ![v] = w]
    BY <1>1 DEF State
  <1> QED
    BY <1>1, <1>2 DEF Sides, State

LEMMA AskedSet ==
    ASSUME NEW S \in State, NEW a \in SUBSET (S.asked \cup DOMAIN S.work)
    PROVE  Sides(S, [S EXCEPT !.asked = a])
  <1>1. a \in SUBSET Nat
    BY StateSequences DEF State
  <1> DEFINE T == [S EXCEPT !.asked = a]
  <1>2. T \in State /\ T.asked = a
    BY <1>1 DEF State
  <1>3. T.asked \subseteq S.asked \cup DOMAIN S.work
    BY <1>2
  <1>4. T.pipes = S.pipes /\ T.gen = S.gen /\ T.token = S.token /\ T.objective = S.objective
        /\ T.plans = S.plans /\ T.groups = S.groups /\ T.work = S.work /\ T.asks = S.asks
    BY DEF State
  <1> HIDE DEF T
  <1>5. Sides(S, T)
    BY <1>2, <1>3, <1>4 DEF Sides
  <1> QED
    BY <1>5 DEF T

LEMMA AsksTaken ==
    ASSUME NEW S \in State, S.asks > 0
    PROVE  Sides(S, [S EXCEPT !.asks = @ - 1])
  <1> DEFINE T == [S EXCEPT !.asks = @ - 1]
  <1>1. S.asks - 1 \in Nat /\ S.asks # 0
    BY DEF State
  <1>2. T \in State
    BY <1>1 DEF State
  <1>3. T.pipes = S.pipes /\ T.gen = S.gen /\ T.token = S.token /\ T.objective = S.objective
        /\ T.plans = S.plans /\ T.groups = S.groups /\ T.work = S.work /\ T.asked = S.asked
    BY DEF State
  <1> HIDE DEF T
  <1>4. Sides(S, T)
    BY <1>1, <1>2, <1>3 DEF Sides
  <1> QED
    BY <1>4 DEF T

\* Work is given up or done again: the missions of P have the state w.
LEMMA WorkMapped ==
    ASSUME NEW S \in State, NEW w \in WorkState, NEW P
    PROVE  Sides(S, [S EXCEPT !.work = [v \in DOMAIN @ |-> IF v \in P THEN w ELSE @[v]]])
  <1> DEFINE rows == [v \in DOMAIN S.work |-> IF v \in P THEN w ELSE S.work[v]]
             T == [S EXCEPT !.work = rows]
  <1>1. S.work \in Seq(WorkState) /\ \A v \in DOMAIN S.work : rows[v] \in WorkState
    BY StateSequences
  <1>2. DOMAIN rows = DOMAIN S.work /\ rows = [v \in DOMAIN S.work |-> rows[v]]
    OBVIOUS
  <1>3. [S EXCEPT !.work = [v \in DOMAIN @ |-> IF v \in P THEN w ELSE @[v]]] = T
    OBVIOUS
  <1> HIDE DEF rows
  <1>4. rows \in Seq(WorkState) /\ Len(rows) = Len(S.work)
    BY <1>1, <1>2, Mapped
  <1>5. T \in State /\ T.work = rows
    BY <1>4 DEF State
  <1>6. Sides(S, T)
    BY <1>4, <1>5 DEF Sides, State
  <1> QED
    BY <1>3, <1>6

LEMMA NowFit ==
    ASSUME Fit(Now)
    PROVE  /\ Now \in State
           /\ Now.status = status /\ Now.gen = gen /\ Now.objective = objective
           /\ Now.groups = groups /\ Now.plans = plans /\ Now.work = work
           /\ Now.asked = asked /\ Now.asks = asks /\ Now.pipes = pipes /\ Now.token = token
           /\ status \in ProjectStatus /\ gen \in Nat /\ objective \in Nat /\ asks \in Nat
           /\ DOMAIN work = DOMAIN plans /\ asked \subseteq DOMAIN work
           /\ (asks # 0 => objective # 0)
           /\ \A v \in DOMAIN plans : plans[v].obj \in 1..objective
           /\ \A g \in DOMAIN groups : groups[g].obj \in 1..objective
           /\ \A p \in DOMAIN pipes : pipes[p].obj \in 1..objective
  <1>1. Now \in State /\ RowsFit(Now)
    BY DEF Fit
  <1>2. /\ Now.status = status /\ Now.gen = gen /\ Now.objective = objective
           /\ Now.groups = groups /\ Now.plans = plans /\ Now.work = work
           /\ Now.asked = asked /\ Now.asks = asks /\ Now.pipes = pipes /\ Now.token = token
    BY DEF Now
  <1>3. Now.status \in ProjectStatus /\ Now.gen \in Nat /\ Now.objective \in Nat /\ Now.asks \in Nat
    BY <1>1 DEF State
  <1>4. DOMAIN Now.work = DOMAIN Now.plans
    BY <1>1, StateSequences DEF RowsFit
  <1> QED
    BY <1>1, <1>2, <1>3, <1>4 DEF RowsFit

LEMMA AnswerMoves == ASSUME Fit(Now), NEW g, Answer(g) PROVE Moves
  <1> DEFINE A == [Now EXCEPT !.groups[g].state = "answered"]
             S == WithPending(A, g, 1)
  <1>1. g \in DOMAIN Now.groups /\ Now \in State
    BY NowFit DEF Answer, OpenGroups
  <1>2. Calm(Now, A)
    BY <1>1, AnsweredCalm
  <1> HIDE DEF A
  <1>3. A \in State /\ g \in DOMAIN A.groups
    BY <1>1, <1>2, StateSequences DEF Calm
  <1>4. Mild(Now, S) /\ Fit(S)
    BY <1>2, <1>3, PendingCalm, CalmTwice, CalmMild, <1>1 DEF Mild
  <1>5. g \in DOMAIN S.groups
    BY <1>1, <1>4, StateSequences DEF Mild, Tame, Fit
  <1>6. Become(Resumed(S, g))
    <2>1. [Now EXCEPT !.groups[g].state = "answered", !.groups[g].pending = 1] = S
      BY DEF WithPending, A
    <2> QED
      BY <2>1 DEF Answer
  <1> HIDE DEF S
  <1>7. Mild(Now, Resumed(S, g))
    BY <1>4, <1>5, ResumedKept, KeptMild, MildTwice
  <1> QED
    BY <1>6, <1>7, MildMoves

\* Planning is started for the latest objective.
LEMMA KickMild ==
    ASSUME NEW S, Fit(S), Mild(Now, S), S.objective # 0
    PROVE  Mild(Now, Kicked(S, S.objective))
  <1>1. S.objective \in 1..S.objective
    BY DEF Fit, State
  <1> QED
    BY <1>1, KickedKept, KeptMild, MildTwice

LEMMA SidesMild == ASSUME NEW S, NEW T, Fit(S), Sides(S, T) PROVE Mild(S, T) /\ Fit(T)
  BY SidesCalm, CalmMild DEF Mild

LEMMA StatusMild ==
    ASSUME NEW S, Mild(Now, S), NEW s \in ProjectStatus
    PROVE  Mild(Now, [S EXCEPT !.status = s])
  <1>1. Fit(S) /\ S \in State
    BY DEF Mild, Fit
  <1> QED
    BY <1>1, StatusCalm, CalmMild, MildTwice

LEMMA ResolvePlanningMoves ==
    ASSUME Fit(Now), NEW approved \in BOOLEAN, ResolvePlanning(approved) PROVE Moves
  <1> DEFINE S == [Now EXCEPT !.asks = @ - 1]
             s == IF CanSet(S, "active") THEN "active" ELSE S.status
  <1>1. Now \in State /\ Now.asks > 0 /\ Now.objective # 0 /\ Now.objective = objective
    BY NowFit DEF ResolvePlanning
  <1>2. Mild(Now, S) /\ Fit(S)
    BY <1>1, AsksTaken, SidesMild
  <1>3. PICK T : /\ Become(T)
                 /\ \/ T = S \/ T = Kicked(S, objective) \/ T = [S EXCEPT !.status = s]
    BY DEF ResolvePlanning
  <1> HIDE DEF S
  <1>4. S.objective = objective /\ S.status \in ProjectStatus
    BY <1>1, <1>2 DEF Mild, Fit, State
  <1>5. s \in ProjectStatus
    BY <1>4 DEF ProjectStatus
  <1> HIDE DEF s
  <1>6. Mild(Now, Kicked(S, objective)) /\ Mild(Now, [S EXCEPT !.status = s])
    BY <1>1, <1>2, <1>4, <1>5, KickMild, StatusMild
  <1> QED
    BY <1>2, <1>3, <1>6, MildMoves

LEMMA ResolveMissionMoves ==
    ASSUME Fit(Now), NEW v \in asked, NEW approved \in BOOLEAN, ResolveMission(v, approved) PROVE Moves
  <1> DEFINE w == IF v # Len(plans) \/ work[v] # "failed" THEN work[v]
                  ELSE IF approved THEN "inflight" ELSE "cancelled"
             S == [Now EXCEPT !.asked = asked \ {v}]
             T == [S EXCEPT !.work[v] = w]
  <1>1. Now \in State /\ v \in DOMAIN Now.work /\ Now.asked = asked /\ Now.work = work
    BY NowFit
  <1>2. w \in WorkState
    <2>1. work[v] \in WorkState
      BY <1>1, StateSequences
    <2> QED
      BY <2>1 DEF WorkState
  <1>3. Become([Now EXCEPT !.asked = asked \ {v}, !.work[v] = w])
    BY <1>1 DEF ResolveMission
  <1>4. Become(T)
    BY <1>3
  <1> HIDE DEF w
  <1>5. Mild(Now, S) /\ Fit(S) /\ S.work = work
    BY <1>1, AskedSet, SidesMild DEF State
  <1> HIDE DEF S
  <1>6. Mild(S, T)
    BY <1>1, <1>2, <1>5, WorkSet, SidesMild DEF Fit
  <1> QED
    BY <1>4, <1>5, <1>6, MildTwice, MildMoves

LEMMA ScheduleMoves == ASSUME Fit(Now), NEW v \in DOMAIN work, Schedule(v) PROVE Moves
  <1>1. Now \in State /\ v \in DOMAIN Now.work /\ "inflight" \in WorkState
    BY NowFit DEF WorkState
  <1>2. Mild(Now, [Now EXCEPT !.work[v] = "inflight"])
    BY <1>1, WorkSet, SidesMild
  <1> QED
    BY <1>2, MildMoves DEF Schedule

LEMMA MissionCompletesMoves ==
    ASSUME Fit(Now), NEW v \in DOMAIN work, MissionCompletes(v) PROVE Moves
  <1> DEFINE S == [Now EXCEPT !.work[v] = "completed"]
             over == \A u \in DOMAIN S.work : S.work[u] \in {"completed", "cancelled"}
             s == IF over THEN "completed" ELSE S.status
  <1>1. Now \in State /\ v \in DOMAIN Now.work /\ "completed" \in WorkState
    BY NowFit DEF WorkState
  <1>2. Mild(Now, S) /\ Fit(S)
    BY <1>1, WorkSet, SidesMild
  <1>3. PICK T : Become(T) /\ (T = Dead(S) \/ T = [S EXCEPT !.status = s])
    BY DEF MissionCompletes
  <1> HIDE DEF S, over
  <1>4. s \in ProjectStatus
    BY <1>2 DEF Fit, State, ProjectStatus
  <1> HIDE DEF s
  <1>5. Mild(Now, Dead(S)) /\ Mild(Now, [S EXCEPT !.status = s])
    BY <1>2, <1>4, DeadFits, FewerMild, MildTwice, StatusMild
  <1> QED
    BY <1>3, <1>5, MildMoves

LEMMA MissionFailsMoves ==
    ASSUME Fit(Now), NEW v \in DOMAIN work, NEW evidence \in 0..1, MissionFails(v, evidence) PROVE Moves
  <1> DEFINE W == [Now EXCEPT !.work[v] = "failed"]
             S == [W EXCEPT !.asked = asked \cup {v}]
             key == <<"mission_failed", objective, v, evidence>>
  <1>1. /\ Now \in State /\ v \in DOMAIN Now.work /\ "failed" \in WorkState /\ Now.asked = asked
        /\ objective \in Nat /\ v \in Nat /\ objective # 0 /\ Now.objective = objective
    BY NowFit, StateSequences DEF WorkState
  <1>2. Mild(Now, W) /\ Fit(W)
    BY <1>1, WorkSet, SidesMild
  <1>3. W.asked = asked /\ v \in DOMAIN W.work
    BY <1>1 DEF State
  <1> HIDE DEF W
  <1>4. Mild(W, S) /\ Fit(S)
    BY <1>2, <1>3, AskedSet, SidesMild DEF Fit
  <1>5. S.objective = objective /\ key \in Keys
    BY <1>1, <1>2, <1>4 DEF Mild, Keys
  <1>6. Become(S) \/ Become(EnsurePlan(S, objective, key))
    <2>1. [Now EXCEPT !.work[v] = "failed", !.asked = @ \cup {v}] = S
      BY <1>1 DEF W, State
    <2> QED
      BY <2>1 DEF MissionFails
  <1> HIDE DEF S, key
  <1>7. objective \in 1..S.objective
    BY <1>1, <1>5
  <1>8. Mild(Now, S) /\ Mild(S, EnsurePlan(S, objective, key))
    BY <1>2, <1>4, <1>5, <1>7, MildTwice, EnsurePlanKept, KeptMild
  <1> QED
    BY <1>6, <1>8, MildTwice, MildMoves

\* A pipeline that a pause fenced ends.
LEMMA FencedMoves == ASSUME Fit(Now), NEW p \in DOMAIN pipes, Become(Ended(Now, p)) PROVE Moves
  <1>1. p \in DOMAIN Now.pipes
    BY NowFit
  <1> QED
    BY <1>1, EndedFits, FewerMild, MildMoves

\* A row of a pipeline that stays where it is or waits for the next call.
LEMMA PipePut ==
    ASSUME Fit(Now), NEW p \in DOMAIN pipes, pipes[p].pc \in Live, NEW pc \in Live, NEW run \in RunStates
    PROVE  /\ Acts(Now, [Now EXCEPT !.pipes[p].pc = pc], p)
           /\ Acts(Now, [Now EXCEPT !.pipes[p].run = run], p)
           /\ Acts(Now, [Now EXCEPT !.pipes[p].pc = pc, !.pipes[p].run = run], p)
           /\ LET T == [Now EXCEPT !.pipes[p].run = run]
              IN  p \in DOMAIN T.pipes /\ T.pipes[p].pc = pipes[p].pc /\ T.pipes[p].gen = pipes[p].gen
                  /\ T.gen = gen
  <1> DEFINE a == [Now.pipes[p] EXCEPT !.pc = pc]
             b == [Now.pipes[p] EXCEPT !.run = run]
             T == Put(Now, p, a)
             c == [T.pipes[p] EXCEPT !.run = run]
  <1>1. p \in DOMAIN Now.pipes /\ Now.pipes = pipes /\ Now.pipes[p] \in PipeRow /\ Now.gen = gen
    BY NowFit, StateSequences
  <1>2. a \in PipeRow /\ a.obj = Now.pipes[p].obj /\ a.gen = Now.pipes[p].gen /\ a.pc = pc
    BY <1>1 DEF PipeRow
  <1>3. b \in PipeRow /\ b.obj = Now.pipes[p].obj /\ b.gen = Now.pipes[p].gen /\ b.pc = Now.pipes[p].pc
    BY <1>1, RunRow
  <1> HIDE DEF a, b
  <1>4. Replaces(Now, p, a) /\ Replaces(Now, p, b)
    BY <1>1, <1>2, <1>3 DEF Replaces
  <1>5. Acts(Now, T, p) /\ T.pipes[p] = a
    BY <1>4, PutActs
  <1>6. Acts(Now, Put(Now, p, b), p) /\ Put(Now, p, b).pipes[p] = b
    BY <1>4, PutActs
  <1> HIDE DEF T
  <1>7. c \in PipeRow /\ c.obj = a.obj /\ c.gen = a.gen /\ c.pc = a.pc
    BY <1>2, <1>5, RunRow
  <1> HIDE DEF c
  <1>8. Replaces(T, p, c)
    BY <1>1, <1>2, <1>5, <1>7 DEF Replaces, Acts
  <1>9. Acts(Now, Put(T, p, c), p)
    <2>1. Fit(T)
      BY <1>5 DEF Acts
    <2> QED
      BY <1>5, <1>8, <2>1, PutActs, ActsTwice
  <1>10. /\ [Now EXCEPT !.pipes[p].pc = pc] = T /\ [Now EXCEPT !.pipes[p].run = run] = Put(Now, p, b)
         /\ [Now EXCEPT !.pipes[p].pc = pc, !.pipes[p].run = run] = Put(T, p, c)
    <2>1. [Now EXCEPT !.pipes[p].pc = pc] = T
      BY DEF T, a, Put
    <2>2. [Now EXCEPT !.pipes[p].run = run] = Put(Now, p, b)
      BY DEF b, Put
    <2>3. [T EXCEPT !.pipes[p].run = run] = Put(T, p, c)
      BY DEF c, Put
    <2>4. [Now EXCEPT !.pipes[p].pc = pc, !.pipes[p].run = run] = [T EXCEPT !.pipes[p].run = run]
      BY <2>1
    <2> QED
      BY <2>1, <2>2, <2>3, <2>4
  <1>11. p \in DOMAIN Put(Now, p, b).pipes /\ Put(Now, p, b).gen = gen
    BY <1>1, <1>6 DEF Acts
  <1> QED
    BY <1>1, <1>3, <1>5, <1>6, <1>9, <1>10, <1>11

LEMMA SnapshotTakenMoves ==
    ASSUME Fit(Now), NEW p \in DOMAIN pipes, SnapshotTaken(p) PROVE Moves
  <1>1. p \in DOMAIN Now.pipes /\ pipes[p].pc \in Live /\ "models" \in Live /\ "none" \in RunStates
    BY NowFit DEF SnapshotTaken, Live, RunStates
  <1>2. CASE Fenced(p) /\ Become(Ended(Now, p))
    BY <1>2, FencedMoves
  <1>3. CASE ~Fenced(p) /\ Become(Ended(Blocked(Now), p))
    BY <1>1, <1>3, RefusedActs, ActsMoves
  <1>4. CASE ~Fenced(p) /\ Become([Now EXCEPT !.pipes[p].pc = "models"])
    BY <1>1, <1>4, PipePut, ActsMoves
  <1> QED
    BY <1>2, <1>3, <1>4 DEF SnapshotTaken

LEMMA ModelsListedMoves ==
    ASSUME Fit(Now), NEW p \in DOMAIN pipes, ModelsListed(p) PROVE Moves
  <1>1. pipes[p].pc \in Live /\ "provider" \in Live /\ "running" \in RunStates
    BY DEF ModelsListed, Live, RunStates
  <1>2. CASE Fenced(p) /\ Become(Ended(Now, p))
    BY <1>2, FencedMoves
  <1>3. CASE ~Fenced(p) /\ Become([Now EXCEPT !.pipes[p].pc = "provider", !.pipes[p].run = "running"])
    BY <1>1, <1>3, PipePut, ActsMoves
  <1>4. ASSUME ~Fenced(p), Become(Thrown([Now EXCEPT !.pipes[p].run = "running"], p)) PROVE Moves
    <2> DEFINE T == [Now EXCEPT !.pipes[p].run = "running"]
    <2>1. Acts(Now, T, p) /\ p \in DOMAIN T.pipes
      BY <1>1, PipePut
    <2> HIDE DEF T
    <2>2. Acts(T, Thrown(T, p), p)
      BY <2>1, ThrownActs DEF Acts
    <2>3. Become(Thrown(T, p))
      BY <1>4 DEF T
    <2> QED
      BY <1>1, <1>4, <2>1, <2>2, <2>3, ActsTwice, ActsMoves
  <1> QED
    BY <1>2, <1>3, <1>4 DEF ModelsListed

LEMMA ProviderEndsMoves ==
    ASSUME Fit(Now), NEW p \in DOMAIN pipes, ProviderEnds(p) PROVE Moves
  <1> DEFINE Run(run) == [Now EXCEPT !.pipes[p].run = run]
  <1>1. pipes[p].pc \in Live /\ "models" \in Live /\ "succeeded" \in RunStates /\ "failed" \in RunStates
    BY DEF ProviderEnds, Live, RunStates
  <1>2. CASE Fenced(p) /\ Become(Ended(Now, p))
    BY <1>2, FencedMoves
  <1>3. ASSUME NEW run \in RunStates, ~Fenced(p)
        PROVE  /\ Acts(Now, Run(run), p) /\ Fit(Run(run)) /\ p \in DOMAIN Run(run).pipes
               /\ Current(Run(run), p)
    <2>1. /\ Acts(Now, Run(run), p) /\ p \in DOMAIN Run(run).pipes
          /\ Run(run).pipes[p].pc = pipes[p].pc /\ Run(run).pipes[p].gen = pipes[p].gen
          /\ Run(run).gen = gen
      BY <1>1, PipePut
    <2>2. pipes[p].gen = gen
      BY <1>3 DEF Fenced
    <2> HIDE DEF Run
    <2> QED
      BY <1>1, <2>1, <2>2 DEF Acts, Current
  <1>4. ASSUME ~Fenced(p), NEW S \in Outcomes(Run("succeeded"), p), Become(S) PROVE Moves
    <2> HIDE DEF Run
    <2>1. Acts(Run("succeeded"), S, p)
      BY <1>1, <1>3, <1>4, OutcomesAct
    <2> QED
      BY <1>1, <1>3, <1>4, <2>1, ActsTwice, ActsMoves
  <1>5. ASSUME ~Fenced(p), pipes[p].tries < max.tries,
               Become([Now EXCEPT !.pipes[p].run = "failed", !.pipes[p].pc = "models",
                                  !.pipes[p].tries = @ + 1])
        PROVE  Moves
    <2> DEFINE T == Run("failed")
               row == [T.pipes[p] EXCEPT !.pc = "models", !.tries = @ + 1]
    <2>1. Acts(Now, T, p) /\ Fit(T) /\ p \in DOMAIN T.pipes /\ Current(T, p)
      BY <1>1, <1>3, <1>5
    <2>2. [Now EXCEPT !.pipes[p].run = "failed", !.pipes[p].pc = "models", !.pipes[p].tries = @ + 1]
             = [T EXCEPT !.pipes[p].pc = "models", !.pipes[p].tries = @ + 1]
      OBVIOUS
    <2> HIDE DEF Run
    <2>3. T.pipes[p] \in PipeRow /\ T.pipes[p].tries + 1 \in Nat
      <3>1. T.pipes[p] \in PipeRow
        BY <2>1, StateSequences DEF Fit
      <3> QED
        BY <3>1 DEF PipeRow
    <2> HIDE DEF T
    <2>4. row \in PipeRow /\ row.obj = T.pipes[p].obj /\ row.gen = T.pipes[p].gen
      BY <1>1, <2>3 DEF PipeRow
    <2>5. [T EXCEPT !.pipes[p].pc = "models", !.pipes[p].tries = @ + 1] = Put(T, p, row)
      BY <2>1, <2>3, StateSequences DEF Put, Fit, State, PipeRow
    <2> HIDE DEF row
    <2>6. Replaces(T, p, row)
      BY <2>1, <2>4 DEF Replaces, Current
    <2>7. Acts(Now, Put(T, p, row), p)
      BY <2>1, <2>6, PutActs, ActsTwice
    <2> QED
      BY <1>5, <2>2, <2>5, <2>7, ActsMoves
  <1>6. ASSUME ~Fenced(p), Become(Ended(Blocked(Run("failed")), p)) PROVE Moves
    <2> HIDE DEF Run
    <2>1. Acts(Run("failed"), Ended(Blocked(Run("failed")), p), p)
      BY <1>1, <1>3, <1>6, RefusedActs
    <2> QED
      BY <1>1, <1>3, <1>6, <2>1, ActsTwice, ActsMoves
  <1>7. CASE ~Fenced(p) /\ Become(Thrown(Now, p))
    <2>1. p \in DOMAIN Now.pipes
      BY NowFit
    <2> QED
      BY <1>1, <1>7, <2>1, ThrownActs, ActsMoves
  <1> QED
    BY <1>2, <1>4, <1>5, <1>6, <1>7 DEF ProviderEnds

LEMMA ResumeMoves == ASSUME Fit(Now), before \in ProjectStatus, Resume PROVE Moves
  <1>1. PICK redone \in SUBSET InFlightWork(Now) :
          LET S == [Now EXCEPT !.status = before,
                               !.work = [v \in DOMAIN @ |-> IF v \in redone THEN "open" ELSE @[v]]]
          IN  \/ Become(S)
              \/ \E g \in Pending(S) : Become(Resumed(S, g))
              \/ objective # 0 /\ Become(Kicked(S, objective))
    BY DEF Resume
  <1> DEFINE B == [Now EXCEPT !.status = before]
             S == [B EXCEPT !.work = [v \in DOMAIN @ |-> IF v \in redone THEN "open" ELSE @[v]]]
  <1>2. Now \in State /\ Now.objective = objective /\ "open" \in WorkState
    BY NowFit DEF WorkState
  <1>3. Mild(Now, B) /\ Fit(B)
    BY <1>2, StatusCalm, CalmMild DEF Mild
  <1>4. [Now EXCEPT !.status = before,
                    !.work = [v \in DOMAIN @ |-> IF v \in redone THEN "open" ELSE @[v]]] = S
    BY DEF Now
  <1>5. Become(S) \/ (\E g \in Pending(S) : Become(Resumed(S, g)))
        \/ (objective # 0 /\ Become(Kicked(S, objective)))
    BY <1>1, <1>4
  <1> HIDE DEF B
  <1>6. Mild(B, S) /\ Fit(S)
    BY <1>2, <1>3, WorkMapped, SidesMild DEF Fit
  <1> HIDE DEF S
  <1>7. Mild(Now, S)
    BY <1>3, <1>6, MildTwice
  <1>8. S.objective = objective
    BY <1>2, <1>7 DEF Mild
  <1>9. ASSUME NEW g \in Pending(S) PROVE Mild(Now, Resumed(S, g))
    BY <1>6, <1>7, <1>9, ResumedKept, KeptMild, MildTwice DEF Pending
  <1>10. ASSUME objective # 0 PROVE Mild(Now, Kicked(S, objective))
    BY <1>6, <1>7, <1>8, <1>10, KickMild
  <1> QED
    BY <1>5, <1>7, <1>9, <1>10, MildMoves

LEMMA DeadMild == ASSUME NEW S, Fit(S), Mild(Now, S) PROVE Mild(Now, Dead(S))
  BY DeadFits, FewerMild, MildTwice

LEMMA CrashMoves == ASSUME Fit(Now), Crash PROVE Moves
  <1>1. Mild(Now, Dead(Now))
    BY DeadFits, FewerMild
  <1> QED
    BY <1>1, MildMoves DEF Crash

LEMMA CrashInAnswerMoves == ASSUME Fit(Now), NEW g, CrashInAnswer(g) PROVE Moves
  <1> DEFINE S == [Now EXCEPT !.groups[g].state = "answered"]
  <1>1. Now \in State /\ g \in DOMAIN Now.groups
    BY NowFit DEF CrashInAnswer, OpenGroups
  <1>2. PICK T : /\ Become(Dead(T))
                 /\ \/ T \in {WithPending(S, g, 1), WithPending(S, g, 2)}
                    \/ T = [WithPending(S, g, 2) EXCEPT !.status = "planning"]
    BY DEF CrashInAnswer
  <1>3. Calm(Now, S)
    BY <1>1, AnsweredCalm
  <1> HIDE DEF S
  <1>4. S \in State /\ g \in DOMAIN S.groups
    BY <1>1, <1>3, StateSequences DEF Calm
  <1>5. ASSUME NEW n \in 0..2 PROVE Mild(Now, WithPending(S, g, n))
    <2>1. Calm(Now, WithPending(S, g, n))
      BY <1>1, <1>3, <1>4, PendingCalm, CalmTwice
    <2> QED
      BY <2>1, CalmMild
  <1>6. "planning" \in ProjectStatus /\ 1 \in 0..2 /\ 2 \in 0..2
    BY DEF ProjectStatus
  <1>7. Mild(Now, T)
    BY <1>2, <1>5, <1>6, StatusMild
  <1>8. Mild(Now, Dead(T))
    BY <1>7, DeadMild DEF Mild
  <1> QED
    BY <1>2, <1>8, MildMoves

LEMMA RestartMoves == ASSUME Fit(Now), Restart PROVE Moves
  <1>1. PICK redone \in SUBSET InFlightWork(Now) :
          LET S == Recovered([Now EXCEPT
                     !.work = [v \in DOMAIN @ |-> IF v \in redone THEN "open" ELSE @[v]]])
          IN  Become(Reconciled(S)) \/ \E g \in Pending(S) : Become(Reconciled(Resumed(S, g)))
    BY DEF Restart
  <1> DEFINE W == [Now EXCEPT !.work = [v \in DOMAIN @ |-> IF v \in redone THEN "open" ELSE @[v]]]
             S == Recovered(W)
  <1>2. Become(Reconciled(S)) \/ \E g \in Pending(S) : Become(Reconciled(Resumed(S, g)))
    BY <1>1
  <1>3. Now \in State /\ "open" \in WorkState
    BY NowFit DEF WorkState
  <1>4. Mild(Now, W) /\ Fit(W)
    BY <1>3, WorkMapped, SidesMild
  <1> HIDE DEF W
  <1>5. Mild(Now, S) /\ Fit(S)
    BY <1>4, RecoveredFits, FewerMild, MildTwice
  <1> HIDE DEF S
  <1>6. Mild(Now, Reconciled(S))
    BY <1>5, ReconciledKept, KeptMild, MildTwice
  <1>7. ASSUME NEW g \in Pending(S) PROVE Mild(Now, Reconciled(Resumed(S, g)))
    <2>1. Mild(Now, Resumed(S, g))
      BY <1>5, <1>7, ResumedKept, KeptMild, MildTwice DEF Pending
    <2> QED
      BY <2>1, ReconciledKept, KeptMild, MildTwice DEF Mild
  <1> QED
    BY <1>2, <1>6, <1>7, MildMoves

\* A new objective: the state after the rows of the older ones were closed.
Renewed(S, T) ==
    /\ Fit(T) /\ T.gen = S.gen /\ T.objective = S.objective + 1 /\ T.pipes = S.pipes
    /\ T.status = S.status /\ T.plans = S.plans /\ Len(T.groups) = Len(S.groups)
    /\ OpenGroups(T) = {} /\ Holds(S, T)

LEMMA RenewedNow ==
    ASSUME NEW S, Fit(S), NEW N, N = [S EXCEPT !.objective = @ + 1]
    PROVE  Renewed(S, Expired(N))
  <1>1. S \in State /\ S.objective \in Nat
    BY DEF Fit, State
  <1>2. /\ N \in State /\ N.objective = S.objective + 1
        /\ N.pipes = S.pipes /\ N.gen = S.gen /\ N.token = S.token /\ N.groups = S.groups
        /\ N.plans = S.plans /\ N.work = S.work /\ N.asked = S.asked /\ N.status = S.status
    <2>1. S.objective + 1 \in Nat
      BY <1>1
    <2> QED
      BY <1>1, <2>1 DEF State
  <1>3. RowsFit(N)
    <2>1. 1..S.objective \subseteq 1..N.objective /\ N.objective # 0
      BY <1>1, <1>2
    <2> QED
      BY <1>2, <2>1 DEF Fit, RowsFit
  <1>4. Holds(S, N)
    BY <1>2 DEF Holds, SlotHeld, QuestionsHold, OpenGroups, Current
  <1>5. Calm(N, Expired(N)) /\ OpenGroups(Expired(N)) = {} /\ Expired(N).status = N.status
    BY <1>2, ExpiredCalm DEF Expired, State
  <1>6. Fit(Expired(N)) /\ Holds(N, Expired(N))
    BY <1>2, <1>3, <1>5, CalmKeeps DEF Fit, Holds
  <1> QED
    BY <1>2, <1>4, <1>5, <1>6 DEF Renewed, Calm, Holds

LEMMA AnalyzedGoes ==
    ASSUME NEW S, Fit(S), NEW T, Renewed(S, T), NEW vague \in BOOLEAN
    PROVE  LET U == Analyzed(T, T.objective, vague)
           IN  Goes(S, U) /\ U.gen = S.gen /\ U.objective = S.objective + 1
  <1> DEFINE o == T.objective
             A == Opened(T, o)
             s == IF CanSet(A, "clarifying") THEN "clarifying" ELSE A.status
             Q == [A EXCEPT !.status = s]
  <1>1. /\ S \in State /\ Fit(T) /\ o = S.objective + 1 /\ o \in 1..T.objective
        /\ \A p \in DOMAIN T.pipes : T.pipes[p].obj # o
    BY DEF Fit, RowsFit, State, Renewed
  <1>2. /\ Fit(A) /\ A.pipes = T.pipes /\ A.token = T.token /\ A.gen = T.gen
        /\ A.plans = T.plans /\ A.status = T.status /\ A.objective = o
        /\ \A g \in OpenGroups(A) : A.groups[g].obj = o
    BY <1>1, OpenedFits
  <1>3. s \in ProjectStatus
    BY <1>2 DEF Fit, State, ProjectStatus
  <1>4. Analyzed(T, o, vague) = IF T.status = "paused" THEN T ELSE IF vague THEN Q
                                ELSE IF CanSet(T, "planning") THEN Kicked(T, o) ELSE T
    <2>1. [A EXCEPT !.status = IF CanSet(T, "clarifying") THEN "clarifying" ELSE @] = Q
      BY <1>2 DEF CanSet
    <2> QED
      BY <2>1 DEF Analyzed
  <1> HIDE DEF A, s
  <1>5. Calm(A, Q)
    BY <1>2, <1>3, StatusCalm DEF Fit
  <1>6. Fit(Q) /\ Q.pipes = A.pipes /\ Q.token = A.token /\ Q.gen = A.gen /\ Q.objective = o
        /\ Q.plans = A.plans /\ \A g \in OpenGroups(Q) : Q.groups[g].obj = o
    <2>1. Fit(Q)
      BY <1>2, <1>5, CalmKeeps
    <2>2. Q.groups = A.groups
      BY <1>2 DEF Fit, State
    <2> QED
      BY <1>2, <1>5, <2>1, <2>2 DEF Calm, OpenGroups
  <1> HIDE DEF Q
  <1>7. Holds(T, Q)
    BY <1>1, <1>2, <1>6 DEF Holds, SlotHeld, QuestionsHold, Current
  <1>8. ASSUME T.status # "paused"
        PROVE  Goes(S, Q) /\ Q.gen = S.gen /\ Q.objective = S.objective + 1
    BY <1>1, <1>2, <1>6, <1>7, <1>8 DEF Renewed, Goes, Follows, Holds
  <1>9. Kept(T, Kicked(T, o))
    BY <1>1, KickedKept
  <1>10. ASSUME T.status # "paused"
         PROVE  Goes(S, Kicked(T, o)) /\ Kicked(T, o).gen = S.gen
                /\ Kicked(T, o).objective = S.objective + 1
    <2> DEFINE K == Kicked(T, o)
    <2>1. Kept(T, K)
      BY <1>9
    <2> HIDE DEF K
    <2>2. Goes(S, K) /\ K.gen = S.gen /\ K.objective = S.objective + 1
      BY <1>1, <1>10, <2>1 DEF Renewed, Kept, Grows, Goes, Follows, Holds
    <2> QED
      BY <2>2 DEF K
  <1>11. Goes(S, T) /\ T.gen = S.gen /\ T.objective = S.objective + 1
    BY DEF Renewed, Goes, Follows
  <1> QED
    BY <1>4, <1>8, <1>10, <1>11

\* A new objective goes; it is the next one.
Renews == Goes(Now, Now') /\ max' = max /\ gen' = gen /\ objective' = objective + 1
          /\ DOMAIN pipes \subseteq DOMAIN pipes'

LEMMA AnalyzedRenews ==
    ASSUME Fit(Now), NEW S, Sides(Now, S), S.status = Now.status, NEW vague \in BOOLEAN,
           Become(Analyzed(Expired([S EXCEPT !.objective = @ + 1]), objective + 1, vague))
    PROVE  Renews
  <1> DEFINE N == [S EXCEPT !.objective = @ + 1]
             T == Expired(N)
             U == Analyzed(T, objective + 1, vague)
  <1>1. Fit(S) /\ Holds(Now, S) /\ Now.objective = objective /\ Now.gen = gen
    BY NowFit, SidesMild DEF Mild
  <1>2. Renewed(S, T)
    BY <1>1, RenewedNow
  <1>3. T.objective = objective + 1
    BY <1>1, <1>2 DEF Renewed, Sides
  <1>4. Become(U)
    OBVIOUS
  <1> HIDE DEF N, T
  <1>5. Goes(S, U) /\ U.gen = S.gen /\ U.objective = objective + 1
    BY <1>1, <1>2, <1>3, AnalyzedGoes DEF Renewed
  <1> HIDE DEF U
  <1>6. Goes(Now, U)
    <2>1. Follows(Now, U)
      BY <1>5 DEF Goes, Follows, Sides
    <2> QED
      BY <1>1, <1>5, <2>1 DEF Goes, Holds
  <1>7. U.gen = gen
    BY <1>1, <1>5 DEF Sides
  <1> QED
    BY <1>4, <1>5, <1>6, <1>7, BecomeGoes DEF Renews

LEMMA SidesSelf == ASSUME NEW S \in State PROVE Sides(S, S)
  BY DEF Sides

LEMMA SubmitRenews ==
    ASSUME Fit(Now), NEW vague \in BOOLEAN, SubmitObjective(vague) PROVE Renews
  <1>1. Sides(Now, Now)
    BY NowFit, SidesSelf
  <1> QED
    BY <1>1, AnalyzedRenews DEF SubmitObjective

LEMMA ReviseRenews ==
    ASSUME Fit(Now), NEW vague \in BOOLEAN, ReviseObjective(vague) PROVE Renews
  <1> DEFINE P == {v \in DOMAIN work : work[v] = "open"}
             S == [Now EXCEPT !.work = [v \in DOMAIN @ |-> IF v \in P THEN "cancelled" ELSE @[v]]]
             N == [Now EXCEPT !.objective = @ + 1,
                              !.work = [v \in DOMAIN @ |-> IF @[v] = "open" THEN "cancelled" ELSE @[v]]]
  <1>1. Now \in State /\ "cancelled" \in WorkState /\ Now.work = work /\ Now.objective = objective
    BY NowFit DEF WorkState
  <1>2. Sides(Now, S)
    BY <1>1, WorkMapped
  <1>3. S.status = Now.status
    BY <1>1 DEF State
  <1>4. N = [S EXCEPT !.objective = @ + 1]
    <2>1. [v \in DOMAIN work |-> IF work[v] = "open" THEN "cancelled" ELSE work[v]]
          = [v \in DOMAIN work |-> IF v \in P THEN "cancelled" ELSE work[v]]
      OBVIOUS
    <2> QED
      BY <2>1 DEF Now
  <1>5. Become(Analyzed(Expired(N), objective + 1, vague))
    BY DEF ReviseObjective
  <1> QED
    BY <1>2, <1>3, <1>4, <1>5, AnalyzedRenews

\* A pause: the generation moves on, so that no pipeline is current any more.
LEMMA PauseGoes ==
    ASSUME Fit(Now), Pause
    PROVE  Goes(Now, Now') /\ max' = max /\ gen' = gen + 1 /\ objective' = objective
           /\ DOMAIN pipes \subseteq DOMAIN pipes'
  <1> DEFINE S == [Now EXCEPT !.status = "paused", !.gen = @ + 1]
             R == RunsCancelled(S, handles)
             F == [R EXCEPT !.token = 0]
  <1>1. Now \in State /\ Now.gen = gen /\ Now.objective = objective /\ gen \in Nat
    BY NowFit
  <1>2. /\ S \in State /\ S.status = "paused" /\ S.gen = gen + 1 /\ S.pipes = Now.pipes
        /\ S.plans = Now.plans /\ S.groups = Now.groups /\ S.objective = objective
        /\ S.work = Now.work /\ S.asked = Now.asked /\ S.asks = Now.asks /\ S.token = Now.token
    <2>1. "paused" \in ProjectStatus /\ gen + 1 \in Nat
      BY <1>1 DEF ProjectStatus
    <2> QED
      BY <1>1, <2>1 DEF State
  <1>3. Fit(S) /\ \A p \in DOMAIN S.pipes : S.pipes[p].gen < S.gen /\ S.pipes[p].gen # S.gen
    <2>1. \A p \in DOMAIN Now.pipes : Now.pipes[p] \in PipeRow /\ Now.pipes[p].gen <= gen
      BY <1>1, StateSequences DEF Fit, RowsFit
    <2>2. \A p \in DOMAIN Now.pipes : Now.pipes[p].gen \in Nat
      BY <2>1 DEF PipeRow
    <2> QED
      BY <1>1, <1>2, <2>1, <2>2 DEF Fit, RowsFit
  <1>4. Become(S) \/ Become(F)
    BY DEF Pause
  <1> HIDE DEF S
  <1>5. Fit(R) /\ Fewer(S, R) /\ Tame(S, R)
    BY <1>3, RunsCancelledFits
  <1> HIDE DEF R
  <1>6. Fit(F) /\ Tame(R, F) /\ F.pipes = R.pipes /\ F.gen = R.gen /\ F.objective = R.objective
    BY <1>5, FreedFits DEF Fit, State
  <1> HIDE DEF F
  <1>7. ASSUME NEW T, Fit(T), Tame(S, T), DOMAIN T.pipes = DOMAIN S.pipes, Become(T),
               T.objective = objective, \A p \in DOMAIN S.pipes : T.pipes[p].gen = S.pipes[p].gen
        PROVE  Goes(Now, Now') /\ max' = max /\ gen' = gen + 1 /\ objective' = objective
               /\ DOMAIN pipes \subseteq DOMAIN pipes'
    <2>1. \A p \in DOMAIN T.pipes : ~Current(T, p)
      BY <1>3, <1>7 DEF Tame, Current
    <2>2. Holds(Now, T)
      BY <2>1 DEF Holds, SlotHeld, QuestionsHold
    <2>3. Follows(Now, T)
      BY <1>2, <1>3, <1>7 DEF Tame, OnlyEnds, Follows
    <2>4. Goes(Now, T) /\ T.gen = gen + 1
      BY <1>2, <1>7, <2>2, <2>3 DEF Goes, Tame
    <2> QED
      BY <1>7, <2>4, BecomeGoes
  <1>8. CASE Become(S)
    BY <1>2, <1>3, <1>7, <1>8 DEF Tame, OnlyEnds
  <1>9. CASE Become(F)
    <2>1. Tame(S, F)
      BY <1>5, <1>6, TameTwice
    <2>2. DOMAIN F.pipes = DOMAIN S.pipes /\ F.objective = objective
          /\ \A p \in DOMAIN S.pipes : F.pipes[p].gen = S.pipes[p].gen
      BY <1>2, <1>5, <1>6 DEF Fewer
    <2> QED
      BY <1>6, <1>7, <1>9, <2>1, <2>2
  <1> QED
    BY <1>4, <1>8, <1>9

\* A cancellation that waits returns, which it does with slowCancel only.
LEMMA CancelReturnsGoes ==
    ASSUME Fit(Now), NEW c, NEW p, CancelReturns(c, p)
    PROVE  Fit(Now') /\ Follows(Now, Now') /\ max' = max /\ gen' = gen /\ objective' = objective
           /\ DOMAIN pipes \subseteq DOMAIN pipes'
  <1> DEFINE R == RunsCancelled(Now, {p})
             rest == c.left \ {p}
             F == [R EXCEPT !.token = 0]
             G == [R EXCEPT !.token = IF rest = {} THEN 0 ELSE R.token]
  <1>1. Become(G)
    BY DEF CancelReturns
  <1>2. Fit(R) /\ Fewer(Now, R) /\ Tame(Now, R)
    BY RunsCancelledFits
  <1> HIDE DEF R
  <1>3. Fit(F) /\ Tame(R, F) /\ F.objective = R.objective
    BY <1>2, FreedFits DEF Fit, State
  <1>4. G = F \/ G = R
    <2>1. CASE rest = {}
      BY <2>1
    <2>2. CASE rest # {}
      <3>1. [R EXCEPT !.token = R.token] = R
        BY <1>2 DEF Fit, State
      <3> QED
        BY <2>2, <3>1
    <2> QED
      BY <2>1, <2>2
  <1> HIDE DEF F, G
  <1>5. Fit(G) /\ Tame(Now, G) /\ G.objective = Now.objective
    BY <1>2, <1>3, <1>4, TameTwice DEF Fewer
  <1>6. Follows(Now, G) /\ G.gen = Now.gen
    BY <1>5 DEF Tame, OnlyEnds, Follows
  <1>7. Now' = G /\ max' = max /\ gen' = G.gen /\ objective' = G.objective /\ pipes' = G.pipes
    BY <1>1, <1>5, NowIsState DEF Fit, Become
  <1> QED
    BY <1>5, <1>6, <1>7 DEF Now, Tame

-----------------------------------------------------------------------------
(* The invariant, and the theorems                                         *)

\* What an action leaves of the variables around the state.
Aside ==
    /\ before' \in ProjectStatus /\ up' \in BOOLEAN
    /\ handles' \subseteq DOMAIN pipes
    /\ \A c \in cancels' : c.left \subseteq DOMAIN pipes
    /\ ~max.slowCancel => cancels' = {}

\* A step of the invariant, which also keeps what a pause promised.
Advances == IInv' /\ Follows(Now, Now')

LEMMA StepAdvances ==
    ASSUME IInv, Fit(Now'), Follows(Now, Now'), max' = max, DOMAIN pipes \subseteq DOMAIN pipes',
           ~max.slowCancel => Holds(Now, Now'),
           gen' <= max.pauses, objective' <= max.objectives, Aside
    PROVE  Advances
  <1>1. Fit(Now)'
    OBVIOUS
  <1>2. Around'
    BY DEF IInv, FitInv, Around, Aside
  <1>3. ~max.slowCancel => Sound(Now')
    BY DEF IInv, Sound, Holds
  <1>4. (~max.slowCancel => Sound(Now))'
    BY <1>3
  <1> QED
    BY <1>1, <1>2, <1>4 DEF IInv, FitInv, Advances

LEMMA MovesAdvances == ASSUME IInv, Moves, Aside PROVE Advances
  BY StepAdvances DEF Moves, Goes, IInv, FitInv, Around

\* The actions that touch none of the variables around the state.
LEMMA QuietAside == ASSUME Around, UNCHANGED <<before, handles, cancels, up>> PROVE Aside
  BY DEF Around, Aside

LEMMA LostAside == ASSUME Around, before' = before, Lost PROVE Aside
  BY DEF Around, Aside, Lost

LEMMA UserAdvances ==
    ASSUME IInv,
           \/ \E vague \in BOOLEAN : SubmitObjective(vague) \/ ReviseObjective(vague)
           \/ \E g \in DOMAIN groups : Answer(g) \/ CrashInAnswer(g)
           \/ \E approved \in BOOLEAN :
                 \/ ResolvePlanning(approved)
                 \/ \E v \in asked : ResolveMission(v, approved)
    PROVE  Advances
  <1>1. Fit(Now) /\ Around
    BY DEF IInv, FitInv
  <1>2. ASSUME NEW vague \in BOOLEAN, SubmitObjective(vague) \/ ReviseObjective(vague) PROVE Advances
    <2>1. Renews
      BY <1>1, <1>2, SubmitRenews, ReviseRenews
    <2>2. Aside /\ objective + 1 <= max.objectives
      <3>1. max.objectives \in Nat /\ objective \in Nat
        BY <1>1, NowFit, InstancesAssumption DEF Around
      <3>2. CASE SubmitObjective(vague)
        BY <1>1, <3>1, <3>2, QuietAside DEF SubmitObjective
      <3>3. CASE ReviseObjective(vague)
        <4>1. objective \in 1..(max.objectives - 1) /\ UNCHANGED <<before, handles, cancels, up>>
          BY <3>3 DEF ReviseObjective
        <4> QED
          BY <1>1, <3>1, <4>1, QuietAside
      <3> QED
        BY <1>2, <3>2, <3>3
    <2> QED
      BY <1>1, <2>1, <2>2, StepAdvances DEF Renews, Goes, Around
  <1>3. ASSUME NEW g \in DOMAIN groups, Answer(g) PROVE Advances
    BY <1>1, <1>3, AnswerMoves, MovesAdvances, QuietAside DEF Answer
  <1>4. ASSUME NEW g \in DOMAIN groups, CrashInAnswer(g) PROVE Advances
    BY <1>1, <1>4, CrashInAnswerMoves, MovesAdvances, LostAside DEF CrashInAnswer
  <1>5. ASSUME NEW approved \in BOOLEAN, ResolvePlanning(approved) PROVE Advances
    BY <1>1, <1>5, ResolvePlanningMoves, MovesAdvances, QuietAside DEF ResolvePlanning
  <1>6. ASSUME NEW approved \in BOOLEAN, NEW v \in asked, ResolveMission(v, approved) PROVE Advances
    BY <1>1, <1>6, ResolveMissionMoves, MovesAdvances, QuietAside DEF ResolveMission
  <1> QED
    BY <1>2, <1>3, <1>4, <1>5, <1>6

LEMMA PipeAdvances ==
    ASSUME IInv, NEW p \in DOMAIN pipes, PipeStep(p)
    PROVE  Advances
  <1>1. Fit(Now) /\ Around
    BY DEF IInv, FitInv
  <1>2. CASE SnapshotTaken(p)
    BY <1>1, <1>2, SnapshotTakenMoves, MovesAdvances, QuietAside DEF SnapshotTaken
  <1>3. CASE ModelsListed(p)
    <2>1. Aside
      BY <1>1, <1>3 DEF Around, Aside, ModelsListed
    <2> QED
      BY <1>1, <1>3, <2>1, ModelsListedMoves, MovesAdvances
  <1>4. CASE ProviderEnds(p)
    <2>1. Aside
      BY <1>1, <1>4 DEF Around, Aside, ProviderEnds
    <2> QED
      BY <1>1, <1>4, <2>1, ProviderEndsMoves, MovesAdvances
  <1> QED
    BY <1>2, <1>3, <1>4 DEF PipeStep

LEMMA MissionAdvances ==
    ASSUME IInv, NEW v \in DOMAIN work,
           Schedule(v) \/ MissionCompletes(v) \/ \E evidence \in 0..1 : MissionFails(v, evidence)
    PROVE  Advances
  <1>1. Fit(Now) /\ Around
    BY DEF IInv, FitInv
  <1>2. CASE Schedule(v)
    BY <1>1, <1>2, ScheduleMoves, MovesAdvances, QuietAside DEF Schedule
  <1>3. CASE MissionCompletes(v)
    <2>1. before' = before /\ (Lost \/ UNCHANGED <<handles, cancels, up>>)
      BY <1>3 DEF MissionCompletes
    <2>2. Aside
      BY <1>1, <2>1, LostAside, QuietAside
    <2> QED
      BY <1>1, <1>3, <2>2, MissionCompletesMoves, MovesAdvances
  <1>4. ASSUME NEW evidence \in 0..1, MissionFails(v, evidence) PROVE Advances
    BY <1>1, <1>4, MissionFailsMoves, MovesAdvances, QuietAside DEF MissionFails
  <1> QED
    BY <1>2, <1>3, <1>4

LEMMA ControlAdvances ==
    ASSUME IInv,
           \/ \E c \in cancels : \E p \in c.left : CancelReturns(c, p)
           \/ Pause \/ Resume \/ Crash \/ Restart
    PROVE  Advances
  <1>1. Fit(Now) /\ Around
    BY DEF IInv, FitInv
  <1>2. ASSUME NEW c \in cancels, NEW p \in c.left, CancelReturns(c, p) PROVE Advances
    <2>1. max.slowCancel
      BY <1>1, <1>2 DEF Around
    <2>2. Aside
      <3> DEFINE rest == c.left \ {p}
      <3>1. /\ cancels' = (cancels \ {c}) \cup (IF rest = {} THEN {} ELSE {[c EXCEPT !.left = rest]})
            /\ handles' = handles \ {p} /\ UNCHANGED <<before, up>>
        BY <1>2 DEF CancelReturns
      <3>2. ASSUME NEW d \in cancels' PROVE d.left \subseteq DOMAIN pipes
        <4>1. d \in cancels \/ d = [c EXCEPT !.left = rest]
          BY <3>1
        <4>2. [c EXCEPT !.left = rest].left \subseteq c.left
          OBVIOUS
        <4> QED
          BY <1>1, <4>1, <4>2 DEF Around
      <3> QED
        BY <1>1, <2>1, <3>1, <3>2 DEF Around, Aside
    <2> QED
      BY <1>1, <1>2, <2>1, <2>2, CancelReturnsGoes, StepAdvances DEF Around
  <1>3. CASE Pause
    <2>1. Aside
      <3>1. /\ before' \in ProjectStatus /\ up' = up
            /\ \/ UNCHANGED handles /\ cancels' = cancels \cup {[gen |-> gen + 1, left |-> handles]}
                  /\ max.slowCancel
               \/ handles' = {} /\ UNCHANGED cancels
        BY <1>1, <1>3, NowFit DEF Pause
      <3> QED
        BY <1>1, <3>1 DEF Around, Aside
    <2>2. gen + 1 <= max.pauses
      <3>1. max.pauses \in Nat /\ gen \in Nat
        BY <1>1, NowFit, InstancesAssumption DEF Around
      <3> QED
        BY <1>3, <3>1 DEF Pause
    <2> QED
      BY <1>1, <1>3, <2>1, <2>2, PauseGoes, StepAdvances DEF Goes, Around
  <1>4. CASE Resume
    <2>1. before \in ProjectStatus
      BY <1>1 DEF Around
    <2> QED
      BY <1>1, <1>4, <2>1, ResumeMoves, MovesAdvances, QuietAside DEF Resume
  <1>5. CASE Crash
    BY <1>1, <1>5, CrashMoves, MovesAdvances, LostAside DEF Crash
  <1>6. CASE Restart
    <2>1. Aside
      BY <1>1, <1>6 DEF Around, Aside, Restart
    <2> QED
      BY <1>1, <1>6, <2>1, RestartMoves, MovesAdvances
  <1> QED
    BY <1>2, <1>3, <1>4, <1>5, <1>6

\* Initially there is nothing.
LEMMA InitIInv == ASSUME Init PROVE IInv
  <1>1. max \in Instances /\ Now = [status |-> "draft", gen |-> 0, objective |-> 0, groups |-> <<>>,
            plans |-> <<>>, work |-> <<>>, asked |-> {}, asks |-> 0, pipes |-> <<>>, token |-> 0]
    BY DEF Init, Now
  <1>2. "draft" \in ProjectStatus
    BY DEF ProjectStatus
  <1>3. Now \in State
    BY <1>1, <1>2 DEF State
  <1>4. RowsFit(Now)
    BY <1>1 DEF RowsFit
  <1>5. SlotHeld(Now) /\ QuestionsHold(Now)
    BY <1>1 DEF SlotHeld, QuestionsHold
  <1>6. Around
    BY <1>1, <1>2, InstancesAssumption DEF Init, Around
  <1> QED
    BY <1>3, <1>4, <1>5, <1>6 DEF IInv, FitInv, Sound, Fit

LEMMA NextAdvances == ASSUME IInv, Next PROVE Advances
  BY UserAdvances, PipeAdvances, MissionAdvances, ControlAdvances DEF Next

LEMMA IInvStutters == ASSUME IInv, UNCHANGED vars PROVE IInv'
  BY DEF vars, durable, memory, IInv, FitInv, Around, Now

LEMMA IInvInvariant == Spec => []IInv
  <1>1. Init => IInv
    BY InitIInv
  <1>2. IInv /\ [Next]_vars => IInv'
    BY NextAdvances, IInvStutters DEF Advances
  <1> QED
    BY <1>1, <1>2, PTL DEF Spec

\* Every variable has a value of its kind, and every row points at what is there:
\* groups and plans at objectives that were given, approvals at missions of
\* plans, handles at pipelines (BrainPipeline, and the rows of Store).
THEOREM TypeCorrect == Spec => []TypeOK
  <1>1. IInv => TypeOK
    <2> SUFFICES ASSUME IInv PROVE TypeOK
      OBVIOUS
    <2>1. Fit(Now) /\ Around
      BY DEF IInv, FitInv
    <2>2. max.pauses \in Nat /\ max.objectives \in Nat
      BY <2>1, InstancesAssumption DEF Around
    <2>3. /\ Now \in State /\ status \in ProjectStatus /\ gen \in Nat /\ objective \in Nat /\ asks \in Nat
          /\ DOMAIN work = DOMAIN plans /\ asked \subseteq DOMAIN work
          /\ Now.groups = groups /\ Now.plans = plans /\ Now.work = work /\ Now.pipes = pipes
          /\ Now.token = token
          /\ \A v \in DOMAIN plans : plans[v].obj \in 1..objective
          /\ \A g \in DOMAIN groups : groups[g].obj \in 1..objective
      BY <2>1, NowFit
    <2>4. /\ \A g \in DOMAIN groups : groups[g] \in GroupRow
          /\ \A v \in DOMAIN work : work[v] \in WorkState
          /\ \A p \in DOMAIN pipes : pipes[p] \in PipeRow
      BY <2>3, StateSequences
    <2>5. gen \in 0..max.pauses /\ objective \in 0..max.objectives
      BY <2>1, <2>2, <2>3 DEF Around
    <2>6. 1..objective \subseteq 1..max.objectives
      BY <2>2, <2>3, <2>5
    <2>7. token \in 0..Len(pipes)
      BY <2>1, <2>3, StateSequences DEF Fit, RowsFit, State
    <2>8. \A g \in DOMAIN groups : groups[g] \in
            [obj : 1..max.objectives, state : {"open", "answered", "expired"}, pending : 0..2]
      BY <2>3, <2>4, <2>6 DEF GroupRow
    <2>9. \A p \in DOMAIN pipes : pipes[p].pc \in Live \cup {"done", "thrown"} /\ pipes[p].run \in RunStates
      BY <2>4 DEF PipeRow
    <2>10. \A v \in DOMAIN work : work[v] \in {"open", "inflight", "completed", "failed", "cancelled"}
      BY <2>4 DEF WorkState
    <2>11. {status, before} \subseteq ProjectStatus /\ handles \subseteq DOMAIN pipes /\ up \in BOOLEAN
      BY <2>1, <2>3 DEF Around
    <2>12. \A v \in DOMAIN plans : plans[v].obj \in 1..max.objectives
      BY <2>3, <2>6
    <2> QED
      BY <2>3, <2>5, <2>7, <2>8, <2>9, <2>10, <2>11, <2>12 DEF TypeOK
  <1> QED
    BY <1>1, IInvInvariant, PTL

\* While questions about an objective are open, nothing that a pause has not
\* fenced plans that objective, whatever kicked it: at most one pipeline is
\* current, the one that holds the planning slot, and questions are asked only
\* by the pipeline that ends there (ensurePlan, handleClarification, resume and
\* recovery), as long as no cancellation waits.
THEOREM QuestionsHoldPlanningHolds == Spec => []QuestionsHoldPlanning
  <1>1. IInv => QuestionsHoldPlanning
    <2> SUFFICES ASSUME IInv, ~max.slowCancel PROVE QuestionsHoldPlanning
      BY DEF QuestionsHoldPlanning
    <2>1. QuestionsHold(Now)
      BY DEF IInv, Sound
    <2> QED
      BY <2>1 DEF QuestionsHold, Current, Now, QuestionsHoldPlanning
  <1> QED
    BY <1>1, IInvInvariant, PTL

\* A pipeline that was started before a pause can only end afterwards: it starts
\* no provider run, finishes none as its own, asks nothing and writes no plan
\* (assertNotPaused with the captured generation, after every await), and no
\* plan or group is written while the project is paused.
THEOREM PauseFences == Spec => PauseFencesPlanning
  <1> DEFINE Keeps ==
        /\ \A p \in DOMAIN pipes : pipes[p].gen # gen =>
              /\ pipes'[p].pc \in {pipes[p].pc, "done"}
              /\ pipes'[p].run # pipes[p].run => pipes'[p].run \in {"cancelled", "failed"}
              /\ pipes'[p].pc # pipes[p].pc => plans' = plans /\ Len(groups') = Len(groups)
        /\ status = "paused" /\ status' = "paused" => plans' = plans /\ Len(groups') = Len(groups)
  <1>1. IInv /\ [Next]_vars => [Keeps]_vars
    <2> SUFFICES ASSUME IInv, Next PROVE Keeps
      OBVIOUS
    <2>1. Follows(Now, Now')
      BY NextAdvances DEF Advances
    <2> QED
      BY <2>1 DEF Follows, Now
  <1> QED
    BY <1>1, IInvInvariant, PTL DEF Spec, PauseFencesPlanning

-----------------------------------------------------------------------------
(* AgentsAndClients: each part moves as its own module says.               *)

LEMMA EdgesStart ==
    ASSUME EdgesInit
    PROVE  /\ part = "provider" => D!Init
           /\ part = "repository" => M!Init
           /\ part = "screens" => C!Init
           /\ part = "planning" => V!Init
BY DEF EdgesInit

LEMMA EdgesMove ==
    ASSUME [EdgesNext]_edgesVars
    PROVE  /\ part' = part
           /\ part = "provider" => [D!Next]_(D!vars)
           /\ part = "repository" => [M!Next]_(M!vars)
           /\ part = "screens" => [C!Next]_(C!vars)
           /\ part = "planning" => [V!Next]_(V!vars)
<1>1. CASE UNCHANGED edgesVars
  <2>1. UNCHANGED <<part, bounds>> /\ UNCHANGED provider /\ UNCHANGED repository
        /\ UNCHANGED screens /\ UNCHANGED planning
    BY <1>1 DEF edgesVars
  <2>2. UNCHANGED D!vars BY <2>1 DEF provider, D!vars
  <2>3. UNCHANGED M!vars BY <2>1 DEF repository, M!vars, M!git, M!past
  <2>4. UNCHANGED C!vars BY <2>1 DEF screens, C!vars
  <2>5. UNCHANGED V!vars BY <2>1 DEF planning, V!vars
  <2>6. QED BY <2>1, <2>2, <2>3, <2>4, <2>5
<1>2. CASE EdgesNext BY <1>2 DEF EdgesNext, Provider, Repository, Screens, Planning
<1>. QED BY <1>1, <1>2

-----------------------------------------------------------------------------
(* ProviderRun: what is taken of a run, and what a run leaves behind.       *)

RunOutcomes == D!Categories \union {"none", "completed"}
RunRecord ==
    [agent : {"alive", "gone"}, told : BOOLEAN, staged : BOOLEAN,
     left : {"none", "throw", "exit", "crash"}, ended : BOOLEAN, late : BOOLEAN,
     revoked : BOOLEAN, taken : RunOutcomes]
Handle ==
    [timer : {"none", "armed", "fired"}, step : {"none", "armed", "fired"},
     outcome : {"none", "unknown"}, cancelled : BOOLEAN,
     request : {"none", "fetch", "body", "refusal"}]

\* The types of ProviderRun.
RunsTyped ==
    /\ setup \in D!Setups
    /\ control \in [up : BOOLEAN, stopped : BOOLEAN, halts : Nat]
    /\ project \in [paused : BOOLEAN, generation : Nat]
    /\ loop \in [at : {"idle", "discovering", "open"}, generation : Nat]
    /\ live \in Handle
    /\ runs \in Seq(RunRecord)

\* What was taken of a run was earned.
Earned(r) ==
    /\ r.taken = "completed" => r.ended
    /\ r.late => r.taken \in {"none", "unknown", "transient_network"}
    /\ r.revoked => r.taken = "none"

\* A run that is over left nothing, or something is known to have kept it.
Cleared(r) ==
    /\ r.staged => r.left # "none"
    /\ r.agent = "alive" => r.told \/ r.left \in {"crash", "exit"}

\* An agent still alive completed nothing, and was spawned.
Alive(r) == r.agent = "alive" => r.taken # "completed" /\ r.left # "throw"

\* The run whose events are consumed: nothing was taken of it yet; it was told to
\* stop only by a handle that remembers, is late only by a timer that fired, and
\* revoked only by a pause or a stop since.
Running(r) ==
    /\ r.taken = "none"
    /\ r.told => live.cancelled
    /\ r.late => \/ live.step = "fired"
                 \/ setup.adapter = "cli" /\ live.cancelled /\ live.outcome = "unknown"
    /\ r.revoked => control.stopped \/ project.generation # loop.generation
    /\ setup.adapter # "cli" => r.agent = "gone" /\ ~r.staged
    /\ live.timer # "none" => setup.adapter = "cli"
    /\ live.request # "none" => setup.adapter = "http"

RunsFit ==
    /\ loop.at # "idle" => loop.generation <= project.generation
    /\ \A i \in 1..Len(runs) : Earned(runs[i]) /\ Alive(runs[i])
    /\ \A i \in 1..Len(runs) : ~D!Current(i) => Cleared(runs[i])
    /\ D!Open => Len(runs) > 0 /\ Running(runs[Len(runs)])

LEMMA RunsInit == D!Init => RunsTyped /\ RunsFit
BY DEF D!Init, D!Idle, D!Rests, D!None, D!Open, RunsTyped, RunsFit, Handle

\* The stream of the current run, whose record is now r, ends and T is taken of it.
LEMMA RunEnds ==
    ASSUME RunsTyped, RunsFit, D!Open, NEW r \in RunRecord, NEW T \in RunOutcomes,
           runs' = [runs EXCEPT ![Len(runs)] = [r EXCEPT !.taken = T]],
           loop' = D!Idle, live' = D!Rests, setup' = setup,
           control' \in [up : BOOLEAN, stopped : BOOLEAN, halts : Nat],
           project' \in [paused : BOOLEAN, generation : Nat],
           T = "completed" => r.ended /\ r.agent = "gone",
           r.late => T \in {"none", "unknown", "transient_network"},
           r.revoked => T = "none",
           r.agent = "alive" => r.left # "throw",
           Cleared(r)
    PROVE  RunsTyped' /\ RunsFit'
<1> DEFINE x == [r EXCEPT !.taken = T]
<1>1. /\ x \in RunRecord /\ x.taken = T /\ x.ended = r.ended /\ x.agent = r.agent
      /\ x.late = r.late /\ x.revoked = r.revoked /\ x.left = r.left /\ x.staged = r.staged
      /\ x.told = r.told
  BY DEF RunRecord
<1>2. runs' = [runs EXCEPT ![Len(runs)] = x] OBVIOUS
<1> HIDE DEF x
<1>3. Earned(x) /\ Alive(x) /\ Cleared(x) BY <1>1 DEF Earned, Alive, Cleared
<1>4. runs \in Seq(RunRecord) /\ Len(runs) > 0 BY DEF RunsTyped, RunsFit
<1>5. /\ runs' \in Seq(RunRecord) /\ Len(runs') = Len(runs)
      /\ runs'[Len(runs)] = x
      /\ \A i \in 1..Len(runs) : i # Len(runs) => runs'[i] = runs[i]
  BY <1>1, <1>2, <1>4
<1>6. RunsTyped' BY <1>5 DEF RunsTyped, D!Idle, D!Rests, D!None, Handle
<1>7. ~D!Open' BY DEF D!Open, D!Idle
<1>8. \A i \in 1..Len(runs) : i # Len(runs) => ~D!Current(i) BY <1>4 DEF D!Current, D!Last
<1>9. \A i \in 1..Len(runs') : Earned(runs'[i]) /\ Alive(runs'[i]) /\ Cleared(runs'[i])
  BY <1>3, <1>4, <1>5, <1>8 DEF RunsFit
<1>10. QED BY <1>6, <1>7, <1>9 DEF RunsFit, D!Idle

\* The current run goes on, its record and its handle given.
LEMMA RunGoesOn ==
    ASSUME RunsTyped, RunsFit, D!Open, NEW r \in RunRecord, NEW h \in Handle,
           runs' = [runs EXCEPT ![Len(runs)] = r], live' = h,
           loop' = loop, setup' = setup,
           control' \in [up : BOOLEAN, stopped : BOOLEAN, halts : Nat],
           project' \in [paused : BOOLEAN, generation : Nat],
           loop.generation <= project'.generation,
           Running(r)',
           r.agent = "alive" => r.left # "throw"
    PROVE  RunsTyped' /\ RunsFit'
<1>1. runs \in Seq(RunRecord) /\ Len(runs) > 0 BY DEF RunsTyped, RunsFit
<1>2. /\ runs' \in Seq(RunRecord) /\ Len(runs') = Len(runs)
      /\ runs'[Len(runs)] = r
      /\ \A i \in 1..Len(runs) : i # Len(runs) => runs'[i] = runs[i]
  BY <1>1
<1>3. RunsTyped' BY <1>2 DEF RunsTyped
<1>4. Earned(r) /\ Alive(r) BY DEF Running, Earned, Alive
<1>5. \A i \in 1..Len(runs) : i # Len(runs) => ~D!Current(i) BY <1>1 DEF D!Current, D!Last
<1>6. D!Open' /\ \A i \in 1..Len(runs) : D!Current(i)' = D!Current(i)
  BY <1>2 DEF D!Open, D!Current, D!Last
<1>7. D!Current(Len(runs)) BY DEF D!Current, D!Last
<1>8. QED BY <1>1, <1>2, <1>3, <1>4, <1>5, <1>6, <1>7 DEF RunsFit

\* A run that has begun: over at once, or consumed from here on.
LEMMA RunBegins ==
    ASSUME RunsTyped, RunsFit, loop.at = "discovering", NEW r \in RunRecord,
           runs' = Append(runs, r), UNCHANGED <<setup, control, project>>,
           Earned(r), Alive(r),
           \/ loop' = D!Idle /\ live' = live /\ Cleared(r)
           \/ loop' = [loop EXCEPT !.at = "open"] /\ live' \in Handle /\ Running(r)'
    PROVE  RunsTyped' /\ RunsFit'
<1>1. runs \in Seq(RunRecord) BY DEF RunsTyped
<1>2. /\ runs' \in Seq(RunRecord) /\ Len(runs') = Len(runs) + 1
      /\ runs'[Len(runs) + 1] = r
      /\ \A i \in 1..Len(runs) : runs'[i] = runs[i]
      /\ \A i \in 1..Len(runs') : i \in 1..Len(runs) \/ i = Len(runs) + 1
  BY <1>1
<1>3. RunsTyped' BY <1>2 DEF RunsTyped, D!Idle
<1>4. \A i \in 1..Len(runs) : Cleared(runs[i]) BY DEF RunsFit, D!Current, D!Open
<1>5. \A i \in 1..Len(runs') : Earned(runs'[i]) /\ Alive(runs'[i]) BY <1>2 DEF RunsFit
<1>6. loop'.at # "idle" => loop'.generation <= project'.generation
  BY DEF RunsTyped, RunsFit, D!Idle
<1>7. CASE loop' = D!Idle /\ live' = live /\ Cleared(r)
  <2>1. ~D!Open' BY <1>7 DEF D!Open, D!Idle
  <2>2. QED BY <1>2, <1>3, <1>4, <1>5, <1>6, <1>7, <2>1 DEF RunsFit
<1>8. CASE loop' = [loop EXCEPT !.at = "open"] /\ live' \in Handle /\ Running(r)'
  <2>1. loop'.at = "open" BY <1>8 DEF RunsTyped
  <2>2. \A i \in 1..Len(runs') : ~D!Current(i)' => Cleared(runs'[i])
    BY <1>2, <1>4, <2>1 DEF D!Current, D!Open, D!Last
  <2>3. QED BY <1>1, <1>2, <1>3, <1>5, <1>6, <1>8, <2>2 DEF RunsFit
<1>9. QED BY <1>7, <1>8

\* What the consumer makes of the end of a stream.
LEMMA TakenFits ==
    ASSUME NEW h \in Handle, NEW out \in RunOutcomes
    PROVE  /\ D!Taken(h, out) \in RunOutcomes
           /\ D!Taken(h, out) = "completed" =>
                  out = "completed" /\ h.step # "fired"
           /\ h.step = "fired" \/ out \in {"unknown", "transient_network"} =>
                  D!Taken(h, out) \in {"none", "unknown", "transient_network"}
           /\ control'.stopped \/ D!FencedBy(project') => D!Taken(h, out) = "none"
BY DEF D!Taken, RunOutcomes, D!Categories, D!None

\* The control plane and the project are as they were, or the run is revoked by
\* what they are now.
Surroundings ==
    /\ setup' = setup
    /\ control' \in [up : BOOLEAN, stopped : BOOLEAN, halts : Nat]
    /\ project' \in [paused : BOOLEAN, generation : Nat]
    /\ loop.generation <= project'.generation

\* A stream ends with outcome out.
LEMMA StreamEnds ==
    ASSUME RunsTyped, RunsFit, D!Open, Surroundings,
           NEW r \in RunRecord, NEW h \in Handle, NEW out \in RunOutcomes,
           D!EndsWith(r, h, out),
           out = "completed" => r.ended /\ r.agent = "gone",
           r.late => h.step = "fired" \/ out \in {"unknown", "transient_network"},
           r.revoked => control'.stopped \/ project'.generation # loop.generation,
           r.agent = "alive" => r.left # "throw",
           Cleared(r)
    PROVE  RunsTyped' /\ RunsFit'
<1> DEFINE T == D!Taken(h, out)
<1>1. /\ T \in RunOutcomes
      /\ T = "completed" => r.ended /\ r.agent = "gone"
      /\ r.late => T \in {"none", "unknown", "transient_network"}
      /\ r.revoked => T = "none"
  BY TakenFits DEF D!FencedBy
<1>2. /\ runs' = [runs EXCEPT ![Len(runs)] = [r EXCEPT !.taken = T]]
      /\ loop' = D!Idle /\ live' = D!Rests
  BY DEF D!EndsWith, D!Last
<1> HIDE DEF T
<1>3. QED BY <1>1, <1>2, RunEnds DEF Surroundings

\* The current run, and its record once it was told to stop.
LEMMA TheRun ==
    ASSUME RunsTyped, RunsFit, D!Open
    PROVE  /\ runs[Len(runs)] \in RunRecord /\ Running(runs[Len(runs)])
           /\ Earned(runs[Len(runs)]) /\ Alive(runs[Len(runs)])
           /\ Len(runs) > 0
           /\ loop.generation <= project.generation
<1>1. Len(runs) > 0 /\ runs \in Seq(RunRecord) BY DEF RunsFit, RunsTyped
<1>2. QED BY <1>1 DEF RunsFit, D!Open

LEMMA KilledFits ==
    ASSUME NEW r \in RunRecord
    PROVE  /\ D!Killed(r) \in RunRecord /\ Cleared(D!Killed(r))
           /\ D!Killed(r).taken = r.taken /\ D!Killed(r).late = r.late
           /\ D!Killed(r).revoked = r.revoked /\ D!Killed(r).agent = r.agent
           /\ D!Killed(r).left = r.left /\ D!Killed(r).ended = r.ended
BY DEF D!Killed, RunRecord, Cleared

\* A cancelled handle: of a CLI the stream is done, of the others it goes on.  The
\* run may have been marked late, by a timer that fired, or revoked meanwhile.
LEMMA Cancelled ==
    ASSUME RunsTyped, RunsFit, D!Open, Surroundings,
           NEW r \in RunRecord, NEW h \in Handle,
           D!CancelHandle(r, h),
           r.taken = "none", r.agent = runs[Len(runs)].agent, r.left = runs[Len(runs)].left,
           r.staged = runs[Len(runs)].staged,
           r.told = runs[Len(runs)].told,
           h.outcome = live.outcome, h.timer = live.timer, h.request = live.request,
           r.late => \/ h.step = "fired"
                     \/ setup.adapter = "cli" /\ h.outcome = "unknown",
           r.revoked => control'.stopped \/ project'.generation # loop.generation
    PROVE  RunsTyped' /\ RunsFit'
<1>1. Running(runs[Len(runs)]) /\ Alive(runs[Len(runs)]) BY TheRun
<1>2. CASE setup.adapter = "cli"
  <2>1. D!EndsWith(D!Killed(r), h, h.outcome) BY <1>2 DEF D!CancelHandle
  <2>2. h.outcome \in RunOutcomes /\ h.outcome # "completed"
    BY DEF Handle, RunOutcomes, D!Categories
  <2>3. D!Killed(r).late => h.step = "fired" \/ h.outcome \in {"unknown", "transient_network"}
    BY KilledFits
  <2>4. D!Killed(r).agent = "alive" => D!Killed(r).left # "throw" BY <1>1, KilledFits DEF Alive
  <2>5. D!Killed(r).revoked => control'.stopped \/ project'.generation # loop.generation BY KilledFits
  <2> DEFINE k == D!Killed(r)
  <2>6. k \in RunRecord /\ Cleared(k) BY KilledFits
  <2> HIDE DEF k
  <2>7. QED BY <2>1, <2>2, <2>3, <2>4, <2>5, <2>6, StreamEnds DEF k
<1>3. CASE setup.adapter # "cli"
  <2> DEFINE g == [h EXCEPT !.cancelled = TRUE]
  <2>1. /\ runs' = [runs EXCEPT ![Len(runs)] = r] /\ live' = g /\ loop' = loop
    BY <1>3 DEF D!CancelHandle, D!Last
  <2>2. /\ g \in Handle /\ g.cancelled /\ g.step = h.step /\ g.timer = h.timer
        /\ g.request = h.request /\ g.outcome = h.outcome
    BY DEF Handle
  <2> HIDE DEF g
  <2>3. Running(r)' BY <1>1, <1>3, <2>1, <2>2 DEF Running, Surroundings
  <2>4. r.agent = "alive" => r.left # "throw" BY <1>1 DEF Alive
  <2>5. QED BY <2>1, <2>2, <2>3, <2>4, RunGoesOn DEF Surroundings
<1>4. QED BY <1>2, <1>3

LEMMA RunsNext ==
    ASSUME RunsTyped, RunsFit, [D!Next]_(D!vars) PROVE RunsTyped' /\ RunsFit'
<1>t. /\ setup \in D!Setups /\ control \in [up : BOOLEAN, stopped : BOOLEAN, halts : Nat]
      /\ project \in [paused : BOOLEAN, generation : Nat]
      /\ loop \in [at : {"idle", "discovering", "open"}, generation : Nat]
      /\ live \in Handle /\ runs \in Seq(RunRecord)
  BY DEF RunsTyped
<1>s. UNCHANGED <<setup, control, project>> /\ D!Open => Surroundings
  BY <1>t, TheRun DEF Surroundings
<1> DEFINE last == runs[Len(runs)]
<1>l. D!Open => /\ last \in RunRecord /\ Running(last) /\ Earned(last) /\ Alive(last)
                /\ Len(runs) > 0 /\ loop.generation <= project.generation
  BY TheRun
<1>1. CASE UNCHANGED D!vars
  BY <1>1 DEF D!vars, RunsTyped, RunsFit, D!Open, D!Current, D!Last, Running
<1>2. CASE D!Discover
  <2>1. loop' = [at |-> "discovering", generation |-> project.generation]
        /\ UNCHANGED <<setup, control, project, live, runs>> /\ loop.at = "idle"
    BY <1>2 DEF D!Discover
  <2>2. QED BY <2>1, <1>t DEF RunsTyped, RunsFit, D!Open, D!Current, D!Last
<1>3. CASE D!Withdraw
  BY <1>3 DEF D!Withdraw, RunsTyped, RunsFit, D!Open, D!Current, D!Last, D!Idle
<1>4. CASE D!StartRefused \/ D!SpawnFails
  <2>1. PICK out \in {"auth", "sandbox_unavailable", "agent_crash"} :
            runs' = Append(runs, [D!Started("gone", FALSE, D!None) EXCEPT
                                     !.taken = D!Taken(D!Rests, out)])
    BY <1>4 DEF D!StartRefused, D!SpawnFails, D!Begin
  <2>2. /\ loop.at = "discovering" /\ loop' = D!Idle
        /\ UNCHANGED <<setup, control, project, live>>
    BY <1>4 DEF D!StartRefused, D!SpawnFails
  <2> DEFINE T == D!Taken(D!Rests, out)
             r == [D!Started("gone", FALSE, D!None) EXCEPT !.taken = T]
  <2>3. D!Rests \in Handle /\ out \in RunOutcomes
    BY DEF D!Rests, D!None, Handle, RunOutcomes, D!Categories
  <2>4. T \in RunOutcomes /\ T # "completed"
    BY <2>3, TakenFits
  <2>5. runs' = Append(runs, r) BY <2>1
  <2> HIDE DEF T
  <2>6. /\ r \in RunRecord /\ r.agent = "gone" /\ ~r.staged /\ ~r.late /\ ~r.revoked
        /\ r.taken = T
    BY <2>4 DEF D!Started, D!None, RunRecord
  <2> HIDE DEF r
  <2>7. Earned(r) /\ Alive(r) /\ Cleared(r) BY <2>4, <2>6 DEF Earned, Alive, Cleared
  <2>8. QED BY <2>2, <2>5, <2>6, <2>7, RunBegins
<1>5. CASE D!SpawnThrows
  <2> DEFINE r == D!Started("gone", TRUE, "throw")
  <2>1. /\ runs' = Append(runs, r) /\ loop.at = "discovering" /\ loop' = D!Idle
        /\ UNCHANGED <<setup, control, project, live>>
    BY <1>5 DEF D!SpawnThrows, D!Begin
  <2>2. r \in RunRecord /\ Earned(r) /\ Alive(r) /\ Cleared(r)
    BY DEF D!Started, D!None, RunRecord, RunOutcomes, Earned, Alive, Cleared
  <2> HIDE DEF r
  <2>3. QED BY <2>1, <2>2, RunBegins
<1>6. CASE D!StartCli \/ D!StartRequest
  <2>1. PICK agent \in {"alive", "gone"}, staged \in BOOLEAN :
            /\ runs' = Append(runs, D!Started(agent, staged, D!None))
            /\ setup.adapter # "cli" => agent = "gone" /\ ~staged
    BY <1>6 DEF D!StartCli, D!StartRequest, D!Begin
  <2> DEFINE r == D!Started(agent, staged, D!None)
  <2>2. /\ loop.at = "discovering" /\ loop' = [loop EXCEPT !.at = "open"]
        /\ UNCHANGED <<setup, control, project>> /\ live' = D!Armed
    BY <1>6 DEF D!StartCli, D!StartRequest
  <2>3. /\ D!Armed \in Handle
        /\ D!Armed.timer # "none" => setup.adapter = "cli"
        /\ D!Armed.request # "none" => setup.adapter = "http"
    BY DEF D!Armed, D!Rests, D!None, Handle
  <2>4. /\ r \in RunRecord /\ r.taken = "none" /\ r.left = "none" /\ ~r.told /\ ~r.late
        /\ ~r.revoked /\ r.agent = agent /\ r.staged = staged
    BY DEF D!Started, D!None, RunRecord, RunOutcomes
  <2>5. runs' = Append(runs, r) BY <2>1
  <2> HIDE DEF r
  <2>6. Earned(r) /\ Alive(r) BY <2>4 DEF Earned, Alive
  <2>7. Running(r)' BY <2>1, <2>2, <2>3, <2>4 DEF Running
  <2>8. QED BY <2>2, <2>3, <2>4, <2>5, <2>6, <2>7, RunBegins
<1>7. CASE D!Exits
  <2>1. PICK i \in 1..Len(runs), zero \in BOOLEAN : D!AgentExits(i, zero)
    BY <1>7 DEF D!Exits, D!Last
  <2> DEFINE r == [runs[i] EXCEPT !.agent = "gone", !.staged = @ /\ runs[i].left # D!None,
                                  !.ended = zero /\ ~runs[i].told]
  <2>2. runs[i] \in RunRecord /\ Earned(runs[i]) /\ Alive(runs[i]) BY <1>t DEF RunsFit
  <2>3. /\ r \in RunRecord /\ r.agent = "gone" /\ r.staged = (runs[i].staged /\ runs[i].left # "none")
        /\ r.ended = (zero /\ ~runs[i].told) /\ r.left = runs[i].left /\ r.late = runs[i].late
        /\ r.revoked = runs[i].revoked /\ r.taken = runs[i].taken
    BY <2>2 DEF RunRecord, D!None
  <2>4. /\ runs[i].agent = "alive" /\ UNCHANGED <<setup, control, project>>
        /\ IF D!Current(i)
           THEN D!EndsWith(r, live, IF live.cancelled THEN live.outcome
                                    ELSE IF zero THEN "completed" ELSE "agent_crash")
           ELSE runs' = [runs EXCEPT ![i] = r] /\ UNCHANGED <<loop, live>>
    BY <2>1 DEF D!AgentExits
  <2> HIDE DEF r
  <2>5. Cleared(r) BY <2>3 DEF Cleared
  <2>6. CASE D!Current(i)
    <3> DEFINE out == IF live.cancelled THEN live.outcome
                      ELSE IF zero THEN "completed" ELSE "agent_crash"
    <3>1. D!Open /\ i = Len(runs) BY <2>6 DEF D!Current, D!Last
    <3>2. out \in RunOutcomes
      BY <1>t DEF Handle, RunOutcomes, D!Categories
    <3>3. Running(runs[i]) BY <3>1, <1>l
    <3>4. out = "completed" => r.ended
      BY <2>3, <3>3, <1>t DEF Running, Handle
    <3>5. r.late => live.step = "fired" \/ out \in {"unknown", "transient_network"}
      BY <2>3, <3>3 DEF Running
    <3>6. r.revoked => control'.stopped \/ project'.generation # loop.generation
      BY <2>3, <2>4, <3>3 DEF Running
    <3>7. D!EndsWith(r, live, out) BY <2>4, <2>6
    <3> HIDE DEF out
    <3>8. QED BY <3>1, <3>2, <3>4, <3>5, <3>6, <3>7, <2>3, <2>4, <2>5, <1>s, <1>t, StreamEnds
  <2>7. CASE ~D!Current(i)
    <3>1. runs' = [runs EXCEPT ![i] = r] /\ UNCHANGED <<setup, control, project, loop, live>>
      BY <2>4, <2>7
    <3>2. /\ runs' \in Seq(RunRecord) /\ Len(runs') = Len(runs) /\ runs'[i] = r
          /\ \A j \in 1..Len(runs) : j # i => runs'[j] = runs[j]
      BY <3>1, <2>3, <1>t
    <3>3. Earned(r) /\ Alive(r) BY <2>2, <2>3, <2>4 DEF Earned, Alive
    <3>4. RunsTyped' BY <3>1, <3>2, <1>t DEF RunsTyped
    <3>5. D!Open' = D!Open /\ \A j \in 1..Len(runs) : D!Current(j)' = D!Current(j)
      BY <3>1, <3>2 DEF D!Open, D!Current, D!Last
    <3>6. D!Open => i # Len(runs) BY <2>7 DEF D!Current, D!Last
    <3>7. D!Open => /\ runs'[Len(runs)] = runs[Len(runs)] /\ Running(last)
                    /\ last.revoked => control.stopped \/ project.generation # loop.generation
      BY <3>2, <3>6, <1>l DEF Running
    <3>8. D!Open => Running(runs[Len(runs)])'
      BY <3>1, <3>2, <3>7 DEF Running
    <3>9. \A j \in 1..Len(runs') : Earned(runs'[j]) /\ Alive(runs'[j])
      BY <3>2, <3>3 DEF RunsFit
    <3>10. \A j \in 1..Len(runs') : ~D!Current(j)' => Cleared(runs'[j])
      BY <3>2, <3>5, <2>5 DEF RunsFit
    <3>11. QED BY <3>1, <3>2, <3>4, <3>5, <3>8, <3>9, <3>10 DEF RunsFit
  <2>8. QED BY <2>6, <2>7
<1>8. CASE D!Deadline
  <2>1. /\ D!Open /\ live.timer = "armed" /\ UNCHANGED <<setup, control, project, loop>>
        /\ runs' = [runs EXCEPT ![Len(runs)] = [D!Killed(last) EXCEPT !.late = TRUE]]
        /\ live' = [live EXCEPT !.timer = "fired", !.outcome = "unknown", !.cancelled = TRUE]
    BY <1>8 DEF D!Deadline, D!Last
  <2> DEFINE k == D!Killed(last)
             r == [k EXCEPT !.late = TRUE]
             h == [live EXCEPT !.timer = "fired", !.outcome = "unknown", !.cancelled = TRUE]
  <2>2. /\ k \in RunRecord /\ k.taken = last.taken /\ k.agent = last.agent
        /\ k.left = last.left /\ k.revoked = last.revoked
    BY <2>1, <1>l, KilledFits
  <2>r. runs' = [runs EXCEPT ![Len(runs)] = r] /\ live' = h BY <2>1
  <2> HIDE DEF k
  <2>3. /\ r \in RunRecord /\ r.taken = last.taken /\ r.agent = last.agent
        /\ r.left = last.left /\ r.revoked = last.revoked
    BY <2>2 DEF RunRecord
  <2>4. /\ h \in Handle /\ h.cancelled /\ h.outcome = "unknown" /\ h.request = live.request
    BY <1>t DEF Handle
  <2> HIDE DEF r, h
  <2>5. setup.adapter = "cli" BY <2>1, <1>l DEF Running
  <2>6. PICK q \in RunRecord : q = r BY <2>3
  <2>7. Running(q)'
    <3>1. setup' = setup /\ control' = control /\ project' = project /\ loop' = loop /\ live' = h
      BY <2>1, <2>r
    <3>2. Running(last) BY <2>1, <1>l
    <3>3. /\ q.taken = "none" /\ (q.revoked => control.stopped \/ project.generation # loop.generation)
          /\ live.request # "none" => setup.adapter = "http"
      BY <2>3, <2>6, <3>2 DEF Running
    <3>4. QED BY <2>4, <2>5, <3>1, <3>3 DEF Running
  <2>8. q.agent = "alive" => q.left # "throw" BY <2>1, <2>3, <2>6, <1>l DEF Alive
  <2>9. QED BY <2>1, <2>r, <2>4, <2>6, <2>7, <2>8, <1>l, <1>t, RunGoesOn
<1>9. CASE D!StepDeadline
  <2> DEFINE r == [last EXCEPT !.late = TRUE]
             h == [live EXCEPT !.step = "fired"]
  <2>1. D!Open /\ UNCHANGED <<setup, control, project>> /\ D!CancelHandle(r, h)
    BY <1>9 DEF D!StepDeadline, D!Last
  <2>2. /\ r \in RunRecord /\ r.taken = last.taken /\ r.agent = last.agent
        /\ r.left = last.left /\ r.revoked = last.revoked /\ r.staged = last.staged
        /\ r.told = last.told
    BY <2>1, <1>l DEF RunRecord
  <2>3. /\ h \in Handle /\ h.step = "fired" /\ h.outcome = live.outcome /\ h.timer = live.timer
        /\ h.request = live.request
    BY <1>t DEF Handle
  <2> HIDE DEF r, h
  <2>4. r.taken = "none" /\ (r.revoked => control'.stopped \/ project'.generation # loop.generation)
    BY <2>1, <2>2, <1>l DEF Running
  <2>5. QED BY <2>1, <2>2, <2>3, <2>4, <1>s, <1>l, Cancelled
<1>10. ASSUME D!Open, UNCHANGED <<setup, control, project>>, setup.adapter # "cli",
              NEW r \in RunRecord, NEW out \in RunOutcomes, D!EndsWith(r, live, out),
              r = last \/ r = [last EXCEPT !.ended = TRUE],
              out = "completed" => r.ended
       PROVE  RunsTyped' /\ RunsFit'
  <2>1. /\ r.agent = last.agent /\ r.late = last.late /\ r.staged = last.staged
        /\ r.left = last.left /\ r.revoked = last.revoked
    BY <1>10, <1>l DEF RunRecord
  <2>2. /\ r.agent = "gone" /\ ~r.staged /\ (r.late => live.step = "fired")
        /\ (r.revoked => control'.stopped \/ project'.generation # loop.generation)
    BY <2>1, <1>10, <1>l DEF Running
  <2>3. Cleared(r) BY <2>2 DEF Cleared
  <2>4. QED BY <2>2, <2>3, <1>10, <1>s, <1>t, StreamEnds
<1>11. ASSUME D!Open, UNCHANGED <<setup, control, project>>, live.request # "none"
       PROVE  setup.adapter # "cli"
  BY <1>11, <1>l DEF Running
<1>c. /\ "none" \in RunOutcomes /\ "transient_network" \in RunOutcomes /\ "unknown" \in RunOutcomes
      /\ "completed" \in RunOutcomes /\ D!HttpCategories \subseteq RunOutcomes
      /\ D!Categories \subseteq RunOutcomes /\ "completed" \notin D!Categories
      /\ "completed" \notin D!HttpCategories
  BY DEF RunOutcomes, D!Categories, D!HttpCategories
<1>e. D!Open => /\ [last EXCEPT !.ended = TRUE] \in RunRecord
                /\ [last EXCEPT !.ended = TRUE].ended
  BY <1>l DEF RunRecord
<1>12. CASE D!Fetched
  <2>1. D!Open /\ UNCHANGED <<setup, control, project>> /\ live.request = "fetch"
    BY <1>12 DEF D!Fetched
  <2>2. setup.adapter # "cli" BY <2>1, <1>11
  <2>3. CASE D!EndsWith(last, live, "none") \/ D!EndsWith(last, live, "transient_network")
    BY <2>1, <2>2, <2>3, <1>10, <1>c, <1>l
  <2>4. CASE \E request \in {"body", "refusal"} :
                 live' = [live EXCEPT !.request = request] /\ UNCHANGED <<loop, runs>>
    <3>1. PICK request \in {"body", "refusal"} :
                 live' = [live EXCEPT !.request = request] /\ UNCHANGED <<loop, runs>>
      BY <2>4
    <3>2. /\ live' \in Handle /\ live'.cancelled = live.cancelled /\ live'.step = live.step
          /\ live'.timer = live.timer /\ live'.outcome = live.outcome
      BY <3>1, <1>t DEF Handle
    <3>3. setup.adapter = "http" BY <2>1, <1>l DEF Running
    <3>4. Running(runs[Len(runs)])'
      BY <3>1, <3>2, <3>3, <2>1, <1>l DEF Running
    <3>5. QED BY <3>1, <3>2, <3>4, <2>1, <1>t, <1>l
              DEF RunsTyped, RunsFit, D!Open, D!Current, D!Last
  <2>5. QED BY <1>12, <2>3, <2>4 DEF D!Fetched, D!None, D!Last
<1>13. CASE D!RefusalRead
  <2>1. /\ D!Open /\ UNCHANGED <<setup, control, project>> /\ live.request = "refusal"
        /\ \E category \in D!HttpCategories : D!EndsWith(last, live, category)
    BY <1>13 DEF D!RefusalRead, D!Last
  <2>2. PICK category \in D!HttpCategories : D!EndsWith(last, live, category) BY <2>1
  <2>3. QED BY <2>1, <2>2, <1>10, <1>11, <1>c, <1>l
<1>14. CASE D!BodyRead
  <2>1. /\ D!Open /\ UNCHANGED <<setup, control, project>> /\ live.request = "body"
        /\ \/ D!EndsWith(last, live, "none") \/ D!EndsWith(last, live, "transient_network")
           \/ D!EndsWith([last EXCEPT !.ended = TRUE], live, "completed")
    BY <1>14 DEF D!BodyRead, D!Last, D!None
  <2>2. QED BY <2>1, <1>10, <1>11, <1>c, <1>e, <1>l
<1>15. CASE D!FixtureCompletes
  <2>1. /\ D!Open /\ UNCHANGED <<setup, control, project>> /\ setup.adapter # "cli"
        /\ \/ D!EndsWith([last EXCEPT !.ended = TRUE], live, "completed")
           \/ \E category \in D!Categories : D!EndsWith(last, live, category)
    BY <1>15 DEF D!FixtureCompletes, D!Last
  <2>2. QED BY <2>1, <1>10, <1>c, <1>e, <1>l
<1>16. CASE D!FixtureGivesUp
  <2>1. /\ D!Open /\ UNCHANGED <<setup, control, project>> /\ setup.adapter # "cli"
        /\ \/ D!EndsWith(last, live, "none")
           \/ D!EndsWith([last EXCEPT !.late = TRUE], live, "unknown")
    BY <1>16 DEF D!FixtureGivesUp, D!Last, D!None
  <2>2. CASE D!EndsWith(last, live, "none") BY <2>1, <2>2, <1>10, <1>c, <1>l
  <2>3. CASE D!EndsWith([last EXCEPT !.late = TRUE], live, "unknown")
    <3> DEFINE r == [last EXCEPT !.late = TRUE]
    <3>1. /\ r \in RunRecord /\ r.agent = last.agent /\ r.staged = last.staged
          /\ r.left = last.left /\ r.revoked = last.revoked
      BY <2>1, <1>l DEF RunRecord
    <3>2. D!EndsWith(r, live, "unknown") BY <2>3
    <3> HIDE DEF r
    <3>3. /\ r.agent = "gone" /\ ~r.staged
          /\ (r.revoked => control'.stopped \/ project'.generation # loop.generation)
      BY <2>1, <3>1, <1>l DEF Running
    <3>4. Cleared(r) BY <3>3 DEF Cleared
    <3>5. QED BY <2>1, <3>1, <3>2, <3>3, <3>4, <1>c, <1>s, <1>t, StreamEnds
  <2>4. QED BY <2>1, <2>2, <2>3
<1>17. CASE D!Pause \/ D!Stop
  <2> DEFINE r == [last EXCEPT !.revoked = TRUE]
  <2>1. /\ setup' = setup
        /\ control' \in [up : BOOLEAN, stopped : BOOLEAN, halts : Nat]
        /\ project' \in [paused : BOOLEAN, generation : Nat]
        /\ project'.generation >= project.generation
        /\ control'.stopped \/ project'.generation = project.generation + 1
    <3>1. CASE D!Pause
      <4>1. /\ project' = [paused |-> TRUE, generation |-> project.generation + 1]
            /\ UNCHANGED <<setup, control>>
        BY <3>1 DEF D!Pause
      <4>2. project.generation \in Nat BY <1>t
      <4>3. QED BY <4>1, <4>2, <1>t
    <3>2. CASE D!Stop
      <4>1. control' = [control EXCEPT !.stopped = TRUE] /\ UNCHANGED <<setup, project>>
        BY <3>2 DEF D!Stop
      <4>2. /\ [control EXCEPT !.stopped = TRUE] \in [up : BOOLEAN, stopped : BOOLEAN, halts : Nat]
            /\ [control EXCEPT !.stopped = TRUE].stopped
        BY <1>t
      <4>3. project'.generation >= project.generation BY <4>1, <1>t
      <4>4. QED BY <4>1, <4>2, <4>3, <1>t
    <3>3. QED BY <1>17, <3>1, <3>2
  <2>2. CASE D!Open
    <3>1. D!CancelHandle(r, live) BY <1>17, <2>2 DEF D!Pause, D!Stop, D!Last
    <3>2. Surroundings BY <2>1, <2>2, <1>l, <1>t DEF Surroundings
    <3>3. /\ r \in RunRecord /\ r.taken = last.taken /\ r.agent = last.agent
          /\ r.left = last.left /\ r.staged = last.staged /\ r.late = last.late
          /\ r.told = last.told
      BY <2>2, <1>l DEF RunRecord
    <3> HIDE DEF r
    <3>4. /\ r.taken = "none"
          /\ r.late => live.step = "fired" \/ (setup.adapter = "cli" /\ live.outcome = "unknown")
      BY <2>2, <3>3, <1>l DEF Running
    <3>5. control'.stopped \/ project'.generation # loop.generation BY <2>1, <2>2, <1>l, <1>t DEF D!FencedBy
    <3>6. QED BY <2>2, <3>1, <3>2, <3>3, <3>4, <3>5, <1>t, Cancelled
  <2>3. CASE ~D!Open
    <3>1. UNCHANGED <<loop, live, runs>> BY <1>17, <2>3 DEF D!Pause, D!Stop
    <3>2. loop.at # "idle" => loop.generation <= project'.generation
      BY <2>1, <1>t DEF RunsFit
    <3>3. QED BY <2>1, <2>3, <3>1, <3>2, <1>t DEF RunsTyped, RunsFit, D!Open, D!Current, D!Last
  <2>4. QED BY <2>2, <2>3
<1>18. CASE D!Resume \/ D!Restart
  <2>1. /\ UNCHANGED <<setup, loop, live, runs>>
        /\ control' \in [up : BOOLEAN, stopped : BOOLEAN, halts : Nat]
        /\ control'.stopped = control.stopped
        /\ project' \in [paused : BOOLEAN, generation : Nat]
        /\ project'.generation = project.generation
    BY <1>18, <1>t DEF D!Resume, D!Restart
  <2>2. CASE ~D!Open BY <2>1, <2>2, <1>t DEF RunsTyped, RunsFit, D!Open, D!Current, D!Last
  <2>3. CASE D!Open
    <3>1. Running(last)' BY <2>1, <2>3, <1>l DEF Running
    <3>2. QED BY <2>1, <2>3, <3>1, <1>l, <1>t DEF RunsTyped, RunsFit, D!Open, D!Current, D!Last
  <2>4. QED BY <2>2, <2>3
<1>19. CASE D!Exit \/ D!Crash
  <2>1. PICK how \in {"exit", "crash"} : D!Gone(how)
    BY <1>19 DEF D!Exit, D!Crash
  <2>h. control' = [up |-> FALSE, stopped |-> FALSE, halts |-> control.halts + 1]
        /\ UNCHANGED <<setup, project>> /\ loop' = D!Idle /\ live' = D!Rests
    BY <2>1 DEF D!Gone
  <2>2. control' \in [up : BOOLEAN, stopped : BOOLEAN, halts : Nat]
    BY <2>h, <1>t
  <2> DEFINE x(i) == [runs[i] EXCEPT
                     !.agent = IF setup.reaps THEN "gone" ELSE @,
                     !.left = IF @ = D!None /\ (runs[i].agent = "alive" \/ runs[i].staged) THEN how ELSE @]
  <2>3. runs' = [i \in 1..Len(runs) |-> x(i)] BY <2>1 DEF D!Gone, D!Last
  <2>4. ASSUME NEW i \in 1..Len(runs)
        PROVE  /\ x(i) \in RunRecord /\ Earned(x(i)) /\ Alive(x(i)) /\ Cleared(x(i))
    <3>1. runs[i] \in RunRecord /\ Earned(runs[i]) /\ Alive(runs[i]) BY <1>t DEF RunsFit
    <3>2. /\ x(i) \in RunRecord /\ x(i).agent \in {runs[i].agent, "gone"}
          /\ x(i).left = IF runs[i].left = "none" /\ (runs[i].agent = "alive" \/ runs[i].staged)
                         THEN how ELSE runs[i].left
          /\ x(i).staged = runs[i].staged /\ x(i).taken = runs[i].taken
          /\ x(i).ended = runs[i].ended /\ x(i).late = runs[i].late
          /\ x(i).revoked = runs[i].revoked
      BY <3>1 DEF RunRecord, D!None
    <3> HIDE DEF x
    <3>3. QED BY <3>1, <3>2 DEF Earned, Alive, Cleared, RunRecord
  <2> HIDE DEF x
  <2>5. runs' \in Seq(RunRecord) /\ Len(runs') = Len(runs) /\ \A i \in 1..Len(runs) : runs'[i] = x(i)
    BY <2>3, <2>4, <1>t
  <2>6. RunsTyped' BY <2>h, <2>2, <2>5, <1>t DEF RunsTyped, D!Idle, D!Rests, D!None, Handle
  <2>7. QED BY <2>h, <2>4, <2>5, <2>6 DEF RunsFit, D!Open, D!Idle
<1>20. QED
  BY <1>1, <1>2, <1>3, <1>4, <1>5, <1>6, <1>7, <1>8, <1>9, <1>12, <1>13, <1>14, <1>15, <1>16,
     <1>17, <1>18, <1>19 DEF D!Next

LEMMA RunsFitServes == ASSUME RunsTyped, RunsFit PROVE D!OutcomeIsEarned /\ D!NothingIsLeft
<1>1. D!OutcomeIsEarned BY DEF RunsFit, D!OutcomeIsEarned, Earned, D!Last, D!None
<1>2. D!NothingIsLeft BY DEF RunsFit, D!NothingIsLeft, Cleared, D!Last, D!None
<1>3. QED BY <1>1, <1>2

\* What is taken of a provider run happened to it: completed only if its agent ended
\* well, a late run as the error of a timeout, a revoked run not at all.
THEOREM OutcomesAreEarned == EdgesSpec => []OutcomeIsEarned
<1> DEFINE Invariant == part = "provider" => RunsTyped /\ RunsFit
<1>1. EdgesInit => Invariant BY EdgesStart, RunsInit
<1>2. Invariant /\ [EdgesNext]_edgesVars => Invariant' BY EdgesMove, RunsNext
<1>3. Invariant => OutcomeIsEarned BY RunsFitServes DEF OutcomeIsEarned
<1> HIDE DEF Invariant
<1>4. QED BY <1>1, <1>2, <1>3, PTL DEF EdgesSpec

\* A run that is over has removed its throwaway HOME and told its agent to stop, unless
\* spawn threw or the control plane crashed or exited before.
THEOREM NothingStays == EdgesSpec => []NothingIsLeft
<1> DEFINE Invariant == part = "provider" => RunsTyped /\ RunsFit
<1>1. EdgesInit => Invariant BY EdgesStart, RunsInit
<1>2. Invariant /\ [EdgesNext]_edgesVars => Invariant' BY EdgesMove, RunsNext
<1>3. Invariant => NothingIsLeft BY RunsFitServes DEF NothingIsLeft
<1> HIDE DEF Invariant
<1>4. QED BY <1>1, <1>2, <1>3, PTL DEF EdgesSpec

-----------------------------------------------------------------------------
(* EventFeed: the durable number.                                           *)

Line == [kind : {"id", "data"}, n : Nat]
Datum(wire, i, m) == i \in 1..Len(wire) /\ wire[i].kind = "data" /\ wire[i].n = m

\* The lines of events in their order: each data line follows the id line of its
\* event, and `first` is the number that was read last.
InOrder(wire, first) ==
    /\ \A i, j \in 1..Len(wire) : i <= j => wire[i].n <= wire[j].n
    /\ \A i \in 1..Len(wire) : wire[i].kind = "data" =>
            IF i = 1 THEN wire[i].n = first ELSE wire[i - 1].n = wire[i].n /\ wire[i - 1].kind = "id"

FeedTyped ==
    /\ server \in [log : Nat, up : BOOLEAN, cuts : Nat, outages : Nat]
    /\ feed \in [at : {"none", "probing", "waiting", "open"}, pending : Nat, wire : Seq(Line)]
    /\ cursor \in Nat

\* An open stream carries, in their order, all the events after the durable
\* number that the replay's limit did not cut off.
FeedFits ==
    /\ cursor <= server.log
    /\ \A m \in 1..cursor : m \in told \union skipped
    /\ feed.at = "open" =>
         /\ InOrder(feed.wire, feed.pending)
         /\ \A i \in 1..Len(feed.wire) : feed.wire[i].n <= server.log
         /\ \A m \in (cursor + 1)..server.log :
                m \in skipped \/ \E i \in 1..Len(feed.wire) : Datum(feed.wire, i, m)

\* The lines of increasing events.
LEMMA LinesFit ==
    ASSUME NEW events \in Seq(Nat), NEW first \in Nat,
           \A i, j \in 1..Len(events) : i <= j => events[i] <= events[j]
    PROVE  /\ C!Lines(events) \in Seq(Line)
           /\ InOrder(C!Lines(events), first)
           /\ \A i \in 1..Len(C!Lines(events)) :
                \E j \in 1..Len(events) : C!Lines(events)[i].n = events[j]
           /\ \A j \in 1..Len(events) :
                \E i \in 1..Len(C!Lines(events)) : Datum(C!Lines(events), i, events[j])
           /\ C!Lines(events) # <<>> => C!Lines(events)[1].kind = "id"
           /\ Len(C!Lines(events)) = 2 * Len(events)
<1> DEFINE W == C!Lines(events)
           half(i) == (i + 1) \div 2
<1>1. Len(events) \in Nat /\ \A i \in 1..2 * Len(events) : half(i) \in 1..Len(events)
  OBVIOUS
<1>2. \A i \in 1..2 * Len(events) :
          /\ W[i] = [kind |-> IF i % 2 = 1 THEN "id" ELSE "data", n |-> events[half(i)]]
  BY DEF C!Lines
<1>3. W \in Seq(Line) /\ Len(W) = 2 * Len(events)
  BY <1>1 DEF C!Lines, Line
<1>4. \A i, j \in 1..2 * Len(events) : i <= j => half(i) <= half(j)
  BY <1>1
<1> HIDE DEF W
<1>5. \A i \in 1..2 * Len(events) : W[i].n = events[half(i)] /\ W[i].kind = IF i % 2 = 1 THEN "id" ELSE "data"
  <2>1. ASSUME NEW i \in 1..2 * Len(events)
        PROVE  W[i].n = events[half(i)] /\ W[i].kind = IF i % 2 = 1 THEN "id" ELSE "data"
    <3> DEFINE e == events[half(i)]
               k == IF i % 2 = 1 THEN "id" ELSE "data"
    <3>1. W[i] = [kind |-> k, n |-> e] BY <1>2
    <3> HIDE DEF e, k
    <3>2. W[i].kind = k /\ W[i].n = e BY <3>1
    <3>3. QED BY <3>2 DEF e, k
  <2>2. QED BY <2>1
<1>6. \A j \in 1..Len(events) : 2 * j \in 1..2 * Len(events) /\ half(2 * j) = j /\ (2 * j) % 2 = 0
  BY <1>1
<1>7. \A i \in 1..2 * Len(events) : i % 2 # 1 => /\ i # 1 /\ i - 1 \in 1..2 * Len(events)
                                                 /\ (i - 1) % 2 = 1 /\ half(i - 1) = half(i)
  BY <1>1
<1> HIDE DEF half
<1>8. InOrder(W, first)
  <2>1. \A i, j \in 1..Len(W) : i <= j => W[i].n <= W[j].n BY <1>1, <1>3, <1>4, <1>5
  <2>2. \A i \in 1..Len(W) : W[i].kind = "data" =>
            i # 1 /\ W[i - 1].n = W[i].n /\ W[i - 1].kind = "id"
    <3>1. ASSUME NEW i \in 1..Len(W), W[i].kind = "data"
          PROVE  i # 1 /\ W[i - 1].n = W[i].n /\ W[i - 1].kind = "id"
      <4>1. i \in 1..2 * Len(events) BY <1>3
      <4>2. i % 2 # 1 BY <1>5, <4>1, <3>1
      <4>3. /\ i # 1 /\ i - 1 \in 1..2 * Len(events)
            /\ (i - 1) % 2 = 1 /\ half(i - 1) = half(i)
        BY <1>7, <4>1, <4>2
      <4>4. W[i - 1].n = events[half(i - 1)] /\ W[i - 1].kind = "id" BY <1>5, <4>3
      <4>5. QED BY <1>5, <4>1, <4>3, <4>4
    <3>2. QED BY <3>1
  <2>3. QED BY <2>1, <2>2 DEF InOrder
<1>9. \A j \in 1..Len(events) : Datum(W, 2 * j, events[j]) BY <1>3, <1>5, <1>6 DEF Datum
<1>10. \A i \in 1..Len(W) : \E j \in 1..Len(events) : W[i].n = events[j] BY <1>1, <1>3, <1>5
<1>11. W # <<>> => W[1].kind = "id"
  <2>1. W # <<>> => 1 \in 1..2 * Len(events) BY <1>3
  <2>2. 1 % 2 = 1 OBVIOUS
  <2>3. QED BY <2>1, <2>2, <1>5
<1>12. \A j \in 1..Len(events) : 2 * j \in 1..Len(W) BY <1>3, <1>6
<1>13. QED BY <1>3, <1>8, <1>9, <1>10, <1>11, <1>12 DEF W

LEMMA MinMax ==
    ASSUME NEW a \in Nat, NEW b \in Nat
    PROVE  /\ C!Min({a, b}) = IF a <= b THEN a ELSE b
           /\ C!Max({a, b}) = IF a >= b THEN a ELSE b
BY DEF C!Min, C!Max

LEMMA ClosedFits ==
    ASSUME NEW at \in {"none", "probing", "waiting"}
    PROVE  /\ [C!Closed EXCEPT !.at = at] \in
                 [at : {"none", "probing", "waiting", "open"}, pending : Nat, wire : Seq(Line)]
           /\ [C!Closed EXCEPT !.at = at].at = at
<1>1. <<>> \in Seq(Line) OBVIOUS
<1>2. [C!Closed EXCEPT !.at = at] = [at |-> at, pending |-> 0, wire |-> <<>>] BY DEF C!Closed
<1> DEFINE x == [at |-> at, pending |-> 0, wire |-> <<>>]
<1>3. x \in [at : {"none", "probing", "waiting", "open"}, pending : Nat, wire : Seq(Line)] BY <1>1
<1>4. x.at = at OBVIOUS
<1>5. QED BY <1>2, <1>3, <1>4

LEMMA FeedInit == C!Init => FeedTyped /\ FeedFits
<1> SUFFICES ASSUME C!Init PROVE FeedTyped /\ FeedFits OBVIOUS
<1>1. PICK at \in {"probing", "waiting"} : feed = [C!Closed EXCEPT !.at = at] BY DEF C!Init
<1>2. /\ feed \in [at : {"none", "probing", "waiting", "open"}, pending : Nat, wire : Seq(Line)]
      /\ feed.at # "open"
  BY <1>1, ClosedFits
<1>3. server = [log |-> 0, up |-> TRUE, cuts |-> 0, outages |-> 0] /\ cursor = 0 BY DEF C!Init
<1>4. server.log = 0 BY <1>3
<1>5. FeedTyped BY <1>2, <1>3 DEF FeedTyped
<1>6. QED BY <1>2, <1>3, <1>4, <1>5 DEF FeedFits

\* A client that subscribes from the number `after`, its cursor's.
LEMMA Subscribes ==
    ASSUME FeedTyped, FeedFits, Limit \in Nat, C!Subscribe(cursor),
           UNCHANGED <<server, cursor, told>>
    PROVE  FeedTyped' /\ FeedFits'
<1> DEFINE top == IF server.log <= cursor + Limit THEN server.log ELSE cursor + Limit
           events == C!UpTo(cursor, top)
<1>1. /\ cursor \in Nat /\ server.log \in Nat /\ cursor <= server.log
      /\ top \in Nat /\ top >= cursor /\ top <= server.log
      /\ C!Min({server.log, cursor + Limit}) = top
  <2>1. cursor \in Nat /\ server.log \in Nat /\ cursor <= server.log BY DEF FeedTyped, FeedFits
  <2>2. cursor + Limit \in Nat /\ cursor + Limit >= cursor BY <2>1
  <2>3. C!Min({server.log, cursor + Limit}) = top BY <2>1, <2>2, MinMax
  <2>4. QED BY <2>1, <2>2, <2>3
<1>2. /\ feed' = [at |-> "open", pending |-> 0, wire |-> C!Lines(events)]
      /\ skipped' = skipped \union (cursor + Limit + 1)..server.log
  BY <1>1 DEF C!Subscribe, C!Replay
<1>3. /\ events \in Seq(Nat) /\ Len(events) = top - cursor
      /\ \A i \in 1..Len(events) : events[i] = cursor + i
  BY <1>1 DEF C!UpTo
<1>t. (cursor + Limit + 1)..server.log = {m \in (cursor + 1)..server.log : m > top}
  BY <1>1
<1> HIDE DEF events, top
<1>4. \A i, j \in 1..Len(events) : i <= j => events[i] <= events[j] BY <1>1, <1>3
<1> DEFINE W == C!Lines(events)
<1>5. /\ W \in Seq(Line) /\ InOrder(W, 0)
      /\ \A i \in 1..Len(W) : \E j \in 1..Len(events) : W[i].n = events[j]
      /\ \A j \in 1..Len(events) : \E i \in 1..Len(W) : Datum(W, i, events[j])
  BY <1>3, <1>4, LinesFit
<1> HIDE DEF W
<1>6. \A i \in 1..Len(W) : W[i].n <= server.log
  <2>1. \A j \in 1..Len(events) : events[j] <= server.log BY <1>1, <1>3
  <2>2. QED BY <2>1, <1>5
<1>7. \A m \in (cursor + 1)..server.log : m \in skipped' \/ \E i \in 1..Len(W) : Datum(W, i, m)
  <2>1. SUFFICES ASSUME NEW m \in (cursor + 1)..server.log, ~(m > top)
                 PROVE  \E i \in 1..Len(W) : Datum(W, i, m)
    BY <1>2, <1>t
  <2>2. m - cursor \in 1..Len(events) /\ events[m - cursor] = m BY <2>1, <1>1, <1>3
  <2>3. QED BY <2>2, <1>5
<1>8. feed'.at = "open" /\ feed'.pending = 0 /\ feed'.wire = W BY <1>2 DEF W
<1>9. FeedTyped' BY <1>2, <1>5 DEF FeedTyped, W
<1>10. \A m \in 1..cursor : m \in told \union skipped' BY <1>2 DEF FeedFits
<1>11. QED BY <1>1, <1>5, <1>6, <1>7, <1>8, <1>9, <1>10 DEF FeedFits

LEMMA Joined ==
    ASSUME NEW a \in Seq(Line), NEW b \in Seq(Line)
    PROVE  /\ a \o b \in Seq(Line) /\ Len(a \o b) = Len(a) + Len(b)
           /\ \A i \in 1..(Len(a) + Len(b)) :
                (a \o b)[i] = IF i <= Len(a) THEN a[i] ELSE b[i - Len(a)]
OBVIOUS

LEMMA FeedAppends ==
    ASSUME FeedTyped, FeedFits, C!AppendEvent PROVE FeedTyped' /\ FeedFits'
<1> DEFINE n == server.log + 1
           more == C!Lines(<<n>>)
<1>1. /\ n \in Nat /\ server' = [server EXCEPT !.log = n]
      /\ UNCHANGED <<cursor, told, skipped>>
      /\ feed' = IF feed.at = "open" THEN [feed EXCEPT !.wire = @ \o more] ELSE feed
  BY DEF C!AppendEvent, FeedTyped
<1>2. <<n>> \in Seq(Nat) /\ Len(<<n>>) = 1 /\ <<n>>[1] = n BY <1>1
<1>3. /\ more \in Seq(Line) /\ InOrder(more, 0) /\ Len(more) = 2
      /\ \A i \in 1..Len(more) : more[i].n = n
      /\ \E i \in 1..Len(more) : Datum(more, i, n)
      /\ more[1].kind = "id"
  <2>1. \A i, j \in 1..Len(<<n>>) : i <= j => <<n>>[i] <= <<n>>[j] BY <1>1, <1>2
  <2> DEFINE one == <<n>>
  <2>2. one \in Seq(Nat) /\ Len(one) = 1 /\ one[1] = n
        /\ \A i, j \in 1..Len(one) : i <= j => one[i] <= one[j]
    BY <2>1, <1>2
  <2> HIDE DEF one
  <2>3. /\ C!Lines(one) \in Seq(Line) /\ InOrder(C!Lines(one), 0)
        /\ \A i \in 1..Len(C!Lines(one)) : \E j \in 1..Len(one) : C!Lines(one)[i].n = one[j]
        /\ \A j \in 1..Len(one) :
                \E i \in 1..Len(C!Lines(one)) : Datum(C!Lines(one), i, one[j])
        /\ C!Lines(one) # <<>> => C!Lines(one)[1].kind = "id"
        /\ Len(C!Lines(one)) = 2 * Len(one)
    BY <2>2, LinesFit
  <2>a. Len(one) = 1 BY <2>2
  <2>b. Len(C!Lines(one)) = 2 * Len(one) BY <2>3
  <2>c. Len(C!Lines(one)) = 2 BY ONLY <2>a, <2>b
  <2>d. C!Lines(one) # <<>> BY ONLY <2>c
  <2>e. 1 \in 1..Len(one) BY ONLY <2>a
  <2>4. C!Lines(one) # <<>> /\ 1 \in 1..Len(one) BY <2>d, <2>e
  <2>5. QED BY <2>2, <2>3, <2>4 DEF one
<1>4. server'.log = n /\ server' \in [log : Nat, up : BOOLEAN, cuts : Nat, outages : Nat]
  BY <1>1 DEF FeedTyped
<1> HIDE DEF more
<1>5. CASE feed.at # "open"
  BY <1>1, <1>4, <1>5 DEF FeedTyped, FeedFits
<1>6. CASE feed.at = "open"
  <2> DEFINE w == feed.wire
             v == w \o more
  <2>1. /\ w \in Seq(Line) /\ InOrder(w, feed.pending)
        /\ \A i \in 1..Len(w) : w[i].n <= server.log
        /\ \A m \in (cursor + 1)..server.log : m \in skipped \/ \E i \in 1..Len(w) : Datum(w, i, m)
    BY <1>6 DEF FeedTyped, FeedFits
  <2>2. /\ v \in Seq(Line) /\ Len(v) = Len(w) + 2
        /\ \A i \in 1..Len(w) : v[i] = w[i]
        /\ \A i \in 1..Len(v) : i \notin 1..Len(w) => i - Len(w) \in 1..2 /\ v[i] = more[i - Len(w)]
        /\ \A i \in 1..Len(more) : Len(w) + i \in 1..Len(v) /\ v[Len(w) + i] = more[i]
    <3>1. /\ w \in Seq(Line) /\ more \in Seq(Line) /\ Len(more) = 2 /\ Len(w) \in Nat
      BY <2>1, <1>3
    <3>j. v \in Seq(Line) /\ Len(v) = Len(w) + Len(more)
          /\ \A i \in 1..(Len(w) + Len(more)) : v[i] = IF i <= Len(w) THEN w[i] ELSE more[i - Len(w)]
      <4> HIDE DEF w
      <4>1. QED BY <3>1, Joined
    <3>2. /\ v \in Seq(Line) /\ Len(v) = Len(w) + 2
          /\ \A i \in 1..(Len(w) + 2) : v[i] = IF i <= Len(w) THEN w[i] ELSE more[i - Len(w)]
      <4> HIDE DEF v
      <4>1. QED BY <3>1, <3>j
    <3> HIDE DEF v, w
    <3>3. ASSUME NEW i \in 1..Len(v), i \notin 1..Len(w)
          PROVE  i - Len(w) \in 1..2 /\ v[i] = more[i - Len(w)]
      BY <3>1, <3>2, <3>3
    <3>4. ASSUME NEW i \in 1..Len(more)
          PROVE  Len(w) + i \in 1..Len(v) /\ v[Len(w) + i] = more[i]
      <4>1. Len(w) + i \in 1..(Len(w) + 2) /\ ~(Len(w) + i <= Len(w)) /\ (Len(w) + i) - Len(w) = i
        BY <3>1, <3>4
      <4>2. QED BY <4>1, <3>2
    <3>5. \A i \in 1..Len(w) : v[i] = w[i] BY <3>1, <3>2
    <3>6. QED BY <3>2, <3>3, <3>4, <3>5
  <2>3. feed' = [feed EXCEPT !.wire = v] BY <1>1, <1>6
  <2> HIDE DEF v
  <2>4. feed'.at = "open" /\ feed'.pending = feed.pending /\ feed'.wire = v /\ FeedTyped'
    BY <2>2, <2>3, <1>1, <1>4, <1>6 DEF FeedTyped
  <2>t. Len(w) \in Nat /\ server.log \in Nat /\ \A i \in 1..Len(w) : w[i].n \in Nat
    <3>1. \A i \in 1..Len(w) : w[i] \in Line BY <2>1
    <3>2. \A i \in 1..Len(w) : w[i].n \in Nat BY <3>1 DEF Line
    <3> HIDE DEF w
    <3>3. QED BY <3>2, <2>1 DEF FeedTyped
  <2> HIDE DEF w
  <2>5. \A i \in 1..Len(v) : v[i].n <= n /\ (i \notin 1..Len(w) => v[i].n = n)
    BY <2>1, <2>2, <2>t, <1>1, <1>3
  <2>6. InOrder(v, feed.pending)
    <3>1. \A i, j \in 1..Len(v) : i <= j => v[i].n <= v[j].n
      BY <2>1, <2>2, <2>5 DEF InOrder
    <3>2. ASSUME NEW i \in 1..Len(v), v[i].kind = "data"
          PROVE  IF i = 1 THEN v[i].n = feed.pending
                 ELSE v[i - 1].n = v[i].n /\ v[i - 1].kind = "id"
      <4>1. CASE i \in 1..Len(w)
        <5>1. v[i] = w[i] /\ (i # 1 => i - 1 \in 1..Len(w)) BY <2>2, <2>t, <4>1
        <5>2. i # 1 => v[i - 1] = w[i - 1] BY <5>1, <2>2
        <5>3. QED BY <2>1, <3>2, <4>1, <5>1, <5>2 DEF InOrder
      <4>2. CASE i \notin 1..Len(w)
        <5>1. i = Len(w) + 2 /\ i # 1
          BY <2>1, <2>2, <2>t, <3>2, <4>2, <1>3
        <5>2. i - 1 = Len(w) + 1 /\ v[i - 1] = more[1] BY <5>1, <2>1, <2>2, <2>t, <1>3
        <5>3. v[i].n = n /\ more[1].n = n BY <2>5, <4>2, <1>3
        <5>4. QED BY <5>1, <5>2, <5>3, <1>3
      <4>3. QED BY <4>1, <4>2
    <3>3. QED BY <3>1, <3>2 DEF InOrder
  <2>7. \A m \in (cursor + 1)..n : m \in skipped \/ \E i \in 1..Len(v) : Datum(v, i, m)
    <3>1. ASSUME NEW m \in (cursor + 1)..n, m \notin skipped
          PROVE  \E i \in 1..Len(v) : Datum(v, i, m)
      <4>1. CASE m = n BY <4>1, <2>2, <1>3 DEF Datum
      <4>2. CASE m # n
        <5>1. m \in (cursor + 1)..server.log BY <3>1, <4>2 DEF FeedTyped
        <5>2. PICK i \in 1..Len(w) : Datum(w, i, m) BY <2>1, <3>1, <5>1
        <5>3. i \in 1..Len(v) /\ Datum(v, i, m) BY <2>1, <2>2, <5>2 DEF Datum
        <5>4. QED BY <5>3
      <4>3. QED BY <4>1, <4>2
    <3>2. QED BY <3>1
  <2>8. cursor <= n BY <2>t DEF FeedTyped, FeedFits
  <2>9. QED BY <1>1, <1>4, <2>4, <2>5, <2>6, <2>7, <2>8 DEF FeedFits
<1>7. QED BY <1>5, <1>6

\* A line is read.
LEMMA FeedReads ==
    ASSUME FeedTyped, FeedFits, C!ReadLine, bounds.client = "mac" PROVE FeedTyped' /\ FeedFits'
<1> DEFINE w == feed.wire
           l == Head(w)
           v == Tail(w)
           p == IF l.kind = "id" THEN l.n ELSE feed.pending
<1>1. /\ feed.at = "open" /\ w # <<>> /\ UNCHANGED <<server, skipped>>
      /\ feed' = [feed EXCEPT !.wire = v, !.pending = p]
      /\ cursor' = IF l.kind = "data" THEN C!Max({cursor, feed.pending}) ELSE cursor
      /\ told' = IF l.kind = "data" THEN told \union {l.n} ELSE told
  BY DEF C!ReadLine, C!Consume, C!Mac
<1>2. /\ w \in Seq(Line) /\ InOrder(w, feed.pending) /\ Len(w) > 0
      /\ \A i \in 1..Len(w) : w[i].n <= server.log
      /\ \A m \in (cursor + 1)..server.log : m \in skipped \/ \E i \in 1..Len(w) : Datum(w, i, m)
      /\ feed.pending \in Nat /\ cursor \in Nat /\ server.log \in Nat /\ cursor <= server.log
  BY <1>1 DEF FeedTyped, FeedFits
<1>3. /\ l = w[1] /\ l \in Line /\ v \in Seq(Line) /\ Len(v) = Len(w) - 1
      /\ \A i \in 1..Len(v) : v[i] = w[i + 1] /\ i + 1 \in 1..Len(w)
      /\ 1 \in 1..Len(w)
      /\ \A i \in 1..Len(w) : i = 1 \/ (i - 1 \in 1..Len(v) /\ v[i - 1] = w[i])
  BY <1>1, <1>2
<1>4. p \in Nat BY <1>2, <1>3 DEF Line
<1>5. C!Max({cursor, feed.pending}) = IF cursor >= feed.pending THEN cursor ELSE feed.pending
  BY <1>2, MinMax
<1> HIDE DEF l, v, p
<1>6. /\ feed'.at = "open" /\ feed'.pending = p /\ feed'.wire = v
      /\ cursor' \in Nat /\ FeedTyped'
  BY <1>1, <1>2, <1>3, <1>4, <1>5 DEF FeedTyped
<1>7. l.kind \in {"id", "data"} /\ l.n \in Nat /\ l.n <= server.log
      /\ \A i \in 1..Len(w) : w[i].n \in Nat
  <2>1. \A i \in 1..Len(w) : w[i] \in Line BY <1>2
  <2>2. \A i \in 1..Len(w) : w[i].kind \in {"id", "data"} /\ w[i].n \in Nat BY <2>1 DEF Line
  <2>3. QED BY <2>2, <1>2, <1>3
<1>8. l.kind = "data" => l.n = feed.pending BY <1>2, <1>3 DEF InOrder
<1>9. InOrder(v, p)
  <2>1. \A i, j \in 1..Len(v) : i <= j => v[i].n <= v[j].n
    <3>1. ASSUME NEW i \in 1..Len(v), NEW j \in 1..Len(v), i <= j PROVE v[i].n <= v[j].n
      <4>1. i + 1 \in 1..Len(w) /\ j + 1 \in 1..Len(w) /\ i + 1 <= j + 1
        BY <3>1, <1>3
      <4>2. QED BY <4>1, <1>2, <1>3 DEF InOrder
    <3>2. QED BY <3>1
  <2>2. ASSUME NEW i \in 1..Len(v), v[i].kind = "data"
        PROVE  IF i = 1 THEN v[i].n = p ELSE v[i - 1].n = v[i].n /\ v[i - 1].kind = "id"
    <3>1. i + 1 \in 1..Len(w) /\ i + 1 # 1 /\ w[i + 1].kind = "data" /\ (i + 1) - 1 = i
      BY <2>2, <1>2, <1>3
    <3>2. w[i].n = w[i + 1].n /\ w[i].kind = "id" BY <3>1, <1>2 DEF InOrder
    <3>3. i # 1 => i - 1 \in 1..Len(v) /\ v[i - 1] = w[i]
      <4>1. Len(w) \in Nat /\ i \in 1..Len(w) BY <1>2, <1>3
      <4>2. QED BY <4>1, <1>3
    <3>4. i = 1 => l.kind = "id" /\ p = l.n BY <3>2, <1>3 DEF p
    <3>5. QED BY <3>2, <3>3, <3>4, <1>3
  <2>3. QED BY <2>1, <2>2 DEF InOrder
<1>10. \A i \in 1..Len(v) : v[i].n <= server.log BY <1>2, <1>3
<1>11. CASE l.kind = "id"
  <2>1. UNCHANGED <<cursor, told>> BY <1>1, <1>11
  <2>2. \A m \in (cursor + 1)..server.log : m \in skipped \/ \E i \in 1..Len(v) : Datum(v, i, m)
    <3>1. ASSUME NEW m \in (cursor + 1)..server.log, m \notin skipped
          PROVE  \E i \in 1..Len(v) : Datum(v, i, m)
      <4>1. PICK i \in 1..Len(w) : Datum(w, i, m) BY <1>2, <3>1
      <4>2. i # 1 BY <4>1, <1>3, <1>11 DEF Datum
      <4>3. QED BY <4>1, <4>2, <1>3 DEF Datum
    <3>2. QED BY <3>1
  <2>3. QED BY <1>1, <1>2, <1>6, <1>9, <1>10, <2>1, <2>2 DEF FeedFits
<1>12. CASE l.kind = "data"
  <2>1. l.n = feed.pending /\ told' = told \union {l.n} BY <1>1, <1>8, <1>12
  <2>2. cursor' = IF cursor >= l.n THEN cursor ELSE l.n BY <1>1, <1>5, <1>12, <2>1
  <2>3. \A i \in 1..Len(w) : l.n <= w[i].n BY <1>2, <1>3 DEF InOrder
  <2>4. \A m \in (cursor + 1)..l.n : m \in skipped \/ m = l.n
    <3>1. ASSUME NEW m \in (cursor + 1)..l.n, m \notin skipped PROVE m = l.n
      <4>1. m \in (cursor + 1)..server.log BY <3>1, <1>2, <1>7
      <4>2. PICK i \in 1..Len(w) : Datum(w, i, m) BY <1>2, <3>1, <4>1
      <4>3. l.n <= m BY <4>2, <2>3 DEF Datum
      <4>4. QED BY <4>3, <3>1, <1>7, <1>2
    <3>2. QED BY <3>1
  <2>5. \A m \in 1..cursor' : m \in told' \union skipped
    <3>1. ASSUME NEW m \in 1..cursor' PROVE m \in told' \union skipped
      <4>1. m \in 1..cursor \/ m \in (cursor + 1)..l.n BY <2>2, <1>2, <1>7
      <4>2. QED BY <4>1, <2>1, <2>4 DEF FeedFits
    <3>2. QED BY <3>1
  <2>6. cursor' <= server.log BY <2>2, <1>2, <1>7
  <2>7. \A m \in (cursor' + 1)..server.log : m \in skipped \/ \E i \in 1..Len(v) : Datum(v, i, m)
    <3>1. ASSUME NEW m \in (cursor' + 1)..server.log, m \notin skipped
          PROVE  \E i \in 1..Len(v) : Datum(v, i, m)
      <4>1. m \in (cursor + 1)..server.log /\ m # l.n BY <3>1, <2>2, <1>2, <1>7
      <4>2. PICK i \in 1..Len(w) : Datum(w, i, m) BY <1>2, <3>1, <4>1
      <4>3. i # 1 BY <4>1, <4>2, <1>3 DEF Datum
      <4>4. QED BY <4>2, <4>3, <1>3 DEF Datum
    <3>2. QED BY <3>1
  <2>8. QED BY <1>1, <1>2, <1>6, <1>9, <1>10, <2>5, <2>6, <2>7 DEF FeedFits
<1>13. QED BY <1>7, <1>11, <1>12

\* The stream is closed, or was.
LEMMA FeedCloses ==
    ASSUME FeedTyped, FeedFits, UNCHANGED <<told, skipped>>,
           server' \in [log : Nat, up : BOOLEAN, cuts : Nat, outages : Nat],
           server'.log = server.log, cursor' \in {cursor, 0},
           feed' = feed \/ (feed'.at # "open" /\
               feed' \in [at : {"none", "probing", "waiting", "open"}, pending : Nat, wire : Seq(Line)]),
           feed.at = "open" /\ feed' = feed => cursor' = cursor
    PROVE  FeedTyped' /\ FeedFits'
<1>1. FeedTyped' BY DEF FeedTyped
<1>2. cursor' <= server'.log /\ \A m \in 1..cursor' : m \in told \union skipped
  BY DEF FeedTyped, FeedFits
<1>3. CASE feed'.at # "open" BY <1>1, <1>2, <1>3 DEF FeedFits
<1>4. CASE feed'.at = "open" BY <1>1, <1>2, <1>4 DEF FeedFits
<1>5. QED BY <1>3, <1>4

LEMMA FeedNext ==
    ASSUME FeedTyped, FeedFits, Limit \in Nat, bounds.client = "mac", [C!Next]_(C!vars)
    PROVE  FeedTyped' /\ FeedFits'
<1>t. /\ server \in [log : Nat, up : BOOLEAN, cuts : Nat, outages : Nat]
      /\ feed \in [at : {"none", "probing", "waiting", "open"}, pending : Nat, wire : Seq(Line)]
  BY DEF FeedTyped
<1>c. \A at \in {"none", "waiting"} :
         /\ [C!Closed EXCEPT !.at = at] \in
               [at : {"none", "probing", "waiting", "open"}, pending : Nat, wire : Seq(Line)]
         /\ [C!Closed EXCEPT !.at = at].at = at
  BY ClosedFits
<1>d. /\ C!Closed \in [at : {"none", "probing", "waiting", "open"}, pending : Nat, wire : Seq(Line)]
      /\ C!Closed.at = "waiting"
  <2>1. <<>> \in Seq(Line) OBVIOUS
  <2>2. QED BY <2>1 DEF C!Closed
<1>1. CASE C!AppendEvent BY <1>1, FeedAppends
<1>2. CASE C!ReadLine BY <1>2, FeedReads
<1>3. CASE C!ConnectMac
  <2>1. CASE server.up BY <1>3, <2>1, Subscribes DEF C!ConnectMac
  <2>2. CASE ~server.up
    <3>1. UNCHANGED <<server, feed, cursor, told, skipped>> BY <1>3, <2>2 DEF C!ConnectMac
    <3>2. QED BY <3>1, <1>t, FeedCloses
  <2>3. QED BY <2>1, <2>2
<1>4. CASE C!GoDown \/ C!ComeBack \/ C!CutStream
  <2>1. /\ server' \in [log : Nat, up : BOOLEAN, cuts : Nat, outages : Nat]
        /\ server'.log = server.log
    <3>1. CASE C!GoDown
      <4>1. server' = [server EXCEPT !.up = FALSE, !.outages = server.outages + 1]
        BY <3>1 DEF C!GoDown
      <4>2. server.outages + 1 \in Nat BY <1>t
      <4>3. QED BY <4>1, <4>2, <1>t
    <3>2. CASE C!ComeBack BY <1>t, <3>2 DEF C!ComeBack
    <3>3. CASE C!CutStream BY <1>t, <3>3 DEF C!CutStream
    <3>4. QED BY <1>4, <3>1, <3>2, <3>3
  <2>2. UNCHANGED <<cursor, told, skipped>> /\ feed' \in {feed, C!Closed}
    BY <1>4 DEF C!GoDown, C!ComeBack, C!CutStream, C!Dropped
  <2>3. QED BY <2>1, <2>2, <1>d, FeedCloses
<1>5. CASE C!ProbeWeb \/ C!ConnectWeb BY <1>5 DEF C!ProbeWeb, C!ConnectWeb, C!Web
<1>6. CASE C!Poll \/ C!EventRefresh \/ C!Kick \/ C!Reads \/ C!Lands \/ C!Fails \/ UNCHANGED C!vars
  <2>1. UNCHANGED <<server, feed, cursor, told, skipped>>
    BY <1>6 DEF C!Poll, C!EventRefresh, C!Kick, C!Reads, C!Lands, C!Fails, C!Read, C!Land, C!Fail, C!vars
  <2>2. QED BY <2>1, <1>t, FeedCloses
<1>7. CASE C!Configure \/ C!SetConnectionMode \/ C!ClearCredentials \/ C!Relaunch
  <2>1. UNCHANGED <<server, told, skipped>> /\ cursor' \in {cursor, 0}
        /\ \E at \in {"none", "waiting"} : feed' = [C!Closed EXCEPT !.at = at]
    BY <1>7 DEF C!Configure, C!SetConnectionMode, C!ClearCredentials, C!Relaunch, C!Settings
  <2>2. QED BY <2>1, <1>c, <1>t, FeedCloses
<1>8. QED BY <1>1, <1>2, <1>3, <1>4, <1>5, <1>6, <1>7 DEF C!Next

LEMMA ClientStays == [C!Next]_(C!vars) => UNCHANGED bounds
BY DEF C!Next, C!vars, C!AppendEvent, C!GoDown, C!ComeBack, C!CutStream, C!ConnectMac, C!ProbeWeb,
       C!ConnectWeb, C!ReadLine, C!Poll, C!EventRefresh, C!Kick, C!Reads, C!Lands, C!Fails,
       C!Read, C!Land, C!Fail, C!Configure, C!SetConnectionMode, C!ClearCredentials, C!Relaunch,
       C!Settings

\* The Mac is the client that has a durable number.
Following == bounds.client = "mac" => FeedTyped /\ FeedFits

LEMMA FeedFitsServe == Following => C!FeedSkipsNothing
BY DEF Following, FeedFits, C!FeedSkipsNothing, C!Mac

LEMMA FollowingStays ==
    ASSUME Following, [C!Next]_(C!vars)
    PROVE  Following'
<1>1. UNCHANGED bounds BY ClientStays
<1>2. QED BY <1>1, FeedNext, LimitAssumption DEF Following

\* The durable number of the Mac never passes an event that it was not handed
\* and that no replay's limit cut off.
THEOREM NothingIsSkipped == EdgesSpec => []FeedSkipsNothing
<1> DEFINE Invariant == part = "screens" => Following
<1>1. EdgesInit => Invariant BY EdgesStart, FeedInit DEF Following
<1>2. Invariant /\ [EdgesNext]_edgesVars => Invariant' BY EdgesMove, FollowingStays
<1>3. Invariant => FeedSkipsNothing BY FeedFitsServe DEF FeedSkipsNothing
<1> HIDE DEF Invariant
<1>4. QED BY <1>1, <1>2, <1>3, PTL DEF EdgesSpec

-----------------------------------------------------------------------------
(* MissionBranch: what is on GitHub of a mission.                           *)

Preparing == {"ignore", "lookup", "compose", "merge_base", "add", "checkout", "added"}
Scanned == {"checks", "clean", "commit", "committed", "push", "list", "create", "reopen", "edit", "published"}
Pushed == {"list", "create", "reopen", "edit", "published"}
Committing == Pushed \union {"committed", "push"}
Pcs == Preparing \union Scanned \union
       {"idle", "author", "diff", "status", "review_diff", "review", "cleanup", "cleaned"}
Approved == {"integrated", "completed"}
HandedOver == Approved \union {"review_required"}
MissionRow == [state : HandedOver \union {"ready", "assigned", "running", "validating", "blocked", "failed"},
               baseline : {M!Absent, M!Dependency}, attempts : Nat]
Coroutine == [pc : Pcs, generation : Nat, baseline : {M!Absent, M!Dependency},
              scan : SUBSET Nat, seen : SUBSET Nat]
Changes == [by : {"dependency", "author", "check", "stray"}, allowed : BOOLEAN]
PullRequest == [state : {"none", "draft", "closed", "merged"}, merged : SUBSET Nat, early : BOOLEAN]
Copy(b) == b = M!Absent \/ (1 \in b /\ b \subseteq 1..Len(origin))

Mine == M!Made({"author"})
Strays == M!Made({"stray"})

\* The types of MissionBranch.
BranchTyped ==
    /\ mission \in MissionRow
    /\ gate \in [up : BOOLEAN, paused : BOOLEAN, generation : Nat, crashes : Nat]
    /\ flow \in [M!Slots -> Coroutine]
    /\ origin \in Seq(Changes) /\ Len(origin) >= 1 /\ origin[1].by = "dependency"
    /\ pull \in PullRequest /\ pull.merged \subseteq 0..Len(origin)
    /\ Copy(tree) /\ Copy(branch) /\ Copy(remote)
    /\ scanned \subseteq Nat

\* The mission's state while an unfenced coroutine is at an await.
StateAt(pc) ==
    IF pc \in Preparing THEN "assigned" ELSE IF pc = "author" THEN "running"
    ELSE IF pc \in Scanned \union {"diff", "status"} THEN "validating"
    ELSE IF pc \in {"review_diff", "review"} THEN "review_required" ELSE "integrated"

\* A coroutine that goes on after its await.
Awake(k) == flow[k].pc # "idle" /\ flow[k].generation = gate.generation

\* A coroutine, fenced or not: past the preparation it has a baseline and there is a
\* branch, whose author's changes were scanned when it is about to be pushed.
SlotFits(k) ==
    /\ flow[k].pc # "idle" =>
         /\ gate.up /\ flow[k].generation <= gate.generation
         /\ gate.paused => flow[k].generation # gate.generation
    /\ 1 \notin flow[k].scan
    /\ flow[k].baseline = M!Dependency => mission.baseline = M!Dependency
    /\ flow[k].pc \notin {"idle", "ignore", "lookup", "compose", "merge_base"} =>
         flow[k].baseline = M!Dependency
    /\ flow[k].pc \notin {"idle", "ignore", "lookup", "compose", "merge_base", "add"} =>
         branch # M!Absent
    /\ flow[k].pc = "push" => raced \/ branch \intersect Mine \subseteq scanned

\* A coroutine that goes on: the mission is in its state, and what it scanned, pushed
\* and reviewed is what there is.
AwakeFits(k) ==
    Awake(k) =>
      /\ mission.state = StateAt(flow[k].pc)
      /\ flow[k].pc \in Preparing =>
           /\ flow[k].baseline = mission.baseline
           /\ flow[k].pc # "merge_base"
           /\ flow[k].pc = "compose" => flow[k].baseline = M!Absent
      /\ flow[k].pc = "status" => raced \/ branch \intersect Mine \subseteq flow[k].scan
      /\ flow[k].pc \in Scanned =>
           /\ flow[k].scan \subseteq scanned
           /\ raced \/ (tree \union branch) \intersect Mine \subseteq flow[k].scan
      /\ flow[k].pc \in Pushed => raced \/ branch \intersect Mine \subseteq remote
      /\ flow[k].pc = "review" => branch \subseteq flow[k].seen \union Strays

\* Two coroutines: one of them goes on; what the other one still commits was scanned
\* before a push, and after the first one's own commit is a stray's.
PairFits(j, k) ==
    /\ ~(Awake(j) /\ Awake(k))
    /\ flow[k].pc = "push" /\ flow[j].pc = "commit" => raced \/ tree \intersect Mine \subseteq scanned
    /\ Awake(k) /\ flow[k].pc \in Committing /\ flow[j].pc = "commit" =>
         tree \ branch \subseteq Strays \union {0}
    /\ mission.state \in HandedOver => ~(flow[j].pc = "commit" /\ flow[k].pc = "checks")

\* The mission: there is a branch once an author has run, what was pushed was scanned,
\* and what is handed over changes by a stray's work only.
MissionFits ==
    /\ branch # M!Absent => mission.baseline = M!Dependency
    /\ branch = M!Absent => base \subseteq M!Dependency /\ tree = M!Absent /\ pull.state = "none"
    /\ mission.state \in HandedOver \union {"running", "validating"} => branch # M!Absent
    /\ 1 \notin scanned
    /\ remote = M!Absent \/ raced \/ remote \intersect Mine \subseteq scanned
    /\ mission.state \in HandedOver =>
         /\ raced \/ branch \intersect Mine \subseteq remote
         /\ \A j \in M!Slots : flow[j].pc = "commit" => tree \ branch \subseteq Strays \union {0}
    /\ mission.state \in Approved => branch \subseteq reviewed \union Strays
    /\ pull.state = "merged" /\ ~pull.early =>
         mission.state = "completed" /\ (raced \/ branch \intersect Mine \subseteq pull.merged)

BranchFits ==
    /\ MissionFits
    /\ \A k \in M!Slots : SlotFits(k) /\ AwakeFits(k)
    /\ \A j, k \in M!Slots : j # k => PairFits(j, k)

Gates == [up : BOOLEAN, paused : BOOLEAN, generation : Nat, crashes : Nat]

LEMMA MadeFits ==
    ASSUME BranchTyped
    PROVE  /\ Len(origin) \in Nat /\ Mine \subseteq 1..Len(origin) /\ Strays \subseteq 1..Len(origin)
           /\ Mine \intersect Strays = {} /\ 1 \notin Mine /\ 0 \notin Mine
BY DEF Mine, Strays, M!Made, BranchTyped

LEMMA MadeStays == origin' = origin => Mine' = Mine /\ Strays' = Strays
BY DEF Mine, Strays, M!Made

LEMMA MadeGrows ==
    ASSUME BranchTyped, NEW by \in {"author", "check", "stray"}, NEW allowed \in BOOLEAN,
           origin' = Append(origin, [by |-> by, allowed |-> allowed])
    PROVE  /\ origin' \in Seq(Changes) /\ Len(origin') = Len(origin) + 1 /\ origin'[1] = origin[1]
           /\ Mine' = IF by = "author" THEN Mine \union {Len(origin) + 1} ELSE Mine
           /\ Strays' = IF by = "stray" THEN Strays \union {Len(origin) + 1} ELSE Strays
<1> DEFINE x == [by |-> by, allowed |-> allowed]
<1>1. x \in Changes /\ x.by = by BY DEF Changes
<1>2. origin \in Seq(Changes) /\ Len(origin) >= 1 /\ Len(origin) \in Nat BY DEF BranchTyped
<1> HIDE DEF x
<1>3. /\ origin' \in Seq(Changes) /\ Len(origin') = Len(origin) + 1
      /\ \A i \in 1..Len(origin) : origin'[i] = origin[i]
      /\ origin'[Len(origin) + 1] = x
  BY <1>1, <1>2 DEF x
<1>4. 1..Len(origin') = 1..Len(origin) \union {Len(origin) + 1} BY <1>2, <1>3
<1>5. \A S : M!Made(S)' = IF by \in S THEN M!Made(S) \union {Len(origin) + 1} ELSE M!Made(S)
  BY <1>1, <1>3, <1>4 DEF M!Made
<1>6. 1 \in 1..Len(origin) BY <1>2
<1>7. QED BY <1>3, <1>5, <1>6 DEF Mine, Strays

\* The facts about one coroutine that a step of it starts from.
LEMMA SlotTyped ==
    ASSUME BranchTyped, BranchFits, NEW k \in M!Slots
    PROVE  /\ flow[k] \in Coroutine /\ SlotFits(k) /\ AwakeFits(k)
           /\ flow[k].pc # "idle" => (M!Fenced(k) <=> ~Awake(k))
           /\ Awake(k) => /\ gate.up /\ ~gate.paused /\ mission.state = StateAt(flow[k].pc)
                          /\ \A j \in M!Slots : j # k => ~Awake(j)
BY DEF BranchTyped, BranchFits, SlotFits, AwakeFits, PairFits, Awake, M!Fenced, Gates

\* x is the coroutine k at pc.
Comes(k, pc, x) ==
    /\ flow' = [flow EXCEPT ![k] = x] /\ x.pc = pc /\ x.generation = flow[k].generation
    /\ x.baseline = flow[k].baseline /\ x.scan = flow[k].scan /\ x.seen = flow[k].seen

LEMMA GotoFits ==
    ASSUME BranchTyped, NEW k \in M!Slots, NEW pc \in Pcs, M!Goto(k, pc)
    PROVE  \E x \in Coroutine : Comes(k, pc, x)
<1> DEFINE y == [flow[k] EXCEPT !.pc = pc]
<1>1. flow[k] \in Coroutine /\ flow \in [M!Slots -> Coroutine] BY DEF BranchTyped
<1>2. /\ y \in Coroutine /\ y.pc = pc /\ y.generation = flow[k].generation
      /\ y.baseline = flow[k].baseline /\ y.scan = flow[k].scan /\ y.seen = flow[k].seen
  BY <1>1 DEF Coroutine
<1>3. flow' = [flow EXCEPT ![k] = y] BY <1>1 DEF M!Goto
<1> HIDE DEF y
<1>4. QED BY <1>2, <1>3 DEF Comes

LEMMA FreshFits ==
    ASSUME BranchTyped, NEW pc \in Pcs
    PROVE  /\ M!Fresh(pc) \in Coroutine /\ M!Fresh(pc).pc = pc
           /\ M!Fresh(pc).generation = gate.generation /\ M!Fresh(pc).baseline = mission.baseline
           /\ M!Fresh(pc).scan = {}
           /\ M!Idle \in Coroutine /\ M!Idle.pc = "idle" /\ M!Idle.scan = {}
           /\ M!Idle.baseline = M!Absent
BY DEF BranchTyped, M!Fresh, M!Idle, Coroutine, Gates, MissionRow, Pcs

LEMMA Distinct == M!Absent # M!Dependency /\ 1 \notin M!Absent /\ 0 \in M!Absent
                  /\ 1 \in M!Dependency /\ M!Slots = {1, 2}
<1>1. M!Absent = {0} /\ M!Dependency = {1} BY DEF M!Absent, M!Dependency
<1>2. 1 \in {1} /\ 1 \notin {0} /\ 0 \in {0} OBVIOUS
<1>3. \A i : i \in 1..2 <=> i = 1 \/ i = 2 OBVIOUS
<1>4. 1..2 = {1, 2} BY <1>3
<1>5. QED BY <1>1, <1>2, <1>4 DEF M!Slots

-----------------------------------------------------------------------------
\* What does not change, when the repository is left alone.
GateFits ==
    /\ gate' \in Gates /\ gate'.generation = gate.generation
    /\ gate.up => gate'.up
    /\ gate'.paused => gate.paused
RepositoryStays == UNCHANGED <<base, tree, branch, remote, pull, origin, scanned, reviewed, raced>>
Alone(k) == \A j \in M!Slots : j # k => ~Awake(j)

\* A step of one coroutine, the repository left alone.
LEMMA Proceeds ==
    ASSUME BranchTyped, BranchFits, NEW k \in M!Slots, NEW x \in Coroutine,
           flow' = [flow EXCEPT ![k] = x], GateFits,
           mission' \in MissionRow,
           mission.baseline = M!Dependency => mission'.baseline = M!Dependency,
           mission' = mission \/ Alone(k),
           UNCHANGED <<base, tree, branch, remote, origin, raced>>,
           pull' \in PullRequest, pull'.merged \subseteq 0..Len(origin),
           scanned \subseteq scanned', scanned' \subseteq Nat,
           SlotFits(k)', AwakeFits(k)', MissionFits',
           \A j \in M!Slots : j # k => PairFits(j, k)' /\ PairFits(k, j)'
    PROVE  BranchTyped' /\ BranchFits'
<1>1. /\ flow' \in [M!Slots -> Coroutine] /\ flow'[k] = x
      /\ \A j \in M!Slots : j # k => flow'[j] = flow[j]
  BY DEF BranchTyped
<1>2. BranchTyped' BY <1>1 DEF BranchTyped, GateFits, Gates, Copy
<1>3. Mine' = Mine /\ Strays' = Strays BY MadeStays
<1>4. ASSUME NEW j \in M!Slots, j # k PROVE SlotFits(j)' /\ AwakeFits(j)'
  <2>1. flow'[j] = flow[j] /\ SlotFits(j) /\ AwakeFits(j) /\ gate'.generation = gate.generation
    BY <1>1, <1>4 DEF BranchFits, GateFits
  <2>2. SlotFits(j)' BY <2>1, <1>3 DEF SlotFits, GateFits
  <2>3. Awake(j)' = Awake(j) BY <2>1 DEF Awake
  <2>4. AwakeFits(j)'
    <3>1. CASE mission' = mission BY <2>1, <2>3, <1>3, <3>1 DEF AwakeFits
    <3>2. CASE Alone(k) BY <2>3, <1>4, <3>2 DEF AwakeFits, Alone
    <3>3. QED BY <3>1, <3>2
  <2>5. QED BY <2>2, <2>4
<1>5. \A i, j \in M!Slots : i # j => i = k \/ j = k BY Distinct
<1>6. QED BY <1>2, <1>4, <1>5 DEF BranchFits

\* A coroutine ends and changes nothing.
LEMMA Retires ==
    ASSUME BranchTyped, BranchFits, NEW k \in M!Slots, flow' = [flow EXCEPT ![k] = M!Idle],
           UNCHANGED <<mission, gate>>, RepositoryStays
    PROVE  BranchTyped' /\ BranchFits'
<1>1. /\ M!Idle \in Coroutine /\ M!Idle.pc = "idle" /\ M!Idle.scan = {} /\ M!Idle.baseline = M!Absent
  BY FreshFits DEF Pcs
<1>2. flow'[k] = M!Idle /\ \A j \in M!Slots : j # k => flow'[j] = flow[j] BY DEF BranchTyped
<1>3. Mine' = Mine /\ Strays' = Strays BY MadeStays DEF RepositoryStays
<1>4. SlotFits(k)' /\ AwakeFits(k)' /\ ~Awake(k)'
  BY <1>1, <1>2, Distinct DEF SlotFits, AwakeFits, Awake
<1>5. ASSUME NEW j \in M!Slots, j # k PROVE PairFits(j, k)' /\ PairFits(k, j)'
  BY <1>1, <1>2, <1>4, <1>5 DEF PairFits
<1>6. \A j \in M!Slots : flow'[j].pc = "commit" => flow[j].pc = "commit" BY <1>1, <1>2
<1>7. MissionFits' BY <1>3, <1>6 DEF BranchFits, MissionFits, RepositoryStays
<1>8. GateFits BY DEF GateFits, BranchTyped, Gates
<1>9. QED BY <1>1, <1>4, <1>5, <1>7, <1>8, Proceeds DEF RepositoryStays, BranchTyped

\* The mission is somewhere before its review: a coroutine is prepared, runs an
\* author, reads the first diff, or has ended.
LEMMA Restarts ==
    ASSUME BranchTyped, BranchFits, NEW k \in M!Slots, NEW x \in Coroutine,
           flow' = [flow EXCEPT ![k] = x], GateFits, gate'.up, RepositoryStays, Alone(k),
           mission' \in MissionRow, mission'.state \notin HandedOver, mission.state # "completed",
           mission.baseline = M!Dependency => mission'.baseline = M!Dependency,
           mission'.state \in {"running", "validating"} => branch # M!Absent,
           x.pc \in Preparing \union {"idle", "author", "diff"},
           x.pc # "idle" => /\ x.generation = gate.generation /\ ~gate'.paused
                            /\ mission'.state = StateAt(x.pc),
           1 \notin x.scan,
           x.baseline = M!Dependency => mission'.baseline = M!Dependency,
           x.pc \in Preparing => /\ x.baseline = mission'.baseline /\ x.pc # "merge_base"
                                 /\ x.pc = "compose" => x.baseline = M!Absent,
           x.pc \notin {"idle", "ignore", "lookup", "compose"} => x.baseline = M!Dependency,
           x.pc \notin {"idle", "ignore", "lookup", "compose", "add"} => branch # M!Absent
    PROVE  BranchTyped' /\ BranchFits'
<1>2. flow'[k] = x /\ \A j \in M!Slots : j # k => flow'[j] = flow[j] BY DEF BranchTyped
<1>3. Mine' = Mine /\ Strays' = Strays BY MadeStays DEF RepositoryStays
<1>4. UNCHANGED <<base, tree, branch, remote, pull, origin, scanned, reviewed, raced>>
  BY DEF RepositoryStays
<1>5. gate'.generation = gate.generation /\ gate.generation \in Nat BY DEF GateFits, BranchTyped, Gates
<1>6. SlotFits(k)' BY <1>2, <1>4, <1>5 DEF SlotFits, Preparing
<1>7. AwakeFits(k)'
  BY <1>2, <1>4, <1>5 DEF AwakeFits, Awake, Preparing, Scanned, Pushed
<1>8. ASSUME NEW j \in M!Slots, j # k PROVE PairFits(j, k)' /\ PairFits(k, j)'
  <2>1. ~Awake(j)' BY <1>2, <1>5, <1>8 DEF Alone, Awake
  <2>2. QED BY <1>2, <2>1 DEF PairFits, Preparing, Committing, Pushed
<1>9. MissionFits' BY <1>3, <1>4 DEF BranchFits, MissionFits, HandedOver, Approved
<1>10. QED BY <1>4, <1>6, <1>7, <1>8, <1>9, Proceeds DEF BranchTyped

\* failValidation and a mission that waits for a user.
LEMMA Corrects ==
    ASSUME BranchTyped, BranchFits, NEW k \in M!Slots, M!Correct(k) \/ M!Blocked(k),
           GateFits, gate'.up, ~gate'.paused, RepositoryStays, Alone(k),
           mission.state # "completed"
    PROVE  BranchTyped' /\ BranchFits'
<1>1. mission \in MissionRow BY DEF BranchTyped
<1>2. PICK s \in {"assigned", "blocked", "failed"} :
        /\ mission' \in MissionRow /\ mission'.state = s /\ mission'.baseline = mission.baseline
        /\ flow' = [flow EXCEPT ![k] = IF s = "assigned" THEN M!Fresh("ignore") ELSE M!Idle]
  <2>1. CASE M!Blocked(k)
    <3>1. mission' = [mission EXCEPT !.state = "blocked"] /\ flow' = [flow EXCEPT ![k] = M!Idle]
      BY <2>1 DEF M!Blocked
    <3>2. QED BY <1>1, <3>1 DEF MissionRow, HandedOver, Approved
  <2>2. CASE M!Correct(k) /\ mission.attempts < bounds.attempts
    <3>1. /\ mission' = [mission EXCEPT !.state = "assigned", !.attempts = mission.attempts + 1]
          /\ flow' = [flow EXCEPT ![k] = M!Fresh("ignore")]
      BY <2>2 DEF M!Correct, M!Starts
    <3>2. mission.attempts + 1 \in Nat BY <1>1 DEF MissionRow
    <3>3. QED BY <1>1, <3>1, <3>2 DEF MissionRow
  <2>3. CASE M!Correct(k) /\ ~(mission.attempts < bounds.attempts)
    <3>1. mission' = [mission EXCEPT !.state = "failed"] /\ flow' = [flow EXCEPT ![k] = M!Idle]
      BY <2>3 DEF M!Correct
    <3>2. QED BY <1>1, <3>1 DEF MissionRow, HandedOver, Approved
  <2>4. QED BY <2>1, <2>2, <2>3
<1> DEFINE x == IF s = "assigned" THEN M!Fresh("ignore") ELSE M!Idle
<1>3. /\ x \in Coroutine /\ x.pc = IF s = "assigned" THEN "ignore" ELSE "idle"
      /\ x.scan = {}
      /\ x.baseline = IF s = "assigned" THEN mission.baseline ELSE M!Absent
      /\ s = "assigned" => x.generation = gate.generation
  BY FreshFits DEF Pcs, Preparing
<1> HIDE DEF x
<1>4. flow' = [flow EXCEPT ![k] = x] BY <1>2 DEF x
<1>5. QED BY <1>2, <1>3, <1>4, Restarts, Distinct DEF Preparing, HandedOver, Approved, StateAt

LEMMA BranchInit == M!Init => BranchTyped /\ BranchFits
<1> SUFFICES ASSUME M!Init PROVE BranchTyped /\ BranchFits OBVIOUS
<1>1. /\ M!Idle \in Coroutine /\ M!Idle.pc = "idle" /\ M!Idle.scan = {} /\ M!Idle.baseline = M!Absent
  BY DEF M!Idle, Coroutine, Pcs
<1>2. \A k \in M!Slots : flow[k] = M!Idle BY DEF M!Init
<1>3. BranchTyped
  <2>1. mission \in MissionRow BY DEF M!Init, MissionRow
  <2>2. gate \in [up : BOOLEAN, paused : BOOLEAN, generation : Nat, crashes : Nat] BY DEF M!Init
  <2>3. flow \in [M!Slots -> Coroutine] BY <1>1 DEF M!Init
  <2> DEFINE x == [by |-> "dependency", allowed |-> TRUE]
  <2>4. x \in Changes /\ x.by = "dependency" BY DEF Changes
  <2>5. origin = <<x>> BY DEF M!Init
  <2> HIDE DEF x
  <2>6. origin \in Seq(Changes) /\ Len(origin) = 1 /\ origin[1] = x BY <2>4, <2>5
  <2>7. pull \in PullRequest /\ pull.merged = {} BY DEF M!Init, PullRequest
  <2>8. tree = M!Absent /\ branch = M!Absent /\ remote = M!Absent /\ scanned = {} BY DEF M!Init
  <2>9. QED BY <2>1, <2>2, <2>3, <2>4, <2>6, <2>7, <2>8 DEF BranchTyped, Copy
<1>4. \A k \in M!Slots : SlotFits(k) /\ AwakeFits(k)
  BY <1>1, <1>2, Distinct DEF SlotFits, AwakeFits, Awake
<1>5. \A j, k \in M!Slots : PairFits(j, k) BY <1>1, <1>2 DEF PairFits, Awake
<1>6. MissionFits
  <2>1. mission.state = "ready" BY DEF M!Init
  <2>2. \A k \in M!Slots : flow[k].pc = "idle" BY <1>1, <1>2
  <2>3. QED BY <2>1, <2>2 DEF M!Init, MissionFits, HandedOver, Approved
<1>7. QED BY <1>3, <1>4, <1>5, <1>6 DEF BranchFits

\* A coroutine goes on, fenced or not, and only it changes.
LEMMA Turns ==
    ASSUME BranchTyped, BranchFits, NEW k \in M!Slots, NEW x \in Coroutine,
           flow' = [flow EXCEPT ![k] = x], UNCHANGED <<mission, gate>>, RepositoryStays,
           flow[k].pc # "idle", x.generation = flow[k].generation,
           x.pc \notin {"commit", "push", "checks"},
           x.pc \in Committing => flow[k].pc \in Committing,
           SlotFits(k)', AwakeFits(k)'
    PROVE  BranchTyped' /\ BranchFits'
<1>1. flow'[k] = x /\ \A j \in M!Slots : j # k => flow'[j] = flow[j] BY DEF BranchTyped
<1>2. Mine' = Mine /\ Strays' = Strays BY MadeStays DEF RepositoryStays
<1>3. GateFits BY DEF GateFits, BranchTyped, Gates
<1>4. UNCHANGED <<base, tree, branch, remote, pull, origin, scanned, reviewed, raced>>
  BY DEF RepositoryStays
<1>5. ASSUME NEW j \in M!Slots, j # k PROVE PairFits(j, k)' /\ PairFits(k, j)'
  <2>1. PairFits(j, k) /\ PairFits(k, j) BY <1>5 DEF BranchFits
  <2>2. flow'[j] = flow[j] /\ flow'[k] = x BY <1>1, <1>5
  <2>3. Awake(j)' = Awake(j) /\ (Awake(k)' => Awake(k)) BY <2>2 DEF Awake
  <2>4. QED BY <1>2, <1>4, <2>1, <2>2, <2>3 DEF PairFits
<1>6. \A j \in M!Slots : flow'[j].pc = "commit" => flow[j].pc = "commit" BY <1>1
<1>7. MissionFits' BY <1>2, <1>4, <1>6 DEF BranchFits, MissionFits
<1>8. QED BY <1>3, <1>4, <1>5, <1>7, Proceeds DEF BranchTyped

\* Nobody goes on: what may change is whether the mission waits to start again.
LEMMA Stands ==
    ASSUME BranchTyped, BranchFits, UNCHANGED flow, RepositoryStays, gate' \in Gates,
           \A j \in M!Slots : flow[j].pc # "idle" =>
               gate'.up /\ flow[j].generation < gate'.generation,
           mission' \in MissionRow, mission'.baseline = mission.baseline,
           \/ mission'.state = mission.state
           \/ mission'.state = "ready" /\ mission.state # "completed"
    PROVE  BranchTyped' /\ BranchFits'
<1>1. Mine' = Mine /\ Strays' = Strays BY MadeStays DEF RepositoryStays
<1>2. UNCHANGED <<base, tree, branch, remote, pull, origin, scanned, reviewed, raced>>
  BY DEF RepositoryStays
<1>3. BranchTyped' BY <1>2 DEF BranchTyped, Gates, Copy
<1>4. \A j \in M!Slots : flow[j].generation \in Nat BY DEF BranchTyped, Coroutine
<1>5. gate'.generation \in Nat BY DEF Gates
<1>6. \A j \in M!Slots : ~Awake(j)' BY <1>4, <1>5 DEF Awake
<1>7. \A j \in M!Slots : SlotFits(j)'
  BY <1>1, <1>2, <1>4, <1>5 DEF BranchFits, SlotFits
<1>8. \A j \in M!Slots : AwakeFits(j)' BY <1>6 DEF AwakeFits
<1>9. mission'.state \in HandedOver => mission.state \in HandedOver
  BY DEF HandedOver, Approved
<1>10. \A i, j \in M!Slots : i # j => PairFits(i, j)'
  BY <1>1, <1>2, <1>6, <1>9 DEF BranchFits, PairFits
<1>11. MissionFits'
  BY <1>1, <1>2, <1>9 DEF BranchFits, MissionFits, HandedOver, Approved
<1>12. QED BY <1>3, <1>7, <1>8, <1>10, <1>11 DEF BranchFits

-----------------------------------------------------------------------------
(* The steps of a coroutine                                                 *)

\* Steps that leave the repository alone.
Quiet == UNCHANGED gate /\ RepositoryStays

\* A coroutine that is not fenced is the only one that goes on.
LEMMA Unfenced ==
    ASSUME BranchTyped, BranchFits, NEW k \in M!Slots, flow[k].pc # "idle", ~M!Fenced(k), UNCHANGED gate
    PROVE  /\ Awake(k) /\ SlotFits(k) /\ AwakeFits(k) /\ Alone(k)
           /\ mission.state = StateAt(flow[k].pc) /\ mission.state # "completed"
           /\ GateFits /\ gate'.up /\ ~gate'.paused
<1>1. Awake(k) /\ gate.up /\ ~gate.paused /\ mission.state = StateAt(flow[k].pc) /\ Alone(k)
  BY SlotTyped DEF Alone
<1>2. GateFits BY DEF GateFits, BranchTyped, Gates
<1>3. mission.state # "completed" BY <1>1 DEF StateAt
<1>4. SlotFits(k) /\ AwakeFits(k) BY DEF BranchFits
<1>5. QED BY <1>1, <1>2, <1>3, <1>4

\* A fenced one ends.
LEMMA Fences ==
    ASSUME BranchTyped, BranchFits, NEW k \in M!Slots, M!Ends(k), Quiet
    PROVE  BranchTyped' /\ BranchFits'
BY Retires DEF M!Ends, Quiet

LEMMA ScheduleFits ==
    ASSUME BranchTyped, BranchFits, NEW k \in M!Slots, M!Schedule(k)
    PROVE  BranchTyped' /\ BranchFits'
<1>1. /\ gate.up /\ ~gate.paused /\ mission.state = "ready" /\ flow[k].pc = "idle"
      /\ mission' = [mission EXCEPT !.state = "assigned"]
      /\ UNCHANGED gate /\ RepositoryStays
  BY DEF M!Schedule, M!At, M!git, M!past, RepositoryStays
<1>2. PICK x \in Coroutine :
        /\ flow' = [flow EXCEPT ![k] = x] /\ x.pc = "ignore" /\ x.generation = gate.generation
        /\ x.baseline = mission.baseline /\ x.scan = {}
  BY FreshFits DEF M!Schedule, M!Starts, Pcs, Preparing
<1>3. /\ mission' \in MissionRow /\ mission'.state = "assigned"
      /\ mission'.baseline = mission.baseline
  BY <1>1 DEF BranchTyped, MissionRow
<1>4. \A j \in M!Slots : ~Awake(j) BY <1>1 DEF BranchFits, AwakeFits, StateAt
<1>5. GateFits /\ Alone(k) BY <1>1, <1>4 DEF GateFits, BranchTyped, Gates, Alone
<1>6. QED BY <1>1, <1>2, <1>3, <1>5, Restarts, Distinct
          DEF Preparing, HandedOver, Approved, StateAt

\* The row keeps the baseline, and the author's run starts.
LEMMA RecordFits ==
    ASSUME BranchTyped, BranchFits, NEW k \in M!Slots, flow[k].pc \in {"ignore", "added"},
           ~M!Fenced(k), flow[k].baseline = M!Dependency, branch # M!Absent,
           M!Record(k, flow[k].baseline), Quiet
    PROVE  BranchTyped' /\ BranchFits'
<1>1. /\ Awake(k) /\ SlotFits(k) /\ AwakeFits(k) /\ Alone(k) /\ mission.state # "completed"
      /\ GateFits /\ gate'.up /\ ~gate'.paused
  BY Unfenced DEF Quiet
<1>2. PICK x \in Coroutine : Comes(k, "author", x)
  <2>1. M!Goto(k, "author") /\ "author" \in Pcs BY DEF M!Record, Pcs
  <2>2. QED BY <2>1, GotoFits
<1>3. /\ mission' \in MissionRow /\ mission'.state = "running"
      /\ mission'.baseline = M!Dependency
  <2>1. mission' = [mission EXCEPT !.state = "running", !.baseline = M!Dependency]
    BY DEF M!Record
  <2>2. QED BY <2>1 DEF BranchTyped, MissionRow
<1>4. 1 \notin x.scan BY <1>1, <1>2 DEF SlotFits, Comes
<1>5. QED BY <1>1, <1>2, <1>3, <1>4, Restarts, Distinct
          DEF Comes, Quiet, Awake, Preparing, HandedOver, Approved, StateAt

LEMMA IgnoredFits ==
    ASSUME BranchTyped, BranchFits, NEW k \in M!Slots, M!Ignored(k)
    PROVE  BranchTyped' /\ BranchFits'
<1>1. flow[k].pc = "ignore" /\ Quiet /\ SlotFits(k) /\ AwakeFits(k)
  BY DEF M!Ignored, M!At, M!git, M!past, Quiet, RepositoryStays, BranchFits
<1>2. ASSUME NEW pc \in {"lookup", "merge_base"}, M!Goto(k, pc), UNCHANGED mission,
             pc = "merge_base" => tree # M!Absent /\ flow[k].baseline = M!Absent
      PROVE  BranchTyped' /\ BranchFits'
  <2>1. PICK x \in Coroutine : Comes(k, pc, x)
    <3>1. pc \in Pcs BY DEF Pcs, Preparing
    <3>2. QED BY <1>2, <3>1, GotoFits
  <2>2. flow'[k] = x BY <2>1 DEF BranchTyped, Comes
  <2>3. SlotFits(k)' BY <1>1, <1>2, <2>1, <2>2 DEF Comes, SlotFits, Quiet, RepositoryStays
  <2>4. AwakeFits(k)'
    <3>1. CASE pc = "lookup"
      BY <1>1, <1>2, <2>1, <2>2, <3>1
         DEF Comes, AwakeFits, Awake, Quiet, RepositoryStays, StateAt, Preparing, Scanned, Pushed
    <3>2. CASE pc = "merge_base"
      \* Somebody who goes on has the baseline of the row, and there is one.
      <4>1. mission.baseline = M!Dependency BY <1>2, <3>2 DEF BranchFits, MissionFits
      <4>2. ~Awake(k) BY <1>1, <1>2, <3>2, <4>1, Distinct DEF AwakeFits, Preparing
      <4>3. QED BY <1>1, <2>1, <2>2, <4>2 DEF Comes, AwakeFits, Awake, Quiet
    <3>3. QED BY <3>1, <3>2
  <2>5. QED BY <1>1, <1>2, <2>1, <2>3, <2>4, Turns DEF Comes, Quiet, Committing, Pushed
<1>3. CASE tree = M!Absent BY <1>2, <1>3 DEF M!Ignored
<1>4. CASE tree # M!Absent /\ flow[k].baseline = M!Absent BY <1>2, <1>4 DEF M!Ignored
<1>5. CASE tree # M!Absent /\ flow[k].baseline # M!Absent
  <2>1. branch # M!Absent BY <1>5 DEF BranchFits, MissionFits
  <2>2. flow[k].baseline = M!Dependency BY <1>5 DEF BranchTyped, Coroutine
  <2>3. QED BY <1>1, <1>5, <2>1, <2>2, RecordFits, Fences DEF M!Ignored, M!Unless
<1>6. QED BY <1>3, <1>4, <1>5

LEMMA LookupFits ==
    ASSUME BranchTyped, BranchFits, NEW k \in M!Slots, M!Lookup(k)
    PROVE  BranchTyped' /\ BranchFits'
<1>1. flow[k].pc = "lookup" /\ Quiet /\ SlotFits(k) /\ AwakeFits(k)
  BY DEF M!Lookup, M!At, M!git, M!past, Quiet, RepositoryStays, BranchFits
<1>2. CASE M!Fenced(k) BY <1>1, <1>2, Fences DEF M!Lookup, M!Unless
<1>3. CASE ~M!Fenced(k)
  <2>1. PICK pc \in {"checkout", "compose", "add"} :
          /\ M!Goto(k, pc) /\ UNCHANGED mission
          /\ pc = "checkout" => branch # M!Absent
          /\ pc = "compose" => flow[k].baseline = M!Absent
          /\ pc = "add" => flow[k].baseline # M!Absent
    BY <1>3 DEF M!Lookup, M!Unless
  <2>2. PICK x \in Coroutine : Comes(k, pc, x)
    <3>1. pc \in Pcs BY DEF Pcs, Preparing
    <3>2. QED BY <2>1, <3>1, GotoFits
  <2>3. flow'[k] = x BY <2>2 DEF BranchTyped, Comes
  <2>4. Awake(k) BY <1>1, <1>3, Unfenced DEF Quiet
  <2>5. mission.state = "assigned" /\ flow[k].baseline = mission.baseline
    BY <1>1, <2>4 DEF AwakeFits, StateAt, Preparing
  <2>6. flow[k].baseline \in {M!Absent, M!Dependency} BY DEF BranchTyped, Coroutine
  <2>7. pc # "compose" => flow[k].baseline = M!Dependency
    BY <2>1, <2>5, <2>6 DEF BranchFits, MissionFits
  <2>8. SlotFits(k)'
    BY <1>1, <2>1, <2>2, <2>3, <2>7 DEF Comes, SlotFits, Quiet, RepositoryStays
  <2>9. AwakeFits(k)'
    BY <1>1, <2>1, <2>2, <2>3, <2>5
       DEF Comes, AwakeFits, Awake, Quiet, RepositoryStays, StateAt, Preparing, Scanned, Pushed
  <2>10. QED BY <1>1, <2>1, <2>2, <2>8, <2>9, Turns DEF Comes, Quiet, Committing, Pushed
<1>4. QED BY <1>2, <1>3

LEMMA ComposeFits ==
    ASSUME BranchTyped, BranchFits, NEW k \in M!Slots, M!Compose(k)
    PROVE  BranchTyped' /\ BranchFits'
<1>1. flow[k].pc = "compose" /\ Quiet /\ SlotFits(k) /\ AwakeFits(k)
  BY DEF M!Compose, M!At, M!git, M!past, Quiet, RepositoryStays, BranchFits
<1>2. CASE M!Fenced(k) BY <1>1, <1>2, Fences DEF M!Compose, M!Unless
<1>3. CASE ~M!Fenced(k)
  <2>1. /\ Awake(k) /\ Alone(k) /\ mission.state # "completed"
        /\ GateFits /\ gate'.up /\ ~gate'.paused
    BY <1>1, <1>3, Unfenced DEF Quiet
  <2>2. mission.state = "assigned" /\ mission.baseline = M!Absent
    BY <1>1, <2>1 DEF AwakeFits, StateAt, Preparing
  \* There is no branch yet, so its pull request is not in the default branch.
  <2>3. branch = M!Absent BY <2>2, Distinct DEF BranchFits, MissionFits
  <2>4. M!Composed = M!Dependency BY <2>3 DEF BranchFits, MissionFits, M!Composed
  <2>5. /\ flow' = [flow EXCEPT ![k].pc = "add", ![k].baseline = M!Dependency]
        /\ mission' = [mission EXCEPT !.baseline = M!Dependency]
    BY <1>3, <2>4 DEF M!Compose, M!Unless
  <2>6. mission' \in MissionRow /\ mission'.state = "assigned" /\ mission'.baseline = M!Dependency
    BY <2>2, <2>5 DEF BranchTyped, MissionRow
  <2> DEFINE x == [flow[k] EXCEPT !.pc = "add", !.baseline = M!Dependency]
  <2>7. flow[k] \in Coroutine /\ flow \in [M!Slots -> Coroutine] BY DEF BranchTyped
  <2>8. /\ x \in Coroutine /\ x.pc = "add" /\ x.generation = flow[k].generation
        /\ x.baseline = M!Dependency /\ x.scan = flow[k].scan
    BY <2>7 DEF Coroutine, Pcs, Preparing
  <2>9. flow' = [flow EXCEPT ![k] = x] BY <2>5, <2>7
  <2> HIDE DEF x
  <2>10. 1 \notin x.scan BY <1>1, <2>8 DEF SlotFits
  <2>11. QED BY <1>1, <2>1, <2>2, <2>6, <2>8, <2>9, <2>10, Restarts, Distinct
             DEF Quiet, Awake, Preparing, HandedOver, Approved, StateAt
<1>4. QED BY <1>2, <1>3

LEMMA AddedFits ==
    ASSUME BranchTyped, BranchFits, NEW k \in M!Slots, M!Added(k)
    PROVE  BranchTyped' /\ BranchFits'
<1>1. flow[k].pc = "added" /\ Quiet /\ SlotFits(k)
  BY DEF M!Added, M!At, M!git, M!past, Quiet, RepositoryStays, BranchFits
<1>2. flow[k].baseline = M!Dependency /\ branch # M!Absent BY <1>1 DEF SlotFits
<1>3. CASE M!Fenced(k) BY <1>1, <1>3, Fences DEF M!Added, M!Unless
<1>4. CASE ~M!Fenced(k)
  BY <1>1, <1>2, <1>4, RecordFits, Distinct DEF M!Added, M!Unless
<1>5. QED BY <1>3, <1>4

\* Nobody who goes on looks for a baseline that is not there.
LEMMA MergeBaseFits ==
    ASSUME BranchTyped, BranchFits, NEW k \in M!Slots, M!MergeBase(k)
    PROVE  BranchTyped' /\ BranchFits'
<1>1. flow[k].pc = "merge_base" /\ Quiet
  BY DEF M!MergeBase, M!At, M!git, M!past, Quiet, RepositoryStays
<1>2. CASE M!Fenced(k) BY <1>1, <1>2, Fences DEF M!MergeBase, M!Unless
<1>3. CASE ~M!Fenced(k)
  <2>1. Awake(k) /\ AwakeFits(k) BY <1>1, <1>3, Unfenced DEF Quiet
  <2>2. QED BY <1>1, <2>1 DEF AwakeFits, Preparing
<1>4. QED BY <1>2, <1>3

\* A command fails, or an answer is no: another attempt, or a user.
LEMMA FailureFits ==
    ASSUME BranchTyped, BranchFits, NEW k \in M!Slots, flow[k].pc # "idle", Quiet,
           \/ M!Unless(k, M!Blocked(k)) \/ M!Unless(k, M!Correct(k))
    PROVE  BranchTyped' /\ BranchFits'
<1>1. CASE M!Fenced(k) BY <1>1, Fences DEF M!Unless
<1>2. CASE ~M!Fenced(k)
  BY <1>2, Unfenced, Corrects DEF M!Unless, Quiet
<1>3. QED BY <1>1, <1>2

LEMMA FailuresFit ==
    ASSUME BranchTyped, BranchFits, NEW k \in M!Slots,
           M!PreparationFails(k) \/ M!CommitFails(k) \/ M!PublicationFails(k) \/ M!Rejects(k)
    PROVE  BranchTyped' /\ BranchFits'
<1>1. Quiet
  BY DEF M!PreparationFails, M!CommitFails, M!PublicationFails, M!Rejects, M!git, M!past,
         Quiet, RepositoryStays
<1>2. flow[k].pc # "idle"
  BY DEF M!PreparationFails, M!CommitFails, M!PublicationFails, M!Rejects, M!At
<1>3. M!Unless(k, M!Blocked(k)) \/ M!Unless(k, M!Correct(k))
  BY DEF M!PreparationFails, M!CommitFails, M!PublicationFails, M!Rejects
<1>4. QED BY <1>1, <1>2, <1>3, FailureFits

LEMMA AuthorEndsFits ==
    ASSUME BranchTyped, BranchFits, NEW k \in M!Slots, M!AuthorEnds(k)
    PROVE  BranchTyped' /\ BranchFits'
<1>1. flow[k].pc = "author" /\ Quiet /\ SlotFits(k)
  BY DEF M!AuthorEnds, M!At, M!git, M!past, Quiet, RepositoryStays, BranchFits
<1>2. CASE M!Fenced(k) BY <1>1, <1>2, Fences DEF M!AuthorEnds, M!Unless
<1>3. CASE ~M!Fenced(k) /\ M!Blocked(k) BY <1>1, <1>3, FailureFits DEF M!Unless
<1>4. CASE ~M!Fenced(k) /\ ~M!Blocked(k)
  <2>1. mission' = [mission EXCEPT !.state = "validating"] /\ M!Goto(k, "diff")
    BY <1>4 DEF M!AuthorEnds, M!Unless
  <2>2. PICK x \in Coroutine : Comes(k, "diff", x)
    <3>1. "diff" \in Pcs BY DEF Pcs
    <3>2. QED BY <2>1, <3>1, GotoFits
  <2>3. /\ Awake(k) /\ Alone(k) /\ mission.state # "completed"
        /\ GateFits /\ gate'.up /\ ~gate'.paused
    BY <1>1, <1>4, Unfenced DEF Quiet
  <2>4. /\ mission' \in MissionRow /\ mission'.state = "validating"
        /\ mission'.baseline = mission.baseline
    BY <2>1 DEF BranchTyped, MissionRow
  <2>5. /\ 1 \notin x.scan /\ x.baseline = M!Dependency /\ branch # M!Absent
        /\ mission.baseline = M!Dependency
    BY <1>1, <2>2 DEF SlotFits, Comes
  <2>6. QED BY <1>1, <2>2, <2>3, <2>4, <2>5, Restarts, Distinct
            DEF Comes, Quiet, Awake, Preparing, Scanned, HandedOver, Approved, StateAt
<1>5. QED BY <1>2, <1>3, <1>4

LEMMA DiffFits ==
    ASSUME BranchTyped, BranchFits, NEW k \in M!Slots, M!Diff(k)
    PROVE  BranchTyped' /\ BranchFits'
<1>1. flow[k].pc = "diff" /\ Quiet /\ UNCHANGED mission /\ SlotFits(k) /\ AwakeFits(k)
  BY DEF M!Diff, M!At, M!git, M!past, Quiet, RepositoryStays, BranchFits
<1>2. flow[k].baseline = M!Dependency /\ branch # M!Absent BY <1>1 DEF SlotFits
<1> DEFINE x == [flow[k] EXCEPT !.pc = "status", !.scan = branch \ M!Dependency]
<1>3. flow[k] \in Coroutine /\ flow \in [M!Slots -> Coroutine] BY DEF BranchTyped
<1>4. branch \ M!Dependency \in SUBSET Nat /\ 1 \notin branch \ M!Dependency
  BY <1>2, Distinct DEF BranchTyped, Copy
<1>5. /\ x \in Coroutine /\ x.pc = "status" /\ x.generation = flow[k].generation
      /\ x.baseline = M!Dependency /\ x.scan = branch \ M!Dependency
  BY <1>2, <1>3, <1>4 DEF Coroutine, Pcs
<1>6. flow' = [flow EXCEPT ![k] = x] BY <1>2, <1>3 DEF M!Diff
<1> HIDE DEF x
<1>7. flow'[k] = x BY <1>3, <1>6
<1>8. SlotFits(k)'
  BY <1>1, <1>2, <1>4, <1>5, <1>7 DEF SlotFits, Quiet, RepositoryStays
<1>9. AwakeFits(k)'
  <2>1. Mine' = Mine /\ 1 \notin Mine BY <1>1, MadeStays, MadeFits DEF Quiet, RepositoryStays
  <2>2. branch \intersect Mine \subseteq branch \ M!Dependency BY <2>1 DEF M!Dependency
  <2>3. QED BY <1>1, <1>5, <1>7, <2>1, <2>2
            DEF AwakeFits, Awake, StateAt, Preparing, Scanned, Pushed, Quiet, RepositoryStays
<1>10. QED BY <1>1, <1>5, <1>6, <1>8, <1>9, Turns DEF Quiet, Committing, Pushed

LEMMA StatusFits ==
    ASSUME BranchTyped, BranchFits, NEW k \in M!Slots, M!Status(k)
    PROVE  BranchTyped' /\ BranchFits'
<1> DEFINE scan == flow[k].scan \union (tree \ branch)
<1>1. /\ flow[k].pc = "status" /\ SlotFits(k) /\ AwakeFits(k) /\ UNCHANGED gate
      /\ UNCHANGED <<base, tree, branch, remote, pull, origin, reviewed, raced>>
  BY DEF M!Status, M!At, M!git, BranchFits
<1>2. CASE M!Fenced(k) \/ ~M!PathsAccepted(scan)
  <2>1. Quiet BY <1>1, <1>2 DEF M!Status, Quiet, RepositoryStays
  <2>2. M!Unless(k, M!Correct(k)) BY <1>2 DEF M!Status, M!Unless
  <2>3. QED BY <1>1, <2>1, <2>2, FailureFits
<1>3. CASE ~M!Fenced(k) /\ M!PathsAccepted(scan)
  <2>1. /\ flow' = [flow EXCEPT ![k].pc = "checks", ![k].scan = scan]
        /\ UNCHANGED mission /\ scanned' = scanned \union scan
    BY <1>3 DEF M!Status, M!Unless
  <2>2. Awake(k) /\ mission.state = "validating" /\ GateFits /\ Alone(k)
    BY <1>1, <1>3, Unfenced DEF StateAt, Preparing, Scanned
  <2>3. branch # M!Absent /\ 1 \notin flow[k].scan /\ flow[k].baseline = M!Dependency
    BY <1>1 DEF SlotFits
  <2>4. flow[k] \in Coroutine /\ flow \in [M!Slots -> Coroutine] BY DEF BranchTyped
  <2>5. scan \in SUBSET Nat /\ 1 \notin scan
    <3>1. 1 \in branch BY <2>3 DEF BranchTyped, Copy
    <3>2. tree \subseteq Nat BY DEF BranchTyped, Copy, M!Absent
    <3>3. QED BY <2>3, <2>4, <3>1, <3>2 DEF Coroutine
  <2> DEFINE x == [flow[k] EXCEPT !.pc = "checks", !.scan = scan]
  <2>6. /\ x \in Coroutine /\ x.pc = "checks" /\ x.generation = flow[k].generation
        /\ x.baseline = flow[k].baseline /\ x.scan = scan
    BY <2>4, <2>5 DEF Coroutine, Pcs, Scanned
  <2>7. flow' = [flow EXCEPT ![k] = x] BY <2>1, <2>4
  <2> HIDE DEF x
  <2>8. flow'[k] = x /\ \A j \in M!Slots : j # k => flow'[j] = flow[j] BY <2>4, <2>7
  <2>9. Mine' = Mine /\ Strays' = Strays BY <1>1, MadeStays
  <2>10. SlotFits(k)' BY <1>1, <2>1, <2>3, <2>5, <2>6, <2>8 DEF SlotFits
  <2>11. AwakeFits(k)'
    <3>1. raced \/ branch \intersect Mine \subseteq flow[k].scan BY <1>1, <2>2 DEF AwakeFits
    <3>2. raced \/ (tree \union branch) \intersect Mine \subseteq scan BY <3>1
    <3>3. QED BY <1>1, <2>1, <2>2, <2>6, <2>8, <2>9, <3>2
              DEF AwakeFits, Awake, StateAt, Preparing, Scanned, Pushed
  <2>12. ASSUME NEW j \in M!Slots, j # k PROVE PairFits(j, k)' /\ PairFits(k, j)'
    <3>1. ~Awake(j)' BY <1>1, <2>2, <2>8, <2>12 DEF Alone, Awake
    <3>2. QED BY <2>1, <2>2, <2>6, <2>8, <3>1 DEF PairFits, Committing, Pushed, HandedOver, Approved
  <2>13. MissionFits'
    BY <1>1, <2>1, <2>2, <2>5, <2>9 DEF BranchFits, MissionFits, HandedOver, Approved
  <2>14. scanned \subseteq scanned' /\ scanned' \subseteq Nat BY <2>1, <2>5 DEF BranchTyped
  <2> HIDE DEF scan
  <2>15. QED BY <1>1, <2>1, <2>2, <2>6, <2>7, <2>10, <2>11, <2>12, <2>13, <2>14, Proceeds
             DEF BranchTyped
<1>4. QED BY <1>2, <1>3

LEMMA ChecksEndFits ==
    ASSUME BranchTyped, BranchFits, NEW k \in M!Slots, M!ChecksEnd(k)
    PROVE  BranchTyped' /\ BranchFits'
<1>1. flow[k].pc = "checks" /\ Quiet /\ SlotFits(k) /\ AwakeFits(k)
  BY DEF M!ChecksEnd, M!At, M!git, M!past, Quiet, RepositoryStays, BranchFits
<1>2. CASE M!Fenced(k) BY <1>1, <1>2, Fences DEF M!ChecksEnd, M!Unless
<1>3. CASE ~M!Fenced(k) /\ M!Correct(k) BY <1>1, <1>3, FailureFits DEF M!Unless
<1>4. CASE ~M!Fenced(k) /\ ~M!Correct(k)
  <2>1. M!Goto(k, "clean") /\ UNCHANGED mission BY <1>4 DEF M!ChecksEnd, M!Unless
  <2>2. PICK x \in Coroutine : Comes(k, "clean", x)
    <3>1. "clean" \in Pcs BY DEF Pcs, Scanned
    <3>2. QED BY <2>1, <3>1, GotoFits
  <2>3. flow'[k] = x BY <2>2 DEF BranchTyped, Comes
  <2>4. SlotFits(k)' BY <1>1, <2>1, <2>2, <2>3 DEF Comes, SlotFits, Quiet, RepositoryStays
  <2>5. Mine' = Mine BY <1>1, MadeStays DEF Quiet, RepositoryStays
  <2>6. AwakeFits(k)'
    BY <1>1, <2>1, <2>2, <2>3, <2>5
       DEF Comes, AwakeFits, Awake, Quiet, RepositoryStays, StateAt, Preparing, Scanned, Pushed
  <2>7. QED BY <1>1, <2>1, <2>2, <2>4, <2>6, Turns DEF Comes, Quiet, Committing, Pushed
<1>5. QED BY <1>2, <1>3, <1>4

\* The mission goes on to its review: what it changed is on GitHub, and what is still
\* committed is no author's.
LEMMA HandOverFits ==
    ASSUME BranchTyped, BranchFits, NEW k \in M!Slots, flow[k].pc \in {"clean", "committed", "published"},
           ~M!Fenced(k), M!HandOver(k), Quiet,
           raced \/ branch \intersect Mine \subseteq remote,
           \A j \in M!Slots : flow[j].pc = "commit" => tree \ branch \subseteq Strays \union {0}
    PROVE  BranchTyped' /\ BranchFits'
<1>1. /\ Awake(k) /\ SlotFits(k) /\ Alone(k) /\ GateFits /\ mission.state = "validating"
  BY Unfenced DEF Quiet, StateAt, Preparing, Scanned
<1>2. UNCHANGED <<base, tree, branch, remote, pull, origin, scanned, reviewed, raced>>
  BY DEF Quiet, RepositoryStays
<1>3. PICK x \in Coroutine : Comes(k, "review_diff", x)
  <2>1. M!Goto(k, "review_diff") /\ "review_diff" \in Pcs BY DEF M!HandOver, Pcs
  <2>2. QED BY <2>1, GotoFits
<1>4. /\ mission' \in MissionRow /\ mission'.state = "review_required"
      /\ mission'.baseline = mission.baseline
  BY DEF BranchTyped, M!HandOver, MissionRow, HandedOver
<1>5. flow'[k] = x /\ \A j \in M!Slots : j # k => flow'[j] = flow[j] BY <1>3 DEF BranchTyped, Comes
<1>6. Mine' = Mine /\ Strays' = Strays BY <1>2, MadeStays
<1>7. branch # M!Absent /\ SlotFits(k)'
  BY <1>1, <1>2, <1>3, <1>4, <1>5 DEF Comes, SlotFits, Quiet
<1>8. AwakeFits(k)'
  BY <1>3, <1>4, <1>5 DEF Comes, AwakeFits, Awake, StateAt, Preparing, Scanned, Pushed
<1>9. ASSUME NEW j \in M!Slots, j # k PROVE PairFits(j, k)' /\ PairFits(k, j)'
  <2>1. ~Awake(j)' BY <1>1, <1>5, <1>9 DEF Alone, Awake, Quiet
  <2>2. QED BY <1>3, <1>5, <2>1 DEF Comes, PairFits, Committing, Pushed
<1>10. \A j \in M!Slots : flow'[j].pc = "commit" => flow[j].pc = "commit"
  BY <1>3, <1>5 DEF Comes
<1>11. MissionFits'
  BY <1>1, <1>2, <1>4, <1>6, <1>7, <1>10 DEF BranchFits, MissionFits, HandedOver, Approved
<1>12. QED BY <1>1, <1>2, <1>3, <1>4, <1>7, <1>8, <1>9, <1>11, Proceeds DEF BranchTyped, Comes

\* It goes on to a commit, or to its push.
LEMMA CommitsNext ==
    ASSUME BranchTyped, BranchFits, NEW k \in M!Slots, flow[k].pc \in {"clean", "committed"},
           ~M!Fenced(k), NEW pc \in {"commit", "push"}, M!Goto(k, pc), UNCHANGED mission, Quiet,
           pc = "push" =>
               \A j \in M!Slots : flow[j].pc = "commit" => tree \ branch \subseteq Strays \union {0}
    PROVE  BranchTyped' /\ BranchFits'
<1>1. /\ Awake(k) /\ SlotFits(k) /\ AwakeFits(k) /\ Alone(k) /\ GateFits
      /\ mission.state = "validating"
  BY Unfenced DEF Quiet, StateAt, Preparing, Scanned
<1>2. UNCHANGED <<base, tree, branch, remote, pull, origin, scanned, reviewed, raced>>
  BY DEF Quiet, RepositoryStays
<1>3. PICK x \in Coroutine : Comes(k, pc, x)
  <2>1. pc \in Pcs BY DEF Pcs, Scanned
  <2>2. QED BY <2>1, GotoFits
<1>4. flow'[k] = x /\ \A j \in M!Slots : j # k => flow'[j] = flow[j] BY <1>3 DEF BranchTyped, Comes
<1>5. Mine' = Mine /\ Strays' = Strays BY <1>2, MadeStays
<1>6. raced \/ (tree \union branch) \intersect Mine \subseteq scanned
  BY <1>1 DEF AwakeFits, Scanned
<1>7. SlotFits(k)' BY <1>1, <1>2, <1>3, <1>4, <1>5, <1>6 DEF Comes, SlotFits, Quiet
<1>8. AwakeFits(k)'
  BY <1>1, <1>2, <1>3, <1>4, <1>5
     DEF Comes, AwakeFits, Awake, Quiet, StateAt, Preparing, Scanned, Pushed
<1>9. ASSUME NEW j \in M!Slots, j # k PROVE PairFits(j, k)' /\ PairFits(k, j)'
  <2>1. ~Awake(j)' BY <1>1, <1>4, <1>9 DEF Alone, Awake, Quiet
  <2>2. flow'[j] = flow[j] /\ flow'[k] = x BY <1>4, <1>9
  <2>3. QED BY <1>1, <1>2, <1>3, <1>5, <1>6, <2>1, <2>2
            DEF Comes, PairFits, Committing, Pushed, HandedOver, Approved
<1>10. MissionFits'
  BY <1>1, <1>2, <1>5 DEF BranchFits, MissionFits, HandedOver, Approved
<1>11. QED BY <1>1, <1>2, <1>3, <1>7, <1>8, <1>9, <1>10, Proceeds DEF BranchTyped, Comes

LEMMA PublishFits ==
    ASSUME BranchTyped, BranchFits, NEW k \in M!Slots, flow[k].pc \in {"clean", "committed"},
           ~M!Fenced(k), M!Publish(k), Quiet,
           \A j \in M!Slots : flow[j].pc = "commit" => tree \ branch \subseteq Strays \union {0}
    PROVE  BranchTyped' /\ BranchFits'
<1>1. CASE flow[k].scan # {} BY <1>1, CommitsNext DEF M!Publish
<1>2. CASE flow[k].scan = {}
  <2>1. AwakeFits(k) /\ Awake(k) BY Unfenced DEF Quiet
  <2>2. raced \/ branch \intersect Mine = {} BY <1>2, <2>1 DEF AwakeFits, Scanned
  <2>3. QED BY <1>2, <2>2, HandOverFits DEF M!Publish
<1>3. QED BY <1>1, <1>2

LEMMA CleanFits ==
    ASSUME BranchTyped, BranchFits, NEW k \in M!Slots, M!Clean(k)
    PROVE  BranchTyped' /\ BranchFits'
<1>1. flow[k].pc = "clean" /\ Quiet
  BY DEF M!Clean, M!At, M!git, M!past, Quiet, RepositoryStays
<1>2. CASE M!Fenced(k) BY <1>1, <1>2, Fences DEF M!Clean, M!Unless
<1>3. CASE ~M!Fenced(k) /\ tree # branch
  BY <1>1, <1>3, CommitsNext DEF M!Clean, M!Unless
<1>4. CASE ~M!Fenced(k) /\ tree = branch
  <2>1. M!Publish(k) BY <1>4 DEF M!Clean, M!Unless
  <2>2. tree \ branch = {} BY <1>4
  <2>3. QED BY <1>1, <1>4, <2>1, <2>2, PublishFits
<1>5. QED BY <1>2, <1>3, <1>4

\* When k is past its commit, whatever else is committed is no author's.
LEMMA OthersCommit ==
    ASSUME BranchTyped, BranchFits, NEW k \in M!Slots, Awake(k),
           flow[k].pc \in {"committed", "published"}
    PROVE  \A j \in M!Slots : flow[j].pc = "commit" => tree \ branch \subseteq Strays \union {0}
<1>1. ASSUME NEW j \in M!Slots, flow[j].pc = "commit"
      PROVE  tree \ branch \subseteq Strays \union {0}
  <2>1. PairFits(j, k) BY <1>1 DEF BranchFits
  <2>2. QED BY <1>1, <2>1 DEF PairFits, Committing, Pushed
<1>2. QED BY <1>1

LEMMA CommittedFits ==
    ASSUME BranchTyped, BranchFits, NEW k \in M!Slots, M!Committed(k)
    PROVE  BranchTyped' /\ BranchFits'
<1>1. flow[k].pc = "committed" /\ Quiet
  BY DEF M!Committed, M!At, M!git, M!past, Quiet, RepositoryStays
<1>2. CASE M!Fenced(k) BY <1>1, <1>2, Fences DEF M!Committed, M!Unless
<1>3. CASE ~M!Fenced(k)
  <2>1. Awake(k) BY <1>1, <1>3, Unfenced DEF Quiet
  <2>2. QED BY <1>1, <1>3, <2>1, OthersCommit, PublishFits DEF M!Committed, M!Unless
<1>4. QED BY <1>2, <1>3

LEMMA RecordedFits ==
    ASSUME BranchTyped, BranchFits, NEW k \in M!Slots, M!Recorded(k)
    PROVE  BranchTyped' /\ BranchFits'
<1>1. flow[k].pc = "published" /\ Quiet
  BY DEF M!Recorded, M!At, M!git, M!past, Quiet, RepositoryStays
<1>2. CASE M!Fenced(k) BY <1>1, <1>2, Fences DEF M!Recorded, M!Unless
<1>3. CASE ~M!Fenced(k)
  <2>1. Awake(k) /\ AwakeFits(k) BY <1>1, <1>3, Unfenced DEF Quiet
  <2>2. raced \/ branch \intersect Mine \subseteq remote BY <1>1, <2>1 DEF AwakeFits, Pushed
  <2>3. M!HandOver(k) BY <1>3 DEF M!Recorded, M!Unless, M!HandOver
  <2>4. QED BY <1>1, <1>3, <2>1, <2>2, <2>3, OthersCommit, HandOverFits
<1>4. QED BY <1>2, <1>3

\* The pull request of a branch that was pushed.
LEMMA PullsFit ==
    ASSUME BranchTyped, BranchFits, NEW k \in M!Slots,
           M!List(k) \/ M!Create(k) \/ M!Reopen(k) \/ M!Edit(k)
    PROVE  BranchTyped' /\ BranchFits'
<1>1. /\ flow[k].pc \in {"list", "create", "reopen", "edit"} /\ SlotFits(k) /\ AwakeFits(k)
      /\ UNCHANGED <<mission, gate, base, tree, branch, remote, origin, scanned, reviewed, raced>>
  BY DEF M!List, M!Create, M!Reopen, M!Edit, M!At, M!git, M!past, BranchFits
<1>2. PICK pc \in {"create", "reopen", "edit", "published"} : M!Goto(k, pc)
  BY DEF M!List, M!Create, M!Reopen, M!Edit
<1>3. PICK x \in Coroutine : Comes(k, pc, x)
  <2>1. pc \in Pcs BY DEF Pcs, Scanned
  <2>2. QED BY <1>2, <2>1, GotoFits
<1>4. flow'[k] = x /\ \A j \in M!Slots : j # k => flow'[j] = flow[j] BY <1>3 DEF BranchTyped, Comes
<1>5. Mine' = Mine /\ Strays' = Strays BY <1>1, MadeStays
<1>6. branch # M!Absent /\ SlotFits(k)' BY <1>1, <1>3, <1>4, <1>5 DEF Comes, SlotFits
<1>7. AwakeFits(k)'
  BY <1>1, <1>3, <1>4, <1>5 DEF Comes, AwakeFits, Awake, StateAt, Preparing, Scanned, Pushed
<1>8. CASE UNCHANGED pull
  <2>1. RepositoryStays BY <1>1, <1>8 DEF RepositoryStays
  <2>2. QED BY <1>1, <1>3, <1>6, <1>7, <2>1, Turns DEF Comes, Committing, Pushed
<1>9. CASE pull' = [pull EXCEPT !.state = "draft"]
  <2>1. pull' \in PullRequest /\ pull'.state = "draft" /\ pull'.merged = pull.merged
    BY <1>9 DEF BranchTyped, PullRequest
  <2>2. ASSUME NEW j \in M!Slots, j # k PROVE PairFits(j, k)' /\ PairFits(k, j)'
    <3>1. PairFits(j, k) /\ PairFits(k, j) BY <2>2 DEF BranchFits
    <3>2. flow'[j] = flow[j] /\ flow'[k] = x BY <1>4, <2>2
    <3>3. Awake(j)' = Awake(j) /\ Awake(k)' = Awake(k)
      BY <1>1, <1>3, <3>2 DEF Awake, Comes
    <3>4. QED BY <1>1, <1>3, <1>5, <3>1, <3>2, <3>3 DEF PairFits, Comes, Committing, Pushed
  <2>3. \A j \in M!Slots : flow'[j].pc = "commit" => flow[j].pc = "commit" BY <1>3, <1>4 DEF Comes
  <2>4. MissionFits' BY <1>1, <1>5, <1>6, <2>1, <2>3 DEF BranchFits, MissionFits
  <2>5. GateFits BY <1>1 DEF GateFits, BranchTyped, Gates
  <2>6. QED BY <1>1, <1>3, <1>6, <1>7, <2>1, <2>2, <2>4, <2>5, Proceeds DEF BranchTyped, Comes
<1>10. QED BY <1>8, <1>9 DEF M!List, M!Create, M!Reopen, M!Edit, M!git

LEMMA ReviewDiffFits ==
    ASSUME BranchTyped, BranchFits, NEW k \in M!Slots, M!ReviewDiff(k)
    PROVE  BranchTyped' /\ BranchFits'
<1>1. flow[k].pc = "review_diff" /\ Quiet /\ SlotFits(k) /\ AwakeFits(k)
  BY DEF M!ReviewDiff, M!At, M!git, M!past, Quiet, RepositoryStays, BranchFits
<1>2. CASE M!Fenced(k) BY <1>1, <1>2, Fences DEF M!ReviewDiff, M!Unless
<1>3. CASE ~M!Fenced(k)
  <2>1. flow' = [flow EXCEPT ![k].pc = "review", ![k].seen = branch] /\ UNCHANGED mission
    BY <1>3 DEF M!ReviewDiff, M!Unless
  <2> DEFINE x == [flow[k] EXCEPT !.pc = "review", !.seen = branch]
  <2>2. flow[k] \in Coroutine /\ flow \in [M!Slots -> Coroutine] BY DEF BranchTyped
  <2>3. branch \in SUBSET Nat BY DEF BranchTyped, Copy, M!Absent
  <2>4. /\ x \in Coroutine /\ x.pc = "review" /\ x.generation = flow[k].generation
        /\ x.baseline = flow[k].baseline /\ x.scan = flow[k].scan /\ x.seen = branch
    BY <2>2, <2>3 DEF Coroutine, Pcs
  <2>5. flow' = [flow EXCEPT ![k] = x] BY <2>1, <2>2
  <2> HIDE DEF x
  <2>6. flow'[k] = x BY <2>2, <2>5
  <2>7. SlotFits(k)' BY <1>1, <2>1, <2>4, <2>6 DEF SlotFits, Quiet, RepositoryStays
  <2>8. AwakeFits(k)'
    BY <1>1, <2>1, <2>4, <2>6
       DEF AwakeFits, Awake, Quiet, RepositoryStays, StateAt, Preparing, Scanned, Pushed
  <2>9. QED BY <1>1, <2>1, <2>4, <2>5, <2>7, <2>8, Turns DEF Quiet, Committing, Pushed
<1>4. QED BY <1>2, <1>3

\* The end of a review, and of the mission.
LEMMA ApprovesFits ==
    ASSUME BranchTyped, BranchFits, NEW k \in M!Slots, M!Approves(k)
    PROVE  BranchTyped' /\ BranchFits'
<1>1. /\ flow[k].pc = "review" /\ ~M!Fenced(k) /\ M!Goto(k, "cleanup")
      /\ mission' = [mission EXCEPT !.state = "integrated"] /\ reviewed' = flow[k].seen
      /\ UNCHANGED <<gate, base, tree, branch, remote, pull, origin, scanned, raced>>
  BY DEF M!Approves, M!At, M!git
<1>2. /\ Awake(k) /\ SlotFits(k) /\ AwakeFits(k) /\ Alone(k) /\ GateFits
      /\ mission.state = "review_required"
  BY <1>1, Unfenced DEF StateAt, Preparing, Scanned
<1>3. PICK x \in Coroutine : Comes(k, "cleanup", x)
  <2>1. "cleanup" \in Pcs BY DEF Pcs
  <2>2. QED BY <1>1, <2>1, GotoFits
<1>4. flow'[k] = x /\ \A j \in M!Slots : j # k => flow'[j] = flow[j] BY <1>3 DEF BranchTyped, Comes
<1>5. Mine' = Mine /\ Strays' = Strays BY <1>1, MadeStays
<1>6. /\ mission' \in MissionRow /\ mission'.state = "integrated"
      /\ mission'.baseline = mission.baseline
  BY <1>1 DEF BranchTyped, MissionRow, HandedOver, Approved
<1>7. SlotFits(k)' BY <1>1, <1>2, <1>3, <1>4, <1>6 DEF Comes, SlotFits
<1>8. AwakeFits(k)'
  BY <1>3, <1>4, <1>6 DEF Comes, AwakeFits, Awake, StateAt, Preparing, Scanned, Pushed
<1>9. ASSUME NEW j \in M!Slots, j # k PROVE PairFits(j, k)' /\ PairFits(k, j)'
  <2>1. ~Awake(j)' BY <1>1, <1>2, <1>4, <1>9 DEF Alone, Awake
  <2>2. QED BY <1>3, <1>4, <2>1 DEF Comes, PairFits, Committing, Pushed
<1>10. \A j \in M!Slots : flow'[j].pc = "commit" => flow[j].pc = "commit"
  BY <1>3, <1>4 DEF Comes
<1>11. branch \subseteq reviewed' \union Strays BY <1>1, <1>2 DEF AwakeFits
<1>12. MissionFits'
  BY <1>1, <1>2, <1>5, <1>6, <1>10, <1>11 DEF BranchFits, MissionFits, HandedOver, Approved
<1>13. QED BY <1>1, <1>2, <1>3, <1>6, <1>7, <1>8, <1>9, <1>12, Proceeds DEF BranchTyped, Comes

LEMMA CompletesFits ==
    ASSUME BranchTyped, BranchFits, NEW k \in M!Slots, M!Completes(k)
    PROVE  BranchTyped' /\ BranchFits'
<1>1. flow[k].pc = "cleaned" /\ Quiet
  BY DEF M!Completes, M!At, M!git, M!past, Quiet, RepositoryStays
<1>2. CASE M!Fenced(k) BY <1>1, <1>2, Fences DEF M!Completes, M!Unless
<1>3. CASE ~M!Fenced(k)
  <2>1. mission' = [mission EXCEPT !.state = "completed"] /\ flow' = [flow EXCEPT ![k] = M!Idle]
    BY <1>3 DEF M!Completes, M!Unless
  <2>2. /\ Awake(k) /\ Alone(k) /\ GateFits /\ mission.state = "integrated"
    BY <1>1, <1>3, Unfenced DEF StateAt, Preparing, Scanned, Quiet
  <2>3. UNCHANGED <<base, tree, branch, remote, pull, origin, scanned, reviewed, raced>>
    BY <1>1 DEF Quiet, RepositoryStays
  <2>4. /\ M!Idle \in Coroutine /\ M!Idle.pc = "idle" /\ M!Idle.scan = {}
        /\ M!Idle.baseline = M!Absent
    BY FreshFits DEF Pcs
  <2>5. flow'[k] = M!Idle /\ \A j \in M!Slots : j # k => flow'[j] = flow[j]
    BY <2>1 DEF BranchTyped
  <2>6. /\ mission' \in MissionRow /\ mission'.state = "completed"
        /\ mission'.baseline = mission.baseline
    BY <2>1 DEF BranchTyped, MissionRow, HandedOver, Approved
  <2>7. Mine' = Mine /\ Strays' = Strays BY <2>3, MadeStays
  <2>8. SlotFits(k)' /\ AwakeFits(k)'
    BY <2>4, <2>5, Distinct DEF SlotFits, AwakeFits, Awake
  <2>9. ASSUME NEW j \in M!Slots, j # k PROVE PairFits(j, k)' /\ PairFits(k, j)'
    BY <2>4, <2>5, <2>9 DEF PairFits, Awake, Committing, Pushed
  <2>10. \A j \in M!Slots : flow'[j].pc = "commit" => flow[j].pc = "commit" BY <2>4, <2>5
  <2>11. MissionFits'
    BY <2>2, <2>3, <2>6, <2>7, <2>10 DEF BranchFits, MissionFits, HandedOver, Approved
  <2>12. QED BY <2>1, <2>2, <2>3, <2>4, <2>6, <2>8, <2>9, <2>11, Proceeds DEF BranchTyped
<1>4. QED BY <1>2, <1>3

-----------------------------------------------------------------------------
(* Pauses, crashes and people                                               *)

LEMMA NobodyWhen ==
    ASSUME BranchTyped, BranchFits, gate.paused \/ mission.state \in {"ready", "blocked"} \/ ~gate.up
    PROVE  \A j \in M!Slots : /\ ~Awake(j)
                              /\ flow[j].pc # "idle" => flow[j].generation < gate.generation
                              /\ ~gate.up => flow[j].pc = "idle"
<1>1. ASSUME NEW j \in M!Slots
      PROVE  /\ ~Awake(j)
             /\ flow[j].pc # "idle" => flow[j].generation < gate.generation
             /\ ~gate.up => flow[j].pc = "idle"
  <2>1. SlotFits(j) /\ AwakeFits(j) BY DEF BranchFits
  <2>2. flow[j].generation \in Nat /\ gate.generation \in Nat
    BY DEF BranchTyped, Coroutine
  <2>3. ~Awake(j) BY <2>1 DEF SlotFits, AwakeFits, Awake, StateAt
  <2>4. QED BY <2>1, <2>2, <2>3 DEF SlotFits, Awake
<1>2. QED BY <1>1

LEMMA UnblockFits == ASSUME BranchTyped, BranchFits, M!Unblock PROVE BranchTyped' /\ BranchFits'
<1>1. /\ gate.up /\ mission.state = "blocked" /\ mission' = [mission EXCEPT !.state = "ready"]
      /\ UNCHANGED <<gate, flow>> /\ RepositoryStays
  BY DEF M!Unblock, M!git, M!past, RepositoryStays
<1>2. \A j \in M!Slots : flow[j].pc # "idle" => flow[j].generation < gate.generation
  BY <1>1, NobodyWhen DEF Awake
<1>3. /\ mission' \in MissionRow /\ mission'.state = "ready"
      /\ mission'.baseline = mission.baseline /\ gate' \in Gates
  BY <1>1 DEF BranchTyped, MissionRow, Gates
<1>4. QED BY <1>1, <1>2, <1>3, Stands

LEMMA PauseFits == ASSUME BranchTyped, BranchFits, M!Pause PROVE BranchTyped' /\ BranchFits'
<1>1. /\ gate.up /\ gate' = [gate EXCEPT !.paused = TRUE, !.generation = gate.generation + 1]
      /\ UNCHANGED <<mission, flow>> /\ RepositoryStays
  BY DEF M!Pause, M!git, M!past, RepositoryStays
<1>2. gate \in Gates /\ gate.generation \in Nat /\ gate.generation + 1 \in Nat
  BY DEF BranchTyped, Gates
<1>3. gate' \in Gates /\ gate'.up /\ gate'.generation = gate.generation + 1 BY <1>1, <1>2 DEF Gates
<1>4. ASSUME NEW j \in M!Slots, flow[j].pc # "idle"
      PROVE  gate'.up /\ flow[j].generation < gate'.generation
  <2>1. flow[j].generation <= gate.generation BY <1>4 DEF BranchFits, SlotFits
  <2>2. flow[j].generation \in Nat BY DEF BranchTyped, Coroutine
  <2>3. QED BY <1>2, <1>3, <2>1, <2>2
<1>5. QED BY <1>1, <1>3, <1>4, Stands DEF BranchTyped

LEMMA CrashFits == ASSUME BranchTyped, BranchFits, M!Crash PROVE BranchTyped' /\ BranchFits'
<1>1. /\ gate' = [gate EXCEPT !.up = FALSE, !.crashes = gate.crashes + 1]
      /\ flow' = [k \in M!Slots |-> M!Idle] /\ UNCHANGED mission /\ RepositoryStays
  BY DEF M!Crash, M!git, M!past, RepositoryStays
<1>2. UNCHANGED <<base, tree, branch, remote, pull, origin, scanned, reviewed, raced>>
  BY <1>1 DEF RepositoryStays
<1>3. gate.crashes \in Nat /\ gate.crashes + 1 \in Nat BY DEF BranchTyped
<1>4. gate' \in Gates BY <1>1, <1>3 DEF BranchTyped, Gates
<1>5. /\ M!Idle \in Coroutine /\ M!Idle.pc = "idle" /\ M!Idle.scan = {} /\ M!Idle.baseline = M!Absent
  BY FreshFits DEF Pcs
<1>6. \A k \in M!Slots : flow'[k] = M!Idle BY <1>1
<1>7. flow' \in [M!Slots -> Coroutine] BY <1>1, <1>5
<1>8. BranchTyped' BY <1>1, <1>2, <1>4, <1>7 DEF BranchTyped, Gates, Copy
<1>9. Mine' = Mine /\ Strays' = Strays BY <1>2, MadeStays
<1>10. \A k \in M!Slots : SlotFits(k)' /\ AwakeFits(k)'
  BY <1>5, <1>6, Distinct DEF SlotFits, AwakeFits, Awake
<1>11. \A j, k \in M!Slots : PairFits(j, k)' BY <1>5, <1>6 DEF PairFits, Awake
<1>12. \A k \in M!Slots : flow'[k].pc # "commit" BY <1>5, <1>6
<1>13. MissionFits' BY <1>1, <1>2, <1>9, <1>12 DEF BranchFits, MissionFits
<1>14. QED BY <1>8, <1>10, <1>11, <1>13 DEF BranchFits

\* The gate opens, after a pause or a crash.
Opens ==
    /\ gate' \in Gates /\ gate'.generation = gate.generation /\ gate'.up /\ ~gate'.paused
    /\ gate.paused \/ ~gate.up
    /\ RepositoryStays

\* What goes on then: the await of the mission's state, or the scheduler.
LEMMA ContinuesFits ==
    ASSUME BranchTyped, BranchFits, NEW k \in M!Slots, M!Continues(k), Opens
    PROVE  BranchTyped' /\ BranchFits'
<1>1. /\ GateFits /\ Alone(k) /\ UNCHANGED <<base, tree, branch, remote, pull, origin, scanned, reviewed, raced>>
      /\ \A j \in M!Slots : ~Awake(j) /\ (flow[j].pc # "idle" => flow[j].generation < gate.generation)
  BY NobodyWhen DEF Opens, GateFits, RepositoryStays, Alone
<1>2. DOMAIN M!ResumesAt = {"validating", "review_required"} BY DEF M!ResumesAt
<1>3. CASE mission.state = "validating"
  <2>1. M!Starts(k, "diff") /\ UNCHANGED mission
    BY <1>2, <1>3 DEF M!Continues, M!ResumesAt
  <2>2. PICK x \in Coroutine :
          /\ flow' = [flow EXCEPT ![k] = x] /\ x.pc = "diff" /\ x.generation = gate.generation
          /\ x.baseline = mission.baseline /\ x.scan = {}
    BY <2>1, FreshFits DEF M!Starts, Pcs
  <2>3. branch # M!Absent /\ mission.baseline = M!Dependency BY <1>3 DEF BranchFits, MissionFits
  <2>4. QED BY <1>1, <1>3, <2>1, <2>2, <2>3, Restarts, Distinct
            DEF Opens, BranchTyped, Preparing, Scanned, HandedOver, Approved, StateAt
<1>4. CASE mission.state = "review_required"
  <2>1. M!Starts(k, "review_diff") /\ UNCHANGED mission
    BY <1>2, <1>4 DEF M!Continues, M!ResumesAt
  <2>2. PICK x \in Coroutine :
          /\ flow' = [flow EXCEPT ![k] = x] /\ x.pc = "review_diff" /\ x.generation = gate.generation
          /\ x.baseline = mission.baseline /\ x.scan = {}
    BY <2>1, FreshFits DEF M!Starts, Pcs
  <2>3. branch # M!Absent /\ mission.baseline = M!Dependency
    BY <1>4 DEF BranchFits, MissionFits, HandedOver
  <2>4. flow'[k] = x /\ \A j \in M!Slots : j # k => flow'[j] = flow[j] BY <2>2 DEF BranchTyped
  <2>5. Mine' = Mine /\ Strays' = Strays BY <1>1, MadeStays
  <2>6. gate.generation \in Nat BY DEF BranchTyped
  <2>7. SlotFits(k)' BY <1>1, <2>1, <2>2, <2>3, <2>4, <2>6 DEF SlotFits, Opens
  <2>8. AwakeFits(k)'
    BY <1>4, <2>1, <2>2, <2>4 DEF AwakeFits, Awake, StateAt, Preparing, Scanned, Pushed
  <2>9. ASSUME NEW j \in M!Slots, j # k PROVE PairFits(j, k)' /\ PairFits(k, j)'
    <3>1. ~Awake(j)' BY <1>1, <2>4, <2>9 DEF Awake, Opens
    <3>2. QED BY <2>2, <2>4, <3>1 DEF PairFits, Committing, Pushed
  <2>10. \A j \in M!Slots : flow'[j].pc = "commit" => flow[j].pc = "commit" BY <2>2, <2>4
  <2>11. MissionFits' BY <1>1, <2>1, <2>5, <2>10 DEF BranchFits, MissionFits
  <2>12. QED BY <1>1, <2>1, <2>2, <2>7, <2>8, <2>9, <2>11, Proceeds DEF BranchTyped
<1>5. CASE mission.state \notin {"validating", "review_required"}
  <2>1. /\ mission' = [mission EXCEPT !.state = IF mission.state \in {"assigned", "running"}
                                               THEN "ready" ELSE mission.state]
        /\ UNCHANGED flow
    BY <1>2, <1>5 DEF M!Continues
  <2> DEFINE s == IF mission.state \in {"assigned", "running"} THEN "ready" ELSE mission.state
  <2>2. mission \in MissionRow BY DEF BranchTyped
  <2>3. mission' \in MissionRow /\ mission'.state = s /\ mission'.baseline = mission.baseline
    BY <2>1, <2>2 DEF MissionRow
  <2>4. QED BY <1>1, <2>1, <2>3, Stands DEF Opens
<1>6. QED BY <1>3, <1>4, <1>5

LEMMA ResumeFits ==
    ASSUME BranchTyped, BranchFits, NEW k \in M!Slots, M!Resume(k)
    PROVE  BranchTyped' /\ BranchFits'
<1>1. /\ gate.up /\ gate.paused /\ gate' = [gate EXCEPT !.paused = FALSE]
      /\ M!Continues(k) /\ RepositoryStays
  BY DEF M!Resume, M!git, M!past, RepositoryStays
<1>2. Opens BY <1>1 DEF Opens, BranchTyped, Gates
<1>3. QED BY <1>1, <1>2, ContinuesFits

LEMMA RestartFits ==
    ASSUME BranchTyped, BranchFits, NEW k \in M!Slots, M!Restart(k)
    PROVE  BranchTyped' /\ BranchFits'
<1>1. ~gate.up /\ gate' = [gate EXCEPT !.up = TRUE] /\ RepositoryStays
  BY DEF M!Restart, M!git, M!past, RepositoryStays
<1>2. gate' \in Gates /\ gate'.up /\ gate'.paused = gate.paused /\ gate'.generation = gate.generation
  BY <1>1 DEF BranchTyped, Gates
<1>3. \A j \in M!Slots : flow[j].pc = "idle" BY <1>1, NobodyWhen
<1>4. CASE gate.paused
  <2>1. UNCHANGED <<mission, flow>> BY <1>4 DEF M!Restart
  <2>2. QED BY <1>1, <1>2, <1>3, <2>1, Stands DEF BranchTyped
<1>5. CASE ~gate.paused /\ mission.state = "running"
  <2>1. M!Correct(k) BY <1>5 DEF M!Restart
  <2>2. GateFits BY <1>2 DEF GateFits
  <2>3. Alone(k) BY <1>3 DEF Alone, Awake
  <2>4. QED BY <1>1, <1>2, <1>5, <2>1, <2>2, <2>3, Corrects
<1>6. CASE ~gate.paused /\ mission.state # "running"
  <2>1. M!Continues(k) BY <1>6 DEF M!Restart
  <2>2. Opens BY <1>1, <1>2, <1>6 DEF Opens
  <2>3. QED BY <2>1, <2>2, ContinuesFits
<1>7. QED BY <1>4, <1>5, <1>6

\* The default branch gets a dependency, or a draft is merged or closed.
LEMMA PeopleFit ==
    ASSUME BranchTyped, BranchFits, M!MergeDependency \/ M!Merge \/ M!Close
    PROVE  BranchTyped' /\ BranchFits'
<1>1. UNCHANGED <<mission, gate, tree, branch, remote, flow, origin, scanned, reviewed, raced>>
  BY DEF M!MergeDependency, M!Merge, M!Close, M!git, M!past
<1>2. Mine' = Mine /\ Strays' = Strays BY <1>1, MadeStays
<1>3. \A k \in M!Slots : SlotFits(k)' /\ AwakeFits(k)'
  BY <1>1, <1>2 DEF BranchFits, SlotFits, AwakeFits, Awake
<1>4. \A j, k \in M!Slots : j # k => PairFits(j, k)'
  BY <1>1, <1>2 DEF BranchFits, PairFits, Awake
<1>5. pull \in PullRequest /\ pull.merged \subseteq 0..Len(origin) BY DEF BranchTyped
<1>6. remote \subseteq 0..Len(origin) /\ remote \in SUBSET Nat
  BY DEF BranchTyped, Copy, M!Absent
<1>7. CASE M!MergeDependency
  <2>1. base' = base \union M!Dependency /\ UNCHANGED pull BY <1>7 DEF M!MergeDependency, M!git
  <2>2. BranchTyped' BY <1>1, <1>5, <2>1 DEF BranchTyped, Copy
  <2>3. MissionFits' BY <1>1, <1>2, <2>1 DEF BranchFits, MissionFits
  <2>4. QED BY <1>3, <1>4, <2>2, <2>3 DEF BranchFits
<1>8. CASE M!Merge
  <2>1. /\ pull.state = "draft" /\ base' = base \union remote
        /\ pull' = [pull EXCEPT !.state = "merged", !.merged = remote,
                                !.early = mission.state # "completed"]
    BY <1>8 DEF M!Merge
  <2>2. /\ pull' \in PullRequest /\ pull'.merged = remote
        /\ ~pull'.early => mission.state = "completed"
    BY <1>5, <1>6, <2>1 DEF PullRequest
  <2>3. branch # M!Absent BY <2>1 DEF BranchFits, MissionFits
  <2>4. BranchTyped' BY <1>1, <1>6, <2>2 DEF BranchTyped, Copy
  <2>5. MissionFits'
    BY <1>1, <1>2, <2>2, <2>3 DEF BranchFits, MissionFits, HandedOver, Approved
  <2>6. QED BY <1>3, <1>4, <2>4, <2>5 DEF BranchFits
<1>9. CASE M!Close
  <2>1. pull.state = "draft" /\ pull' = [pull EXCEPT !.state = "closed"] /\ UNCHANGED base
    BY <1>9 DEF M!Close
  <2>2. pull' \in PullRequest /\ pull'.state = "closed" /\ pull'.merged = pull.merged
    BY <1>5, <2>1 DEF PullRequest
  <2>3. branch # M!Absent BY <2>1 DEF BranchFits, MissionFits
  <2>4. BranchTyped' BY <1>1, <1>5, <2>2 DEF BranchTyped, Copy
  <2>5. MissionFits' BY <1>1, <1>2, <2>1, <2>2, <2>3 DEF BranchFits, MissionFits
  <2>6. QED BY <1>3, <1>4, <2>4, <2>5 DEF BranchFits
<1>10. QED BY <1>7, <1>8, <1>9

-----------------------------------------------------------------------------
(* Commands that change the repository, and the files in the worktree       *)

\* A git command ends, whether its coroutine is fenced or not.
Commands == UNCHANGED <<base, mission, gate, pull, origin, scanned, reviewed>>

LEMMA CommandEnds ==
    ASSUME BranchTyped, BranchFits, NEW k \in M!Slots, NEW x \in Coroutine, Commands,
           flow' = [flow EXCEPT ![k] = x], x.generation = flow[k].generation,
           flow[k].pc # "idle", Copy(tree)', Copy(branch)', Copy(remote)'
    PROVE  /\ BranchTyped' /\ Mine' = Mine /\ Strays' = Strays /\ flow'[k] = x
           /\ \A j \in M!Slots : j # k => flow'[j] = flow[j]
           /\ \A j \in M!Slots : Awake(j)' => Awake(j)
<1>1. /\ flow' \in [M!Slots -> Coroutine] /\ flow'[k] = x
      /\ \A j \in M!Slots : j # k => flow'[j] = flow[j]
  BY DEF BranchTyped
<1>2. BranchTyped' BY <1>1 DEF BranchTyped, Commands
<1>3. Mine' = Mine /\ Strays' = Strays BY MadeStays DEF Commands
<1>4. \A j \in M!Slots : Awake(j)' => Awake(j) BY <1>1 DEF Awake, Commands
<1>5. QED BY <1>1, <1>2, <1>3, <1>4

LEMMA AddWorktreeFits ==
    ASSUME BranchTyped, BranchFits, NEW k \in M!Slots, M!AddWorktree(k)
    PROVE  BranchTyped' /\ BranchFits'
<1>1. /\ flow[k].pc = "add" /\ branch = M!Absent /\ SlotFits(k) /\ AwakeFits(k)
      /\ M!Goto(k, "added") /\ Commands /\ UNCHANGED <<remote, raced>>
  BY DEF M!AddWorktree, M!At, M!past, BranchFits, Commands
<1>2. flow[k].baseline = M!Dependency BY <1>1 DEF SlotFits
<1>3. branch' = M!Dependency /\ tree' = M!Dependency BY <1>2 DEF M!AddWorktree
<1>4. PICK x \in Coroutine : Comes(k, "added", x)
  <2>1. "added" \in Pcs BY DEF Pcs, Preparing
  <2>2. QED BY <1>1, <2>1, GotoFits
<1>5. Copy(branch)' /\ Copy(tree)' /\ Copy(remote)' /\ branch' # M!Absent
  <2>1. 1 \in 1..Len(origin) BY DEF BranchTyped
  <2>2. QED BY <1>1, <1>3, <2>1, Distinct DEF BranchTyped, Copy, M!Dependency, Commands
<1>6. /\ BranchTyped' /\ Mine' = Mine /\ Strays' = Strays /\ flow'[k] = x
      /\ \A j \in M!Slots : j # k => flow'[j] = flow[j]
      /\ \A j \in M!Slots : Awake(j)' => Awake(j)
  BY <1>1, <1>4, <1>5, CommandEnds DEF Comes
\* Without a branch nobody is past the preparation.
<1>7. ASSUME NEW j \in M!Slots
      PROVE  flow[j].pc \in {"idle", "ignore", "lookup", "compose", "merge_base", "add"}
  BY <1>1 DEF BranchFits, SlotFits
<1>8. ASSUME NEW j \in M!Slots PROVE SlotFits(j)' /\ AwakeFits(j)'
  <2>1. CASE j = k
    <3>1. SlotFits(k)' BY <1>1, <1>4, <1>5, <1>6 DEF SlotFits, Comes, Commands
    <3>2. AwakeFits(k)'
      BY <1>1, <1>4, <1>6
         DEF AwakeFits, Awake, Comes, Commands, StateAt, Preparing, Scanned, Pushed
    <3>3. QED BY <2>1, <3>1, <3>2
  <2>2. CASE j # k
    <3>1. flow'[j] = flow[j] /\ SlotFits(j) /\ AwakeFits(j) BY <1>6, <1>8, <2>2 DEF BranchFits
    <3>2. SlotFits(j)' BY <1>1, <1>5, <1>7, <1>8, <3>1 DEF SlotFits, Commands
    <3>3. AwakeFits(j)'
      BY <1>1, <1>7, <1>8, <3>1
         DEF AwakeFits, Awake, Commands, StateAt, Preparing, Scanned, Pushed
    <3>4. QED BY <3>2, <3>3
  <2>3. QED BY <2>1, <2>2
<1>9. \A j \in M!Slots : flow'[j].pc \notin {"push", "commit", "checks"}
  BY <1>4, <1>6, <1>7 DEF Comes
<1>10. \A i, j \in M!Slots : i # j => PairFits(i, j)' BY <1>6, <1>9 DEF BranchFits, PairFits
<1>11. MissionFits'
  <2>1. mission.baseline = M!Dependency BY <1>1, <1>2 DEF SlotFits
  <2>2. QED BY <1>1, <1>3, <1>5, <1>6, <2>1 DEF BranchFits, MissionFits, Commands, HandedOver, Approved
<1>12. QED BY <1>6, <1>8, <1>10, <1>11 DEF BranchFits

\* Checkout and Cleanup: the worktree is the branch, or is not there.
LEMMA WorktreeFits ==
    ASSUME BranchTyped, BranchFits, NEW k \in M!Slots, M!Checkout(k) \/ M!Cleanup(k)
    PROVE  BranchTyped' /\ BranchFits'
<1>1. PICK pc \in {"added", "cleaned"} :
        /\ M!Goto(k, pc) /\ flow[k].pc = IF pc = "added" THEN "checkout" ELSE "cleanup"
        /\ tree' = IF pc = "added" THEN branch ELSE M!Absent
  BY DEF M!Checkout, M!Cleanup, M!At
<1>2. /\ SlotFits(k) /\ AwakeFits(k) /\ Commands /\ UNCHANGED <<branch, remote, raced>>
  BY DEF M!Checkout, M!Cleanup, M!past, BranchFits, Commands
<1>3. branch # M!Absent BY <1>1, <1>2 DEF SlotFits
<1>4. PICK x \in Coroutine : Comes(k, pc, x)
  <2>1. pc \in Pcs BY DEF Pcs, Preparing
  <2>2. QED BY <1>1, <2>1, GotoFits
<1>5. Copy(branch)' /\ Copy(tree)' /\ Copy(remote)'
  BY <1>1, <1>2 DEF BranchTyped, Copy, Commands
<1>6. /\ BranchTyped' /\ Mine' = Mine /\ Strays' = Strays /\ flow'[k] = x
      /\ \A j \in M!Slots : j # k => flow'[j] = flow[j]
      /\ \A j \in M!Slots : Awake(j)' => Awake(j)
  BY <1>1, <1>2, <1>4, <1>5, CommandEnds DEF Comes
<1>7. tree' \intersect Mine \subseteq branch \intersect Mine /\ tree' \ branch \subseteq {0}
  BY <1>1, MadeFits DEF M!Absent
<1>8. ASSUME NEW j \in M!Slots PROVE SlotFits(j)' /\ AwakeFits(j)'
  <2>1. CASE j = k
    <3>1. SlotFits(k)' BY <1>1, <1>2, <1>3, <1>4, <1>6 DEF SlotFits, Comes, Commands
    <3>2. AwakeFits(k)'
      BY <1>1, <1>2, <1>4, <1>6
         DEF AwakeFits, Awake, Comes, Commands, StateAt, Preparing, Scanned, Pushed
    <3>3. QED BY <2>1, <3>1, <3>2
  <2>2. CASE j # k
    <3>1. flow'[j] = flow[j] /\ SlotFits(j) /\ AwakeFits(j) BY <1>6, <1>8, <2>2 DEF BranchFits
    <3>2. SlotFits(j)' BY <1>2, <1>6, <3>1 DEF SlotFits, Commands
    <3>3. AwakeFits(j)'
      BY <1>2, <1>6, <1>7, <3>1 DEF AwakeFits, Awake, Commands
    <3>4. QED BY <3>2, <3>3
  <2>3. QED BY <2>1, <2>2
<1>9. ASSUME NEW i \in M!Slots, NEW j \in M!Slots, i # j PROVE PairFits(i, j)'
  <2>1. i = k \/ j = k BY <1>9, Distinct
  <2>2. flow'[k].pc = pc /\ PairFits(i, j) BY <1>4, <1>6, <1>9 DEF Comes, BranchFits
  <2>3. tree' \ branch \subseteq Strays \union {0} BY <1>7
  <2>4. \A h \in M!Slots : h = k \/ flow'[h] = flow[h] BY <1>6
  <2>5. QED BY <1>2, <1>6, <2>1, <2>2, <2>3, <2>4 DEF PairFits, Commands
<1>10. MissionFits'
  BY <1>2, <1>3, <1>6, <1>7 DEF BranchFits, MissionFits, Commands
<1>11. QED BY <1>6, <1>8, <1>9, <1>10 DEF BranchFits

LEMMA CommitFits ==
    ASSUME BranchTyped, BranchFits, NEW k \in M!Slots, M!Commit(k)
    PROVE  BranchTyped' /\ BranchFits'
<1>1. /\ flow[k].pc = "commit" /\ tree # M!Absent /\ tree # branch
      /\ branch' = tree /\ tree' = tree /\ remote' = remote
      /\ raced' = (raced \/ (M!Fenced(k) /\ \E j \in M!Slots : flow[j].pc = "status"))
      /\ M!Goto(k, "committed") /\ Commands /\ SlotFits(k) /\ AwakeFits(k)
  BY DEF M!Commit, M!At, BranchFits, Commands
<1>2. branch # M!Absent BY <1>1 DEF SlotFits
<1>3. PICK x \in Coroutine : Comes(k, "committed", x)
  <2>1. "committed" \in Pcs BY DEF Pcs, Scanned
  <2>2. QED BY <1>1, <2>1, GotoFits
<1>4. Copy(branch)' /\ Copy(tree)' /\ Copy(remote)' BY <1>1 DEF BranchTyped, Copy, Commands
<1>5. /\ BranchTyped' /\ Mine' = Mine /\ Strays' = Strays /\ flow'[k] = x
      /\ \A j \in M!Slots : j # k => flow'[j] = flow[j]
      /\ \A j \in M!Slots : Awake(j)' => Awake(j)
  BY <1>1, <1>3, <1>4, CommandEnds DEF Comes
<1>6. 0 \notin tree BY <1>1 DEF BranchTyped, Copy
\* What is committed beyond the branch is no author's when it is only strays'.
<1>7. ASSUME tree \ branch \subseteq Strays \union {0}
      PROVE  tree \intersect Mine \subseteq branch /\ tree \subseteq branch \union Strays
  BY <1>6, <1>7, MadeFits
<1>8. ASSUME NEW j \in M!Slots, j # k PROVE SlotFits(j)' /\ AwakeFits(j)'
  <2>1. /\ flow'[j] = flow[j] /\ SlotFits(j) /\ AwakeFits(j) /\ PairFits(j, k) /\ PairFits(k, j)
        /\ Awake(j)' = Awake(j)
    BY <1>1, <1>5, <1>8 DEF BranchFits, Awake, Commands
  <2>2. SlotFits(j)'
    <3>1. flow[j].pc = "push" => raced \/ tree \intersect Mine \subseteq scanned
      BY <1>1, <2>1 DEF PairFits
    <3>2. QED BY <1>1, <1>5, <2>1, <3>1 DEF SlotFits, Commands
  <2>3. ASSUME Awake(j)
        PROVE  /\ flow[j].pc = "status" => raced'
               /\ flow[j].pc \in Pushed => raced \/ tree \intersect Mine \subseteq remote
               /\ flow[j].pc = "review" => tree \subseteq flow[j].seen \union Strays
    <3>1. M!Fenced(k)
      <4>1. ~Awake(k) BY <2>1, <2>3 DEF PairFits
      <4>2. QED BY <1>1, <4>1, SlotTyped
    <3>2. flow[j].pc = "status" => raced' BY <1>1, <1>8, <3>1
    <3>3. ASSUME flow[j].pc \in Pushed PROVE raced \/ tree \intersect Mine \subseteq remote
      <4>1. tree \ branch \subseteq Strays \union {0}
        BY <1>1, <2>1, <2>3, <3>3 DEF PairFits, Committing
      <4>2. raced \/ branch \intersect Mine \subseteq remote BY <2>1, <2>3, <3>3 DEF AwakeFits
      <4>3. QED BY <1>7, <4>1, <4>2
    <3>4. ASSUME flow[j].pc = "review" PROVE tree \subseteq flow[j].seen \union Strays
      <4>1. mission.state = "review_required" BY <2>1, <2>3, <3>4 DEF AwakeFits, StateAt, Preparing, Scanned
      <4>2. tree \ branch \subseteq Strays \union {0}
        BY <1>1, <4>1 DEF BranchFits, MissionFits, HandedOver
      <4>3. branch \subseteq flow[j].seen \union Strays BY <2>1, <2>3, <3>4 DEF AwakeFits
      <4>4. QED BY <1>7, <4>2, <4>3
    <3>5. QED BY <3>2, <3>3, <3>4
  <2>4. AwakeFits(j)' BY <1>1, <1>5, <2>1, <2>3 DEF AwakeFits, Commands
  <2>5. QED BY <2>2, <2>4
<1>9. SlotFits(k)' /\ AwakeFits(k)'
  <2>1. SlotFits(k)' BY <1>1, <1>2, <1>3, <1>5 DEF SlotFits, Comes, Commands
  <2>2. AwakeFits(k)'
    BY <1>1, <1>3, <1>5
       DEF AwakeFits, Awake, Comes, Commands, StateAt, Preparing, Scanned, Pushed
  <2>3. QED BY <2>1, <2>2
<1>10. ASSUME NEW i \in M!Slots, NEW j \in M!Slots, i # j PROVE PairFits(i, j)'
  <2>1. i = k \/ j = k BY <1>10, Distinct
  <2>2. flow'[k].pc = "committed" /\ PairFits(i, j) BY <1>3, <1>5, <1>10 DEF Comes, BranchFits
  <2>3. tree' \ branch' = {} BY <1>1
  <2>4. \A h \in M!Slots : h = k \/ flow'[h] = flow[h] BY <1>5
  <2>5. QED BY <1>1, <1>5, <2>1, <2>2, <2>3, <2>4 DEF PairFits, Commands
<1>11. MissionFits'
  <2>1. /\ mission.state \in HandedOver => tree \ branch \subseteq Strays \union {0}
        /\ mission.state = "completed" => mission.state \in HandedOver
        /\ mission.state \in Approved => mission.state \in HandedOver
    BY <1>1 DEF BranchFits, MissionFits, HandedOver, Approved
  <2>2. tree' \ branch' = {} /\ branch' # M!Absent BY <1>1
  <2>3. mission.baseline = M!Dependency BY <1>2 DEF BranchFits, MissionFits
  <2>4. QED BY <1>1, <1>2, <1>5, <1>7, <2>1, <2>2, <2>3 DEF BranchFits, MissionFits, Commands
<1>12. QED BY <1>5, <1>8, <1>9, <1>10, <1>11 DEF BranchFits

LEMMA PushFits ==
    ASSUME BranchTyped, BranchFits, NEW k \in M!Slots, M!Push(k)
    PROVE  BranchTyped' /\ BranchFits'
<1>1. /\ flow[k].pc = "push" /\ remote' = branch /\ UNCHANGED <<tree, branch, raced>>
      /\ M!Goto(k, "list") /\ Commands /\ SlotFits(k) /\ AwakeFits(k)
  BY DEF M!Push, M!At, M!past, BranchFits, Commands
<1>2. branch # M!Absent /\ (raced \/ branch \intersect Mine \subseteq scanned)
  BY <1>1 DEF SlotFits
<1>3. PICK x \in Coroutine : Comes(k, "list", x)
  <2>1. "list" \in Pcs BY DEF Pcs, Scanned
  <2>2. QED BY <1>1, <2>1, GotoFits
<1>4. Copy(branch)' /\ Copy(tree)' /\ Copy(remote)' BY <1>1 DEF BranchTyped, Copy, Commands
<1>5. /\ BranchTyped' /\ Mine' = Mine /\ Strays' = Strays /\ flow'[k] = x
      /\ \A j \in M!Slots : j # k => flow'[j] = flow[j]
      /\ \A j \in M!Slots : Awake(j)' => Awake(j)
  BY <1>1, <1>3, <1>4, CommandEnds DEF Comes
<1>6. ASSUME NEW j \in M!Slots PROVE SlotFits(j)' /\ AwakeFits(j)'
  <2>1. CASE j = k
    <3>1. SlotFits(k)' BY <1>1, <1>2, <1>3, <1>5 DEF SlotFits, Comes, Commands
    <3>2. AwakeFits(k)'
      BY <1>1, <1>3, <1>5
         DEF AwakeFits, Awake, Comes, Commands, StateAt, Preparing, Scanned, Pushed
    <3>3. QED BY <2>1, <3>1, <3>2
  <2>2. CASE j # k
    <3>1. flow'[j] = flow[j] /\ SlotFits(j) /\ AwakeFits(j) BY <1>5, <1>6, <2>2 DEF BranchFits
    <3>2. QED BY <1>1, <1>5, <3>1 DEF SlotFits, AwakeFits, Awake, Commands
  <2>3. QED BY <2>1, <2>2
<1>7. ASSUME NEW i \in M!Slots, NEW j \in M!Slots, i # j PROVE PairFits(i, j)'
  <2>1. i = k \/ j = k BY <1>7, Distinct
  <2>2. flow'[k].pc = "list" /\ PairFits(i, j) BY <1>3, <1>5, <1>7 DEF Comes, BranchFits
  <2>3. \A h \in M!Slots : h = k \/ flow'[h] = flow[h] BY <1>5
  <2>4. QED BY <1>1, <1>5, <2>1, <2>2, <2>3 DEF PairFits, Commands, Committing, Pushed
<1>8. \A j \in M!Slots : flow'[j].pc = "commit" => flow[j].pc = "commit" BY <1>3, <1>5 DEF Comes
<1>9. MissionFits' BY <1>1, <1>2, <1>5, <1>8 DEF BranchFits, MissionFits, Commands
<1>10. QED BY <1>5, <1>6, <1>7, <1>9 DEF BranchFits

\* A file of the worktree changes: an author's while it runs, a check's, or a stray's.
LEMMA ChangeFits ==
    ASSUME BranchTyped, BranchFits, NEW by \in {"author", "check", "stray"}, NEW allowed \in BOOLEAN,
           M!Change(by, allowed),
           by = "author" => \E k \in M!Slots : flow[k].pc = "author" /\ Awake(k),
           by = "check" => \E k \in M!Slots : flow[k].pc = "checks"
    PROVE  BranchTyped' /\ BranchFits'
<1> DEFINE n == Len(origin) + 1
<1>1. /\ tree # M!Absent /\ tree' = tree \union {n}
      /\ origin' = Append(origin, [by |-> by, allowed |-> allowed])
      /\ UNCHANGED <<base, mission, gate, branch, remote, pull, flow, scanned, reviewed, raced>>
  BY DEF M!Change
<1>2. /\ origin' \in Seq(Changes) /\ Len(origin') = n /\ origin'[1] = origin[1]
      /\ Mine' = IF by = "author" THEN Mine \union {n} ELSE Mine
      /\ Strays' = IF by = "stray" THEN Strays \union {n} ELSE Strays
  BY <1>1, MadeGrows
<1>3. Len(origin) \in Nat /\ n \in Nat /\ 1..Len(origin) \subseteq 1..n /\ n \in 1..n /\ n \notin 0..Len(origin)
  BY DEF BranchTyped
<1> HIDE DEF n
<1>4. /\ Copy(tree)' /\ Copy(branch)' /\ Copy(remote)'
      /\ n \notin branch /\ n \notin remote /\ 0..Len(origin) \subseteq 0..n
  BY <1>1, <1>2, <1>3 DEF BranchTyped, Copy, M!Absent
<1>5. BranchTyped' BY <1>1, <1>2, <1>3, <1>4 DEF BranchTyped
<1>6. /\ branch \intersect Mine' = branch \intersect Mine
      /\ remote \intersect Mine' = remote \intersect Mine
      /\ by # "author" => Mine' = Mine /\ n \notin Mine
      /\ by = "stray" => tree' \ branch \subseteq (tree \ branch) \union Strays'
      /\ Strays \subseteq Strays'
  BY <1>1, <1>2, <1>3, <1>4, MadeFits
<1>7. \A j \in M!Slots : Awake(j)' = Awake(j) BY <1>1 DEF Awake
<1>8. ASSUME NEW j \in M!Slots PROVE SlotFits(j)' /\ AwakeFits(j)'
  <2>1. SlotFits(j) /\ AwakeFits(j) BY DEF BranchFits
  <2>2. SlotFits(j)' BY <1>1, <1>6, <2>1 DEF SlotFits
  <2>3. CASE by = "author"
    <3>1. Awake(j) => flow[j].pc = "author"
      BY <2>3 DEF BranchFits, PairFits
    <3>2. AwakeFits(j)'
      BY <1>1, <1>7, <2>1, <3>1 DEF AwakeFits, StateAt, Preparing, Scanned, Pushed
    <3>3. QED BY <2>2, <3>2
  <2>4. CASE by # "author"
    <3>1. (tree' \union branch) \intersect Mine' = (tree \union branch) \intersect Mine
      BY <1>1, <1>6, <2>4
    <3>2. AwakeFits(j)' BY <1>1, <1>6, <1>7, <2>1, <3>1 DEF AwakeFits
    <3>3. QED BY <2>2, <3>2
  <2>5. QED BY <2>3, <2>4
<1>9. ASSUME NEW i \in M!Slots, NEW j \in M!Slots, i # j PROVE PairFits(i, j)'
  <2>1. PairFits(i, j) BY <1>9 DEF BranchFits
  <2>2. CASE by = "stray"
    <3>1. tree' \intersect Mine' = tree \intersect Mine BY <1>1, <1>6, <2>2
    <3>2. QED BY <1>1, <1>6, <1>7, <2>1, <2>2, <3>1 DEF PairFits
  <2>3. CASE by # "stray"
    \* One of the two is the one that runs an author or a check.
    <3>1. PICK k \in M!Slots : flow[k].pc \in {"author", "checks"} BY <2>3
    <3>2. i = k \/ j = k BY <1>9, Distinct
    <3>3. QED BY <1>1, <1>7, <2>1, <3>1, <3>2 DEF PairFits, Committing, Pushed
  <2>4. QED BY <2>2, <2>3
<1>10. MissionFits'
  <2>1. CASE by = "stray" BY <1>1, <1>6, <2>1 DEF BranchFits, MissionFits
  <2>2. CASE by = "check"
    <3>1. PICK k \in M!Slots : flow[k].pc = "checks" BY <2>2
    <3>2. ASSUME mission.state \in HandedOver, NEW j \in M!Slots PROVE flow[j].pc # "commit"
      BY <3>1, <3>2 DEF BranchFits, PairFits
    <3>3. QED BY <1>1, <1>6, <2>2, <3>2 DEF BranchFits, MissionFits
  <2>3. CASE by = "author"
    <3>1. mission.state = "running"
      BY <2>3 DEF BranchFits, AwakeFits, StateAt, Preparing
    <3>2. QED BY <1>1, <1>6, <3>1 DEF BranchFits, MissionFits, HandedOver, Approved
  <2>4. QED BY <2>1, <2>2, <2>3
<1>11. QED BY <1>5, <1>8, <1>9, <1>10 DEF BranchFits

LEMMA WritesFit ==
    ASSUME BranchTyped, BranchFits,
           M!StrayWrites \/ \E k \in M!Slots : M!AuthorWrites(k) \/ M!CheckWrites(k)
    PROVE  BranchTyped' /\ BranchFits'
<1>1. CASE M!StrayWrites BY <1>1, ChangeFits DEF M!StrayWrites
<1>2. ASSUME NEW k \in M!Slots, M!AuthorWrites(k) PROVE BranchTyped' /\ BranchFits'
  <2>1. flow[k].pc = "author" /\ ~M!Fenced(k) BY <1>2 DEF M!AuthorWrites, M!At
  <2>2. Awake(k) BY <2>1, SlotTyped
  <2>3. QED BY <1>2, <2>1, <2>2, ChangeFits DEF M!AuthorWrites
<1>3. ASSUME NEW k \in M!Slots, M!CheckWrites(k) PROVE BranchTyped' /\ BranchFits'
  BY <1>3, ChangeFits DEF M!CheckWrites, M!At
<1>4. QED BY <1>1, <1>2, <1>3

LEMMA NothingChanges ==
    ASSUME BranchTyped, BranchFits,
           UNCHANGED <<base, mission, gate, tree, branch, remote, pull, flow, origin, scanned, reviewed, raced>>
    PROVE  BranchTyped' /\ BranchFits'
<1>1. Mine' = Mine /\ Strays' = Strays BY MadeStays
<1>2. BranchTyped' BY DEF BranchTyped, Copy
<1>3. \A k \in M!Slots : SlotFits(k)' /\ AwakeFits(k)'
  BY <1>1 DEF BranchFits, SlotFits, AwakeFits, Awake
<1>4. \A j, k \in M!Slots : j # k => PairFits(j, k)'
  BY <1>1 DEF BranchFits, PairFits, Awake
<1>5. MissionFits' BY <1>1 DEF BranchFits, MissionFits
<1>6. QED BY <1>2, <1>3, <1>4, <1>5 DEF BranchFits

LEMMA BranchNext ==
    ASSUME BranchTyped, BranchFits, [M!Next]_(M!vars) PROVE BranchTyped' /\ BranchFits'
<1>1. CASE UNCHANGED (M!vars)
  <2>1. UNCHANGED <<base, mission, gate, tree, branch, remote, pull, flow, origin, scanned, reviewed, raced>>
    BY <1>1 DEF M!vars, M!git, M!past
  <2>2. QED BY <2>1, NothingChanges
<1>2. ASSUME NEW k \in M!Slots, M!Steps(k) PROVE BranchTyped' /\ BranchFits'
  BY <1>2, IgnoredFits, LookupFits, ComposeFits, AddWorktreeFits, WorktreeFits, AddedFits, MergeBaseFits,
     FailuresFit, AuthorEndsFits, DiffFits, StatusFits, ChecksEndFits, CleanFits, CommitFits, CommittedFits,
     PushFits, PullsFit, RecordedFits, ReviewDiffFits, ApprovesFits, CompletesFits
     DEF M!Steps
<1>3. ASSUME NEW k \in M!Slots, M!Schedule(k) \/ M!Resume(k) \/ M!Restart(k)
      PROVE  BranchTyped' /\ BranchFits'
  BY <1>3, ScheduleFits, ResumeFits, RestartFits
<1>4. CASE M!StrayExits
  <2>1. UNCHANGED <<base, mission, gate, tree, branch, remote, pull, flow, origin, scanned, reviewed, raced>>
    BY <1>4 DEF M!StrayExits, M!git, M!past
  <2>2. QED BY <2>1, NothingChanges
<1>5. QED
  BY <1>1, <1>2, <1>3, <1>4, WritesFit, PauseFits, CrashFits, UnblockFits, PeopleFit DEF M!Next

LEMMA BranchServes ==
    ASSUME BranchTyped, BranchFits PROVE M!PublishedIsScanned /\ M!CompletedIsPublished
<1>1. M!PublishedIsScanned
  BY DEF BranchFits, MissionFits, M!PublishedIsScanned, Mine, M!Dependency
<1>2. ASSUME mission.state \in {"integrated", "completed"}
      PROVE  /\ branch \subseteq reviewed \union Strays
             /\ raced \/ pull.early \/ branch \intersect Mine \subseteq
                                         (IF pull.state = "merged" THEN pull.merged ELSE remote)
  <2>1. /\ branch \subseteq reviewed \union Strays
        /\ raced \/ branch \intersect Mine \subseteq remote
        /\ pull.state = "merged" /\ ~pull.early => raced \/ branch \intersect Mine \subseteq pull.merged
    BY <1>2 DEF BranchFits, MissionFits, HandedOver, Approved
  <2>2. QED BY <2>1
<1>3. M!CompletedIsPublished BY <1>2 DEF M!CompletedIsPublished, Mine, Strays
<1>4. QED BY <1>1, <1>3

\* What is on GitHub of a mission passed the scan of its own changes, and no scan took a
\* dependency's change for the mission's, at whichever await it is paused or dies.
THEOREM PublishedWasScanned == EdgesSpec => []PublishedIsScanned
<1> DEFINE Invariant == part = "repository" => BranchTyped /\ BranchFits
<1>1. EdgesInit => Invariant BY EdgesStart, BranchInit
<1>2. Invariant /\ [EdgesNext]_edgesVars => Invariant' BY EdgesMove, BranchNext
<1>3. Invariant => PublishedIsScanned BY BranchServes DEF PublishedIsScanned
<1> HIDE DEF Invariant
<1>4. QED BY <1>1, <1>2, <1>3, PTL DEF EdgesSpec

\* A mission is integrated on what its reviewer saw, and its author's work is then in
\* the pull request's branch or was merged with it.
THEOREM CompletedWasPublished == EdgesSpec => []CompletedIsPublished
<1> DEFINE Invariant == part = "repository" => BranchTyped /\ BranchFits
<1>1. EdgesInit => Invariant BY EdgesStart, BranchInit
<1>2. Invariant /\ [EdgesNext]_edgesVars => Invariant' BY EdgesMove, BranchNext
<1>3. Invariant => CompletedIsPublished BY BranchServes DEF CompletedIsPublished
<1> HIDE DEF Invariant
<1>4. QED BY <1>1, <1>2, <1>3, PTL DEF EdgesSpec

-----------------------------------------------------------------------------
(* PlanProposal: an accepted plan.                                          *)

\* The plan that p was written as.
Written(p) ==
    /\ V!ValidatePlanProposal(p)
    /\ plan = [i \in DOMAIN p |-> V!Contract(p[i])]
    /\ planner = "lost" => V!Repeats(p)
    /\ state \in [DOMAIN p -> {"proposed", "ready", "completed"}]

\* What is written was validated against the repository's checks, which stay.
PlanFits ==
    /\ bounds \in Proposals
    /\ planner \in {"list", "read", "propose", "blocked", "accepted", "lost"}
    /\ planner \in {"accepted", "lost"} => \E p \in bounds.proposals : Written(p)

LEMMA PlanInit == V!Init => PlanFits
BY DEF V!Init, PlanFits

LEMMA PlanNext == PlanFits /\ [V!Next]_(V!vars) => PlanFits'
<1> SUFFICES ASSUME PlanFits, [V!Next]_(V!vars) PROVE PlanFits' OBVIOUS
<1>1. CASE UNCHANGED <<bounds, repo, checks, planner, plan, state>>
  <2>1. ASSUME NEW p \in bounds.proposals, Written(p) PROVE Written(p)'
    <3>1. \A i \in DOMAIN p : V!Contract(p[i])' = V!Contract(p[i]) BY <1>1 DEF V!Contract
    <3>2. V!ValidatePlanProposal(p)'
      BY <1>1, <2>1 DEF Written, V!ValidatePlanProposal, V!CriteriaAreCovered, V!MissionIsValid, V!IsCommandAllowed
    <3>3. QED BY <1>1, <2>1, <3>1, <3>2 DEF Written
  <2>2. QED BY <1>1, <2>1 DEF PlanFits
<1>2. CASE V!Edit \/ V!List \/ V!Read
  BY <1>2 DEF PlanFits, V!Edit, V!List, V!Read
<1>3. CASE V!Propose
  <2>1. PICK p \in bounds.proposals :
           IF ~V!ValidatePlanProposal(p)
           THEN /\ planner' = IF repairs < bounds.repairs THEN "propose" ELSE "blocked"
                /\ UNCHANGED <<plan, state>>
           ELSE /\ planner' = IF V!Repeats(p) THEN "lost" ELSE "accepted"
                /\ plan' = [i \in DOMAIN p |-> V!Contract(p[i])]
                /\ state' = [i \in DOMAIN p |-> "proposed"]
    BY <1>3 DEF V!Propose
  <2>2. UNCHANGED <<bounds, repo, checks>> BY <1>3 DEF V!Propose
  <2>3. CASE ~V!ValidatePlanProposal(p) BY <2>1, <2>2, <2>3 DEF PlanFits
  <2>4. CASE V!ValidatePlanProposal(p)
    <3>1. V!ValidatePlanProposal(p)'
      BY <2>2, <2>4 DEF V!ValidatePlanProposal, V!CriteriaAreCovered, V!MissionIsValid, V!IsCommandAllowed
    <3>2. plan' = [i \in DOMAIN p |-> V!Contract(p[i])'] BY <2>1, <2>2, <2>4 DEF V!Contract
    <3>3. /\ planner' \in {"lost", "accepted"} /\ (planner' = "lost" => V!Repeats(p))
          /\ state' \in [DOMAIN p -> {"proposed", "ready", "completed"}]
      BY <2>1, <2>4
    <3>4. Written(p)' BY <3>1, <3>2, <3>3 DEF Written
    <3>5. QED BY <2>2, <3>3, <3>4 DEF PlanFits
  <2>5. QED BY <2>3, <2>4
<1>4. CASE V!Promote \/ \E i \in DOMAIN plan : V!Work(i)
  <2>1. UNCHANGED <<bounds, repo, checks, planner, plan>> /\ planner = "accepted"
    BY <1>4 DEF V!Promote, V!Work
  <2>2. PICK p \in bounds.proposals : Written(p) BY <2>1 DEF PlanFits
  <2>3. DOMAIN plan = DOMAIN p BY <2>2 DEF Written
  <2>4. state' \in [DOMAIN p -> {"proposed", "ready", "completed"}]
    BY <1>4, <2>2, <2>3 DEF V!Promote, V!Work, Written
  <2>5. Written(p)'
    BY <2>1, <2>2, <2>4 DEF Written, V!ValidatePlanProposal, V!CriteriaAreCovered, V!MissionIsValid,
                            V!IsCommandAllowed, V!Contract
  <2>6. QED BY <2>1, <2>5 DEF PlanFits
<1>5. QED BY <1>1, <1>2, <1>3, <1>4 DEF V!Next, V!vars

\* What the contract of a mission keeps and what it changes.
LEMMA Contracts ==
    ASSUME bounds \in Proposals, NEW p \in bounds.proposals, NEW i \in DOMAIN p
    PROVE  LET m == p[i]  c == V!Contract(p[i]) IN
           /\ c.key = m.key /\ c.dependsOn = m.dependsOn /\ c.covers = m.covers
           /\ c.required = m.required /\ c.commands = m.commands /\ c.artifacts = m.artifacts
           /\ c.changes <=> m.changes /\ repo.there
<1>1. /\ DOMAIN p[i] = {"key", "objective", "milestone", "dependsOn", "covers", "allowed", "forbidden",
                        "required", "commands", "artifacts", "changes", "budget"}
      /\ p[i] = [field \in DOMAIN p[i] |-> p[i][field]]
  BY ProposedAssumption
<1>2. QED BY <1>1 DEF V!Contract

\* Of the missions of a plan without a cycle that have not completed, one can go on.
LEMMA SomeGoesOn ==
    ASSUME bounds \in Proposals, NEW p \in bounds.proposals, Written(p),
           NEW some \in DOMAIN p, state[some] # "completed"
    PROVE  \E i \in DOMAIN plan : state[i] = "ready" \/ V!Unblocked(i)
<1> DEFINE next == [k \in V!Keys(p) |-> V!Successors(p, k)]
           Open == {p[i].key : i \in {j \in DOMAIN p : state[j] # "completed"}}
<1>1. /\ DOMAIN plan = DOMAIN p
      /\ \A i \in DOMAIN p : plan[i].key = p[i].key /\ plan[i].dependsOn = p[i].dependsOn
  BY Contracts DEF Written
<1>2. V!NoCycle(next) BY DEF Written, V!ValidatePlanProposal, V!IsAcyclic
<1>3. Open \in (SUBSET DOMAIN next) \ {{}} BY DEF V!Keys
<1>4. PICK k \in Open : next[k] \intersect Open = {} BY <1>2, <1>3 DEF V!NoCycle
<1>5. PICK i \in DOMAIN p : p[i].key = k /\ state[i] # "completed" BY <1>4
<1>6. V!ToSet(p[i].dependsOn) \intersect Open = {}
  <2>1. next[k] = V!Successors(p, k) BY <1>3, <1>4
  <2>2. V!ToSet(p[i].dependsOn) \subseteq V!Successors(p, k) BY <1>5 DEF V!Successors
  <2>3. QED BY <1>4, <2>1, <2>2
<1>7. \A j \in DOMAIN plan : plan[j].key \in V!ToSet(plan[i].dependsOn) => state[j] = "completed"
  BY <1>1, <1>6
<1>8. state[i] \in {"proposed", "ready", "completed"} BY DEF Written
<1>9. QED BY <1>1, <1>5, <1>7, <1>8 DEF V!Unblocked

\* A validated mission that does not exclude what it must write can pass its validation.
LEMMA CanPass ==
    ASSUME bounds \in Proposals, NEW p \in bounds.proposals, Written(p), NEW i \in DOMAIN p
    PROVE  V!CanComplete(plan[i]) \/ V!ContradictsItself(plan[i])
<1> SUFFICES ASSUME ~V!ContradictsItself(plan[i]) PROVE V!CanComplete(plan[i]) OBVIOUS
<1> DEFINE m == plan[i]
           paths == {a.path : a \in m.artifacts}
<1>1. /\ V!MissionIsValid(p[i])
      /\ m.required = p[i].required /\ m.commands = p[i].commands /\ m.artifacts = p[i].artifacts
      /\ m.changes <=> p[i].changes /\ repo.there
  BY Contracts DEF Written, V!ValidatePlanProposal
<1>2. /\ \A a \in m.artifacts : V!IsPathAllowed(m, a.path)
      /\ m.changes => \E f \in V!Writable(m) : V!IsPathAllowed(m, f)
  BY DEF V!ContradictsItself
<1>3. \A k \in m.required :
          /\ k \in DOMAIN m.commands /\ V!IsCommandAllowed(m.commands[k])
          /\ repo.there /\ k \in DOMAIN checks /\ checks[k] = m.commands[k]
  BY <1>1 DEF V!MissionIsValid
<1>4. paths \subseteq V!Writable(m) BY DEF V!Writable
<1> HIDE DEF m
<1>5. CASE m.changes
  <2>1. PICK f \in V!Writable(m) : V!IsPathAllowed(m, f) BY <1>2, <1>5
  <2>2. V!Validates(m, paths \union {f}) BY <1>2, <1>3, <1>5, <2>1 DEF V!Validates
  <2>3. paths \union {f} \in SUBSET V!Writable(m) BY <1>4, <2>1
  <2>4. QED BY <2>2, <2>3 DEF V!CanComplete, m
<1>6. CASE ~m.changes
  <2>1. repo.there => m.artifacts = {} BY <1>1, <1>6 DEF V!MissionIsValid
  <2>2. V!Validates(m, {}) BY <1>3, <1>6, <2>1 DEF V!Validates
  <2>3. QED BY <2>2 DEF V!CanComplete, m
<1>7. QED BY <1>5, <1>6

\* Every criterion is covered by a mission.
LEMMA AllIsCovered ==
    ASSUME bounds \in Proposals, NEW p \in bounds.proposals, Written(p)
    PROVE  0..(bounds.criteria - 1) \ UNION {plan[i].covers : i \in DOMAIN plan} = {}
<1>1. DOMAIN plan = DOMAIN p /\ \A i \in DOMAIN p : plan[i].covers = p[i].covers
  BY Contracts DEF Written
<1>2. UNION {plan[i].covers : i \in DOMAIN plan} = UNION {p[i].covers : i \in DOMAIN p} BY <1>1
<1>3. bounds.criteria \in Nat BY ProposedAssumption
<1>4. CASE bounds.criteria > 0
  BY <1>2, <1>4 DEF Written, V!ValidatePlanProposal, V!CriteriaAreCovered
<1>5. CASE bounds.criteria = 0 BY <1>5
<1>6. QED BY <1>3, <1>4, <1>5

LEMMA PlanServes == PlanFits => V!AcceptedPlansAreWorkable
<1> SUFFICES ASSUME PlanFits, planner \in {"accepted", "lost"} PROVE V!AcceptedPlansAreWorkable
  BY DEF V!AcceptedPlansAreWorkable
<1>1. PICK p \in bounds.proposals : Written(p) BY DEF PlanFits
<1>2. bounds \in Proposals BY DEF PlanFits
<1>3. DOMAIN plan = DOMAIN p BY <1>1 DEF Written
<1>4. planner = "lost" => V!Repeats(plan)
  <2>1. \A i \in DOMAIN p : plan[i].dependsOn = p[i].dependsOn BY <1>1, <1>2, Contracts DEF Written
  <2>2. QED BY <1>1, <1>3, <2>1 DEF Written, V!Repeats
<1>5. \/ \A i \in DOMAIN plan : state[i] = "completed"
      \/ \E i \in DOMAIN plan : state[i] = "ready" \/ V!Unblocked(i)
  BY <1>1, <1>2, <1>3, SomeGoesOn
<1>6. \A i \in DOMAIN plan : V!CanComplete(plan[i]) \/ V!ContradictsItself(plan[i])
  BY <1>1, <1>2, <1>3, CanPass
<1>7. 0..(bounds.criteria - 1) \ UNION {plan[i].covers : i \in DOMAIN plan} = {}
  BY <1>1, <1>2, AllIsCovered
<1>8. QED BY <1>4, <1>5, <1>6, <1>7 DEF V!AcceptedPlansAreWorkable

\* A plan that validation accepts can be carried out, whatever repository it is for and
\* whatever was proposed: one of its missions can always go on until all have completed,
\* a started one can pass its validation unless its own paths exclude what it must
\* write, and every criterion is covered (validatePlanProposal, assertAcyclic,
\* createBrainPlan, unblockedMissions, validateMission).
THEOREM AcceptedPlansWork == EdgesSpec => []AcceptedPlansAreWorkable
<1> DEFINE Invariant == part = "planning" => PlanFits
<1>1. EdgesInit => Invariant BY EdgesStart, PlanInit
<1>2. Invariant /\ [EdgesNext]_edgesVars => Invariant' BY EdgesMove, PlanNext
<1>3. Invariant => AcceptedPlansAreWorkable BY PlanServes DEF AcceptedPlansAreWorkable
<1> HIDE DEF Invariant
<1>4. QED BY <1>1, <1>2, <1>3, PTL DEF EdgesSpec

=============================================================================
