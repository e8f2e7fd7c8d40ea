---------------------------- MODULE Transitions ----------------------------
(***************************************************************************)
(* The transition tables of packages/orchestration/src/machines.ts: the    *)
(* only authority on legal state changes.  The store refuses, inside its   *)
(* transaction, every change these tables do not list; a refused change    *)
(* throws in the caller and leaves the row as it was.                      *)
(***************************************************************************)

MissionState ==
    {"proposed", "ready", "assigned", "running", "result_submitted",
     "validating", "review_required", "approved", "integrated", "completed",
     "paused", "blocked", "retrying", "cancelled", "failed"}

RunState ==
    {"queued", "starting", "running", "paused", "cancelling", "cancelled",
     "succeeded", "failed", "timed_out"}

ProjectStatus ==
    {"draft", "clarifying", "planning", "active", "paused", "blocked",
     "completed", "archived"}

\* MISSION_TRANSITIONS, read as the successors of one state.
MissionTransitions(from) ==
    CASE from = "proposed"         -> {"ready", "paused", "cancelled"}
      [] from = "ready"            -> {"assigned", "paused", "blocked", "cancelled"}
      [] from = "assigned"         -> {"running", "ready", "paused", "blocked", "cancelled"}
      [] from = "running"          -> {"result_submitted", "paused", "blocked",
                                       "retrying", "cancelled", "failed"}
      [] from = "result_submitted" -> {"validating", "paused", "cancelled"}
      [] from = "validating"       -> {"review_required", "retrying", "blocked",
                                       "failed", "paused", "cancelled"}
      [] from = "review_required"  -> {"approved", "retrying", "blocked",
                                       "failed", "paused", "cancelled"}
      [] from = "approved"         -> {"integrated", "blocked", "paused", "cancelled"}
      [] from = "integrated"       -> {"completed", "failed", "paused"}
      [] from = "paused"           -> {"proposed", "ready", "assigned", "running",
                                       "result_submitted", "validating",
                                       "review_required", "approved",
                                       "integrated", "blocked", "cancelled"}
      [] from = "blocked"          -> {"ready", "review_required", "paused",
                                       "cancelled", "failed"}
      [] from = "retrying"         -> {"assigned", "paused", "failed", "cancelled"}
      [] from = "failed"           -> {"retrying", "paused"}
      [] OTHER                     -> {}              \* completed, cancelled

\* RUN_TRANSITIONS.
RunTransitions(from) ==
    CASE from = "queued"     -> {"starting", "cancelled"}
      [] from = "starting"   -> {"running", "failed", "cancelling"}
      [] from = "running"    -> {"succeeded", "failed", "timed_out", "paused", "cancelling"}
      [] from = "paused"     -> {"running", "cancelling"}
      [] from = "cancelling" -> {"cancelled", "failed"}
      [] OTHER               -> {}                    \* the terminal states

\* PROJECT_TRANSITIONS.
ProjectTransitions(from) ==
    CASE from = "draft"      -> {"clarifying", "planning", "active", "paused", "archived"}
      [] from = "clarifying" -> {"planning", "clarifying", "paused", "blocked", "draft", "archived"}
      [] from = "planning"   -> {"active", "clarifying", "paused", "blocked", "archived"}
      [] from = "active"     -> {"paused", "blocked", "completed", "clarifying",
                                 "planning", "archived"}
      [] from = "paused"     -> {"active", "planning", "clarifying", "draft", "blocked", "archived"}
      [] from = "blocked"    -> {"planning", "active", "clarifying", "paused", "archived"}
      [] from = "completed"  -> {"archived"}
      [] OTHER               -> {}                    \* archived

CanTransitionMission(from, to) == to \in MissionTransitions(from)
CanTransitionRun(from, to)     == to \in RunTransitions(from)
CanTransitionProject(from, to) == to \in ProjectTransitions(from)

\* MISSION_PAUSEABLE_STATES: what an atomic project pause suspends.
MissionPauseable ==
    {"proposed", "ready", "assigned", "running", "result_submitted",
     "validating", "review_required", "approved", "integrated", "blocked",
     "retrying"}

\* RUN_CANCELLABLE_ON_PAUSE: the runs an atomic project pause cancels.
RunCancellableOnPause == {"queued", "starting", "running", "paused"}

\* Mutant: a submitted result resumes at its review.
ResumeAtReview(from) ==
    CASE from \in {"result_submitted", "validating"} -> "review_required"
      [] from \in {"running", "assigned", "retrying"} -> "ready"
      [] OTHER                                        -> from

\* Store.resumeMissionTarget: where a mission paused in state `from` goes.
ResumeMissionTarget(from) ==
    CASE from \in {"running", "assigned", "retrying"}       -> "ready"
      [] from \in {"result_submitted", "validating"}        -> "validating"
      [] from \in {"proposed", "ready", "review_required",
                   "approved", "integrated", "blocked"}     -> from
      [] OTHER                                              -> "ready"

\* The states of a dependency that let dag.ts promote its dependents.
Satisfied == {"completed", "integrated", "approved"}
=============================================================================
