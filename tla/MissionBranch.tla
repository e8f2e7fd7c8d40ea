---------------------------- MODULE MissionBranch ----------------------------
\* The git side of one mission: its worktree, its branch, the copy of it on
\* GitHub and the pull request, as Engine (services/control-plane/src/engine.ts)
\* prepares, scans, commits, publishes and reviews them with packages/git.
\* Every git and gh command is awaited, and takes effect whatever has happened
\* to its coroutine meanwhile.  MissionEngine has the mission's states in
\* detail; here they are those that decide what git does.
EXTENDS Naturals, Sequences, FiniteSets

CONSTANT
    Instances   \* the bounds TLC explores together, one record per instance:
                \*   readOnly: contract.workspaceChangesRequired is false
                \*   outlive: agents survive the control plane (ProviderRun)
                \*   edits, writes: changes agents and checks make, at most
                \*   attempts: corrections; pauses, crashes: how many at most

VARIABLES
    max,        \* the instance
    base,       \* the default branch
    mission,    \* the row: [state, baseline, attempts]
    gate,       \* [up, paused, generation, crashes]
    tree, branch, remote,   \* what each holds, or Absent
    pull,       \* the pull request on GitHub: [state, merged, early]
    stray,      \* an agent nobody waits for is still at work in the worktree
    flow,       \* the mission's coroutines
    origin,     \* every change ever made: [by, allowed]
    scanned, reviewed,      \* history: changes that passed a path scan; the branch approved
    raced       \* history: a fenced commit landed between the two reads of a scan

git == <<tree, branch, remote, pull>>
past == <<origin, scanned, reviewed, raced>>
vars == <<max, base, mission, gate, git, stray, flow, past>>

\* A branch is the set of the changes on it, numbered as they are made; the
\* first one is the branch of a completed dependency.
Absent == {0}
Dependency == {1}
Slots == 1..2   \* bound: coroutines at a time

Idle == [pc |-> "idle", generation |-> 0, baseline |-> Absent, scan |-> {}, seen |-> {}]

Init ==
    /\ max \in Instances
    /\ base = {}
    /\ mission = [state |-> "ready", baseline |-> Absent, attempts |-> 0]
    /\ gate = [up |-> TRUE, paused |-> FALSE, generation |-> 0, crashes |-> 0]
    /\ tree = Absent /\ branch = Absent /\ remote = Absent
    /\ pull = [state |-> "none", merged |-> {}, early |-> FALSE]
    /\ stray = FALSE
    /\ flow = [k \in Slots |-> Idle]
    /\ origin = <<[by |-> "dependency", allowed |-> TRUE]>>
    /\ scanned = {} /\ reviewed = {} /\ raced = FALSE

Fenced(k) == gate.paused \/ flow[k].generation # gate.generation
At(k, pc) == gate.up /\ flow[k].pc = pc
Goto(k, pc) == flow' = [flow EXCEPT ![k].pc = pc]
Ends(k) == flow' = [flow EXCEPT ![k] = Idle] /\ UNCHANGED mission
Fresh(pc) == [Idle EXCEPT !.pc = pc, !.generation = gate.generation, !.baseline = mission.baseline]
Starts(k, pc) == flow' = [flow EXCEPT ![k] = Fresh(pc)]

\* The mission waits for a user.
Blocked(k) ==
    /\ flow' = [flow EXCEPT ![k] = Idle]
    /\ mission' = [mission EXCEPT !.state = "blocked"]

\* failValidation: another author's attempt, in the same worktree, or a user.
Correct(k) ==
    IF mission.attempts < max.attempts
    THEN /\ mission' = [mission EXCEPT !.state = "assigned", !.attempts = @ + 1]
         /\ Starts(k, "ignore")
    ELSE /\ mission' = [mission EXCEPT !.state = "failed"]
         /\ flow' = [flow EXCEPT ![k] = Idle]

\* What follows an await: nothing of a fenced coroutine, otherwise Goes.
Unless(k, Goes) == IF Fenced(k) THEN Ends(k) ELSE Goes

----------------------------------------------------------------------------
(* executeMission and ensureWorktree                                       *)

\* The scheduler takes the mission.
Schedule(k) ==
    /\ gate.up /\ ~gate.paused /\ mission.state = "ready" /\ At(k, "idle")
    /\ mission' = [mission EXCEPT !.state = "assigned"]
    /\ Starts(k, "ignore")
    /\ UNCHANGED <<max, base, gate, git, stray, past>>

\* The row keeps the branch and its baseline, and an author's run starts.
Record(k, baseline) ==
    /\ mission' = [mission EXCEPT !.state = "running", !.baseline = baseline]
    /\ Goto(k, "author")

\* The metadata is ignored; a worktree that exists is used again.
Ignored(k) ==
    /\ At(k, "ignore")
    /\ IF tree = Absent THEN Goto(k, "lookup") /\ UNCHANGED mission
       ELSE IF flow[k].baseline = Absent THEN Goto(k, "merge_base") /\ UNCHANGED mission
       ELSE Unless(k, Record(k, flow[k].baseline))
    /\ UNCHANGED <<max, base, gate, git, stray, past>>

\* Worktrees and branches are listed.
Lookup(k) ==
    /\ At(k, "lookup")
    /\ Unless(k, /\ Goto(k, IF branch # Absent THEN "checkout"
                            ELSE IF flow[k].baseline = Absent THEN "compose" ELSE "add")
                 /\ UNCHANGED mission)
    /\ UNCHANGED <<max, base, gate, git, stray, past>>

\* composeDependencyBaseline, over the default branch and the dependencies.
Composed == base \union Dependency

\* Mutant: the baseline is kept in memory until the worktree is there.
ComposeForgets(k) ==
    /\ At(k, "compose")
    /\ Unless(k, /\ flow' = [flow EXCEPT ![k].pc = "add", ![k].baseline = Composed]
                 /\ UNCHANGED mission)
    /\ UNCHANGED <<max, base, gate, git, stray, past>>

\* The baseline is on disk before git creates the branch from it.
Compose(k) ==
    /\ At(k, "compose")
    /\ Unless(k, /\ flow' = [flow EXCEPT ![k].pc = "add", ![k].baseline = Composed]
                 /\ mission' = [mission EXCEPT !.baseline = Composed])
    /\ UNCHANGED <<max, base, gate, git, stray, past>>

\* git worktree add, with the new branch or on the one that exists.
AddWorktree(k) ==
    /\ At(k, "add") /\ tree = Absent /\ branch = Absent
    /\ branch' = flow[k].baseline /\ tree' = branch'
    /\ Goto(k, "added")
    /\ UNCHANGED <<max, base, mission, gate, remote, pull, stray, past>>

Checkout(k) ==
    /\ At(k, "checkout") /\ tree = Absent
    /\ tree' = branch
    /\ Goto(k, "added")
    /\ UNCHANGED <<max, base, mission, gate, branch, remote, pull, stray, past>>

Added(k) ==
    /\ At(k, "added")
    /\ Unless(k, IF flow[k].baseline = Absent THEN Goto(k, "merge_base") /\ UNCHANGED mission
                 ELSE Record(k, flow[k].baseline))
    /\ UNCHANGED <<max, base, gate, git, stray, past>>

\* A branch whose row has no baseline: git merge-base with the default branch.
MergeBase(k) ==
    /\ At(k, "merge_base")
    /\ Unless(k, Record(k, base \intersect branch))
    /\ UNCHANGED <<max, base, gate, git, stray, past>>

\* A git command of the preparation fails.
PreparationFails(k) ==
    /\ gate.up /\ flow[k].pc \in {"ignore", "lookup", "compose", "add", "checkout", "merge_base"}
    /\ Unless(k, Blocked(k))
    /\ UNCHANGED <<max, base, gate, git, stray, past>>

----------------------------------------------------------------------------
(* The changes                                                             *)

Made(by) == {c \in 1..Len(origin) : origin[c].by \in by}

\* A file of the worktree changes.
Change(by, allowed) ==
    /\ tree # Absent
    /\ tree' = tree \union {Len(origin) + 1}
    /\ origin' = Append(origin, [by |-> by, allowed |-> allowed])
    /\ UNCHANGED <<max, base, mission, gate, branch, remote, pull, stray, flow,
                   scanned, reviewed, raced>>

AuthorWrites(k) ==
    /\ At(k, "author") /\ ~Fenced(k) /\ Cardinality(Made({"author", "stray"})) < max.edits
    /\ \E allowed \in BOOLEAN : Change("author", allowed)

\* An agent that was told to stop, or lost by a crash, goes on for a while.
StrayWrites ==
    /\ stray /\ Cardinality(Made({"author", "stray"})) < max.edits
    /\ \E allowed \in BOOLEAN : Change("stray", allowed)

\* A check writes into the worktree it runs in; a pause leaves it running.
CheckWrites(k) ==
    /\ At(k, "checks") /\ Cardinality(Made({"check"})) < max.writes
    /\ \E allowed \in BOOLEAN : Change("check", allowed)

StrayExits ==
    /\ stray /\ stray' = FALSE
    /\ UNCHANGED <<max, base, mission, gate, git, flow, past>>

----------------------------------------------------------------------------
(* validateMission                                                         *)

\* The author's run ends: with a result, or for a user to look at.
AuthorEnds(k) ==
    /\ At(k, "author")
    /\ Unless(k, \/ /\ mission' = [mission EXCEPT !.state = "validating"]
                    /\ Goto(k, "diff")
                 \/ Blocked(k))
    /\ UNCHANGED <<max, base, gate, git, stray, past>>

\* The changed files are read in two commands: those committed since the
\* baseline, then those of the worktree that are not committed.
Diff(k) ==
    /\ At(k, "diff")
    /\ flow' = [flow EXCEPT ![k].pc = "status", ![k].scan = branch \ flow[k].baseline]
    /\ UNCHANGED <<max, base, mission, gate, git, stray, past>>

PathsAccepted(scan) ==
    IF max.readOnly THEN scan = {} ELSE scan # {} /\ \A c \in scan : origin[c].allowed

Status(k) ==
    /\ At(k, "status")
    /\ LET scan == flow[k].scan \union (tree \ branch)
       IN  /\ Unless(k, IF PathsAccepted(scan)
                        THEN /\ flow' = [flow EXCEPT ![k].pc = "checks", ![k].scan = scan]
                             /\ UNCHANGED mission
                        ELSE Correct(k))
           /\ scanned' = IF ~Fenced(k) /\ PathsAccepted(scan) THEN scanned \union scan ELSE scanned
    /\ UNCHANGED <<max, base, gate, git, stray, origin, reviewed, raced>>

ChecksEnd(k) ==
    /\ At(k, "checks")
    /\ Unless(k, (Goto(k, "clean") /\ UNCHANGED mission) \/ Correct(k))
    /\ UNCHANGED <<max, base, gate, git, stray, past>>

\* The mission is handed to its reviewer.
HandOver(k) ==
    /\ mission' = [mission EXCEPT !.state = "review_required"]
    /\ Goto(k, "review_diff")

\* A mission with changed files is published; nothing else of it is.
Publish(k) == IF flow[k].scan # {} THEN Goto(k, "push") /\ UNCHANGED mission ELSE HandOver(k)

\* Mutant: only a new commit is published.
CleanSkips(k) ==
    /\ At(k, "clean")
    /\ Unless(k, IF tree # branch THEN Goto(k, "commit") /\ UNCHANGED mission ELSE HandOver(k))
    /\ UNCHANGED <<max, base, gate, git, stray, past>>

\* Nothing is committed when the worktree is clean, after a restart say.
Clean(k) ==
    /\ At(k, "clean")
    /\ Unless(k, IF tree # branch THEN Goto(k, "commit") /\ UNCHANGED mission ELSE Publish(k))
    /\ UNCHANGED <<max, base, gate, git, stray, past>>

\* Everything in the worktree is committed, whoever put it there.
Commit(k) ==
    /\ At(k, "commit") /\ tree \notin {Absent, branch}
    /\ branch' = tree
    /\ raced' = (raced \/ (Fenced(k) /\ \E j \in Slots : flow[j].pc = "status"))
    /\ Goto(k, "committed")
    /\ UNCHANGED <<max, base, mission, gate, tree, remote, pull, stray, origin, scanned, reviewed>>

\* There is nothing to commit any more, no worktree either, or git fails.
CommitFails(k) ==
    /\ At(k, "commit")
    /\ Unless(k, Correct(k))
    /\ UNCHANGED <<max, base, gate, git, stray, past>>

Committed(k) ==
    /\ At(k, "committed")
    /\ Unless(k, Publish(k))
    /\ UNCHANGED <<max, base, gate, git, stray, past>>

----------------------------------------------------------------------------
(* publishGitHubPullRequest                                                *)

\* The branch only ever grows, so a push never has to be forced.
Push(k) ==
    /\ At(k, "push")
    /\ remote' = branch
    /\ Goto(k, "list")
    /\ UNCHANGED <<max, base, mission, gate, tree, branch, pull, stray, past>>

\* The newest pull request of the branch, whatever its state.
List(k) ==
    /\ At(k, "list")
    /\ Goto(k, CASE pull.state = "none" -> "create" [] pull.state = "draft" -> "edit"
                 [] pull.state = "closed" -> "reopen" [] OTHER -> "published")
    /\ UNCHANGED <<max, base, mission, gate, git, stray, past>>

\* GitHub refuses a second one while one is open.
Create(k) ==
    /\ At(k, "create") /\ pull.state # "draft"
    /\ pull' = [pull EXCEPT !.state = "draft"]
    /\ Goto(k, "published")
    /\ UNCHANGED <<max, base, mission, gate, tree, branch, remote, stray, past>>

Reopen(k) ==
    /\ At(k, "reopen") /\ pull.state # "merged"
    /\ pull' = [pull EXCEPT !.state = "draft"]
    /\ Goto(k, "edit")
    /\ UNCHANGED <<max, base, mission, gate, tree, branch, remote, stray, past>>

Edit(k) ==
    /\ At(k, "edit")
    /\ Goto(k, "published")
    /\ UNCHANGED <<max, base, mission, gate, git, stray, past>>

\* The row is written, a merged pull request's too, and the mission handed over.
Recorded(k) ==
    /\ At(k, "published")
    /\ Unless(k, /\ Goto(k, "review_diff")
                 /\ mission' = [mission EXCEPT !.state = "review_required"])
    /\ UNCHANGED <<max, base, gate, git, stray, past>>

\* A command of the publication fails; a user is asked, and may let the mission
\* start again.
PublicationFails(k) ==
    /\ gate.up /\ flow[k].pc \in {"push", "list", "create", "reopen", "edit"}
    /\ Unless(k, Blocked(k))
    /\ UNCHANGED <<max, base, gate, git, stray, past>>

Unblock ==
    /\ gate.up /\ ~gate.paused /\ mission.state = "blocked"
    /\ mission' = [mission EXCEPT !.state = "ready"]
    /\ UNCHANGED <<max, base, gate, git, stray, flow, past>>

----------------------------------------------------------------------------
(* reviewMission and integrateMission                                      *)

\* The reviewer is given the branch as it is now.
ReviewDiff(k) ==
    /\ At(k, "review_diff")
    /\ Unless(k, flow' = [flow EXCEPT ![k].pc = "review", ![k].seen = branch] /\ UNCHANGED mission)
    /\ UNCHANGED <<max, base, gate, git, stray, past>>

Approves(k) ==
    /\ At(k, "review") /\ ~Fenced(k)
    /\ mission' = [mission EXCEPT !.state = "integrated"]
    /\ reviewed' = flow[k].seen
    /\ Goto(k, "cleanup")
    /\ UNCHANGED <<max, base, gate, git, stray, origin, scanned, raced>>

Rejects(k) ==
    /\ At(k, "review")
    /\ Unless(k, Correct(k))
    /\ UNCHANGED <<max, base, gate, git, stray, past>>

\* The worktree is removed with whatever is in it.
Cleanup(k) ==
    /\ At(k, "cleanup")
    /\ tree' = Absent
    /\ Goto(k, "cleaned")
    /\ UNCHANGED <<max, base, mission, gate, branch, remote, pull, stray, past>>

Completes(k) ==
    /\ At(k, "cleaned")
    /\ Unless(k, /\ mission' = [mission EXCEPT !.state = "completed"]
                 /\ flow' = [flow EXCEPT ![k] = Idle])
    /\ UNCHANGED <<max, base, gate, git, stray, past>>

----------------------------------------------------------------------------
(* Pauses, crashes and people                                              *)

AtWork == \E k \in Slots : flow[k].pc = "author" /\ ~Fenced(k)

\* An agent is told to stop; commands and checks are not.
Pause ==
    /\ gate.up /\ ~gate.paused /\ gate.generation < max.pauses
    /\ gate' = [gate EXCEPT !.paused = TRUE, !.generation = @ + 1]
    /\ stray' = (stray \/ AtWork)
    /\ UNCHANGED <<max, base, mission, git, flow, past>>

\* What a resume and a restart go on with: the await a new coroutine starts at.
ResumesAt == [validating |-> "diff", review_required |-> "review_diff"]
Continues(k) ==
    IF mission.state \in DOMAIN ResumesAt
    THEN Starts(k, ResumesAt[mission.state]) /\ UNCHANGED mission
    ELSE /\ mission' = [mission EXCEPT !.state =
                            IF @ \in {"assigned", "running"} THEN "ready" ELSE @]
         /\ UNCHANGED flow

Resume(k) ==
    /\ gate.up /\ gate.paused /\ At(k, "idle")
    /\ gate' = [gate EXCEPT !.paused = FALSE]
    /\ Continues(k)
    /\ UNCHANGED <<max, base, git, stray, past>>

Crash ==
    /\ gate.up /\ gate.crashes < max.crashes
    /\ gate' = [gate EXCEPT !.up = FALSE, !.crashes = @ + 1]
    /\ flow' = [k \in Slots |-> Idle]
    /\ stray' = (max.outlive /\ (stray \/ AtWork))
    /\ UNCHANGED <<max, base, mission, git, past>>

\* reconcile: an orphaned run is an attempt that failed.
Restart(k) ==
    /\ ~gate.up /\ k = 1
    /\ gate' = [gate EXCEPT !.up = TRUE]
    /\ IF gate.paused THEN UNCHANGED <<mission, flow>>
       ELSE IF mission.state = "running" THEN Correct(k) ELSE Continues(k)
    /\ UNCHANGED <<max, base, git, stray, past>>

\* The default branch receives the dependency's pull request.
MergeDependency ==
    /\ ~(Dependency \subseteq base) /\ base' = base \union Dependency
    /\ UNCHANGED <<max, mission, gate, git, stray, flow, past>>

\* A person marks the draft ready and merges it, or closes it.
Merge ==
    /\ pull.state = "draft"
    /\ pull' = [pull EXCEPT !.state = "merged", !.merged = remote,
                            !.early = mission.state # "completed"]
    /\ base' = base \union remote
    /\ UNCHANGED <<max, mission, gate, tree, branch, remote, stray, flow, past>>

Close ==
    /\ pull.state = "draft"
    /\ pull' = [pull EXCEPT !.state = "closed"]
    /\ UNCHANGED <<max, base, mission, gate, tree, branch, remote, stray, flow, past>>

Steps(k) ==
    \/ Ignored(k) \/ Lookup(k) \/ Compose(k) \/ AddWorktree(k) \/ Checkout(k) \/ Added(k)
    \/ MergeBase(k) \/ PreparationFails(k) \/ AuthorEnds(k)
    \/ Diff(k) \/ Status(k) \/ ChecksEnd(k) \/ Clean(k) \/ Commit(k) \/ CommitFails(k)
    \/ Committed(k) \/ Push(k) \/ List(k) \/ Create(k) \/ Reopen(k) \/ Edit(k) \/ Recorded(k)
    \/ PublicationFails(k) \/ ReviewDiff(k) \/ Approves(k) \/ Rejects(k) \/ Cleanup(k)
    \/ Completes(k)

Next ==
    \/ \E k \in Slots : \/ Schedule(k) \/ Steps(k) \/ AuthorWrites(k) \/ CheckWrites(k)
                        \/ Resume(k) \/ Restart(k)
    \/ StrayWrites \/ StrayExits \/ Pause \/ Crash \/ Unblock
    \/ MergeDependency \/ Merge \/ Close

Spec == Init /\ [][Next]_vars

----------------------------------------------------------------------------
(* Properties                                                              *)

\* What is on GitHub of a mission passed the path scan of its own changes, and
\* no scan took a dependency's change for the mission's, whatever crashes
\* between composing the baseline and the first commit.  Except what a check or
\* an agent nobody waits for wrote after the scan, which the commit takes along;
\* and a scan that a fenced commit raced, between whose two reads the files
\* were neither uncommitted nor committed.
PublishedIsScanned ==
    /\ remote # Absent /\ ~raced => remote \intersect Made({"author"}) \subseteq scanned
    /\ scanned \intersect Dependency = {}

\* A mission is integrated on what its reviewer saw of its author's and its
\* checks' changes, and its author's work is then on GitHub, whichever command
\* failed or was repeated: in the pull request's branch, or, when a person has
\* merged that one, in what was merged; except when it was merged before the
\* mission was through: what is pushed then is beside it, in no pull request.
CompletedIsPublished ==
    mission.state \in {"integrated", "completed"} =>
        LET work == branch \intersect Made({"author"})
        IN  /\ branch \subseteq reviewed \union Made({"stray"})
            /\ \/ raced \/ pull.early
               \/ work \subseteq (IF pull.state = "merged" THEN pull.merged ELSE remote)

=============================================================================
