---------------------------- MODULE PlanProposal ----------------------------
(***************************************************************************)
(* A plan of the brain, from the repository it is made for to the missions *)
(* that carry it out: buildRepoSnapshot detects the checks the repository  *)
(* has, validatePlanProposal accepts a proposal or asks for a repair,      *)
(* createBrainPlan writes the missions, the engine promotes them as their  *)
(* dependencies complete and validates the work of each.                   *)
(* Abstracted: pauses, providers and replans (BrainPipeline), corrections, *)
(* reviews and crashes (MissionEngine); redaction; the size limits.        *)
(***************************************************************************)
EXTENDS Naturals, FiniteSets, SequencesExt

CONSTANTS
    Instances   \* the bounds TLC explores together, one record per instance:
                \*   repositories: what the repository may hold, see repo;
                \*   proposals: the plans a model may answer with, see plan;
                \*   criteria: how many the objective has; budget: the project's;
                \*   executables: the policy's for checks; edits, repairs: at most

VARIABLES
    max,        \* the instance's bounds
    repo,       \* the repository: there or not, its package.json (absent, binary,
                \* malformed, long or text), scripts, lock, swift; and its tracked files
    edits,      \* how often developers changed it
    pc,         \* planning: "list", "read", "propose", then "accepted", "blocked" or "lost"
    listed,     \* what git ls-files told the snapshot
    checks,     \* the snapshot's checks: a command for each kind
    plan,       \* the proposal, a sequence of missions
    repairs,
    state       \* the mission rows

vars == <<max, repo, edits, pc, listed, checks, plan, repairs, state>>

Nothing == [k \in {} |-> <<>>]

Init ==
    /\ max \in Instances
    /\ repo \in max.repositories /\ edits = 0
    /\ pc = "list" /\ listed = {} /\ checks = Nothing
    /\ plan = <<>> /\ repairs = 0 /\ state = <<>>

----------------------------------------------------------------------------
(* The snapshot.                                                           *)

\* Developers work in the repository beside the control plane.
Edit ==
    /\ edits < max.edits /\ edits' = edits + 1
    /\ pc \in {"list", "read"}
    /\ repo' \in {r \in max.repositories : r.there} /\ repo.there
    /\ UNCHANGED <<max, pc, listed, checks, plan, repairs, state>>

\* The git commands of the snapshot; a project without a repository has none.
List ==
    /\ pc = "list"
    /\ IF repo.there THEN pc' = "read" /\ listed' = repo.tracked
                     ELSE pc' = "propose" /\ UNCHANGED listed
    /\ UNCHANGED <<max, repo, edits, checks, plan, repairs, state>>

\* A listed file that is there and not binary: its content, maybe truncated.
ReadBoundedFile(f) ==
    f \in listed /\ CASE f = "package.json" -> repo.package \notin {"absent", "binary"}
                      [] f = "pnpm-lock.yaml" -> repo.lock
                      [] f = "Package.swift" -> repo.swift

\* The checks the repository really has: git's, and the scripts of a package
\* manifest that parses or, when there is no such manifest, Swift's.
DetectRepositoryChecks ==
    LET base == [k \in {"architecture_rule"} |-> <<"git", "diff">>]
        runner == IF ReadBoundedFile("pnpm-lock.yaml") THEN "pnpm" ELSE "npm"
        found == IF ReadBoundedFile("package.json") /\ repo.package # "long"
                 THEN IF repo.package = "text"
                      THEN [k \in repo.scripts |-> <<runner, k>>] ELSE Nothing
                 ELSE IF ReadBoundedFile("Package.swift")
                      THEN [k \in {"build", "test"} |-> <<"swift", k>>] ELSE Nothing
    IN  [k \in DOMAIN base \union DOMAIN found |-> IF k \in DOMAIN base THEN base[k] ELSE found[k]]

\* The rest of the snapshot is read at once.
Read ==
    /\ pc = "read" /\ pc' = "propose"
    /\ checks' = DetectRepositoryChecks
    /\ UNCHANGED <<max, repo, edits, listed, plan, repairs, state>>

----------------------------------------------------------------------------
(* Validation.                                                             *)

Keys(p) == {p[i].key : i \in DOMAIN p}

\* Distinct keys and objectives, known milestones (the plan's one is "m").
KeysAreDistinct(p) ==
    /\ \A i, j \in DOMAIN p : i # j => p[i].key # p[j].key /\ p[i].objective # p[j].objective
    /\ \A i \in DOMAIN p : p[i].milestone = "m"

DependenciesAreKnown(p) ==
    \A i \in DOMAIN p : ToSet(p[i].dependsOn) \subseteq Keys(p) \ {p[i].key}

Successors(p, k) == UNION {ToSet(p[i].dependsOn) : i \in {j \in DOMAIN p : p[j].key = k}}

\* Among any nodes some one leads to none of them: what the depth-first search
\* of the code decides (it is in PlanSearch).
NoCycle(next) ==
    \A some \in (SUBSET DOMAIN next) \ {{}} : \E k \in some : next[k] \intersect some = {}

\* Mutant: two missions that wait for each other are found, not a longer cycle.
PairsOnly(p) == \A j, k \in Keys(p) : ~(j \in Successors(p, k) /\ k \in Successors(p, j))

IsAcyclic(p) == NoCycle([k \in Keys(p) |-> Successors(p, k)])

\* Criteria are the numbers below max.criteria; any will do when there is none.
CriteriaAreCovered(p) ==
    LET covered == UNION {p[i].covers : i \in DOMAIN p}
    IN  max.criteria > 0 => covered = 0..(max.criteria - 1)

IsUnsafePathPattern(q) == q[1] = "" \/ ".." \in ToSet(q)

\* An artifact is a path, maybe behind a word such as "created".
ExpectedArtifactPathIssue(a) ==
    \/ a.labelled
    \/ a.path = <<>> \/ ToSet(a.path) \intersect {"", ".", "..", "*", "**"} # {}

IsCommandAllowed(argv) == argv # <<>> /\ argv[1] \in max.executables

\* The rules for one mission: its paths, checks, artifacts and budget.
MissionIsValid(m) ==
    /\ \A q \in m.allowed \union m.forbidden : ~IsUnsafePathPattern(q)
    /\ \A k \in DOMAIN m.commands :
          /\ IsCommandAllowed(m.commands[k])
          /\ k \in m.required
          /\ k \in DOMAIN checks /\ checks[k] = m.commands[k]
    /\ m.required \subseteq DOMAIN m.commands \intersect DOMAIN checks
    /\ m.required # {} => repo.there
    /\ repo.there => DOMAIN checks \subseteq m.required
    /\ ~repo.there => m.allowed = {} /\ ~m.changes
    /\ ~m.changes => m.allowed = {} /\ m.artifacts = {}
    /\ \A a \in m.artifacts : ~ExpectedArtifactPathIssue(a)
    /\ m.budget <= max.budget

ValidatePlanProposal(p) ==
    /\ KeysAreDistinct(p) /\ DependenciesAreKnown(p) /\ IsAcyclic(p)
    /\ CriteriaAreCovered(p)
    /\ \A i \in DOMAIN p : MissionIsValid(p[i])

\* A dependency row per entry, its two missions the key: a second entry throws.
Repeats(p) == \E i \in DOMAIN p : Len(p[i].dependsOn) # Cardinality(ToSet(p[i].dependsOn))

\* Secrets are forbidden to every mission; without a repository none changes files.
Contract(m) == [m EXCEPT !.forbidden = @ \union {<<"**", ".env">>},
                         !.changes = @ /\ repo.there]

\* The model answers: the plan is written, repaired, given up, or the
\* transaction throws and planning ends without an answer to anybody.
Propose ==
    /\ pc = "propose"
    /\ \E p \in max.proposals :
          IF ~ValidatePlanProposal(p)
          THEN /\ pc' = IF repairs < max.repairs THEN "propose" ELSE "blocked"
               /\ repairs' = repairs + 1
               /\ UNCHANGED <<plan, state>>
          ELSE /\ pc' = IF Repeats(p) THEN "lost" ELSE "accepted"
               /\ plan' = [i \in DOMAIN p |-> Contract(p[i])]
               /\ state' = [i \in DOMAIN p |-> "proposed"]
               /\ UNCHANGED repairs
    /\ UNCHANGED <<max, repo, edits, listed, checks>>

----------------------------------------------------------------------------
(* The missions.                                                           *)

\* Every dependency has completed.
Unblocked(i) ==
    /\ state[i] = "proposed"
    /\ \A j \in DOMAIN plan : plan[j].key \in ToSet(plan[i].dependsOn) => state[j] = "completed"

\* The tick promotes all of them.
Promote ==
    /\ pc = "accepted" /\ \E i \in DOMAIN plan : Unblocked(i)
    /\ state' = [i \in DOMAIN plan |-> IF Unblocked(i) THEN "ready" ELSE state[i]]
    /\ UNCHANGED <<max, repo, edits, pc, listed, checks, plan, repairs>>

\* A pattern is a path, or has ** first or last: at least one segment.
GlobMatch(q, f) ==
    \/ q = f
    \/ q[1] = "**" /\ Len(f) >= Len(q) /\ IsSuffix(Tail(q), f)
    \/ Last(q) = "**" /\ Len(f) >= Len(q) /\ IsPrefix(Front(q), f)

IsPathAllowed(m, f) ==
    /\ ~\E q \in m.forbidden : GlobMatch(q, f)
    /\ m.allowed # {} => \E q \in m.allowed : GlobMatch(q, f)

\* The validation of a result: the changed files, the artifacts, the checks. A
\* check can only pass when its command is one the repository has.
Validates(m, files) ==
    /\ repo.there =>
          /\ m.changes <=> files # {}
          /\ \A f \in files : IsPathAllowed(m, f)
          /\ \A a \in m.artifacts : a.path \in files /\ IsPathAllowed(m, a.path)
    /\ \A k \in m.required :
          /\ k \in DOMAIN m.commands /\ IsCommandAllowed(m.commands[k])
          /\ repo.there /\ k \in DOMAIN checks /\ checks[k] = m.commands[k]

\* What an agent may write: the artifacts and a file of each pattern.
Writable(m) ==
    {a.path : a \in m.artifacts} \union {<<"src", "a">>, <<"docs", "a">>}

CanComplete(m) == \E files \in SUBSET Writable(m) : Validates(m, files)

Work(i) ==
    /\ pc = "accepted" /\ state[i] = "ready" /\ CanComplete(plan[i])
    /\ state' = [state EXCEPT ![i] = "completed"]
    /\ UNCHANGED <<max, repo, edits, pc, listed, checks, plan, repairs>>

Next ==
    \/ Edit \/ List \/ Read \/ Propose \/ Promote
    \/ \E i \in DOMAIN plan : Work(i)

Spec == Init /\ [][Next]_vars

----------------------------------------------------------------------------
(* Property.                                                               *)

\* An artifact that the mission's own paths, or the paths forbidden to all,
\* exclude; or the patterns leave it nothing to write.
ContradictsItself(m) ==
    \/ \E a \in m.artifacts : ~IsPathAllowed(m, a.path)
    \/ m.changes /\ \A f \in Writable(m) : ~IsPathAllowed(m, f)

\* A plan that validation accepts can be carried out: its missions are written,
\* one of them can always go on until all have completed, a started one can pass
\* its validation, and the completed plan covers every criterion.  Excepted are
\* a mission whose own paths exclude what it must write (plan-validation.ts:97
\* looks at each alone) and a plan that names a dependency twice
\* (store.ts:1641).
AcceptedPlansAreWorkable ==
    /\ pc = "lost" => Repeats(plan)
    /\ pc = "accepted" =>
          LET all == \A i \in DOMAIN plan : state[i] = "completed" IN
          /\ all \/ \E i \in DOMAIN plan : state[i] = "ready" \/ Unblocked(i)
          /\ \A i \in DOMAIN plan : state[i] = "ready" =>
                CanComplete(plan[i]) \/ ContradictsItself(plan[i])
          /\ all => 0..(max.criteria - 1) \ UNION {plan[i].covers : i \in DOMAIN plan} = {}
=============================================================================
