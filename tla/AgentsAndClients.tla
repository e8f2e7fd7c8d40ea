-------------------------- MODULE AgentsAndClients --------------------------
\* The edges of the control plane, one of them per behaviour: the provider runs
\* it starts, the plans that models propose to it, the repository it keeps a
\* mission's work in, and the clients that follow its events.  `part` says which
\* one a behaviour is of; the variables of the others keep a resting value.
\* Names are chosen so that one module of proofs can extend this one and
\* BrainPipeline.
EXTENDS Naturals, Sequences, FiniteSets

VARIABLES
    part,
    bounds,                                                             \* shared
    setup, control, project, loop, live, runs,                          \* ProviderRun
    base, mission, gate, tree, branch, remote, pull, stray, flow,       \* MissionBranch
    origin, scanned, reviewed, raced,
    server, feed, cursor, told, skipped, loads, wanted, timer,          \* EventFeed
    client, shown,
    repo, edits, planner, listed, checks, plan, repairs, state               \* PlanProposal

CONSTANTS
    Runs, Pauses, Halts,                                                \* ProviderRun
    Limit, Overlap, Followers,                                          \* EventFeed
    Missions,                                                           \* MissionBranch
    Proposals                                                           \* PlanProposal

D == INSTANCE ProviderRun
C == INSTANCE EventFeed WITH max <- bounds, Instances <- Followers
M == INSTANCE MissionBranch WITH max <- bounds, Instances <- Missions
V == INSTANCE PlanProposal WITH max <- bounds, pc <- planner, Instances <- Proposals

\* A replay carries at most this many events.
ASSUME LimitAssumption == Limit \in Nat

\* An objective has a number of criteria, and what a model answers with is parsed:
\* every mission of it has every field.
ASSUME ProposedAssumption ==
    \A i \in Proposals :
        /\ i.criteria \in Nat
        /\ \A p \in i.proposals : \A k \in DOMAIN p :
              /\ DOMAIN p[k] = {"key", "objective", "milestone", "dependsOn", "covers", "allowed", "forbidden",
                                "required", "commands", "artifacts", "changes", "budget"}
              /\ p[k] = [field \in DOMAIN p[k] |-> p[k][field]]

provider == <<setup, control, project, loop, live, runs>>
repository == <<base, mission, gate, tree, branch, remote, pull, stray, flow,
                origin, scanned, reviewed, raced>>
screens == <<server, feed, cursor, told, skipped, loads, wanted, timer, client, shown>>
planning == <<repo, edits, planner, listed, checks, plan, repairs, state>>
edgesVars == <<part, bounds, provider, repository, screens, planning>>

AtRest == "at rest"
ProviderRests ==
    /\ setup = AtRest /\ control = AtRest /\ project = AtRest
    /\ loop = AtRest /\ live = AtRest /\ runs = AtRest
RepositoryRests ==
    /\ base = AtRest /\ mission = AtRest /\ gate = AtRest /\ tree = AtRest /\ branch = AtRest
    /\ remote = AtRest /\ pull = AtRest /\ stray = AtRest /\ flow = AtRest
    /\ origin = AtRest /\ scanned = AtRest /\ reviewed = AtRest /\ raced = AtRest
ScreensRest ==
    /\ server = AtRest /\ feed = AtRest /\ cursor = AtRest
    /\ told = AtRest /\ skipped = AtRest /\ loads = AtRest /\ wanted = AtRest
    /\ timer = AtRest /\ client = AtRest /\ shown = AtRest

PlanningRests ==
    /\ repo = AtRest /\ edits = AtRest /\ planner = AtRest /\ listed = AtRest
    /\ checks = AtRest /\ plan = AtRest /\ repairs = AtRest /\ state = AtRest

EdgesInit ==
    \/ part = "provider" /\ D!Init /\ bounds = AtRest /\ RepositoryRests /\ ScreensRest /\ PlanningRests
    \/ part = "repository" /\ M!Init /\ ProviderRests /\ ScreensRest /\ PlanningRests
    \/ part = "screens" /\ C!Init /\ ProviderRests /\ RepositoryRests /\ PlanningRests
    \/ part = "planning" /\ V!Init /\ ProviderRests /\ RepositoryRests /\ ScreensRest

Provider(A) == part = "provider" /\ A /\ UNCHANGED <<part, bounds, repository, screens, planning>>
Repository(A) == part = "repository" /\ A /\ UNCHANGED <<part, provider, screens, planning>>
Screens(A) == part = "screens" /\ A /\ UNCHANGED <<part, provider, repository, planning>>
Planning(A) == part = "planning" /\ A /\ UNCHANGED <<part, provider, repository, screens>>

EdgesNext == Provider(D!Next) \/ Repository(M!Next) \/ Screens(C!Next) \/ Planning(V!Next)

\* The fairness of the two modules that have some, each on its own behaviours.
EdgesFairness ==
    /\ WF_edgesVars(Provider(D!ObedientExits))
    /\ WF_edgesVars(Provider(D!Deadline))
    /\ WF_edgesVars(Provider(D!StepDeadline))
    /\ WF_edgesVars(Provider(D!Fetched))
    /\ WF_edgesVars(Provider(D!RefusalRead))
    /\ WF_edgesVars(Provider(D!BodyRead))
    /\ WF_edgesVars(Provider(D!FixtureGivesUp))
    /\ WF_edgesVars(Screens(C!ComeBack))
    /\ WF_edgesVars(Screens(C!Poll))
    /\ WF_edgesVars(Screens(C!Kick))
    /\ WF_edgesVars(Screens(C!Fails))
    /\ \A i \in 1..Overlap : WF_edgesVars(Screens(C!Answered(i)))

EdgesSpec == EdgesInit /\ [][EdgesNext]_edgesVars /\ EdgesFairness

\* ProviderRun's: what is taken of a run happened.
OutcomeIsEarned == part = "provider" => D!OutcomeIsEarned

\* Nothing is left of a run that is over.
NothingIsLeft == part = "provider" => D!NothingIsLeft

\* A run that was told to end, or whose time is over, ends.
RunsEnd == (part = "provider" /\ D!Ending) ~> ~(part = "provider" /\ D!Open)

\* MissionBranch's: what is on GitHub passed a scan.
PublishedIsScanned == part = "repository" => M!PublishedIsScanned

\* What a completed mission was reviewed for is on GitHub.
CompletedIsPublished == part = "repository" => M!CompletedIsPublished

\* EventFeed's: a durable number skips no event.
FeedSkipsNothing == part = "screens" => C!FeedSkipsNothing

\* Once nothing happens any more, a screen shows what happened.
ScreensCatchUp == <>[](part = "screens" => C!CaughtUp)

\* PlanProposal's: a plan that is accepted can be carried out.
AcceptedPlansAreWorkable == part = "planning" => V!AcceptedPlansAreWorkable

=============================================================================
