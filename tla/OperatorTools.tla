---------------------------- MODULE OperatorTools ---------------------------
\* The operator's tools beside the control plane, one of them per behaviour:
\* the backup, the live campaign, the campaign's preflight, its probe of the
\* host, and the update of the macOS application.  `part` says which one a
\* behaviour is of; the variables of the others keep a resting value.  Names are
\* chosen so that one module of proofs can extend this one and OperatorCredentials.
EXTENDS Naturals, Sequences, FiniteSets

VARIABLES
    part,
    bounds,                                                             \* shared
    database, secrets, bundle, home, tool, drawn, certified,            \* OperatorBackup
    objectives, recorded, paused, item, file, runners, clock, costs,    \* LiveCampaign
    origin, marked, abandoned, closing,
    deployment, answer,                                                 \* E2EPreflight
    instant, host, held, target, cache, probes, changes,                \* GitHubReadiness
    feed, dest, copies, command, last, once, starts, kills              \* AppUpdate

CONSTANTS
    Tools, Places, Homes, Backups,                                      \* OperatorBackup
    Runners, Campaigns,                                                 \* LiveCampaign
    Mission, Http, Roles, Deployments,                                  \* E2EPreflight
    Ttl, ShortTtl, Probes, Horizon, Changes, Hosts,                     \* GitHubReadiness
    Commands, Apps, System, Team, Updates                               \* AppUpdate

B == INSTANCE OperatorBackup WITH max <- bounds, vault <- secrets, Instances <- Backups
C == INSTANCE LiveCampaign WITH
        max <- bounds, cli <- runners, spent <- costs, Clis <- Runners, Instances <- Campaigns
P == INSTANCE E2EPreflight
R == INSTANCE GitHubReadiness
U == INSTANCE AppUpdate WITH max <- bounds, runs <- starts, Instances <- Updates

\* An answer is kept for some time.
ASSUME KeptAssumption == Ttl \in Nat \ {0} /\ ShortTtl \in Nat

\* An application that is there is one, the pinned team is one, and the commands
\* that may run are finitely many.
ASSUME ReleasedAssumption ==
    /\ U!None \notin Apps /\ Team # "none"
    /\ \A i \in Updates : IsFiniteSet(i.commands) /\ i.first \in Apps

\* The fixture is no provider that is configured, no provider is named like a
\* scenario of another step, and chains are sequences.
ASSUME DeployedAssumption ==
    /\ P!Fake \notin Mission \union Http /\ Mission \intersect P!Steps = {}
    /\ \A d \in Deployments :
          /\ d.registered \subseteq Mission \union Http
          /\ d.chain \in Seq(P!Providers)
          /\ \A r \in Roles \union {P!Orchestrator} : d.roleChains[r] \in Seq(P!Providers)

backup == <<database, secrets, bundle, home, tool, drawn, certified>>
campaign == <<objectives, recorded, paused, item, file, runners, clock, costs,
              origin, marked, abandoned, closing>>
preflight == <<deployment, answer>>
readiness == <<instant, host, held, target, cache, probes, changes>>
update == <<feed, dest, copies, command, last, once, starts, kills>>
toolsVars == <<part, bounds, backup, campaign, preflight, readiness, update>>

AtRest == "at rest"
BackupRests ==
    /\ database = AtRest /\ secrets = AtRest /\ bundle = AtRest /\ home = AtRest
    /\ tool = AtRest /\ drawn = AtRest /\ certified = AtRest
CampaignRests ==
    /\ objectives = AtRest /\ recorded = AtRest /\ paused = AtRest /\ item = AtRest
    /\ file = AtRest /\ runners = AtRest /\ clock = AtRest /\ costs = AtRest
    /\ origin = AtRest /\ marked = AtRest /\ abandoned = AtRest /\ closing = AtRest
PreflightRests ==
    /\ deployment = AtRest /\ answer = AtRest

ReadinessRests ==
    /\ instant = AtRest /\ host = AtRest /\ held = AtRest /\ target = AtRest /\ cache = AtRest
    /\ probes = AtRest /\ changes = AtRest
UpdateRests ==
    /\ feed = AtRest /\ dest = AtRest /\ copies = AtRest /\ command = AtRest
    /\ last = AtRest /\ once = AtRest /\ starts = AtRest /\ kills = AtRest

ToolsInit ==
    \/ /\ part = "backup" /\ B!Init
       /\ CampaignRests /\ PreflightRests /\ ReadinessRests /\ UpdateRests
    \/ /\ part = "campaign" /\ C!Init
       /\ BackupRests /\ PreflightRests /\ ReadinessRests /\ UpdateRests
    \/ /\ part = "preflight" /\ P!Init /\ bounds = AtRest
       /\ BackupRests /\ CampaignRests /\ ReadinessRests /\ UpdateRests
    \/ /\ part = "readiness" /\ R!Init /\ bounds = AtRest
       /\ BackupRests /\ CampaignRests /\ PreflightRests /\ UpdateRests
    \/ /\ part = "update" /\ U!Init
       /\ BackupRests /\ CampaignRests /\ PreflightRests /\ ReadinessRests

ToolsNext ==
    \/ part = "backup" /\ B!Next /\ UNCHANGED <<part, campaign, preflight, readiness, update>>
    \/ part = "campaign" /\ C!Next /\ UNCHANGED <<part, backup, preflight, readiness, update>>
    \/ part = "preflight" /\ P!Next /\ UNCHANGED <<part, bounds, backup, campaign, readiness, update>>
    \/ part = "readiness" /\ R!Next /\ UNCHANGED <<part, bounds, backup, campaign, preflight, update>>
    \/ part = "update" /\ U!Next /\ UNCHANGED <<part, backup, campaign, preflight, readiness>>

ToolsSpec == ToolsInit /\ [][ToolsNext]_toolsVars

\* OperatorBackup's property: a restore is a certified bundle whose two stores fit.
RestoredIsCertified == part = "backup" => B!RestoredIsCertified

\* LiveCampaign's: a rerun resumes what was planned, and a pass is earned.
CampaignIsHonest == part = "campaign" => C!CampaignIsHonest

\* E2EPreflight's and GitHubReadiness's: the preflight answers, a campaign it
\* calls ready can be reviewed, and an answer it takes from the cache is recent.
ReadinessIsTrue ==
    /\ part = "preflight" => P!PreflightIsTrue
    /\ part = "readiness" => R!AnswersAreRecent

\* AppUpdate's: an update goes forward, what it replaces is kept, and an
\* application stays installed.
UpdatesAreSafe == part = "update" => U!UpdatesAreSafe

=============================================================================
