---------------------------- MODULE E2EPreflight ----------------------------
(***************************************************************************)
(* Readiness of a live campaign: the providers a deployment registers when *)
(* it starts, the provider status it computes then, the preflight report   *)
(* it builds for a project and validates against the published contract,   *)
(* and the two aggregates the campaign command reads before it submits     *)
(* anything.  These are pure functions of the deployment; TLC evaluates    *)
(* them over every deployment of the instance.                             *)
(***************************************************************************)
EXTENDS Naturals, FiniteSets, SequencesExt

CONSTANTS
    Mission,     \* CLI providers with a mission scenario of their own (codex, cursor ...)
    Http,        \* providers reached with an API key
    Roles,       \* team roles that author missions
    Deployments  \* the deployments TLC explores, records with:
                 \*   campaign: the execution mode is campaign (otherwise test)
                 \*   registered: providers whose binary or key is configured
                 \*   credentials: per CLI provider, whether an allowed variable is
                 \*     set and its credential file: none, regular, symlink, unreadable
                 \*   modelled: providers with a model in the routing environment
                 \*   chain: the requested global chain;  roleChains: per role
                 \*   git, gh, hint, login, push, write: what the host checks saw
                 \*   target: the project has a repository and a remote

Fake == "fake"
Orchestrator == "orchestrator"
Providers == Mission \union Http \union {Fake}

VARIABLES
    deployment,
    answer      \* the preflight endpoint's answer: "none", "refused" or the readiness

vars == <<deployment, answer>>

\* The control plane refuses to start with a chain that names the fixture where
\* its mode does not allow it.
ChainAllowed(d) == d.campaign => Fake \notin ToSet(d.chain)

\* What the host checks can have seen (GitHubReadiness).
Observed(d) ==
    /\ d.login => d.gh
    /\ d.push => d.git /\ d.target
    /\ d.write => d.login /\ d.target

Init ==
    /\ deployment \in {d \in Deployments : ChainAllowed(d) /\ Observed(d)}
    /\ answer = "none"

----------------------------------------------------------------------------
(* Registration and routing.                                               *)

\* The fixture is registered outside campaign and production modes only.
Registered == deployment.registered \union (IF deployment.campaign THEN {} ELSE {Fake})

\* A CLI provider's credentials: an allowed variable, which hides any file, or a
\* readable regular file.
SignedIn == {p \in Mission : LET c == deployment.credentials[p]
                             IN  c.variable \/ c.file = "regular"}

\* A chain is the set of its providers: repetitions are removed wherever one is
\* used, and all that is asked of one is who is in it.  The global chain keeps
\* the registered providers of the requested one.
GlobalChain == ToSet(deployment.chain) \intersect Registered

\* A role's providers, and those of the global chain after them.
EffectiveChain(role) == ToSet(deployment.roleChains[role]) \union GlobalChain

RegisteredChain(chain) == chain \intersect Registered

\* The engine's reviewers for an author, but for the author, who is tried last.
ReviewerChain(author) == RegisteredChain(GlobalChain) \ {author}

Real(p) == p # Fake
Edits(p) == p \in Registered /\ p \in Mission \union {Fake}

----------------------------------------------------------------------------
(* Provider status.                                                        *)

Priority == <<"gap", "tool", "credentials", "configuration", "ready">>

\* The most severe status of a set; ready when there is none.
Summarize(statuses) ==
    LET found == {i \in 1..5 : Priority[i] \in statuses}
    IN  IF found = {} THEN "ready" ELSE Priority[CHOOSE i \in found : \A j \in found : i <= j]

\* Reachable through the chain of a role that authors missions.
MissionRoutable(p) == \E role \in Roles : p \in EffectiveChain(role)

\* The categories of the reasons a provider is not ready for.
Reasons(p) ==
    (IF p \in Mission \ Registered THEN {"tool"} ELSE {})
    \union (IF p \in Mission \ SignedIn \/ p \in Http \ Registered
            THEN {"credentials"} ELSE {})
    \union (IF Real(p) /\ p \notin deployment.modelled THEN {"configuration"} ELSE {})
    \union (IF p \in Mission /\ ~MissionRoutable(p) THEN {"configuration"} ELSE {})
    \union (IF p \in Mission \intersect Registered /\ ~Edits(p) THEN {"gap"} ELSE {})
    \union (IF p = Fake /\ deployment.campaign THEN {"configuration"} ELSE {})

Status(p) == Summarize(Reasons(p))
Ready(p) == Status(p) = "ready"

\* The report's global checks: an editor, two reviewers, two editors in a chain.
StatusChecks ==
    LET editors(chain) == {p \in chain : Real(p) /\ Ready(p) /\ Edits(p)}
    IN  {IF \E p \in Providers : Real(p) /\ Ready(p) /\ Edits(p) /\ MissionRoutable(p)
         THEN "ready" ELSE "gap",
         IF Cardinality({p \in GlobalChain : Real(p) /\ Ready(p)}) >= 2
         THEN "ready" ELSE "configuration",
         IF \E role \in Roles : Cardinality(editors(EffectiveChain(role))) >= 2
         THEN "ready" ELSE "configuration"}

----------------------------------------------------------------------------
(* buildE2EPreflight: one scenario per mandatory step, with its status and  *)
(* the categories of its reasons.                                           *)

ReadyScenario == [status |-> "ready", reasons |-> {}]
Blocked(category) == [status |-> category, reasons |-> {category}]

RealProviders == {p \in Registered : Real(p)}
RealEditors == {p \in RealProviders : Edits(p)}

\* The roles the preflight routes: every team role, the orchestrator included.
Routes == Roles \union {Orchestrator}
BrainChain == RegisteredChain(EffectiveChain(Orchestrator))
ReviewRoute == RegisteredChain(GlobalChain)
MissionChain(role) == RegisteredChain(EffectiveChain(role))
Routable == UNION {MissionChain(role) : role \in Routes}

Planning ==
    IF \E p \in RealProviders : p \in BrainChain /\ Ready(p) THEN ReadyScenario
    ELSE Blocked(IF RealProviders # {} THEN "configuration" ELSE "credentials")

\* A registered provider that is not ready passes its reasons on.
MissionBy(p) ==
    CASE p \notin Registered -> Blocked("tool")
      [] p \in Registered /\ ~Ready(p) -> [status |-> Status(p), reasons |-> Reasons(p)]
      [] p \in Registered /\ Ready(p) /\ ~Edits(p) -> Blocked("gap")
      [] p \in Registered /\ Ready(p) /\ Edits(p) /\ p \notin Routable -> Blocked("configuration")
      [] OTHER -> ReadyScenario

Review ==
    IF Cardinality({p \in ReviewRoute : Real(p) /\ Ready(p)}) >= 2 THEN ReadyScenario
    ELSE Blocked(IF Cardinality(RealProviders) >= 2 THEN "configuration" ELSE "credentials")

Correction ==
    IF \E p \in RealEditors : p \in Routable /\ Ready(p) THEN ReadyScenario
    ELSE Blocked(IF RealEditors # {} THEN "configuration" ELSE "credentials")

BrainFallback == Cardinality({p \in BrainChain : Real(p) /\ Ready(p)}) >= 2
MissionFallback ==
    \E role \in Routes :
        Cardinality({p \in MissionChain(role) : Real(p) /\ Ready(p) /\ Edits(p)}) >= 2

Fallback ==
    IF BrainFallback \/ MissionFallback THEN ReadyScenario
    ELSE Blocked(CASE Cardinality(RealEditors) >= 2 -> "configuration"
                   [] Cardinality(RealEditors) < 2 /\ Cardinality(RealProviders) >= 2 -> "gap"
                   [] OTHER -> "credentials")

Push ==
    CASE ~deployment.git -> Blocked("tool")
      [] deployment.git /\ ~deployment.target -> Blocked("configuration")
      [] deployment.git /\ deployment.target /\ ~deployment.push ->
            Blocked(IF deployment.hint THEN "configuration" ELSE "credentials")
      [] OTHER -> ReadyScenario

\* Mutant: the dry-run push is not asked for.
PullRequestUnpushed ==
    CASE ~deployment.git \/ ~deployment.gh -> Blocked("tool")
      [] deployment.git /\ deployment.gh /\ ~deployment.login -> Blocked("credentials")
      [] deployment.git /\ deployment.gh /\ deployment.login
            /\ ~(deployment.target /\ deployment.write) -> Blocked("configuration")
      [] OTHER -> ReadyScenario

PullRequest ==
    CASE ~deployment.git \/ ~deployment.gh -> Blocked("tool")
      [] deployment.git /\ deployment.gh /\ ~deployment.login -> Blocked("credentials")
      [] deployment.git /\ deployment.gh /\ deployment.login
            /\ ~(deployment.target /\ deployment.push /\ deployment.write) -> Blocked("configuration")
      [] OTHER -> ReadyScenario

Steps == {"planning", "review", "correction", "fallback", "push", "pull_request", "no_merge"}

Scenario(key) ==
    CASE key \in Mission -> MissionBy(key)
      [] key = "planning" -> Planning
      [] key = "review" -> Review
      [] key = "correction" -> Correction
      [] key = "fallback" -> Fallback
      [] key = "push" -> Push
      [] key = "pull_request" -> PullRequest
      [] OTHER -> ReadyScenario

Report == [key \in Mission \union Steps |-> Scenario(key)]
Readiness == Summarize({Report[key].status : key \in DOMAIN Report})

----------------------------------------------------------------------------
(* The contract the report is parsed with.                                 *)

\* A blocked scenario has reasons, all of its own category; a ready one none.
Coherent(scenario) ==
    IF scenario.status = "ready" THEN scenario.reasons = {}
    ELSE scenario.reasons = {scenario.status}

\* What the routing and host sections must show for a scenario to be ready.
Supported(key) ==
    LET two(set) == Cardinality(set) >= 2
        reals(chain) == {p \in chain : p \in RealProviders}
        editors(chain) == {p \in chain : p \in RealEditors}
    IN  CASE key \in Mission -> key \in RealEditors /\ key \in Routable
          [] key = "planning" -> reals(BrainChain) # {}
          [] key = "review" -> two(reals(ReviewRoute))
          [] key = "correction" -> \E role \in Routes : editors(MissionChain(role)) # {}
          [] key = "fallback" -> \/ two(reals(BrainChain))
                                 \/ \E role \in Routes : two(editors(MissionChain(role)))
          [] key = "push" -> deployment.git /\ deployment.push
          [] key = "pull_request" -> /\ deployment.git /\ deployment.gh /\ deployment.login
                                     /\ deployment.push /\ deployment.write
          [] OTHER -> TRUE

Accepted ==
    \A key \in DOMAIN Report :
        Coherent(Report[key]) /\ (Report[key].status = "ready" => Supported(key))

\* GET /v1/e2e/preflight
Preflight ==
    /\ answer = "none"
    /\ answer' = IF Accepted THEN Readiness ELSE "refused"
    /\ UNCHANGED deployment

Next == Preflight

\* What avity e2e live run requires of the two reports (no fault is injected
\* and the local diagnosis is clean).
CampaignReady ==
    /\ answer = "ready"
    /\ deployment.campaign
    /\ Summarize(StatusChecks) = "ready"

----------------------------------------------------------------------------
(* Properties                                                              *)

\* The preflight answers with a report its own contract accepts, except when a
\* registered mission provider lacks things of several categories (signed out
\* and without a model, say): then it answers with an error.  And when it and
\* the status let a campaign start, whoever authors a mission is a real provider
\* and the reviewers the engine tries before the author hold a ready real one,
\* though each of the three computes its own chains.
PreflightIsTrue ==
    /\ answer # "none" =>
         (answer = "refused") = \E p \in Mission \intersect Registered : Cardinality(Reasons(p)) > 1
    /\ CampaignReady =>
         \A role \in Roles : \A author \in MissionChain(role) :
             /\ Real(author)
             /\ \E p \in ReviewerChain(author) : Real(p) /\ Ready(p)

=============================================================================
