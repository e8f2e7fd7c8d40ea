-------------------------- MODULE MCOperatorTools ---------------------------
\* OperatorTools on small instances of each of its parts.
EXTENDS OperatorTools, FiniteSets, SequencesExt

CONSTANTS t1, t2, p1, h1

\* Two commands and one bearer rotation between their copies; or one command,
\* a master key's rotation and a bundle whose recovery key is the old one.
TwoTools == [tools |-> {t1, t2}, keys |-> 1, bearers |-> 2, bundles |-> 1, hurt |-> 1]
OneTool == [tools |-> {t1}, keys |-> 2, bearers |-> 2, bundles |-> 2, hurt |-> 2]

\* Two commands side by side with every fault, without the project's work; one
\* command after another with the work of two objectives; with interventions.
Faults == [clis |-> {1, 2}, starts |-> 3, crashes |-> 1, outages |-> 1, pauses |-> 1,
           asks |-> 0, work |-> {}]
Reruns == [Faults EXCEPT !.clis = {1}, !.starts = 2, !.crashes = 0, !.outages = 0,
                         !.pauses = 0, !.work = {1, 2}]
Asks == [Reruns EXCEPT !.work = {1}, !.asks = 1]

\* Deployments: what is registered, signed in and modelled varies with the
\* chains; what the host checks saw varies on a host that is otherwise ready.
MCRoles == {"backend"}
Order == <<"codex", "cursor", "openai", "fake">>
Keyed == {"codex", "cursor", "openai"}
NoRoleChain == [r \in MCRoles \union {"orchestrator"} |-> <<>>]
SignedIn(s) == [p \in {"codex", "cursor"} |->
                  [variable |-> p = "codex" /\ p \in s,
                   file |-> IF p \in s THEN "regular" ELSE "symlink"]]
Host == [campaign |-> TRUE, registered |-> Keyed, credentials |-> SignedIn({"codex", "cursor"}),
         modelled |-> Keyed, chain |-> <<"codex", "cursor", "openai">>, roleChains |-> NoRoleChain,
         git |-> TRUE, gh |-> TRUE, hint |-> TRUE, login |-> TRUE, push |-> TRUE,
         write |-> TRUE, target |-> TRUE]
Chains == {SelectSeq(Order, LAMBDA p : p \in s) : s \in SUBSET ToSet(Order)}
              \union {<<"openai", "codex", "openai">>}
RoleChains == {NoRoleChain} \union
    {[NoRoleChain EXCEPT ![r] = <<p>>] : r \in MCRoles \union {"orchestrator"}, p \in {"codex", "openai", "fake"}}
Seen == {[Host EXCEPT !.git = a, !.gh = b, !.hint = c, !.login = d, !.push = e, !.write = f, !.target = g] :
             a, b, c, d, e, f, g \in BOOLEAN}
Routings == {[Host EXCEPT !.campaign = m, !.registered = r, !.modelled = d, !.chain = c, !.roleChains = x] :
             m \in BOOLEAN, r \in SUBSET Keyed, d \in {Keyed, {"codex"}}, c \in Chains, x \in RoleChains}
Logins == {[Host EXCEPT !.registered = r, !.credentials = SignedIn(s), !.modelled = d, !.chain = c] :
             r \in SUBSET Keyed, s \in SUBSET {"codex", "cursor"}, d \in SUBSET Keyed, c \in Chains}

\* Releases: a higher version and build, one for a later macOS, a lower version
\* with a higher build; an application signed ad hoc.
A1 == [id |-> 1, version |-> <<1, 9, 0>>, build |-> 1, minimum |-> <<14, 0>>, team |-> "T"]
A2 == [A1 EXCEPT !.id = 2, !.version = <<1, 10, 0>>, !.build = 2]
Later == [A1 EXCEPT !.id = 3, !.build = 3, !.minimum = <<15, 1>>]
Lower == [A1 EXCEPT !.id = 4, !.build = 3]
AdHoc == [A1 EXCEPT !.id = 5, !.team = "none"]

\* One command after another with a kill, on a release or not; two at once.
OneCommand == [commands |-> {1}, first |-> A1, runs |-> 3, kills |-> 1, releases |-> 2]
OnAdHoc == [OneCommand EXCEPT !.first = AdHoc, !.runs = 2]
TwoCommands == [OneCommand EXCEPT !.commands = {1, 2}, !.runs = 2, !.kills = 0]

MCTools == {t1, t2}
MCPlaces == {p1}
MCHomes == {h1}
MCBackups == {TwoTools, OneTool}
MCCampaigns == {Faults, Reruns, Asks}
MCMission == {"codex", "cursor"}
MCHttp == {"openai"}
MCDeployments == Seen \union Routings \union Logins
MCHosts == {{"git", "gh", "auth", "push", "read", "write"}, {"git", "gh"}, {"git", "push"}}
MCApps == {A1, A2, Later, Lower, AdHoc}
MCSystem == <<15, 0>>
MCUpdates == {OneCommand, OnAdHoc, TwoCommands}

=============================================================================
