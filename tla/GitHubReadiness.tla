---------------------------- MODULE GitHubReadiness ---------------------------
\* What the host and GitHub would let the publication workflow do: the probe of
\* git and gh that the preflight asks for, command by command, and the cache in
\* front of it.  A call that finds a live entry shares its probe and changes
\* nothing.
EXTENDS Naturals, Sequences

CONSTANTS
    Ttl, ShortTtl,      \* how long an answer is kept; an incomplete one of a target
    Probes, Horizon,    \* bounds on probes and on time
    Changes,            \* bound on changes of the host
    Hosts               \* the sets of facts the host may show

Facts == <<"git", "gh", "auth", "push", "read", "write">>
AllFacts == {Facts[k] : k \in 1..6}

\* A repository on GitHub, one elsewhere, or a project without a repository.
Targets == {"github", "elsewhere", "none"}

VARIABLES
    instant, changes,
    host,               \* the facts a command would find now
    held,               \* when the host last showed each fact
    target,             \* what is asked about; targets share no entry of the cache
    cache,              \* its entry: [probe, expires]; probe 0 is no entry
    probes              \* every probe started, in order

vars == <<instant, changes, host, held, target, cache, probes>>

None == "none"

Init ==
    /\ instant = Ttl /\ changes = 0
    /\ host \in Hosts
    /\ held = [f \in AllFacts |-> IF f \in host THEN instant ELSE 0]
    /\ target \in Targets
    /\ cache = [probe |-> 0, expires |-> 0]
    /\ probes = <<>>

\* getCachedGitHubReadiness without a live entry: a probe is started and cached.
Probe ==
    /\ cache.expires <= instant
    /\ Len(probes) < Probes
    /\ probes' = Append(probes, [at |-> 1, found |-> {}, finished |-> 0])
    /\ cache' = [probe |-> Len(probes'), expires |-> instant + Ttl]
    /\ UNCHANGED <<instant, changes, host, held, target>>

\* The commands a probe runs: those about a repository need one, gh's need gh
\* signed in, and the permission is GitHub's to say.
Asked(found, fact) ==
    CASE fact \in {"git", "gh"} -> TRUE
      [] fact = "auth" -> "gh" \in found
      [] fact = "push" -> target # None /\ "git" \in found
      [] OTHER -> target = "github" /\ {"gh", "auth"} \subseteq found

\* The first command still to run from the k-th on; 7 when there is none.
NextCommand(found, k) ==
    CHOOSE n \in k..7 : /\ n = 7 \/ Asked(found, Facts[n])
                        /\ \A m \in k..(n - 1) : ~Asked(found, Facts[m])

\* The probe's answer is there: an incomplete one of a target expires early,
\* unless a later probe has taken its place.
Finish(i, found) ==
    LET early == instant + ShortTtl
    IN  cache' = IF target # None /\ cache.probe = i /\ found # AllFacts /\ early < cache.expires
                 THEN [cache EXCEPT !.expires = early] ELSE cache

\* The next command of a probe: it finds its fact, or fails or times out.
Run(i) ==
    /\ probes[i].finished = 0
    /\ \E success \in {FALSE, (Facts[probes[i].at] \in host)} :
          LET found == probes[i].found \union (IF success THEN {Facts[probes[i].at]} ELSE {})
              next == NextCommand(found, probes[i].at + 1)
          IN  /\ probes' = [probes EXCEPT ![i] =
                               [at |-> next, found |-> found,
                                finished |-> IF next = 7 THEN instant ELSE 0]]
              /\ IF next = 7 THEN Finish(i, found) ELSE UNCHANGED cache
    /\ UNCHANGED <<instant, changes, host, held, target>>

\* Time passes; the host goes offline, or is repaired.
Tick ==
    /\ instant < Horizon
    /\ instant' = instant + 1
    /\ held' = [f \in AllFacts |-> IF f \in host THEN instant' ELSE held[f]]
    /\ UNCHANGED <<changes, host, target, cache, probes>>

Change ==
    /\ changes < Changes /\ changes' = changes + 1
    /\ host' \in Hosts \ {host}
    /\ held' = [f \in AllFacts |-> IF f \in host' THEN instant ELSE held[f]]
    /\ UNCHANGED <<instant, target, cache, probes>>

Next ==
    \/ Probe
    \/ \E i \in DOMAIN probes : Run(i)
    \/ Tick \/ Change

Spec == Init /\ [][Next]_vars

-----------------------------------------------------------------------------
\* The answer a call would be given from the cache.
Served == cache.probe # 0 /\ cache.expires > instant /\ probes[cache.probe].finished # 0

\* Whatever probes of one target overlap, and whichever of them ends last, an
\* answer given from the cache is recent: every fact it claims was true less
\* than Ttl ago, and what it misses of a repository was missed less than
\* ShortTtl ago.
AnswersAreRecent ==
    LET answer == probes[cache.probe]
    IN  Served =>
        /\ \A f \in answer.found : instant - held[f] < Ttl
        /\ (target # None /\ answer.found # AllFacts) => instant - answer.finished < ShortTtl

=============================================================================
