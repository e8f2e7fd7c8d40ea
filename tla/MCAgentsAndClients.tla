------------------------- MODULE MCAgentsAndClients -------------------------
\* AgentsAndClients on small instances of each of its parts.
EXTENDS AgentsAndClients, PlanSearch, TLC

\* A Mac that loses a stream, a control plane and a setting while two events
\* come, one more than a replay carries; a browser with two loads at once.
MacApp == [client |-> "mac", events |-> 2, cuts |-> 1, outages |-> 1, configures |-> 1]
WebApp == [client |-> "web", events |-> 2, cuts |-> 1, outages |-> 1, configures |-> 0]

\* A mission that is paused at any await; one whose control plane crashes at any
\* await while agents go on; one that may change nothing.
Paused == [readOnly |-> FALSE, outlive |-> FALSE, edits |-> 2, writes |-> 0,
           attempts |-> 1, pauses |-> 1, crashes |-> 0]
Crashed == [Paused EXCEPT !.outlive = TRUE, !.writes = 1, !.pauses = 0, !.crashes = 1]
ReadOnly == [Paused EXCEPT !.readOnly = TRUE, !.edits = 1, !.writes = 1]

\* Plans of three missions with every dependency a model may name, also of a
\* mission that is not there, of itself and the same one twice.
PlainRepo == [there |-> TRUE, package |-> "absent", scripts |-> {}, lock |-> FALSE, swift |-> FALSE,
              tracked |-> {"package.json", "pnpm-lock.yaml", "Package.swift"}]
Git == "architecture_rule" :> <<"git", "diff">>
Mission == [key |-> "a", objective |-> "a", milestone |-> "m", dependsOn |-> <<>>, covers |-> {0, 1},
            allowed |-> {<<"src", "**">>}, forbidden |-> {}, required |-> {"architecture_rule"},
            commands |-> Git, artifacts |-> {}, changes |-> TRUE, budget |-> 1]
Waiting(k, d) == [Mission EXCEPT !.key = k, !.objective = k, !.dependsOn = d]
Waits(k) == LET others == {"a", "b", "c"} \ {k} IN
            {<<>>, <<k>>, <<"ghost">>} \union {<<x>> : x \in others} \union {<<x, y>> : x, y \in others}
Chains == [repositories |-> {PlainRepo}, criteria |-> 2, budget |-> 2, edits |-> 0, repairs |-> 1,
           executables |-> {"git", "pnpm", "swift"},
           proposals |->
             {<<Waiting("a", d), Waiting("b", e), Waiting("c", f)>> :
                 d \in Waits("a"), e \in Waits("b"), f \in Waits("c")} \union
             {<<Mission, [Waiting("b", <<"a">>) EXCEPT !.objective = "a"]>>, <<Mission, Mission>>,
              <<[Mission EXCEPT !.covers = {0}], [Waiting("b", <<"a">>) EXCEPT !.covers = {1}]>>} \union
             {<<m>> : m \in {[Mission EXCEPT !.milestone = "x"], [Mission EXCEPT !.budget = 3],
                             [Mission EXCEPT !.covers = {0}], [Mission EXCEPT !.covers = 0..2]}}]

\* The search of the code finds a cycle of dependencies exactly when there is one,
\* in every graph of three missions, which may also wait for one that is none.
ASSUME SearchIsExact ==
    \A next \in [1..3 -> SUBSET (0..3)] : AssertAcyclic(next) <=> V!NoCycle(next)

\* Every repository the detection of checks tells apart, changed between the
\* listing and the reading, with the checks a model may declare.
Kinds == {"test", "build"}
Repos == {[PlainRepo EXCEPT !.package = p, !.scripts = s, !.lock = l, !.swift = w, !.tracked = t] :
             p \in {"absent", "binary", "malformed", "long", "text"}, s \in {{}, {"test"}, Kinds},
             l \in BOOLEAN, w \in BOOLEAN,
             t \in {PlainRepo.tracked, {"pnpm-lock.yaml", "Package.swift"}}}
NoRepo == [PlainRepo EXCEPT !.there = FALSE]
Declared == {[k \in {} |-> <<>>], Git} \union {Git @@ (k :> <<e, k>>) : k \in Kinds, e \in {"pnpm", "npm"}}
               \union {Git @@ [k \in Kinds |-> <<e, k>>] : e \in {"pnpm", "npm", "swift"}}
Checked == [Chains EXCEPT !.repositories = Repos \union {NoRepo}, !.edits = 1, !.repairs = 0,
              !.proposals =
                 {<<[Mission EXCEPT !.commands = d, !.required = {"architecture_rule"} \union r]>> :
                     d \in Declared, r \in {{}, {"test"}, Kinds}} \union
                 {<<[Mission EXCEPT !.commands = [k \in {} |-> <<>>], !.required = {}, !.allowed = {}, !.changes = FALSE]>>}]

\* Paths and artifacts that fit together or not.
Artifact(l, q) == [labelled |-> l, path |-> q]
Artifacts == {Artifact(l, <<"src", "b">>) : l \in BOOLEAN} \union
             {Artifact(FALSE, q) : q \in {<<"docs", "b">>, <<"src", "*">>, <<"..", "b">>, <<"src", ".env">>}}
Patterns == {<<"src", "**">>, <<"docs", "**">>, <<"", "src">>, <<"src", "b">>}
Upto1(S) == {{}} \union {{x} : x \in S}
Paths == [Chains EXCEPT !.repositories = {PlainRepo, NoRepo}, !.repairs = 0,
            !.proposals = {<<[Mission EXCEPT !.allowed = a, !.forbidden = f, !.artifacts = x, !.changes = c]>> :
                              a \in Upto1(Patterns), f \in Upto1(Patterns), x \in Upto1(Artifacts), c \in BOOLEAN}]

MCFollowers == {MacApp, WebApp}
MCMissions == {Paused, Crashed, ReadOnly}
MCProposals == {Chains, Checked, Paths}

=============================================================================
