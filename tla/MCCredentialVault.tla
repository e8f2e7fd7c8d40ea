------------------------- MODULE MCCredentialVault --------------------------
\* The instances of CredentialVault TLC explores, each aimed at one question.
EXTENDS CredentialVault

CONSTANTS c1, c2, c3, n1, n2

\* Every command on a vault in use, one at a time, one of which dies.
One == [clis |-> {c1, c2}, ops |-> {"set", "swap", "remove", "export", "rotate", "restore"},
        fresh |-> FALSE, alone |-> TRUE, runs |-> 3, crashes |-> 1]
\* Two of them together.
Together == [One EXCEPT !.alone = FALSE, !.runs = 2]
\* Setting up and migrating.
Fresh == [One EXCEPT !.ops = {"init", "migrate", "set"}, !.fresh = TRUE, !.alone = FALSE,
                     !.runs = 2]
\* Two commands find the lock of a dead one.
Takeover == [One EXCEPT !.clis = {c1, c2, c3}, !.ops = {"swap"}, !.alone = FALSE]

AllInstances == {One, Together, Fresh, Takeover}
=============================================================================
