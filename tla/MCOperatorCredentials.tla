----------------------- MODULE MCOperatorCredentials ------------------------
\* The instances of OperatorCredentials TLC explores, each aimed at one question.
EXTENDS OperatorCredentials

CONSTANTS c1, c2

\* Three rotations of either kind, with crashes and failed requests.
One == [clis |-> {c1}, kinds |-> {"token", "external"}, runs |-> 3, faults |-> 2, crashes |-> 2]
\* Two commands together, and a third run that may find what they left.
Together == [One EXCEPT !.clis = {c1, c2}, !.runs = 3, !.faults = 1, !.crashes = 1]

AllInstances == {One, Together}
=============================================================================
