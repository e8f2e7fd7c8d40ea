------------------------- MODULE MCWorkerRotation --------------------------
\* The instances of WorkerRotation TLC explores, each aimed at one question.
EXTENDS WorkerRotation

CONSTANTS c1, c2

\* Two rotations of either kind, with a crash and two faults.
One == [clis |-> {c1}, kinds |-> Factors, runs |-> 2, faults |-> 2, crashes |-> 1, revoke |-> FALSE]
\* Two commands together, on a worker that is revoked.
Together == [One EXCEPT !.clis = {c1, c2}, !.faults = 0, !.crashes = 0, !.revoke = TRUE]

AllInstances == {One, Together}
=============================================================================
