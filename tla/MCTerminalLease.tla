-------------------------- MODULE MCTerminalLease --------------------------
\* A small instance of TerminalLease for TLC: a check of one project, a user
\* terminal of another, and two workers that compete for the check.
EXTENDS TerminalLease

CONSTANTS t1, t2, p1, p2, w1, w2

TwoProjects == [t \in Terminals |-> IF t = t2 THEN p2 ELSE p1]

\* w2 lacks a capability that t2 requires.
AbleOfChecks == [w \in Workers |-> IF w = w2 THEN Terminals \ {t2} ELSE Terminals]

OneAtATime == [w \in Workers |-> 1]

\* Bounds: two pauses of the first project, none of the second.
PauseFirst == [p \in Projects |-> IF p = p1 THEN 2 ELSE 0]

\* Bounds: the check is leased at most twice, the user terminal once.
RetryFirst == [t \in Terminals |-> IF t = t1 THEN 2 ELSE 1]
=============================================================================
