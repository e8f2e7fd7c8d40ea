----------------------------- MODULE PlanSearch -----------------------------
\* The depth-first search of assertAcyclic, which only TLC can evaluate:
\* PlanProposal has what it decides (NoCycle), MCAgentsAndClients compares the two.
EXTENDS Naturals, SequencesExt

\* s has the nodes on the stack, those done, and whether a node was met on the
\* stack, which throws; a node that is no key of next has no successors.
RECURSIVE Visit(_, _, _)
Visit(s, k, next) ==
    IF s.cycle \/ k \in s.done THEN s
    ELSE IF k \in s.visiting THEN [s EXCEPT !.cycle = TRUE]
    ELSE LET successors == IF k \in DOMAIN next THEN SetToSeq(next[k]) ELSE <<>>
             t == FoldLeft(LAMBDA u, n : Visit(u, n, next), [s EXCEPT !.visiting = @ \union {k}], successors)
         IN  [t EXCEPT !.visiting = @ \ {k}, !.done = @ \union {k}]

AssertAcyclic(next) ==
    LET start == [visiting |-> {}, done |-> {}, cycle |-> FALSE]
    IN  ~FoldLeft(LAMBDA s, k : Visit(s, k, next), start, SetToSeq(DOMAIN next)).cycle

=============================================================================
