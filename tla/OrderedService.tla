--------------------------- MODULE OrderedService ---------------------------
(***************************************************************************)
(* What the remote bridge promises the devices of an account (ADR-0007,    *)
(* ADR-0008): the host serves requests one by one, in the order the relay  *)
(* accepted them.  The next request has its effect, perhaps again after a  *)
(* crash, then exactly one answer, and only then is it done; nothing is    *)
(* skipped.                                                                *)
(***************************************************************************)
EXTENDS Naturals, Sequences

CONSTANT Requests

VARIABLES
    accepted,   \* requests in the order the relay accepted them
    effects,    \* how often each request had its effect
    answered,   \* requests whose answer was published
    done        \* how many of the accepted requests are finished with

vars == <<accepted, effects, answered, done>>

Init ==
    /\ accepted = <<>>
    /\ effects = [q \in Requests |-> 0]
    /\ answered = {}
    /\ done = 0

Accept ==
    /\ \E q \in Requests : accepted' = Append(accepted, q)
    /\ UNCHANGED <<effects, answered, done>>

Next1 == accepted[done + 1]

\* Only the request next in line has an effect, and not after its answer.
Serve ==
    /\ done < Len(accepted) /\ Next1 \notin answered
    /\ effects' = [effects EXCEPT ![Next1] = @ + 1]
    /\ UNCHANGED <<accepted, answered, done>>

Answer ==
    /\ done < Len(accepted) /\ Next1 \notin answered /\ effects[Next1] > 0
    /\ answered' = answered \cup {Next1}
    /\ UNCHANGED <<accepted, effects, done>>

Finish ==
    /\ done < Len(accepted) /\ Next1 \in answered
    /\ done' = done + 1
    /\ UNCHANGED <<accepted, effects, answered>>

Next == Accept \/ Serve \/ Answer \/ Finish

Spec == Init /\ [][Next]_vars
=============================================================================
