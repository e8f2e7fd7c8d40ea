---------------------------- MODULE MCRemoteHost ----------------------------
\* The instances of RemoteHost TLC explores, each aimed at one question.
EXTENDS RemoteHost

CONSTANTS d1, d2

\* Two configurations, renewals of the host's certificate, a restart.
Configuring == [ops |-> {"configure"}, paired |-> {}, clock |-> 1, admins |-> 2,
                calls |-> 2, failures |-> 1, crashes |-> 1]
\* Two devices, two requests or more for one pairing session, and revocations.
Pairing == [Configuring EXCEPT !.ops = {"accept", "revoke"}, !.clock = 0, !.admins = 1, !.calls = 3]
\* A paired device renews its certificate and is revoked.
Renewing == [Configuring EXCEPT !.ops = {"revoke"}, !.paired = {d1}, !.clock = 2, !.admins = 1]

AllInstances == {Configuring, Pairing, Renewing}
=============================================================================
