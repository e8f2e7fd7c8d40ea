------------------------- MODULE MCRemoteDelivery --------------------------
\* The instances of RemoteDelivery TLC explores, each aimed at one question.
EXTENDS RemoteDelivery

CONSTANTS d1, d2

Small == [requests |-> 1, sends |-> 1, devices |-> {d1}, kinds |-> {"read"}, crashes |-> 1,
          faults |-> 1, expiries |-> 0, capacity |-> 2, revoke |-> FALSE]

\* Two devices that expire, are revoked and fail.
Two == [Small EXCEPT !.devices = {d1, d2}, !.crashes = 0, !.expiries = 1, !.revoke = TRUE]
\* Two requests of every kind of one device.
Kinds == [Small EXCEPT !.requests = 2, !.kinds = {"read", "denied", "renew"}]
\* Three requests, one at a time, with messages that expire.
Retries == [Small EXCEPT !.requests = 3, !.expiries = 1]
\* Two requests that overlap, over a relay that loses nothing.
Overlaps == [Small EXCEPT !.requests = 2, !.sends = 2, !.crashes = 0, !.faults = 0]

AllInstances == {Two, Kinds, Retries, Overlaps}
=============================================================================
