-------------------------- MODULE MCMissionEngine --------------------------
\* Small instances of MissionEngine for TLC: two missions, the second of which
\* depends on the first, and one mission alone.
EXTENDS MissionEngine

CONSTANTS m1, m2

Chain  == [m \in Missions |-> IF m = m2 THEN {m1} ELSE {}]
NoDeps == [m \in Missions |-> {}]

SlotPair == 1..2
OneSlot == 1..1
=============================================================================
