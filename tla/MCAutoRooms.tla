---------------------------- MODULE MCAutoRooms ----------------------------
\* Two groups of two, and a key that is good and one that is not.
EXTENDS AutoRooms, TLC

MCOthers == [g \in Group |-> IF g = "g1" THEN {"anna"} ELSE {"bert"}]
MCOwner == [k \in Key |-> IF k = "good" THEN Me ELSE None]
=============================================================================
