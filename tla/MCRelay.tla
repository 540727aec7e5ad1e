------------------------------ MODULE MCRelay ------------------------------
EXTENDS Relay, TLC
Alike == Permutations(Peer) \cup Permutations(Room)
=============================================================================
