--------------------------- MODULE MCRoomManager ---------------------------
\* Model checking of RoomManager: model values and symmetry.
EXTENDS RoomManagerProofs, TLC

Symmetry == Permutations(Peer) \cup Permutations(Instance)
            \cup Permutations(Account) \cup Permutations(RoomId)
=============================================================================
