---------------------------- MODULE MCPeerAudio ----------------------------
\* Model checking of PeerAudio: model values and symmetry.
EXTENDS PeerAudio, TLC

Symmetry == Permutations(Room)
=============================================================================
