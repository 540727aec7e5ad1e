--------------------------- MODULE MCClientRooms ---------------------------
\* Model checking of ClientRooms: all values come from the configurations.
EXTENDS ClientRooms
=============================================================================
