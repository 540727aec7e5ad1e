---------------------------- MODULE MCSpeaking ----------------------------
\* Three rooms, the two of type squad in no order but that of joining.
EXTENDS Speaking, TLC

CONSTANTS map, squad, older

MCRoom == {map, squad, older}
MCType == (map :> "map") @@ (squad :> "squad") @@ (older :> "squad")
Symmetry == Permutations({squad, older})
=============================================================================
