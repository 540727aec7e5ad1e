SPECIFICATION FairSpec
CONSTANTS
  MapRoom = {m1}
  TypedRoom = {t1}
  None = None
  MaxMoves = 1
  MaxDrops = 2
INVARIANTS TypeOK HiddenRoomIsTransient StateAgrees
PROPERTY DropIsSurvived
