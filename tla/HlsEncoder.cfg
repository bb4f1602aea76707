CONSTANTS
  SegmentCount = 3
  SeekAhead = 1
  MaxRestarts = 1
  MaxSpawns = 2
  MaxLives = 2
  Readers = {r}
SPECIFICATION Spec
CHECK_DEADLOCK FALSE
INVARIANTS SealIsOurs InheritedIsWhole SingleEncoder
