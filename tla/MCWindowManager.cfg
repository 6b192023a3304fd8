SPECIFICATION FairSpec
CONSTANTS
  Windows = {0, 1, 2, 11}
  Cooldown = 2
  MaxReads = 1
INVARIANTS
  EveryWindowHasOnePlace
  MinimizedIsOpen
  PaintedOnce
  OneButtonPerClick
PROPERTIES
  KeepsBeingPainted
