SPECIFICATION Spec
CONSTANTS
  Ports = {0, 1}
  Lbas <- MCLbas
  Whole = {TRUE, FALSE}
  MaxFaults = 3
INVARIANTS
  TransfersAreSound
  LoneStickAnswers
