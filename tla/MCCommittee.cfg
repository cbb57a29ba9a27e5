SPECIFICATION FairSpec
CONSTANTS
  N = 2
  MaxRounds = 2
  MaxTrouble = 1
CHECK_DEADLOCK FALSE
INVARIANTS
  NeverWaitsForADrone
  EveryoneIsHeard
PROPERTIES
  Ends
