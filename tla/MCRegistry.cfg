SPECIFICATION FairSpec
CONSTANTS
  warsaw = warsaw
  madrid = madrid
  axiom = axiom
  Nodes = {warsaw, madrid}
  Dids = {1, 2}
  NameOf <- MCNameOf
  HomeOf <- MCHomeOf
  Loops = {warsaw}
  MaxAt = 3
  MaxClaims = 3
  Times <- MCTimes
  MaxFaults = 1
INVARIANTS
  OneHolder
PROPERTIES
  UnseatedByNewer
  Agree
