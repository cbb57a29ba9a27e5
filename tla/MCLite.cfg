SPECIFICATION FairSpec
CONSTANTS
  market = market
  governance = governance
  Entities = {market, governance}
  Greets <- MCGreets
  Nobody = Nobody
  Outsiders = {wire}
  MaxTurns = 2
  MaxLives = 2
  MaxNews = 2
  TtlDays = 1
  LastDay = 1
  MaxFaults = 1
CHECK_DEADLOCK FALSE
INVARIANTS
  TurnsAreBounded
  NoMonologue
  EndsByTurns
PROPERTIES
  Converges
  RefusedRefreshes
