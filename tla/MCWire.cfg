SPECIFICATION FairSpec
CONSTANTS
  Items = {1, 2}
  Outlets <- MCOutlets
  Prints <- MCPrints
  Window = 2
  Readers = {a, b}
  MaxItems = 2
  Cap = 1
  TtlDays = 1
  LastDay = 1
  MaxFaults = 2
CHECK_DEADLOCK FALSE
INVARIANTS
  TypeOK
  SentOnce
  SeenWasOffered
PROPERTIES
  EveryoneServed
  EventuallyOffered
