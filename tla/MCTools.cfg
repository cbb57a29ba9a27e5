SPECIFICATION Spec
CONSTANTS
  r1 = r1
  c1 = c1
  c2 = c2
  Calls = {r1, c1, c2}
  Radios = {r1}
  Other = Other
  Jobs <- MCJobs
  TtlDays = 1
  LastDay = 2
  MaxFaults = 1
CHECK_DEADLOCK FALSE
INVARIANTS
  TypeOK
  Truthful
  AtMostOnce
  FileIsWhole
  NameIsHeld
