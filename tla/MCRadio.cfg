SPECIFICATION FairSpec
CONSTANTS
  m1 = m1
  m2 = m2
  ann = ann
  bob = bob
  NoStream = NoStream
  Msgs <- MCMsgs
  Others = {x}
  SeenMax = 2
  Streams = {s1, s2}
  Peers = {ann, bob}
  Local = {ann}
  SenderOf <- MCSenderOf
  Called <- MCCalled
  Since <- MCSince
  MaxCopies = 1
  TtlDays = 1
  LastDay = 1
  MaxFaults = 1
CHECK_DEADLOCK FALSE
INVARIANTS
  TakenOnce
  AlertsAreHeard
  LocalPeersNamed
PROPERTIES
  KeepsOrder
  ArrivedIsHeld
  LostOnlyByFaults
  EventuallyHeard
