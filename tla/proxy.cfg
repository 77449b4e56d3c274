SPECIFICATION FairSpec
CONSTANTS
  Exit = {e1, e2, e3, e4}
  Unknown = Unknown
  MaxRotations = 3
  Events = {"control", "forget", "interrupt"}
INVARIANTS
  TypeOK
  RetryOnFreshExit
PROPERTIES
  FetchEnds
