SPECIFICATION FairSpec
CONSTANTS
  Ttl = 12
  Interval = 3
  SlowDown = 2
  Latency = 2
  Events = {"network", "telegram", "disk", "revoke", "deny", "interrupt"}
INVARIANTS
  TypeOK
  ExpiredMeansExpired
  OnlyLateApprovalsLost
PROPERTIES
  PollsSpaced
  GateEnds
