SPECIFICATION Spec
CONSTANTS
  v1 = v1
  v2 = v2
  v3 = v3
  v4 = v4
  c1 = c1
  c2 = c2
  NoVideo = NoVideo
  Video = {v1, v2}
  Channel = {c1, c2}
  ChannelOf <- MCChannelOf
  Short = {}
  Proc = {p1}
  MaxAttempts = 2
  Day = 1
  Limits = {1}
  DefaultLimit = 2
  Events = {"telegram"}
  PublishTimes = {0}
  MaxTime = 2
INVARIANTS
  CutoffOnlyAfterTraversal
CHECK_DEADLOCK FALSE
