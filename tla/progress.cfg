SPECIFICATION FairSpec
CONSTANTS
  v1 = v1
  v2 = v2
  v3 = v3
  v4 = v4
  c1 = c1
  c2 = c2
  NoVideo = NoVideo
  Video = {v1, v2, v3}
  Channel = {c1, c2}
  ChannelOf <- MCChannelOf
  Short = {v3}
  Proc = {p1}
  MaxAttempts = 2
  Day = 1
  Limits = {0, 1, 2}
  DefaultLimit = 2
  Events = {"interrupt", "tear", "fatal", "telegram", "channel", "withdraw", "select"}
  PublishTimes = {0}
  MaxTime = 3
INVARIANTS
  LimitRespected
PROPERTIES
  RunsTerminate
  KeepsUp
VIEW WithoutHistory
CHECK_DEADLOCK FALSE
