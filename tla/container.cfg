SPECIFICATION FairSpec
CONSTANTS
  Service = {s1}
  Operator = Operator
  Nobody = Nobody
  Occurrences = {1}
  MaxTime = 2
  MaxUpdates = 1
  ServiceEvents = {"stop", "crash", "poll", "disk", "operator"}
  c1 = c1
  Video = {v1}
  Channel = {c1}
  ChannelOf <- MCChannelOf
  Short = {}
  MaxAttempts = 2
  Day = 1
  DefaultLimit = 2
  PublishTimes = {0}
  NoVideo = NoVideo
  Limit = 0
  RunEvents = {"interrupt", "tear", "fatal", "channel"}
INVARIANTS
  RunInsideLock
PROPERTIES
  OccurrenceCovered
  RequestCovered
  StopEndsService
  MessagesConsumed
CHECK_DEADLOCK FALSE
