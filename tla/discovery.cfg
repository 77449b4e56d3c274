SPECIFICATION Spec
CONSTANTS
  c1 = c1
  c2 = c2
  v1 = v1
  v2 = v2
  v3 = v3
  v4 = v4
  Nothing = Nothing
  Subscriptions <- MCSubscriptions
  Uploads <- MCUploads
  PageSize = 2
  ChannelPage = 1
  PublishTimes = {0, 1, 2}
  WindowStart = 1
  MaxTime = 3
  Laggards = {v3}
  MaxLeft = 1
  Events = {"fatal", "channel", "unresolved", "withdraw", "unsubscribe", "disorder"}
INVARIANTS
  TypeOK
  NothingMissed
  YieldedOnce
CHECK_DEADLOCK FALSE
