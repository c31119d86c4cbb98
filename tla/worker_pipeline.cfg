CONSTANTS
  Workers = {w1, w2}
  Components = {"publication", "retry", "maintenance"}
  Null = Null
  Gone = Gone
  RequireRedis = TRUE
  Lapsing = {"leader"}
  MaxFaults = 1
  Channels = {1}
  ExportChannels = {}
  Offers = {1, 2}
  ShopeeOffers = {1}
  DailyLimit = 1
  MaxAttempts = 2
SPECIFICATION Spec
SYMMETRY Symmetry
INVARIANTS OverlapNeedsTwoLapses RepeatsNeedFaults AttemptsAreBounded
PROPERTIES ChannelWaits PlannedWithinLimit DeliveredIsFinal
CHECK_DEADLOCK FALSE
