CONSTANTS
  Workers = {w1}
  Components = {"publication", "retry", "maintenance"}
  Null = Null
  Gone = Gone
  RequireRedis = FALSE
  Lapsing = {}
  MaxFaults = 2
  Channels = {1, 2}
  ExportChannels = {2}
  Offers = {1}
  ShopeeOffers = {}
  DailyLimit = 1
  MaxAttempts = 2
  t1 = t1
  t2 = t2
  m1 = m1
  Schedulers = {t1, t2}
  Operators = {m1}
  Crews <- MCCrews
  Checksums = {"c"}
  LockTtl = 1
  ManualTtl = 1
  Interval = 1
  NoTick = NoTick
  MaxShopTime = 1
  MaxRuns = 2
  MaxShopFaults = 1
SPECIFICATION ProgressSpec
INVARIANTS OfferStaysPublished
PROPERTIES EveryPublicationSettles ScheduleGoesOn
CHECK_DEADLOCK FALSE
