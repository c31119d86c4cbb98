CONSTANTS
  None = None
  l1 = l1
  l2 = l2
  o1 = o1
  o2 = o2
  pub1 = pub1
  Requests = {r1, r2}
  Visitors = {v1}
  Links = {l1, l2}
  Offers = {o1, o2}
  Publications = {pub1}
  OfferOf <- MCOfferOf
  PublicationsOf <- MCPublicationsOf
  MaxTime = 1
  MaxClicks = 2
  MaxRedisFaults = 1
  CandidateLimit = 2
  WindowLength = 1
  MaxTable = 3
  f1 = f1
  f2 = f2
  f3 = f3
  Imports = {i1, i2}
  Files = {f1, f2, f3}
  FileIssues = {f1}
  FileType <- MCFileType
  FileRows <- MCFileRows
  Events = {"e0", "e1", "c1"}
  ConversionOf <- MCConversionOf
  KnownEvents = {"e0"}
  NoImport = NoImport
  MaxLapses = 1
  MaxImportFaults = 1
  w1 = w1
  w2 = w2
  m1 = m1
  Schedulers = {w1, w2}
  Operators = {m1}
  Crews <- MCCrews
  Checksums = {"c"}
  LockTtl = 1
  ManualTtl = 1
  Interval = 1
  NoTick = NoTick
  MaxShopTime = 1
  MaxRuns = 2
  MaxShopFaults = 1
  meli = meli
  shopee = shopee
  u1 = u1
  u2 = u2
  Jobs = {j1, j2}
  MeliProducts = {meli}
  ShopeeProducts = {shopee}
  Catalogs <- MCCatalogs
  OfferPrices = {10, 20}
  AffiliateUrls = {u1, u2}
  PricesOf <- MCPricesOf
  UrlsOf <- MCUrlsOf
  NoLink = NoLink
  NoJob = NoJob
  MaxVersions = 3
  Clients = {c1, c2}
  NoClient = NoClient
  MaxTokens = 3
  MaxTokenFaults = 1
  b1 = b1
  b2 = b2
  d1 = d1
  d2 = d2
  MeliJobs = {b1, b2}
  Dialogs = {d1, d2}
  LinkWorkers = {k1, k2}
  CookieNames = {"ssid", "csrf"}
  NoMeliJob = NoMeliJob
  MaxItems = 2
  MaxRotations = 2
  MaxWrites = 3
  MeliCrews <- MCMeliCrews
  Supervisors = {s1, s2}
  Components = {"worker"}
  NoSupervisor = NoSupervisor
  MaxCrashes = 2
  MaxStarts = 2
  MaxDeaths = 1
  p1 = p1
  p2 = p2
  g1 = g1
  g2 = g2
  t1 = t1
  t2 = t2
  Posts = {p1, p2}
  Groups = {g1, g2}
  Texts = {t1, t2}
  GroupOf <- MCGroupOf
  TextOf <- MCTextOf
  HasImage <- MCHasImage
  NoText = NoText
  NoGroup = NoGroup
  UrlOf <- MCUrlOf
  TitleOf <- MCTitleOf
  PagePlans <- MCPagePlans
  AllowTextFallback = TRUE
  TimeSlack = 0
  MaxPageTime = 1
  x1 = x1
  x2 = x2
  tg1 = tg1
  tg2 = tg2
  gr1 = gr1
  y1 = y1
  ShopOffers = {x1, x2}
  ShopChannels = {tg1, tg2, gr1}
  Clerks = {y1}
  ChannelKind <- MCChannelKind
  ZoneOf <- MCZoneOf
  Rank <- MCRank
  Settings <- MCSettings
  MaxPerCycle = 2
  MaxPerDay = 1
  MinInterval = 2
  MaxPending = 1
  DayLength = 2
  NoPair = NoPair
  NoTime = NoTime
  MaxDistTime = 2
  NoId = NoId
  NoNumber = NoNumber
  Walks <- MCWalks
  LeafCategories = {"first", "second"}
  HighlightsOf <- MCHighlightsOf
  ProductOf <- MCProductOf
  ItemsOf <- MCItemsOf
  ItemFacts <- MCItemFacts
  MaxHighlights = 4
  MaxDepth = 2
  MaxProducts = 5
  BalanceInputs <- MCBalanceInputs
  NoSetting = NoSetting
  FeedSettings <- MCFeedSettings
  FeedListing <- MCFeedListing
  FeedRules <- MCFeedRules
  RecentItems = {}
  MinDiscount = 2
  MaxPrice = 5
  PoolFloor = 2
  PoolCap = 2
  MaxChosen = 3
  MaxPerShop = 1
  ShortList = 3
  Commissions = {0, 9}
  Nothing = Nothing
  q1 = q1
  q2 = q2
  pf1 = pf1
  pf2 = pf2
  LoopCases <- MCLoopCases
  LoopOrder <- MCLoopOrder
  PausedBy <- MCPausedBy
  Cadence <- MCCadence
  BeatEvery = 1
  StaleAfter = 2
  SkewTolerance = 0
  MaxLate = 1
  Nobody = Nobody
VIEW FocusView
SPECIFICATION Spec
INVARIANTS
  ServicesTypeOK ClicksAreCredited LedgerMatchesJobs FileImportedOnce
  ImportsRepeatOnlyLate LookupHolds ReadyHasLink OneLinkPerShopeeProduct
  RotatedStaysRotated TokenIsNotLost SupervisionHolds PostingIsTrue
  ShopeeLimitsHold DiscoveryFindsTheBest SelectionIsBalanced FeedImportIsSound WorkerShowsItsState
PROPERTIES
  OutcomesStand HistoryIsKept OperatorCookieStands
CHECK_DEADLOCK FALSE
