SPECIFICATION MarketsSpec
CONSTANTS
  Ids = {1, 2, 3, 4}
  Known = {1, 2, 3}
  Card <- TwoCards
  Tiers = {1, 2}
  Markets = {1, 2}
  TierMarkets <- TwoMarkets
  LoadOrder <- TcgFirst
  WindowDays <- Windows
  SlotsPerDay <- DailySlots
  BeatPlan <- Sydney
  MaxDay = 3
  MaxQueue = 2
  MaxExtra = 1
  Handles <- EverythingThenInStock
  InStock = {"instock"}
  Items = {1, 2, 3}
  Cards = {2, 3}
  PageSize = 1
  Sampled = 2
  MaxWeeks = 2
  MaxChanges = 2
  MaxFails = 1
  Uuids = {u1, u2}
  Vendors = {v1, v2}
  Bootstraps = {b1, b2}
  u1 = u1
  u2 = u2
  v1 = v1
  v2 = v2
  b1 = b1
  b2 = b2
  MaxFiles = 2
SYMMETRY Alike
INVARIANTS MarketTypes WindowRefreshesAll RowsAreKept FetchedIsKept
PROPERTY EveryDownloadIsLoaded
CHECK_DEADLOCK FALSE
