SPECIFICATION SellingSpec
CONSTANTS
  Items <- TwoItems
  Clients <- TwoClients
  Drains <- OneDrainer
  Limit = 2
  MaxActions = 4
  MaxFails = 2
  Orders <- OneOrder
  Tracking <- TwoNumbers
  MaxOrderFails = 2
  Requests = {"r1", "r2"}
  IdemKeys = {"k1"}
  KeyOf <- RepeatedClick
  Legacy = {"k1"}
  MaxFaults = 3
  OwnRows = {"o1", "o2"}
  ScrapeRows = {"s1"}
  OwnKeys = {"k1", "k2"}
  ScrapeKeys = {"k2"}
  Prices = {2, 5}
  MaxAmends = 1
  MaxLapses = 1
INVARIANTS SellingTypes ActedAtMostOnce ListingsHold PromotionHolds
PROPERTIES OverIsFinal ShipmentSurvives ResolvedIsPromoted
CHECK_DEADLOCK FALSE
