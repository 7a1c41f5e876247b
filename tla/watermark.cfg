SPECIFICATION CatalogueSpec
CONSTANTS
  LastDay = 3
  WeekDays = 2
  Window = 2
  KeepDays = 0
  MaxWrites = 2
  MaxOdd = 0
  Faces <- TwoFaces
  Sealed = {"box"}
  VersionOf <- OneCard
  LastDate = 2
  BatchDays = 1
  MaxMishaps = 0
  Loads <- TwoLoads
  Ids <- FourIds
  CardsOf <- WhoseIds
  Skus <- TwoConditions
  Batches <- TheirBatches
  Retention = 1
  Products <- TwoProducts
  Title <- TheirTitles
  Passes <- TheirPasses
  Candidates <- TheirVersions
  Sales <- TwoSales
  PageLink <- NoPageLink
  StrongVotes = 2
  MaxRuns = 3
  MaxFailures = 1
  Prints <- ThreeVersions
  Attr <- TheirAttr
  Queries <- ThreeQueries
  Containing <- ByContains
  Ttl <- Lives
  Readers = {"r1"}
  SparkTtl = 2
  MaxTime = 3
  MaxChanges = 2
  MaxTurns = 2
  Chains <- ThreeRuns
  ChainDays = 2
  Order <- ChildFirst
  Parent <- MainIsParent
  NoSet = "none"
  LastVersion = 2
  Keep = 1
  MaxFaults = 1
INVARIANT NoDayPassedOver
CHECK_DEADLOCK FALSE
