SPECIFICATION NightlySpec
CONSTANTS
  Finish = 4
  Last = 5
  Kind <- AllDirect
  Fallible = {2, 3, 5}
  MaxDay = 2
  MaxTriggers = 4
  MaxCrashes = 0
  MaxLost = 0
  MaxSlow = 0
  Burst = FALSE
  Calls <- ThreeCalls
  Connections = {"k1", "k2"}
  Registered <- InTxnOrTimed
  Statements = 2
  Caller <- InnerIsCalled
  Losses = 1
  Size = 4
  BatchSize = 2
  MaxRetries = 1
  ResumePoints = {0, 1}
  Failures = 3
  Items <- ThreeItems
  Old = {"i1"}
  Accounts <- TwoAccounts
  AccountOf <- WhoseItem
  Cards = {"c1", "c2"}
  Card <- WhichCard
  Guess <- WhatItLooksLike
  Foil = {"i1", "i2"}
  Priced = {"i1", "i3"}
  PageSize = 1
  MaxMisses = 1
  Keys <- ThreeChecks
  Rule <- TheirRules
  Values = {0, 1, 2}
  MaxNamed = 1
  Faults = 2
  Week = 1
  Fortnight = 2
  Month = 3
  Short = 1
  Long = 2
  Reach = 3
  Prices = {10, 12}
  Bids = {5}
  Offers = {7, 14}
  Watching = {0, 5}
  Markets <- FourMarkets
  MaxDate = 4
CHECK_DEADLOCK FALSE
INVARIANTS NightlyTypes OneChainPerRun SuccessIsComplete CallsHold
  LoadsAreTrue ChannelIsCurrent AdviceHolds
PROPERTIES ImplementsLifecycle
