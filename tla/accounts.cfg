SPECIFICATION AccountsSpec
CONSTANTS
  Callers <- Services
  InTxn <- WebRequests
  Consents <- OneConsent
  MaxTokens = 3
  MaxFails = 1
  Calls <- Logins
  Resets <- PasswordResets
  Links <- ResetLinks
  MaxSessions = 2
  MaxRefresh = 3
  login1 = login1
  login2 = login2
  reset1 = reset1
  reset2 = reset2
  link1 = link1
  link2 = link2
  Users = {"u1", "u2"}
  Ids = {"i1", "i2"}
  Entries = {"e1", "e2"}
  Limit = 1
  Missing = Missing
  Apps = {"a1", "a2"}
  MaxRequests = 2
  AppUsers = {"u1", "u2"}
  EnvOf <- TwoEnvironments
  Linked <- Everybody
  UserScopes <- ScopesOfOne
  AppScopes <- ScopesOfApps
  Cards = {"bolt"}
  Names = {"n1", "n2"}
  Statuses = {"purchased", "sold"}
  MaxChanges = 1
  Titles = {"bolt", "bolt-2"}
  Candidates <- TwoTitles
  Articles = {"i1", "i2"}
  Writers = {"u1", "u2"}
  People = {"u1", "u2", "u3"}
  Registered = {"u1", "u2"}
  Admins = {"u1"}
  Requests = {"r1", "r2"}
  Handlers <- AllHandlers
  Together = {"assign_role", "revoke_role"}
SYMMETRY Alike
INVARIANTS AccountTypes TokensHold SessionsHold WorkHolds
PROPERTY LoggedOutStaysOut
