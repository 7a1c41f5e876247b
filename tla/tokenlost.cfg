SPECIFICATION Spec
CONSTANTS
  Callers <- WebRequests
  InTxn <- WebRequests
  Consents <- OneConsent
  MaxTokens = 3
  MaxFails = 1
INVARIANT OldTokenNeverPresented
