\* Two blocks, one failure of any kind.
SPECIFICATION FairSpec
CONSTANTS
  Clients = {c}
  Whats = {"info", "commit", "certificate", "dnvd"}
  Bytes = 40
  MaxRetries = 1
  TwoStage = TRUE
  MaxFaults = 1
INVARIANTS
  SuccessIsReal
PROPERTY
  CallReturns
