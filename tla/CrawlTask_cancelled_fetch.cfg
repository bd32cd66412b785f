SPECIFICATION Spec
CONSTANTS
  Workers = {w1, w2}
  Inline = {}
  Outliving = {}
  Requests = {r1}
  Providers = {"coze"}
  MaxRecovery = 1
  MaxMessages = 2
  MaxReopens = 1
  SendErrors = {}
  Lossy = FALSE
INVARIANT CancelledFetchNeverSaved
CHECK_DEADLOCK FALSE
