SPECIFICATION FairSpec
CONSTANTS
  Workers = {w1, w2}
  Inline = {w2}
  Outliving = {w2}
  Requests = {r1, r2}
  Providers = {"coze", "coze_unpublished", "local", "generic"}
  MaxRecovery = 1
  MaxMessages = 1
  MaxReopens = 1
  SendErrors = {"delivered"}
  Lossy = TRUE
INVARIANTS OncePerRound CancelledFetchNotSaved
PROPERTIES SettledIsKept EventuallySettled
CHECK_DEADLOCK FALSE
