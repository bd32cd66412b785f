SPECIFICATION ColumnFairSpec
CONSTANTS
    Articles = {1, 2}
    Endpoints = {1, 2}
    LastPage = 2
    MaxPages = 2
    MaxArticles = 2
    StopAfter = 2
    ApiPages = 2
    MaxAttempts = 2
    MaxRedirects = 1
    MaxRetries = 1
    MaxHints = 2
INVARIANTS EveryHopValidated WithinLimits NothingLost SuccessIsComplete
PROPERTY CrawlEnds
CHECK_DEADLOCK FALSE
