SPECIFICATION FairSpec
CONSTANTS
    Requests = {r}
    Queries = {q}
    Tasks = {t1, t2}
    NoTask = none
    Chunks = {1, 2, 3}
    Moving = {2}
    Corpora <- MCCorpora
    Deployments <- MCDeployments
    Aspects = {"a", "b"}
    Terms = {"t", "u"}
    RrfK = 60
    Unit = 238266
    SearchTopK = 3
    RerankTopK = 3
    FinalTopK = 2
    MinimumConfidence = 60
    MinimumContribution = 30
INVARIANTS TypeOK FusionRespectsSearches  CitationsCoverQuestion  OneCallPerQuery
PROPERTIES CallersLeaveTasksAlone EveryRequestEnds
CHECK_DEADLOCK FALSE
