SPECIFICATION Spec
CONSTANTS
    Failures = {f1, f2}
    Places = {p}
    Codes = {provider, unresolved}
    Workers = {w1, w2}
    Requests = {r1}
    MaxMessages = 2
    MaxCrawls = 1
INVARIANTS  FailedCountAgrees
PROPERTY ResolvedIsFinal
SYMMETRY Interchangeable
VIEW Counted
CHECK_DEADLOCK FALSE
