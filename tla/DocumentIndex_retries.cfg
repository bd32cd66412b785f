SPECIFICATION FairSpec
CONSTANTS
  r1 = r1
  Requests = {r1}
  MaxVersion = 2
INVARIANTS IndexedHasPoints HistoryIsFaithful
PROPERTIES PointsStayKnown RetryConverges
