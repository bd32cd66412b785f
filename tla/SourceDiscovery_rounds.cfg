SPECIFICATION FairSpec
CONSTANTS
  s1 = s1
  k1 = k1
  w1 = w1
  w2 = w2
  r1 = r1
  r2 = r2
  Sites = {s1}
  Columns = {k1}
  Workers = {w1, w2}
  Requests = {r1, r2}
  TrialDocs = 2
  Threshold = 65
  MaxRetries = 1
INVARIANTS  ApprovableIsActivatable NothingForgotten
PROPERTIES DecisionsStand EverythingSettles
CHECK_DEADLOCK FALSE
