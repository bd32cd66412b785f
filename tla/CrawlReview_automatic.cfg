SPECIFICATION Spec
CONSTANTS
  Tasks = {t1}
  Docs = {d1, d2}
  Reviewers = {r1}
  MaxAutomatic = 1
  MaxRounds = 0
INVARIANT WaitingForSomeone
CHECK_DEADLOCK FALSE
