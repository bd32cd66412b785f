SPECIFICATION Spec
CONSTANTS
  Tasks = {t1}
  Docs = {d1, d2}
  Reviewers = {r1, r2}
  MaxAutomatic = 1
  MaxRounds = 1
SYMMETRY Interchangeable
INVARIANT ClosedWhenReviewed
PROPERTIES ClosedOnlyWhenReviewed CancelSurvivesReview ManualMarkKept
CHECK_DEADLOCK FALSE
