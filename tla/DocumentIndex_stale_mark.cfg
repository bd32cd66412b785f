SPECIFICATION Spec
CONSTANTS
  r1 = r1
  Requests = {r1}
  MaxVersion = 2
INVARIANTS IndexedIsCurrent
