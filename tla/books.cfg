CONSTANTS
  o1 = o1 o2 = o2 p1 = p1 p2 = p2 b1 = b1 b2 = b2 m1 = m1 x1 = x1 d1 = d1 d2 = d2 j1 = j1
  Objects = {o1, o2} Periods = {p1, p2} Rows = {b2, m1, x1}
  Kind <- SomeKind Home <- SomeHome Day <- OneDay First = o1 Plan = {"shared", "own"}
  Dailies = {d1} Recalcs = {j1}
  MaxCopies = 2 MaxAmounts = 2 MaxUpsets = 1 MaxRuns = 3
SPECIFICATION Spec
CHECK_DEADLOCK FALSE
INVARIANTS TypeOK OneEntry BaseAtHome CountedOnce
PROPERTIES RecalcMends
