CONSTANTS
  u1 = u1 u2 = u2 c1 = c1 c2 = c2 o1 = o1 k1 = k1 k2 = k2
  Users = {u1, u2} Objects = {o1} Schedules = {k1, k2}
  Sessions = {c1} Managers = {m1} Verifiers = {} Workers = {}
  NoUser = NoUser NoObject = NoObject NoSched = NoSched
  UserOf <- UserOfOne
  SchedUser <- SchedUserOne SchedObject <- AtO1
  SchedStart <- StartInTurn SchedEnd <- EndInTurn SlotMax <- OnePlace
  Legacy = {}
  Closing <- ClosesAt2 AutoClose <- NoGrace Hour = 1
  MaxShifts = 3 MaxOpenings = 3 MaxTime = 2
SPECIFICATION Spec
CHECK_DEADLOCK FALSE
INVARIANT StatusMatrix
