CONSTANTS
  u1 = u1 u2 = u2 c1 = c1 c2 = c2 o1 = o1 k1 = k1 k2 = k2
  Users = {u1, u2} Objects = {o1} Schedules = {k1, k2}
  Sessions = {c1} Managers = {m1} Verifiers = {} Workers = {w1}
  NoUser = NoUser NoObject = NoObject NoSched = NoSched
  UserOf <- UserOfOne
  SchedUser <- SchedUserTwo SchedObject <- AtO1
  SchedStart <- StartAtOnce SchedEnd <- EndAtOnce SlotMax <- OnePlace
  Legacy = {k2}
  Closing <- ClosesAt2 AutoClose <- NoGrace Hour = 1
  MaxShifts = 1 MaxOpenings = 1 MaxTime = 2
SPECIFICATION FairSpec
CHECK_DEADLOCK FALSE
PROPERTIES EarlyEndIsManual ShiftsEnd 
