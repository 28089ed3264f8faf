CONSTANTS
  s1 = s1 s2 = s2 t1 = t1 t2 = t2 t3 = t3 a1 = a1 a2 = a2 b1 = b1 v1 = v1
  Shifts = {s1, s2} Tasks = {} Legacy = {} Photo = {}
  ShiftOf <- SomeShiftOf Price <- SomePrice
  Planned = {s1} Tardy = {s1}
  Accruers = {a1} Bonusers = {} Verifiers = {v1}
  Alone = FALSE MaxManual = 0 MaxKills = 1
SPECIFICATION FairSpec
CHECK_DEADLOCK FALSE
PROPERTIES BaseComes
