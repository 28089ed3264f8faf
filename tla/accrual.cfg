CONSTANTS
  s1 = s1 s2 = s2 t1 = t1 t2 = t2 t3 = t3 a1 = a1 a2 = a2 b1 = b1 v1 = v1
  Shifts = {s1} Tasks = {t1, t2, t3} Legacy = {t3} Photo = {t2}
  ShiftOf <- SomeShiftOf Price <- SomePrice
  Planned = {s1} Tardy = {s1}
  Accruers = {a1} Bonusers = {b1} Verifiers = {v1}
  Alone = TRUE MaxManual = 1 MaxKills = 1
SPECIFICATION Spec
CHECK_DEADLOCK FALSE
INVARIANTS TypeOK OneBase  FinesComeWithPay
PROPERTIES JudgedIsPriced VerifyMends
