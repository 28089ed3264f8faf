CONSTANTS
  e1 = e1 e2 = e2 w1 = w1 m1 = m1 o1 = o1 o2 = o2 s1 = s1 s2 = s2 s3 = s3
  MaxContracts = 2 People = {e1, e2, w1, m1} Employees = {e1, e2} Managers = {m1}
  Objects = {o1, o2} Grants <- MCGrants
  Edits = {} MaxRequests = 1
  Slots = {s1, s2, s3} Slot <- MCSlot Hired <- MCHired MaxBookings = 3 Overlap = FALSE
SPECIFICATION BookingSpec
CHECK_DEADLOCK FALSE
INVARIANTS  NotInTwoPlaces 
