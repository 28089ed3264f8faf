CONSTANTS
  e1 = e1 w1 = w1 m1 = m1
  MaxContracts = 2 People = {e1, w1, m1} Employees = {e1} Managers = {m1}
  Objects = {} Grants <- MCGrants
  Edits = {"content", "expires", "template"} MaxRequests = 4
SPECIFICATION Spec
CHECK_DEADLOCK FALSE
INVARIANTS TypeOK ActiveIsSigned HiredHasRole
PROPERTIES InactiveStays LateOfferEnds
