CONSTANTS
  h1 = h1 h2 = h2
  MaxSubs = 2 MaxTxs = 2 Horizon = 3 Period = 1 Windows = {1}
  Handlers = {h1} MaxFails = 1 MaxActs = 1 Settable = {"completed", "failed"}
SPECIFICATION Spec
CHECK_DEADLOCK FALSE
INVARIANTS TypeOK NotBeforeStart 
PROPERTIES CancelledStays  WaitingStarts
