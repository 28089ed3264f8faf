CONSTANTS
  e1 = e1 e2 = e2 telegram = telegram max = max inApp = inApp p1 = p1 p2 = p2 s1 = s1 j1 = j1
  Events = {e1} Messengers = {telegram} InApp = inApp
  Checkers = {p1} Sweepers = {s1} Singles = {}
  Attempts <- SomeAttempts NoEvent = NoEvent
  MaxNotes = 2 MaxGone = 1
SPECIFICATION FairSpec
CHECK_DEADLOCK FALSE
PROPERTIES PendingSettles MissedIsReported
