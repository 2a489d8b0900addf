SPECIFICATION FairSpec
CONSTANTS
  Sessions = {c1, c2}
  Delayed = {}
  Requests = {r1}
  NoSession = NoSession
  NoEvent = NoEvent
INVARIANTS PaidIsCaptured
PROPERTIES PaidLeadsToCaptured
