SPECIFICATION Spec
CONSTANTS
  Sessions = {c1, c2}
  Delayed = {c2}
  Requests = {r1, r2}
  NoSession = NoSession
  NoEvent = NoEvent
SYMMETRY Symmetry
INVARIANTS TypeOK RecordsWhatHappened
CHECK_DEADLOCK FALSE
