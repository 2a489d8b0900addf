SPECIFICATION Spec
CONSTANTS
  Sessions = {c1}
  Delayed = {}
  Requests = {r1, r2}
  NoSession = NoSession
  NoEvent = NoEvent
PROPERTIES AppleNeverReplacesStripe
