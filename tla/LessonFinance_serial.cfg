SPECIFICATION Spec
CONSTANTS
  Disputes = {d1, d2}
  Requests = {r1}
  NoDispute = NoDispute
SYMMETRY Symmetry
INVARIANTS TypeOK SnapshotFollowsLesson HeldWhileOpen
PROPERTIES HoldIsKept
