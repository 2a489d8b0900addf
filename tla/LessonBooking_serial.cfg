SPECIFICATION Spec
CONSTANTS
  anna = anna
  bert = bert
  Instructors = {anna, bert}
  Time = {1, 2}
  Windows <- MixedWindows
  Slots = {s1, s2}
  Lessons = {l1, l2}
  Requests = {r1}
  NoSlot = NoSlot
  NoLesson = NoLesson
  NoWindow = NoWindow
SYMMETRY Symmetry
INVARIANTS CalendarDisjoint SlotsDisjoint OccupyingLessonHoldsSlot
PROPERTIES FollowsLifecycle
