SPECIFICATION Spec
CONSTANTS
  anna = anna
  bert = bert
  Instructors = {anna}
  Time = {1}
  Windows <- UnitWindows
  Slots = {s1}
  Lessons = {l1}
  Requests = {r1, r2}
  NoSlot = NoSlot
  NoLesson = NoLesson
  NoWindow = NoWindow
SYMMETRY Symmetry
PROPERTIES TerminalIsFinal
