SPECIFICATION Spec
CONSTANTS
  anna = anna
  bert = bert
  Instructors = {anna}
  Time = {t1, t2}
  Windows <- UnitWindows
  Slots = {s1, s2}
  Lessons = {l1, l2}
  Requests = {r1, r2}
  NoSlot = NoSlot
  NoLesson = NoLesson
  NoWindow = NoWindow
SYMMETRY UnitSymmetry
INVARIANTS TypeOK   LocksProtect 
 
