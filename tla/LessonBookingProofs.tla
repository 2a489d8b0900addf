------------------------ MODULE LessonBookingProofs ------------------------
(***************************************************************************)
(* Proofs about LessonBooking for any number of instructors, slots,        *)
(* lessons and requests in flight; in the last part, for any number of     *)
(* instructors, slots and lessons when requests come one at a time.        *)
(***************************************************************************)
EXTENDS LessonBooking, TLAPS

\* What a request in flight refers to: rows that exist, or ids reserved for
\* the row it is about to insert.
RequestRefs ==
  \A r \in Requests :
    /\ req[r].op \in {"publish", "dropRead", "dropSave", "dropDelete", "book", "move"}
         => req[r].slot \in Slots
    /\ req[r].op \in {"direct", "status", "cancel", "reload", "save", "book", "move"}
         => req[r].lesson \in Lessons
    /\ req[r].op = "publish" => slotStatus[req[r].slot] = "none" /\ req[r].window.at # {}
    /\ req[r].op \in {"dropRead", "dropSave", "dropDelete"} => slotStatus[req[r].slot] # "none"
    /\ req[r].op \in {"direct", "book"} => lessonStatus[req[r].lesson] = "none"
    /\ req[r].op \in {"status", "cancel", "reload", "save", "move"}
         => lessonStatus[req[r].lesson] # "none"
    /\ req[r].op \in {"status", "cancel", "reload", "save"} =>
         req[r].next \in {"accepted", "declined", "completed", "cancelled"}
    /\ req[r].op \in {"book", "move"} => req[r].window = slotWindow[req[r].slot]

\* No two requests insert under the same id.
ReservedApart ==
  \A q, r \in Requests :
    q # r =>
      /\ req[q].op = "publish" /\ req[r].op = "publish" => req[q].slot # req[r].slot
      /\ req[r].op \in {"direct", "book"} => req[q].lesson # req[r].lesson

\* The lesson of a slot covers exactly the time of the slot; a row that is not
\* inserted yet names no other.
WindowsAgree ==
  /\ \A s \in Slots : slotStatus[s] = "none" => slotHolder[s] = NoLesson
  /\ \A s \in Slots : slotStatus[s] # "none" => slotWindow[s].at # {}
  /\ \A l \in Lessons : lessonStatus[l] = "none" => lessonSlot[l] = NoSlot
  /\ \A l \in Lessons : lessonSlot[l] # NoSlot =>
       /\ slotStatus[lessonSlot[l]] # "none"
       /\ lessonWindow[l] = slotWindow[lessonSlot[l]]

\* No other lesson that takes up time is on a slot some transaction has locked.
LockedSlotUncontested ==
  \A r \in Requests, l \in Lessons :
    req[r].op \in {"book", "move"} /\ req[r].slot \notin revived =>
      (lessonStatus[l] \in Occupying /\ l # req[r].lesson => lessonSlot[l] # req[r].slot)

\* The reload of a status request has not missed what its UPDATE must change:
\* the lesson that gives its slot up, or takes it again though it took up no
\* time, writes booked_lesson_id.
SeesHolder(r) ==
  LET l == req[r].lesson
      s == lessonSlot[l] IN
  (s \in Slots \ revived /\ ~slotGone[s]) =>
    ((IF Releases(req[r].next) THEN slotHolder[s] = l ELSE lessonStatus[l] \notin Occupying)
       => "holder" \in req[r].columns)
SavesSeeHolder == \A r \in Requests : req[r].op = "save" => SeesHolder(r)

Base == TypeOK /\ RequestRefs /\ ReservedApart
Holding == HolderPointsBack /\ HolderIsLive
Locking == LocksProtect /\ WindowsAgree /\ LockedSlotUncontested /\ SavesSeeHolder

IInv == Base /\ Holding /\ Locking

-----------------------------------------------------------------------------
LEMMA IdleType == Idle \in Request /\ Idle.op = "idle"
BY DEF Idle, Request, LessonStatus

\* The type of a request that begins, and what Begin and End leave alone.
LEMMA BeginType ==
  ASSUME TypeOK, NEW r \in Requests,
         NEW op \in {"publish", "dropRead", "direct", "status", "cancel", "book", "move"},
         NEW s \in Slots \cup {NoSlot}, NEW l \in Lessons \cup {NoLesson},
         NEW w \in Windows \cup {NoWindow}, NEW next \in LessonStatus, Begin(r, op, s, l, w, next)
  PROVE  /\ req' \in [Requests -> Request]
         /\ req[r].op = "idle"
         /\ req'[r] = [op |-> op, slot |-> s, lesson |-> l, window |-> w, next |-> next,
                      columns |-> {}]
         /\ \A q \in Requests \ {r} : req'[q] = req[q]
BY DEF TypeOK, Begin, Request

LEMMA EndType ==
  ASSUME TypeOK, NEW r \in Requests, End(r)
  PROVE  /\ req' \in [Requests -> Request]
         /\ req'[r].op = "idle" /\ req'[r].lesson = NoLesson
         /\ \A q \in Requests \ {r} : req'[q] = req[q]
BY IdleType DEF TypeOK, End, Idle

THEOREM InitIInv == Init => IInv
<1> SUFFICES ASSUME Init PROVE IInv
  OBVIOUS
<1>1. TypeOK
  BY IdleType DEF Init, TypeOK, SlotStatus, LessonStatus
<1>2. \A r \in Requests : req[r].op = "idle"
  BY IdleType DEF Init
<1>3. RequestRefs /\ ReservedApart /\ LocksProtect /\ LockedSlotUncontested /\ SavesSeeHolder
  BY <1>2 DEF RequestRefs, ReservedApart, LocksProtect, LockedSlotUncontested, SavesSeeHolder
<1>4. HolderPointsBack /\ HolderIsLive /\ WindowsAgree
  BY DEF Init, HolderPointsBack, HolderIsLive, WindowsAgree
<1> QED
  BY <1>1, <1>3, <1>4 DEF IInv, Base, Holding, Locking

-----------------------------------------------------------------------------
(* Steps that change no request keep or only change who is approved. *)

LEMMA AdminStep ==
  ASSUME IInv, NEW i \in Instructors, ApproveInstructor(i) \/ SuspendInstructor(i)
  PROVE  IInv'
<1> USE DEF ApproveInstructor, SuspendInstructor, slotVars, lessonVars
<1>1. Base'
  BY DEF IInv, Base, TypeOK, RequestRefs, ReservedApart
<1>2. Holding'
  BY DEF IInv, Holding, HolderPointsBack, HolderIsLive, Occupying
<1>3. Locking'
  BY DEF IInv, Locking, LocksProtect, WindowsAgree, LockedSlotUncontested, SavesSeeHolder,
         SeesHolder, Releases, Bookable, LearnerCanManage, Occupying
<1> QED
  BY <1>1, <1>2, <1>3 DEF IInv

LEMMA StutterStep ==
  ASSUME IInv, UNCHANGED vars
  PROVE  IInv'
BY DEF vars, slotVars, IInv, Base, Holding, Locking, TypeOK, RequestRefs, ReservedApart,
       HolderPointsBack, HolderIsLive, Occupying, LocksProtect,
       WindowsAgree, LockedSlotUncontested, SavesSeeHolder, SeesHolder, Releases,
       Bookable, LearnerCanManage

-----------------------------------------------------------------------------
(* Steps that begin a request: no row changes. *)

LEMMA HoldingRowsUnchanged ==
  ASSUME IInv, UNCHANGED <<slotVars, lessonVars>>
  PROVE  Holding' /\ WindowsAgree'
BY DEF IInv, Holding, Locking, HolderPointsBack, HolderIsLive,
       Occupying, WindowsAgree, slotVars, lessonVars

\* A request that begins without taking a lock.
LEMMA UnlockedStart ==
  ASSUME IInv, NEW r \in Requests,
         NEW op \in {"publish", "dropRead", "direct", "status", "cancel"},
         NEW s \in Slots \cup {NoSlot}, NEW l \in Lessons \cup {NoLesson},
         NEW w \in Windows \cup {NoWindow}, NEW next \in LessonStatus,
         Begin(r, op, s, l, w, next),
         UNCHANGED <<approved, slotVars, lessonVars>>,
         op \in {"publish", "dropRead"} => s \in Slots,
         op = "publish" => FreshSlot(s) /\ w.at # {},
         op = "dropRead" => slotStatus[s] # "none",
         op = "direct" => l \in Lessons /\ FreshLesson(l),
         op \in {"status", "cancel"} =>
           /\ l \in Lessons /\ lessonStatus[l] # "none"
           /\ next \in {"accepted", "declined", "completed", "cancelled"},
         op \in {"publish", "dropRead"} => l = NoLesson
  PROVE  IInv'
<1>1. TypeOK
  BY DEF IInv, Base
<1>2. /\ req' \in [Requests -> Request]
      /\ req'[r] = [op |-> op, slot |-> s, lesson |-> l, window |-> w, next |-> next,
                      columns |-> {}]
      /\ \A q \in Requests \ {r} : req'[q] = req[q]
  <2>1. op \in {"publish", "dropRead", "direct", "status", "cancel", "book", "move"}
    OBVIOUS
  <2> QED
    BY <1>1, <2>1, BeginType, ZenonT(60)
<1> USE DEF slotVars, lessonVars
<1>3. TypeOK'
  BY <1>1, <1>2 DEF TypeOK
<1>4. RequestRefs'
  BY <1>2 DEF IInv, Base, RequestRefs, FreshSlot, FreshLesson
<1>5. ReservedApart'
  <2> SUFFICES ASSUME NEW p \in Requests, NEW q \in Requests, p # q
               PROVE  /\ req'[p].op = "publish" /\ req'[q].op = "publish" => req'[p].slot # req'[q].slot
                      /\ req'[q].op \in {"direct", "book"} => req'[p].lesson # req'[q].lesson
    BY DEF ReservedApart
  <2>1. CASE p # r /\ q # r
    BY <2>1, <1>2 DEF IInv, Base, ReservedApart
  <2>2. CASE q = r
    BY <2>2, <1>2 DEF FreshSlot, FreshLesson
  <2>3. CASE p = r
    <3>1. req'[q] = req[q] /\ req'[p].op = op /\ req'[p].slot = s /\ req'[p].lesson = l
      BY <2>3, <1>2
    <3>2. req'[p].op = "publish" /\ req'[q].op = "publish" => req'[p].slot # req'[q].slot
      BY <3>1 DEF FreshSlot
    <3>3. ASSUME req'[q].op \in {"direct", "book"} PROVE req'[p].lesson # req'[q].lesson
      <4>1. req[q].lesson \in Lessons /\ lessonStatus[req[q].lesson] = "none"
        BY <3>1, <3>3 DEF IInv, Base, RequestRefs
      <4> QED
        BY <3>1, <4>1, NullAssumption DEF FreshLesson
    <3> QED
      BY <3>2, <3>3
  <2> QED
    BY <2>1, <2>2, <2>3
<1>6. LocksProtect'
  BY <1>2 DEF IInv, Locking, LocksProtect, Bookable, LearnerCanManage
<1>7. LockedSlotUncontested' /\ SavesSeeHolder'
  BY <1>2 DEF IInv, Locking, LockedSlotUncontested, SavesSeeHolder, SeesHolder, Releases, Occupying
<1> QED
  BY <1>3, <1>4, <1>5, <1>6, <1>7, HoldingRowsUnchanged DEF IInv, Base, Locking

\* A request in flight that reads on: no row changes, and it takes at most the
\* lock of its lesson.
LEMMA ReadOn ==
  ASSUME IInv, NEW r \in Requests, NEW op \in {"dropSave", "reload", "save"},
         NEW columns \in SUBSET Column,
         req' = [req EXCEPT ![r] = [@ EXCEPT !.op = op, !.columns = columns]],
         UNCHANGED <<approved, slotVars, lessonVars>>,
         op = "dropSave" => req[r].op = "dropRead",
         op # "dropSave" => \/ /\ req[r].op \in {"status", "cancel"}
                               /\ ~LessonLocked(req[r].lesson)
                            \/ req[r].op = "reload",
         op = "save" => SeesHolder(r)'
  PROVE  IInv'
<1>1. TypeOK
  BY DEF IInv, Base
<1>2. /\ req' \in [Requests -> Request]
      /\ req'[r] = [req[r] EXCEPT !.op = op, !.columns = columns]
      /\ \A q \in Requests \ {r} : req'[q] = req[q]
  <2> DEFINE next == [req[r] EXCEPT !.op = op, !.columns = columns]
  <2>1. req \in [Requests -> Request] /\ req[r] \in Request
    BY <1>1 DEF TypeOK
  <2>2. next = [op |-> op, slot |-> req[r].slot, lesson |-> req[r].lesson,
                window |-> req[r].window, next |-> req[r].next, columns |-> columns]
    <3>1. ASSUME NEW q \in Request
          PROVE  [q EXCEPT !.op = op] = [op |-> op, slot |-> q.slot, lesson |-> q.lesson,
                   window |-> q.window, next |-> q.next, columns |-> q.columns]
      BY DEF Request
    <3>2. ASSUME NEW q \in Request
          PROVE  [q EXCEPT !.columns = columns] = [op |-> q.op, slot |-> q.slot,
                   lesson |-> q.lesson, window |-> q.window, next |-> q.next, columns |-> columns]
      BY DEF Request
    <3> DEFINE first == [req[r] EXCEPT !.op = op]
    <3>3. first = [op |-> op, slot |-> req[r].slot, lesson |-> req[r].lesson,
                   window |-> req[r].window, next |-> req[r].next, columns |-> req[r].columns]
      BY <2>1, <3>1
    <3>4. next = [first EXCEPT !.columns = columns]
      OBVIOUS
    <3> HIDE DEF first, next
    <3>5. first \in Request
      BY <2>1, <3>3 DEF Request
    <3>6. next = [op |-> first.op, slot |-> first.slot, lesson |-> first.lesson,
                  window |-> first.window, next |-> first.next, columns |-> columns]
      BY <3>2, <3>4, <3>5
    <3> QED
      BY <3>3, <3>6
  <2>3. next \in Request
    BY <2>1, <2>2 DEF Request
  <2>4. req' = [req EXCEPT ![r] = next]
    OBVIOUS
  <2> HIDE DEF next
  <2>5. /\ req' \in [Requests -> Request] /\ req'[r] = next
        /\ \A q \in Requests \ {r} : req'[q] = req[q]
    BY <2>1, <2>3, <2>4
  <2> QED
    BY <2>5 DEF next
<1>3. /\ req'[r].op = op /\ req'[r].slot = req[r].slot /\ req'[r].lesson = req[r].lesson
      /\ req'[r].next = req[r].next /\ req'[r].window = req[r].window
  BY <1>1, <1>2 DEF TypeOK, Request
<1> USE DEF slotVars, lessonVars
<1>4. TypeOK'
  BY <1>1, <1>2 DEF TypeOK
<1>5. RequestRefs' /\ ReservedApart'
  BY <1>2, <1>3 DEF IInv, Base, RequestRefs, ReservedApart
<1>6. LocksProtect'
  BY <1>2, <1>3 DEF IInv, Locking, LocksProtect, Bookable, LearnerCanManage, LessonLocked
<1>7. LockedSlotUncontested'
  BY <1>2, <1>3 DEF IInv, Locking, LockedSlotUncontested, Occupying
<1>8. SavesSeeHolder'
  <2>1. \A q \in Requests \ {r} : req[q].op = "save" => SeesHolder(q)'
    BY <1>2 DEF IInv, Locking, SavesSeeHolder, SeesHolder, Occupying, Releases
  <2> QED
    BY <1>2, <1>3, <2>1 DEF SavesSeeHolder
<1> QED
  BY <1>4, <1>5, <1>6, <1>7, <1>8, HoldingRowsUnchanged DEF IInv, Base, Locking

LEMMA CancelSlotReloadStep ==
  ASSUME IInv, NEW r \in Requests, CancelSlotReload(r)
  PROVE  IInv'
<1> DEFINE columns == Differing(req[r].slot, "cancelled", NoLesson)
<1>1. TypeOK /\ columns \in SUBSET Column
  BY DEF IInv, Base, Differing
<1>2. req' = [req EXCEPT ![r] = [@ EXCEPT !.op = "dropSave", !.columns = columns]]
  BY <1>1 DEF CancelSlotReload, TypeOK, Request
<1> QED
  BY <1>1, <1>2, ReadOn DEF CancelSlotReload

LEMMA StatusLockStep ==
  ASSUME IInv, NEW r \in Requests, StatusLock(r)
  PROVE  IInv'
<1> DEFINE s == lessonSlot[req[r].lesson]
           op == IF s # NoSlot /\ ~slotGone[s] THEN "reload" ELSE "save"
<1>1. TypeOK /\ req[r].columns \in SUBSET Column
  BY DEF IInv, Base, TypeOK, Request
<1>2. req' = [req EXCEPT ![r] = [@ EXCEPT !.op = op, !.columns = req[r].columns]]
  BY <1>1 DEF StatusLock, TypeOK, Request
<1>3. UNCHANGED <<slotGone, lessonSlot>> /\ req'[r].lesson = req[r].lesson
  BY <1>1, <1>2 DEF StatusLock, slotVars, lessonVars, TypeOK, Request
<1>4. op = "save" => SeesHolder(r)'
  BY <1>3, NullAssumption DEF SeesHolder
<1> QED
  BY <1>1, <1>2, <1>4, ReadOn DEF StatusLock

LEMMA SyncReloadStep ==
  ASSUME IInv, NEW r \in Requests, SyncReload(r)
  PROVE  IInv'
<1> DEFINE l == req[r].lesson
           st == req[r].next
           s == lessonSlot[l]
           columns == Differing(s, SlotStatusFor(st), HolderFor(l, st))
<1>1. TypeOK /\ columns \in SUBSET Column /\ l # NoLesson
  BY NullAssumption DEF IInv, Base, Differing, RequestRefs, SyncReload
<1>2. req' = [req EXCEPT ![r] = [@ EXCEPT !.op = "save", !.columns = columns]]
  BY <1>1 DEF SyncReload, TypeOK, Request
<1>3. /\ UNCHANGED <<slotGone, slotHolder, lessonSlot, lessonStatus, revived>>
      /\ req'[r].lesson = l /\ req'[r].next = st /\ req'[r].columns = columns
  BY <1>1, <1>2 DEF SyncReload, slotVars, lessonVars, TypeOK, Request
<1>4. SeesHolder(r)'
  <2> SUFFICES ASSUME s \in Slots \ revived, ~slotGone[s],
                      IF Releases(st) THEN slotHolder[s] = l ELSE lessonStatus[l] \notin Occupying
               PROVE  "holder" \in columns
    BY <1>3 DEF SeesHolder, Occupying, Releases
  <2>1. slotHolder[s] # HolderFor(l, st)
    BY <1>1 DEF HolderFor, IInv, Holding, HolderIsLive
  <2> QED
    BY <2>1 DEF Differing, Column
<1> HIDE DEF columns
<1> QED
  BY <1>1, <1>2, <1>4, ReadOn DEF SyncReload

\* The window of a slot that exists meets itself, so a lesson on the slot that
\* takes up time is found by the conflict check.
LEMMA ConflictFindsHolders ==
  ASSUME IInv, NEW s \in Slots, slotStatus[s] = "open", NEW l,
         NoLessonConflict(slotWindow[s], l),
         NEW m \in Lessons, lessonStatus[m] \in Occupying, m # l
  PROVE  lessonSlot[m] # s
<1> SUFFICES ASSUME lessonSlot[m] = s PROVE FALSE
  OBVIOUS
<1>1. lessonWindow[m] = slotWindow[s] /\ slotWindow[s].at # {}
  BY NullAssumption DEF IInv, Locking, WindowsAgree
<1>2. Overlap(lessonWindow[m], slotWindow[s])
  BY <1>1 DEF Overlap
<1> QED
  BY <1>2 DEF NoLessonConflict

LEMMA BookSlotLockStep ==
  ASSUME IInv, NEW r \in Requests, NEW s \in Slots, NEW l \in Lessons, BookSlotLock(r, s, l)
  PROVE  IInv'
<1>1. TypeOK
  BY DEF IInv, Base
<1>2. slotWindow[s] \in Windows \cup {NoWindow} /\ "none" \in LessonStatus
  BY <1>1 DEF TypeOK, LessonStatus
<1>3. /\ req' \in [Requests -> Request]
      /\ req'[r] = [op |-> "book", slot |-> s, lesson |-> l, window |-> slotWindow[s],
                    next |-> "none", columns |-> {}]
      /\ \A q \in Requests \ {r} : req'[q] = req[q]
  BY <1>1, <1>2, BeginType DEF BookSlotLock
<1> USE DEF slotVars, lessonVars
<1>4. TypeOK'
  BY <1>1, <1>3 DEF TypeOK, BookSlotLock
<1>5. RequestRefs'
  BY <1>3 DEF IInv, Base, RequestRefs, BookSlotLock, FreshLesson
<1>6. ReservedApart'
  <2> SUFFICES ASSUME NEW p \in Requests, NEW q \in Requests, p # q
               PROVE  /\ req'[p].op = "publish" /\ req'[q].op = "publish" => req'[p].slot # req'[q].slot
                      /\ req'[q].op \in {"direct", "book"} => req'[p].lesson # req'[q].lesson
    BY DEF ReservedApart
  <2>1. CASE p # r /\ q # r
    BY <2>1, <1>3 DEF IInv, Base, ReservedApart
  <2>2. CASE q = r
    BY <2>2, <1>3 DEF BookSlotLock, FreshLesson
  <2>3. CASE p = r
    BY <2>3, <1>3 DEF BookSlotLock, FreshLesson
  <2> QED
    BY <2>1, <2>2, <2>3
<1>7. LocksProtect'
  BY <1>3 DEF IInv, Locking, LocksProtect, Bookable, LearnerCanManage, BookSlotLock, SlotLocked
<1>8. LockedSlotUncontested'
  <2> SUFFICES ASSUME NEW q \in Requests, NEW m \in Lessons, req'[q].op \in {"book", "move"},
                      req'[q].slot \notin revived,
                      lessonStatus[m] \in Occupying, m # req'[q].lesson
               PROVE  lessonSlot[m] # req'[q].slot
    BY DEF LockedSlotUncontested, BookSlotLock, Occupying
  <2>1. CASE q = r
    <3>1. m # NoLesson
      BY NullAssumption
    <3> QED
      BY <2>1, <3>1, <1>3, ConflictFindsHolders DEF BookSlotLock, Bookable
  <2>2. CASE q # r
    BY <2>2, <1>3 DEF IInv, Locking, LockedSlotUncontested
  <2> QED
    BY <2>1, <2>2
<1>9. SavesSeeHolder'
  BY <1>3 DEF IInv, Locking, SavesSeeHolder, SeesHolder, Releases, Occupying, BookSlotLock
<1> QED
  BY <1>4, <1>5, <1>6, <1>7, <1>8, <1>9, HoldingRowsUnchanged DEF IInv, Base, Locking, BookSlotLock

LEMMA RescheduleLockStep ==
  ASSUME IInv, NEW r \in Requests, NEW l \in Lessons, NEW t \in Slots, RescheduleLock(r, l, t)
  PROVE  IInv'
<1>1. TypeOK
  BY DEF IInv, Base
<1>2. slotWindow[t] \in Windows \cup {NoWindow} /\ "none" \in LessonStatus
  BY <1>1 DEF TypeOK, LessonStatus
<1>3. /\ req' \in [Requests -> Request]
      /\ req'[r] = [op |-> "move", slot |-> t, lesson |-> l, window |-> slotWindow[t],
                    next |-> "none", columns |-> {}]
      /\ \A q \in Requests \ {r} : req'[q] = req[q]
  BY <1>1, <1>2, BeginType DEF RescheduleLock
<1> USE DEF slotVars, lessonVars
<1>4. TypeOK'
  BY <1>1, <1>3 DEF TypeOK, RescheduleLock
<1>5. RequestRefs'
  BY <1>3 DEF IInv, Base, RequestRefs, RescheduleLock, LearnerCanManage
<1>6. ReservedApart'
  BY <1>3 DEF IInv, Base, ReservedApart, RequestRefs, RescheduleLock, LearnerCanManage
<1>7. LocksProtect'
  BY <1>3 DEF IInv, Locking, LocksProtect, Bookable, LearnerCanManage, RescheduleLock,
              SlotLocked, LessonLocked
<1>8. LockedSlotUncontested'
  <2> SUFFICES ASSUME NEW q \in Requests, NEW m \in Lessons, req'[q].op \in {"book", "move"},
                      req'[q].slot \notin revived,
                      lessonStatus[m] \in Occupying, m # req'[q].lesson
               PROVE  lessonSlot[m] # req'[q].slot
    BY DEF LockedSlotUncontested, RescheduleLock, Occupying
  <2>1. CASE q = r
    BY <2>1, <1>3, ConflictFindsHolders DEF RescheduleLock, Bookable
  <2>2. CASE q # r
    BY <2>2, <1>3 DEF IInv, Locking, LockedSlotUncontested
  <2> QED
    BY <2>1, <2>2
<1>9. SavesSeeHolder'
  BY <1>3 DEF IInv, Locking, SavesSeeHolder, SeesHolder, Releases, Occupying, RescheduleLock
<1> QED
  BY <1>4, <1>5, <1>6, <1>7, <1>8, <1>9, HoldingRowsUnchanged DEF IInv, Base, Locking, RescheduleLock

LEMMA StartStep ==
  ASSUME IInv, NEW r \in Requests, Start(r)
  PROVE  IInv'
<1>1. TypeOK /\ "none" \in LessonStatus /\ "cancelled" \in LessonStatus
  BY DEF IInv, Base, LessonStatus
<1>2. ASSUME NEW s \in Slots, NEW w \in Windows, CreateSlotCheck(r, s, w) PROVE IInv'
  BY <1>1, <1>2, UnlockedStart DEF CreateSlotCheck
<1>3. ASSUME NEW s \in Slots, CancelSlotRead(r, s) PROVE IInv'
  BY <1>1, <1>3, UnlockedStart DEF CancelSlotRead, Droppable
<1>4. ASSUME NEW l \in Lessons, NEW w \in Windows, CreateLessonCheck(r, l, w) PROVE IInv'
  BY <1>1, <1>4, UnlockedStart DEF CreateLessonCheck
<1>5. ASSUME NEW l \in Lessons, LearnerCancelCheck(r, l) PROVE IInv'
  BY <1>1, <1>5, UnlockedStart DEF LearnerCancelCheck, LearnerCanManage
<1>6. ASSUME NEW l \in Lessons, NEW next \in LessonStatus, UpdateStatusCheck(r, l, next)
      PROVE  IInv'
  <2>1. lessonStatus[l] # "none" /\ next \in {"accepted", "declined", "completed", "cancelled"}
    BY <1>6 DEF UpdateStatusCheck, ValidTransitions
  <2> QED
    BY <1>1, <1>6, <2>1, UnlockedStart DEF UpdateStatusCheck
<1> QED
  BY <1>2, <1>3, <1>4, <1>5, <1>6, BookSlotLockStep, RescheduleLockStep DEF Start

-----------------------------------------------------------------------------
(* Steps that end a request. *)

\* What End preserves by itself, given what the step does to the rows that the
\* other requests refer to.
LEMMA EndBase ==
  ASSUME IInv, NEW r \in Requests, End(r),
         \A s \in Slots : slotStatus'[s] = "none" <=> slotStatus[s] = "none",
         \A l \in Lessons : lessonStatus'[l] = "none" <=> lessonStatus[l] = "none",
         UNCHANGED slotWindow
  PROVE  RequestRefs' /\ ReservedApart'
<1>1. TypeOK
  BY DEF IInv, Base
<1>2. /\ req'[r].op = "idle" /\ req'[r].lesson = NoLesson
      /\ \A q \in Requests \ {r} : req'[q] = req[q]
  BY <1>1, EndType
<1>3. RequestRefs'
  BY <1>2 DEF IInv, Base, RequestRefs
<1>4. ReservedApart'
  BY <1>2, NullAssumption DEF IInv, Base, RequestRefs, ReservedApart
<1> QED
  BY <1>3, <1>4

\* The same for a step that inserts lesson l, reserved by r.
LEMMA InsertBase ==
  ASSUME IInv, NEW r \in Requests, End(r), req[r].op \in {"direct", "book"},
         \A s \in Slots : slotStatus'[s] = "none" <=> slotStatus[s] = "none",
         \A l \in Lessons \ {req[r].lesson} : lessonStatus'[l] = lessonStatus[l],
         lessonStatus'[req[r].lesson] # "none",
         UNCHANGED slotWindow
  PROVE  RequestRefs' /\ ReservedApart'
<1>1. TypeOK
  BY DEF IInv, Base
<1>2. /\ req'[r].op = "idle" /\ req'[r].lesson = NoLesson
      /\ \A q \in Requests \ {r} : req'[q] = req[q]
  BY <1>1, EndType
<1>3. RequestRefs'
  BY <1>2 DEF IInv, Base, RequestRefs, ReservedApart
<1>4. ReservedApart'
  BY <1>2, NullAssumption DEF IInv, Base, RequestRefs, ReservedApart
<1> QED
  BY <1>3, <1>4

LEMMA CrashStep ==
  ASSUME IInv, NEW r \in Requests, Crash(r)
  PROVE  IInv'
<1>1. TypeOK /\ End(r)
  BY DEF IInv, Base, Crash
<1>2. /\ req' \in [Requests -> Request]
      /\ req'[r].op = "idle" /\ req'[r].lesson = NoLesson
      /\ \A q \in Requests \ {r} : req'[q] = req[q]
  BY <1>1, EndType
<1> USE DEF Crash, slotVars, lessonVars
<1>3. TypeOK'
  BY <1>1, <1>2 DEF TypeOK
<1>4. RequestRefs' /\ ReservedApart'
  BY <1>1, EndBase
<1>5. LocksProtect'
  BY <1>2 DEF IInv, Locking, LocksProtect, Bookable, LearnerCanManage
<1>6. LockedSlotUncontested' /\ SavesSeeHolder'
  BY <1>2 DEF IInv, Locking, LockedSlotUncontested, SavesSeeHolder, SeesHolder, Releases, Occupying
<1> QED
  BY <1>3, <1>4, <1>5, <1>6, HoldingRowsUnchanged DEF IInv, Base, Locking

LEMMA CreateSlotSaveStep ==
  ASSUME IInv, NEW r \in Requests, CreateSlotSave(r)
  PROVE  IInv'
<1> DEFINE s == req[r].slot
<1>1. TypeOK /\ End(r)
  BY DEF IInv, Base, CreateSlotSave
<1>2. /\ req' \in [Requests -> Request]
      /\ req'[r].op = "idle" /\ req'[r].lesson = NoLesson
      /\ \A q \in Requests \ {r} : req'[q] = req[q]
  BY <1>1, EndType
<1>3. /\ s \in Slots /\ slotStatus[s] = "none" /\ slotHolder[s] = NoLesson
      /\ req[r].window \in Windows \cup {NoWindow} /\ req[r].window.at # {}
  <2>1. s \in Slots /\ slotStatus[s] = "none" /\ req[r].window.at # {}
    BY DEF IInv, Base, RequestRefs, CreateSlotSave
  <2>2. slotHolder[s] = NoLesson
    BY <2>1 DEF IInv, Locking, WindowsAgree
  <2> QED
    BY <2>1, <2>2, <1>1 DEF TypeOK, Request
<1>4. /\ slotStatus' = [slotStatus EXCEPT ![s] = "open"]
      /\ slotWindow' = [slotWindow EXCEPT ![s] = req[r].window]
      /\ UNCHANGED <<approved, slotHolder, slotGone, revived, lessonStatus, lessonSlot,
                     lessonWindow>>
  BY DEF CreateSlotSave, lessonVars
<1> HIDE DEF s
<1>5. TypeOK'
  BY <1>1, <1>2, <1>3, <1>4 DEF TypeOK, SlotStatus
<1>6. RequestRefs'
  <2> SUFFICES ASSUME NEW q \in Requests \ {r}, RequestRefs PROVE RequestRefs!(q)'
    BY <1>2 DEF RequestRefs, IInv, Base
  <2>1. req'[q] = req[q] /\ (req[q].op = "publish" => req[q].slot # s)
    BY <1>2 DEF IInv, Base, ReservedApart, CreateSlotSave, s
  <2>2. req[q].op \in {"book", "move"} => req[q].slot # s
    BY <1>3 DEF IInv, Locking, LocksProtect, Bookable
  <2> QED
    BY <1>1, <1>3, <1>4, <2>1, <2>2 DEF RequestRefs, TypeOK
<1>7. ReservedApart'
  BY <1>2, NullAssumption DEF IInv, Base, RequestRefs, ReservedApart
<1>8. Holding'
  BY <1>1, <1>3, <1>4 DEF IInv, Holding, HolderPointsBack, HolderIsLive,
                          Occupying, TypeOK
<1>9. LocksProtect'
  BY <1>1, <1>2, <1>3, <1>4 DEF IInv, Locking, LocksProtect, Bookable, LearnerCanManage, TypeOK
<1>10. WindowsAgree'
  BY <1>1, <1>3, <1>4 DEF IInv, Locking, WindowsAgree, TypeOK
<1>11. LockedSlotUncontested' /\ SavesSeeHolder'
  BY <1>2, <1>4 DEF IInv, Locking, LockedSlotUncontested, SavesSeeHolder, SeesHolder, Releases, Occupying
<1> QED
  BY <1>5, <1>6, <1>7, <1>8, <1>9, <1>10, <1>11 DEF IInv, Base, Locking

\* A save leaves the rows alone that a transaction has locked.
LEMMA SaveKeepsLocked ==
  ASSUME TypeOK, NEW s, NEW columns, NEW status, NEW holder, SaveSlot(s, columns, status, holder),
         NEW p \in Slots, SlotLocked(p), Bookable(p)
  PROVE  Bookable(p)'
<1>1. columns = {} \/ p # s
  BY DEF SaveSlot
<1>2. slotStatus'[p] = slotStatus[p] /\ slotHolder'[p] = slotHolder[p]
  BY <1>1 DEF SaveSlot
<1>3. slotGone'[p] <=> slotGone[p]
  BY <1>1 DEF SaveSlot
<1> QED
  BY <1>2, <1>3 DEF Bookable

LEMMA CancelSlotSaveStep ==
  ASSUME IInv, NEW r \in Requests, CancelSlotSave(r)
  PROVE  IInv'
<1> DEFINE s == req[r].slot
           columns == req[r].columns
<1>1. TypeOK /\ req[r].op = "dropSave"
  BY DEF IInv, Base, CancelSlotSave
<1>2. s \in Slots /\ slotStatus[s] # "none"
  BY <1>1 DEF IInv, Base, RequestRefs
<1>3. /\ SaveSlot(s, columns, "cancelled", NoLesson)
      /\ UNCHANGED <<approved, slotWindow, lessonStatus, lessonSlot, lessonWindow>>
  BY DEF CancelSlotSave, lessonVars
<1>4. /\ req' \in [Requests -> Request]
      /\ req'[r].op = "dropDelete" /\ req'[r].slot = s /\ req'[r].lesson = req[r].lesson
      /\ \A q \in Requests \ {r} : req'[q] = req[q]
  BY <1>1, ZenonT(60) DEF CancelSlotSave, TypeOK, Request
<1>5. \A q \in Requests : columns # {} /\ req[q].op \in {"book", "move"} => req[q].slot # s
  BY <1>3 DEF SlotLocked, SaveSlot
<1> HIDE DEF s, columns
<1>6. TypeOK'
  BY <1>1, <1>3, <1>4 DEF TypeOK, SlotStatus, SaveSlot
<1>7. RequestRefs' /\ ReservedApart'
  BY <1>1, <1>2, <1>3, <1>4 DEF IInv, Base, RequestRefs, ReservedApart, TypeOK, SaveSlot
<1>8. Holding'
  BY <1>1, <1>3 DEF IInv, Holding, HolderPointsBack, HolderIsLive, Occupying, SaveSlot
<1>9. LocksProtect'
  <2>1. \A q \in Requests : req'[q].op = "dropDelete" \/ req'[q] = req[q]
    BY <1>4
  <2>2. \A q \in Requests : req[q].op \in {"book", "move"} => Bookable(req[q].slot)'
    BY <1>1, <1>3, <1>4, SaveKeepsLocked
       DEF IInv, Base, RequestRefs, Locking, LocksProtect, SlotLocked, Bookable
  <2> QED
    BY <1>3, <1>4, <2>1, <2>2 DEF IInv, Locking, LocksProtect, Bookable, LearnerCanManage
<1>10. WindowsAgree'
  BY <1>2, <1>3, NullAssumption DEF IInv, Base, TypeOK, Locking, WindowsAgree, SaveSlot
<1>11. LockedSlotUncontested'
  BY <1>1, <1>3, <1>4 DEF IInv, Locking, LockedSlotUncontested, Occupying, SaveSlot
<1>12. SavesSeeHolder'
  <2> SUFFICES ASSUME NEW q \in Requests \ {r}, req[q].op = "save" PROVE SeesHolder(q)'
    BY <1>4 DEF SavesSeeHolder
  <2> DEFINE m == req[q].lesson
             p == lessonSlot[m]
  <2>1. req'[q] = req[q] /\ m # NoLesson
    BY <1>4, NullAssumption DEF IInv, Base, RequestRefs
  <2>2. p \in Slots \ revived' /\ ~slotGone'[p] => p \in Slots \ revived /\ ~slotGone[p]
    BY <1>3 DEF SaveSlot
  <2>3. p \in Slots /\ slotHolder'[p] = m => slotHolder[p] = m
    BY <1>3, <2>1 DEF SaveSlot
  <2> QED
    BY <1>3, <2>1, <2>2, <2>3 DEF IInv, Locking, SavesSeeHolder, SeesHolder, Releases, Occupying
<1> QED
  BY <1>6, <1>7, <1>8, <1>9, <1>10, <1>11, <1>12 DEF IInv, Base, Locking

LEMMA CancelSlotDeleteStep ==
  ASSUME IInv, NEW r \in Requests, CancelSlotDelete(r)
  PROVE  IInv'
<1> DEFINE s == req[r].slot
<1>1. TypeOK /\ End(r)
  BY DEF IInv, Base, CancelSlotDelete
<1>2. /\ req' \in [Requests -> Request]
      /\ req'[r].op = "idle" /\ req'[r].lesson = NoLesson
      /\ \A q \in Requests \ {r} : req'[q] = req[q]
  BY <1>1, EndType
<1>3. s \in Slots /\ \A q \in Requests : req[q].op \in {"book", "move"} => req[q].slot # s
  BY DEF IInv, Base, CancelSlotDelete, RequestRefs, SlotLocked
<1>4. /\ slotGone' = [slotGone EXCEPT ![s] = TRUE]
      /\ revived' = revived \ {s}
      /\ UNCHANGED <<approved, slotStatus, slotHolder, slotWindow, lessonStatus, lessonSlot,
                     lessonWindow>>
  BY DEF CancelSlotDelete, lessonVars
<1> HIDE DEF s
<1>5. TypeOK'
  BY <1>1, <1>2, <1>3, <1>4 DEF TypeOK
<1>6. RequestRefs' /\ ReservedApart'
  BY <1>1, <1>4, EndBase
<1>7. Holding'
  BY <1>1, <1>3, <1>4 DEF IInv, Holding, HolderPointsBack, HolderIsLive,
                          Occupying, TypeOK
<1>8. LocksProtect'
  BY <1>1, <1>2, <1>3, <1>4 DEF IInv, Locking, LocksProtect, Bookable, LearnerCanManage, TypeOK
<1>9. WindowsAgree' /\ LockedSlotUncontested' /\ SavesSeeHolder'
  BY <1>1, <1>2, <1>3, <1>4
     DEF IInv, Locking, WindowsAgree, LockedSlotUncontested, SavesSeeHolder, SeesHolder,
         Releases, Occupying, TypeOK
<1> QED
  BY <1>5, <1>6, <1>7, <1>8, <1>9 DEF IInv, Base, Locking

LEMMA CreateLessonCommitStep ==
  ASSUME IInv, NEW r \in Requests, CreateLessonCommit(r)
  PROVE  IInv'
<1> DEFINE l == req[r].lesson
<1>1. TypeOK /\ End(r) /\ req[r].op = "direct"
  BY DEF IInv, Base, CreateLessonCommit
<1>2. /\ req' \in [Requests -> Request]
      /\ req'[r].op = "idle" /\ req'[r].lesson = NoLesson
      /\ \A q \in Requests \ {r} : req'[q] = req[q]
  BY <1>1, EndType
<1>3. l \in Lessons /\ lessonStatus[l] = "none" /\ req[r].window \in Windows \cup {NoWindow}
  BY <1>1 DEF IInv, Base, RequestRefs, TypeOK, Request
<1>4. /\ lessonStatus' = [lessonStatus EXCEPT ![l] = "requested"]
      /\ lessonSlot' = [lessonSlot EXCEPT ![l] = NoSlot]
      /\ lessonWindow' = [lessonWindow EXCEPT ![l] = req[r].window]
      /\ UNCHANGED <<approved, slotStatus, slotHolder, slotGone, slotWindow, revived>>
  BY DEF CreateLessonCommit, InsertLesson, slotVars
<1>5. RequestRefs' /\ ReservedApart'
  BY <1>1, <1>3, <1>4, InsertBase DEF TypeOK
<1> HIDE DEF l
<1>6. TypeOK'
  BY <1>1, <1>2, <1>3, <1>4 DEF TypeOK, LessonStatus
<1>7. \A s \in Slots \ revived : ~slotGone[s] => slotHolder[s] # l
  BY <1>3, NullAssumption DEF IInv, Holding, HolderIsLive, Occupying
<1>8. Holding'
  BY <1>1, <1>3, <1>4, <1>7 DEF IInv, Holding, HolderPointsBack, HolderIsLive,
                          Occupying, TypeOK
<1>9. LocksProtect'
  BY <1>1, <1>2, <1>3, <1>4 DEF IInv, Locking, LocksProtect, Bookable, LearnerCanManage, TypeOK
<1>10. WindowsAgree'
  BY <1>1, <1>3, <1>4 DEF IInv, Locking, WindowsAgree, TypeOK
<1>11. LockedSlotUncontested'
  BY <1>1, <1>2, <1>3, <1>4, NullAssumption
     DEF IInv, Base, RequestRefs, Locking, LockedSlotUncontested, TypeOK, Occupying
<1>12. SavesSeeHolder'
  BY <1>1, <1>2, <1>3, <1>4
     DEF IInv, Base, RequestRefs, ReservedApart, Locking, SavesSeeHolder, SeesHolder, Releases,
         TypeOK, Occupying
<1> QED
  BY <1>5, <1>6, <1>8, <1>9, <1>10, <1>11, <1>12 DEF IInv, Base, Locking

LEMMA BookSlotCommitStep ==
  ASSUME IInv, NEW r \in Requests, BookSlotCommit(r)
  PROVE  IInv'
<1> DEFINE l == req[r].lesson
           s == req[r].slot
<1>1. TypeOK /\ End(r) /\ req[r].op = "book"
  BY DEF IInv, Base, BookSlotCommit
<1>2. /\ req' \in [Requests -> Request]
      /\ req'[r].op = "idle" /\ req'[r].lesson = NoLesson
      /\ \A q \in Requests \ {r} : req'[q] = req[q]
  BY <1>1, EndType
<1>3. /\ l \in Lessons /\ lessonStatus[l] = "none"
      /\ s \in Slots /\ slotStatus[s] = "open" /\ slotHolder[s] = NoLesson /\ ~slotGone[s]
      /\ req[r].window = slotWindow[s] /\ l # NoLesson
  BY <1>1, NullAssumption DEF IInv, Base, RequestRefs, Locking, LocksProtect, Bookable
<1>4. /\ lessonStatus' = [lessonStatus EXCEPT ![l] = "requested"]
      /\ lessonSlot' = [lessonSlot EXCEPT ![l] = s]
      /\ lessonWindow' = [lessonWindow EXCEPT ![l] = slotWindow[s]]
      /\ slotStatus' = [slotStatus EXCEPT ![s] = "booked"]
      /\ slotHolder' = [slotHolder EXCEPT ![s] = l]
      /\ UNCHANGED <<approved, slotGone, slotWindow, revived>>
  BY <1>3 DEF BookSlotCommit, InsertLesson, TakeSlot
<1>5. RequestRefs' /\ ReservedApart'
  BY <1>1, <1>3, <1>4, InsertBase DEF TypeOK
<1>6. \A q \in Requests \ {r} : req[q].op \in {"book", "move"} => req[q].slot # s
  BY <1>1 DEF IInv, Locking, LocksProtect
<1> HIDE DEF l, s
<1>7. TypeOK'
  BY <1>1, <1>2, <1>3, <1>4 DEF TypeOK, LessonStatus, SlotStatus
<1>8. \A p \in Slots \ revived : ~slotGone[p] => slotHolder[p] # l
  BY <1>3 DEF IInv, Holding, HolderIsLive, Occupying
<1>9. Holding'
  BY <1>1, <1>3, <1>4, <1>8 DEF IInv, Holding, HolderPointsBack, HolderIsLive,
                          Occupying, TypeOK
<1>10. LocksProtect'
  BY <1>1, <1>2, <1>3, <1>4, <1>6 DEF IInv, Locking, LocksProtect, Bookable, LearnerCanManage, TypeOK
<1>11. WindowsAgree'
  BY <1>1, <1>3, <1>4 DEF IInv, Locking, WindowsAgree, TypeOK
<1>12. LockedSlotUncontested'
  BY <1>1, <1>2, <1>3, <1>4, <1>6 DEF IInv, Locking, LockedSlotUncontested, Occupying, TypeOK
<1>13. SavesSeeHolder'
  <2> SUFFICES ASSUME NEW q \in Requests \ {r}, req[q].op = "save" PROVE SeesHolder(q)'
    BY <1>2 DEF SavesSeeHolder
  <2>1. req'[q] = req[q] /\ req[q].lesson # l /\ req[q].lesson \in Lessons
    BY <1>1, <1>2 DEF IInv, Base, RequestRefs, ReservedApart, l
  <2>2. /\ lessonSlot'[req[q].lesson] = lessonSlot[req[q].lesson]
        /\ lessonStatus'[req[q].lesson] = lessonStatus[req[q].lesson]
        /\ \A p \in Slots : slotHolder'[p] = req[q].lesson => slotHolder[p] = req[q].lesson
    BY <1>1, <1>4, <2>1 DEF TypeOK
  <2> QED
    BY <1>4, <2>1, <2>2 DEF IInv, Locking, SavesSeeHolder, SeesHolder, Releases, Occupying
<1> QED
  BY <1>5, <1>7, <1>9, <1>10, <1>11, <1>12, <1>13 DEF IInv, Base, Locking

LEMMA StatusCommitStep ==
  ASSUME IInv, NEW r \in Requests, StatusCommit(r)
  PROVE  IInv'
<1> DEFINE l == req[r].lesson
           st == req[r].next
           s == lessonSlot[l]
           columns == req[r].columns
           ns == SlotStatusFor(st)
           nh == HolderFor(l, st)
<1>1. TypeOK /\ End(r) /\ req[r].op = "save" /\ SaveSlot(s, columns, ns, nh)
  BY DEF IInv, Base, StatusCommit
<1>2. /\ req' \in [Requests -> Request]
      /\ req'[r].op = "idle" /\ req'[r].lesson = NoLesson
      /\ \A q \in Requests \ {r} : req'[q] = req[q]
  BY <1>1, EndType
<1>3. /\ l \in Lessons /\ l # NoLesson /\ lessonStatus[l] # "none"
      /\ st \in {"accepted", "declined", "completed", "cancelled"}
  BY <1>1, NullAssumption DEF IInv, Base, RequestRefs
<1>4. /\ lessonStatus' = [lessonStatus EXCEPT ![l] = st]
      /\ UNCHANGED <<approved, slotWindow, lessonSlot, lessonWindow>>
  BY DEF StatusCommit
<1>5. s = NoSlot \/ (s \in Slots /\ slotStatus[s] # "none")
  BY <1>1, <1>3 DEF TypeOK, IInv, Locking, WindowsAgree
<1>6. \A q \in Requests \ {r} : req[q].op \in {"move", "reload", "save"} => req[q].lesson # l
  BY <1>1 DEF IInv, Locking, LocksProtect
<1>7. \/ ~Releases(st) /\ st \in Occupying /\ ns = "booked" /\ nh = l
      \/ Releases(st) /\ st \notin Occupying /\ ns = "open" /\ nh = NoLesson
  BY <1>3 DEF Releases, SlotStatusFor, HolderFor, Occupying
<1>8. \A q \in Requests : columns # {} /\ req[q].op \in {"book", "move"} => req[q].slot # s
  BY <1>1 DEF SlotLocked, SaveSlot
<1>9. (s \in Slots \ revived /\ ~slotGone[s]) =>
        ((IF Releases(st) THEN slotHolder[s] = l ELSE lessonStatus[l] \notin Occupying)
           => "holder" \in columns)
  BY <1>1 DEF IInv, Locking, SavesSeeHolder, SeesHolder
<1> HIDE DEF l, st, s, columns, ns, nh
<1>10. \A p \in Slots : slotStatus'[p] = "none" <=> slotStatus[p] = "none"
  BY <1>1, <1>5, <1>7, NullAssumption DEF SaveSlot
<1>11. \A m \in Lessons : lessonStatus'[m] = "none" <=> lessonStatus[m] = "none"
  BY <1>1, <1>3, <1>4 DEF TypeOK
<1>12. RequestRefs' /\ ReservedApart'
  BY <1>1, <1>4, <1>10, <1>11, EndBase
<1>13. TypeOK'
  BY <1>1, <1>2, <1>3, <1>4, <1>7 DEF TypeOK, LessonStatus, SlotStatus, SaveSlot
<1>14. HolderPointsBack'
  BY <1>1, <1>3, <1>4, <1>7 DEF IInv, Holding, HolderPointsBack, SaveSlot, s
<1>15. HolderIsLive'
  <2> SUFFICES ASSUME NEW p \in Slots \ revived', ~slotGone'[p], slotHolder'[p] # NoLesson
               PROVE  lessonStatus'[slotHolder'[p]] \in Occupying
    BY DEF HolderIsLive, Occupying
  <2>1. p \in Slots \ revived /\ ~slotGone[p]
    BY <1>1 DEF SaveSlot
  <2>2. CASE slotHolder'[p] = l
    <3>1. ~Releases(st)
      <4> SUFFICES ASSUME Releases(st) PROVE FALSE
        OBVIOUS
      <4>1. slotHolder[p] = l
        BY <1>1, <1>3, <1>7, <2>2 DEF SaveSlot
      <4>2. p = s
        BY <1>3, <2>1, <4>1 DEF IInv, Holding, HolderPointsBack, s
      <4>3. slotHolder'[p] = nh
        BY <1>1, <1>9, <2>1, <4>1, <4>2 DEF SaveSlot
      <4> QED
        BY <1>3, <1>7, <2>2, <4>3
    <3> QED
      BY <1>1, <1>3, <1>4, <1>7, <2>2, <3>1 DEF TypeOK
  <2>3. CASE slotHolder'[p] # l
    <3>1. slotHolder'[p] = slotHolder[p]
      BY <1>1, <1>7, <2>3 DEF SaveSlot
    <3>2. lessonStatus[slotHolder[p]] \in Occupying /\ slotHolder[p] \in Lessons
      BY <1>1, <2>1, <3>1 DEF IInv, Holding, HolderIsLive, TypeOK
    <3> QED
      BY <1>1, <1>4, <2>3, <3>1, <3>2 DEF TypeOK
  <2> QED
    BY <2>2, <2>3
<1>16. LocksProtect'
  <2>1. \A q \in Requests : req'[q].op # "idle" => q # r /\ req'[q] = req[q]
    BY <1>2
  <2>2. \A q \in Requests \ {r} : req[q].op \in {"book", "move"} => Bookable(req[q].slot)'
    BY <1>1, <1>2, SaveKeepsLocked
       DEF IInv, Base, RequestRefs, Locking, LocksProtect, SlotLocked, Bookable
  <2>3. ASSUME NEW q \in Requests \ {r}, req[q].op = "move" PROVE LearnerCanManage(req[q].lesson)'
    <3>1. req'[q] = req[q] /\ req[q].lesson \in Lessons /\ req[q].lesson # l
      BY <1>2, <1>6, <2>3 DEF IInv, Base, RequestRefs
    <3>2. lessonStatus'[req[q].lesson] = lessonStatus[req[q].lesson]
      BY <1>1, <1>4, <3>1 DEF TypeOK
    <3> QED
      BY <2>3, <3>1, <3>2 DEF IInv, Locking, LocksProtect, LearnerCanManage
  <2> QED
    BY <2>1, <2>2, <2>3 DEF IInv, Locking, LocksProtect, Bookable, LearnerCanManage
<1>17. WindowsAgree'
  <2>1. \A p \in Slots : slotStatus[p] = "none" => slotHolder'[p] = slotHolder[p]
    BY <1>1, <1>5, NullAssumption DEF SaveSlot
  <2>2. \A m \in Lessons : lessonSlot[m] \in Slots \cup {NoSlot}
    BY <1>1 DEF TypeOK
  <2> QED
    BY <1>4, <1>10, <1>11, <2>1, <2>2 DEF IInv, Locking, WindowsAgree
<1>18. LockedSlotUncontested'
  <2> SUFFICES ASSUME NEW q \in Requests \ {r}, NEW m \in Lessons, req[q].op \in {"book", "move"},
                      req[q].slot \notin revived, lessonStatus'[m] \in Occupying,
                      m # req[q].lesson, lessonSlot[m] = req[q].slot
               PROVE  FALSE
    BY <1>1, <1>2, <1>4 DEF LockedSlotUncontested, SaveSlot, Occupying
  <2>1. lessonStatus[m] \notin Occupying
    BY DEF IInv, Locking, LockedSlotUncontested
  <2>2. m = l /\ lessonStatus[l] \notin Occupying /\ ~Releases(st) /\ req[q].slot = s
    BY <1>1, <1>4, <1>7, <2>1 DEF TypeOK, s
  <2>3. s \in Slots \ revived /\ ~slotGone[s]
    BY <2>2 DEF IInv, Base, RequestRefs, Locking, LocksProtect, Bookable
  <2> QED
    BY <1>8, <1>9, <2>2, <2>3
<1>19. SavesSeeHolder'
  <2> SUFFICES ASSUME NEW q \in Requests \ {r}, req[q].op = "save" PROVE SeesHolder(q)'
    BY <1>2 DEF SavesSeeHolder
  <2> DEFINE m == req[q].lesson
             p == lessonSlot[m]
  <2>1. req'[q] = req[q] /\ m \in Lessons /\ m # NoLesson /\ m # l
    BY <1>2, <1>6, NullAssumption DEF IInv, Base, RequestRefs
  <2>2. p \in Slots \ revived' /\ ~slotGone'[p] => p \in Slots \ revived /\ ~slotGone[p]
    BY <1>1 DEF SaveSlot
  <2>3. p \in Slots /\ slotHolder'[p] = m => slotHolder[p] = m
    BY <1>1, <1>7, <2>1 DEF SaveSlot
  <2>4. lessonStatus'[m] = lessonStatus[m]
    BY <1>1, <1>4, <2>1 DEF TypeOK
  <2> QED
    BY <1>4, <2>1, <2>2, <2>3, <2>4 DEF IInv, Locking, SavesSeeHolder, SeesHolder, Releases, Occupying
<1> QED
  BY <1>12, <1>13, <1>14, <1>15, <1>16, <1>17, <1>18, <1>19 DEF IInv, Base, Holding, Locking

LEMMA RescheduleCommitStep ==
  ASSUME IInv, NEW r \in Requests, RescheduleCommit(r)
  PROVE  IInv'
<1> DEFINE l == req[r].lesson
           t == req[r].slot
           freed == {p \in PreviousSlot(r) : slotHolder[p] = l}
<1>1. TypeOK /\ End(r) /\ req[r].op = "move"
  BY DEF IInv, Base, RescheduleCommit
<1>2. /\ req' \in [Requests -> Request]
      /\ req'[r].op = "idle" /\ req'[r].lesson = NoLesson
      /\ \A q \in Requests \ {r} : req'[q] = req[q]
  BY <1>1, EndType
<1>3. /\ l \in Lessons /\ lessonStatus[l] \in Occupying /\ lessonStatus[l] # "none"
      /\ t \in Slots /\ slotStatus[t] = "open" /\ slotHolder[t] = NoLesson /\ ~slotGone[t]
      /\ req[r].window = slotWindow[t] /\ l # NoLesson
  BY <1>1, NullAssumption DEF IInv, Base, RequestRefs, Locking, LocksProtect, Bookable,
                              LearnerCanManage, Occupying
<1>4. /\ lessonSlot' = [lessonSlot EXCEPT ![l] = t]
      /\ lessonWindow' = [lessonWindow EXCEPT ![l] = slotWindow[t]]
      /\ slotStatus' = [s \in Slots |-> IF s = t THEN "booked"
                                        ELSE IF s \in freed THEN "open" ELSE slotStatus[s]]
      /\ slotHolder' = [s \in Slots |-> IF s = t THEN l
                                        ELSE IF s \in freed THEN NoLesson ELSE slotHolder[s]]
      /\ UNCHANGED <<approved, slotGone, slotWindow, revived, lessonStatus>>
  BY <1>3 DEF RescheduleCommit
<1>5. \A s \in Slots \ revived : s # t /\ ~slotGone[s] /\ slotHolder[s] = l => s \in freed
  BY <1>3 DEF PreviousSlot, IInv, Holding, HolderPointsBack
<1>6. \A s \in freed : s \in Slots /\ slotHolder[s] = l /\ slotStatus[s] # "none"
  BY <1>3, NullAssumption DEF PreviousSlot, IInv, Locking, WindowsAgree
<1>7. RequestRefs' /\ ReservedApart'
  <2>1. \A s \in Slots : slotStatus'[s] = "none" <=> slotStatus[s] = "none"
    BY <1>3, <1>4, <1>6
  <2> QED
    BY <1>1, <1>4, <2>1, EndBase
<1>8. \A q \in Requests \ {r} : req[q].op \in {"book", "move"} => req[q].slot # t
  BY <1>1 DEF IInv, Locking, LocksProtect
<1>9. \A q \in Requests \ {r} : req[q].op \in {"book", "move"} => req[q].lesson # l
  BY <1>1 DEF IInv, Base, ReservedApart, Locking, LocksProtect
<1>10. \A q \in Requests : req[q].op \in {"book", "move"} => req[q].slot \notin freed
  BY DEF RescheduleCommit, SlotLocked
<1> HIDE DEF l, t, freed
<1>11. TypeOK'
  BY <1>1, <1>2, <1>3, <1>4 DEF TypeOK, SlotStatus
<1>12. SavesSeeHolder'
  <2> SUFFICES ASSUME NEW q \in Requests \ {r}, req[q].op = "save" PROVE SeesHolder(q)'
    BY <1>2 DEF SavesSeeHolder
  <2>1. req'[q] = req[q] /\ req[q].lesson \in Lessons /\ req[q].lesson # l
    BY <1>1, <1>2 DEF IInv, Base, RequestRefs, Locking, LocksProtect, l
  <2>2. /\ lessonSlot'[req[q].lesson] = lessonSlot[req[q].lesson]
        /\ \A p \in Slots : slotHolder'[p] = req[q].lesson => slotHolder[p] = req[q].lesson
    BY <1>1, <1>4, <2>1, NullAssumption DEF TypeOK
  <2> QED
    BY <1>4, <2>1, <2>2 DEF IInv, Locking, SavesSeeHolder, SeesHolder, Releases, Occupying
<1>13. HolderPointsBack'
  BY <1>1, <1>3, <1>4, <1>5 DEF IInv, Holding, HolderPointsBack, TypeOK
<1>14. HolderIsLive'
  BY <1>3, <1>4 DEF IInv, Holding, HolderIsLive, Occupying
<1>15. LocksProtect'
  BY <1>2, <1>4, <1>8, <1>10 DEF IInv, Base, RequestRefs, Locking, LocksProtect, Bookable,
                                 LearnerCanManage
<1>16. WindowsAgree'
  BY <1>1, <1>3, <1>4, <1>6 DEF IInv, Locking, WindowsAgree, TypeOK
<1>17. LockedSlotUncontested'
  BY <1>1, <1>2, <1>3, <1>4, <1>8 DEF IInv, Locking, LockedSlotUncontested, TypeOK, Occupying
<1> QED
  BY <1>7, <1>11, <1>12, <1>13, <1>14, <1>15, <1>16, <1>17 DEF IInv, Base, Holding, Locking

-----------------------------------------------------------------------------

LEMMA NextStep ==
  ASSUME IInv, [Next]_vars
  PROVE  IInv'
<1>1. ASSUME NEW r \in Requests, Finish(r) PROVE IInv'
  BY <1>1, CreateSlotSaveStep, CancelSlotReloadStep, CancelSlotSaveStep, CancelSlotDeleteStep,
     CreateLessonCommitStep, BookSlotCommitStep, StatusLockStep, SyncReloadStep,
     StatusCommitStep, RescheduleCommitStep DEF Finish
<1> QED
  BY <1>1, AdminStep, StartStep, CrashStep, StutterStep DEF Next

\* The inductive invariant holds in every reachable state, for every number of
\* instructors, slots, lessons and requests in flight.
THEOREM Invariance == Spec => []IInv
BY InitIInv, NextStep, PTL DEF Spec

\* Type correctness.
THEOREM TypeCorrect == Spec => []TypeOK
<1>1. IInv => TypeOK
  BY DEF IInv, Base
<1> QED
  BY <1>1, Invariance, PTL

\* Slots and lessons agree, whatever requests interleave and wherever they stop:
\* a live slot that names a lesson is the one the lesson names,
THEOREM SlotsAndLessonsAgree == Spec => []HolderPointsBack
<1>1. IInv => HolderPointsBack
  BY DEF IInv, Holding
<1> QED
  BY <1>1, Invariance, PTL

\* and the lesson it names takes up time.
THEOREM HoldersAreLive == Spec => []HolderIsLive
<1>1. IInv => HolderIsLive
  BY DEF IInv, Holding
<1> QED
  BY <1>1, Invariance, PTL

\* What a transaction checked under its row locks still holds when it commits.
THEOREM LocksAreEnough == Spec => []LocksProtect
<1>1. IInv => LocksProtect
  BY DEF IInv, Locking
<1> QED
  BY <1>1, Invariance, PTL

\* No reschedule waits for its previous slot: the row locks cannot deadlock.
THEOREM NoLockCycle == Spec => []NeverWaitsForPreviousSlot
<1>1. ASSUME IInv PROVE NeverWaitsForPreviousSlot
  <2> SUFFICES ASSUME NEW r \in Requests, req[r].op = "move", NEW p \in PreviousSlot(r) \ revived,
                      NEW q \in Requests, req[q].op \in {"book", "move"}, req[q].slot = p
               PROVE  FALSE
    BY DEF NeverWaitsForPreviousSlot, SlotLocked
  <2> DEFINE l == req[r].lesson
  <2>1. p = lessonSlot[l] /\ p # req[r].slot /\ q # r
    BY DEF PreviousSlot
  <2>2. l \in Lessons /\ lessonStatus[l] \in Occupying
    BY <1>1 DEF IInv, Base, RequestRefs, Locking, LocksProtect, LearnerCanManage, Occupying
  <2>3. req[q].lesson # l
    BY <1>1, <2>1 DEF IInv, Base, ReservedApart, Locking, LocksProtect
  <2> QED
    BY <1>1, <2>1, <2>2, <2>3 DEF IInv, Locking, LockedSlotUncontested
<1> QED
  BY <1>1, Invariance, PTL

\* Only five kinds of step touch lessons, and each changes a slot reference or
\* a window only as its locks allow.
LEMMA LessonMoves ==
  ASSUME IInv, [Next]_vars, NEW l \in Lessons
  PROVE  /\ lessonSlot'[l] # lessonSlot[l] => Bookable(lessonSlot'[l])
         /\ lessonStatus[l] # "none" /\ lessonWindow'[l] # lessonWindow[l]
              => LearnerCanManage(l) /\ lessonStatus'[l] = lessonStatus[l]
<1> DEFINE Goal == /\ lessonSlot'[l] # lessonSlot[l] => Bookable(lessonSlot'[l])
                   /\ lessonStatus[l] # "none" /\ lessonWindow'[l] # lessonWindow[l]
                        => LearnerCanManage(l) /\ lessonStatus'[l] = lessonStatus[l]
<1>1. CASE UNCHANGED <<lessonSlot, lessonWindow>>
  BY <1>1
<1>2. ASSUME NEW r \in Requests, CreateLessonCommit(r) PROVE Goal
  <2>1. /\ lessonStatus[req[r].lesson] = "none" /\ lessonSlot[req[r].lesson] = NoSlot
        /\ req[r].lesson \in Lessons
    BY <1>2 DEF CreateLessonCommit, IInv, Base, RequestRefs, Locking, WindowsAgree
  <2> QED
    BY <1>2, <2>1 DEF CreateLessonCommit, InsertLesson, IInv, Base, TypeOK
<1>3. ASSUME NEW r \in Requests, BookSlotCommit(r) PROVE Goal
  <2>1. lessonStatus[req[r].lesson] = "none" /\ Bookable(req[r].slot)
    BY <1>3 DEF BookSlotCommit, IInv, Base, RequestRefs, Locking, LocksProtect
  <2> QED
    BY <1>3, <2>1 DEF BookSlotCommit, InsertLesson, IInv, Base, TypeOK
<1>4. ASSUME NEW r \in Requests, RescheduleCommit(r) PROVE Goal
  <2>1. LearnerCanManage(req[r].lesson) /\ Bookable(req[r].slot)
    BY <1>4 DEF RescheduleCommit, IInv, Locking, LocksProtect
  <2> QED
    BY <1>4, <2>1 DEF RescheduleCommit, IInv, Base, TypeOK
<1>5. ASSUME Next PROVE UNCHANGED <<lessonSlot, lessonWindow>> \/
        \E r \in Requests : CreateLessonCommit(r) \/ BookSlotCommit(r) \/ RescheduleCommit(r)
  <2>1. ASSUME NEW r \in Requests, Start(r) PROVE UNCHANGED <<lessonSlot, lessonWindow>>
    BY <2>1 DEF Start, CreateSlotCheck, CancelSlotRead, CreateLessonCheck, BookSlotLock,
                LearnerCancelCheck, UpdateStatusCheck, RescheduleLock, lessonVars
  <2> QED
    BY <1>5, <2>1 DEF Next, Finish, ApproveInstructor, SuspendInstructor, Crash, CreateSlotSave,
                      CancelSlotReload, CancelSlotSave, CancelSlotDelete, StatusLock, SyncReload,
                      StatusCommit, lessonVars
<1> QED
  BY <1>1, <1>2, <1>3, <1>4, <1>5 DEF vars

\* Booking and rescheduling only take slots that nobody holds.
THEOREM OnlyFreeSlotsAreTaken == Spec => TakesOnlyFreeSlots
<1>1. IInv /\ [Next]_vars =>
        [\A l \in Lessons : lessonSlot'[l] # lessonSlot[l] => Bookable(lessonSlot'[l])]_vars
  BY LessonMoves
<1> QED
  BY <1>1, Invariance, PTL DEF Spec, TakesOnlyFreeSlots

\* Only a lesson its learner may still manage is moved, and it keeps its status.
THEOREM OnlyManageableIsMoved == Spec => ReschedulesOnlyManageable
<1>1. IInv /\ [Next]_vars =>
        [\A l \in Lessons :
           lessonStatus[l] # "none" /\ lessonWindow'[l] # lessonWindow[l]
             => LearnerCanManage(l) /\ lessonStatus'[l] = lessonStatus[l]]_vars
  BY LessonMoves
<1> QED
  BY <1>1, Invariance, PTL DEF Spec, ReschedulesOnlyManageable

-----------------------------------------------------------------------------
(* One request at a time: what a request has checked is still so when it     *)
(* writes, though it may stop anywhere in between.                           *)

\* No two requests are in flight.
Alone == \A q, r \in Requests : req[q].op # "idle" /\ req[r].op # "idle" => q = r

ReadsAreFresh ==
  \A r \in Requests :
    /\ req[r].op = "publish" => NoSlotOverlap(req[r].window)
    /\ req[r].op \in {"direct", "book"} => NoLessonConflict(req[r].window, NoLesson)
    /\ req[r].op = "move" => NoLessonConflict(req[r].window, req[r].lesson)
    /\ req[r].op \in {"dropRead", "dropSave"} =>
         slotHolder[req[r].slot] = NoLesson /\ ~slotGone[req[r].slot]
    /\ req[r].op = "dropSave" =>
         req[r].columns = Differing(req[r].slot, "cancelled", NoLesson)
    /\ req[r].op = "dropDelete" => slotHolder[req[r].slot] = NoLesson
    /\ req[r].op \in {"status", "cancel", "reload", "save"} =>
         req[r].next \in ValidTransitions(lessonStatus[req[r].lesson])
    /\ req[r].op = "save" /\ lessonSlot[req[r].lesson] # NoSlot =>
         req[r].columns = Differing(lessonSlot[req[r].lesson], SlotStatusFor(req[r].next),
                                    HolderFor(req[r].lesson, req[r].next))

\* A slot is booked exactly when it names a lesson, and no save has brought one
\* back: one after the other, saves write all they meant to write.
RowsConsistent ==
  /\ \A s \in Slots : slotStatus[s] = "booked" <=> slotHolder[s] # NoLesson
  /\ revived = {}

Calendars ==
  CalendarDisjoint /\ SlotsDisjoint /\ OccupyingLessonHoldsSlot /\ RowsConsistent
SInv == Calendars /\ ReadsAreFresh

LEMMA OverlapSymmetric ==
  ASSUME NEW v, NEW w
  PROVE  Overlap(v, w) <=> Overlap(w, v)
BY DEF Overlap

\* What a request reads when it begins is fresh.
LEMMA BeginFresh ==
  ASSUME Alone', TypeOK, NEW r \in Requests,
         NEW op \in {"publish", "dropRead", "direct", "status", "cancel", "book", "move"},
         NEW s \in Slots \cup {NoSlot}, NEW l \in Lessons \cup {NoLesson},
         NEW w \in Windows \cup {NoWindow}, NEW next \in LessonStatus, Begin(r, op, s, l, w, next),
         UNCHANGED <<slotVars, lessonVars>>,
         op = "publish" => NoSlotOverlap(w),
         op \in {"direct", "book"} => NoLessonConflict(w, NoLesson),
         op = "move" => NoLessonConflict(w, l),
         op = "dropRead" => slotHolder[s] = NoLesson /\ ~slotGone[s],
         op \in {"status", "cancel"} => next \in ValidTransitions(lessonStatus[l])
  PROVE  ReadsAreFresh'
<1>1. req'[r] = [op |-> op, slot |-> s, lesson |-> l, window |-> w, next |-> next,
                      columns |-> {}]
  BY BeginType
<1>2. \A q \in Requests : q # r => req'[q].op = "idle"
  BY <1>1 DEF Alone
<1>3. UNCHANGED <<slotStatus, slotHolder, slotGone, slotWindow, lessonStatus, lessonSlot,
                  lessonWindow>>
  BY DEF slotVars, lessonVars
<1>4. /\ NoSlotOverlap(w)' <=> NoSlotOverlap(w)
      /\ NoLessonConflict(w, NoLesson)' <=> NoLessonConflict(w, NoLesson)
      /\ NoLessonConflict(w, l)' <=> NoLessonConflict(w, l)
  BY <1>3 DEF NoSlotOverlap, NoLessonConflict, LiveSlot, Overlap, Occupying
<1>5. /\ NoSlotOverlap(req[r].window)' <=> NoSlotOverlap(w)'
      /\ NoLessonConflict(req[r].window, NoLesson)' <=> NoLessonConflict(w, NoLesson)'
      /\ NoLessonConflict(req[r].window, req[r].lesson)' <=> NoLessonConflict(w, l)'
  BY <1>1 DEF NoSlotOverlap, NoLessonConflict
<1>6. ValidTransitions(lessonStatus[l])' = ValidTransitions(lessonStatus[l])
  BY <1>3 DEF ValidTransitions
<1> QED
  BY <1>1, <1>2, <1>3, <1>4, <1>5, <1>6 DEF ReadsAreFresh

LEMMA EndFresh ==
  ASSUME Alone, TypeOK, NEW r \in Requests, req[r].op # "idle", End(r)
  PROVE  ReadsAreFresh'
<1>1. \A q \in Requests : req'[q].op = "idle"
  BY EndType DEF Alone
<1> QED
  BY <1>1 DEF ReadsAreFresh

\* The calendar of lessons when none is added to it, and when one gets a window
\* that meets no other.
LEMMA FewerLessons ==
  ASSUME CalendarDisjoint, UNCHANGED lessonWindow,
         \A l \in Lessons : lessonStatus'[l] \in Occupying => lessonStatus[l] \in Occupying
  PROVE  CalendarDisjoint'
BY DEF CalendarDisjoint, Overlap, Occupying

LEMMA NewWindow ==
  ASSUME CalendarDisjoint, NEW l \in Lessons, NEW w, NoLessonConflict(w, l),
         \A m \in Lessons \ {l} : /\ lessonWindow'[m] = lessonWindow[m]
                                  /\ lessonStatus'[m] = lessonStatus[m],
         lessonWindow'[l] = w
  PROVE  CalendarDisjoint'
<1> SUFFICES ASSUME NEW m \in Lessons, NEW n \in Lessons, m # n,
                    lessonStatus'[m] \in Occupying, lessonStatus'[n] \in Occupying
             PROVE  ~Overlap(lessonWindow'[m], lessonWindow'[n])
  BY DEF CalendarDisjoint, Overlap, Occupying
<1>1. CASE m = l
  BY <1>1, OverlapSymmetric DEF NoLessonConflict
<1>2. CASE n = l
  BY <1>2 DEF NoLessonConflict
<1>3. CASE m # l /\ n # l
  BY <1>3 DEF CalendarDisjoint
<1> QED
  BY <1>1, <1>2, <1>3

\* The calendar of slots when none is added to it.
LEMMA FewerSlots ==
  ASSUME SlotsDisjoint, UNCHANGED slotWindow,
         \A s \in Slots : slotStatus'[s] \in {"open", "booked"} /\ ~slotGone'[s] => LiveSlot(s)
  PROVE  SlotsDisjoint'
BY DEF SlotsDisjoint, LiveSlot, Overlap

LEMMA RowsUnchanged ==
  ASSUME Calendars, UNCHANGED <<slotVars, lessonVars>>
  PROVE  Calendars'
<1>1. CalendarDisjoint'
  BY FewerLessons DEF Calendars, lessonVars
<1>2. SlotsDisjoint'
  BY FewerSlots DEF Calendars, slotVars, LiveSlot
<1>3. OccupyingLessonHoldsSlot'
  BY DEF Calendars, slotVars, lessonVars, OccupyingLessonHoldsSlot, Occupying
<1>4. RowsConsistent'
  BY DEF Calendars, slotVars, RowsConsistent
<1> QED
  BY <1>1, <1>2, <1>3, <1>4 DEF Calendars

\* The effect of a save that nothing came in between.
LEMMA FreshSave ==
  ASSUME NEW s \in Slots, NEW status, NEW holder, TypeOK, ~slotGone[s],
         SaveSlot(s, Differing(s, status, holder), status, holder)
  PROVE  /\ slotStatus' = [slotStatus EXCEPT ![s] = status]
         /\ slotHolder' = [slotHolder EXCEPT ![s] = holder]
         /\ UNCHANGED <<slotGone, revived>>
<1>1. /\ "status" \in Differing(s, status, holder) <=> slotStatus[s] # status
      /\ "holder" \in Differing(s, status, holder) <=> slotHolder[s] # holder
      /\ "gone" \notin Differing(s, status, holder)
  BY DEF Differing, Column
<1> HIDE DEF Differing
<1>2. slotGone' = slotGone /\ revived' = revived
  BY <1>1 DEF SaveSlot, TypeOK
<1> QED
  BY <1>1, <1>2 DEF SaveSlot, TypeOK

-----------------------------------------------------------------------------
LEMMA StartSerial ==
  ASSUME Alone, Alone', IInv, SInv, NEW r \in Requests, Start(r)
  PROVE  SInv'
<1>1. TypeOK /\ "none" \in LessonStatus /\ "cancelled" \in LessonStatus
  BY DEF IInv, Base, LessonStatus
<1>2. UNCHANGED <<slotVars, lessonVars>>
  BY DEF Start, CreateSlotCheck, CancelSlotRead, CreateLessonCheck, BookSlotLock,
         LearnerCancelCheck, UpdateStatusCheck, RescheduleLock, slotVars, lessonVars
<1>3. Calendars'
  BY <1>2, RowsUnchanged DEF SInv
<1>4. ASSUME NEW s \in Slots, NEW w \in Windows, CreateSlotCheck(r, s, w) PROVE ReadsAreFresh'
  BY <1>1, <1>2, <1>4, BeginFresh DEF CreateSlotCheck
<1>5. ASSUME NEW s \in Slots, CancelSlotRead(r, s) PROVE ReadsAreFresh'
  BY <1>1, <1>2, <1>5, BeginFresh DEF CancelSlotRead, Droppable
<1>6. ASSUME NEW l \in Lessons, NEW w \in Windows, CreateLessonCheck(r, l, w)
      PROVE  ReadsAreFresh'
  BY <1>1, <1>2, <1>6, BeginFresh DEF CreateLessonCheck
<1>7. ASSUME NEW s \in Slots, NEW l \in Lessons, BookSlotLock(r, s, l) PROVE ReadsAreFresh'
  <2>1. slotWindow[s] \in Windows \cup {NoWindow}
    BY <1>1 DEF TypeOK
  <2> QED
    BY <1>1, <1>2, <1>7, <2>1, BeginFresh DEF BookSlotLock
<1>8. ASSUME NEW l \in Lessons, LearnerCancelCheck(r, l) PROVE ReadsAreFresh'
  <2>1. "cancelled" \in ValidTransitions(lessonStatus[l])
    BY <1>8 DEF LearnerCancelCheck, LearnerCanManage, ValidTransitions
  <2> QED
    BY <1>1, <1>2, <1>8, <2>1, BeginFresh DEF LearnerCancelCheck
<1>9. ASSUME NEW l \in Lessons, NEW next \in LessonStatus, UpdateStatusCheck(r, l, next)
      PROVE  ReadsAreFresh'
  BY <1>1, <1>2, <1>9, BeginFresh DEF UpdateStatusCheck
<1>10. ASSUME NEW l \in Lessons, NEW t \in Slots, RescheduleLock(r, l, t) PROVE ReadsAreFresh'
  <2>1. slotWindow[t] \in Windows \cup {NoWindow}
    BY <1>1 DEF TypeOK
  <2> QED
    BY <1>1, <1>2, <1>10, <2>1, BeginFresh DEF RescheduleLock
<1> QED
  BY <1>3, <1>4, <1>5, <1>6, <1>7, <1>8, <1>9, <1>10 DEF Start, SInv

\* A request that reads on reads what it has read before.
LEMMA ReadOnSerial ==
  ASSUME Alone, Alone', IInv, SInv, NEW r \in Requests,
         CancelSlotReload(r) \/ StatusLock(r) \/ SyncReload(r)
  PROVE  SInv'
<1>1. TypeOK
  BY DEF IInv, Base
<1>2. UNCHANGED <<slotVars, lessonVars>>
  BY DEF CancelSlotReload, StatusLock, SyncReload, slotVars, lessonVars
<1>3. /\ \A q \in Requests : q # r => req[q].op = "idle" /\ req'[q] = req[q]
      /\ req'[r].slot = req[r].slot /\ req'[r].lesson = req[r].lesson /\ req'[r].next = req[r].next
  BY <1>1 DEF Alone, TypeOK, Request, CancelSlotReload, StatusLock, SyncReload
<1>4. \A s, status, holder : Differing(s, status, holder)' = Differing(s, status, holder)
  BY <1>2 DEF Differing, slotVars
<1>5. Calendars'
  BY <1>2, RowsUnchanged DEF SInv
<1>6. CASE CancelSlotReload(r)
  <2>1. /\ req'[r].op = "dropSave"
        /\ req'[r].columns = Differing(req[r].slot, "cancelled", NoLesson)
        /\ slotHolder[req[r].slot] = NoLesson /\ ~slotGone[req[r].slot]
    BY <1>1, <1>6 DEF CancelSlotReload, TypeOK, Request, SInv, ReadsAreFresh
  <2>2. ReadsAreFresh'
    BY <1>2, <1>3, <1>4, <2>1 DEF ReadsAreFresh, slotVars
  <2> QED
    BY <1>5, <2>2 DEF SInv
<1>7. CASE StatusLock(r)
  <2> DEFINE l == req[r].lesson
  <2>1. l \in Lessons /\ req[r].next \in ValidTransitions(lessonStatus[l])
    BY <1>7 DEF StatusLock, IInv, Base, RequestRefs, SInv, ReadsAreFresh
  <2>2. lessonSlot[l] # NoSlot => ~slotGone[lessonSlot[l]]
    BY <2>1 DEF ValidTransitions, SInv, Calendars, OccupyingLessonHoldsSlot, Occupying
  <2>3. req'[r].op = "reload" \/ (req'[r].op = "save" /\ lessonSlot[l] = NoSlot)
    BY <1>1, <1>7, <2>2 DEF StatusLock, TypeOK, Request
  <2>4. ReadsAreFresh'
    BY <1>2, <1>3, <2>1, <2>3 DEF ReadsAreFresh, slotVars, lessonVars, ValidTransitions
  <2> QED
    BY <1>5, <2>4 DEF SInv
<1>8. CASE SyncReload(r)
  <2>1. /\ req'[r].op = "save"
        /\ req'[r].columns = Differing(lessonSlot[req[r].lesson], SlotStatusFor(req[r].next),
                                       HolderFor(req[r].lesson, req[r].next))
        /\ req[r].next \in ValidTransitions(lessonStatus[req[r].lesson])
    BY <1>1, <1>8 DEF SyncReload, TypeOK, Request, SInv, ReadsAreFresh
  <2>2. \A l, next : /\ SlotStatusFor(next)' = SlotStatusFor(next)
                     /\ HolderFor(l, next)' = HolderFor(l, next)
    BY DEF SlotStatusFor, HolderFor, Releases
  <2>3. ReadsAreFresh'
    <3> HIDE DEF Differing, SlotStatusFor, HolderFor
    <3> QED
      BY <1>2, <1>3, <1>4, <2>1, <2>2 DEF ReadsAreFresh, slotVars, lessonVars, ValidTransitions
  <2> QED
    BY <1>5, <2>3 DEF SInv
<1> QED
  BY <1>6, <1>7, <1>8

LEMMA SlotStepsSerial ==
  ASSUME Alone, Alone', IInv, SInv, NEW r \in Requests,
         CreateSlotSave(r) \/ CancelSlotSave(r) \/ CancelSlotDelete(r)
  PROVE  SInv'
<1> DEFINE s == req[r].slot
<1>1. TypeOK /\ s \in Slots /\ req[r].op # "idle"
  BY DEF IInv, Base, RequestRefs, CreateSlotSave, CancelSlotSave, CancelSlotDelete
<1>2. UNCHANGED lessonVars
  BY DEF CreateSlotSave, CancelSlotSave, CancelSlotDelete, lessonVars
<1>3. CalendarDisjoint'
  BY <1>2, FewerLessons DEF SInv, Calendars, lessonVars
<1>4. CASE CreateSlotSave(r)
  <2>1. /\ slotStatus' = [slotStatus EXCEPT ![s] = "open"]
        /\ slotWindow' = [slotWindow EXCEPT ![s] = req[r].window]
        /\ End(r) /\ UNCHANGED <<slotHolder, slotGone, revived>>
        /\ NoSlotOverlap(req[r].window)
        /\ slotStatus[s] = "none" /\ slotHolder[s] = NoLesson
    BY <1>1, <1>4 DEF CreateSlotSave, SInv, ReadsAreFresh, IInv, Base, RequestRefs, Locking,
                      WindowsAgree
  <2>2. SlotsDisjoint'
    <3> SUFFICES ASSUME NEW t \in Slots, NEW u \in Slots, t # u, LiveSlot(t)', LiveSlot(u)'
                 PROVE  ~Overlap(slotWindow'[t], slotWindow'[u])
      BY DEF SlotsDisjoint, Overlap
    <3>1. \A v \in Slots \ {s} : slotWindow'[v] = slotWindow[v] /\ (LiveSlot(v)' => LiveSlot(v))
      BY <1>1, <2>1 DEF TypeOK, LiveSlot
    <3>2. slotWindow'[s] = req[r].window
      BY <1>1, <2>1 DEF TypeOK
    <3> HIDE DEF s
    <3>3. CASE t = s
      BY <2>1, <3>1, <3>2, <3>3, OverlapSymmetric DEF NoSlotOverlap
    <3>4. CASE u = s
      BY <2>1, <3>1, <3>2, <3>4 DEF NoSlotOverlap
    <3>5. CASE t # s /\ u # s
      BY <3>1, <3>5 DEF SInv, Calendars, SlotsDisjoint
    <3> QED
      BY <3>3, <3>4, <3>5
  <2>3. OccupyingLessonHoldsSlot'
    BY <1>2, <2>1 DEF SInv, Calendars, OccupyingLessonHoldsSlot, Occupying, lessonVars
  <2>4. RowsConsistent'
    BY <1>1, <2>1 DEF SInv, Calendars, RowsConsistent, TypeOK
  <2> QED
    BY <1>1, <1>3, <2>1, <2>2, <2>3, <2>4, EndFresh DEF SInv, Calendars
<1>5. CASE CancelSlotSave(r)
  <2>1. /\ SaveSlot(s, Differing(s, "cancelled", NoLesson), "cancelled", NoLesson)
        /\ UNCHANGED slotWindow
        /\ slotHolder[s] = NoLesson /\ ~slotGone[s]
    BY <1>5 DEF CancelSlotSave, SInv, ReadsAreFresh
  <2>2. /\ slotStatus' = [slotStatus EXCEPT ![s] = "cancelled"]
        /\ UNCHANGED <<slotHolder, slotGone, revived>>
    BY <1>1, <2>1, FreshSave DEF TypeOK
  <2>3. SlotsDisjoint'
    BY <1>1, <2>1, <2>2, FewerSlots DEF SInv, Calendars, TypeOK, LiveSlot
  <2>4. OccupyingLessonHoldsSlot'
    BY <1>2, <2>2 DEF SInv, Calendars, OccupyingLessonHoldsSlot, Occupying, lessonVars
  <2>5. RowsConsistent'
    BY <1>1, <2>1, <2>2 DEF SInv, Calendars, RowsConsistent, TypeOK
  <2>6. /\ req'[r].op = "dropDelete" /\ req'[r].slot = s
        /\ \A q \in Requests : q # r => req'[q].op = "idle"
    BY <1>1, <1>5 DEF CancelSlotSave, TypeOK, Request, Alone
  <2>7. ReadsAreFresh'
    BY <2>1, <2>2, <2>6 DEF ReadsAreFresh
  <2> QED
    BY <1>3, <2>3, <2>4, <2>5, <2>7 DEF SInv, Calendars
<1>6. CASE CancelSlotDelete(r)
  <2>1. /\ slotGone' = [slotGone EXCEPT ![s] = TRUE] /\ revived' = revived \ {s}
        /\ End(r) /\ UNCHANGED <<slotStatus, slotHolder, slotWindow>>
        /\ slotHolder[s] = NoLesson
    BY <1>6 DEF CancelSlotDelete, SInv, ReadsAreFresh
  <2>2. SlotsDisjoint'
    BY <1>1, <2>1, FewerSlots DEF SInv, Calendars, TypeOK, LiveSlot
  <2>3. OccupyingLessonHoldsSlot'
    BY <1>1, <1>2, <2>1, NullAssumption
       DEF SInv, Calendars, OccupyingLessonHoldsSlot, Occupying, lessonVars, TypeOK
  <2>4. RowsConsistent'
    BY <2>1 DEF SInv, Calendars, RowsConsistent
  <2> QED
    BY <1>1, <1>3, <2>1, <2>2, <2>3, <2>4, EndFresh DEF SInv, Calendars
<1> QED
  BY <1>4, <1>5, <1>6

LEMMA InsertSerial ==
  ASSUME Alone, Alone', IInv, SInv, NEW r \in Requests, CreateLessonCommit(r) \/ BookSlotCommit(r)
  PROVE  SInv'
<1> DEFINE l == req[r].lesson
           w == req[r].window
<1>1. TypeOK /\ End(r) /\ req[r].op # "idle" /\ l \in Lessons /\ NoLessonConflict(w, l)
  BY NullAssumption DEF IInv, Base, RequestRefs, CreateLessonCommit, BookSlotCommit, SInv, ReadsAreFresh,
         NoLessonConflict
<1>2. /\ lessonStatus' = [lessonStatus EXCEPT ![l] = "requested"]
      /\ lessonWindow' = [lessonWindow EXCEPT ![l] = w]
  BY DEF CreateLessonCommit, BookSlotCommit, InsertLesson
<1>3. CalendarDisjoint'
  <2>1. /\ \A m \in Lessons \ {l} : /\ lessonWindow'[m] = lessonWindow[m]
                                    /\ lessonStatus'[m] = lessonStatus[m]
        /\ lessonWindow'[l] = w
    BY <1>1, <1>2 DEF TypeOK
  <2> QED
    BY <1>1, <2>1, NewWindow DEF SInv, Calendars
<1>4. CASE CreateLessonCommit(r)
  <2>1. UNCHANGED slotVars /\ lessonSlot' = [lessonSlot EXCEPT ![l] = NoSlot]
    BY <1>4 DEF CreateLessonCommit, InsertLesson
  <2>2. SlotsDisjoint'
    BY <2>1, FewerSlots DEF SInv, Calendars, slotVars, LiveSlot
  <2>3. OccupyingLessonHoldsSlot'
    BY <1>1, <1>2, <2>1 DEF SInv, Calendars, OccupyingLessonHoldsSlot, Occupying, slotVars, TypeOK
  <2>4. RowsConsistent'
    BY <2>1 DEF SInv, Calendars, RowsConsistent, slotVars
  <2> QED
    BY <1>1, <1>3, <2>2, <2>3, <2>4, EndFresh DEF SInv, Calendars
<1>5. CASE BookSlotCommit(r)
  <2> DEFINE s == req[r].slot
  <2>1. /\ slotStatus' = [slotStatus EXCEPT ![s] = "booked"]
        /\ slotHolder' = [slotHolder EXCEPT ![s] = l]
        /\ lessonSlot' = [lessonSlot EXCEPT ![l] = s]
        /\ UNCHANGED <<slotGone, slotWindow, revived>>
    BY <1>5 DEF BookSlotCommit, InsertLesson, TakeSlot
  <2>2. s \in Slots /\ slotStatus[s] = "open" /\ slotHolder[s] = NoLesson /\ ~slotGone[s]
    BY <1>5 DEF BookSlotCommit, IInv, Base, RequestRefs, Locking, LocksProtect, Bookable
  <2>3. SlotsDisjoint'
    BY <1>1, <2>1, <2>2, FewerSlots DEF SInv, Calendars, TypeOK, LiveSlot
  <2> HIDE DEF l, s
  <2>4. OccupyingLessonHoldsSlot'
    BY <1>1, <1>2, <2>1, <2>2, NullAssumption
       DEF SInv, Calendars, OccupyingLessonHoldsSlot, Occupying, TypeOK
  <2>5. RowsConsistent'
    BY <1>1, <2>1, NullAssumption DEF SInv, Calendars, RowsConsistent, TypeOK
  <2> QED
    BY <1>1, <1>3, <2>3, <2>4, <2>5, EndFresh DEF SInv, Calendars
<1> QED
  BY <1>4, <1>5

LEMMA StatusSerial ==
  ASSUME Alone, Alone', IInv, SInv, NEW r \in Requests, StatusCommit(r)
  PROVE  SInv'
<1> DEFINE l == req[r].lesson
           st == req[r].next
           s == lessonSlot[l]
           ns == SlotStatusFor(st)
           nh == HolderFor(l, st)
<1>1. /\ TypeOK /\ End(r) /\ req[r].op # "idle" /\ l \in Lessons
      /\ SaveSlot(s, req[r].columns, ns, nh)
  BY DEF IInv, Base, RequestRefs, StatusCommit
<1>2. /\ lessonStatus' = [lessonStatus EXCEPT ![l] = st]
      /\ UNCHANGED <<slotWindow, lessonSlot, lessonWindow>>
  BY DEF StatusCommit
<1>3. /\ st \in ValidTransitions(lessonStatus[l])
      /\ s # NoSlot => req[r].columns = Differing(s, ns, nh)
  BY DEF StatusCommit, SInv, ReadsAreFresh
<1>4. /\ lessonStatus[l] \in Occupying
      /\ Releases(st) <=> st \notin Occupying
  BY <1>3 DEF ValidTransitions, Occupying, Releases
<1>5. CalendarDisjoint'
  BY <1>1, <1>2, <1>4, FewerLessons DEF SInv, Calendars, TypeOK
<1>6. CASE s = NoSlot
  <2>1. UNCHANGED <<slotStatus, slotHolder, slotGone, revived>>
    BY <1>1, <1>6, NullAssumption DEF SaveSlot, TypeOK
  <2>2. SlotsDisjoint'
    BY <1>2, <2>1, FewerSlots DEF SInv, Calendars, LiveSlot
  <2>3. OccupyingLessonHoldsSlot'
    BY <1>1, <1>2, <1>6, <2>1 DEF SInv, Calendars, OccupyingLessonHoldsSlot, Occupying, TypeOK
  <2>4. RowsConsistent'
    BY <2>1 DEF SInv, Calendars, RowsConsistent
  <2> QED
    BY <1>1, <1>5, <2>2, <2>3, <2>4, EndFresh DEF SInv, Calendars
<1>7. CASE s # NoSlot
  <2>1. slotHolder[s] = l /\ ~slotGone[s] /\ s \in Slots
    BY <1>1, <1>4, <1>7 DEF SInv, Calendars, OccupyingLessonHoldsSlot, TypeOK
  <2> HIDE DEF ns, nh
  <2>2. /\ slotStatus' = [slotStatus EXCEPT ![s] = ns]
        /\ slotHolder' = [slotHolder EXCEPT ![s] = nh]
        /\ UNCHANGED <<slotGone, revived>>
    BY <1>1, <1>3, <1>7, <2>1, FreshSave
  <2>3. LiveSlot(s)
    BY <1>1, <2>1, NullAssumption DEF LiveSlot, SInv, Calendars, RowsConsistent
  <2>4. /\ IF Releases(st) THEN ns = "open" /\ nh = NoLesson ELSE ns = "booked" /\ nh = l
        /\ l # NoLesson
    BY <1>1, NullAssumption DEF SlotStatusFor, HolderFor, ns, nh
  <2> HIDE DEF l, st, s
  <2>5. SlotsDisjoint'
    BY <1>1, <1>2, <2>1, <2>2, <2>3, FewerSlots DEF SInv, Calendars, TypeOK, LiveSlot
  <2>6. RowsConsistent'
    BY <1>1, <2>1, <2>2, <2>4 DEF SInv, Calendars, RowsConsistent, TypeOK
  <2>7. OccupyingLessonHoldsSlot'
    <3> SUFFICES ASSUME NEW m \in Lessons, lessonStatus'[m] \in Occupying,
                        lessonSlot[m] # NoSlot
                 PROVE  slotHolder'[lessonSlot[m]] = m /\ ~slotGone[lessonSlot[m]]
      BY <1>2, <2>2 DEF OccupyingLessonHoldsSlot, Occupying
    <3>1. CASE m = l
      BY <1>1, <1>2, <1>4, <2>1, <2>2, <2>4, <3>1 DEF TypeOK, s
    <3>2. CASE m # l
      <4>1. slotHolder[lessonSlot[m]] = m /\ ~slotGone[lessonSlot[m]]
        BY <1>1, <1>2, <3>2 DEF SInv, Calendars, OccupyingLessonHoldsSlot, TypeOK
      <4> QED
        BY <1>1, <2>1, <2>2, <3>2, <4>1 DEF TypeOK
    <3> QED
      BY <3>1, <3>2
  <2> QED
    BY <1>1, <1>5, <2>5, <2>6, <2>7, EndFresh DEF SInv, Calendars
<1> QED
  BY <1>6, <1>7

LEMMA RescheduleSerial ==
  ASSUME Alone, Alone', IInv, SInv, NEW r \in Requests, RescheduleCommit(r)
  PROVE  SInv'
<1> DEFINE l == req[r].lesson
           t == req[r].slot
           freed == {p \in PreviousSlot(r) : slotHolder[p] = l}
<1>1. /\ TypeOK /\ End(r) /\ req[r].op # "idle"
      /\ l \in Lessons /\ t \in Slots /\ NoLessonConflict(req[r].window, l)
  BY DEF IInv, Base, RequestRefs, RescheduleCommit, SInv, ReadsAreFresh
<1>2. slotStatus[t] = "open" /\ slotHolder[t] = NoLesson /\ ~slotGone[t]
  BY DEF RescheduleCommit, IInv, Locking, LocksProtect, Bookable
<1>3. /\ lessonSlot' = [lessonSlot EXCEPT ![l] = t]
      /\ lessonWindow' = [lessonWindow EXCEPT ![l] = req[r].window]
      /\ slotStatus' = [s \in Slots |-> IF s = t THEN "booked"
                                        ELSE IF s \in freed THEN "open" ELSE slotStatus[s]]
      /\ slotHolder' = [s \in Slots |-> IF s = t THEN l
                                        ELSE IF s \in freed THEN NoLesson ELSE slotHolder[s]]
      /\ UNCHANGED <<slotGone, slotWindow, revived, lessonStatus>>
  BY DEF RescheduleCommit
<1>4. l # NoLesson /\ \A s \in freed : slotHolder[s] = l /\ slotStatus[s] = "booked"
  BY <1>1, NullAssumption DEF PreviousSlot, SInv, Calendars, RowsConsistent
<1> HIDE DEF freed
<1>5. CalendarDisjoint'
  BY <1>1, <1>3, NewWindow DEF SInv, Calendars, TypeOK
<1>6. SlotsDisjoint'
  BY <1>1, <1>2, <1>3, <1>4, FewerSlots DEF SInv, Calendars, LiveSlot
<1> HIDE DEF l, t
<1>8. RowsConsistent'
  BY <1>3, <1>4 DEF SInv, Calendars, RowsConsistent
<1>7. OccupyingLessonHoldsSlot'
  <2> SUFFICES ASSUME NEW m \in Lessons, lessonStatus[m] \in Occupying, lessonSlot'[m] # NoSlot
               PROVE  slotHolder'[lessonSlot'[m]] = m /\ ~slotGone[lessonSlot'[m]]
    BY <1>3 DEF OccupyingLessonHoldsSlot, Occupying
  <2>1. CASE m = l
    BY <1>1, <1>2, <1>3, <2>1 DEF TypeOK
  <2>2. CASE m # l
    <3>1. lessonSlot'[m] = lessonSlot[m] /\ lessonSlot[m] \in Slots
      BY <1>1, <1>3, <2>2 DEF TypeOK
    <3>2. slotHolder[lessonSlot[m]] = m /\ ~slotGone[lessonSlot[m]]
      BY <3>1 DEF SInv, Calendars, OccupyingLessonHoldsSlot
    <3>3. lessonSlot[m] # t /\ lessonSlot[m] \notin freed
      BY <1>2, <1>4, <2>2, <3>2, NullAssumption
    <3> QED
      BY <1>3, <3>1, <3>2, <3>3
  <2> QED
    BY <2>1, <2>2
<1> QED
  BY <1>1, <1>5, <1>6, <1>7, <1>8, EndFresh DEF SInv, Calendars

LEMMA NextSerial ==
  ASSUME Alone, Alone', IInv, SInv, [Next]_vars
  PROVE  SInv'
<1>1. TypeOK
  BY DEF IInv, Base
<1>2. CASE UNCHANGED <<slotVars, lessonVars, req>>
  <2>1. Calendars'
    BY <1>2, RowsUnchanged DEF SInv
  <2>2. ReadsAreFresh'
    BY <1>2 DEF SInv, ReadsAreFresh, slotVars, lessonVars, NoSlotOverlap, NoLessonConflict,
                LiveSlot, Overlap, Occupying, ValidTransitions, Differing, SlotStatusFor,
                HolderFor, Releases
  <2> QED
    BY <2>1, <2>2 DEF SInv
<1>3. ASSUME NEW r \in Requests, Crash(r) PROVE SInv'
  BY <1>1, <1>3, RowsUnchanged, EndFresh DEF Crash, SInv
<1>4. ASSUME NEW r \in Requests, Finish(r) PROVE SInv'
  BY <1>4, ReadOnSerial, SlotStepsSerial, InsertSerial, StatusSerial, RescheduleSerial DEF Finish
<1> QED
  BY <1>2, <1>3, <1>4, StartSerial
     DEF Next, ApproveInstructor, SuspendInstructor, vars, slotVars, lessonVars

LEMMA SerialInvariance == Spec /\ []Alone => [](IInv /\ SInv)
<1>1. Init => SInv
  <2> SUFFICES ASSUME Init PROVE SInv
    OBVIOUS
  <2>1. \A r \in Requests : req[r].op = "idle"
    BY IdleType DEF Init
  <2>2. ReadsAreFresh
    BY <2>1 DEF ReadsAreFresh
  <2> QED
    BY <2>2 DEF Init, SInv, Calendars, CalendarDisjoint, SlotsDisjoint, OccupyingLessonHoldsSlot,
                RowsConsistent, LiveSlot, Occupying
<1>2. Alone /\ Alone' /\ IInv /\ SInv /\ [Next]_vars => IInv' /\ SInv'
  BY NextStep, NextSerial
<1> QED
  BY <1>1, <1>2, InitIInv, PTL DEF Spec

\* When requests do not overlap, wherever they stop, an instructor is never given
\* two lessons at a time,
THEOREM NoDoubleBooking == Spec /\ []Alone => []CalendarDisjoint
<1>1. SInv => CalendarDisjoint
  BY DEF SInv, Calendars
<1> QED
  BY <1>1, SerialInvariance, PTL

\* the slots an instructor offers do not overlap,
THEOREM NoOverlappingSlots == Spec /\ []Alone => []SlotsDisjoint
<1>1. SInv => SlotsDisjoint
  BY DEF SInv, Calendars
<1> QED
  BY <1>1, SerialInvariance, PTL

\* a lesson that takes up time on a slot holds it,
THEOREM LessonsHoldTheirSlots == Spec /\ []Alone => []OccupyingLessonHoldsSlot
<1>1. SInv => OccupyingLessonHoldsSlot
  BY DEF SInv, Calendars
<1> QED
  BY <1>1, SerialInvariance, PTL

\* A step gives a status to one lesson, and that is in the table of transitions.
LEMMA StepFollowsLifecycle ==
  ASSUME IInv, SInv, [Next]_vars
  PROVE  [Lifecycle!Next]_lessonStatus
<1>1. TypeOK
  BY DEF IInv, Base
<1>2. ASSUME NEW r \in Requests, CreateLessonCommit(r) \/ BookSlotCommit(r)
      PROVE  Lifecycle!Next
  <2>1. req[r].lesson \in Lessons /\ lessonStatus[req[r].lesson] = "none"
    BY <1>2 DEF CreateLessonCommit, BookSlotCommit, IInv, Base, RequestRefs
  <2>2. lessonStatus' = [lessonStatus EXCEPT ![req[r].lesson] = "requested"]
    BY <1>2 DEF CreateLessonCommit, BookSlotCommit, InsertLesson
  <2> QED
    BY <2>1, <2>2 DEF Lifecycle!Next, Lifecycle!Request
<1>3. ASSUME NEW r \in Requests, StatusCommit(r) PROVE Lifecycle!Next
  <2> DEFINE l == req[r].lesson
             st == req[r].next
  <2>1. /\ l \in Lessons /\ st \in ValidTransitions(lessonStatus[l])
        /\ lessonStatus' = [lessonStatus EXCEPT ![l] = st]
    BY <1>3 DEF StatusCommit, IInv, Base, RequestRefs, SInv, ReadsAreFresh
  <2> HIDE DEF l, st
  <2>2. \/ lessonStatus[l] = "requested" /\ st \in {"accepted", "declined"}
        \/ lessonStatus[l] \in {"requested", "accepted"} /\ st \in {"completed", "cancelled"}
    BY <2>1 DEF ValidTransitions
  <2> QED
    BY <2>1, <2>2 DEF Lifecycle!Next, Lifecycle!Answer, Lifecycle!Close
<1>4. ASSUME Next PROVE UNCHANGED lessonStatus \/
        \E r \in Requests : CreateLessonCommit(r) \/ BookSlotCommit(r) \/ StatusCommit(r)
  <2>1. ASSUME NEW r \in Requests, Start(r) PROVE UNCHANGED lessonStatus
    BY <2>1 DEF Start, CreateSlotCheck, CancelSlotRead, CreateLessonCheck, BookSlotLock,
                LearnerCancelCheck, UpdateStatusCheck, RescheduleLock, lessonVars
  <2> QED
    BY <1>4, <2>1 DEF Next, Finish, ApproveInstructor, SuspendInstructor, Crash, CreateSlotSave,
                      CancelSlotReload, CancelSlotSave, CancelSlotDelete, StatusLock, SyncReload,
                      RescheduleCommit, lessonVars
<1> QED
  BY <1>2, <1>3, <1>4 DEF vars

\* and lessons go through the statuses of LessonLifecycle.
THEOREM BookingImplementsLifecycle == Spec /\ []Alone => FollowsLifecycle
<1>1. Init => Lifecycle!Init
  BY DEF Init, Lifecycle!Init
<1>2. IInv /\ SInv /\ [Next]_vars => [Lifecycle!Next]_lessonStatus
  BY StepFollowsLifecycle
<1> QED
  BY <1>1, <1>2, SerialInvariance, PTL DEF Spec, FollowsLifecycle, Lifecycle!Spec
=============================================================================
