--------------------------- MODULE LessonBooking ---------------------------
(***************************************************************************)
(* Lesson booking: the availability slots an instructor publishes, the     *)
(* lessons learners book on them, and the HTTP handlers of                 *)
(* InstructorsService that change both, several of them in flight at once. *)
(*                                                                         *)
(* A handler that reads outside a transaction and writes later is two      *)
(* actions, a ...Check and a ...Commit, with what it keeps from its read   *)
(* in req[r].  A database transaction is one step at its COMMIT, unless it *)
(* holds a row lock (SELECT ... FOR UPDATE) while it waits for a query on  *)
(* another connection, or writes a row it did not lock before it read it:  *)
(* then its first step takes the locks and its last one commits.  Crash    *)
(* ends a handler anywhere; a transaction rolls back.                      *)
(*                                                                         *)
(* Repository.save of a row that is not locked reads it again without a    *)
(* lock, then UPDATEs the columns in which the entity differs from what it *)
(* has just read, and none if it differs in none: the reload is a step of  *)
(* its own, and req[r].columns the columns it found to differ.             *)
(*                                                                         *)
(* A window is an instructor and the units of time it covers; a direct     *)
(* request without a date or a duration covers none.                       *)
(***************************************************************************)
EXTENDS Integers

CONSTANTS Instructors,   \* instructor profiles
          Time,          \* units of calendar time
          Windows,       \* the windows slots and direct requests may cover
          Slots,         \* ids of instructor_availability rows
          Lessons,       \* ids of lessons rows
          Requests,      \* HTTP requests that may be in flight together
          NoSlot, NoLesson, NoWindow

ASSUME WindowsAssumption == Windows \subseteq [by : Instructors, at : SUBSET Time]
ASSUME NullAssumption == NoSlot \notin Slots /\ NoLesson \notin Lessons

VARIABLES
  approved,      \* instructors approved and not suspended
  slotStatus,    \* "none" until the row is inserted
  slotHolder,    \* booked_lesson_id
  slotGone,      \* deleted_at is set
  slotWindow,    \* starts_at .. ends_at of an instructor
  lessonStatus,  \* "none" until the row is inserted
  lessonSlot,    \* availability_slot_id
  lessonWindow,  \* scheduled_at and duration_minutes
  req,           \* what each request in flight has read and still means to do
  revived        \* auxiliary: slots a save has brought back from a soft delete

slotVars == <<slotStatus, slotHolder, slotGone, slotWindow, revived>>
lessonVars == <<lessonStatus, lessonSlot, lessonWindow>>
vars == <<approved, slotStatus, slotHolder, slotGone, slotWindow,
          lessonStatus, lessonSlot, lessonWindow, req, revived>>

SlotStatus == {"none", "open", "booked", "cancelled"}
LessonStatus ==
  {"none", "requested", "accepted", "declined", "completed", "cancelled"}

Column == {"status", "holder", "gone"}

\* "book" holds the lock of its slot, "reload" and "save" that of their lesson,
\* "move" those of its lesson and slot; the others hold no lock.
Request == [op : {"idle", "publish", "dropRead", "dropSave", "dropDelete", "direct",
                  "status", "cancel", "reload", "save", "book", "move"},
            slot : Slots \cup {NoSlot},
            lesson : Lessons \cup {NoLesson},
            window : Windows \cup {NoWindow},
            next : LessonStatus,
            columns : SUBSET Column]

Idle == [op |-> "idle", slot |-> NoSlot, lesson |-> NoLesson,
         window |-> NoWindow, next |-> "none", columns |-> {}]

TypeOK ==
  /\ approved \subseteq Instructors
  /\ slotStatus \in [Slots -> SlotStatus]
  /\ slotHolder \in [Slots -> Lessons \cup {NoLesson}]
  /\ slotGone \in [Slots -> BOOLEAN]
  /\ slotWindow \in [Slots -> Windows \cup {NoWindow}]
  /\ lessonStatus \in [Lessons -> LessonStatus]
  /\ lessonSlot \in [Lessons -> Slots \cup {NoSlot}]
  /\ lessonWindow \in [Lessons -> Windows \cup {NoWindow}]
  /\ req \in [Requests -> Request]
  /\ revived \subseteq Slots

Init ==
  /\ approved = {}
  /\ slotStatus = [s \in Slots |-> "none"]
  /\ slotHolder = [s \in Slots |-> NoLesson]
  /\ slotGone = [s \in Slots |-> FALSE]
  /\ slotWindow = [s \in Slots |-> NoWindow]
  /\ lessonStatus = [l \in Lessons |-> "none"]
  /\ lessonSlot = [l \in Lessons |-> NoSlot]
  /\ lessonWindow = [l \in Lessons |-> NoWindow]
  /\ req = [r \in Requests |-> Idle]
  /\ revived = {}

-----------------------------------------------------------------------------
(* Reads the handlers share. *)

Overlap(v, w) == v.by = w.by /\ v.at \cap w.at # {}

\* (Mutant: booked slots are not looked at.)
OpenSlot(s) == slotStatus[s] = "open" /\ ~slotGone[s]

\* ensureNoAvailabilityOverlap: no live open or booked slot meets the window.
LiveSlot(s) == slotStatus[s] \in {"open", "booked"} /\ ~slotGone[s]
NoSlotOverlap(w) ==
  \A s \in Slots : LiveSlot(s) => ~Overlap(slotWindow[s], w)

\* (Mutant: requests the instructor has not answered are not looked at.)
AnsweredStatus == {"accepted", "completed"}

\* ensureNoLessonConflicts, ignoring lesson l (NoLesson to ignore none).
Occupying == {"requested", "accepted", "completed"}
NoLessonConflict(w, l) ==
  \A m \in Lessons \ {l} : lessonStatus[m] \in Occupying
                             => ~Overlap(lessonWindow[m], w)

\* (Mutant: a cancelled lesson may still be marked completed.)
LaxTransitions(status) ==
  IF status \in {"requested", "accepted", "cancelled"} THEN {"completed", "cancelled"} ELSE {}

\* The table validTransitions; no handler creates a "planned" lesson.
ValidTransitions(status) ==
  (IF status = "requested" THEN {"accepted", "declined"} ELSE {}) \cup
  (IF status \in {"requested", "accepted"} THEN {"completed", "cancelled"} ELSE {})

\* (Mutant: any lesson may be cancelled or rescheduled by its learner.)
LearnerOwns(l) == lessonStatus[l] # "none"
LearnerCanManage(l) == lessonStatus[l] \in {"requested", "accepted"}

Bookable(s) == slotStatus[s] = "open" /\ slotHolder[s] = NoLesson /\ ~slotGone[s]

\* (Mutants: rescheduling does not lock the target, booking does not lock its
\* slot; the status handlers lock the lesson on a second connection and wait for
\* themselves.)
SlotLockedByMove(s) == \E q \in Requests : req[q].op = "move" /\ req[q].slot = s
SlotLockedByBooking(s) == \E q \in Requests : req[q].op = "book" /\ req[q].slot = s
LessonLockedTwice(l) ==
  \E q \in Requests : /\ req[q].op \in {"move", "reload", "save", "status", "cancel"}
                      /\ req[q].lesson = l

\* The row locks a transaction holds for longer than a step.
SlotLocked(s) == \E q \in Requests : req[q].op \in {"book", "move"} /\ req[q].slot = s
LessonLocked(l) ==
  \E q \in Requests : req[q].op \in {"move", "reload", "save"} /\ req[q].lesson = l

Begin(r, op, s, l, w, next) ==
  /\ req[r].op = "idle"
  /\ req' = [req EXCEPT ![r] = [op |-> op, slot |-> s, lesson |-> l,
                                window |-> w, next |-> next, columns |-> {}]]
End(r) == req' = [req EXCEPT ![r] = Idle]

\* The id a request will insert its row under; ids are the bound of the model,
\* and taking one when the handler starts keeps it from running out of them.
FreshSlot(s) ==
  slotStatus[s] = "none" /\ \A q \in Requests : req[q].op = "publish" => req[q].slot # s
FreshLesson(l) ==
  lessonStatus[l] = "none" /\ \A q \in Requests : req[q].lesson # l

-----------------------------------------------------------------------------
(* Administration of instructors. *)

ApproveInstructor(i) ==
  /\ approved' = approved \cup {i}
  /\ UNCHANGED <<slotVars, lessonVars, req>>

\* suspendInstructor, and updateProfile with a new ADI number.
SuspendInstructor(i) ==
  /\ approved' = approved \ {i}
  /\ UNCHANGED <<slotVars, lessonVars, req>>

-----------------------------------------------------------------------------
(* Publishing and withdrawing slots. *)

\* createAvailabilitySlot: the window is valid and meets no other slot ...
CreateSlotCheck(r, s, w) ==
  /\ FreshSlot(s)
  /\ w.at # {}
  /\ NoSlotOverlap(w)
  /\ Begin(r, "publish", s, NoLesson, w, "none")
  /\ UNCHANGED <<approved, slotVars, lessonVars>>

\* ... and the row is inserted, whatever was inserted since.
CreateSlotSave(r) ==
  LET s == req[r].slot IN
  /\ req[r].op = "publish"
  /\ slotStatus' = [slotStatus EXCEPT ![s] = "open"]
  /\ slotWindow' = [slotWindow EXCEPT ![s] = req[r].window]
  /\ End(r)
  /\ UNCHANGED <<approved, slotHolder, slotGone, revived, lessonVars>>

\* Repository.save of a live slot entity whose status and holder were set: the
\* columns its reload finds to differ ...
Differing(s, status, holder) ==
  {c \in Column : \/ c = "status" /\ slotStatus[s] # status
                  \/ c = "holder" /\ slotHolder[s] # holder
                  \/ c = "gone" /\ slotGone[s]}

\* ... and the UPDATE of those columns, which waits for the row lock.
SaveSlot(s, columns, status, holder) ==
  /\ columns # {} => ~SlotLocked(s)
  /\ slotStatus' = [t \in Slots |-> IF t = s /\ "status" \in columns
                                    THEN status ELSE slotStatus[t]]
  /\ slotHolder' = [t \in Slots |-> IF t = s /\ "holder" \in columns
                                    THEN holder ELSE slotHolder[t]]
  /\ slotGone' = [t \in Slots |-> slotGone[t] /\ ~(t = s /\ "gone" \in columns)]
  /\ revived' = revived \cup {t \in Slots : t = s /\ "gone" \in columns}

\* (Mutant: a booked slot may be withdrawn.)
ExistingSlot(s) == slotStatus[s] # "none" /\ ~slotGone[s]

\* "Booked slot cannot be cancelled".
Droppable(s) == slotStatus[s] # "none" /\ ~slotGone[s] /\ slotHolder[s] = NoLesson

\* cancelAvailabilitySlot: the row is read without a lock and is not booked ...
CancelSlotRead(r, s) ==
  /\ Droppable(s)
  /\ Begin(r, "dropRead", s, NoLesson, NoWindow, "none")
  /\ UNCHANGED <<approved, slotVars, lessonVars>>

\* ... save() reads it again, still without a lock ...
CancelSlotReload(r) ==
  /\ req[r].op = "dropRead"
  /\ req' = [req EXCEPT ![r].op = "dropSave",
                        ![r].columns = Differing(req[r].slot, "cancelled", NoLesson)]
  /\ UNCHANGED <<approved, slotVars, lessonVars>>

\* ... and sets status "cancelled" and whatever else has changed since the row
\* was read: a booking that commits before the reload loses its slot, one that
\* commits after it keeps booked_lesson_id on a cancelled slot ...
CancelSlotSave(r) ==
  /\ req[r].op = "dropSave"
  /\ SaveSlot(req[r].slot, req[r].columns, "cancelled", NoLesson)
  /\ req' = [req EXCEPT ![r].op = "dropDelete", ![r].columns = {}]
  /\ UNCHANGED <<approved, slotWindow, lessonVars>>

\* ... and softDelete() sets deleted_at in a statement of its own.
CancelSlotDelete(r) ==
  LET s == req[r].slot IN
  /\ req[r].op = "dropDelete"
  /\ ~SlotLocked(s)
  /\ slotGone' = [slotGone EXCEPT ![s] = TRUE]
  /\ revived' = revived \ {s}
  /\ End(r)
  /\ UNCHANGED <<approved, slotStatus, slotHolder, slotWindow, lessonVars>>

-----------------------------------------------------------------------------
(* Requesting lessons. *)

\* (Mutant: the status column keeps its default.)
InsertPlannedLesson(l, s, w) ==
  /\ lessonStatus' = [lessonStatus EXCEPT ![l] = "planned"]
  /\ lessonSlot' = [lessonSlot EXCEPT ![l] = s]
  /\ lessonWindow' = [lessonWindow EXCEPT ![l] = w]

InsertLesson(l, s, w) ==
  /\ lessonStatus' = [lessonStatus EXCEPT ![l] = "requested"]
  /\ lessonSlot' = [lessonSlot EXCEPT ![l] = s]
  /\ lessonWindow' = [lessonWindow EXCEPT ![l] = w]

TakeSlot(s, l) ==
  /\ slotStatus' = [slotStatus EXCEPT ![s] = "booked"]
  /\ slotHolder' = [slotHolder EXCEPT ![s] = l]

\* createLesson without a slot: the checks ...
CreateLessonCheck(r, l, w) ==
  /\ FreshLesson(l)
  /\ w.by \in approved
  /\ NoLessonConflict(w, NoLesson)
  /\ Begin(r, "direct", NoSlot, l, w, "none")
  /\ UNCHANGED <<approved, slotVars, lessonVars>>

\* ... and the transaction that inserts the lesson.
CreateLessonCommit(r) ==
  /\ req[r].op = "direct"
  /\ InsertLesson(req[r].lesson, NoSlot, req[r].window)
  /\ End(r)
  /\ UNCHANGED <<approved, slotVars>>

\* createLessonFromAvailabilitySlot: locks and checks the slot, looks for
\* conflicting lessons on another connection ...
BookSlotLock(r, s, l) ==
  /\ FreshLesson(l)
  /\ ~SlotLocked(s)
  /\ Bookable(s)
  /\ slotWindow[s].by \in approved
  /\ NoLessonConflict(slotWindow[s], NoLesson)
  /\ Begin(r, "book", s, l, slotWindow[s], "none")
  /\ UNCHANGED <<approved, slotVars, lessonVars>>

\* ... and commits the lesson with its slot.
BookSlotCommit(r) ==
  LET s == req[r].slot
      l == req[r].lesson IN
  /\ req[r].op = "book"
  /\ InsertLesson(l, s, req[r].window)
  /\ TakeSlot(s, l)
  /\ End(r)
  /\ UNCHANGED <<approved, slotGone, slotWindow, revived>>

-----------------------------------------------------------------------------
(* Changing the status of a lesson. *)

\* updateLessonStatus reads the lesson without a lock and checks the transition.
UpdateStatusCheck(r, l, next) ==
  /\ next \in ValidTransitions(lessonStatus[l])
  /\ next = "accepted" => NoLessonConflict(lessonWindow[l], l)
  /\ Begin(r, "status", NoSlot, l, NoWindow, next)
  /\ UNCHANGED <<approved, slotVars, lessonVars>>

\* cancelLessonAsLearner reads the lesson without a lock; inside 24 hours the
\* learner has to send the emergency flag, which a learner may always do.
LearnerCancelCheck(r, l) ==
  /\ LearnerCanManage(l)
  /\ Begin(r, "cancel", NoSlot, l, NoWindow, "cancelled")
  /\ UNCHANGED <<approved, slotVars, lessonVars>>

\* (Mutant: declining does not give the slot back.)
ReleasesOnCancel(st) == st = "cancelled"

\* What the slot of a lesson is saved with when the lesson gets status st.
Releases(st) == st \in {"declined", "cancelled"}
SlotStatusFor(st) == IF Releases(st) THEN "open" ELSE "booked"
HolderFor(l, st) == IF Releases(st) THEN NoLesson ELSE l

\* The transaction of both locks the lesson and takes the status it was asked
\* for without looking at the one it finds.  syncAvailabilitySlotForLessonStatus
\* then reads the slot, if the lesson has one that is not deleted, without a
\* lock ...
StatusLock(r) ==
  LET l == req[r].lesson
      found == lessonSlot[l] # NoSlot /\ ~slotGone[lessonSlot[l]] IN
  /\ req[r].op \in {"status", "cancel"}
  /\ ~LessonLocked(l)
  /\ req' = [req EXCEPT ![r].op = IF found THEN "reload" ELSE "save"]
  /\ UNCHANGED <<approved, slotVars, lessonVars>>

\* ... and saves it: reload ...
SyncReload(r) ==
  LET l == req[r].lesson
      st == req[r].next IN
  /\ req[r].op = "reload"
  /\ req' = [req EXCEPT ![r].op = "save",
                        ![r].columns = Differing(lessonSlot[l], SlotStatusFor(st),
                                                 HolderFor(l, st))]
  /\ UNCHANGED <<approved, slotVars, lessonVars>>

\* ... UPDATE, and COMMIT of lesson and slot.
StatusCommit(r) ==
  LET l == req[r].lesson
      st == req[r].next IN
  /\ req[r].op = "save"
  /\ lessonStatus' = [lessonStatus EXCEPT ![l] = st]
  /\ SaveSlot(lessonSlot[l], req[r].columns, SlotStatusFor(st), HolderFor(l, st))
  /\ End(r)
  /\ UNCHANGED <<approved, slotWindow, lessonSlot, lessonWindow>>

-----------------------------------------------------------------------------
(* Rescheduling. *)

\* rescheduleLessonAsLearner locks the lesson and the target slot, checks both,
\* and looks for conflicting lessons on another connection ...
RescheduleLock(r, l, t) ==
  /\ ~LessonLocked(l) /\ ~SlotLocked(t)
  /\ LearnerCanManage(l)
  /\ Bookable(t)
  /\ slotWindow[t].by = lessonWindow[l].by
  /\ NoLessonConflict(slotWindow[t], l)
  /\ Begin(r, "move", t, l, slotWindow[t], "none")
  /\ UNCHANGED <<approved, slotVars, lessonVars>>

\* ... then moves the lesson, takes the target and, under a third lock, frees
\* the previous slot if this lesson still holds it.
NoPreviousSlot(r) == {}  \* (Mutant: the previous slot is forgotten.)
PreviousSlot(r) ==
  {p \in Slots : p = lessonSlot[req[r].lesson] /\ p # req[r].slot /\ ~slotGone[p]}
RescheduleCommit(r) ==
  LET l == req[r].lesson
      t == req[r].slot
      freed == {p \in PreviousSlot(r) : slotHolder[p] = l} IN
  /\ req[r].op = "move"
  /\ \A p \in PreviousSlot(r) : ~SlotLocked(p)
  /\ lessonSlot' = [lessonSlot EXCEPT ![l] = t]
  /\ lessonWindow' = [lessonWindow EXCEPT ![l] = req[r].window]
  /\ slotStatus' = [s \in Slots |-> IF s = t THEN "booked"
                                    ELSE IF s \in freed THEN "open"
                                    ELSE slotStatus[s]]
  /\ slotHolder' = [s \in Slots |-> IF s = t THEN l
                                    ELSE IF s \in freed THEN NoLesson
                                    ELSE slotHolder[s]]
  /\ End(r)
  /\ UNCHANGED <<approved, slotGone, slotWindow, revived, lessonStatus>>

-----------------------------------------------------------------------------
\* The process dies, the client goes away, a statement times out: the open
\* transaction rolls back and its locks are released, saved rows stay.
Crash(r) ==
  /\ req[r].op # "idle"
  /\ End(r)
  /\ UNCHANGED <<approved, slotVars, lessonVars>>

Finish(r) ==
  \/ CreateSlotSave(r)
  \/ CancelSlotReload(r)
  \/ CancelSlotSave(r)
  \/ CancelSlotDelete(r)
  \/ CreateLessonCommit(r)
  \/ BookSlotCommit(r)
  \/ StatusLock(r)
  \/ SyncReload(r)
  \/ StatusCommit(r)
  \/ RescheduleCommit(r)

Start(r) ==
  \/ \E s \in Slots, w \in Windows : CreateSlotCheck(r, s, w)
  \/ \E s \in Slots : CancelSlotRead(r, s)
  \/ \E l \in Lessons, w \in Windows : CreateLessonCheck(r, l, w)
  \/ \E s \in Slots, l \in Lessons : BookSlotLock(r, s, l)
  \/ \E l \in Lessons : LearnerCancelCheck(r, l)
  \/ \E l \in Lessons, next \in LessonStatus : UpdateStatusCheck(r, l, next)
  \/ \E l \in Lessons, t \in Slots : RescheduleLock(r, l, t)

Next ==
  \/ \E i \in Instructors : ApproveInstructor(i) \/ SuspendInstructor(i)
  \/ \E r \in Requests : Start(r) \/ Finish(r) \/ Crash(r)

Spec == Init /\ [][Next]_vars

-----------------------------------------------------------------------------
(* What holds however the requests interleave. *)

\* A live slot that names a lesson is the slot that lesson names, so a lesson
\* never holds two live slots, in particular after a reschedule; a slot that a
\* stale save brought back from its soft delete is excepted.
HolderPointsBack ==
  \A s \in Slots \ revived : ~slotGone[s] /\ slotHolder[s] # NoLesson
                               => lessonSlot[slotHolder[s]] = s

\* A live slot is never kept booked by a lesson that was declined or cancelled:
\* cancelling always gives the time back.  The same slots are excepted.
HolderIsLive ==
  \A s \in Slots \ revived : ~slotGone[s] /\ slotHolder[s] # NoLesson
                               => lessonStatus[slotHolder[s]] \in Occupying

\* Two transactions never hold the lock of one slot or one lesson, and what a
\* transaction checked under its locks is still so when it commits, though the
\* saves of other handlers read the row without its lock.
LocksProtect ==
  \A r \in Requests :
    /\ req[r].op \in {"book", "move"} =>
         /\ Bookable(req[r].slot)
         /\ \A q \in Requests \ {r} : req[q].op \in {"book", "move"}
                                        => req[q].slot # req[r].slot
    /\ req[r].op = "move" => LearnerCanManage(req[r].lesson)
    /\ req[r].op \in {"move", "reload", "save"} =>
         \A q \in Requests \ {r} : req[q].op \in {"move", "reload", "save"}
                                     => req[q].lesson # req[r].lesson

\* A reschedule never waits for the lock of its previous slot, so the two slot
\* locks it takes in no fixed order cannot close a cycle of waiting
\* transactions: whoever else wants that slot meets the lesson being moved in
\* the conflict check first.  Slots brought back from a soft delete are excepted.
NeverWaitsForPreviousSlot ==
  \A r \in Requests : req[r].op = "move" =>
    \A p \in PreviousSlot(r) \ revived : ~SlotLocked(p)

\* Booking and rescheduling only ever take a slot nobody holds and nobody has
\* withdrawn: when the lesson turns to it the row is still as it was checked
\* ("This time slot is no longer available"), whatever stale saves are under way.
TakesOnlyFreeSlots ==
  [][\A l \in Lessons : lessonSlot'[l] # lessonSlot[l] => Bookable(lessonSlot'[l])]_vars

\* A lesson is never rescheduled in a terminal state, and rescheduling does not
\* change its status, whatever other requests for the lesson are in flight.
ReschedulesOnlyManageable ==
  [][\A l \in Lessons :
       lessonStatus[l] # "none" /\ lessonWindow'[l] # lessonWindow[l]
         => LearnerCanManage(l) /\ lessonStatus'[l] = lessonStatus[l]]_vars

-----------------------------------------------------------------------------
(* What holds when requests run one after the other. *)

\* The lessons of an instructor never overlap in time.
CalendarDisjoint ==
  \A l, m \in Lessons :
    l # m /\ lessonStatus[l] \in Occupying /\ lessonStatus[m] \in Occupying
      => ~Overlap(lessonWindow[l], lessonWindow[m])

\* The live slots of an instructor never overlap in time.
SlotsDisjoint ==
  \A s, t \in Slots :
    s # t /\ LiveSlot(s) /\ LiveSlot(t) => ~Overlap(slotWindow[s], slotWindow[t])

\* A lesson that takes up time on a slot holds that slot, and the slot is live.
OccupyingLessonHoldsSlot ==
  \A l \in Lessons : lessonStatus[l] \in Occupying /\ lessonSlot[l] # NoSlot
                       => slotHolder[lessonSlot[l]] = l /\ ~slotGone[lessonSlot[l]]

\* The statuses a lesson goes through are those of the transition table.
Lifecycle == INSTANCE LessonLifecycle WITH status <- lessonStatus
FollowsLifecycle == Lifecycle!Spec

-----------------------------------------------------------------------------
(* What the code says and concurrent requests refute. *)

\* "Cannot change lesson from ... to ...": a completed, declined or cancelled
\* lesson keeps its status.
TerminalIsFinal ==
  [][\A l \in Lessons : lessonStatus[l] \in {"declined", "completed", "cancelled"}
                          => lessonStatus'[l] = lessonStatus[l]]_vars

-----------------------------------------------------------------------------
(* Liveness.  A handler that was started keeps running: its statements are    *)
(* executed, row locks are granted in the order of the queue (so a request    *)
(* that waits is not overtaken for ever).                                     *)

Fairness == \A r \in Requests : SF_vars(Finish(r))
FairSpec == Spec /\ Fairness

\* Every request ends, though requests wait for each other's row locks.
RequestsEnd == \A r \in Requests : req[r].op # "idle" ~> req[r].op = "idle"
=============================================================================
