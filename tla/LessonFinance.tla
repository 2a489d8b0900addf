--------------------------- MODULE LessonFinance ---------------------------
(***************************************************************************)
(* The finance snapshot of one lesson and the dispute cases about it.      *)
(*                                                                         *)
(* InstructorsService derives the snapshot (computeLessonFinance) inside   *)
(* every transaction that creates, moves or decides the lesson, and in the *)
(* administrator's repair; DisputesService puts it on hold after it has    *)
(* saved a new case.  Repository.save writes what differs from a reload of *)
(* the row; its properties are about requests that take turns, whose       *)
(* reload finds what they read, so a save is one step that writes all of   *)
(* the row.  A lesson is a marketplace lesson: no code makes another one.  *)
(*                                                                         *)
(* A transaction is two steps: it locks the lesson and reads, then it      *)
(* commits.  Everything else is a step per statement, but for the fallback *)
(* of the repair, whose read and save are one.                             *)
(***************************************************************************)
EXTENDS Naturals

CONSTANTS Disputes,  \* ids of dispute cases about the lesson
          Requests,  \* HTTP requests that may be in flight together
          NoDispute

ASSUME DisputesAssumption == NoDispute \notin Disputes

VARIABLES
  lesson,   \* status of the lesson
  priced,   \* hourly rate and duration are known, so a gross amount exists
  snap,     \* the finance snapshot
  case,     \* the dispute cases
  unheld,   \* cases whose hold was given up or died with the process (auxiliary)
  req       \* what each request in flight has read and still means to do

vars == <<lesson, priced, snap, case, unheld, req>>

LessonStatus == {"none", "requested", "accepted", "declined", "completed", "cancelled"}
CaseStatus == {"none", "opened", "triage", "awaiting_evidence", "resolved", "closed"}
AdminStatus == {"triage", "awaiting_evidence", "resolved", "closed"}
Snapshot == [commission : {"estimated", "ready", "disputed", "voided"},
             payout : {"pending", "on_hold", "ready_for_manual_payout", "voided"},
             integrity : {"missing", "synced", "sync_failed"}]
\* resolved: resolvedAt is set, which nothing ever takes back.
Case == [status : CaseStatus, resolved : BOOLEAN]

\* "checked" has checked a transition, "tx" holds the row lock of the lesson.
Request == [op : {"idle", "checked", "tx", "repair", "hold", "backfill", "holdSave",
                  "admin", "evidence"},
            next : LessonStatus \cup CaseStatus,
            found : BOOLEAN,
            snap : Snapshot,
            dispute : Disputes \cup {NoDispute},
            case : Case]

Missing == [commission |-> "estimated", payout |-> "pending", integrity |-> "missing"]
NoCase == [status |-> "none", resolved |-> FALSE]
Idle == [op |-> "idle", next |-> "none", found |-> FALSE, snap |-> Missing,
         dispute |-> NoDispute, case |-> NoCase]

TypeOK ==
  /\ lesson \in LessonStatus
  /\ priced \in BOOLEAN
  /\ snap \in Snapshot
  /\ case \in [Disputes -> Case]
  /\ unheld \subseteq Disputes
  /\ req \in [Requests -> Request]
  /\ \A r \in Requests :
       /\ req[r].op \in {"checked", "tx"} => req[r].next \in LessonStatus
       /\ req[r].op = "admin" => req[r].next \in AdminStatus

\* A new lesson, or one from before there were snapshots.
Init ==
  /\ lesson \in LessonStatus
  /\ priced \in BOOLEAN
  /\ snap = Missing
  /\ case = [d \in Disputes |-> NoCase]
  /\ unheld = {}
  /\ req = [r \in Requests |-> Idle]

-----------------------------------------------------------------------------
(* computeLessonFinance *)

Voided(status) == status \in {"cancelled", "declined"}

Commission(status, held) ==
  IF Voided(status) THEN "voided"
  ELSE IF held THEN "disputed"
  ELSE IF priced THEN "ready" ELSE "estimated"

Payout(status, held) ==
  IF Voided(status) THEN "voided"
  ELSE IF held THEN "on_hold"
  ELSE IF status = "completed" /\ priced THEN "ready_for_manual_payout" ELSE "pending"

Computed(status, held) ==
  [commission |-> Commission(status, held), payout |-> Payout(status, held),
   integrity |-> "synced"]

\* (Mutant: a case somebody works on is not counted.)
Untouched == \E d \in Disputes : case[d].status = "opened"

\* openDisputeCount > 0.
Open(c) == c.status \notin {"none", "resolved", "closed"}
AnyOpen == \E d \in Disputes : Open(case[d])

Exists == snap.integrity # "missing"

-----------------------------------------------------------------------------
Begin(r, op, next, computed, d, c) ==
  /\ req[r].op = "idle"
  /\ req' = [req EXCEPT ![r] = [op |-> op, next |-> next, found |-> Exists,
                                snap |-> computed, dispute |-> d, case |-> c]]
End(r) == req' = [req EXCEPT ![r] = Idle]

\* hourlyRatePence or the duration becomes known.
Price ==
  /\ ~priced /\ priced' = TRUE
  /\ UNCHANGED <<lesson, snap, case, unheld, req>>

\* createLesson and createLessonFromAvailabilitySlot: nobody sees the row before.
CreateLesson ==
  /\ lesson = "none"
  /\ lesson' = "requested"
  /\ snap' = Computed("requested", FALSE)
  /\ UNCHANGED <<priced, case, unheld, req>>

-----------------------------------------------------------------------------
(* The transactions of updateLessonStatus, cancelLessonAsLearner and         *)
(* rescheduleLessonAsLearner.                                                *)

ValidTransitions(status) ==
  (IF status = "requested" THEN {"accepted", "declined"} ELSE {}) \cup
  (IF status \in {"requested", "accepted"} THEN {"completed", "cancelled"} ELSE {})

LessonLocked == \E q \in Requests : req[q].op = "tx"

\* The lesson is read without a lock and the transition is checked.
StatusCheck(r, next) ==
  /\ next \in ValidTransitions(lesson)
  /\ Begin(r, "checked", next, Missing, NoDispute, NoCase)
  /\ UNCHANGED <<lesson, priced, snap, case, unheld>>

\* The row is locked and updated; what the snapshot will be is read and computed.
StatusLock(r) ==
  /\ req[r].op = "checked" /\ ~LessonLocked
  /\ req' = [req EXCEPT ![r] = [op |-> "tx", next |-> req[r].next, found |-> Exists,
                                snap |-> Computed(req[r].next, AnyOpen),
                                dispute |-> NoDispute, case |-> NoCase]]
  /\ UNCHANGED <<lesson, priced, snap, case, unheld>>

\* Rescheduling keeps the status and refreshes the snapshot.
RescheduleLock(r) ==
  /\ lesson \in {"requested", "accepted"} /\ ~LessonLocked
  /\ Begin(r, "tx", lesson, Computed(lesson, AnyOpen), NoDispute, NoCase)
  /\ UNCHANGED <<lesson, priced, snap, case, unheld>>

\* An insert fails when somebody else has inserted the row: UNIQUE (lesson_id).
CanSave(r) == req[r].found \/ ~Exists

Commit(r) ==
  /\ req[r].op = "tx" /\ CanSave(r)
  /\ lesson' = req[r].next
  /\ snap' = req[r].snap
  /\ End(r)
  /\ UNCHANGED <<priced, case, unheld>>

-----------------------------------------------------------------------------
(* repairLessonFinanceSnapshots *)

RepairRead(r) ==
  /\ lesson # "none" /\ snap.integrity # "synced"
  /\ Begin(r, "repair", "none", Computed(lesson, AnyOpen), NoDispute, NoCase)
  /\ UNCHANGED <<lesson, priced, snap, case, unheld>>

RepairSave(r) ==
  /\ req[r].op = "repair" /\ CanSave(r)
  /\ snap' = req[r].snap
  /\ End(r)
  /\ UNCHANGED <<lesson, priced, case, unheld>>

\* (Mutant: the snapshot is marked with another status of the type.)
RepairLeavesStale(r) ==
  /\ req[r].op = "repair"
  /\ snap' = [snap EXCEPT !.integrity = "stale"]
  /\ End(r)
  /\ UNCHANGED <<lesson, priced, case, unheld>>

\* refreshLessonFinanceSnapshotWithFallback after a failure.
RepairFails(r) ==
  /\ req[r].op = "repair"
  /\ snap' = [snap EXCEPT !.integrity = "sync_failed"]
  /\ End(r)
  /\ UNCHANGED <<lesson, priced, case, unheld>>

-----------------------------------------------------------------------------
(* openCase and applyFinanceHoldForDispute *)

OpenCase(r, d) ==
  /\ lesson # "none" /\ case[d] = NoCase
  /\ case' = [case EXCEPT ![d] = [status |-> "opened", resolved |-> FALSE]]
  /\ Begin(r, "hold", "none", Missing, d, NoCase)
  /\ UNCHANGED <<lesson, priced, snap, unheld>>

\* What the hold will be based on: the snapshot, or a computed one to insert.
HoldOn(r, op, s) ==
  req' = [req EXCEPT ![r] = [op |-> op, next |-> "none", found |-> TRUE, snap |-> s,
                             dispute |-> req[r].dispute, case |-> NoCase]]

\* (Mutant: without a snapshot there is nothing to hold.)
HoldReadExisting(r) ==
  /\ req[r].op = "hold"
  /\ \/ Exists /\ HoldOn(r, "holdSave", snap)
     \/ ~Exists /\ End(r)
  /\ UNCHANGED <<lesson, priced, snap, case, unheld>>

HoldRead(r) ==
  /\ req[r].op = "hold"
  /\ \/ Exists /\ HoldOn(r, "holdSave", snap)
     \/ ~Exists /\ HoldOn(r, "backfill", Computed(lesson, TRUE))
  /\ UNCHANGED <<lesson, priced, snap, case, unheld>>

HoldBackfill(r) ==
  /\ req[r].op = "backfill" /\ ~Exists
  /\ snap' = req[r].snap
  /\ HoldOn(r, "holdSave", req[r].snap)
  /\ UNCHANGED <<lesson, priced, case, unheld>>

\* (Mutant: what is voided is held too.)
HeldAnyway(s) == [s EXCEPT !.payout = "on_hold", !.commission = "disputed"]

Held(s) ==
  [commission |-> IF s.commission = "voided" THEN "voided" ELSE "disputed",
   payout |-> IF s.payout = "voided" THEN "voided" ELSE "on_hold",
   integrity |-> s.integrity]

HoldSave(r) ==
  /\ req[r].op = "holdSave"
  /\ snap' = Held(req[r].snap)
  /\ End(r)
  /\ UNCHANGED <<lesson, priced, case, unheld>>

\* The hold failed (the case is opened all the same), or the process died.
GiveUp(r) ==
  /\ req[r].op # "idle"
  /\ unheld' = unheld \cup ({req[r].dispute} \cap Disputes)
  /\ End(r)
  /\ UNCHANGED <<lesson, priced, snap, case>>

-----------------------------------------------------------------------------
(* updateStatusAsAdmin and addEvidence: read the case, save all of it.       *)

AdminRead(r, d, status) ==
  /\ case[d] # NoCase /\ status \in AdminStatus
  /\ Begin(r, "admin", status, Missing, d, case[d])
  /\ UNCHANGED <<lesson, priced, snap, case, unheld>>

AdminSave(r) ==
  /\ req[r].op = "admin"
  /\ case' = [case EXCEPT ![req[r].dispute] =
                [status |-> req[r].next,
                 resolved |-> req[r].case.resolved \/ req[r].next \in {"resolved", "closed"}]]
  /\ End(r)
  /\ UNCHANGED <<lesson, priced, snap, unheld>>

EvidenceRead(r, d) ==
  /\ case[d] # NoCase
  /\ Begin(r, "evidence", "none", Missing, d, case[d])
  /\ UNCHANGED <<lesson, priced, snap, case, unheld>>

EvidenceSave(r) ==
  /\ req[r].op = "evidence"
  /\ case' = [case EXCEPT ![req[r].dispute] =
                [status |-> IF req[r].case.status = "awaiting_evidence" THEN "triage"
                            ELSE req[r].case.status,
                 resolved |-> req[r].case.resolved]]
  /\ End(r)
  /\ UNCHANGED <<lesson, priced, snap, unheld>>

-----------------------------------------------------------------------------
LessonStep(r) ==
  \/ \E next \in LessonStatus : StatusCheck(r, next)
  \/ StatusLock(r) \/ RescheduleLock(r) \/ Commit(r)
RepairStep(r) == RepairRead(r) \/ RepairSave(r) \/ RepairFails(r)
HoldStep(r) ==
  \/ \E d \in Disputes : OpenCase(r, d)
  \/ HoldRead(r) \/ HoldBackfill(r) \/ HoldSave(r)
CaseStep(r) ==
  \/ \E d \in Disputes, status \in AdminStatus : AdminRead(r, d, status)
  \/ \E d \in Disputes : EvidenceRead(r, d)
  \/ AdminSave(r) \/ EvidenceSave(r)

Next ==
  \/ Price \/ CreateLesson
  \/ \E r \in Requests :
       LessonStep(r) \/ RepairStep(r) \/ HoldStep(r) \/ CaseStep(r) \/ GiveUp(r)

Spec == Init /\ [][Next]_vars

-----------------------------------------------------------------------------
(* What holds when requests run one after the other, whatever fails.         *)

\* A snapshot that is not marked as failed agrees with the lesson: voided for
\* both parties exactly when the lesson is declined or cancelled, whoever holds
\* or repairs it, and to be paid out only for a completed lesson.
SnapshotFollowsLesson ==
  snap.integrity = "synced" =>
    /\ snap.payout = "voided" <=> Voided(lesson)
    /\ snap.commission = "voided" <=> Voided(lesson)
    /\ snap.payout = "ready_for_manual_payout" => lesson = "completed"

\* A payout on hold is released only when no case is open, or voided with the
\* lesson: resolving one of two cases is not enough, and neither is completing
\* or moving the lesson, or repairing its snapshot.
HoldIsKept ==
  [][snap.payout = "on_hold" /\ snap'.payout # "on_hold" =>
       (\A d \in Disputes : ~Open(case[d])) \/ Voided(lesson')]_vars

\* While a case that was never resolved is open, the payout is on hold, unless
\* the hold failed or the lesson is called off: also when the case was opened
\* before the lesson had a snapshot.
Quiet == \A r \in Requests : req[r].op = "idle"
HeldWhileOpen ==
  Quiet => \A d \in Disputes \ unheld :
    Open(case[d]) /\ ~case[d].resolved /\ ~Voided(lesson) => snap.payout = "on_hold"
=============================================================================
