------------------------ MODULE LessonFinanceProofs ------------------------
(***************************************************************************)
(* Proofs about LessonFinance for any dispute cases and requests: types    *)
(* whatever interleaves, and while no two requests are in flight that the  *)
(* snapshot follows the lesson and that a hold is made and kept.           *)
(***************************************************************************)
EXTENDS LessonFinance, TLAPS

\* What SnapshotFollowsLesson asks of the snapshot s of a lesson in a status.
Agrees(s, status) ==
  s.integrity = "synced" =>
    /\ s.payout = "voided" <=> Voided(status)
    /\ s.commission = "voided" <=> Voided(status)
    /\ s.payout = "ready_for_manual_payout" => status = "completed"
KeepsHold(s, status) == AnyOpen /\ ~Voided(status) => s.payout = "on_hold"

\* What a request is about to save is still right when it saves it.
ReadsAreFresh ==
  \A r \in Requests :
    /\ req[r].op = "tx" => Agrees(req[r].snap, req[r].next) /\ KeepsHold(req[r].snap, req[r].next)
    /\ req[r].op = "repair" => Agrees(req[r].snap, lesson) /\ KeepsHold(req[r].snap, lesson)
    /\ req[r].op = "backfill" => Agrees(req[r].snap, lesson)
    /\ req[r].op = "holdSave" => req[r].snap = snap /\ Exists
    /\ req[r].op \in {"tx", "repair", "backfill"} => req[r].snap.integrity = "synced"
    /\ req[r].op \in {"checked", "tx"} => req[r].next # "none"

\* Nothing happens to a lesson that does not exist, and no snapshot is no hold.
NothingYet ==
  /\ lesson = "none" => /\ \A r \in Requests : req[r].op = "idle"
                        /\ \A d \in Disputes : case[d] = NoCase
  /\ ~Exists => snap.payout = "pending"

IInv == TypeOK /\ SnapshotFollowsLesson /\ ReadsAreFresh /\ NothingYet

-----------------------------------------------------------------------------
LEMMA IdleType == Idle \in Request /\ Idle.op = "idle"
<1>1. Missing \in Snapshot /\ NoCase \in Case
  BY DEF Missing, NoCase, Snapshot, Case, CaseStatus
<1> QED
  BY <1>1 DEF Idle, Request, LessonStatus

LEMMA ComputedIsRight ==
  ASSUME TypeOK, NEW status \in LessonStatus, NEW held \in BOOLEAN
  PROVE  /\ Computed(status, held) \in Snapshot
         /\ Computed(status, held).integrity = "synced"
         /\ Agrees(Computed(status, held), status)
         /\ held /\ ~Voided(status) => Computed(status, held).payout = "on_hold"
<1>1. Commission(status, held) \in {"estimated", "ready", "disputed", "voided"}
  BY DEF Commission
<1>2. Payout(status, held) \in {"pending", "on_hold", "ready_for_manual_payout", "voided"}
  BY DEF Payout
<1>3. Computed(status, held) \in Snapshot
  BY <1>1, <1>2 DEF Computed, Snapshot
<1>4. /\ Computed(status, held).integrity = "synced"
      /\ Computed(status, held).commission = Commission(status, held)
      /\ Computed(status, held).payout = Payout(status, held)
  BY DEF Computed
<1>5. /\ Payout(status, held) = "voided" <=> Voided(status)
      /\ Payout(status, held) = "ready_for_manual_payout" => status = "completed"
      /\ held /\ ~Voided(status) => Payout(status, held) = "on_hold"
  BY DEF Payout
<1>6. Commission(status, held) = "voided" <=> Voided(status)
  BY DEF Commission
<1> QED
  BY <1>3, <1>4, <1>5, <1>6 DEF Agrees

LEMMA HeldIsRight ==
  ASSUME NEW s \in Snapshot
  PROVE  /\ Held(s) \in Snapshot /\ Held(s).integrity = s.integrity
         /\ Held(s).payout = "voided" <=> s.payout = "voided"
         /\ Held(s).commission = "voided" <=> s.commission = "voided"
         /\ Held(s).payout \in {"voided", "on_hold"}
BY DEF Held, Snapshot

LEMMA AnyOpenType == AnyOpen \in BOOLEAN
BY DEF AnyOpen

-----------------------------------------------------------------------------
(* Types, and what a step does to the request that takes it.  *)

\* req' is well typed, and only request r has changed.
Moved(r) ==
  /\ req' \in [Requests -> Request]
  /\ req'[r].op \in {"checked", "tx"} => req'[r].next \in LessonStatus
  /\ req'[r].op = "admin" => req'[r].next \in AdminStatus
  /\ \A q \in Requests \ {r} : req'[q] = req[q]

LEMMA BeginMoves ==
  ASSUME TypeOK, NEW r \in Requests,
         NEW op \in {"checked", "tx", "repair", "hold", "admin", "evidence"},
         NEW next \in LessonStatus \cup CaseStatus, NEW s \in Snapshot,
         NEW d \in Disputes \cup {NoDispute}, NEW c \in Case,
         op \in {"checked", "tx"} => next \in LessonStatus,
         op = "admin" => next \in AdminStatus,
         Begin(r, op, next, s, d, c)
  PROVE  Moved(r) /\ req'[r].op = op /\ req'[r].snap = s /\ req'[r].next = next
<1>1. Exists \in BOOLEAN
  BY DEF Exists
<1>2. [op |-> op, next |-> next, found |-> Exists, snap |-> s, dispute |-> d, case |-> c]
        \in Request
  BY <1>1 DEF Request
<1> QED
  BY <1>2 DEF Begin, TypeOK, Moved

LEMMA EndMoves ==
  ASSUME TypeOK, NEW r \in Requests, End(r)
  PROVE  Moved(r) /\ req'[r].op = "idle"
BY IdleType DEF End, TypeOK, Moved

LEMMA HoldOnMoves ==
  ASSUME TypeOK, NEW r \in Requests, NEW op \in {"backfill", "holdSave"}, NEW s \in Snapshot,
         HoldOn(r, op, s)
  PROVE  Moved(r) /\ req'[r].op = op /\ req'[r].snap = s
<1>1. req[r].dispute \in Disputes \cup {NoDispute} /\ NoCase \in Case
  BY DEF TypeOK, Request, NoCase, Case, CaseStatus
<1>2. [op |-> op, next |-> "none", found |-> TRUE, snap |-> s,
       dispute |-> req[r].dispute, case |-> NoCase] \in Request
  BY <1>1 DEF Request, LessonStatus
<1> QED
  BY <1>2 DEF HoldOn, TypeOK, Moved

\* The types of what a request in flight carries.
LEMMA Carried ==
  ASSUME TypeOK, NEW r \in Requests
  PROVE  /\ req[r] \in Request /\ req[r].snap \in Snapshot /\ req[r].case \in Case
         /\ req[r].next \in LessonStatus \cup CaseStatus
         /\ req[r].dispute \in Disputes \cup {NoDispute}
         /\ Missing \in Snapshot /\ NoCase \in Case
         /\ "none" \in LessonStatus /\ AdminStatus \subseteq CaseStatus
BY DEF TypeOK, Request, Missing, NoCase, Snapshot, Case, CaseStatus, LessonStatus, AdminStatus

\* Only the request that takes a step and what its row is about change.
LEMMA TypeFromMove ==
  ASSUME TypeOK, NEW r \in Requests, Moved(r), lesson' \in LessonStatus, priced' \in BOOLEAN,
         snap' \in Snapshot, case' \in [Disputes -> Case], unheld' \subseteq Disputes
  PROVE  TypeOK'
BY DEF TypeOK, Moved

LEMMA LessonStepMoves ==
  ASSUME TypeOK, NEW r \in Requests, LessonStep(r) \/ RepairStep(r)
  PROVE  Moved(r) /\ TypeOK'
<1>1. AnyOpen \in BOOLEAN /\ lesson \in LessonStatus
  BY AnyOpenType DEF TypeOK
<1>2. ASSUME NEW next \in LessonStatus, StatusCheck(r, next) PROVE Moved(r) /\ TypeOK'
  <2>1. Moved(r)
    BY <1>2, Carried, BeginMoves DEF StatusCheck
  <2> QED
    BY <1>2, <2>1, TypeFromMove DEF StatusCheck, TypeOK
<1>3. CASE StatusLock(r)
  <2>1. req[r].next \in LessonStatus /\ Exists \in BOOLEAN
    BY <1>3 DEF StatusLock, TypeOK, Exists
  <2>2. Computed(req[r].next, AnyOpen) \in Snapshot
    BY <1>1, <2>1, ComputedIsRight
  <2>3. [op |-> "tx", next |-> req[r].next, found |-> Exists,
         snap |-> Computed(req[r].next, AnyOpen),
         dispute |-> NoDispute, case |-> NoCase] \in Request
    BY <2>1, <2>2, Carried DEF Request
  <2>4. Moved(r)
    BY <1>3, <2>1, <2>3 DEF StatusLock, TypeOK, Moved
  <2> QED
    BY <1>3, <2>4, TypeFromMove DEF StatusLock, TypeOK
<1>4. CASE RescheduleLock(r) \/ RepairRead(r)
  <2>1. Computed(lesson, AnyOpen) \in Snapshot
    BY <1>1, ComputedIsRight
  <2>2. Moved(r)
    BY <1>1, <1>4, <2>1, Carried, BeginMoves DEF RescheduleLock, RepairRead
  <2> QED
    BY <1>4, <2>2, TypeFromMove DEF RescheduleLock, RepairRead, TypeOK
<1>5. CASE RepairSave(r) \/ RepairFails(r)
  <2>1. Moved(r)
    BY <1>5, EndMoves DEF RepairSave, RepairFails
  <2>2. snap' \in Snapshot
    BY <1>5, Carried DEF RepairSave, RepairFails, Snapshot, TypeOK
  <2> QED
    BY <1>5, <2>1, <2>2, TypeFromMove DEF RepairSave, RepairFails, TypeOK
<1>6. CASE Commit(r)
  <2>1. Moved(r)
    BY <1>6, EndMoves DEF Commit
  <2>2. req[r].next \in LessonStatus
    BY <1>6 DEF Commit, TypeOK
  <2> QED
    BY <1>6, <2>1, <2>2, Carried, TypeFromMove DEF Commit, TypeOK
<1> QED
  BY <1>2, <1>3, <1>4, <1>5, <1>6 DEF LessonStep, RepairStep

LEMMA CaseStepMoves ==
  ASSUME TypeOK, NEW r \in Requests, HoldStep(r) \/ CaseStep(r) \/ GiveUp(r)
  PROVE  Moved(r) /\ TypeOK'
<1>1. ASSUME NEW d \in Disputes, OpenCase(r, d) PROVE Moved(r) /\ TypeOK'
  <2>1. Moved(r)
    BY <1>1, Carried, BeginMoves DEF OpenCase
  <2>2. case' \in [Disputes -> Case]
    BY <1>1 DEF OpenCase, TypeOK, Case, CaseStatus
  <2> QED
    BY <1>1, <2>1, <2>2, TypeFromMove DEF OpenCase, TypeOK
<1>2. CASE HoldRead(r)
  <2>1. Computed(lesson, TRUE) \in Snapshot
    BY ComputedIsRight DEF TypeOK
  <2>2. Moved(r)
    BY <1>2, <2>1, HoldOnMoves DEF HoldRead, TypeOK
  <2> QED
    BY <1>2, <2>2, TypeFromMove DEF HoldRead, TypeOK
<1>3. CASE HoldBackfill(r)
  <2>1. Moved(r)
    BY <1>3, Carried, HoldOnMoves DEF HoldBackfill
  <2> QED
    BY <1>3, <2>1, Carried, TypeFromMove DEF HoldBackfill, TypeOK
<1>4. CASE HoldSave(r)
  <2>1. Moved(r)
    BY <1>4, EndMoves DEF HoldSave
  <2> QED
    BY <1>4, <2>1, Carried, HeldIsRight, TypeFromMove DEF HoldSave, TypeOK
<1>5. CASE GiveUp(r)
  <2>1. Moved(r)
    BY <1>5, EndMoves DEF GiveUp
  <2> QED
    BY <1>5, <2>1, TypeFromMove DEF GiveUp, TypeOK
<1>6. ASSUME NEW d \in Disputes, NEW status \in AdminStatus, AdminRead(r, d, status)
      PROVE  Moved(r) /\ TypeOK'
  <2>1. Moved(r)
    BY <1>6, Carried, BeginMoves DEF AdminRead, TypeOK
  <2> QED
    BY <1>6, <2>1, TypeFromMove DEF AdminRead, TypeOK
<1>7. ASSUME NEW d \in Disputes, EvidenceRead(r, d) PROVE Moved(r) /\ TypeOK'
  <2>1. Moved(r)
    BY <1>7, Carried, BeginMoves DEF EvidenceRead, TypeOK
  <2> QED
    BY <1>7, <2>1, TypeFromMove DEF EvidenceRead, TypeOK
<1>8. CASE AdminSave(r) \/ EvidenceSave(r)
  <2>1. Moved(r)
    BY <1>8, EndMoves DEF AdminSave, EvidenceSave
  <2>2. CASE AdminSave(r)
    <3>1. req[r].next \in CaseStatus
      BY <2>2, Carried DEF AdminSave, TypeOK
    <3>2. (req[r].case.resolved \/ req[r].next \in {"resolved", "closed"}) \in BOOLEAN
      OBVIOUS
    <3>3. [status |-> req[r].next,
           resolved |-> req[r].case.resolved \/ req[r].next \in {"resolved", "closed"}] \in Case
      BY <3>1, <3>2 DEF Case
    <3>4. case' \in [Disputes -> Case]
      BY <2>2, <3>3 DEF AdminSave, TypeOK
    <3> QED
      BY <2>1, <2>2, <3>4, TypeFromMove DEF AdminSave, TypeOK
  <2>3. CASE EvidenceSave(r)
    <3>1. req[r].case.status \in CaseStatus /\ req[r].case.resolved \in BOOLEAN
      BY Carried DEF Case
    <3>2. case' \in [Disputes -> Case]
      BY <2>3, <3>1 DEF EvidenceSave, TypeOK, Case, CaseStatus
    <3> QED
      BY <2>1, <2>3, <3>2, TypeFromMove DEF EvidenceSave, TypeOK
  <2> QED
    BY <1>8, <2>2, <2>3
<1> QED
  BY <1>1, <1>2, <1>3, <1>4, <1>5, <1>6, <1>7, <1>8 DEF HoldStep, CaseStep

LEMMA NextType == TypeOK /\ [Next]_vars => TypeOK'
<1> SUFFICES ASSUME TypeOK, [Next]_vars PROVE TypeOK'
  OBVIOUS
<1>1. CASE Price \/ UNCHANGED vars
  BY <1>1 DEF Price, vars, TypeOK
<1>2. CASE CreateLesson
  <2>1. Computed("requested", FALSE) \in Snapshot /\ "requested" \in LessonStatus
    BY ComputedIsRight DEF LessonStatus
  <2> QED
    BY <1>2, <2>1 DEF CreateLesson, TypeOK
<1> QED
  BY <1>1, <1>2, LessonStepMoves, CaseStepMoves DEF Next

\* The variables keep their types, for any number of requests in flight.
THEOREM TypeCorrect == Spec => []TypeOK
<1>1. Init => TypeOK
  BY IdleType, Carried DEF Init, TypeOK, Missing, NoCase, Snapshot, Case, CaseStatus
<1>2. TypeOK /\ [Next]_vars => TypeOK'
  BY NextType
<1> QED
  BY <1>1, <1>2, PTL DEF Spec

-----------------------------------------------------------------------------
(* No two requests in flight.  *)

Alone == \A q, r \in Requests : req[q].op # "idle" /\ req[r].op # "idle" => q = r
OthersIdle(r) == \A q \in Requests : q # r => req[q].op = "idle"

\* The request that takes a step is in flight before it or after it.
LEMMA StepIsOfTheBusy ==
  ASSUME TypeOK, NEW r \in Requests,
         LessonStep(r) \/ RepairStep(r) \/ HoldStep(r) \/ CaseStep(r) \/ GiveUp(r)
  PROVE  req[r].op # "idle" \/ req'[r].op # "idle"
<1>1. CASE \/ StatusLock(r) \/ Commit(r) \/ RepairSave(r) \/ RepairFails(r) \/ HoldRead(r)
           \/ HoldBackfill(r) \/ HoldSave(r) \/ AdminSave(r) \/ EvidenceSave(r) \/ GiveUp(r)
  BY <1>1 DEF StatusLock, Commit, RepairSave, RepairFails, HoldRead, HoldBackfill, HoldSave,
              AdminSave, EvidenceSave, GiveUp
<1>2. ASSUME NEW op \in {"checked", "tx", "repair", "hold", "admin", "evidence"},
             NEW next, NEW s, NEW d, NEW c, Begin(r, op, next, s, d, c)
      PROVE  req'[r].op # "idle"
  BY <1>2 DEF Begin, TypeOK
<1>3. CASE RescheduleLock(r) \/ RepairRead(r)
  BY <1>2, <1>3 DEF RescheduleLock, RepairRead
<1>4. CASE \E next \in LessonStatus : StatusCheck(r, next)
  BY <1>2, <1>4 DEF StatusCheck
<1>5. CASE \E d \in Disputes : OpenCase(r, d) \/ EvidenceRead(r, d)
  BY <1>2, <1>5 DEF OpenCase, EvidenceRead
<1>6. CASE \E d \in Disputes, status \in AdminStatus : AdminRead(r, d, status)
  BY <1>2, <1>6 DEF AdminRead
<1> QED
  BY <1>1, <1>3, <1>4, <1>5, <1>6 DEF LessonStep, RepairStep, HoldStep, CaseStep

LEMMA OthersRest ==
  ASSUME Alone, Alone', NEW r \in Requests, Moved(r),
         req[r].op # "idle" \/ req'[r].op # "idle"
  PROVE  OthersIdle(r) /\ OthersIdle(r)'
BY DEF Alone, OthersIdle, Moved

LEMMA InitIInv == Init => IInv
<1> SUFFICES ASSUME Init PROVE IInv
  OBVIOUS
<1>1. TypeOK
  BY IdleType, Carried DEF Init, TypeOK, Missing, NoCase, Snapshot, Case, CaseStatus
<1> QED
  BY <1>1, IdleType DEF Init, IInv, SnapshotFollowsLesson, ReadsAreFresh, NothingYet, Missing,
                           Exists

\* It is enough to look at the request that takes the step.
LEMMA OnlyOne ==
  ASSUME NEW r \in Requests, OthersIdle(r)', TypeOK', Agrees(snap', lesson'),
         req'[r].op = "tx" =>
           Agrees(req'[r].snap, req'[r].next)
             /\ (AnyOpen' /\ ~Voided(req'[r].next) => req'[r].snap.payout = "on_hold"),
         req'[r].op = "repair" =>
           Agrees(req'[r].snap, lesson')
             /\ (AnyOpen' /\ ~Voided(lesson') => req'[r].snap.payout = "on_hold"),
         req'[r].op = "backfill" => Agrees(req'[r].snap, lesson'),
         req'[r].op = "holdSave" => req'[r].snap = snap' /\ Exists',
         req'[r].op \in {"tx", "repair", "backfill"} => req'[r].snap.integrity = "synced",
         req'[r].op \in {"checked", "tx"} => req'[r].next # "none",
         lesson' # "none", ~Exists' => snap'.payout = "pending"
  PROVE  IInv'
<1>1. \A q \in Requests : q # r => req'[q].op = "idle"
  BY DEF OthersIdle
<1>2. SnapshotFollowsLesson'
  BY DEF SnapshotFollowsLesson, Agrees, Voided
<1>3. ReadsAreFresh'
  BY <1>1 DEF ReadsAreFresh, Agrees, KeepsHold, Voided
<1> QED
  BY <1>2, <1>3 DEF IInv, NothingYet

LEMMA NowAgrees == IInv => Agrees(snap, lesson)
BY DEF IInv, SnapshotFollowsLesson, Agrees

LEMMA NothingReleased ==
  UNCHANGED snap => ~(snap.payout = "on_hold" /\ snap'.payout # "on_hold")
OBVIOUS

\* What releasing a hold requires.
Release == snap.payout = "on_hold" /\ snap'.payout # "on_hold" => ~AnyOpen \/ Voided(lesson')

LEMMA LessonStepKeeps ==
  ASSUME Alone, Alone', IInv, NEW r \in Requests, LessonStep(r) \/ RepairStep(r)
  PROVE  IInv' /\ Release
<1>1. TypeOK /\ Moved(r) /\ TypeOK'
  BY LessonStepMoves DEF IInv
<1>o. OthersIdle(r) /\ OthersIdle(r)'
  BY <1>1, StepIsOfTheBusy, OthersRest
<1>2. AnyOpen' = AnyOpen
  BY DEF LessonStep, RepairStep, StatusCheck, StatusLock, RescheduleLock, Commit, RepairRead,
         RepairSave, RepairFails, AnyOpen, Open
<1>3. AnyOpen \in BOOLEAN /\ lesson \in LessonStatus
  BY <1>1, AnyOpenType DEF TypeOK
<1>a. lesson # "none" /\ (~Exists => snap.payout = "pending")
  BY DEF LessonStep, RepairStep, StatusCheck, StatusLock, RescheduleLock, Commit, RepairRead,
         RepairSave, RepairFails, ValidTransitions, IInv, NothingYet
<1>b. UNCHANGED snap => Exists' = Exists
  BY DEF Exists
<1>4. ASSUME NEW next \in LessonStatus, StatusCheck(r, next) PROVE IInv' /\ Release
  <2>1. next # "none"
    BY <1>4 DEF StatusCheck, ValidTransitions
  <2>2. req'[r].op = "checked" /\ req'[r].next = next /\ UNCHANGED <<snap, lesson>>
    BY <1>1, <1>4, Carried, BeginMoves DEF StatusCheck
  <2> QED
    BY <1>o, <1>1, <1>a, <1>b, <2>1, <2>2, OnlyOne, NowAgrees, NothingReleased DEF Release
<1>5. CASE StatusLock(r)
  <2>1. req[r].next \in LessonStatus
    BY <1>1, <1>5 DEF StatusLock, TypeOK
  <2>2. /\ req'[r].op = "tx" /\ req'[r].next = req[r].next
        /\ req'[r].snap = Computed(req[r].next, AnyOpen)
        /\ UNCHANGED <<snap, lesson>>
    BY <1>1, <1>5 DEF StatusLock, TypeOK
  <2>3. /\ Agrees(req'[r].snap, req'[r].next)
        /\ AnyOpen /\ ~Voided(req'[r].next) => req'[r].snap.payout = "on_hold"
    BY <1>1, <1>3, <2>1, <2>2, ComputedIsRight
  <2>4. req'[r].next # "none" /\ req'[r].snap.integrity = "synced"
    BY <1>1, <1>3, <1>5, <2>1, <2>2, ComputedIsRight DEF StatusLock, IInv, ReadsAreFresh
  <2> QED
    BY <1>o, <1>1, <1>2, <1>a, <1>b, <2>2, <2>3, <2>4, OnlyOne, NowAgrees, NothingReleased
      DEF Release
<1>6. CASE RescheduleLock(r) \/ RepairRead(r)
  <2>1. /\ Computed(lesson, AnyOpen) \in Snapshot
        /\ Computed(lesson, AnyOpen).integrity = "synced"
        /\ Agrees(Computed(lesson, AnyOpen), lesson)
        /\ AnyOpen /\ ~Voided(lesson) => Computed(lesson, AnyOpen).payout = "on_hold"
    BY <1>1, <1>3, ComputedIsRight
  <2>2. /\ (req'[r].op = "tx" /\ req'[r].next = lesson) \/ req'[r].op = "repair"
        /\ req'[r].snap = Computed(lesson, AnyOpen)
        /\ UNCHANGED <<snap, lesson>>
    BY <1>1, <1>3, <1>6, <2>1, Carried, BeginMoves DEF RescheduleLock, RepairRead
  <2> QED
    BY <1>o, <1>1, <1>2, <1>a, <1>b, <2>1, <2>2, OnlyOne, NowAgrees, NothingReleased DEF Release
<1>7. CASE Commit(r)
  <2>1. req'[r].op = "idle" /\ snap' = req[r].snap /\ lesson' = req[r].next
    BY <1>1, <1>7, EndMoves DEF Commit
  <2>2. Agrees(snap', lesson') /\ (AnyOpen /\ ~Voided(lesson') => snap'.payout = "on_hold")
    BY <1>7, <2>1 DEF Commit, IInv, ReadsAreFresh, KeepsHold
  <2>3. lesson' # "none" /\ Exists'
    BY <1>7, <2>1 DEF Commit, IInv, ReadsAreFresh, Exists
  <2> QED
    BY <1>o, <1>1, <1>3, <2>1, <2>2, <2>3, OnlyOne DEF Release
<1>8. CASE RepairSave(r)
  <2>1. req'[r].op = "idle" /\ snap' = req[r].snap /\ lesson' = lesson
    BY <1>1, <1>8, EndMoves DEF RepairSave
  <2>2. Agrees(snap', lesson') /\ (AnyOpen /\ ~Voided(lesson') => snap'.payout = "on_hold")
    BY <1>8, <2>1 DEF RepairSave, IInv, ReadsAreFresh, KeepsHold
  <2>3. Exists'
    BY <1>8, <2>1 DEF RepairSave, IInv, ReadsAreFresh, Exists
  <2> QED
    BY <1>o, <1>1, <1>3, <1>a, <2>1, <2>2, <2>3, OnlyOne DEF Release
<1>9. CASE RepairFails(r)
  <2>1. req'[r].op = "idle" /\ UNCHANGED lesson
    BY <1>1, <1>9, EndMoves DEF RepairFails
  <2>2. snap'.integrity = "sync_failed" /\ snap'.payout = snap.payout
    BY <1>1, <1>9 DEF RepairFails, TypeOK, Snapshot
  <2> QED
    BY <1>o, <1>1, <1>a, <2>1, <2>2, OnlyOne DEF Agrees, Release, Exists
<1> QED
  BY <1>4, <1>5, <1>6, <1>7, <1>8, <1>9 DEF LessonStep, RepairStep

LEMMA CaseStepKeeps ==
  ASSUME Alone, Alone', IInv, NEW r \in Requests, HoldStep(r) \/ CaseStep(r) \/ GiveUp(r)
  PROVE  IInv' /\ Release
<1>1. TypeOK /\ Moved(r) /\ TypeOK'
  BY CaseStepMoves DEF IInv
<1>o. OthersIdle(r) /\ OthersIdle(r)'
  BY <1>1, StepIsOfTheBusy, OthersRest
<1>2. UNCHANGED lesson /\ lesson \in LessonStatus /\ snap \in Snapshot
  BY <1>1 DEF HoldStep, CaseStep, GiveUp, OpenCase, HoldRead, HoldBackfill, HoldSave, AdminRead,
              AdminSave, EvidenceRead, EvidenceSave, TypeOK
<1>a. lesson # "none" /\ (~Exists => snap.payout = "pending")
  BY DEF HoldStep, CaseStep, GiveUp, OpenCase, HoldRead, HoldBackfill, HoldSave, AdminRead,
         AdminSave, EvidenceRead, EvidenceSave, IInv, NothingYet
<1>b. UNCHANGED snap => Exists' = Exists
  BY DEF Exists
<1>3. CASE UNCHANGED snap /\ req'[r].op \in {"hold", "admin", "evidence", "idle"}
  BY <1>o, <1>1, <1>2, <1>a, <1>b, <1>3, OnlyOne, NowAgrees, NothingReleased DEF Release
<1>4. ASSUME NEW d \in Disputes, OpenCase(r, d) PROVE IInv' /\ Release
  <2>1. req'[r].op = "hold" /\ UNCHANGED snap
    BY <1>1, <1>4, Carried, BeginMoves DEF OpenCase
  <2> QED
    BY <1>3, <2>1
<1>5. CASE HoldRead(r)
  <2>1. /\ Computed(lesson, TRUE) \in Snapshot /\ Agrees(Computed(lesson, TRUE), lesson)
        /\ Computed(lesson, TRUE).integrity = "synced"
    BY <1>1, <1>2, ComputedIsRight
  <2>2. \/ req'[r].op = "holdSave" /\ req'[r].snap = snap /\ Exists
        \/ req'[r].op = "backfill" /\ req'[r].snap = Computed(lesson, TRUE)
    BY <1>1, <1>2, <1>5, <2>1, HoldOnMoves DEF HoldRead
  <2>3. UNCHANGED snap
    BY <1>5 DEF HoldRead
  <2>4. Release /\ Agrees(snap', lesson') /\ Exists' = Exists
    BY <1>2, <1>b, <2>3, NowAgrees, NothingReleased DEF Release
  <2>5. CASE req'[r].op = "holdSave" /\ req'[r].snap = snap /\ Exists
    BY <1>o, <1>1, <1>2, <1>a, <2>3, <2>4, <2>5, OnlyOne
  <2>6. CASE req'[r].op = "backfill" /\ req'[r].snap = Computed(lesson, TRUE)
    BY <1>o, <1>1, <1>2, <1>a, <2>1, <2>3, <2>4, <2>6, OnlyOne
  <2> QED
    BY <2>2, <2>5, <2>6
<1>6. CASE HoldBackfill(r)
  <2>1. req'[r].op = "holdSave" /\ req'[r].snap = snap' /\ snap' = req[r].snap
    BY <1>1, <1>6, Carried, HoldOnMoves DEF HoldBackfill
  <2>2. Agrees(snap', lesson')
    BY <1>2, <1>6, <2>1 DEF HoldBackfill, IInv, ReadsAreFresh
  <2>3. snap.payout # "on_hold" /\ Exists'
    BY <1>6, <1>a, <2>1 DEF HoldBackfill, Exists, IInv, ReadsAreFresh
  <2> QED
    BY <1>o, <1>1, <1>2, <1>a, <2>1, <2>2, <2>3, OnlyOne DEF Release
<1>7. CASE HoldSave(r)
  <2>1. req'[r].op = "idle" /\ snap' = Held(snap)
    BY <1>1, <1>7, EndMoves DEF HoldSave, IInv, ReadsAreFresh
  <2>2. Agrees(snap', lesson')
    BY <1>2, <2>1, NowAgrees, HeldIsRight DEF Agrees
  <2>3. (snap.payout = "on_hold" => snap'.payout = "on_hold") /\ Exists'
    BY <1>2, <1>7, <2>1, HeldIsRight DEF HoldSave, IInv, ReadsAreFresh, Exists
  <2> QED
    BY <1>o, <1>1, <1>2, <1>a, <2>1, <2>2, <2>3, OnlyOne DEF Release
<1>8. CASE GiveUp(r) \/ AdminSave(r) \/ EvidenceSave(r)
  <2>1. req'[r].op = "idle" /\ UNCHANGED snap
    BY <1>1, <1>8, EndMoves DEF GiveUp, AdminSave, EvidenceSave
  <2> QED
    BY <1>3, <2>1
<1>9. ASSUME NEW d \in Disputes,
             EvidenceRead(r, d) \/ \E status \in AdminStatus : AdminRead(r, d, status)
      PROVE  IInv' /\ Release
  <2>1. req'[r].op \in {"admin", "evidence"} /\ UNCHANGED snap
    <3>1. CASE EvidenceRead(r, d)
      BY <1>1, <3>1, Carried, BeginMoves DEF EvidenceRead, TypeOK
    <3>2. ASSUME NEW status \in AdminStatus, AdminRead(r, d, status)
          PROVE  req'[r].op = "admin" /\ UNCHANGED snap
      BY <1>1, <3>2, Carried, BeginMoves DEF AdminRead, TypeOK
    <3> QED
      BY <1>9, <3>1, <3>2
  <2> QED
    BY <1>3, <2>1
<1> QED
  BY <1>4, <1>5, <1>6, <1>7, <1>8, <1>9 DEF HoldStep, CaseStep

LEMMA NextIInv ==
  ASSUME Alone, Alone', IInv, [Next]_vars
  PROVE  IInv' /\ Release
<1>1. CASE Price \/ UNCHANGED vars
  <2>1. TypeOK'
    BY <1>1, NextType DEF IInv
  <2>2. UNCHANGED <<lesson, snap, case, req>>
    BY <1>1 DEF Price, vars
  <2>3. AnyOpen' = AnyOpen /\ Exists' = Exists
    BY <2>2 DEF AnyOpen, Exists
  <2>4. SnapshotFollowsLesson'
    BY <2>2 DEF IInv, SnapshotFollowsLesson, Voided
  <2>5. ReadsAreFresh'
    BY <2>2, <2>3 DEF IInv, ReadsAreFresh, Agrees, KeepsHold, Voided
  <2>6. NothingYet' /\ Release
    BY <2>2, <2>3, NothingReleased DEF IInv, NothingYet, Release
  <2> QED
    BY <2>1, <2>4, <2>5, <2>6 DEF IInv
<1>2. CASE CreateLesson
  <2>1. TypeOK'
    BY <1>2, NextType DEF IInv, Next
  <2>2. /\ Agrees(Computed("requested", FALSE), "requested")
        /\ Computed("requested", FALSE).integrity = "synced"
    BY ComputedIsRight DEF IInv, LessonStatus
  <2>3. /\ lesson = "none" /\ lesson' = "requested" /\ UNCHANGED req
        /\ snap' = Computed("requested", FALSE)
    BY <1>2 DEF CreateLesson
  <2>4. ~AnyOpen /\ \A r \in Requests : req[r].op = "idle"
    BY <2>3 DEF IInv, NothingYet, AnyOpen, Open, NoCase
  <2>5. SnapshotFollowsLesson' /\ NothingYet'
    BY <2>2, <2>3 DEF SnapshotFollowsLesson, NothingYet, Agrees, Voided, Exists
  <2>6. ReadsAreFresh' /\ Release
    BY <2>3, <2>4 DEF ReadsAreFresh, Release
  <2> QED
    BY <2>1, <2>5, <2>6 DEF IInv
<1> QED
  BY <1>1, <1>2, LessonStepKeeps, CaseStepKeeps DEF Next

\* When requests do not overlap, whatever fails, a snapshot not marked as failed
\* agrees with its lesson.
THEOREM SnapshotIsRight == Spec /\ []Alone => []SnapshotFollowsLesson
<1>1. Init => IInv
  BY InitIInv
<1>2. Alone /\ Alone' /\ IInv /\ [Next]_vars => IInv'
  BY NextIInv
<1>3. IInv => SnapshotFollowsLesson
  BY DEF IInv
<1> QED
  BY <1>1, <1>2, <1>3, PTL DEF Spec

\* When requests do not overlap, whatever fails, a payout leaves its hold only
\* when no case about the lesson is open, or with the lesson.
THEOREM HoldOutlivesCases == Spec /\ []Alone => HoldIsKept
<1>1. Init => IInv
  BY InitIInv
<1>2. Alone /\ Alone' /\ IInv /\ [Next]_vars => IInv'
  BY NextIInv
<1>3. Alone /\ Alone' /\ IInv /\ [Next]_vars
        => [snap.payout = "on_hold" /\ snap'.payout # "on_hold"
              => (\A d \in Disputes : ~Open(case[d])) \/ Voided(lesson')]_vars
  BY NextIInv DEF Release, AnyOpen
<1> QED
  BY <1>1, <1>2, <1>3, PTL DEF Spec, HoldIsKept

-----------------------------------------------------------------------------
(* That a case is held: from when it was opened, its own request is on the   *)
(* way to hold the payout, unless the payout is on hold already.             *)

Unsettled(c) == Open(c) /\ ~c.resolved
Holding == {"hold", "backfill", "holdSave"}

CasesMarked ==
  \A d \in Disputes : /\ case[d].status \in {"resolved", "closed"} => case[d].resolved
                      /\ case[d].status = "none" => ~case[d].resolved
VoidedForGood ==
  /\ snap.payout = "voided" => Voided(lesson)
  /\ \A r \in Requests : req[r].op \in {"checked", "tx"} => ~Voided(lesson)
CaseIsFresh ==
  \A r \in Requests : req[r].op \in {"admin", "evidence"} =>
    /\ req[r].dispute \in Disputes /\ case[req[r].dispute] # NoCase
    /\ req[r].case = case[req[r].dispute]
HeldOrHolding ==
  \A d \in Disputes \ unheld : Unsettled(case[d]) /\ ~Voided(lesson) =>
    \/ snap.payout = "on_hold"
    \/ \E r \in Requests : req[r].op \in Holding /\ req[r].dispute = d

HInv == CasesMarked /\ VoidedForGood /\ CaseIsFresh /\ HeldOrHolding

\* It is enough to look at the request that takes the step.
LEMMA OnlyOneHolds ==
  ASSUME NEW r \in Requests, OthersIdle(r)', CasesMarked',
         snap'.payout = "voided" => Voided(lesson'),
         req'[r].op \in {"checked", "tx"} => ~Voided(lesson'),
         req'[r].op \in {"admin", "evidence"} =>
           /\ req'[r].dispute \in Disputes /\ case'[req'[r].dispute] # NoCase
           /\ req'[r].case = case'[req'[r].dispute],
         \A d \in Disputes \ unheld' : Unsettled(case'[d]) /\ ~Voided(lesson') =>
           snap'.payout = "on_hold" \/ (req'[r].op \in Holding /\ req'[r].dispute = d)
  PROVE  HInv'
<1>1. \A q \in Requests : q # r => req'[q].op = "idle"
  BY DEF OthersIdle
<1>2. VoidedForGood' /\ CaseIsFresh'
  BY <1>1 DEF VoidedForGood, CaseIsFresh, Voided
<1>3. HeldOrHolding'
  BY DEF HeldOrHolding, Unsettled, Open, Voided, Holding
<1> QED
  BY <1>2, <1>3 DEF HInv

\* What HInv says when no request but r is in flight.
LEMMA OneHolds ==
  ASSUME HInv, NEW r \in Requests, OthersIdle(r)
  PROVE  \A d \in Disputes \ unheld : Unsettled(case[d]) /\ ~Voided(lesson) =>
           snap.payout = "on_hold" \/ (req[r].op \in Holding /\ req[r].dispute = d)
BY DEF OthersIdle, HInv, HeldOrHolding, Holding

LEMMA LessonStepHolds ==
  ASSUME Alone, Alone', IInv, HInv, NEW r \in Requests, LessonStep(r) \/ RepairStep(r)
  PROVE  HInv'
<1>1. TypeOK /\ TypeOK' /\ Moved(r)
  BY LessonStepMoves DEF IInv
<1>o. OthersIdle(r) /\ OthersIdle(r)'
  BY <1>1, StepIsOfTheBusy, OthersRest
<1>2. UNCHANGED <<case, unheld>>
  BY DEF LessonStep, RepairStep, StatusCheck, StatusLock, RescheduleLock, Commit, RepairRead,
         RepairSave, RepairFails
<1>3. CasesMarked'
  BY <1>2 DEF HInv, CasesMarked
<1>4. req[r].op \notin Holding
  BY DEF LessonStep, RepairStep, StatusCheck, StatusLock, RescheduleLock, Commit, RepairRead,
         RepairSave, RepairFails, Begin, Holding
<1>5. snap.payout = "voided" => Voided(lesson)
  BY DEF HInv, VoidedForGood
<1>6. \A d \in Disputes \ unheld : Unsettled(case[d]) /\ ~Voided(lesson) => snap.payout = "on_hold"
  BY <1>o, <1>4, OneHolds
<1>7. CASE /\ UNCHANGED <<snap, lesson>> /\ req'[r].op \in {"checked", "tx", "repair"}
           /\ req'[r].op \in {"checked", "tx"} => ~Voided(lesson)
  BY <1>o, <1>2, <1>3, <1>5, <1>6, <1>7, OnlyOneHolds
<1>8. ASSUME NEW next \in LessonStatus, StatusCheck(r, next) PROVE HInv'
  <2>1. req'[r].op = "checked" /\ UNCHANGED <<snap, lesson>>
    BY <1>1, <1>8, Carried, BeginMoves DEF StatusCheck
  <2>2. ~Voided(lesson)
    BY <1>8 DEF StatusCheck, ValidTransitions, Voided
  <2> QED
    BY <1>7, <2>1, <2>2
<1>9. CASE StatusLock(r)
  <2>1. req'[r].op = "tx" /\ UNCHANGED <<snap, lesson>>
    BY <1>1, <1>9 DEF StatusLock, TypeOK
  <2>2. ~Voided(lesson)
    BY <1>9 DEF StatusLock, HInv, VoidedForGood
  <2> QED
    BY <1>7, <2>1, <2>2
<1>10. CASE RescheduleLock(r) \/ RepairRead(r)
  <2>1. Computed(lesson, AnyOpen) \in Snapshot
    BY <1>1, AnyOpenType, ComputedIsRight DEF TypeOK
  <2>2. lesson \in LessonStatus
    BY <1>1 DEF TypeOK
  <2>3. \/ req'[r].op = "tx" /\ ~Voided(lesson)
        \/ req'[r].op = "repair"
    BY <1>1, <1>10, <2>1, <2>2, Carried, BeginMoves DEF RescheduleLock, RepairRead, Voided
  <2>4. UNCHANGED <<snap, lesson>>
    BY <1>10 DEF RescheduleLock, RepairRead
  <2> QED
    BY <1>7, <2>3, <2>4
<1>11. CASE Commit(r) \/ RepairSave(r)
  <2>1. req'[r].op = "idle"
    BY <1>1, <1>11, EndMoves DEF Commit, RepairSave
  <2>2. /\ snap'.integrity = "synced" /\ Agrees(snap', lesson')
        /\ AnyOpen /\ ~Voided(lesson') => snap'.payout = "on_hold"
    BY <1>11 DEF Commit, RepairSave, IInv, ReadsAreFresh, KeepsHold
  <2>3. \A d \in Disputes : Unsettled(case'[d]) => AnyOpen
    BY <1>2 DEF Unsettled, AnyOpen
  <2> QED
    BY <1>o, <1>3, <2>1, <2>2, <2>3, OnlyOneHolds DEF Agrees
<1>12. CASE RepairFails(r)
  <2>1. req'[r].op = "idle" /\ UNCHANGED lesson
    BY <1>1, <1>12, EndMoves DEF RepairFails
  <2>2. snap'.payout = snap.payout
    BY <1>1, <1>12 DEF RepairFails, TypeOK, Snapshot
  <2> QED
    BY <1>o, <1>2, <1>3, <1>5, <1>6, <2>1, <2>2, OnlyOneHolds
<1> QED
  BY <1>8, <1>9, <1>10, <1>11, <1>12 DEF LessonStep, RepairStep

LEMMA HoldStepHolds ==
  ASSUME Alone, Alone', IInv, HInv, NEW r \in Requests, HoldStep(r) \/ GiveUp(r)
  PROVE  HInv'
<1>1. TypeOK /\ TypeOK' /\ Moved(r)
  BY CaseStepMoves DEF IInv
<1>o. OthersIdle(r) /\ OthersIdle(r)'
  BY <1>1, StepIsOfTheBusy, OthersRest
<1>2. UNCHANGED lesson
  BY DEF HoldStep, GiveUp, OpenCase, HoldRead, HoldBackfill, HoldSave
<1>3. snap.payout = "voided" => Voided(lesson)
  BY DEF HInv, VoidedForGood
<1>4. ASSUME NEW d \in Disputes, OpenCase(r, d) PROVE HInv'
  <2>1. req[r].op = "idle" /\ UNCHANGED <<snap, unheld>>
    BY <1>4 DEF OpenCase, Begin
  <2>2. req'[r].op = "hold" /\ req'[r].dispute = d
    BY <1>1, <1>4 DEF OpenCase, Begin, TypeOK
  <2>3. case' = [case EXCEPT ![d] = [status |-> "opened", resolved |-> FALSE]]
    BY <1>4 DEF OpenCase
  <2>4. CasesMarked'
    BY <1>1, <2>3 DEF HInv, CasesMarked, TypeOK
  <2>5. \A e \in Disputes \ unheld : e # d /\ Unsettled(case'[e]) /\ ~Voided(lesson)
                                      => snap.payout = "on_hold"
    BY <1>o, <1>1, <2>1, <2>3, OneHolds DEF TypeOK, Holding
  <2> QED
    BY <1>o, <1>2, <1>3, <2>1, <2>2, <2>4, <2>5, OnlyOneHolds DEF Holding
<1>5. CASE HoldRead(r)
  <2>1. UNCHANGED <<snap, case, unheld>> /\ req[r].op = "hold"
    BY <1>5 DEF HoldRead
  <2>2. CasesMarked'
    BY <2>1 DEF HInv, CasesMarked
  <2>3. CASE Exists
    <3>1. req'[r].op = "holdSave" /\ req'[r].dispute = req[r].dispute
      BY <1>1, <1>5, <2>3 DEF HoldRead, HoldOn, TypeOK
    <3> QED
      BY <1>o, <1>2, <1>3, <2>1, <2>2, <3>1, OneHolds, OnlyOneHolds DEF Holding
  <2>4. CASE ~Exists
    <3>1. PICK s : HoldOn(r, "backfill", s)
      BY <1>5, <2>4, Zenon DEF HoldRead
    <3>2. req'[r].op = "backfill" /\ req'[r].dispute = req[r].dispute
      BY <1>1, <3>1 DEF HoldOn, TypeOK
    <3> QED
      BY <1>o, <1>2, <1>3, <2>1, <2>2, <3>2, OneHolds, OnlyOneHolds DEF Holding
  <2> QED
    BY <2>3, <2>4
<1>6. CASE HoldBackfill(r)
  <2>1. UNCHANGED <<case, unheld>> /\ req[r].op = "backfill" /\ ~Exists /\ snap' = req[r].snap
    BY <1>6 DEF HoldBackfill
  <2>2. CasesMarked'
    BY <2>1 DEF HInv, CasesMarked
  <2>3. req'[r].op = "holdSave" /\ req'[r].dispute = req[r].dispute
    BY <1>1, <1>6 DEF HoldBackfill, HoldOn, TypeOK
  <2>4. snap.payout # "on_hold"
    BY <2>1 DEF IInv, NothingYet
  <2>5. snap'.payout = "voided" => Voided(lesson)
    BY <2>1 DEF IInv, ReadsAreFresh, Agrees
  <2> QED
    BY <1>o, <1>2, <2>1, <2>2, <2>3, <2>4, <2>5, OneHolds, OnlyOneHolds DEF Holding
<1>7. CASE HoldSave(r)
  <2>1. UNCHANGED <<case, unheld>> /\ snap' = Held(snap) /\ snap \in Snapshot
    BY <1>1, <1>7 DEF HoldSave, IInv, ReadsAreFresh, TypeOK
  <2>2. CasesMarked'
    BY <2>1 DEF HInv, CasesMarked
  <2>3. req'[r].op = "idle"
    BY <1>1, <1>7, EndMoves DEF HoldSave
  <2>4. /\ snap'.payout = "voided" <=> snap.payout = "voided"
        /\ snap'.payout \in {"voided", "on_hold"}
    BY <2>1, HeldIsRight
  <2> QED
    BY <1>o, <1>2, <1>3, <2>2, <2>3, <2>4, OnlyOneHolds
<1>8. CASE GiveUp(r)
  <2>1. UNCHANGED <<case, snap>> /\ unheld' = unheld \cup ({req[r].dispute} \cap Disputes)
    BY <1>8 DEF GiveUp
  <2>2. CasesMarked'
    BY <2>1 DEF HInv, CasesMarked
  <2>3. req'[r].op = "idle"
    BY <1>1, <1>8, EndMoves DEF GiveUp
  <2> QED
    BY <1>o, <1>2, <1>3, <2>1, <2>2, <2>3, OneHolds, OnlyOneHolds
<1> QED
  BY <1>4, <1>5, <1>6, <1>7, <1>8 DEF HoldStep

LEMMA CaseStepHolds ==
  ASSUME Alone, Alone', IInv, HInv, NEW r \in Requests, CaseStep(r)
  PROVE  HInv'
<1>1. TypeOK /\ TypeOK' /\ Moved(r)
  BY CaseStepMoves DEF IInv
<1>o. OthersIdle(r) /\ OthersIdle(r)'
  BY <1>1, StepIsOfTheBusy, OthersRest
<1>2. UNCHANGED <<lesson, snap, unheld>>
  BY DEF CaseStep, AdminRead, AdminSave, EvidenceRead, EvidenceSave
<1>3. snap.payout = "voided" => Voided(lesson)
  BY DEF HInv, VoidedForGood
<1>4. req[r].op \notin Holding
  BY DEF CaseStep, AdminRead, AdminSave, EvidenceRead, EvidenceSave, Begin, Holding
<1>5. \A d \in Disputes \ unheld : Unsettled(case[d]) /\ ~Voided(lesson) => snap.payout = "on_hold"
  BY <1>o, <1>4, OneHolds
<1>6. ASSUME NEW d \in Disputes,
             EvidenceRead(r, d) \/ \E status \in AdminStatus : AdminRead(r, d, status)
      PROVE  HInv'
  <2>1. /\ req'[r].op \in {"admin", "evidence"} /\ req'[r].dispute = d /\ req'[r].case = case[d]
        /\ case[d] # NoCase /\ UNCHANGED case
    <3>1. CASE EvidenceRead(r, d)
      BY <1>1, <3>1 DEF EvidenceRead, Begin, TypeOK
    <3>2. ASSUME NEW status \in AdminStatus, AdminRead(r, d, status)
          PROVE  /\ req'[r].op = "admin" /\ req'[r].dispute = d /\ req'[r].case = case[d]
                 /\ case[d] # NoCase /\ UNCHANGED case
      BY <1>1, <3>2 DEF AdminRead, Begin, TypeOK
    <3> QED
      BY <1>6, <3>1, <3>2
  <2>2. CasesMarked'
    BY <2>1 DEF HInv, CasesMarked
  <2> QED
    BY <1>o, <1>2, <1>3, <1>5, <2>1, <2>2, OnlyOneHolds
<1>7. CASE AdminSave(r) \/ EvidenceSave(r)
  <2> DEFINE d == req[r].dispute
  <2>1. /\ d \in Disputes /\ case[d] # NoCase /\ req[r].case = case[d]
    BY <1>7 DEF AdminSave, EvidenceSave, HInv, CaseIsFresh
  <2>2. req'[r].op = "idle"
    BY <1>1, <1>7, EndMoves DEF AdminSave, EvidenceSave
  <2>3. case[d].resolved \in BOOLEAN /\ case[d].status # "none"
    BY <1>1, <2>1 DEF TypeOK, Case, NoCase, HInv, CasesMarked
  <2>4. \A e \in Disputes \ {d} : case'[e] = case[e]
    BY <1>1, <1>7, <2>1 DEF AdminSave, EvidenceSave, TypeOK
  <2>5. /\ case'[d].status # "none"
        /\ case'[d].status \in {"resolved", "closed"} => case'[d].resolved
        /\ Unsettled(case'[d]) => Unsettled(case[d])
    <3>1. CASE AdminSave(r)
      <4>1. case'[d] = [status |-> req[r].next,
                        resolved |-> case[d].resolved \/ req[r].next \in {"resolved", "closed"}]
        BY <1>1, <2>1, <3>1 DEF AdminSave, TypeOK
      <4>2. req[r].next \in AdminStatus
        BY <1>1, <3>1 DEF AdminSave, TypeOK
      <4>a. PICK b \in BOOLEAN : /\ b = (case[d].resolved \/ req[r].next \in {"resolved", "closed"})
                                 /\ case'[d] = [status |-> req[r].next, resolved |-> b]
        BY <4>1, Zenon
      <4>3. case'[d].status = req[r].next /\ case'[d].resolved = b
        BY <4>a
      <4>4. case[d].status \in {"resolved", "closed"} => case[d].resolved
        BY <2>1 DEF HInv, CasesMarked
      <4> QED
        BY <2>3, <4>2, <4>a, <4>3, <4>4 DEF AdminStatus, Unsettled, Open
    <3>2. CASE EvidenceSave(r)
      <4>1. case'[d] = [status |-> IF case[d].status = "awaiting_evidence" THEN "triage"
                                   ELSE case[d].status,
                        resolved |-> case[d].resolved]
        BY <1>1, <2>1, <3>2 DEF EvidenceSave, TypeOK
      <4>2. case[d].status \in {"resolved", "closed"} => case[d].resolved
        BY <2>1 DEF HInv, CasesMarked
      <4> QED
        BY <2>3, <4>1, <4>2 DEF Unsettled, Open
    <3> QED
      BY <1>7, <3>1, <3>2
  <2>6. CasesMarked'
    BY <2>4, <2>5 DEF HInv, CasesMarked
  <2>7. \A e \in Disputes \ unheld : Unsettled(case'[e]) /\ ~Voided(lesson)
                                       => snap.payout = "on_hold"
    BY <1>5, <2>4, <2>5
  <2> QED
    BY <1>o, <1>2, <1>3, <2>2, <2>6, <2>7, OnlyOneHolds
<1> QED
  BY <1>6, <1>7 DEF CaseStep

LEMMA NextHInv ==
  ASSUME Alone, Alone', IInv, HInv, [Next]_vars
  PROVE  HInv'
<1>1. CASE Price \/ UNCHANGED vars
  <2>1. UNCHANGED <<lesson, snap, case, unheld, req>>
    BY <1>1 DEF Price, vars
  <2>2. CasesMarked' /\ VoidedForGood' /\ CaseIsFresh'
    BY <2>1 DEF HInv, CasesMarked, VoidedForGood, CaseIsFresh
  <2>3. HeldOrHolding'
    BY <2>1 DEF HInv, HeldOrHolding
  <2> QED
    BY <2>2, <2>3 DEF HInv
<1>2. CASE CreateLesson
  <2>1. /\ \A r \in Requests : req[r].op = "idle"
        /\ \A d \in Disputes : case[d] = NoCase
        /\ lesson' = "requested" /\ UNCHANGED <<case, unheld, req>>
    BY <1>2 DEF CreateLesson, IInv, NothingYet
  <2>a. snap'.payout # "voided"
    BY <1>2, ComputedIsRight DEF CreateLesson, IInv, LessonStatus, Agrees, Voided
  <2>2. CasesMarked' /\ VoidedForGood' /\ CaseIsFresh'
    BY <2>1, <2>a DEF HInv, CasesMarked, VoidedForGood, CaseIsFresh
  <2>3. HeldOrHolding'
    BY <2>1 DEF HeldOrHolding, Unsettled, Open, NoCase
  <2> QED
    BY <2>2, <2>3 DEF HInv
<1> QED
  BY <1>1, <1>2, LessonStepHolds, HoldStepHolds, CaseStepHolds DEF Next

\* When requests do not overlap, the payout of a lesson that goes on is on hold
\* while a case is open whose hold did not fail, in whatever order cases were
\* opened and decided, and whatever the lesson and its snapshot went through.
THEOREM OpenCasesHoldThePayout == Spec /\ []Alone => []HeldWhileOpen
<1>1. Init => IInv /\ HInv
  <2> SUFFICES ASSUME Init PROVE HInv
    BY InitIInv
  <2>1. \A r \in Requests : req[r].op = "idle"
    BY IdleType DEF Init
  <2>2. /\ \A d \in Disputes : case[d] = NoCase
        /\ snap.payout = "pending"
    BY DEF Init, Missing
  <2> QED
    BY <2>1, <2>2 DEF HInv, CasesMarked, VoidedForGood, CaseIsFresh, HeldOrHolding, Unsettled,
                      Open, NoCase
<1>2. Alone /\ Alone' /\ IInv /\ HInv /\ [Next]_vars => IInv' /\ HInv'
  BY NextIInv, NextHInv
<1>3. HInv => HeldWhileOpen
  BY DEF HInv, HeldOrHolding, HeldWhileOpen, Quiet, Unsettled, Holding
<1> QED
  BY <1>1, <1>2, <1>3, PTL DEF Spec
=============================================================================
