---------------------- MODULE CompletionRewardsProofs ----------------------
(***************************************************************************)
(* Proofs about CompletionRewards for any number of instructors, lessons,  *)
(* handlers in flight, reviews and crashes.                                *)
(***************************************************************************)
EXTENDS CompletionRewards, SequenceTheorems, FiniteSetTheorems, TLAPS

USE DEF EventStatus

\* What a handler has read and still needs is there, ...
LessonOps == {"commit", "stake", "pay", "noteStake", "reward", "referrer", "grant",
              "purchase", "credit", "creditSave", "centre", "note", "noteSave"}
TakeOps == {"take", "takeRow", "takeRowSave", "takePurchase", "takeCentre", "takeEvent",
            "takeEventSave"}
PlaceOps == TakeOps \cup {"purchase", "credit", "creditSave", "centre", "note", "noteSave"}

Shaped(q, n) ==
  /\ q.op \in LessonOps => q.lesson \in Lessons
  /\ q.op \in PlaceOps => q.at \in 1..n
  /\ q.op \in TakeOps \cup {"log"} => q.copy \in Event

\* ... and each column of the row it has read, with what it is going to add, is
\* covered by g rewards and s purchases: the end of the access only as long as
\* Apple has given none, by the marks m.
Adds == {"purchase", "credit", "creditSave"}
Covered(q, g, s, m) ==
  /\ q.row.credit <= g /\ q.row.total <= g
  /\ q.op \in Adds => q.row.credit + 1 <= g /\ q.row.total + 1 <= g
  /\ "dated" \notin m =>
       /\ q.row.nav <= s + g
       /\ q.op \in Adds \cup {"sale"} => q.row.nav + 1 <= s + g
       /\ q.op \in TakeOps \cup {"log"} => q.copy.prev <= s + g

RequestsAreCovered ==
  \A r \in Requests : Shaped(req[r], Len(events)) /\ Covered(req[r], grants, sales, marks)
EventsAreCovered ==
  "dated" \notin marks => \A e \in 1..Len(events) : events[e].prev <= sales + grants

IInv == TypeOK /\ RequestsAreCovered /\ EventsAreCovered /\ CreditIsEarned

-----------------------------------------------------------------------------
LEMMA IdleIsCovered ==
  ASSUME NEW n \in Nat, NEW g \in Nat, NEW s \in Nat, NEW m
  PROVE  Idle \in Request /\ Shaped(Idle, n) /\ Covered(Idle, g, s, m)
BY DEF Idle, Request, UserRow, EmptyRow, Shaped, Covered, Adds, LessonOps, TakeOps, PlaceOps

LEMMA CoverGrows ==
  ASSUME NEW q \in Request, NEW n \in Nat, Shaped(q, n),
         NEW g \in Nat, NEW h \in Nat, g <= h, NEW s \in Nat, NEW t \in Nat, s <= t,
         NEW m, NEW k, m \subseteq k, Covered(q, g, s, m)
  PROVE  Covered(q, h, t, k)
<1>1. q.row.credit \in Nat /\ q.row.total \in Nat /\ q.row.nav \in Nat
  BY DEF Request, UserRow
<1>2. q.row.credit <= h /\ q.row.total <= h
  BY <1>1 DEF Covered
<1>3. q.op \in Adds => q.row.credit + 1 <= h /\ q.row.total + 1 <= h
  BY <1>1 DEF Covered
<1>4. ASSUME "dated" \notin k
      PROVE  q.row.nav <= t + h /\ (q.op \in Adds \cup {"sale"} => q.row.nav + 1 <= t + h)
  BY <1>1, <1>4 DEF Covered
<1>5. ASSUME "dated" \notin k, q.op \in TakeOps \cup {"log"}
      PROVE  q.copy.prev <= t + h
  <2>1. q.copy.prev \in Nat
    BY <1>5 DEF Shaped, Event
  <2>2. q.copy.prev <= s + g
    BY <1>5 DEF Covered
  <2> QED
    BY <2>1, <2>2
<1> QED
  BY <1>2, <1>3, <1>4, <1>5 DEF Covered

\* A step changes one request; the others stay covered as the log, the rewards,
\* the purchases and the marks grow.
LEMMA OneRequestMoves ==
  ASSUME IInv, NEW r \in Requests, NEW next \in Request,
         req' = [req EXCEPT ![r] = next],
         Shaped(next, Len(events')), Covered(next, grants', sales', marks),
         Len(events') \in Nat, grants' \in Nat, sales' \in Nat, marks \subseteq marks',
         Len(events) <= Len(events'), grants <= grants', sales <= sales'
  PROVE  req' \in [Requests -> Request] /\ RequestsAreCovered'
<1>1. req' \in [Requests -> Request]
  BY DEF IInv, TypeOK
<1>2. ASSUME NEW q \in Requests
      PROVE  Shaped(req'[q], Len(events')) /\ Covered(req'[q], grants', sales', marks')
  <2>1. CASE q = r
    <3>1. req'[q] = next
      BY <2>1 DEF IInv, TypeOK
    <3>2. Covered(next, grants', sales', marks')
      BY CoverGrows
    <3> QED
      BY <3>1, <3>2
  <2>2. CASE q # r
    <3>1. req'[q] = req[q] /\ req[q] \in Request
      BY <2>2 DEF IInv, TypeOK
    <3>2. Shaped(req[q], Len(events)) /\ Covered(req[q], grants, sales, marks)
      BY DEF IInv, RequestsAreCovered
    <3>3. Len(events) \in Nat
      BY LenProperties DEF IInv, TypeOK
    <3>4. Shaped(req[q], Len(events'))
      BY <3>2, <3>3 DEF Shaped
    <3>5. grants \in Nat /\ sales \in Nat
      BY BoundsAssumption DEF IInv, TypeOK
    <3>6. Covered(req[q], grants', sales', marks')
      BY <3>1, <3>2, <3>3, <3>5, CoverGrows
    <3> QED
      BY <3>1, <3>4, <3>6
  <2> QED
    BY <2>1, <2>2
<1> QED
  BY <1>1, <1>2 DEF RequestsAreCovered

THEOREM InitIInv == Init => IInv
<1> SUFFICES ASSUME Init PROVE IInv
  OBVIOUS
<1>1. events \in Seq(Event) /\ Len(events) = 0
  BY EmptySeq DEF Init
<1>2. TypeOK
  <2>1. req \in [Requests -> Request]
    BY <1>1, IdleIsCovered DEF Init
  <2>2. row \in UserRow
    BY DEF Init, EmptyRow, UserRow
  <2>3. /\ completed \subseteq Lessons /\ approved \subseteq Instructors /\ old \subseteq Instructors
        /\ payouts \in [Lessons -> Nat] /\ staked \subseteq Lessons
        /\ purchases \subseteq 1..Len(events) /\ centres \subseteq 1..Len(events)
    BY DEF Init
  <2>4. /\ sales \in 0..MaxSales /\ crashes \in 0..MaxCrashes /\ reviews \in 0..MaxReviews
        /\ grants \in Nat
    BY BoundsAssumption DEF Init
  <2>5. marks \subseteq Marks
    BY DEF Init
  <2> QED
    BY <1>1, <2>1, <2>2, <2>3, <2>4, <2>5 DEF TypeOK
<1>3. RequestsAreCovered
  BY <1>1, IdleIsCovered DEF Init, RequestsAreCovered
<1> QED
  BY <1>1, <1>2, <1>3 DEF Init, IInv, EventsAreCovered, CreditIsEarned, EmptyRow

-----------------------------------------------------------------------------
(* The types of what is not the log, the learner's or a request. *)

Plain ==
  /\ completed \subseteq Lessons /\ approved \subseteq Instructors /\ old \subseteq Instructors
  /\ payouts \in [Lessons -> Nat] /\ staked \subseteq Lessons
  /\ crashes \in 0..MaxCrashes /\ reviews \in 0..MaxReviews
  /\ marks \subseteq Marks

LEMMA MarksStep ==
  ASSUME TypeOK, [Next]_vars
  PROVE  marks \subseteq marks' /\ marks' \subseteq Marks
<1> USE DEF TypeOK, Marks
<1> DEFINE Grow == marks \subseteq marks' /\ marks' \subseteq Marks
<1>1. CASE UNCHANGED vars
  BY <1>1 DEF vars
<1>2. ASSUME NEW r \in Requests, NEW q, NEW more \in SUBSET Marks, Starting(r, q, more)
      PROVE  Grow
  BY <1>2 DEF Starting
<1>3. ASSUME NEW r \in Requests, NEW q, Start(r, q)
      PROVE  Grow
  BY <1>2, <1>3 DEF Start
<1>4. ASSUME NEW r \in Requests PROVE
        \/ \E l \in Lessons : CompleteCheck(r, l)
        \/ \E i \in Instructors : AuditRead(r, i)
        \/ SaleRead(r) \/ CancelRead(r)
        => Grow
  BY <1>3 DEF CompleteCheck, AuditRead, SaleRead, CancelRead
<1>5. ASSUME NEW r \in Requests, NEW e \in 1..Len(events) PROVE
        TakeBegin(r, e) \/ (\E s \in EventStatus : ReviewRead(r, e, s)) => Grow
  <2>1. TakeBegin(r, e) => Grow
    BY <1>2, SMTT(30) DEF TakeBegin
  <2>2. (\E s \in EventStatus : ReviewRead(r, e, s)) => Grow
    BY <1>2 DEF ReviewRead
  <2> QED
    BY <2>1, <2>2
<1>6. CASE Next
  BY <1>4, <1>5, <1>6
     DEF Next, CompleteCommit, Stake, StakeCheck, StakePay, StakeNote,
         Reward, RewardCheck, LogOnly, RewardRead, RewardLog, RewardPurchase, CreditReload,
         RewardCredit, RewardCentre, NoteReload, RewardNote, Review, TakeRead, TakeReload, TakeRow,
         TakePurchase, TakeCentre, TakeEventReload, TakeEvent, Access, SaleSave, CancelPurchases, CancelCentres, CancelAccess,
         Crash, Approve, Suspend, Age
<1> QED
  BY <1>1, <1>6

LEMMA PlainStep ==
  ASSUME IInv, [Next]_vars
  PROVE  Plain'
<1> DEFINE Same == UNCHANGED <<completed, approved, old, payouts, staked, crashes, reviews>>
<1>0. TypeOK /\ marks' \subseteq Marks
  BY MarksStep DEF IInv
<1>1. Same => Plain'
  BY <1>0 DEF TypeOK, Plain
<1>2. ASSUME NEW r \in Requests, CompleteCommit(r) \/ StakePay(r) \/ StakeNote(r) \/ Crash(r)
      PROVE  Plain'
  <2>1. req[r].op \in LessonOps => req[r].lesson \in Lessons
    BY DEF IInv, RequestsAreCovered, Shaped
  <2>2. CompleteCommit(r) => Plain'
    BY <1>0, <2>1 DEF CompleteCommit, LessonOps, TypeOK, Plain, stakeVars, countVars
  <2>3. StakePay(r) => Plain'
    BY <1>0, <2>1 DEF StakePay, LessonOps, TypeOK, Plain, lessonVars, countVars
  <2>4. StakeNote(r) => Plain'
    BY <1>0, <2>1 DEF StakeNote, LessonOps, TypeOK, Plain, lessonVars, countVars
  <2>5. Crash(r) => Plain'
    BY <1>0, BoundsAssumption DEF Crash, TypeOK, Plain, lessonVars, stakeVars
  <2> QED
    BY <1>2, <2>2, <2>3, <2>4, <2>5
<1>3. ASSUME NEW r \in Requests, NEW e \in 1..Len(events), NEW s \in EventStatus,
             TakeBegin(r, e) \/ ReviewRead(r, e, s)
      PROVE  Plain'
  BY <1>0, <1>3, BoundsAssumption DEF TakeBegin, ReviewRead, TypeOK, Plain, lessonVars, stakeVars
<1>4. ASSUME NEW i \in Instructors, Approve(i) \/ Suspend(i) \/ Age(i)
      PROVE  Plain'
  BY <1>0, <1>4 DEF Approve, Suspend, Age, TypeOK, Plain, stakeVars, countVars
<1>5. CASE UNCHANGED vars
  BY <1>1, <1>5 DEF vars, lessonVars, stakeVars, countVars
<1>6. ASSUME NEW r \in Requests,
             \/ \E l \in Lessons : CompleteCheck(r, l)
             \/ StakeCheck(r) \/ Reward(r) \/ Access(r)
             \/ \E i \in Instructors : AuditRead(r, i)
             \/ TakeRead(r) \/ TakeReload(r) \/ TakeRow(r) \/ TakePurchase(r) \/ TakeCentre(r)
             \/ TakeEventReload(r) \/ TakeEvent(r)
      PROVE  Same
  BY <1>6
     DEF lessonVars, stakeVars, countVars, CompleteCheck, StakeCheck, AuditRead,
         Reward, RewardCheck, LogOnly, RewardRead, RewardLog, RewardPurchase, CreditReload,
         RewardCredit, RewardCentre, NoteReload, RewardNote, TakeRead, TakeReload, TakeRow,
         TakePurchase, TakeCentre, TakeEventReload, TakeEvent, Access, SaleRead, SaleSave, CancelRead, CancelPurchases, CancelCentres, CancelAccess
<1>7. CASE Next
  BY <1>1, <1>2, <1>3, <1>4, <1>6, <1>7 DEF Next, Stake, Review
<1> QED
  BY <1>5, <1>7

-----------------------------------------------------------------------------
(* What a handler knows, and what a step has to show. *)

LEMMA Known ==
  ASSUME IInv, NEW r \in Requests
  PROVE  /\ req[r] \in Request /\ Shaped(req[r], Len(events)) /\ Covered(req[r], grants, sales, marks)
         /\ Len(events) \in Nat /\ grants \in Nat /\ sales \in Nat
         /\ row \in UserRow /\ events \in Seq(Event)
         /\ \A e \in 1..Len(events) : events[e] \in Event /\ events[e].prev \in Nat
<1>1. /\ req[r] \in Request /\ row \in UserRow /\ events \in Seq(Event)
      /\ grants \in Nat /\ sales \in Nat
  BY BoundsAssumption DEF IInv, TypeOK
<1>2. Shaped(req[r], Len(events)) /\ Covered(req[r], grants, sales, marks)
  BY DEF IInv, RequestsAreCovered
<1>3. Len(events) \in Nat /\ \A e \in 1..Len(events) : events[e] \in Event
  BY <1>1, LenProperties, ElementOfSeq
<1> QED
  BY <1>1, <1>2, <1>3 DEF Event

LEMMA Step ==
  ASSUME IInv, [Next]_vars, NEW r \in Requests, NEW next \in Request,
         req' = [req EXCEPT ![r] = next],
         Shaped(next, Len(events')), Covered(next, grants', sales', marks),
         events' \in Seq(Event), row' \in UserRow,
         purchases' \subseteq 1..Len(events'), centres' \subseteq 1..Len(events'),
         sales' \in 0..MaxSales, grants' \in Nat,
         Len(events) <= Len(events'), grants <= grants', sales <= sales',
         EventsAreCovered', CreditIsEarned'
  PROVE  IInv'
<1>1. Len(events') \in Nat /\ sales' \in Nat /\ marks \subseteq marks'
  BY LenProperties, BoundsAssumption, MarksStep DEF IInv
<1>2. req' \in [Requests -> Request] /\ RequestsAreCovered'
  BY <1>1, OneRequestMoves
<1>3. Plain'
  BY PlainStep
<1>4. TypeOK'
  BY <1>2, <1>3 DEF TypeOK, Plain
<1> QED
  BY <1>2, <1>4 DEF IInv

\* A step that leaves the log and the learner's rows alone.
LEMMA QuietStep ==
  ASSUME IInv, [Next]_vars, NEW r \in Requests, NEW next \in Request,
         req' = [req EXCEPT ![r] = next],
         Shaped(next, Len(events)), Covered(next, grants, sales, marks),
         UNCHANGED <<events, learnerVars, grants>>
  PROVE  IInv'
<1>1. /\ events' = events /\ row' = row /\ purchases' = purchases /\ centres' = centres
      /\ sales' = sales /\ grants' = grants
  BY DEF learnerVars
<1>2. Len(events) \in Nat /\ grants \in Nat /\ sales \in Nat
  BY Known
<1>3. EventsAreCovered' /\ CreditIsEarned'
  BY <1>1, MarksStep DEF IInv, EventsAreCovered, CreditIsEarned
<1>4. Shaped(next, Len(events')) /\ Covered(next, grants', sales', marks)
  BY <1>1
<1>5. /\ events' \in Seq(Event) /\ row' \in UserRow
      /\ purchases' \subseteq 1..Len(events') /\ centres' \subseteq 1..Len(events')
      /\ sales' \in 0..MaxSales /\ grants' \in Nat
  BY <1>1 DEF IInv, TypeOK
<1>6. Len(events) <= Len(events') /\ grants <= grants' /\ sales <= sales'
  BY <1>1, <1>2
<1> QED
  BY <1>3, <1>4, <1>5, <1>6, Step

-----------------------------------------------------------------------------
(* The steps that only read, or write what is not the learner's. *)

\* The first request of a handler, whatever it starts with.
LEMMA Fresh ==
  ASSUME NEW n \in Nat, NEW g \in Nat, NEW s \in Nat, NEW m, NEW next \in Request,
         next.row = EmptyRow,
         \/ next.op \in {"cancel", "cancelAccess"}
         \/ next.op = "commit" /\ next.lesson \in Lessons
         \/ next.op = "log" /\ next.copy \in Event /\ ("dated" \notin m => next.copy.prev <= s + g)
         \/ /\ next.op \in {"take", "takeEvent"} /\ next.at \in 1..n
            /\ next.copy \in Event /\ ("dated" \notin m => next.copy.prev <= s + g)
  PROVE  Shaped(next, n) /\ Covered(next, g, s, m)
<1>1. Shaped(next, n)
  BY DEF Shaped, LessonOps, TakeOps, PlaceOps
<1>2. /\ next.row.credit = 0 /\ next.row.total = 0 /\ next.row.nav = 0
      /\ 0 <= g /\ 0 <= s + g
  BY DEF EmptyRow
<1>3. Covered(next, g, s, m)
  BY <1>2 DEF Covered, Adds, TakeOps
<1> QED
  BY <1>1, <1>3

LEMMA StartSteps ==
  ASSUME IInv, [Next]_vars, NEW r \in Requests,
         \/ \E l \in Lessons : CompleteCheck(r, l)
         \/ \E i \in Instructors : AuditRead(r, i)
         \/ CancelRead(r)
  PROVE  IInv'
<1> USE Known DEF Start, Starting
<1>1. ASSUME NEW l \in Lessons, CompleteCheck(r, l)
      PROVE  IInv'
  <2> DEFINE next == [Idle EXCEPT !.op = "commit", !.lesson = l]
  <2>1. next \in Request /\ Shaped(next, Len(events)) /\ Covered(next, grants, sales, marks)
    <3>1. /\ next \in Request /\ next.row = EmptyRow
          /\ next.op = "commit" /\ next.lesson = l
      BY IdleIsCovered DEF Idle, Request
    <3> HIDE DEF next
    <3> QED
      BY <3>1, Fresh
  <2>2. req' = [req EXCEPT ![r] = next] /\ UNCHANGED <<events, learnerVars, grants>>
    BY <1>1 DEF CompleteCheck
  <2> QED
    BY <2>1, <2>2, QuietStep
<1>2. ASSUME NEW i \in Instructors, AuditRead(r, i)
      PROVE  IInv'
  <2> DEFINE next == [Idle EXCEPT !.op = "log", !.copy = NewEvent(i, "reversed", FALSE)]
  <2>1. NewEvent(i, "reversed", FALSE) \in Event /\ NewEvent(i, "reversed", FALSE).prev <= sales + grants
    BY DEF NewEvent, Event
  <2>2. next \in Request /\ Shaped(next, Len(events)) /\ Covered(next, grants, sales, marks)
    <3>1. /\ next \in Request /\ next.row = EmptyRow
          /\ next.op = "log" /\ next.copy = NewEvent(i, "reversed", FALSE)
      BY IdleIsCovered, <2>1 DEF Idle, Request
    <3> HIDE DEF next
    <3> QED
      BY <3>1, <2>1, Fresh
  <2>3. req' = [req EXCEPT ![r] = next] /\ UNCHANGED <<events, learnerVars, grants>>
    BY <1>2 DEF AuditRead
  <2> QED
    BY <2>2, <2>3, QuietStep
<1>3. ASSUME CancelRead(r)
      PROVE  IInv'
  <2> DEFINE next == [Idle EXCEPT !.op = IF purchases = {} THEN "cancelAccess" ELSE "cancel",
                                  !.read = purchases]
  <2>1. purchases \in SUBSET Nat
    BY DEF IInv, TypeOK
  <2>2. next \in Request /\ Shaped(next, Len(events)) /\ Covered(next, grants, sales, marks)
    <3>1. /\ next \in Request /\ next.row = EmptyRow
          /\ next.op = IF purchases = {} THEN "cancelAccess" ELSE "cancel"
      BY IdleIsCovered, <2>1 DEF Idle, Request
    <3> HIDE DEF next
    <3> QED
      BY <3>1, <2>1, Fresh
  <2>3. req' = [req EXCEPT ![r] = next] /\ UNCHANGED <<events, learnerVars, grants>>
    BY <1>3 DEF CancelRead
  <2> QED
    BY <2>2, <2>3, QuietStep
<1> QED
  BY <1>1, <1>2, <1>3

LEMMA ReviewSteps ==
  ASSUME IInv, [Next]_vars, NEW r \in Requests, NEW e \in 1..Len(events), NEW s \in EventStatus,
         TakeBegin(r, e) \/ ReviewRead(r, e, s)
  PROVE  IInv'
<1> USE Known DEF Starting
<1>1. /\ e \in Nat /\ events[e] \in Event /\ events[e].prev \in Nat
      /\ "dated" \notin marks => events[e].prev <= sales + grants
  BY DEF IInv, EventsAreCovered
<1>2. CASE TakeBegin(r, e)
  <2> DEFINE next == [Idle EXCEPT !.op = "take", !.at = e, !.copy = events[e]]
  <2>1. next \in Request /\ Shaped(next, Len(events)) /\ Covered(next, grants, sales, marks)
    <3>1. /\ next \in Request /\ next.row = EmptyRow
          /\ next.op = "take" /\ next.at = e /\ next.copy = events[e]
      BY IdleIsCovered, <1>1 DEF Idle, Request
    <3> HIDE DEF next
    <3> QED
      BY <3>1, <1>1, Fresh
  <2>2. req' = [req EXCEPT ![r] = next] /\ UNCHANGED <<events, learnerVars, grants>>
    BY <1>2 DEF TakeBegin
  <2> QED
    BY <2>1, <2>2, QuietStep
<1>3. CASE ReviewRead(r, e, s)
  <2> DEFINE copy == [events[e] EXCEPT !.state = s]
             next == [Idle EXCEPT !.op = "takeEvent", !.at = e, !.copy = copy]
  <2>1. copy \in Event /\ copy.prev = events[e].prev
    BY <1>1 DEF Event
  <2> HIDE DEF copy
  <2>2. next \in Request /\ Shaped(next, Len(events)) /\ Covered(next, grants, sales, marks)
    <3>1. /\ next \in Request /\ next.row = EmptyRow
          /\ next.op = "takeEvent" /\ next.at = e /\ next.copy = copy
      BY IdleIsCovered, <1>1, <2>1 DEF Idle, Request
    <3> HIDE DEF next
    <3> QED
      BY <3>1, <1>1, <2>1, Fresh
  <2>3. req' = [req EXCEPT ![r] = next] /\ UNCHANGED <<events, learnerVars, grants>>
    BY <1>3 DEF ReviewRead, copy
  <2> QED
    BY <2>2, <2>3, QuietStep
<1> QED
  BY <1>2, <1>3

LEMMA LessonSteps ==
  ASSUME IInv, [Next]_vars, NEW r \in Requests,
         \/ CompleteCommit(r) \/ Stake(r) \/ RewardCheck(r) \/ RewardRead(r)
         \/ TakeRead(r) \/ Crash(r)
  PROVE  IInv'
<1> USE Known DEF Keep, LessonOps, TakeOps, PlaceOps, Adds
<1>1. UNCHANGED <<events, learnerVars, grants>>
  BY DEF CompleteCommit, Stake, StakeCheck, StakePay, StakeNote, RewardCheck, RewardRead,
         TakeRead, Crash
<1>2. ASSUME End(r) PROVE IInv'
  BY <1>1, <1>2, IdleIsCovered, QuietStep DEF End
<1>3. ASSUME NEW op \in {"stake", "pay", "noteStake", "reward", "referrer"},
             req[r].lesson \in Lessons, Goto(r, op)
      PROVE  IInv'
  <2> DEFINE next == [req[r] EXCEPT !.op = op]
  <2>1. next \in Request /\ Shaped(next, Len(events)) /\ Covered(next, grants, sales, marks)
    BY <1>3 DEF Request, Shaped, Covered
  <2>2. req' = [req EXCEPT ![r] = next]
    BY <1>3 DEF Goto
  <2> QED
    BY <1>1, <2>1, <2>2, QuietStep
<1>4. req[r].op \in LessonOps => req[r].lesson \in Lessons /\ Of(r) \in Instructors
  BY LessonsAssumption DEF Shaped, Of
<1>5. CASE CompleteCommit(r)
  BY <1>3, <1>4, <1>5 DEF CompleteCommit
<1>6. CASE StakeCheck(r)
  BY <1>2, <1>3, <1>4, <1>6 DEF StakeCheck
<1>7. CASE StakePay(r)
  BY <1>3, <1>4, <1>7 DEF StakePay
<1>8. CASE StakeNote(r) \/ Crash(r)
  BY <1>2, <1>8 DEF StakeNote, Crash
<1>9. CASE RewardCheck(r)
  <2>1. CASE Keep(r, [req[r] EXCEPT !.op = "log", !.copy = NewEvent(Of(r), "held", FALSE)])
    <3> DEFINE next == [req[r] EXCEPT !.op = "log", !.copy = NewEvent(Of(r), "held", FALSE)]
    <3>1. NewEvent(Of(r), "held", FALSE) \in Event /\ NewEvent(Of(r), "held", FALSE).prev = 0
      BY <1>4, <1>9 DEF RewardCheck, NewEvent, Event
    <3>2. next \in Request /\ Shaped(next, Len(events)) /\ Covered(next, grants, sales, marks)
      <4>1. /\ next \in Request /\ next.op = "log" /\ next.copy \in Event /\ next.copy.prev = 0
            /\ next.row = req[r].row
        BY <3>1 DEF Request
      <4> HIDE DEF next
      <4> QED
        BY <4>1 DEF Shaped, Covered
    <3>3. req' = [req EXCEPT ![r] = next]
      BY <2>1
    <3> QED
      BY <1>1, <3>2, <3>3, QuietStep
  <2> QED
    BY <1>2, <1>3, <1>4, <1>9, <2>1 DEF RewardCheck
<1>10. CASE RewardRead(r)
  <2> DEFINE next == [req[r] EXCEPT !.op = "grant", !.row = row]
  <2>1. next \in Request /\ Shaped(next, Len(events)) /\ Covered(next, grants, sales, marks)
    BY <1>4, <1>10 DEF RewardRead, Request, Shaped, Covered, IInv, CreditIsEarned
  <2> QED
    BY <1>1, <1>10, <2>1, QuietStep DEF RewardRead
<1>11. CASE TakeRead(r)
  <2> DEFINE next == [req[r] EXCEPT !.op = "takeRow", !.row = row]
  <2>1. next \in Request /\ Shaped(next, Len(events)) /\ Covered(next, grants, sales, marks)
    BY <1>11 DEF TakeRead, Request, Shaped, Covered, IInv, CreditIsEarned
  <2> QED
    BY <1>1, <1>11, <2>1, QuietStep DEF TakeRead
<1> QED
  BY <1>5, <1>6, <1>7, <1>8, <1>9, <1>10, <1>11 DEF Stake

\* A save that has read the row again knows no more than which columns differ.
LEMMA ReloadSteps ==
  ASSUME IInv, [Next]_vars, NEW r \in Requests,
         CreditReload(r) \/ NoteReload(r) \/ TakeReload(r) \/ TakeEventReload(r)
  PROVE  IInv'
<1> USE Known DEF LessonOps, TakeOps, PlaceOps, Adds
<1>1. ASSUME NEW op \in {"creditSave", "noteSave", "takeRowSave", "takeEventSave"},
             NEW columns \in SUBSET Column, Reload(r, op, columns),
             \/ op = "creditSave" /\ req[r].op = "credit"
             \/ op = "noteSave" /\ req[r].op = "note"
             \/ op = "takeRowSave" /\ req[r].op = "takeRow"
             \/ op = "takeEventSave" /\ req[r].op = "takeEvent",
             UNCHANGED <<events, learnerVars, grants>>
      PROVE  IInv'
  <2> DEFINE next == [req[r] EXCEPT !.op = op, !.columns = columns]
  <2>1. /\ next \in Request /\ next.op = op /\ next.lesson = req[r].lesson
        /\ next.at = req[r].at /\ next.row = req[r].row /\ next.copy = req[r].copy
    BY <1>1 DEF Request
  <2>2. req' = [req EXCEPT ![r] = next]
    BY <1>1 DEF Reload, Keep
  <2> HIDE DEF next
  <2>3. Shaped(next, Len(events)) /\ Covered(next, grants, sales, marks)
    BY <1>1, <2>1 DEF Shaped, Covered
  <2> QED
    BY <1>1, <2>1, <2>2, <2>3, QuietStep
<1>2. CASE CreditReload(r)
  BY <1>1, <1>2 DEF CreditReload, Differing, Column
<1>3. CASE NoteReload(r)
  BY <1>1, <1>3 DEF NoteReload, StateDiffers, Column
<1>4. CASE TakeReload(r)
  BY <1>1, <1>4 DEF TakeReload, Differing, Column
<1>5. CASE TakeEventReload(r)
  BY <1>1, <1>5 DEF TakeEventReload, StateDiffers, Column
<1> QED
  BY <1>2, <1>3, <1>4, <1>5

-----------------------------------------------------------------------------
(* The steps that write the learner's rows. *)

\* Nothing but the learner's row and what belongs to an event changes.
LEMMA RowStep ==
  ASSUME IInv, [Next]_vars, NEW r \in Requests, NEW next \in Request,
         req' = [req EXCEPT ![r] = next],
         Shaped(next, Len(events)), Covered(next, grants, sales, marks),
         UNCHANGED <<events, sales, grants>>,
         row' \in UserRow, row'.credit <= grants, row'.total <= grants,
         "dated" \notin marks' => row'.nav <= sales + grants,
         purchases' \subseteq 1..Len(events), centres' \subseteq 1..Len(events)
  PROVE  IInv'
<1>1. events' = events /\ sales' = sales /\ grants' = grants
  OBVIOUS
<1>2. Len(events) \in Nat /\ grants \in Nat /\ sales \in Nat
  BY Known
<1>3. EventsAreCovered' /\ CreditIsEarned'
  BY <1>1, MarksStep DEF IInv, EventsAreCovered, CreditIsEarned
<1>4. Shaped(next, Len(events')) /\ Covered(next, grants', sales', marks)
  BY <1>1
<1>5. /\ events' \in Seq(Event) /\ sales' \in 0..MaxSales /\ grants' \in Nat
      /\ purchases' \subseteq 1..Len(events') /\ centres' \subseteq 1..Len(events')
  BY <1>1 DEF IInv, TypeOK
<1>6. Len(events) <= Len(events') /\ grants <= grants' /\ sales <= sales'
  BY <1>1, <1>2
<1> QED
  BY <1>3, <1>4, <1>5, <1>6, Step

LEMMA BenefitSteps ==
  ASSUME IInv, [Next]_vars, NEW r \in Requests,
         \/ RewardPurchase(r) \/ RewardCentre(r) \/ TakePurchase(r) \/ TakeCentre(r)
         \/ CancelPurchases(r) \/ CancelCentres(r)
  PROVE  IInv'
<1> USE Known DEF LessonOps, TakeOps, PlaceOps, Adds
<1>1. /\ UNCHANGED <<events, sales, grants>> /\ row' = row
      /\ purchases' \subseteq 1..Len(events) /\ centres' \subseteq 1..Len(events)
  BY DEF IInv, TypeOK, RewardPurchase, RewardCentre, TakePurchase, TakeCentre,
         CancelPurchases, CancelCentres, Shaped
<1>2. /\ row' \in UserRow /\ row'.credit <= grants /\ row'.total <= grants
      /\ "dated" \notin marks' => row'.nav <= sales + grants
  BY <1>1, MarksStep DEF IInv, CreditIsEarned
<1>3. ASSUME NEW next \in Request, req' = [req EXCEPT ![r] = next],
             Shaped(next, Len(events)), Covered(next, grants, sales, marks)
      PROVE  IInv'
  BY <1>1, <1>2, <1>3, RowStep
<1>4. ASSUME NEW op \in {"credit", "note", "takeCentre", "cancelCentres", "cancelAccess"},
             Goto(r, op),
             \/ op = "credit" /\ req[r].op = "purchase"
             \/ op = "note" /\ req[r].op = "centre"
             \/ op = "takeCentre" /\ req[r].op = "takePurchase"
             \/ op \in {"cancelCentres", "cancelAccess"}
      PROVE  IInv'
  <2> DEFINE next == [req[r] EXCEPT !.op = op]
  <2>1. next \in Request /\ Shaped(next, Len(events)) /\ Covered(next, grants, sales, marks)
    BY <1>4 DEF Request, Shaped, Covered
  <2> QED
    BY <1>3, <1>4, <2>1 DEF Goto, Keep
<1>5. CASE TakeCentre(r)
  <2> DEFINE next == [req[r] EXCEPT !.op = "takeEvent", !.copy.state = "reversed"]
  <2>1. req[r].op = "takeCentre" /\ req[r].copy \in Event
    BY <1>5 DEF TakeCentre, Shaped
  <2>2. /\ next \in Request /\ next.op = "takeEvent" /\ next.row = req[r].row
        /\ next.at = req[r].at /\ next.copy \in Event /\ next.copy.prev = req[r].copy.prev
    BY <2>1, ZenonT(60) DEF Request, Event
  <2>3. req' = [req EXCEPT ![r] = next]
    BY <1>5 DEF TakeCentre, Keep
  <2> HIDE DEF next
  <2>4. Shaped(next, Len(events)) /\ Covered(next, grants, sales, marks)
    BY <2>1, <2>2 DEF Shaped, Covered
  <2> QED
    BY <1>3, <2>2, <2>3, <2>4
<1> QED
  BY <1>4, <1>5 DEF RewardPurchase, RewardCentre, TakePurchase, CancelPurchases, CancelCentres

\* Each column of a row that was saved is the old one or the one of the entity.
LEMMA SavedRow ==
  ASSUME row \in UserRow, NEW r, NEW new \in UserRow, SaveRow(r, new)
  PROVE  /\ row' \in UserRow /\ row'.credit \in {row.credit, new.credit}
         /\ row'.total \in {row.total, new.total} /\ row'.nav \in {row.nav, new.nav}
<1> DEFINE column(c) == IF c \in req[r].columns THEN new[c] ELSE row[c]
<1>1. /\ column("credit") \in {row.credit, new.credit} /\ column("total") \in {row.total, new.total}
      /\ column("nav") \in {row.nav, new.nav}
  OBVIOUS
<1>2. row' = [credit |-> column("credit"), total |-> column("total"), nav |-> column("nav")]
  BY DEF SaveRow
<1> HIDE DEF column
<1> QED
  BY <1>1, <1>2 DEF UserRow

LEMMA RowSteps ==
  ASSUME IInv, [Next]_vars, NEW r \in Requests,
         RewardCredit(r) \/ TakeRow(r) \/ SaleSave(r) \/ CancelAccess(r)
  PROVE  IInv'
<1> USE Known DEF LessonOps, TakeOps, PlaceOps, Adds
<1>1. /\ UNCHANGED <<events, sales, grants>>
      /\ purchases' \subseteq 1..Len(events) /\ centres' \subseteq 1..Len(events)
      /\ "dated" \notin marks' => "dated" \notin marks
  BY MarksStep DEF IInv, TypeOK, RewardCredit, TakeRow, SaleSave, CancelAccess
<1>2. /\ row.credit \in Nat /\ row.total \in Nat /\ row.nav \in Nat
      /\ row.credit <= grants /\ row.total <= grants
      /\ "dated" \notin marks => row.nav <= sales + grants
      /\ req[r].row.credit \in Nat /\ req[r].row.total \in Nat /\ req[r].row.nav \in Nat
  BY DEF IInv, CreditIsEarned, UserRow, Request
<1>3. ASSUME NEW next \in Request, req' = [req EXCEPT ![r] = next],
             Shaped(next, Len(events)), Covered(next, grants, sales, marks),
             row' \in UserRow, row'.credit <= grants, row'.total <= grants,
             "dated" \notin marks' => row'.nav <= sales + grants
      PROVE  IInv'
  BY <1>1, <1>3, RowStep
<1>4. ASSUME NEW new \in UserRow, SaveRow(r, new), new.credit <= grants, new.total <= grants,
             "dated" \notin marks => new.nav <= sales + grants
      PROVE  /\ row' \in UserRow /\ row'.credit <= grants /\ row'.total <= grants
             /\ "dated" \notin marks' => row'.nav <= sales + grants
  BY <1>1, <1>2, <1>4, SavedRow
<1>5. CASE RewardCredit(r)
  <2> DEFINE next == [req[r] EXCEPT !.op = "centre"]
  <2>1. next \in Request /\ Shaped(next, Len(events)) /\ Covered(next, grants, sales, marks)
    BY <1>5 DEF RewardCredit, Request, Shaped, Covered
  <2>2. /\ Credited(r) \in UserRow /\ Credited(r).credit <= grants /\ Credited(r).total <= grants
        /\ "dated" \notin marks => Credited(r).nav <= sales + grants
    <3>1. /\ Credited(r).credit = req[r].row.credit + 1 /\ Credited(r).total = req[r].row.total + 1
          /\ Credited(r).nav = req[r].row.nav + 1 /\ Credited(r) \in UserRow
      <4> DEFINE c == req[r].row.credit + 1
                 t == req[r].row.total + 1
                 n == req[r].row.nav + 1
      <4>1. Credited(r) = [credit |-> c, total |-> t, nav |-> n]
        BY DEF Credited
      <4>2. c \in Nat /\ t \in Nat /\ n \in Nat
        <5>1. \A k \in Nat : k + 1 \in Nat
          OBVIOUS
        <5> QED
          BY <1>2, <5>1, Zenon
      <4> HIDE DEF c, t, n
      <4>3. /\ Credited(r).credit = c /\ Credited(r).total = t /\ Credited(r).nav = n
            /\ Credited(r) \in UserRow
        BY <4>1, <4>2 DEF UserRow
      <4> QED
        BY <4>3 DEF c, t, n
    <3>2. /\ req[r].row.credit + 1 <= grants /\ req[r].row.total + 1 <= grants
          /\ "dated" \notin marks => req[r].row.nav + 1 <= sales + grants
      BY <1>5 DEF RewardCredit, Covered
    <3> QED
      BY <3>1, <3>2
  <2> QED
    BY <1>3, <1>4, <1>5, <2>1, <2>2 DEF RewardCredit, Goto, Keep
<1>6. CASE TakeRow(r)
  <2> DEFINE next == [req[r] EXCEPT !.op = "takePurchase"]
  <2>1. next \in Request /\ Shaped(next, Len(events)) /\ Covered(next, grants, sales, marks)
    BY <1>6 DEF TakeRow, Request, Shaped, Covered
  <2>2. /\ req[r].copy.prev \in Nat
        /\ "dated" \notin marks => req[r].copy.prev <= sales + grants
    BY <1>6 DEF TakeRow, Shaped, Covered, Event
  <2>3. /\ TakenBack(r) \in UserRow /\ TakenBack(r).credit <= grants /\ TakenBack(r).total <= grants
        /\ "dated" \notin marks => TakenBack(r).nav <= sales + grants
    <3> DEFINE rest == IF req[r].row.credit = 0 THEN 0 ELSE req[r].row.credit - 1
    <3>1. rest \in Nat /\ rest <= req[r].row.credit
      BY <1>2
    <3>2. TakenBack(r) = [credit |-> rest, total |-> req[r].row.total, nav |-> req[r].copy.prev]
      BY DEF TakenBack
    <3> HIDE DEF rest
    <3>3. req[r].row.credit <= grants /\ req[r].row.total <= grants
      BY DEF Covered
    <3>4. /\ TakenBack(r).credit = rest /\ TakenBack(r).total = req[r].row.total
          /\ TakenBack(r).nav = req[r].copy.prev /\ TakenBack(r) \in UserRow
      BY <1>2, <2>2, <3>1, <3>2 DEF UserRow
    <3> QED
      BY <1>2, <2>2, <3>1, <3>3, <3>4
  <2> QED
    BY <1>3, <1>4, <1>6, <2>1, <2>3 DEF TakeRow, Goto, Keep
<1>7. CASE SaleSave(r) \/ CancelAccess(r)
  <2>1. Idle \in Request /\ Shaped(Idle, Len(events)) /\ Covered(Idle, grants, sales, marks)
    BY IdleIsCovered
  <2>2. PICK nav \in Nat : /\ row' = [row EXCEPT !.nav = nav]
                           /\ "dated" \notin marks' => nav <= sales + grants
    <3>1. CASE CancelAccess(r)
      <4>1. 0 \in Nat /\ 0 <= sales + grants /\ row' = [row EXCEPT !.nav = 0]
        BY <3>1 DEF CancelAccess
      <4> QED
        BY <4>1
    <3>2. CASE SaleSave(r) /\ row' = [row EXCEPT !.nav = req[r].row.nav + 1]
      <4> DEFINE n == req[r].row.nav + 1
      <4>1. n \in Nat /\ row' = [row EXCEPT !.nav = n]
        BY <1>2, <3>2
      <4>2. "dated" \notin marks' => n <= sales + grants
        BY <1>1, <3>2 DEF SaleSave, Covered
      <4> HIDE DEF n
      <4> QED
        BY <4>1, <4>2
    <3>3. ASSUME NEW end \in Ends, row' = [row EXCEPT !.nav = end], marks' = marks \cup {"dated"}
          PROVE  \E nav \in Nat : /\ row' = [row EXCEPT !.nav = nav]
                                  /\ "dated" \notin marks' => nav <= sales + grants
      BY <3>3, BoundsAssumption
    <3> QED
      BY <1>7, <3>1, <3>2, <3>3 DEF SaleSave
  <2>3. row' \in UserRow /\ row'.credit = row.credit /\ row'.total = row.total /\ row'.nav = nav
    BY <2>2 DEF UserRow
  <2> QED
    BY <1>2, <1>3, <1>7, <2>1, <2>2, <2>3 DEF SaleSave, CancelAccess, End, Keep
<1> QED
  BY <1>5, <1>6, <1>7

-----------------------------------------------------------------------------
(* The steps that log an event or save one. *)

LEMMA LogSteps ==
  ASSUME IInv, [Next]_vars, NEW r \in Requests, LogOnly(r) \/ RewardLog(r)
  PROVE  IInv'
<1> USE Known DEF LessonOps, TakeOps, PlaceOps, Adds
<1>0. marks \subseteq marks'
  BY MarksStep DEF IInv
<1>1. ASSUME NEW new \in Event, "dated" \notin marks => new.prev <= sales + grants,
             events' = Append(events, new),
             NEW next \in Request, req' = [req EXCEPT ![r] = next],
             grants' \in Nat, grants <= grants', UNCHANGED learnerVars,
             Shaped(next, Len(events) + 1), Covered(next, grants', sales, marks)
      PROVE  IInv'
  <2>1. /\ events' \in Seq(Event) /\ Len(events') = Len(events) + 1
        /\ \A e \in 1..Len(events') :
             events'[e] = IF e = Len(events) + 1 THEN new ELSE events[e]
    BY <1>1, AppendProperties
  <2>2. row' = row /\ purchases' = purchases /\ centres' = centres /\ sales' = sales
    BY <1>1 DEF learnerVars
  <2>3. /\ row' \in UserRow /\ sales' \in 0..MaxSales
        /\ purchases' \subseteq 1..Len(events') /\ centres' \subseteq 1..Len(events')
    BY <2>1, <2>2 DEF IInv, TypeOK
  <2>4. new.prev \in Nat /\ row.credit \in Nat /\ row.total \in Nat /\ row.nav \in Nat
    BY DEF Event, UserRow
  <2>5. EventsAreCovered'
    <3> SUFFICES ASSUME "dated" \notin marks', NEW e \in 1..Len(events')
                 PROVE  events'[e].prev <= sales' + grants'
      BY DEF EventsAreCovered
    <3>1. CASE e = Len(events) + 1
      BY <1>0, <1>1, <2>1, <2>2, <2>4, <3>1
    <3>2. CASE e # Len(events) + 1
      <4>1. e \in 1..Len(events) /\ events'[e] = events[e]
        BY <2>1, <3>2
      <4>2. events[e].prev <= sales + grants /\ events[e].prev \in Nat
        BY <1>0, <4>1 DEF IInv, EventsAreCovered
      <4> QED
        BY <1>1, <2>2, <4>1, <4>2
    <3> QED
      BY <3>1, <3>2
  <2>6. CreditIsEarned'
    BY <1>0, <1>1, <2>2, <2>4 DEF IInv, CreditIsEarned
  <2>7. /\ Shaped(next, Len(events')) /\ Covered(next, grants', sales', marks)
        /\ Len(events) <= Len(events') /\ sales <= sales'
    BY <1>1, <2>1, <2>2
  <2> QED
    BY <1>1, <2>1, <2>3, <2>5, <2>6, <2>7, Step
<1>2. CASE LogOnly(r)
  <2>1. req[r].copy \in Event /\ ("dated" \notin marks => req[r].copy.prev <= sales + grants)
    BY <1>2 DEF LogOnly, Shaped, Covered
  <2>2. Idle \in Request /\ Shaped(Idle, Len(events) + 1) /\ Covered(Idle, grants', sales, marks)
    BY <1>2, IdleIsCovered DEF LogOnly
  <2>3. events' = Append(events, req[r].copy) /\ req' = [req EXCEPT ![r] = Idle]
    BY <1>2 DEF LogOnly, End, Keep
  <2>4. grants' = grants /\ grants' \in Nat /\ grants <= grants' /\ UNCHANGED learnerVars
    BY <1>2 DEF LogOnly
  <2> QED
    BY <1>1, <2>1, <2>2, <2>3, <2>4
<1>3. CASE RewardLog(r)
  <2> DEFINE new == NewEvent(Of(r), "released", TRUE)
             next == [req[r] EXCEPT !.op = "purchase", !.at = Len(events) + 1]
  <2>1. req[r].lesson \in Lessons /\ req[r].op = "grant"
    BY <1>3 DEF RewardLog, Shaped
  <2>2. new \in Event /\ new.prev = 0
    BY <2>1, LessonsAssumption DEF NewEvent, Event, Of
  <2>3. /\ next \in Request /\ next.op = "purchase" /\ next.at = Len(events) + 1
        /\ next.lesson \in Lessons /\ next.row = req[r].row
    <3>1. Len(events) + 1 \in Nat
      OBVIOUS
    <3> QED
      BY <2>1, <3>1 DEF Request
  <2>4. grants' = grants + 1 /\ events' = Append(events, new) /\ req' = [req EXCEPT ![r] = next]
    BY <1>3 DEF RewardLog, Keep
  <2>5. UNCHANGED learnerVars
    BY <1>3 DEF RewardLog
  <2> HIDE DEF new, next
  <2>6. Shaped(next, Len(events) + 1)
    BY <2>3 DEF Shaped
  <2>7. /\ req[r].row.credit \in Nat /\ req[r].row.total \in Nat /\ req[r].row.nav \in Nat
        /\ req[r].row.credit <= grants /\ req[r].row.total <= grants
        /\ "dated" \notin marks => req[r].row.nav <= sales + grants
    BY DEF Covered, Request, UserRow
  <2>8. Covered(next, grants', sales, marks)
    BY <2>3, <2>4, <2>7, SMTT(30) DEF Covered
  <2>9. grants' \in Nat /\ grants <= grants' /\ new.prev <= sales + grants
    BY <2>2, <2>4
  <2> QED
    BY <1>1, <2>2, <2>3, <2>4, <2>5, <2>6, <2>8, <2>9
<1> QED
  BY <1>2, <1>3

\* The event that was saved: all of the entity but the state, if that did not differ.
LEMMA SavedEvent ==
  ASSUME NEW r, NEW new \in Event, events[req[r].at] \in Event, SaveEvent(r, new)
  PROVE  \E e \in Event : /\ events' = [events EXCEPT ![req[r].at] = e]
                          /\ e.by = new.by /\ e.prev = new.prev /\ e.granted = new.granted
                          /\ e.noted = new.noted
                          /\ e.state = IF "state" \in req[r].columns
                                       THEN new.state ELSE events[req[r].at].state
<1> DEFINE state == IF "state" \in req[r].columns THEN new.state ELSE events[req[r].at].state
           e == [new EXCEPT !.state = state]
<1>1. state \in EventStatus
  BY DEF Event
<1>2. events' = [events EXCEPT ![req[r].at] = e]
  BY DEF SaveEvent
<1> HIDE DEF state
<1>3. /\ e \in Event /\ e.by = new.by /\ e.prev = new.prev /\ e.granted = new.granted
      /\ e.noted = new.noted /\ e.state = state
  BY <1>1 DEF Event
<1> HIDE DEF e
<1> QED
  BY <1>2, <1>3 DEF state

LEMMA SaveSteps ==
  ASSUME IInv, [Next]_vars, NEW r \in Requests, RewardNote(r) \/ TakeEvent(r)
  PROVE  IInv'
<1> USE Known DEF LessonOps, TakeOps, PlaceOps, Adds
<1>1. ASSUME NEW e \in 1..Len(events), NEW new \in Event,
             "dated" \notin marks => new.prev <= sales + grants,
             events' = [events EXCEPT ![e] = new], End(r), UNCHANGED <<learnerVars, grants>>
      PROVE  IInv'
  <2>1. /\ events' \in Seq(Event) /\ Len(events') = Len(events)
        /\ \A d \in 1..Len(events) : events'[d] = IF d = e THEN new ELSE events[d]
    BY <1>1, ExceptSeq
  <2>2. /\ row' = row /\ purchases' = purchases /\ centres' = centres /\ sales' = sales
        /\ grants' = grants
    BY <1>1 DEF learnerVars
  <2>3. /\ row' \in UserRow /\ sales' \in 0..MaxSales /\ grants' \in Nat
        /\ purchases' \subseteq 1..Len(events') /\ centres' \subseteq 1..Len(events')
    BY <2>1, <2>2 DEF IInv, TypeOK
  <2>4. EventsAreCovered' /\ CreditIsEarned'
    BY <1>1, <2>1, <2>2, MarksStep DEF IInv, EventsAreCovered, CreditIsEarned
  <2>5. Idle \in Request /\ Shaped(Idle, Len(events')) /\ Covered(Idle, grants', sales', marks)
    BY <2>1, <2>2, IdleIsCovered
  <2>6. Len(events) <= Len(events') /\ grants <= grants' /\ sales <= sales'
    BY <2>1, <2>2
  <2> QED
    BY <1>1, <2>1, <2>3, <2>4, <2>5, <2>6, Step DEF End, Keep
<1>2. ASSUME req[r].at \in 1..Len(events), NEW new \in Event, SaveEvent(r, new), End(r),
             UNCHANGED <<learnerVars, grants>>,
             "dated" \notin marks => new.prev <= sales + grants
      PROVE  IInv'
  BY <1>1, <1>2, SavedEvent
<1>3. CASE RewardNote(r)
  <2> DEFINE new == [by |-> events[req[r].at].by, state |-> "released", granted |-> TRUE,
                     noted |-> TRUE, prev |-> req[r].row.nav]
  <2>1. req[r].at \in 1..Len(events) /\ events[req[r].at] \in Event
    BY <1>3 DEF RewardNote, Shaped
  <2>2. req[r].row.nav \in Nat /\ ("dated" \notin marks => req[r].row.nav <= sales + grants)
    BY DEF Request, UserRow, Covered
  <2>3. new \in Event /\ new.prev = req[r].row.nav
    BY <2>1, <2>2 DEF Event
  <2>4. SaveEvent(r, new) /\ End(r) /\ UNCHANGED <<learnerVars, grants>>
    BY <1>3 DEF RewardNote
  <2> HIDE DEF new
  <2> QED
    BY <1>2, <2>1, <2>2, <2>3, <2>4
<1>4. CASE TakeEvent(r)
  <2>1. /\ req[r].at \in 1..Len(events) /\ req[r].copy \in Event
        /\ "dated" \notin marks => req[r].copy.prev <= sales + grants
    BY <1>4 DEF TakeEvent, Shaped, Covered
  <2> QED
    BY <1>2, <1>4, <2>1 DEF TakeEvent
<1> QED
  BY <1>3, <1>4

LEMMA SaleStep ==
  ASSUME IInv, [Next]_vars, NEW r \in Requests, SaleRead(r)
  PROVE  IInv'
<1> USE Known DEF LessonOps, TakeOps, PlaceOps, Adds
<1> DEFINE next == [Idle EXCEPT !.op = "sale", !.row = row]
<1>1. /\ sales' = sales + 1 /\ sales < MaxSales /\ req' = [req EXCEPT ![r] = next]
      /\ events' = events /\ row' = row /\ purchases' = purchases /\ centres' = centres
      /\ grants' = grants
  BY DEF SaleRead, Start, Starting
<1>2. next \in Request /\ next.op = "sale" /\ next.row = row
  BY IdleIsCovered DEF Idle, Request
<1> HIDE DEF next
<1>3. /\ row.credit \in Nat /\ row.total \in Nat /\ row.nav \in Nat
      /\ row.credit <= grants /\ row.total <= grants
      /\ "dated" \notin marks => row.nav <= sales + grants
  BY DEF IInv, CreditIsEarned, UserRow
<1>4. Shaped(next, Len(events')) /\ Covered(next, grants', sales', marks)
  BY <1>1, <1>2, <1>3 DEF Shaped, Covered
<1>5. sales' \in 0..MaxSales /\ sales <= sales'
  BY <1>1, BoundsAssumption
<1>6. EventsAreCovered'
  <2> SUFFICES ASSUME "dated" \notin marks', NEW e \in 1..Len(events)
               PROVE  events[e].prev <= sales' + grants
    BY <1>1 DEF EventsAreCovered
  <2>1. events[e].prev \in Nat /\ events[e].prev <= sales + grants
    BY MarksStep DEF IInv, EventsAreCovered
  <2> QED
    BY <1>1, <2>1
<1>7. CreditIsEarned'
  BY <1>1, <1>3, MarksStep DEF IInv, CreditIsEarned
<1>8. /\ events' \in Seq(Event) /\ row' \in UserRow /\ grants' \in Nat
      /\ purchases' \subseteq 1..Len(events') /\ centres' \subseteq 1..Len(events')
      /\ Len(events) <= Len(events') /\ grants <= grants'
  BY <1>1 DEF IInv, TypeOK
<1> QED
  BY <1>1, <1>2, <1>4, <1>5, <1>6, <1>7, <1>8, Step

-----------------------------------------------------------------------------
THEOREM NextIInv == IInv /\ [Next]_vars => IInv'
<1> SUFFICES ASSUME IInv, [Next]_vars PROVE IInv'
  OBVIOUS
<1>1. ASSUME UNCHANGED <<events, learnerVars, grants, req>>
      PROVE  IInv'
  <2>1. Plain'
    BY PlainStep
  <2>2. /\ events' = events /\ row' = row /\ purchases' = purchases /\ centres' = centres
        /\ sales' = sales /\ grants' = grants /\ req' = req
    BY <1>1 DEF learnerVars
  <2>3. TypeOK'
    BY <2>1, <2>2 DEF IInv, TypeOK, Plain
  <2>4. marks \subseteq marks'
    BY MarksStep DEF IInv
  <2>5. RequestsAreCovered'
    <3> SUFFICES ASSUME NEW r \in Requests
                 PROVE  Shaped(req[r], Len(events)) /\ Covered(req[r], grants, sales, marks')
      BY <2>2 DEF RequestsAreCovered
    <3> QED
      BY <2>4, Known, CoverGrows
  <2> QED
    BY <2>2, <2>3, <2>4, <2>5 DEF IInv, EventsAreCovered, CreditIsEarned
<1>2. CASE UNCHANGED vars
  BY <1>1, <1>2 DEF vars
<1>3. ASSUME NEW i \in Instructors, Approve(i) \/ Suspend(i) \/ Age(i)
      PROVE  IInv'
  BY <1>1, <1>3 DEF Approve, Suspend, Age
<1>4. ASSUME NEW r \in Requests, Review(r)
      PROVE  IInv'
  BY <1>4, ReviewSteps, LessonSteps, ReloadSteps, BenefitSteps, RowSteps, SaveSteps DEF Review
<1>5. ASSUME NEW r \in Requests, Reward(r) \/ Access(r)
      PROVE  IInv'
  BY <1>5, StartSteps, LessonSteps, ReloadSteps, BenefitSteps, RowSteps, LogSteps, SaveSteps, SaleStep
     DEF Reward, Access
<1>6. CASE Next
  BY <1>3, <1>4, <1>5, <1>6, StartSteps, LessonSteps DEF Next
<1> QED
  BY <1>2, <1>6

\* Every reachable state is well typed.
THEOREM TypeCorrect == Spec => []TypeOK
<1>1. IInv => TypeOK
  BY DEF IInv
<1> QED
  BY <1>1, InitIInv, NextIInv, PTL DEF Spec

\* The learner never has more credit, nor a higher total, than rewards were
\* logged, nor more years of navigation than rewards and purchases account for
\* unless Apple gave an end: whatever columns the saves of stale rows write.
THEOREM EarnedOnly == Spec => []CreditIsEarned
<1>1. IInv => CreditIsEarned
  BY DEF IInv
<1> QED
  BY <1>1, InitIInv, NextIInv, PTL DEF Spec

-----------------------------------------------------------------------------
(* Every completed lesson is settled.                                        *)

\* A handler is about to look at a reward of instructor i, or to log why there
\* is none; a handler is about to note the payout of lesson l.
LooksAt(q, i) ==
  \/ q.op \in {"reward", "referrer", "grant"} /\ Teacher[q.lesson] = i
  \/ q.op = "log" /\ q.copy.by = i
Notes(q, l) == q.op = "noteStake" /\ q.lesson = l
Logged(i) == \E e \in 1..Len(events) : events[e].by = i

\* What an administrator's review has copied still belongs to the instructor
\* whose event it will overwrite: no event ever changes hands.
CopiesAreTrue ==
  \A r \in Requests : req[r].op \in TakeOps => req[r].copy.by = events[req[r].at].by

\* As long as no handler died, somebody is on the way to what is missing.
SettledInv ==
  /\ CopiesAreTrue
  /\ crashes = 0 =>
       \A l \in Lessons :
         /\ l \in completed /\ Teacher[l] \in ByLearner =>
              Logged(Teacher[l]) \/ \E r \in Requests : LooksAt(req[r], Teacher[l])
         /\ payouts[l] > 0 => l \in staked \/ \E r \in Requests : Notes(req[r], l)

OthersWait(r) == \A p \in Requests \ {r} : req'[p] = req[p]
LogGrows ==
  /\ Len(events) \in Nat /\ Len(events') \in Nat /\ Len(events) <= Len(events')
  /\ \A e \in 1..Len(events) : events'[e].by = events[e].by

\* The fields of a request that goes on.
LEMMA GoesOn ==
  ASSUME NEW q \in Request, NEW op
  PROVE  /\ [q EXCEPT !.op = op].op = op /\ [q EXCEPT !.op = op].lesson = q.lesson
         /\ [q EXCEPT !.op = op].row = q.row /\ [q EXCEPT !.op = op].at = q.at
         /\ [q EXCEPT !.op = op].copy = q.copy /\ [q EXCEPT !.op = op].read = q.read
BY DEF Request

LEMMA LoggedStays ==
  ASSUME LogGrows, NEW i, Logged(i)
  PROVE  Logged(i)'
BY DEF LogGrows, Logged

\* One handler moves; what it owed it has done, or still owes.
LEMMA SettledStep ==
  ASSUME IInv, SettledInv, NEW r \in Requests, OthersWait(r), LogGrows,
         req'[r].op \in TakeOps => req'[r].copy.by = events'[req'[r].at].by,
         crashes' = 0 =>
           /\ crashes = 0
           /\ \A l \in completed' \ completed : Teacher[l] \in ByLearner => LooksAt(req'[r], Teacher[l])
           /\ \A i \in Instructors : LooksAt(req[r], i) => LooksAt(req'[r], i) \/ Logged(i)'
           /\ \A l \in Lessons : payouts'[l] > 0 => payouts[l] > 0 \/ Notes(req'[r], l)
           /\ \A l \in Lessons : Notes(req[r], l) => l \in staked'
           /\ staked \subseteq staked'
  PROVE  SettledInv'
<1>1. CopiesAreTrue'
  <2> SUFFICES ASSUME NEW p \in Requests, req'[p].op \in TakeOps
               PROVE  req'[p].copy.by = events'[req'[p].at].by
    BY DEF CopiesAreTrue
  <2>1. CASE p = r
    BY <2>1
  <2>2. CASE p # r
    <3>1. req'[p] = req[p] /\ req[p].copy.by = events[req[p].at].by
      BY <2>2 DEF OthersWait, SettledInv, CopiesAreTrue
    <3>2. req[p].at \in 1..Len(events)
      BY <3>1, Known DEF Shaped, PlaceOps
    <3> QED
      BY <3>1, <3>2 DEF LogGrows
  <2> QED
    BY <2>1, <2>2
<1>2. ASSUME crashes' = 0, NEW l \in Lessons, l \in completed', Teacher[l] \in ByLearner
      PROVE  Logged(Teacher[l])' \/ \E p \in Requests : LooksAt(req'[p], Teacher[l])
  <2>1. Teacher[l] \in Instructors
    BY LessonsAssumption
  <2>2. CASE l \in completed
    <3>1. Logged(Teacher[l]) \/ \E p \in Requests : LooksAt(req[p], Teacher[l])
      BY <1>2, <2>2 DEF SettledInv
    <3>2. Logged(Teacher[l]) => Logged(Teacher[l])'
      BY LoggedStays
    <3>3. ASSUME NEW p \in Requests, LooksAt(req[p], Teacher[l])
          PROVE  Logged(Teacher[l])' \/ LooksAt(req'[p], Teacher[l])
      <4>1. CASE p = r
        BY <1>2, <2>1, <3>3, <4>1
      <4>2. CASE p # r
        BY <3>3, <4>2 DEF OthersWait
      <4> QED
        BY <4>1, <4>2
    <3> QED
      BY <3>1, <3>2, <3>3
  <2>3. CASE l \notin completed
    BY <1>2, <2>3
  <2> QED
    BY <2>2, <2>3
<1>3. ASSUME crashes' = 0, NEW l \in Lessons, payouts'[l] > 0
      PROVE  l \in staked' \/ \E p \in Requests : Notes(req'[p], l)
  <2>1. CASE payouts[l] > 0
    <3>1. l \in staked \/ \E p \in Requests : Notes(req[p], l)
      BY <1>3, <2>1 DEF SettledInv
    <3>2. ASSUME NEW p \in Requests, Notes(req[p], l)
          PROVE  l \in staked' \/ Notes(req'[p], l)
      <4>1. CASE p = r
        BY <1>3, <3>2, <4>1
      <4>2. CASE p # r
        BY <3>2, <4>2 DEF OthersWait
      <4> QED
        BY <4>1, <4>2
    <3> QED
      BY <1>3, <3>1, <3>2
  <2>2. CASE ~(payouts[l] > 0)
    BY <1>3, <2>2
  <2> QED
    BY <2>1, <2>2
<1>4. SettledInv' = (/\ CopiesAreTrue'
                     /\ crashes' = 0 =>
                          \A l \in Lessons :
                            /\ l \in completed' /\ Teacher[l] \in ByLearner =>
                                 Logged(Teacher[l])' \/ \E p \in Requests : LooksAt(req'[p], Teacher[l])
                            /\ payouts'[l] > 0 => l \in staked' \/ \E p \in Requests : Notes(req'[p], l))
  BY Zenon DEF SettledInv, LooksAt, Notes
<1> QED
  BY <1>1, <1>2, <1>3, <1>4

LEMMA SettledInvFirst == Init => SettledInv
BY DEF Init, SettledInv, CopiesAreTrue, TakeOps, Idle

\* The steps that neither log nor settle anything.
LEMMA BystandersSettle ==
  ASSUME IInv, SettledInv, NEW r \in Requests,
         \/ \E l \in Lessons : CompleteCheck(r, l)
         \/ \E i \in Instructors : AuditRead(r, i)
         \/ StakeCheck(r) \/ RewardPurchase(r) \/ CreditReload(r) \/ RewardCredit(r)
         \/ RewardCentre(r) \/ NoteReload(r)
         \/ \E e \in 1..Len(events) : TakeBegin(r, e) \/ \E s \in EventStatus : ReviewRead(r, e, s)
         \/ TakeRead(r) \/ TakeReload(r) \/ TakeRow(r) \/ TakePurchase(r) \/ TakeCentre(r)
         \/ TakeEventReload(r) \/ Access(r)
  PROVE  SettledInv'
<1>0. /\ req \in [Requests -> Request] /\ req[r] \in Request
      /\ req[r].op \in TakeOps => req[r].copy \in Event /\ req[r].at \in 1..Len(events)
      /\ req[r].op \in TakeOps => req[r].copy.by = events[req[r].at].by
      /\ \A e \in 1..Len(events) : events[e] \in Event
      /\ Len(events) \in Nat
  BY Known DEF IInv, TypeOK, Shaped, PlaceOps, SettledInv, CopiesAreTrue
<1> DEFINE Idles == /\ completed' = completed /\ payouts' = payouts /\ staked' = staked
                    /\ events' = events /\ crashes' = crashes /\ OthersWait(r)
                    /\ req[r].op \notin {"reward", "referrer", "grant", "log", "noteStake"}
           Copies == req'[r].op \in TakeOps => req'[r].copy.by = events'[req'[r].at].by
<1>1. Idles
  <2> USE <1>0 DEF Start, Starting, Goto, Keep, Reload, End, lessonVars, stakeVars, countVars, OthersWait
  <2>1. ASSUME NEW l \in Lessons, CompleteCheck(r, l)
        PROVE  Idles
    BY <2>1 DEF CompleteCheck
  <2>2. ASSUME NEW i \in Instructors, AuditRead(r, i)
        PROVE  Idles
    BY <2>2 DEF AuditRead
  <2>3. ASSUME NEW e \in 1..Len(events), TakeBegin(r, e)
        PROVE  Idles
    BY <2>3 DEF TakeBegin
  <2>4. ASSUME NEW e \in 1..Len(events), NEW s \in EventStatus, ReviewRead(r, e, s)
        PROVE  Idles
    BY <2>4 DEF ReviewRead
  <2>5. ASSUME \/ StakeCheck(r) \/ RewardPurchase(r) \/ CreditReload(r) \/ RewardCredit(r)
               \/ RewardCentre(r) \/ NoteReload(r)
        PROVE  Idles
    BY <2>5 DEF StakeCheck, RewardPurchase, CreditReload, RewardCredit, RewardCentre, NoteReload
  <2>6. ASSUME \/ TakeRead(r) \/ TakeReload(r) \/ TakeRow(r) \/ TakePurchase(r) \/ TakeCentre(r)
               \/ TakeEventReload(r)
        PROVE  Idles
    BY <2>6 DEF TakeRead, TakeReload, TakeRow, TakePurchase, TakeCentre, TakeEventReload
  <2>7. ASSUME Access(r)
        PROVE  Idles
    BY <2>7 DEF Access, SaleRead, SaleSave, CancelRead, CancelPurchases, CancelCentres, CancelAccess
  <2> HIDE DEF Idles
  <2> QED
    BY <2>1, <2>2, <2>3, <2>4, <2>5, <2>6, <2>7
<1>2. Copies
  <2> USE <1>0, <1>1 DEF Start, Starting, Goto, Keep, End, Idle, TakeOps
  <2>1. ASSUME NEW e \in 1..Len(events), TakeBegin(r, e)
        PROVE  Copies
    <3>1. req'[r].copy = events[e] /\ req'[r].at = e
      BY <2>1 DEF TakeBegin
    <3> QED
      BY <3>1
  <2>2. ASSUME NEW e \in 1..Len(events), NEW s \in EventStatus, ReviewRead(r, e, s)
        PROVE  Copies
    <3>1. req'[r].copy = [events[e] EXCEPT !.state = s] /\ req'[r].at = e
      BY <2>2 DEF ReviewRead
    <3>2. req'[r].copy.by = events[e].by
      BY <3>1 DEF Event
    <3> QED
      BY <3>1, <3>2
  <2>3. ASSUME \/ TakeRead(r) \/ TakeReload(r) \/ TakeRow(r) \/ TakePurchase(r) \/ TakeCentre(r)
               \/ TakeEventReload(r)
        PROVE  Copies
    <3>1. req[r].op \in TakeOps /\ req'[r].copy.by = req[r].copy.by /\ req'[r].at = req[r].at
      <4>1. CASE TakeCentre(r)
        <5>1. req'[r] = [req[r] EXCEPT !.op = "takeEvent", !.copy.state = "reversed"]
          BY <4>1 DEF TakeCentre
        <5>2. req'[r].copy = [req[r].copy EXCEPT !.state = "reversed"] /\ req'[r].at = req[r].at
          BY <5>1 DEF Request
        <5>3. req[r].copy \in Event
          BY <4>1 DEF TakeCentre
        <5>4. req'[r].copy.by = req[r].copy.by
          BY <5>2, <5>3 DEF Event
        <5> QED
          BY <4>1, <5>2, <5>4 DEF TakeCentre
      <4>2. CASE TakeRead(r)
        <5>1. req'[r] = [req[r] EXCEPT !.op = "takeRow", !.row = row] /\ req[r].op = "take"
          BY <4>2 DEF TakeRead
        <5> QED
          BY <5>1 DEF Request
      <4>3. CASE TakeRow(r)
        <5>1. req'[r] = [req[r] EXCEPT !.op = "takePurchase"] /\ req[r].op = "takeRowSave"
          BY <4>3 DEF TakeRow
        <5> QED
          BY <5>1 DEF Request
      <4>4. CASE TakePurchase(r)
        <5>1. req'[r] = [req[r] EXCEPT !.op = "takeCentre"] /\ req[r].op = "takePurchase"
          BY <4>4 DEF TakePurchase
        <5> QED
          BY <5>1 DEF Request
      <4>5. CASE TakeReload(r) \/ TakeEventReload(r)
        <5>1. PICK op, columns : Reload(r, op, columns) /\ req[r].op \in TakeOps
          BY <4>5 DEF TakeReload, TakeEventReload
        <5>2. req'[r] = [req[r] EXCEPT !.op = op, !.columns = columns]
          BY <5>1 DEF Reload
        <5> QED
          BY <5>1, <5>2 DEF Request
      <4> QED
        BY <2>3, <4>1, <4>2, <4>3, <4>4, <4>5
    <3> QED
      BY <3>1
  <2>4. ASSUME NEW l \in Lessons, CompleteCheck(r, l)
        PROVE  Copies
    BY <2>4 DEF CompleteCheck
  <2>5. ASSUME NEW i \in Instructors, AuditRead(r, i)
        PROVE  Copies
    BY <2>5 DEF AuditRead
  <2>6. ASSUME \/ StakeCheck(r) \/ RewardPurchase(r) \/ CreditReload(r) \/ RewardCredit(r)
               \/ RewardCentre(r) \/ NoteReload(r)
        PROVE  Copies
    <3>1. CASE StakeCheck(r) \/ RewardPurchase(r) \/ RewardCredit(r) \/ RewardCentre(r)
      BY <3>1 DEF StakeCheck, RewardPurchase, RewardCredit, RewardCentre, Request
    <3>2. CASE CreditReload(r) \/ NoteReload(r)
      <4>1. PICK op, columns : op \in {"creditSave", "noteSave"} /\ Reload(r, op, columns)
        BY <3>2 DEF CreditReload, NoteReload
      <4>2. req'[r].op = op
        BY <4>1 DEF Reload, Request
      <4> QED
        BY <4>1, <4>2
    <3> QED
      BY <2>6, <3>1, <3>2
  <2>7. ASSUME Access(r)
        PROVE  Copies
    <3>1. CASE SaleRead(r)
      <4>1. req'[r].op = "sale"
        BY <3>1 DEF SaleRead
      <4> QED
        BY <4>1
    <3>4. CASE SaleSave(r) \/ CancelAccess(r)
      <4>1. req'[r] = Idle
        BY <3>4 DEF SaleSave, CancelAccess
      <4> QED
        BY <4>1
    <3>3. CASE CancelRead(r)
      <4>1. req'[r].op \in {"cancel", "cancelAccess"}
        BY <3>3 DEF CancelRead
      <4> QED
        BY <4>1
    <3>2. CASE CancelPurchases(r) \/ CancelCentres(r)
      BY <3>2 DEF CancelPurchases, CancelCentres, Request
    <3> QED
      BY <2>7, <3>1, <3>2, <3>3, <3>4 DEF Access
  <2> HIDE DEF Copies
  <2> QED
    BY <2>1, <2>2, <2>3, <2>4, <2>5, <2>6, <2>7
<1>3. LogGrows
  BY <1>0, <1>1 DEF LogGrows
<1>4. /\ completed' \ completed = {}
      /\ \A i \in Instructors : ~LooksAt(req[r], i)
      /\ \A l \in Lessons : ~Notes(req[r], l)
      /\ \A l \in Lessons : payouts'[l] > 0 => payouts[l] > 0
  BY <1>1 DEF LooksAt, Notes
<1>5. staked \subseteq staked' /\ (crashes' = 0 => crashes = 0) /\ OthersWait(r)
  BY <1>1
<1> HIDE DEF Idles
<1> QED
  BY <1>2, <1>3, <1>4, <1>5, SettledStep

\* The steps that complete, pay, note, log or save.
LEMMA SettlersSettle ==
  ASSUME IInv, SettledInv, NEW r \in Requests,
         \/ CompleteCommit(r) \/ StakePay(r) \/ StakeNote(r) \/ RewardCheck(r) \/ LogOnly(r)
         \/ RewardRead(r) \/ RewardLog(r) \/ RewardNote(r) \/ TakeEvent(r) \/ Crash(r)
  PROVE  SettledInv'
<1>0. /\ req \in [Requests -> Request] /\ req[r] \in Request
      /\ Shaped(req[r], Len(events)) /\ events \in Seq(Event) /\ Len(events) \in Nat
      /\ \A e \in 1..Len(events) : events[e] \in Event
      /\ req[r].op \in TakeOps => req[r].copy.by = events[req[r].at].by
      /\ payouts \in [Lessons -> Nat] /\ crashes \in Nat
  BY Known, BoundsAssumption DEF IInv, TypeOK, SettledInv, CopiesAreTrue
<1>1. OthersWait(r) /\ req'[r].op \notin TakeOps
  <2> USE <1>0 DEF Goto, Keep, End, Idle, OthersWait, TakeOps, Request
  <2>1. ASSUME CompleteCommit(r) \/ StakePay(r) \/ StakeNote(r) \/ Crash(r)
        PROVE  OthersWait(r) /\ req'[r].op \notin TakeOps
    BY <2>1 DEF CompleteCommit, StakePay, StakeNote, Crash
  <2>2. ASSUME RewardCheck(r) \/ LogOnly(r) \/ RewardRead(r) \/ RewardLog(r)
        PROVE  OthersWait(r) /\ req'[r].op \notin TakeOps
    <3>1. CASE RewardCheck(r)
      <4>1. \/ req'[r] = Idle
            \/ req'[r] = [req[r] EXCEPT !.op = "log", !.copy = NewEvent(Of(r), "held", FALSE)]
            \/ req'[r] = [req[r] EXCEPT !.op = "referrer"]
        BY <3>1 DEF RewardCheck
      <4>2. \A p \in Requests \ {r} : req'[p] = req[p]
        BY <3>1 DEF RewardCheck
      <4>3. req'[r].op \notin TakeOps
        <5>1. CASE req'[r] = [req[r] EXCEPT !.op = "log", !.copy = NewEvent(Of(r), "held", FALSE)]
          <6>1. req'[r].op = "log"
            <7> DEFINE next == [req[r] EXCEPT !.op = "log", !.copy = NewEvent(Of(r), "held", FALSE)]
            <7>1. next.op = "log"
              BY <1>0 DEF Request
            <7> QED
              BY <5>1, <7>1
          <6> QED
            BY <6>1
        <5>2. CASE req'[r] = [req[r] EXCEPT !.op = "referrer"]
          BY <5>2, GoesOn
        <5> QED
          BY <4>1, <5>1, <5>2
      <4> QED
        BY <4>2, <4>3
    <3>2. CASE LogOnly(r)
      BY <3>2 DEF LogOnly
    <3>3. CASE RewardRead(r)
      BY <3>3 DEF RewardRead
    <3>4. CASE RewardLog(r)
      BY <3>4 DEF RewardLog
    <3> QED
      BY <2>2, <3>1, <3>2, <3>3, <3>4
  <2>3. ASSUME RewardNote(r) \/ TakeEvent(r)
        PROVE  OthersWait(r) /\ req'[r].op \notin TakeOps
    BY <2>3 DEF RewardNote, TakeEvent
  <2> QED
    BY <2>1, <2>2, <2>3
<1>2. CASE CompleteCommit(r)
  <2>1. /\ req[r].op = "commit" /\ completed' = completed \cup {req[r].lesson}
        /\ req'[r].op = IF Of(r) \in ByLearner THEN "reward" ELSE "stake"
        /\ req'[r].lesson = req[r].lesson
        /\ UNCHANGED <<payouts, staked, events>> /\ crashes' = crashes
    BY <1>0, <1>2 DEF CompleteCommit, Goto, Keep, stakeVars, countVars, Request
  <2>2. LogGrows
    BY <1>0, <2>1 DEF LogGrows
  <2> QED
    BY <1>1, <2>1, <2>2, SettledStep DEF LooksAt, Notes, Of
<1>3. CASE StakePay(r)
  <2>1. /\ req[r].op = "pay" /\ payouts' = [payouts EXCEPT ![req[r].lesson] = @ + 1]
        /\ req'[r].op = "noteStake" /\ req'[r].lesson = req[r].lesson
        /\ UNCHANGED <<completed, staked, events>> /\ crashes' = crashes
    BY <1>0, <1>3 DEF StakePay, Goto, Keep, lessonVars, countVars, Request
  <2>2. LogGrows
    BY <1>0, <2>1 DEF LogGrows
  <2>3. \A l \in Lessons : payouts'[l] > 0 => payouts[l] > 0 \/ Notes(req'[r], l)
    BY <1>0, <2>1 DEF Notes
  <2> QED
    BY <1>1, <2>1, <2>2, <2>3, SettledStep DEF LooksAt, Notes
<1>4. CASE StakeNote(r)
  <2>1. /\ req[r].op = "noteStake" /\ staked' = staked \cup {req[r].lesson}
        /\ UNCHANGED <<completed, payouts, events>> /\ crashes' = crashes
    BY <1>0, <1>4 DEF StakeNote, lessonVars, countVars
  <2>2. LogGrows
    BY <1>0, <2>1 DEF LogGrows
  <2> QED
    BY <1>1, <2>1, <2>2, SettledStep DEF LooksAt, Notes
<1>5. CASE RewardCheck(r)
  <2>1. /\ req[r].op = "reward"
        /\ UNCHANGED <<completed, payouts, staked, events>> /\ crashes' = crashes
    BY <1>5 DEF RewardCheck, lessonVars, stakeVars, countVars
  <2>2. \/ Rewarded(Of(r))
        \/ req'[r].op = "log" /\ req'[r].copy.by = Of(r)
        \/ req'[r].op = "referrer" /\ req'[r].lesson = req[r].lesson
    <3>1. \/ Rewarded(Of(r))
          \/ req'[r] = [req[r] EXCEPT !.op = "log", !.copy = NewEvent(Of(r), "held", FALSE)]
          \/ req'[r] = [req[r] EXCEPT !.op = "referrer"]
      BY <1>0, <1>5 DEF RewardCheck, Goto, Keep
    <3>2. CASE req'[r] = [req[r] EXCEPT !.op = "log", !.copy = NewEvent(Of(r), "held", FALSE)]
      <4>1. req'[r].op = "log" /\ req'[r].copy = NewEvent(Of(r), "held", FALSE)
        <5> DEFINE next == [req[r] EXCEPT !.op = "log", !.copy = NewEvent(Of(r), "held", FALSE)]
        <5>1. next.op = "log" /\ next.copy = NewEvent(Of(r), "held", FALSE)
          BY <1>0 DEF Request
        <5> HIDE DEF next
        <5> QED
          BY <3>2, <5>1 DEF next
      <4>2. NewEvent(Of(r), "held", FALSE).by = Of(r)
        BY DEF NewEvent
      <4> QED
        BY <4>1, <4>2
    <3>3. CASE req'[r] = [req[r] EXCEPT !.op = "referrer"]
      BY <1>0, <3>3, GoesOn
    <3> QED
      BY <3>1, <3>2, <3>3
  <2>3. LogGrows
    BY <1>0, <2>1 DEF LogGrows
  <2>4. \A i \in Instructors : LooksAt(req[r], i) => LooksAt(req'[r], i) \/ Logged(i)'
    BY <2>1, <2>2 DEF LooksAt, Logged, Rewarded, Of
  <2> QED
    BY <1>1, <2>1, <2>3, <2>4, SettledStep DEF Notes
<1>6. CASE RewardRead(r)
  <2>1. /\ req[r].op = "referrer" /\ req'[r].op = "grant" /\ req'[r].lesson = req[r].lesson
        /\ UNCHANGED <<completed, payouts, staked, events>> /\ crashes' = crashes
    BY <1>0, <1>6 DEF RewardRead, Keep, lessonVars, stakeVars, countVars, Request
  <2>2. LogGrows
    BY <1>0, <2>1 DEF LogGrows
  <2> QED
    BY <1>1, <2>1, <2>2, SettledStep DEF LooksAt, Notes
<1>7. CASE LogOnly(r) \/ RewardLog(r)
  <2> DEFINE new == IF req[r].op = "log" THEN req[r].copy ELSE NewEvent(Of(r), "released", TRUE)
  <2>1. /\ req[r].op \in {"log", "grant"} /\ events' = Append(events, new)
        /\ UNCHANGED <<completed, payouts, staked>> /\ crashes' = crashes
    BY <1>7 DEF LogOnly, RewardLog, lessonVars, stakeVars, countVars
  <2>2. new \in Event
    BY <1>0, <2>1, LessonsAssumption DEF Shaped, LessonOps, NewEvent, Event, Of
  <2>3. \A i \in Instructors : LooksAt(req[r], i) => new.by = i
    BY <2>1 DEF LooksAt, NewEvent, Of
  <2> HIDE DEF new
  <2>4. /\ Len(events') = Len(events) + 1 /\ events'[Len(events) + 1] = new
        /\ \A e \in 1..Len(events) : events'[e] = events[e]
    BY <1>0, <2>1, <2>2, AppendProperties
  <2>5. LogGrows
    BY <1>0, <2>4 DEF LogGrows
  <2>6. \A i \in Instructors : LooksAt(req[r], i) => Logged(i)'
    BY <1>0, <2>3, <2>4 DEF Logged
  <2> QED
    BY <1>1, <2>1, <2>5, <2>6, SettledStep DEF Notes
<1>8. CASE RewardNote(r) \/ TakeEvent(r)
  <2> DEFINE saved == IF req[r].op = "noteSave"
                      THEN [by |-> events[req[r].at].by, state |-> "released", granted |-> TRUE,
                            noted |-> TRUE, prev |-> req[r].row.nav]
                      ELSE req[r].copy
  <2>1. /\ req[r].op \in {"noteSave", "takeEventSave"} /\ SaveEvent(r, saved)
        /\ UNCHANGED <<completed, payouts, staked>> /\ crashes' = crashes
    BY <1>8 DEF RewardNote, TakeEvent, lessonVars, stakeVars, countVars
  <2>2. req[r].at \in 1..Len(events) /\ req[r].row.nav \in Nat
    BY <1>0, <2>1 DEF Shaped, PlaceOps, TakeOps, Request, UserRow
  <2>3. saved \in Event /\ saved.by = events[req[r].at].by
    BY <1>0, <2>1, <2>2 DEF Shaped, TakeOps, Event
  <2> HIDE DEF saved
  <2>4. events[req[r].at] \in Event
    BY <1>0, <2>2
  <2>5. PICK new \in Event : /\ events' = [events EXCEPT ![req[r].at] = new]
                             /\ new.by = saved.by
    BY <2>1, <2>3, <2>4, SavedEvent
  <2>6. /\ req[r].op \in {"noteSave", "takeEventSave"} /\ events' = [events EXCEPT ![req[r].at] = new]
        /\ UNCHANGED <<completed, payouts, staked>> /\ crashes' = crashes
    BY <2>1, <2>5
  <2>7. new \in Event /\ new.by = events[req[r].at].by
    BY <2>3, <2>5
  <2>8. /\ Len(events') = Len(events)
        /\ \A e \in 1..Len(events) : events'[e] = IF e = req[r].at THEN new ELSE events[e]
    BY <1>0, <2>6, <2>2, <2>7, ExceptSeq
  <2>9. LogGrows
    BY <1>0, <2>7, <2>8 DEF LogGrows
  <2> QED
    BY <1>1, <2>6, <2>9, SettledStep DEF LooksAt, Notes
<1>9. CASE Crash(r)
  <2>1. crashes' = crashes + 1 /\ events' = events
    BY <1>9 DEF Crash
  <2>2. crashes' # 0
    BY <1>0, <2>1
  <2>3. LogGrows
    BY <1>0, <2>1 DEF LogGrows
  <2> QED
    BY <1>1, <2>2, <2>3, SettledStep
<1> QED
  BY <1>2, <1>3, <1>4, <1>5, <1>6, <1>7, <1>8, <1>9

LEMMA SettledInvKept == IInv /\ SettledInv /\ [Next]_vars => SettledInv'
<1> SUFFICES ASSUME IInv, SettledInv, [Next]_vars PROVE SettledInv'
  OBVIOUS
<1>1. ASSUME UNCHANGED <<completed, payouts, staked, events, req, crashes>>
      PROVE  SettledInv'
  BY <1>1 DEF SettledInv, CopiesAreTrue, LooksAt, Notes, Logged
<1>2. CASE UNCHANGED vars
  BY <1>1, <1>2 DEF vars, lessonVars, stakeVars, countVars
<1>3. ASSUME NEW i \in Instructors, Approve(i) \/ Suspend(i) \/ Age(i)
      PROVE  SettledInv'
  BY <1>1, <1>3 DEF Approve, Suspend, Age, stakeVars, countVars
<1>4. CASE Next
  BY <1>3, <1>4, BystandersSettle, SettlersSettle DEF Next, Stake, Reward, Review
<1> QED
  BY <1>2, <1>4

LEMMA SettledInvIsEnough == IInv /\ SettledInv => LessonsAreSettled
<1> SUFFICES ASSUME IInv, SettledInv PROVE LessonsAreSettled
  OBVIOUS
<1>1. ASSUME Quiet, crashes = 0, NEW l \in completed
      PROVE  /\ Teacher[l] \in ByLearner => \E e \in 1..Len(events) : events[e].by = Teacher[l]
             /\ payouts[l] > 0 => l \in staked
  <2>1. l \in Lessons
    BY DEF IInv, TypeOK
  <2>2. ASSUME NEW r \in Requests PROVE ~LooksAt(req[r], Teacher[l]) /\ ~Notes(req[r], l)
    BY <1>1 DEF Quiet, LooksAt, Notes
  <2> QED
    BY <1>1, <2>1, <2>2 DEF SettledInv, Logged
<1> QED
  BY <1>1 DEF LessonsAreSettled

\* Unless a handler died, a completed lesson has been looked at once all is
\* quiet: a payout is noted at its lesson, and an event of the instructor says
\* what became of the reward, however the handlers interleave.
THEOREM LessonsGetSettled == Spec => []LessonsAreSettled
<1> QED
  BY InitIInv, NextIInv, SettledInvFirst, SettledInvKept, SettledInvIsEnough, PTL DEF Spec

-----------------------------------------------------------------------------
(* Handlers that take turns.                                                 *)

GiveOps == {"purchase", "credit", "creditSave", "centre", "note", "noteSave"}
LastOps == {"takeEvent", "takeEventSave"}

\* Of each lesson at most one payout, and q pays for what is not paid.
Paid(q) ==
  /\ \A l \in Lessons : payouts[l] <= 1 /\ (payouts[l] > 0 => l \in completed)
  /\ q.op \in {"stake", "pay", "noteStake"} => q.lesson \in completed
  /\ q.op = "pay" => payouts[q.lesson] = 0

\* What was granted was released, until it is taken back; one event of each
\* instructor stands.
EventsRight ==
  /\ \A e \in 1..Len(events) : /\ events[e].granted => events[e].state # "held"
                               /\ events[e].state = "released" => events[e].granted
  /\ \A d, e \in 1..Len(events) :
       events[d].by = events[e].by /\ events[d].state = "released"
         /\ events[e].state = "released" => d = e

\* What q has read is still so.
KnowsEvents(q) ==
  /\ q.op \in {"referrer", "grant"} => ~Rewarded(Teacher[q.lesson])
  /\ q.op \in GiveOps \cup TakeOps => events[q.at].state = "released" /\ events[q.at].granted
  /\ q.op = "log" => ~q.copy.granted /\ q.copy.state # "released"
  /\ q.op \in TakeOps \ LastOps => q.copy = events[q.at]
  /\ q.op \in LastOps => q.copy = [events[q.at] EXCEPT !.state = "reversed"]
  /\ q.op = "takeEventSave" => "state" \in q.columns

\* The books while q is at work: what it has given already, or taken already.
Only(ops, q) == IF q.op \in ops THEN {q.at} ELSE {}
One(ops, q) == IF q.op \in ops THEN 1 ELSE 0
GoneOps == LastOps \cup {"takeCentre"}
TakenOps == GoneOps \cup {"takePurchase"}
ReadOps == Adds \cup {"grant", "takeRow", "takeRowSave", "sale"}
UnevenOps == {"credit", "creditSave", "centre"}
USE DEF LastOps, GoneOps, TakenOps, ReadOps, UnevenOps, Adds

Books(q) ==
  /\ row.credit = Cardinality(Standing \ Only(Adds \cup TakenOps, q))
  /\ row.total + One(Adds, q) = grants
  /\ \A e \in Standing : events[e].noted \/ e \in Only(GiveOps, q)
  /\ q.op \in ReadOps => q.row = row
  /\ q.op = "creditSave" => {"credit", "total", "nav"} \subseteq q.columns
  /\ q.op = "takeRowSave" => "credit" \in q.columns
  /\ purchases \subseteq Standing \ Only({"purchase"} \cup GoneOps, q)
  /\ q.op \in UnevenOps => q.at \in purchases /\ centres = purchases \ {q.at}
  /\ q.op = "takeCentre" => purchases = centres \ {q.at}
  /\ q.op = "cancel" => q.read = purchases
  /\ q.op = "cancelCentres" => purchases = {} /\ centres = q.read
  /\ q.op = "cancelAccess" => purchases = {}
  /\ q.op \notin UnevenOps \cup {"takeCentre", "cancelCentres"} => centres = purchases
  /\ q.op \in TakenOps => "shortened" \in marks
  /\ "shortened" \notin marks =>
       /\ q.op \notin {"cancelCentres", "cancelAccess"} => purchases = Standing \ Only({"purchase"}, q)
       /\ "dated" \notin marks => row.nav + One(Adds \cup {"sale"}, q) = sales + grants

Turn(q) ==
  /\ Paid(q)
  /\ "overruled" \notin marks => EventsRight /\ KnowsEvents(q) /\ (crashes = 0 => Books(q))

Alone == \A p, r \in Requests : req[p].op # "idle" /\ req[r].op # "idle" => p = r
SerialInv ==
  "overlapped" \notin marks =>
    /\ Alone
    /\ Quiet => Turn(Idle)
    /\ \A r \in Requests : req[r].op # "idle" => Turn(req[r])

\* The books while nobody is at work on them.
Even ==
  /\ row.credit = Cardinality(Standing) /\ row.total = grants
  /\ \A e \in Standing : events[e].noted
  /\ purchases \subseteq Standing /\ centres = purchases
  /\ "shortened" \notin marks => purchases = Standing
  /\ "shortened" \notin marks /\ "dated" \notin marks => row.nav = sales + grants

LEMMA EvenBooks ==
  ASSUME IInv, NEW q
  PROVE  /\ Books(q) /\ q.op \in {"idle", "commit", "stake", "pay", "noteStake", "reward", "log",
                                  "referrer", "grant", "take", "takeRow"} => Even
         /\ /\ Even
            /\ q.op \in {"idle", "commit", "stake", "pay", "noteStake", "reward", "log",
                         "referrer", "grant", "take", "takeRow", "cancel", "cancelAccess"}
            /\ q.op \in {"grant", "takeRow"} => q.row = row
            /\ q.op = "cancel" => q.read = purchases
            /\ q.op = "cancelAccess" => purchases = {}
            => Books(q)
<1>1. Standing \ {} = Standing /\ row.total \in Nat /\ row.nav \in Nat
  BY DEF IInv, TypeOK, UserRow
<1>2. Books(q) /\ q.op \in {"idle", "commit", "stake", "pay", "noteStake", "reward", "log",
                            "referrer", "grant", "take", "takeRow"} => Even
  <2> SUFFICES ASSUME Books(q), q.op \in {"idle", "commit", "stake", "pay", "noteStake", "reward",
                                          "log", "referrer", "grant", "take", "takeRow"}
               PROVE  Even
    OBVIOUS
  <2>1. /\ Only(Adds \cup TakenOps, q) = {} /\ Only(GiveOps, q) = {}
        /\ Only({"purchase"} \cup GoneOps, q) = {} /\ Only({"purchase"}, q) = {}
        /\ One(Adds, q) = 0 /\ One(Adds \cup {"sale"}, q) = 0
    BY DEF Only, One, GiveOps
  <2>2. /\ row.credit = Cardinality(Standing) /\ row.total = grants
        /\ \A e \in Standing : events[e].noted
    <3>1. row.credit = Cardinality(Standing \ Only(Adds \cup TakenOps, q))
      BY DEF Books
    <3>2. row.credit = Cardinality(Standing)
      BY <1>1, <2>1, <3>1
    <3>3. row.total + 0 = grants
      BY <2>1 DEF Books
    <3>4. \A e \in Standing : events[e].noted \/ e \in Only(GiveOps, q)
      BY DEF Books
    <3> QED
      BY <1>1, <2>1, <3>2, <3>3, <3>4
  <2>3. purchases \subseteq Standing /\ centres = purchases
    BY <1>1, <2>1 DEF Books
  <2>4. /\ "shortened" \notin marks => purchases = Standing
        /\ "shortened" \notin marks /\ "dated" \notin marks => row.nav = sales + grants
    <3>1. q.op \notin {"cancelCentres", "cancelAccess"}
      OBVIOUS
    <3>2. row.nav + 0 = row.nav
      BY <1>1
    <3> QED
      BY <1>1, <2>1, <3>1, <3>2 DEF Books
  <2> QED
    BY <2>2, <2>3, <2>4 DEF Even
<1>3. ASSUME Even,
             q.op \in {"idle", "commit", "stake", "pay", "noteStake", "reward", "log",
                       "referrer", "grant", "take", "takeRow", "cancel", "cancelAccess"},
             q.op \in {"grant", "takeRow"} => q.row = row,
             q.op = "cancel" => q.read = purchases,
             q.op = "cancelAccess" => purchases = {}
      PROVE  Books(q)
  <2>1. /\ Only(Adds \cup TakenOps, q) = {} /\ Only(GiveOps, q) = {}
        /\ Only({"purchase"} \cup GoneOps, q) = {} /\ Only({"purchase"}, q) = {}
        /\ One(Adds, q) = 0 /\ One(Adds \cup {"sale"}, q) = 0
    BY <1>3 DEF Only, One, GiveOps
  <2>2. /\ q.op \notin TakenOps \cup UnevenOps \cup {"creditSave", "takeRowSave", "cancelCentres"}
        /\ q.op \in ReadOps => q.row = row
    BY <1>3
  <2>3. /\ row.credit = Cardinality(Standing) /\ row.total + 0 = grants /\ row.nav + 0 = row.nav
        /\ \A e \in Standing : events[e].noted
        /\ purchases \subseteq Standing \ {} /\ centres = purchases
        /\ "shortened" \notin marks => purchases = Standing \ {}
        /\ "shortened" \notin marks /\ "dated" \notin marks => row.nav = sales + grants
    BY <1>1, <1>3 DEF Even
  <2> QED
    BY <1>1, <1>3, <2>1, <2>2, <2>3 DEF Books
<1> QED
  BY <1>2, <1>3

LEMMA StandingCounts ==
  ASSUME IInv
  PROVE  /\ IsFiniteSet(Standing) /\ Cardinality(Standing) \in Nat
         /\ \A e \in Standing : /\ Cardinality(Standing \ {e}) \in Nat
                                /\ Cardinality(Standing) = Cardinality(Standing \ {e}) + 1
<1>1. Len(events) \in Nat
  BY LenProperties DEF IInv, TypeOK
<1>2. IsFiniteSet(1..Len(events))
  BY <1>1, FS_Interval
<1>3. IsFiniteSet(Standing)
  BY <1>2, FS_Subset DEF Standing
<1>4. ASSUME NEW e \in Standing
      PROVE  /\ Cardinality(Standing \ {e}) \in Nat
             /\ Cardinality(Standing) = Cardinality(Standing \ {e}) + 1
  <2>1. IsFiniteSet(Standing \ {e})
    BY <1>3, FS_RemoveElement
  <2>2. Cardinality(Standing) \in Nat /\ Cardinality(Standing \ {e}) \in Nat
    BY <1>3, <2>1, FS_CardinalityType
  <2>3. Cardinality(Standing \ {e}) = Cardinality(Standing) - 1
    BY <1>3, FS_RemoveElement
  <2> QED
    BY <2>2, <2>3
<1> QED
  BY <1>3, <1>4, FS_CardinalityType

\* The one that moves does so while the others wait: it was idle and all was
\* quiet, or it is the one at work.
LEMMA TakesTurns ==
  ASSUME SerialInv, NEW r \in Requests, OthersWait(r), marks \subseteq marks',
         "overlapped" \notin marks' =>
           /\ req[r].op = "idle" => Quiet
           /\ Turn(IF req[r].op = "idle" THEN Idle ELSE req[r]) => Turn(req[r])',
         req'[r].op = "idle" => req'[r] = Idle
  PROVE  SerialInv'
<1> SUFFICES ASSUME "overlapped" \notin marks'
             PROVE  Alone' /\ (Quiet' => Turn(Idle)') /\ \A p \in Requests : req'[p].op # "idle" => Turn(req[p])'
  BY DEF SerialInv
<1>1. Alone /\ (Quiet => Turn(Idle)) /\ \A p \in Requests : req[p].op # "idle" => Turn(req[p])
  BY DEF SerialInv
<1>2. \A p \in Requests \ {r} : req'[p] = req[p] /\ req[p].op = "idle"
  BY <1>1 DEF Alone, Quiet, OthersWait
<1>3. Turn(IF req[r].op = "idle" THEN Idle ELSE req[r])
  BY <1>1
<1>4. Turn(req[r])'
  BY <1>3
<1>5. Alone'
  BY <1>2 DEF Alone
<1>6. ASSUME NEW p \in Requests, req'[p].op # "idle"
      PROVE  Turn(req[p])'
  <2>1. p = r
    BY <1>2, <1>6
  <2> QED
    BY <1>4, <2>1
<1>7. ASSUME Quiet'
      PROVE  Turn(Idle)'
  <2>1. req'[r] = Idle
    BY <1>7 DEF Quiet
  <2> QED
    BY <1>4, <2>1
<1> QED
  BY <1>5, <1>6, <1>7

\* Nothing changes but what the handler is at, and maybe a mark.
LEMMA QuietTurn ==
  ASSUME IInv, NEW q, Turn(q), NEW r \in Requests,
         completed' = completed, payouts' = payouts, events' = events, row' = row,
         purchases' = purchases, centres' = centres, sales' = sales, grants' = grants,
         marks \subseteq marks', crashes' = 0 => crashes = 0,
         q.op \in {"idle", "commit", "stake", "pay", "noteStake", "reward", "log",
                   "referrer", "grant", "take", "takeRow"} \/ crashes' # 0,
         req'[r].op \in {"stake", "pay", "noteStake"} => req'[r].lesson \in completed,
         req'[r].op = "pay" => payouts[req'[r].lesson] = 0,
         "overruled" \notin marks' /\ EventsRight /\ KnowsEvents(q) =>
           /\ KnowsEvents(req'[r])
           /\ crashes' = 0 =>
                /\ req'[r].op \in {"idle", "commit", "stake", "pay", "noteStake", "reward", "log",
                                   "referrer", "grant", "take", "takeRow", "cancel", "cancelAccess"}
                /\ req'[r].op \in {"grant", "takeRow"} => req'[r].row = row
                /\ req'[r].op = "cancel" => req'[r].read = purchases
                /\ req'[r].op = "cancelAccess" => purchases = {}
  PROVE  Turn(req[r])'
<1>1. Paid(req[r])'
  BY DEF Turn, Paid
<1>2. ASSUME "overruled" \notin marks'
      PROVE  EventsRight' /\ KnowsEvents(req[r])' /\ (crashes' = 0 => Books(req[r])')
  <2>1. EventsRight /\ KnowsEvents(q) /\ (crashes = 0 => Books(q))
    BY <1>2 DEF Turn
  <2>2. EventsRight' /\ KnowsEvents(req[r])'
    <3>1. EventsRight'
      BY <2>1 DEF EventsRight
    <3>2. KnowsEvents(req'[r])
      BY <1>2, <2>1
    <3>3. KnowsEvents(req[r])' 
      BY <3>2 DEF KnowsEvents, Rewarded
    <3> QED
      BY <3>1, <3>3
  <2>3. ASSUME crashes' = 0
        PROVE  Books(req[r])'
    <3>1. Even
      BY <2>1, <2>3, EvenBooks
    <3>2. Books(req'[r])
      BY <1>2, <2>1, <2>3, <3>1, EvenBooks
    <3>3. Standing' = Standing
      BY DEF Standing
    <3>4. \A m \in {"shortened", "dated"} : m \in marks => m \in marks'
      OBVIOUS
    <3> QED
      BY <3>2, <3>3, <3>4 DEF Books, Only, One
  <2> QED
    BY <2>2, <2>3
<1> QED
  BY <1>1, <1>2 DEF Turn

LEMMA StartsTurn ==
  ASSUME IInv, NEW r \in Requests, Turn(Idle),
         \/ \E l \in Lessons : CompleteCheck(r, l)
         \/ \E i \in Instructors : AuditRead(r, i)
         \/ \E e \in 1..Len(events) : TakeBegin(r, e) \/ \E s \in EventStatus : ReviewRead(r, e, s)
         \/ CancelRead(r)
  PROVE  Turn(req[r])'
<1>0. req \in [Requests -> Request] /\ Idle.op = "idle"
  BY DEF IInv, TypeOK, Idle
<1> USE <1>0 DEF Start, Starting
<1>1. ASSUME NEW l \in Lessons, CompleteCheck(r, l)
      PROVE  Turn(req[r])'
  <2>1. /\ completed' = completed /\ payouts' = payouts /\ events' = events /\ row' = row
        /\ purchases' = purchases /\ centres' = centres /\ sales' = sales /\ grants' = grants
        /\ marks \subseteq marks' /\ crashes' = crashes
    BY <1>1 DEF CompleteCheck, lessonVars, stakeVars, learnerVars, countVars
  <2>2. req'[r].op = "commit"
    BY <1>1 DEF CompleteCheck, Idle
  <2>3. KnowsEvents(req'[r])
    BY <2>2 DEF KnowsEvents, GiveOps, TakeOps
  <2> QED
    BY <2>1, <2>2, <2>3, QuietTurn
<1>2. ASSUME NEW i \in Instructors, AuditRead(r, i)
      PROVE  Turn(req[r])'
  <2>1. /\ completed' = completed /\ payouts' = payouts /\ events' = events /\ row' = row
        /\ purchases' = purchases /\ centres' = centres /\ sales' = sales /\ grants' = grants
        /\ marks \subseteq marks' /\ crashes' = crashes
    BY <1>2 DEF AuditRead, lessonVars, stakeVars, learnerVars, countVars
  <2>2. req'[r].op = "log" /\ req'[r].copy = NewEvent(i, "reversed", FALSE)
    BY <1>2 DEF AuditRead, Idle
  <2>3. KnowsEvents(req'[r])
    BY <2>2 DEF KnowsEvents, GiveOps, TakeOps, NewEvent
  <2> QED
    BY <2>1, <2>2, <2>3, QuietTurn
<1>3. ASSUME NEW e \in 1..Len(events), TakeBegin(r, e)
      PROVE  Turn(req[r])'
  <2>1. /\ completed' = completed /\ payouts' = payouts /\ events' = events /\ row' = row
        /\ purchases' = purchases /\ centres' = centres /\ sales' = sales /\ grants' = grants
        /\ marks \subseteq marks' /\ crashes' = crashes
    BY <1>3 DEF TakeBegin, lessonVars, stakeVars, learnerVars
  <2>2. req'[r].op = "take" /\ req'[r].at = e /\ req'[r].copy = events[e]
    BY <1>3 DEF TakeBegin, Idle
  <2>3. ASSUME "overruled" \notin marks', EventsRight
        PROVE  KnowsEvents(req'[r])
    <3>1. events[e].granted /\ events[e].state # "reversed"
      BY <1>3, <2>3 DEF TakeBegin
    <3>2. events[e].state \in EventStatus
      BY Known DEF Event
    <3>3. events[e].state = "released"
      BY <2>3, <3>1, <3>2 DEF EventsRight
    <3> QED
      BY <2>2, <3>1, <3>3 DEF KnowsEvents
  <2> QED
    BY <2>1, <2>2, <2>3, QuietTurn
<1>4. ASSUME NEW e \in 1..Len(events), NEW s \in EventStatus, ReviewRead(r, e, s)
      PROVE  Turn(req[r])'
  <2>1. /\ completed' = completed /\ payouts' = payouts /\ events' = events /\ row' = row
        /\ purchases' = purchases /\ centres' = centres /\ sales' = sales /\ grants' = grants
        /\ marks \subseteq marks' /\ crashes' = crashes
    BY <1>4 DEF ReviewRead, lessonVars, stakeVars, learnerVars
  <2>2. req'[r].op = "takeEvent" /\ "overruled" \in marks'
    BY <1>4 DEF ReviewRead, Idle
  <2> QED
    BY <2>1, <2>2, QuietTurn
<1>5. CASE CancelRead(r)
  <2>1. /\ completed' = completed /\ payouts' = payouts /\ events' = events /\ row' = row
        /\ purchases' = purchases /\ centres' = centres /\ sales' = sales /\ grants' = grants
        /\ marks \subseteq marks' /\ crashes' = crashes
    BY <1>5 DEF CancelRead, lessonVars, stakeVars, learnerVars, countVars
  <2>2. /\ req'[r].op = IF purchases = {} THEN "cancelAccess" ELSE "cancel"
        /\ req'[r].read = purchases
    BY <1>5 DEF CancelRead, Idle
  <2>3. KnowsEvents(req'[r])
    BY <2>2 DEF KnowsEvents, GiveOps, TakeOps
  <2> QED
    BY <2>1, <2>2, <2>3, QuietTurn
<1> QED
  BY <1>1, <1>2, <1>3, <1>4, <1>5

LEMMA LessonsTurn ==
  ASSUME IInv, NEW r \in Requests, Turn(req[r]),
         \/ CompleteCommit(r) \/ Stake(r) \/ RewardCheck(r) \/ RewardRead(r) \/ TakeRead(r) \/ Crash(r)
  PROVE  Turn(req[r])'
<1>0. /\ req \in [Requests -> Request] /\ req[r] \in Request /\ Idle.op = "idle"
      /\ Shaped(req[r], Len(events)) /\ payouts \in [Lessons -> Nat] /\ crashes \in Nat
      /\ completed \subseteq Lessons
  BY Known, BoundsAssumption DEF IInv, TypeOK, Idle
<1> USE <1>0 DEF Goto, Keep, End
<1>1. KnowsEvents(Idle)
  BY DEF KnowsEvents, GiveOps, TakeOps
<1>2. CASE CompleteCommit(r)
  <2>1. /\ completed' = completed \cup {req[r].lesson} /\ payouts' = payouts /\ events' = events
        /\ row' = row /\ purchases' = purchases /\ centres' = centres /\ sales' = sales
        /\ grants' = grants /\ marks' = marks /\ crashes' = crashes /\ req[r].op = "commit"
    BY <1>2 DEF CompleteCommit, stakeVars, learnerVars, countVars
  <2>2. req'[r].op \in {"reward", "stake"} /\ req'[r].lesson = req[r].lesson
    BY <1>2, GoesOn DEF CompleteCommit
  <2>3. Paid(req[r])'
    BY <2>1, <2>2 DEF Turn, Paid
  <2>4. ASSUME "overruled" \notin marks
        PROVE  EventsRight' /\ KnowsEvents(req[r])' /\ (crashes' = 0 => Books(req[r])')
    <3>1. EventsRight /\ (crashes = 0 => Books(req[r]))
      BY <2>4 DEF Turn
    <3>2. EventsRight' /\ KnowsEvents(req[r])'
      BY <2>1, <2>2, <3>1 DEF EventsRight, KnowsEvents, GiveOps, TakeOps
    <3>3. ASSUME crashes' = 0 PROVE Books(req[r])'
      <4>1. Even
        BY <2>1, <3>1, <3>3, EvenBooks
      <4>2. Books(req'[r])
        BY <2>2, <4>1, EvenBooks
      <4>3. Standing' = Standing
        BY <2>1 DEF Standing
      <4> QED
        BY <2>1, <4>2, <4>3 DEF Books, Only, One
    <3> QED
      BY <3>2, <3>3
  <2> QED
    BY <2>1, <2>3, <2>4 DEF Turn
<1>3. CASE StakePay(r)
  <2>1. /\ completed' = completed /\ payouts' = [payouts EXCEPT ![req[r].lesson] = @ + 1]
        /\ events' = events
        /\ row' = row /\ purchases' = purchases /\ centres' = centres /\ sales' = sales
        /\ grants' = grants /\ marks' = marks /\ crashes' = crashes /\ req[r].op = "pay"
    BY <1>3 DEF StakePay, lessonVars, learnerVars, countVars
  <2>2. req'[r].op = "noteStake" /\ req'[r].lesson = req[r].lesson
    BY <1>3, GoesOn DEF StakePay
  <2>3. Paid(req[r])'
    BY <2>1, <2>2 DEF Turn, Paid
  <2>4. ASSUME "overruled" \notin marks
        PROVE  EventsRight' /\ KnowsEvents(req[r])' /\ (crashes' = 0 => Books(req[r])')
    <3>1. EventsRight /\ (crashes = 0 => Books(req[r]))
      BY <2>4 DEF Turn
    <3>2. EventsRight' /\ KnowsEvents(req[r])'
      BY <2>1, <2>2, <3>1 DEF EventsRight, KnowsEvents, GiveOps, TakeOps
    <3>3. ASSUME crashes' = 0 PROVE Books(req[r])'
      <4>1. Even
        BY <2>1, <3>1, <3>3, EvenBooks
      <4>2. Books(req'[r])
        BY <2>2, <4>1, EvenBooks
      <4>3. Standing' = Standing
        BY <2>1 DEF Standing
      <4> QED
        BY <2>1, <4>2, <4>3 DEF Books, Only, One
    <3> QED
      BY <3>2, <3>3
  <2> QED
    BY <2>1, <2>3, <2>4 DEF Turn
<1>4. CASE StakeCheck(r) \/ StakeNote(r)
  <2>1. /\ completed' = completed /\ payouts' = payouts /\ events' = events /\ row' = row
        /\ purchases' = purchases /\ centres' = centres /\ sales' = sales /\ grants' = grants
        /\ marks \subseteq marks' /\ crashes' = crashes /\ req[r].op \in {"stake", "noteStake"}
    BY <1>4 DEF StakeCheck, StakeNote, lessonVars, stakeVars, learnerVars, countVars
  <2>2. \/ req'[r] = Idle
        \/ /\ req'[r].op \in {"pay", "noteStake"} /\ req'[r].lesson = req[r].lesson
           /\ req'[r].op = "pay" => ~(payouts[req[r].lesson] > 0)
    <3>1. \/ req'[r] = Idle
          \/ req'[r] = [req[r] EXCEPT !.op = "pay"] /\ ~(payouts[req[r].lesson] > 0)
          \/ req'[r] = [req[r] EXCEPT !.op = "noteStake"]
      BY <1>4 DEF StakeCheck, StakeNote
    <3>2. CASE req'[r] = [req[r] EXCEPT !.op = "pay"] /\ ~(payouts[req[r].lesson] > 0)
      BY <3>2, GoesOn
    <3>3. CASE req'[r] = [req[r] EXCEPT !.op = "noteStake"]
      BY <3>3, GoesOn
    <3> QED
      BY <3>1, <3>2, <3>3
  <2>3. req'[r].op \in {"stake", "pay", "noteStake"} => req'[r].lesson \in completed
    BY <2>1, <2>2 DEF Turn, Paid
  <2>4. req'[r].op = "pay" => payouts[req'[r].lesson] = 0
    BY <2>2, <2>3
  <2>5. KnowsEvents(req'[r])
    BY <1>1, <2>2 DEF KnowsEvents, GiveOps, TakeOps
  <2> QED
    BY <2>1, <2>2, <2>3, <2>4, <2>5, QuietTurn
<1>5. CASE RewardCheck(r)
  <2>1. /\ completed' = completed /\ payouts' = payouts /\ events' = events /\ row' = row
        /\ purchases' = purchases /\ centres' = centres /\ sales' = sales /\ grants' = grants
        /\ marks \subseteq marks' /\ crashes' = crashes /\ req[r].op = "reward"
    BY <1>5 DEF RewardCheck, lessonVars, stakeVars, learnerVars, countVars
  <2>2. \/ req'[r] = Idle
        \/ req'[r].op = "log" /\ req'[r].copy = NewEvent(Of(r), "held", FALSE)
        \/ req'[r].op = "referrer" /\ req'[r].lesson = req[r].lesson /\ ~Rewarded(Of(r))
    <3>1. \/ req'[r] = Idle
          \/ req'[r] = [req[r] EXCEPT !.op = "log", !.copy = NewEvent(Of(r), "held", FALSE)]
          \/ req'[r] = [req[r] EXCEPT !.op = "referrer"] /\ ~Rewarded(Of(r))
      BY <1>5 DEF RewardCheck
    <3> DEFINE next == [req[r] EXCEPT !.op = "log", !.copy = NewEvent(Of(r), "held", FALSE)]
    <3>2. next.op = "log" /\ next.copy = NewEvent(Of(r), "held", FALSE)
      BY DEF Request
    <3>3. CASE req'[r] = next
      BY <3>2, <3>3
    <3>4. CASE req'[r] = [req[r] EXCEPT !.op = "referrer"] /\ ~Rewarded(Of(r))
      BY <3>4, GoesOn
    <3> QED
      BY <3>1, <3>3, <3>4
  <2>3. KnowsEvents(req'[r])
    BY <1>1, <2>2 DEF KnowsEvents, GiveOps, TakeOps, NewEvent, Of
  <2> QED
    BY <2>1, <2>2, <2>3, QuietTurn
<1>6. CASE RewardRead(r)
  <2>1. /\ completed' = completed /\ payouts' = payouts /\ events' = events /\ row' = row
        /\ purchases' = purchases /\ centres' = centres /\ sales' = sales /\ grants' = grants
        /\ marks \subseteq marks' /\ crashes' = crashes /\ req[r].op = "referrer"
    BY <1>6 DEF RewardRead, lessonVars, stakeVars, learnerVars, countVars
  <2>2. req'[r].op = "grant" /\ req'[r].lesson = req[r].lesson /\ req'[r].row = row
    <3> DEFINE next == [req[r] EXCEPT !.op = "grant", !.row = row]
    <3>1. next.op = "grant" /\ next.lesson = req[r].lesson /\ next.row = row
      BY DEF Request
    <3>2. req'[r] = next
      BY <1>6 DEF RewardRead
    <3> HIDE DEF next
    <3> QED
      BY <3>1, <3>2
  <2>3. KnowsEvents(req[r]) => KnowsEvents(req'[r])
    BY <2>1, <2>2 DEF KnowsEvents, GiveOps, TakeOps
  <2> QED
    BY <2>1, <2>2, <2>3, QuietTurn
<1>7. CASE TakeRead(r)
  <2>1. /\ completed' = completed /\ payouts' = payouts /\ events' = events /\ row' = row
        /\ purchases' = purchases /\ centres' = centres /\ sales' = sales /\ grants' = grants
        /\ marks \subseteq marks' /\ crashes' = crashes /\ req[r].op = "take"
    BY <1>7 DEF TakeRead, lessonVars, stakeVars, learnerVars, countVars
  <2>2. /\ req'[r].op = "takeRow" /\ req'[r].at = req[r].at /\ req'[r].copy = req[r].copy
        /\ req'[r].row = row
    <3> DEFINE next == [req[r] EXCEPT !.op = "takeRow", !.row = row]
    <3>1. next.op = "takeRow" /\ next.at = req[r].at /\ next.copy = req[r].copy /\ next.row = row
      BY DEF Request
    <3>2. req'[r] = next
      BY <1>7 DEF TakeRead
    <3> HIDE DEF next
    <3> QED
      BY <3>1, <3>2
  <2>3. KnowsEvents(req[r]) => KnowsEvents(req'[r])
    BY <2>1, <2>2 DEF KnowsEvents, GiveOps, TakeOps
  <2> QED
    BY <2>1, <2>2, <2>3, QuietTurn
<1>8. CASE Crash(r)
  <2>1. /\ completed' = completed /\ payouts' = payouts /\ events' = events /\ row' = row
        /\ purchases' = purchases /\ centres' = centres /\ sales' = sales /\ grants' = grants
        /\ marks \subseteq marks' /\ crashes' = crashes + 1 /\ req'[r] = Idle
    BY <1>8 DEF Crash, lessonVars, stakeVars, learnerVars
  <2>2. crashes' # 0
    BY <2>1
  <2> QED
    BY <1>1, <2>1, <2>2, QuietTurn
<1> QED
  BY <1>2, <1>3, <1>4, <1>5, <1>6, <1>7, <1>8 DEF Stake

\* What is left to show of a step that has nothing to do with stakes.
LEMMA WorkTurn ==
  ASSUME NEW q, Turn(q), NEW r \in Requests,
         completed' = completed, payouts' = payouts, marks \subseteq marks', crashes' = crashes,
         req'[r].op \notin {"stake", "pay", "noteStake"},
         "overruled" \notin marks /\ EventsRight /\ KnowsEvents(q) =>
           /\ EventsRight' /\ KnowsEvents(req[r])'
           /\ crashes = 0 /\ Books(q) => Books(req[r])'
  PROVE  Turn(req[r])'
<1>1. Paid(req[r])'
  BY DEF Turn, Paid
<1> QED
  BY <1>1 DEF Turn

LEMMA SameEvents ==
  ASSUME events' = events
  PROVE  EventsRight' = EventsRight /\ Standing' = Standing
BY DEF EventsRight, Standing

LEMMA BenefitsTurn ==
  ASSUME IInv, NEW r \in Requests, Turn(req[r]),
         RewardPurchase(r) \/ RewardCentre(r) \/ TakePurchase(r) \/ TakeCentre(r)
  PROVE  Turn(req[r])'
<1>0. /\ req \in [Requests -> Request] /\ req[r] \in Request
      /\ Shaped(req[r], Len(events)) /\ row \in UserRow
      /\ \A e \in 1..Len(events) : events[e] \in Event
  BY Known DEF IInv, TypeOK
<1> DEFINE q == req[r]
<1>1. CASE RewardPurchase(r)
  <2>1. /\ completed' = completed /\ payouts' = payouts /\ events' = events /\ row' = row
        /\ purchases' = purchases \cup {q.at} /\ centres' = centres /\ sales' = sales /\ grants' = grants
        /\ marks' = marks /\ crashes' = crashes /\ q.op = "purchase"
    BY <1>1 DEF RewardPurchase, lessonVars, stakeVars, countVars
  <2>2. q' = [q EXCEPT !.op = "credit"]
    BY <1>0, <1>1 DEF RewardPurchase, Goto, Keep
  <2>3. q'.op = "credit" /\ q'.at = q.at /\ q'.row = q.row
    BY <1>0, <2>2, GoesOn
  <2> HIDE DEF q
  <2>4. ASSUME EventsRight, KnowsEvents(q)
        PROVE  EventsRight' /\ KnowsEvents(q)' /\ (Books(q) => Books(q)')
    <3>1. EventsRight' /\ KnowsEvents(q)'
      BY <2>1, <2>3, <2>4, SameEvents DEF KnowsEvents, GiveOps, TakeOps
    <3>2. q.at \in Standing
      <4>1. q.at \in 1..Len(events)
        BY <1>0, <2>1 DEF Shaped, PlaceOps, q
      <4> QED
        BY <2>1, <2>4, <4>1 DEF KnowsEvents, GiveOps, Standing
    <3>3. ASSUME Books(q) PROVE Books(q)'
      <4>1. Standing' = Standing
        BY <2>1, SameEvents
      <4> QED
        BY <2>1, <2>3, <3>2, <3>3, <4>1 DEF Books, Only, One, GiveOps
    <3> QED
      BY <3>1, <3>3
  <2> QED
    BY <2>1, <2>3, <2>4, WorkTurn DEF q
<1>2. CASE RewardCentre(r)
  <2>1. /\ completed' = completed /\ payouts' = payouts /\ events' = events /\ row' = row
        /\ purchases' = purchases /\ centres' = centres \cup {q.at} /\ sales' = sales /\ grants' = grants
        /\ marks' = marks /\ crashes' = crashes /\ q.op = "centre"
    BY <1>2 DEF RewardCentre, lessonVars, stakeVars, countVars
  <2>2. q' = [q EXCEPT !.op = "note"]
    BY <1>0, <1>2 DEF RewardCentre, Goto, Keep
  <2>3. q'.op = "note" /\ q'.at = q.at
    BY <1>0, <2>2, GoesOn
  <2> HIDE DEF q
  <2>4. ASSUME EventsRight, KnowsEvents(q)
        PROVE  EventsRight' /\ KnowsEvents(q)' /\ (Books(q) => Books(q)')
    <3>1. EventsRight' /\ KnowsEvents(q)'
      BY <2>1, <2>3, <2>4, SameEvents DEF KnowsEvents, GiveOps, TakeOps
    <3>3. ASSUME Books(q) PROVE Books(q)'
      <4>1. Standing' = Standing
        BY <2>1, SameEvents
      <4> QED
        BY <2>1, <2>3, <3>3, <4>1 DEF Books, Only, One, GiveOps
    <3> QED
      BY <3>1, <3>3
  <2> QED
    BY <2>1, <2>3, <2>4, WorkTurn DEF q
<1>3. CASE TakePurchase(r)
  <2>1. /\ completed' = completed /\ payouts' = payouts /\ events' = events /\ row' = row
        /\ purchases' = IF q.copy.noted THEN purchases \ {q.at} ELSE purchases
        /\ centres' = centres /\ sales' = sales /\ grants' = grants
        /\ marks' = marks /\ crashes' = crashes /\ q.op = "takePurchase"
    BY <1>3 DEF TakePurchase, lessonVars, stakeVars, countVars
  <2>2. q' = [q EXCEPT !.op = "takeCentre"]
    BY <1>0, <1>3 DEF TakePurchase, Goto, Keep
  <2>3. q'.op = "takeCentre" /\ q'.at = q.at /\ q'.copy = q.copy
    BY <1>0, <2>2, GoesOn
  <2> HIDE DEF q
  <2>4. ASSUME EventsRight, KnowsEvents(q)
        PROVE  EventsRight' /\ KnowsEvents(q)' /\ (Books(q) => Books(q)')
    <3>1. EventsRight' /\ KnowsEvents(q)'
      BY <2>1, <2>3, <2>4, SameEvents DEF KnowsEvents, GiveOps, TakeOps
    <3>2. q.at \in Standing /\ q.copy = events[q.at]
      <4>1. q.at \in 1..Len(events)
        BY <1>0, <2>1 DEF Shaped, PlaceOps, TakeOps, q
      <4> QED
        BY <2>1, <2>4, <4>1 DEF KnowsEvents, TakeOps, Standing
    <3>3. ASSUME Books(q) PROVE Books(q)'
      <4>1. Standing' = Standing
        BY <2>1, SameEvents
      <4>2. q.copy.noted
        BY <2>1, <3>2, <3>3 DEF Books, Only, GiveOps
      <4> QED
        BY <2>1, <2>3, <3>2, <3>3, <4>1, <4>2 DEF Books, Only, One, GiveOps
    <3> QED
      BY <3>1, <3>3
  <2> QED
    BY <2>1, <2>3, <2>4, WorkTurn DEF q
<1>4. CASE TakeCentre(r)
  <2>1. /\ completed' = completed /\ payouts' = payouts /\ events' = events /\ row' = row
        /\ purchases' = purchases /\ centres' = centres \ {q.at} /\ sales' = sales /\ grants' = grants
        /\ marks' = marks /\ crashes' = crashes /\ q.op = "takeCentre"
    BY <1>4 DEF TakeCentre, lessonVars, stakeVars, countVars
  <2>2. q' = [q EXCEPT !.op = "takeEvent", !.copy.state = "reversed"]
    BY <1>0, <1>4 DEF TakeCentre, Keep
  <2>3. q'.op = "takeEvent" /\ q'.at = q.at /\ q'.copy = [q.copy EXCEPT !.state = "reversed"]
    BY <1>0, <2>2 DEF Request
  <2> HIDE DEF q
  <2>4. ASSUME EventsRight, KnowsEvents(q)
        PROVE  EventsRight' /\ KnowsEvents(q)' /\ (Books(q) => Books(q)')
    <3>1. EventsRight' /\ KnowsEvents(q)'
      <4>1. q.copy = events[q.at] /\ events[q.at].state = "released" /\ events[q.at].granted
        BY <2>1, <2>4 DEF KnowsEvents, TakeOps
      <4> QED
        BY <2>1, <2>3, <2>4, <4>1, SameEvents DEF KnowsEvents, GiveOps, TakeOps
    <3>3. ASSUME Books(q) PROVE Books(q)'
      <4>1. Standing' = Standing
        BY <2>1, SameEvents
      <4> QED
        BY <2>1, <2>3, <3>3, <4>1 DEF Books, Only, One, GiveOps
    <3> QED
      BY <3>1, <3>3
  <2> QED
    BY <2>1, <2>3, <2>4, WorkTurn DEF q
<1> QED
  BY <1>1, <1>2, <1>3, <1>4

LEMMA AccessTurns ==
  ASSUME IInv, NEW r \in Requests,
         \/ SaleRead(r) /\ Turn(Idle)
         \/ (SaleSave(r) \/ CancelPurchases(r) \/ CancelCentres(r) \/ CancelAccess(r)) /\ Turn(req[r])
  PROVE  Turn(req[r])'
<1>0. /\ req \in [Requests -> Request] /\ req[r] \in Request /\ row \in UserRow
      /\ row.credit \in Nat /\ row.total \in Nat /\ row.nav \in Nat /\ sales \in Nat /\ grants \in Nat
      /\ Idle.op = "idle"
  BY Known DEF IInv, TypeOK, UserRow, Idle
<1> DEFINE q == req[r]
<1>1. CASE SaleRead(r) /\ Turn(Idle)
  <2>1. /\ completed' = completed /\ payouts' = payouts /\ events' = events /\ row' = row
        /\ purchases' = purchases /\ centres' = centres /\ sales' = sales + 1 /\ grants' = grants
        /\ marks \subseteq marks' /\ crashes' = crashes
    BY <1>1 DEF SaleRead, Start, Starting, lessonVars, stakeVars, countVars
  <2>2. q' = [Idle EXCEPT !.op = "sale", !.row = row]
    BY <1>0, <1>1 DEF SaleRead, Start, Starting
  <2>3. q'.op = "sale" /\ q'.row = row
    BY <2>2 DEF Idle
  <2> HIDE DEF q
  <2>4. ASSUME EventsRight
        PROVE  EventsRight' /\ KnowsEvents(q)' /\ (Books(Idle) => Books(q)')
    <3>1. EventsRight' /\ KnowsEvents(q)'
      BY <2>1, <2>3, <2>4, SameEvents DEF KnowsEvents, GiveOps, TakeOps
    <3>2. ASSUME Books(Idle) PROVE Books(q)'
      <4>1. Standing' = Standing
        BY <2>1, SameEvents
      <4>2. Even
        BY <1>0, <3>2, EvenBooks
      <4>3. /\ row.credit = Cardinality(Standing \ {}) /\ row.total + 0 = grants
            /\ \A e \in Standing : events[e].noted
            /\ purchases \subseteq Standing /\ centres = purchases
            /\ "shortened" \notin marks' => purchases = Standing \ {}
            /\ "shortened" \notin marks' /\ "dated" \notin marks' => row.nav + 1 = sales' + grants
        <5>1. Standing \ {} = Standing
          OBVIOUS
        <5> QED
          BY <1>0, <2>1, <4>2, <5>1 DEF Even
      <4> QED
        BY <2>1, <2>3, <4>1, <4>3 DEF Books, Only, One, GiveOps
    <3> QED
      BY <3>1, <3>2
  <2> QED
    BY <1>1, <2>1, <2>3, <2>4, WorkTurn DEF q
<1>2. CASE SaleSave(r) /\ Turn(q)
  <2>1. /\ completed' = completed /\ payouts' = payouts /\ events' = events
        /\ purchases' = purchases /\ centres' = centres /\ sales' = sales /\ grants' = grants
        /\ marks \subseteq marks' /\ crashes' = crashes /\ q.op = "sale"
    BY <1>2, BoundsAssumption DEF SaleSave, lessonVars, stakeVars, countVars
  <2>2. q'.op = "idle"
    BY <1>0, <1>2 DEF SaleSave, End, Keep
  <2>3. /\ row'.credit = row.credit /\ row'.total = row.total
        /\ "dated" \notin marks' => row'.nav = q.row.nav + 1
    <3>1. PICK nav : /\ row' = [row EXCEPT !.nav = nav]
                     /\ "dated" \notin marks' => nav = q.row.nav + 1
      BY <1>2 DEF SaleSave
    <3> QED
      BY <1>0, <3>1 DEF UserRow
  <2>4. Turn(q)
    BY <1>2
  <2> HIDE DEF q
  <2>5. ASSUME EventsRight
        PROVE  EventsRight' /\ KnowsEvents(q)' /\ (Books(q) => Books(q)')
    <3>1. EventsRight' /\ KnowsEvents(q)'
      BY <2>1, <2>2, <2>5, SameEvents DEF KnowsEvents, GiveOps, TakeOps
    <3>2. ASSUME Books(q) PROVE Books(q)'
      <4>1. Standing' = Standing
        BY <2>1, SameEvents
      <4>2. /\ row.credit = Cardinality(Standing \ {}) /\ row.total + 0 = grants
            /\ \A e \in Standing : events[e].noted
            /\ q.row = row /\ purchases \subseteq Standing /\ centres = purchases
            /\ "shortened" \notin marks => purchases = Standing \ {}
            /\ "shortened" \notin marks /\ "dated" \notin marks => row.nav + 1 = sales + grants
        BY <2>1, <3>2 DEF Books, Only, One, GiveOps
      <4> QED
        BY <1>0, <2>1, <2>2, <2>3, <4>1, <4>2 DEF Books, Only, One, GiveOps
    <3> QED
      BY <3>1, <3>2
  <2> QED
    BY <2>1, <2>2, <2>4, <2>5, WorkTurn DEF q
<1>3. CASE CancelPurchases(r) /\ Turn(q)
  <2>1. /\ completed' = completed /\ payouts' = payouts /\ events' = events /\ row' = row
        /\ purchases' = purchases \ q.read /\ centres' = centres /\ sales' = sales /\ grants' = grants
        /\ marks' = marks /\ crashes' = crashes /\ q.op = "cancel"
    BY <1>3 DEF CancelPurchases, lessonVars, stakeVars, countVars
  <2>2. q'.op = "cancelCentres" /\ q'.read = q.read
    BY <1>0, <1>3, GoesOn DEF CancelPurchases, Goto, Keep
  <2>4. Turn(q)
    BY <1>3
  <2> HIDE DEF q
  <2>5. ASSUME EventsRight
        PROVE  EventsRight' /\ KnowsEvents(q)' /\ (Books(q) => Books(q)')
    <3>1. EventsRight' /\ KnowsEvents(q)'
      BY <2>1, <2>2, <2>5, SameEvents DEF KnowsEvents, GiveOps, TakeOps
    <3>2. ASSUME Books(q) PROVE Books(q)'
      <4>1. Standing' = Standing
        BY <2>1, SameEvents
      <4> QED
        BY <2>1, <2>2, <3>2, <4>1 DEF Books, Only, One, GiveOps
    <3> QED
      BY <3>1, <3>2
  <2> QED
    BY <2>1, <2>2, <2>4, <2>5, WorkTurn DEF q
<1>4. CASE CancelCentres(r) /\ Turn(q)
  <2>1. /\ completed' = completed /\ payouts' = payouts /\ events' = events /\ row' = row
        /\ purchases' = purchases /\ centres' = centres \ q.read /\ sales' = sales /\ grants' = grants
        /\ marks' = marks /\ crashes' = crashes /\ q.op = "cancelCentres"
    BY <1>4 DEF CancelCentres, lessonVars, stakeVars, countVars
  <2>2. q'.op = "cancelAccess"
    BY <1>0, <1>4, GoesOn DEF CancelCentres, Goto, Keep
  <2>4. Turn(q)
    BY <1>4
  <2> HIDE DEF q
  <2>5. ASSUME EventsRight
        PROVE  EventsRight' /\ KnowsEvents(q)' /\ (Books(q) => Books(q)')
    <3>1. EventsRight' /\ KnowsEvents(q)'
      BY <2>1, <2>2, <2>5, SameEvents DEF KnowsEvents, GiveOps, TakeOps
    <3>2. ASSUME Books(q) PROVE Books(q)'
      <4>1. Standing' = Standing
        BY <2>1, SameEvents
      <4> QED
        BY <2>1, <2>2, <3>2, <4>1 DEF Books, Only, One, GiveOps
    <3> QED
      BY <3>1, <3>2
  <2> QED
    BY <2>1, <2>2, <2>4, <2>5, WorkTurn DEF q
<1>5. CASE CancelAccess(r) /\ Turn(q)
  <2>1. /\ completed' = completed /\ payouts' = payouts /\ events' = events
        /\ row' = [row EXCEPT !.nav = 0]
        /\ purchases' = purchases /\ centres' = centres /\ sales' = sales /\ grants' = grants
        /\ marks' = marks \cup {"shortened"} /\ crashes' = crashes /\ q.op = "cancelAccess"
    BY <1>5 DEF CancelAccess, lessonVars, stakeVars, countVars
  <2>2. q'.op = "idle"
    BY <1>0, <1>5 DEF CancelAccess, End, Keep
  <2>3. row'.credit = row.credit /\ row'.total = row.total
    BY <1>0, <2>1 DEF UserRow
  <2>4. Turn(q)
    BY <1>5
  <2> HIDE DEF q
  <2>5. ASSUME EventsRight
        PROVE  EventsRight' /\ KnowsEvents(q)' /\ (Books(q) => Books(q)')
    <3>1. EventsRight' /\ KnowsEvents(q)'
      BY <2>1, <2>2, <2>5, SameEvents DEF KnowsEvents, GiveOps, TakeOps
    <3>2. ASSUME Books(q) PROVE Books(q)'
      <4>1. Standing' = Standing
        BY <2>1, SameEvents
      <4>2. /\ row.credit = Cardinality(Standing \ {}) /\ row.total + 0 = grants
            /\ \A e \in Standing : events[e].noted
            /\ purchases \subseteq Standing /\ centres = purchases
        BY <2>1, <3>2 DEF Books, Only, One, GiveOps
      <4> QED
        BY <1>0, <2>1, <2>2, <2>3, <4>1, <4>2 DEF Books, Only, One, GiveOps
    <3> QED
      BY <3>1, <3>2
  <2> QED
    BY <2>1, <2>2, <2>4, <2>5, WorkTurn DEF q
<1> QED
  BY <1>1, <1>2, <1>3, <1>4, <1>5

\* A save that has read the row again knows that the row has not changed since
\* the handler read it, so that all it changes differs.
LEMMA ReloadsTurn ==
  ASSUME IInv, NEW r \in Requests, Turn(req[r]),
         CreditReload(r) \/ NoteReload(r) \/ TakeReload(r) \/ TakeEventReload(r)
  PROVE  Turn(req[r])'
<1>0. /\ req \in [Requests -> Request] /\ req[r] \in Request /\ row \in UserRow
      /\ row.credit \in Nat /\ row.total \in Nat /\ row.nav \in Nat
      /\ Shaped(req[r], Len(events))
  BY Known DEF IInv, TypeOK, UserRow
<1> DEFINE q == req[r]
<1>1. ASSUME NEW op, NEW columns, Reload(r, op, columns),
             \/ q.op = "credit" /\ op = "creditSave" /\ columns = Differing(Credited(r))
             \/ q.op = "note" /\ op = "noteSave"
             \/ q.op = "takeRow" /\ op = "takeRowSave" /\ columns = Differing(TakenBack(r))
             \/ /\ q.op = "takeEvent" /\ op = "takeEventSave"
                /\ columns = StateDiffers(r, q.copy.state),
             completed' = completed, payouts' = payouts, events' = events, row' = row,
             purchases' = purchases, centres' = centres, sales' = sales, grants' = grants,
             marks' = marks, crashes' = crashes
      PROVE  Turn(q)'
  <2>1. /\ q'.op = op /\ q'.columns = columns /\ q'.at = q.at /\ q'.row = q.row
        /\ q'.copy = q.copy /\ q'.lesson = q.lesson
    BY <1>0, <1>1 DEF Reload, Keep, Request
  <2>2. q.at \in 1..Len(events)
    BY <1>0, <1>1 DEF Shaped, PlaceOps, TakeOps
  <2>3. op = "creditSave" => columns = {c \in {"credit", "total", "nav"} : row[c] # Credited(r)[c]}
    BY <1>1 DEF Differing
  <2>4. /\ Credited(r).credit = q.row.credit + 1 /\ Credited(r).total = q.row.total + 1
        /\ Credited(r).nav = q.row.nav + 1
    BY DEF Credited
  <2>5. op = "takeRowSave" => columns = {c \in {"credit", "total", "nav"} : row[c] # TakenBack(r)[c]}
    BY <1>1 DEF Differing
  <2>6. TakenBack(r).credit = IF q.row.credit = 0 THEN 0 ELSE q.row.credit - 1
    BY DEF TakenBack
  <2>7. /\ op = "takeEventSave" =>
             (events[q.at].state = "released" /\ q.copy.state = "reversed" => "state" \in columns)
        /\ op = "takeEventSave" /\ q.copy = [events[q.at] EXCEPT !.state = "reversed"]
             => q.copy.state = "reversed"
    BY <1>1, <2>2, Known DEF StateDiffers, Event
  <2> HIDE DEF q
  <2>8. ASSUME EventsRight, KnowsEvents(q)
        PROVE  EventsRight' /\ KnowsEvents(q)' /\ (Books(q) => Books(q)')
    <3>1. EventsRight' /\ KnowsEvents(q)'
      BY <1>1, <2>1, <2>7, <2>8, SameEvents DEF KnowsEvents, GiveOps, TakeOps
    <3>2. ASSUME Books(q) PROVE Books(q)'
      <4>1. Standing' = Standing
        BY <1>1, SameEvents
      <4>2. op = "creditSave" => {"credit", "total", "nav"} \subseteq columns
        <5>1. op = "creditSave" => q.row = row
          BY <1>1, <3>2 DEF Books
        <5> QED
          BY <1>0, <2>3, <2>4, <5>1
      <4>3. op = "takeRowSave" => "credit" \in columns
        <5>1. ASSUME op = "takeRowSave" PROVE row.credit > 0 /\ q.row = row
          <6>1. q.at \in Standing
            BY <1>1, <2>2, <2>8, <5>1 DEF KnowsEvents, TakeOps, Standing
          <6>2. row.credit = Cardinality(Standing \ {}) /\ Standing \ {} = Standing /\ q.row = row
            BY <1>1, <3>2, <5>1 DEF Books, Only, One
          <6>3. row.credit = Cardinality(Standing \ {q.at}) + 1 /\ Cardinality(Standing \ {q.at}) \in Nat
            BY <6>1, <6>2, StandingCounts
          <6> QED
            BY <6>2, <6>3
        <5> QED
          BY <1>0, <2>5, <2>6, <5>1
      <4> QED
        BY <1>1, <2>1, <3>2, <4>1, <4>2, <4>3 DEF Books, Only, One, GiveOps
    <3> QED
      BY <3>1, <3>2
  <2> QED
    BY <1>1, <2>1, <2>8, WorkTurn DEF q
<1>2. ASSUME UNCHANGED <<lessonVars, stakeVars, events, learnerVars, countVars, grants, marks>>
      PROVE  /\ completed' = completed /\ payouts' = payouts /\ events' = events /\ row' = row
             /\ purchases' = purchases /\ centres' = centres /\ sales' = sales /\ grants' = grants
             /\ marks' = marks /\ crashes' = crashes
  BY <1>2 DEF lessonVars, stakeVars, learnerVars, countVars
<1>3. CASE CreditReload(r)
  BY <1>1, <1>2, <1>3 DEF CreditReload
<1>4. CASE NoteReload(r)
  BY <1>1, <1>2, <1>4 DEF NoteReload
<1>5. CASE TakeReload(r)
  BY <1>1, <1>2, <1>5 DEF TakeReload
<1>6. CASE TakeEventReload(r)
  BY <1>1, <1>2, <1>6 DEF TakeEventReload
<1> QED
  BY <1>3, <1>4, <1>5, <1>6

LEMMA CreditsTurn ==
  ASSUME IInv, NEW r \in Requests, Turn(req[r]), RewardCredit(r) \/ TakeRow(r)
  PROVE  Turn(req[r])'
<1>0. /\ req \in [Requests -> Request] /\ req[r] \in Request /\ row \in UserRow
      /\ row.credit \in Nat /\ row.total \in Nat /\ row.nav \in Nat /\ sales \in Nat /\ grants \in Nat
      /\ Shaped(req[r], Len(events))
  BY Known DEF IInv, TypeOK, UserRow
<1> DEFINE q == req[r]
<1>1. CASE RewardCredit(r)
  <2>1. /\ completed' = completed /\ payouts' = payouts /\ events' = events
        /\ SaveRow(r, Credited(r))
        /\ purchases' = purchases /\ centres' = centres /\ sales' = sales /\ grants' = grants
        /\ marks' = marks /\ crashes' = crashes /\ q.op = "creditSave"
    BY <1>1 DEF RewardCredit, lessonVars, stakeVars, countVars
  <2>2. q'.op = "centre" /\ q'.at = q.at
    BY <1>0, <1>1, GoesOn DEF RewardCredit, Goto, Keep
  <2>3. {"credit", "total", "nav"} \subseteq q.columns =>
          /\ row'.credit = q.row.credit + 1 /\ row'.total = q.row.total + 1
          /\ row'.nav = q.row.nav + 1
    BY <2>1 DEF SaveRow, Credited
  <2>4. q.at \in 1..Len(events)
    BY <1>0, <2>1 DEF Shaped, PlaceOps
  <2> HIDE DEF q
  <2>5. ASSUME EventsRight, KnowsEvents(q)
        PROVE  EventsRight' /\ KnowsEvents(q)' /\ (Books(q) => Books(q)')
    <3>1. EventsRight' /\ KnowsEvents(q)'
      BY <2>1, <2>2, <2>5, SameEvents DEF KnowsEvents, GiveOps, TakeOps
    <3>2. ASSUME Books(q) PROVE Books(q)'
      <4>1. Standing' = Standing
        BY <2>1, SameEvents
      <4>2. q.at \in Standing
        BY <2>1, <2>4, <2>5 DEF KnowsEvents, GiveOps, Standing
      <4>3. Cardinality(Standing) = Cardinality(Standing \ {q.at}) + 1 /\ Standing \ {} = Standing
        BY <4>2, StandingCounts
      <4>4. row.credit = Cardinality(Standing \ {q.at}) /\ row.total + 1 = grants /\ q.row = row
        BY <2>1, <3>2 DEF Books, Only, One
      <4>5. /\ \A e \in Standing : events[e].noted \/ e = q.at
            /\ purchases \subseteq Standing /\ q.at \in purchases /\ centres = purchases \ {q.at}
            /\ "shortened" \notin marks => purchases = Standing \ {}
            /\ "shortened" \notin marks /\ "dated" \notin marks => row.nav + 1 = sales + grants
        BY <2>1, <3>2 DEF Books, Only, One, GiveOps
      <4>6. row'.credit = Cardinality(Standing) /\ row'.total = grants /\ row'.nav = row.nav + 1
        <5>1. {"credit", "total", "nav"} \subseteq q.columns
          BY <2>1, <3>2 DEF Books
        <5> QED
          BY <2>3, <4>3, <4>4, <5>1
      <4> QED
        BY <1>0, <2>1, <2>2, <4>1, <4>3, <4>5, <4>6 DEF Books, Only, One, GiveOps
    <3> QED
      BY <3>1, <3>2
  <2> QED
    BY <2>1, <2>2, <2>5, WorkTurn DEF q
<1>2. CASE TakeRow(r)
  <2>1. /\ completed' = completed /\ payouts' = payouts /\ events' = events
        /\ SaveRow(r, TakenBack(r))
        /\ purchases' = purchases /\ centres' = centres /\ sales' = sales /\ grants' = grants
        /\ marks' = marks \cup {"shortened"} /\ crashes' = crashes /\ q.op = "takeRowSave"
    BY <1>2 DEF TakeRow, lessonVars, stakeVars, countVars
  <2>2. q'.op = "takePurchase" /\ q'.at = q.at /\ q'.copy = q.copy
    BY <1>0, <1>2, GoesOn DEF TakeRow, Goto, Keep
  <2>3. /\ "credit" \in q.columns =>
             row'.credit = IF q.row.credit = 0 THEN 0 ELSE q.row.credit - 1
        /\ q.row = row => row'.total = row.total
    BY <2>1 DEF SaveRow, TakenBack
  <2>4. q.at \in 1..Len(events)
    BY <1>0, <2>1 DEF Shaped, PlaceOps, TakeOps
  <2> HIDE DEF q
  <2>5. ASSUME EventsRight, KnowsEvents(q)
        PROVE  EventsRight' /\ KnowsEvents(q)' /\ (Books(q) => Books(q)')
    <3>1. EventsRight' /\ KnowsEvents(q)'
      BY <2>1, <2>2, <2>5, SameEvents DEF KnowsEvents, GiveOps, TakeOps
    <3>2. ASSUME Books(q) PROVE Books(q)'
      <4>1. Standing' = Standing
        BY <2>1, SameEvents
      <4>2. q.at \in Standing
        BY <2>1, <2>4, <2>5 DEF KnowsEvents, TakeOps, Standing
      <4>3. /\ Cardinality(Standing) = Cardinality(Standing \ {q.at}) + 1 /\ Standing \ {} = Standing
            /\ Cardinality(Standing \ {q.at}) \in Nat
        BY <4>2, StandingCounts
      <4>4. row.credit = Cardinality(Standing \ {}) /\ row.total + 0 = grants /\ q.row = row
        BY <2>1, <3>2 DEF Books, Only, One
      <4>5. /\ \A e \in Standing : events[e].noted
            /\ purchases \subseteq Standing /\ centres = purchases
        BY <2>1, <3>2 DEF Books, Only, One, GiveOps
      <4>6. row'.credit = Cardinality(Standing \ {q.at}) /\ row'.total = grants
        <5>1. "credit" \in q.columns
          BY <2>1, <3>2 DEF Books
        <5>2. row'.credit = row.credit - 1 /\ row'.total = row.total
          BY <1>0, <2>3, <4>3, <4>4, <5>1
        <5> QED
          BY <1>0, <4>3, <4>4, <5>2
      <4> QED
        BY <1>0, <2>1, <2>2, <4>1, <4>3, <4>5, <4>6 DEF Books, Only, One, GiveOps
    <3> QED
      BY <3>1, <3>2
  <2> QED
    BY <2>1, <2>2, <2>5, WorkTurn DEF q
<1> QED
  BY <1>1, <1>2

LEMMA LogsTurn ==
  ASSUME IInv, NEW r \in Requests, Turn(req[r]), LogOnly(r) \/ RewardLog(r)
  PROVE  Turn(req[r])'
<1>0. /\ req \in [Requests -> Request] /\ req[r] \in Request /\ row \in UserRow
      /\ row.credit \in Nat /\ row.total \in Nat /\ row.nav \in Nat /\ sales \in Nat /\ grants \in Nat
      /\ Shaped(req[r], Len(events)) /\ events \in Seq(Event) /\ Len(events) \in Nat
  BY Known DEF IInv, TypeOK, UserRow
<1> DEFINE q == req[r]
           n == Len(events) + 1
<1>1. CASE LogOnly(r)
  <2>1. /\ completed' = completed /\ payouts' = payouts /\ events' = Append(events, q.copy)
        /\ row' = row /\ purchases' = purchases /\ centres' = centres /\ sales' = sales
        /\ grants' = grants /\ marks' = marks /\ crashes' = crashes /\ q.op = "log"
    BY <1>1 DEF LogOnly, lessonVars, stakeVars, learnerVars, countVars
  <2>2. q'.op = "idle"
    BY <1>0, <1>1 DEF LogOnly, End, Keep, Idle
  <2>3. q.copy \in Event
    BY <1>0, <2>1 DEF Shaped
  <2> HIDE DEF q
  <2>4. /\ Len(events') = n /\ events'[n] = q.copy
        /\ \A e \in 1..Len(events) : events'[e] = events[e]
    BY <1>0, <2>1, <2>3, AppendProperties
  <2>5. ASSUME EventsRight, KnowsEvents(q)
        PROVE  EventsRight' /\ KnowsEvents(q)' /\ (Books(q) => Books(q)')
    <3>1. ~q.copy.granted /\ q.copy.state # "released"
      BY <2>1, <2>5 DEF KnowsEvents
    <3>2. EventsRight'
      BY <1>0, <2>4, <2>5, <3>1 DEF EventsRight
    <3>3. KnowsEvents(q)'
      BY <2>2 DEF KnowsEvents, GiveOps, TakeOps
    <3>4. Standing' = Standing
      BY <1>0, <2>4, <3>1 DEF Standing
    <3>5. Standing \subseteq 1..Len(events)
      BY DEF Standing
    <3>6. ASSUME Books(q) PROVE Books(q)'
      <4>1. /\ row.credit = Cardinality(Standing \ {}) /\ row.total + 0 = grants
            /\ \A e \in Standing : events[e].noted
            /\ purchases \subseteq Standing /\ centres = purchases
            /\ "shortened" \notin marks => purchases = Standing \ {}
            /\ "shortened" \notin marks /\ "dated" \notin marks => row.nav + 0 = sales + grants
        BY <2>1, <3>6 DEF Books, Only, One, GiveOps
      <4>2. \A e \in Standing : events'[e].noted
        BY <2>4, <3>5, <4>1
      <4> QED
        BY <2>1, <2>2, <3>4, <4>1, <4>2 DEF Books, Only, One, GiveOps
    <3> QED
      BY <3>2, <3>3, <3>6
  <2> QED
    BY <2>1, <2>2, <2>5, WorkTurn DEF q
<1>2. CASE RewardLog(r)
  <2> DEFINE new == NewEvent(Of(r), "released", TRUE)
  <2>1. /\ completed' = completed /\ payouts' = payouts /\ events' = Append(events, new)
        /\ row' = row /\ purchases' = purchases /\ centres' = centres /\ sales' = sales
        /\ grants' = grants + 1 /\ marks' = marks /\ crashes' = crashes /\ q.op = "grant"
    BY <1>2 DEF RewardLog, lessonVars, stakeVars, learnerVars, countVars
  <2>2. q'.op = "purchase" /\ q'.at = n /\ q'.row = q.row
    <3> DEFINE next == [q EXCEPT !.op = "purchase", !.at = n]
    <3>1. next.op = "purchase" /\ next.at = n /\ next.row = q.row
      BY <1>0 DEF Request
    <3>2. q' = next
      BY <1>0, <1>2 DEF RewardLog, Keep
    <3> HIDE DEF next, q
    <3> QED
      BY <3>1, <3>2
  <2>3. /\ new \in Event /\ new.by = Teacher[q.lesson] /\ new.state = "released" /\ new.granted
        /\ ~new.noted
    BY <1>0, <2>1, LessonsAssumption DEF Shaped, LessonOps, NewEvent, Event, Of
  <2> HIDE DEF q, new
  <2>4. /\ Len(events') = n /\ events'[n] = new
        /\ \A e \in 1..Len(events) : events'[e] = events[e]
    BY <1>0, <2>1, <2>3, AppendProperties
  <2>5. ASSUME EventsRight, KnowsEvents(q)
        PROVE  EventsRight' /\ KnowsEvents(q)' /\ (Books(q) => Books(q)')
    <3>1. \A e \in 1..Len(events) : events[e].by = new.by => events[e].state # "released"
      BY <2>1, <2>3, <2>5 DEF KnowsEvents, Rewarded
    <3>2. EventsRight'
      <4>1. \A e \in 1..n : e = n \/ e \in 1..Len(events)
        BY <1>0
      <4>2. \A e \in 1..n : /\ events'[e].granted => events'[e].state # "held"
                            /\ events'[e].state = "released" => events'[e].granted
        BY <2>3, <2>4, <2>5, <4>1 DEF EventsRight
      <4>3. ASSUME NEW d \in 1..n, NEW e \in 1..n, events'[d].by = events'[e].by,
                   events'[d].state = "released", events'[e].state = "released"
            PROVE  d = e
        <5>1. CASE d \in 1..Len(events) /\ e \in 1..Len(events)
          BY <2>4, <2>5, <4>3, <5>1 DEF EventsRight
        <5>2. CASE d = n /\ e \in 1..Len(events)
          BY <2>4, <3>1, <4>3, <5>2
        <5>3. CASE e = n /\ d \in 1..Len(events)
          BY <2>4, <3>1, <4>3, <5>3
        <5> QED
          BY <4>1, <5>1, <5>2, <5>3
      <4> QED
        BY <2>4, <4>2, <4>3 DEF EventsRight
    <3>3. KnowsEvents(q)'
      BY <2>2, <2>3, <2>4 DEF KnowsEvents, GiveOps, TakeOps
    <3>4. Standing' = Standing \cup {n} /\ n \notin Standing /\ Standing \subseteq 1..Len(events)
      BY <1>0, <2>3, <2>4 DEF Standing
    <3>5. ASSUME Books(q) PROVE Books(q)'
      <4>1. /\ row.credit = Cardinality(Standing \ {}) /\ row.total + 0 = grants
            /\ \A e \in Standing : events[e].noted
            /\ q.row = row /\ purchases \subseteq Standing /\ centres = purchases
            /\ "shortened" \notin marks => purchases = Standing \ {}
            /\ "shortened" \notin marks /\ "dated" \notin marks => row.nav + 0 = sales + grants
        BY <2>1, <3>5 DEF Books, Only, One, GiveOps
      <4>2. Standing' \ {n} = Standing /\ Standing \ {} = Standing
        BY <3>4
      <4>3. \A e \in Standing' : events'[e].noted \/ e \in {n}
        BY <2>4, <3>4, <4>1
      <4>4. /\ row.credit = Cardinality(Standing' \ {n}) /\ row.total + 1 = grants'
            /\ purchases \subseteq Standing' \ {n}
            /\ "shortened" \notin marks => purchases = Standing' \ {n}
            /\ "shortened" \notin marks /\ "dated" \notin marks => row.nav + 1 = sales + grants'
        <5>1. Cardinality(Standing' \ {n}) = Cardinality(Standing \ {})
          BY <4>2, Zenon
        <5>2. row.total + 1 = grants' /\ (row.nav + 0 = sales + grants => row.nav + 1 = sales + grants')
          BY <1>0, <2>1, <4>1
        <5> QED
          BY <4>1, <4>2, <5>1, <5>2, Zenon
      <4> HIDE DEF n
      <4> QED
        BY <2>1, <2>2, <4>1, <4>3, <4>4 DEF Books, Only, One, GiveOps
    <3> QED
      BY <3>2, <3>3, <3>5
  <2> QED
    BY <2>1, <2>2, <2>5, WorkTurn DEF q
<1> QED
  BY <1>1, <1>2

LEMMA SavesTurn ==
  ASSUME IInv, NEW r \in Requests, Turn(req[r]), RewardNote(r) \/ TakeEvent(r)
  PROVE  Turn(req[r])'
<1>0. /\ req \in [Requests -> Request] /\ req[r] \in Request /\ row \in UserRow
      /\ row.credit \in Nat /\ row.total \in Nat /\ row.nav \in Nat /\ sales \in Nat /\ grants \in Nat
      /\ Shaped(req[r], Len(events)) /\ events \in Seq(Event) /\ Len(events) \in Nat
      /\ \A e \in 1..Len(events) : events[e] \in Event
  BY Known DEF IInv, TypeOK, UserRow
<1> DEFINE q == req[r]
<1>1. CASE RewardNote(r)
  <2> DEFINE saved == [by |-> events[q.at].by, state |-> "released", granted |-> TRUE,
                       noted |-> TRUE, prev |-> q.row.nav]
  <2>1. /\ completed' = completed /\ payouts' = payouts /\ SaveEvent(r, saved)
        /\ row' = row /\ purchases' = purchases /\ centres' = centres /\ sales' = sales
        /\ grants' = grants /\ marks' = marks /\ crashes' = crashes /\ q.op = "noteSave"
    BY <1>1 DEF RewardNote, lessonVars, stakeVars, learnerVars, countVars
  <2>2. q'.op = "idle"
    BY <1>0, <1>1 DEF RewardNote, End, Keep, Idle
  <2>3. q.at \in 1..Len(events) /\ q.row.nav \in Nat
    BY <1>0, <2>1 DEF Shaped, PlaceOps, Request, UserRow
  <2>4. PICK new \in Event :
           /\ events' = [events EXCEPT ![q.at] = new] /\ new.by = events[q.at].by
           /\ events[q.at].state = "released" => new.state = "released"
           /\ new.granted /\ new.noted
    <3>1. /\ saved \in Event /\ saved.by = events[q.at].by /\ saved.state = "released"
          /\ saved.granted /\ saved.noted /\ events[q.at] \in Event
      BY <1>0, <2>3 DEF Event
    <3> HIDE DEF saved
    <3> QED
      BY <2>1, <3>1, SavedEvent
  <2> HIDE DEF q
  <2>5. /\ Len(events') = Len(events)
        /\ \A e \in 1..Len(events) : events'[e] = IF e = q.at THEN new ELSE events[e]
    BY <1>0, <2>1, <2>3, <2>4, ExceptSeq
  <2>6. ASSUME EventsRight, KnowsEvents(q)
        PROVE  EventsRight' /\ KnowsEvents(q)' /\ (Books(q) => Books(q)')
    <3>1. events[q.at].state = "released" /\ events[q.at].granted
      BY <2>1, <2>6 DEF KnowsEvents, GiveOps
    <3>2. \A e \in 1..Len(events) : /\ events'[e].by = events[e].by /\ events'[e].state = events[e].state
                                    /\ events'[e].granted = events[e].granted
                                    /\ events'[e].noted \/ e # q.at
                                    /\ e # q.at => events'[e].noted = events[e].noted
      <4>1. new.by = events[q.at].by /\ new.state = "released" /\ new.granted = TRUE /\ new.noted
        BY <2>4, <3>1 DEF Event
      <4>2. events[q.at].granted = TRUE
        BY <1>0, <2>3, <3>1 DEF Event
      <4> QED
        BY <2>5, <3>1, <4>1, <4>2
    <3>3. EventsRight'
      BY <2>5, <2>6, <3>2 DEF EventsRight
    <3>4. KnowsEvents(q)'
      BY <2>2 DEF KnowsEvents, GiveOps, TakeOps
    <3>5. Standing' = Standing /\ Standing \subseteq 1..Len(events)
      BY <2>5, <3>2 DEF Standing
    <3>6. ASSUME Books(q) PROVE Books(q)'
      <4>1. /\ row.credit = Cardinality(Standing \ {}) /\ row.total + 0 = grants
            /\ \A e \in Standing : events[e].noted \/ e = q.at
            /\ purchases \subseteq Standing /\ centres = purchases
            /\ "shortened" \notin marks => purchases = Standing \ {}
            /\ "shortened" \notin marks /\ "dated" \notin marks => row.nav + 0 = sales + grants
        BY <2>1, <3>6 DEF Books, Only, One, GiveOps
      <4>2. \A e \in Standing' : events'[e].noted
        BY <3>2, <3>5, <4>1
      <4> QED
        BY <2>1, <2>2, <3>5, <4>1, <4>2 DEF Books, Only, One, GiveOps
    <3> QED
      BY <3>3, <3>4, <3>6
  <2> QED
    BY <2>1, <2>2, <2>6, WorkTurn DEF q
<1>2. CASE TakeEvent(r)
  <2>1. /\ completed' = completed /\ payouts' = payouts /\ SaveEvent(r, q.copy)
        /\ row' = row /\ purchases' = purchases /\ centres' = centres /\ sales' = sales
        /\ grants' = grants /\ marks' = marks /\ crashes' = crashes /\ q.op = "takeEventSave"
    BY <1>2 DEF TakeEvent, lessonVars, stakeVars, learnerVars, countVars
  <2>2. q'.op = "idle"
    BY <1>0, <1>2 DEF TakeEvent, End, Keep, Idle
  <2>3. q.at \in 1..Len(events) /\ q.copy \in Event
    BY <1>0, <2>1 DEF Shaped, PlaceOps, TakeOps
  <2>4. PICK new \in Event :
           /\ events' = [events EXCEPT ![q.at] = new] /\ new.by = q.copy.by
           /\ "state" \in q.columns => new.state = q.copy.state
    <3>1. events[q.at] \in Event
      BY <1>0, <2>3
    <3> HIDE DEF q
    <3> QED
      BY <2>1, <2>3, <3>1, SavedEvent DEF q
  <2> HIDE DEF q
  <2>5. /\ Len(events') = Len(events)
        /\ \A e \in 1..Len(events) : events'[e] = IF e = q.at THEN new ELSE events[e]
    BY <1>0, <2>3, <2>4, ExceptSeq
  <2>6. ASSUME EventsRight, KnowsEvents(q)
        PROVE  EventsRight' /\ KnowsEvents(q)' /\ (Books(q) => Books(q)')
    <3>1. q.copy = [events[q.at] EXCEPT !.state = "reversed"]
      BY <2>1, <2>6 DEF KnowsEvents
    <3>2. new.state = "reversed" /\ new.by = events[q.at].by
      <4>1. q.copy.state = "reversed" /\ q.copy.by = events[q.at].by
        BY <1>0, <2>3, <3>1 DEF Event
      <4>2. "state" \in q.columns
        BY <2>1, <2>6 DEF KnowsEvents
      <4> QED
        BY <2>4, <4>1, <4>2
    <3>3. EventsRight'
      BY <2>5, <2>6, <3>2 DEF EventsRight
    <3>4. KnowsEvents(q)'
      BY <2>2 DEF KnowsEvents, GiveOps, TakeOps
    <3>5. Standing' = Standing \ {q.at} /\ Standing \subseteq 1..Len(events)
      BY <2>5, <3>2 DEF Standing
    <3>6. ASSUME Books(q) PROVE Books(q)'
      <4>1. /\ row.credit = Cardinality(Standing') /\ row.total + 0 = grants
            /\ \A e \in Standing : events[e].noted
            /\ purchases \subseteq Standing' /\ centres = purchases /\ "shortened" \in marks
        BY <2>1, <3>5, <3>6 DEF Books, Only, One, GiveOps
      <4>2. \A e \in Standing' : events'[e].noted
        BY <2>5, <3>5, <4>1
      <4>3. Standing' \ {} = Standing'
        OBVIOUS
      <4> QED
        BY <2>1, <2>2, <4>1, <4>2, <4>3 DEF Books, Only, One, GiveOps
    <3> QED
      BY <3>3, <3>4, <3>6
  <2> QED
    BY <2>1, <2>2, <2>6, WorkTurn DEF q
<1> QED
  BY <1>1, <1>2

\* A handler starts when it was idle, and notices whoever is at work.
LEMMA Starters ==
  ASSUME IInv, NEW r \in Requests,
         \/ \E l \in Lessons : CompleteCheck(r, l)
         \/ \E i \in Instructors : AuditRead(r, i)
         \/ \E e \in 1..Len(events) : TakeBegin(r, e) \/ \E s \in EventStatus : ReviewRead(r, e, s)
         \/ CancelRead(r) \/ SaleRead(r)
  PROVE  /\ req[r].op = "idle" /\ OthersWait(r) /\ marks \subseteq marks'
         /\ "overlapped" \notin marks' => Quiet
         /\ req'[r].op # "idle"
<1>1. ASSUME NEW first, first.op # "idle", NEW more, Starting(r, first, more)
      PROVE  /\ req[r].op = "idle" /\ OthersWait(r) /\ marks \subseteq marks'
             /\ "overlapped" \notin marks' => Quiet
             /\ req'[r].op # "idle"
  BY <1>1 DEF Starting, OthersWait, Quiet, IInv, TypeOK
<1>2. ASSUME NEW l \in Lessons, CompleteCheck(r, l)
      PROVE  \E first, more : first.op # "idle" /\ Starting(r, first, more)
  <2>1. [Idle EXCEPT !.op = "commit", !.lesson = l].op # "idle"
    BY DEF Idle
  <2> QED
    BY <1>2, <2>1 DEF CompleteCheck, Start
<1>3. ASSUME NEW i \in Instructors, AuditRead(r, i)
      PROVE  \E first, more : first.op # "idle" /\ Starting(r, first, more)
  <2>1. [Idle EXCEPT !.op = "log", !.copy = NewEvent(i, "reversed", FALSE)].op # "idle"
    BY DEF Idle
  <2> QED
    BY <1>3, <2>1 DEF AuditRead, Start
<1>4. ASSUME NEW e \in 1..Len(events), TakeBegin(r, e)
      PROVE  \E first, more : first.op # "idle" /\ Starting(r, first, more)
  <2>1. [Idle EXCEPT !.op = "take", !.at = e, !.copy = events[e]].op # "idle"
    BY DEF Idle
  <2> QED
    BY <1>4, <2>1 DEF TakeBegin
<1>5. ASSUME NEW e \in 1..Len(events), NEW s \in EventStatus, ReviewRead(r, e, s)
      PROVE  \E first, more : first.op # "idle" /\ Starting(r, first, more)
  <2>1. [Idle EXCEPT !.op = "takeEvent", !.at = e, !.copy = [events[e] EXCEPT !.state = s]].op # "idle"
    BY DEF Idle
  <2> QED
    BY <1>5, <2>1 DEF ReviewRead
<1>6. ASSUME CancelRead(r)
      PROVE  \E first, more : first.op # "idle" /\ Starting(r, first, more)
  <2>1. [Idle EXCEPT !.op = IF purchases = {} THEN "cancelAccess" ELSE "cancel", !.read = purchases].op # "idle"
    BY DEF Idle
  <2> QED
    BY <1>6, <2>1 DEF CancelRead, Start
<1>7. ASSUME SaleRead(r)
      PROVE  \E first, more : first.op # "idle" /\ Starting(r, first, more)
  <2>1. [Idle EXCEPT !.op = "sale", !.row = row].op # "idle"
    BY DEF Idle
  <2> QED
    BY <1>7, <2>1 DEF SaleRead, Start
<1>8. \E first, more : first.op # "idle" /\ Starting(r, first, more)
  BY <1>2, <1>3, <1>4, <1>5, <1>6, <1>7
<1> QED
  BY <1>1, <1>8

\* A handler that is at work goes on, or is done.
LEMMA Workers ==
  ASSUME IInv, NEW r \in Requests,
         \/ CompleteCommit(r) \/ Stake(r) \/ Reward(r)
         \/ TakeRead(r) \/ TakeReload(r) \/ TakeRow(r) \/ TakePurchase(r) \/ TakeCentre(r)
         \/ TakeEventReload(r) \/ TakeEvent(r)
         \/ SaleSave(r) \/ CancelPurchases(r) \/ CancelCentres(r) \/ CancelAccess(r) \/ Crash(r)
  PROVE  /\ req[r].op # "idle" /\ OthersWait(r) /\ marks \subseteq marks'
         /\ req'[r].op = "idle" => req'[r] = Idle
<1>0. req \in [Requests -> Request] /\ req[r] \in Request
  BY DEF IInv, TypeOK
<1> DEFINE Moves == /\ req[r].op # "idle" /\ OthersWait(r) /\ marks \subseteq marks'
                    /\ req'[r].op = "idle" => req'[r] = Idle
<1>1. ASSUME NEW next, Keep(r, next)
      PROVE  OthersWait(r) /\ req'[r] = next
  BY <1>0, <1>1 DEF Keep, OthersWait
<1>2. ASSUME End(r) PROVE OthersWait(r) /\ req'[r] = Idle
  BY <1>1, <1>2 DEF End
<1>3. ASSUME NEW op, Goto(r, op) PROVE OthersWait(r) /\ req'[r].op = op
  <2> DEFINE next == [req[r] EXCEPT !.op = op]
  <2>1. next.op = op
    BY <1>0 DEF Request
  <2>2. Keep(r, next)
    BY <1>3 DEF Goto
  <2> HIDE DEF next
  <2> QED
    BY <1>1, <2>1, <2>2
<1>4. ASSUME CompleteCommit(r) \/ Stake(r) PROVE Moves
  BY <1>2, <1>3, <1>4 DEF CompleteCommit, Stake, StakeCheck, StakePay, StakeNote
<1>5. ASSUME RewardCheck(r) PROVE Moves
  <2> DEFINE next == [req[r] EXCEPT !.op = "log", !.copy = NewEvent(Of(r), "held", FALSE)]
  <2>1. next.op = "log"
    BY <1>0 DEF Request
  <2>2. End(r) \/ Goto(r, "referrer") \/ Keep(r, next)
    BY <1>5 DEF RewardCheck
  <2>3. req[r].op = "reward" /\ marks' = marks
    BY <1>5 DEF RewardCheck
  <2> HIDE DEF next
  <2> QED
    BY <1>1, <1>2, <1>3, <2>1, <2>2, <2>3
<1>6. ASSUME RewardRead(r) PROVE Moves
  <2> DEFINE next == [req[r] EXCEPT !.op = "grant", !.row = row]
  <2>1. next.op = "grant"
    BY <1>0 DEF Request
  <2>2. Keep(r, next) /\ req[r].op = "referrer" /\ marks' = marks
    BY <1>6 DEF RewardRead
  <2> HIDE DEF next
  <2> QED
    BY <1>1, <2>1, <2>2
<1>7. ASSUME RewardLog(r) PROVE Moves
  <2> DEFINE next == [req[r] EXCEPT !.op = "purchase", !.at = Len(events) + 1]
  <2>1. next.op = "purchase"
    BY <1>0 DEF Request
  <2>2. Keep(r, next) /\ req[r].op = "grant" /\ marks' = marks
    BY <1>7 DEF RewardLog
  <2> HIDE DEF next
  <2> QED
    BY <1>1, <2>1, <2>2
<1>8. ASSUME TakeRead(r) PROVE Moves
  <2> DEFINE next == [req[r] EXCEPT !.op = "takeRow", !.row = row]
  <2>1. next.op = "takeRow"
    BY <1>0 DEF Request
  <2>2. Keep(r, next) /\ req[r].op = "take" /\ marks' = marks
    BY <1>8 DEF TakeRead
  <2> HIDE DEF next
  <2> QED
    BY <1>1, <2>1, <2>2
<1>9. ASSUME TakeCentre(r) PROVE Moves
  <2> DEFINE next == [req[r] EXCEPT !.op = "takeEvent", !.copy.state = "reversed"]
  <2>1. next.op = "takeEvent"
    BY <1>0 DEF Request
  <2>2. Keep(r, next) /\ req[r].op = "takeCentre" /\ marks' = marks
    BY <1>9 DEF TakeCentre
  <2> HIDE DEF next
  <2> QED
    BY <1>1, <2>1, <2>2
<1>10. ASSUME \/ LogOnly(r) \/ RewardPurchase(r) \/ RewardCredit(r) \/ RewardCentre(r) \/ RewardNote(r)
       PROVE  Moves
  BY <1>2, <1>3, <1>10 DEF LogOnly, RewardPurchase, RewardCredit, RewardCentre, RewardNote
<1>11. ASSUME TakeRow(r) \/ TakePurchase(r) \/ TakeEvent(r) PROVE Moves
  BY <1>2, <1>3, <1>11 DEF TakeRow, TakePurchase, TakeEvent
<1>12. ASSUME \/ SaleSave(r) \/ CancelPurchases(r) \/ CancelCentres(r) \/ CancelAccess(r) \/ Crash(r)
       PROVE  Moves
  BY <1>2, <1>3, <1>12 DEF SaleSave, CancelPurchases, CancelCentres, CancelAccess, Crash
<1>13. ASSUME CreditReload(r) \/ NoteReload(r) \/ TakeReload(r) \/ TakeEventReload(r)
       PROVE  Moves
  <2>1. PICK op, columns : op # "idle" /\ Reload(r, op, columns)
    BY <1>13 DEF CreditReload, NoteReload, TakeReload, TakeEventReload
  <2>2. req[r].op # "idle" /\ marks' = marks
    BY <1>13 DEF CreditReload, NoteReload, TakeReload, TakeEventReload
  <2> DEFINE next == [req[r] EXCEPT !.op = op, !.columns = columns]
  <2>3. next.op = op
    BY <1>0 DEF Request
  <2>4. Keep(r, next)
    BY <2>1 DEF Reload
  <2> HIDE DEF next
  <2> QED
    BY <1>1, <2>1, <2>2, <2>3, <2>4
<1> HIDE DEF Moves
<1>14. Moves
  BY <1>4, <1>5, <1>6, <1>7, <1>8, <1>9, <1>10, <1>11, <1>12, <1>13 DEF Reward
<1> QED
  BY <1>14 DEF Moves

LEMMA SerialInvFirst == Init => SerialInv
<1> SUFFICES ASSUME Init PROVE SerialInv
  OBVIOUS
<1>1. \A r \in Requests : req[r].op = "idle"
  BY DEF Init, Idle
<1>2. Len(events) = 0 /\ 1..Len(events) = {}
  BY DEF Init
<1>3. Standing = {} /\ Cardinality(Standing) = 0
  BY <1>2, FS_EmptySet DEF Standing
<1>4. Paid(Idle)
  BY DEF Init, Paid, Idle
<1>5. EventsRight /\ KnowsEvents(Idle)
  BY <1>2 DEF EventsRight, KnowsEvents, GiveOps, TakeOps, Idle
<1>6. Even
  BY <1>3 DEF Init, EmptyRow, Even
<1>7. Books(Idle)
  BY <1>6, InitIInv, EvenBooks DEF Idle
<1> QED
  BY <1>1, <1>4, <1>5, <1>7 DEF SerialInv, Alone, Turn

LEMMA SerialInvKept == IInv /\ SerialInv /\ [Next]_vars => SerialInv'
<1> SUFFICES ASSUME IInv, SerialInv, [Next]_vars PROVE SerialInv'
  OBVIOUS
<1>1. ASSUME UNCHANGED <<completed, payouts, events, row, purchases, centres, sales, crashes, grants,
                         req, marks>>
      PROVE  SerialInv'
  <2>1. Standing' = Standing
    BY <1>1 DEF Standing
  <2>2. ASSUME NEW r \in Requests, Turn(req[r]) PROVE Turn(req[r])'
    BY <1>1, <2>1, <2>2 DEF Turn, Paid, EventsRight, KnowsEvents, Rewarded, Books, Only, One
  <2>3. Turn(Idle) => Turn(Idle)'
    BY <1>1, <2>1 DEF Turn, Paid, EventsRight, KnowsEvents, Rewarded, Books, Only, One
  <2> QED
    BY <1>1, <2>2, <2>3 DEF SerialInv, Alone, Quiet
<1>2. CASE UNCHANGED vars
  BY <1>1, <1>2 DEF vars, lessonVars, stakeVars, learnerVars, countVars
<1>3. ASSUME NEW i \in Instructors, Approve(i) \/ Suspend(i) \/ Age(i)
      PROVE  SerialInv'
  BY <1>1, <1>3 DEF Approve, Suspend, Age, stakeVars, learnerVars, countVars
<1>4. ASSUME NEW r \in Requests,
             \/ \E l \in Lessons : CompleteCheck(r, l)
             \/ \E i \in Instructors : AuditRead(r, i)
             \/ \E e \in 1..Len(events) : TakeBegin(r, e) \/ \E s \in EventStatus : ReviewRead(r, e, s)
             \/ CancelRead(r) \/ SaleRead(r)
      PROVE  SerialInv'
  <2>1. /\ req[r].op = "idle" /\ OthersWait(r) /\ marks \subseteq marks'
        /\ "overlapped" \notin marks' => Quiet
        /\ req'[r].op # "idle"
    BY <1>4, Starters
  <2>2. Turn(Idle) => Turn(req[r])'
    BY <1>4, StartsTurn, AccessTurns
  <2> QED
    BY <2>1, <2>2, TakesTurns
<1>5. ASSUME NEW r \in Requests,
             \/ CompleteCommit(r) \/ Stake(r) \/ Reward(r)
             \/ TakeRead(r) \/ TakeReload(r) \/ TakeRow(r) \/ TakePurchase(r) \/ TakeCentre(r)
         \/ TakeEventReload(r) \/ TakeEvent(r)
             \/ SaleSave(r) \/ CancelPurchases(r) \/ CancelCentres(r) \/ CancelAccess(r) \/ Crash(r)
      PROVE  SerialInv'
  <2>1. /\ req[r].op # "idle" /\ OthersWait(r) /\ marks \subseteq marks'
        /\ req'[r].op = "idle" => req'[r] = Idle
    BY <1>5, Workers
  <2>2. Turn(req[r]) => Turn(req[r])'
    BY <1>5, LessonsTurn, BenefitsTurn, ReloadsTurn, CreditsTurn, AccessTurns, LogsTurn, SavesTurn DEF Reward
  <2> QED
    BY <2>1, <2>2, TakesTurns
<1>6. CASE Next
  BY <1>3, <1>4, <1>5, <1>6 DEF Next, Review, Access
<1> QED
  BY <1>2, <1>6

LEMMA SerialInvIsEnough == IInv /\ SerialInv => RewardedOnce /\ BooksBalance
<1> SUFFICES ASSUME IInv, SerialInv PROVE RewardedOnce /\ BooksBalance
  OBVIOUS
<1>1. ASSUME "overlapped" \notin marks
      PROVE  \E q : Turn(q) /\ (Quiet => q.op = "idle")
  <2>1. CASE Quiet
    BY <1>1, <2>1 DEF SerialInv, Idle
  <2>2. CASE ~Quiet
    BY <1>1, <2>2 DEF SerialInv, Quiet
  <2> QED
    BY <2>1, <2>2
<1>2. RewardedOnce
  BY <1>1 DEF Turn, Paid, EventsRight, RewardedOnce
<1>3. BooksBalance
  <2> SUFFICES ASSUME Quiet, crashes = 0, marks \subseteq {"shortened", "dated"}
               PROVE  /\ row.credit = Cardinality(Standing) /\ row.total = grants
                      /\ purchases \subseteq Standing /\ centres = purchases
                      /\ "shortened" \notin marks => purchases = Standing
                      /\ marks = {} => row.nav = sales + grants
    BY DEF BooksBalance
  <2>1. "overlapped" \notin marks /\ "overruled" \notin marks
    OBVIOUS
  <2>2. PICK q : Turn(q) /\ q.op = "idle"
    BY <1>1, <2>1
  <2>3. Even
    BY <2>1, <2>2, EvenBooks DEF Turn
  <2> QED
    BY <2>3 DEF Even
<1> QED
  BY <1>2, <1>3

\* As long as no two handlers were in flight together, a lesson is paid for
\* once, and one reward of an instructor stands, however many handlers die.
THEOREM OneReward == Spec => []RewardedOnce
BY InitIInv, NextIInv, SerialInvFirst, SerialInvKept, SerialInvIsEnough, PTL DEF Spec

\* ... and unless one died, the learner has what the standing rewards brought:
\* the years of navigation with what was bought, as long as nothing shortened
\* the access and Apple gave no end.
THEOREM TheBooksBalance == Spec => []BooksBalance
BY InitIInv, NextIInv, SerialInvFirst, SerialInvKept, SerialInvIsEnough, PTL DEF Spec
=============================================================================
