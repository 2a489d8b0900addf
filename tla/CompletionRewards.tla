------------------------- MODULE CompletionRewards -------------------------
(***************************************************************************)
(* What a completed lesson brings to whoever invited its instructor        *)
(* (ReferralsService): an instructor is owed a stake per lesson            *)
(* (processI2IStake), a learner is given a bundle and a credit for the     *)
(* first lesson (grantL2IRewardsForFirstSettledLesson).  Administrators    *)
(* review the events and take rewards back (reviewReferralEvent), the      *)
(* daily audit notes referrals that are a year old, and the learner buys   *)
(* navigation access besides.                                              *)
(*                                                                         *)
(* All of it runs after the lesson was committed and outside any           *)
(* transaction: each statement is a step, and a handler may die between    *)
(* two.  One learner is the referrer of all instructors in ByLearner, for  *)
(* the rows of different referrers never meet.                             *)
(*                                                                         *)
(* Repository.save of a row that exists is two statements: it reads the    *)
(* row again, and UPDATEs the columns in which the entity differs from     *)
(* that, req[r].columns.  What the handler has not meant to change differs *)
(* too, if another one has changed it since the entity was read.           *)
(***************************************************************************)
EXTENDS Naturals, Sequences, FiniteSets

CONSTANTS Instructors,  \* instructors who were invited, ...
          ByLearner,    \* ... those among them by the learner
          Lessons,
          Teacher,      \* the instructor of a lesson
          Requests,     \* handlers that may be in flight together
          MaxCrashes,   \* bound on the handlers that die half-way
          MaxReviews,   \* bound on the reviews by administrators
          MaxSales,     \* bound on the years of navigation the learner buys
          Ends,         \* years from now to an end of access that Apple may give
          NoLesson

ASSUME InstructorsAssumption == ByLearner \subseteq Instructors
ASSUME LessonsAssumption == Teacher \in [Lessons -> Instructors] /\ NoLesson \notin Lessons
ASSUME BoundsAssumption == MaxCrashes \in Nat /\ MaxReviews \in Nat /\ MaxSales \in Nat
                            /\ Ends \subseteq Nat

VARIABLES
  completed,  \* the lessons that are completed
  approved,   \* the instructors that are approved
  old,        \* the instructors whose referral is more than a year old
  payouts,    \* how many payout rows a lesson has
  staked,     \* the lessons that name their payout (referralStakePayoutId)
  events,     \* the L2I events, in the order they were logged
  row,        \* the learner's row: credits of 25 pounds, years of navigation
  purchases,  \* the events whose bundle purchase is completed
  centres,    \* the events whose centre entitlement is active
  sales,      \* the years of navigation the learner bought
  req,        \* where each handler in flight is
  crashes, reviews,
  grants,     \* auxiliary: how many rewards were ever logged
  marks       \* auxiliary: what has happened so far, see Marks

lessonVars == <<completed, approved, old>>
stakeVars == <<payouts, staked>>
learnerVars == <<row, purchases, centres, sales>>
countVars == <<crashes, reviews>>
vars == <<lessonVars, stakeVars, events, learnerVars, req, countVars, grants, marks>>

\* Two handlers were in flight together, an administrator set the state of an
\* event by hand, a cancellation or a reversal took navigation away, a sale set
\* its end to a date that Apple gave.
Marks == {"overlapped", "overruled", "shortened", "dated"}

EventStatus == {"held", "released", "reversed"}
\* noted: the event names what was given for it, prev is previousNavigationAccessUntil.
Event == [by : Instructors, state : EventStatus, granted : BOOLEAN, noted : BOOLEAN, prev : Nat]
NewEvent(i, state, granted) ==
  [by |-> i, state |-> state, granted |-> granted, noted |-> FALSE, prev |-> 0]
NoEvent == <<>>

UserRow == [credit : Nat, total : Nat, nav : Nat]
EmptyRow == [credit |-> 0, total |-> 0, nav |-> 0]
Column == {"credit", "total", "nav", "state"}

\* What a handler has read: a lesson, the learner's row, an event and its
\* place in the log, or the purchases it cancels; and what its save found to differ.
Request ==
  [op : {"idle", "commit", "stake", "pay", "noteStake", "reward", "log", "referrer", "grant",
         "purchase", "credit", "creditSave", "centre", "note", "noteSave",
         "take", "takeRow", "takeRowSave", "takePurchase", "takeCentre", "takeEvent",
         "takeEventSave", "sale", "cancel", "cancelCentres", "cancelAccess"},
   lesson : Lessons \cup {NoLesson}, row : UserRow, at : Nat,
   copy : Event \cup {NoEvent}, read : SUBSET Nat, columns : SUBSET Column]
Idle == [op |-> "idle", lesson |-> NoLesson, row |-> EmptyRow, at |-> 0, copy |-> NoEvent,
         read |-> {}, columns |-> {}]

TypeOK ==
  /\ completed \subseteq Lessons
  /\ approved \subseteq Instructors /\ old \subseteq Instructors
  /\ payouts \in [Lessons -> Nat] /\ staked \subseteq Lessons
  /\ events \in Seq(Event)
  /\ row \in UserRow
  /\ purchases \subseteq 1..Len(events) /\ centres \subseteq 1..Len(events)
  /\ sales \in 0..MaxSales /\ crashes \in 0..MaxCrashes /\ reviews \in 0..MaxReviews /\ grants \in Nat
  /\ req \in [Requests -> Request]
  /\ marks \subseteq Marks

Init ==
  /\ completed = {} /\ approved \in SUBSET Instructors /\ old = {}
  /\ payouts = [l \in Lessons |-> 0] /\ staked = {}
  /\ events = <<>> /\ row = EmptyRow /\ purchases = {} /\ centres = {}
  /\ sales = 0 /\ crashes = 0 /\ reviews = 0 /\ grants = 0
  /\ req = [r \in Requests |-> Idle]
  /\ marks = {}

Starting(r, first, more) ==
  /\ req[r].op = "idle"
  /\ req' = [req EXCEPT ![r] = first]
  /\ marks' = marks \cup more \cup
       (IF \E q \in Requests : req[q].op # "idle" THEN {"overlapped"} ELSE {})
Start(r, first) == Starting(r, first, {})
Keep(r, next) == req' = [req EXCEPT ![r] = next]
Goto(r, op) == Keep(r, [req[r] EXCEPT !.op = op])
End(r) == Keep(r, Idle)
Of(r) == Teacher[req[r].lesson]

\* A save of the learner's row, and one of an event.  The metadata of an event
\* hold a date or an id that is new, so they are always among what differs.
Reload(r, next, columns) == Keep(r, [req[r] EXCEPT !.op = next, !.columns = columns])
Differing(new) == {c \in {"credit", "total", "nav"} : row[c] # new[c]}
SaveRow(r, new) ==
  LET column(c) == IF c \in req[r].columns THEN new[c] ELSE row[c]
  IN  row' = [credit |-> column("credit"), total |-> column("total"), nav |-> column("nav")]
StateDiffers(r, state) == IF events[req[r].at].state = state THEN {} ELSE {"state"}
SaveEvent(r, new) ==
  events' = [events EXCEPT ![req[r].at] =
               [new EXCEPT !.state = IF "state" \in req[r].columns
                                     THEN new.state ELSE events[req[r].at].state]]

-----------------------------------------------------------------------------
(* A lesson is completed: updateLessonStatus and what it calls afterwards.   *)

CompleteCheck(r, l) ==
  /\ l \notin completed
  /\ Start(r, [Idle EXCEPT !.op = "commit", !.lesson = l])
  /\ UNCHANGED <<lessonVars, stakeVars, events, learnerVars, countVars, grants>>

\* The status is not checked again under the lock.  Of the two calls that
\* follow, one returns at once, since the instructor was invited one way.
CompleteCommit(r) ==
  /\ req[r].op = "commit"
  /\ completed' = completed \cup {req[r].lesson}
  /\ Goto(r, IF Of(r) \in ByLearner THEN "reward" ELSE "stake")
  /\ UNCHANGED <<approved, old, stakeVars, events, learnerVars, countVars, grants, marks>>

-----------------------------------------------------------------------------
(* The stake: processI2IStake.  Its events are only logged, never read.      *)

StakeCheck(r) ==
  /\ req[r].op = "stake"
  /\ IF req[r].lesson \in staked \/ Of(r) \in old \/ Of(r) \notin approved
     THEN End(r)
     ELSE Goto(r, IF payouts[req[r].lesson] > 0 THEN "noteStake" ELSE "pay")
  /\ UNCHANGED <<lessonVars, stakeVars, events, learnerVars, countVars, grants, marks>>

StakePay(r) ==
  /\ req[r].op = "pay"
  /\ payouts' = [payouts EXCEPT ![req[r].lesson] = @ + 1]
  /\ Goto(r, "noteStake")
  /\ UNCHANGED <<lessonVars, staked, events, learnerVars, countVars, grants, marks>>

StakeNote(r) ==
  /\ req[r].op = "noteStake"
  /\ staked' = staked \cup {req[r].lesson}
  /\ End(r)
  /\ UNCHANGED <<lessonVars, payouts, events, learnerVars, countVars, grants, marks>>

-----------------------------------------------------------------------------
(* The reward: grantL2IRewardsForFirstSettledLesson.                         *)

\* (Mutant: only the first event is looked at.)
FirstRewarded(i) == events # <<>> /\ events[1].by = i /\ events[1].state = "released"

Rewarded(i) == \E e \in 1..Len(events) : events[e].by = i /\ events[e].state = "released"

\* (Mutant: a reward that cannot be given yet is not noted.)
RewardCheckSilent(r) ==
  /\ req[r].op = "reward"
  /\ IF Rewarded(Of(r)) \/ Of(r) \notin approved THEN End(r) ELSE Goto(r, "referrer")
  /\ UNCHANGED <<lessonVars, stakeVars, events, learnerVars, countVars, grants, marks>>

RewardCheck(r) ==
  /\ req[r].op = "reward"
  /\ \/ Rewarded(Of(r)) /\ End(r)
     \/ /\ ~Rewarded(Of(r)) /\ Of(r) \notin approved
        /\ Keep(r, [req[r] EXCEPT !.op = "log", !.copy = NewEvent(Of(r), "held", FALSE)])
     \/ /\ ~Rewarded(Of(r)) /\ Of(r) \in approved
        /\ Goto(r, "referrer")
  /\ UNCHANGED <<lessonVars, stakeVars, events, learnerVars, countVars, grants, marks>>

\* An event that brings nothing: a reward that is held, or the yearly audit's.
LogOnly(r) ==
  /\ req[r].op = "log"
  /\ events' = Append(events, req[r].copy)
  /\ End(r)
  /\ UNCHANGED <<lessonVars, stakeVars, learnerVars, countVars, grants, marks>>

\* (Mutant: the event is left for later.)
RewardReadUnlogged(r) ==
  /\ req[r].op = "referrer"
  /\ Keep(r, [req[r] EXCEPT !.op = "purchase", !.row = row])
  /\ UNCHANGED <<lessonVars, stakeVars, events, learnerVars, countVars, grants, marks>>

RewardRead(r) ==
  /\ req[r].op = "referrer"
  /\ Keep(r, [req[r] EXCEPT !.op = "grant", !.row = row])
  /\ UNCHANGED <<lessonVars, stakeVars, events, learnerVars, countVars, grants, marks>>

\* (Mutant: the place after the event.)
RewardLogNext(r) ==
  /\ req[r].op = "grant"
  /\ events' = Append(events, NewEvent(Of(r), "released", TRUE))
  /\ grants' = grants + 1
  /\ Keep(r, [req[r] EXCEPT !.op = "purchase", !.at = Len(events) + 2])
  /\ UNCHANGED <<lessonVars, stakeVars, learnerVars, countVars, marks>>

RewardLog(r) ==
  /\ req[r].op = "grant"
  /\ events' = Append(events, NewEvent(Of(r), "released", TRUE))
  /\ grants' = grants + 1
  /\ Keep(r, [req[r] EXCEPT !.op = "purchase", !.at = Len(events) + 1])
  /\ UNCHANGED <<lessonVars, stakeVars, learnerVars, countVars, marks>>

RewardPurchase(r) ==
  /\ req[r].op = "purchase"
  /\ purchases' = purchases \cup {req[r].at}
  /\ Goto(r, "credit")
  /\ UNCHANGED <<lessonVars, stakeVars, events, row, centres, sales, countVars, grants, marks>>

\* What the row was when the handler read it, before the event was logged, and more.
Credited(r) == [credit |-> req[r].row.credit + 1, total |-> req[r].row.total + 1,
                nav |-> req[r].row.nav + 1]

CreditReload(r) ==
  /\ req[r].op = "credit"
  /\ Reload(r, "creditSave", Differing(Credited(r)))
  /\ UNCHANGED <<lessonVars, stakeVars, events, learnerVars, countVars, grants, marks>>

RewardCredit(r) ==
  /\ req[r].op = "creditSave"
  /\ SaveRow(r, Credited(r))
  /\ Goto(r, "centre")
  /\ UNCHANGED <<lessonVars, stakeVars, events, purchases, centres, sales, countVars, grants, marks>>

RewardCentre(r) ==
  /\ req[r].op = "centre"
  /\ centres' = centres \cup {req[r].at}
  /\ Goto(r, "note")
  /\ UNCHANGED <<lessonVars, stakeVars, events, row, purchases, sales, countVars, grants, marks>>

\* The event is saved as it was logged, its state included.
NoteReload(r) ==
  /\ req[r].op = "note"
  /\ Reload(r, "noteSave", StateDiffers(r, "released"))
  /\ UNCHANGED <<lessonVars, stakeVars, events, learnerVars, countVars, grants, marks>>

RewardNote(r) ==
  /\ req[r].op = "noteSave"
  /\ SaveEvent(r, [by |-> events[req[r].at].by, state |-> "released", granted |-> TRUE,
                   noted |-> TRUE, prev |-> req[r].row.nav])
  /\ End(r)
  /\ UNCHANGED <<lessonVars, stakeVars, learnerVars, countVars, grants, marks>>

-----------------------------------------------------------------------------
(* Review by an administrator: reviewReferralEvent, reverseL2IRewardEvent.   *)

\* The review finds an event that is not reversed and shall be.  Whether it
\* ever brought anything is not asked.
TakeBegin(r, e) ==
  /\ events[e].state # "reversed" /\ reviews < MaxReviews
  /\ reviews' = reviews + 1
  /\ Starting(r, [Idle EXCEPT !.op = "take", !.at = e, !.copy = events[e]],
              IF events[e].granted THEN {} ELSE {"overruled"})
  /\ UNCHANGED <<lessonVars, stakeVars, events, learnerVars, crashes, grants>>

\* Any other review sets the state and nothing else.
ReviewRead(r, e, target) ==
  /\ (target = "reversed" => events[e].state = "reversed") /\ reviews < MaxReviews
  /\ reviews' = reviews + 1
  /\ Starting(r, [Idle EXCEPT !.op = "takeEvent", !.at = e, !.copy = [events[e] EXCEPT !.state = target]],
              {"overruled"})
  /\ UNCHANGED <<lessonVars, stakeVars, events, learnerVars, crashes, grants>>

TakeRead(r) ==
  /\ req[r].op = "take"
  /\ Keep(r, [req[r] EXCEPT !.op = "takeRow", !.row = row])
  /\ UNCHANGED <<lessonVars, stakeVars, events, learnerVars, countVars, grants, marks>>

TakenBack(r) == [credit |-> IF req[r].row.credit = 0 THEN 0 ELSE req[r].row.credit - 1,
                 total |-> req[r].row.total, nav |-> req[r].copy.prev]

TakeReload(r) ==
  /\ req[r].op = "takeRow"
  /\ Reload(r, "takeRowSave", Differing(TakenBack(r)))
  /\ UNCHANGED <<lessonVars, stakeVars, events, learnerVars, countVars, grants, marks>>

TakeRow(r) ==
  /\ req[r].op = "takeRowSave"
  /\ SaveRow(r, TakenBack(r))
  /\ marks' = marks \cup {"shortened"}
  /\ Goto(r, "takePurchase")
  /\ UNCHANGED <<lessonVars, stakeVars, events, purchases, centres, sales, countVars, grants>>

\* The purchase is found by the note, ...
TakePurchase(r) ==
  /\ req[r].op = "takePurchase"
  /\ purchases' = IF req[r].copy.noted THEN purchases \ {req[r].at} ELSE purchases
  /\ Goto(r, "takeCentre")
  /\ UNCHANGED <<lessonVars, stakeVars, events, row, centres, sales, countVars, grants, marks>>

\* (Mutant: the entitlement stays.)
TakeNoCentre(r) ==
  /\ req[r].op = "takeCentre"
  /\ Keep(r, [req[r] EXCEPT !.op = "takeEvent", !.copy.state = "reversed"])
  /\ UNCHANGED <<lessonVars, stakeVars, events, learnerVars, countVars, grants, marks>>

\* ... the entitlement by the event.
TakeCentre(r) ==
  /\ req[r].op = "takeCentre"
  /\ centres' = centres \ {req[r].at}
  /\ Keep(r, [req[r] EXCEPT !.op = "takeEvent", !.copy.state = "reversed"])
  /\ UNCHANGED <<lessonVars, stakeVars, events, row, purchases, sales, countVars, grants, marks>>

\* The event is saved as it was read, with its new state.
TakeEventReload(r) ==
  /\ req[r].op = "takeEvent"
  /\ Reload(r, "takeEventSave", StateDiffers(r, req[r].copy.state))
  /\ UNCHANGED <<lessonVars, stakeVars, events, learnerVars, countVars, grants, marks>>

TakeEvent(r) ==
  /\ req[r].op = "takeEventSave"
  /\ SaveEvent(r, req[r].copy)
  /\ End(r)
  /\ UNCHANGED <<lessonVars, stakeVars, learnerVars, countVars, grants, marks>>

-----------------------------------------------------------------------------
(* The daily audit: expireDiscountedRates.                                   *)

AuditRead(r, i) ==
  /\ i \in old \cap ByLearner
  /\ \A e \in 1..Len(events) : events[e].by = i => events[e].state # "reversed"
  /\ Start(r, [Idle EXCEPT !.op = "log", !.copy = NewEvent(i, "reversed", FALSE)])
  /\ UNCHANGED <<lessonVars, stakeVars, events, learnerVars, countVars, grants>>

-----------------------------------------------------------------------------
(* Navigation access the learner buys and cancels: EntitlementsService.      *)

SaleRead(r) ==
  /\ sales < MaxSales
  /\ sales' = sales + 1
  /\ Start(r, [Idle EXCEPT !.op = "sale", !.row = row])
  /\ UNCHANGED <<lessonVars, stakeVars, events, row, purchases, centres, countVars, grants>>

\* extendNavigationAccess updates the one column: with a year more than it read,
\* or, if the purchase comes from Apple with an expiresAt, with that.
SaleSave(r) ==
  /\ req[r].op = "sale"
  /\ \/ row' = [row EXCEPT !.nav = req[r].row.nav + 1] /\ UNCHANGED marks
     \/ \E end \in Ends : row' = [row EXCEPT !.nav = end] /\ marks' = marks \cup {"dated"}
  /\ End(r)
  /\ UNCHANGED <<lessonVars, stakeVars, events, purchases, centres, sales, countVars, grants>>

\* cancelMonthlySubscription: the bundle of a reward is one of the purchases it cancels.
CancelRead(r) ==
  /\ Start(r, [Idle EXCEPT !.op = IF purchases = {} THEN "cancelAccess" ELSE "cancel",
                           !.read = purchases])
  /\ UNCHANGED <<lessonVars, stakeVars, events, learnerVars, countVars, grants>>

CancelPurchases(r) ==
  /\ req[r].op = "cancel"
  /\ purchases' = purchases \ req[r].read
  /\ Goto(r, "cancelCentres")
  /\ UNCHANGED <<lessonVars, stakeVars, events, row, centres, sales, countVars, grants, marks>>

CancelCentres(r) ==
  /\ req[r].op = "cancelCentres"
  /\ centres' = centres \ req[r].read
  /\ Goto(r, "cancelAccess")
  /\ UNCHANGED <<lessonVars, stakeVars, events, row, purchases, sales, countVars, grants, marks>>

CancelAccess(r) ==
  /\ req[r].op = "cancelAccess"
  /\ row' = [row EXCEPT !.nav = 0]
  /\ marks' = marks \cup {"shortened"}
  /\ End(r)
  /\ UNCHANGED <<lessonVars, stakeVars, events, purchases, centres, sales, countVars, grants>>

-----------------------------------------------------------------------------
(* The surroundings.                                                         *)

Approve(i) ==
  /\ i \notin approved
  /\ approved' = approved \cup {i}
  /\ UNCHANGED <<completed, old, stakeVars, events, learnerVars, req, countVars, grants, marks>>

Suspend(i) ==
  /\ i \in approved
  /\ approved' = approved \ {i}
  /\ UNCHANGED <<completed, old, stakeVars, events, learnerVars, req, countVars, grants, marks>>

Age(i) ==
  /\ i \notin old
  /\ old' = old \cup {i}
  /\ UNCHANGED <<completed, approved, stakeVars, events, learnerVars, req, countVars, grants, marks>>

Crash(r) ==
  /\ req[r].op # "idle" /\ crashes < MaxCrashes
  /\ crashes' = crashes + 1
  /\ End(r)
  /\ UNCHANGED <<lessonVars, stakeVars, events, learnerVars, reviews, grants, marks>>

-----------------------------------------------------------------------------
Stake(r) == StakeCheck(r) \/ StakePay(r) \/ StakeNote(r)

Reward(r) ==
  \/ RewardCheck(r) \/ LogOnly(r) \/ RewardRead(r) \/ RewardLog(r) \/ RewardPurchase(r)
  \/ CreditReload(r) \/ RewardCredit(r) \/ RewardCentre(r) \/ NoteReload(r) \/ RewardNote(r)

Review(r) ==
  \/ \E e \in 1..Len(events) : TakeBegin(r, e) \/ \E s \in EventStatus : ReviewRead(r, e, s)
  \/ TakeRead(r) \/ TakeReload(r) \/ TakeRow(r) \/ TakePurchase(r) \/ TakeCentre(r)
  \/ TakeEventReload(r) \/ TakeEvent(r)

Access(r) ==
  \/ SaleRead(r) \/ SaleSave(r)
  \/ CancelRead(r) \/ CancelPurchases(r) \/ CancelCentres(r) \/ CancelAccess(r)

Next ==
  \/ \E r \in Requests :
       \/ \E l \in Lessons : CompleteCheck(r, l)
       \/ CompleteCommit(r) \/ Stake(r) \/ Reward(r) \/ Review(r) \/ Access(r)
       \/ \E i \in Instructors : AuditRead(r, i)
       \/ Crash(r)
  \/ \E i \in Instructors : Approve(i) \/ Suspend(i) \/ Age(i)

Spec == Init /\ [][Next]_vars

-----------------------------------------------------------------------------
(* What holds however handlers interleave and wherever they die.             *)

\* The learner never has more credit, and was never credited more in total, than
\* rewards were logged, nor more years of navigation than rewards and purchases
\* account for unless Apple gave the end of one: though several handlers at once
\* save the row as they read it long before, and the row may have the balance of
\* one and the total of another, updates are lost and never doubled.
CreditIsEarned ==
  /\ row.credit <= grants /\ row.total <= grants
  /\ "dated" \notin marks => row.nav <= sales + grants

\* A lesson that was completed has been looked at: unless a handler died,
\* nothing is owed for it when all is quiet, or an event tells why.
Quiet == \A r \in Requests : req[r].op = "idle"
LessonsAreSettled ==
  Quiet /\ crashes = 0 =>
    \A l \in completed :
      /\ Teacher[l] \in ByLearner => \E e \in 1..Len(events) : events[e].by = Teacher[l]
      /\ payouts[l] > 0 => l \in staked

-----------------------------------------------------------------------------
(* What holds when handlers run one after the other.                         *)

\* One payout per lesson, and one reward that stands per instructor however
\* many lessons are completed, unless an administrator has set the state of an
\* event by hand.
RewardedOnce ==
  "overlapped" \notin marks =>
  /\ \A l \in Lessons : payouts[l] <= 1 /\ (payouts[l] > 0 => l \in completed)
  /\ \A d, e \in 1..Len(events) :
       "overruled" \notin marks /\ events[d].by = events[e].by /\ events[d].state = "released"
         /\ events[e].state = "released" => d = e

\* Unless a handler died, what the learner has is what the rewards that stand
\* have brought: a reversal leaves nothing of a reward, and takes nothing else
\* but the years of navigation.  These are those of rewards and purchases unless
\* something shortened them or Apple gave their end.
Standing == {e \in 1..Len(events) : events[e].granted /\ events[e].state = "released"}
BooksBalance ==
  Quiet /\ crashes = 0 /\ marks \subseteq {"shortened", "dated"} =>
    /\ row.credit = Cardinality(Standing) /\ row.total = grants
    /\ purchases \subseteq Standing /\ centres = purchases
    /\ "shortened" \notin marks => purchases = Standing
    /\ marks = {} => row.nav = sales + grants
=============================================================================
