-------------------------- MODULE PracticePurchase --------------------------
(***************************************************************************)
(* The practice subscription of one learner who was referred by another    *)
(* learner: purchases come from RevenueCat's webhook, from the app after   *)
(* an App Store purchase, or from the direct subscribe endpoint; each      *)
(* brings an entitlement, and the first one brings both learners a bonus   *)
(* (ReferralsService.grantL2LBonusForPurchase), which is taken back when   *)
(* the subscription is cancelled.                                          *)
(*                                                                         *)
(* Nothing runs in a transaction: every statement is a step of its own,    *)
(* and a handler may die between two of them.  UNIQUE (transaction_id)     *)
(* makes the second of two racing inserts of a purchase fail.  RevenueCat  *)
(* and the app repeat a call that has not been answered with success.      *)
(***************************************************************************)
EXTENDS Naturals

CONSTANTS Transactions,  \* transaction ids of practice purchases of the learner
          FromStore,     \* those RevenueCat reports (the app or the endpoint brings the others)
          Requests,      \* HTTP requests that may be in flight together
          Cancellers,    \* those among them that may cancel the subscription
          MaxCrashes,    \* bound on the handlers that die half-way
          NoTransaction

ASSUME TransactionsAssumption == FromStore \subseteq Transactions /\ NoTransaction \notin Transactions
ASSUME RequestsAssumption == Cancellers \subseteq Requests /\ MaxCrashes \in Nat

VARIABLES
  purchase,   \* status of the purchase row
  granted,    \* how many entitlement rows were inserted for a transaction
  active,     \* the entitlement is active
  rewarded,   \* how many RELEASED referral events were inserted for a transaction
  reward,     \* state of the referral event
  bonus,      \* the bonus entitlements of the event are active
  told,       \* transactions whose caller was answered with success
  req,        \* where each request in flight is
  crashes

vars == <<purchase, granted, active, rewarded, reward, bonus, told, req, crashes>>
accessVars == <<granted, active>>
rewardVars == <<rewarded, reward, bonus>>

PurchaseStatus == {"none", "completed", "canceled"}
RewardStatus == {"none", "released", "reversed"}

\* A purchase is about transaction tx; a cancellation has the purchases it read
\* in left, and reverses the rewards of one after the other.
Request == [op : {"idle", "save", "entitle", "check", "count", "log", "bonus", "note",
                  "cancel", "end", "reverse", "reversed"},
            tx : Transactions \cup {NoTransaction},
            left : SUBSET Transactions]
Idle == [op |-> "idle", tx |-> NoTransaction, left |-> {}]

TypeOK ==
  /\ purchase \in [Transactions -> PurchaseStatus]
  /\ granted \in [Transactions -> Nat]
  /\ active \in [Transactions -> BOOLEAN]
  /\ rewarded \in [Transactions -> Nat]
  /\ reward \in [Transactions -> RewardStatus]
  /\ bonus \in [Transactions -> BOOLEAN]
  /\ told \subseteq Transactions
  /\ req \in [Requests -> Request]
  /\ crashes \in 0..MaxCrashes

Init ==
  /\ purchase = [t \in Transactions |-> "none"]
  /\ granted = [t \in Transactions |-> 0]
  /\ active = [t \in Transactions |-> FALSE]
  /\ rewarded = [t \in Transactions |-> 0]
  /\ reward = [t \in Transactions |-> "none"]
  /\ bonus = [t \in Transactions |-> FALSE]
  /\ told = {}
  /\ req = [r \in Requests |-> Idle]
  /\ crashes = 0

At(r, op, t) == req[r].op = op /\ req[r].tx = t
Goto(r, op, t) == req' = [req EXCEPT ![r] = [op |-> op, tx |-> t, left |-> {}]]
Cancelling(r, op, t, left) == req' = [req EXCEPT ![r] = [op |-> op, tx |-> t, left |-> left]]
End(r) == req' = [req EXCEPT ![r] = Idle]

-----------------------------------------------------------------------------
(* A purchase: handleRevenueCat, activateApplePurchase, subscribeMonthly.    *)

\* The transaction is not known yet.
PurchaseBegin(r, t) ==
  /\ req[r].op = "idle" /\ purchase[t] = "none"
  /\ Goto(r, "save", t)
  /\ UNCHANGED <<purchase, accessVars, rewardVars, told, crashes>>

\* The transaction is known: the call succeeds and does nothing.
PurchaseKnown(t) ==
  /\ purchase[t] # "none"
  /\ told' = told \cup {t}
  /\ UNCHANGED <<purchase, accessVars, rewardVars, req, crashes>>

\* (Mutants: the transaction id is not unique; the purchase is not settled yet.)
PurchaseSaveAgain(r, t) ==
  /\ At(r, "save", t)
  /\ purchase' = [purchase EXCEPT ![t] = "completed"]
  /\ Goto(r, "entitle", t)
  /\ UNCHANGED <<accessVars, rewardVars, told, crashes>>

PurchasePending(r, t) ==
  /\ At(r, "save", t) /\ purchase[t] = "none"
  /\ purchase' = [purchase EXCEPT ![t] = "pending"]
  /\ Goto(r, "entitle", t)
  /\ UNCHANGED <<accessVars, rewardVars, told, crashes>>

PurchaseSave(r, t) ==
  /\ At(r, "save", t)
  /\ \/ /\ purchase[t] = "none"
        /\ purchase' = [purchase EXCEPT ![t] = "completed"]
        /\ Goto(r, "entitle", t)
     \/ /\ purchase[t] # "none"
        /\ End(r)
        /\ UNCHANGED purchase
  /\ UNCHANGED <<accessVars, rewardVars, told, crashes>>

Entitle(r, t) ==
  /\ At(r, "entitle", t)
  /\ granted' = [granted EXCEPT ![t] = @ + 1]
  /\ active' = [active EXCEPT ![t] = TRUE]
  /\ Goto(r, "check", t)
  /\ UNCHANGED <<purchase, rewardVars, told, crashes>>

\* The app names a test centre that does not exist: found out only now.
EntitleRejected(r, t) ==
  /\ At(r, "entitle", t) /\ t \notin FromStore
  /\ End(r)
  /\ UNCHANGED <<purchase, accessVars, rewardVars, told, crashes>>

-----------------------------------------------------------------------------
(* The bonus: grantL2LBonusForPurchase.                                      *)

\* (Mutants: the events are not looked at; any count will do.)
Settled(t) == purchase[t] = "completed"
AnyCompleted == \E u \in Transactions : purchase[u] = "completed"

\* The purchase still stands and no reward of the learner does.
Unrewarded(t) ==
  /\ purchase[t] = "completed"
  /\ \A u \in Transactions : reward[u] # "released"

\* completedPracticePurchaseCount = 1, whichever purchase that is.
OneCompleted == \E u \in Transactions : {v \in Transactions : purchase[v] = "completed"} = {u}

\* The answer may be lost, or the client gone: told or not.
Answer(r, t) == End(r) /\ told' \in {told, told \cup {t}}

BonusCheck(r, t) ==
  /\ At(r, "check", t)
  /\ \/ Unrewarded(t) /\ Goto(r, "count", t) /\ UNCHANGED told
     \/ ~Unrewarded(t) /\ Answer(r, t)
  /\ UNCHANGED <<purchase, accessVars, rewardVars, crashes>>

BonusCount(r, t) ==
  /\ At(r, "count", t)
  /\ \/ OneCompleted /\ Goto(r, "log", t) /\ UNCHANGED told
     \/ ~OneCompleted /\ Answer(r, t)
  /\ UNCHANGED <<purchase, accessVars, rewardVars, crashes>>

BonusLog(r, t) ==
  /\ At(r, "log", t)
  /\ rewarded' = [rewarded EXCEPT ![t] = @ + 1]
  /\ reward' = [reward EXCEPT ![t] = "released"]
  /\ Goto(r, "bonus", t)
  /\ UNCHANGED <<purchase, accessVars, bonus, told, crashes>>

BonusSave(r, t) ==
  /\ At(r, "bonus", t)
  /\ bonus' = [bonus EXCEPT ![t] = TRUE]
  /\ Goto(r, "note", t)
  /\ UNCHANGED <<purchase, accessVars, rewarded, reward, told, crashes>>

\* The ids of the bonus entitlements are noted in the event, which is saved as
\* it was logged, its state included.
BonusNote(r, t) ==
  /\ At(r, "note", t)
  /\ reward' = [reward EXCEPT ![t] = "released"]
  /\ Answer(r, t)
  /\ UNCHANGED <<purchase, accessVars, rewarded, bonus, crashes>>

-----------------------------------------------------------------------------
(* cancelMonthlySubscription and reverseL2LBonusForCanceledPurchase.         *)

\* It leaves alone what RevenueCat reported.
CancelRead(r) ==
  /\ r \in Cancellers /\ req[r].op = "idle"
  /\ Cancelling(r, "cancel", NoTransaction,
                {t \in Transactions \ FromStore : purchase[t] = "completed"})
  /\ UNCHANGED <<purchase, accessVars, rewardVars, told, crashes>>

CancelPurchases(r) ==
  /\ req[r].op = "cancel"
  /\ purchase' = [t \in Transactions |-> IF t \in req[r].left THEN "canceled" ELSE purchase[t]]
  /\ Cancelling(r, "end", NoTransaction, req[r].left)
  /\ UNCHANGED <<accessVars, rewardVars, told, crashes>>

\* (Mutant: the entitlements stay.)
CancelNoAccess(r) ==
  /\ req[r].op = "end"
  /\ Cancelling(r, "reverse", NoTransaction, req[r].left)
  /\ UNCHANGED <<purchase, accessVars, rewardVars, told, crashes>>

CancelAccess(r) ==
  /\ req[r].op = "end"
  /\ active' = [t \in Transactions |-> active[t] /\ t \notin req[r].left]
  /\ Cancelling(r, "reverse", NoTransaction, req[r].left)
  /\ UNCHANGED <<purchase, granted, rewardVars, told, crashes>>

\* The bonus of one cancelled purchase ends, if its event is released; ...
ReverseBonus(r, t) ==
  /\ req[r].op = "reverse" /\ t \in req[r].left
  /\ \/ /\ reward[t] = "released"
        /\ bonus' = [bonus EXCEPT ![t] = FALSE]
        /\ Cancelling(r, "reversed", t, req[r].left \ {t})
     \/ /\ reward[t] # "released"
        /\ Cancelling(r, "reverse", NoTransaction, req[r].left \ {t})
        /\ UNCHANGED bonus
  /\ UNCHANGED <<purchase, accessVars, rewarded, reward, told, crashes>>

\* ... then the event is saved.
ReverseEvent(r, t) ==
  /\ At(r, "reversed", t)
  /\ reward' = [reward EXCEPT ![t] = "reversed"]
  /\ Cancelling(r, "reverse", NoTransaction, req[r].left)
  /\ UNCHANGED <<purchase, accessVars, rewarded, bonus, told, crashes>>

CancelEnd(r) ==
  /\ req[r].op = "reverse" /\ req[r].left = {}
  /\ End(r)
  /\ UNCHANGED <<purchase, accessVars, rewardVars, told, crashes>>

Crash(r) ==
  /\ req[r].op # "idle" /\ crashes < MaxCrashes
  /\ crashes' = crashes + 1
  /\ End(r)
  /\ UNCHANGED <<purchase, accessVars, rewardVars, told>>

-----------------------------------------------------------------------------
Purchasing(r, t) ==
  \/ PurchaseBegin(r, t) \/ PurchaseSave(r, t) \/ Entitle(r, t) \/ EntitleRejected(r, t)
  \/ BonusCheck(r, t) \/ BonusCount(r, t) \/ BonusLog(r, t)
  \/ BonusSave(r, t) \/ BonusNote(r, t)

CancelStep(r) ==
  \/ CancelRead(r) \/ CancelPurchases(r) \/ CancelAccess(r) \/ CancelEnd(r)
  \/ \E t \in Transactions : ReverseBonus(r, t) \/ ReverseEvent(r, t)

Next ==
  \/ \E t \in Transactions : PurchaseKnown(t)
  \/ \E r \in Requests, t \in Transactions : Purchasing(r, t)
  \/ \E r \in Requests : CancelStep(r) \/ Crash(r)

Spec == Init /\ [][Next]_vars

-----------------------------------------------------------------------------
(* What holds however requests interleave and wherever they die.             *)

\* A transaction brings one entitlement and one reward at most, however often
\* it is reported, also at the same time and after a failure.
EntitledOnce == \A t \in Transactions : granted[t] <= 1 /\ rewarded[t] <= 1

\* Until a purchase is cancelled, one at most is ever rewarded, though the
\* checks and the event they protect are several statements apart: a purchase
\* that is counted as the only one is in the way of every later count.
OneReward ==
  \A t, u \in Transactions :
    rewarded[t] > 0 /\ rewarded[u] > 0
      => t = u \/ \E v \in Transactions : purchase[v] = "canceled"

-----------------------------------------------------------------------------
(* What holds when requests run one after the other.                         *)

\* A bonus is active only while the event it was granted for is released, and
\* one event at most is released, wherever a purchase or a cancellation died.
BonusIsBacked ==
  /\ \A t \in Transactions : bonus[t] => reward[t] = "released"
  /\ \A t, u \in Transactions : reward[t] = "released" /\ reward[u] = "released" => t = u

\* Unless a handler died, nothing of a cancelled purchase is left, and what
\* was told to be settled and not cancelled gives access.
Quiet == \A r \in Requests : req[r].op = "idle"
CancelledHasNothing ==
  Quiet /\ crashes = 0 =>
    \A t \in Transactions :
      /\ purchase[t] = "canceled" => ~active[t] /\ ~bonus[t] /\ reward[t] # "released"
      /\ purchase[t] = "completed" /\ t \in FromStore => active[t]

-----------------------------------------------------------------------------
(* What the code says and the model refutes.                                 *)

\* "RevenueCat webhook is ... idempotent by transactionId": once RevenueCat has
\* been answered with success, the purchase has had its effect.
SuccessMeansEntitled ==
  Quiet => \A t \in told \cap FromStore : granted[t] = 1
=============================================================================
