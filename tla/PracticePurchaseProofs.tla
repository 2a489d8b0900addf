----------------------- MODULE PracticePurchaseProofs -----------------------
(***************************************************************************)
(* Proofs about PracticePurchase for any number of transactions, requests  *)
(* in flight and crashes; in the last part, when no two requests are in    *)
(* flight together.                                                        *)
(***************************************************************************)
EXTENDS MCPracticePurchase, TLAPS

USE DEF PurchaseStatus, RewardStatus

\* Request r has inserted the purchase of t and is busy with its effects.
Owner(r, t) == req[r].tx = t /\ req[r].op \in {"entitle", "check", "count", "log", "bonus", "note"}

\* Only the request that inserted the purchase deals with it, and it has not
\* done yet what it is about to do.
OneOwner ==
  \A t \in Transactions, q, r \in Requests : Owner(q, t) /\ Owner(r, t) => q = r
OwnerProgress ==
  \A t \in Transactions, r \in Requests :
    /\ Owner(r, t) => purchase[t] # "none"
    /\ At(r, "entitle", t) => granted[t] = 0
    /\ req[r].tx = t /\ req[r].op \in {"entitle", "check", "count", "log"} => rewarded[t] = 0
NothingBefore ==
  \A t \in Transactions : purchase[t] = "none" => granted[t] = 0 /\ rewarded[t] = 0

IInv == TypeOK /\ OneOwner /\ OwnerProgress /\ NothingBefore /\ EntitledOnce

\* Until a purchase is cancelled, one at most is rewarded or about to be.
Earned(t) == rewarded[t] > 0 \/ \E r \in Requests : At(r, "log", t)
AnyCancelled == \E t \in Transactions : purchase[t] = "canceled"
OneEarned == \A t, u \in Transactions : Earned(t) /\ Earned(u) => t = u \/ AnyCancelled

-----------------------------------------------------------------------------
LEMMA IdleType == Idle \in Request /\ Idle.op = "idle"
BY DEF Idle, Request

\* What a step does to the request that takes it, and to no other.
LEMMA Moves ==
  ASSUME TypeOK, NEW r \in Requests
  PROVE  /\ \A op \in {"save", "entitle", "check", "count", "log", "bonus", "note"}, t \in Transactions :
              Goto(r, op, t) =>
                /\ req' \in [Requests -> Request]
                /\ req'[r].op = op /\ req'[r].tx = t
                /\ \A q \in Requests \ {r} : req'[q] = req[q]
         /\ \A op \in {"cancel", "end", "reverse", "reversed"},
               t \in Transactions \cup {NoTransaction}, left \in SUBSET Transactions :
              Cancelling(r, op, t, left) =>
                /\ req' \in [Requests -> Request]
                /\ req'[r].op = op
                /\ \A q \in Requests \ {r} : req'[q] = req[q]
         /\ End(r) =>
                /\ req' \in [Requests -> Request]
                /\ req'[r].op = "idle"
                /\ \A q \in Requests \ {r} : req'[q] = req[q]
<1>1. ASSUME NEW op \in {"save", "entitle", "check", "count", "log", "bonus", "note"},
             NEW t \in Transactions, Goto(r, op, t)
      PROVE  /\ req' \in [Requests -> Request]
             /\ req'[r].op = op /\ req'[r].tx = t
             /\ \A q \in Requests \ {r} : req'[q] = req[q]
  <2>1. [op |-> op, tx |-> t, left |-> {}] \in Request
    BY DEF Request
  <2> QED
    BY <1>1, <2>1 DEF TypeOK, Goto
<1>2. ASSUME NEW op \in {"cancel", "end", "reverse", "reversed"},
             NEW t \in Transactions \cup {NoTransaction}, NEW left \in SUBSET Transactions,
             Cancelling(r, op, t, left)
      PROVE  /\ req' \in [Requests -> Request]
             /\ req'[r].op = op
             /\ \A q \in Requests \ {r} : req'[q] = req[q]
  <2>1. [op |-> op, tx |-> t, left |-> left] \in Request
    BY DEF Request
  <2> QED
    BY <1>2, <2>1 DEF TypeOK, Cancelling
<1>3. End(r) => /\ req' \in [Requests -> Request]
                /\ req'[r].op = "idle"
                /\ \A q \in Requests \ {r} : req'[q] = req[q]
  BY IdleType DEF TypeOK, End
<1> QED
  BY <1>1, <1>2, <1>3

THEOREM InitIInv == Init => IInv
BY RequestsAssumption, IdleType
   DEF Init, IInv, TypeOK, OneOwner, OwnerProgress, NothingBefore, EntitledOnce, Owner, At

-----------------------------------------------------------------------------
(* Steps of a purchase. *)

LEMMA PurchaseStep ==
  ASSUME IInv, NEW r \in Requests, NEW t \in Transactions,
         PurchaseBegin(r, t) \/ PurchaseSave(r, t) \/ EntitleRejected(r, t)
  PROVE  IInv'
<1> USE DEF PurchaseBegin, PurchaseSave, EntitleRejected, IInv, accessVars, rewardVars
<1>1. /\ req' \in [Requests -> Request]
      /\ \A q \in Requests \ {r} : req'[q] = req[q]
      /\ \/ req'[r].op \in {"save", "idle"} /\ UNCHANGED purchase
         \/ /\ req'[r].op = "entitle" /\ req'[r].tx = t /\ purchase[t] = "none"
            /\ purchase' = [purchase EXCEPT ![t] = "completed"]
  BY Moves
<1>2. TypeOK'
  BY <1>1 DEF TypeOK
<1>3. \A u \in Transactions : purchase'[u] = "none" => purchase[u] = "none"
  BY <1>1 DEF TypeOK
<1>4. OneOwner'
  BY <1>1 DEF OneOwner, OwnerProgress, Owner
<1>5. OwnerProgress'
  BY <1>1, <1>3 DEF OwnerProgress, NothingBefore, Owner, At, TypeOK
<1>6. NothingBefore' /\ EntitledOnce'
  BY <1>3 DEF NothingBefore, EntitledOnce
<1> QED
  BY <1>2, <1>4, <1>5, <1>6

LEMMA EffectStep ==
  ASSUME IInv, NEW r \in Requests, NEW t \in Transactions,
         \/ Entitle(r, t) \/ BonusCheck(r, t) \/ BonusCount(r, t) \/ BonusLog(r, t)
         \/ BonusSave(r, t) \/ BonusNote(r, t)
  PROVE  IInv'
<1> USE DEF Entitle, BonusCheck, BonusCount, BonusLog, BonusSave, BonusNote, Answer,
            IInv, accessVars, rewardVars
<1>1. Owner(r, t)
  BY DEF Owner, At
<1>2. /\ req' \in [Requests -> Request]
      /\ \A q \in Requests \ {r} : req'[q] = req[q]
      /\ \/ req'[r].op = "idle"
         \/ req'[r].op \in {"check", "count", "log", "bonus", "note"} /\ req'[r].tx = t
  BY Moves DEF At
<1>3. /\ granted' \in [Transactions -> Nat] /\ rewarded' \in [Transactions -> Nat]
      /\ \A u \in Transactions \ {t} : granted'[u] = granted[u] /\ rewarded'[u] = rewarded[u]
      /\ granted'[t] = granted[t] \/ (granted[t] = 0 /\ granted'[t] = 1)
      /\ rewarded'[t] = rewarded[t] \/ (rewarded[t] = 0 /\ rewarded'[t] = 1)
  BY DEF TypeOK, OwnerProgress, At
<1>4. TypeOK'
  BY <1>2, <1>3 DEF TypeOK, At
<1>5. OneOwner'
  BY <1>1, <1>2 DEF OneOwner, Owner
<1>6. NothingBefore' /\ EntitledOnce'
  BY <1>1, <1>3 DEF NothingBefore, EntitledOnce, OwnerProgress, TypeOK
<1>7. OwnerProgress'
  <2> SUFFICES ASSUME NEW u \in Transactions, NEW q \in Requests
               PROVE  /\ Owner(q, u)' => purchase'[u] # "none"
                      /\ At(q, "entitle", u)' => granted'[u] = 0
                      /\ req'[q].tx = u /\ req'[q].op \in {"entitle", "check", "count", "log"}
                           => rewarded'[u] = 0
    BY DEF OwnerProgress
  <2>1. CASE q # r /\ u # t
    BY <2>1, <1>2, <1>3 DEF OwnerProgress, Owner, At
  <2>2. CASE q # r /\ u = t
    BY <2>2, <1>1, <1>2 DEF OneOwner, Owner, At
  <2>3. CASE q = r /\ req'[r].op \in {"bonus", "note", "idle"}
    BY <2>3, <1>1, <1>2 DEF OwnerProgress, Owner, At
  <2>4. CASE q = r /\ req'[r].op \in {"check", "count", "log"}
    <3>1. UNCHANGED rewarded /\ req[r].op \in {"entitle", "check", "count"}
      BY <2>4, Moves DEF At
    <3> QED
      BY <2>4, <3>1, <1>1, <1>2 DEF OwnerProgress, Owner, At
  <2> QED
    BY <2>1, <2>2, <2>3, <2>4, <1>2
<1> QED
  BY <1>4, <1>5, <1>6, <1>7

-----------------------------------------------------------------------------
(* Steps of a cancellation, and the end of a request. *)

LEMMA CancelMoves ==
  ASSUME IInv, NEW r \in Requests, CancelStep(r) \/ Crash(r)
  PROVE  /\ req' \in [Requests -> Request]
         /\ req'[r].op \in {"cancel", "end", "reverse", "reversed", "idle"}
         /\ \A q \in Requests \ {r} : req'[q] = req[q]
<1> USE DEF CancelStep, CancelRead, CancelPurchases, CancelAccess, ReverseBonus, ReverseEvent,
            CancelEnd, Crash, IInv
<1>1. /\ req[r] \in Request /\ req[r].left \in SUBSET Transactions
      /\ {t \in Transactions \ FromStore : purchase[t] = "completed"} \in SUBSET Transactions
  BY DEF TypeOK, Request
<1>2. CASE CancelRead(r) \/ CancelPurchases(r) \/ CancelAccess(r)
  BY <1>1, <1>2, Moves
<1>3. CASE \E t \in Transactions : ReverseBonus(r, t)
  <2> PICK t \in Transactions : ReverseBonus(r, t)
    BY <1>3
  <2>1. req[r].left \ {t} \in SUBSET Transactions
    BY <1>1
  <2> QED
    BY <2>1, Moves
<1>4. CASE \E t \in Transactions : ReverseEvent(r, t)
  BY <1>1, <1>4, Moves
<1>5. CASE CancelEnd(r) \/ Crash(r)
  BY <1>5, Moves
<1> QED
  BY <1>2, <1>3, <1>4, <1>5

LEMMA CancelKeeps ==
  ASSUME IInv, NEW r \in Requests, CancelStep(r) \/ Crash(r)
  PROVE  IInv'
<1> USE DEF CancelStep, CancelRead, CancelPurchases, CancelAccess, ReverseBonus, ReverseEvent,
            CancelEnd, Crash, IInv, accessVars, rewardVars
<1>2. /\ req' \in [Requests -> Request]
      /\ req'[r].op \in {"cancel", "end", "reverse", "reversed", "idle"}
      /\ \A q \in Requests \ {r} : req'[q] = req[q]
  BY CancelMoves
<1>3. /\ \A t \in Transactions : purchase'[t] = "none" => purchase[t] = "none"
      /\ purchase' \in [Transactions -> {"none", "completed", "canceled"}]
      /\ UNCHANGED <<granted, rewarded>>
  BY DEF TypeOK
<1>4. /\ active' \in [Transactions -> BOOLEAN]
      /\ bonus' \in [Transactions -> BOOLEAN]
      /\ reward' \in [Transactions -> {"none", "released", "reversed"}]
      /\ told' \subseteq Transactions
      /\ crashes' \in 0..MaxCrashes
  <2>1. CASE CancelStep(r)
    BY <2>1 DEF TypeOK
  <2>2. CASE Crash(r)
    BY <2>2, RequestsAssumption DEF TypeOK
  <2> QED
    BY <2>1, <2>2
<1>5. TypeOK'
  BY <1>2, <1>3, <1>4 DEF TypeOK
<1>6. OneOwner' /\ OwnerProgress' /\ NothingBefore' /\ EntitledOnce'
  BY <1>2, <1>3 DEF OneOwner, OwnerProgress, NothingBefore, EntitledOnce, Owner, At
<1> QED
  BY <1>5, <1>6

THEOREM NextIInv == IInv /\ [Next]_vars => IInv'
<1> SUFFICES ASSUME IInv, [Next]_vars PROVE IInv'
  OBVIOUS
<1>1. CASE (\E t \in Transactions : PurchaseKnown(t)) \/ UNCHANGED vars
  BY <1>1 DEF PurchaseKnown, vars, accessVars, rewardVars, IInv, TypeOK, OneOwner,
              OwnerProgress, NothingBefore, EntitledOnce, Owner, At
<1>2. ASSUME NEW r \in Requests, NEW t \in Transactions, Purchasing(r, t) PROVE IInv'
  BY <1>2, PurchaseStep, EffectStep DEF Purchasing
<1>3. ASSUME NEW r \in Requests, CancelStep(r) \/ Crash(r) PROVE IInv'
  BY <1>3, CancelKeeps
<1> QED
  BY <1>1, <1>2, <1>3 DEF Next

THEOREM Invariance == Spec => []IInv
<1>1. Init => IInv
  BY InitIInv
<1>2. IInv /\ [Next]_vars => IInv'
  BY NextIInv
<1> QED
  BY <1>1, <1>2, PTL DEF Spec

\* The variables keep their types.
THEOREM TypeCorrect == Spec => []TypeOK
<1>1. IInv => TypeOK
  BY DEF IInv
<1> QED
  BY <1>1, Invariance, PTL

\* A transaction never brings a second entitlement or a second reward.
THEOREM EffectsAtMostOnce == Spec => []EntitledOnce
<1>1. IInv => EntitledOnce
  BY DEF IInv
<1> QED
  BY <1>1, Invariance, PTL

-----------------------------------------------------------------------------
(* The first reward is the only one, until a purchase is cancelled. *)

LEMMA InitOneEarned == Init => OneEarned
BY IdleType DEF Init, OneEarned, Earned, At

\* A purchase that is not cancelled stays completed, and what is earned is completed.
LEMMA EarnedIsCompleted ==
  ASSUME IInv, ~AnyCancelled, NEW t \in Transactions, Earned(t)
  PROVE  purchase[t] = "completed"
BY DEF IInv, AnyCancelled, Earned, NothingBefore, OwnerProgress, Owner, At, TypeOK

\* No step but the count makes a purchase earned.
LEMMA NothingElseEarns ==
  ASSUME IInv, NEW r \in Requests, NEW t \in Transactions,
         Purchasing(r, t), ~(BonusCount(r, t) /\ OneCompleted),
         NEW u \in Transactions, Earned(u)'
  PROVE  Earned(u)
<1> USE DEF Purchasing, PurchaseBegin, PurchaseSave, Entitle, EntitleRejected, BonusCheck,
            BonusCount, BonusLog, BonusSave, BonusNote, Answer, IInv, accessVars, rewardVars
<1>1. /\ req'[r].op \in {"idle", "save", "entitle", "check", "count", "bonus", "note"}
      /\ \A q \in Requests \ {r} : req'[q] = req[q]
  BY Moves DEF At
<1>2. CASE BonusLog(r, t)
  BY <1>1, <1>2 DEF Earned, At, TypeOK
<1>3. CASE ~BonusLog(r, t)
  <2>1. UNCHANGED rewarded
    BY <1>3
  <2> QED
    BY <2>1, <1>1 DEF Earned, At
<1> QED
  BY <1>2, <1>3

LEMMA NextOneEarned == IInv /\ OneEarned /\ [Next]_vars => OneEarned'
<1> SUFFICES ASSUME IInv, OneEarned, [Next]_vars,
                    NEW t1 \in Transactions, NEW t2 \in Transactions,
                    Earned(t1)', Earned(t2)', ~AnyCancelled'
             PROVE  t1 = t2
  BY DEF OneEarned
<1>1. CASE (\E t \in Transactions : PurchaseKnown(t)) \/ UNCHANGED vars
  BY <1>1 DEF PurchaseKnown, vars, accessVars, rewardVars, OneEarned, Earned, AnyCancelled, At
<1>2. ASSUME NEW r \in Requests, CancelStep(r) \/ Crash(r) PROVE t1 = t2
  <2> USE DEF CancelStep, CancelRead, CancelPurchases, CancelAccess, ReverseBonus,
              ReverseEvent, CancelEnd, Crash, IInv, accessVars, rewardVars
  <2>1. UNCHANGED rewarded
    BY <1>2
  <2>2. AnyCancelled => AnyCancelled'
    BY <1>2 DEF AnyCancelled, TypeOK
  <2>3. /\ req'[r].op \in {"cancel", "end", "reverse", "reversed", "idle"}
        /\ \A q \in Requests \ {r} : req'[q] = req[q]
    BY <1>2, CancelMoves
  <2>4. Earned(t1) /\ Earned(t2)
    BY <2>1, <2>3 DEF Earned, At
  <2> QED
    BY <2>2, <2>4 DEF OneEarned
<1>3. ASSUME NEW r \in Requests, NEW t \in Transactions, Purchasing(r, t) PROVE t1 = t2
  <2>1. ~AnyCancelled
    BY <1>3 DEF Purchasing, PurchaseBegin, PurchaseSave, Entitle, EntitleRejected, BonusCheck,
                BonusCount, BonusLog, BonusSave, BonusNote, AnyCancelled, At, IInv, TypeOK
  <2>2. CASE ~(BonusCount(r, t) /\ OneCompleted)
    BY <1>3, <2>1, <2>2, NothingElseEarns DEF OneEarned
  <2>3. CASE BonusCount(r, t) /\ OneCompleted
    <3>1. purchase[t] = "completed"
      BY <2>1, <2>3 DEF BonusCount, OwnerProgress, Owner, At, AnyCancelled, IInv, TypeOK
    <3>2. \A u \in Transactions \ {t} : purchase[u] # "completed"
      BY <2>3, <3>1 DEF OneCompleted
    <3>3. Goto(r, "log", t) /\ UNCHANGED rewarded
      BY <2>3 DEF BonusCount, rewardVars
    <3>4. ASSUME NEW u \in Transactions, u # t, Earned(u)' PROVE FALSE
      <4>1. Earned(u)
        BY <3>3, <3>4, Moves DEF Earned, At, IInv
      <4> QED
        BY <4>1, <2>1, <3>2, <3>4, EarnedIsCompleted
    <3> QED
      BY <3>4
  <2> QED
    BY <2>2, <2>3
<1> QED
  BY <1>1, <1>2, <1>3 DEF Next

\* Until a purchase is cancelled, at most one is ever rewarded.
THEOREM AtMostOneReward == Spec => []OneReward
<1>1. Init => OneEarned
  BY InitOneEarned
<1>2. IInv /\ OneEarned /\ [Next]_vars => OneEarned'
  BY NextOneEarned
<1>3. OneEarned => OneReward
  BY DEF OneEarned, OneReward, Earned, AnyCancelled
<1> QED
  BY <1>1, <1>2, <1>3, Invariance, PTL DEF Spec

-----------------------------------------------------------------------------
(* When no two requests are in flight together. *)

\* What a purchase or a cancellation has found is still so.
FreshRewards ==
  \A r \in Requests :
    /\ req[r].op \in {"count", "log"} => \A u \in Transactions : reward[u] # "released"
    /\ req[r].op \in {"bonus", "note"} => reward[req[r].tx] = "released"
    /\ req[r].op = "reversed" => ~bonus[req[r].tx]

\* Whose purchase is canceled has lost everything, or the cancellation that is
\* under way will take it; what the store reported is entitled, or about to be.
InProgress ==
  /\ \A r \in Requests : req[r].left \cap FromStore = {}
  /\ \A r \in Requests, t \in Transactions : Owner(r, t) => purchase[t] = "completed"
  /\ crashes = 0 =>
       \A t \in Transactions :
         /\ purchase[t] = "canceled" /\ active[t] =>
              \E r \in Requests : req[r].op = "end" /\ t \in req[r].left
         /\ purchase[t] = "canceled" /\ (bonus[t] \/ reward[t] = "released") =>
              \E r \in Requests :
                \/ req[r].op \in {"end", "reverse", "reversed"} /\ t \in req[r].left
                \/ At(r, "reversed", t)
         /\ purchase[t] = "completed" /\ t \in FromStore /\ ~active[t] =>
              \E r \in Requests : At(r, "entitle", t)

SInv == BonusIsBacked /\ FreshRewards /\ InProgress

\* Of the requests, only r is in flight before or after a step.
Others(r) == \A q \in Requests \ {r} : req'[q] = req[q] /\ req[q].op = "idle"

\* Where the only request in flight is after a step.
LEMMA OnlyMover ==
  ASSUME TypeOK, NEW r \in Requests
  PROVE  /\ req[r] \in Request /\ req[r].left \in SUBSET Transactions
         /\ \A op, t : Goto(r, op, t) =>
              req'[r].op = op /\ req'[r].tx = t /\ req'[r].left = {}
         /\ \A op, t, left : Cancelling(r, op, t, left) =>
              req'[r].op = op /\ req'[r].tx = t /\ req'[r].left = left
         /\ End(r) => req'[r].op = "idle" /\ req'[r].left = {}
BY DEF TypeOK, Goto, Cancelling, End, Idle, Request

LEMMA InitSInv == Init => SInv
BY DEF Init, SInv, BonusIsBacked, FreshRewards, InProgress, Idle, Owner, At

\* The steps of a purchase before its rewards.
LEMMA PurchaseSerial ==
  ASSUME IInv, SInv, NEW r \in Requests, Others(r), NEW t \in Transactions,
         \/ PurchaseBegin(r, t) \/ PurchaseSave(r, t) \/ Entitle(r, t) \/ EntitleRejected(r, t)
         \/ BonusCheck(r, t) \/ BonusCount(r, t)
  PROVE  SInv'
<1> USE DEF IInv, SInv, Others
<1>1. UNCHANGED <<reward, bonus, crashes>>
  BY DEF PurchaseBegin, PurchaseSave, Entitle, EntitleRejected, BonusCheck, BonusCount, rewardVars
<1>2. req'[r].left = {} /\ Others(r)
  BY OnlyMover DEF PurchaseBegin, PurchaseSave, Entitle, EntitleRejected, BonusCheck, BonusCount, Answer
<1>3. BonusIsBacked'
  BY <1>1 DEF BonusIsBacked
<1>4. FreshRewards'
  <2>1. req'[r].op \in {"idle", "save", "entitle", "check"}
        \/ (req'[r].op \in {"count", "log"} /\ \A u \in Transactions : reward[u] # "released")
    BY OnlyMover DEF PurchaseBegin, PurchaseSave, Entitle, EntitleRejected, BonusCheck, BonusCount,
                 Answer, Unrewarded, FreshRewards, At
  <2> QED
    BY <2>1, <1>1, <1>2 DEF FreshRewards
<1>5. InProgress'
  <2>1. CASE PurchaseBegin(r, t)
    BY <2>1, <1>1, <1>2, OnlyMover DEF PurchaseBegin, InProgress, Owner, At, accessVars
  <2>2. CASE PurchaseSave(r, t)
    <3>1. CASE purchase[t] = "none" /\ purchase' = [purchase EXCEPT ![t] = "completed"]
                 /\ Goto(r, "entitle", t)
      BY <3>1, <2>2, <1>1, <1>2, OnlyMover DEF PurchaseSave, InProgress, Owner, At, accessVars, TypeOK
    <3>2. CASE purchase[t] # "none" /\ UNCHANGED purchase /\ End(r)
      BY <3>2, <2>2, <1>1, <1>2, OnlyMover DEF PurchaseSave, InProgress, Owner, At, accessVars
    <3> QED
      BY <3>1, <3>2, <2>2 DEF PurchaseSave
  <2>3. CASE Entitle(r, t)
    BY <2>3, <1>1, <1>2, OnlyMover DEF Entitle, InProgress, Owner, At, TypeOK
  <2>4. CASE EntitleRejected(r, t)
    BY <2>4, <1>1, <1>2, OnlyMover DEF EntitleRejected, InProgress, Owner, At, accessVars
  <2>5. CASE BonusCheck(r, t)
    BY <2>5, <1>1, <1>2, OnlyMover DEF BonusCheck, Answer, InProgress, Owner, At, accessVars
  <2>6. CASE BonusCount(r, t)
    BY <2>6, <1>1, <1>2, OnlyMover DEF BonusCount, Answer, InProgress, Owner, At, accessVars
  <2> QED
    BY <2>1, <2>2, <2>3, <2>4, <2>5, <2>6
<1> QED
  BY <1>3, <1>4, <1>5

\* The rewards of a purchase.
LEMMA BonusSerial ==
  ASSUME IInv, SInv, NEW r \in Requests, Others(r), NEW t \in Transactions,
         BonusLog(r, t) \/ BonusSave(r, t) \/ BonusNote(r, t)
  PROVE  SInv'
<1> USE DEF IInv, SInv, Others
<1>1. /\ UNCHANGED <<purchase, active, crashes>>
      /\ purchase[t] = "completed"
      /\ \A u \in Transactions \ {t} : reward'[u] = reward[u] /\ bonus'[u] = bonus[u]
      /\ req[r].op \in {"log", "bonus", "note"}
  <2>1. Owner(r, t) /\ req[r].op \in {"log", "bonus", "note"}
    BY DEF BonusLog, BonusSave, BonusNote, Owner, At
  <2>2. purchase[t] = "completed"
    BY <2>1 DEF InProgress
  <2>3. UNCHANGED <<purchase, active, crashes>>
    BY DEF BonusLog, BonusSave, BonusNote, accessVars
  <2>4. \A u \in Transactions \ {t} : reward'[u] = reward[u] /\ bonus'[u] = bonus[u]
    BY DEF BonusLog, BonusSave, BonusNote, TypeOK
  <2> QED
    BY <2>1, <2>2, <2>3, <2>4
<1>2. req'[r].left = {} /\ Others(r)
  BY OnlyMover DEF BonusLog, BonusSave, BonusNote, Answer
<1>3. /\ reward'[t] = "released"
      /\ \A u \in Transactions \ {t} : reward[u] # "released"
      /\ req'[r].op \in {"bonus", "note"} => req'[r].tx = t
      /\ req'[r].op \in {"bonus", "note", "idle"}
  <2>1. CASE BonusLog(r, t)
    BY <2>1, OnlyMover DEF BonusLog, FreshRewards, At, TypeOK
  <2>2. CASE BonusSave(r, t)
    BY <2>2, OnlyMover DEF BonusSave, FreshRewards, BonusIsBacked, At
  <2>3. CASE BonusNote(r, t)
    BY <2>3, OnlyMover DEF BonusNote, Answer, FreshRewards, BonusIsBacked, At, TypeOK
  <2> QED
    BY <2>1, <2>2, <2>3
<1>4. BonusIsBacked'
  BY <1>1, <1>3 DEF BonusIsBacked
<1>5. FreshRewards'
  BY <1>2, <1>3 DEF FreshRewards
<1>6. InProgress'
  BY <1>1, <1>2, <1>3 DEF InProgress, Owner, At
<1> QED
  BY <1>4, <1>5, <1>6

\* The statements of a cancellation, and the end of a request.
LEMMA CancelSerial ==
  ASSUME IInv, SInv, NEW r \in Requests, Others(r),
         \/ CancelRead(r) \/ CancelPurchases(r) \/ CancelAccess(r) \/ CancelEnd(r) \/ Crash(r)
  PROVE  SInv'
<1> USE DEF IInv, SInv, Others
<1>1. UNCHANGED <<reward, bonus>>
  BY DEF CancelRead, CancelPurchases, CancelAccess, CancelEnd, Crash, rewardVars
<1>2. /\ req'[r].op \in {"idle", "cancel", "end", "reverse"}
      /\ Others(r)
      /\ req'[r].left \cap FromStore = {}
  BY OnlyMover DEF CancelRead, CancelPurchases, CancelAccess, CancelEnd, Crash, InProgress
<1>3. BonusIsBacked' /\ FreshRewards'
  BY <1>1, <1>2 DEF BonusIsBacked, FreshRewards
<1>4. InProgress'
  <2>1. CASE CancelRead(r)
    BY <2>1, <1>1, <1>2, OnlyMover DEF CancelRead, InProgress, Owner, At, accessVars
  <2>2. CASE CancelPurchases(r)
    <3>1. /\ req[r].op = "cancel" /\ req'[r].op = "end" /\ req'[r].left = req[r].left
          /\ UNCHANGED <<active, crashes>>
          /\ \A t \in Transactions :
               purchase'[t] = IF t \in req[r].left THEN "canceled" ELSE purchase[t]
      BY <2>2, OnlyMover DEF CancelPurchases, accessVars
    <3> QED
      BY <3>1, <1>1, <1>2 DEF InProgress, Owner, At
  <2>3. CASE CancelAccess(r)
    <3>1. /\ req[r].op = "end" /\ req'[r].op = "reverse" /\ req'[r].left = req[r].left
          /\ UNCHANGED <<purchase, crashes>>
          /\ \A t \in Transactions :
               active'[t] = IF t \in req[r].left THEN FALSE ELSE active[t]
      <4>1. /\ req[r].op = "end" /\ req'[r].op = "reverse" /\ req'[r].left = req[r].left
            /\ UNCHANGED <<purchase, crashes>>
        BY <2>3, OnlyMover DEF CancelAccess
      <4>2. active' = [t \in Transactions |-> active[t] /\ t \notin req[r].left]
        BY <2>3 DEF CancelAccess
      <4>3. \A t \in Transactions : active[t] \in BOOLEAN
        BY DEF TypeOK
      <4> QED
        BY <4>1, <4>2, <4>3
    <3>2. \A t \in FromStore : t \notin req[r].left
      BY <3>1, <1>2
    <3>3. ASSUME crashes = 0, NEW t \in Transactions
          PROVE  /\ ~(purchase'[t] = "canceled" /\ active'[t])
                 /\ purchase'[t] = "completed" /\ t \in FromStore => active'[t]
      <4>1. purchase[t] = "canceled" /\ active[t] => t \in req[r].left
        BY <3>1, <3>3, <1>2 DEF InProgress
      <4>2. purchase[t] = "completed" /\ t \in FromStore => active[t]
        BY <3>1, <3>3, <1>2 DEF InProgress, At
      <4>3. CASE t \in req[r].left
        BY <4>3, <3>1, <3>2
      <4>4. CASE t \notin req[r].left
        BY <4>4, <4>1, <4>2, <3>1
      <4> QED
        BY <4>3, <4>4
    <3> QED
      BY <3>1, <3>3, <1>1, <1>2 DEF InProgress, Owner, At
  <2>4. CASE CancelEnd(r)
    BY <2>4, <1>1, <1>2, OnlyMover DEF CancelEnd, InProgress, Owner, At, accessVars
  <2>5. CASE Crash(r)
    <3>1. crashes' # 0
      BY <2>5, RequestsAssumption DEF Crash, TypeOK
    <3> QED
      BY <3>1, <2>5, <1>2 DEF Crash, InProgress, Owner
  <2> QED
    BY <2>1, <2>2, <2>3, <2>4, <2>5
<1> QED
  BY <1>3, <1>4

\* The reversal of one reward.
LEMMA ReverseSerial ==
  ASSUME IInv, SInv, NEW r \in Requests, Others(r), NEW t \in Transactions,
         ReverseBonus(r, t) \/ ReverseEvent(r, t)
  PROVE  SInv'
<1> USE DEF IInv, SInv, Others
<1>1. /\ UNCHANGED <<purchase, active, crashes>>
      /\ \A u \in Transactions \ {t} : reward'[u] = reward[u] /\ bonus'[u] = bonus[u]
      /\ Others(r)
  <2>1. UNCHANGED <<purchase, active, crashes>> /\ Others(r)
    BY OnlyMover DEF ReverseBonus, ReverseEvent, accessVars
  <2>2. \A u \in Transactions \ {t} : reward'[u] = reward[u] /\ bonus'[u] = bonus[u]
    BY DEF ReverseBonus, ReverseEvent, TypeOK
  <2> QED
    BY <2>1, <2>2
<1>2. CASE ReverseEvent(r, t)
  <2>1. /\ reward'[t] = "reversed" /\ bonus'[t] = FALSE
        /\ req'[r].op = "reverse" /\ req'[r].left = req[r].left
    BY <1>2, OnlyMover DEF ReverseEvent, FreshRewards, At, TypeOK
  <2>2. BonusIsBacked' /\ FreshRewards'
    BY <2>1, <1>1 DEF BonusIsBacked, FreshRewards
  <2>3. InProgress'
    BY <2>1, <1>1, <1>2 DEF ReverseEvent, InProgress, Owner, At
  <2> QED
    BY <2>2, <2>3
<1>3. CASE ReverseBonus(r, t) /\ reward[t] = "released"
  <2>1. /\ reward'[t] = "released" /\ bonus'[t] = FALSE
        /\ req'[r].op = "reversed" /\ req'[r].tx = t /\ req'[r].left = req[r].left \ {t}
    BY <1>3, OnlyMover DEF ReverseBonus, TypeOK
  <2>2. BonusIsBacked' /\ FreshRewards'
    BY <2>1, <1>1, <1>3 DEF BonusIsBacked, FreshRewards
  <2>3. InProgress'
    BY <2>1, <1>1, <1>3 DEF ReverseBonus, InProgress, Owner, At
  <2> QED
    BY <2>2, <2>3
<1>4. CASE ReverseBonus(r, t) /\ reward[t] # "released"
  <2>1. /\ reward'[t] # "released" /\ bonus'[t] = FALSE
        /\ req'[r].op = "reverse" /\ req'[r].left = req[r].left \ {t}
    BY <1>4, OnlyMover DEF ReverseBonus, BonusIsBacked, TypeOK
  <2>2. BonusIsBacked' /\ FreshRewards'
    BY <2>1, <1>1, <1>4 DEF BonusIsBacked, FreshRewards
  <2>3. InProgress'
    BY <2>1, <1>1, <1>4 DEF ReverseBonus, InProgress, Owner, At
  <2> QED
    BY <2>2, <2>3
<1> QED
  BY <1>2, <1>3, <1>4

\* Whoever takes a step is in flight before or after it.
LEMMA OthersRest ==
  ASSUME IInv, Alone, Alone', NEW r \in Requests,
         CancelStep(r) \/ Crash(r) \/ \E t \in Transactions : Purchasing(r, t)
  PROVE  Others(r)
<1>1. \A q \in Requests \ {r} : req'[q] = req[q]
  <2>1. CASE CancelStep(r) \/ Crash(r)
    BY <2>1, CancelMoves
  <2>2. CASE \E t \in Transactions : Purchasing(r, t)
    BY <2>2, Moves
       DEF IInv, Purchasing, PurchaseBegin, PurchaseSave, Entitle, EntitleRejected,
           BonusCheck, BonusCount, BonusLog, BonusSave, BonusNote, Answer
  <2> QED
    BY <2>1, <2>2
<1>2. req[r].op # "idle" \/ req'[r].op # "idle"
  <2>1. CASE CancelStep(r) \/ Crash(r)
    <3>1. CASE CancelRead(r)
      BY <3>1, OnlyMover DEF CancelRead, IInv
    <3>2. CASE ~CancelRead(r)
      BY <2>1, <3>2 DEF CancelStep, CancelPurchases, CancelAccess, ReverseBonus, ReverseEvent,
                        CancelEnd, Crash, At
    <3> QED
      BY <3>1, <3>2
  <2>2. ASSUME NEW t \in Transactions, Purchasing(r, t)
        PROVE  req[r].op # "idle" \/ req'[r].op # "idle"
    <3>1. CASE PurchaseBegin(r, t)
      BY <3>1, OnlyMover DEF PurchaseBegin, IInv
    <3>2. CASE ~PurchaseBegin(r, t)
      BY <2>2, <3>2 DEF Purchasing, PurchaseSave, Entitle, EntitleRejected, BonusCheck,
                        BonusCount, BonusLog, BonusSave, BonusNote, At
    <3> QED
      BY <3>1, <3>2
  <2> QED
    BY <2>1, <2>2
<1> QED
  BY <1>1, <1>2 DEF Alone, Others

LEMMA NextSInv == IInv /\ Alone /\ Alone' /\ SInv /\ [Next]_vars => SInv'
<1> SUFFICES ASSUME IInv, Alone, Alone', SInv, [Next]_vars PROVE SInv'
  OBVIOUS
<1>1. CASE (\E t \in Transactions : PurchaseKnown(t)) \/ UNCHANGED vars
  BY <1>1 DEF PurchaseKnown, vars, accessVars, rewardVars, SInv, BonusIsBacked, FreshRewards,
              InProgress, Owner, At
<1>2. ASSUME NEW r \in Requests, NEW t \in Transactions, Purchasing(r, t) PROVE SInv'
  BY <1>2, PurchaseSerial, BonusSerial, OthersRest DEF Purchasing
<1>3. ASSUME NEW r \in Requests, CancelStep(r) \/ Crash(r) PROVE SInv'
  BY <1>3, CancelSerial, ReverseSerial, OthersRest DEF CancelStep
<1> QED
  BY <1>1, <1>2, <1>3 DEF Next

LEMMA SInvHolds == SInv => BonusIsBacked /\ CancelledHasNothing
BY DEF SInv, InProgress, CancelledHasNothing, Quiet, At

\* As long as no two requests are in flight together, a bonus is active only
\* while its event is released and one event at most is, wherever a purchase
\* or a cancellation died; and if none died, a cancelled purchase keeps
\* nothing, and what the store reported and is not cancelled gives access.
THEOREM OneAfterTheOther == Spec /\ []Alone => [](BonusIsBacked /\ CancelledHasNothing)
<1>1. Init => SInv
  BY InitSInv
<1>2. IInv /\ Alone /\ Alone' /\ SInv /\ [Next]_vars => SInv'
  BY NextSInv
<1>3. SInv => BonusIsBacked /\ CancelledHasNothing
  BY SInvHolds
<1> QED
  BY <1>1, <1>2, <1>3, Invariance, PTL DEF Spec

-----------------------------------------------------------------------------
(* The run chooses at the start whether requests come one after the other. *)

SerialInv == serial => Alone /\ SInv

LEMMA RunInvariance == MCSpec => [](IInv /\ SerialInv)
<1>1. MCInit => IInv /\ SerialInv
  <2>1. Init => Alone
    BY IdleType DEF Init, Alone
  <2> QED
    BY <2>1, InitIInv, InitSInv DEF MCInit, SerialInv
<1>2. IInv /\ SerialInv /\ [MCNext]_<<vars, serial>> => IInv' /\ SerialInv'
  <2> SUFFICES ASSUME IInv, SerialInv, [MCNext]_<<vars, serial>>
               PROVE  IInv' /\ SerialInv'
    OBVIOUS
  <2>1. [Next]_vars /\ serial' = serial /\ (serial => Alone' \/ UNCHANGED vars)
    BY DEF MCNext
  <2>2. UNCHANGED vars /\ Alone => Alone'
    BY DEF vars, Alone
  <2> QED
    BY <2>1, <2>2, NextIInv, NextSInv DEF SerialInv
<1> QED
  BY <1>1, <1>2, PTL DEF MCSpec

\* In the run, with any number of transactions, requests and crashes, a bonus is
\* active only while its event is released when handlers do not overlap.
THEOREM BonusesAreBacked == MCSpec => []SerialBonusIsBacked
<1>1. SerialInv => SerialBonusIsBacked
  BY SInvHolds DEF SerialInv, SerialBonusIsBacked
<1> QED
  BY <1>1, RunInvariance, PTL

\* In the run, with any number of transactions, requests and crashes, a cancelled
\* purchase keeps nothing when handlers do not overlap and none died.
THEOREM CancelledKeepsNothing == MCSpec => []SerialCancelledHasNothing
<1>1. SerialInv => SerialCancelledHasNothing
  BY SInvHolds DEF SerialInv, SerialCancelledHasNothing
<1> QED
  BY <1>1, RunInvariance, PTL
=============================================================================
