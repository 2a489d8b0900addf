------------------------ MODULE LessonPaymentProofs ------------------------
(***************************************************************************)
(* Proofs about LessonPayment for any number of Checkout sessions and of   *)
(* requests in flight; in the last part, for any number of sessions when   *)
(* requests come one at a time.                                            *)
(***************************************************************************)
EXTENDS LessonPayment, TLAPS

\* What the columns of a row claim has happened.
StatusHappened(status) ==
  /\ status = "captured" => bought \/ \E s \in Sessions : stripe[s] = "paid"
  /\ status = "failed" => \E s \in Sessions : stripe[s] = "failed"
  /\ status = "cancelled" => \E s \in Sessions : stripe[s] = "expired"
SessionThere(s) == s # NoSession => Created(s)

\* What an event says has happened.
EventsAreTrue ==
  \A e \in events :
    /\ Created(e.session)
    /\ e.paid => stripe[e.session] = "paid"
    /\ e.type = "expired" => stripe[e.session] = "expired"
    /\ e.type = "async_failed" => stripe[e.session] = "failed"

ShownAreThere == \A s \in shown : Created(s)

\* What a handler is about to write has happened, each column for itself.
AnswerIsTrue(r) ==
  /\ req[r].op \in {"checkout", "confirmRead", "confirm", "webhook"} => req[r].session \in Sessions
  /\ req[r].op = "apple" => bought
  /\ StatusHappened(req[r].status)
  /\ SessionThere(req[r].session) /\ SessionThere(req[r].url)
AnswersAreTrue == \A r \in Requests : AnswerIsTrue(r)

IInv ==
  TypeOK /\ RecordsWhatHappened /\ EventsAreTrue /\ ShownAreThere /\ AnswersAreTrue

-----------------------------------------------------------------------------
THEOREM InitIInv == Init => IInv
<1> SUFFICES ASSUME Init PROVE IInv
  OBVIOUS
<1>1. TypeOK
  BY SessionsAssumption, NoEventAssumption
     DEF Init, TypeOK, Payment, PaymentStatus, SessionOrNone, Column, Request, Idle
<1>2. RecordsWhatHappened /\ EventsAreTrue /\ ShownAreThere
  BY DEF Init, RecordsWhatHappened, EventsAreTrue, ShownAreThere
<1>3. AnswersAreTrue
  BY DEF Init, Idle, AnswersAreTrue, AnswerIsTrue, StatusHappened, SessionThere
<1> QED
  BY <1>1, <1>2, <1>3 DEF IInv

LEMMA Values ==
  /\ "none" \in PaymentStatus /\ "checkout_created" \in PaymentStatus
  /\ "captured" \in PaymentStatus
  /\ NoSession \in SessionOrNone /\ \A s \in Sessions : s \in SessionOrNone
  /\ NoEvent \in Event \cup {NoEvent}
BY DEF PaymentStatus, SessionOrNone

\* The type of a request that begins, and what Begin and End leave alone.
LEMMA BeginType ==
  ASSUME TypeOK, NEW r \in Requests,
         NEW op \in {"checkout", "confirmRead", "confirm", "apple", "webhook"},
         NEW s \in SessionOrNone, NEW url \in SessionOrNone, NEW status \in PaymentStatus,
         NEW e \in Event \cup {NoEvent}, Begin(r, op, s, url, status, e)
  PROVE  /\ req' \in [Requests -> Request]
         /\ req'[r].op = op /\ req'[r].session = s /\ req'[r].status = status
         /\ req'[r].url = url /\ req'[r].event = e /\ req'[r].reloaded = FALSE
         /\ req'[r].found <=> payment.status # "none"
         /\ \A q \in Requests \ {r} : req'[q] = req[q]
<1> DEFINE new == [op |-> op, session |-> s, url |-> url, status |-> status,
                   found |-> payment.status # "none", reloaded |-> FALSE, columns |-> {},
                   event |-> e]
<1>1. (payment.status # "none") \in BOOLEAN
  OBVIOUS
<1>2. new \in Request
  BY <1>1 DEF Request
<1>3. req' = [req EXCEPT ![r] = new]
  BY DEF Begin, Idle
<1>4. /\ new.op = op /\ new.session = s /\ new.status = status /\ new.url = url /\ new.event = e
      /\ new.reloaded = FALSE /\ (new.found <=> payment.status # "none")
  OBVIOUS
<1> QED
  BY <1>2, <1>3, <1>4 DEF TypeOK

LEMMA IdleType ==
  Idle \in Request /\ Idle.op = "idle" /\ Idle.session = NoSession /\ Idle.url = NoSession
                   /\ Idle.status = "none"
BY DEF Idle, Request, PaymentStatus, SessionOrNone, Column

LEMMA EndType ==
  ASSUME TypeOK, NEW r \in Requests, End(r)
  PROVE  /\ req' \in [Requests -> Request]
         /\ req'[r] = Idle
         /\ req'[r].op = "idle"
         /\ \A q \in Requests \ {r} : req'[q] = req[q]
BY IdleType DEF TypeOK, End

\* What has happened stays so: Stripe only ever moves a session that is open or
\* processing, and never back to none.
SettledStay ==
  /\ bought => bought'
  /\ \A t \in Sessions : /\ stripe[t] \in {"paid", "failed", "expired"} => stripe'[t] = stripe[t]
                         /\ stripe[t] # "none" => stripe'[t] # "none"

LEMMA StillHappened ==
  ASSUME IInv, SettledStay
  PROVE  /\ \A st \in PaymentStatus : StatusHappened(st) => StatusHappened(st)'
         /\ \A s \in SessionOrNone : SessionThere(s) => SessionThere(s)'
         /\ payment' = payment => RecordsWhatHappened'
         /\ \A e \in events : /\ Created(e.session)'
                              /\ e.paid => stripe'[e.session] = "paid"
                              /\ e.type = "expired" => stripe'[e.session] = "expired"
                              /\ e.type = "async_failed" => stripe'[e.session] = "failed"
         /\ \A s \in shown : Created(s)'
<1> USE DEF IInv, SettledStay
<1>1. \A st \in PaymentStatus : StatusHappened(st) => StatusHappened(st)'
  BY DEF StatusHappened
<1>2. \A s \in SessionOrNone : SessionThere(s) => SessionThere(s)'
  BY DEF SessionThere, Created, SessionOrNone
<1>3. payment' = payment => RecordsWhatHappened'
  BY DEF RecordsWhatHappened, TypeOK, Payment, Created, SessionOrNone
<1>4. ASSUME NEW e \in events
      PROVE  /\ Created(e.session)'
             /\ e.paid => stripe'[e.session] = "paid"
             /\ e.type = "expired" => stripe'[e.session] = "expired"
             /\ e.type = "async_failed" => stripe'[e.session] = "failed"
  <2>1. e.session \in Sessions
    BY DEF TypeOK, Event
  <2> QED
    BY <2>1 DEF EventsAreTrue, Created
<1>5. \A s \in shown : Created(s)'
  BY DEF ShownAreThere, Created, TypeOK
<1> QED
  BY <1>1, <1>2, <1>3, <1>4, <1>5

\* A request that did not change is as true as it was.
LEMMA SameAnswers ==
  ASSUME IInv, SettledStay, NEW q \in Requests, req'[q] = req[q]
  PROVE  AnswerIsTrue(q)'
<1>1. /\ req[q].status \in PaymentStatus
      /\ req[q].session \in SessionOrNone /\ req[q].url \in SessionOrNone
  BY DEF IInv, TypeOK, Request
<1>2. AnswerIsTrue(q) /\ (bought => bought')
  BY DEF IInv, AnswersAreTrue, SettledStay
<1>3. \A st \in PaymentStatus : StatusHappened(st) => StatusHappened(st)'
  BY StillHappened
<1>4. \A s \in SessionOrNone : SessionThere(s) => SessionThere(s)'
  BY StillHappened
<1>5. StatusHappened(req[q].status)' /\ SessionThere(req[q].session)' /\ SessionThere(req[q].url)'
  BY <1>1, <1>2, <1>3, <1>4 DEF AnswerIsTrue
<1> QED
  BY <1>2, <1>5 DEF AnswerIsTrue

LEMMA SettleStep ==
  ASSUME IInv, NEW s \in Sessions,
         NEW from \in {"open", "processing"}, NEW to \in {"processing", "paid", "failed", "expired"},
         NEW type \in {"completed", "async_succeeded", "async_failed", "expired"},
         type = "expired" => to = "expired", type = "async_failed" => to = "failed",
         Settle(s, from, to, type)
  PROVE  IInv'
<1> USE DEF Settle, IInv
<1>1. TypeOK'
  <2>1. (to = "paid") \in BOOLEAN
    OBVIOUS
  <2>2. [type |-> type, session |-> s, paid |-> to = "paid"] \in Event
    BY <2>1 DEF Event
  <2> QED
    BY <2>2 DEF TypeOK
<1>2. SettledStay
  BY DEF TypeOK, SettledStay
<1>3. stripe'[s] = to
  BY DEF TypeOK
<1>4. RecordsWhatHappened' /\ ShownAreThere'
  BY <1>2, StillHappened DEF ShownAreThere
<1>5. EventsAreTrue'
  <2> SUFFICES ASSUME NEW e \in events'
               PROVE  /\ stripe'[e.session] # "none"
                      /\ e.paid => stripe'[e.session] = "paid"
                      /\ e.type = "expired" => stripe'[e.session] = "expired"
                      /\ e.type = "async_failed" => stripe'[e.session] = "failed"
    BY DEF EventsAreTrue, Created
  <2>1. CASE e \in events
    BY <2>1, <1>2, StillHappened DEF Created
  <2>2. CASE e = [type |-> type, session |-> s, paid |-> to = "paid"]
    BY <2>2, <1>3
  <2> QED
    BY <2>1, <2>2
<1>6. AnswersAreTrue'
  BY <1>2, SameAnswers DEF AnswersAreTrue
<1> QED
  BY <1>1, <1>4, <1>5, <1>6

\* A step that neither writes the row nor queues an event.
LEMMA RequestStep ==
  ASSUME IInv, NEW r \in Requests, SettledStay, TypeOK',
         payment' = payment, events' \subseteq events, shown' = shown,
         \A q \in Requests \ {r} : req'[q] = req[q],
         AnswerIsTrue(r)'
  PROVE  IInv'
<1>1. RecordsWhatHappened' /\ EventsAreTrue' /\ ShownAreThere'
  BY StillHappened DEF EventsAreTrue, ShownAreThere
<1>2. AnswersAreTrue'
  BY SameAnswers DEF AnswersAreTrue
<1> QED
  BY <1>1, <1>2 DEF IInv

LEMMA CheckoutPostStep ==
  ASSUME IInv, NEW r \in Requests, NEW s \in Sessions, CheckoutPost(r, s)
  PROVE  IInv'
<1> USE DEF CheckoutPost, Created, IInv
<1>1. /\ req' \in [Requests -> Request]
      /\ req'[r].op = "checkout" /\ req'[r].session = s /\ req'[r].url = s
      /\ req'[r].status = "checkout_created"
      /\ \A q \in Requests \ {r} : req'[q] = req[q]
  <2>1. TypeOK /\ Begin(r, "checkout", s, s, "checkout_created", NoEvent)
    OBVIOUS
  <2> HIDE DEF CheckoutPost, IInv, Created
  <2> QED
    <3>1. /\ req' \in [Requests -> Request]
          /\ req'[r].op = "checkout" /\ req'[r].session = s /\ req'[r].status = "checkout_created"
          /\ req'[r].url = s /\ req'[r].event = NoEvent /\ req'[r].reloaded = FALSE
          /\ req'[r].found <=> payment.status # "none"
          /\ \A q \in Requests \ {r} : req'[q] = req[q]
      BY <2>1, Values, BeginType
    <3> QED
      BY <3>1
<1>2. SettledStay /\ stripe'[s] = "open"
  BY DEF TypeOK, SettledStay
<1>3. TypeOK'
  BY <1>1 DEF TypeOK
<1> QED
  BY <1>1, <1>2, <1>3, RequestStep DEF AnswerIsTrue, StatusHappened, SessionThere

\* Steps that only begin a request, or tell one what Stripe has answered.
LEMMA ConfirmReadStep ==
  ASSUME IInv, NEW r \in Requests, NEW s \in Sessions, ConfirmRead(r, s)
  PROVE  IInv'
<1> USE DEF ConfirmRead, IInv, outside
<1>1. /\ req' \in [Requests -> Request]
      /\ req'[r].op = "confirmRead" /\ req'[r].session = s /\ req'[r].url = NoSession
      /\ req'[r].status = "none"
      /\ \A q \in Requests \ {r} : req'[q] = req[q]
  <2>1. TypeOK /\ Begin(r, "confirmRead", s, NoSession, "none", NoEvent)
    OBVIOUS
  <2> HIDE DEF ConfirmRead, IInv, outside
  <2> QED
    <3>1. /\ req' \in [Requests -> Request]
          /\ req'[r].op = "confirmRead" /\ req'[r].session = s /\ req'[r].status = "none"
          /\ req'[r].url = NoSession /\ req'[r].event = NoEvent /\ req'[r].reloaded = FALSE
          /\ req'[r].found <=> payment.status # "none"
          /\ \A q \in Requests \ {r} : req'[q] = req[q]
      BY <2>1, Values, BeginType
    <3> QED
      BY <3>1
<1>2. SettledStay /\ TypeOK'
  BY <1>1 DEF TypeOK, SettledStay
<1>3. stripe'[s] # "none"
  BY DEF ShownAreThere, Created
<1> QED
  BY <1>1, <1>2, <1>3, RequestStep DEF AnswerIsTrue, StatusHappened, SessionThere, Created

LEMMA ConfirmFetchStep ==
  ASSUME IInv, NEW r \in Requests, ConfirmFetch(r)
  PROVE  IInv'
<1> USE DEF ConfirmFetch, IInv, outside
<1> DEFINE s == req[r].session
<1>1. s \in Sessions /\ stripe[s] # "none" /\ req[r] \in Request
  BY SessionsAssumption DEF AnswersAreTrue, AnswerIsTrue, SessionThere, Created, TypeOK
<1>2. /\ req' \in [Requests -> Request]
      /\ req'[r].op = "confirm" /\ req'[r].session = s
      /\ req'[r].url = IF stripe[s] = "open" THEN s ELSE NoSession
      /\ req'[r].status = IF stripe[s] = "paid" THEN "captured" ELSE "pending"
      /\ \A q \in Requests \ {r} : req'[q] = req[q]
  BY <1>1 DEF TypeOK, Request, PaymentStatus, SessionOrNone
<1>3. SettledStay /\ TypeOK'
  BY <1>2 DEF TypeOK, SettledStay
<1> QED
  BY <1>1, <1>2, <1>3, RequestStep DEF AnswerIsTrue, StatusHappened, SessionThere, Created

LEMMA AppleReadStep ==
  ASSUME IInv, NEW r \in Requests, AppleRead(r)
  PROVE  IInv'
<1> USE DEF AppleRead, IInv, outside
<1>1. /\ req' \in [Requests -> Request]
      /\ req'[r].op = "apple" /\ req'[r].session = NoSession /\ req'[r].url = NoSession
      /\ req'[r].status = "captured"
      /\ \A q \in Requests \ {r} : req'[q] = req[q]
  <2>1. TypeOK /\ Begin(r, "apple", NoSession, NoSession, "captured", NoEvent)
    OBVIOUS
  <2> HIDE DEF AppleRead, IInv, outside
  <2> QED
    <3>1. /\ req' \in [Requests -> Request]
          /\ req'[r].op = "apple" /\ req'[r].session = NoSession /\ req'[r].status = "captured"
          /\ req'[r].url = NoSession /\ req'[r].event = NoEvent /\ req'[r].reloaded = FALSE
          /\ req'[r].found <=> payment.status # "none"
          /\ \A q \in Requests \ {r} : req'[q] = req[q]
      BY <2>1, Values, BeginType
    <3> QED
      BY <3>1
<1>2. SettledStay /\ TypeOK'
  BY <1>1 DEF TypeOK, SettledStay
<1> QED
  BY <1>1, <1>2, RequestStep DEF AnswerIsTrue, StatusHappened, SessionThere

LEMMA WebhookReadStep ==
  ASSUME IInv, NEW r \in Requests, NEW e \in events, WebhookRead(r, e)
  PROVE  IInv'
<1> USE DEF WebhookRead, IInv, outside
<1>1. e \in Event /\ e.session \in Sessions /\ StripeStatus(e) \in PaymentStatus
  BY DEF TypeOK, Event, StripeStatus, PaymentStatus
<1>2. /\ req' \in [Requests -> Request]
      /\ req'[r].op = "webhook" /\ req'[r].session = e.session /\ req'[r].url = NoSession
      /\ req'[r].status = StripeStatus(e)
      /\ \A q \in Requests \ {r} : req'[q] = req[q]
  BY <1>1, BeginType, ZenonT(60) DEF SessionOrNone
<1>3. SettledStay /\ TypeOK'
  BY <1>2 DEF TypeOK, SettledStay
<1>4. StatusHappened(StripeStatus(e)) /\ Created(e.session)
  BY <1>1 DEF Event, EventsAreTrue, StripeStatus, StatusHappened
<1> QED
  BY <1>1, <1>2, <1>3, <1>4, RequestStep DEF AnswerIsTrue, StatusHappened, SessionThere, Created

LEMMA ReloadStep ==
  ASSUME IInv, NEW r \in Requests, Reload(r)
  PROVE  IInv'
<1> USE DEF Reload, IInv, outside
<1>1. /\ req' \in [Requests -> Request]
      /\ req'[r].op = req[r].op /\ req'[r].session = req[r].session
      /\ req'[r].url = req[r].url /\ req'[r].status = req[r].status
      /\ \A q \in Requests \ {r} : req'[q] = req[q]
  BY ZenonT(60) DEF TypeOK, Request
<1>2. SettledStay /\ TypeOK'
  BY <1>1 DEF TypeOK, SettledStay
<1>3. AnswerIsTrue(r)'
  BY <1>1 DEF AnswersAreTrue, AnswerIsTrue, StatusHappened, SessionThere, Created
<1> QED
  BY <1>1, <1>2, <1>3, RequestStep

\* Steps that write the row or give up: whichever columns are written, each
\* claims what happened.
LEMMA WriteStep ==
  ASSUME IInv, NEW r \in Requests,
         \/ CheckoutSave(r) \/ ConfirmSave(r) \/ AppleSave(r) \/ WebhookSave(r) \/ Crash(r)
  PROVE  IInv'
<1> USE DEF CheckoutSave, ConfirmSave, AppleSave, WebhookSave, Crash, IInv, outside
<1>1. End(r)
  OBVIOUS
<1>2. /\ req' \in [Requests -> Request]
      /\ req'[r] = Idle
      /\ \A q \in Requests \ {r} : req'[q] = req[q]
  BY <1>1, EndType
<1>3. UNCHANGED <<stripe, bought, payable>> /\ SettledStay
  BY DEF SettledStay
<1>4. /\ payment' \in Payment
      /\ payment'.status \in {payment.status, req[r].status}
      /\ payment'.provider = "apple_iap" => payment.provider = "apple_iap" \/ req[r].op = "apple"
      /\ payment'.session \in {payment.session, req[r].session}
      /\ payment'.url \in {payment.url, req[r].url}
  <2>1. /\ req[r].status \in PaymentStatus
        /\ req[r].session \in SessionOrNone /\ req[r].url \in SessionOrNone
    BY DEF TypeOK, Request
  <2>2. CASE Crash(r)
    BY <2>2 DEF TypeOK
  <2>3. CASE Write(r)
    BY <2>1, <2>3 DEF Write, Updated, Entity, TypeOK, Payment
  <2> QED
    BY <2>2, <2>3
<1>5. old' \in BOOLEAN /\ events' \subseteq events
  BY DEF Write, TypeOK
<1>6. shown' = shown \/ (req[r].op = "checkout" /\ shown' = shown \cup {req[r].session})
  OBVIOUS
<1>7. TypeOK'
  BY <1>2, <1>3, <1>4, <1>5, <1>6 DEF TypeOK, AnswersAreTrue, AnswerIsTrue
<1>8. RecordsWhatHappened'
  <2>1. StatusHappened(payment'.status) /\ (payment'.provider = "apple_iap" => bought)
    BY <1>4 DEF RecordsWhatHappened, AnswersAreTrue, AnswerIsTrue, StatusHappened
  <2>2. SessionThere(payment'.session) /\ SessionThere(payment'.url)
    BY <1>4 DEF RecordsWhatHappened, AnswersAreTrue, AnswerIsTrue, SessionThere
  <2> QED
    BY <1>3, <2>1, <2>2 DEF RecordsWhatHappened, StatusHappened, SessionThere, Created
<1>9. EventsAreTrue'
  BY <1>3, <1>5, StillHappened DEF EventsAreTrue
<1>10. ShownAreThere'
  BY <1>3, <1>6, SessionsAssumption DEF ShownAreThere, AnswersAreTrue, AnswerIsTrue, SessionThere, Created
<1>11. AnswersAreTrue'
  BY <1>2, <1>3, IdleType, SameAnswers DEF AnswersAreTrue, AnswerIsTrue, StatusHappened, SessionThere, Created
<1> QED
  BY <1>7, <1>8, <1>9, <1>10, <1>11

LEMMA WorldStep ==
  ASSUME IInv, Age \/ LessonCloses \/ ReuseCheckout \/ UNCHANGED vars
  PROVE  IInv'
<1> USE DEF Age, LessonCloses, ReuseCheckout, vars, outside, IInv
<1>1. UNCHANGED <<payment, stripe, bought, events, req>> /\ SettledStay
  BY DEF SettledStay
<1>2. shown' \subseteq shown \cup ({payment.session, payment.url} \ {NoSession})
  OBVIOUS
<1>3. payment.session \in SessionOrNone /\ payment.url \in SessionOrNone
  BY DEF TypeOK, Payment
<1>4. TypeOK'
  BY <1>1, <1>2, <1>3 DEF TypeOK, SessionOrNone
<1>5. ShownAreThere'
  BY <1>1, <1>2 DEF ShownAreThere, RecordsWhatHappened, Created
<1>6. RecordsWhatHappened' /\ EventsAreTrue'
  BY <1>1, StillHappened DEF EventsAreTrue
<1>7. AnswersAreTrue'
  BY <1>1, SameAnswers DEF AnswersAreTrue
<1> QED
  BY <1>4, <1>5, <1>6, <1>7

THEOREM NextIInv == IInv /\ [Next]_vars => IInv'
<1> SUFFICES ASSUME IInv, [Next]_vars PROVE IInv'
  OBVIOUS
<1>1. ASSUME NEW s \in Sessions, Pay(s) \/ AsyncSucceed(s) \/ AsyncFail(s) \/ Expire(s)
      PROVE  IInv'
  BY <1>1, SettleStep DEF Pay, AsyncSucceed, AsyncFail, Expire
<1>2. CASE Age \/ LessonCloses \/ ReuseCheckout \/ UNCHANGED vars
  BY <1>2, WorldStep
<1>3. ASSUME NEW r \in Requests, Start(r) PROVE IInv'
  BY <1>3, CheckoutPostStep, ConfirmReadStep, AppleReadStep, WebhookReadStep DEF Start
<1>4. ASSUME NEW r \in Requests, Continue(r) PROVE IInv'
  BY <1>4, ReloadStep, ConfirmFetchStep, WriteStep DEF Continue
<1> QED
  BY <1>1, <1>2, <1>3, <1>4 DEF Next

THEOREM Invariance == Spec => []IInv
<1>1. Init => IInv
  BY InitIInv
<1>2. IInv /\ [Next]_vars => IInv'
  BY NextIInv
<1> QED
  BY <1>1, <1>2, PTL DEF Spec

\* The variables keep their types.
THEOREM TypeCorrect == Spec => []TypeOK
<1>1. IInv => TypeOK
  BY DEF IInv
<1> QED
  BY <1>1, Invariance, PTL

\* The payment row tells of nothing that has not happened, from whichever handlers
\* its columns come.
THEOREM OnlyWhatHappened == Spec => []RecordsWhatHappened
<1>1. IInv => RecordsWhatHappened
  BY DEF IInv
<1> QED
  BY <1>1, Invariance, PTL

-----------------------------------------------------------------------------
(* One request at a time, and no method that settles later: a payment is in  *)
(* the row, or Stripe still has the event that tells of it.                  *)

\* No two requests are in flight.
Alone == \A q, r \in Requests : req[q].op # "idle" /\ req[r].op # "idle" => q = r

PaidEvent(s) == \E e \in events : e.session = s /\ e.paid
OnlySession(s) == \A t \in Sessions : Created(t) => t = s
NoneForgotten ==
  \A s \in Sessions : stripe[s] = "paid" /\ OnlySession(s)
                        => payment.status = "captured" \/ PaidEvent(s)

SettledAtOnce == \A s \in Sessions : stripe[s] \notin {"processing", "failed"}
EventsSayAll ==
  \A e \in events : /\ e.type \in {"completed", "expired"} /\ Created(e.session)
                    /\ e.paid <=> e.type = "completed"
                    /\ e.paid <=> stripe[e.session] = "paid"
\* What is known of the handler in flight.
Knows(r) ==
  /\ req[r].op # "idle" => Saves(r)
  /\ req[r].op # "idle" /\ req[r].reloaded =>
       "status" \in req[r].columns \/ payment.status = req[r].status
  /\ req[r].op = "checkout" =>
       /\ Created(req[r].session) /\ stripe[req[r].session] # "paid"
       /\ req[r].session \notin shown \cup {payment.session, payment.url}
  /\ req[r].op \in {"confirmRead", "confirm"} => req[r].session \in shown
  /\ req[r].op = "confirmRead" => ~req[r].reloaded
  /\ req[r].op = "confirm" /\ req[r].status # "captured" /\ stripe[req[r].session] = "paid"
       => PaidEvent(req[r].session)
  /\ req[r].op = "apple" => req[r].status = "captured" /\ req[r].session = NoSession
  /\ req[r].op = "webhook" =>
       /\ req[r].event \in events /\ req[r].session = req[r].event.session
       /\ req[r].status = StripeStatus(req[r].event)
HandlerKnows == \A r \in Requests : Knows(r)

SInv == NoneForgotten /\ SettledAtOnce /\ EventsSayAll /\ HandlerKnows

\* A request that takes a step is the only one.
OthersIdle(r) == \A q \in Requests : q # r => req[q].op = "idle"
LEMMA OthersRest ==
  ASSUME Alone, Alone', TypeOK, NEW r \in Requests, Start(r) \/ Continue(r)
  PROVE  OthersIdle(r)'
<1>1. CASE Start(r)
  <2>1. req'[r].op # "idle"
    BY <1>1 DEF Start, CheckoutPost, ConfirmRead, AppleRead, WebhookRead, Begin, Idle, TypeOK
  <2> QED
    BY <2>1 DEF Alone, OthersIdle
<1>2. CASE Continue(r)
  <2>1. req[r].op # "idle" /\ \A q \in Requests : q # r => req'[q] = req[q]
    BY <1>2 DEF Continue, Reload, CheckoutSave, ConfirmFetch, ConfirmSave, AppleSave, WebhookSave,
       Crash, End, TypeOK
  <2> QED
    BY <2>1 DEF Alone, OthersIdle
<1> QED
  BY <1>1, <1>2

\* It is enough to look at the request that takes the step.
LEMMA ThisKnows ==
  ASSUME NEW r \in Requests,
         req'[r].op # "idle" => req'[r].found \/ payment'.status = "none",
         req'[r].op # "idle" /\ req'[r].reloaded =>
           "status" \in req'[r].columns \/ payment'.status = req'[r].status,
         req'[r].op = "checkout" =>
           /\ stripe'[req'[r].session] \notin {"none", "paid"}
           /\ req'[r].session \notin shown' \cup {payment'.session, payment'.url},
         req'[r].op \in {"confirmRead", "confirm"} => req'[r].session \in shown',
         req'[r].op = "confirmRead" => ~req'[r].reloaded,
         req'[r].op = "confirm" /\ req'[r].status # "captured"
           /\ stripe'[req'[r].session] = "paid"
           => \E e \in events' : e.session = req'[r].session /\ e.paid,
         req'[r].op = "apple" => req'[r].status = "captured" /\ req'[r].session = NoSession,
         req'[r].op = "webhook" =>
           /\ req'[r].event \in events' /\ req'[r].session = req'[r].event.session
           /\ req'[r].status = StripeStatus(req'[r].event)
  PROVE  Knows(r)' /\ (OthersIdle(r)' => HandlerKnows')
<1>1. Knows(r)'
  BY DEF Knows, Saves, Created, PaidEvent, StripeStatus
<1>2. \A q \in Requests : req'[q].op = "idle" => Knows(q)'
  BY DEF Knows
<1> QED
  BY <1>1, <1>2 DEF HandlerKnows, OthersIdle

\* What an event Stripe queues says, and what it leaves as it was.
LEMMA SettleSerial ==
  ASSUME IInv, SInv, NEW s \in Sessions,
         \/ Settle(s, "open", "paid", "completed")
         \/ Settle(s, "open", "expired", "expired"),
         \A r \in Requests : req[r].op = "checkout" /\ req[r].session = s => stripe'[s] # "paid"
  PROVE  SInv'
<1>1. /\ TypeOK /\ stripe[s] = "open"
      /\ UNCHANGED <<payment, payable, shown, req>>
      /\ \A t \in Sessions \ {s} : stripe'[t] = stripe[t]
  BY DEF IInv, Settle, TypeOK
<1>2. PICK e \in Event : /\ events' = events \cup {e} /\ e.session = s
                         /\ \/ e.type = "completed" /\ e.paid /\ stripe'[s] = "paid"
                            \/ e.type = "expired" /\ ~e.paid /\ stripe'[s] = "expired"
  <2>1. CASE Settle(s, "open", "paid", "completed")
    <3>1. [type |-> "completed", session |-> s, paid |-> "paid" = "paid"]
            = [type |-> "completed", session |-> s, paid |-> TRUE]
      OBVIOUS
    <3>2. [type |-> "completed", session |-> s, paid |-> TRUE] \in Event
      BY DEF Event
    <3>3. events' = events \cup {[type |-> "completed", session |-> s, paid |-> TRUE]}
      BY <2>1, <3>1 DEF Settle
    <3>4. stripe'[s] = "paid"
      BY <2>1 DEF Settle, IInv, TypeOK
    <3> QED
      BY <3>2, <3>3, <3>4
  <2>2. CASE Settle(s, "open", "expired", "expired")
    <3>1. [type |-> "expired", session |-> s, paid |-> "expired" = "paid"]
            = [type |-> "expired", session |-> s, paid |-> FALSE]
      OBVIOUS
    <3>2. [type |-> "expired", session |-> s, paid |-> FALSE] \in Event
      BY DEF Event
    <3>3. events' = events \cup {[type |-> "expired", session |-> s, paid |-> FALSE]}
      BY <2>2, <3>1 DEF Settle
    <3>4. stripe'[s] = "expired"
      BY <2>2 DEF Settle, IInv, TypeOK
    <3> QED
      BY <3>2, <3>3, <3>4
  <2> QED
    BY <2>1, <2>2
<1>3. \A t \in Sessions : stripe'[t] = "none" <=> stripe[t] = "none"
  BY <1>1, <1>2
<1>4. \A d \in events : d \in Event /\ d.session # s
  <2>1. \A d \in events : d \in Event /\ d.session \in Sessions
    BY <1>1 DEF TypeOK, Event
  <2>2. ASSUME NEW d \in events, d.session = s PROVE FALSE
    <3>1. d.type = "expired" /\ stripe[s] = "expired"
      BY <1>1, <2>2 DEF SInv, EventsSayAll, IInv, EventsAreTrue
    <3> QED
      BY <1>1, <3>1
  <2> QED
    BY <2>1, <2>2
<1>5. NoneForgotten'
  <2> SUFFICES ASSUME NEW t \in Sessions, stripe'[t] = "paid",
                      \A u \in Sessions : stripe'[u] # "none" => u = t
               PROVE  payment'.status = "captured" \/ \E d \in events' : d.session = t /\ d.paid
    BY DEF NoneForgotten, OnlySession, Created, PaidEvent
  <2>1. t = s
    BY <1>1, <1>3
  <2> QED
    BY <1>2, <2>1
<1>6. SettledAtOnce'
  BY <1>1, <1>2, <1>3 DEF SInv, SettledAtOnce
<1>7. EventsSayAll'
  <2>1. \A d \in events : d.session \in Sessions \ {s}
    BY <1>4 DEF Event
  <2> QED
    BY <1>1, <1>2, <2>1 DEF SInv, EventsSayAll, Created
<1>8. HandlerKnows'
  <2> SUFFICES ASSUME NEW r \in Requests PROVE Knows(r)'
    BY DEF HandlerKnows
  <2>1. req[r] \in Request /\ req'[r] = req[r]
    BY <1>1 DEF TypeOK
  <2>2. req[r].op = "checkout" => stripe'[req[r].session] \notin {"none", "paid"}
    <3> SUFFICES ASSUME req[r].op = "checkout" PROVE stripe'[req[r].session] \notin {"none", "paid"}
      OBVIOUS
    <3>1. req[r].session \in Sessions /\ stripe[req[r].session] \notin {"none", "paid"}
      BY DEF SInv, HandlerKnows, Knows, Created, IInv, AnswersAreTrue, AnswerIsTrue
    <3> QED
      BY <1>1, <1>3, <3>1
  <2>3. req[r].op = "confirm" /\ req[r].status # "captured" /\ stripe'[req[r].session] = "paid"
          => \E d \in events' : d.session = req[r].session /\ d.paid
    <3> SUFFICES ASSUME req[r].op = "confirm", req[r].status # "captured",
                        stripe'[req[r].session] = "paid"
                 PROVE  \E d \in events' : d.session = req[r].session /\ d.paid
      OBVIOUS
    <3>1. req[r].session \in Sessions
      BY DEF IInv, AnswersAreTrue, AnswerIsTrue
    <3>2. CASE req[r].session = s
      BY <1>2, <3>2
    <3>3. CASE req[r].session # s
      BY <1>1, <1>2, <3>1, <3>3 DEF SInv, HandlerKnows, Knows, PaidEvent
    <3> QED
      BY <3>2, <3>3
  <2> QED
    BY <1>1, <1>2, <2>1, <2>2, <2>3, ThisKnows DEF SInv, HandlerKnows, Knows, Saves
<1> QED
  BY <1>5, <1>6, <1>7, <1>8 DEF SInv

\* Steps that change neither the row nor what Stripe knows.
LEMMA QuietSerial ==
  ASSUME IInv, SInv, UNCHANGED <<payment, stripe, events>>, HandlerKnows'
  PROVE  SInv'
BY DEF SInv, NoneForgotten, SettledAtOnce, EventsSayAll, OnlySession, Created, PaidEvent

LEMMA StartSerial ==
  ASSUME Alone, Alone', IInv, SInv, NEW r \in Requests, Start(r)
  PROVE  SInv'
<1>0. OthersIdle(r)'
  BY OthersRest DEF IInv, Continue
<1>1. TypeOK /\ (payment.status # "none") \in BOOLEAN
  BY DEF IInv
<1>2. ASSUME NEW s \in Sessions, ConfirmRead(r, s) PROVE SInv'
  <2>1. /\ req'[r].op = "confirmRead" /\ req'[r].session = s
        /\ (req'[r].found <=> payment.status # "none") /\ ~req'[r].reloaded
    BY <1>1, <1>2, Values, BeginType DEF ConfirmRead
  <2>2. UNCHANGED <<payment, stripe, events, shown>> /\ s \in shown
    BY <1>2 DEF ConfirmRead, outside
  <2>3. HandlerKnows'
    BY <2>1, <2>2, <1>0, ThisKnows
  <2> QED
    BY <2>2, <2>3, QuietSerial
<1>3. CASE AppleRead(r)
  <2>1. /\ req'[r].op = "apple" /\ req'[r].session = NoSession /\ req'[r].status = "captured"
        /\ (req'[r].found <=> payment.status # "none") /\ ~req'[r].reloaded
    BY <1>1, <1>3, Values, BeginType DEF AppleRead
  <2>2. UNCHANGED <<payment, stripe, events, shown>>
    BY <1>3 DEF AppleRead, outside
  <2>3. HandlerKnows'
    BY <2>1, <2>2, <1>0, ThisKnows
  <2> QED
    BY <2>2, <2>3, QuietSerial
<1>4. ASSUME NEW e \in events, WebhookRead(r, e) PROVE SInv'
  <2>1. /\ req'[r].op = "webhook" /\ req'[r].session = e.session /\ req'[r].event = e
        /\ req'[r].status = StripeStatus(e)
        /\ (req'[r].found <=> payment.status # "none") /\ ~req'[r].reloaded
    <3>1. /\ e \in Event \cup {NoEvent} /\ e.session \in SessionOrNone
          /\ StripeStatus(e) \in PaymentStatus
      BY <1>1 DEF TypeOK, Event, StripeStatus, PaymentStatus, SessionOrNone
    <3>2. Begin(r, "webhook", e.session, NoSession, StripeStatus(e), e)
      BY <1>4 DEF WebhookRead
    <3> HIDE DEF WebhookRead
    <3> QED
      BY <1>1, <3>1, <3>2, Values, BeginType, ZenonT(60)
  <2>2. UNCHANGED <<payment, stripe, events, shown>>
    BY <1>4 DEF WebhookRead, outside
  <2>3. HandlerKnows'
    BY <2>1, <2>2, <1>0, ThisKnows
  <2> QED
    BY <2>2, <2>3, QuietSerial
<1>5. ASSUME NEW s \in Sessions, CheckoutPost(r, s) PROVE SInv'
  <2>1. /\ req'[r].op = "checkout" /\ req'[r].session = s
        /\ (req'[r].found <=> payment.status # "none") /\ ~req'[r].reloaded
    BY <1>1, <1>5, Values, BeginType DEF CheckoutPost
  <2>2. /\ UNCHANGED <<payment, events, shown>> /\ stripe[s] = "none"
        /\ stripe'[s] = "open" /\ \A t \in Sessions \ {s} : stripe'[t] = stripe[t]
    BY <1>1, <1>5 DEF CheckoutPost, Created, TypeOK
  <2>3. s \notin shown \cup {payment.session, payment.url}
    BY <2>2, SessionsAssumption DEF IInv, ShownAreThere, RecordsWhatHappened, Created
  <2>4. HandlerKnows'
    BY <2>1, <2>2, <2>3, <1>0, ThisKnows
  <2>5. NoneForgotten' /\ SettledAtOnce'
    BY <2>2 DEF SInv, NoneForgotten, SettledAtOnce, OnlySession, Created, PaidEvent
  <2>6. \A e \in events : e.session \in Sessions \ {s}
    BY <1>1, <2>2 DEF SInv, EventsSayAll, Created, TypeOK, Event
  <2>7. EventsSayAll'
    BY <2>2, <2>6 DEF SInv, EventsSayAll, Created
  <2> QED
    BY <2>4, <2>5, <2>7 DEF SInv
<1> QED
  BY <1>2, <1>3, <1>4, <1>5 DEF Start

\* What a save makes of the row.
LEMMA SaveSerial ==
  ASSUME Alone, Alone', IInv, SInv, NEW r \in Requests,
         CheckoutSave(r) \/ ConfirmSave(r) \/ AppleSave(r) \/ WebhookSave(r)
  PROVE  SInv'
<1>0. OthersIdle(r)'
  BY OthersRest DEF IInv, Continue
<1>1. TypeOK /\ End(r) /\ UNCHANGED stripe
  BY DEF IInv, CheckoutSave, ConfirmSave, AppleSave, WebhookSave, outside
<1>2. req'[r].op = "idle"
  BY <1>1, EndType
<1>3. payment'.status = req[r].status
  <2>1. /\ req[r].op # "idle" /\ Write(r) /\ Saves(r)
        /\ req[r].reloaded => "status" \in req[r].columns \/ payment.status = req[r].status
    BY DEF CheckoutSave, ConfirmSave, AppleSave, WebhookSave, SInv, HandlerKnows, Knows
  <2> QED
    BY <2>1 DEF Write, Updated, Entity
<1>4. HandlerKnows'
  BY <1>2, <1>0, ThisKnows
<1>5. SettledAtOnce'
  BY <1>1 DEF SInv, SettledAtOnce
<1>6. events' \subseteq events
  BY DEF CheckoutSave, ConfirmSave, AppleSave, WebhookSave
<1>7. EventsSayAll'
  BY <1>1, <1>6 DEF SInv, EventsSayAll, Created
<1>8. NoneForgotten'
  <2> SUFFICES ASSUME NEW s \in Sessions, stripe[s] = "paid",
                      \A t \in Sessions : stripe[t] # "none" => t = s
               PROVE  req[r].status = "captured" \/ \E e \in events' : e.session = s /\ e.paid
    BY <1>1, <1>3 DEF NoneForgotten, OnlySession, Created, PaidEvent
  <2>1. CASE CheckoutSave(r)
    BY <2>1 DEF CheckoutSave, SInv, HandlerKnows, Knows, Created, IInv, AnswersAreTrue, AnswerIsTrue
  <2>2. CASE ConfirmSave(r)
    <3>1. req[r].session = s
      BY <2>2 DEF ConfirmSave, SInv, HandlerKnows, Knows, ShownAreThere, Created, IInv,
                  AnswersAreTrue, AnswerIsTrue
    <3> QED
      BY <2>2, <3>1 DEF ConfirmSave, SInv, HandlerKnows, Knows, PaidEvent
  <2>3. CASE AppleSave(r)
    BY <2>3 DEF AppleSave, SInv, HandlerKnows, Knows
  <2>4. CASE WebhookSave(r)
    <3> DEFINE e == req[r].event
    <3>1. e \in events /\ e.session \in Sessions /\ req[r].status = StripeStatus(e)
      BY <1>1, <2>4 DEF WebhookSave, SInv, HandlerKnows, Knows, TypeOK, Event
    <3>2. e.session = s
      BY <3>1 DEF SInv, EventsSayAll, Created
    <3>3. e.paid /\ e.type = "completed"
      BY <3>1, <3>2 DEF SInv, EventsSayAll
    <3> QED
      BY <3>1, <3>3 DEF StripeStatus
  <2> QED
    BY <2>1, <2>2, <2>3, <2>4
<1> QED
  BY <1>4, <1>5, <1>7, <1>8 DEF SInv

LEMMA OtherSerial ==
  ASSUME Alone, Alone', IInv, SInv, NEW r \in Requests, Reload(r) \/ ConfirmFetch(r) \/ Crash(r)
  PROVE  SInv'
<1>0. OthersIdle(r)'
  BY OthersRest DEF IInv, Continue
<1>1. TypeOK /\ UNCHANGED <<payment, stripe, events, shown>>
  BY DEF IInv, Reload, ConfirmFetch, Crash, outside
<1>2. CASE Crash(r)
  <2>1. req'[r].op = "idle"
    BY <1>1, <1>2, EndType DEF Crash
  <2> QED
    BY <1>1, <2>1, <1>0, ThisKnows, QuietSerial
<1>3. CASE ConfirmFetch(r)
  <2>1. /\ req[r].op = "confirmRead" /\ req'[r].op = "confirm"
        /\ req'[r].session = req[r].session /\ req'[r].found = req[r].found
        /\ req'[r].reloaded = req[r].reloaded
        /\ stripe[req[r].session] = "paid" => req'[r].status = "captured"
    BY <1>1, <1>3 DEF ConfirmFetch, TypeOK, Request
  <2>2. HandlerKnows'
    <3>1. Knows(r)
      BY DEF SInv, HandlerKnows
    <3> QED
      BY <1>1, <2>1, <3>1, <1>0, ThisKnows DEF Knows, Saves
  <2> QED
    BY <1>1, <2>2, QuietSerial
<1>4. CASE Reload(r)
  <2> DEFINE differing == {c \in Column : payment[c] # Entity(r)[c]}
  <2>1. /\ req'[r].op = req[r].op /\ req'[r].session = req[r].session /\ req'[r].found = req[r].found
        /\ req'[r].status = req[r].status /\ req'[r].event = req[r].event
        /\ req[r].op \notin {"idle", "confirmRead"} /\ req'[r].columns = differing
    BY <1>1, <1>4 DEF Reload, TypeOK, Request
  <2>2. "status" \in differing \/ payment.status = req[r].status
    BY <1>1 DEF TypeOK, Payment, Entity, Column
  <2> HIDE DEF differing
  <2>3. HandlerKnows'
    <3>1. Knows(r)
      BY DEF SInv, HandlerKnows
    <3> QED
      BY <1>1, <2>1, <2>2, <3>1, <1>0, ThisKnows DEF Knows, Saves, Created, PaidEvent
  <2> QED
    BY <1>1, <2>3, QuietSerial
<1> QED
  BY <1>2, <1>3, <1>4

LEMMA WorldSerial ==
  ASSUME IInv, SInv, Age \/ LessonCloses \/ ReuseCheckout \/ UNCHANGED vars
  PROVE  SInv'
<1>1. UNCHANGED <<payment, stripe, events, req>>
  BY DEF Age, LessonCloses, ReuseCheckout, vars, outside
<1>2. shown \subseteq shown' /\ shown' \subseteq shown \cup {payment.session, payment.url}
  BY DEF Age, LessonCloses, ReuseCheckout, vars
<1>3. HandlerKnows'
  BY <1>1, <1>2 DEF SInv, HandlerKnows, Knows, Saves, Created, PaidEvent, StripeStatus
<1> QED
  BY <1>1, <1>3, QuietSerial

LEMMA NextSerial ==
  ASSUME Alone, Alone', Delayed = {}, IInv, SInv, [Next]_vars
  PROVE  SInv'
<1>1. ASSUME NEW s \in Sessions, Pay(s) \/ Expire(s) PROVE SInv'
  <2>1. CASE Pay(s)
    <3>1. Settle(s, "open", "paid", "completed") /\ s \in shown
      BY <2>1 DEF Pay
    <3>2. \A r \in Requests : req[r].op = "checkout" => req[r].session # s
      BY <3>1 DEF SInv, HandlerKnows, Knows
    <3> QED
      BY <3>1, <3>2, SettleSerial
  <2>2. CASE Expire(s)
    <3>1. Settle(s, "open", "expired", "expired")
      BY <2>2 DEF Expire
    <3>2. stripe'[s] = "expired"
      BY <3>1 DEF Settle, IInv, TypeOK
    <3> QED
      BY <3>1, <3>2, SettleSerial
  <2> QED
    BY <1>1, <2>1, <2>2
<1>2. ASSUME NEW s \in Sessions, AsyncSucceed(s) \/ AsyncFail(s) PROVE FALSE
  BY <1>2 DEF AsyncSucceed, AsyncFail, Settle, SInv, SettledAtOnce
<1>3. ASSUME NEW r \in Requests, Start(r) \/ Continue(r) PROVE SInv'
  BY <1>3, StartSerial, SaveSerial, OtherSerial DEF Continue
<1> QED
  BY <1>1, <1>2, <1>3, WorldSerial DEF Next

\* When requests do not overlap, wherever they stop, and no payment settles later,
\* a learner who paid in the only session of the lesson has a captured payment
\* once Stripe has no event left.
THEOREM PaymentsAreCaptured ==
  ASSUME Delayed = {}
  PROVE  Spec /\ []Alone => []PaidIsCaptured
<1>1. Init => IInv /\ SInv
  <2> SUFFICES ASSUME Init PROVE SInv
    BY InitIInv
  <2>1. \A r \in Requests : req[r].op = "idle"
    BY DEF Init, Idle
  <2>2. HandlerKnows
    BY <2>1 DEF HandlerKnows, Knows
  <2> QED
    BY <2>2 DEF Init, SInv, NoneForgotten, SettledAtOnce, EventsSayAll
<1>2. Alone /\ Alone' /\ IInv /\ SInv /\ [Next]_vars => IInv' /\ SInv'
  BY NextIInv, NextSerial
<1>3. SInv => PaidIsCaptured
  BY DEF SInv, NoneForgotten, PaidIsCaptured, Quiet, OnlySession, PaidEvent
<1> QED
  BY <1>1, <1>2, <1>3, PTL DEF Spec
=============================================================================
