--------------------------- MODULE LessonPayment ---------------------------
(***************************************************************************)
(* How one lesson is paid: the lesson_payments row, the three handlers of  *)
(* InstructorsService a learner calls, the webhook Stripe calls, and as    *)
(* much of Stripe and of the learner as they need.                         *)
(*                                                                         *)
(* Every handler reads the row, waits for Stripe or not, and saves what it *)
(* made of it: no transaction, no lock, no version.  Where it found no row *)
(* the save is an INSERT, and UNIQUE (lesson_id) makes the second of two   *)
(* racing ones fail.  Where it found one, Repository.save reads the row    *)
(* again and then UPDATEs the columns in which the entity differs from     *)
(* this reload, and no other: two steps, so the columns of a row may come  *)
(* from two handlers.  Between its steps a handler is a record in req.     *)
(* Stripe keeps an event until the webhook answers it with success, and    *)
(* delivers events in any order.                                           *)
(***************************************************************************)
EXTENDS Naturals

CONSTANTS Sessions,   \* Stripe Checkout sessions for the lesson
          Delayed,    \* those paid by a method that settles later
          Requests,   \* HTTP requests that may be in flight together
          NoSession, NoEvent

ASSUME SessionsAssumption == Delayed \subseteq Sessions /\ NoSession \notin Sessions

VARIABLES
  payment,   \* the row: status ("none" before the insert), provider, session,
             \* and url, the session whose checkout page checkout_url opens
  old,       \* updated_at is longer ago than STRIPE_CHECKOUT_REUSE_WINDOW_MS
  payable,   \* the lesson is requested or accepted
  stripe,    \* what Stripe knows of each session
  bought,    \* the learner has bought the lesson in the App Store
  shown,     \* sessions the learner has been given the URL or the id of
  events,    \* events the webhook has not answered with success
  req        \* what each request in flight has read and means to write

vars == <<payment, old, payable, stripe, bought, shown, events, req>>
outside == <<payable, stripe, bought>>

PaymentStatus == {"none", "checkout_created", "pending", "captured", "failed", "cancelled"}
SessionOrNone == Sessions \cup {NoSession}
Payment == [status : PaymentStatus, provider : {"stripe", "apple_iap"},
            session : SessionOrNone, url : SessionOrNone]
Column == {"status", "provider", "session", "url"}

Event == [type : {"completed", "async_succeeded", "async_failed", "expired"},
          session : Sessions, paid : BOOLEAN]
ASSUME NoEventAssumption == NoEvent \notin Event

Request == [op : {"idle", "checkout", "confirmRead", "confirm", "apple", "webhook"},
            session : SessionOrNone, url : SessionOrNone, status : PaymentStatus,
            found : BOOLEAN, reloaded : BOOLEAN, columns : SUBSET Column,
            event : Event \cup {NoEvent}]
Idle == [op |-> "idle", session |-> NoSession, url |-> NoSession, status |-> "none",
         found |-> FALSE, reloaded |-> FALSE, columns |-> {}, event |-> NoEvent]

TypeOK ==
  /\ payment \in Payment
  /\ old \in BOOLEAN /\ payable \in BOOLEAN /\ bought \in BOOLEAN
  /\ stripe \in [Sessions -> {"none", "open", "processing", "paid", "failed", "expired"}]
  /\ shown \subseteq Sessions
  /\ events \subseteq Event
  /\ req \in [Requests -> Request]

Init ==
  /\ payment = [status |-> "none", provider |-> "stripe", session |-> NoSession, url |-> NoSession]
  /\ old = FALSE
  /\ payable = TRUE
  /\ bought = FALSE
  /\ stripe = [s \in Sessions |-> "none"]
  /\ shown = {}
  /\ events = {}
  /\ req = [r \in Requests |-> Idle]

-----------------------------------------------------------------------------
(* Stripe, the learner at Stripe, the clock and the lesson.                  *)

Created(s) == stripe[s] # "none"

\* Stripe moves session s and queues the event that tells of it.
Settle(s, from, to, type) ==
  /\ stripe[s] = from
  /\ stripe' = [stripe EXCEPT ![s] = to]
  /\ events' = events \cup {[type |-> type, session |-> s, paid |-> to = "paid"]}
  /\ UNCHANGED <<payment, old, payable, bought, shown, req>>

Pay(s) ==
  /\ s \in shown
  /\ Settle(s, "open", IF s \in Delayed THEN "processing" ELSE "paid", "completed")
AsyncSucceed(s) == Settle(s, "processing", "paid", "async_succeeded")
AsyncFail(s) == Settle(s, "processing", "failed", "async_failed")

\* A session expires after 24 hours, or when its owner asks Stripe to end it.
Expire(s) == Settle(s, "open", "expired", "expired")

Age ==
  /\ payment.status # "none" /\ ~old
  /\ old' = TRUE
  /\ UNCHANGED <<payment, outside, shown, events, req>>

LessonCloses ==
  /\ payable
  /\ payable' = FALSE
  /\ UNCHANGED <<payment, old, stripe, bought, shown, events, req>>

-----------------------------------------------------------------------------
(* The handlers.                                                             *)

Begin(r, op, s, url, status, e) ==
  /\ req[r].op = "idle"
  /\ req' = [req EXCEPT ![r] =
       [op |-> op, session |-> s, url |-> url, status |-> status,
        found |-> payment.status # "none", reloaded |-> FALSE, columns |-> {}, event |-> e]]
End(r) == req' = [req EXCEPT ![r] = Idle]

\* The entity a handler saves.
Entity(r) ==
  [status |-> req[r].status, provider |-> IF req[r].op = "apple" THEN "apple_iap" ELSE "stripe",
   session |-> req[r].session, url |-> req[r].url]

\* The first statement of a save of a row that exists: which columns differ.
Reload(r) ==
  /\ req[r].op \in {"checkout", "confirm", "apple", "webhook"}
  /\ req[r].found /\ ~req[r].reloaded
  /\ req' = [req EXCEPT ![r].reloaded = TRUE,
                        ![r].columns = {c \in Column : payment[c] # Entity(r)[c]}]
  /\ UNCHANGED <<payment, old, outside, shown, events>>

\* The second: an UPDATE of those columns.  A row that did not exist takes one
\* statement, an INSERT that meets UNIQUE (lesson_id).
Saves(r) == req[r].found \/ payment.status = "none"
Updated(r) ==
  [status |-> IF "status" \in req[r].columns THEN Entity(r).status ELSE payment.status,
   provider |-> IF "provider" \in req[r].columns THEN Entity(r).provider ELSE payment.provider,
   session |-> IF "session" \in req[r].columns THEN Entity(r).session ELSE payment.session,
   url |-> IF "url" \in req[r].columns THEN Entity(r).url ELSE payment.url]
Write(r) ==
  /\ req[r].found => req[r].reloaded
  /\ payment' = IF ~Saves(r) THEN payment
                ELSE IF req[r].found THEN Updated(r) ELSE Entity(r)
  /\ old' \in {FALSE} \cup {o \in {old} : ~Saves(r) \/ (req[r].found /\ req[r].columns = {})}

Reusable ==
  /\ payment.provider = "stripe" /\ payment.status = "checkout_created"
  /\ payment.session # NoSession /\ payment.url # NoSession /\ ~old

\* A captured payment or a session that is still good: the learner gets what is stored.
ReuseCheckout ==
  /\ payable /\ (payment.status = "captured" \/ Reusable)
  /\ shown' = shown \cup ({payment.session, payment.url} \ {NoSession})
  /\ UNCHANGED <<payment, old, outside, events, req>>

\* createLessonStripeCheckout up to the answer of POST /checkout/sessions.
CheckoutPost(r, s) ==
  /\ payable /\ payment.status # "captured" /\ ~Reusable
  /\ ~Created(s)
  /\ stripe' = [stripe EXCEPT ![s] = "open"]
  /\ Begin(r, "checkout", s, s, "checkout_created", NoEvent)
  /\ UNCHANGED <<payment, old, payable, bought, shown, events>>

\* ... and from there on; the answer with the URL may be lost on its way.
CheckoutSave(r) ==
  /\ req[r].op = "checkout"
  /\ Write(r)
  /\ \/ UNCHANGED shown
     \/ Saves(r) /\ shown' = shown \cup {req[r].session}
  /\ End(r)
  /\ UNCHANGED <<outside, events>>

\* confirmLessonStripePayment reads the row, asks Stripe, saves.  Stripe gives the
\* URL of a session only while it is open.
ConfirmRead(r, s) ==
  /\ s \in shown
  /\ ~(payment.provider = "stripe" /\ payment.session \notin {s, NoSession})
  /\ Begin(r, "confirmRead", s, NoSession, "none", NoEvent)
  /\ UNCHANGED <<payment, old, outside, shown, events>>

ConfirmFetch(r) ==
  /\ req[r].op = "confirmRead"
  /\ LET s == req[r].session IN
     req' = [req EXCEPT ![r].op = "confirm",
                        ![r].url = IF stripe[s] = "open" THEN s ELSE NoSession,
                        ![r].status = IF stripe[s] = "paid" THEN "captured" ELSE "pending"]
  /\ UNCHANGED <<payment, old, outside, shown, events>>

ConfirmSave(r) ==
  /\ req[r].op = "confirm"
  /\ Write(r)
  /\ End(r)
  /\ UNCHANGED <<outside, shown, events>>

\* activateLessonApplePayment, called after a purchase in the App Store.
AppleRead(r) ==
  /\ ~(payment.provider = "stripe" /\ payment.status = "captured")
  /\ bought' = TRUE
  /\ Begin(r, "apple", NoSession, NoSession, "captured", NoEvent)
  /\ UNCHANGED <<payment, old, payable, stripe, shown, events>>

AppleSave(r) ==
  /\ req[r].op = "apple"
  /\ Write(r)
  /\ End(r)
  /\ UNCHANGED <<outside, shown, events>>

\* (Mutants: Stripe's word for it is stored; every session that completes counts
\* as paid; only a late payment does.)
StripesWord(e) == e.type
CompletedIsPaid(e) ==
  IF e.type \in {"completed", "async_succeeded"} THEN "captured"
  ELSE IF e.type = "expired" THEN "cancelled" ELSE "failed"
LateIsPaid(e) ==
  IF e.paid /\ e.type = "async_succeeded" THEN "captured"
  ELSE IF e.type = "expired" THEN "cancelled"
  ELSE IF e.type = "async_failed" THEN "failed" ELSE "pending"

\* stripeLessonPaymentStatus.
StripeStatus(e) ==
  IF e.type \in {"completed", "async_succeeded"}
  THEN IF e.paid THEN "captured" ELSE "pending"
  ELSE IF e.type = "expired" THEN "cancelled" ELSE "failed"

\* (Mutant: the webhook is answered before the row is saved.)
WebhookAnswer(r, e) ==
  /\ e \in events
  /\ Begin(r, "webhook", e.session, NoSession, StripeStatus(e), e)
  /\ events' = events \ {e}
  /\ UNCHANGED <<payment, old, outside, shown>>

\* handleStripeCheckoutSession: the row of the session or else of the lesson,
\* which here is one row.
WebhookRead(r, e) ==
  /\ e \in events
  /\ Begin(r, "webhook", e.session, NoSession, StripeStatus(e), e)
  /\ UNCHANGED <<payment, old, outside, shown, events>>

\* A failed save answers with an error, and a success may be lost on its way:
\* in both cases Stripe delivers the event again.
WebhookSave(r) ==
  /\ req[r].op = "webhook"
  /\ Write(r)
  /\ \/ UNCHANGED events
     \/ Saves(r) /\ events' = events \ {req[r].event}
  /\ End(r)
  /\ UNCHANGED <<outside, shown>>

Crash(r) ==
  /\ req[r].op # "idle"
  /\ End(r)
  /\ UNCHANGED <<payment, old, outside, shown, events>>

-----------------------------------------------------------------------------
Start(r) ==
  \/ \E s \in Sessions : CheckoutPost(r, s) \/ ConfirmRead(r, s)
  \/ AppleRead(r)
  \/ \E e \in events : WebhookRead(r, e)

\* What a handler in flight does next.
Continue(r) ==
  \/ Reload(r)
  \/ CheckoutSave(r) \/ ConfirmFetch(r) \/ ConfirmSave(r)
  \/ AppleSave(r) \/ WebhookSave(r)
  \/ Crash(r)

Next ==
  \/ \E s \in Sessions : Pay(s) \/ AsyncSucceed(s) \/ AsyncFail(s) \/ Expire(s)
  \/ Age
  \/ LessonCloses
  \/ ReuseCheckout
  \/ \E r \in Requests : Start(r) \/ Continue(r)

Spec == Init /\ [][Next]_vars

-----------------------------------------------------------------------------
(* What holds however requests and events interleave.                        *)

\* No column of the row tells of what has not happened: a lesson is captured only
\* when Stripe has the money of one of its sessions or the learner has bought it
\* in the App Store, failed and cancelled mean that a payment failed and that a
\* session expired, and provider and session name a purchase and a session there
\* are.  Four handlers write the row from what they read earlier, UPDATEs change
\* only some of its columns, and events arrive in any order, more than once.  It
\* is of *a* session of the lesson: of two, the row may name the one that was not
\* paid (the UPDATE of a webhook that lands on the row a checkout has replaced
\* since the reload writes its status alone).
RecordsWhatHappened ==
  /\ payment.status = "captured" => bought \/ \E s \in Sessions : stripe[s] = "paid"
  /\ payment.status = "failed" => \E s \in Sessions : stripe[s] = "failed"
  /\ payment.status = "cancelled" => \E s \in Sessions : stripe[s] = "expired"
  /\ payment.provider = "apple_iap" => bought
  /\ payment.session # NoSession => Created(payment.session)
  /\ payment.url # NoSession => Created(payment.url)

-----------------------------------------------------------------------------
(* What holds when requests run one after the other.                         *)

\* Once a learner has paid in the only session of the lesson and Stripe has no
\* event left to deliver, the row is captured, whichever handlers were called
\* in between and wherever they died.
Quiet == events = {} /\ \A r \in Requests : req[r].op = "idle"
PaidIsCaptured ==
  \A s \in Sessions :
    Quiet /\ stripe[s] = "paid" /\ (\A t \in Sessions : Created(t) => t = s)
      => payment.status = "captured"

-----------------------------------------------------------------------------
(* What the code says and concurrent requests refute.                        *)

\* "Stripe payment already captured for this lesson": an Apple purchase never
\* takes the place of a captured Stripe payment.
AppleNeverReplacesStripe ==
  [][payment.provider = "stripe" /\ payment.status = "captured"
       => payment'.provider # "apple_iap"]_vars

-----------------------------------------------------------------------------
(* Liveness.  A handler in flight goes on or dies; Stripe delivers an event   *)
(* until it is answered with success, and not every delivery of it fails.     *)

TellsOfPayment(e, s) == e.session = s /\ e.paid
Deliver(s) == \E r \in Requests, e \in events : TellsOfPayment(e, s) /\ WebhookRead(r, e)
InDelivery(r, s) == req[r].op = "webhook" /\ TellsOfPayment(req[r].event, s)
Reloads(s) == \E r \in Requests : InDelivery(r, s) /\ Reload(r)
Record(s) == \E r \in Requests : InDelivery(r, s) /\ WebhookSave(r)

Fairness ==
  /\ \A r \in Requests : WF_vars(Continue(r))
  /\ \A s \in Sessions : SF_vars(Deliver(s)) /\ SF_vars(Reloads(s)) /\ SF_vars(Record(s))
FairSpec == Spec /\ Fairness

\* A payment in the only session of the lesson is captured in the end, though
\* the learner never comes back and deliveries fail.
PaidLeadsToCaptured ==
  \A s \in Sessions :
    stripe[s] = "paid" /\ (\A t \in Sessions : Created(t) => t = s)
      ~> payment.status = "captured" \/ \E t \in Sessions : Created(t) /\ t # s
=============================================================================
