---------------------------- MODULE CentreAccess ----------------------------
(***************************************************************************)
(* What one learner may practise: appAccessState, hasAccess and            *)
(* selectCentreForPractice of EntitlementsService, with the lists of       *)
(* AccessOverridesService and of the environment that they apply first.    *)
(*                                                                         *)
(* A GLOBAL entitlement opens all test centres; a CENTRE entitlement one.  *)
(* It comes with a purchase, or was selected under a GLOBAL one and ends   *)
(* with it.  Nothing runs in a transaction.  How a purchase is handled is  *)
(* the subject of PracticePurchase: here it is the row it leaves.          *)
(***************************************************************************)
EXTENDS Naturals, FiniteSets

CONSTANTS Centres,
          Horizon,  \* bound on the clock
          Calls     \* requests of the learner

ASSUME HorizonAssumption == Horizon \in Nat

VARIABLES
  globals,  \* the ends of the GLOBAL entitlements; nothing deactivates one
  centred,  \* the active CENTRE entitlements
  now,
  lists,    \* the lists the learner is on
  calls,    \* what a request has read and does next
  owned,    \* auxiliary: centres that were bought and not cancelled
  raced     \* auxiliary: two selections overlapped

accessVars == <<globals, centred, now, lists, calls, owned, raced>>

Never == Horizon + 1  \* ends_at is NULL
Ends == 0 .. Never
Row == [centre : Centres, end : Ends, source : {"selection", "purchase"}]
Lists == {"privileged", "whitelist"}
Call == [at : {"idle", "override", "grant", "list", "admit", "choose", "clear", "insert"},
         centre : Centres \cup {"any"}, end : Ends]
NoCall == [at |-> "idle", centre |-> "any", end |-> 0]

AccessTypeOK ==
  /\ globals \subseteq Ends /\ centred \subseteq Row /\ owned \subseteq Row
  /\ now \in 0 .. Horizon /\ lists \subseteq Lists
  /\ calls \in [Calls -> Call] /\ raced \in BOOLEAN

AccessInit ==
  /\ globals = {} /\ centred = {} /\ now = 0 /\ lists \in SUBSET Lists
  /\ calls = [c \in Calls |-> NoCall] /\ owned = {} /\ raced = FALSE

-----------------------------------------------------------------------------
LiveGlobals == {end \in globals : end > now}
Live(rows) == {row \in rows : row.end > now}

\* hasAccess, when entitlements are enforced.
HasAccess(centre) == LiveGlobals # {} \/ \E row \in Live(centred) : row.centre = centre

(* Purchases.                                                                *)

\* A product for all centres, which only the store reports.
BuyAll(end) ==
  /\ end > now
  /\ globals' = globals \cup {end}
  /\ UNCHANGED <<centred, now, lists, calls, owned, raced>>

\* From the store, the app, a bundle or a reward.
BuyCentre(centre, end) ==
  /\ end > now
  /\ LET row == [centre |-> centre, end |-> end, source |-> "purchase"]
     IN  centred' = centred \cup {row} /\ owned' = owned \cup {row}
  /\ UNCHANGED <<globals, now, lists, calls, raced>>

\* cancelMonthlySubscription ends what some purchases brought.
CancelBought ==
  \E some \in SUBSET {row \in centred : row.source = "purchase"} :
    /\ some # {}
    /\ centred' = centred \ some
    /\ owned' = owned \ some
    /\ UNCHANGED <<globals, now, lists, calls, raced>>

-----------------------------------------------------------------------------
(* Requests.                                                                 *)

CallTo(c, step, next) == calls[c].at = step /\ calls' = [calls EXCEPT ![c] = next]
CallAt(c, step, next) == CallTo(c, step, [calls[c] EXCEPT !.at = next])
CallEnds(c, step) == CallTo(c, step, NoCall)
Selecting == {c \in Calls : calls[c].at # "idle" /\ calls[c].centre # "any"}

\* A request that selects a centre, or one that only asks.
CallBegin(c, centre) ==
  /\ CallTo(c, "idle", [NoCall EXCEPT !.at = "override", !.centre = centre])
  /\ raced' = (raced \/ (centre # "any" /\ Selecting # {}))
  /\ UNCHANGED <<globals, centred, now, lists, owned>>

OverrideRead(c) ==
  /\ CallAt(c, "override", IF "privileged" \in lists /\ LiveGlobals = {} THEN "grant" ELSE "list")
  /\ UNCHANGED <<globals, centred, now, lists, owned, raced>>

\* ensureWhitelist also counts a GLOBAL entitlement that has ended.
WhitelistRead(c) ==
  /\ \/ CallAt(c, "list", "admit") /\ "whitelist" \in lists /\ globals = {}
     \/ CallAt(c, "list", "choose") /\ ~("whitelist" \in lists /\ globals = {})
  /\ UNCHANGED <<globals, centred, now, lists, owned, raced>>

GrantAll(c) ==
  /\ CallAt(c, "grant", "list") \/ CallAt(c, "admit", "choose")
  /\ globals' = globals \cup {Never}
  /\ UNCHANGED <<centred, now, lists, owned, raced>>

\* The question is answered, or there is nothing to select under.
CallAnswer(c) ==
  /\ CallEnds(c, "choose")
  /\ calls[c].centre = "any" \/ LiveGlobals = {}
  /\ UNCHANGED <<globals, centred, now, lists, owned, raced>>

\* The GLOBAL entitlement that ends last.
SelectRead(c) ==
  /\ calls[c].centre # "any"
  /\ \E end \in LiveGlobals :
       /\ \A other \in LiveGlobals : other <= end
       /\ CallTo(c, "choose", [calls[c] EXCEPT !.at = "clear", !.end = end])
  /\ UNCHANGED <<globals, centred, now, lists, owned, raced>>

\* (Mutant: every CENTRE entitlement is deactivated.)
SelectClearAll(c) ==
  /\ CallAt(c, "clear", "insert")
  /\ centred' = {}
  /\ UNCHANGED <<globals, now, lists, owned, raced>>

SelectClear(c) ==
  /\ CallAt(c, "clear", "insert")
  /\ centred' = {row \in centred : row.source # "selection"}
  /\ UNCHANGED <<globals, now, lists, owned, raced>>

SelectInsert(c) ==
  /\ CallEnds(c, "insert")
  /\ centred' = centred \cup
       {[centre |-> calls[c].centre, end |-> calls[c].end, source |-> "selection"]}
  /\ UNCHANGED <<globals, now, lists, owned, raced>>

CallFails(c) ==
  /\ calls[c].at # "idle"
  /\ calls' = [calls EXCEPT ![c] = NoCall]
  /\ UNCHANGED <<globals, centred, now, lists, owned, raced>>

ClockTicks ==
  /\ now < Horizon /\ now' = now + 1
  /\ UNCHANGED <<globals, centred, lists, calls, owned, raced>>

\* The process is started with other lists.
ListsChange ==
  /\ lists' \in (SUBSET Lists) \ {lists}
  /\ calls' = [c \in Calls |-> NoCall]
  /\ UNCHANGED <<globals, centred, now, owned, raced>>

AccessNext ==
  \/ \E end \in Ends :
       \/ BuyAll(end)
       \/ \E centre \in Centres : BuyCentre(centre, end)
  \/ CancelBought
  \/ \E c \in Calls :
       \/ \E centre \in Centres \cup {"any"} : CallBegin(c, centre)
       \/ OverrideRead(c) \/ WhitelistRead(c) \/ GrantAll(c) \/ CallAnswer(c)
       \/ SelectRead(c) \/ SelectClear(c) \/ SelectInsert(c) \/ CallFails(c)
  \/ ClockTicks \/ ListsChange

AccessSpec == AccessInit /\ [][AccessNext]_accessVars

-----------------------------------------------------------------------------
\* However requests overlap and fail, a centre is open only while it is paid
\* for or all are: a selection never outlasts what it was made under, though
\* purchases end and lists change; and a centre that is paid for is open.
\* While selections do not overlap, the learner has one at most.
AccessIsPaidFor ==
  /\ \A centre \in Centres :
       HasAccess(centre) <=> LiveGlobals # {} \/ \E row \in Live(owned) : row.centre = centre
  /\ ~raced => Cardinality({row \in centred : row.source = "selection"}) <= 1
=============================================================================
