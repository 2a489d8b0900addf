--------------------------- MODULE ServicesProofs ---------------------------
(***************************************************************************)
(* Proofs about the services a learner is on the way with: CentreAccess,   *)
(* for any centres, clock and requests; PracticeSessions, for any sessions *)
(* and requests to finish; ParkingRules, for any rules and any length of   *)
(* the day; ParkingAtlas, for any sources and requests; LruTtlCache, for   *)
(* any keys, size and age; and the services of MCServices together.        *)
(***************************************************************************)
EXTENDS MCServices, PoolProofs, InstructorProofs, FiniteSetTheorems, SequenceTheorems, TLAPS

-----------------------------------------------------------------------------
(* CentreAccess.                                                             *)

Selections == {row \in centred : row.source = "selection"}

\* A selection ends with an entitlement to all centres that there is; what else
\* is active was bought.
PaidFor ==
  /\ owned = {row \in centred : row.source = "purchase"}
  /\ \A row \in Selections : \E end \in globals : row.end <= end
  /\ \A c \in Calls : calls[c].at \in {"clear", "insert"} =>
       calls[c].centre # "any" /\ \E end \in globals : calls[c].end <= end

\* Selections that did not overlap: the one that inserts has cleared the others.
OneSelects ==
  /\ \A c, d \in Selecting : c = d
  /\ \A one, two \in Selections : one = two
  /\ \A c \in Calls : calls[c].at = "insert" => Selections = {}

AccessInv == AccessTypeOK /\ PaidFor /\ (~raced => OneSelects)

LEMMA NoCallType == NoCall \in Call /\ NoCall.at = "idle" /\ NoCall.centre = "any"
BY HorizonAssumption DEF NoCall, Call, Ends, Never

LEMMA AccessInvFirst == AccessInit => AccessInv
<1> SUFFICES ASSUME AccessInit PROVE AccessInv
  OBVIOUS
<1>1. AccessTypeOK
  <2>1. now \in 0 .. Horizon
    BY HorizonAssumption DEF AccessInit
  <2> QED
    BY <2>1, NoCallType DEF AccessInit, AccessTypeOK
<1>2. Selections = {} /\ Selecting = {} /\ \A c \in Calls : calls[c].at = "idle"
  BY NoCallType DEF AccessInit, Selections, Selecting
<1> QED
  BY <1>1, <1>2 DEF AccessInit, AccessInv, PaidFor, OneSelects

\* What a step of a request does to it, and that it leaves the others alone.
LEMMA CallMoves ==
  ASSUME AccessTypeOK, NEW c \in Calls, NEW step, NEW next \in Call, CallTo(c, step, next)
  PROVE  /\ calls' \in [Calls -> Call] /\ calls[c].at = step /\ calls'[c] = next
         /\ \A d \in Calls \ {c} : calls'[d] = calls[d]
BY DEF CallTo, AccessTypeOK

LEMMA CallGoes ==
  ASSUME AccessTypeOK, NEW c \in Calls, NEW step,
         NEW next \in {"list", "grant", "admit", "choose", "clear", "insert"}, CallAt(c, step, next)
  PROVE  /\ calls' \in [Calls -> Call] /\ calls[c].at = step /\ calls'[c].at = next
         /\ calls'[c].centre = calls[c].centre /\ calls'[c].end = calls[c].end
         /\ \A d \in Calls \ {c} : calls'[d] = calls[d]
<1>1. [calls[c] EXCEPT !.at = next] \in Call
  BY DEF AccessTypeOK, Call
<1>2. /\ [calls[c] EXCEPT !.at = next].centre = calls[c].centre
      /\ [calls[c] EXCEPT !.at = next].end = calls[c].end
      /\ [calls[c] EXCEPT !.at = next].at = next
  BY DEF AccessTypeOK, Call
<1> QED
  BY <1>1, <1>2, CallMoves DEF CallAt

\* Requests that neither select nor insert anything they did not before.
LEMMA RequestsOnly ==
  ASSUME PaidFor, ~raced => OneSelects, globals \subseteq globals', raced' = raced,
         UNCHANGED <<centred, owned>>,
         \A d \in Calls : \/ calls'[d] = calls[d]
                          \/ /\ calls'[d].at \notin {"clear", "insert"}
                             /\ calls'[d].at = "idle" \/ calls'[d].centre = calls[d].centre
                             /\ calls[d].at = "idle" => calls'[d].at = "idle" \/ calls'[d].centre = "any"
  PROVE  PaidFor' /\ (~raced' => OneSelects')
<1>1. Selecting' \subseteq Selecting
  BY DEF Selecting
<1>2. Selections' = Selections
  BY DEF Selections
<1> QED
  BY <1>1, <1>2 DEF PaidFor, OneSelects

LEMMA PurchasesKeepAccess ==
  ASSUME AccessInv,
         \/ \E end \in Ends : BuyAll(end) \/ \E centre \in Centres : BuyCentre(centre, end)
         \/ CancelBought
  PROVE  AccessInv'
<1> USE DEF AccessInv
<1>1. ASSUME NEW end \in Ends, BuyAll(end) PROVE AccessInv'
  <2>1. AccessTypeOK'
    BY <1>1 DEF BuyAll, AccessTypeOK
  <2> QED
    BY <1>1, <2>1, RequestsOnly DEF BuyAll
<1>2. ASSUME NEW end \in Ends, NEW centre \in Centres, BuyCentre(centre, end) PROVE AccessInv'
  <2> DEFINE row == [centre |-> centre, end |-> end, source |-> "purchase"]
  <2>1. row \in Row /\ row.source = "purchase"
    BY DEF Row
  <2>2. centred' = centred \cup {row} /\ owned' = owned \cup {row}
    BY <1>2 DEF BuyCentre
  <2>3. UNCHANGED <<globals, now, lists, calls, raced>>
    BY <1>2 DEF BuyCentre
  <2> HIDE DEF row
  <2>4. Selections' = Selections /\ owned' = {r \in centred' : r.source = "purchase"}
    BY <2>1, <2>2 DEF Selections, PaidFor
  <2> QED
    BY <2>1, <2>2, <2>3, <2>4 DEF AccessTypeOK, PaidFor, OneSelects, Selecting
<1>3. CASE CancelBought
  <2> PICK some \in SUBSET {row \in centred : row.source = "purchase"} :
             /\ centred' = centred \ some /\ owned' = owned \ some
             /\ UNCHANGED <<globals, now, lists, calls, raced>>
    BY <1>3 DEF CancelBought
  <2>1. Selections' = Selections /\ owned' = {row \in centred' : row.source = "purchase"}
    BY DEF Selections, PaidFor
  <2> QED
    BY <2>1 DEF AccessTypeOK, PaidFor, OneSelects, Selecting
<1> QED
  BY <1>1, <1>2, <1>3

LEMMA CallsKeepAccess ==
  ASSUME AccessInv, NEW c \in Calls,
         \/ \E centre \in Centres \cup {"any"} : CallBegin(c, centre)
         \/ OverrideRead(c) \/ WhitelistRead(c) \/ GrantAll(c) \/ CallAnswer(c)
         \/ SelectRead(c) \/ SelectClear(c) \/ SelectInsert(c) \/ CallFails(c)
  PROVE  AccessInv'
<1> USE DEF AccessInv
<1>0. calls[c] \in Call
  BY DEF AccessTypeOK
<1>1. ASSUME NEW centre \in Centres \cup {"any"}, CallBegin(c, centre) PROVE AccessInv'
  <2> DEFINE next == [NoCall EXCEPT !.at = "override", !.centre = centre]
  <2>1. next \in Call /\ next.at = "override" /\ next.centre = centre
    BY NoCallType DEF Call, NoCall
  <2> HIDE DEF next
  <2>2. /\ calls' \in [Calls -> Call] /\ calls[c].at = "idle" /\ calls'[c] = next
        /\ \A d \in Calls \ {c} : calls'[d] = calls[d]
    BY <1>1, <2>1, CallMoves DEF CallBegin, next
  <2>3. /\ UNCHANGED <<globals, centred, now, lists, owned>>
        /\ raced' = (raced \/ (centre # "any" /\ Selecting # {}))
    BY <1>1 DEF CallBegin
  <2>4. AccessTypeOK' /\ PaidFor'
    BY <2>1, <2>2, <2>3 DEF AccessTypeOK, PaidFor, Selections
  <2>5. ASSUME ~raced' PROVE OneSelects'
    <3>1. ~raced /\ (centre = "any" \/ Selecting = {})
      BY <2>3, <2>5 DEF AccessTypeOK
    <3>2. Selecting' \subseteq Selecting \cup {c} /\ (centre = "any" => Selecting' \subseteq Selecting)
      BY <2>1, <2>2 DEF Selecting
    <3> QED
      BY <2>1, <2>2, <2>3, <3>1, <3>2 DEF OneSelects, Selections
  <2> QED
    BY <2>4, <2>5
<1>2. CASE OverrideRead(c) \/ WhitelistRead(c) \/ GrantAll(c)
  <2>1. /\ calls' \in [Calls -> Call] /\ calls[c].at \in {"override", "list", "grant", "admit"}
        /\ calls'[c].at \in {"list", "grant", "admit", "choose"}
        /\ calls'[c].centre = calls[c].centre
        /\ \A d \in Calls \ {c} : calls'[d] = calls[d]
    BY <1>2, CallGoes DEF OverrideRead, WhitelistRead, GrantAll
  <2>2. /\ UNCHANGED <<centred, now, lists, owned, raced>>
        /\ globals' \in {globals, globals \cup {Never}}
    BY <1>2 DEF OverrideRead, WhitelistRead, GrantAll
  <2>3. Never \in Ends
    BY HorizonAssumption DEF Never, Ends
  <2>4. AccessTypeOK'
    BY <2>1, <2>2, <2>3 DEF AccessTypeOK
  <2> QED
    BY <2>1, <2>2, <2>4, RequestsOnly
<1>3. CASE CallAnswer(c) \/ CallFails(c)
  <2>1. /\ calls' \in [Calls -> Call] /\ calls'[c] = NoCall
        /\ \A d \in Calls \ {c} : calls'[d] = calls[d]
        /\ UNCHANGED <<globals, centred, now, lists, owned, raced>>
    BY <1>3, NoCallType, CallMoves DEF CallAnswer, CallFails, CallEnds, AccessTypeOK
  <2>2. AccessTypeOK'
    BY <2>1 DEF AccessTypeOK
  <2> QED
    BY <2>1, <2>2, NoCallType, RequestsOnly
<1>4. CASE SelectRead(c)
  <2> PICK end \in LiveGlobals : CallTo(c, "choose", [calls[c] EXCEPT !.at = "clear", !.end = end])
    BY <1>4 DEF SelectRead
  <2> DEFINE next == [calls[c] EXCEPT !.at = "clear", !.end = end]
  <2>1. end \in globals /\ end \in Ends
    BY DEF LiveGlobals, AccessTypeOK
  <2>2. next \in Call /\ next.at = "clear" /\ next.end = end /\ next.centre = calls[c].centre
    BY <1>0, <2>1 DEF Call
  <2> HIDE DEF next
  <2>3. /\ calls' \in [Calls -> Call] /\ calls[c].at = "choose" /\ calls'[c] = next
        /\ \A d \in Calls \ {c} : calls'[d] = calls[d]
    BY <2>2, CallMoves DEF next
  <2>4. calls[c].centre # "any" /\ UNCHANGED <<globals, centred, now, lists, owned, raced>>
    BY <1>4 DEF SelectRead
  <2>5. AccessTypeOK'
    BY <2>3, <2>4 DEF AccessTypeOK
  <2>6. PaidFor'
    <3>1. end <= end
      BY <2>1, HorizonAssumption DEF Ends, Never
    <3> QED
      BY <2>1, <2>2, <2>3, <2>4, <3>1 DEF PaidFor, Selections
  <2>7. Selecting' = Selecting /\ Selections' = Selections
    BY <2>2, <2>3, <2>4 DEF Selecting, Selections
  <2> QED
    BY <2>2, <2>3, <2>4, <2>5, <2>6, <2>7 DEF OneSelects
<1>5. CASE SelectClear(c)
  <2>1. /\ calls' \in [Calls -> Call] /\ calls[c].at = "clear" /\ calls'[c].at = "insert"
        /\ calls'[c].centre = calls[c].centre /\ calls'[c].end = calls[c].end
        /\ \A d \in Calls \ {c} : calls'[d] = calls[d]
    BY <1>5, CallGoes DEF SelectClear
  <2>2. /\ centred' = {row \in centred : row.source # "selection"}
        /\ UNCHANGED <<globals, now, lists, owned, raced>>
    BY <1>5 DEF SelectClear
  <2>3. Selections' = {} /\ Selecting' = Selecting
    BY <2>1, <2>2 DEF Selections, Selecting
  <2>4. AccessTypeOK'
    BY <2>1, <2>2 DEF AccessTypeOK
  <2>5. PaidFor'
    BY <2>1, <2>2, <2>3 DEF PaidFor
  <2> QED
    BY <2>2, <2>3, <2>4, <2>5 DEF OneSelects
<1>6. CASE SelectInsert(c)
  <2> DEFINE row == [centre |-> calls[c].centre, end |-> calls[c].end, source |-> "selection"]
  <2>1. /\ calls' \in [Calls -> Call] /\ calls[c].at = "insert" /\ calls'[c] = NoCall
        /\ \A d \in Calls \ {c} : calls'[d] = calls[d]
    BY <1>6, NoCallType, CallMoves DEF SelectInsert, CallEnds
  <2>2. centred' = centred \cup {row} /\ UNCHANGED <<globals, now, lists, owned, raced>>
    BY <1>6 DEF SelectInsert
  <2>3. /\ row \in Row /\ row.source = "selection"
        /\ \E end \in globals : row.end <= end
    BY <1>0, <2>1 DEF PaidFor, Row, Call
  <2> HIDE DEF row
  <2>4. AccessTypeOK'
    BY <2>1, <2>2, <2>3 DEF AccessTypeOK
  <2>5. Selections' = Selections \cup {row}
    BY <2>2, <2>3 DEF Selections
  <2>6. PaidFor'
    BY <2>1, <2>2, <2>3, <2>5, NoCallType DEF PaidFor
  <2>7. ASSUME ~raced' PROVE OneSelects'
    <3>1. OneSelects /\ c \in Selecting
      BY <2>1, <2>2, <2>7 DEF Selecting, PaidFor
    <3>2. Selecting' = {}
      BY <2>1, <3>1, NoCallType DEF OneSelects, Selecting
    <3>3. \A d \in Calls : calls'[d].at # "insert"
      BY <2>1, <3>1, NoCallType DEF OneSelects, Selecting, PaidFor
    <3> QED
      BY <2>1, <2>5, <3>1, <3>2, <3>3 DEF OneSelects
  <2> QED
    BY <2>4, <2>6, <2>7
<1> QED
  BY <1>1, <1>2, <1>3, <1>4, <1>5, <1>6

LEMMA AccessInvKept == AccessInv /\ [AccessNext]_accessVars => AccessInv'
<1> SUFFICES ASSUME AccessInv, [AccessNext]_accessVars PROVE AccessInv'
  OBVIOUS
<1>1. CASE ClockTicks
  <2>1. AccessTypeOK'
    BY <1>1, HorizonAssumption DEF ClockTicks, AccessInv, AccessTypeOK
  <2> QED
    BY <1>1, <2>1, RequestsOnly DEF ClockTicks, AccessInv
<1>2. CASE ListsChange
  <2>1. AccessTypeOK'
    BY <1>2, NoCallType DEF ListsChange, AccessInv, AccessTypeOK
  <2> QED
    BY <1>2, <2>1, RequestsOnly, NoCallType DEF ListsChange, AccessInv
<1>3. CASE UNCHANGED accessVars
  BY <1>3 DEF accessVars, AccessInv, AccessTypeOK, PaidFor, OneSelects, Selections, Selecting
<1> QED
  BY <1>1, <1>2, <1>3, PurchasesKeepAccess, CallsKeepAccess DEF AccessNext

LEMMA AccessInvAlways == AccessSpec => []AccessInv
BY AccessInvFirst, AccessInvKept, PTL DEF AccessSpec

LEMMA AccessInvIsEnough == AccessInv => AccessIsPaidFor
<1> SUFFICES ASSUME AccessInv PROVE AccessIsPaidFor
  OBVIOUS
<1> USE DEF AccessInv
<1>1. ASSUME NEW centre \in Centres
      PROVE  HasAccess(centre) <=> LiveGlobals # {} \/ \E row \in Live(owned) : row.centre = centre
  <2>1. ASSUME NEW row \in Live(centred), row \notin owned PROVE LiveGlobals # {}
    <3>1. row \in Selections /\ row \in Row /\ row.end > now
      BY <2>1 DEF Live, PaidFor, Selections, AccessTypeOK, Row
    <3>2. PICK end \in globals : row.end <= end
      BY <3>1 DEF PaidFor
    <3>3. end \in 0 .. Never /\ row.end \in 0 .. Never /\ now \in 0 .. Horizon
      BY <3>1 DEF AccessTypeOK, Row, Ends
    <3>4. end > now
      BY <3>1, <3>2, <3>3, HorizonAssumption DEF Never
    <3> QED
      BY <3>4 DEF LiveGlobals
  <2>2. Live(owned) \subseteq Live(centred)
    BY DEF Live, PaidFor
  <2>3. \A row \in Live(centred) : row \in owned => row \in Live(owned)
    BY DEF Live
  <2> QED
    BY <2>1, <2>2, <2>3 DEF HasAccess
<1>2. ASSUME ~raced PROVE Cardinality(Selections) <= 1
  <2>1. CASE Selections = {}
    BY <2>1, FS_EmptySet
  <2>2. ASSUME NEW row \in Selections PROVE Cardinality(Selections) <= 1
    <3>1. Selections = {row}
      BY <1>2, <2>2 DEF OneSelects
    <3> QED
      BY <3>1, FS_Singleton
  <2> QED
    BY <2>1, <2>2
<1> QED
  BY <1>1, <1>2 DEF AccessIsPaidFor, Selections

\* A centre is open exactly while all are paid for or it is itself, however
\* requests overlap and fail; and a learner whose selections do not overlap has
\* one at most.
THEOREM CentresArePaidFor == AccessSpec => []AccessIsPaidFor
BY AccessInvAlways, AccessInvIsEnough, PTL

-----------------------------------------------------------------------------
(* PracticeSessions.                                                         *)

\* The sessions the statistic should count: a request that has ended its
\* session and has not saved the statistic yet awaits being counted.
Awaits(n) == \E f \in Finishes : finishes[f].at \in {"stat", "save"} /\ finishes[f].session = n
Counted == {n \in Completed : ~Awaits(n)}

\* Requests that come one after the other know what they write.
OneFinishes ==
  /\ \A f, g \in Finishing : f = g
  /\ \A n \in Started : sessions[n].completed => sessions[n].ended
  /\ \A f \in Finishes :
       /\ finishes[f].at # "off" => finishes[f].session \in Started
       /\ finishes[f].at = "end" => ~sessions[finishes[f].session].ended
       /\ finishes[f].at \in {"stat", "save"} =>
            /\ sessions[finishes[f].session].completed
            /\ sessions[finishes[f].session].duration = finishes[f].duration
       /\ finishes[f].at = "save" => finishes[f].read = stat

KeptCount ==
  /\ stat.times <= Cardinality(Counted)
  /\ stat.best \in Reported \cup {0}
  /\ "failed" \notin mixed =>
       /\ stat.times = Cardinality(Counted)
       /\ \A n \in Counted : sessions[n].duration # 0 =>
            stat.best # 0 /\ stat.best <= sessions[n].duration

PracticeInv == PracticeTypeOK /\ ("overlapped" \notin mixed => OneFinishes /\ KeptCount)

LEMMA PracticeTypes ==
  /\ NoStat \in Stat /\ NoStat.times = 0 /\ NoStat.best = 0
  /\ NoFinish \in Finish /\ NoFinish.at = "off"
  /\ Times \subseteq Nat
BY PracticeAssumption DEF NoStat, Stat, NoFinish, Finish, Times

LEMMA SessionsTyped ==
  ASSUME PracticeTypeOK
  PROVE  /\ \A n \in Started : sessions[n] \in Session /\ n \in 1..MaxSessions
         /\ \A n \in Started : sessions[n].duration \in Times
         /\ \A f \in Finishes : finishes[f] \in Finish
         /\ IsFiniteSet(Completed) /\ IsFiniteSet(Counted)
         /\ Cardinality(Completed) \in Nat /\ Cardinality(Counted) \in Nat
         /\ Reported \subseteq Times
         /\ stat.times \in Nat /\ stat.best \in Times
<1>1. PICK n \in 0..MaxSessions : sessions \in [1..n -> Session]
  BY DEF PracticeTypeOK
<1>2. /\ \A m \in Started : sessions[m] \in Session /\ m \in 1..MaxSessions
      /\ \A m \in Started : sessions[m].duration \in Times
  BY <1>1, PracticeAssumption DEF Started, Session
<1>3. IsFiniteSet(1..n)
  BY FS_Interval
<1>4. Completed \in SUBSET (1..n) /\ Counted \in SUBSET (1..n)
  BY <1>1 DEF Completed, Counted, Started
<1>5. /\ IsFiniteSet(Completed) /\ IsFiniteSet(Counted)
      /\ Cardinality(Completed) \in Nat /\ Cardinality(Counted) \in Nat
  BY <1>3, <1>4, FS_Subset, FS_CardinalityType
<1> QED
  BY <1>2, <1>5 DEF PracticeTypeOK, Reported, Completed, Stat

LEMMA PracticeInvFirst == PracticeInit => PracticeInv
<1> SUFFICES ASSUME PracticeInit PROVE PracticeInv
  OBVIOUS
<1>1. Started = {}
  BY DEF PracticeInit, Started
<1>2. PracticeTypeOK
  <2>1. sessions \in [1..0 -> Session] /\ 0 \in 0..MaxSessions
    BY <1>1, PracticeAssumption DEF PracticeInit, Started
  <2> QED
    BY <2>1, PracticeTypes DEF PracticeInit, PracticeTypeOK
<1>3. Completed = {} /\ Counted = {}
  BY <1>1 DEF Completed, Counted
<1>4. KeptCount
  BY <1>3, PracticeTypes, FS_EmptySet DEF PracticeInit, KeptCount
<1>5. OneFinishes
  BY <1>1, PracticeTypes DEF PracticeInit, OneFinishes, Finishing
<1> QED
  BY <1>2, <1>4, <1>5 DEF PracticeInv

\* One request moves.
LEMMA FinishMoves ==
  ASSUME PracticeTypeOK, NEW f \in Finishes, NEW next, finishes' = [finishes EXCEPT ![f] = next]
  PROVE  finishes'[f] = next /\ \A g \in Finishes \ {f} : finishes'[g] = finishes[g]
BY DEF PracticeTypeOK

LEMMA StartKeepsCount ==
  ASSUME PracticeInv, StartPractice
  PROVE  PracticeInv'
<1> USE DEF PracticeInv
<1>1. PICK n \in 0..MaxSessions : sessions \in [1..n -> Session]
  BY DEF PracticeTypeOK
<1>2. Started = 1..n /\ Cardinality(Started) = n
  BY <1>1, FS_Interval DEF Started
<1>3. n + 1 \in 0..MaxSessions
  BY <1>1, <1>2, PracticeAssumption DEF StartPractice
<1> DEFINE opened == [ended |-> FALSE, completed |-> FALSE, duration |-> 0]
<1>4. sessions' = [m \in 1..(n + 1) |-> IF m = n + 1 THEN opened ELSE sessions[m]]
      /\ UNCHANGED <<stat, finishes, mixed>>
  BY <1>2 DEF StartPractice
<1>5. /\ opened \in Session /\ ~opened.completed /\ ~opened.ended
      /\ \A m \in 1..n : m \in 1..(n + 1) /\ m # n + 1
  BY <1>1 DEF Session, Times
<1> HIDE DEF opened
<1>6. /\ Started' = 1..(n + 1)
      /\ \A m \in Started : m \in Started' /\ sessions'[m] = sessions[m]
      /\ \A m \in Started' : m \in Started \/ sessions'[m] = opened
  BY <1>1, <1>2, <1>4, <1>5 DEF Started
<1>7. PracticeTypeOK'
  BY <1>1, <1>3, <1>4, <1>5 DEF PracticeTypeOK
<1>8. Completed' = Completed /\ Counted' = Counted
  BY <1>4, <1>5, <1>6 DEF Completed, Counted, Awaits
<1>9. Reported' = Reported
  BY <1>6, <1>8 DEF Reported, Completed
<1>10. KeptCount => KeptCount'
  BY <1>4, <1>6, <1>8, <1>9 DEF KeptCount, Counted, Completed
<1>11. OneFinishes => OneFinishes'
  BY <1>4, <1>5, <1>6 DEF OneFinishes, Finishing
<1> QED
  BY <1>4, <1>7, <1>10, <1>11

LEMMA RequestTyped ==
  ASSUME PracticeTypeOK, NEW f \in Finishes,
         \/ \E completed \in BOOLEAN, duration \in Times : FinishRead(f, completed, duration)
         \/ FinishEnd(f) \/ FinishStat(f) \/ SaveStat(f) \/ FinishFails(f)
  PROVE  PracticeTypeOK'
<1> USE DEF PracticeTypeOK
<1>1. finishes[f] \in Finish
  OBVIOUS
<1>2. ASSUME NEW completed \in BOOLEAN, NEW duration \in Times, FinishRead(f, completed, duration)
      PROVE  PracticeTypeOK'
  <2> PICK n \in Started : finishes' = [finishes EXCEPT ![f] =
             [at |-> "end", session |-> n, completed |-> completed, duration |-> duration,
              read |-> NoStat]]
    BY <1>2 DEF FinishRead
  <2>1. n \in 0..MaxSessions
    BY SessionsTyped, PracticeAssumption
  <2>2. [at |-> "end", session |-> n, completed |-> completed, duration |-> duration,
         read |-> NoStat] \in Finish
    BY <2>1, PracticeTypes DEF Finish
  <2> QED
    BY <1>2, <2>2 DEF FinishRead, Mixups
<1>3. CASE FinishEnd(f)
  <2> DEFINE done == [ended |-> TRUE, completed |-> finishes[f].completed,
                      duration |-> finishes[f].duration]
             next == IF finishes[f].completed THEN [finishes[f] EXCEPT !.at = "stat"] ELSE NoFinish
  <2>1. done \in Session /\ next \in Finish
    BY <1>1, PracticeTypes DEF Finish, Session
  <2>2. /\ sessions' = [sessions EXCEPT ![finishes[f].session] = done]
        /\ finishes' = [finishes EXCEPT ![f] = next] /\ UNCHANGED <<stat, mixed>>
    BY <1>3 DEF FinishEnd
  <2> HIDE DEF done, next
  <2> QED
    BY <2>1, <2>2
<1>4. CASE FinishStat(f)
  <2>1. [finishes[f] EXCEPT !.at = "save", !.read = stat] \in Finish
    BY <1>1 DEF Finish
  <2> QED
    BY <1>4, <2>1 DEF FinishStat
<1>5. CASE SaveStat(f)
  <2>1. finishes[f].read \in Stat /\ finishes[f].duration \in Times
    BY <1>1 DEF Finish
  <2>2. stat' \in Stat
    BY <1>5, <2>1 DEF SaveStat, Stat
  <2> QED
    BY <1>5, <2>2, PracticeTypes DEF SaveStat
<1>6. CASE FinishFails(f)
  BY <1>6, PracticeTypes DEF FinishFails, Mixups
<1> QED
  BY <1>2, <1>3, <1>4, <1>5, <1>6

LEMMA RequestKeepsCount ==
  ASSUME PracticeTypeOK, PracticeTypeOK', OneFinishes, KeptCount, "overlapped" \notin mixed',
         NEW f \in Finishes,
         \/ \E completed \in BOOLEAN, duration \in Times : FinishRead(f, completed, duration)
         \/ FinishEnd(f) \/ FinishStat(f) \/ SaveStat(f) \/ FinishFails(f)
  PROVE  OneFinishes' /\ KeptCount'
<1> DEFINE k == finishes[f].session
           d == finishes[f].duration
<1>1. finishes[f] \in Finish /\ d \in Times
  BY DEF PracticeTypeOK, Finish
<1>2. finishes[f].at # "off" =>
        /\ k \in Started
        /\ \A g \in Finishes \ {f} : finishes[g].at = "off"
  BY DEF OneFinishes, Finishing
<1>3. ASSUME NEW completed \in BOOLEAN, NEW duration \in Times, FinishRead(f, completed, duration)
      PROVE  OneFinishes' /\ KeptCount'
  <2> PICK n \in Started :
        /\ ~sessions[n].ended
        /\ finishes' = [finishes EXCEPT ![f] =
             [at |-> "end", session |-> n, completed |-> completed, duration |-> duration,
              read |-> NoStat]]
    BY <1>3 DEF FinishRead
  <2>1. UNCHANGED <<sessions, stat>> /\ Finishing = {} /\ mixed' = mixed /\ finishes[f].at = "off"
    BY <1>3 DEF FinishRead
  <2>2. /\ finishes'[f].at = "end" /\ finishes'[f].session = n
        /\ \A g \in Finishes \ {f} : finishes'[g] = finishes[g] /\ finishes[g].at = "off"
    <3>1. finishes'[f] = [at |-> "end", session |-> n, completed |-> completed,
                          duration |-> duration, read |-> NoStat]
      BY FinishMoves
    <3>2. \A g \in Finishes \ {f} : finishes'[g] = finishes[g]
      BY FinishMoves
    <3> QED
      BY <2>1, <3>1, <3>2 DEF Finishing
  <2>3. OneFinishes'
    BY <2>1, <2>2 DEF OneFinishes, Finishing, Started
  <2>4. Completed' = Completed /\ Counted' = Counted /\ Reported' = Reported
    BY <2>1, <2>2 DEF Completed, Counted, Reported, Awaits, Started
  <2> QED
    BY <2>1, <2>3, <2>4 DEF KeptCount
<1>4. CASE FinishEnd(f)
  <2> DEFINE done == [ended |-> TRUE, completed |-> finishes[f].completed, duration |-> d]
             next == IF finishes[f].completed THEN [finishes[f] EXCEPT !.at = "stat"] ELSE NoFinish
  <2>1. finishes[f].at = "end" /\ k \in Started /\ UNCHANGED <<stat, mixed>>
    BY <1>2, <1>4 DEF FinishEnd
  <2>2. ~sessions[k].ended /\ ~sessions[k].completed
    BY <2>1 DEF OneFinishes
  <2>3. /\ Started' = Started /\ sessions'[k] = done
        /\ \A m \in Started \ {k} : sessions'[m] = sessions[m]
    BY <1>4, <2>1 DEF FinishEnd, Started, PracticeTypeOK
  <2>4. finishes'[f] = next /\ \A g \in Finishes \ {f} : finishes'[g] = finishes[g]
    BY <1>4, FinishMoves DEF FinishEnd
  <2>5. /\ done.ended = TRUE /\ done.completed = finishes[f].completed /\ done.duration = d
        /\ finishes[f].completed => /\ next.at = "stat" /\ next.session = k /\ next.duration = d
        /\ ~finishes[f].completed => next.at = "off"
    BY <1>1, PracticeTypes DEF Finish
  <2> HIDE DEF done, next
  <2>6. OneFinishes'
    BY <1>2, <2>1, <2>3, <2>4, <2>5 DEF OneFinishes, Finishing
  <2>7. Counted' = Counted
    BY <1>2, <2>1, <2>2, <2>3, <2>4, <2>5 DEF Counted, Completed, Awaits
  <2>8. Reported \subseteq Reported' /\ \A m \in Counted : sessions'[m] = sessions[m]
    BY <2>2, <2>3 DEF Reported, Completed, Counted
  <2> QED
    BY <2>1, <2>6, <2>7, <2>8 DEF KeptCount
<1>5. CASE FinishStat(f)
  <2>1. finishes[f].at = "stat" /\ UNCHANGED <<sessions, stat, mixed>>
    BY <1>5 DEF FinishStat
  <2>2. /\ finishes'[f].at = "save" /\ finishes'[f].session = k /\ finishes'[f].duration = d
        /\ finishes'[f].read = stat
        /\ \A g \in Finishes \ {f} : finishes'[g] = finishes[g]
    BY <1>1, <1>5 DEF FinishStat, PracticeTypeOK, Finish
  <2>3. OneFinishes'
    BY <1>2, <2>1, <2>2 DEF OneFinishes, Finishing, Started
  <2>4. Completed' = Completed /\ Counted' = Counted /\ Reported' = Reported
    BY <2>1, <2>2 DEF Completed, Counted, Reported, Awaits, Started
  <2> QED
    BY <2>1, <2>3, <2>4 DEF KeptCount
<1>6. ASSUME finishes[f].at \in {"stat", "save"}, finishes'[f] = NoFinish, sessions' = sessions,
             \A g \in Finishes \ {f} : finishes'[g] = finishes[g]
      PROVE  /\ k \in Completed /\ k \notin Counted /\ sessions[k].duration = d
             /\ Counted' = Counted \cup {k} /\ Cardinality(Counted') = Cardinality(Counted) + 1
             /\ Completed' = Completed /\ Reported' = Reported
  <2>1. k \in Completed /\ k \notin Counted /\ sessions[k].duration = d
    BY <1>2, <1>6 DEF Completed, Counted, Awaits, OneFinishes
  <2>2. Completed' = Completed /\ Reported' = Reported
    BY <1>6 DEF Completed, Reported, Started
  <2>3. Counted' = Counted \cup {k}
    BY <1>2, <1>6, <2>1, <2>2, PracticeTypes DEF Counted, Awaits
  <2>4. IsFiniteSet(Counted)
    BY SessionsTyped
  <2> QED
    BY <2>1, <2>2, <2>3, <2>4, FS_AddElement
<1>7. ASSUME finishes'[f] = NoFinish, sessions' = sessions,
             \A g \in Finishes \ {f} : finishes'[g] = finishes[g], finishes[f].at # "off"
      PROVE  OneFinishes'
  BY <1>2, <1>7, PracticeTypes DEF OneFinishes, Finishing, Started
<1>8. CASE SaveStat(f)
  <2>1. /\ finishes[f].at = "save" /\ UNCHANGED <<sessions, mixed>> /\ finishes'[f] = NoFinish
        /\ \A g \in Finishes \ {f} : finishes'[g] = finishes[g]
    BY <1>8, FinishMoves DEF SaveStat
  <2>2. /\ stat'.times = stat.times + 1
        /\ stat'.best = IF Better(d, stat.best) THEN d ELSE stat.best
    BY <1>8, <2>1 DEF SaveStat, OneFinishes
  <2>3. d # 0 => d \in Reported
    BY <1>6, <2>1 DEF Reported
  <2>4. /\ stat.times \in Nat /\ stat.best \in Nat /\ d \in Nat
        /\ Cardinality(Counted) \in Nat
        /\ \A n \in Counted : sessions[n].duration \in Nat
    BY <1>1, SessionsTyped, PracticeTypes DEF Counted, Completed
  <2>5. "failed" \notin mixed' => \A n \in Counted' : sessions'[n].duration # 0 =>
          stat'.best # 0 /\ stat'.best <= sessions'[n].duration
    BY <1>6, <2>1, <2>2, <2>4 DEF KeptCount, Better
  <2>6. stat'.best \in Reported' \cup {0}
    BY <1>6, <2>1, <2>2, <2>3 DEF KeptCount, Better
  <2>7. /\ stat'.times <= Cardinality(Counted')
        /\ "failed" \notin mixed' => stat'.times = Cardinality(Counted')
    BY <1>6, <2>1, <2>2, <2>4 DEF KeptCount
  <2> QED
    BY <1>7, <2>1, <2>5, <2>6, <2>7 DEF KeptCount
<1>9. CASE FinishFails(f)
  <2>1. /\ finishes[f].at # "off" /\ UNCHANGED <<sessions, stat>> /\ finishes'[f] = NoFinish
        /\ \A g \in Finishes \ {f} : finishes'[g] = finishes[g]
        /\ "failed" \in mixed'
    BY <1>9, FinishMoves DEF FinishFails
  <2>2. CASE finishes[f].at \in {"stat", "save"}
    BY <1>6, <1>7, <2>1, <2>2, SessionsTyped DEF KeptCount
  <2>3. CASE finishes[f].at = "end"
    <3>1. Completed' = Completed /\ Counted' = Counted /\ Reported' = Reported
      BY <2>1, <2>3, PracticeTypes DEF Completed, Counted, Reported, Awaits, Started
    <3> QED
      BY <1>7, <2>1, <3>1 DEF KeptCount
  <2> QED
    BY <1>1, <2>1, <2>2, <2>3 DEF Finish
<1> QED
  BY <1>3, <1>4, <1>5, <1>8, <1>9

LEMMA PracticeInvKept == PracticeInv /\ [PracticeNext]_practiceVars => PracticeInv'
<1> SUFFICES ASSUME PracticeInv, [PracticeNext]_practiceVars PROVE PracticeInv'
  OBVIOUS
<1>1. ASSUME NEW f \in Finishes,
             \/ \E completed \in BOOLEAN, duration \in Times : FinishRead(f, completed, duration)
             \/ FinishEnd(f) \/ FinishStat(f) \/ SaveStat(f) \/ FinishFails(f)
      PROVE  PracticeInv'
  <2>1. mixed \subseteq mixed'
    BY <1>1 DEF FinishRead, FinishEnd, FinishStat, SaveStat, FinishFails
  <2> QED
    BY <1>1, <2>1, RequestTyped, RequestKeepsCount DEF PracticeInv
<1>2. CASE UNCHANGED practiceVars
  BY <1>2 DEF practiceVars, PracticeInv, PracticeTypeOK, OneFinishes, KeptCount, Counted, Awaits,
              Completed, Reported, Started, Finishing
<1> QED
  BY <1>1, <1>2, StartKeepsCount DEF PracticeNext

LEMMA PracticeInvIsEnough == PracticeInv => PracticeIsCounted
<1> SUFFICES ASSUME PracticeInv, "overlapped" \notin mixed PROVE PracticeIsCounted
  BY DEF PracticeIsCounted
<1> USE DEF PracticeInv
<1>1. Counted \subseteq Completed
  BY DEF Counted
<1>2. Cardinality(Counted) <= Cardinality(Completed)
  BY <1>1, SessionsTyped, FS_Subset
<1>3. stat.times <= Cardinality(Completed)
  BY <1>2, SessionsTyped DEF KeptCount
<1>4. ASSUME Finishing = {} PROVE Counted = Completed
  BY <1>4 DEF Finishing, Counted, Awaits
<1>5. ASSUME "failed" \notin mixed, Finishing = {}, NEW d \in Reported
      PROVE  stat.best <= d /\ stat.best # 0
  BY <1>4, <1>5 DEF KeptCount, Reported
<1> QED
  BY <1>3, <1>4, <1>5 DEF PracticeIsCounted, KeptCount

LEMMA PracticeInvAlways == PracticeSpec => []PracticeInv
BY PracticeInvFirst, PracticeInvKept, PTL DEF PracticeSpec

\* While requests to finish come one after the other, the statistic of a route
\* counts each completed session at most once, each exactly once when nothing
\* has failed, and has the shortest time that was reported.
THEOREM SessionsAreCounted == PracticeSpec => []PracticeIsCounted
BY PracticeInvAlways, PracticeInvIsEnough, PTL

-----------------------------------------------------------------------------
(* ParkingRules.                                                             *)

\* Types, and when the driver was told what.
RulesTyped ==
  /\ locality \in Localities /\ council \in Councils
  /\ minute \in Nat /\ DayMinutes \in Nat

\* The bands in force at minute m, and what StatusNow is then.
ActiveAt(m) == {i \in Todays : Bands[i].start <= m /\ m < Bands[i].end}

\* The driver was told at minute m.
ToldAt(m) ==
  \/ \E i \in DOMAIN Bands :
       /\ IsFirst(i, ActiveAt(m))
       /\ told = [status |-> Bands[i].fee, change |-> Bands[i].end, next |-> "none"]
  \/ \E i \in DOMAIN Bands :
       LET coming == {j \in Todays : Bands[j].start > m} IN
       /\ ActiveAt(m) = {} /\ IsFirst(i, coming)
       /\ told = [status |-> Base, change |-> Bands[i].start, next |-> Bands[i].fee]
  \/ /\ ActiveAt(m) = {} /\ {j \in Todays : Bands[j].start > m} = {}
     /\ told = [status |-> Base, change |-> NoChange, next |-> "none"]

\* The inductive invariant.
ToldToday == told = NothingTold \/ \E m \in Nat : m <= minute /\ ToldAt(m)
ParkingInv == RulesTyped /\ ToldToday

-----------------------------------------------------------------------------
\* The rules that apply are numbered by naturals and have times.
LEMMA BandsAreTimed ==
  ASSUME RulesTyped
  PROVE  \A i \in DOMAIN Bands : i \in Nat /\ Bands[i].start \in Nat /\ Bands[i].end \in Nat
BY RulesAssumption DEF RulesTyped, Bands

\* No two bands of a set come first.
LEMMA FirstIsUnique ==
  ASSUME RulesTyped, NEW some \in SUBSET Todays, NEW i \in some, NEW j \in some,
         IsFirst(i, some), IsFirst(j, some)
  PROVE  i = j
<1>1. i \in DOMAIN Bands /\ j \in DOMAIN Bands
  BY DEF Todays
<1>2. Sooner(i, j) /\ Sooner(j, i)
  BY DEF IsFirst
<1> QED
  BY <1>1, <1>2, BandsAreTimed DEF Sooner

\* The status is the fee of the first band in force.
LEMMA StatusOfFirst ==
  ASSUME RulesTyped, NEW i, IsFirst(i, Active)
  PROVE  StatusNow = Bands[i].fee
<1>1. i \in Active /\ Active \subseteq Todays
  BY DEF IsFirst, Active
<1>2. \A j \in Active : IsFirst(j, Active) => j = i
  BY <1>1, FirstIsUnique
<1>3. (CHOOSE j \in Active : IsFirst(j, Active)) = i
  BY <1>1, <1>2
<1> QED
  BY <1>1, <1>3 DEF StatusNow

\* A band that came first when the driver was told comes first until it ends.
LEMMA FirstUntilEnd ==
  ASSUME RulesTyped, NEW m \in Nat, m <= minute, NEW i, IsFirst(i, ActiveAt(m)),
         minute < Bands[i].end
  PROVE  IsFirst(i, Active)
<1>1. i \in Todays /\ Bands[i].start <= m
  BY DEF IsFirst, ActiveAt
<1>2. i \in DOMAIN Bands
  BY <1>1 DEF Todays
<1>3. i \in Active
  BY <1>1, <1>2, BandsAreTimed DEF Active, RulesTyped
<1>4. ASSUME NEW j \in Active PROVE Sooner(i, j)
  <2>1. j \in Todays /\ j \in DOMAIN Bands /\ Bands[j].start <= minute /\ minute < Bands[j].end
    BY DEF Active, Todays
  <2>2. CASE Bands[j].start <= m
    <3>1. m < Bands[j].end
      BY <2>1, BandsAreTimed DEF RulesTyped
    <3>2. j \in ActiveAt(m)
      BY <2>1, <2>2, <3>1 DEF ActiveAt
    <3> QED BY <3>2 DEF IsFirst
  <2>3. CASE ~(Bands[j].start <= m)
    BY <1>1, <1>2, <2>1, <2>3, BandsAreTimed DEF Sooner
  <2> QED BY <2>2, <2>3
<1> QED BY <1>3, <1>4 DEF IsFirst

\* Where no band was in force, none is until the first that was to come.
LEMMA NoneUntilStart ==
  ASSUME RulesTyped, NEW m \in Nat, m <= minute, ActiveAt(m) = {},
         \A j \in Todays : Bands[j].start > m => minute < Bands[j].start
  PROVE  Active = {}
<1> SUFFICES ASSUME NEW j \in Active PROVE FALSE
  OBVIOUS
<1>1. j \in Todays /\ j \in DOMAIN Bands /\ Bands[j].start <= minute /\ minute < Bands[j].end
  BY DEF Active, Todays
<1>2. Bands[j].start <= m
  BY <1>1, BandsAreTimed DEF RulesTyped
<1>3. j \in ActiveAt(m)
  BY <1>1, <1>2, BandsAreTimed DEF ActiveAt, RulesTyped
<1> QED BY <1>3

\* In the minute it was announced for, a band comes first if it has an end.
LEMMA FirstAtStart ==
  ASSUME RulesTyped, NEW m \in Nat, m <= minute, ActiveAt(m) = {},
         NEW i, IsFirst(i, {j \in Todays : Bands[j].start > m}),
         minute = Bands[i].start, Bands[i].start < Bands[i].end
  PROVE  IsFirst(i, Active)
<1>1. i \in Todays /\ i \in DOMAIN Bands
  BY DEF IsFirst, Todays
<1>2. i \in Active
  BY <1>1, BandsAreTimed DEF Active, RulesTyped
<1>3. ASSUME NEW j \in Active PROVE Sooner(i, j)
  <2>1. j \in Todays /\ j \in DOMAIN Bands /\ Bands[j].start <= minute /\ minute < Bands[j].end
    BY DEF Active, Todays
  <2>2. CASE Bands[j].start > m
    BY <2>1, <2>2 DEF IsFirst
  <2>3. CASE ~(Bands[j].start > m)
    <3>1. Bands[j].start <= m /\ m < Bands[j].end
      BY <2>1, <2>3, BandsAreTimed DEF RulesTyped
    <3>2. j \in ActiveAt(m)
      BY <2>1, <3>1 DEF ActiveAt
    <3> QED BY <3>2
  <2> QED BY <2>2, <2>3
<1> QED BY <1>2, <1>3 DEF IsFirst

-----------------------------------------------------------------------------
\* The invariant says enough.
LEMMA ParkingInvIsEnough == ParkingInv => ToldIsTrue
<1> SUFFICES ASSUME ParkingInv, told # NothingTold, minute < DayMinutes
             PROVE  /\ told.change = NoChange \/ minute < told.change => StatusNow = told.status
                    /\ told.next # "none" /\ minute = told.change /\ EndsAfterStart
                         => StatusNow = told.next
  BY DEF ToldIsTrue
<1> USE DEF ParkingInv
<1>0. RulesTyped OBVIOUS
<1>1. PICK m \in Nat : m <= minute /\ ToldAt(m)
  BY DEF ToldToday
<1>2. CASE \E i \in DOMAIN Bands :
             /\ IsFirst(i, ActiveAt(m))
             /\ told = [status |-> Bands[i].fee, change |-> Bands[i].end, next |-> "none"]
  <2>1. PICK i \in DOMAIN Bands :
             /\ IsFirst(i, ActiveAt(m))
             /\ told = [status |-> Bands[i].fee, change |-> Bands[i].end, next |-> "none"]
    BY <1>2
  <2>2. told.change = Bands[i].end /\ told.status = Bands[i].fee /\ told.next = "none"
    BY <2>1
  <2>3. told.change # NoChange
    BY <1>0, <2>2, BandsAreTimed DEF NoChange
  <2>4. ASSUME minute < told.change PROVE StatusNow = told.status
    BY <1>0, <1>1, <2>1, <2>2, <2>4, FirstUntilEnd, StatusOfFirst
  <2> QED BY <2>2, <2>3, <2>4
<1>3. CASE \E i \in DOMAIN Bands :
             LET coming == {j \in Todays : Bands[j].start > m} IN
             /\ ActiveAt(m) = {} /\ IsFirst(i, coming)
             /\ told = [status |-> Base, change |-> Bands[i].start, next |-> Bands[i].fee]
  <2> DEFINE coming == {j \in Todays : Bands[j].start > m}
  <2>1. PICK i \in DOMAIN Bands :
             /\ ActiveAt(m) = {} /\ IsFirst(i, coming)
             /\ told = [status |-> Base, change |-> Bands[i].start, next |-> Bands[i].fee]
    BY <1>3
  <2>2. told.change = Bands[i].start /\ told.status = Base /\ told.next = Bands[i].fee
    BY <2>1
  <2>3. told.change # NoChange
    BY <1>0, <2>2, BandsAreTimed DEF NoChange
  <2>4. ASSUME minute < told.change PROVE StatusNow = told.status
    <3>1. ASSUME NEW j \in Todays, Bands[j].start > m PROVE minute < Bands[j].start
      <4>1. Sooner(i, j) /\ j \in DOMAIN Bands
        BY <2>1, <3>1 DEF IsFirst, Todays
      <4>2. Bands[i].start <= Bands[j].start
        BY <1>0, <4>1, BandsAreTimed DEF Sooner
      <4> QED BY <1>0, <2>2, <2>4, <4>1, <4>2, BandsAreTimed DEF RulesTyped
    <3>2. Active = {}
      BY <1>0, <1>1, <2>1, <3>1, NoneUntilStart
    <3> QED BY <2>2, <3>2 DEF StatusNow
  <2>5. ASSUME minute = told.change, EndsAfterStart PROVE StatusNow = told.next
    <3>1. Bands[i].start < Bands[i].end /\ minute = Bands[i].start
      BY <2>1, <2>2, <2>5 DEF EndsAfterStart
    <3>2. IsFirst(i, Active)
      BY <1>0, <1>1, <2>1, <3>1, FirstAtStart
    <3> QED BY <1>0, <2>2, <3>2, StatusOfFirst
  <2> QED BY <2>3, <2>4, <2>5
<1>4. CASE /\ ActiveAt(m) = {} /\ {j \in Todays : Bands[j].start > m} = {}
           /\ told = [status |-> Base, change |-> NoChange, next |-> "none"]
  <2>1. told.status = Base /\ told.next = "none"
    BY <1>4
  <2>2. \A j \in Todays : ~(Bands[j].start > m)
    BY <1>4
  <2>3. Active = {}
    BY <1>0, <1>1, <1>4, <2>2, NoneUntilStart
  <2> QED BY <2>1, <2>3 DEF StatusNow
<1> QED BY <1>1, <1>2, <1>3, <1>4 DEF ToldAt

\* The rules and the day decide what a driver can be told at a minute.
LEMMA RulesDecide ==
  ASSUME NEW m \in Nat, UNCHANGED <<locality, council, day>>
  PROVE  /\ Todays' = Todays /\ Bands' = Bands /\ Base' = Base
         /\ ActiveAt(m)' = ActiveAt(m)
         /\ \A i, some : IsFirst(i, some)' <=> IsFirst(i, some)
<1>1. Bands' = Bands /\ Base' = Base
  BY DEF Bands, Base
<1>2. \A tokens : AppliesToday(tokens)' <=> AppliesToday(tokens)
  BY DEF AppliesToday
<1>3. Todays' = Todays
  BY <1>1, <1>2 DEF Todays, IsClock
<1>4. ActiveAt(m)' = ActiveAt(m)
  BY <1>1, <1>3 DEF ActiveAt
<1>5. \A i, j : Sooner(i, j)' <=> Sooner(i, j)
  BY <1>1 DEF Sooner
<1>6. ASSUME NEW i, NEW some PROVE IsFirst(i, some)' <=> IsFirst(i, some)
  BY <1>5 DEF IsFirst
<1> QED BY <1>1, <1>3, <1>4, <1>6

\* What was told at a minute was told at it when the rules are the same.
LEMMA ToldIsKept ==
  ASSUME NEW m \in Nat, UNCHANGED <<locality, council, day, told>>, ToldAt(m)
  PROVE  ToldAt(m)'
<1>1. Todays' = Todays /\ Bands' = Bands /\ Base' = Base /\ ActiveAt(m)' = ActiveAt(m)
  BY RulesDecide
<1>2. CASE \E i \in DOMAIN Bands :
             /\ IsFirst(i, ActiveAt(m))
             /\ told = [status |-> Bands[i].fee, change |-> Bands[i].end, next |-> "none"]
  BY <1>1, <1>2 DEF ToldAt, IsFirst, Sooner
<1>3. CASE \E i \in DOMAIN Bands :
             LET coming == {j \in Todays : Bands[j].start > m} IN
             /\ ActiveAt(m) = {} /\ IsFirst(i, coming)
             /\ told = [status |-> Base, change |-> Bands[i].start, next |-> Bands[i].fee]
  BY <1>1, <1>3 DEF ToldAt, IsFirst, Sooner
<1>4. CASE /\ ActiveAt(m) = {} /\ {j \in Todays : Bands[j].start > m} = {}
           /\ told = [status |-> Base, change |-> NoChange, next |-> "none"]
  BY <1>1, <1>4 DEF ToldAt
<1> QED BY <1>2, <1>3, <1>4 DEF ToldAt

LEMMA ParkingInvFirst == ParkingInit => ParkingInv
BY RulesAssumption DEF ParkingInit, ParkingInv, RulesTyped, ToldToday

LEMMA ParkingInvKept == ParkingInv /\ [ParkingNext]_parkingVars => ParkingInv'
<1> SUFFICES ASSUME ParkingInv, [ParkingNext]_parkingVars PROVE ParkingInv'
  OBVIOUS
<1>1. ASSUME NEW i \in DOMAIN Bands, TellActive(i) PROVE ParkingInv'
  <2>1. UNCHANGED <<locality, council, day, minute>> /\ IsFirst(i, Active)
    BY <1>1 DEF TellActive, Tell
  <2>2. RulesTyped'
    BY <2>1 DEF ParkingInv, RulesTyped
  <2>3. Active = ActiveAt(minute)
    BY DEF Active, ActiveAt
  <2>4. /\ Bands' = Bands /\ minute' = minute /\ minute \in Nat
        /\ ActiveAt(minute)' = ActiveAt(minute)
    <3>1. minute \in Nat /\ minute' = minute
      BY <2>1 DEF ParkingInv, RulesTyped
    <3>2. PICK m \in Nat : m = minute /\ m' = m
      BY <3>1
    <3>3. Bands' = Bands /\ ActiveAt(m)' = ActiveAt(m)
      BY <2>1, RulesDecide
    <3> QED BY <3>1, <3>2, <3>3 DEF ActiveAt
  <2>5. ToldAt(minute)'
    <3>1. told' = [status |-> Bands[i].fee, change |-> Bands[i].end, next |-> "none"]
      BY <1>1 DEF TellActive, Tell
    <3>2. IsFirst(i, ActiveAt(minute))'
      BY <2>1, <2>3, <2>4 DEF IsFirst, Sooner
    <3>3. told' = [status |-> Bands'[i].fee, change |-> Bands'[i].end, next |-> "none"]
          /\ i \in DOMAIN Bands'
      BY <2>4, <3>1
    <3> QED
      BY <3>2, <3>3 DEF ToldAt
  <2> QED BY <2>1, <2>2, <2>5 DEF ParkingInv, ToldToday, RulesTyped
<1>2. ASSUME NEW i \in DOMAIN Bands, TellComing(i) PROVE ParkingInv'
  <2>1. UNCHANGED <<locality, council, day, minute>>
    BY <1>2 DEF TellComing, Tell
  <2>2. RulesTyped'
    BY <2>1 DEF ParkingInv, RulesTyped
  <2>3. Bands' = Bands /\ Base' = Base /\ Todays' = Todays
    BY <2>1 DEF Bands, Base, Todays, AppliesToday
  <2>4. ToldAt(minute)'
    <3>1. ActiveAt(minute)' = {} /\ IsFirst(i, Coming)
      BY <1>2, <2>1, <2>3 DEF TellComing, ActiveAt, Active
    <3>2. Coming = {j \in Todays' : Bands'[j].start > minute'}
      BY <2>1, <2>3 DEF Coming
    <3>3. IsFirst(i, Coming)' /\ Coming' = Coming
      BY <2>1, <2>3, <3>1 DEF Coming, IsFirst, Sooner
    <3>4. told' = [status |-> Base', change |-> Bands'[i].start, next |-> Bands'[i].fee]
          /\ i \in DOMAIN Bands'
      BY <1>2, <2>3 DEF TellComing, Tell
    <3> QED
      BY <3>1, <3>2, <3>3, <3>4 DEF ToldAt
  <2> QED BY <2>1, <2>2, <2>4 DEF ParkingInv, ToldToday, RulesTyped
<1>3. ASSUME TellBase PROVE ParkingInv'
  <2>1. UNCHANGED <<locality, council, day, minute>>
    BY <1>3 DEF TellBase, Tell
  <2>2. RulesTyped'
    BY <2>1 DEF ParkingInv, RulesTyped
  <2>4. ToldAt(minute)'
    BY <1>3, <2>1 DEF TellBase, Tell, ToldAt, ActiveAt, Active, Coming, Todays, Bands, Base,
       AppliesToday
  <2> QED BY <2>1, <2>2, <2>4 DEF ParkingInv, ToldToday, RulesTyped
<1>4. ASSUME MinutePasses PROVE ParkingInv'
  <2>1. UNCHANGED <<locality, council, day, told>> /\ minute' = minute + 1
    BY <1>4 DEF MinutePasses
  <2>2. RulesTyped'
    BY <2>1 DEF ParkingInv, RulesTyped
  <2>3. ASSUME NEW m \in Nat, m <= minute, ToldAt(m) PROVE m <= minute' /\ ToldAt(m)'
    <3>1. m <= minute'
      BY <2>1, <2>3 DEF ParkingInv, RulesTyped
    <3>2. ToldAt(m)'
      BY <2>1, <2>3, ToldIsKept
    <3> QED BY <3>1, <3>2
  <2>4. ToldToday'
    BY <2>1, <2>3 DEF ParkingInv, ToldToday
  <2> QED BY <2>2, <2>4 DEF ParkingInv
<1>5. ASSUME Midnight PROVE ParkingInv'
  BY <1>5 DEF Midnight, ParkingInv, RulesTyped, ToldToday
<1>6. ASSUME UNCHANGED parkingVars PROVE ParkingInv'
  <2>1. UNCHANGED <<locality, council, day, minute, told>>
    BY <1>6 DEF parkingVars
  <2>2. RulesTyped'
    BY <2>1 DEF ParkingInv, RulesTyped
  <2>3. ASSUME NEW m \in Nat, ToldAt(m) PROVE ToldAt(m)'
    BY <2>1, <2>3, ToldIsKept
  <2>4. ToldToday'
    BY <2>1, <2>3 DEF ParkingInv, ToldToday
  <2> QED BY <2>2, <2>4 DEF ParkingInv
<1> QED BY <1>1, <1>2, <1>3, <1>4, <1>5, <1>6 DEF ParkingNext

\* What a driver is told about a spot stays true until the minute that was
\* named for the next change, which then begins: for any rules.
THEOREM DriversAreToldTheTruth == ParkingSpec => []ToldIsTrue
BY ParkingInvFirst, ParkingInvKept, ParkingInvIsEnough, PTL DEF ParkingSpec

-----------------------------------------------------------------------------
(* ParkingAtlas.                                                             *)

Named == {p.label : p \in places}
OnesBands == {Id(b) : b \in {b \in bands : b.id[1] \in {"council"} \cup Named}}

\* A request that has been alone since it began has read what is there.
KnowsAll(q) ==
  /\ Busy = {q}
  /\ work[q].at \in {"bands", "search", "places", "write"} => work[q].found = OnesBands
  /\ work[q].at \in {"search", "places", "write"} => work[q].gone = OnesBands
  /\ work[q].at \in {"places", "write"} => work[q].foundPlaces = Named
  /\ work[q].at = "write" => work[q].gonePlaces = Named
  /\ work[q].kind = "import" => work[q].seen = fee

OneAtWork ==
  /\ \A q \in Busy : work[q].rule \in Rules
  /\ \A q \in Busy : work[q].alone => KnowsAll(q)
  /\ ~replaced.mixed => \A q \in Busy : work[q].alone
  /\ replaced.alone \/ ~replaced.mixed => places = NewPlaces(replaced.rule)

AtlasInv == AtlasTypeOK /\ OneAtWork /\ AtlasIsOneSource

LEMMA WorkTypes ==
  /\ NoWork \in Work /\ NoWork.at = "idle" /\ NoWork.rule = NoRule
  /\ \A rule \in Rules : /\ rule \in Rule /\ rule.localities \subseteq Labels
                         /\ rule.banded \subseteq rule.localities \cup {"council"}
                         /\ rule.fee \in Fees \cup {"none"}
  /\ NoRule.fee = "none" /\ NoRule.localities = {} /\ NoRule.banded = {}
  /\ "council" \notin Labels /\ "none" \notin Fees
BY RulesAreRules DEF NoWork, Work, Kinds, NoRule, Rule, Scopes, Fees

LEMMA AtlasInvFirst == AtlasInit => AtlasInv
<1> SUFFICES ASSUME AtlasInit PROVE AtlasInv
  OBVIOUS
<1>1. AtlasTypeOK
  BY WorkTypes DEF AtlasInit, AtlasTypeOK, Kinds
<1>2. Busy = {} /\ replaced.rule = NoRule /\ replaced.given = "none"
  BY WorkTypes DEF AtlasInit, Busy
<1>3. NewPlaces(NoRule) = {} /\ NewBands(replaced.kind, NoRule) = {}
  BY WorkTypes DEF NewPlaces, NewBands
<1>4. ~replaced.alone /\ fee = "none" /\ places = {} /\ bands = {}
  BY DEF AtlasInit
<1> QED
  BY <1>1, <1>2, <1>3, <1>4 DEF AtlasInv, OneAtWork, AtlasIsOneSource

\* A request begins, or is rolled back.
LEMMA BeginKeepsAtlas ==
  ASSUME AtlasInv, NEW q \in Replacers, NEW kind \in Kinds, NEW rule \in Rules,
         ReplaceBegin(q, kind, rule)
  PROVE  AtlasInv'
<1> USE DEF AtlasInv
<1> DEFINE next == [NoWork EXCEPT !.at = "find", !.kind = kind, !.rule = rule,
                      !.seen = IF kind = "import" THEN fee ELSE "none", !.alone = Busy = {}]
<1>1. /\ next \in Work /\ next.at = "find" /\ next.kind = kind /\ next.rule = rule
      /\ next.alone = (Busy = {}) /\ (kind = "import" => next.seen = fee)
  BY DEF AtlasTypeOK, NoWork, Work
<1>2. UNCHANGED <<fee, places, bands>> /\ q \notin Busy
  BY DEF ReplaceBegin
<1>3. work'[q] = next /\ work' \in [Replacers -> Work]
  <2>1. work' = [d \in Replacers |->
                   IF d = q THEN next
                   ELSE IF d \in Busy THEN [work[d] EXCEPT !.alone = FALSE] ELSE work[d]]
    BY DEF ReplaceBegin
  <2>2. \A v \in Work : [v EXCEPT !.alone = FALSE] \in Work
    BY DEF Work
  <2>3. work \in [Replacers -> Work]
    BY DEF AtlasTypeOK
  <2> HIDE DEF next
  <2> QED
    BY <1>1, <2>1, <2>2, <2>3
<1>4. \A d \in Replacers \ {q} :
        /\ d \in Busy => /\ work'[d].at = work[d].at /\ ~work'[d].alone
                         /\ work'[d].rule = work[d].rule
        /\ d \notin Busy => work'[d] = work[d]
  BY ZenonT(60) DEF ReplaceBegin, AtlasTypeOK, Work
<1> HIDE DEF next
<1>5. Busy' = Busy \cup {q}
  BY <1>1, <1>2, <1>3, <1>4 DEF Busy
<1>6. /\ replaced'.rule = replaced.rule /\ replaced'.kind = replaced.kind
      /\ replaced'.given = replaced.given /\ replaced'.alone = replaced.alone
      /\ replaced'.mixed = (replaced.mixed \/ Busy # {})
  BY DEF ReplaceBegin, AtlasTypeOK
<1>7. AtlasTypeOK'
  <2>1. replaced' \in [rule : Rules \cup {NoRule}, kind : Kinds, given : Fees \cup {"none"},
                       alone : BOOLEAN, mixed : BOOLEAN]
    BY DEF ReplaceBegin, AtlasTypeOK
  <2> QED
    BY <1>2, <1>3, <2>1 DEF AtlasTypeOK
<1>8. AtlasIsOneSource'
  BY <1>2, <1>6 DEF AtlasIsOneSource, AtlasTypeOK
<1>9. OneAtWork'
  <2>1. \A d \in Busy' : work'[d].rule \in Rules
    BY <1>1, <1>3, <1>4, <1>5 DEF OneAtWork, Busy
  <2>2. \A d \in Busy' : work'[d].alone => d = q /\ Busy = {}
    BY <1>1, <1>3, <1>4, <1>5 DEF Busy
  <2>3. work'[q].alone => KnowsAll(q)'
    BY <1>1, <1>2, <1>3, <1>5 DEF KnowsAll
  <2>4. ~replaced'.mixed => \A d \in Busy' : work'[d].alone
    BY <1>1, <1>3, <1>5, <1>6
  <2>5. replaced'.alone \/ ~replaced'.mixed => places' = NewPlaces(replaced'.rule)
    BY <1>2, <1>6 DEF OneAtWork
  <2> QED
    BY <2>1, <2>2, <2>3, <2>4, <2>5 DEF OneAtWork
<1> QED
  BY <1>7, <1>8, <1>9

LEMMA FailureKeepsAtlas ==
  ASSUME AtlasInv, NEW q \in Replacers, ReplaceFails(q)
  PROVE  AtlasInv'
<1> USE DEF AtlasInv
<1>1. /\ work' \in [Replacers -> Work] /\ work'[q] = NoWork
      /\ \A d \in Replacers \ {q} : work'[d] = work[d]
      /\ UNCHANGED <<fee, places, bands, replaced>>
  BY WorkTypes DEF ReplaceFails, AtlasTypeOK
<1>2. Busy' = Busy \ {q}
  BY <1>1, WorkTypes DEF Busy
<1>3. \A d \in Busy' : ~work'[d].alone
  BY <1>1, <1>2 DEF OneAtWork, KnowsAll, ReplaceFails, Busy
<1>4. replaced.mixed \/ Busy' = {}
  BY <1>1, <1>2, <1>3 DEF OneAtWork, KnowsAll, ReplaceFails, Busy
<1>5. AtlasTypeOK' /\ AtlasIsOneSource'
  BY <1>1 DEF AtlasTypeOK, AtlasIsOneSource
<1> QED
  BY <1>1, <1>2, <1>3, <1>4, <1>5 DEF OneAtWork, Busy

\* A request finds or deletes rows.
LEMMA StepKeepsAtlas ==
  ASSUME AtlasInv, NEW q \in Replacers,
         FindBands(q) \/ DeleteBands(q) \/ FindPlaces(q) \/ DeletePlaces(q)
  PROVE  AtlasInv'
<1> USE DEF AtlasInv
<1> DEFINE w == work[q]
           n == work'[q]
<1>1. w \in Work /\ work \in [Replacers -> Work]
  BY DEF AtlasTypeOK
<1>2. UNCHANGED <<fee, places, bands, replaced>>
  BY DEF FindBands, DeleteBands, FindPlaces, DeletePlaces, Does
<1>3. OnesBands \subseteq Scopes \X Kinds /\ Named \subseteq Labels
  BY DEF OnesBands, Named, Id, AtlasTypeOK, Band, Place
<1>4. OnesBands = {Id(b) : b \in {b \in bands : b.id[1] \in {"council"} \cup {p.label : p \in places}}}
  BY DEF OnesBands, Named
<1> DEFINE Stays == /\ work' \in [Replacers -> Work]
                    /\ \A d \in Replacers \ {q} : work'[d] = work[d]
                    /\ n.rule = w.rule /\ n.alone = w.alone /\ n.kind = w.kind /\ n.seen = w.seen
           Moves == /\ w.at # "idle" /\ n.at # "idle"
                    /\ \/ w.at = "find" /\ n.at = "bands" /\ n.found = OnesBands
                       \/ w.at = "bands" /\ n.at = "search" /\ n.found = w.found /\ n.gone = w.found
                       \/ /\ w.at = "search" /\ n.at = "places" /\ n.foundPlaces = Named
                          /\ n.found = w.found /\ n.gone = w.gone
                       \/ /\ w.at = "places" /\ n.at = "write" /\ n.gonePlaces = w.foundPlaces
                          /\ n.found = w.found /\ n.gone = w.gone /\ n.foundPlaces = w.foundPlaces
<1>5. Stays /\ Moves
  <2>1. CASE FindBands(q)
    <3>1. w.at = "find" /\ work' = [work EXCEPT ![q] = [[w EXCEPT !.found = OnesBands] EXCEPT !.at = "bands"]]
      BY <1>4, <2>1 DEF FindBands, Does
    <3>2. [[w EXCEPT !.found = OnesBands] EXCEPT !.at = "bands"] \in Work
      BY <1>1, <1>3 DEF Work
    <3> QED
      BY <1>1, <3>1, <3>2 DEF Work
  <2>2. CASE DeleteBands(q)
    <3>1. w.at = "bands" /\ work' = [work EXCEPT ![q] = [[w EXCEPT !.gone = w.found] EXCEPT !.at = "search"]]
      BY <2>2 DEF DeleteBands, Does
    <3>2. [[w EXCEPT !.gone = w.found] EXCEPT !.at = "search"] \in Work
      BY <1>1 DEF Work
    <3> QED
      BY <1>1, <3>1, <3>2 DEF Work
  <2>3. CASE FindPlaces(q)
    <3>1. w.at = "search" /\ work' = [work EXCEPT ![q] = [[w EXCEPT !.foundPlaces = Named] EXCEPT !.at = "places"]]
      BY <2>3 DEF FindPlaces, Does, Named
    <3>2. [[w EXCEPT !.foundPlaces = Named] EXCEPT !.at = "places"] \in Work
      BY <1>1, <1>3 DEF Work
    <3> QED
      BY <1>1, <3>1, <3>2 DEF Work
  <2>4. CASE DeletePlaces(q)
    <3>1. w.at = "places" /\ work' = [work EXCEPT ![q] = [[w EXCEPT !.gonePlaces = w.foundPlaces] EXCEPT !.at = "write"]]
      BY <2>4 DEF DeletePlaces, Does
    <3>2. [[w EXCEPT !.gonePlaces = w.foundPlaces] EXCEPT !.at = "write"] \in Work
      BY <1>1 DEF Work
    <3> QED
      BY <1>1, <3>1, <3>2 DEF Work
  <2> QED
    BY <2>1, <2>2, <2>3, <2>4
<1>6. Busy' = Busy /\ q \in Busy
  BY <1>5 DEF Busy
<1>7. AtlasTypeOK' /\ AtlasIsOneSource'
  BY <1>2, <1>5 DEF AtlasTypeOK, AtlasIsOneSource
<1>8. OnesBands' = OnesBands /\ Named' = Named
  BY <1>2 DEF OnesBands, Named
<1>9. n.alone => KnowsAll(q)'
  BY <1>2, <1>5, <1>6, <1>8 DEF OneAtWork, KnowsAll
<1>10. \A d \in Busy' \ {q} : ~work'[d].alone
  BY <1>5, <1>6 DEF OneAtWork, KnowsAll, Busy
<1>11. /\ \A d \in Busy' : work'[d].rule \in Rules
       /\ ~replaced'.mixed => \A d \in Busy' : work'[d].alone
  BY <1>2, <1>5, <1>6 DEF OneAtWork, Busy
<1>12. replaced'.alone \/ ~replaced'.mixed => places' = NewPlaces(replaced'.rule)
  BY <1>2 DEF OneAtWork
<1> QED
  BY <1>7, <1>9, <1>10, <1>11, <1>12 DEF OneAtWork

\* The source is written and committed: what the request has found to be gone
\* is gone, and the others are told so.
LEMMA WriteKeepsAtlas ==
  ASSUME AtlasInv, NEW q \in Replacers, ReplaceWrite(q)
  PROVE  AtlasInv'
<1> USE DEF AtlasInv
<1> DEFINE w == work[q]
           ids == w.rule.banded \X {w.kind}
           otherBands == {b \in bands : Id(b) \notin w.gone}
           otherPlaces == {p \in places : p.label \notin w.gonePlaces}
           newBands == NewBands(w.kind, w.rule)
           newPlaces == NewPlaces(w.rule)
<1>1. /\ w.at = "write" /\ fee' = NewFee(w)
      /\ bands' = {b \in otherBands : Id(b) \notin ids} \cup newBands
      /\ places' = {p \in otherPlaces : p.label \notin w.rule.localities} \cup newPlaces
      /\ work' = CommittedBy(q)
      /\ replaced' = [replaced EXCEPT !.rule = w.rule, !.kind = w.kind, !.alone = w.alone,
           !.given = IF w.rule.fee = "none" /\ w.kind = "import" THEN @ ELSE NewFee(w)]
  BY DEF ReplaceWrite
<1>2. /\ w \in Work /\ w.rule \in Rules /\ q \in Busy /\ w.kind \in Kinds
      /\ w.seen \in Fees \cup {"none"} /\ w.alone \in BOOLEAN
  BY <1>1 DEF OneAtWork, Busy, AtlasTypeOK, Work
<1>3. /\ w.rule.localities \subseteq Labels /\ w.rule.fee \in Fees \cup {"none"}
      /\ w.rule.banded \subseteq Scopes
  BY <1>2, WorkTypes DEF Scopes
<1>4. NewFee(w) \in Fees \cup {"none"}
  BY <1>2, <1>3 DEF NewFee, Fees
<1>5. /\ replaced'.rule = w.rule /\ replaced'.kind = w.kind /\ replaced'.alone = w.alone
      /\ replaced'.mixed = replaced.mixed
      /\ replaced'.given = IF w.rule.fee = "none" /\ w.kind = "import" THEN replaced.given ELSE NewFee(w)
      /\ replaced' \in [rule : Rules \cup {NoRule}, kind : Kinds, given : Fees \cup {"none"},
                        alone : BOOLEAN, mixed : BOOLEAN]
  <2>1. replaced \in [rule : Rules \cup {NoRule}, kind : Kinds, given : Fees \cup {"none"},
                      alone : BOOLEAN, mixed : BOOLEAN]
    BY DEF AtlasTypeOK
  <2> HIDE DEF w
  <2> QED
    BY <1>1, <1>2, <1>4, <2>1
<1>6. /\ work' \in [Replacers -> Work] /\ work'[q] = NoWork
      /\ \A d \in Replacers \ {q} : /\ work'[d].at = work[d].at /\ work'[d].rule = work[d].rule
                                    /\ work'[d].alone = work[d].alone
  <2> DEFINE Freed(v) == [v EXCEPT !.found = @ \ w.gone, !.foundPlaces = @ \ w.gonePlaces]
  <2>1. \A v \in Work : /\ Freed(v) \in Work /\ Freed(v).at = v.at /\ Freed(v).rule = v.rule
                        /\ Freed(v).alone = v.alone
    BY DEF Work
  <2>2. work \in [Replacers -> Work]
    BY DEF AtlasTypeOK
  <2>3. work' = [d \in Replacers |-> IF d = q THEN NoWork ELSE Freed(work[d])]
    BY <1>1 DEF CommittedBy
  <2> HIDE DEF Freed
  <2> QED
    BY <2>1, <2>2, <2>3, WorkTypes
<1>7. Busy' = Busy \ {q}
  BY <1>6, WorkTypes DEF Busy
<1>8. \A d \in Busy' : ~work'[d].alone /\ work'[d].rule \in Rules
  BY <1>2, <1>6, <1>7 DEF OneAtWork, KnowsAll, Busy
<1>9. ~replaced.mixed => w.alone /\ Busy' = {}
  BY <1>2, <1>7, <1>8 DEF OneAtWork, KnowsAll
<1>10. AtlasTypeOK'
  <2>1. /\ \A b \in newBands : b \in Band /\ b.id \in ids
        /\ \A one, two \in newBands : one.id = two.id => one = two
    BY <1>2, <1>3 DEF NewBands, Band
  <2>2. /\ \A p \in newPlaces : p \in Place /\ p.label \in w.rule.localities
        /\ \A one, two \in newPlaces : one.label = two.label => one = two
    BY <1>2, <1>3 DEF NewPlaces, Place
  <2>3. bands' \subseteq Band /\ \A one, two \in bands' : one.id = two.id => one = two
    BY <1>1, <2>1 DEF AtlasTypeOK, Id
  <2>4. places' \subseteq Place /\ \A one, two \in places' : one.label = two.label => one = two
    BY <1>1, <2>2 DEF AtlasTypeOK
  <2> QED
    BY <1>1, <1>4, <1>5, <1>6, <2>3, <2>4 DEF AtlasTypeOK
<1>11. ASSUME w.alone PROVE w.gone = OnesBands /\ w.gonePlaces = Named /\ (w.kind = "import" => w.seen = fee)
  BY <1>1, <1>2, <1>11 DEF OneAtWork, KnowsAll
<1>12. ASSUME w.alone PROVE places' = newPlaces
  BY <1>1, <1>11, <1>12 DEF Named
<1>13. ASSUME w.alone, NEW b \in otherBands PROVE b.id[1] \notin {"council"} \cup Named
  BY <1>11, <1>13 DEF OnesBands
<1>14. ASSUME ~replaced.mixed PROVE otherBands = {}
  <2>1. w.alone
    BY <1>9, <1>14
  <2>2. /\ bands = NewBands(replaced.kind, replaced.rule)
        /\ places = NewPlaces(replaced.rule)
    BY <1>14 DEF AtlasIsOneSource, OneAtWork
  <2>3. replaced.rule \in Rules \cup {NoRule}
    BY DEF AtlasTypeOK
  <2>4. replaced.rule.banded \subseteq replaced.rule.localities \cup {"council"}
    BY <2>3, WorkTypes
  <2>5. Named = replaced.rule.localities
    <3>1. \A l \in replaced.rule.localities :
            [label |-> l, rule |-> replaced.rule] \in NewPlaces(replaced.rule)
      BY DEF NewPlaces
    <3>2. \A p \in NewPlaces(replaced.rule) : p.label \in replaced.rule.localities
      BY DEF NewPlaces
    <3>3. \A l \in replaced.rule.localities : [label |-> l, rule |-> replaced.rule].label = l
      OBVIOUS
    <3> QED
      BY <2>2, <3>1, <3>2, <3>3 DEF Named
  <2>6. \A b \in bands : b.id[1] \in {"council"} \cup Named
    BY <2>2, <2>4, <2>5 DEF NewBands
  <2> QED
    BY <1>13, <2>1, <2>6
<1>15. ASSUME ~replaced.mixed PROVE bands' = newBands /\ fee' = replaced'.given
  <2>1. bands' = newBands
    BY <1>1, <1>14, <1>15
  <2>2. w.alone /\ fee = replaced.given
    BY <1>9, <1>15 DEF AtlasIsOneSource
  <2> QED
    BY <1>1, <1>5, <1>11, <2>1, <2>2 DEF NewFee
<1>16. ASSUME w.alone
       PROVE  {b \in bands' : b.id[1] = "council"} = {b \in newBands : b.id[1] = "council"}
  BY <1>1, <1>13, <1>16
<1>17. AtlasIsOneSource'
  BY <1>5, <1>12, <1>15, <1>16 DEF AtlasIsOneSource
<1>18. OneAtWork'
  BY <1>5, <1>8, <1>9, <1>12 DEF OneAtWork
<1> QED
  BY <1>10, <1>17, <1>18

LEMMA AtlasInvKept == AtlasInv /\ [AtlasNext]_atlasVars => AtlasInv'
<1> SUFFICES ASSUME AtlasInv, [AtlasNext]_atlasVars PROVE AtlasInv'
  OBVIOUS
<1>1. CASE UNCHANGED atlasVars
  BY <1>1 DEF atlasVars, AtlasInv, AtlasTypeOK, OneAtWork, KnowsAll, AtlasIsOneSource, Busy,
              OnesBands, Named
<1> QED
  BY <1>1, BeginKeepsAtlas, StepKeepsAtlas, WriteKeepsAtlas, FailureKeepsAtlas DEF AtlasNext

LEMMA AtlasInvAlways == AtlasSpec => []AtlasInv
BY AtlasInvFirst, AtlasInvKept, PTL DEF AtlasSpec

\* The localities and the bands of a council are those of one source, the one
\* that was committed last, unless another replacement was in flight meanwhile.
THEOREM AtlasHasOneSource == AtlasSpec => []AtlasIsOneSource
<1>1. AtlasInv => AtlasIsOneSource
  BY DEF AtlasInv
<1> QED
  BY <1>1, AtlasInvAlways, PTL

-----------------------------------------------------------------------------
(* LruTtlCache.                                                              *)

\* The places of a filter are as many as the set has elements, go up, and
\* leave out none.
LEMMA PlacesAreFilled ==
  ASSUME NEW m \in Nat, NEW S \in SUBSET (1..m)
  PROVE  /\ IsFiniteSet(S) /\ Cardinality(S) \in Nat /\ Cardinality(S) <= m
         /\ \A n \in 1..Cardinality(S) : NthOf(S, n) \in S
         /\ \A a, b \in 1..Cardinality(S) : a < b => NthOf(S, a) < NthOf(S, b)
         /\ \A i \in S : \E n \in 1..Cardinality(S) : NthOf(S, n) = i
<1> DEFINE c == Cardinality(S)
           UpTo(i) == {j \in S : j <= i}
           rank == [i \in S |-> Cardinality(UpTo(i))]
<1>1. IsFiniteSet(S) /\ c \in Nat /\ c <= m
  <2>1. IsFiniteSet(1..m) /\ Cardinality(1..m) = m
    BY FS_Interval
  <2>2. IsFiniteSet(S) /\ c <= Cardinality(1..m)
    BY <2>1, FS_Subset
  <2> QED
    BY <2>1, <2>2, FS_CardinalityType
<1>2. ASSUME NEW i \in S
      PROVE  IsFiniteSet(UpTo(i)) /\ rank[i] = Cardinality(UpTo(i)) /\ rank[i] \in 1..c
  <2>1. UpTo(i) \in SUBSET S /\ i \in UpTo(i)
    OBVIOUS
  <2>2. IsFiniteSet(UpTo(i)) /\ Cardinality(UpTo(i)) <= c
    BY <1>1, <2>1, FS_Subset
  <2>3. Cardinality(UpTo(i)) \in Nat
    BY <2>2, FS_CardinalityType
  <2>4. Cardinality(UpTo(i)) # 0
    BY <2>1, <2>2, FS_EmptySet
  <2> HIDE DEF UpTo
  <2> QED
    BY <1>1, <2>2, <2>3, <2>4
<1>3. ASSUME NEW i \in S, NEW j \in S, i < j
      PROVE  rank[i] < rank[j]
  <2>0. i \in Int /\ j \in Int /\ \A x \in S : x \in Int
    OBVIOUS
  <2>1. UpTo(i) \in SUBSET (UpTo(j) \ {j}) /\ j \in UpTo(j)
    <3>1. ASSUME NEW x \in UpTo(i) PROVE x \in UpTo(j) /\ x # j
      BY <1>3, <2>0
    <3>2. j \in UpTo(j)
      BY <2>0
    <3> HIDE DEF UpTo
    <3> QED
      BY <3>1, <3>2
  <2>2. /\ IsFiniteSet(UpTo(i)) /\ IsFiniteSet(UpTo(j))
        /\ rank[i] = Cardinality(UpTo(i)) /\ rank[j] = Cardinality(UpTo(j))
        /\ rank[i] \in 1..c /\ rank[j] \in 1..c
    BY <1>2
  <2> HIDE DEF UpTo, rank
  <2>3. IsFiniteSet(UpTo(j) \ {j}) /\ Cardinality(UpTo(j) \ {j}) = Cardinality(UpTo(j)) - 1
    BY <2>1, <2>2, FS_RemoveElement
  <2>4. Cardinality(UpTo(i)) <= Cardinality(UpTo(j) \ {j})
    BY <2>1, <2>3, FS_Subset
  <2> QED
    BY <1>1, <2>2, <2>3, <2>4
<1>4. rank \in [S -> 1..c]
  BY <1>2
<1> HIDE DEF rank
<1>5. \A i, j \in S : rank[i] = rank[j] => i = j
  <2> SUFFICES ASSUME NEW i \in S, NEW j \in S, i # j PROVE rank[i] # rank[j]
    OBVIOUS
  <2>1. i < j \/ j < i
    OBVIOUS
  <2>2. rank[i] \in Nat /\ rank[j] \in Nat
    BY <1>1, <1>4
  <2>3. rank[i] < rank[j] \/ rank[j] < rank[i]
    BY <1>3, <2>1
  <2> QED
    BY <2>2, <2>3
<1>6. \A n \in 1..c : \E i \in S : rank[i] = n
  <2>1. rank \in Injection(S, 1..c)
    <3>1. IsInjective(rank)
      BY <1>4, <1>5 DEF IsInjective
    <3> QED
      BY <1>4, <3>1, Zenon DEF Injection
  <2>2. IsFiniteSet(1..c) /\ Cardinality(1..c) = c
    BY <1>1, FS_Interval
  <2>3. rank \in Surjection(S, 1..c)
    BY <2>1, <2>2, FS_Injection
  <2> QED
    BY <2>3 DEF Surjection
<1>7. ASSUME NEW n \in 1..c
      PROVE  NthOf(S, n) \in S /\ rank[NthOf(S, n)] = n
  <2>1. PICK i \in S : rank[i] = n
    BY <1>6
  <2>2. Cardinality(UpTo(i)) = n
    BY <1>2, <2>1
  <2>3. NthOf(S, n) \in S /\ Cardinality(UpTo(NthOf(S, n))) = n
    BY <2>2 DEF NthOf
  <2> QED
    BY <1>2, <2>3
<1>8. ASSUME NEW a \in 1..c, NEW b \in 1..c, a < b
      PROVE  NthOf(S, a) < NthOf(S, b)
  <2>1. /\ NthOf(S, a) \in S /\ rank[NthOf(S, a)] = a
        /\ NthOf(S, b) \in S /\ rank[NthOf(S, b)] = b
    BY <1>7
  <2>2. PICK pa, pb \in S : pa = NthOf(S, a) /\ pb = NthOf(S, b) /\ rank[pa] = a /\ rank[pb] = b
    BY <2>1
  <2>3. pa # pb
    BY <1>8, <2>2
  <2>4. ~(pb < pa)
    <3>1. ASSUME pb < pa PROVE FALSE
      <4>1. rank[pb] < rank[pa]
        BY <1>3, <3>1
      <4>2. b < a /\ a \in Int /\ b \in Int
        BY <1>1, <2>2, <4>1
      <4> QED
        BY <1>8, <4>2
    <3> QED
      BY <3>1
  <2>5. pa \in Int /\ pb \in Int
    OBVIOUS
  <2>6. pa < pb
    BY <2>3, <2>4, <2>5
  <2> QED
    BY <2>2, <2>6
<1>9. ASSUME NEW i \in S
      PROVE  \E n \in 1..c : NthOf(S, n) = i
  <2>1. rank[i] \in 1..c
    BY <1>4
  <2>2. NthOf(S, rank[i]) \in S /\ rank[NthOf(S, rank[i])] = rank[i]
    BY <1>7, <2>1
  <2> QED
    BY <1>5, <2>1, <2>2
<1> QED
  BY <1>1, <1>7, <1>8, <1>9

LEMMA FilteredIs ==
  ASSUME NEW T, NEW s \in Seq(T), NEW S \in SUBSET DOMAIN s
  PROVE  /\ Filtered(s, S) \in Seq(T) /\ DOMAIN Filtered(s, S) = 1..Cardinality(S)
         /\ Len(Filtered(s, S)) = Cardinality(S) /\ Cardinality(S) \in Nat
         /\ \A n \in 1..Cardinality(S) : NthOf(S, n) \in S /\ Filtered(s, S)[n] = s[NthOf(S, n)]
<1>1. Len(s) \in Nat /\ DOMAIN s = 1..Len(s) /\ \A i \in 1..Len(s) : s[i] \in T
  BY LenProperties, ElementOfSeq
<1>2. Cardinality(S) \in Nat /\ \A n \in 1..Cardinality(S) : NthOf(S, n) \in S
  BY <1>1, PlacesAreFilled
<1>3. Filtered(s, S) \in [1..Cardinality(S) -> T]
  BY <1>1, <1>2 DEF Filtered
<1>4. Filtered(s, S) \in Seq(T)
  BY <1>2, <1>3
<1>5. DOMAIN Filtered(s, S) = 1..Cardinality(S)
  BY DEF Filtered
<1>6. Len(Filtered(s, S)) \in Nat /\ DOMAIN Filtered(s, S) = 1..Len(Filtered(s, S))
  BY <1>4, LenProperties
<1>7. Len(Filtered(s, S)) = Cardinality(S)
  BY <1>2, <1>3, <1>4
<1> QED
  BY <1>2, <1>4, <1>5, <1>7 DEF Filtered

\* Entries whose keys were used in the order in which they stand, and which
\* are what was put.
Tidy(entries, puts, used) ==
  /\ entries \in Seq(Entry)
  /\ \A i, j \in DOMAIN entries : i < j => entries[j].key \in used[entries[i].key]
  /\ \A i \in DOMAIN entries : entries[i].value = puts[entries[i].key].value
                               /\ entries[i].left = puts[entries[i].key].left

\* No key was used since itself; what has time left is there, or as many others
\* as the cache can hold were used since.
LruInv ==
  /\ LruTypeOK /\ Tidy(store, put, since)
  /\ Len(store) <= MaxEntries
  /\ \A k \in Keys : IsFiniteSet(since[k]) /\ k \notin since[k]
  /\ \A k \in Keys : put[k].left > 0 /\ Hits(k) = {} => Cardinality(since[k]) >= MaxEntries

LEMMA EntriesAre ==
  ASSUME NEW s \in Seq(Entry)
  PROVE  /\ Len(s) \in Nat /\ DOMAIN s = 1..Len(s)
         /\ \A i \in DOMAIN s : s[i] \in Entry /\ s[i].key \in Keys
<1>1. Len(s) \in Nat /\ DOMAIN s = 1..Len(s) /\ \A i \in 1..Len(s) : s[i] \in Entry
  BY LenProperties, ElementOfSeq
<1> QED
  BY <1>1 DEF Entry

\* A filter keeps entries tidy, keeps what it lets through and nothing else.
LEMMA FilterIsTidy ==
  ASSUME NEW puts, NEW used, NEW s, Tidy(s, puts, used), NEW S \in SUBSET DOMAIN s
  PROVE  /\ Tidy(Filtered(s, S), puts, used)
         /\ Len(Filtered(s, S)) <= Len(s)
         /\ \A i \in S : \E n \in DOMAIN Filtered(s, S) : Filtered(s, S)[n] = s[i]
         /\ \A n \in DOMAIN Filtered(s, S) : \E i \in S : Filtered(s, S)[n] = s[i]
<1> DEFINE t == Filtered(s, S)
<1>1. s \in Seq(Entry)
  BY DEF Tidy
<1>2. /\ t \in Seq(Entry) /\ DOMAIN t = 1..Cardinality(S) /\ Len(t) = Cardinality(S)
      /\ Cardinality(S) \in Nat
      /\ \A n \in 1..Cardinality(S) : NthOf(S, n) \in S /\ t[n] = s[NthOf(S, n)]
  BY <1>1, FilteredIs
<1>3. /\ Cardinality(S) <= Len(s)
      /\ \A a, b \in 1..Cardinality(S) : a < b => NthOf(S, a) < NthOf(S, b)
      /\ \A i \in S : \E n \in 1..Cardinality(S) : NthOf(S, n) = i
  BY <1>1, EntriesAre, PlacesAreFilled
<1> HIDE DEF t
<1>4. ASSUME NEW i \in DOMAIN t, NEW j \in DOMAIN t, i < j
      PROVE  t[j].key \in used[t[i].key]
  <2>1. NthOf(S, i) \in DOMAIN s /\ NthOf(S, j) \in DOMAIN s /\ NthOf(S, i) < NthOf(S, j)
    BY <1>2, <1>3, <1>4
  <2> QED
    BY <1>2, <1>4, <2>1 DEF Tidy
<1>5. ASSUME NEW i \in DOMAIN t
      PROVE  t[i].value = puts[t[i].key].value /\ t[i].left = puts[t[i].key].left
  <2>1. NthOf(S, i) \in DOMAIN s /\ t[i] = s[NthOf(S, i)]
    BY <1>2, <1>5
  <2> QED
    BY <2>1 DEF Tidy
<1>6. Tidy(t, puts, used)
  BY <1>2, <1>4, <1>5 DEF Tidy
<1> QED
  BY <1>2, <1>3, <1>6 DEF t

\* What is appended keeps entries tidy if nothing before it was used since.
LEMMA AppendIsTidy ==
  ASSUME NEW puts, NEW used, NEW s, Tidy(s, puts, used), NEW e \in Entry,
         \A i \in DOMAIN s : e.key \in used[s[i].key],
         e.value = puts[e.key].value, e.left = puts[e.key].left
  PROVE  /\ Tidy(Append(s, e), puts, used)
         /\ DOMAIN Append(s, e) = 1..(Len(s) + 1) /\ Len(Append(s, e)) = Len(s) + 1
         /\ \A i \in DOMAIN s : Append(s, e)[i] = s[i]
         /\ Append(s, e)[Len(s) + 1] = e
<1> DEFINE t == Append(s, e)
<1>1. s \in Seq(Entry) /\ Len(s) \in Nat /\ DOMAIN s = 1..Len(s)
  BY EntriesAre DEF Tidy
<1>2. /\ t \in Seq(Entry) /\ Len(t) = Len(s) + 1
      /\ \A i \in 1..Len(s) : t[i] = s[i]
      /\ t[Len(s) + 1] = e
  BY <1>1, AppendProperties
<1>3. DOMAIN t = 1..(Len(s) + 1)
  BY <1>2, EntriesAre
<1> HIDE DEF t
<1>4. ASSUME NEW i \in DOMAIN t, NEW j \in DOMAIN t, i < j
      PROVE  t[j].key \in used[t[i].key]
  <2>1. i \in DOMAIN s /\ t[i] = s[i]
    BY <1>1, <1>2, <1>3, <1>4
  <2>2. CASE j = Len(s) + 1
    BY <1>2, <2>1, <2>2
  <2>3. CASE j # Len(s) + 1
    <3>1. j \in DOMAIN s /\ t[j] = s[j]
      BY <1>1, <1>2, <1>3, <2>3
    <3> QED
      BY <1>4, <2>1, <3>1 DEF Tidy
  <2> QED
    BY <2>2, <2>3
<1>5. ASSUME NEW i \in DOMAIN t
      PROVE  t[i].value = puts[t[i].key].value /\ t[i].left = puts[t[i].key].left
  <2>1. CASE i = Len(s) + 1
    BY <1>2, <2>1
  <2>2. CASE i # Len(s) + 1
    <3>1. i \in DOMAIN s /\ t[i] = s[i]
      BY <1>1, <1>2, <1>3, <2>2
    <3> QED
      BY <3>1 DEF Tidy
  <2> QED
    BY <2>1, <2>2
<1>6. Tidy(t, puts, used)
  BY <1>2, <1>4, <1>5 DEF Tidy
<1> QED
  BY <1>1, <1>2, <1>3, <1>6 DEF t

\* The newest are the end of the entries: tidy, at most n, and all of them
\* unless more than n stand before the end.
LEMMA NewestAreTidy ==
  ASSUME NEW puts, NEW used, NEW s, Tidy(s, puts, used), NEW n \in Nat
  PROVE  LET gone == IF Len(s) > n THEN Len(s) - n ELSE 0
         IN  /\ Tidy(Newest(s, n), puts, used)
             /\ Len(Newest(s, n)) = Len(s) - gone /\ Len(Newest(s, n)) <= n
             /\ \A i \in DOMAIN Newest(s, n) : Newest(s, n)[i] = s[i + gone] /\ i + gone \in DOMAIN s
<1> DEFINE gone == IF Len(s) > n THEN Len(s) - n ELSE 0
           t == Newest(s, n)
<1>1. s \in Seq(Entry) /\ Len(s) \in Nat /\ DOMAIN s = 1..Len(s)
  BY EntriesAre DEF Tidy
<1>2. gone \in 0..Len(s) /\ Len(s) - gone <= n /\ t = SubSeq(s, gone + 1, Len(s))
  BY <1>1 DEF Newest
<1> HIDE DEF gone, t
<1>3. /\ t \in Seq(Entry) /\ Len(t) = Len(s) - gone
      /\ \A i \in 1..(Len(s) - gone) : t[i] = s[i + gone]
  <2>1. \A i \in (gone + 1)..Len(s) : s[i] \in Entry
    BY <1>1, <1>2, EntriesAre
  <2>2. t = [i \in 1..(Len(s) - gone) |-> s[i + gone]]
    BY <1>1, <1>2
  <2>3. t \in [1..(Len(s) - gone) -> Entry] /\ Len(s) - gone \in Nat
    <3>1. \A i \in 1..(Len(s) - gone) : i + gone \in (gone + 1)..Len(s)
      BY <1>1, <1>2
    <3>2. Len(s) - gone \in Nat
      BY <1>1, <1>2
    <3> QED
      BY <2>1, <2>2, <3>1, <3>2
  <2>4. t \in Seq(Entry) /\ Len(t) = Len(s) - gone
    BY <2>3
  <2> QED
    BY <2>2, <2>4
<1>4. DOMAIN t = 1..(Len(s) - gone)
  BY <1>3, EntriesAre
<1>5. ASSUME NEW i \in DOMAIN t
      PROVE  i \in Nat /\ i + gone \in DOMAIN s /\ t[i] = s[i + gone]
  <2>1. i \in 1..(Len(s) - gone)
    BY <1>4
  <2>2. t[i] = s[i + gone]
    BY <1>3, <2>1
  <2>3. i \in Nat /\ i + gone \in 1..Len(s)
    BY <1>1, <1>2, <2>1
  <2> QED
    BY <1>1, <2>2, <2>3
<1>6. ASSUME NEW i \in DOMAIN t, NEW j \in DOMAIN t, i < j
      PROVE  t[j].key \in used[t[i].key]
  <2>1. /\ i + gone \in DOMAIN s /\ t[i] = s[i + gone]
        /\ j + gone \in DOMAIN s /\ t[j] = s[j + gone]
    BY <1>5
  <2>2. i + gone < j + gone
    BY <1>1, <1>2, <1>5, <1>6
  <2> QED
    BY <2>1, <2>2 DEF Tidy
<1>7. ASSUME NEW i \in DOMAIN t
      PROVE  t[i].value = puts[t[i].key].value /\ t[i].left = puts[t[i].key].left
  BY <1>5, <1>7 DEF Tidy
<1>8. Tidy(t, puts, used)
  BY <1>3, <1>6, <1>7 DEF Tidy
<1> QED
  BY <1>2, <1>3, <1>5, <1>8 DEF gone, t

\* Entries that are tidy hold a key once.
LEMMA TidyHoldOnce ==
  ASSUME NEW puts, NEW used, \A k \in Keys : k \notin used[k],
         NEW s, Tidy(s, puts, used), NEW i \in DOMAIN s, NEW j \in DOMAIN s, s[i].key = s[j].key
  PROVE  i = j
<1>1. s[i].key \in Keys /\ s[j].key \in Keys /\ i \in Nat /\ j \in Nat
  BY EntriesAre DEF Tidy
<1>2. ~(i < j) /\ ~(j < i)
  BY <1>1 DEF Tidy
<1> QED
  BY <1>1, <1>2

\* Using k after the others leaves entries without k as tidy as they were.
LEMMA UseKeepsTidy ==
  ASSUME LruTypeOK, NEW puts, NEW s, Tidy(s, puts, since), NEW k \in Keys, Used(k),
         \A i \in DOMAIN s : s[i].key # k
  PROVE  Tidy(s, puts, since') /\ \A i \in DOMAIN s : k \in since'[s[i].key]
<1>1. s \in Seq(Entry) /\ \A i \in DOMAIN s : s[i].key \in Keys
  BY EntriesAre DEF Tidy
<1>2. \A i \in DOMAIN s : since'[s[i].key] = since[s[i].key] \cup {k}
  BY <1>1 DEF Used
<1> QED
  BY <1>1, <1>2 DEF Tidy

\* Using a key leaves the sets finite, with no key since itself, and no smaller
\* but for its own.
LEMMA UseIsCounted ==
  ASSUME LruInv, NEW k \in Keys, Used(k)
  PROVE  /\ since' \in [Keys -> SUBSET Keys]
         /\ \A j \in Keys : IsFiniteSet(since'[j]) /\ j \notin since'[j]
         /\ \A j \in Keys : j # k => Cardinality(since'[j]) >= Cardinality(since[j])
<1>1. since' \in [Keys -> SUBSET Keys]
  BY DEF LruInv, LruTypeOK, Used
<1>2. ASSUME NEW j \in Keys
      PROVE  /\ IsFiniteSet(since'[j]) /\ j \notin since'[j]
             /\ j # k => Cardinality(since'[j]) >= Cardinality(since[j])
  <2>1. IsFiniteSet(since[j]) /\ j \notin since[j]
    BY DEF LruInv
  <2>2. CASE j = k
    <3>1. since'[j] = {}
      BY <2>2 DEF Used
    <3> QED
      BY <2>2, <3>1, FS_EmptySet
  <2>3. CASE j # k
    <3>1. since'[j] = since[j] \cup {k}
      BY <2>3 DEF Used
    <3>2. IsFiniteSet(since'[j])
      BY <2>1, <3>1, FS_AddElement
    <3>3. Cardinality(since[j]) <= Cardinality(since'[j]) /\ Cardinality(since[j]) \in Nat
          /\ Cardinality(since'[j]) \in Nat
      BY <3>1, <3>2, FS_Subset, FS_CardinalityType
    <3> QED
      BY <2>1, <2>3, <3>1, <3>2, <3>3
  <2> QED
    BY <2>2, <2>3
<1> QED
  BY <1>1, <1>2

\* n entries that are tidy and were used since k say that n keys were.
LEMMA LaterAreCounted ==
  ASSUME NEW puts, NEW used, \A j \in Keys : j \notin used[j],
         NEW s, Tidy(s, puts, used), NEW k \in Keys, IsFiniteSet(used[k]),
         \A i \in DOMAIN s : s[i].key \in used[k]
  PROVE  Len(s) <= Cardinality(used[k])
<1> DEFINE keys == [i \in 1..Len(s) |-> s[i].key]
<1>1. s \in Seq(Entry) /\ Len(s) \in Nat /\ DOMAIN s = 1..Len(s)
  BY EntriesAre DEF Tidy
<1>2. IsFiniteSet(1..Len(s)) /\ Cardinality(1..Len(s)) = Len(s)
  BY <1>1, FS_Interval
<1>3. keys \in [1..Len(s) -> used[k]]
  BY <1>1
<1>4. \A i, j \in 1..Len(s) : keys[i] = keys[j] => i = j
  BY <1>1, TidyHoldOnce
<1> HIDE DEF keys
<1>5. Cardinality(used[k]) \in Nat
  BY FS_CardinalityType
<1>6. ~(Cardinality(used[k]) < Len(s))
  BY <1>2, <1>3, <1>4, FS_PigeonHole
<1> QED
  BY <1>1, <1>5, <1>6

\* Without k: tidy entries of the other keys, all of them.
LEMMA WithoutIs ==
  ASSUME NEW puts, NEW used, NEW s, Tidy(s, puts, used), NEW k
  PROVE  /\ Tidy(Without(s, k), puts, used) /\ Len(Without(s, k)) <= Len(s)
         /\ (\E i \in DOMAIN s : s[i].key = k) => Len(Without(s, k)) + 1 <= Len(s)
         /\ \A n \in DOMAIN Without(s, k) : Without(s, k)[n].key # k
         /\ \A i \in DOMAIN s : s[i].key # k => \E n \in DOMAIN Without(s, k) : Without(s, k)[n] = s[i]
<1> DEFINE S == {i \in DOMAIN s : s[i].key # k}
           t == Filtered(s, S)
<1>1. S \in SUBSET DOMAIN s /\ t = Without(s, k)
  BY DEF Without
<1> HIDE DEF S
<1>2. s \in Seq(Entry) /\ Len(s) \in Nat /\ DOMAIN s = 1..Len(s)
  BY EntriesAre DEF Tidy
<1>3. /\ Tidy(t, puts, used) /\ Len(t) <= Len(s)
      /\ \A i \in S : \E n \in DOMAIN t : t[n] = s[i]
      /\ \A n \in DOMAIN t : \E i \in S : t[n] = s[i]
  BY <1>1, FilterIsTidy
<1>4. Len(t) = Cardinality(S) /\ Cardinality(S) \in Nat
  BY <1>1, <1>2, FilteredIs
<1>5. ASSUME NEW i \in DOMAIN s, s[i].key = k
      PROVE  Len(t) + 1 <= Len(s)
  <2> DEFINE D == 1..Len(s)
  <2>1. IsFiniteSet(D) /\ Cardinality(D) = Len(s) /\ i \in D
    BY <1>2, FS_Interval, SMTT(30)
  <2>3. S \subseteq D \ {i}
    BY <1>2, <1>5 DEF S
  <2> HIDE DEF D
  <2>2. IsFiniteSet(D \ {i}) /\ Cardinality(D \ {i}) = Len(s) - 1
    BY <2>1, FS_RemoveElement
  <2>4. Cardinality(S) <= Len(s) - 1
    BY <2>2, <2>3, FS_Subset
  <2> QED
    BY <1>2, <1>4, <2>4
<1>6. \A n \in DOMAIN t : t[n].key # k
  BY <1>3 DEF S
<1>7. \A i \in DOMAIN s : s[i].key # k => \E n \in DOMAIN t : t[n] = s[i]
  BY <1>3 DEF S
<1> HIDE DEF t
<1> QED
  BY <1>1, <1>3, <1>5, <1>6, <1>7

LEMMA GetExpiredKeeps ==
  ASSUME LruInv, NEW k \in Keys, GetExpired(k)
  PROVE  LruInv'
<1> DEFINE t == Without(store, k)
<1>1. /\ Tidy(t, put, since) /\ Len(t) <= Len(store)
      /\ \A i \in DOMAIN store : store[i].key # k => \E n \in DOMAIN t : t[n] = store[i]
  BY WithoutIs DEF LruInv
<1> HIDE DEF t
<1>2. store' = t /\ put' = put /\ since' = since
  BY DEF GetExpired, t
<1>3. put[k].left = 0
  BY DEF GetExpired, Hits, LruInv, Tidy
<1>4. ASSUME NEW j \in Keys, put'[j].left > 0, Hits(j)' = {}
      PROVE  Cardinality(since'[j]) >= MaxEntries
  <2>1. j # k
    BY <1>2, <1>3, <1>4
  <2>2. Hits(j) = {}
    BY <1>1, <1>2, <1>4, <2>1 DEF Hits
  <2> QED
    BY <1>2, <1>4, <2>2 DEF LruInv
<1>5. Len(store') <= MaxEntries
  <2>1. Len(t) \in Nat /\ Len(store) \in Nat
    BY <1>1, EntriesAre DEF LruInv, Tidy
  <2> QED
    BY <1>1, <1>2, <2>1, CacheAssumption DEF LruInv
<1> QED
  BY <1>1, <1>2, <1>4, <1>5 DEF LruInv, LruTypeOK, Tidy

LEMMA GetHitsKeeps ==
  ASSUME LruInv, NEW k \in Keys, GetHits(k)
  PROVE  LruInv'
<1> DEFINE t == Without(store, k)
<1>1. PICK i \in Hits(k) : store' = Append(t, store[i])
  BY DEF GetHits
<1>2. /\ Tidy(t, put, since) /\ Len(t) + 1 <= Len(store)
      /\ \A n \in DOMAIN t : t[n].key # k
      /\ \A j \in DOMAIN store : store[j].key # k => \E n \in DOMAIN t : t[n] = store[j]
  BY WithoutIs DEF LruInv, Hits
<1> HIDE DEF t
<1>3. Tidy(t, put, since') /\ \A n \in DOMAIN t : k \in since'[t[n].key]
  BY <1>2, UseKeepsTidy DEF LruInv, GetHits
<1>4. /\ store[i] \in Entry /\ store[i].key = k
      /\ store[i].value = put[k].value /\ store[i].left = put[k].left
  BY EntriesAre DEF Hits, LruInv, Tidy
<1>5. /\ Tidy(store', put, since') /\ Len(store') = Len(t) + 1
      /\ DOMAIN store' = 1..(Len(t) + 1)
      /\ \A n \in DOMAIN t : store'[n] = t[n]
      /\ store'[Len(t) + 1] = store[i]
  BY <1>1, <1>3, <1>4, AppendIsTidy
<1>6. Len(t) \in Nat /\ DOMAIN t = 1..Len(t)
  BY <1>2, EntriesAre DEF Tidy
<1>7. put' = put
  BY DEF GetHits
<1>8. /\ since' \in [Keys -> SUBSET Keys]
      /\ \A j \in Keys : IsFiniteSet(since'[j]) /\ j \notin since'[j]
      /\ \A j \in Keys : j # k => Cardinality(since'[j]) >= Cardinality(since[j])
  BY UseIsCounted DEF GetHits
<1>9. ASSUME NEW j \in Keys, put'[j].left > 0, Hits(j)' = {}
      PROVE  Cardinality(since'[j]) >= MaxEntries
  <2>1. \A n \in DOMAIN store' : store'[n].key # j
    BY <1>9 DEF Hits
  <2>2. j # k
    BY <1>4, <1>5, <1>6, <2>1
  <2>3. Hits(j) = {}
    <3>1. ASSUME NEW m \in DOMAIN store, store[m].key = j PROVE FALSE
      <4>1. PICK n \in DOMAIN t : t[n] = store[m]
        BY <1>2, <2>2, <3>1
      <4>2. n \in DOMAIN store' /\ store'[n] = t[n]
        BY <1>5, <1>6
      <4> QED
        BY <2>1, <3>1, <4>1, <4>2
    <3> QED
      BY <3>1 DEF Hits
  <2>4. Cardinality(since[j]) >= MaxEntries
    BY <1>7, <1>9, <2>3 DEF LruInv
  <2>5. Cardinality(since[j]) \in Nat /\ Cardinality(since'[j]) \in Nat
    BY <1>8, FS_CardinalityType DEF LruInv
  <2> QED
    BY <1>8, <2>2, <2>4, <2>5, CacheAssumption
<1>10. Len(store') <= MaxEntries
  <2>1. Len(store) \in Nat
    BY EntriesAre DEF LruInv, Tidy
  <2> QED
    BY <1>2, <1>5, <1>6, <2>1, CacheAssumption DEF LruInv
<1> QED
  BY <1>5, <1>7, <1>8, <1>9, <1>10 DEF LruInv, LruTypeOK, Tidy

LEMMA SetValueKeeps ==
  ASSUME LruInv, NEW k \in Keys, NEW v \in Values, SetValue(k, v)
  PROVE  LruInv'
<1> DEFINE t == Without(store, k)
           e == [key |-> k, value |-> v, left |-> Ttl]
           all == Append(t, e)
           alive == Alive(all)
           gone == IF Len(alive) > MaxEntries THEN Len(alive) - MaxEntries ELSE 0
<1>1. /\ store' = Newest(alive, MaxEntries)
      /\ put' = [put EXCEPT ![k] = [value |-> v, left |-> Ttl]]
      /\ Used(k) /\ Ttl > 0
  BY DEF SetValue, SwitchedOn
<1>2. /\ Tidy(t, put, since)
      /\ \A n \in DOMAIN t : t[n].key # k
      /\ \A j \in DOMAIN store : store[j].key # k => \E n \in DOMAIN t : t[n] = store[j]
  BY WithoutIs DEF LruInv
<1> HIDE DEF t
<1>3. Tidy(t, put, since') /\ \A n \in DOMAIN t : k \in since'[t[n].key]
  BY <1>1, <1>2, UseKeepsTidy DEF LruInv
<1>4. /\ put' \in [Keys -> Put]
      /\ put'[k] = [value |-> v, left |-> Ttl] /\ \A j \in Keys : j # k => put'[j] = put[j]
  BY <1>1, CacheAssumption DEF LruInv, LruTypeOK, Put
<1>5. Tidy(t, put', since')
  <2>1. \A n \in DOMAIN t : t[n].key \in Keys /\ t[n].key # k
    BY <1>2, EntriesAre DEF Tidy
  <2> QED
    BY <1>3, <1>4, <2>1 DEF Tidy
<1>6. e \in Entry /\ e.key = k /\ e.value = put'[k].value /\ e.left = put'[k].left
  BY <1>4, CacheAssumption DEF Entry
<1>7. /\ Tidy(all, put', since') /\ DOMAIN all = 1..(Len(t) + 1)
      /\ \A n \in DOMAIN t : all[n] = t[n]
      /\ all[Len(t) + 1] = e
  BY <1>3, <1>5, <1>6, AppendIsTidy
<1>8. Len(t) \in Nat /\ DOMAIN t = 1..Len(t)
  BY <1>2, EntriesAre DEF Tidy
<1> HIDE DEF all, e
<1>9. /\ Tidy(alive, put', since')
      /\ \A i \in DOMAIN all : all[i].left > 0 => \E n \in DOMAIN alive : alive[n] = all[i]
  <2> DEFINE S == {i \in DOMAIN all : all[i].left > 0}
  <2>1. S \in SUBSET DOMAIN all /\ alive = Filtered(all, S)
    BY DEF Alive
  <2> HIDE DEF S
  <2>2. Tidy(alive, put', since') /\ \A i \in S : \E n \in DOMAIN alive : alive[n] = all[i]
    BY <1>7, <2>1, FilterIsTidy
  <2> QED
    BY <2>2 DEF S
<1> HIDE DEF alive
<1>10. /\ Tidy(store', put', since')
       /\ Len(store') = Len(alive) - gone /\ Len(store') <= MaxEntries
       /\ \A i \in DOMAIN store' : store'[i] = alive[i + gone] /\ i + gone \in DOMAIN alive
  BY <1>1, <1>9, NewestAreTidy, CacheAssumption
<1>11. /\ since' \in [Keys -> SUBSET Keys]
       /\ \A j \in Keys : IsFiniteSet(since'[j]) /\ j \notin since'[j]
       /\ \A j \in Keys : j # k => Cardinality(since'[j]) >= Cardinality(since[j])
  BY <1>1, UseIsCounted
<1>12. /\ Len(alive) \in Nat /\ DOMAIN alive = 1..Len(alive)
       /\ Len(store') \in Nat /\ DOMAIN store' = 1..Len(store')
  BY <1>9, <1>10, EntriesAre DEF Tidy
<1>13. ASSUME NEW n \in DOMAIN alive, \A i \in DOMAIN store' : store'[i].key # alive[n].key
       PROVE  Cardinality(since'[alive[n].key]) >= MaxEntries
  <2>1. alive[n].key \in Keys
    BY <1>9, EntriesAre DEF Tidy
  <2>2. gone \in Nat /\ n <= gone
    <3>1. gone \in Nat
      BY <1>12, CacheAssumption
    <3> HIDE DEF gone
    <3>2. ASSUME n > gone PROVE FALSE
      <4>1. n - gone \in DOMAIN store' /\ (n - gone) + gone = n
        BY <1>10, <1>12, <3>1, <3>2
      <4> QED
        BY <1>10, <1>13, <4>1
    <3> QED
      BY <1>12, <3>1, <3>2
  <2>3. Len(store') = MaxEntries
    <3>1. n \in Nat /\ n > 0
      BY <1>12
    <3>2. gone > 0
      BY <2>2, <3>1
    <3>3. gone = Len(alive) - MaxEntries
      BY <3>2
    <3> HIDE DEF gone
    <3> QED
      BY <1>10, <1>12, <3>3, CacheAssumption
  <2> HIDE DEF gone
  <2>4. ASSUME NEW i \in DOMAIN store' PROVE store'[i].key \in since'[alive[n].key]
    <3>1. n < i + gone /\ i + gone \in DOMAIN alive /\ store'[i] = alive[i + gone]
      BY <1>10, <1>12, <2>2
    <3> QED
      BY <1>9, <3>1 DEF Tidy
  <2>5. Len(store') <= Cardinality(since'[alive[n].key])
    BY <1>10, <1>11, <2>1, <2>4, LaterAreCounted
  <2>6. Cardinality(since'[alive[n].key]) \in Nat
    BY <1>11, <2>1, FS_CardinalityType
  <2> QED
    BY <2>3, <2>5, <2>6, CacheAssumption
<1> HIDE DEF gone
<1>14. ASSUME NEW j \in Keys, put'[j].left > 0, Hits(j)' = {}
       PROVE  Cardinality(since'[j]) >= MaxEntries
  <2>1. \A n \in DOMAIN store' : store'[n].key # j
    BY <1>14 DEF Hits
  <2>2. CASE \E i \in DOMAIN all : all[i].key = j
    <3>1. PICK i \in DOMAIN all : all[i].key = j
      BY <2>2
    <3>2. all[i].left > 0
      BY <1>7, <1>14, <3>1 DEF Tidy
    <3>3. PICK n \in DOMAIN alive : alive[n] = all[i]
      BY <1>9, <3>2
    <3> QED
      BY <1>13, <2>1, <3>1, <3>3
  <2>3. CASE \A i \in DOMAIN all : all[i].key # j
    <3>1. j # k
      BY <1>6, <1>7, <1>8, <2>3
    <3>2. Hits(j) = {}
      <4>1. ASSUME NEW m \in DOMAIN store, store[m].key = j PROVE FALSE
        <5>1. PICK n \in DOMAIN t : t[n] = store[m]
          BY <1>2, <3>1, <4>1
        <5>2. n \in DOMAIN all /\ all[n] = t[n]
          BY <1>7, <1>8
        <5> QED
          BY <2>3, <4>1, <5>1, <5>2
      <4> QED
        BY <4>1 DEF Hits
    <3>3. Cardinality(since[j]) >= MaxEntries
      BY <1>4, <1>14, <3>1, <3>2 DEF LruInv
    <3>4. Cardinality(since[j]) \in Nat /\ Cardinality(since'[j]) \in Nat
      BY <1>11, FS_CardinalityType DEF LruInv
    <3> QED
      BY <1>11, <3>1, <3>3, <3>4, CacheAssumption
  <2> QED
    BY <2>2, <2>3
<1> QED
  BY <1>4, <1>10, <1>11, <1>14 DEF LruInv, LruTypeOK, Tidy

LEMMA TimeGoesByKeeps ==
  ASSUME LruInv, TimeGoesBy
  PROVE  LruInv'
<1>1. store \in Seq(Entry) /\ Len(store) \in Nat /\ DOMAIN store = 1..Len(store)
      /\ \A i \in DOMAIN store : store[i] \in Entry /\ store[i].key \in Keys
  BY EntriesAre DEF LruInv, Tidy
<1>2. \A left \in 0..Ttl : Older(left) \in 0..Ttl /\ (Older(left) > 0 => left > 0)
  BY CacheAssumption DEF Older
<1>3. ASSUME NEW i \in DOMAIN store
      PROVE  /\ store'[i] \in Entry /\ store'[i].key = store[i].key
             /\ store'[i].value = store[i].value /\ store'[i].left = Older(store[i].left)
  BY <1>1, <1>2 DEF TimeGoesBy, Entry
<1>4. DOMAIN store' = DOMAIN store /\ since' = since
  BY DEF TimeGoesBy
<1>5. store' \in Seq(Entry) /\ Len(store') = Len(store)
  <2>1. store' = [i \in 1..Len(store) |-> [store[i] EXCEPT !.left = Older(@)]]
    BY <1>1 DEF TimeGoesBy
  <2>2. store' \in [1..Len(store) -> Entry]
    BY <1>1, <1>3, <2>1
  <2> QED
    BY <1>1, <2>2
<1>6. ASSUME NEW k \in Keys
      PROVE  /\ put'[k] \in Put /\ put'[k].value = put[k].value
             /\ put'[k].left = Older(put[k].left) /\ (put'[k].left > 0 => put[k].left > 0)
  <2>1. put[k] \in Put /\ put'[k] = [put[k] EXCEPT !.left = Older(@)]
    BY DEF TimeGoesBy, LruInv, LruTypeOK
  <2> QED
    BY <1>2, <2>1 DEF Put
<1>7. put' \in [Keys -> Put]
  BY <1>6 DEF TimeGoesBy
<1>8. Tidy(store', put', since')
  <2>1. ASSUME NEW i \in DOMAIN store'
        PROVE  store'[i].value = put'[store'[i].key].value /\ store'[i].left = put'[store'[i].key].left
    <3>1. store[i].value = put[store[i].key].value /\ store[i].left = put[store[i].key].left
      BY <1>4 DEF LruInv, Tidy
    <3> QED
      BY <1>1, <1>3, <1>4, <1>6, <3>1
  <2>2. ASSUME NEW i \in DOMAIN store', NEW j \in DOMAIN store', i < j
        PROVE  store'[j].key \in since'[store'[i].key]
    BY <1>3, <1>4, <2>2 DEF LruInv, Tidy
  <2> QED
    BY <1>5, <2>1, <2>2 DEF Tidy
<1>9. \A k \in Keys : Hits(k)' = Hits(k)
  BY <1>3, <1>4 DEF Hits
<1> QED
  BY <1>4, <1>5, <1>6, <1>7, <1>8, <1>9 DEF LruInv, LruTypeOK

LEMMA LruInvFirst == LruInit => LruInv
<1> SUFFICES ASSUME LruInit PROVE LruInv
  OBVIOUS
<1>1. store = <<>> /\ store \in Seq(Entry) /\ DOMAIN store = {} /\ Len(store) = 0
  BY EmptySeq DEF LruInit
<1>2. (CHOOSE v \in Values : TRUE) \in Values
  BY CacheAssumption
<1>3. put \in [Keys -> Put] /\ \A k \in Keys : put[k].left = 0
  BY <1>2, CacheAssumption DEF LruInit, Put
<1>4. \A k \in Keys : since[k] = {}
  BY DEF LruInit
<1>5. since \in [Keys -> SUBSET Keys]
  BY DEF LruInit
<1>6. \A k \in Keys : IsFiniteSet(since[k]) /\ k \notin since[k]
  BY <1>4, FS_EmptySet
<1>7. Len(store) <= MaxEntries
  BY <1>1, CacheAssumption
<1>8. Tidy(store, put, since)
  BY <1>1 DEF Tidy
<1>9. \A k \in Keys : ~(put[k].left > 0)
  BY <1>3
<1> QED
  BY <1>1, <1>3, <1>5, <1>6, <1>7, <1>8, <1>9 DEF LruInv, LruTypeOK

LEMMA LruInvKept == LruInv /\ [LruNext]_lruVars => LruInv'
<1> SUFFICES ASSUME LruInv, [LruNext]_lruVars PROVE LruInv'
  OBVIOUS
<1>1. CASE \E k \in Keys : GetExpired(k)
  BY <1>1, GetExpiredKeeps
<1>2. CASE \E k \in Keys : GetHits(k)
  BY <1>2, GetHitsKeeps
<1>3. CASE \E k \in Keys, v \in Values : SetValue(k, v)
  BY <1>3, SetValueKeeps
<1>4. CASE TimeGoesBy
  BY <1>4, TimeGoesByKeeps
<1>5. CASE UNCHANGED lruVars
  BY <1>5 DEF lruVars, LruInv, LruTypeOK, Tidy, Hits
<1> QED
  BY <1>1, <1>2, <1>3, <1>4, <1>5 DEF LruNext

LEMMA LruInvIsEnough == LruInv => LruTypeOK /\ KeepsRecent
<1> SUFFICES ASSUME LruInv PROVE KeepsRecent
  BY DEF LruInv
<1>1. \A i, j \in DOMAIN store : store[i].key = store[j].key => i = j
  BY TidyHoldOnce DEF LruInv
<1>2. \A k \in Keys : put[k].left > 0 /\ Cardinality(since[k]) < MaxEntries => Hits(k) # {}
  <2> SUFFICES ASSUME NEW k \in Keys, put[k].left > 0, Hits(k) = {}
               PROVE  ~(Cardinality(since[k]) < MaxEntries)
    OBVIOUS
  <2>1. Cardinality(since[k]) \in Nat /\ Cardinality(since[k]) >= MaxEntries
    BY FS_CardinalityType DEF LruInv
  <2> QED
    BY <2>1, CacheAssumption
<1> QED
  BY <1>1, <1>2 DEF LruInv, Tidy, KeepsRecent

\* The cache of answers about road hazards nearby is never over-full, answers
\* with what was set last within its time only, and forgets a key within its
\* time only when as many others as it can hold were used since.
THEOREM RecentAnswersAreKept == LruSpec => [](LruTypeOK /\ KeepsRecent)
BY LruInvFirst, LruInvKept, LruInvIsEnough, PTL DEF LruSpec

-----------------------------------------------------------------------------
(* Types that the invariants above left out.                                 *)

LEMMA BandsHaveFees ==
  ASSUME locality \in Localities, council \in Councils
  PROVE  Base \in FeeState /\ \A i \in DOMAIN Bands : Bands[i].fee \in FeeState /\ Bands[i].end \in Nat
                                                      /\ Bands[i].start \in Nat
BY RulesAssumption DEF Base, Bands

\* What a driver is told is a fee that the council may charge.
LEMMA RulesAreTyped == ParkingSpec => []ParkingTypeOK
<1>1. ParkingInit => ParkingTypeOK
  BY RulesAssumption DEF ParkingInit, ParkingTypeOK, NothingTold, Told, NoChange
<1>2. ParkingTypeOK /\ [ParkingNext]_parkingVars => ParkingTypeOK'
  <2> SUFFICES ASSUME ParkingTypeOK, [ParkingNext]_parkingVars PROVE ParkingTypeOK'
    OBVIOUS
  <2>1. ASSUME NEW i \in DOMAIN Bands, TellActive(i) PROVE ParkingTypeOK'
    BY <2>1, BandsHaveFees DEF ParkingTypeOK, TellActive, Tell, Told
  <2>2. ASSUME NEW i \in DOMAIN Bands, TellComing(i) PROVE ParkingTypeOK'
    BY <2>2, BandsHaveFees DEF ParkingTypeOK, TellComing, Tell, Told
  <2>3. CASE TellBase
    BY <2>3, BandsHaveFees DEF ParkingTypeOK, TellBase, Tell, Told, NoChange
  <2>4. CASE MinutePasses
    BY <2>4, RulesAssumption DEF ParkingTypeOK, MinutePasses
  <2>5. CASE Midnight
    BY <2>5, RulesAssumption DEF ParkingTypeOK, Midnight, NothingTold, Told, NoChange
  <2>6. CASE UNCHANGED parkingVars
    BY <2>6 DEF ParkingTypeOK, parkingVars
  <2> QED
    BY <2>1, <2>2, <2>3, <2>4, <2>5, <2>6 DEF ParkingNext
<1> QED
  BY <1>1, <1>2, PTL DEF ParkingSpec

LEMMA ReviewsAreTyped == ReviewsSpec => []ReviewsTypeOK
<1> DEFINE Noted == clashes \subseteq Clashes
<1>1. ReviewsInit => Noted
  BY DEF ReviewsInit
<1>2. Noted /\ [ReviewsNext]_reviewVars => Noted'
  BY DEF ReviewsNext, ReviewCount, ReportRead, RestoreRead, ModerateRead, ReviewFind, ReviewInsert,
     ReviewSave, RestoreUndelete, RemoveDelete, HandlerFails, DayPasses, Reads, Meets, Clashes, reviewVars
<1>3. ReviewsInv /\ Noted => ReviewsTypeOK
  BY DEF ReviewsInv, RowsTyped, ReviewsTypeOK
<1> HIDE DEF Noted
<1> QED
  BY <1>1, <1>2, <1>3, ReviewsInvFirst, ReviewsInvKept, PTL DEF ReviewsSpec

-----------------------------------------------------------------------------
(* The services together.                                                    *)

\* Every service that is modelled beside the others does what it does alone.
THEOREM EachAsIfAlone ==
  MCSpec => /\ RemindersSpec /\ CacheSpec /\ ParkingSpec /\ LruSpec /\ PracticeSpec
            /\ ReviewsSpec /\ LinksSpec /\ AtlasSpec /\ AccessSpec
<1>1. MCInit => /\ RemindersInit /\ CacheInit /\ ParkingInit /\ LruInit /\ PracticeInit
                /\ ReviewsInit /\ LinksInit /\ AtlasInit /\ AccessInit
  BY DEF MCInit
<1>2. [MCNext]_<<part, reminderVars, cacheVars, parkingVars, lruVars, practiceVars, reviewVars, linkVars,
                 atlasVars, accessVars>>
      => /\ [RemindersNext]_reminderVars /\ [CacheNext]_cacheVars /\ [ParkingNext]_parkingVars
         /\ [LruNext]_lruVars /\ [PracticeNext]_practiceVars /\ [ReviewsNext]_reviewVars
         /\ [LinksNext]_linkVars /\ [AtlasNext]_atlasVars /\ [AccessNext]_accessVars
  BY DEF MCNext
<1> QED
  BY <1>1, <1>2, PTL DEF MCSpec, RemindersSpec, CacheSpec, ParkingSpec, LruSpec, PracticeSpec,
     ReviewsSpec, LinksSpec, AtlasSpec, AccessSpec

\* No service leaves its types, whichever of them moves.
THEOREM ServicesAreTyped == MCSpec => []ServicesTypeOK
<1>1. LinksInv => LinksTypeOK
  BY DEF LinksInv
<1>2. PracticeInv => PracticeTypeOK
  BY DEF PracticeInv
<1>3. AtlasInv => AtlasTypeOK
  BY DEF AtlasInv
<1>4. AccessInv => AccessTypeOK
  BY DEF AccessInv
<1>5. /\ RemindersTypeOK /\ CacheTypeOK /\ ParkingTypeOK /\ LruTypeOK /\ PracticeTypeOK
      /\ ReviewsTypeOK /\ LinksTypeOK /\ AtlasTypeOK /\ AccessTypeOK
      => ServicesTypeOK
  BY DEF ServicesTypeOK
<1>6. LinksSpec => []LinksTypeOK
  BY <1>1, LinksInvFirst, LinksInvKept, PTL DEF LinksSpec
<1> QED
  BY <1>2, <1>3, <1>4, <1>5, <1>6, EachAsIfAlone, RemindersTyped, CacheTyped, RulesAreTyped,
     RecentAnswersAreKept, PracticeInvAlways, ReviewsAreTyped, AtlasInvAlways, AccessInvAlways, PTL
=============================================================================
