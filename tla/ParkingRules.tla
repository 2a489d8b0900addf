---------------------------- MODULE ParkingRules ----------------------------
(***************************************************************************)
(* What a driver is told about a parking spot.  ParkingService.toSearchItem*)
(* takes the rules of the locality the spot is in, or else those of its    *)
(* council; evaluateTimeAwareStatus derives from them the status now, the  *)
(* minute of the next change, and what is announced for it.                *)
(*                                                                         *)
(* Time is a day code and a minute.  Time bands are numbered in the order  *)
(* in which the query returns them.  The geometry that finds the locality, *)
(* the notes and the wording are left out.                                 *)
(***************************************************************************)
EXTENDS Integers, Sequences

CONSTANTS Days, Workdays, Weekend,  \* day codes
          DayMinutes,               \* minutes of a day
          Localities, Councils      \* the rules they may have

FeeState == {"free", "paid", "restricted", "unknown"}

\* Fee "none": the spot is in no locality.  A spot without a council counts as
\* one whose council has the fee of the spot and no bands.
ASSUME RulesAssumption ==
  /\ DayMinutes \in Nat
  /\ \A rule \in Localities : rule.fee \in FeeState \cup {"none"}
  /\ \A rule \in Councils : rule.fee \in FeeState
  /\ \A rule \in Localities \cup Councils : \A i \in DOMAIN rule.bands :
       /\ i \in Nat /\ rule.bands[i].start \in Nat /\ rule.bands[i].end \in Nat
       /\ rule.bands[i].fee \in FeeState

VARIABLES
  locality,  \* the rules of the locality of the spot
  council,   \* the rules of its council
  day, minute,
  told       \* what the driver was told today

parkingVars == <<locality, council, day, minute, told>>

Told == [status : FeeState \cup {"none"}, change : Int, next : FeeState \cup {"none"}]
NoChange == -1
NothingTold == [status |-> "none", change |-> NoChange, next |-> "none"]

ParkingTypeOK ==
  /\ locality \in Localities /\ council \in Councils
  /\ day \in Days /\ minute \in 0 .. DayMinutes
  /\ told \in Told

-----------------------------------------------------------------------------
\* dayMask is a list of tokens.
AppliesToday(tokens) ==
  \/ tokens = {} \/ "all" \in tokens \/ "daily" \in tokens
  \/ day \in tokens
  \/ "weekdays" \in tokens /\ day \in Workdays
  \/ "weekend" \in tokens /\ day \in Weekend

\* The hours go from 0 to 23: a band until 24:00 is left out.
IsClock(clock) == 0 <= clock /\ clock < DayMinutes

Base == IF locality.fee # "none" THEN locality.fee ELSE council.fee
Bands == IF locality.bands # <<>> THEN locality.bands ELSE council.bands

Todays ==
  {i \in DOMAIN Bands :
     AppliesToday(Bands[i].tokens) /\ IsClock(Bands[i].start) /\ IsClock(Bands[i].end)}
Active == {i \in Todays : Bands[i].start <= minute /\ minute < Bands[i].end}
Coming == {i \in Todays : Bands[i].start > minute}

\* The bands are sorted by their start, and the sort is stable.
Sooner(i, j) ==
  \/ Bands[i].start < Bands[j].start
  \/ Bands[i].start = Bands[j].start /\ i <= j
IsFirst(i, some) == i \in some /\ \A j \in some : Sooner(i, j)

StatusNow == IF Active = {} THEN Base ELSE Bands[CHOOSE i \in Active : IsFirst(i, Active)].fee

-----------------------------------------------------------------------------
\* minute = DayMinutes is the midnight that ends the day.
ParkingInit ==
  /\ locality \in Localities /\ council \in Councils
  /\ day \in Days /\ minute = 0
  /\ told = NothingTold

Tell(status, change, next) ==
  /\ minute < DayMinutes
  /\ told' = [status |-> status, change |-> change, next |-> next]
  /\ UNCHANGED <<locality, council, day, minute>>

\* "Paid now until 18:00"
TellActive(i) == IsFirst(i, Active) /\ Tell(Bands[i].fee, Bands[i].end, "none")

\* (Mutant: the bands are not sorted.)
TellUnsorted(i) ==
  /\ Active = {} /\ i \in Coming /\ \A j \in Coming : i <= j
  /\ Tell(Base, Bands[i].start, Bands[i].fee)

\* "Free now, paid from 08:00"
TellComing(i) ==
  /\ Active = {} /\ IsFirst(i, Coming)
  /\ Tell(Base, Bands[i].start, Bands[i].fee)

\* "Free now"
TellBase == Active = {} /\ Coming = {} /\ Tell(Base, NoChange, "none")

MinutePasses ==
  /\ minute < DayMinutes
  /\ minute' = minute + 1
  /\ UNCHANGED <<locality, council, day, told>>

Midnight ==
  /\ minute = DayMinutes
  /\ day' \in Days /\ minute' = 0
  /\ told' = NothingTold
  /\ UNCHANGED <<locality, council>>

ParkingNext ==
  \/ \E i \in DOMAIN Bands : TellActive(i) \/ TellComing(i)
  \/ TellBase \/ MinutePasses \/ Midnight

ParkingSpec == ParkingInit /\ [][ParkingNext]_parkingVars

-----------------------------------------------------------------------------
EndsAfterStart == \A i \in DOMAIN Bands : Bands[i].start < Bands[i].end

\* What a driver was told stays true until the minute that was named, however
\* the bands of the day overlap, and for the rest of the day if none was; and
\* in that minute what was announced begins, unless bands run past midnight.
ToldIsTrue ==
  told # NothingTold /\ minute < DayMinutes =>
    /\ told.change = NoChange \/ minute < told.change => StatusNow = told.status
    /\ told.next # "none" /\ minute = told.change /\ EndsAfterStart => StatusNow = told.next
=============================================================================
