---------------------------- MODULE ParkingAtlas ----------------------------
(***************************************************************************)
(* Replacing the parking rules of one council: syncAtlasFromRepository and *)
(* importCouncilFeed of ParkingService.                                    *)
(*                                                                         *)
(* Either is one transaction, READ COMMITTED: it deletes the bands of the  *)
(* council and of its localities, then the localities, and inserts what    *)
(* the source says.  A DELETE looks for its rows, waits for whoever has    *)
(* deleted some of them, and leaves alone those that are gone when the     *)
(* wait is over; rows inserted meanwhile it does not see.                  *)
(*                                                                         *)
(* A scope of bands has at most one row per kind of source here: the       *)
(* number in a row's id is left out, as are geometry and snapshots.        *)
(***************************************************************************)
EXTENDS FiniteSets

CONSTANTS Labels,    \* localities
          Rules,     \* what a source says of the council
          Replacers  \* requests

VARIABLES
  fee,     \* default_fee_state of the council
  places,  \* rows of parking_locality_overrides
  bands,   \* rows of parking_time_bands
  work,    \* what a request has read and deleted
  replaced   \* auxiliary: what was committed last, and what overlapped

atlasVars == <<fee, places, bands, work, replaced>>

Fees == {"free", "paid", "restricted", "unknown"}
Scopes == Labels \cup {"council"}
Kinds == {"sync", "import"}
Rule == [fee : Fees \cup {"none"}, localities : SUBSET Labels, banded : SUBSET Scopes]

ASSUME RulesAreRules ==
  /\ "council" \notin Labels
  /\ Rules \subseteq {rule \in Rule : rule.banded \subseteq rule.localities \cup {"council"}}

NoRule == [fee |-> "none", localities |-> {}, banded |-> {}]
Place == [label : Labels, rule : Rules]
Band == [id : Scopes \X Kinds, rule : Rules]
Id(band) == band.id
Work == [at : {"idle", "find", "bands", "search", "places", "write"},
         kind : Kinds, rule : Rules \cup {NoRule}, seen : Fees \cup {"none"},
         found : SUBSET (Scopes \X Kinds), gone : SUBSET (Scopes \X Kinds),
         foundPlaces : SUBSET Labels, gonePlaces : SUBSET Labels, alone : BOOLEAN]
NoWork == [at |-> "idle", kind |-> "sync", rule |-> NoRule, seen |-> "none",
           found |-> {}, gone |-> {}, foundPlaces |-> {}, gonePlaces |-> {}, alone |-> TRUE]

\* given: the fee that was given last; alone: no other request was in flight
\* while the last one was; mixed: some two overlapped.
AtlasTypeOK ==
  /\ fee \in Fees \cup {"none"}
  /\ places \subseteq Place /\ bands \subseteq Band
  /\ \A one, two \in places : one.label = two.label => one = two
  /\ \A one, two \in bands : one.id = two.id => one = two
  /\ work \in [Replacers -> Work]
  /\ replaced \in [rule : Rules \cup {NoRule}, kind : Kinds, given : Fees \cup {"none"},
                 alone : BOOLEAN, mixed : BOOLEAN]

\* No council yet.
AtlasInit ==
  /\ fee = "none" /\ places = {} /\ bands = {}
  /\ work = [q \in Replacers |-> NoWork]
  /\ replaced = [rule |-> NoRule, kind |-> "sync", given |-> "none",
               alone |-> FALSE, mixed |-> FALSE]

-----------------------------------------------------------------------------
Busy == {q \in Replacers : work[q].at # "idle"}
Does(q, step, next) ==
  /\ work[q].at = step
  /\ work' = [work EXCEPT ![q] = [next EXCEPT !.at =
       CASE step = "find" -> "bands" [] step = "bands" -> "search"
         [] step = "search" -> "places" [] step = "places" -> "write"]]
  /\ UNCHANGED <<fee, places, bands, replaced>>

\* An import reads the council first, outside its transaction.
ReplaceBegin(q, kind, rule) ==
  /\ q \notin Busy
  /\ kind = "import" => fee # "none"
  /\ work' = [d \in Replacers |->
       IF d = q THEN [NoWork EXCEPT !.at = "find", !.kind = kind, !.rule = rule,
                        !.seen = IF kind = "import" THEN fee ELSE "none", !.alone = Busy = {}]
       ELSE IF d \in Busy THEN [work[d] EXCEPT !.alone = FALSE] ELSE work[d]]
  /\ replaced' = [replaced EXCEPT !.mixed = @ \/ Busy # {}]
  /\ UNCHANGED <<fee, places, bands>>

\* (Mutant: the bands of the localities are forgotten.)
FindCouncilBands(q) ==
  Does(q, "find", [work[q] EXCEPT !.found = {Id(b) : b \in {b \in bands : b.id[1] = "council"}}])

FindBands(q) ==
  LET scopes == {"council"} \cup {p.label : p \in places}
  IN  Does(q, "find", [work[q] EXCEPT !.found = {Id(b) : b \in {b \in bands : b.id[1] \in scopes}}])

DeleteBands(q) ==
  /\ \A d \in Replacers \ {q} : work[d].gone \cap work[q].found = {}
  /\ Does(q, "bands", [work[q] EXCEPT !.gone = work[q].found])

FindPlaces(q) ==
  Does(q, "search", [work[q] EXCEPT !.foundPlaces = {p.label : p \in places}])

DeletePlaces(q) ==
  /\ \A d \in Replacers \ {q} : work[d].gonePlaces \cap work[q].foundPlaces = {}
  /\ Does(q, "places", [work[q] EXCEPT !.gonePlaces = work[q].foundPlaces])

-----------------------------------------------------------------------------
NewBands(kind, rule) == [id : rule.banded \X {kind}, rule : {rule}]
NewPlaces(rule) == [label : rule.localities, rule : {rule}]
NewFee(w) ==
  IF w.rule.fee # "none" THEN w.rule.fee ELSE IF w.kind = "import" THEN w.seen ELSE "unknown"

\* The rows that a DELETE still waits for are gone when this transaction commits.
CommittedBy(q) ==
  [d \in Replacers |->
     IF d = q THEN NoWork
     ELSE [work[d] EXCEPT !.found = @ \ work[q].gone, !.foundPlaces = @ \ work[q].gonePlaces]]

\* The council, its bands and its localities are written and committed.  A row
\* whose id another transaction has deleted makes this one wait; one that is
\* still there is overwritten by a sync and makes an import fail.
ReplaceWrite(q) ==
  LET w == work[q]
      ids == w.rule.banded \X {w.kind}
      otherBands == {b \in bands : Id(b) \notin w.gone}
      otherPlaces == {p \in places : p.label \notin w.gonePlaces}
  IN  /\ w.at = "write"
      /\ \A d \in Replacers \ {q} :
           work[d].gone \cap ids = {} /\ work[d].gonePlaces \cap w.rule.localities = {}
      /\ w.kind = "import" =>
           /\ \A b \in otherBands : Id(b) \notin ids
           /\ \A p \in otherPlaces : p.label \notin w.rule.localities
      /\ fee' = NewFee(w)
      /\ bands' = {b \in otherBands : Id(b) \notin ids} \cup NewBands(w.kind, w.rule)
      /\ places' = {p \in otherPlaces : p.label \notin w.rule.localities} \cup NewPlaces(w.rule)
      /\ work' = CommittedBy(q)
      /\ replaced' = [replaced EXCEPT !.rule = w.rule, !.kind = w.kind, !.alone = w.alone,
           !.given = IF w.rule.fee = "none" /\ w.kind = "import" THEN @ ELSE NewFee(w)]

\* A statement fails, the transaction is chosen to end a deadlock, or the
\* process dies: everything is rolled back.
ReplaceFails(q) ==
  /\ q \in Busy
  /\ work' = [work EXCEPT ![q] = NoWork]
  /\ UNCHANGED <<fee, places, bands, replaced>>

AtlasNext ==
  \E q \in Replacers :
    \/ \E kind \in Kinds, rule \in Rules : ReplaceBegin(q, kind, rule)
    \/ FindBands(q) \/ DeleteBands(q) \/ FindPlaces(q) \/ DeletePlaces(q)
    \/ ReplaceWrite(q) \/ ReplaceFails(q)

AtlasSpec == AtlasInit /\ [][AtlasNext]_atlasVars

-----------------------------------------------------------------------------
\* The localities and the bands of the council are those of the source that was
\* committed last, unless another request was in flight meanwhile, whatever
\* came before; if none ever was, so are the bands of localities, and no band
\* is left of a locality that is gone, and the council has the fee given last.
AtlasIsOneSource ==
  LET new == NewBands(replaced.kind, replaced.rule)
      OfCouncil(rows) == {b \in rows : b.id[1] = "council"}
  IN  /\ replaced.alone => places = NewPlaces(replaced.rule) /\ OfCouncil(bands) = OfCouncil(new)
      /\ ~replaced.mixed => bands = new /\ fee = replaced.given
=============================================================================
