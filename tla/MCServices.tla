----------------------------- MODULE MCServices -----------------------------
(* The services beside lessons and purchases, in one run.  None calls another*)
(* and they share no row, but for the rules of parking, which ParkingRules   *)
(* reads whatever they are: what all of them do together is what each does   *)
(* alone.  part says which one moves, and the others stay as they began.     *)
EXTENDS CashbackReminders, AdvisoryCache, ParkingRules, LruTtlCache, PracticeSessions,
        LessonReviews, LearnerLinks, ParkingAtlas, CentreAccess, TLC

CONSTANTS r1, r2, c1, c2, d1, t1, t2, k1, k2

VARIABLE part

\* Two processes tick, p with two connections and q with one.
Hosts == (t1 :> "p") @@ (t2 :> "q")
Pools == (c1 :> "p") @@ (c2 :> "p") @@ (d1 :> "q")
Asked == [s \in Submits |-> CHOOSE u \in Learners : TRUE]

\* A spot in no locality, in one whose fee is unknown, or in one that is paid
\* for on Saturdays; and a council with any two bands, or none.
BandChoices == [tokens : {{}, {"weekend"}}, start : 0..2, end : 1..3, fee : {"paid", "restricted"}]
SaturdayBand == [tokens |-> {"sat"}, start |-> 1, end |-> 2, fee |-> "paid"]
LocalityChoices ==
  {[fee |-> "none", bands |-> <<>>], [fee |-> "unknown", bands |-> <<>>],
   [fee |-> "free", bands |-> <<SaturdayBand>>]}
CouncilChoices == [fee : {"free"}, bands : {<<>>} \cup (BandChoices \X BandChoices)]

\* A source with a locality and bands for it and the council, one that gives
\* neither fee nor localities, and one whose locality has no bands.
RuleChoices ==
  {[fee |-> "paid", localities |-> {"x"}, banded |-> {"council", "x"}],
   [fee |-> "none", localities |-> {}, banded |-> {"council"}],
   [fee |-> "free", localities |-> {"x"}, banded |-> {}]}

Parts == {"reminders", "cache", "parking", "lru", "practice", "reviews", "links",
          "atlas", "access"}
MCInit ==
  /\ part \in Parts
  /\ RemindersInit /\ CacheInit /\ ParkingInit /\ LruInit /\ PracticeInit /\ ReviewsInit /\ LinksInit
  /\ AtlasInit /\ AccessInit
  /\ part # "parking" =>
       day = "mon" /\ locality.fee = "none" /\ council.bands = <<>>
  /\ part # "access" => lists = {}

MCNext ==
  /\ UNCHANGED part
  /\ \/ part = "reminders" /\ RemindersNext
     \/ part # "reminders" /\ UNCHANGED reminderVars
  /\ \/ part = "cache" /\ CacheNext
     \/ part # "cache" /\ UNCHANGED cacheVars
  /\ \/ part = "parking" /\ ParkingNext
     \/ part # "parking" /\ UNCHANGED parkingVars
  /\ \/ part = "lru" /\ LruNext
     \/ part # "lru" /\ UNCHANGED lruVars
  /\ \/ part = "practice" /\ PracticeNext
     \/ part # "practice" /\ UNCHANGED practiceVars
  /\ \/ part = "reviews" /\ ReviewsNext
     \/ part # "reviews" /\ UNCHANGED reviewVars
  /\ \/ part = "links" /\ LinksNext
     \/ part # "links" /\ UNCHANGED linkVars
  /\ \/ part = "atlas" /\ AtlasNext
     \/ part # "atlas" /\ UNCHANGED atlasVars
  /\ \/ part = "access" /\ AccessNext
     \/ part # "access" /\ UNCHANGED accessVars

MCSpec == MCInit /\ [][MCNext]_<<part, reminderVars, cacheVars, parkingVars, lruVars,
                                 practiceVars, reviewVars, linkVars, atlasVars, accessVars>>

\* Requests are interchangeable, and so are sessions of the pool and centres.
Symmetry == Permutations({r1, r2}) \cup Permutations({k1, k2})

\* The types of the module that moves.
ServicesTypeOK ==
  /\ part = "reminders" => RemindersTypeOK
  /\ part = "cache" => CacheTypeOK
  /\ part = "parking" => ParkingTypeOK
  /\ part = "lru" => LruTypeOK
  /\ part = "practice" => PracticeTypeOK
  /\ part = "reviews" => ReviewsTypeOK
  /\ part = "links" => LinksTypeOK
  /\ part = "atlas" => AtlasTypeOK
  /\ part = "access" => AccessTypeOK
=============================================================================
