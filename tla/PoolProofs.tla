----------------------------- MODULE PoolProofs -----------------------------
(***************************************************************************)
(* Proofs about the services whose statements take any connection of a     *)
(* pool: AdvisoryCache, for any number of lookups, connections and         *)
(* features, and CashbackReminders, for any number of processes, ticks,    *)
(* connections, learners and requests.                                     *)
(***************************************************************************)
EXTENDS AdvisoryCache, CashbackReminders, TLAPS

-----------------------------------------------------------------------------
(* AdvisoryCache.                                                            *)

\* A lookup that began with a row finds one, and falls back to it.
RowIsKept ==
  \A l \in Lookups :
    /\ lookups[l].had => query # "none"
    /\ lookups[l].had /\ lookups[l].at \notin {"fresh", "stale"} => lookups[l].stale
    /\ lookups[l].at = "unavailable" => ~lookups[l].had

\* A lookup owns a connection from its BEGIN to its COMMIT or ROLLBACK.
Storing == {"upsert", "delete", "insert", "rollback"}
OwnsOne ==
  \A l \in Lookups :
    /\ lookups[l].at \in Storing <=> lookups[l].on \in Sessions
    /\ lookups[l].at = "begin" => lookups[l].todo = lookups[l].answer

\* What the transaction t of its connection says of a lookup q: t has replaced
\* what q has done so far, and whatever else is linked when q has deleted.
Holds(q, t) ==
  /\ q.at = "upsert" => t = OpenTx /\ q.todo = q.answer
  /\ q.at = "delete" => t = [OpenTx EXCEPT !.stored = TRUE] /\ q.todo = q.answer
  /\ q.at = "insert" =>
       /\ t.state = "open" /\ t.stored /\ links \subseteq t.removed
       /\ q.todo \subseteq q.answer /\ t.added = q.answer \ q.todo
  /\ q.at = "rollback" => Empty(t)

\* While no statement has gone astray: every transaction with a change is that
\* of one lookup, and the lock on the row lets one at a time replace the links.
Apart ==
  /\ \A l \in Lookups : lookups[l].on \in Sessions => Holds(lookups[l], tx[lookups[l].on])
  /\ \A l, m \in Lookups : lookups[l].on = lookups[m].on /\ lookups[l].on \in Sessions => l = m
  /\ \A c \in Sessions : ~Owned(c) => Empty(tx[c])
  /\ \A c, d \in Sessions : tx[c].stored /\ tx[d].stored => c = d
  /\ query = "fresh" => links = latest

CacheInv == CacheTypeOK /\ RowIsKept /\ OwnsOne /\ (~astray => Apart)

-----------------------------------------------------------------------------
LEMMA NoLookupType ==
  /\ NoLookup \in Lookup /\ NoLookup.at = "off" /\ ~NoLookup.had
  /\ NoLookup.on = NoConnection /\ NoConnection \notin Sessions
BY SessionsAssumption DEF NoLookup, Lookup, Phases

LEMMA NoTxType ==
  /\ NoTx \in Transaction /\ OpenTx \in Transaction /\ FailedTx \in Transaction
  /\ NoTx.state = "none" /\ NoTx.stored = FALSE /\ NoTx.removed = {} /\ NoTx.added = {}
  /\ OpenTx = [state |-> "open", stored |-> FALSE, removed |-> {}, added |-> {}]
  /\ FailedTx = [state |-> "failed", stored |-> FALSE, removed |-> {}, added |-> {}]
<1>1. /\ NoTx \in Transaction
      /\ NoTx.state = "none" /\ NoTx.stored = FALSE /\ NoTx.removed = {} /\ NoTx.added = {}
  BY DEF NoTx, Transaction
<1>2. ASSUME NEW t \in Transaction, NEW s
      PROVE  [t EXCEPT !.state = s]
               = [state |-> s, stored |-> t.stored, removed |-> t.removed, added |-> t.added]
  BY DEF Transaction
<1>3. /\ OpenTx = [state |-> "open", stored |-> FALSE, removed |-> {}, added |-> {}]
      /\ FailedTx = [state |-> "failed", stored |-> FALSE, removed |-> {}, added |-> {}]
  BY <1>1, <1>2 DEF OpenTx, FailedTx
<1> QED
  BY <1>1, <1>3 DEF Transaction

\* A transaction without a change.
LEMMA EmptyOnes ==
  ASSUME NEW t, Empty(t)
  PROVE  /\ t \in Transaction /\ t.stored = FALSE /\ t.removed = {} /\ t.added = {}
         /\ t.state = "none" => t = NoTx
         /\ t.state = "open" => t = OpenTx
<1>1. CASE t = NoTx
  BY <1>1, NoTxType
<1>2. CASE t = OpenTx
  BY <1>2, NoTxType
<1>3. CASE t = FailedTx
  BY <1>3, NoTxType
<1> QED
  BY <1>1, <1>2, <1>3 DEF Empty

LEMMA TxSetStored ==
  [OpenTx EXCEPT !.stored = TRUE]
    = [state |-> "open", stored |-> TRUE, removed |-> {}, added |-> {}]
<1>1. ASSUME NEW t \in Transaction, NEW b
      PROVE  [t EXCEPT !.stored = b]
               = [state |-> t.state, stored |-> b, removed |-> t.removed, added |-> t.added]
  BY DEF Transaction
<1>2. /\ OpenTx \in Transaction /\ OpenTx.state = "open"
      /\ OpenTx.removed = {} /\ OpenTx.added = {}
  BY NoTxType
<1> QED
  BY <1>1, <1>2

LEMMA CacheInvFirst == CacheInit => CacheInv
<1> SUFFICES ASSUME CacheInit PROVE CacheInv
  OBVIOUS
<1>1. CacheTypeOK
  BY NoLookupType, NoTxType DEF CacheInit, CacheTypeOK
<1>2. \A l \in Lookups : lookups[l] = NoLookup
  BY DEF CacheInit
<1>3. RowIsKept
  BY <1>2, NoLookupType DEF RowIsKept
<1>4. OwnsOne
  BY <1>2, NoLookupType DEF OwnsOne, Storing
<1>5. Apart
  <2>1. \A c \in Sessions : tx[c] = NoTx
    BY DEF CacheInit
  <2> QED
    BY <1>2, <2>1, NoLookupType, NoTxType DEF Apart, Empty, CacheInit
<1> QED
  BY <1>1, <1>3, <1>4, <1>5 DEF CacheInv

\* What a step does to the lookup that takes it.
LEMMA LookupMoves ==
  ASSUME CacheTypeOK, NEW l \in Lookups
  PROVE  /\ \A at \in Phases : To(l, at) =>
              /\ lookups' \in [Lookups -> Lookup]
              /\ lookups'[l].at = at /\ lookups'[l].stale = lookups[l].stale
              /\ lookups'[l].todo = lookups[l].todo /\ lookups'[l].had = lookups[l].had
              /\ lookups'[l].answer = lookups[l].answer /\ lookups'[l].on = lookups[l].on
              /\ \A m \in Lookups \ {l} : lookups'[m] = lookups[m]
         /\ Leave(l) =>
              /\ lookups' \in [Lookups -> Lookup]
              /\ lookups'[l] = NoLookup
              /\ \A m \in Lookups \ {l} : lookups'[m] = lookups[m]
BY NoLookupType DEF CacheTypeOK, To, Leave, Lookup

LEMMA RefreshEnds ==
  ASSUME CacheTypeOK, NEW l \in Lookups, WithoutRefresh(l)
  PROVE  /\ lookups' \in [Lookups -> Lookup]
         /\ \A m \in Lookups \ {l} : lookups'[m] = lookups[m]
         /\ lookups'[l].on = NoConnection
         /\ lookups'[l].at \in {"off", "unavailable"}
         /\ lookups'[l].had => lookups[l].had
         /\ lookups'[l].at = "unavailable" => ~lookups[l].stale
<1> DEFINE gone == [NoLookup EXCEPT !.at = "unavailable", !.had = lookups[l].had]
<1>1. /\ gone \in Lookup /\ gone.at = "unavailable" /\ gone.had = lookups[l].had
      /\ gone.on = NoConnection
  BY DEF NoLookup, Lookup, Phases, CacheTypeOK
<1>2. lookups'[l] = IF lookups[l].stale THEN NoLookup ELSE gone
  BY DEF WithoutRefresh, CacheTypeOK
<1>3. \A m \in Lookups \ {l} : lookups'[m] = lookups[m]
  BY DEF WithoutRefresh, CacheTypeOK
<1>4. lookups' \in [Lookups -> Lookup]
  BY <1>1, NoLookupType DEF WithoutRefresh, CacheTypeOK
<1> HIDE DEF gone
<1> QED
  BY <1>1, <1>2, <1>3, <1>4, NoLookupType

LEMMA StepsBack ==
  ASSUME CacheTypeOK, NEW l \in Lookups, NEW c \in Sessions, StoreBegin(l, c) \/ StoreCommit(l, c)
  PROVE  /\ lookups' \in [Lookups -> Lookup]
         /\ \A m \in Lookups \ {l} : lookups'[m] = lookups[m]
         /\ lookups'[l].stale = lookups[l].stale /\ lookups'[l].had = lookups[l].had
         /\ StoreBegin(l, c) =>
              /\ lookups'[l].at = "upsert" /\ lookups'[l].on = c
              /\ lookups'[l].todo = lookups[l].todo /\ lookups'[l].answer = lookups[l].answer
         /\ StoreCommit(l, c) => lookups'[l].at = "reread" /\ lookups'[l].on = NoConnection
<1> DEFINE q == lookups[l]
           begun == [q EXCEPT !.at = "upsert", !.on = c]
           done == [q EXCEPT !.at = "reread", !.on = NoConnection, !.answer = {}]
<1>1. lookups \in [Lookups -> Lookup] /\ q \in Lookup
  BY DEF CacheTypeOK
<1>2. /\ begun \in Lookup /\ begun.at = "upsert" /\ begun.on = c /\ begun.stale = q.stale
      /\ begun.had = q.had /\ begun.todo = q.todo /\ begun.answer = q.answer
  BY <1>1 DEF Lookup, Phases
<1>3. /\ done \in Lookup /\ done.at = "reread" /\ done.on = NoConnection
      /\ done.stale = q.stale /\ done.had = q.had
  BY <1>1 DEF Lookup, Phases
<1>4. StoreBegin(l, c) => lookups' = [lookups EXCEPT ![l] = begun]
  BY <1>1 DEF StoreBegin
<1>5. StoreCommit(l, c) => lookups' = [lookups EXCEPT ![l] = done]
  BY <1>1 DEF StoreCommit
<1>6. ~(StoreBegin(l, c) /\ StoreCommit(l, c))
  BY DEF StoreBegin, StoreCommit, Gets
<1> HIDE DEF begun, done
<1>7. CASE StoreBegin(l, c)
  BY <1>1, <1>2, <1>4, <1>6, <1>7
<1>8. CASE StoreCommit(l, c)
  BY <1>1, <1>3, <1>5, <1>6, <1>8
<1> QED
  BY <1>7, <1>8

LEMMA Failing ==
  ASSUME CacheTypeOK, NEW l \in Lookups, Fail(l)
  PROVE  /\ lookups' \in [Lookups -> Lookup]
         /\ \A m \in Lookups \ {l} : lookups'[m] = lookups[m]
         /\ \/ /\ lookups[l].at \in {"upsert", "delete", "insert"}
               /\ lookups'[l].at = "rollback" /\ lookups'[l].on = lookups[l].on
               /\ lookups'[l].had = lookups[l].had /\ lookups'[l].stale = lookups[l].stale
            \/ lookups[l].at \in {"prefilled", "begin"} /\ WithoutRefresh(l)
            \/ lookups[l].at \in {"fresh", "stale", "reread"} /\ Leave(l)
<1>1. CASE /\ lookups[l].at \in {"upsert", "delete", "insert"}
           /\ lookups' = [lookups EXCEPT ![l].at = "rollback", ![l].todo = {}, ![l].answer = {}]
  <2>1. [lookups[l] EXCEPT !.at = "rollback", !.todo = {}, !.answer = {}] \in Lookup
    BY DEF CacheTypeOK, Lookup, Phases
  <2>2. lookups' = [lookups EXCEPT ![l] = [lookups[l] EXCEPT !.at = "rollback", !.todo = {}, !.answer = {}]]
    BY <1>1 DEF CacheTypeOK
  <2>3. /\ lookups' \in [Lookups -> Lookup]
        /\ \A m \in Lookups \ {l} : lookups'[m] = lookups[m]
        /\ lookups'[l] = [lookups[l] EXCEPT !.at = "rollback", !.todo = {}, !.answer = {}]
    BY <2>1, <2>2 DEF CacheTypeOK
  <2>4. ASSUME NEW q \in Lookup
        PROVE  /\ [q EXCEPT !.at = "rollback", !.todo = {}, !.answer = {}].at = "rollback"
               /\ [q EXCEPT !.at = "rollback", !.todo = {}, !.answer = {}].on = q.on
               /\ [q EXCEPT !.at = "rollback", !.todo = {}, !.answer = {}].had = q.had
               /\ [q EXCEPT !.at = "rollback", !.todo = {}, !.answer = {}].stale = q.stale
    BY DEF Lookup
  <2> QED
    BY <1>1, <2>3, <2>4 DEF CacheTypeOK
<1>2. CASE lookups[l].at \in {"prefilled", "begin"} /\ WithoutRefresh(l)
  BY <1>2, RefreshEnds
<1>3. CASE lookups[l].at \in {"fresh", "stale", "reread"} /\ Leave(l)
  BY <1>3, LookupMoves
<1> QED
  BY <1>1, <1>2, <1>3 DEF Fail

LEMMA StaleMoves ==
  ASSUME CacheTypeOK, NEW l \in Lookups, NEW c \in Sessions, ReadStale(l, c)
  PROVE  /\ lookups' \in [Lookups -> Lookup]
         /\ \A m \in Lookups \ {l} : lookups'[m] = lookups[m]
         /\ lookups'[l].at = "prefilled" /\ lookups'[l].on = lookups[l].on
         /\ lookups'[l].stale = (QueryOn(c) # "none") /\ lookups'[l].had = lookups[l].had
<1> DEFINE found == (QueryOn(c) # "none")
           read == [lookups[l] EXCEPT !.at = "prefilled", !.stale = found]
<1>1. found \in BOOLEAN
  OBVIOUS
<1> HIDE DEF found
<1>2. lookups' = [lookups EXCEPT ![l] = read]
  BY DEF ReadStale, CacheTypeOK, found
<1>3. /\ read \in Lookup /\ read.at = "prefilled" /\ read.on = lookups[l].on
      /\ read.stale = found /\ read.had = lookups[l].had
  BY <1>1 DEF CacheTypeOK, Lookup, Phases
<1> HIDE DEF read
<1> QED
  BY <1>2, <1>3 DEF CacheTypeOK, found

LEMMA OneMoves ==
  ASSUME CacheTypeOK, NEW l \in Lookups, Resolving(l), NEW m \in Lookups \ {l}
  PROVE  lookups'[m] = lookups[m]
BY LookupMoves, RefreshEnds, StepsBack, StaleMoves, Failing, ZenonT(60)
   DEF Resolving, Begin, Fetch, FetchFails, Unavailable, ReadFresh,
       ReadPrefilled, Reread, StoreUpsert, StoreDelete, StoreInsert,
       StoreRollback, StatementFails, CacheTypeOK, Phases

-----------------------------------------------------------------------------
(* Types. *)

\* Reading another phase of a lookup: the guards and what they leave.
LEMMA LookupsTyped ==
  ASSUME CacheTypeOK, [CacheNext]_cacheVars
  PROVE  lookups' \in [Lookups -> Lookup]
<1>1. ASSUME NEW l \in Lookups, Resolving(l) PROVE lookups' \in [Lookups -> Lookup]
  <2>1. CASE Begin(l)
    <3>1. [NoLookup EXCEPT !.at = "fresh", !.had = query # "none"] \in Lookup
      BY DEF NoLookup, Lookup, Phases
    <3> QED
      BY <2>1, <3>1 DEF Begin, CacheTypeOK
  <2>2. ASSUME NEW answer \in Answers, Fetch(l, answer) PROVE lookups' \in [Lookups -> Lookup]
    <3>1. answer \in SUBSET Features
      BY AnswersAssumption
    <3>2. \A q \in Lookup : [q EXCEPT !.at = "begin", !.todo = answer, !.answer = answer] \in Lookup
      BY <3>1 DEF Lookup, Phases
    <3> QED
      BY <2>2, <3>2 DEF Fetch, CacheTypeOK
  <2>3. ASSUME NEW at \in Phases, To(l, at) \/ Leave(l) \/ WithoutRefresh(l)
        PROVE  lookups' \in [Lookups -> Lookup]
    BY <2>3, LookupMoves, RefreshEnds
  <2>4. ASSUME NEW c \in Sessions, NEW f \in Features, StoreInsert(l, c, f)
        PROVE  lookups' \in [Lookups -> Lookup]
    BY <2>4 DEF StoreInsert, CacheTypeOK, Lookup, Phases
  <2>5. CASE FetchFails(l) \/ Unavailable(l)
    BY <2>3, <2>5 DEF FetchFails, Unavailable, Phases
  <2>6. ASSUME NEW c \in Sessions, ReadStale(l, c) PROVE lookups' \in [Lookups -> Lookup]
    BY <2>6, StaleMoves
  <2>7. ASSUME NEW c \in Sessions,
               \/ ReadFresh(l, c) \/ ReadPrefilled(l, c) \/ Reread(l, c) \/ StoreBegin(l, c)
               \/ StoreUpsert(l, c) \/ StoreDelete(l, c) \/ StoreCommit(l, c) \/ StoreRollback(l, c)
        PROVE  lookups' \in [Lookups -> Lookup]
    BY <2>3, <2>7, StepsBack DEF ReadFresh, ReadPrefilled, Reread, StoreUpsert, StoreDelete,
                                 StoreRollback, Phases
  <2>8. ASSUME NEW c \in Sessions, StatementFails(l, c) PROVE lookups' \in [Lookups -> Lookup]
    BY <2>8, Failing DEF StatementFails
  <2> QED
    BY <1>1, <2>1, <2>2, <2>4, <2>5, <2>6, <2>7, <2>8 DEF Resolving
<1>2. CASE (\E c \in Sessions : OthersQuery(c)) \/ CacheExpires \/ UNCHANGED cacheVars
  BY <1>2 DEF OthersQuery, CacheExpires, cacheVars, CacheTypeOK
<1>3. CASE CacheCrash
  BY <1>3, NoLookupType DEF CacheCrash
<1> QED
  BY <1>1, <1>2, <1>3 DEF CacheNext

LEMMA CommittedTyped ==
  ASSUME CacheTypeOK, NEW c \in Sessions, Committed(c)
  PROVE  /\ query' \in {"none", "fresh", "expired"} /\ links' \subseteq Features
         /\ tx' \in [Sessions -> Transaction]
         /\ query # "none" => query' # "none"
BY NoTxType DEF CacheTypeOK, Committed, QueryOn, LinksOn, Transaction

LEMMA CommitTyped ==
  ASSUME CacheTypeOK, NEW l \in Lookups, NEW c \in Sessions, CommitOf(l, c)
  PROVE  Committed(c) /\ latest' \subseteq Features
BY DEF CacheTypeOK, CommitOf, Lookup

LEMMA RestTyped ==
  ASSUME CacheTypeOK, [CacheNext]_cacheVars
  PROVE  /\ query' \in {"none", "fresh", "expired"} /\ links' \subseteq Features
         /\ tx' \in [Sessions -> Transaction]
         /\ latest' \subseteq Features /\ astray' \in BOOLEAN
         /\ query # "none" => query' # "none"
<1> DEFINE Goal == /\ query' \in {"none", "fresh", "expired"} /\ links' \subseteq Features
                   /\ tx' \in [Sessions -> Transaction]
                   /\ latest' \subseteq Features /\ astray' \in BOOLEAN
                   /\ query # "none" => query' # "none"
<1> USE DEF CacheTypeOK
<1>1. ASSUME NEW l \in Lookups,
             Begin(l) \/ FetchFails(l) \/ Unavailable(l) \/ \E answer \in Answers : Fetch(l, answer)
      PROVE  Goal
  BY <1>1, AnswersAssumption DEF Begin, FetchFails, Unavailable, Fetch
<1>2. ASSUME NEW l \in Lookups, NEW c \in Sessions,
             ReadFresh(l, c) \/ ReadStale(l, c) \/ ReadPrefilled(l, c) \/ Reread(l, c)
      PROVE  Goal
  BY <1>2 DEF ReadFresh, ReadStale, ReadPrefilled, Reread, Gets
<1>3. ASSUME NEW l \in Lookups, NEW c \in Sessions,
             StoreBegin(l, c) \/ StoreRollback(l, c)
      PROVE  Goal
  BY <1>3, NoTxType DEF StoreBegin, StoreRollback, Gets
<1>4. ASSUME NEW l \in Lookups, NEW c \in Sessions,
             \/ StoreUpsert(l, c) \/ StoreDelete(l, c)
             \/ \E f \in Features : StoreInsert(l, c, f)
      PROVE  Goal
  <2> DEFINE t == tx[c]
  <2>1. t \in Transaction
    OBVIOUS
  <2>2. /\ [t EXCEPT !.stored = TRUE] \in Transaction
        /\ [t EXCEPT !.removed = @ \cup links, !.added = {}] \in Transaction
        /\ \A f \in Features : [t EXCEPT !.added = @ \cup {f}] \in Transaction
    BY <2>1 DEF Transaction
  <2>3. latest' = latest /\ astray' \in BOOLEAN
    BY <1>4 DEF StoreUpsert, StoreDelete, StoreInsert, Gets
  <2>4. CASE StoreUpsert(l, c)
    BY <2>2, <2>3, <2>4 DEF StoreUpsert
  <2>5. CASE StoreDelete(l, c)
    BY <2>2, <2>3, <2>5 DEF StoreDelete
  <2>6. ASSUME NEW f \in Features, StoreInsert(l, c, f) PROVE Goal
    BY <2>2, <2>3, <2>6 DEF StoreInsert
  <2> QED
    BY <1>4, <2>4, <2>5, <2>6
<1>5. ASSUME NEW l \in Lookups, NEW c \in Sessions, StoreCommit(l, c)
      PROVE  Goal
  BY <1>5, CommitTyped, CommittedTyped DEF StoreCommit, Gets
<1>6. ASSUME NEW l \in Lookups, NEW c \in Sessions, StatementFails(l, c)
      PROVE  Goal
  <2>1. astray' \in BOOLEAN
    BY <1>6 DEF StatementFails, Gets
  <2>2. CASE CommitOf(l, c)
    BY <2>1, <2>2, CommitTyped, CommittedTyped
  <2>3. CASE /\ UNCHANGED <<query, links, latest>>
             /\ tx' \in {tx, [tx EXCEPT ![c] = FailedTx], [tx EXCEPT ![c] = NoTx]}
    BY <2>1, <2>3, NoTxType
  <2> QED
    BY <1>6, <2>2, <2>3 DEF StatementFails
<1>7. CASE CacheExpires \/ CacheCrash \/ UNCHANGED cacheVars
  BY <1>7, NoTxType DEF CacheExpires, CacheCrash, cacheVars
<1>8. ASSUME NEW c \in Sessions, OthersQuery(c) PROVE Goal
  <2>1. latest' = latest /\ astray' \in BOOLEAN
    BY <1>8 DEF OthersQuery
  <2>2. CASE Committed(c)
    BY <2>1, <2>2, CommittedTyped
  <2>3. CASE ~Committed(c)
    BY <1>8, <2>1, <2>3, NoTxType DEF OthersQuery
  <2> QED
    BY <2>2, <2>3
<1> QED
  BY <1>1, <1>2, <1>3, <1>4, <1>5, <1>6, <1>7, <1>8 DEF CacheNext, Resolving

-----------------------------------------------------------------------------
(* A row that was there is not forgotten. *)

LEMMA RowKept ==
  ASSUME CacheTypeOK, RowIsKept, [CacheNext]_cacheVars
  PROVE  RowIsKept'
<1> DEFINE Fine(q) == /\ q.had => query' # "none"
                      /\ q.had /\ q.at \notin {"fresh", "stale"} => q.stale
                      /\ q.at = "unavailable" => ~q.had
<1>1. query # "none" => query' # "none"
  BY RestTyped
<1>2. \A l \in Lookups : Fine(lookups[l])
  BY <1>1 DEF RowIsKept
<1>3. ASSUME NEW l \in Lookups, Resolving(l) PROVE Fine(lookups'[l])
  <2>1. CASE Begin(l)
    BY <1>1, <2>1, NoLookupType DEF Begin, CacheTypeOK, NoLookup
  <2>2. ASSUME NEW answer \in Answers, Fetch(l, answer) PROVE Fine(lookups'[l])
    BY <1>2, <2>2 DEF Fetch, CacheTypeOK, Lookup
  <2>3. ASSUME Leave(l) PROVE Fine(lookups'[l])
    BY <2>3, LookupMoves, NoLookupType
  <2>4. ASSUME NEW at \in Phases \ {"unavailable"}, To(l, at),
               (lookups[l].at = "fresh" /\ at = "stale") \/ lookups[l].at \notin {"fresh", "stale"}
        PROVE  Fine(lookups'[l])
    <3>1. /\ lookups'[l].at = at /\ lookups'[l].stale = lookups[l].stale
          /\ lookups'[l].had = lookups[l].had
      BY <2>4, LookupMoves
    <3> QED
      BY <1>2, <2>4, <3>1
  <2>5. ASSUME WithoutRefresh(l), lookups[l].at \notin {"fresh", "stale"} PROVE Fine(lookups'[l])
    <3>1. lookups[l].had => lookups[l].stale /\ query' # "none"
      BY <1>2, <2>5
    <3>2. CASE lookups[l].stale
      BY <2>5, <3>2, NoLookupType DEF WithoutRefresh, CacheTypeOK
    <3>3. CASE ~lookups[l].stale
      <4>1. ~lookups'[l].had
        BY <2>5, <3>1, <3>3, RefreshEnds DEF CacheTypeOK, Lookup
      <4> QED
        BY <4>1
    <3> QED
      BY <3>2, <3>3
  <2>6. CASE FetchFails(l) \/ Unavailable(l)
    BY <2>3, <2>5, <2>6 DEF FetchFails, Unavailable
  <2>7. ASSUME NEW c \in Sessions, ReadStale(l, c) PROVE Fine(lookups'[l])
    <3>1. lookups[l].had => QueryOn(c) # "none"
      BY <1>2, <2>7 DEF QueryOn, ReadStale, RowIsKept
    <3> QED
      BY <1>2, <2>7, <3>1 DEF ReadStale, CacheTypeOK, Lookup
  <2>8. ASSUME NEW c \in Sessions, NEW f \in Features, StoreInsert(l, c, f) PROVE Fine(lookups'[l])
    BY <1>2, <2>8 DEF StoreInsert, Gets, CacheTypeOK, Lookup
  <2>9. ASSUME NEW c \in Sessions,
               \/ ReadFresh(l, c) \/ ReadPrefilled(l, c) \/ Reread(l, c) \/ StoreBegin(l, c)
               \/ StoreUpsert(l, c) \/ StoreDelete(l, c) \/ StoreCommit(l, c) \/ StoreRollback(l, c)
        PROVE  Fine(lookups'[l])
    <3>1. CASE StoreBegin(l, c) \/ StoreCommit(l, c)
      <4>1. /\ lookups'[l].at \in {"upsert", "reread"} /\ lookups'[l].stale = lookups[l].stale
            /\ lookups'[l].had = lookups[l].had /\ lookups[l].at \in {"begin", "insert"}
        BY <3>1, StepsBack DEF StoreBegin, StoreCommit, Gets, CacheTypeOK
      <4> QED
        BY <1>2, <4>1
    <3> QED
      BY <2>3, <2>4, <2>5, <2>9, <3>1
         DEF ReadFresh, ReadPrefilled, Reread, StoreUpsert, StoreDelete, StoreRollback, Gets, Phases
  <2>10. ASSUME NEW c \in Sessions, StatementFails(l, c) PROVE Fine(lookups'[l])
    BY <1>2, <2>3, <2>5, <2>10, Failing DEF StatementFails
  <2> QED
    BY <1>3, <2>1, <2>2, <2>6, <2>7, <2>8, <2>9, <2>10 DEF Resolving
<1>4. ASSUME NEW l \in Lookups, Resolving(l), NEW m \in Lookups \ {l}
      PROVE  lookups'[m] = lookups[m]
  BY <1>4, OneMoves
<1>5. CASE \E l \in Lookups : Resolving(l)
  BY <1>2, <1>3, <1>4, <1>5 DEF RowIsKept
<1>6. CASE (\E c \in Sessions : OthersQuery(c)) \/ CacheExpires \/ UNCHANGED cacheVars
  BY <1>2, <1>6 DEF OthersQuery, CacheExpires, cacheVars, RowIsKept
<1>7. CASE CacheCrash
  BY <1>7, NoLookupType DEF CacheCrash, RowIsKept
<1> QED
  BY <1>5, <1>6, <1>7 DEF CacheNext

-----------------------------------------------------------------------------
(* Which connection a lookup owns. *)

LEMMA OwnsStep ==
  ASSUME CacheTypeOK, OwnsOne, NEW l \in Lookups, Resolving(l)
  PROVE  OwnsOne'
<1> DEFINE Fine(q) == /\ q.at \in Storing <=> q.on \in Sessions
                      /\ q.at = "begin" => q.todo = q.answer
<1>1. \A m \in Lookups : Fine(lookups[m]) /\ lookups[m] \in Lookup
  BY DEF OwnsOne, CacheTypeOK
<1>2. ASSUME Leave(l) \/ WithoutRefresh(l) PROVE Fine(lookups'[l])
  BY <1>2, LookupMoves, RefreshEnds, NoLookupType DEF Storing
<1>3. ASSUME NEW at \in Phases \ {"begin"}, To(l, at), at \in Storing <=> lookups[l].at \in Storing
      PROVE  Fine(lookups'[l])
  BY <1>1, <1>3, LookupMoves
<1>4. ASSUME Begin(l) PROVE Fine(lookups'[l])
  <2>1. lookups'[l] = [NoLookup EXCEPT !.at = "fresh", !.had = query # "none"]
    BY <1>4 DEF Begin, CacheTypeOK
  <2>2. lookups'[l].at = "fresh" /\ lookups'[l].on = NoConnection
    BY <2>1 DEF NoLookup
  <2> QED
    BY <2>2, NoLookupType DEF Storing
<1>5. ASSUME FetchFails(l) \/ Unavailable(l) PROVE Fine(lookups'[l])
  <2>1. Leave(l) \/ WithoutRefresh(l)
    BY <1>5 DEF FetchFails, Unavailable
  <2> QED
    BY <1>2, <2>1
<1>6. ASSUME NEW answer \in Answers, Fetch(l, answer) PROVE Fine(lookups'[l])
  <2>1. /\ lookups[l].at = "fetch" /\ lookups'[l].at = "begin" /\ lookups'[l].on = lookups[l].on
        /\ lookups'[l].todo = answer /\ lookups'[l].answer = answer
    BY <1>6 DEF Fetch, CacheTypeOK, Lookup
  <2> QED
    BY <1>1, <2>1 DEF Storing
<1>7. ASSUME NEW c \in Sessions, ReadFresh(l, c) \/ ReadPrefilled(l, c) \/ Reread(l, c)
      PROVE  Fine(lookups'[l])
  BY <1>2, <1>3, <1>7 DEF ReadFresh, ReadPrefilled, Reread, Gets, Storing, Phases
<1>8. ASSUME NEW c \in Sessions, ReadStale(l, c) PROVE Fine(lookups'[l])
  <2>1. lookups[l].at = "stale" /\ lookups'[l].at = "prefilled" /\ lookups'[l].on = lookups[l].on
    BY <1>8, StaleMoves DEF ReadStale, Gets
  <2> QED
    BY <1>1, <2>1 DEF Storing
<1>9. ASSUME NEW c \in Sessions, StoreBegin(l, c) \/ StoreCommit(l, c) PROVE Fine(lookups'[l])
  <2>1. \/ lookups'[l].at = "upsert" /\ lookups'[l].on = c
        \/ lookups'[l].at = "reread" /\ lookups'[l].on = NoConnection
    BY <1>1, <1>9, StepsBack
  <2> QED
    BY <2>1, NoLookupType DEF Storing
<1>10. ASSUME NEW c \in Sessions, StoreUpsert(l, c) \/ StoreDelete(l, c) \/ StoreRollback(l, c)
       PROVE  Fine(lookups'[l])
  BY <1>2, <1>3, <1>10 DEF StoreUpsert, StoreDelete, StoreRollback, Gets, Storing, Phases
<1>11. ASSUME NEW c \in Sessions, NEW f \in Features, StoreInsert(l, c, f) PROVE Fine(lookups'[l])
  <2>1. lookups[l].at = "insert" /\ lookups'[l].at = "insert" /\ lookups'[l].on = lookups[l].on
    BY <1>11 DEF StoreInsert, Gets, CacheTypeOK, Lookup
  <2> QED
    BY <1>1, <2>1 DEF Storing
<1>12. ASSUME NEW c \in Sessions, StatementFails(l, c) PROVE Fine(lookups'[l])
  <2>1. CASE /\ lookups[l].at \in {"upsert", "delete", "insert"}
             /\ lookups'[l].at = "rollback" /\ lookups'[l].on = lookups[l].on
    BY <1>1, <2>1 DEF Storing
  <2> QED
    BY <1>2, <1>12, <2>1, Failing DEF StatementFails
<1>13. Fine(lookups'[l])
  <2> HIDE DEF Fine
  <2> QED
    BY <1>4, <1>5, <1>6, <1>7, <1>8, <1>9, <1>10, <1>11, <1>12 DEF Resolving
<1>14. \A m \in Lookups \ {l} : lookups'[m] = lookups[m]
  BY OneMoves
<1> QED
  BY <1>1, <1>13, <1>14 DEF OwnsOne

LEMMA OwnsKept ==
  ASSUME CacheTypeOK, OwnsOne, [CacheNext]_cacheVars
  PROVE  OwnsOne'
<1>1. CASE (\E c \in Sessions : OthersQuery(c)) \/ CacheExpires \/ UNCHANGED cacheVars
  BY <1>1 DEF OthersQuery, CacheExpires, cacheVars, OwnsOne
<1>2. CASE CacheCrash
  BY <1>2, NoLookupType DEF CacheCrash, OwnsOne, Storing
<1> QED
  BY <1>1, <1>2, OwnsStep DEF CacheNext

-----------------------------------------------------------------------------
(* While no statement goes astray, transactions are apart.                   *)

\* A connection that holds changes has an open transaction.
LEMMA NotOpenIsEmpty ==
  ASSUME Apart, OwnsOne, NEW c \in Sessions, tx[c].state # "open"
  PROVE  Empty(tx[c])
<1>1. CASE ~Owned(c)
  BY <1>1 DEF Apart
<1>2. ASSUME NEW l \in Lookups, lookups[l].on = c PROVE Empty(tx[c])
  <2>1. Holds(lookups[l], tx[c]) /\ lookups[l].at \in Storing
    BY <1>2 DEF Apart, OwnsOne
  <2>2. lookups[l].at = "rollback"
    BY <2>1, TxSetStored, NoTxType DEF Holds, Storing
  <2> QED
    BY <2>1, <2>2 DEF Holds
<1> QED
  BY <1>1, <1>2 DEF Owned

LEMMA StoredIsOpen ==
  ASSUME Apart, OwnsOne, NEW c \in Sessions, tx[c].stored
  PROVE  tx[c].state = "open"
BY NotOpenIsEmpty, EmptyOnes

\* What a statement of lookup l on connection c has to leave.
LEMMA ApartStep ==
  ASSUME CacheTypeOK, CacheTypeOK', Apart, NEW l \in Lookups, NEW c \in Sessions,
         \A m \in Lookups \ {l} : lookups[m].on # c /\ lookups'[m] = lookups[m],
         lookups[l].on \in {NoConnection, c}, lookups'[l].on \in {NoConnection, c},
         \A d \in Sessions \ {c} : tx'[d] = tx[d],
         lookups'[l].on = c => Holds(lookups[l], tx[c])',
         lookups'[l].on # c => Empty(tx'[c]),
         tx'[c].stored => \A d \in Sessions \ {c} : ~tx[d].stored,
         links' = links \/ \A d \in Sessions \ {c} : ~tx[d].stored,
         query' = "fresh" => links' = latest'
  PROVE  Apart'
<1> USE NoLookupType
<1>1. ASSUME NEW m \in Lookups, lookups'[m].on \in Sessions PROVE Holds(lookups[m], tx[lookups[m].on])'
  <2>1. CASE m = l
    BY <1>1, <2>1
  <2>2. CASE m # l
    <3> DEFINE d == lookups[m].on
    <3>1. d \in Sessions \ {c} /\ lookups'[m] = lookups[m] /\ tx'[d] = tx[d]
      BY <1>1, <2>2
    <3>2. Holds(lookups[m], tx[d])
      BY <3>1 DEF Apart
    <3>3. lookups[m].at = "insert" => links' \subseteq tx[d].removed
      BY <3>1, <3>2 DEF Holds
    <3>4. tx[lookups[m].on]' = tx[d]
      BY <3>1
    <3> HIDE DEF d
    <3> QED
      BY <3>1, <3>2, <3>3, <3>4 DEF Holds, Empty
  <2> QED
    BY <2>1, <2>2
<1>2. ASSUME NEW m \in Lookups, NEW o \in Lookups, lookups'[m].on = lookups'[o].on,
             lookups'[m].on \in Sessions
      PROVE  m = o
  BY <1>2 DEF Apart
<1>3. ASSUME NEW d \in Sessions, ~Owned(d)' PROVE Empty(tx'[d])
  <2>1. CASE d = c
    BY <1>3, <2>1 DEF Owned
  <2>2. CASE d # c
    <3>1. ~Owned(d)
      BY <1>3, <2>2 DEF Owned
    <3> QED
      BY <2>2, <3>1 DEF Apart
  <2> QED
    BY <2>1, <2>2
<1>4. ASSUME NEW d \in Sessions, NEW e \in Sessions, tx'[d].stored, tx'[e].stored PROVE d = e
  BY <1>4 DEF Apart
<1> QED
  BY <1>1, <1>2, <1>3, <1>4 DEF Apart, Empty

\* A step between transactions.
LEMMA ApartRest ==
  ASSUME CacheTypeOK, Apart, NEW l \in Lookups, UNCHANGED <<query, links, tx, latest>>,
         \A m \in Lookups \ {l} : lookups'[m] = lookups[m],
         lookups[l].on \notin Sessions, lookups'[l].on \notin Sessions
  PROVE  Apart'
<1>1. \A m \in Lookups : lookups'[m].on \in Sessions => m # l /\ lookups'[m] = lookups[m]
  OBVIOUS
<1>2. \A c \in Sessions : Owned(c) => Owned(c)'
  BY DEF Owned
<1>3. ASSUME NEW m \in Lookups, lookups'[m].on \in Sessions PROVE Holds(lookups[m], tx[lookups[m].on])'
  <2> DEFINE d == lookups[m].on
  <2>1. lookups'[m] = lookups[m] /\ d \in Sessions /\ tx' = tx /\ links' = links
    BY <1>1, <1>3
  <2>2. Holds(lookups[m], tx[d])
    BY <2>1 DEF Apart
  <2>3. tx[lookups[m].on]' = tx[d]
    BY <2>1
  <2> HIDE DEF d
  <2> QED
    BY <2>1, <2>2, <2>3 DEF Holds, Empty
<1>4. \A m, o \in Lookups : lookups'[m].on = lookups'[o].on /\ lookups'[m].on \in Sessions => m = o
  BY <1>1 DEF Apart
<1>5. \A c \in Sessions : ~Owned(c)' => Empty(tx'[c])
  BY <1>2 DEF Apart
<1> QED
  BY <1>3, <1>4, <1>5 DEF Apart, Empty

\* A statement that does not go astray.
LEMMA StraightOn ==
  ASSUME CacheTypeOK, NEW l \in Lookups, NEW c \in Sessions, NEW at, Gets(l, at, c), ~astray'
  PROVE  /\ ~astray /\ lookups[l].at = at
         /\ \A m \in Lookups \ {l} : lookups[m].on # c
         /\ lookups[l].on \in {NoConnection, c}
<1>1. ~(astray \/ (\E m \in Lookups \ {l} : lookups[m].on = c) \/ lookups[l].on \notin {NoConnection, c})
  BY DEF Gets
<1> QED
  BY <1>1 DEF Gets

\* The statements of persistCacheRow up to COMMIT: what is written.
LEMMA StoreIsApart ==
  ASSUME CacheTypeOK, CacheTypeOK', OwnsOne, OwnsOne', ~astray => Apart, ~astray',
         NEW l \in Lookups, NEW c \in Sessions,
         \/ StoreUpsert(l, c) \/ StoreDelete(l, c) \/ \E f \in Features : StoreInsert(l, c, f)
  PROVE  Apart'
<1> DEFINE q == lookups[l]
           t == tx[c]
<1>1. /\ Apart /\ \A m \in Lookups \ {l} : lookups[m].on # c
      /\ q.on \in {NoConnection, c} /\ q.at \in {"upsert", "delete", "insert"}
  BY StraightOn DEF StoreUpsert, StoreDelete, StoreInsert
<1>2. q.on = c /\ Holds(q, t)
  BY <1>1, NoLookupType DEF OwnsOne, Storing, Apart
<1>3. t \in Transaction /\ t.state = "open"
  <2>1. t \in Transaction
    BY DEF CacheTypeOK
  <2> QED
    BY <1>1, <1>2, <2>1, TxSetStored, NoTxType DEF Holds
<1>7. query = "fresh" => links = latest
  BY <1>1 DEF Apart
<1>4. CASE StoreUpsert(l, c)
  <2>1. q.at = "upsert" /\ t = OpenTx /\ q.todo = q.answer
    BY <1>2, <1>4 DEF StoreUpsert, Gets, Holds
  <2>2. /\ tx' = [tx EXCEPT ![c].stored = TRUE] /\ UNCHANGED <<query, links, latest>>
        /\ To(l, "delete") /\ ~Locked(c)
    BY <1>3, <1>4 DEF StoreUpsert
  <2>3. /\ tx'[c] = [OpenTx EXCEPT !.stored = TRUE]
        /\ \A d \in Sessions \ {c} : tx'[d] = tx[d]
    BY <2>1, <2>2 DEF CacheTypeOK
  <2>4. /\ lookups'[l].at = "delete" /\ lookups'[l].on = c
        /\ lookups'[l].todo = lookups'[l].answer
        /\ \A m \in Lookups \ {l} : lookups'[m] = lookups[m]
    BY <1>2, <2>1, <2>2, LookupMoves DEF Phases
  <2>5. \A d \in Sessions \ {c} : ~tx[d].stored
    <3> SUFFICES ASSUME NEW d \in Sessions \ {c}, tx[d].stored PROVE FALSE
      OBVIOUS
    <3>1. tx[d].state = "open"
      BY StoredIsOpen, <1>1
    <3> QED
      BY <2>2, <3>1 DEF Locked, Others
  <2>6. Holds(lookups[l], tx[c])'
    BY <2>3, <2>4 DEF Holds
  <2> QED
    BY <1>1, <1>2, <1>7, <2>2, <2>3, <2>4, <2>5, <2>6, ApartStep
<1>5. CASE StoreDelete(l, c)
  <2>1. q.at = "delete" /\ q.todo = q.answer
        /\ t = [state |-> "open", stored |-> TRUE, removed |-> {}, added |-> {}]
    BY <1>2, <1>5, TxSetStored DEF StoreDelete, Gets, Holds
  <2>2. /\ tx' = [tx EXCEPT ![c].removed = @ \cup links, ![c].added = {}]
        /\ UNCHANGED <<query, links, latest>> /\ To(l, "insert")
    BY <1>3, <1>5 DEF StoreDelete
  <2>3. /\ tx'[c].state = "open" /\ tx'[c].stored = TRUE
        /\ tx'[c].removed = links /\ tx'[c].added = {}
        /\ \A d \in Sessions \ {c} : tx'[d] = tx[d]
    BY <2>1, <2>2 DEF CacheTypeOK
  <2>4. /\ lookups'[l].at = "insert" /\ lookups'[l].on = c
        /\ lookups'[l].todo = lookups'[l].answer
        /\ \A m \in Lookups \ {l} : lookups'[m] = lookups[m]
    BY <1>2, <2>1, <2>2, LookupMoves DEF Phases
  <2>5. Holds(lookups[l], tx[c])'
    BY <2>2, <2>3, <2>4 DEF Holds
  <2>6. \A d \in Sessions \ {c} : ~tx[d].stored
    BY <1>1, <2>1 DEF Apart
  <2> QED
    BY <1>1, <1>2, <1>7, <2>2, <2>3, <2>4, <2>5, <2>6, ApartStep
<1>6. ASSUME NEW f \in Features, StoreInsert(l, c, f) PROVE Apart'
  <2>1. /\ q.at = "insert" /\ f \in q.todo /\ q.todo \subseteq q.answer
        /\ t.state = "open" /\ t.stored /\ links \subseteq t.removed /\ t.added = q.answer \ q.todo
    BY <1>2, <1>6 DEF StoreInsert, Gets, Holds
  <2>2. /\ tx' = [tx EXCEPT ![c].added = @ \cup {f}] /\ UNCHANGED <<query, links, latest>>
        /\ lookups' = [lookups EXCEPT ![l].todo = @ \ {f}]
    BY <1>3, <1>6 DEF StoreInsert
  <2>3. /\ tx'[c].state = "open" /\ tx'[c].stored /\ links \subseteq tx'[c].removed
        /\ tx'[c].added = (q.answer \ q.todo) \cup {f}
        /\ \A d \in Sessions \ {c} : tx'[d] = tx[d]
    BY <1>3, <2>1, <2>2 DEF CacheTypeOK, Transaction
  <2>4. /\ lookups'[l].at = "insert" /\ lookups'[l].on = c /\ lookups'[l].answer = q.answer
        /\ lookups'[l].todo = q.todo \ {f}
        /\ \A m \in Lookups \ {l} : lookups'[m] = lookups[m]
    BY <1>2, <2>1, <2>2 DEF CacheTypeOK, Lookup
  <2>5. (q.answer \ q.todo) \cup {f} = q.answer \ (q.todo \ {f}) /\ q.todo \ {f} \subseteq q.answer
    BY <2>1
  <2>6. Holds(lookups[l], tx[c])'
    <3> HIDE DEF q, t
    <3> QED
      BY <2>2, <2>3, <2>4, <2>5 DEF Holds
  <2>7. \A d \in Sessions \ {c} : ~tx[d].stored
    BY <1>1, <2>1 DEF Apart
  <2>8. /\ lookups[l].on = c /\ lookups'[l].on = c
        /\ \A m \in Lookups \ {l} : lookups[m].on # c /\ lookups'[m] = lookups[m]
        /\ \A d \in Sessions \ {c} : tx'[d] = tx[d]
        /\ links' = links /\ (query' = "fresh" => links' = latest')
    BY <1>1, <1>2, <1>7, <2>2, <2>3, <2>4
  <2> QED
    BY <1>1, <2>6, <2>7, <2>8, ApartStep
<1> QED
  BY <1>4, <1>5, <1>6

\* COMMIT, whether its answer arrives or not: what the lookup wrote is there.
LEMMA CommitIsApart ==
  ASSUME CacheTypeOK, CacheTypeOK', OwnsOne, ~astray => Apart, ~astray',
         NEW l \in Lookups, NEW c \in Sessions, Gets(l, "insert", c), CommitOf(l, c),
         \A m \in Lookups \ {l} : lookups'[m] = lookups[m],
         \/ lookups'[l].on = NoConnection
         \/ lookups'[l].on = lookups[l].on /\ lookups'[l].at = "rollback"
  PROVE  Apart'
<1> DEFINE q == lookups[l]
           t == tx[c]
<1>1. /\ Apart /\ \A m \in Lookups \ {l} : lookups[m].on # c
      /\ q.on \in {NoConnection, c} /\ q.at = "insert"
  BY StraightOn
<1>2. q.on = c /\ Holds(q, t)
  BY <1>1, NoLookupType DEF OwnsOne, Storing, Apart
<1>3. /\ t.stored /\ links \subseteq t.removed /\ t.added = q.answer
  BY <1>1, <1>2 DEF Holds, CommitOf
<1>4. /\ query' = "fresh" /\ links' = q.answer /\ latest' = q.answer
      /\ tx'[c] = NoTx /\ \A d \in Sessions \ {c} : tx'[d] = tx[d]
  BY <1>3 DEF CommitOf, Committed, QueryOn, LinksOn, CacheTypeOK
<1>5. \A d \in Sessions \ {c} : ~tx[d].stored
  BY <1>1, <1>3 DEF Apart
<1>6. lookups'[l].on = c => Holds(lookups[l], tx[c])'
  BY <1>4, NoLookupType DEF Holds, Empty
<1>7. lookups'[l].on \in {NoConnection, c} /\ Empty(tx'[c]) /\ ~tx'[c].stored
  BY <1>2, <1>4, NoTxType DEF Empty
<1> QED
  BY <1>1, <1>4, <1>5, <1>6, <1>7, ApartStep

\* BEGIN, ROLLBACK, and a statement that fails: the transaction is without a
\* change afterwards, and nothing is written.
LEMMA EndsAreApart ==
  ASSUME CacheTypeOK, CacheTypeOK', Apart, NEW l \in Lookups, NEW c \in Sessions,
         \A m \in Lookups \ {l} : lookups[m].on # c /\ lookups'[m] = lookups[m],
         lookups[l].on \in {NoConnection, c}, lookups'[l].on \in {NoConnection, c},
         UNCHANGED <<query, links, latest>>,
         \A d \in Sessions \ {c} : tx'[d] = tx[d],
         Empty(tx'[c]),
         lookups'[l].on = c => \/ lookups'[l].at = "rollback"
                               \/ /\ lookups'[l].at = "upsert" /\ tx'[c] = OpenTx
                                  /\ lookups'[l].todo = lookups'[l].answer
  PROVE  Apart'
<1>1. ~tx'[c].stored
  BY EmptyOnes
<1>2. lookups'[l].on = c => Holds(lookups[l], tx[c])'
  BY DEF Holds, Empty
<1>3. query' = "fresh" => links' = latest'
  BY DEF Apart
<1> QED
  BY <1>1, <1>2, <1>3, ApartStep

LEMMA ResolvingIsApart ==
  ASSUME CacheTypeOK, CacheTypeOK', OwnsOne, OwnsOne', ~astray => Apart, ~astray',
         NEW l \in Lookups, Resolving(l)
  PROVE  Apart'
<1> USE NoLookupType
<1>0. /\ \A m \in Lookups \ {l} : lookups'[m] = lookups[m]
      /\ \A c \in Sessions : tx[c] \in Transaction
      /\ lookups[l].on \in Sessions \cup {NoConnection} /\ lookups'[l].on \in Sessions \cup {NoConnection}
  BY OneMoves DEF CacheTypeOK, Lookup
<1>1. CASE Begin(l)
  <2>1. lookups'[l].on \notin Sessions /\ lookups[l].on \notin Sessions
    BY <1>1 DEF Begin, CacheTypeOK, NoLookup, InFlight, OwnsOne, Storing
  <2>2. UNCHANGED <<query, links, tx, latest>> /\ (~astray \/ Quiet)
    BY <1>1 DEF Begin
  <2>3. Quiet => Apart
    BY EmptyOnes DEF Quiet, Owned, Apart
  <2> QED
    BY <1>0, <2>1, <2>2, <2>3, ApartRest
<1>2. ASSUME \/ FetchFails(l) \/ Unavailable(l) \/ \E answer \in Answers : Fetch(l, answer)
             \/ \E c \in Sessions : \/ ReadFresh(l, c) \/ ReadStale(l, c)
                                    \/ ReadPrefilled(l, c) \/ Reread(l, c)
      PROVE  Apart'
  <2>1. ~astray /\ lookups[l].at \notin Storing /\ UNCHANGED <<query, links, tx, latest>>
    <3>1. ASSUME FetchFails(l) \/ Unavailable(l) \/ \E answer \in Answers : Fetch(l, answer)
          PROVE  ~astray /\ lookups[l].at \notin Storing /\ UNCHANGED <<query, links, tx, latest>>
      BY <3>1 DEF FetchFails, Unavailable, Fetch, Storing, CacheTypeOK
    <3>2. ASSUME NEW c \in Sessions,
                 ReadFresh(l, c) \/ ReadStale(l, c) \/ ReadPrefilled(l, c) \/ Reread(l, c)
          PROVE  ~astray /\ lookups[l].at \notin Storing /\ UNCHANGED <<query, links, tx, latest>>
      <4>1. PICK at \in {"fresh", "stale", "prefilled", "reread"} : Gets(l, at, c)
        BY <3>2 DEF ReadFresh, ReadStale, ReadPrefilled, Reread
      <4>2. UNCHANGED <<query, links, tx, latest>>
        BY <3>2 DEF ReadFresh, ReadStale, ReadPrefilled, Reread
      <4> QED
        BY <4>1, <4>2, StraightOn DEF Storing
    <3> QED
      BY <1>2, <3>1, <3>2
  <2>2. lookups'[l].at \notin Storing
    <3>1. ASSUME NEW at \in Phases \ Storing, To(l, at) \/ Leave(l) \/ WithoutRefresh(l)
          PROVE  lookups'[l].at \notin Storing
      BY <3>1, LookupMoves, RefreshEnds DEF Storing
    <3>2. ASSUME NEW answer \in Answers, Fetch(l, answer) PROVE lookups'[l].at \notin Storing
      BY <3>2 DEF Fetch, CacheTypeOK, Lookup, Storing
    <3>3. ASSUME NEW c \in Sessions, ReadStale(l, c) PROVE lookups'[l].at \notin Storing
      BY <3>3, StaleMoves DEF Storing
    <3> QED
      BY <1>2, <3>1, <3>2, <3>3
         DEF FetchFails, Unavailable, ReadFresh, ReadPrefilled, Reread, Storing, Phases
  <2>3. lookups[l].on \notin Sessions /\ lookups'[l].on \notin Sessions
    BY <2>1, <2>2 DEF OwnsOne
  <2> QED
    BY <1>0, <2>1, <2>3, ApartRest
<1>3. ASSUME NEW c \in Sessions, StoreBegin(l, c) PROVE Apart'
  <2>1. /\ Apart /\ lookups[l].at = "begin" /\ \A m \in Lookups \ {l} : lookups[m].on # c
        /\ Usable(c)
    BY <1>3, StraightOn DEF StoreBegin
  <2>2. lookups[l].on = NoConnection /\ lookups[l].todo = lookups[l].answer
    BY <1>0, <2>1 DEF OwnsOne, Storing
  <2>3. tx[c] \in {NoTx, OpenTx}
    BY <2>1, <2>2, NoTxType DEF Owned, Apart, Empty, Usable
  <2>4. /\ tx'[c] = OpenTx /\ \A d \in Sessions \ {c} : tx'[d] = tx[d]
        /\ UNCHANGED <<query, links, latest>>
    BY <1>3, <2>3, NoTxType DEF StoreBegin, CacheTypeOK
  <2>5. /\ lookups'[l].at = "upsert" /\ lookups'[l].on = c
        /\ lookups'[l].todo = lookups'[l].answer
    BY <1>3, <2>2, StepsBack DEF CacheTypeOK
  <2> QED
    BY <1>0, <2>1, <2>2, <2>4, <2>5, EndsAreApart DEF Empty
<1>4. ASSUME NEW c \in Sessions, StoreRollback(l, c) PROVE Apart'
  <2>1. /\ Apart /\ \A m \in Lookups \ {l} : lookups[m].on # c
        /\ lookups[l].on \in {NoConnection, c}
    BY <1>4, StraightOn DEF StoreRollback
  <2>2. /\ tx'[c] = NoTx /\ \A d \in Sessions \ {c} : tx'[d] = tx[d]
        /\ UNCHANGED <<query, links, latest>> /\ lookups'[l].on = NoConnection
    BY <1>4, RefreshEnds DEF StoreRollback, CacheTypeOK
  <2> QED
    BY <1>0, <2>1, <2>2, EndsAreApart DEF Empty
<1>5. ASSUME NEW c \in Sessions, StoreCommit(l, c) PROVE Apart'
  <2>1. lookups'[l].on = NoConnection
    BY <1>5, StepsBack DEF CacheTypeOK
  <2> QED
    BY <1>0, <1>5, <2>1, CommitIsApart DEF StoreCommit
<1>6. ASSUME NEW c \in Sessions, StatementFails(l, c) PROVE Apart'
  <2>1. Gets(l, lookups[l].at, c) /\ Fail(l)
    BY <1>6 DEF StatementFails
  <2>2. /\ Apart /\ \A m \in Lookups \ {l} : lookups[m].on # c
        /\ lookups[l].on \in {NoConnection, c}
    BY <2>1, StraightOn
  <2>3. \/ lookups'[l].on = lookups[l].on /\ lookups'[l].at = "rollback"
        \/ lookups'[l].on = NoConnection /\ lookups[l].at \notin Storing
    BY <2>1, Failing, RefreshEnds, LookupMoves DEF Storing
  <2>4. CASE lookups[l].at = "insert" /\ CommitOf(l, c)
    BY <1>0, <2>1, <2>3, <2>4, CommitIsApart
  <2>5. CASE /\ tx' \in {IF tx[c].state = "open" THEN [tx EXCEPT ![c] = FailedTx] ELSE tx,
                         [tx EXCEPT ![c] = NoTx]}
             /\ UNCHANGED <<query, links, latest>>
    <3>1. /\ \A d \in Sessions \ {c} : tx'[d] = tx[d]
          /\ tx'[c] \in {tx[c], FailedTx, NoTx} /\ (tx'[c] = tx[c] => tx[c].state # "open" \/ Empty(tx[c]))
      BY <2>5 DEF CacheTypeOK, Empty
    <3>2. tx[c].state # "open" => Empty(tx[c])
      BY <2>2, NotOpenIsEmpty
    <3>3. Empty(tx'[c])
      BY <3>1, <3>2 DEF Empty
    <3> QED
      BY <1>0, <2>2, <2>3, <2>5, <3>1, <3>3, EndsAreApart
  <2> QED
    BY <1>6, <2>4, <2>5 DEF StatementFails
<1> QED
  BY <1>1, <1>2, <1>3, <1>4, <1>5, <1>6, StoreIsApart DEF Resolving

LEMMA SurroundingsAreApart ==
  ASSUME CacheTypeOK, Apart, ~astray',
         (\E c \in Sessions : OthersQuery(c)) \/ CacheExpires \/ CacheCrash
  PROVE  Apart'
<1>1. CASE CacheExpires
  BY <1>1 DEF CacheExpires, Apart, Owned, Holds, Empty
<1>2. CASE CacheCrash
  <2>1. /\ \A l \in Lookups : lookups'[l].on = NoConnection
        /\ \A c \in Sessions : tx'[c] = NoTx
        /\ UNCHANGED <<query, links, latest>>
    BY <1>2, NoLookupType DEF CacheCrash
  <2> QED
    BY <2>1, NoLookupType, NoTxType DEF Apart, Empty
<1>3. ASSUME NEW c \in Sessions, OthersQuery(c) PROVE Apart'
  <2>1. ~Owned(c) /\ UNCHANGED <<lookups, latest>>
    BY <1>3 DEF OthersQuery
  <2>2. Empty(tx[c])
    BY <2>1 DEF Apart
  <2>3. /\ tx'[c] \in {OpenTx, FailedTx, NoTx}
        /\ \A d \in Sessions \ {c} : tx'[d] = tx[d]
        /\ UNCHANGED <<query, links>>
    <3>1. QueryOn(c) = query /\ LinksOn(c) = links
      BY <2>2, EmptyOnes DEF QueryOn, LinksOn
    <3> QED
      BY <1>3, <3>1 DEF OthersQuery, Committed, CacheTypeOK
  <2>4. \A d \in Sessions : Owned(d)' <=> Owned(d)
    BY <2>1 DEF Owned
  <2>5. \A l \in Lookups : lookups[l].on \in Sessions => tx'[lookups[l].on] = tx[lookups[l].on]
    BY <2>1, <2>3 DEF Owned
  <2>6. Empty(tx'[c]) /\ ~tx'[c].stored
    BY <2>3, NoTxType DEF Empty
  <2>7. \A l \in Lookups : lookups'[l].on \in Sessions => Holds(lookups[l], tx[lookups[l].on])'
    <3> SUFFICES ASSUME NEW l \in Lookups, lookups[l].on \in Sessions
                 PROVE  Holds(lookups[l], tx[lookups[l].on])'
      BY <2>1
    <3>1. Holds(lookups[l], tx[lookups[l].on]) /\ tx[lookups[l].on]' = tx[lookups[l].on]
      BY <2>1, <2>5 DEF Apart
    <3> QED
      BY <2>1, <2>3, <3>1 DEF Holds, Empty
  <2>8. \A d \in Sessions : ~Owned(d)' => Empty(tx'[d])
    BY <2>3, <2>4, <2>6 DEF Apart
  <2>9. \A d, e \in Sessions : tx'[d].stored /\ tx'[e].stored => d = e
    BY <2>3, <2>6 DEF Apart
  <2> QED
    BY <2>1, <2>3, <2>7, <2>8, <2>9 DEF Apart, Empty
<1> QED
  BY <1>1, <1>2, <1>3

LEMMA CacheInvKept == CacheInv /\ [CacheNext]_cacheVars => CacheInv'
<1> SUFFICES ASSUME CacheInv, [CacheNext]_cacheVars PROVE CacheInv'
  OBVIOUS
<1> USE DEF CacheInv
<1>1. CacheTypeOK'
  BY LookupsTyped, RestTyped DEF CacheTypeOK
<1>2. RowIsKept'
  BY RowKept
<1>3. OwnsOne'
  BY OwnsKept
<1>4. ASSUME ~astray' PROVE Apart'
  <2>1. ASSUME NEW l \in Lookups, Resolving(l) PROVE Apart'
    BY <1>1, <1>3, <1>4, <2>1, ResolvingIsApart
  <2>2. CASE (\E c \in Sessions : OthersQuery(c)) \/ CacheExpires \/ CacheCrash
    <3>1. ~astray
      BY <1>4, <2>2 DEF OthersQuery, CacheExpires, CacheCrash
    <3> QED
      BY <1>4, <2>2, <3>1, SurroundingsAreApart
  <2>3. CASE UNCHANGED cacheVars
    BY <1>4, <2>3 DEF cacheVars, Apart, Owned, Holds, Empty
  <2> QED
    BY <2>1, <2>2, <2>3 DEF CacheNext
<1> QED
  BY <1>1, <1>2, <1>3, <1>4

LEMMA CacheInvAlways == CacheSpec => []CacheInv
BY CacheInvFirst, CacheInvKept, PTL DEF CacheSpec

\* Every reachable state of the advisory cache has its type, for any number of
\* lookups, connections and features.
THEOREM CacheTyped == CacheSpec => []CacheTypeOK
<1>1. CacheInv => CacheTypeOK
  BY DEF CacheInv
<1> QED
  BY <1>1, CacheInvAlways, PTL

\* A row that is answered from has exactly the features Overpass answered to the
\* lookup that committed last, however lookups overlap and whatever statement
\* of persistCacheRow fails, until a statement goes astray.
THEOREM AnswersAreWhole == CacheSpec => []CacheIsWhole
<1>1. CacheInv => CacheIsWhole
  BY DEF CacheInv, Apart, CacheIsWhole
<1> QED
  BY <1>1, CacheInvAlways, PTL

\* A lookup that began when there was a row, however old, does not end with
\* osm_unavailable, on whatever connections statements run.
THEOREM StaleRowsAnswer == CacheSpec => []StaleIsAnswered
<1>1. CacheInv => StaleIsAnswered
  BY DEF CacheInv, RowIsKept, StaleIsAnswered
<1> QED
  BY <1>1, CacheInvAlways, PTL

-----------------------------------------------------------------------------
(* CashbackReminders.                                                        *)

\* Whom a tick reminds has a claim; who is noted, here or in what a request
\* will save, was reminded.
ClaimsAreTrue ==
  /\ \A u \in Learners : /\ claims[u].state = "none" => claims[u] = NoClaim
                         /\ claims[u].reminded => pushes[u] > 0
  /\ \A s \in Submits : submits[s].read.reminded => pushes[ByLearner[s]] > 0
  /\ \A t \in Ticks :
       /\ \A u \in ticks[t].todo \cup ticks[t].sent : claims[u].state # "none"
       /\ \A u \in ticks[t].sent : pushes[u] > 0
       /\ ticks[t].at # "note" => ticks[t].sent = {}
       /\ ~Working(t) => ticks[t].todo = {}
  /\ lock.by # NoSession => lock.depth > 0

\* Without a mishap one tick works at a time, under a lock that its process
\* holds, and what it has not noted yet is what it has just pushed.
Guarded ==
  /\ \A t \in Ticks : Working(t) => lock.by # NoSession /\ PoolOf[lock.by] = HostOf[t]
  /\ \A t, o \in Ticks : Working(t) /\ Working(o) => t = o
  /\ \A t \in Ticks : \A u \in ticks[t].todo : pushes[u] = 0
  /\ \A u \in Learners :
       /\ pushes[u] <= 1
       /\ pushes[u] > 0 => claims[u].reminded \/ \E t \in Ticks : u \in ticks[t].sent

RemindersInv == RemindersTypeOK /\ ClaimsAreTrue /\ (happened = {} => Guarded)

LEMMA OffTypes ==
  /\ NoClaim \in Claim /\ NoClaim.state = "none" /\ ~NoClaim.reminded /\ NoClaim.test = "unknown"
  /\ OffTick \in Tick /\ OffTick.at = "off" /\ OffTick.todo = {} /\ OffTick.sent = {}
  /\ OffSubmit \in Submit /\ OffSubmit.at = "off" /\ OffSubmit.read = NoClaim
BY DEF NoClaim, Claim, OffTick, Tick, OffSubmit, Submit

LEMMA RemindersInvFirst == RemindersInit => RemindersInv
<1> SUFFICES ASSUME RemindersInit PROVE RemindersInv
  OBVIOUS
<1>1. RemindersTypeOK
  BY OffTypes, LearnersAssumption DEF RemindersInit, RemindersTypeOK
<1>2. ClaimsAreTrue
  BY OffTypes DEF RemindersInit, ClaimsAreTrue
<1>3. Guarded
  BY OffTypes DEF RemindersInit, Guarded, Working
<1> QED
  BY <1>1, <1>2, <1>3 DEF RemindersInv

LEMMA RequestsTyped ==
  ASSUME RemindersTypeOK, NEW s \in Submits, Submitting(s)
  PROVE  RemindersTypeOK'
<1> USE DEF RemindersTypeOK, tickVars, claimVars
<1>1. ByLearner[s] \in Learners
  BY LearnersAssumption
<1>2. \A at \in {"off", "insert", "save", "track"}, read \in Claim : [at |-> at, read |-> read] \in Submit
  BY DEF Submit
<1>3. CASE ClaimStart(s) \/ ClaimRead(s)
  BY <1>1, <1>2, <1>3, OffTypes DEF ClaimStart, ClaimRead, SubmitTo
<1>4. CASE ClaimInsert(s)
  <2>1. [NoClaim EXCEPT !.state = "pending"] \in Claim
    BY DEF NoClaim, Claim
  <2> QED
    BY <1>1, <1>4, <2>1, OffTypes DEF ClaimInsert, SubmitEnd
<1>5. ASSUME NEW state \in {"pending", "approved"},
             NEW test \in {"later", "due", "past", submits[s].read.test}, ClaimSave(s, state, test)
      PROVE  RemindersTypeOK'
  <2>1. submits[s].read \in Claim
    BY DEF Submit
  <2>2. [submits[s].read EXCEPT !.state = state, !.test = test] \in Claim
    BY <2>1 DEF Claim
  <2> QED
    BY <1>1, <1>2, <1>5, <2>1, <2>2 DEF ClaimSave, SubmitTo, Mishaps
<1>6. CASE ClaimTrack(s) \/ SubmitDies(s)
  BY <1>1, <1>6, OffTypes DEF ClaimTrack, SubmitDies, SubmitEnd
<1> QED
  BY <1>3, <1>4, <1>5, <1>6 DEF Submitting

LEMMA TickingTyped ==
  ASSUME RemindersTypeOK, ClaimsAreTrue, NEW t \in Ticks, Ticking(t)
  PROVE  RemindersTypeOK'
<1> USE DEF RemindersTypeOK, tickVars, claimVars
<1>1. ASSUME NEW at \in {"off", "lock", "read", "send", "note", "unlock"},
             NEW todo \in SUBSET Learners, NEW sent \in SUBSET Learners, TickTo(t, at, todo, sent)
      PROVE  ticks' \in [Ticks -> Tick]
  BY <1>1 DEF TickTo, Tick
<1>2. ticks[t].todo \in SUBSET Learners /\ ticks[t].sent \in SUBSET Learners
  BY DEF Tick
<1>3. CASE TickStart(t)
  BY <1>1, <1>3 DEF TickStart
<1>4. CASE TickRead(t)
  <2>1. ticks' \in [Ticks -> Tick]
    <3>1. {u \in Learners : claims[u].test = "due" /\ ~claims[u].reminded} \in SUBSET Learners
      OBVIOUS
    <3>2. {} \in SUBSET Learners
      OBVIOUS
    <3> QED
      BY ONLY <1>1, <1>4, <3>1, <3>2 DEF TickRead
  <2> QED
    BY <1>4, <2>1 DEF TickRead
<1>5. CASE TickNote(t)
  <2>1. ticks' \in [Ticks -> Tick]
    <3>1. {} \in SUBSET Learners
      OBVIOUS
    <3> QED
      BY ONLY <1>1, <1>2, <1>5, <3>1 DEF TickNote
  <2>2. \A u \in Learners : [claims[u] EXCEPT !.reminded = TRUE] \in Claim
    BY DEF Claim
  <2> QED
    BY <1>5, <2>1, <2>2 DEF TickNote
<1>6. CASE TickEnd(t)
  <2>1. ticks' \in [Ticks -> Tick]
    <3>1. {} \in SUBSET Learners
      OBVIOUS
    <3> QED
      BY ONLY <1>1, <1>6, <3>1 DEF TickEnd
  <2> QED
    BY <1>6, <2>1 DEF TickEnd, Mishaps
<1>7. ASSUME NEW c \in Connections, TickLock(t, c) PROVE RemindersTypeOK'
  <2>1. ticks' \in [Ticks -> Tick]
    BY <1>1, <1>7 DEF TickLock
  <2>2. lock' \in [by : Connections \cup {NoSession}, depth : 0..MaxDepth]
    BY <1>7, LearnersAssumption DEF TickLock
  <2> QED
    BY <1>7, <2>1, <2>2 DEF TickLock, Mishaps
<1>8. ASSUME NEW c \in Connections, TickUnlock(t, c) PROVE RemindersTypeOK'
  <2>1. ticks' \in [Ticks -> Tick]
    BY <1>1, <1>8 DEF TickUnlock
  <2>2. lock' \in [by : Connections \cup {NoSession}, depth : 0..MaxDepth]
    BY <1>8, LearnersAssumption, ConnectionsAssumption
       DEF TickUnlock, Unlocked, NoSession, ClaimsAreTrue
  <2> QED
    BY <1>8, <2>1, <2>2 DEF TickUnlock, Mishaps
<1>9. ASSUME NEW u \in Learners, TickSend(t, u) \/ TickSendFails(t, u) PROVE RemindersTypeOK'
  <2>1. ticks' \in [Ticks -> Tick]
    <3>1. /\ {} \in SUBSET Learners /\ {u} \in SUBSET Learners
          /\ ticks[t].todo \ {u} \in SUBSET Learners
      BY <1>2
    <3> QED
      BY ONLY <1>1, <1>9, <3>1 DEF TickSend, TickSendFails
  <2>2. pushes' \in [Learners -> 0..MaxPushes]
    BY <1>9, LearnersAssumption DEF TickSend, TickSendFails
  <2> QED
    BY <1>9, <2>1, <2>2 DEF TickSend, TickSendFails, Mishaps
<1> QED
  BY <1>3, <1>4, <1>5, <1>6, <1>7, <1>8, <1>9 DEF Ticking

LEMMA OthersTyped ==
  ASSUME RemindersTypeOK,
         \/ \E u \in Learners : TimePasses(u)
         \/ \E c \in Connections : ConnectionCloses(c)
         \/ \E p \in {HostOf[t] : t \in Ticks} : HostDies(p)
         \/ UNCHANGED reminderVars
  PROVE  RemindersTypeOK'
<1> USE DEF RemindersTypeOK, tickVars, claimVars
<1>1. ASSUME NEW u \in Learners, TimePasses(u) PROVE RemindersTypeOK'
  <2>1. \A test \in {"due", "past"} : [claims[u] EXCEPT !.test = test] \in Claim
    BY DEF Claim
  <2> QED
    BY <1>1, <2>1 DEF TimePasses
<1>2. ASSUME NEW c \in Connections, ConnectionCloses(c) PROVE RemindersTypeOK'
  BY <1>2, LearnersAssumption DEF ConnectionCloses, Mishaps
<1>3. ASSUME NEW p, HostDies(p) PROVE RemindersTypeOK'
  BY <1>3, LearnersAssumption, OffTypes DEF HostDies, Mishaps
<1>4. CASE UNCHANGED reminderVars
  BY <1>4 DEF reminderVars
<1> QED
  BY <1>1, <1>2, <1>3, <1>4

\* What a step of a tick leaves it with.
LEMMA TickMoves ==
  ASSUME RemindersTypeOK, NEW t \in Ticks, NEW at, NEW todo, NEW sent, TickTo(t, at, todo, sent)
  PROVE  /\ ticks'[t].at = at /\ ticks'[t].todo = todo /\ ticks'[t].sent = sent
         /\ \A o \in Ticks \ {t} : ticks'[o] = ticks[o]
BY DEF TickTo, RemindersTypeOK

LEMMA RequestsKeepClaims ==
  ASSUME RemindersTypeOK, ClaimsAreTrue, NEW s \in Submits, Submitting(s)
  PROVE  ClaimsAreTrue'
<1> DEFINE v == ByLearner[s]
           Told(claim) == claim.reminded => pushes[v] > 0
           Requests == /\ \A o \in Submits \ {s} : submits'[o] = submits[o]
                       /\ Told(submits'[s].read)
           Saved == /\ \A u \in Learners \ {v} : claims'[u] = claims[u]
                    /\ claims'[v].state = "none" => claims'[v] = NoClaim
                    /\ Told(claims'[v])
                    /\ claims[v].state # "none" => claims'[v].state # "none"
<1>1. v \in Learners /\ claims[v] \in Claim /\ submits[s].read \in Claim
  BY LearnersAssumption DEF RemindersTypeOK, Submit
<1>2. UNCHANGED <<ticks, running, lock, pushes>>
  BY DEF Submitting, ClaimStart, ClaimInsert, ClaimRead, ClaimSave, ClaimTrack, SubmitDies, tickVars
<1>3. Requests
  <2>1. ASSUME NEW at, NEW read, SubmitTo(s, at, read), Told(read) PROVE Requests
    BY <2>1 DEF SubmitTo, RemindersTypeOK
  <2>2. ASSUME SubmitEnd(s) PROVE Requests
    BY <2>2, OffTypes DEF SubmitEnd, RemindersTypeOK
  <2>3. Told(NoClaim) /\ Told(claims[v]) /\ Told(submits[s].read)
    BY <1>1, OffTypes DEF ClaimsAreTrue
  <2> QED
    BY <2>1, <2>2, <2>3
       DEF Submitting, ClaimStart, ClaimInsert, ClaimRead, ClaimSave, ClaimTrack, SubmitDies
<1>4. Saved
  <2>1. CASE ClaimInsert(s)
    BY <1>1, <2>1, OffTypes DEF ClaimInsert, ClaimsAreTrue, RemindersTypeOK, Claim
  <2>2. ASSUME NEW state \in {"pending", "approved"},
               NEW test \in {"later", "due", "past", submits[s].read.test}, ClaimSave(s, state, test)
        PROVE  Saved
    BY <1>1, <2>2 DEF ClaimSave, ClaimsAreTrue, RemindersTypeOK, Claim
  <2>3. CASE UNCHANGED claims
    BY <1>1, <2>3 DEF ClaimsAreTrue
  <2> QED
    BY <2>1, <2>2, <2>3
       DEF Submitting, ClaimStart, ClaimRead, ClaimTrack, SubmitDies, claimVars
<1> QED
  BY <1>1, <1>2, <1>3, <1>4, LearnersAssumption
     DEF ClaimsAreTrue, Working, RemindersTypeOK, Tick

LEMMA TicksKeepClaims ==
  ASSUME RemindersTypeOK, ClaimsAreTrue, NEW t \in Ticks, Ticking(t)
  PROVE  ClaimsAreTrue'
<1> DEFINE Fine(k) == /\ \A u \in k.todo \cup k.sent : claims'[u].state # "none"
                      /\ \A u \in k.sent : pushes'[u] > 0
                      /\ k.at # "note" => k.sent = {}
                      /\ k.at \notin {"read", "send", "note"} => k.todo = {}
           Claimed == \A u \in Learners :
                        /\ claims'[u].state = claims[u].state
                        /\ claims'[u].state = "none" => claims'[u] = NoClaim
                        /\ claims'[u].reminded => pushes'[u] > 0
                        /\ pushes'[u] >= pushes[u]
                        /\ pushes[u] \in Nat /\ pushes'[u] \in Nat
           Leaves == Claimed /\ Fine(ticks'[t]) /\ (\A o \in Ticks \ {t} : ticks'[o] = ticks[o])
                     /\ (lock'.by # NoSession => lock'.depth > 0)
<1>0. /\ \A u \in Learners : pushes[u] \in Nat
      /\ \A o \in Ticks : ticks[o].todo \subseteq Learners /\ ticks[o].sent \subseteq Learners
  BY LearnersAssumption DEF RemindersTypeOK, Tick
<1>1. UNCHANGED <<claims, pushes>> => Claimed
  BY <1>0 DEF ClaimsAreTrue
<1>2. lock' = lock => (lock'.by # NoSession => lock'.depth > 0)
  BY DEF ClaimsAreTrue
<1>3. ASSUME TickStart(t) \/ TickEnd(t) PROVE Leaves
  BY <1>1, <1>2, <1>3, TickMoves DEF TickStart, TickEnd, claimVars
<1>4. ASSUME TickRead(t) PROVE Leaves
  <2>1. \A u \in Learners : claims[u].test = "due" => claims[u].state # "none"
    BY OffTypes DEF ClaimsAreTrue
  <2>2. ticks'[t].sent = {} /\ ticks'[t].at = "send"
        /\ ticks'[t].todo = {u \in Learners : claims[u].test = "due" /\ ~claims[u].reminded}
        /\ \A o \in Ticks \ {t} : ticks'[o] = ticks[o]
    BY <1>4, TickMoves DEF TickRead
  <2>3. UNCHANGED <<claims, pushes, lock>>
    BY <1>4 DEF TickRead, claimVars
  <2> QED
    BY <1>1, <1>2, <2>1, <2>2, <2>3
<1>5. ASSUME TickNote(t) PROVE Leaves
  <2>1. \A u \in ticks[t].sent : pushes[u] > 0 /\ claims[u].state # "none"
    BY DEF ClaimsAreTrue
  <2>2. \A u \in Learners :
          /\ u \in ticks[t].sent => claims'[u].state = claims[u].state /\ claims'[u].reminded
          /\ u \notin ticks[t].sent => claims'[u] = claims[u]
    BY <1>5 DEF TickNote, RemindersTypeOK, Claim
  <2>3. UNCHANGED <<pushes, lock>>
    BY <1>5 DEF TickNote
  <2>4. Claimed
    BY <1>0, <2>1, <2>2, <2>3 DEF ClaimsAreTrue
  <2>5. /\ ticks'[t].at = "send" /\ ticks'[t].todo = ticks[t].todo /\ ticks'[t].sent = {}
        /\ \A o \in Ticks \ {t} : ticks'[o] = ticks[o]
    BY <1>5, TickMoves DEF TickNote
  <2>6. \A u \in ticks[t].todo : claims'[u].state # "none"
    BY <1>0, <2>2 DEF ClaimsAreTrue
  <2> QED
    BY <1>2, <2>3, <2>4, <2>5, <2>6
<1>6. ASSUME NEW u \in Learners, TickSend(t, u) \/ TickSendFails(t, u) PROVE Leaves
  <2>1. UNCHANGED <<claims, lock>>
    BY <1>6 DEF TickSend, TickSendFails, claimVars
  <2>2. /\ \A w \in Learners : pushes'[w] >= pushes[w] /\ pushes'[w] \in Nat
        /\ ticks'[t].sent = {} \/ (ticks'[t].sent = {u} /\ pushes'[u] > 0 /\ ticks'[t].at = "note")
    <3>1. CASE TickSend(t, u)
      BY <1>0, <3>1, TickMoves DEF TickSend, RemindersTypeOK
    <3>2. CASE TickSendFails(t, u)
      BY <1>0, <3>2, TickMoves DEF TickSendFails, RemindersTypeOK
    <3> QED
      BY <1>6, <3>1, <3>2
  <2>3. /\ ticks'[t].at \in {"send", "note"} /\ ticks'[t].todo = ticks[t].todo \ {u} /\ u \in ticks[t].todo
        /\ \A o \in Ticks \ {t} : ticks'[o] = ticks[o]
    BY <1>6, TickMoves DEF TickSend, TickSendFails
  <2>4. Claimed
    BY <1>0, <2>1, <2>2 DEF ClaimsAreTrue
  <2> QED
    BY <1>2, <2>1, <2>2, <2>3, <2>4 DEF ClaimsAreTrue
<1>7. ASSUME NEW c \in Connections, TickLock(t, c) \/ TickUnlock(t, c) PROVE Leaves
  <2>1. UNCHANGED <<claims, pushes>>
    BY <1>7 DEF TickLock, TickUnlock, claimVars
  <2>2. Fine(ticks'[t]) /\ \A o \in Ticks \ {t} : ticks'[o] = ticks[o]
    BY <1>7, TickMoves DEF TickLock, TickUnlock
  <2>3. lock'.by # NoSession => lock'.depth > 0
    BY <1>7, LearnersAssumption
       DEF TickLock, TickUnlock, Unlocked, ClaimsAreTrue, RemindersTypeOK
  <2> QED
    BY <1>1, <2>1, <2>2, <2>3
<1>8. Leaves
  BY <1>3, <1>4, <1>5, <1>6, <1>7 DEF Ticking
<1>9. UNCHANGED submits
  BY DEF Ticking, TickStart, TickRead, TickNote, TickEnd, TickLock, TickUnlock, TickSend, TickSendFails
<1> QED
  <2>0. Claimed
    BY <1>8
  <2>1. ASSUME NEW o \in Ticks \ {t} PROVE Fine(ticks'[o])
    <3>1. ticks'[o] = ticks[o]
      BY <1>8
    <3>2. \A u \in ticks[o].todo \cup ticks[o].sent : u \in Learners /\ claims[u].state # "none"
      BY <1>0 DEF ClaimsAreTrue
    <3>3. \A u \in ticks[o].sent : u \in Learners /\ pushes[u] > 0
      BY <1>0 DEF ClaimsAreTrue
    <3>4. /\ ticks[o].at # "note" => ticks[o].sent = {}
          /\ ticks[o].at \notin {"read", "send", "note"} => ticks[o].todo = {}
      BY DEF ClaimsAreTrue, Working
    <3> QED
      BY <2>0, <3>1, <3>2, <3>3, <3>4
  <2>2. ASSUME NEW s \in Submits, submits'[s].read.reminded PROVE pushes'[ByLearner[s]] > 0
    <3>1. pushes[ByLearner[s]] > 0 /\ ByLearner[s] \in Learners
      BY <1>9, <2>2, LearnersAssumption DEF ClaimsAreTrue
    <3> QED
      BY <2>0, <3>1
  <2>3. Fine(ticks'[t]) /\ (lock'.by # NoSession => lock'.depth > 0)
    BY <1>8
  <2>4. \A o \in Ticks : Fine(ticks'[o])
    BY <2>1, <2>3
  <2> HIDE DEF Leaves
  <2> QED
    BY <2>0, <2>2, <2>3, <2>4 DEF ClaimsAreTrue, Working

LEMMA OthersKeepClaims ==
  ASSUME RemindersTypeOK, ClaimsAreTrue,
         \/ \E u \in Learners : TimePasses(u)
         \/ \E c \in Connections : ConnectionCloses(c)
         \/ \E p \in {HostOf[t] : t \in Ticks} : HostDies(p)
         \/ UNCHANGED reminderVars
  PROVE  ClaimsAreTrue'
<1>1. ASSUME NEW u \in Learners, TimePasses(u) PROVE ClaimsAreTrue'
  <2>1. /\ claims'[u].state = claims[u].state /\ claims[u].state # "none"
        /\ claims'[u].reminded = claims[u].reminded
        /\ \A o \in Learners \ {u} : claims'[o] = claims[o]
    BY <1>1, OffTypes DEF TimePasses, ClaimsAreTrue, RemindersTypeOK, Claim
  <2>2. UNCHANGED <<ticks, lock, submits, pushes>>
    BY <1>1 DEF TimePasses, tickVars
  <2> QED
    BY <2>1, <2>2 DEF ClaimsAreTrue, Working, RemindersTypeOK, Tick
<1>2. ASSUME NEW c \in Connections, ConnectionCloses(c) PROVE ClaimsAreTrue'
  BY <1>2 DEF ConnectionCloses, ClaimsAreTrue, Working, claimVars
<1>3. ASSUME NEW p, HostDies(p) PROVE ClaimsAreTrue'
  <2>1. \A t \in Ticks : ticks'[t] \in {ticks[t], OffTick}
    BY <1>3 DEF HostDies
  <2>2. UNCHANGED <<claims, submits, pushes>> /\ (lock'.by # NoSession => lock'.depth > 0)
    BY <1>3 DEF HostDies, claimVars, ClaimsAreTrue
  <2> QED
    BY <2>1, <2>2, OffTypes DEF ClaimsAreTrue, Working
<1>4. CASE UNCHANGED reminderVars
  BY <1>4 DEF reminderVars, ClaimsAreTrue, Working, claimVars, tickVars
<1> QED
  BY <1>1, <1>2, <1>3, <1>4

\* Guarded, when the notes stay and so does the rest.
LEMMA NotesStay ==
  ASSUME Guarded, UNCHANGED <<ticks, lock, pushes>>,
         \A u \in Learners : claims[u].reminded => claims'[u].reminded
  PROVE  Guarded'
BY DEF Guarded, Working

LEMMA RequestsKeepGuard ==
  ASSUME RemindersTypeOK, ClaimsAreTrue, Guarded, happened' = {}, NEW s \in Submits, Submitting(s)
  PROVE  Guarded'
<1> DEFINE v == ByLearner[s]
<1>1. v \in Learners /\ claims[v] \in Claim /\ submits[s].read \in Claim
  BY LearnersAssumption DEF RemindersTypeOK, Submit
<1>2. UNCHANGED <<ticks, lock, pushes>>
  BY DEF Submitting, ClaimStart, ClaimInsert, ClaimRead, ClaimSave, ClaimTrack, SubmitDies, tickVars
<1>3. CASE ClaimInsert(s)
  <2>1. claims[v].reminded => claims[v].state # "none"
    BY OffTypes, <1>1 DEF ClaimsAreTrue
  <2>2. \A u \in Learners : claims[u].reminded => claims'[u].reminded
    BY <1>3, <2>1 DEF ClaimInsert, RemindersTypeOK
  <2> QED
    BY <1>2, <2>2, NotesStay
<1>4. ASSUME NEW state \in {"pending", "approved"},
             NEW test \in {"later", "due", "past", submits[s].read.test}, ClaimSave(s, state, test)
      PROVE  Guarded'
  <2>1. claims[v].reminded => submits[s].read.reminded
    BY <1>4 DEF ClaimSave
  <2>2. \A u \in Learners : claims[u].reminded => claims'[u].reminded
    BY <1>1, <1>4, <2>1 DEF ClaimSave, RemindersTypeOK, Claim
  <2> QED
    BY <1>2, <2>2, NotesStay
<1>5. CASE UNCHANGED claims
  BY <1>2, <1>5, NotesStay
<1> QED
  BY <1>3, <1>4, <1>5 DEF Submitting, ClaimStart, ClaimRead, ClaimTrack, SubmitDies, claimVars

LEMMA TicksKeepGuard ==
  ASSUME RemindersTypeOK, ClaimsAreTrue, Guarded, happened' = {}, NEW t \in Ticks, Ticking(t)
  PROVE  Guarded'
<1>0. /\ \A u \in Learners : pushes[u] \in Nat
      /\ \A o \in Ticks : ticks[o].todo \subseteq Learners /\ ticks[o].sent \subseteq Learners
  BY LearnersAssumption DEF RemindersTypeOK, Tick
<1>1. \A o \in Ticks : /\ ~Working(o) => ticks[o].todo = {} /\ ticks[o].sent = {}
                       /\ ticks[o].at # "note" => ticks[o].sent = {}
  BY DEF ClaimsAreTrue, Working
<1>2. Working(t) => \A o \in Ticks \ {t} : ~Working(o)
  BY DEF Guarded
<1>3. CASE TickStart(t)
  <2>1. /\ ~Working(t)' /\ ticks'[t].todo = {} /\ ticks'[t].sent = {} /\ ticks[t].sent = {}
        /\ \A o \in Ticks \ {t} : ticks'[o] = ticks[o]
    BY <1>1, <1>3, TickMoves DEF TickStart, Working
  <2>2. UNCHANGED <<claims, lock, pushes>>
    BY <1>3 DEF TickStart, claimVars
  <2> QED
    BY <2>1, <2>2 DEF Guarded, Working
<1>4. CASE TickRead(t)
  <2>1. /\ Working(t) /\ ticks[t].sent = {} /\ ticks'[t].sent = {}
        /\ ticks'[t].todo = {u \in Learners : claims[u].test = "due" /\ ~claims[u].reminded}
        /\ \A o \in Ticks \ {t} : ticks'[o] = ticks[o]
    BY <1>1, <1>4, TickMoves DEF TickRead, Working
  <2>2. UNCHANGED <<claims, lock, pushes>>
    BY <1>4 DEF TickRead, claimVars
  <2>3. \A o \in Ticks : ticks[o].sent = {}
    BY <1>1, <1>2, <2>1
  <2>4. \A u \in ticks'[t].todo : pushes[u] = 0
    BY <1>0, <2>1, <2>3 DEF Guarded
  <2>5. \A o \in Ticks : Working(o)' => Working(o)
    BY <2>1 DEF Working
  <2> QED
    BY <2>1, <2>2, <2>3, <2>4, <2>5 DEF Guarded
<1>5. CASE TickNote(t)
  <2>1. /\ Working(t) /\ ticks'[t].sent = {} /\ ticks'[t].todo = ticks[t].todo
        /\ \A o \in Ticks \ {t} : ticks'[o] = ticks[o]
    BY <1>5, TickMoves DEF TickNote, Working
  <2>2. UNCHANGED <<lock, pushes>>
    BY <1>5 DEF TickNote
  <2>3. \A u \in Learners : claims[u].reminded \/ u \in ticks[t].sent => claims'[u].reminded
    BY <1>5 DEF TickNote, RemindersTypeOK, Claim
  <2>4. \A o \in Ticks : Working(o)' => Working(o)
    BY <2>1 DEF Working
  <2>5. \A u \in Learners : pushes[u] > 0 => claims'[u].reminded
    BY <1>1, <1>2, <2>1, <2>3 DEF Guarded
  <2> QED
    BY <2>1, <2>2, <2>4, <2>5 DEF Guarded
<1>6. CASE TickEnd(t)
  <2>1. ticks[t].sent = {}
    BY <1>6 DEF TickEnd
  <2>2. /\ ~Working(t)' /\ ticks'[t].todo = {} /\ ticks'[t].sent = {}
        /\ \A o \in Ticks \ {t} : ticks'[o] = ticks[o]
    BY <1>6, TickMoves DEF TickEnd, Working
  <2>3. UNCHANGED <<claims, lock, pushes>>
    BY <1>6 DEF TickEnd, claimVars
  <2> QED
    BY <2>1, <2>2, <2>3 DEF Guarded, Working
<1>7. ASSUME NEW c \in Connections, TickLock(t, c) PROVE Guarded'
  <2>1. /\ ~Working(t) /\ ticks[t].sent = {} /\ ticks'[t].todo = {} /\ ticks'[t].sent = {}
        /\ \A o \in Ticks \ {t} : ticks'[o] = ticks[o]
    BY <1>1, <1>7, TickMoves DEF TickLock, Working
  <2>2. UNCHANGED <<claims, pushes>>
    BY <1>7 DEF TickLock, claimVars
  <2>3. CASE lock.by \notin {NoSession, c}
    <3>1. lock' = lock /\ ~Working(t)'
      BY <1>7, <2>3, TickMoves DEF TickLock, Working
    <3> QED
      BY <2>1, <2>2, <3>1 DEF Guarded, Working
  <2>4. CASE lock.by \in {NoSession, c}
    <3>1. lock'.by = c /\ PoolOf[c] = HostOf[t] /\ ~PoolWorks(HostOf[t])
      BY <1>7, <2>4 DEF TickLock
    <3>2. \A o \in Ticks : ~Working(o)
      BY <2>4, <3>1 DEF Guarded, PoolWorks
    <3>3. \A o \in Ticks : Working(o)' => o = t
      BY <2>1, <3>2 DEF Working
    <3>4. c # NoSession
      BY ConnectionsAssumption DEF NoSession
    <3> QED
      BY <2>1, <2>2, <3>1, <3>3, <3>4 DEF Guarded
  <2> QED
    BY <2>3, <2>4
<1>8. ASSUME NEW c \in Connections, TickUnlock(t, c) PROVE Guarded'
  <2>1. /\ ~Working(t) /\ ticks[t].sent = {} /\ ticks'[t].todo = {} /\ ticks'[t].sent = {}
        /\ \A o \in Ticks \ {t} : ticks'[o] = ticks[o]
        /\ ~Working(t)'
    BY <1>1, <1>8, TickMoves DEF TickUnlock, Working
  <2>2. UNCHANGED <<claims, pushes>>
    BY <1>8 DEF TickUnlock, claimVars
  <2>3. \A o \in Ticks : Working(o)' => Working(o) /\ o # t
    BY <2>1 DEF Working
  <2>4. ASSUME NEW o \in Ticks, Working(o) PROVE lock'.by = lock.by
    <3>1. lock.by # NoSession /\ PoolOf[lock.by] = HostOf[o]
      BY <2>4 DEF Guarded
    <3>2. lock.by = c => lock.depth # 1
      BY <1>8, <2>4, <3>1 DEF TickUnlock, PoolWorks
    <3> QED
      BY <1>8, <3>2 DEF TickUnlock, Unlocked, RemindersTypeOK
  <2> QED
    BY <2>1, <2>2, <2>3, <2>4 DEF Guarded
<1>9. ASSUME NEW u \in Learners, TickSend(t, u) PROVE Guarded'
  <2>1. /\ Working(t) /\ ticks[t].sent = {} /\ u \in ticks[t].todo /\ pushes[u] = 0
        /\ ticks'[t].sent = {u} /\ ticks'[t].todo = ticks[t].todo \ {u}
        /\ \A o \in Ticks \ {t} : ticks'[o] = ticks[o]
    BY <1>1, <1>9, TickMoves DEF TickSend, Working, Guarded
  <2>2. /\ UNCHANGED <<claims, lock>> /\ pushes'[u] = 1
        /\ \A w \in Learners \ {u} : pushes'[w] = pushes[w]
    BY <1>9, <2>1 DEF TickSend, claimVars, RemindersTypeOK
  <2>3. \A o \in Ticks \ {t} : ticks[o].todo = {}
    BY <1>1, <1>2, <2>1
  <2>4. \A o \in Ticks : Working(o)' => Working(o)
    BY <2>1 DEF Working
  <2> QED
    BY <1>0, <2>1, <2>2, <2>3, <2>4 DEF Guarded
<1>10. ASSUME NEW u \in Learners, TickSendFails(t, u) PROVE Guarded'
  <2>1. UNCHANGED <<claims, lock, pushes>>
    BY <1>10 DEF TickSendFails, claimVars
  <2>2. /\ Working(t) /\ ticks[t].sent = {} /\ ticks'[t].sent = {}
        /\ ticks'[t].todo = ticks[t].todo \ {u}
        /\ \A o \in Ticks \ {t} : ticks'[o] = ticks[o]
    BY <1>1, <1>10, TickMoves DEF TickSendFails, Working
  <2>3. \A o \in Ticks : Working(o)' => Working(o)
    BY <2>2 DEF Working
  <2> QED
    BY <2>1, <2>2, <2>3 DEF Guarded
<1> QED
  BY <1>3, <1>4, <1>5, <1>6, <1>7, <1>8, <1>9, <1>10 DEF Ticking

LEMMA OthersKeepGuard ==
  ASSUME RemindersTypeOK, ClaimsAreTrue, Guarded, happened' = {},
         \/ \E u \in Learners : TimePasses(u)
         \/ \E c \in Connections : ConnectionCloses(c)
         \/ \E p \in {HostOf[t] : t \in Ticks} : HostDies(p)
         \/ UNCHANGED reminderVars
  PROVE  Guarded'
<1>1. ASSUME NEW u \in Learners, TimePasses(u) PROVE Guarded'
  BY <1>1, NotesStay DEF TimePasses, RemindersTypeOK, Claim, tickVars
<1>2. ASSUME NEW c \in Connections, ConnectionCloses(c) PROVE Guarded'
  <2>1. \A t \in Ticks : ~Working(t)
    BY <1>2 DEF ConnectionCloses, Guarded, PoolWorks
  <2>2. UNCHANGED <<claims, ticks, pushes>>
    BY <1>2 DEF ConnectionCloses, claimVars
  <2> QED
    BY <2>1, <2>2 DEF Guarded, Working
<1>3. ASSUME NEW p, HostDies(p) PROVE FALSE
  BY <1>3 DEF HostDies
<1>4. CASE UNCHANGED reminderVars
  BY <1>4 DEF reminderVars, Guarded, Working, claimVars, tickVars
<1> QED
  BY <1>1, <1>2, <1>3, <1>4

LEMMA MishapsStay ==
  ASSUME [RemindersNext]_reminderVars, happened' = {}
  PROVE  happened = {}
BY DEF RemindersNext, Submitting, Ticking, reminderVars, ClaimStart, ClaimInsert, ClaimRead,
       ClaimSave, ClaimTrack, SubmitDies, TickStart, TickRead, TickNote, TickEnd, TickLock,
       TickUnlock, TickSend, TickSendFails, TimePasses, ConnectionCloses, HostDies

LEMMA RemindersInvKept == RemindersInv /\ [RemindersNext]_reminderVars => RemindersInv'
<1> SUFFICES ASSUME RemindersInv, [RemindersNext]_reminderVars PROVE RemindersInv'
  OBVIOUS
<1> USE DEF RemindersInv, RemindersNext
<1>1. RemindersTypeOK'
  BY RequestsTyped, TickingTyped, OthersTyped
<1>2. ClaimsAreTrue'
  BY RequestsKeepClaims, TicksKeepClaims, OthersKeepClaims
<1>3. ASSUME happened' = {} PROVE Guarded'
  <2>1. Guarded
    BY <1>3, MishapsStay
  <2> QED
    BY <1>3, <2>1, RequestsKeepGuard, TicksKeepGuard, OthersKeepGuard
<1> QED
  BY <1>1, <1>2, <1>3

LEMMA RemindersInvAlways == RemindersSpec => []RemindersInv
BY RemindersInvFirst, RemindersInvKept, PTL DEF RemindersSpec

\* Every reachable state of the claims and the ticks has its type.
THEOREM RemindersTyped == RemindersSpec => []RemindersTypeOK
<1>1. RemindersInv => RemindersTypeOK
  BY DEF RemindersInv
<1> QED
  BY <1>1, RemindersInvAlways, PTL

\* Whoever is noted as reminded was reminded; and until a process dies, an
\* answer is lost, a save overwrites the note or a tick works without the lock
\* of its own, nobody is reminded twice, however many processes tick.
THEOREM NobodyIsRemindedTwice == RemindersSpec => []RemindedOnce
<1>1. RemindersInv => RemindedOnce
  BY DEF RemindersInv, ClaimsAreTrue, Guarded, RemindedOnce
<1> QED
  BY <1>1, RemindersInvAlways, PTL
=============================================================================
