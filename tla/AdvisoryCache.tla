--------------------------- MODULE AdvisoryCache ---------------------------
(***************************************************************************)
(* The cache of road advisories: OverpassAdvisoryCacheService.resolveBbox  *)
(* answers from one row of the cache and the features linked to it, and    *)
(* asks Overpass and replaces both when the row has expired.               *)
(*                                                                         *)
(* BEGIN, the statements of the replacement and COMMIT are queries of the  *)
(* pool, each on whichever connection is idle.  The pool serves every other*)
(* request of the process and the lookups of other keys too, so that even  *)
(* a lookup that meets none of its own key may get another connection for  *)
(* every statement, and another request may get the one it began on.       *)
(*                                                                         *)
(* A feature and its link are stored by one step, as features are read     *)
(* through links only; so are a row and its features when they are read,   *)
(* as nothing is decided from the features.                                *)
(***************************************************************************)
EXTENDS FiniteSets

CONSTANTS Lookups,         \* calls of resolveBbox for one query key
          Sessions,        \* the connections of the pool; one that is lost is replaced
          Features,        \* advisory features
          Answers          \* what Overpass may answer: sets of features

NoConnection == "none"
ASSUME AnswersAssumption == Answers \subseteq SUBSET Features
ASSUME SessionsAssumption == NoConnection \notin Sessions

VARIABLES
  query,       \* the committed row of advisory_query_cache
  links,       \* the committed rows of advisory_query_features
  tx,          \* the transaction of a connection
  lookups,     \* what a lookup has read and does next
  latest,      \* auxiliary: what Overpass answered to the lookup that committed last,
               \* until that expires
  astray       \* auxiliary: whether a statement missed the transaction it belongs to,
               \* or met one it does not, in what is cached now

cacheVars == <<query, links, tx, lookups, latest, astray>>

-----------------------------------------------------------------------------
\* stored: the row was upserted; removed, added: links.  An error rolls the
\* transaction back, but PostgreSQL refuses every statement until it is ended.
Transaction == [state : {"none", "open", "failed"}, stored : BOOLEAN,
                removed : SUBSET Features, added : SUBSET Features]
NoTx == [state |-> "none", stored |-> FALSE, removed |-> {}, added |-> {}]
OpenTx == [NoTx EXCEPT !.state = "open"]
FailedTx == [NoTx EXCEPT !.state = "failed"]

\* stale: readCached has found a row that may have expired; todo: features to
\* insert.  Auxiliary: there was a row when the lookup began, what Overpass
\* answered, and the connection of its BEGIN until its COMMIT or ROLLBACK.
Phases == {"off", "fresh", "stale", "prefilled", "fetch", "begin", "upsert", "delete", "insert",
           "commit", "rollback", "reread", "unavailable"}
Lookup == [at : Phases, stale : BOOLEAN, todo : SUBSET Features, had : BOOLEAN,
           answer : SUBSET Features, on : Sessions \cup {NoConnection}]
NoLookup == [at |-> "off", stale |-> FALSE, todo |-> {}, had |-> FALSE,
             answer |-> {}, on |-> NoConnection]

CacheTypeOK ==
  /\ query \in {"none", "fresh", "expired"} /\ links \subseteq Features
  /\ tx \in [Sessions -> Transaction]
  /\ lookups \in [Lookups -> Lookup]
  /\ latest \subseteq Features /\ astray \in BOOLEAN

CacheInit ==
  /\ query = "none" /\ links = {}
  /\ tx = [c \in Sessions |-> NoTx]
  /\ lookups = [l \in Lookups |-> NoLookup]
  /\ latest = {} /\ astray = FALSE

-----------------------------------------------------------------------------
InFlight(l) == lookups[l].at # "off"
Owned(c) == \E l \in Lookups : lookups[l].on = c

To(l, at) == lookups' = [lookups EXCEPT ![l].at = at]
Leave(l) == lookups' = [lookups EXCEPT ![l] = NoLookup]

\* Lookup l gets connection c for its next statement: any connection is idle.
\* It goes astray on one that has the transaction of another lookup, or when
\* its own transaction is on another.
Gets(l, at, c) ==
  /\ lookups[l].at = at
  /\ astray' = \/ astray
               \/ \E m \in Lookups \ {l} : lookups[m].on = c
               \/ lookups[l].on \notin {NoConnection, c}

Usable(c) == tx[c].state # "failed"
QueryOn(c) == IF tx[c].stored THEN "fresh" ELSE query
LinksOn(c) == (links \ tx[c].removed) \cup tx[c].added

\* refreshAndCache has returned null: a stale row is better than none.
WithoutRefresh(l) ==
  lookups' = [lookups EXCEPT ![l] =
    IF @.stale THEN NoLookup ELSE [NoLookup EXCEPT !.at = "unavailable", !.had = lookups[l].had]]

\* The row must be replaced, and no transaction holds a change of the cache.
Empty(t) == t \in {NoTx, OpenTx, FailedTx}
Quiet == query # "fresh" /\ \A c \in Sessions : Empty(tx[c]) /\ ~Owned(c)

Begin(l) ==
  /\ ~InFlight(l)
  /\ lookups' = [lookups EXCEPT ![l] = [NoLookup EXCEPT !.at = "fresh", !.had = query # "none"]]
  /\ astray' = (astray /\ ~Quiet)
  /\ UNCHANGED <<query, links, tx, latest>>

ReadFresh(l, c) ==
  /\ Gets(l, "fresh", c) /\ Usable(c)
  /\ IF QueryOn(c) = "fresh" THEN Leave(l) ELSE To(l, "stale")
  /\ UNCHANGED <<query, links, tx, latest>>

\* (Mutant: a row that has expired is not read.)
ReadNoStale(l, c) ==
  /\ Gets(l, "stale", c) /\ Usable(c)
  /\ lookups' = [lookups EXCEPT ![l].at = "prefilled", ![l].stale = QueryOn(c) = "fresh"]
  /\ UNCHANGED <<query, links, tx, latest>>

ReadStale(l, c) ==
  /\ Gets(l, "stale", c) /\ Usable(c)
  /\ lookups' = [lookups EXCEPT ![l].at = "prefilled", ![l].stale = QueryOn(c) # "none"]
  /\ UNCHANGED <<query, links, tx, latest>>

ReadPrefilled(l, c) ==
  /\ Gets(l, "prefilled", c) /\ Usable(c)
  /\ IF QueryOn(c) = "fresh" THEN Leave(l) ELSE To(l, "fetch")
  /\ UNCHANGED <<query, links, tx, latest>>

\* One of three attempts succeeds, ...
Fetch(l, answer) ==
  /\ lookups[l].at = "fetch"
  /\ lookups' = [lookups EXCEPT ![l].at = "begin", ![l].todo = answer, ![l].answer = answer]
  /\ UNCHANGED <<query, links, tx, latest, astray>>

\* ... or none does.
FetchFails(l) ==
  /\ lookups[l].at = "fetch"
  /\ WithoutRefresh(l)
  /\ UNCHANGED <<query, links, tx, latest, astray>>

-----------------------------------------------------------------------------
(* persistCacheRow: every statement where there is no transaction commits at *)
(* once, and waits for what an open transaction of another connection wrote. *)

Others(c) == {d \in Sessions \ {c} : tx[d].state = "open"}
Locked(c) == \E d \in Others(c) : tx[d].stored
LockedLinks(c) == UNION {tx[d].removed \cup tx[d].added : d \in Others(c)}

\* BEGIN in an open transaction only warns.
StoreBegin(l, c) ==
  /\ Gets(l, "begin", c) /\ Usable(c)
  /\ tx' = IF tx[c].state = "none" THEN [tx EXCEPT ![c] = OpenTx] ELSE tx
  /\ lookups' = [lookups EXCEPT ![l].at = "upsert", ![l].on = c]
  /\ UNCHANGED <<query, links, latest>>

StoreUpsert(l, c) ==
  /\ Gets(l, "upsert", c) /\ Usable(c) /\ ~Locked(c)
  /\ IF tx[c].state = "open"
     THEN tx' = [tx EXCEPT ![c].stored = TRUE] /\ UNCHANGED query
     ELSE query' = "fresh" /\ UNCHANGED tx
  /\ To(l, "delete")
  /\ UNCHANGED <<links, latest>>

\* (Mutant: what was linked before stays.)
StoreKeep(l, c) ==
  /\ Gets(l, "delete", c) /\ Usable(c)
  /\ To(l, "insert")
  /\ UNCHANGED <<query, links, tx, latest>>

StoreDelete(l, c) ==
  /\ Gets(l, "delete", c) /\ Usable(c) /\ LockedLinks(c) \cap links = {}
  /\ IF tx[c].state = "open"
     THEN tx' = [tx EXCEPT ![c].removed = @ \cup links, ![c].added = {}] /\ UNCHANGED links
     ELSE links' = {} /\ UNCHANGED tx
  /\ To(l, "insert")
  /\ UNCHANGED <<query, latest>>

StoreInsert(l, c, f) ==
  /\ Gets(l, "insert", c) /\ Usable(c)
  /\ f \in lookups[l].todo /\ f \notin LockedLinks(c)
  /\ IF tx[c].state = "open"
     THEN tx' = [tx EXCEPT ![c].added = @ \cup {f}] /\ UNCHANGED links
     ELSE links' = links \cup {f} /\ UNCHANGED tx
  /\ lookups' = [lookups EXCEPT ![l].todo = @ \ {f}]
  /\ UNCHANGED <<query, latest>>

Committed(c) ==
  /\ query' = QueryOn(c) /\ links' = LinksOn(c)
  /\ tx' = [tx EXCEPT ![c] = NoTx]

\* COMMIT ends whatever transaction the connection has; a failed one it rolls
\* back, without an error.
CommitOf(l, c) ==
  /\ lookups[l].todo = {}
  /\ Committed(c)
  /\ latest' = IF tx[c].stored THEN lookups[l].answer ELSE latest

StoreCommit(l, c) ==
  /\ Gets(l, "insert", c)
  /\ CommitOf(l, c)
  /\ lookups' = [lookups EXCEPT ![l].at = "reread", ![l].on = NoConnection, ![l].answer = {}]

StoreRollback(l, c) ==
  /\ Gets(l, "rollback", c)
  /\ tx' = [tx EXCEPT ![c] = NoTx]
  /\ WithoutRefresh(l)
  /\ UNCHANGED <<query, links, latest>>

Reread(l, c) ==
  /\ Gets(l, "reread", c) /\ Usable(c)
  /\ IF QueryOn(c) = "fresh" THEN Leave(l) ELSE WithoutRefresh(l)
  /\ UNCHANGED <<query, links, tx, latest>>

\* An error of BEGIN or of the read before it is caught by refreshAndCache, one
\* of a later statement by persistCacheRow; one of the other reads reaches the
\* caller.
Fail(l) ==
  \/ lookups[l].at \in {"prefilled", "begin"} /\ WithoutRefresh(l)
  \/ /\ lookups[l].at \in {"upsert", "delete", "insert"}
     /\ lookups' = [lookups EXCEPT ![l].at = "rollback", ![l].todo = {}, ![l].answer = {}]
  \/ lookups[l].at \in {"fresh", "stale", "reread"} /\ Leave(l)

\* The statement is refused, times out, or is the victim of a deadlock; or its
\* connection is lost, perhaps after the COMMIT.
StatementFails(l, c) ==
  /\ Gets(l, lookups[l].at, c)
  /\ Fail(l)
  /\ \/ /\ tx' \in {IF tx[c].state = "open" THEN [tx EXCEPT ![c] = FailedTx] ELSE tx,
                    [tx EXCEPT ![c] = NoTx]}
        /\ UNCHANGED <<query, links, latest>>
     \/ lookups[l].at = "insert" /\ CommitOf(l, c)

Unavailable(l) ==
  /\ lookups[l].at = "unavailable"
  /\ Leave(l)
  /\ UNCHANGED <<query, links, tx, latest, astray>>

-----------------------------------------------------------------------------
(* The surroundings.                                                         *)

\* The row lives for some hours.
CacheExpires ==
  /\ query = "fresh" /\ query' = "expired" /\ latest' = {}
  /\ UNCHANGED <<links, tx, lookups, astray>>

\* Another request of the process, or a lookup of another key, gets connection
\* c and begins, commits or ends a transaction on it or fails in one, whoever
\* began it; or the pool closes the connection, which has idled for ten seconds.
OthersQuery(c) ==
  /\ \/ tx[c].state = "none" /\ tx' = [tx EXCEPT ![c] = OpenTx] /\ UNCHANGED <<query, links>>
     \/ tx[c].state = "open" /\ tx' = [tx EXCEPT ![c] = FailedTx] /\ UNCHANGED <<query, links>>
     \/ tx[c].state # "none" /\ tx' = [tx EXCEPT ![c] = NoTx] /\ UNCHANGED <<query, links>>
     \/ tx[c].state = "open" /\ Committed(c)
  /\ astray' = (astray \/ Owned(c))
  /\ UNCHANGED <<lookups, latest>>

\* The process dies: lookups and transactions are gone.
CacheCrash ==
  /\ \E l \in Lookups : InFlight(l)
  /\ lookups' = [l \in Lookups |-> NoLookup] /\ tx' = [c \in Sessions |-> NoTx]
  /\ UNCHANGED <<query, links, latest, astray>>

-----------------------------------------------------------------------------
Resolving(l) ==
  \/ Begin(l) \/ FetchFails(l) \/ Unavailable(l)
  \/ \E answer \in Answers : Fetch(l, answer)
  \/ \E c \in Sessions :
       \/ ReadFresh(l, c) \/ ReadStale(l, c) \/ ReadPrefilled(l, c) \/ Reread(l, c)
       \/ StoreBegin(l, c) \/ StoreUpsert(l, c) \/ StoreDelete(l, c)
       \/ StoreCommit(l, c) \/ StoreRollback(l, c) \/ StatementFails(l, c)
       \/ \E f \in Features : StoreInsert(l, c, f)

CacheNext ==
  \/ \E l \in Lookups : Resolving(l)
  \/ \E c \in Sessions : OthersQuery(c)
  \/ CacheExpires \/ CacheCrash

CacheSpec == CacheInit /\ [][CacheNext]_cacheVars

-----------------------------------------------------------------------------
\* A row that is answered from has exactly the features that Overpass answered
\* to one lookup, the one that committed last: however lookups overlap,
\* whatever statement of persistCacheRow fails, and whenever the process dies.
\* This is so until a statement goes astray: nothing in persistCacheRow keeps
\* a connection for its transaction, and what follows BEGIN may run elsewhere
\* and commit at once, or be ended by another request.  It is so again from the
\* first lookup that begins when the row must be replaced and every transaction
\* of a lookup is over.
CacheIsWhole == ~astray /\ query = "fresh" => links = latest

\* No lookup that began when the query was cached ends with osm_unavailable,
\* on whatever connections its statements run: resolveBbox falls back to the
\* stale row.
StaleIsAnswered == \A l \in Lookups : lookups[l].at = "unavailable" => ~lookups[l].had
=============================================================================
