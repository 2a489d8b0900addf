---------------------------- MODULE LruTtlCache ----------------------------
(***************************************************************************)
(* The cache of answers about road hazards nearby: a Map, which keeps its  *)
(* keys in the order in which they were set, bounded in size and in age.   *)
(* get and set run to their end in one turn of the event loop.             *)
(*                                                                         *)
(* An entry carries the time it has left instead of when it expires.  Keys *)
(* are never empty, so evictLru never stops at one.                        *)
(***************************************************************************)
EXTENDS Naturals, Sequences, FiniteSets

CONSTANTS Keys, Values,
          MaxEntries, Ttl  \* a cache that may hold nothing is switched off

ASSUME CacheAssumption == MaxEntries \in Nat /\ Ttl \in Nat /\ Values # {}

VARIABLES
  store,  \* the Map: its entries, the one used last at the end
  put,    \* auxiliary: what a key was set to last, and the time that has left
  since   \* auxiliary: the other keys that were used since a key was

lruVars == <<store, put, since>>

Entry == [key : Keys, value : Values, left : 0..Ttl]
Put == [value : Values, left : 0..Ttl]

LruTypeOK ==
  /\ store \in Seq(Entry)
  /\ put \in [Keys -> Put]
  /\ since \in [Keys -> SUBSET Keys]

\* What was never set has no time left.
LruInit ==
  /\ store = <<>>
  /\ put \in [Keys -> [value : {CHOOSE v \in Values : TRUE}, left : {0}]]
  /\ since = [k \in Keys |-> {}]

-----------------------------------------------------------------------------
SwitchedOn == MaxEntries > 0 /\ Ttl > 0
Hits(k) == {i \in DOMAIN store : store[i].key = k}

\* The entries at the places in S, in their order: NthOf is the n-th of them.
NthOf(S, n) == CHOOSE i \in S : Cardinality({j \in S : j <= i}) = n
Filtered(entries, S) == [n \in 1..Cardinality(S) |-> entries[NthOf(S, n)]]

Without(entries, k) == Filtered(entries, {i \in DOMAIN entries : entries[i].key # k})
Alive(entries) == Filtered(entries, {i \in DOMAIN entries : entries[i].left > 0})
Newest(entries, n) == SubSeq(entries, IF Len(entries) > n THEN Len(entries) - n + 1 ELSE 1, Len(entries))
Used(k) == since' = [j \in Keys |-> IF j = k THEN {} ELSE since[j] \cup {k}]

\* A get that finds nothing changes nothing.
GetExpired(k) ==
  /\ SwitchedOn
  /\ \E i \in Hits(k) : store[i].left = 0
  /\ store' = Without(store, k)
  /\ UNCHANGED <<put, since>>

\* (Mutant: a hit does not count as a use.)
GetUntouched(k) ==
  /\ SwitchedOn
  /\ \E i \in Hits(k) : store[i].left > 0
  /\ Used(k)
  /\ UNCHANGED <<store, put>>

GetHits(k) ==
  /\ SwitchedOn
  /\ \E i \in Hits(k) : store[i].left > 0 /\ store' = Append(Without(store, k), store[i])
  /\ Used(k)
  /\ UNCHANGED put

SetValue(k, v) ==
  /\ SwitchedOn
  /\ LET all == Append(Without(store, k), [key |-> k, value |-> v, left |-> Ttl])
     IN store' = Newest(Alive(all), MaxEntries)
  /\ put' = [put EXCEPT ![k] = [value |-> v, left |-> Ttl]]
  /\ Used(k)

Older(left) == IF left > 0 THEN left - 1 ELSE 0
TimeGoesBy ==
  /\ store' = [i \in DOMAIN store |-> [store[i] EXCEPT !.left = Older(@)]]
  /\ put' = [k \in Keys |-> [put[k] EXCEPT !.left = Older(@)]]
  /\ UNCHANGED since

LruNext ==
  \/ \E k \in Keys : GetExpired(k) \/ GetHits(k) \/ \E v \in Values : SetValue(k, v)
  \/ TimeGoesBy

LruSpec == LruInit /\ [][LruNext]_lruVars

-----------------------------------------------------------------------------
\* The cache is at most full, answers with what was set last and never beyond
\* its time, and within its time a key is forgotten only when as many others
\* as the cache can hold were used since it was.
KeepsRecent ==
  /\ Len(store) <= MaxEntries
  /\ \A i, j \in DOMAIN store : store[i].key = store[j].key => i = j
  /\ \A i \in DOMAIN store : LET k == store[i].key IN
       store[i].value = put[k].value /\ store[i].left = put[k].left
  /\ \A k \in Keys : put[k].left > 0 /\ Cardinality(since[k]) < MaxEntries => Hits(k) # {}
=============================================================================
