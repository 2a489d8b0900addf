------------------------- MODULE CashbackReminders -------------------------
(***************************************************************************)
(* Cashback claims and the reminder before the test: CashbackService       *)
(* starts and submits the one claim of a learner, and every minute each    *)
(* process runs NotificationsService.tick, which pushes a reminder to the  *)
(* learners whose test is due and then notes it in the claim.              *)
(*                                                                         *)
(* The ticks of all processes exclude each other by an advisory lock of    *)
(* PostgreSQL.  It belongs to the session that took it, and each query     *)
(* goes over any connection of the process's pool, the unlock too; the     *)
(* pool closes connections that idle.  Learners here have a push token and *)
(* want reminders; the route a claim may upload is left out.               *)
(***************************************************************************)
EXTENDS Naturals, FiniteSets

CONSTANTS Learners,
          Ticks, HostOf,       \* calls of tick(), and the process of each
          Connections, PoolOf, \* connections, and the process of each
          Submits, ByLearner,  \* requests about claims, and the learner of each
          MaxPushes,           \* bound on the reminders pushed to a learner
          MaxDepth             \* bound on how often a session holds the lock

ASSUME ConnectionsAssumption == "none" \notin Connections
ASSUME LearnersAssumption == ByLearner \in [Submits -> Learners] /\ MaxPushes \in Nat /\ MaxDepth \in Nat

VARIABLES
  claims,     \* the claim of a learner
  tracks,     \* learners with a cashback track
  ticks,      \* where a tick is, whom it has still to remind
  running,    \* the processes whose flag running is set
  lock,       \* the session that holds the lock, and how often
  submits,    \* what a request has read and does next
  pushes,     \* how many reminders reached a learner
  happened    \* auxiliary: what went wrong so far, see Mishaps

claimVars == <<claims, tracks>>
tickVars == <<ticks, running, lock>>
reminderVars == <<claimVars, tickVars, submits, pushes, happened>>

\* A process died or a query failed, the answer of the push service was lost, the save of a
\* request overwrote the note, the lock was lost or shared while a tick worked.
Mishaps == {"died", "unanswered", "overwritten", "unguarded"}

\* test: when the test is, seen from the window of 25 to 40 minutes before it.
Claim == [state : {"none", "pending", "approved"}, test : {"unknown", "later", "due", "past"},
          reminded : BOOLEAN]
NoClaim == [state |-> "none", test |-> "unknown", reminded |-> FALSE]

Tick == [at : {"off", "lock", "read", "send", "note", "unlock"}, todo : SUBSET Learners,
         sent : SUBSET Learners]
OffTick == [at |-> "off", todo |-> {}, sent |-> {}]
Submit == [at : {"off", "insert", "save", "track"}, read : Claim]
OffSubmit == [at |-> "off", read |-> NoClaim]
NoSession == "none"

RemindersTypeOK ==
  /\ claims \in [Learners -> Claim] /\ tracks \subseteq Learners
  /\ ticks \in [Ticks -> Tick]
  /\ running \subseteq {HostOf[t] : t \in Ticks}
  /\ lock \in [by : Connections \cup {NoSession}, depth : 0..MaxDepth]
  /\ submits \in [Submits -> Submit]
  /\ pushes \in [Learners -> 0..MaxPushes]
  /\ happened \subseteq Mishaps
RemindersInit ==
  /\ claims = [u \in Learners |-> NoClaim] /\ tracks = {}
  /\ ticks = [t \in Ticks |-> OffTick] /\ running = {}
  /\ lock = [by |-> NoSession, depth |-> 0]
  /\ submits = [s \in Submits |-> OffSubmit]
  /\ pushes = [u \in Learners |-> 0] /\ happened = {}

-----------------------------------------------------------------------------
(* CashbackService.                                                          *)

SubmitTo(s, at, read) == submits' = [submits EXCEPT ![s] = [at |-> at, read |-> read]]
SubmitEnd(s) == submits' = [submits EXCEPT ![s] = OffSubmit]

ClaimStart(s) ==
  /\ submits[s].at = "off" /\ claims[ByLearner[s]].state = "none"
  /\ SubmitTo(s, "insert", NoClaim)
  /\ UNCHANGED <<claimVars, tickVars, pushes, happened>>

\* UNIQUE ("userId") makes the second of two inserts fail.
ClaimInsert(s) ==
  /\ submits[s].at = "insert"
  /\ claims' = [claims EXCEPT ![ByLearner[s]] =
                  IF @.state = "none" THEN [NoClaim EXCEPT !.state = "pending"] ELSE @]
  /\ SubmitEnd(s)
  /\ UNCHANGED <<tracks, tickVars, pushes, happened>>

ClaimRead(s) ==
  /\ submits[s].at = "off" /\ claims[ByLearner[s]].state = "pending"
  /\ SubmitTo(s, "save", claims[ByLearner[s]])
  /\ UNCHANGED <<claimVars, tickVars, pushes, happened>>

\* The claim is saved as it was read, but for its new state and, if the request
\* gives one, the time of the test.
ClaimSave(s, state, test) ==
  /\ submits[s].at = "save"
  /\ claims' = [claims EXCEPT ![ByLearner[s]] = [submits[s].read EXCEPT !.state = state, !.test = test]]
  /\ happened' = IF claims[ByLearner[s]].reminded /\ ~submits[s].read.reminded
                 THEN happened \cup {"overwritten"} ELSE happened
  /\ SubmitTo(s, "track", submits[s].read)
  /\ UNCHANGED <<tracks, tickVars, pushes>>

ClaimTrack(s) ==
  /\ submits[s].at = "track"
  /\ tracks' = tracks \cup {ByLearner[s]}
  /\ SubmitEnd(s)
  /\ UNCHANGED <<claims, tickVars, pushes, happened>>

TimePasses(u) ==
  /\ claims[u].test \in {"later", "due"}
  /\ claims' = [claims EXCEPT ![u].test = IF @ = "later" THEN "due" ELSE "past"]
  /\ UNCHANGED <<tracks, tickVars, submits, pushes, happened>>

-----------------------------------------------------------------------------
(* NotificationsService.tick.                                                *)

TickTo(t, at, todo, sent) ==
  ticks' = [ticks EXCEPT ![t] = [at |-> at, todo |-> todo, sent |-> sent]]
Working(t) == ticks[t].at \in {"read", "send", "note"}
PoolWorks(p) == \E t \in Ticks : HostOf[t] = p /\ Working(t)

TickStart(t) ==
  /\ ticks[t].at = "off" /\ HostOf[t] \notin running
  /\ TickTo(t, "lock", {}, {})
  /\ UNCHANGED <<claimVars, running, lock, submits, pushes, happened>>

\* (Mutant: the lock is not asked for.)
TickUnlocked(t, c) ==
  /\ ticks[t].at = "lock" /\ PoolOf[c] = HostOf[t]
  /\ TickTo(t, "read", {}, {})
  /\ UNCHANGED <<claimVars, running, lock, submits, pushes, happened>>

\* pg_try_advisory_lock over connection c: a session that holds the lock gets it again.
TickLock(t, c) ==
  /\ ticks[t].at = "lock" /\ PoolOf[c] = HostOf[t]
  /\ \/ /\ lock.by \in {NoSession, c} /\ lock.depth < MaxDepth
        /\ lock' = [by |-> c, depth |-> lock.depth + 1]
        /\ happened' = IF PoolWorks(HostOf[t]) THEN happened \cup {"unguarded"} ELSE happened
        /\ TickTo(t, "read", {}, {})
     \/ /\ lock.by \notin {NoSession, c}
        /\ TickTo(t, "off", {}, {})
        /\ UNCHANGED <<lock, happened>>
  /\ UNCHANGED <<claimVars, running, submits, pushes>>

TickRead(t) ==
  /\ ticks[t].at = "read"
  /\ running' = running \cup {HostOf[t]}
  /\ TickTo(t, "send", {u \in Learners : claims[u].test = "due" /\ ~claims[u].reminded}, {})
  /\ UNCHANGED <<claimVars, lock, submits, pushes, happened>>

\* sendPush reports success, ...
TickSend(t, u) ==
  /\ ticks[t].at = "send" /\ u \in ticks[t].todo /\ pushes[u] < MaxPushes
  /\ pushes' = [pushes EXCEPT ![u] = @ + 1]
  /\ TickTo(t, "note", ticks[t].todo \ {u}, {u})
  /\ UNCHANGED <<claimVars, running, lock, submits, happened>>

\* ... or a failure, though the reminder may have arrived.
TickSendFails(t, u) ==
  /\ ticks[t].at = "send" /\ u \in ticks[t].todo
  /\ \/ UNCHANGED <<pushes, happened>>
     \/ /\ pushes[u] < MaxPushes
        /\ pushes' = [pushes EXCEPT ![u] = @ + 1]
        /\ happened' = happened \cup {"unanswered"}
  /\ TickTo(t, "send", ticks[t].todo \ {u}, {})
  /\ UNCHANGED <<claimVars, running, lock, submits>>

\* (Mutant: the learner is noted who is next.)
TickNoteNext(t) ==
  /\ ticks[t].at = "note"
  /\ claims' = [u \in Learners |->
       IF u \in ticks[t].todo THEN [claims[u] EXCEPT !.reminded = TRUE] ELSE claims[u]]
  /\ TickTo(t, "send", ticks[t].todo, {})
  /\ UNCHANGED <<tracks, running, lock, submits, pushes, happened>>

\* One column of one row is updated.
TickNote(t) ==
  /\ ticks[t].at = "note"
  /\ claims' = [u \in Learners |->
       IF u \in ticks[t].sent THEN [claims[u] EXCEPT !.reminded = TRUE] ELSE claims[u]]
  /\ TickTo(t, "send", ticks[t].todo, {})
  /\ UNCHANGED <<tracks, running, lock, submits, pushes, happened>>

\* Nobody is left, or a query failed.
TickEnd(t) ==
  /\ Working(t)
  /\ happened' = IF ticks[t].sent # {} THEN happened \cup {"died"} ELSE happened
  /\ running' = running \ {HostOf[t]}
  /\ TickTo(t, "unlock", {}, {})
  /\ UNCHANGED <<claimVars, lock, submits, pushes>>

\* pg_advisory_unlock over connection c only warns when c does not hold the lock.
Unlocked == IF lock.depth = 1 THEN [by |-> NoSession, depth |-> 0] ELSE [lock EXCEPT !.depth = @ - 1]
TickUnlock(t, c) ==
  /\ ticks[t].at = "unlock" /\ PoolOf[c] = HostOf[t]
  /\ lock' = IF lock.by = c THEN Unlocked ELSE lock
  /\ happened' = IF lock.by = c /\ lock.depth = 1 /\ PoolWorks(HostOf[t])
                 THEN happened \cup {"unguarded"} ELSE happened
  /\ TickTo(t, "off", {}, {})
  /\ UNCHANGED <<claimVars, running, submits, pushes>>

-----------------------------------------------------------------------------
(* The surroundings.                                                         *)

\* The pool closes a connection that idles, and with its session goes the lock.
ConnectionCloses(c) ==
  /\ lock.by = c
  /\ lock' = [by |-> NoSession, depth |-> 0]
  /\ happened' = IF PoolWorks(PoolOf[c]) THEN happened \cup {"unguarded"} ELSE happened
  /\ UNCHANGED <<claimVars, ticks, running, submits, pushes>>

\* A process dies with its ticks and its connections.
HostDies(p) ==
  /\ \E t \in Ticks : HostOf[t] = p /\ ticks[t].at # "off"
  /\ ticks' = [t \in Ticks |-> IF HostOf[t] = p THEN OffTick ELSE ticks[t]]
  /\ running' = running \ {p}
  /\ lock' = IF lock.by # NoSession /\ PoolOf[lock.by] = p THEN [by |-> NoSession, depth |-> 0] ELSE lock
  /\ happened' = happened \cup {"died"}
  /\ UNCHANGED <<claimVars, submits, pushes>>

SubmitDies(s) ==
  /\ submits[s].at # "off"
  /\ SubmitEnd(s)
  /\ UNCHANGED <<claimVars, tickVars, pushes, happened>>

-----------------------------------------------------------------------------
Submitting(s) ==
  \/ ClaimStart(s) \/ ClaimInsert(s) \/ ClaimRead(s) \/ ClaimTrack(s) \/ SubmitDies(s)
  \/ \E state \in {"pending", "approved"}, test \in {"later", "due", "past", submits[s].read.test} :
       ClaimSave(s, state, test)

Ticking(t) ==
  \/ TickStart(t) \/ TickRead(t) \/ TickNote(t) \/ TickEnd(t)
  \/ \E c \in Connections : TickLock(t, c) \/ TickUnlock(t, c)
  \/ \E u \in Learners : TickSend(t, u) \/ TickSendFails(t, u)

RemindersNext ==
  \/ \E s \in Submits : Submitting(s)
  \/ \E t \in Ticks : Ticking(t)
  \/ \E u \in Learners : TimePasses(u)
  \/ \E c \in Connections : ConnectionCloses(c)
  \/ \E p \in {HostOf[t] : t \in Ticks} : HostDies(p)

RemindersSpec == RemindersInit /\ [][RemindersNext]_reminderVars

-----------------------------------------------------------------------------
\* A claim says that its learner was reminded only if that is so; and whatever
\* is submitted while processes tick, and wherever unlocks go, no learner is
\* reminded twice until one of the mishaps happened.
RemindedOnce ==
  \A u \in Learners :
    /\ claims[u].reminded => pushes[u] > 0
    /\ happened = {} => pushes[u] <= 1
=============================================================================
