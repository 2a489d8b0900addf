-------------------------- MODULE PracticeSessions --------------------------
(***************************************************************************)
(* Practice on one route by one learner: RoutesService.startPractice opens *)
(* a session, finishPractice ends the one that was started last and keeps  *)
(* the statistic of the route, each by a read and a save of its own.       *)
(* Access to the route and the distances are left out.                     *)
(***************************************************************************)
EXTENDS Naturals, FiniteSets

CONSTANTS MaxSessions,          \* bound on the sessions, which are numbered as they start
          Finishes,             \* requests to finish
          Durations             \* seconds a request may report

ASSUME PracticeAssumption == MaxSessions \in Nat /\ Durations \subseteq Nat \ {0}

VARIABLES
  sessions,  \* the sessions that were started, in order
  stat,      \* the row of route_stats
  finishes,  \* what a request has read and does next
  mixed      \* auxiliary: what went wrong so far, see Mixups

practiceVars == <<sessions, stat, finishes, mixed>>

\* Two requests overlapped; a request failed or its process died.
Mixups == {"overlapped", "failed"}

\* No duration: 0.  finishPractice takes 0 seconds for none as well.
Times == Durations \cup {0}
Session == [ended : BOOLEAN, completed : BOOLEAN, duration : Times]
Stat == [row : BOOLEAN, times : Nat, best : Times]
NoStat == [row |-> FALSE, times |-> 0, best |-> 0]
Finish == [at : {"off", "end", "stat", "save"}, session : 0..MaxSessions, completed : BOOLEAN,
           duration : Times, read : Stat]
NoFinish == [at |-> "off", session |-> 0, completed |-> FALSE, duration |-> 0, read |-> NoStat]

Started == DOMAIN sessions
PracticeTypeOK ==
  /\ \E n \in 0..MaxSessions : sessions \in [1..n -> Session]
  /\ stat \in Stat
  /\ finishes \in [Finishes -> Finish]
  /\ mixed \subseteq Mixups
PracticeInit ==
  /\ sessions = [n \in {} |-> {}] /\ stat = NoStat
  /\ finishes = [f \in Finishes |-> NoFinish] /\ mixed = {}

-----------------------------------------------------------------------------
Finishing == {f \in Finishes : finishes[f].at # "off"}

StartPractice ==
  /\ Cardinality(Started) < MaxSessions
  /\ LET n == Cardinality(Started) + 1 IN
     sessions' = [m \in 1..n |-> IF m = n THEN [ended |-> FALSE, completed |-> FALSE, duration |-> 0]
                                          ELSE sessions[m]]
  /\ UNCHANGED <<stat, finishes, mixed>>

FinishRead(f, completed, duration) ==
  /\ finishes[f].at = "off"
  /\ \E n \in Started :
       /\ ~sessions[n].ended /\ \A m \in Started : m > n => sessions[m].ended
       /\ finishes' = [finishes EXCEPT ![f] =
            [at |-> "end", session |-> n, completed |-> completed, duration |-> duration, read |-> NoStat]]
  /\ mixed' = IF Finishing # {} THEN mixed \cup {"overlapped"} ELSE mixed
  /\ UNCHANGED <<sessions, stat>>

FinishEnd(f) ==
  /\ finishes[f].at = "end"
  /\ sessions' = [sessions EXCEPT ![finishes[f].session] =
       [ended |-> TRUE, completed |-> finishes[f].completed, duration |-> finishes[f].duration]]
  /\ finishes' = [finishes EXCEPT ![f] =
       IF finishes[f].completed THEN [finishes[f] EXCEPT !.at = "stat"] ELSE NoFinish]
  /\ UNCHANGED <<stat, mixed>>

FinishStat(f) ==
  /\ finishes[f].at = "stat"
  /\ finishes' = [finishes EXCEPT ![f].at = "save", ![f].read = stat]
  /\ UNCHANGED <<sessions, stat, mixed>>

Better(duration, best) == duration # 0 /\ (best = 0 \/ duration < best)

\* (Mutant: every duration that is reported counts as the best.)
SaveLatest(f) ==
  /\ finishes[f].at = "save"
  /\ stat' = [row |-> TRUE, times |-> finishes[f].read.times + 1,
              best |-> IF finishes[f].duration # 0 THEN finishes[f].duration ELSE finishes[f].read.best]
  /\ finishes' = [finishes EXCEPT ![f] = NoFinish]
  /\ UNCHANGED <<sessions, mixed>>

\* The statistic is saved as it was read, but for the count and the best time.
SaveStat(f) ==
  /\ finishes[f].at = "save"
  /\ LET read == finishes[f].read IN
     stat' = [row |-> TRUE, times |-> read.times + 1,
              best |-> IF Better(finishes[f].duration, read.best) THEN finishes[f].duration ELSE read.best]
  /\ finishes' = [finishes EXCEPT ![f] = NoFinish]
  /\ UNCHANGED <<sessions, mixed>>

\* A statement fails or the process dies.  Both of two inserts at once cannot
\* succeed either: the key of route_stats is the learner and the route.
FinishFails(f) ==
  /\ finishes[f].at # "off"
  /\ finishes' = [finishes EXCEPT ![f] = NoFinish]
  /\ mixed' = mixed \cup {"failed"}
  /\ UNCHANGED <<sessions, stat>>

PracticeNext ==
  \/ StartPractice
  \/ \E f \in Finishes :
       \/ \E completed \in BOOLEAN, duration \in Times : FinishRead(f, completed, duration)
       \/ FinishEnd(f) \/ FinishStat(f) \/ SaveStat(f) \/ FinishFails(f)

PracticeSpec == PracticeInit /\ [][PracticeNext]_practiceVars

-----------------------------------------------------------------------------
Completed == {n \in Started : sessions[n].completed}
Reported == {sessions[n].duration : n \in Completed} \ {0}

\* While requests to finish come one after the other, the statistic counts no
\* session that was not completed and no session twice, whatever fails; and
\* when nothing has failed it counts every one, and the best time is the
\* shortest that was reported.
PracticeIsCounted ==
  "overlapped" \notin mixed =>
    /\ stat.times <= Cardinality(Completed)
    /\ stat.best \in Reported \cup {0}
    /\ "failed" \notin mixed /\ Finishing = {} =>
         /\ stat.times = Cardinality(Completed)
         /\ Reported # {} => \A d \in Reported : stat.best <= d /\ stat.best # 0
=============================================================================
