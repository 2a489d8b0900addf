-------------------------- MODULE LessonLifecycle --------------------------
(***************************************************************************)
(* What the booking component promises of one lesson at a time: the table  *)
(* validTransitions of updateLessonStatus, which learner cancellation and  *)
(* rescheduling keep to as well.                                           *)
(***************************************************************************)
CONSTANT Lessons
VARIABLE status

Init == status = [l \in Lessons |-> "none"]

Request(l) ==
  /\ status[l] = "none"
  /\ status' = [status EXCEPT ![l] = "requested"]

Answer(l) ==
  /\ status[l] = "requested"
  /\ \E next \in {"accepted", "declined"} : status' = [status EXCEPT ![l] = next]

Close(l) ==
  /\ status[l] \in {"requested", "accepted"}
  /\ \E next \in {"completed", "cancelled"} : status' = [status EXCEPT ![l] = next]

Next == \E l \in Lessons : Request(l) \/ Answer(l) \/ Close(l)

Spec == Init /\ [][Next]_status
=============================================================================
