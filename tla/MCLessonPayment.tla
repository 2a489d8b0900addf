-------------------------- MODULE MCLessonPayment --------------------------
(* The symmetry of the runs of LessonPayment. *)
EXTENDS LessonPayment, TLC

Symmetry == Permutations(Requests)
=============================================================================
