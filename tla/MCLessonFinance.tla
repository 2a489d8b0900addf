-------------------------- MODULE MCLessonFinance --------------------------
(* The symmetry of the runs of LessonFinance. *)
EXTENDS LessonFinance, TLC

Symmetry == Permutations(Disputes)
=============================================================================
