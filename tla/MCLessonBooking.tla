-------------------------- MODULE MCLessonBooking --------------------------
(* The windows and the symmetry of the runs of LessonBooking.               *)
EXTENDS LessonBooking, TLC

CONSTANTS anna, bert

\* One instructor: slots and direct requests cover a unit each.
UnitWindows == {[by |-> anna, at |-> {t}] : t \in Time}

\* Two instructors: windows that meet, that only share the time, that cover none.
MixedWindows == {[by |-> anna, at |-> {}], [by |-> anna, at |-> {1}],
                 [by |-> anna, at |-> {2}], [by |-> anna, at |-> {1, 2}],
                 [by |-> bert, at |-> {1}]}

Symmetry == Permutations(Slots) \cup Permutations(Lessons) \cup Permutations(Requests)

\* Units of time are only compared, so with a unit a window they are alike too.
UnitSymmetry == Symmetry \cup Permutations(Time)

=============================================================================
