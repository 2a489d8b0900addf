------------------------- MODULE MCPracticePurchase -------------------------
(* The run of PracticePurchase: handlers one after the other, two of which may
   die, or two at a time, one of which may die. *)
EXTENDS PracticePurchase, TLC

VARIABLE serial

Alone == \A q, r \in Requests : req[q].op # "idle" /\ req[r].op # "idle" => q = r

MCInit == Init /\ serial \in BOOLEAN
MCNext ==
  /\ Next
  /\ serial => Alone'
  /\ ~serial => crashes' <= 1
  /\ UNCHANGED serial
MCSpec == MCInit /\ [][MCNext]_<<vars, serial>>

Symmetry == Permutations(Requests)

\* An active bonus has a released event and one event at most is released, when
\* purchases and cancellations come one after the other: see BonusIsBacked.
SerialBonusIsBacked == serial => BonusIsBacked

\* Nothing is left of a cancelled purchase when no handler died and handlers run
\* one after the other: see CancelledHasNothing.
SerialCancelledHasNothing == serial => CancelledHasNothing
=============================================================================
