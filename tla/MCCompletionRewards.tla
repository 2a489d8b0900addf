------------------------ MODULE MCCompletionRewards ------------------------
(* Who teaches what in the run of CompletionRewards, and what bounds it.  The
   two ways of being invited share no row, so a behaviour has one instructor
   in focus whose lessons are completed.  Two handlers meet once, after one
   review at most: what has happened before may be anything that handlers one
   at a time can do, and so may what comes after. *)
EXTENDS CompletionRewards, TLC

CONSTANTS anna, bert, l1, l2, l3
VARIABLE focus

WhoTeaches == (l1 :> anna) @@ (l2 :> anna) @@ (l3 :> bert)

Overlap == \E q, r \in Requests : q # r /\ req[q].op # "idle" /\ req[r].op # "idle"
Others == Instructors \ {focus}

MCInit == Init /\ focus \in Instructors /\ approved \cap Others = {}
MCNext ==
  /\ Next
  /\ "overlapped" \in marks /\ Overlap' => Overlap
  /\ "overlapped" \in marks' => reviews' <= 1
  /\ UNCHANGED <<focus, approved \cap Others, old \cap Others>>
  /\ \A r \in Requests : req'[r].lesson # NoLesson => Teacher[req'[r].lesson] = focus
MCSpec == MCInit /\ [][MCNext]_<<vars, focus>>

Symmetry == Permutations(Requests)
=============================================================================
