--------------------------- MODULE LessonReviews ---------------------------
(***************************************************************************)
(* What one learner writes about completed lessons with an instructor, and *)
(* its moderation: createReview, reportReview, flagReview, hideReview,     *)
(* removeReview and restoreReview of InstructorsService.  Each handler     *)
(* reads the review and then saves it, by single statements.  The reload   *)
(* of a save is not a step of its own: it may leave a column to another    *)
(* writer, but whether a row is visible is written by a restore only.      *)
(*                                                                         *)
(* Who may report, reasons, ratings and the audit trail are left out.      *)
(***************************************************************************)
EXTENDS Naturals, FiniteSets

CONSTANTS Reviews,    \* one for each lesson: UNIQUE (instructor, learner, lesson)
          Handlers,   \* requests
          MaxRecent   \* reviews a learner may write in 24 hours

ASSUME ReviewsAssumption == MaxRecent \in Nat /\ "none" \notin Reviews

VARIABLES
  reviews,   \* the rows
  handlers,  \* what a request has read and does next
  down,      \* auxiliary: reviews reported or moderated and not restored since
  removed,   \* auxiliary: reviews removed completely; no restore has begun since
  clashes    \* auxiliary: what went wrong so far, see Clashes

reviewVars == <<reviews, handlers, down, removed, clashes>>

\* Two requests overlapped; a request failed or its process died.
Clashes == {"overlapped", "failed"}

\* deleted: deleted_at is set; recent: written in the last 24 hours.
Review == [status : {"none", "visible", "flagged", "hidden", "removed"}, deleted : BOOLEAN,
           recent : BOOLEAN]
NoReview == [status |-> "none", deleted |-> FALSE, recent |-> FALSE]

Moderations == {"flagged", "hidden", "removed"}
Handler == [at : {"off", "find", "insert", "undelete", "save", "delete"},
            review : Reviews \cup {"none"}, read : Review, next : {"visible"} \cup Moderations]
NoHandler == [at |-> "off", review |-> "none", read |-> NoReview, next |-> "visible"]

ReviewsTypeOK ==
  /\ reviews \in [Reviews -> Review]
  /\ handlers \in [Handlers -> Handler]
  /\ down \subseteq Reviews /\ removed \subseteq Reviews
  /\ clashes \subseteq Clashes
ReviewsInit ==
  /\ reviews = [r \in Reviews |-> NoReview]
  /\ handlers = [h \in Handlers |-> NoHandler]
  /\ down = {} /\ removed = {} /\ clashes = {}

-----------------------------------------------------------------------------
Moderating == {h \in Handlers : handlers[h].at # "off"}
Meets == clashes' = IF Moderating # {} THEN clashes \cup {"overlapped"} ELSE clashes

HandlerTo(h, at, r, read, next) ==
  handlers' = [handlers EXCEPT ![h] = [at |-> at, review |-> r, read |-> read, next |-> next]]
HandlerAt(h, at) == handlers' = [handlers EXCEPT ![h].at = at]
HandlerEnds(h) == handlers' = [handlers EXCEPT ![h] = NoHandler]

(* createReview.                                                             *)

ReviewCount(h, r) ==
  /\ handlers[h].at = "off"
  /\ Cardinality({s \in Reviews : reviews[s].recent /\ ~reviews[s].deleted}) < MaxRecent
  /\ HandlerTo(h, "find", r, NoReview, "visible") /\ Meets
  /\ UNCHANGED <<reviews, down, removed>>

ReviewFind(h) ==
  /\ handlers[h].at = "find"
  /\ LET row == reviews[handlers[h].review] IN
     IF row.status # "none" /\ ~row.deleted THEN HandlerEnds(h) ELSE HandlerAt(h, "insert")
  /\ UNCHANGED <<reviews, down, removed, clashes>>

\* (Mutant: the review waits for a moderator, as its type allows.)
InsertPending(h) ==
  /\ handlers[h].at = "insert"
  /\ reviews' = [reviews EXCEPT ![handlers[h].review] =
       IF @.status = "none" THEN [status |-> "pending", deleted |-> FALSE, recent |-> TRUE] ELSE @]
  /\ HandlerEnds(h)
  /\ UNCHANGED <<down, removed, clashes>>

\* The unique constraint refuses a second row, after a removal too.
ReviewInsert(h) ==
  /\ handlers[h].at = "insert"
  /\ reviews' = [reviews EXCEPT ![handlers[h].review] =
       IF @.status = "none" THEN [status |-> "visible", deleted |-> FALSE, recent |-> TRUE] ELSE @]
  /\ HandlerEnds(h)
  /\ UNCHANGED <<down, removed, clashes>>

DayPasses ==
  /\ reviews' = [r \in Reviews |-> [reviews[r] EXCEPT !.recent = FALSE]]
  /\ UNCHANGED <<handlers, down, removed, clashes>>

(* reportReview and updateReviewStatus.                                      *)

Reads(h, r) ==
  /\ handlers[h].at = "off" /\ reviews[r].status # "none"
  /\ Meets
  /\ UNCHANGED <<reviews, down, removed>>

ReportRead(h, r) ==
  /\ Reads(h, r)
  /\ ~reviews[r].deleted /\ reviews[r].status # "removed"
  /\ HandlerTo(h, "save", r, reviews[r],
               IF reviews[r].status = "visible" THEN "flagged" ELSE reviews[r].status)

\* (Mutant: what was removed can be moderated further.)
ModerateAnything(h, r, next) ==
  /\ Reads(h, r)
  /\ HandlerTo(h, "save", r, reviews[r], next)

ModerateRead(h, r, next) ==
  /\ Reads(h, r)
  /\ ~(reviews[r].deleted /\ reviews[r].status = "removed")
  /\ HandlerTo(h, "save", r, reviews[r], next)

RestoreRead(h, r) ==
  /\ Reads(h, r)
  /\ HandlerTo(h, IF reviews[r].deleted THEN "undelete" ELSE "save", r,
               [reviews[r] EXCEPT !.deleted = FALSE], "visible")

RestoreUndelete(h) ==
  /\ handlers[h].at = "undelete"
  /\ reviews' = [reviews EXCEPT ![handlers[h].review].deleted = FALSE]
  /\ removed' = removed \ {handlers[h].review}
  /\ HandlerAt(h, "save")
  /\ UNCHANGED <<down, clashes>>

\* save writes whatever differs from the row, deleted_at too.
ReviewSave(h) ==
  /\ handlers[h].at = "save"
  /\ LET r == handlers[h].review  next == handlers[h].next IN
     /\ reviews' = [reviews EXCEPT ![r].status = next, ![r].deleted = handlers[h].read.deleted]
     /\ down' = IF next = "visible" THEN down \ {r} ELSE down \cup {r}
     /\ removed' = IF next = "visible" THEN removed \ {r} ELSE removed
     /\ IF next = "removed" THEN HandlerAt(h, "delete") ELSE HandlerEnds(h)
  /\ UNCHANGED clashes

RemoveDelete(h) ==
  /\ handlers[h].at = "delete"
  /\ reviews' = [reviews EXCEPT ![handlers[h].review].deleted = TRUE]
  /\ removed' = removed \cup {handlers[h].review}
  /\ HandlerEnds(h)
  /\ UNCHANGED <<down, clashes>>

\* A statement fails or the process dies.
HandlerFails(h) ==
  /\ handlers[h].at # "off"
  /\ HandlerEnds(h)
  /\ clashes' = clashes \cup {"failed"}
  /\ UNCHANGED <<reviews, down, removed>>

ReviewsNext ==
  \/ \E h \in Handlers :
       \/ \E r \in Reviews : ReviewCount(h, r) \/ ReportRead(h, r) \/ RestoreRead(h, r)
                             \/ \E next \in Moderations : ModerateRead(h, r, next)
       \/ ReviewFind(h) \/ ReviewInsert(h) \/ ReviewSave(h)
       \/ RestoreUndelete(h) \/ RemoveDelete(h) \/ HandlerFails(h)
  \/ DayPasses

ReviewsSpec == ReviewsInit /\ [][ReviewsNext]_reviewVars

-----------------------------------------------------------------------------
\* getPublicProfile
Shown(r) == reviews[r].status = "visible" /\ ~reviews[r].deleted

\* What was reported or moderated is on the profile again only after a restore,
\* however requests overlap and fail.  While none does, what was removed stays
\* removed and deleted until then.
ModerationStands ==
  /\ \A r \in down : ~Shown(r)
  /\ clashes = {} => \A r \in removed : reviews[r].status = "removed" /\ reviews[r].deleted
=============================================================================
