---------------------------- MODULE LearnerLinks ----------------------------
(***************************************************************************)
(* Share codes of instructors and the links of learners to them:           *)
(* getInstructorShareCode, regenerateInstructorShareCode,                  *)
(* submitLearnerLinkRequest and approveInstructorLinkRequest of            *)
(* InstructorsService.                                                     *)
(*                                                                         *)
(* A code is drawn at random, looked for among the active ones and then    *)
(* inserted; no constraint forbids that two instructors have it.           *)
(* Regeneration is one transaction.  Codes never expire.  A link to        *)
(* oneself and the notifications are left out.                             *)
(***************************************************************************)
EXTENDS FiniteSets

CONSTANTS Owners,    \* instructors
          Pupils,    \* learners
          Codes,
          Errands    \* requests

ASSUME NobodyAssumption == "none" \notin Owners \cup Pupils

VARIABLES
  active,    \* committed active rows of instructor_share_codes
  linked,    \* the status of the row of instructor_learner_links
  errands,   \* what a request has read and does next
  issued,    \* auxiliary: instructors who were given a code
  approved,  \* auxiliary: links that were approved
  crossed    \* auxiliary: what went wrong so far, see Crossings

linkVars == <<active, linked, errands, issued, approved, crossed>>

\* Two requests that write codes, or two that write links, overlapped.
Crossings == {"codes", "links"}

CodeRow == [owner : Owners, code : Codes]
Links == [owner : Owners, pupil : Pupils]
LinkStatus == {"none", "pending", "approved"}

\* rows: what a transaction deactivates, seen by itself alone until it commits;
\* pair: the link; read: its status when it was read.
CodeSteps == {"draw", "update", "redraw", "insert", "reinsert"}
LinkSteps == {"find", "link", "approve"}
NoPair == [owner |-> "none", pupil |-> "none"]
Errand == [at : {"idle"} \cup CodeSteps \cup LinkSteps, owner : Owners \cup {"none"},
           rows : SUBSET CodeRow, code : SUBSET Codes,
           pair : Links \cup {NoPair}, read : LinkStatus]
NoErrand == [at |-> "idle", owner |-> "none", rows |-> {}, code |-> {},
             pair |-> NoPair, read |-> "none"]

LinksTypeOK ==
  /\ active \subseteq CodeRow
  /\ linked \in [Links -> LinkStatus]
  /\ errands \in [Errands -> Errand]
  /\ issued \subseteq Owners /\ approved \subseteq Links /\ crossed \subseteq Crossings
LinksInit ==
  /\ active = {} /\ linked = [l \in Links |-> "none"]
  /\ errands = [e \in Errands |-> NoErrand]
  /\ issued = {} /\ approved = {} /\ crossed = {}

-----------------------------------------------------------------------------
EndErrand(e) == errands' = [errands EXCEPT ![e] = NoErrand]
StartErrand(e, errand, kind, steps) ==
  /\ errands[e].at = "idle"
  /\ errands' = [errands EXCEPT ![e] = errand]
  /\ crossed' = IF \E d \in Errands : errands[d].at \in steps THEN crossed \cup {kind} ELSE crossed
  /\ UNCHANGED <<active, linked, issued, approved>>

RowsOf(i) == {row \in active : row.owner = i}

(* Codes.                                                                    *)

\* getInstructorShareCode answers with the active code, or else makes one.
GetCode(e, i) ==
  /\ RowsOf(i) = {}
  /\ StartErrand(e, [NoErrand EXCEPT !.at = "draw", !.owner = i], "codes", CodeSteps)

\* The rows the UPDATE finds; it may then wait for their locks.
RegenerateCode(e, i) ==
  StartErrand(e, [NoErrand EXCEPT !.at = "update", !.owner = i, !.rows = RowsOf(i)],
              "codes", CodeSteps)

Updating(d) == errands[d].at \in {"redraw", "reinsert"}

\* (Mutant: the UPDATE is not part of a transaction.)
UpdateAlone(e) ==
  /\ errands[e].at = "update"
  /\ active' = active \ errands[e].rows
  /\ errands' = [errands EXCEPT ![e].at = "redraw"]
  /\ UNCHANGED <<linked, issued, approved, crossed>>

\* Rows another transaction has deactivated meanwhile are left alone.
UpdateRows(e) ==
  /\ errands[e].at = "update"
  /\ \A d \in Errands : Updating(d) => errands[d].rows \cap errands[e].rows = {}
  /\ errands' = [errands EXCEPT ![e].at = "redraw", ![e].rows = @ \cap active]
  /\ UNCHANGED <<active, linked, issued, approved, crossed>>

\* generateUniqueShareCode: no active row that the request can see has the code.
DrawCode(e, code) ==
  /\ errands[e].at \in {"draw", "redraw"}
  /\ \A row \in active \ errands[e].rows : row.code # code
  /\ errands' = [errands EXCEPT ![e].code = {code},
                   ![e].at = IF @ = "draw" THEN "insert" ELSE "reinsert"]
  /\ UNCHANGED <<active, linked, issued, approved, crossed>>

\* The row is inserted, and the transaction of a regeneration committed.
InsertCode(e) ==
  /\ errands[e].at \in {"insert", "reinsert"}
  /\ active' = (active \ errands[e].rows) \cup [owner : {errands[e].owner}, code : errands[e].code]
  /\ issued' = issued \cup {errands[e].owner}
  /\ EndErrand(e)
  /\ UNCHANGED <<linked, approved, crossed>>

(* Links.                                                                    *)

\* The code names its owner; of two owners the one updated last, which may be any.
SubmitCode(e, u) ==
  \E row \in active :
    StartErrand(e, [NoErrand EXCEPT !.at = "find", !.pair = [owner |-> row.owner, pupil |-> u]],
                "links", LinkSteps)

SubmitFind(e) ==
  /\ errands[e].at = "find"
  /\ errands' = [errands EXCEPT ![e].at = "link", ![e].read = linked[errands[e].pair]]
  /\ UNCHANGED <<active, linked, issued, approved, crossed>>

\* The pair is UNIQUE: the second of two inserts fails.  An existing link is
\* saved as it was read.
SubmitSave(e) ==
  /\ errands[e].at = "link"
  /\ linked' = [linked EXCEPT ![errands[e].pair] =
       IF errands[e].read = "approved" THEN "approved"
       ELSE IF errands[e].read = "none" /\ @ # "none" THEN @
       ELSE "pending"]
  /\ EndErrand(e)
  /\ UNCHANGED <<active, issued, approved, crossed>>

ApproveFind(e, l) ==
  /\ linked[l] # "none"
  /\ StartErrand(e, [NoErrand EXCEPT !.at = "approve", !.pair = l], "links", LinkSteps)

ApproveSave(e) ==
  /\ errands[e].at = "approve"
  /\ linked' = [linked EXCEPT ![errands[e].pair] = "approved"]
  /\ approved' = approved \cup {errands[e].pair}
  /\ EndErrand(e)
  /\ UNCHANGED <<active, issued, crossed>>

\* A statement fails, no code is free after 200 draws, or the process dies.
ErrandFails(e) ==
  /\ errands[e].at # "idle"
  /\ EndErrand(e)
  /\ UNCHANGED <<active, linked, issued, approved, crossed>>

LinksNext ==
  \E e \in Errands :
    \/ \E i \in Owners : GetCode(e, i) \/ RegenerateCode(e, i)
    \/ UpdateRows(e) \/ InsertCode(e) \/ \E code \in Codes : DrawCode(e, code)
    \/ \E u \in Pupils : SubmitCode(e, u)
    \/ \E l \in Links : ApproveFind(e, l)
    \/ SubmitFind(e) \/ SubmitSave(e) \/ ApproveSave(e) \/ ErrandFails(e)

LinksSpec == LinksInit /\ [][LinksNext]_linkVars

-----------------------------------------------------------------------------
\* An instructor who was given a code has one from then on, however requests
\* overlap and fail.  While those about codes do not overlap, nobody has two
\* and no two have the same; while those about links do not, a link that was
\* approved stays approved, though the learner sends the code again.
LinksAreKept ==
  /\ \A i \in issued : RowsOf(i) # {}
  /\ "codes" \notin crossed =>
       \A row, other \in active : row.owner = other.owner \/ row.code = other.code => row = other
  /\ "links" \notin crossed => \A l \in approved : linked[l] = "approved"
=============================================================================
