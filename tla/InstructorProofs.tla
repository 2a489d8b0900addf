-------------------------- MODULE InstructorProofs --------------------------
(***************************************************************************)
(* Proofs about the services around an instructor: LearnerLinks, for any   *)
(* number of instructors, learners, codes and requests in flight, and      *)
(* LessonReviews, for any number of reviews and requests.                  *)
(***************************************************************************)
EXTENDS LearnerLinks, LessonReviews, TLAPS

-----------------------------------------------------------------------------
(* LearnerLinks.                                                             *)

Inserting == {"insert", "reinsert"}
WritesCodes(e) == errands[e].at \in CodeSteps
WritesLinks(e) == errands[e].at \in LinkSteps

\* A request has an owner, and replaces rows of that owner alone.
OwnRows ==
  /\ \A e \in Errands : WritesCodes(e) => errands[e].owner \in Owners
  /\ \A e \in Errands : errands[e].at \in Inserting => errands[e].code # {}
  /\ \A e \in Errands : \A row \in errands[e].rows : row.owner = errands[e].owner
  /\ \A i \in issued : RowsOf(i) # {}

\* While requests about codes do not overlap, the one in flight knows all the
\* rows of its owner, and the code it has drawn is free.
OneCodeEach ==
  "codes" \notin crossed =>
    /\ \A e, d \in Errands : WritesCodes(e) /\ WritesCodes(d) => e = d
    /\ \A e \in Errands : WritesCodes(e) => RowsOf(errands[e].owner) \subseteq errands[e].rows
    /\ \A e \in Errands : errands[e].at \in Inserting =>
         /\ \A x, y \in errands[e].code : x = y
         /\ \A row \in active \ errands[e].rows : row.code \notin errands[e].code
    /\ \A row, other \in active : row.owner = other.owner \/ row.code = other.code => row = other

\* While requests about links do not overlap, the one in flight has read what
\* the link is.
ApprovedStays ==
  "links" \notin crossed =>
    /\ \A e, d \in Errands : WritesLinks(e) /\ WritesLinks(d) => e = d
    /\ \A e \in Errands : errands[e].at = "link" => errands[e].read = linked[errands[e].pair]
    /\ \A l \in approved : linked[l] = "approved"

\* A request about a link has one.
HasPair == \A e \in Errands : WritesLinks(e) => errands[e].pair \in Links

\* The inductive invariant.
LinksInv == LinksTypeOK /\ HasPair /\ OwnRows /\ OneCodeEach /\ ApprovedStays

-----------------------------------------------------------------------------
LEMMA LinksInvFirst == LinksInit => LinksInv
BY DEF LinksInit, LinksInv, LinksTypeOK, HasPair, OwnRows, OneCodeEach, ApprovedStays, NoErrand,
   Errand, NoPair, WritesCodes, WritesLinks, CodeSteps, LinkSteps, Inserting, RowsOf, LinkStatus

LEMMA LinksInvIsEnough == LinksInv => LinksAreKept
BY DEF LinksInv, OwnRows, OneCodeEach, ApprovedStays, LinksAreKept

\* What becomes of a request that ends.
LEMMA ErrandEnds ==
  ASSUME LinksTypeOK, NEW e \in Errands, EndErrand(e)
  PROVE  /\ errands' \in [Errands -> Errand]
         /\ errands'[e].at = "idle" /\ errands'[e].rows = {}
         /\ \A d \in Errands : d # e => errands'[d] = errands[d]
BY DEF LinksTypeOK, EndErrand, NoErrand, Errand, NoPair, LinkStatus

\* What becomes of a request that starts.
LEMMA ErrandStarts ==
  ASSUME LinksTypeOK, NEW e \in Errands, NEW r \in Errand, NEW kind, NEW steps,
         StartErrand(e, r, kind, steps)
  PROVE  /\ errands' \in [Errands -> Errand]
         /\ errands'[e] = r
         /\ \A d \in Errands : d # e => errands'[d] = errands[d]
         /\ errands[e].at = "idle"
         /\ UNCHANGED <<active, linked, issued, approved>>
         /\ crossed \subseteq crossed'
         /\ crossed' \subseteq crossed \cup {kind}
         /\ kind \notin crossed' => \A d \in Errands : errands[d].at \notin steps
BY DEF LinksTypeOK, StartErrand

LEMMA LinksInvKept == LinksInv /\ [LinksNext]_linkVars => LinksInv'
<1> SUFFICES ASSUME LinksInv, [LinksNext]_linkVars PROVE LinksInv'
  OBVIOUS
<1>0. LinksTypeOK /\ HasPair /\ OwnRows /\ OneCodeEach /\ ApprovedStays
  BY DEF LinksInv
<1>1. ASSUME NEW e \in Errands, NEW i \in Owners, GetCode(e, i) PROVE LinksInv'
  <2> DEFINE r == [NoErrand EXCEPT !.at = "draw", !.owner = i]
  <2>1. /\ r \in Errand /\ r.at = "draw" /\ r.owner = i /\ r.rows = {} /\ r.code = {}
    BY DEF NoErrand, Errand, NoPair, LinkStatus, CodeSteps
  <2>2. StartErrand(e, r, "codes", CodeSteps) /\ RowsOf(i) = {}
    BY <1>1 DEF GetCode
  <2> HIDE DEF r
  <2>3. /\ errands' \in [Errands -> Errand] /\ errands'[e] = r /\ errands[e].at = "idle"
        /\ \A d \in Errands : d # e => errands'[d] = errands[d]
        /\ UNCHANGED <<active, linked, issued, approved>>
        /\ crossed \subseteq crossed' /\ crossed' \subseteq crossed \cup {"codes"}
        /\ "codes" \notin crossed' => \A d \in Errands : errands[d].at \notin CodeSteps
    BY <1>0, <2>1, <2>2, ErrandStarts
  <2>4. LinksTypeOK'
    BY <1>0, <2>3 DEF LinksTypeOK, Crossings
  <2>5. HasPair'
    BY <1>0, <2>1, <2>3 DEF HasPair, WritesLinks, LinkSteps
  <2>6. OwnRows'
    BY <1>0, <2>1, <2>3 DEF OwnRows, WritesCodes, RowsOf, Inserting
  <2>7. OneCodeEach'
    BY <1>0, <2>1, <2>2, <2>3 DEF OneCodeEach, WritesCodes, RowsOf, Inserting, CodeSteps
  <2>8. ApprovedStays'
    BY <1>0, <2>1, <2>3 DEF ApprovedStays, WritesLinks, LinkSteps
  <2> QED BY <2>4, <2>5, <2>6, <2>7, <2>8 DEF LinksInv
<1>2. ASSUME NEW e \in Errands, NEW i \in Owners, RegenerateCode(e, i) PROVE LinksInv'
  <2> DEFINE r == [NoErrand EXCEPT !.at = "update", !.owner = i, !.rows = RowsOf(i)]
  <2>1. /\ r \in Errand /\ r.at = "update" /\ r.owner = i /\ r.rows = RowsOf(i) /\ r.code = {}
    BY <1>0 DEF NoErrand, Errand, NoPair, LinkStatus, CodeSteps, RowsOf, LinksTypeOK
  <2>2. StartErrand(e, r, "codes", CodeSteps)
    BY <1>2 DEF RegenerateCode
  <2> HIDE DEF r
  <2>3. /\ errands' \in [Errands -> Errand] /\ errands'[e] = r /\ errands[e].at = "idle"
        /\ \A d \in Errands : d # e => errands'[d] = errands[d]
        /\ UNCHANGED <<active, linked, issued, approved>>
        /\ crossed \subseteq crossed' /\ crossed' \subseteq crossed \cup {"codes"}
        /\ "codes" \notin crossed' => \A d \in Errands : errands[d].at \notin CodeSteps
    BY <1>0, <2>1, <2>2, ErrandStarts
  <2>4. LinksTypeOK'
    BY <1>0, <2>3 DEF LinksTypeOK, Crossings
  <2>5. HasPair'
    BY <1>0, <2>1, <2>3 DEF HasPair, WritesLinks, LinkSteps
  <2>6. OwnRows'
    BY <1>0, <2>1, <2>3 DEF OwnRows, WritesCodes, RowsOf, Inserting
  <2>7. OneCodeEach'
    BY <1>0, <2>1, <2>2, <2>3 DEF OneCodeEach, WritesCodes, RowsOf, Inserting, CodeSteps
  <2>8. ApprovedStays'
    BY <1>0, <2>1, <2>3 DEF ApprovedStays, WritesLinks, LinkSteps
  <2> QED BY <2>4, <2>5, <2>6, <2>7, <2>8 DEF LinksInv
<1>3. ASSUME NEW e \in Errands, UpdateRows(e) PROVE LinksInv'
  <2>1. /\ errands' \in [Errands -> Errand]
        /\ errands[e].at = "update" /\ errands'[e].at = "redraw"
        /\ errands'[e].owner = errands[e].owner
        /\ errands'[e].rows = errands[e].rows \cap active
        /\ \A d \in Errands : d # e => errands'[d] = errands[d]
        /\ UNCHANGED <<active, linked, issued, approved, crossed>>
    BY <1>0, <1>3 DEF UpdateRows, LinksTypeOK, Errand, CodeSteps
  <2>4. LinksTypeOK'
    BY <1>0, <2>1 DEF LinksTypeOK
  <2>5. HasPair'
    BY <1>0, <2>1 DEF HasPair, WritesLinks, LinkSteps
  <2>6. OwnRows'
    BY <1>0, <2>1 DEF OwnRows, WritesCodes, RowsOf, Inserting, CodeSteps
  <2>7. OneCodeEach'
    BY <1>0, <2>1 DEF OneCodeEach, WritesCodes, RowsOf, Inserting, CodeSteps
  <2>8. ApprovedStays'
    BY <1>0, <2>1 DEF ApprovedStays, WritesLinks, LinkSteps
  <2> QED BY <2>4, <2>5, <2>6, <2>7, <2>8 DEF LinksInv
<1>4. ASSUME NEW e \in Errands, NEW code \in Codes, DrawCode(e, code) PROVE LinksInv'
  <2>1. /\ errands' \in [Errands -> Errand]
        /\ errands[e].at \in {"draw", "redraw"} /\ errands'[e].at \in Inserting
        /\ errands'[e].owner = errands[e].owner
        /\ errands'[e].rows = errands[e].rows /\ errands'[e].code = {code}
        /\ \A d \in Errands : d # e => errands'[d] = errands[d]
        /\ UNCHANGED <<active, linked, issued, approved, crossed>>
    BY <1>0, <1>4 DEF DrawCode, LinksTypeOK, Errand, CodeSteps, Inserting
  <2>2. \A row \in active \ errands[e].rows : row.code # code
    BY <1>4 DEF DrawCode
  <2>4. LinksTypeOK'
    BY <1>0, <2>1 DEF LinksTypeOK
  <2>5. HasPair'
    BY <1>0, <2>1 DEF HasPair, WritesLinks, LinkSteps, Inserting
  <2>6. OwnRows'
    BY <1>0, <2>1 DEF OwnRows, WritesCodes, RowsOf, Inserting, CodeSteps
  <2>7. OneCodeEach'
    BY <1>0, <2>1, <2>2 DEF OneCodeEach, WritesCodes, RowsOf, Inserting, CodeSteps
  <2>8. ApprovedStays'
    BY <1>0, <2>1 DEF ApprovedStays, WritesLinks, LinkSteps, Inserting
  <2> QED BY <2>4, <2>5, <2>6, <2>7, <2>8 DEF LinksInv
<1>5. ASSUME NEW e \in Errands, InsertCode(e) PROVE LinksInv'
  <2> DEFINE i == errands[e].owner
             fresh == [owner : {i}, code : errands[e].code]
  <2>1. /\ errands[e].at \in Inserting /\ active' = (active \ errands[e].rows) \cup fresh
        /\ issued' = issued \cup {i}
        /\ EndErrand(e) /\ UNCHANGED <<linked, approved, crossed>>
    BY <1>5 DEF InsertCode, Inserting
  <2>2. /\ errands' \in [Errands -> Errand]
        /\ errands'[e].at = "idle" /\ errands'[e].rows = {}
        /\ \A d \in Errands : d # e => errands'[d] = errands[d]
    BY <1>0, <2>1, ErrandEnds
  <2>3. /\ i \in Owners /\ errands[e].code # {} /\ errands[e].code \subseteq Codes
        /\ errands[e].rows \subseteq CodeRow
    BY <1>0, <2>1 DEF OwnRows, WritesCodes, Inserting, CodeSteps, LinksTypeOK, Errand
  <2>4. fresh \subseteq CodeRow /\ fresh # {} /\ \A row \in fresh : row.owner = i
    <3>1. PICK c \in errands[e].code : TRUE
      BY <2>3
    <3>2. [owner |-> i, code |-> c] \in fresh
      BY <3>1
    <3>3. \A row \in fresh : row \in CodeRow /\ row.owner = i
      BY <2>3 DEF CodeRow
    <3> QED BY <3>2, <3>3
  <2>5. LinksTypeOK'
    BY <1>0, <2>1, <2>2, <2>3, <2>4 DEF LinksTypeOK
  <2>6. HasPair'
    BY <1>0, <2>1, <2>2 DEF HasPair, WritesLinks, LinkSteps
  <2>7. OwnRows'
    <3>1. \A j \in issued' : RowsOf(j)' # {}
      <4>1. PICK new \in active' : new.owner = i
        BY <2>1, <2>4
      <4>2. ASSUME NEW j \in issued, j # i PROVE \E row \in active' : row.owner = j
        <5>1. PICK row \in active : row.owner = j
          BY <1>0, <4>2 DEF RowsOf, OwnRows
        <5>2. row \notin errands[e].rows
          BY <1>0, <4>2, <5>1 DEF OwnRows
        <5> QED BY <2>1, <5>1, <5>2
      <4>3. \A j \in issued' : \E row \in active' : row.owner = j
        BY <2>1, <4>1, <4>2
      <4> QED BY <4>3 DEF RowsOf
    <3>2. /\ \A d \in Errands : WritesCodes(d)' => errands'[d].owner \in Owners
          /\ \A d \in Errands : errands'[d].at \in Inserting => errands'[d].code # {}
          /\ \A d \in Errands : \A row \in errands'[d].rows : row.owner = errands'[d].owner
      BY <1>0, <2>2 DEF OwnRows, WritesCodes, Inserting, CodeSteps
    <3> QED BY <3>1, <3>2 DEF OwnRows
  <2>8. OneCodeEach'
    <3> SUFFICES ASSUME "codes" \notin crossed PROVE OneCodeEach'
      BY <2>1 DEF OneCodeEach
    <3>1. \A d \in Errands : ~WritesCodes(d)'
      BY <1>0, <2>1, <2>2 DEF OneCodeEach, WritesCodes, Inserting, CodeSteps
    <3>2. ASSUME NEW row \in active', NEW other \in active',
                 row.owner = other.owner \/ row.code = other.code
          PROVE  row = other
      <4>1. \A old \in active \ errands[e].rows : old.owner # i /\ old.code \notin errands[e].code
        BY <1>0, <2>1 DEF OneCodeEach, RowsOf, WritesCodes, Inserting, CodeSteps
      <4>2. \A new, newer \in fresh : new = newer /\ new.owner = i /\ new.code \in errands[e].code
        BY <1>0, <2>1 DEF OneCodeEach
      <4> QED BY <1>0, <2>1, <3>2, <4>1, <4>2 DEF OneCodeEach
    <3> QED BY <3>1, <3>2 DEF OneCodeEach, WritesCodes, Inserting, CodeSteps
  <2>9. ApprovedStays'
    BY <1>0, <2>1, <2>2 DEF ApprovedStays, WritesLinks, LinkSteps
  <2> QED BY <2>5, <2>6, <2>7, <2>8, <2>9 DEF LinksInv
<1>6. ASSUME NEW e \in Errands, NEW row \in active, NEW u \in Pupils,
             StartErrand(e, [NoErrand EXCEPT !.at = "find", !.pair = [owner |-> row.owner, pupil |-> u]],
                         "links", LinkSteps)
      PROVE  LinksInv'
  <2> DEFINE r == [NoErrand EXCEPT !.at = "find", !.pair = [owner |-> row.owner, pupil |-> u]]
  <2>1. r \in Errand /\ r.at = "find" /\ r.pair \in Links /\ r.rows = {}
    BY <1>0 DEF NoErrand, Errand, NoPair, LinkStatus, LinkSteps, Links, LinksTypeOK, CodeRow
  <2>2. StartErrand(e, r, "links", LinkSteps)
    BY <1>6
  <2> HIDE DEF r
  <2>3. /\ errands' \in [Errands -> Errand] /\ errands'[e] = r /\ errands[e].at = "idle"
        /\ \A d \in Errands : d # e => errands'[d] = errands[d]
        /\ UNCHANGED <<active, linked, issued, approved>>
        /\ crossed \subseteq crossed' /\ crossed' \subseteq crossed \cup {"links"}
        /\ "links" \notin crossed' => \A d \in Errands : errands[d].at \notin LinkSteps
    BY <1>0, <2>1, <2>2, ErrandStarts
  <2>4. LinksTypeOK'
    BY <1>0, <2>3 DEF LinksTypeOK, Crossings
  <2>5. HasPair'
    BY <1>0, <2>1, <2>3 DEF HasPair, WritesLinks, LinkSteps
  <2>6. OwnRows'
    BY <1>0, <2>1, <2>3 DEF OwnRows, WritesCodes, RowsOf, Inserting, CodeSteps
  <2>7. OneCodeEach'
    BY <1>0, <2>1, <2>3 DEF OneCodeEach, WritesCodes, RowsOf, Inserting, CodeSteps
  <2>8. ApprovedStays'
    BY <1>0, <2>1, <2>3 DEF ApprovedStays, WritesLinks, LinkSteps
  <2> QED BY <2>4, <2>5, <2>6, <2>7, <2>8 DEF LinksInv
<1>7. ASSUME NEW e \in Errands, SubmitFind(e) PROVE LinksInv'
  <2>1. /\ errands' \in [Errands -> Errand]
        /\ errands[e].at = "find" /\ errands'[e].at = "link"
        /\ errands'[e].pair = errands[e].pair /\ errands'[e].read = linked[errands[e].pair]
        /\ errands'[e].rows = errands[e].rows /\ errands'[e].owner = errands[e].owner
        /\ \A d \in Errands : d # e => errands'[d] = errands[d]
        /\ UNCHANGED <<active, linked, issued, approved, crossed>>
    <3>1. errands[e].at = "find" /\ errands[e].pair \in Links /\ linked[errands[e].pair] \in LinkStatus
      BY <1>0, <1>7 DEF SubmitFind, HasPair, WritesLinks, LinkSteps, LinksTypeOK
    <3> QED BY <1>0, <1>7, <3>1 DEF SubmitFind, LinksTypeOK, Errand, LinkSteps
  <2>4. LinksTypeOK'
    BY <1>0, <2>1 DEF LinksTypeOK
  <2>5. HasPair'
    BY <1>0, <2>1 DEF HasPair, WritesLinks, LinkSteps
  <2>6. OwnRows'
    BY <1>0, <2>1 DEF OwnRows, WritesCodes, RowsOf, Inserting, CodeSteps
  <2>7. OneCodeEach'
    BY <1>0, <2>1 DEF OneCodeEach, WritesCodes, RowsOf, Inserting, CodeSteps
  <2>8. ApprovedStays'
    BY <1>0, <2>1 DEF ApprovedStays, WritesLinks, LinkSteps
  <2> QED BY <2>4, <2>5, <2>6, <2>7, <2>8 DEF LinksInv
<1>8. ASSUME NEW e \in Errands, SubmitSave(e) PROVE LinksInv'
  <2>1. EndErrand(e) /\ errands[e].at = "link" /\ UNCHANGED <<active, issued, approved, crossed>>
    BY <1>8 DEF SubmitSave
  <2>2. /\ errands' \in [Errands -> Errand]
        /\ errands'[e].at = "idle" /\ errands'[e].rows = {}
        /\ \A d \in Errands : d # e => errands'[d] = errands[d]
    BY <1>0, <2>1, ErrandEnds
  <2>3. errands[e].pair \in Links
    BY <1>0, <2>1 DEF HasPair, WritesLinks, LinkSteps
  <2>4. /\ linked' \in [Links -> LinkStatus]
        /\ \A l \in Links : l # errands[e].pair => linked'[l] = linked[l]
        /\ errands[e].read = "approved" => linked'[errands[e].pair] = "approved"
    BY <1>0, <1>8, <2>3 DEF SubmitSave, LinksTypeOK, LinkStatus
  <2>5. LinksTypeOK'
    BY <1>0, <2>1, <2>2, <2>4 DEF LinksTypeOK
  <2>6. HasPair'
    BY <1>0, <2>2 DEF HasPair, WritesLinks, LinkSteps
  <2>7. OwnRows'
    BY <1>0, <2>1, <2>2 DEF OwnRows, WritesCodes, RowsOf, Inserting, CodeSteps
  <2>8. OneCodeEach'
    BY <1>0, <2>1, <2>2 DEF OneCodeEach, WritesCodes, RowsOf, Inserting, CodeSteps
  <2>9. ApprovedStays'
    <3> SUFFICES ASSUME "links" \notin crossed PROVE ApprovedStays'
      BY <2>1 DEF ApprovedStays
    <3>1. \A d \in Errands : ~WritesLinks(d)'
      BY <1>0, <2>1, <2>2 DEF ApprovedStays, WritesLinks, LinkSteps
    <3>2. errands[e].read = linked[errands[e].pair]
      BY <1>0, <2>1 DEF ApprovedStays
    <3>3. \A l \in approved : l \in Links /\ linked[l] = "approved"
      BY <1>0 DEF ApprovedStays, LinksTypeOK
    <3>4. \A l \in approved' : linked'[l] = "approved"
      BY <2>1, <2>4, <3>2, <3>3
    <3> QED BY <3>1, <3>4 DEF ApprovedStays, WritesLinks, LinkSteps
  <2> QED BY <2>5, <2>6, <2>7, <2>8, <2>9 DEF LinksInv
<1>9. ASSUME NEW e \in Errands, NEW l \in Links, ApproveFind(e, l) PROVE LinksInv'
  <2> DEFINE r == [NoErrand EXCEPT !.at = "approve", !.pair = l]
  <2>1. r \in Errand /\ r.at = "approve" /\ r.pair \in Links /\ r.rows = {}
    BY DEF NoErrand, Errand, NoPair, LinkStatus, LinkSteps
  <2>2. StartErrand(e, r, "links", LinkSteps)
    BY <1>9 DEF ApproveFind
  <2> HIDE DEF r
  <2>3. /\ errands' \in [Errands -> Errand] /\ errands'[e] = r /\ errands[e].at = "idle"
        /\ \A d \in Errands : d # e => errands'[d] = errands[d]
        /\ UNCHANGED <<active, linked, issued, approved>>
        /\ crossed \subseteq crossed' /\ crossed' \subseteq crossed \cup {"links"}
        /\ "links" \notin crossed' => \A d \in Errands : errands[d].at \notin LinkSteps
    BY <1>0, <2>1, <2>2, ErrandStarts
  <2>4. LinksTypeOK'
    BY <1>0, <2>3 DEF LinksTypeOK, Crossings
  <2>5. HasPair'
    BY <1>0, <2>1, <2>3 DEF HasPair, WritesLinks, LinkSteps
  <2>6. OwnRows'
    BY <1>0, <2>1, <2>3 DEF OwnRows, WritesCodes, RowsOf, Inserting, CodeSteps
  <2>7. OneCodeEach'
    BY <1>0, <2>1, <2>3 DEF OneCodeEach, WritesCodes, RowsOf, Inserting, CodeSteps
  <2>8. ApprovedStays'
    BY <1>0, <2>1, <2>3 DEF ApprovedStays, WritesLinks, LinkSteps
  <2> QED BY <2>4, <2>5, <2>6, <2>7, <2>8 DEF LinksInv
<1>10. ASSUME NEW e \in Errands, ApproveSave(e) PROVE LinksInv'
  <2>1. /\ EndErrand(e) /\ errands[e].at = "approve"
        /\ linked' = [linked EXCEPT ![errands[e].pair] = "approved"]
        /\ approved' = approved \cup {errands[e].pair}
        /\ UNCHANGED <<active, issued, crossed>>
    BY <1>10 DEF ApproveSave
  <2>2. /\ errands' \in [Errands -> Errand]
        /\ errands'[e].at = "idle" /\ errands'[e].rows = {}
        /\ \A d \in Errands : d # e => errands'[d] = errands[d]
    BY <1>0, <2>1, ErrandEnds
  <2>3. errands[e].pair \in Links
    BY <1>0, <2>1 DEF HasPair, WritesLinks, LinkSteps
  <2>5. LinksTypeOK'
    BY <1>0, <2>1, <2>2, <2>3 DEF LinksTypeOK, LinkStatus
  <2>6. HasPair'
    BY <1>0, <2>2 DEF HasPair, WritesLinks, LinkSteps
  <2>7. OwnRows'
    BY <1>0, <2>1, <2>2 DEF OwnRows, WritesCodes, RowsOf, Inserting, CodeSteps
  <2>8. OneCodeEach'
    BY <1>0, <2>1, <2>2 DEF OneCodeEach, WritesCodes, RowsOf, Inserting, CodeSteps
  <2>9. ApprovedStays'
    <3> SUFFICES ASSUME "links" \notin crossed PROVE ApprovedStays'
      BY <2>1 DEF ApprovedStays
    <3>1. \A d \in Errands : ~WritesLinks(d)'
      BY <1>0, <2>1, <2>2 DEF ApprovedStays, WritesLinks, LinkSteps
    <3>2. \A l \in approved : l \in Links /\ linked[l] = "approved"
      BY <1>0 DEF ApprovedStays, LinksTypeOK
    <3>3. \A l \in approved' : linked'[l] = "approved"
      BY <1>0, <2>1, <2>3, <3>2 DEF LinksTypeOK
    <3> QED BY <3>1, <3>3 DEF ApprovedStays, WritesLinks, LinkSteps
  <2> QED BY <2>5, <2>6, <2>7, <2>8, <2>9 DEF LinksInv
<1>11. ASSUME NEW e \in Errands, ErrandFails(e) PROVE LinksInv'
  <2>1. EndErrand(e) /\ UNCHANGED <<active, linked, issued, approved, crossed>>
    BY <1>11 DEF ErrandFails
  <2>2. /\ errands' \in [Errands -> Errand]
        /\ errands'[e].at = "idle" /\ errands'[e].rows = {}
        /\ \A d \in Errands : d # e => errands'[d] = errands[d]
    BY <1>0, <2>1, ErrandEnds
  <2>5. LinksTypeOK'
    BY <1>0, <2>1, <2>2 DEF LinksTypeOK
  <2>6. HasPair'
    BY <1>0, <2>2 DEF HasPair, WritesLinks, LinkSteps
  <2>7. OwnRows'
    BY <1>0, <2>1, <2>2 DEF OwnRows, WritesCodes, RowsOf, Inserting, CodeSteps
  <2>8. OneCodeEach'
    BY <1>0, <2>1, <2>2 DEF OneCodeEach, WritesCodes, RowsOf, Inserting, CodeSteps
  <2>9. ApprovedStays'
    BY <1>0, <2>1, <2>2 DEF ApprovedStays, WritesLinks, LinkSteps
  <2> QED BY <2>5, <2>6, <2>7, <2>8, <2>9 DEF LinksInv
<1>12. ASSUME UNCHANGED linkVars PROVE LinksInv'
  BY <1>0, <1>12 DEF linkVars, LinksInv, LinksTypeOK, HasPair, OwnRows, OneCodeEach, ApprovedStays,
     WritesCodes, WritesLinks, RowsOf
<1> QED
  BY <1>1, <1>2, <1>3, <1>4, <1>5, <1>6, <1>7, <1>8, <1>9, <1>10, <1>11, <1>12
     DEF LinksNext, SubmitCode

\* An instructor who was given a code keeps one; codes stay distinct and
\* approvals stand while the requests that write them do not overlap: for any
\* number of instructors, learners, codes and requests.
THEOREM CodesAndLinksAreKept == LinksSpec => []LinksAreKept
BY LinksInvFirst, LinksInvKept, LinksInvIsEnough, PTL DEF LinksSpec

-----------------------------------------------------------------------------
(* LessonReviews.                                                            *)

\* The rows are typed, and a request that writes one names it.
RowsTyped ==
  /\ DOMAIN reviews = Reviews /\ reviews \in [Reviews -> Review]
  /\ handlers \in [Handlers -> Handler]
  /\ down \subseteq Reviews /\ removed \subseteq Reviews
NamesReview == \A h \in Handlers :
  /\ handlers[h].at # "off" => handlers[h].review \in Reviews
  /\ handlers[h].at = "undelete" => handlers[h].next = "visible"

\* Whatever was taken down has the status of that until it is restored.
DownIsDown == \A r \in down : reviews[r].status \in Moderations

\* While requests neither overlap nor fail, whoever is about to save has read a
\* review that was not removed, and a removal is half done when it is to delete.
RemovedIsRemoved ==
  clashes = {} =>
    /\ \A g, h \in Handlers : g \in Moderating /\ h \in Moderating => g = h
    /\ \A h \in Handlers : handlers[h].at = "save" => handlers[h].review \notin removed
    /\ \A h \in Handlers : handlers[h].at = "delete" => reviews[handlers[h].review].status = "removed"
    /\ \A r \in removed : reviews[r].status = "removed" /\ reviews[r].deleted

\* The inductive invariant.
ReviewsInv == RowsTyped /\ NamesReview /\ DownIsDown /\ RemovedIsRemoved

-----------------------------------------------------------------------------
LEMMA ReviewsInvFirst == ReviewsInit => ReviewsInv
BY DEF ReviewsInit, ReviewsInv, RowsTyped, NamesReview, DownIsDown, RemovedIsRemoved, NoReview,
   Review, NoHandler, Handler, Moderating, Moderations

LEMMA ReviewsInvIsEnough == ReviewsInv => ModerationStands
BY DEF ReviewsInv, RowsTyped, DownIsDown, RemovedIsRemoved, ModerationStands, Shown, Moderations

\* What becomes of the requests when one of them takes a step.
LEMMA HandlerGoes ==
  ASSUME RowsTyped, NEW h \in Handlers, NEW at, NEW r \in Reviews \cup {"none"}, NEW read \in Review,
         NEW next \in {"visible"} \cup Moderations,
         at \in {"off", "find", "insert", "undelete", "save", "delete"},
         HandlerTo(h, at, r, read, next)
  PROVE  /\ handlers' \in [Handlers -> Handler]
         /\ handlers'[h].at = at /\ handlers'[h].review = r /\ handlers'[h].next = next
         /\ handlers'[h].read = read
         /\ \A g \in Handlers : g # h => handlers'[g] = handlers[g]
BY DEF RowsTyped, HandlerTo, Handler

LEMMA HandlerMoves ==
  ASSUME RowsTyped, NEW h \in Handlers, NEW at,
         at \in {"off", "find", "insert", "undelete", "save", "delete"}, HandlerAt(h, at)
  PROVE  /\ handlers' \in [Handlers -> Handler]
         /\ handlers'[h].at = at /\ handlers'[h].review = handlers[h].review
         /\ handlers'[h].next = handlers[h].next
         /\ \A g \in Handlers : g # h => handlers'[g] = handlers[g]
BY DEF RowsTyped, HandlerAt, Handler

LEMMA HandlerStops ==
  ASSUME RowsTyped, NEW h \in Handlers, HandlerEnds(h)
  PROVE  /\ handlers' \in [Handlers -> Handler] /\ handlers'[h].at = "off"
         /\ \A g \in Handlers : g # h => handlers'[g] = handlers[g]
BY DEF RowsTyped, HandlerEnds, NoHandler, Handler, NoReview, Review

\* A request that meets no other is the only one.
LEMMA MeetsNobody ==
  ASSUME Meets, clashes' = {}
  PROVE  clashes = {} /\ Moderating = {}
BY DEF Meets

\* Starting to write a review keeps the invariant.
LEMMA StartKeeps ==
  ASSUME ReviewsInv, NEW h \in Handlers, NEW at, NEW r \in Reviews, NEW read \in Review,
         NEW next \in {"visible"} \cup Moderations, at \in {"find", "undelete", "save"},
         HandlerTo(h, at, r, read, next), Meets, UNCHANGED <<reviews, down, removed>>,
         at = "undelete" => next = "visible",
         at = "save" /\ clashes = {} => r \notin removed
  PROVE  ReviewsInv'
<1>1. /\ handlers' \in [Handlers -> Handler]
      /\ handlers'[h].at = at /\ handlers'[h].review = r /\ handlers'[h].next = next
      /\ \A g \in Handlers : g # h => handlers'[g] = handlers[g]
  BY HandlerGoes DEF ReviewsInv
<1>2. RowsTyped'
  BY <1>1 DEF ReviewsInv, RowsTyped
<1>3. NamesReview'
  BY <1>1 DEF ReviewsInv, NamesReview
<1>4. DownIsDown'
  BY DEF ReviewsInv, DownIsDown
<1>5. RemovedIsRemoved'
  <2> SUFFICES ASSUME clashes' = {} PROVE RemovedIsRemoved'
    BY DEF RemovedIsRemoved
  <2>1. clashes = {} /\ Moderating = {}
    BY MeetsNobody
  <2>2. \A g \in Handlers : g # h => handlers'[g].at = "off"
    BY <1>1, <2>1 DEF Moderating
  <2> QED BY <1>1, <2>1, <2>2 DEF ReviewsInv, RemovedIsRemoved, Moderating
<1> QED BY <1>2, <1>3, <1>4, <1>5 DEF ReviewsInv

LEMMA ReviewsInvKept == ReviewsInv /\ [ReviewsNext]_reviewVars => ReviewsInv'
<1> SUFFICES ASSUME ReviewsInv, [ReviewsNext]_reviewVars PROVE ReviewsInv'
  OBVIOUS
<1>0. RowsTyped /\ NamesReview /\ DownIsDown /\ RemovedIsRemoved
  BY DEF ReviewsInv
<1>a. \A r \in Reviews : reviews[r] \in Review /\ r \in DOMAIN reviews
  BY <1>0 DEF RowsTyped
<1>1. ASSUME NEW h \in Handlers, NEW r \in Reviews, ReviewCount(h, r) PROVE ReviewsInv'
  <2>1. NoReview \in Review
    BY DEF NoReview, Review
  <2> QED BY <1>1, <2>1, StartKeeps DEF ReviewCount
<1>2. ASSUME NEW h \in Handlers, NEW r \in Reviews, ReportRead(h, r) PROVE ReviewsInv'
  <2> DEFINE next == IF reviews[r].status = "visible" THEN "flagged" ELSE reviews[r].status
  <2>1. next \in {"visible"} \cup Moderations
    BY <1>2, <1>a DEF ReportRead, Reads, Review, Moderations
  <2>2. clashes = {} => r \notin removed
    BY <1>0, <1>2 DEF ReportRead, RemovedIsRemoved
  <2>3. HandlerTo(h, "save", r, reviews[r], next) /\ Meets /\ UNCHANGED <<reviews, down, removed>>
    BY <1>2 DEF ReportRead, Reads
  <2> HIDE DEF next
  <2> QED BY <1>a, <2>1, <2>2, <2>3, StartKeeps
<1>3. ASSUME NEW h \in Handlers, NEW r \in Reviews, RestoreRead(h, r) PROVE ReviewsInv'
  <2> DEFINE read == [reviews[r] EXCEPT !.deleted = FALSE]
             at == IF reviews[r].deleted THEN "undelete" ELSE "save"
  <2>1. read \in Review
    BY <1>a DEF Review
  <2>2. at \in {"undelete", "save"} /\ (at = "save" /\ clashes = {} => r \notin removed)
    BY <1>0 DEF RemovedIsRemoved
  <2>3. HandlerTo(h, at, r, read, "visible") /\ Meets /\ UNCHANGED <<reviews, down, removed>>
    BY <1>3 DEF RestoreRead, Reads
  <2> HIDE DEF read, at
  <2> QED BY <2>1, <2>2, <2>3, StartKeeps
<1>4. ASSUME NEW h \in Handlers, NEW r \in Reviews, NEW next \in Moderations, ModerateRead(h, r, next)
      PROVE  ReviewsInv'
  <2>1. clashes = {} => r \notin removed
    BY <1>0, <1>4 DEF ModerateRead, RemovedIsRemoved
  <2>2. HandlerTo(h, "save", r, reviews[r], next) /\ Meets /\ UNCHANGED <<reviews, down, removed>>
    BY <1>4 DEF ModerateRead, Reads
  <2> QED BY <1>a, <2>1, <2>2, StartKeeps
<1>5. ASSUME NEW h \in Handlers, ReviewFind(h) PROVE ReviewsInv'
  <2>1. /\ handlers[h].at = "find" /\ UNCHANGED <<reviews, down, removed, clashes>>
        /\ HandlerEnds(h) \/ HandlerAt(h, "insert")
    BY <1>5 DEF ReviewFind
  <2>2. /\ handlers' \in [Handlers -> Handler] /\ handlers'[h].at \in {"off", "insert"}
        /\ handlers'[h].at = "insert" => handlers'[h].review = handlers[h].review
        /\ \A g \in Handlers : g # h => handlers'[g] = handlers[g]
    BY <1>0, <2>1, HandlerStops, HandlerMoves
  <2>3. RowsTyped' /\ NamesReview' /\ DownIsDown'
    BY <1>0, <2>1, <2>2 DEF RowsTyped, NamesReview, DownIsDown
  <2>4. RemovedIsRemoved'
    BY <1>0, <2>1, <2>2 DEF RemovedIsRemoved, Moderating
  <2> QED BY <2>3, <2>4 DEF ReviewsInv
<1>6. ASSUME NEW h \in Handlers, ReviewInsert(h) PROVE ReviewsInv'
  <2> DEFINE r == handlers[h].review
  <2>1. /\ handlers[h].at = "insert" /\ UNCHANGED <<down, removed, clashes>> /\ HandlerEnds(h)
        /\ r \in Reviews
    BY <1>0, <1>6 DEF ReviewInsert, NamesReview
  <2>2. /\ handlers' \in [Handlers -> Handler] /\ handlers'[h].at = "off"
        /\ \A g \in Handlers : g # h => handlers'[g] = handlers[g]
    BY <1>0, <2>1, HandlerStops
  <2>3. /\ reviews' \in [Reviews -> Review]
        /\ \A q \in Reviews : q # r \/ reviews[q].status # "none" => reviews'[q] = reviews[q]
    BY <1>0, <1>6, <2>1 DEF ReviewInsert, RowsTyped, Review
  <2>4. RowsTyped' /\ NamesReview'
    BY <1>0, <2>1, <2>2, <2>3 DEF RowsTyped, NamesReview
  <2>5. DownIsDown'
    BY <1>0, <2>1, <2>3 DEF DownIsDown, RowsTyped, Moderations
  <2>6. RemovedIsRemoved'
    <3> SUFFICES ASSUME clashes = {} PROVE RemovedIsRemoved'
      BY <2>1 DEF RemovedIsRemoved
    <3>1. \A g \in Handlers : handlers'[g].at = "off"
      BY <1>0, <2>1, <2>2 DEF RemovedIsRemoved, Moderating
    <3>2. \A q \in removed' : reviews'[q].status = "removed" /\ reviews'[q].deleted
      BY <1>0, <2>1, <2>3 DEF RemovedIsRemoved, RowsTyped
    <3> QED BY <3>1, <3>2 DEF RemovedIsRemoved, Moderating
  <2> QED BY <2>4, <2>5, <2>6 DEF ReviewsInv
<1>7. ASSUME DayPasses PROVE ReviewsInv'
  <2>1. /\ reviews' \in [Reviews -> Review] /\ UNCHANGED <<handlers, down, removed, clashes>>
        /\ \A q \in Reviews : reviews'[q].status = reviews[q].status
                              /\ (reviews[q].deleted => reviews'[q].deleted)
    BY <1>a, <1>7 DEF DayPasses, Review
  <2>2. RowsTyped' /\ NamesReview' /\ DownIsDown'
    BY <1>0, <2>1 DEF RowsTyped, NamesReview, DownIsDown
  <2>3. RemovedIsRemoved'
    <3> SUFFICES ASSUME clashes = {} PROVE RemovedIsRemoved'
      BY <2>1 DEF RemovedIsRemoved
    <3>1. \A q \in removed' : reviews'[q].status = "removed" /\ reviews'[q].deleted
      BY <1>0, <2>1 DEF RemovedIsRemoved, RowsTyped
    <3>2. \A g \in Handlers : handlers'[g].at = "delete" => reviews'[handlers'[g].review].status = "removed"
      BY <1>0, <2>1 DEF RemovedIsRemoved, NamesReview
    <3> QED BY <1>0, <2>1, <3>1, <3>2 DEF RemovedIsRemoved, Moderating
  <2> QED BY <2>2, <2>3 DEF ReviewsInv
<1>8. ASSUME NEW h \in Handlers, RestoreUndelete(h) PROVE ReviewsInv'
  <2> DEFINE r == handlers[h].review
  <2>1. /\ handlers[h].at = "undelete" /\ HandlerAt(h, "save") /\ removed' = removed \ {r}
        /\ UNCHANGED <<down, clashes>> /\ r \in Reviews
    BY <1>0, <1>8 DEF RestoreUndelete, NamesReview
  <2>2. /\ handlers' \in [Handlers -> Handler] /\ handlers'[h].at = "save" /\ handlers'[h].review = r
        /\ \A g \in Handlers : g # h => handlers'[g] = handlers[g]
    BY <1>0, <2>1, HandlerMoves
  <2>3. /\ reviews' \in [Reviews -> Review]
        /\ \A q \in Reviews : reviews'[q].status = reviews[q].status /\ (q # r => reviews'[q] = reviews[q])
    BY <1>0, <1>8, <2>1 DEF RestoreUndelete, RowsTyped, Review
  <2>4. RowsTyped' /\ NamesReview' /\ DownIsDown'
    BY <1>0, <2>1, <2>2, <2>3 DEF RowsTyped, NamesReview, DownIsDown
  <2>5. RemovedIsRemoved'
    <3> SUFFICES ASSUME clashes = {} PROVE RemovedIsRemoved'
      BY <2>1 DEF RemovedIsRemoved
    <3>1. \A g \in Handlers : g # h => handlers'[g].at = "off"
      BY <1>0, <2>1, <2>2 DEF RemovedIsRemoved, Moderating
    <3>2. \A q \in removed' : reviews'[q].status = "removed" /\ reviews'[q].deleted
      BY <1>0, <2>1, <2>3 DEF RemovedIsRemoved, RowsTyped
    <3> QED BY <2>1, <2>2, <3>1, <3>2 DEF RemovedIsRemoved, Moderating
  <2> QED BY <2>4, <2>5 DEF ReviewsInv
<1>9. ASSUME NEW h \in Handlers, ReviewSave(h) PROVE ReviewsInv'
  <2> DEFINE r == handlers[h].review
             next == handlers[h].next
  <2>1. /\ handlers[h].at = "save" /\ UNCHANGED clashes /\ r \in Reviews
        /\ next \in {"visible"} \cup Moderations
        /\ down' = IF next = "visible" THEN down \ {r} ELSE down \cup {r}
        /\ removed' = IF next = "visible" THEN removed \ {r} ELSE removed
    BY <1>0, <1>9 DEF ReviewSave, NamesReview, RowsTyped, Handler
  <2>2. /\ handlers' \in [Handlers -> Handler]
        /\ handlers'[h].at = IF next = "removed" THEN "delete" ELSE "off"
        /\ next = "removed" => handlers'[h].review = r
        /\ \A g \in Handlers : g # h => handlers'[g] = handlers[g]
    <3>1. CASE next = "removed"
      BY <1>0, <1>9, <3>1, HandlerMoves DEF ReviewSave
    <3>2. CASE next # "removed"
      BY <1>0, <1>9, <3>2, HandlerStops DEF ReviewSave
    <3> QED BY <3>1, <3>2
  <2>3. /\ reviews' \in [Reviews -> Review] /\ reviews'[r].status = next
        /\ \A q \in Reviews : q # r => reviews'[q] = reviews[q]
    <3>1. handlers[h].read.deleted \in BOOLEAN /\ next \in {"visible", "flagged", "hidden", "removed"}
      BY <1>0, <2>1 DEF RowsTyped, Handler, Review, Moderations
    <3>2. reviews' = [reviews EXCEPT ![r].status = next, ![r].deleted = handlers[h].read.deleted]
      BY <1>9 DEF ReviewSave
    <3> QED BY <1>0, <2>1, <3>1, <3>2 DEF RowsTyped, Review
  <2>4. RowsTyped' /\ NamesReview'
    BY <1>0, <2>1, <2>2, <2>3 DEF RowsTyped, NamesReview
  <2>5. DownIsDown'
    BY <1>0, <2>1, <2>3 DEF RowsTyped, DownIsDown
  <2>6. RemovedIsRemoved'
    <3> SUFFICES ASSUME clashes = {} PROVE RemovedIsRemoved'
      BY <2>1 DEF RemovedIsRemoved
    <3>1. \A g \in Handlers : g # h => handlers'[g].at = "off"
      BY <1>0, <2>1, <2>2 DEF RemovedIsRemoved, Moderating
    <3>2. r \notin removed
      BY <1>0, <2>1 DEF RemovedIsRemoved
    <3>3. \A q \in removed' : reviews'[q].status = "removed" /\ reviews'[q].deleted
      BY <1>0, <2>1, <2>3, <3>2 DEF RemovedIsRemoved, RowsTyped
    <3> QED BY <2>1, <2>2, <2>3, <3>1, <3>3 DEF RemovedIsRemoved, Moderating
  <2> QED BY <2>4, <2>5, <2>6 DEF ReviewsInv
<1>10. ASSUME NEW h \in Handlers, RemoveDelete(h) PROVE ReviewsInv'
  <2> DEFINE r == handlers[h].review
  <2>1. /\ handlers[h].at = "delete" /\ UNCHANGED <<down, clashes>> /\ r \in Reviews
        /\ removed' = removed \cup {r} /\ HandlerEnds(h)
    BY <1>0, <1>10 DEF RemoveDelete, NamesReview
  <2>2. /\ handlers' \in [Handlers -> Handler] /\ handlers'[h].at = "off"
        /\ \A g \in Handlers : g # h => handlers'[g] = handlers[g]
    BY <1>0, <2>1, HandlerStops
  <2>3. /\ reviews' \in [Reviews -> Review] /\ reviews'[r].deleted
        /\ \A q \in Reviews : reviews'[q].status = reviews[q].status /\ (q # r => reviews'[q] = reviews[q])
    BY <1>0, <1>10, <2>1 DEF RemoveDelete, RowsTyped, Review
  <2>4. RowsTyped' /\ NamesReview' /\ DownIsDown'
    BY <1>0, <2>1, <2>2, <2>3 DEF RowsTyped, NamesReview, DownIsDown
  <2>5. RemovedIsRemoved'
    <3> SUFFICES ASSUME clashes = {} PROVE RemovedIsRemoved'
      BY <2>1 DEF RemovedIsRemoved
    <3>1. \A g \in Handlers : handlers'[g].at = "off"
      BY <1>0, <2>1, <2>2 DEF RemovedIsRemoved, Moderating
    <3>2. \A q \in removed' : reviews'[q].status = "removed" /\ reviews'[q].deleted
      BY <1>0, <2>1, <2>3 DEF RemovedIsRemoved, RowsTyped
    <3> QED BY <3>1, <3>2 DEF RemovedIsRemoved, Moderating
  <2> QED BY <2>4, <2>5 DEF ReviewsInv
<1>11. ASSUME NEW h \in Handlers, HandlerFails(h) PROVE ReviewsInv'
  <2>1. /\ HandlerEnds(h) /\ clashes' # {} /\ UNCHANGED <<reviews, down, removed>>
    BY <1>11 DEF HandlerFails
  <2>2. /\ handlers' \in [Handlers -> Handler] /\ handlers'[h].at = "off"
        /\ \A g \in Handlers : g # h => handlers'[g] = handlers[g]
    BY <1>0, <2>1, HandlerStops
  <2> QED BY <1>0, <2>1, <2>2 DEF ReviewsInv, RowsTyped, NamesReview, DownIsDown, RemovedIsRemoved
<1>12. ASSUME UNCHANGED reviewVars PROVE ReviewsInv'
  BY <1>0, <1>12 DEF reviewVars, ReviewsInv, RowsTyped, NamesReview, DownIsDown, RemovedIsRemoved,
     Moderating
<1> QED
  BY <1>1, <1>2, <1>3, <1>4, <1>5, <1>6, <1>7, <1>8, <1>9, <1>10, <1>11, <1>12 DEF ReviewsNext

\* What was taken down is shown again only after a restore, and what was removed
\* stays removed while requests neither overlap nor fail: for any number of
\* reviews and requests.
THEOREM ModerationHolds == ReviewsSpec => []ModerationStands
BY ReviewsInvFirst, ReviewsInvKept, ReviewsInvIsEnough, PTL DEF ReviewsSpec
=============================================================================
