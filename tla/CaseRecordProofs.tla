-------------------------- MODULE CaseRecordProofs --------------------------
(***************************************************************************)
(* Proofs about CaseRecord, for any requests, offices, claims and cases:     *)
(* sections, declarations and offices hold across every interleaving, and a  *)
(* draft neither vanishes nor becomes two cases while requests do not overlap *)
(* and answers are not lost.                                                *)
(***************************************************************************)
EXTENDS CaseRecord, FiniteSetTheorems, TLAPS

---------------------------------------------------------------------------
(* What the steps of a request change *)

LEMMA SessionParts ==
    ASSUME NEW copy \in Sessions
    PROVE  /\ copy.claims \in SUBSET Offices
           /\ copy.office \in Offices \cup {Missing}
           /\ copy.draft \in Numbers \cup {Missing}
           /\ copy.declarations \in SUBSET Cases
  BY DEF Sessions

LEMMA EmptyIsSession ==
    ASSUME NEW claims \in SUBSET Offices
    PROVE  EmptySession(claims) \in Sessions
  BY DEF EmptySession, Sessions

LEMMA Leaving ==
    ASSUME TypeOK, NEW r \in Requests, request[r].pc # "idle",
           NEW copy \in Sessions, Leaves(r, copy)
    PROVE  /\ request' \in [Requests -> RequestStates]
           /\ request'[r].pc = "ending"
           /\ request'[r].copy = copy
           /\ request'[r].alone = request[r].alone
           /\ \A q \in Requests : q # r => request'[q] = request[q]
           /\ Running' = Running
<1> DEFINE left == [request[r] EXCEPT !.pc = "ending", !.copy = copy]
<1>1. request \in [Requests -> RequestStates] /\ request[r] \in RequestStates
  BY DEF TypeOK
<1>2. left \in RequestStates /\ left.pc = "ending" /\ left.copy = copy
      /\ left.alone = request[r].alone
  BY <1>1 DEF RequestStates
<1>3. request' = [request EXCEPT ![r] = left]
  BY <1>1 DEF Leaves
<1> HIDE DEF left
<1>4. /\ request'[r] = left
      /\ \A q \in Requests : q # r => request'[q] = request[q]
      /\ request' \in [Requests -> RequestStates]
  BY <1>1, <1>2, <1>3
<1>5. \A q \in Requests : request'[q].pc # "idle" <=> request[q].pc # "idle"
  BY <1>2, <1>4
<1>6. Running' = Running
  BY <1>5 DEF Running
<1> QED
  BY <1>2, <1>4, <1>6

---------------------------------------------------------------------------
(* The drafts *)

DraftsInv == AloneInv /\ RecordedInv /\ NumbersInv /\ NoAnswersLost /\ CreatedOnce

\* Cases come and go with the same drafts.
SameDrafts ==
    \A c \in Cases : /\ Created(c)' <=> Created(c)
                     /\ DraftOf(c)' = DraftOf(c)

\* Requests run with the same drafts.
SameCopies ==
    /\ Running' = Running
    /\ \A r \in Running : /\ request'[r].copy.draft = request[r].copy.draft
                          /\ request'[r].alone = request[r].alone

LEMMA DraftsStay ==
    ASSUME DraftsInv, SameDrafts, SameCopies,
           UNCHANGED <<session, drafts, discarded, lost, overlapped>>
    PROVE  DraftsInv'
<1>1. \A draft : Recorded(draft)' <=> Recorded(draft)
  BY DEF Recorded, SameDrafts
<1>2. AloneInv'
  BY <1>1 DEF DraftsInv, AloneInv, SameCopies
<1>3. RecordedInv'
  BY DEF DraftsInv, RecordedInv, SameCopies, SameDrafts
<1>4. NumbersInv'
  BY DEF DraftsInv, NumbersInv, SameCopies, SameDrafts
<1>5. NoAnswersLost'
  BY <1>1 DEF DraftsInv, NoAnswersLost, SameCopies
<1>6. CreatedOnce'
  BY DEF DraftsInv, CreatedOnce, SameDrafts
<1> QED
  BY <1>2, <1>3, <1>4, <1>5, <1>6 DEF DraftsInv

---------------------------------------------------------------------------
(* The whole invariant *)

FullInv == TypeOK /\ SectionsInv /\ DeclarationsInv /\ OfficesInv /\ DraftsInv

\* A created case has every field of one.
LEMMA CaseParts ==
    ASSUME TypeOK, NEW c \in Cases, Created(c)
    PROVE  /\ record[c] \in OpenCases
           /\ record[c].state \in {"open", "submitted", "closed"}
           /\ DraftOf(c) \in Numbers
           /\ record[c].office \in Offices
           /\ record[c].means \in Results \cup {Missing}
           /\ record[c].evidence \in {"none", "recorded"}
           /\ record[c].declaration \in {"none", "signed"}
<1>1. record[c] \in OpenCases \cup {NoCase}
  BY DEF TypeOK
<1>2. record[c] # NoCase
  BY DEF Created, NoCase
<1>3. record[c] \in OpenCases
  BY <1>1, <1>2
<1> QED
  BY <1>3 DEF OpenCases, DraftOf

\* A case is updated: it keeps its draft, stays complete if it was, and is
\* submitted only when it is.
LEMMA CaseUpdated ==
    ASSUME TypeOK, SectionsInv, NEW c \in Cases, Created(c), NEW case \in OpenCases,
           record' = [record EXCEPT ![c] = case],
           case.draft = record[c].draft,
           Complete(record[c]) => Complete(case),
           case.state = "submitted" => Complete(case),
           \/ page' = page
           \/ page' = NoPage
    PROVE  /\ record' \in [Cases -> OpenCases \cup {NoCase}]
           /\ page' \in Pages
           /\ SectionsInv'
           /\ SameDrafts
           /\ record'[c] = case
           /\ \A d \in Cases : d # c => record'[d] = record[d]
<1>1. /\ record' \in [Cases -> OpenCases \cup {NoCase}]
      /\ record'[c] = case
      /\ \A d \in Cases : d # c => record'[d] = record[d]
  BY DEF TypeOK
<1>2. page' \in Pages
  BY DEF NoPage, Pages, TypeOK
<1>3. page'.ready = "yes" \/ page'.closable = "yes" => page' = page
  BY DEF NoPage
<1>4. \A d \in Cases : Complete(record[d]) => Complete(record'[d])
  BY <1>1
<1>5. case.state # "none"
  BY DEF OpenCases
<1>6. SameDrafts
  BY <1>1, <1>5 DEF SameDrafts, Created, DraftOf
<1>7. SectionsInv'
  BY <1>1, <1>3, <1>4, <1>6 DEF SectionsInv, SameDrafts
<1> QED
  BY <1>1, <1>2, <1>6, <1>7

\* A request leaves a copy with the draft it had and declarations that are signed.
LEMMA CopyLeft ==
    ASSUME FullInv, NEW r \in Requests, request[r].pc # "idle", NEW copy \in Sessions,
           Leaves(r, copy), copy.draft = request[r].copy.draft,
           copy.declarations \subseteq signed', signed \subseteq signed', session' = session
    PROVE  /\ request' \in [Requests -> RequestStates]
           /\ OfficesInv'
           /\ session'.declarations \subseteq signed'
           /\ \A q \in Running' : request'[q].copy.declarations \subseteq signed'
           /\ SameCopies
<1>1. /\ request' \in [Requests -> RequestStates]
      /\ request'[r].pc = "ending"
      /\ request'[r].copy = copy
      /\ request'[r].alone = request[r].alone
      /\ \A q \in Requests : q # r => request'[q] = request[q]
      /\ Running' = Running
  BY Leaving DEF FullInv
<1>2. OfficesInv'
  BY <1>1 DEF FullInv, OfficesInv
<1>3. Running \subseteq Requests
  BY DEF Running
<1>4. \A q \in Running' : request'[q].copy.declarations \subseteq signed'
  BY <1>1, <1>3 DEF FullInv, DeclarationsInv
<1>5. SameCopies
  BY <1>1, <1>3 DEF SameCopies
<1> QED
  BY <1>1, <1>2, <1>4, <1>5 DEF FullInv, DeclarationsInv

LEMMA SameRecordSameDrafts ==
    ASSUME record' = record
    PROVE  SameDrafts
  BY DEF SameDrafts, Created, DraftOf

\* A request that leaves such a copy and changes nothing else.
LEMMA CopyStep ==
    ASSUME FullInv, NEW r \in Requests, request[r].pc # "idle", NEW copy \in Sessions,
           Leaves(r, copy), copy.draft = request[r].copy.draft,
           copy.declarations \subseteq signed', signed \subseteq signed',
           signed' \subseteq Cases,
           UNCHANGED <<session, record, page, begun, drafts, discarded, lost, overlapped>>
    PROVE  FullInv'
<1>1. /\ request' \in [Requests -> RequestStates]
      /\ OfficesInv'
      /\ session'.declarations \subseteq signed'
      /\ \A q \in Running' : request'[q].copy.declarations \subseteq signed'
      /\ SameCopies
  BY CopyLeft
<1>2. TypeOK'
  BY <1>1 DEF FullInv, TypeOK
<1>3. SectionsInv'
  BY DEF FullInv, SectionsInv, Created
<1>4. DeclarationsInv'
  BY <1>1 DEF FullInv, DeclarationsInv, Created
<1>5. DraftsInv'
  BY <1>1, SameRecordSameDrafts, DraftsStay DEF FullInv
<1> QED
  BY <1>1, <1>2, <1>3, <1>4, <1>5 DEF FullInv

\* A case is updated and nothing else, but for the page.
LEMMA CaseStep ==
    ASSUME FullInv, NEW c \in Cases, Created(c), NEW case \in OpenCases,
           record' = [record EXCEPT ![c] = case],
           case.draft = record[c].draft,
           case.declaration = record[c].declaration,
           Complete(record[c]) => Complete(case),
           case.state = "submitted" => Complete(case),
           \/ page' = page
           \/ page' = NoPage,
           UNCHANGED <<session, request, begun, drafts, discarded, lost, overlapped, signed>>
    PROVE  FullInv'
<1>1. /\ record' \in [Cases -> OpenCases \cup {NoCase}]
      /\ page' \in Pages
      /\ SectionsInv'
      /\ SameDrafts
      /\ record'[c] = case
      /\ \A d \in Cases : d # c => record'[d] = record[d]
  BY CaseUpdated DEF FullInv
<1>2. TypeOK'
  BY <1>1 DEF FullInv, TypeOK
<1>3. DeclarationsInv'
  BY <1>1 DEF FullInv, DeclarationsInv, Created, Running
<1>4. OfficesInv'
  BY DEF FullInv, OfficesInv
<1>5. SameCopies
  BY DEF SameCopies, Running
<1>6. DraftsInv'
  BY <1>1, <1>5, DraftsStay DEF FullInv
<1> QED
  BY <1>1, <1>2, <1>3, <1>4, <1>6 DEF FullInv

---------------------------------------------------------------------------
(* Steps that keep every draft *)

LEMMA CopyOf ==
    ASSUME FullInv, NEW r \in Requests
    PROVE  /\ request[r] \in RequestStates
           /\ request[r].copy \in Sessions
           /\ request[r].copy.declarations \subseteq Cases
           /\ request[r].pc # "idle" => request[r].copy.declarations \subseteq signed
           /\ request[r].pc # "idle" => r \in Running
<1>1. request[r] \in RequestStates
  BY DEF FullInv, TypeOK
<1>2. request[r].copy \in Sessions
  BY <1>1 DEF RequestStates
<1> QED
  BY <1>1, <1>2, SessionParts DEF FullInv, DeclarationsInv, Running

LEMMA CopyWithOffice ==
    ASSUME NEW copy \in Sessions, NEW office \in copy.claims
    PROVE  /\ [copy EXCEPT !.office = office] \in Sessions
           /\ [copy EXCEPT !.office = office].draft = copy.draft
           /\ [copy EXCEPT !.office = office].declarations = copy.declarations
<1>1. office \in Offices \cup {Missing}
  BY SessionParts
<1> QED
  BY <1>1 DEF Sessions

LEMMA ShowOfficesStep ==
    ASSUME FullInv, NEW r \in Requests, ShowOffices(r)
    PROVE  FullInv'
<1> DEFINE copy == request[r].copy
           single == CHOOSE office \in copy.claims : TRUE
<1>1. copy \in Sessions /\ copy.declarations \subseteq signed /\ request[r].pc # "idle"
  BY CopyOf DEF ShowOffices
<1>2. signed \subseteq Cases
  BY DEF FullInv, TypeOK
<1>3. CASE Cardinality(copy.claims) = 1
  <2>1. copy.claims # {}
    BY <1>3, FS_EmptySet
  <2>2. single \in copy.claims
    BY <2>1
  <2>3. Leaves(r, [copy EXCEPT !.office = single])
    BY <1>3 DEF ShowOffices
  <2> HIDE DEF single
  <2>4. /\ [copy EXCEPT !.office = single] \in Sessions
        /\ [copy EXCEPT !.office = single].draft = copy.draft
        /\ [copy EXCEPT !.office = single].declarations = copy.declarations
    BY <1>1, <2>2, CopyWithOffice
  <2> DEFINE chosen == [copy EXCEPT !.office = single]
  <2>5. chosen \in Sessions /\ chosen.draft = request[r].copy.draft
        /\ chosen.declarations \subseteq signed /\ Leaves(r, chosen)
    BY <1>1, <2>3, <2>4
  <2> HIDE DEF chosen
  <2> QED
    BY <1>1, <1>2, <2>5, CopyStep DEF ShowOffices
<1>4. CASE Cardinality(copy.claims) # 1
  <2>1. Leaves(r, copy)
    BY <1>4 DEF ShowOffices
  <2> QED
    BY <1>1, <1>2, <2>1, CopyStep DEF ShowOffices
<1> QED
  BY <1>3, <1>4

LEMMA SetSelectedOfficeStep ==
    ASSUME FullInv, NEW r \in Requests, SetSelectedOffice(r)
    PROVE  FullInv'
<1>1. PICK office \in request[r].copy.claims :
          Leaves(r, [request[r].copy EXCEPT !.office = office])
  BY DEF SetSelectedOffice
<1>2. request[r].copy \in Sessions /\ request[r].copy.declarations \subseteq signed
      /\ request[r].pc # "idle" /\ signed \subseteq Cases
  BY CopyOf DEF SetSelectedOffice, FullInv, TypeOK
<1> DEFINE chosen == [request[r].copy EXCEPT !.office = office]
<1>3. chosen \in Sessions /\ chosen.draft = request[r].copy.draft
      /\ chosen.declarations \subseteq signed /\ Leaves(r, chosen)
  BY <1>1, <1>2, CopyWithOffice
<1> HIDE DEF chosen
<1> QED
  BY <1>2, <1>3, CopyStep DEF SetSelectedOffice

LEMMA LookStep ==
    ASSUME FullInv, NEW r \in Requests, Look(r) \/ Export(r)
    PROVE  FullInv'
<1>1. /\ Leaves(r, request[r].copy)
      /\ request[r].pc # "idle"
      /\ UNCHANGED <<session, record, page, begun, drafts, discarded, lost,
                     overlapped, signed>>
  BY DEF Look, Export
<1>2. request[r].copy \in Sessions /\ request[r].copy.declarations \subseteq signed
      /\ signed \subseteq Cases
  BY <1>1, CopyOf DEF FullInv, TypeOK
<1> QED
  BY <1>1, <1>2, CopyStep

LEMMA SignStep ==
    ASSUME FullInv, NEW r \in Requests, Sign(r)
    PROVE  FullInv'
<1>1. PICK c \in Cases :
          /\ Leaves(r, [request[r].copy EXCEPT !.declarations = @ \cup {DraftKey(c)}])
          /\ signed' = signed \cup {c}
  BY DEF Sign
<1>2. request[r].copy \in Sessions /\ request[r].copy.declarations \subseteq signed
      /\ request[r].pc # "idle" /\ signed \subseteq Cases
      /\ request[r].copy.declarations \subseteq Cases
  BY CopyOf DEF Sign, FullInv, TypeOK
<1> DEFINE copy == [request[r].copy EXCEPT !.declarations = @ \cup {DraftKey(c)}]
<1>3. request[r].copy.declarations \cup {c} \in SUBSET Cases
  BY <1>2
<1>4. copy \in Sessions /\ copy.draft = request[r].copy.draft
      /\ copy.declarations = request[r].copy.declarations \cup {c}
  BY <1>2, <1>3 DEF Sessions, DraftKey
<1>5. Leaves(r, copy)
  BY <1>1
<1> HIDE DEF copy
<1>6. copy.declarations \subseteq signed' /\ signed \subseteq signed' /\ signed' \subseteq Cases
  BY <1>1, <1>2, <1>4
<1> QED
  BY <1>2, <1>4, <1>5, <1>6, CopyStep DEF Sign

LEMMA SubmitSignedDeclarationStep ==
    ASSUME FullInv, NEW r \in Requests, SubmitSignedDeclaration(r)
    PROVE  FullInv'
<1>1. PICK c \in Cases :
          /\ IsOpen(c)
          /\ DraftKey(c) \in request[r].copy.declarations
          /\ record' = [record EXCEPT ![c].declaration = "signed"]
  BY DEF SubmitSignedDeclaration
<1> DEFINE case == [record[c] EXCEPT !.declaration = "signed"]
<1>2. Created(c) /\ record[c] \in OpenCases
  BY <1>1, CaseParts DEF FullInv, IsOpen, Created
<1>3. /\ case \in OpenCases
      /\ case.draft = record[c].draft
      /\ Complete(record[c]) => Complete(case)
      /\ case.state # "submitted"
  BY <1>1, <1>2 DEF OpenCases, Complete, IsOpen
<1>4. record' = [record EXCEPT ![c] = case]
  BY <1>1
<1>5. request[r].copy \in Sessions /\ request[r].copy.declarations \subseteq signed
      /\ request[r].pc # "idle" /\ Leaves(r, request[r].copy)
  BY CopyOf DEF SubmitSignedDeclaration
<1>6. c \in signed
  BY <1>1, <1>5 DEF DraftKey
<1> HIDE DEF case
<1>7. UNCHANGED <<session, page, begun, drafts, discarded, lost, overlapped, signed>>
  BY DEF SubmitSignedDeclaration
<1>8. /\ record' \in [Cases -> OpenCases \cup {NoCase}]
      /\ SectionsInv'
      /\ SameDrafts
      /\ \A d \in Cases : d # c => record'[d] = record[d]
  BY <1>2, <1>3, <1>4, <1>7, CaseUpdated DEF FullInv
<1>9. /\ request' \in [Requests -> RequestStates]
      /\ OfficesInv'
      /\ session'.declarations \subseteq signed'
      /\ \A q \in Running' : request'[q].copy.declarations \subseteq signed'
      /\ SameCopies
  BY <1>5, <1>7, CopyLeft
<1>10. TypeOK'
  BY <1>7, <1>8, <1>9 DEF FullInv, TypeOK
<1>11. DeclarationsInv'
  BY <1>6, <1>7, <1>8, <1>9 DEF FullInv, DeclarationsInv, Created
<1>12. DraftsInv'
  BY <1>7, <1>8, <1>9, DraftsStay DEF FullInv
<1> QED
  BY <1>8, <1>9, <1>10, <1>11, <1>12 DEF FullInv

LEMMA UpdateMeansStep ==
    ASSUME FullInv, NEW c \in Cases, UpdateMeans(c)
    PROVE  FullInv'
<1>1. PICK result \in Results : record' = [record EXCEPT ![c].means = result]
  BY DEF UpdateMeans
<1> DEFINE case == [record[c] EXCEPT !.means = result]
<1>2. Created(c) /\ record[c] \in OpenCases /\ record[c].state = "open"
  BY CaseParts DEF FullInv, IsOpen, Created, UpdateMeans
<1>3. result # Missing
  BY CaseAssumption
<1>4. /\ case \in OpenCases
      /\ case.draft = record[c].draft
      /\ case.declaration = record[c].declaration
      /\ Complete(record[c]) => Complete(case)
      /\ case.state # "submitted"
  BY <1>2, <1>3 DEF OpenCases, Complete
<1>5. record' = [record EXCEPT ![c] = case]
  BY <1>1
<1> HIDE DEF case
<1> QED
  BY <1>2, <1>4, <1>5, CaseStep DEF UpdateMeans

LEMMA UpdateEvidenceStep ==
    ASSUME FullInv, NEW c \in Cases, UpdateEvidence(c)
    PROVE  FullInv'
<1> DEFINE case == [record[c] EXCEPT !.evidence = "recorded"]
<1>1. Created(c) /\ record[c] \in OpenCases /\ record[c].state = "open"
  BY CaseParts DEF FullInv, IsOpen, Created, UpdateEvidence
<1>2. /\ case \in OpenCases
      /\ case.draft = record[c].draft
      /\ case.declaration = record[c].declaration
      /\ Complete(record[c]) => Complete(case)
      /\ case.state # "submitted"
  BY <1>1 DEF OpenCases, Complete
<1>3. record' = [record EXCEPT ![c] = case]
  BY DEF UpdateEvidence
<1> HIDE DEF case
<1> QED
  BY <1>1, <1>2, <1>3, CaseStep DEF UpdateEvidence

LEMMA SubmitApplicationStep ==
    ASSUME FullInv, SubmitApplication
    PROVE  FullInv'
<1> DEFINE c == page.case
           case == [record[c] EXCEPT !.state = "submitted"]
<1>1. c \in Cases /\ Complete(record[c])
  BY DEF FullInv, SectionsInv, SubmitApplication
<1>2. Created(c) /\ record[c] \in OpenCases
  BY <1>1, CaseParts DEF FullInv, IsOpen, Created, SubmitApplication
<1>3. /\ case \in OpenCases
      /\ case.draft = record[c].draft
      /\ case.declaration = record[c].declaration
      /\ Complete(case)
  BY <1>1, <1>2 DEF OpenCases, Complete
<1>4. record' = [record EXCEPT ![c] = case]
  BY DEF SubmitApplication
<1>5. UNCHANGED <<session, request, begun, drafts, discarded, lost, overlapped, signed>>
      /\ page' = NoPage
  BY DEF SubmitApplication
<1> HIDE DEF c, case
<1> QED
  BY <1>1, <1>2, <1>3, <1>4, <1>5, CaseStep

LEMMA CloseIneligibleCaseStep ==
    ASSUME FullInv, CloseIneligibleCase
    PROVE  FullInv'
<1> DEFINE c == page.case
           case == [record[c] EXCEPT !.state = "closed"]
<1>1. c \in Cases
  BY DEF FullInv, SectionsInv, CloseIneligibleCase
<1>2. Created(c) /\ record[c] \in OpenCases
  BY <1>1, CaseParts DEF FullInv, IsOpen, Created, CloseIneligibleCase
<1>3. /\ case \in OpenCases
      /\ case.draft = record[c].draft
      /\ case.declaration = record[c].declaration
      /\ Complete(record[c]) => Complete(case)
      /\ case.state # "submitted"
  BY <1>2 DEF OpenCases, Complete
<1>4. record' = [record EXCEPT ![c] = case]
  BY DEF CloseIneligibleCase
<1>5. UNCHANGED <<session, request, begun, drafts, discarded, lost, overlapped, signed>>
      /\ page' = NoPage
  BY DEF CloseIneligibleCase
<1> HIDE DEF c, case
<1> QED
  BY <1>1, <1>2, <1>3, <1>4, <1>5, CaseStep

LEMMA ShowTaskListStep ==
    ASSUME FullInv, NEW c \in Cases, ShowTaskList(c)
    PROVE  FullInv'
<1>1. page' \in Pages /\ page'.case = c /\ Created(c)
  BY DEF ShowTaskList, TaskList, Pages, YesNo
<1>2. page'.ready = "yes" => ReadyForSubmission(record[c])
  BY DEF ShowTaskList, TaskList, YesNo
<1>3. ReadyForSubmission(record[c]) => DeclarationStatus(record[c]) = "COMPLETED"
  BY DEF ReadyForSubmission
<1>4. DeclarationStatus(record[c]) = "COMPLETED" => Complete(record[c])
  BY DEF Complete, DeclarationStatus, EvidenceStatus, MeansStatus, ClientDetailsStatus,
         DetermineStepStatus, StatusFor
<1>5. UNCHANGED <<session, request, record, begun, drafts, discarded, lost, overlapped, signed>>
  BY DEF ShowTaskList
<1>6. TypeOK' /\ SectionsInv' /\ DeclarationsInv' /\ OfficesInv'
  BY <1>1, <1>2, <1>3, <1>4, <1>5
     DEF FullInv, TypeOK, SectionsInv, DeclarationsInv, OfficesInv, Running, Created
<1>7. SameCopies
  BY <1>5 DEF SameCopies, Running
<1> QED
  BY <1>5, <1>6, <1>7, SameRecordSameDrafts, DraftsStay DEF FullInv

---------------------------------------------------------------------------
(* Steps that begin, drop, record and store drafts *)

LEMMA DraftNumbers ==
    ASSUME FullInv, NEW r \in Running
    PROVE  /\ r \in Requests
           /\ request[r].copy.draft \in (1 .. drafts) \cup {Missing}
           /\ session.draft \in (1 .. drafts) \cup {Missing}
           /\ drafts \in Nat /\ drafts <= MaxDrafts
           /\ Missing \notin Nat
           /\ request[r].alone \in {"yes", "no"}
<1>1. r \in Requests
  BY DEF Running
<1>2. request[r].alone \in {"yes", "no"}
  BY <1>1, CopyOf DEF RequestStates
<1>3. drafts \in Nat /\ drafts <= MaxDrafts
  BY CaseAssumption DEF FullInv, TypeOK
<1> QED
  BY <1>1, <1>2, <1>3, CaseAssumption DEF FullInv, DraftsInv, NumbersInv

\* A request leaves a copy with another draft, and no case changes.
LEMMA DraftLeft ==
    ASSUME FullInv, NEW r \in Requests, request[r].pc # "idle", NEW copy \in Sessions,
           Leaves(r, copy), copy.declarations = request[r].copy.declarations,
           drafts' \in 0 .. MaxDrafts, discarded' \subseteq Numbers,
           UNCHANGED <<session, record, page, begun, lost, overlapped, signed>>
    PROVE  TypeOK' /\ SectionsInv' /\ DeclarationsInv' /\ OfficesInv'
<1>1. /\ request' \in [Requests -> RequestStates]
      /\ request'[r].pc = "ending"
      /\ request'[r].copy = copy
      /\ \A q \in Requests : q # r => request'[q] = request[q]
      /\ Running' = Running
  BY Leaving DEF FullInv
<1>2. TypeOK'
  BY <1>1 DEF FullInv, TypeOK
<1>3. SectionsInv'
  BY DEF FullInv, SectionsInv, Created
<1>4. r \in Running /\ Running \subseteq Requests
  BY DEF Running
<1>5. DeclarationsInv'
  BY <1>1, <1>4 DEF FullInv, DeclarationsInv, Created
<1>6. OfficesInv'
  BY <1>1 DEF FullInv, OfficesInv
<1> QED
  BY <1>2, <1>3, <1>5, <1>6

LEMMA AnswerStep ==
    ASSUME FullInv, NEW r \in Requests, Answer(r)
    PROVE  FullInv'
<1> DEFINE old == request[r].copy.draft
           draft == IF old = Missing THEN drafts + 1 ELSE old
           copy == [request[r].copy EXCEPT !.draft = draft]
<1>1. request[r].pc # "idle" /\ r \in Running /\ request[r].copy \in Sessions
  BY CopyOf DEF Answer
<1>2. /\ old \in (1 .. drafts) \cup {Missing}
      /\ session.draft \in (1 .. drafts) \cup {Missing}
      /\ drafts \in Nat /\ drafts <= MaxDrafts /\ Missing \notin Nat
  BY <1>1, DraftNumbers
<1>3. /\ old = Missing => drafts < MaxDrafts
      /\ drafts' = IF old = Missing THEN drafts + 1 ELSE drafts
      /\ Leaves(r, copy)
      /\ UNCHANGED <<session, record, page, begun, discarded, lost, overlapped, signed>>
  BY DEF Answer
<1>4. draft \in Numbers /\ drafts' \in 0 .. MaxDrafts
  BY <1>2, <1>3, CaseAssumption DEF Numbers
<1> HIDE DEF draft
<1>5. copy \in Sessions /\ copy.draft = draft
      /\ copy.declarations = request[r].copy.declarations
  BY <1>1, <1>4 DEF Sessions
<1> HIDE DEF copy
<1>6. discarded' \subseteq Numbers
  BY <1>3 DEF FullInv, TypeOK
<1>7. TypeOK' /\ SectionsInv' /\ DeclarationsInv' /\ OfficesInv'
  BY <1>1, <1>3, <1>4, <1>5, <1>6, DraftLeft
<1>8. /\ request'[r].copy.draft = draft
      /\ request'[r].alone = request[r].alone
      /\ \A q \in Requests : q # r => request'[q] = request[q]
      /\ Running' = Running /\ Running \subseteq Requests
  BY <1>1, <1>3, <1>5, Leaving DEF FullInv, Running
<1>9. CASE old # Missing
  <2>1. draft = old /\ drafts' = drafts
    BY <1>3, <1>9 DEF draft
  <2>2. SameCopies
    BY <1>8, <2>1 DEF SameCopies
  <2>3. DraftsInv'
    BY <1>3, <2>1, <2>2, SameRecordSameDrafts, DraftsStay DEF FullInv
  <2> QED
    BY <1>7, <2>3 DEF FullInv
<1>10. CASE old = Missing
  <2>1. draft = drafts + 1 /\ drafts' = drafts + 1
    BY <1>3, <1>10 DEF draft
  <2>2. \A d : Recorded(d)' <=> Recorded(d)
    BY <1>3 DEF Recorded, Created, DraftOf
  <2>3. AloneInv'
    BY <1>1, <1>3, <1>8, <1>10, <2>2 DEF FullInv, DraftsInv, AloneInv
  <2>4. \A c \in Cases : Created(c) => DraftOf(c) \in 1 .. drafts
    BY DEF FullInv, DraftsInv, NumbersInv
  <2>5. \A c \in Cases : Created(c) => DraftOf(c) # draft
    BY <1>2, <2>1, <2>4
  <2>6. RecordedInv'
    BY <1>3, <1>8, <2>5 DEF FullInv, DraftsInv, RecordedInv, Created, DraftOf
  <2>7. \A d \in 1 .. drafts : d \in 1 .. drafts'
    BY <1>2, <2>1
  <2>8. draft \in 1 .. drafts'
    BY <1>2, <2>1
  <2>9. NumbersInv'
    BY <1>3, <1>8, <2>7, <2>8 DEF FullInv, DraftsInv, NumbersInv, Created, DraftOf
  <2>10. \A d \in 1 .. drafts' : d \in 1 .. drafts \/ d = draft
    BY <1>2, <2>1
  <2>11. \A d \in 1 .. drafts : d # old
    BY <1>2, <1>10
  <2>12. NoAnswersLost'
    BY <1>1, <1>3, <1>8, <2>2, <2>10, <2>11 DEF FullInv, DraftsInv, NoAnswersLost
  <2>13. CreatedOnce'
    BY <1>3 DEF FullInv, DraftsInv, CreatedOnce, Created, DraftOf
  <2> QED
    BY <1>7, <2>3, <2>6, <2>9, <2>12, <2>13 DEF FullInv, DraftsInv
<1> QED
  BY <1>9, <1>10

LEMMA DropOutStep ==
    ASSUME FullInv, NEW r \in Requests, DropOut(r)
    PROVE  FullInv'
<1> DEFINE old == request[r].copy.draft
           copy == [request[r].copy EXCEPT !.draft = Missing]
<1>1. request[r].pc # "idle" /\ r \in Running /\ request[r].copy \in Sessions
  BY CopyOf DEF DropOut
<1>2. /\ old \in (1 .. drafts) \cup {Missing}
      /\ session.draft \in (1 .. drafts) \cup {Missing}
      /\ drafts \in Nat /\ drafts <= MaxDrafts /\ Missing \notin Nat
  BY <1>1, DraftNumbers
<1>3. /\ discarded' = discarded \cup NumberOf(old)
      /\ Leaves(r, copy)
      /\ UNCHANGED <<session, record, page, begun, drafts, lost, overlapped, signed>>
  BY DEF DropOut
<1>4. copy \in Sessions /\ copy.draft = Missing
      /\ copy.declarations = request[r].copy.declarations
  BY <1>1 DEF Sessions
<1> HIDE DEF copy
<1>5. discarded' \subseteq Numbers /\ drafts' \in 0 .. MaxDrafts
  BY <1>1, <1>3, SessionParts DEF FullInv, TypeOK, NumberOf
<1>6. TypeOK' /\ SectionsInv' /\ DeclarationsInv' /\ OfficesInv'
  BY <1>1, <1>3, <1>4, <1>5, DraftLeft
<1>7. /\ request'[r].copy.draft = Missing
      /\ request'[r].alone = request[r].alone
      /\ \A q \in Requests : q # r => request'[q] = request[q]
      /\ Running' = Running /\ Running \subseteq Requests
  BY <1>1, <1>3, <1>4, Leaving DEF FullInv, Running
<1>8. \A d : Recorded(d)' <=> Recorded(d)
  BY <1>3 DEF Recorded, Created, DraftOf
<1>9. discarded \subseteq discarded' /\ (old = Missing \/ old \in discarded')
  BY <1>3 DEF NumberOf
<1>10. AloneInv'
  BY <1>1, <1>3, <1>7, <1>8, <1>9 DEF FullInv, DraftsInv, AloneInv
<1>11. \A c \in Cases : Created(c) => DraftOf(c) # Missing
  BY <1>2 DEF FullInv, DraftsInv, NumbersInv
<1>12. RecordedInv'
  BY <1>3, <1>7, <1>11 DEF FullInv, DraftsInv, RecordedInv, Created, DraftOf
<1>13. NumbersInv'
  BY <1>3, <1>7 DEF FullInv, DraftsInv, NumbersInv, Created, DraftOf
<1>14. NoAnswersLost'
  BY <1>2, <1>3, <1>7, <1>8, <1>9 DEF FullInv, DraftsInv, NoAnswersLost
<1>15. CreatedOnce'
  BY <1>3 DEF FullInv, DraftsInv, CreatedOnce, Created, DraftOf
<1> QED
  BY <1>6, <1>10, <1>12, <1>13, <1>14, <1>15 DEF FullInv, DraftsInv

LEMMA CreateApplicationStep ==
    ASSUME FullInv, NEW r \in Requests, CreateApplication(r)
    PROVE  FullInv'
<1>0. PICK n : n = request[r].copy.draft
  OBVIOUS
<1> DEFINE cleared == [request[r].copy EXCEPT !.draft = Missing]
<1>1. /\ request[r].pc = "open" /\ r \in Running /\ request[r].copy \in Sessions
      /\ request[r].alone \in {"yes", "no"}
      /\ n # Missing
  BY <1>0, CopyOf, DraftNumbers DEF CreateApplication
<1>2. n \in 1 .. drafts /\ drafts \in Nat /\ drafts <= MaxDrafts /\ Missing \notin Nat
      /\ n \in Numbers /\ session.draft \in (1 .. drafts) \cup {Missing}
  BY <1>0, <1>1, DraftNumbers, SessionParts
<1>3. PICK c \in Cases :
          /\ ~Created(c)
          /\ record' = [record EXCEPT ![c] = NewCase(n, request[r].copy.office)]
  BY <1>0 DEF CreateApplication
<1>4. UNCHANGED <<session, page, begun, drafts, discarded, signed>>
  BY DEF CreateApplication
<1>5. PICK copy \in {cleared, request[r].copy} :
          /\ Leaves(r, copy)
          /\ copy = cleared \/ n \in lost'
          /\ lost' \in {lost, lost \cup {n}}
  BY <1>0, <1>1 DEF CreateApplication, NumberOf
<1>6. /\ overlapped' \in {overlapped, overlapped \cup {n}}
      /\ request[r].alone = "yes" \/ n \in overlapped'
  BY <1>0, <1>1 DEF CreateApplication, NumberOf, Overlaps
<1>7. /\ copy \in Sessions
      /\ copy.declarations = request[r].copy.declarations
      /\ copy.draft \in {n, Missing}
      /\ copy.draft = Missing \/ n \in lost'
  BY <1>0, <1>1, <1>5 DEF Sessions
<1>8. request[r].copy.office \in Offices
  BY <1>1, SessionParts DEF FullInv, OfficesInv
<1> DEFINE new == NewCase(n, request[r].copy.office)
<1>9. new \in OpenCases /\ new.draft = n /\ new.state = "open" /\ new.declaration = "none"
  BY <1>2, <1>8 DEF NewCase, OpenCases
<1>10. record' = [record EXCEPT ![c] = new]
  BY <1>3
<1> HIDE DEF cleared, new
<1>11. /\ record' \in [Cases -> OpenCases \cup {NoCase}]
       /\ record'[c] = new
       /\ \A d \in Cases : d # c => record'[d] = record[d]
  BY <1>9, <1>10 DEF FullInv, TypeOK
<1>12. /\ request' \in [Requests -> RequestStates]
       /\ request'[r].pc = "ending"
       /\ request'[r].copy = copy
       /\ request'[r].alone = request[r].alone
       /\ \A q \in Requests : q # r => request'[q] = request[q]
       /\ Running' = Running /\ Running \subseteq Requests
  BY <1>1, <1>5, <1>7, Leaving DEF FullInv, Running
<1>13. \A d \in Cases : /\ Created(d)' <=> (Created(d) \/ d = c)
                        /\ DraftOf(d)' = IF d = c THEN n ELSE DraftOf(d)
  BY <1>3, <1>9, <1>11 DEF Created, DraftOf
<1>14. lost \subseteq lost' /\ overlapped \subseteq overlapped'
       /\ lost' \subseteq Numbers /\ overlapped' \subseteq Numbers
  BY <1>2, <1>5, <1>6 DEF FullInv, TypeOK
<1>15. TypeOK'
  BY <1>4, <1>11, <1>12, <1>14 DEF FullInv, TypeOK
<1>16. SectionsInv'
  <2>1. \A d \in Cases : Created(d) => record'[d] = record[d] /\ Created(d)'
    BY <1>3, <1>11, <1>13
  <2>2. \A d \in Cases : record'[d].state = "submitted" => Complete(record'[d])
    BY <1>9, <1>11 DEF FullInv, SectionsInv
  <2> QED
    BY <1>4, <2>1, <2>2 DEF FullInv, SectionsInv
<1>17. DeclarationsInv'
  <2>1. request[r].copy.declarations \subseteq signed
    BY <1>1, CopyOf
  <2>2. \A q \in Running : request'[q].copy.declarations \subseteq signed
    BY <1>7, <1>12, <2>1 DEF FullInv, DeclarationsInv
  <2>3. \A d \in Cases : Created(d)' /\ record'[d].declaration = "signed" => d \in signed
    BY <1>9, <1>11, <1>13 DEF FullInv, DeclarationsInv
  <2> QED
    BY <1>4, <1>12, <2>2, <2>3 DEF FullInv, DeclarationsInv
<1>18. OfficesInv'
  BY <1>12 DEF FullInv, OfficesInv
<1>19. Recorded(n)' /\ \A d : Recorded(d) => Recorded(d)'
  BY <1>13, <1>3 DEF Recorded
<1>20. AloneInv'
  <2> SUFFICES ASSUME NEW q \in Running, request[q].alone = "yes"
               PROVE  /\ Running = {q}
                      /\ \/ session.draft = request'[q].copy.draft
                         \/ session.draft \in discarded \cup {Missing}
                         \/ Recorded(session.draft)'
    BY <1>4, <1>12 DEF AloneInv
  <2>1. /\ Running = {q}
        /\ \/ session.draft = request[q].copy.draft
           \/ session.draft \in discarded \cup {Missing}
           \/ Recorded(session.draft)
    BY DEF FullInv, DraftsInv, AloneInv
  <2>2. q = r
    BY <1>1, <2>1
  <2>3. session.draft = request[q].copy.draft => Recorded(session.draft)'
    BY <1>0, <1>4, <1>19, <2>2
  <2> QED
    BY <1>4, <1>19, <2>1, <2>3
<1>21. n \notin lost' \cup overlapped' =>
           request[r].alone = "yes" /\ Running = {r} /\ copy.draft = Missing
  BY <1>1, <1>6, <1>7 DEF FullInv, DraftsInv, AloneInv
<1>22. RecordedInv'
  <2> SUFFICES ASSUME NEW d \in Cases, Created(d)',
                      DraftOf(d)' \notin lost' \cup overlapped'
               PROVE  /\ \A q \in Running : request'[q].copy.draft = DraftOf(d)'
                                                => request'[q].alone = "no"
                      /\ session.draft = DraftOf(d)' => Running # {}
    BY <1>4, <1>12 DEF RecordedInv
  <2>1. Running # {}
    BY <1>1
  <2>2. CASE d = c
    <3>1. DraftOf(d)' = n
      BY <1>13, <2>2
    <3>2. Running = {r} /\ copy.draft = Missing
      BY <1>21, <3>1
    <3>3. n # Missing
      BY <1>1
    <3> QED
      BY <1>12, <2>1, <3>1, <3>2, <3>3
  <2>3. CASE d # c
    <3>1. Created(d) /\ DraftOf(d)' = DraftOf(d)
      BY <1>13, <2>3
    <3>2. \A q \in Running : request[q].copy.draft = DraftOf(d) => request[q].alone = "no"
      BY <1>14, <3>1 DEF FullInv, DraftsInv, RecordedInv
    <3>3. DraftOf(d) # Missing
      BY <1>2, <3>1 DEF FullInv, DraftsInv, NumbersInv
    <3>4. \A q \in Running : request'[q].copy.draft = DraftOf(d) => request'[q].alone = "no"
      BY <1>7, <1>12, <3>2, <3>3, <1>0
    <3> QED
      BY <2>1, <3>1, <3>4
  <2> QED
    BY <2>2, <2>3
<1>23. NumbersInv'
  BY <1>2, <1>4, <1>7, <1>12, <1>13 DEF FullInv, DraftsInv, NumbersInv
<1>24. NoAnswersLost'
  <2> SUFFICES ASSUME NEW d \in 1 .. drafts
               PROVE  \/ d \in discarded \cup overlapped'
                      \/ session.draft = d
                      \/ \E q \in Running : request'[q].copy.draft = d
                      \/ Recorded(d)'
    BY <1>4, <1>12 DEF NoAnswersLost
  <2>1. \/ d \in discarded \cup overlapped
        \/ session.draft = d
        \/ \E q \in Running : request[q].copy.draft = d
        \/ Recorded(d)
    BY DEF FullInv, DraftsInv, NoAnswersLost
  <2>2. CASE d = n
    BY <1>19, <2>2
  <2>3. CASE d # n
    BY <1>12, <1>14, <1>19, <2>1, <2>3, <1>0
  <2> QED
    BY <2>2, <2>3
<1>25. CreatedOnce'
  <2>1. \A d \in Cases : Created(d) /\ DraftOf(d) = n => n \in lost' \cup overlapped'
    <3> SUFFICES ASSUME NEW d \in Cases, Created(d), DraftOf(d) = n,
                        n \notin lost' \cup overlapped'
                 PROVE  FALSE
      OBVIOUS
    <3>1. request[r].alone = "no"
      BY <1>0, <1>1, <1>14 DEF FullInv, DraftsInv, RecordedInv
    <3> QED
      BY <1>21, <3>1
  <2> QED
    BY <1>13, <1>14, <2>1 DEF FullInv, DraftsInv, CreatedOnce
<1> QED
  BY <1>15, <1>16, <1>17, <1>18, <1>20, <1>22, <1>23, <1>24, <1>25 DEF FullInv, DraftsInv

\* What requireAuth leaves of the session it read, with these claims.
LEMMA AllowedCopy ==
    ASSUME FullInv, NEW claims \in SUBSET Offices
    PROVE  LET read == [session EXCEPT !.claims = claims]
               copy == WithAllowedOffice(read)
           IN  /\ copy \in Sessions
               /\ copy.declarations \subseteq session.declarations
               /\ claims # {} /\ copy.office # Missing => copy.office \in copy.claims
               /\ copy = read => copy.draft = session.draft
               /\ copy # read => copy.draft = Missing
               /\ read.draft = session.draft
<1> DEFINE read == [session EXCEPT !.claims = claims]
           copy == WithAllowedOffice(read)
<1>1. session \in Sessions
  BY DEF FullInv, TypeOK
<1>2. /\ read \in Sessions /\ read.draft = session.draft
      /\ read.declarations = session.declarations /\ read.claims = claims
  BY <1>1 DEF Sessions
<1> HIDE DEF read
<1>3. CASE claims # {} /\ IsOfficeAllowed(read)
  <2>1. copy = read
    BY <1>2, <1>3 DEF WithAllowedOffice
  <2> QED
    BY <1>2, <1>3, <2>1 DEF IsOfficeAllowed, read
<1>4. CASE ~(claims # {} /\ IsOfficeAllowed(read))
  <2>1. copy = EmptySession(claims)
    BY <1>2, <1>4 DEF WithAllowedOffice, DestroySessionOffice
  <2>2. copy \in Sessions
    BY <2>1, EmptyIsSession
  <2>3. copy.office = Missing /\ copy.draft = Missing /\ copy.declarations = {}
    BY <2>1 DEF EmptySession
  <2> HIDE DEF copy
  <2>4. copy = read => copy.draft = session.draft
    BY <1>2
  <2> QED
    BY <1>2, <2>2, <2>3, <2>4 DEF read, copy
<1> QED
  BY <1>3, <1>4

LEMMA BeginStep ==
    ASSUME FullInv, NEW r \in Requests, Begin(r)
    PROVE  FullInv'
<1>1. session \in Sessions /\ request \in [Requests -> RequestStates]
      /\ request[r].pc = "idle" /\ begun \in Nat /\ begun' = begun + 1
  BY DEF FullInv, TypeOK, Begin
<1>2. PICK claims \in ClaimSets \cup {session.claims} :
          LET read == [session EXCEPT !.claims = claims]
              copy == WithAllowedOffice(read)
          IN
          /\ request' =
                [q \in Requests |->
                    IF q = r
                    THEN [pc |-> CASE claims = {} -> "ending"
                                   [] copy.office = Missing -> "selecting"
                                   [] OTHER -> "open",
                          copy |-> copy, alone |-> YesNo(Running = {})]
                    ELSE [request[q] EXCEPT !.alone =
                             IF request[q].pc = "idle" THEN "yes" ELSE "no"]]
          /\ discarded' = IF copy = read THEN discarded
                          ELSE discarded \cup NumberOf(read.draft)
  BY DEF Begin
<1>3. claims \in SUBSET Offices
  BY <1>1, CaseAssumption, SessionParts
<1> DEFINE read == [session EXCEPT !.claims = claims]
           copy == WithAllowedOffice(read)
           pc == CASE claims = {} -> "ending"
                   [] copy.office = Missing -> "selecting"
                   [] OTHER -> "open"
           mine == [pc |-> pc, copy |-> copy, alone |-> YesNo(Running = {})]
           others(q) == [request[q] EXCEPT !.alone =
                             IF request[q].pc = "idle" THEN "yes" ELSE "no"]
<1>4. /\ copy \in Sessions
      /\ copy.declarations \subseteq session.declarations
      /\ claims # {} /\ copy.office # Missing => copy.office \in copy.claims
      /\ copy = read => copy.draft = session.draft
      /\ copy # read => copy.draft = Missing
      /\ read.draft = session.draft
  BY <1>3, AllowedCopy
<1>5. discarded' = IF copy = read THEN discarded ELSE discarded \cup NumberOf(session.draft)
  BY <1>2, <1>4
<1>6. request' = [q \in Requests |-> IF q = r THEN mine ELSE others(q)]
  BY <1>2
<1> HIDE DEF copy, read
<1>7. /\ pc \in {"ending", "selecting", "open"}
      /\ pc = "open" => claims # {} /\ copy.office # Missing
  OBVIOUS
<1> HIDE DEF pc
<1>8. YesNo(Running = {}) \in {"yes", "no"}
      /\ (YesNo(Running = {}) = "yes" => Running = {})
      /\ (Running # {} => YesNo(Running = {}) = "no")
  BY DEF YesNo
<1>9. /\ mine \in RequestStates /\ mine.pc = pc /\ mine.copy = copy
      /\ mine.alone = YesNo(Running = {})
  BY <1>4, <1>7, <1>8 DEF RequestStates
<1>10. \A q \in Requests : /\ others(q) \in RequestStates
                           /\ others(q).pc = request[q].pc
                           /\ others(q).copy = request[q].copy
                           /\ request[q].pc # "idle" => others(q).alone = "no"
  <2> SUFFICES ASSUME NEW q \in Requests
               PROVE  /\ others(q) \in RequestStates
                      /\ others(q).pc = request[q].pc
                      /\ others(q).copy = request[q].copy
                      /\ request[q].pc # "idle" => others(q).alone = "no"
    OBVIOUS
  <2>1. request[q] \in RequestStates
    BY <1>1
  <2> QED
    BY <2>1 DEF RequestStates
<1> HIDE DEF mine, others
<1>11. /\ request' \in [Requests -> RequestStates]
       /\ request'[r].pc = pc /\ request'[r].copy = copy
       /\ request'[r].alone = YesNo(Running = {})
       /\ \A q \in Requests : q # r => /\ request'[q].pc = request[q].pc
                                       /\ request'[q].copy = request[q].copy
                                       /\ request[q].pc # "idle" => request'[q].alone = "no"
  BY <1>6, <1>9, <1>10
<1>12. Running' = Running \cup {r} /\ r \notin Running /\ Running \subseteq Requests
  <2>1. \A q \in Requests : request'[q].pc # "idle" <=> (request[q].pc # "idle" \/ q = r)
    BY <1>7, <1>11
  <2> QED
    BY <1>1, <2>1 DEF Running
<1>13. UNCHANGED <<session, record, page, drafts, lost, overlapped, signed>>
  BY DEF Begin
<1>14. discarded \subseteq discarded' /\ discarded' \subseteq Numbers
       /\ (copy.draft = session.draft \/ session.draft \in discarded' \cup {Missing})
  BY <1>1, <1>4, <1>5, SessionParts DEF FullInv, TypeOK, NumberOf
<1>15. TypeOK'
  BY <1>1, <1>11, <1>13, <1>14 DEF FullInv, TypeOK
<1>16. SectionsInv'
  BY <1>13 DEF FullInv, SectionsInv, Created
<1>17. DeclarationsInv'
  BY <1>4, <1>11, <1>12, <1>13 DEF FullInv, DeclarationsInv, Created
<1>18. OfficesInv'
  BY <1>4, <1>7, <1>11 DEF FullInv, OfficesInv
<1>19. \A d : Recorded(d)' <=> Recorded(d)
  BY <1>13 DEF Recorded, Created, DraftOf
<1>20. AloneInv'
  <2> SUFFICES ASSUME NEW q \in Running', request'[q].alone = "yes"
               PROVE  /\ Running' = {q}
                      /\ \/ session'.draft = request'[q].copy.draft
                         \/ session'.draft \in discarded' \cup {Missing}
                         \/ Recorded(session.draft)'
    BY DEF AloneInv
  <2>1. q = r
    BY <1>11, <1>12 DEF Running
  <2>2. Running = {}
    BY <1>8, <1>11, <2>1
  <2> QED
    BY <1>11, <1>12, <1>13, <1>14, <2>1, <2>2
<1>21. RecordedInv'
  <2> SUFFICES ASSUME NEW c \in Cases, Created(c), DraftOf(c) \notin lost \cup overlapped
               PROVE  /\ \A q \in Running' : request'[q].copy.draft = DraftOf(c)
                                                => request'[q].alone = "no"
                      /\ session.draft = DraftOf(c) => Running' # {}
    BY <1>13 DEF RecordedInv, Created, DraftOf
  <2>1. session.draft = DraftOf(c) => Running # {}
    BY DEF FullInv, DraftsInv, RecordedInv
  <2>2. DraftOf(c) # Missing
    BY CaseAssumption DEF FullInv, DraftsInv, NumbersInv, TypeOK
  <2>3. copy.draft = DraftOf(c) => session.draft = DraftOf(c)
    BY <1>4, <2>2
  <2>4. \A q \in Running : request'[q].alone = "no"
    BY <1>11, <1>12 DEF Running
  <2> QED
    BY <1>8, <1>11, <1>12, <2>1, <2>3, <2>4
<1>22. NumbersInv'
  BY <1>4, <1>11, <1>12, <1>13 DEF FullInv, DraftsInv, NumbersInv, Created, DraftOf
<1>23. NoAnswersLost'
  BY <1>11, <1>12, <1>13, <1>14, <1>19 DEF FullInv, DraftsInv, NoAnswersLost
<1>24. CreatedOnce'
  BY <1>13 DEF FullInv, DraftsInv, CreatedOnce, Created, DraftOf
<1> QED
  BY <1>15, <1>16, <1>17, <1>18, <1>20, <1>21, <1>22, <1>23, <1>24 DEF FullInv, DraftsInv

LEMMA SaveStep ==
    ASSUME FullInv, NEW r \in Requests, Save(r)
    PROVE  FullInv'
<1> DEFINE copy == request[r].copy
<1>1. /\ session' = request[r].copy
      /\ request' = [request EXCEPT ![r] = Idle]
      /\ request[r].pc = "ending"
      /\ UNCHANGED <<record, page, begun, drafts, discarded, lost, signed>>
  BY DEF Save
<1>2. /\ r \in Running /\ copy \in Sessions /\ copy.declarations \subseteq signed
      /\ session \in Sessions
      /\ request[r].alone \in {"yes", "no"}
      /\ copy.draft \in (1 .. drafts) \cup {Missing}
  BY <1>1, CopyOf, DraftNumbers DEF FullInv, TypeOK
<1>3. /\ overlapped \subseteq overlapped' /\ overlapped' \subseteq Numbers
      /\ request[r].alone = "no" =>
             /\ session.draft \in overlapped' \cup {Missing}
             /\ copy.draft \in overlapped' \cup {Missing}
  BY <1>2, SessionParts DEF Save, Overlaps, NumberOf, FullInv, TypeOK
<1>4. Idle \in RequestStates /\ Idle.pc = "idle"
  BY EmptyIsSession DEF Idle, RequestStates
<1>5. /\ request' \in [Requests -> RequestStates]
      /\ request'[r].pc = "idle"
      /\ \A q \in Requests : q # r => request'[q] = request[q]
  BY <1>1, <1>4 DEF FullInv, TypeOK
<1>6. Running' = Running \ {r} /\ Running \subseteq Requests
  <2>1. \A q \in Requests : request'[q].pc # "idle" <=> (request[q].pc # "idle" /\ q # r)
    BY <1>5
  <2> QED
    BY <2>1 DEF Running
<1>7. TypeOK'
  BY <1>1, <1>2, <1>3, <1>5 DEF FullInv, TypeOK
<1>8. SectionsInv'
  BY <1>1 DEF FullInv, SectionsInv, Created
<1>9. DeclarationsInv'
  BY <1>1, <1>2, <1>5, <1>6 DEF FullInv, DeclarationsInv, Created
<1>10. OfficesInv'
  BY <1>5 DEF FullInv, OfficesInv
<1>11. \A d : Recorded(d)' <=> Recorded(d)
  BY <1>1 DEF Recorded, Created, DraftOf
<1>12. AloneInv'
  <2> SUFFICES ASSUME NEW q \in Running', request'[q].alone = "yes"
               PROVE  FALSE
    BY DEF AloneInv
  <2>1. q \in Running /\ q # r /\ request[q].alone = "yes"
    BY <1>5, <1>6
  <2>2. Running = {q}
    BY <2>1 DEF FullInv, DraftsInv, AloneInv
  <2> QED
    BY <1>2, <2>1, <2>2
<1>13. RecordedInv'
  <2> SUFFICES ASSUME NEW c \in Cases, Created(c), DraftOf(c) \notin lost \cup overlapped'
               PROVE  /\ \A q \in Running' : request'[q].copy.draft = DraftOf(c)
                                                => request'[q].alone = "no"
                      /\ session'.draft # DraftOf(c)
    BY <1>1 DEF RecordedInv, Created, DraftOf
  <2>1. \A q \in Running : request[q].copy.draft = DraftOf(c) => request[q].alone = "no"
    BY <1>3 DEF FullInv, DraftsInv, RecordedInv
  <2>2. DraftOf(c) # Missing
    BY CaseAssumption DEF FullInv, DraftsInv, NumbersInv, TypeOK
  <2>3. copy.draft # DraftOf(c)
    BY <1>2, <1>3, <2>1, <2>2
  <2> QED
    BY <1>1, <1>5, <1>6, <2>1, <2>3
<1>14. NumbersInv'
  BY <1>1, <1>2, <1>5, <1>6 DEF FullInv, DraftsInv, NumbersInv, Created, DraftOf
<1>15. NoAnswersLost'
  <2> SUFFICES ASSUME NEW d \in 1 .. drafts
               PROVE  \/ d \in discarded \cup overlapped'
                      \/ session'.draft = d
                      \/ \E q \in Running' : request'[q].copy.draft = d
                      \/ Recorded(d)
    BY <1>1, <1>11 DEF NoAnswersLost
  <2>1. \/ d \in discarded \cup overlapped
        \/ session.draft = d
        \/ \E q \in Running : request[q].copy.draft = d
        \/ Recorded(d)
    BY DEF FullInv, DraftsInv, NoAnswersLost
  <2>2. d # Missing
    BY CaseAssumption DEF FullInv, TypeOK
  <2>3. CASE session.draft = d
    <3>1. CASE request[r].alone = "no"
      BY <1>3, <2>2, <2>3, <3>1
    <3>2. CASE request[r].alone = "yes"
      <4>1. \/ session.draft = copy.draft
            \/ session.draft \in discarded \cup {Missing}
            \/ Recorded(session.draft)
        BY <1>2, <3>2 DEF FullInv, DraftsInv, AloneInv
      <4> QED
        BY <1>1, <2>2, <2>3, <4>1
    <3> QED
      BY <1>2, <3>1, <3>2
  <2>4. CASE \E q \in Running : request[q].copy.draft = d
    BY <1>1, <1>5, <1>6, <2>4
  <2> QED
    BY <1>3, <2>1, <2>3, <2>4
<1>16. CreatedOnce'
  BY <1>1, <1>3 DEF FullInv, DraftsInv, CreatedOnce, Created, DraftOf
<1> QED
  BY <1>7, <1>8, <1>9, <1>10, <1>12, <1>13, <1>14, <1>15, <1>16 DEF FullInv, DraftsInv

---------------------------------------------------------------------------
(* The theorems *)

LEMMA Initially == Init => FullInv
<1> SUFFICES ASSUME Init PROVE FullInv
  OBVIOUS
<1>1. PICK claims \in ClaimSets \ {{}} :
          IF drafts = 0 THEN session = EmptySession(claims)
          ELSE \E office \in claims :
                  session = [claims |-> claims, office |-> office, draft |-> 1,
                             declarations |-> {}]
  BY DEF Init
<1>2. claims \in SUBSET Offices
  BY CaseAssumption
<1>3. /\ session \in Sessions
      /\ session.draft = IF drafts = 0 THEN Missing ELSE 1
      /\ session.declarations = {}
      /\ drafts \in {0, 1} /\ drafts \in 0 .. MaxDrafts
  <2>1. drafts \in {0, 1} /\ 1 \in Numbers /\ drafts \in 0 .. MaxDrafts
    BY CaseAssumption DEF Init, Numbers
  <2>2. CASE drafts = 0
    <3>1. session = EmptySession(claims)
      BY <1>1, <2>2
    <3> QED
      BY <1>2, <2>1, <2>2, <3>1, EmptyIsSession DEF EmptySession
  <2>3. CASE drafts = 1
    <3>1. PICK office \in claims :
              session = [claims |-> claims, office |-> office, draft |-> 1,
                         declarations |-> {}]
      BY <1>1, <2>3
    <3>2. office \in Offices
      BY <1>2
    <3> QED
      BY <1>2, <2>1, <2>3, <3>1, <3>2 DEF Sessions
  <2> QED
    BY <2>1, <2>2, <2>3
<1>4. Idle \in RequestStates /\ Idle.pc = "idle"
  BY EmptyIsSession DEF Idle, RequestStates
<1>5. \A r \in Requests : request[r] = Idle
  BY DEF Init
<1>6. Running = {}
  BY <1>4, <1>5 DEF Running
<1>7. \A c \in Cases : record[c] = NoCase /\ ~Created(c)
  BY DEF Init, Created, NoCase
<1>8. NoPage \in Pages /\ NoPage.ready = "no" /\ NoPage.closable = "no"
  BY DEF NoPage, Pages
<1>9. TypeOK
  BY <1>3, <1>4, <1>8 DEF Init, TypeOK
<1>10. SectionsInv /\ DeclarationsInv /\ OfficesInv
  BY <1>3, <1>4, <1>5, <1>6, <1>7, <1>8
     DEF Init, SectionsInv, DeclarationsInv, OfficesInv, NoCase
<1>11. AloneInv /\ RecordedInv /\ CreatedOnce
  BY <1>6, <1>7 DEF AloneInv, RecordedInv, CreatedOnce
<1>12. NumbersInv
  BY <1>3, <1>6, <1>7 DEF NumbersInv
<1>13. NoAnswersLost
  BY <1>3 DEF NoAnswersLost
<1> QED
  BY <1>9, <1>10, <1>11, <1>12, <1>13 DEF FullInv, DraftsInv

LEMMA Preserved == FullInv /\ [Next]_vars => FullInv'
<1> SUFFICES ASSUME FullInv, [Next]_vars PROVE FullInv'
  OBVIOUS
<1>1. CASE \E r \in Requests : Begin(r)
  BY <1>1, BeginStep
<1>2. CASE \E r \in Requests : ShowOffices(r)
  BY <1>2, ShowOfficesStep
<1>3. CASE \E r \in Requests : SetSelectedOffice(r)
  BY <1>3, SetSelectedOfficeStep
<1>4. CASE \E r \in Requests : Look(r) \/ Export(r)
  BY <1>4, LookStep
<1>5. CASE \E r \in Requests : Answer(r)
  BY <1>5, AnswerStep
<1>6. CASE \E r \in Requests : DropOut(r)
  BY <1>6, DropOutStep
<1>7. CASE \E r \in Requests : CreateApplication(r)
  BY <1>7, CreateApplicationStep
<1>8. CASE \E r \in Requests : Sign(r)
  BY <1>8, SignStep
<1>9. CASE \E r \in Requests : SubmitSignedDeclaration(r)
  BY <1>9, SubmitSignedDeclarationStep
<1>10. CASE \E r \in Requests : Save(r)
  BY <1>10, SaveStep
<1>11. CASE \E c \in Cases : UpdateMeans(c)
  BY <1>11, UpdateMeansStep
<1>12. CASE \E c \in Cases : UpdateEvidence(c)
  BY <1>12, UpdateEvidenceStep
<1>13. CASE \E c \in Cases : ShowTaskList(c)
  BY <1>13, ShowTaskListStep
<1>14. CASE SubmitApplication
  BY <1>14, SubmitApplicationStep
<1>15. CASE CloseIneligibleCase
  BY <1>15, CloseIneligibleCaseStep
<1>16. CASE UNCHANGED vars
  <2>1. TypeOK' /\ SectionsInv' /\ DeclarationsInv' /\ OfficesInv'
    BY <1>16 DEF vars, FullInv, TypeOK, SectionsInv, DeclarationsInv, OfficesInv,
                 Running, Created
  <2>2. SameCopies
    BY <1>16 DEF vars, SameCopies, Running
  <2>3. DraftsInv'
    BY <1>16, <2>2, SameRecordSameDrafts, DraftsStay DEF vars, FullInv
  <2> QED
    BY <2>1, <2>3 DEF FullInv
<1> QED
  BY <1>1, <1>2, <1>3, <1>4, <1>5, <1>6, <1>7, <1>8, <1>9, <1>10, <1>11, <1>12,
     <1>13, <1>14, <1>15, <1>16 DEF Next

LEMMA FullInvariance == Spec => []FullInv
  BY Initially, Preserved, PTL DEF Spec

\* The inductive invariant of the cases, the declarations, the offices and the
\* drafts, for any requests that overlap in any order.
THEOREM CaseInvariance == Spec => []IInv
<1>1. FullInv => IInv
  BY DEF FullInv, DraftsInv, IInv
<1> QED
  BY <1>1, FullInvariance, PTL

\* Every case that was submitted has every section (submitApplication.ts): what a
\* task list showed as ready cannot be undone by any update of the sections.
THEOREM SubmittedCompletely == Spec => []SubmittedIsComplete
<1>1. FullInv => SubmittedIsComplete
  BY DEF FullInv, SectionsInv, SubmittedIsComplete
<1> QED
  BY <1>1, FullInvariance, PTL

\* Declarations are recorded only of cases whose own was signed
\* (journeyDraftKey.ts), whatever copies of the session are stored over others.
THEOREM DeclarationsSigned == Spec => []DeclaredAsSigned
<1>1. FullInv => DeclaredAsSigned
  BY DEF FullInv, DeclarationsInv, DeclaredAsSigned
<1> QED
  BY <1>1, FullInvariance, PTL

\* Answers are lost only by dropping them, with an office that is no longer
\* claimed, or by requests that overlap (createApplication.ts, clearSessionDraft;
\* destroySessionOffice.ts).
THEOREM AnswersKept == Spec => []NoAnswersLost
<1>1. FullInv => NoAnswersLost
  BY DEF FullInv, DraftsInv
<1> QED
  BY <1>1, FullInvariance, PTL

\* A draft becomes two cases only after a lost answer or by requests that overlap
\* (createApplication.ts).
THEOREM DraftRecordedOnce == Spec => []CreatedOnce
<1>1. FullInv => CreatedOnce
  BY DEF FullInv, DraftsInv
<1> QED
  BY <1>1, FullInvariance, PTL

\* The office a case is created for or exported from is in the claims the request
\* was let in with (requireAuth.middleware.ts; export.service.ts).
THEOREM OfficesStayClaimed == Spec => OfficesAreClaimed
<1>1. FullInv => OfficeOfUseIsClaimed
  <2> SUFFICES ASSUME FullInv, NEW r \in Requests, NEW c \in Cases,
                      \/ CreateApplication(r) /\ ~Created(c) /\ Created(c)'
                      \/ Export(r) /\ Exportable(r, c)
               PROVE  record'[c].office \in request[r].copy.claims
    BY DEF OfficeOfUseIsClaimed
  <2>1. request[r].copy.office \in request[r].copy.claims
    BY DEF FullInv, OfficesInv, CreateApplication, Export
  <2>2. CASE CreateApplication(r) /\ ~Created(c) /\ Created(c)'
    <3>1. PICK d \in Cases :
              record' = [record EXCEPT
                            ![d] = NewCase(request[r].copy.draft, request[r].copy.office)]
      BY <2>2 DEF CreateApplication
    <3>2. d = c
      BY <2>2, <3>1 DEF FullInv, TypeOK, Created
    <3>3. record'[c] = NewCase(request[r].copy.draft, request[r].copy.office)
      BY <3>1, <3>2 DEF FullInv, TypeOK
    <3> QED
      BY <2>1, <3>3 DEF NewCase
  <2>3. CASE Export(r) /\ Exportable(r, c)
    BY <2>1, <2>3 DEF Export, Exportable
  <2> QED
    BY <2>2, <2>3
<1> QED
  BY <1>1, FullInvariance, PTL DEF OfficesAreClaimed

=============================================================================
