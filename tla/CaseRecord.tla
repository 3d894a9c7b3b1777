----------------------------- MODULE CaseRecord -----------------------------
(***************************************************************************)
(* A provider's session from the choice of an office to submitted cases: the *)
(* office and the drafts it keeps, the creation of cases, and what happens to *)
(* them until they are submitted or closed.                                 *)
(*                                                                         *)
(* Every request works on a copy of the session that it loads first and      *)
(* stores last, so requests that overlap overwrite each other's changes.     *)
(* Requests of the task list change nothing of the session but its activity: *)
(* they are actions on the case and, as Look, on the session.                *)
(***************************************************************************)
EXTENDS Integers, FiniteSets

CONSTANTS
    Requests,
    Offices,
    ClaimSets,     \* the offices a token may claim
    Cases,         \* identifiers the API can give
    Results,       \* results of a means assessment, by what the task list tells apart
    Missing,
    MaxDrafts,     \* bound: drafts begun
    MaxRequests    \* bound: requests begun

ASSUME CaseAssumption ==
    /\ ClaimSets \subseteq SUBSET Offices
    /\ Results \subseteq {"eligible", "ineligible"}
    /\ Missing \notin Offices \cup Cases \cup Nat \cup Results
    /\ MaxDrafts \in Nat \ {0} /\ MaxRequests \in Nat

VARIABLES
    session,      \* the stored session: claims, office and drafts
    request,      \* each request: how far it is and its copy of the session
    record,       \* the API's record of each case
    page,         \* the task list the user has open
    begun,        \* how many requests were begun
    drafts,       \* history: how many drafts were begun, each with its number
    discarded,    \* history: drafts dropped by the user or with the office
    lost,         \* history: drafts whose case was created without an answer
    overlapped,   \* history: drafts worked on by requests that overlap
    signed        \* history: cases whose declaration was signed

vars == <<session, request, record, page, begun, drafts, discarded, lost,
          overlapped, signed>>

NumberOf(draft) == IF draft = Missing THEN {} ELSE {draft}

---------------------------------------------------------------------------
(* The session *)

EmptySession(claims) ==
    [claims |-> claims, office |-> Missing, draft |-> Missing, declarations |-> {}]

\* destroySessionOffice: the office, and every draft with it.
DestroySessionOffice(copy) == EmptySession(copy.claims)

IsOfficeAllowed(copy) == copy.office = Missing \/ copy.office \in copy.claims

\* Variant: an office stays selected while there are claims at all.
WithAnyOffice(copy) == IF copy.claims # {} THEN copy ELSE DestroySessionOffice(copy)

\* The part of requireAuth that follows the token: an office that is no longer
\* claimed is dropped with its drafts.
WithAllowedOffice(copy) ==
    IF copy.claims # {} /\ IsOfficeAllowed(copy) THEN copy ELSE DestroySessionOffice(copy)

\* Variant: the drafts of a journey are shared by the cases.
DraftKeyOfJourney(case) == Missing

\* getJourneyDraftKey: the drafts of a case's journey are of that case.
DraftKey(case) == case

---------------------------------------------------------------------------
(* The API *)

NoCase == [state |-> "none"]

Created(c) == record[c].state # "none"

\* The API refuses to update a completed case.
IsOpen(c) == record[c].state = "open"

NewCase(draft, office) ==
    [state |-> "open", draft |-> draft, office |-> office,
     means |-> Missing, evidence |-> "none", declaration |-> "none"]

---------------------------------------------------------------------------
(* The task list *)

StatusFor(hasValue) == IF hasValue THEN "COMPLETED" ELSE "INCOMPLETE"

DetermineStepStatus(prerequisite, hasValue) ==
    IF prerequisite = "COMPLETED" THEN StatusFor(hasValue) ELSE "CANNOT_START"

\* A case always has a client.
ClientDetailsStatus(case) == StatusFor(TRUE)

MeansStatus(case) ==
    DetermineStepStatus(ClientDetailsStatus(case), case.means # Missing)

EvidenceStatus(case) ==
    DetermineStepStatus(MeansStatus(case), case.evidence = "recorded")

DeclarationStatus(case) ==
    DetermineStepStatus(EvidenceStatus(case), case.declaration = "signed")

\* Variant: the declaration may still be missing.
ReadyWithoutDeclaration(case) ==
    \A status \in {ClientDetailsStatus(case), MeansStatus(case), EvidenceStatus(case)} :
        status = "COMPLETED"

ReadyForSubmission(case) ==
    \A status \in {ClientDetailsStatus(case), MeansStatus(case), EvidenceStatus(case),
                   DeclarationStatus(case)} :
        status = "COMPLETED"

NoPage == [case |-> Missing, ready |-> "no", closable |-> "no"]

YesNo(condition) == IF condition THEN "yes" ELSE "no"

\* The buttons of the page: submit and, of an ineligible case, close.
TaskList(c) ==
    [case |-> c, ready |-> YesNo(ReadyForSubmission(record[c])),
     closable |-> YesNo(record[c].means = "ineligible")]

---------------------------------------------------------------------------

Idle == [pc |-> "idle", copy |-> EmptySession({}), alone |-> "yes"]

Running == {r \in Requests : request[r].pc # "idle"}

\* A session after signing in, or with an office chosen and a first draft begun.
Init ==
    /\ drafts \in {0, 1}
    /\ \E claims \in ClaimSets \ {{}} :
          IF drafts = 0 THEN session = EmptySession(claims)
          ELSE \E office \in claims :
                  session = [claims |-> claims, office |-> office, draft |-> 1,
                             declarations |-> {}]
    /\ request = [r \in Requests |-> Idle]
    /\ record = [c \in Cases |-> NoCase]
    /\ page = NoPage
    /\ begun = 0
    /\ discarded = {}
    /\ lost = {}
    /\ overlapped = {}
    /\ signed = {}

\* A request starts, with the claims of the session or of a token refreshed on
\* the way.  Without an office it may only choose one; without claims it ends.
Begin(r) ==
    /\ request[r].pc = "idle"
    /\ begun < MaxRequests
    /\ begun' = begun + 1
    /\ \E claims \in ClaimSets \cup {session.claims} :
          LET read == [session EXCEPT !.claims = claims]
              copy == WithAllowedOffice(read)
          IN
          /\ request' =
                [q \in Requests |->
                    IF q = r
                    THEN [pc |-> CASE claims = {} -> "ending"
                                   [] copy.office = Missing -> "selecting"
                                   [] OTHER -> "open",
                          copy |-> copy, alone |-> YesNo(Running = {})]
                    ELSE [request[q] EXCEPT !.alone =
                             IF request[q].pc = "idle" THEN "yes" ELSE "no"]]
          /\ discarded' = IF copy = read THEN discarded
                          ELSE discarded \cup NumberOf(read.draft)
    /\ UNCHANGED <<session, record, page, drafts, lost, overlapped, signed>>

\* What a request leaves in its copy, to be stored when it ends.
Leaves(r, copy) ==
    request' = [request EXCEPT ![r].pc = "ending", ![r].copy = copy]

\* The page of the offices, asked for or redirected to: a single office is
\* selected at once.
ShowOffices(r) ==
    /\ request[r].pc \in {"selecting", "open"}
    /\ LET copy == request[r].copy
       IN  Leaves(r, IF Cardinality(copy.claims) = 1
                     THEN [copy EXCEPT !.office = CHOOSE office \in copy.claims : TRUE]
                     ELSE copy)
    /\ UNCHANGED <<session, record, page, begun, drafts, discarded, lost,
                   overlapped, signed>>

\* setSelectedOffice, of the offices in the claims; drafts are kept.
SetSelectedOffice(r) ==
    /\ request[r].pc \in {"selecting", "open"}
    /\ Cardinality(request[r].copy.claims) > 1
    /\ \E office \in request[r].copy.claims :
          Leaves(r, [request[r].copy EXCEPT !.office = office])
    /\ UNCHANGED <<session, record, page, begun, drafts, discarded, lost,
                   overlapped, signed>>

\* Any request that changes nothing, or fails.
Look(r) ==
    /\ request[r].pc \in {"selecting", "open"}
    /\ Leaves(r, request[r].copy)
    /\ UNCHANGED <<session, record, page, begun, drafts, discarded, lost,
                   overlapped, signed>>

---------------------------------------------------------------------------
(* Creating a case *)

\* A page of the create journey is submitted: its answers join the draft.
Answer(r) ==
    /\ request[r].pc = "open"
    /\ LET draft == request[r].copy.draft
       IN
       /\ draft = Missing => drafts < MaxDrafts
       /\ drafts' = IF draft = Missing THEN drafts + 1 ELSE drafts
       /\ Leaves(r, [request[r].copy EXCEPT
                        !.draft = IF draft = Missing THEN drafts + 1 ELSE draft])
    /\ UNCHANGED <<session, record, page, begun, discarded, lost, overlapped, signed>>

\* The case is dropped: ECF, or not in scope.
DropOut(r) ==
    /\ request[r].pc = "open"
    /\ discarded' = discarded \cup NumberOf(request[r].copy.draft)
    /\ Leaves(r, [request[r].copy EXCEPT !.draft = Missing])
    /\ UNCHANGED <<session, record, page, begun, drafts, lost, overlapped, signed>>

Overlaps(r) == request[r].alone = "no"

\* Variants: the draft is cleared whatever the API answers, or never.
CreateClearingAlways(r) ==
    /\ request[r].pc = "open"
    /\ request[r].copy.draft # Missing
    /\ \/ \E c \in Cases :
             /\ ~Created(c)
             /\ record' = [record EXCEPT
                              ![c] = NewCase(request[r].copy.draft, request[r].copy.office)]
       \/ record' = record
    /\ Leaves(r, [request[r].copy EXCEPT !.draft = Missing])
    /\ overlapped' = IF Overlaps(r) THEN overlapped \cup NumberOf(request[r].copy.draft)
                     ELSE overlapped
    /\ UNCHANGED <<session, page, begun, drafts, discarded, lost, signed>>

CreateKeepingDraft(r) ==
    /\ request[r].pc = "open"
    /\ request[r].copy.draft # Missing
    /\ \E c \in Cases :
          /\ ~Created(c)
          /\ record' = [record EXCEPT
                           ![c] = NewCase(request[r].copy.draft, request[r].copy.office)]
    /\ Leaves(r, request[r].copy)
    /\ overlapped' = IF Overlaps(r) THEN overlapped \cup NumberOf(request[r].copy.draft)
                     ELSE overlapped
    /\ UNCHANGED <<session, page, begun, drafts, discarded, lost, signed>>

\* createApplication: a POST without a key.  Only an answer of 201 with a valid
\* body clears the draft; a draft that is refused is kept (Look).
CreateApplication(r) ==
    /\ request[r].pc = "open"
    /\ request[r].copy.draft # Missing
    /\ \E c \in Cases :
          /\ ~Created(c)
          /\ record' = [record EXCEPT
                           ![c] = NewCase(request[r].copy.draft, request[r].copy.office)]
    /\ \/ /\ Leaves(r, [request[r].copy EXCEPT !.draft = Missing])
          /\ lost' = lost
       \/ /\ Leaves(r, request[r].copy)
          /\ lost' = lost \cup NumberOf(request[r].copy.draft)
    /\ overlapped' = IF Overlaps(r) THEN overlapped \cup NumberOf(request[r].copy.draft)
                     ELSE overlapped
    /\ UNCHANGED <<session, page, begun, drafts, discarded, signed>>

---------------------------------------------------------------------------
(* The declaration *)

\* The sign page, with its box ticked and a date.  Saved and left for later,
\* or with an error, it keeps nothing (Look).
Sign(r) ==
    /\ request[r].pc = "open"
    /\ \E c \in Cases :
          /\ Created(c)
          /\ Leaves(r, [request[r].copy EXCEPT !.declarations = @ \cup {DraftKey(c)}])
          /\ signed' = signed \cup {c}
    /\ UNCHANGED <<session, record, page, begun, drafts, discarded, lost, overlapped>>

\* submitSignedDeclaration: throws without the answers of the sign page, and
\* keeps the draft.
SubmitSignedDeclaration(r) ==
    /\ request[r].pc = "open"
    /\ \E c \in Cases :
          /\ IsOpen(c)
          /\ DraftKey(c) \in request[r].copy.declarations
          /\ record' = [record EXCEPT ![c].declaration = "signed"]
    /\ Leaves(r, request[r].copy)
    /\ UNCHANGED <<session, page, begun, drafts, discarded, lost, overlapped, signed>>

---------------------------------------------------------------------------
(* The other sections, by this user or another provider *)

\* saveEligibilityAssessment
UpdateMeans(c) ==
    /\ IsOpen(c)
    /\ \E result \in Results : record' = [record EXCEPT ![c].means = result]
    /\ UNCHANGED <<session, request, page, begun, drafts, discarded, lost,
                   overlapped, signed>>

\* updateEvidence: an update always has a value.
UpdateEvidence(c) ==
    /\ IsOpen(c)
    /\ record' = [record EXCEPT ![c].evidence = "recorded"]
    /\ UNCHANGED <<session, request, page, begun, drafts, discarded, lost,
                   overlapped, signed>>

---------------------------------------------------------------------------
(* The task list's own actions *)

ShowTaskList(c) ==
    /\ Created(c)
    /\ page' = TaskList(c)
    /\ UNCHANGED <<session, request, record, begun, drafts, discarded, lost,
                   overlapped, signed>>

\* submitApplication: neither the state of the case nor its version is checked.
SubmitApplication ==
    /\ page.ready = "yes"
    /\ IsOpen(page.case)
    /\ record' = [record EXCEPT ![page.case].state = "submitted"]
    /\ page' = NoPage
    /\ UNCHANGED <<session, request, begun, drafts, discarded, lost, overlapped, signed>>

\* closeIneligibleCase: by the page, whatever the case is by now.
CloseIneligibleCase ==
    /\ page.closable = "yes"
    /\ IsOpen(page.case)
    /\ record' = [record EXCEPT ![page.case].state = "closed"]
    /\ page' = NoPage
    /\ UNCHANGED <<session, request, begun, drafts, discarded, lost, overlapped, signed>>

\* An export is of the selected office's cases only, and ends the request.
Exportable(r, c) == Created(c) /\ record[c].office = request[r].copy.office

Export(r) ==
    /\ request[r].pc = "open"
    /\ \E c \in Cases : Exportable(r, c)
    /\ Leaves(r, request[r].copy)
    /\ UNCHANGED <<session, record, page, begun, drafts, discarded, lost,
                   overlapped, signed>>

---------------------------------------------------------------------------

\* The copy is stored, whatever was stored since it was loaded.
Save(r) ==
    /\ request[r].pc = "ending"
    /\ session' = request[r].copy
    /\ overlapped' = IF Overlaps(r)
                     THEN overlapped \cup NumberOf(session.draft)
                              \cup NumberOf(request[r].copy.draft)
                     ELSE overlapped
    /\ request' = [request EXCEPT ![r] = Idle]
    /\ UNCHANGED <<record, page, begun, drafts, discarded, lost, signed>>

Next ==
    \/ \E r \in Requests :
          \/ Begin(r) \/ ShowOffices(r) \/ SetSelectedOffice(r) \/ Look(r)
          \/ Answer(r) \/ DropOut(r) \/ CreateApplication(r)
          \/ Sign(r) \/ SubmitSignedDeclaration(r) \/ Export(r) \/ Save(r)
    \/ \E c \in Cases : UpdateMeans(c) \/ UpdateEvidence(c) \/ ShowTaskList(c)
    \/ SubmitApplication
    \/ CloseIneligibleCase

Spec == Init /\ [][Next]_vars

---------------------------------------------------------------------------
(* Properties *)

Numbers == 1 .. MaxDrafts

Sessions ==
    [claims : SUBSET Offices, office : Offices \cup {Missing},
     draft : Numbers \cup {Missing}, declarations : SUBSET Cases]

RequestStates ==
    [pc : {"idle", "selecting", "open", "ending"}, copy : Sessions, alone : {"yes", "no"}]

Pages ==
    [case : Cases \cup {Missing}, ready : {"yes", "no"}, closable : {"yes", "no"}]

OpenCases ==
    [state : {"open", "submitted", "closed"}, draft : Numbers, office : Offices,
     means : Results \cup {Missing}, evidence : {"none", "recorded"},
     declaration : {"none", "signed"}]

TypeOK ==
    /\ session \in Sessions
    /\ request \in [Requests -> RequestStates]
    /\ record \in [Cases -> OpenCases \cup {NoCase}]
    /\ page \in Pages
    /\ begun \in Nat
    /\ drafts \in 0 .. MaxDrafts
    /\ discarded \subseteq Numbers
    /\ lost \subseteq Numbers
    /\ overlapped \subseteq Numbers
    /\ signed \subseteq Cases

Complete(case) ==
    /\ case.means # Missing
    /\ case.evidence = "recorded"
    /\ case.declaration = "signed"

DraftOf(c) == record[c].draft

\* What a task list shows as ready is complete still, and a submitted case was.
SectionsInv ==
    /\ page.ready = "yes" \/ page.closable = "yes" =>
          page.case \in Cases /\ Created(page.case)
    /\ page.ready = "yes" => Complete(record[page.case])
    /\ \A c \in Cases : record[c].state = "submitted" => Complete(record[c])

\* Declarations, drafted or recorded, are of cases whose own was signed.
DeclarationsInv ==
    /\ session.declarations \subseteq signed
    /\ \A r \in Running : request[r].copy.declarations \subseteq signed
    /\ \A c \in Cases :
          Created(c) /\ record[c].declaration = "signed" => c \in signed

OfficesInv ==
    \A r \in Requests :
        request[r].pc = "open" => request[r].copy.office \in request[r].copy.claims

Recorded(draft) == \E c \in Cases : Created(c) /\ DraftOf(c) = draft

\* A request that overlaps no other is the only one, and what the session holds
\* but the request's copy does not is dropped or recorded.
AloneInv ==
    \A r \in Running :
        request[r].alone = "yes" =>
            /\ Running = {r}
            /\ \/ session.draft = request[r].copy.draft
               \/ session.draft \in discarded \cup {Missing}
               \/ Recorded(session.draft)

\* A draft that is a case is held by no request that is alone, and by the session
\* only until the request that created the case is stored.
RecordedInv ==
    \A c \in Cases :
        Created(c) /\ DraftOf(c) \notin lost \cup overlapped =>
            /\ \A r \in Running :
                   request[r].copy.draft = DraftOf(c) => request[r].alone = "no"
            /\ session.draft = DraftOf(c) => Running # {}

\* Drafts are numbered in the order they were begun.
NumbersInv ==
    /\ session.draft \in (1 .. drafts) \cup {Missing}
    /\ \A r \in Running : request[r].copy.draft \in (1 .. drafts) \cup {Missing}
    /\ \A c \in Cases : Created(c) => DraftOf(c) \in 1 .. drafts

\* A case that was submitted has every section, although the submission checks
\* nothing and the page it was sent from may be long out of date
\* (submitApplication.ts; setTaskListStatuses.ts).
SubmittedIsComplete ==
    \A c \in Cases : record[c].state = "submitted" => Complete(record[c])

\* A declaration is recorded only of a case whose own declaration was signed,
\* whichever cases the drafts of the session are of (journeyDraftKey.ts;
\* submitSignedDeclaration.ts).
DeclaredAsSigned ==
    \A c \in Cases : Created(c) /\ record[c].declaration = "signed" => c \in signed

\* The answers of a draft are in the session, in a request that will store them
\* or in a case, unless the user dropped them, the office was no longer
\* claimed or requests overlapped (createApplication.ts, clearSessionDraft;
\* destroySessionOffice.ts).
NoAnswersLost ==
    \A draft \in 1 .. drafts :
        \/ draft \in discarded \cup overlapped
        \/ session.draft = draft
        \/ \E r \in Running : request[r].copy.draft = draft
        \/ Recorded(draft)

\* No draft becomes two cases, unless the answer to a creation was lost or
\* requests overlapped: the POST has no key that would tell (createApplication.ts).
CreatedOnce ==
    \A c, d \in Cases :
        Created(c) /\ Created(d) /\ c # d /\ DraftOf(c) = DraftOf(d)
            => DraftOf(c) \in lost \cup overlapped

\* The inductive invariant.
IInv ==
    /\ TypeOK /\ SectionsInv /\ DeclarationsInv /\ OfficesInv
    /\ AloneInv /\ RecordedInv /\ NumbersInv

OfficeOfUseIsClaimed ==
    \A r \in Requests, c \in Cases :
        \/ CreateApplication(r) /\ ~Created(c) /\ Created(c)'
        \/ Export(r) /\ Exportable(r, c)
        => record'[c].office \in request[r].copy.claims

\* A case is created for, and exported from, an office of the user's claims, also
\* when a token is refreshed with other claims between the choice of the office
\* and its use (requireAuth.middleware.ts; export.service.ts).
OfficesAreClaimed == [][OfficeOfUseIsClaimed]_vars

=============================================================================
