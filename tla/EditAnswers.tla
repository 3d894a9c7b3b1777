---------------------------- MODULE EditAnswers ----------------------------
(***************************************************************************)
(* The questions of the edit-client-details journey: how the submissions of *)
(* its pages change the draft, what check-answers shows of it and demands,  *)
(* and what the API comes to record.                                        *)
(*                                                                         *)
(* One user edits one application.  Every page but three can be entered at  *)
(* any time and in any order, and answers of a branch that was left stay in *)
(* the draft.  Stale versions of the application are the subject of         *)
(* EditClientDetails: here a refused update just keeps the draft.           *)
(***************************************************************************)
EXTENDS ApplicationDto, Naturals, FiniteSets

CONSTANTS
    Saved,      \* the applications the API may hold at first
    MaxPages,   \* bound: how many pages are answered between two loads
    MaxUpdates, \* bound: how many updates are taken while pages are answered
    NoDraft

ASSUME EditAssumption ==
    Saved \subseteq Applications /\ NoDraft \notin Answers

VARIABLES
    application,    \* what the API records
    draft,          \* session.journeyDrafts[draftKey]
    answered,       \* history: the pages submitted since the draft was loaded
    updates         \* history: how many updates were taken

vars == <<application, draft, answered, updates>>

---------------------------------------------------------------------------
(* What check-answers shows *)

RowsOfAllCases ==
    {"ecf", "familyLawClassification", "legalAidBefore", "client", "niNumber",
     "haveAHomeAddress", "address"}

RowsOfSomeCases ==
    {"needsAdviceOnMaintenance", "needsProtectiveInjunction", "laspoEvidenceScope",
     "careProceedingsStarted", "legalAidLast6Months", "reasonForYes"}

\* Variant: recent legal aid is not asked about on the same matter.
VisibleRowsWithoutRecentAid(answers) ==
    RowsOfAllCases
    \cup (IF answers.familyLawClassification = "private"
          THEN {"needsAdviceOnMaintenance"} ELSE {"careProceedingsStarted"})

\* The visibleWhen of checkAnswersModel.
VisibleRows(answers) ==
    LET private == answers.familyLawClassification = "private"
        public == answers.familyLawClassification = "public"
        sameMatter == answers.legalAidBefore = "yesSameMatter"
        recent == sameMatter /\ answers.legalAidLast6Months = "yes"
        injunction == private /\ answers.needsAdviceOnMaintenance = "no"
        scope == injunction /\ answers.needsProtectiveInjunction = "no"
        Row(visible, row) == IF visible THEN {row} ELSE {}
    IN
    RowsOfAllCases
    \cup Row(public, "careProceedingsStarted")
    \cup Row(private, "needsAdviceOnMaintenance")
    \cup Row(injunction, "needsProtectiveInjunction")
    \cup Row(scope, "laspoEvidenceScope")
    \cup Row(sameMatter, "legalAidLast6Months")
    \cup Row(recent, "reasonForYes")

\* The completeWhen of checkAnswersModel.
Completed(answers) ==
    [ecf |-> answers.ecf \in YesNo,
     familyLawClassification |->
        answers.familyLawClassification \in FamilyLawClassification,
     needsAdviceOnMaintenance |-> answers.needsAdviceOnMaintenance \in YesNo,
     needsProtectiveInjunction |-> answers.needsProtectiveInjunction \in YesNo,
     laspoEvidenceScope |-> answers.laspoEvidenceScope # Missing,
     careProceedingsStarted |-> answers.careProceedingsStarted \in YesNo,
     legalAidBefore |-> answers.legalAidBefore \in PriorLegalAid,
     legalAidLast6Months |-> answers.legalAidLast6Months \in YesNo,
     reasonForYes |-> answers.reasonForYes # Missing,
     client |-> answers.client # Missing,
     niNumber |-> \/ answers.hasNINumber = "no"
                  \/ answers.hasNINumber = "yes" /\ answers.niNumber # Missing,
     haveAHomeAddress |-> answers.haveAHomeAddress \in YesNo,
     address |-> \/ answers.haveAHomeAddress # "yes"
                 \/ answers.ukAddress # Missing
                 \/ answers.osAddress # Missing]

CheckAnswersComplete(answers) ==
    \A row \in VisibleRows(answers) : Completed(answers)[row]

\* The values of the summary list; a completed row without one reads "No".
Shown(answers) ==
    LET Label(answer) == IF answer = "yes" THEN "yes" ELSE "no"
    IN
    [ecf |-> Label(answers.ecf),
     familyLawClassification |->
        IF answers.familyLawClassification = "public" THEN "public" ELSE "private",
     needsAdviceOnMaintenance |-> Label(answers.needsAdviceOnMaintenance),
     needsProtectiveInjunction |-> Label(answers.needsProtectiveInjunction),
     laspoEvidenceScope |-> answers.laspoEvidenceScope,
     careProceedingsStarted |-> Label(answers.careProceedingsStarted),
     legalAidBefore |-> IF answers.legalAidBefore = Missing THEN "no"
                        ELSE answers.legalAidBefore,
     legalAidLast6Months |-> Label(answers.legalAidLast6Months),
     reasonForYes |-> answers.reasonForYes,
     client |-> answers.client,
     niNumber |-> Given(answers.hasNINumber = "yes", answers.niNumber),
     haveAHomeAddress |-> Label(answers.haveAHomeAddress),
     address |-> Given(answers.haveAHomeAddress = "yes",
                       IF answers.ukAddress # Missing THEN answers.ukAddress
                       ELSE answers.osAddress)]

\* addressStepResolver: the page the address row links to.
AddressPage(answers) ==
    IF answers.osAddress # Missing THEN "enter-overseas-address"
    ELSE "enter-address-manually"

---------------------------------------------------------------------------
(* The journey *)

Pages ==
    {"ecf", "family-type-of-case", "international-maintenance-agreement",
     "protect-themself", "prove-in-scope", "care-proceedings", "legal-aid-before",
     "legal-aid-last-6-months", "client-details", "ni-number", "have-a-home-address",
     "enter-address-manually", "enter-overseas-address"}

TypeOK ==
    /\ application \in Applications
    /\ draft \in Answers \cup {NoDraft}
    /\ answered \subseteq Pages
    /\ updates \in Nat

Init ==
    /\ application \in Saved
    /\ draft = NoDraft
    /\ answered = {}
    /\ updates = 0

\* loadApplicationAsAnswers, at the start of every request of the journey.
Loaded == IF draft = NoDraft THEN ToAnswers(application) ELSE draft

Open ==
    /\ draft' = Loaded
    /\ UNCHANGED <<application, answered, updates>>

\* The end of a valid submission of a page: clearFieldAnswers, saveDraftAnswers.
Submit(page, answers) ==
    /\ updates < MaxUpdates
    /\ Cardinality(answered \cup {page}) <= MaxPages
    /\ draft' = answers
    /\ answered' = answered \cup {page}
    /\ UNCHANGED <<application, updates>>

Ecf ==
    \E answer \in YesNo :
        Submit("ecf", [Loaded EXCEPT !.ecf = answer])

\* Leaving private law forgets that maintenance was asked about, and nothing else.
FamilyTypeOfCase ==
    \/ Submit("family-type-of-case",
              [Loaded EXCEPT !.familyLawClassification = "private"])
    \/ Submit("family-type-of-case",
              [Loaded EXCEPT !.familyLawClassification = "public",
                             !.needsAdviceOnMaintenance = Missing])

InternationalMaintenanceAgreement ==
    \E answer \in YesNo :
        Submit("international-maintenance-agreement",
               [Loaded EXCEPT !.needsAdviceOnMaintenance = answer])

ProtectThemself ==
    \E answer \in YesNo :
        Submit("protect-themself", [Loaded EXCEPT !.needsProtectiveInjunction = answer])

ProveInScope ==
    \E scope \in LaspoEvidenceScope :
        Submit("prove-in-scope", [Loaded EXCEPT !.laspoEvidenceScope = scope])

CareProceedings ==
    \E answer \in YesNo :
        Submit("care-proceedings", [Loaded EXCEPT !.careProceedingsStarted = answer])

LegalAidBefore ==
    \/ Submit("legal-aid-before", [Loaded EXCEPT !.legalAidBefore = "yesSameMatter"])
    \/ \E answer \in PriorLegalAid \ {"yesSameMatter"} :
           Submit("legal-aid-before",
                  [Loaded EXCEPT !.legalAidBefore = answer,
                                 !.legalAidLast6Months = Missing,
                                 !.reasonForYes = Missing])

LegalAidLast6Months ==
    \/ Submit("legal-aid-last-6-months",
              [Loaded EXCEPT !.legalAidLast6Months = "no", !.reasonForYes = Missing])
    \/ \E reason \in Reasons :
           Submit("legal-aid-last-6-months",
                  [Loaded EXCEPT !.legalAidLast6Months = "yes", !.reasonForYes = reason])

ClientDetails ==
    \E client \in Clients :
        Submit("client-details", [Loaded EXCEPT !.client = client])

\* Whether the form keeps a number it no longer asks for is the library's choice.
NiNumber ==
    \/ \E number \in {Loaded.niNumber, Missing} :
           Submit("ni-number",
                  [Loaded EXCEPT !.hasNINumber = "no", !.niNumber = number])
    \/ \E number \in NiNumbers :
           Submit("ni-number",
                  [Loaded EXCEPT !.hasNINumber = "yes", !.niNumber = number])

HaveAHomeAddress ==
    \/ Submit("have-a-home-address",
              [Loaded EXCEPT !.haveAHomeAddress = "no",
                             !.ukAddress = Missing, !.osAddress = Missing])
    \/ Submit("have-a-home-address", [Loaded EXCEPT !.haveAHomeAddress = "yes"])

\* Variant: the overseas address is not cleared.
EnterAddressBesideOverseas ==
    \E address \in UkAddresses :
        Submit("enter-address-manually", [Loaded EXCEPT !.ukAddress = address])

\* With returnTo=check-answers it can be entered without a home address too.
EnterAddressManually ==
    \E address \in UkAddresses :
        Submit("enter-address-manually",
               [Loaded EXCEPT !.ukAddress = address, !.osAddress = Missing])

EnterOverseasAddress ==
    /\ Loaded.haveAHomeAddress = "yes"
    /\ \E address \in Overseas :
           Submit("enter-overseas-address",
                  [Loaded EXCEPT !.osAddress = address, !.ukAddress = Missing])

\* ecf-dropout and not-in-scope: clearAllDraftAnswers.
DropOut ==
    /\ Loaded.ecf = "yes" \/ Loaded.laspoEvidenceScope = "none"
    /\ draft' = NoDraft
    /\ answered' = {}
    /\ UNCHANGED <<application, updates>>

Sendable(answers) ==
    /\ CheckAnswersComplete(answers)
    /\ Parses(answers)
    /\ ~Throws(answers)
    /\ FitsSchema(Details(answers))

\* check-answers is submitted and the API takes the update.
UpdateClientDetails ==
    /\ draft' = NoDraft
    /\ answered' = {}
    /\ updates < MaxUpdates
    /\ updates' = updates + 1
    /\ Sendable(Loaded)
    /\ application' = Details(Loaded)

\* An incomplete or unacceptable draft, or an update the API refuses: it is kept.
UpdateFails ==
    /\ draft' = Loaded
    /\ UNCHANGED <<application, answered, updates>>

Next ==
    \/ Open
    \/ Ecf
    \/ FamilyTypeOfCase
    \/ InternationalMaintenanceAgreement
    \/ ProtectThemself
    \/ ProveInScope
    \/ CareProceedings
    \/ LegalAidBefore
    \/ LegalAidLast6Months
    \/ ClientDetails
    \/ NiNumber
    \/ HaveAHomeAddress
    \/ EnterAddressManually
    \/ EnterOverseasAddress
    \/ DropOut
    \/ UpdateClientDetails
    \/ UpdateFails

Spec == Init /\ [][Next]_vars

---------------------------------------------------------------------------
(* Properties *)

\* The address row's change link leads to the form the shown address was entered
\* in: addressFormatResolver goes by the UK country, addressStepResolver by the
\* overseas one, so no draft may hold both.
AddressLinkFits ==
    draft # NoDraft /\ draft.ukAddress # Missing
        => AddressPage(draft) = "enter-address-manually"

\* The page that gives each answer a value; no step asks for parental
\* responsibility yet.
AskedOn ==
    [ecf |-> "ecf",
     familyLawClassification |-> "family-type-of-case",
     needsAdviceOnMaintenance |-> "international-maintenance-agreement",
     needsProtectiveInjunction |-> "protect-themself",
     laspoEvidenceScope |-> "prove-in-scope",
     careProceedingsStarted |-> "care-proceedings",
     careProceedingsParentalResponsibility |-> "parental-responsibility",
     legalAidBefore |-> "legal-aid-before",
     legalAidLast6Months |-> "legal-aid-last-6-months",
     reasonForYes |-> "legal-aid-last-6-months",
     client |-> "client-details",
     hasNINumber |-> "ni-number",
     niNumber |-> "ni-number",
     haveAHomeAddress |-> "have-a-home-address",
     ukAddress |-> "enter-address-manually",
     osAddress |-> "enter-overseas-address"]

\* An answer in the draft is the application's, or it was cleared, or the page
\* that asks for it was submitted: what no other page may write.
DraftFollowsPages ==
    IF draft = NoDraft THEN answered = {}
    ELSE \A field \in DOMAIN AskedOn :
            \/ AskedOn[field] \in answered
            \/ draft[field] \in {ToAnswers(application)[field], Missing}

IInv == TypeOK /\ AddressLinkFits /\ DraftFollowsPages

\* What check-answers calls complete, the mapping to the API does accept: its
\* rules, those of Answers, toRcwApi's demand for a reason and the branches of
\* the request's schema are four texts.  The exception is a country that is not
\* one of the list's.
CompleteIsAccepted ==
    \A answers \in {draft} \ {NoDraft} :
        CheckAnswersComplete(answers) /\ answers.osAddress \notin UnlistedAddresses
            => Parses(answers) /\ ~Throws(answers) /\ FitsSchema(Details(answers))

\* The values an application would be shown with.
Recorded(app) ==
    [ecf |-> YesOrNo(app.ecfFlag),
     familyLawClassification |-> app.familyLawClassification,
     needsAdviceOnMaintenance |-> YesOrNo(app.needsAdviceOnMaintenance),
     needsProtectiveInjunction |-> YesOrNo(app.needsProtectiveInjunction),
     laspoEvidenceScope |-> app.laspoEvidenceScope,
     careProceedingsStarted |-> YesOrNo(app.careProceedingsStarted),
     legalAidBefore |-> app.priorLegalAid,
     legalAidLast6Months |-> YesOrNo(app.reasonForReapplication # Missing),
     reasonForYes |-> app.reasonForReapplication,
     client |-> app.client,
     niNumber |-> app.niNumber,
     haveAHomeAddress |-> YesOrNo(app.hasFixedAddress),
     address |-> app.address]

\* An update records what check-answers showed, row by row, and nothing of the
\* rows it did not show, whatever answers of other branches the draft still holds.
UpdateRecordsShown ==
    UpdateClientDetails =>
       /\ \A row \in VisibleRows(Loaded) : Recorded(application')[row] = Shown(Loaded)[row]
       /\ \A row \in RowsOfSomeCases \ VisibleRows(Loaded) :
             Recorded(application')[row] \in {Missing, "no"}

SavedAsShown == [][UpdateRecordsShown]_vars

\* An updated application that is opened again shows the rows and values it was
\* updated with, all of them complete.
UpdateReopens ==
    UpdateClientDetails =>
       LET again == ToAnswers(application')
       IN /\ VisibleRows(again) = VisibleRows(Loaded)
          /\ \A row \in VisibleRows(again) : Shown(again)[row] = Shown(Loaded)[row]
          /\ CheckAnswersComplete(again)

ReopensAsShown == [][UpdateReopens]_vars

\* The pages that ask for what a field of the application records.
PagesOf ==
    [ecfFlag |-> {"ecf"},
     priorLegalAid |-> {"legal-aid-before"},
     familyLawClassification |-> {"family-type-of-case"},
     needsAdviceOnMaintenance |-> {"international-maintenance-agreement"},
     needsProtectiveInjunction |-> {"protect-themself"},
     laspoEvidenceScope |-> {"prove-in-scope"},
     careProceedingsStarted |-> {"care-proceedings"},
     reasonForReapplication |-> {"legal-aid-last-6-months"},
     client |-> {"client-details"},
     niNumber |-> {"ni-number"},
     hasFixedAddress |-> {"have-a-home-address"},
     address |-> {"have-a-home-address", "enter-address-manually",
                  "enter-overseas-address"}]

\* An update changes a field only if the user submitted a page that asks for it
\* since the draft was loaded, or to drop it with the branch it belonged to.  An
\* evidence scope that was not recorded is the exception NoScopeMadeUp is about.
UpdateChangesAnswered ==
    UpdateClientDetails =>
       \A field \in DOMAIN PagesOf :
          \/ PagesOf[field] \cap answered # {}
          \/ application'[field] \in {application[field], Missing}
          \/ field = "laspoEvidenceScope" /\ application[field] = Missing

OnlyAnsweredChanges == [][UpdateChangesAnswered]_vars

\* The unit test "doesn't default scoping question answers if data is missing":
\* an evidence scope that was not recorded is recorded only when the user gives it.
NoScopeMadeUp ==
    [][UpdateClientDetails /\ "prove-in-scope" \notin answered =>
          application'.laspoEvidenceScope \in {application.laspoEvidenceScope, Missing}]_vars

=============================================================================
