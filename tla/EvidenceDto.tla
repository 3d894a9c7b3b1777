---------------------------- MODULE EvidenceDto ----------------------------
(***************************************************************************)
(* The evidence of an application: what can be ticked, the answers of the   *)
(* evidence journey, the record the API keeps of them, and the mapping of   *)
(* each to the other.                                                      *)
(***************************************************************************)

CONSTANTS
    Missing,    \* an answer, or a field of the record, that is not there
    Details,    \* what users write about having no evidence
    NoEvidence  \* the application has no evidence yet

Maybe(S) == S \cup {Missing}

YesNo == {"yes", "no"}

Given(condition, value) == IF condition THEN value ELSE Missing

---------------------------------------------------------------------------
(* The evidence a provider can tick, by page and group *)

IncomeItems ==
    [asylumSupport |-> {"asylumSupportLetter"},
     benefitsInKind |-> {"p11dTaxForm"},
     employed |-> {"wageSlips"},
     other |-> {"evidenceOfRentalIncome", "evidenceOfTrustIncome",
                "letterFromFriendOrFamily", "pensionDocuments",
                "studentLoanLetter", "other"},
     selfEmployed |-> {"bankStatements", "completeFinancialAccounts",
                       "selfAssessmentTaxReturn", "cashBook"},
     stateBenefits |-> {"latestBenefitChangeLetter", "passportingBenefitLetter",
                        "originalNotificationLetter"},
     taxCredits |-> {"latestTaxCreditAwardNotice", "otherRecentHMRCLetter"}]

ExpenditureItems ==
    [childCare |-> {"bankStatementsChildCare", "agreementOrContract"},
     housingCosts |-> {"bankStatementsHousing", "mortgageStatement", "rentStatement"},
     income |-> {"wageSlips", "taxCalculationSheet"},
     maintenance |-> {"bankStatementsMaintenance", "maintenanceOrder", "receipts"}]

CapitalItems ==
    [capital |-> {"bankStatementCapital", "savingsCertificatePassbook",
                  "premiumBondsStatement", "shareCertificate"}]

IncomeEvidence == {"asylumSupport", "benefitsInKind", "employed", "other",
                   "selfEmployed", "stateBenefits", "taxCredits"}
ExpenditureEvidence == {"childCare", "housingCosts", "income", "maintenance"}
CapitalEvidence == {"capital"}

Groups == IncomeEvidence \cup ExpenditureEvidence \cup CapitalEvidence

ItemsOf(group) ==
    CASE group \in IncomeEvidence -> IncomeItems[group]
      [] group \in ExpenditureEvidence -> ExpenditureItems[group]
      [] group \in CapitalEvidence -> CapitalItems[group]

Items == UNION {ItemsOf(group) : group \in Groups}

---------------------------------------------------------------------------
(* Answers and records *)

ExemptionReasonCodes == {"notPossibleBeforeStart", "adviceOverPhone", "personalCircumstances"}

\* The ticks of each group; without a page that has it, a group is missing.
Lists == {lists \in [Groups -> Maybe(SUBSET Items)] :
            \A group \in Groups : lists[group] # Missing => lists[group] \subseteq ItemsOf(group)}

NoLists == [group \in Groups |-> Missing]

Answers ==
    [doYouHaveEvidence : Maybe(YesNo),
     reasonForNoEvidence : Maybe(ExemptionReasonCodes),
     moreDetailsForNoEvidence : Maybe(Details),
     haveEvidenceOfExpenditure : Maybe(YesNo),
     haveEvidenceOfCapital : Maybe(YesNo),
     lists : Lists]

NoAnswers ==
    [doYouHaveEvidence |-> Missing, reasonForNoEvidence |-> Missing,
     moreDetailsForNoEvidence |-> Missing, haveEvidenceOfExpenditure |-> Missing,
     haveEvidenceOfCapital |-> Missing, lists |-> NoLists]

\* A null checklist and one without groups read the same, but to the task list.
Evidence ==
    [exemptionCode : Maybe(ExemptionReasonCodes \cup {"none"}),
     exemptionReason : Maybe(Details),
     hasChecklists : BOOLEAN,
     lists : Lists]

EmptyEvidence ==
    [exemptionCode |-> Missing, exemptionReason |-> Missing,
     hasChecklists |-> FALSE, lists |-> NoLists]

Recorded(e) == IF e = NoEvidence THEN EmptyEvidence ELSE e

\* EvidenceDto.toAnswers.
RecordedAnswers(e) ==
    LET hasEvidenceExemption == e.exemptionCode \notin {Missing, "none"}
        hasExpenditureEvidence == \A group \in ExpenditureEvidence : e.lists[group] # Missing
        hasCapitalEvidence == \A group \in CapitalEvidence : e.lists[group] # Missing
    IN
    [doYouHaveEvidence |-> IF hasEvidenceExemption THEN "no" ELSE "yes",
     reasonForNoEvidence |-> Given(e.exemptionCode # "none", e.exemptionCode),
     moreDetailsForNoEvidence |-> e.exemptionReason,
     haveEvidenceOfExpenditure |-> IF hasExpenditureEvidence THEN "yes" ELSE "no",
     haveEvidenceOfCapital |-> IF hasCapitalEvidence THEN "yes" ELSE "no",
     lists |-> e.lists]

ToAnswers(e) == IF e = NoEvidence THEN NoAnswers ELSE RecordedAnswers(e)

\* Variant: the exemption and the checklists are sent side by side.
SentWithoutBranch(answers) ==
    [exemptionCode |-> answers.reasonForNoEvidence,
     exemptionReason |-> answers.moreDetailsForNoEvidence,
     hasChecklists |-> TRUE,
     lists |-> answers.lists]

\* EvidenceDto.fromAnswers and toRcwApi: the three yes-or-no answers about what
\* there is evidence of are not sent, and only the first one decides anything.
Sent(answers) ==
    IF answers.doYouHaveEvidence = "no"
    THEN [EmptyEvidence EXCEPT !.exemptionCode = answers.reasonForNoEvidence,
                               !.exemptionReason = answers.moreDetailsForNoEvidence]
    ELSE [EmptyEvidence EXCEPT !.hasChecklists = TRUE, !.lists = answers.lists]

\* Variant: checklists alone are no evidence.
CompletedByExemption(e) ==
    Recorded(e).exemptionCode # Missing \/ Recorded(e).exemptionReason # Missing

\* setTaskListStatuses on a case whose means are assessed: some field has a value.
EvidenceCompleted(e) ==
    \/ Recorded(e).exemptionCode # Missing
    \/ Recorded(e).exemptionReason # Missing
    \/ Recorded(e).hasChecklists

ASSUME DtoAssumption ==
    /\ Missing \notin YesNo \cup ExemptionReasonCodes \cup {"none"} \cup Details
    /\ \A group \in Groups : \A ticks \in SUBSET ItemsOf(group) : ticks # Missing
    /\ NoEvidence \notin Evidence

=============================================================================
