---------------------------- MODULE MeansExport ----------------------------
(***************************************************************************)
(* What the export of a case makes of a means assessment: the answers it    *)
(* shows, card by card, and the outcome and totals it reports.              *)
(*                                                                         *)
(* A field is whose answer it is and its name; the partner's fields go by    *)
(* the client's names.  A frequency goes with its amount and is left out,    *)
(* and of the additional properties two are modelled.                       *)
(***************************************************************************)
EXTENDS Integers, FiniteSets, Sequences

CONSTANTS
    Missing,    \* absent, null or undefined
    Amounts     \* amounts, counts, lists of entries: what is only shown

ASSUME MeansAssumption ==
    Missing \notin Amounts \cup {"yes", "no", "controlled", "under_18"}

YesNo == {"yes", "no"}

Maybe(S) == S \cup {Missing}

When(cond, set) == IF cond THEN set ELSE {}

---------------------------------------------------------------------------
(* The saved answers *)

Adults == {"client", "partner"}

AgeRanges == {"under_18", "standard", "over_60"}

PropertyOwnership == {"none", "outright", "shared_ownership", "with_mortgage"}

IncomeTypes == {"employment", "self_employment", "statutory_pay"}

\* The answers that choose the route of an assessment; no card shows them.
RouteSelectors ==
    {"level_of_help", "controlled_legal_representation", "immigration_or_asylum",
     "asylum_support", "aggregated_means", "regular_income", "under_eighteen_assets"}

\* Of each kind of other income and payment: whether there is any, and how much.
OtherIncome ==
    [friends_or_family_relevant |-> "friends_or_family_conditional_value",
     maintenance_relevant |-> "maintenance_conditional_value",
     property_or_lodger_relevant |-> "property_or_lodger_conditional_value",
     pension_relevant |-> "pension_conditional_value",
     student_finance_relevant |-> "student_finance_conditional_value",
     other_relevant |-> "other_conditional_value"]

Payments ==
    [childcare_payments_relevant |-> "childcare_payments_conditional_value",
     maintenance_payments_relevant |-> "maintenance_payments_conditional_value",
     legal_aid_payments_relevant |-> "legal_aid_payments_conditional_value"]

Assets ==
    [investments_relevant |-> "investments", valuables_relevant |-> "valuables"]

Disputes ==
    [investments_relevant |-> "investments_in_dispute",
     valuables_relevant |-> "valuables_in_dispute"]

HouseholdToggles ==
    {"passporting", "partner", "partner_over_60", "child_dependants",
     "adult_dependants", "dependants_get_income", "property_landlord",
     "housing_benefit_relevant"}

HouseholdAmounts ==
    {"child_dependants_count", "adult_dependants_count", "dependant_incomes",
     "housing_payments", "housing_loan_payments", "rent", "shared_ownership_mortgage",
     "housing_benefit_value", "house_value", "mortgage", "percentage_owned"}

AdultToggles ==
    {"receives_benefits", "second_property_inline_owned_with_mortgage"}
    \cup DOMAIN OtherIncome \cup DOMAIN Payments \cup DOMAIN Assets

AdultAmounts ==
    {"benefits", "first_property", "first_property_mortgage", "second_property",
     "second_property_mortgage", "bank_accounts"}
    \cup {OtherIncome[name] : name \in DOMAIN OtherIncome}
    \cup {Payments[name] : name \in DOMAIN Payments}
    \cup {Assets[name] : name \in DOMAIN Assets}

\* A partner's assets cannot be in dispute.
ClientDisputes ==
    {"house_in_dispute", "account_in_dispute"}
    \cup {Disputes[name] : name \in DOMAIN Disputes}

Fields ==
    {"household"} \X ({"client_age", "property_owned"} \cup RouteSelectors
                        \cup HouseholdToggles \cup HouseholdAmounts)
    \cup Adults \X ({"employment_status", "incomes", "additional_property_owned"}
                        \cup AdultToggles \cup AdultAmounts)
    \cup {"client"} \X ClientDisputes

SpecialChoices ==
    [client_age |-> AgeRanges,
     level_of_help |-> {"controlled"},
     property_owned |-> PropertyOwnership,
     additional_property_owned |-> PropertyOwnership,
     employment_status |-> {"in_work", "unemployed"},
     incomes |-> {{}, {"statutory_pay"}, {"employment", "statutory_pay"}}]

\* What CCQ can save as an answer.  RCW exports controlled work only (export.md).
Choices(name) ==
    IF name \in DOMAIN SpecialChoices THEN SpecialChoices[name]
    ELSE IF name \in HouseholdAmounts \cup AdultAmounts THEN Amounts
    ELSE YesNo

Ask(answers, who, name) == answers[<<who, name>>]

Says(answers, who, name) == answers[<<who, name>>] = "yes"

Household(names) == {"household"} \X names

Of(adult, names) == {adult} \X names

---------------------------------------------------------------------------
(* The routes *)

\* Nothing is asked of a person under eighteen without income and assets.
NoIncomeOrAssets(answers) ==
    \A name \in {"aggregated_means", "regular_income", "under_eighteen_assets"} :
        ~Says(answers, "household", name)

AsylumSupported(answers) ==
    /\ Says(answers, "household", "immigration_or_asylum")
    /\ Says(answers, "household", "asylum_support")

IsMeansTested(answers) ==
    LET underEighteen == Ask(answers, "household", "client_age") = "under_18"
    IN  /\ ~( /\ underEighteen
              /\ Ask(answers, "household", "level_of_help") = "controlled"
              /\ Says(answers, "household", "controlled_legal_representation"))
        /\ ~(underEighteen /\ NoIncomeOrAssets(answers))
        /\ ~AsylumSupported(answers)

IsIncomeAssessmentRelevant(answers) ==
    /\ IsMeansTested(answers)
    /\ Ask(answers, "household", "passporting") = "no"

\* isMeansAssessmentExemptOrPassported: what excuses a result without totals.
\* It does not look at the level of help.
IsExemptOrPassported(answers) ==
    \/ AsylumSupported(answers)
    \/ /\ Ask(answers, "household", "client_age") = "under_18"
       /\ \/ Says(answers, "household", "controlled_legal_representation")
          \/ NoIncomeOrAssets(answers)
    \/ Says(answers, "household", "passporting")

---------------------------------------------------------------------------
(* The cards of the answers: which fields each shows *)

IsPresent(answers, adult) ==
    adult = "client" \/ Says(answers, "household", "partner")

IncomeShown(answers, adult) ==
    IsIncomeAssessmentRelevant(answers) /\ IsPresent(answers, adult)

CapitalShown(answers, adult) == IsMeansTested(answers) /\ IsPresent(answers, adult)

ClientRows(answers) ==
    Household({"client_age"})
    \cup When(IsMeansTested(answers), Household({"partner", "passporting"}))

HasDependants(answers) ==
    \/ Says(answers, "household", "child_dependants")
    \/ Says(answers, "household", "adult_dependants")

\* Variant: the dependants' incomes go by their own question alone.
DependantRowsOfOwnQuestion(answers) ==
    When(IsIncomeAssessmentRelevant(answers),
         Household({"child_dependants", "adult_dependants"})
         \cup When(Says(answers, "household", "child_dependants"),
                   Household({"child_dependants_count"}))
         \cup When(Says(answers, "household", "adult_dependants"),
                   Household({"adult_dependants_count"}))
         \cup When(HasDependants(answers), Household({"dependants_get_income"}))
         \cup When(Says(answers, "household", "dependants_get_income"),
                   Household({"dependant_incomes"})))

DependantRows(answers) ==
    When(IsIncomeAssessmentRelevant(answers),
         Household({"child_dependants", "adult_dependants"})
         \cup When(Says(answers, "household", "child_dependants"),
                   Household({"child_dependants_count"}))
         \cup When(Says(answers, "household", "adult_dependants"),
                   Household({"adult_dependants_count"}))
         \cup When(HasDependants(answers), Household({"dependants_get_income"}))
         \cup When(/\ HasDependants(answers)
                   /\ Says(answers, "household", "dependants_get_income"),
                   Household({"dependant_incomes"})))

EmploymentRows(answers, adult) ==
    When(IncomeShown(answers, adult), Of(adult, {"employment_status"}))
    \cup When(CapitalShown(answers, "partner"), Household({"partner_over_60"}))

IncomeRows(answers, adult) ==
    When(/\ IncomeShown(answers, adult)
         /\ Ask(answers, adult, "employment_status") = "in_work",
         Of(adult, {"incomes"}))

BenefitRows(answers, adult) ==
    When(IncomeShown(answers, adult),
         Of(adult, {"receives_benefits"})
         \cup When(Says(answers, adult, "receives_benefits"), Of(adult, {"benefits"})))

OtherIncomeRows(answers, adult) ==
    When(IncomeShown(answers, adult),
         Of(adult, DOMAIN OtherIncome)
         \cup Of(adult, {OtherIncome[name] : name \in
                            {n \in DOMAIN OtherIncome : Says(answers, adult, n)}}))

\* By the incomes that are saved, whatever the employment status now says.
QualifiesForChildcare(answers, adult) ==
    \/ Says(answers, adult, "student_finance_relevant")
    \/ Ask(answers, adult, "incomes") \notin {Missing, {}, {"statutory_pay"}}

IsChildcareAvailable(answers) ==
    /\ Says(answers, "household", "child_dependants")
    /\ \A adult \in Adults :
           IsPresent(answers, adult) => QualifiesForChildcare(answers, adult)

OutgoingsRows(answers, adult) ==
    LET available ==
            IF IsChildcareAvailable(answers) THEN DOMAIN Payments
            ELSE DOMAIN Payments \ {"childcare_payments_relevant"}
    IN
    When(IncomeShown(answers, adult),
         Of(adult, available)
         \cup Of(adult, {Payments[name] : name \in
                            {n \in available : Says(answers, adult, n)}}))

\* The toggle of the housing benefit is told by its own row or by the amount's.
HousingBenefitRows(answers) ==
    Household({"housing_benefit_relevant"})
    \cup When(Says(answers, "household", "housing_benefit_relevant"),
              Household({"housing_benefit_value"}))

HousingCostRows(answers) ==
    CASE Ask(answers, "household", "property_owned") = "none" ->
            Household({"housing_payments"}) \cup HousingBenefitRows(answers)
      [] Ask(answers, "household", "property_owned") = "with_mortgage" ->
            Household({"housing_loan_payments"})
      [] Ask(answers, "household", "property_owned") = "shared_ownership" ->
            Household({"rent", "shared_ownership_mortgage"})
            \cup HousingBenefitRows(answers)
      [] OTHER -> {}

MainPropertyRows(answers) ==
    LET owned == Ask(answers, "household", "property_owned")
    IN
    When(owned \in PropertyOwnership \ {"none"},
         Household({"house_value", "percentage_owned"})
         \cup When(owned \in {"with_mortgage", "shared_ownership"},
                   Household({"mortgage"})))

HousingRows(answers) ==
    When(IsMeansTested(answers),
         Household({"property_owned"})
         \cup When(Ask(answers, "household", "property_owned") = "shared_ownership",
                   Household({"property_landlord"}))
         \cup MainPropertyRows(answers))
    \cup When(IsIncomeAssessmentRelevant(answers), HousingCostRows(answers))

IsDisputeApplicable(answers, adult) ==
    adult = "client" /\ ~Says(answers, "household", "immigration_or_asylum")

\* A dispute is a row only where there is one.
DisputeRows(answers, adult, name) ==
    When(IsDisputeApplicable(answers, adult) /\ Says(answers, adult, name),
         Of(adult, {name}))

IsHeld(answers, adult, name) == Ask(answers, adult, name) # Missing

FirstPropertyRows(answers, adult) ==
    When(IsHeld(answers, adult, "first_property"),
         Of(adult, {"first_property"})
         \cup When(Ask(answers, adult, "additional_property_owned") = "with_mortgage",
                   Of(adult, {"first_property_mortgage"}))
         \cup DisputeRows(answers, adult, "house_in_dispute"))

\* Of a later property it is asked whether it has a mortgage.
SecondPropertyRows(answers, adult) ==
    LET mortgaged == "second_property_inline_owned_with_mortgage"
    IN
    When(/\ IsHeld(answers, adult, "first_property")
         /\ IsHeld(answers, adult, "second_property"),
         Of(adult, {"second_property", mortgaged})
         \cup When(Says(answers, adult, mortgaged), Of(adult, {"second_property_mortgage"})))

AdditionalPropertyRows(answers, adult) ==
    When(CapitalShown(answers, adult),
         Of(adult, {"additional_property_owned"})
         \cup When(Ask(answers, adult, "additional_property_owned")
                       \in PropertyOwnership \ {"none"},
                   FirstPropertyRows(answers, adult)
                   \cup SecondPropertyRows(answers, adult)))

BankAccountRows(answers, adult) ==
    When(IsHeld(answers, adult, "bank_accounts"),
         Of(adult, {"bank_accounts"})
         \cup DisputeRows(answers, adult, "account_in_dispute"))

AssetRows(answers, adult) ==
    LET held == {name \in DOMAIN Assets : Says(answers, adult, name)}
    IN
    When(CapitalShown(answers, adult),
         BankAccountRows(answers, adult)
         \cup Of(adult, DOMAIN Assets)
         \cup Of(adult, {Assets[name] : name \in held})
         \cup UNION {DisputeRows(answers, adult, Disputes[name]) : name \in held})

\* answerSections: every card, in the sections of the page.
Rows(answers) ==
    ClientRows(answers) \cup DependantRows(answers) \cup HousingRows(answers)
    \cup UNION {EmploymentRows(answers, adult) \cup IncomeRows(answers, adult)
                \cup BenefitRows(answers, adult) \cup OtherIncomeRows(answers, adult)
                \cup OutgoingsRows(answers, adult)
                \cup AdditionalPropertyRows(answers, adult)
                \cup AssetRows(answers, adult) : adult \in Adults}

\* toMeansAssessmentAnswerSummaries: the answers the export shows.
AnswerSummaries(answers) == [field \in Rows(answers) |-> answers[field]]

\* The answers that belong to the assessment of income.
IncomeRowsOf(answers) ==
    (UNION {EmploymentRows(answers, adult) \cup IncomeRows(answers, adult)
            \cup BenefitRows(answers, adult) \cup OtherIncomeRows(answers, adult)
            \cup OutgoingsRows(answers, adult) : adult \in Adults})
    \ Household({"partner_over_60"})

---------------------------------------------------------------------------
(* The outcome and the totals *)

CfeOutcomes == {"eligible", "contribution_required", "ineligible", "not_calculated"}

Categories == {"grossIncome", "disposableIncome", "capital"}

\* What cfeResultSchema takes for a category; a summary that it does not accept
\* is Missing.  An upper threshold of 999999999999 is no limit.
CfeCategories ==
    [results : Seq(CfeOutcomes), limit : {"limit", "unlimited"}, total : Maybe(Int)]

NotCalculated == [status |-> "not_calculated"]

NotNegative(amount) == IF amount < 0 THEN 0 ELSE amount

\* toCategory: the first proceeding type decides, if any of them was calculated.
Category(name, category) ==
    IF category = Missing THEN NotCalculated
    ELSE IF \A i \in DOMAIN category.results : category.results[i] = "not_calculated"
    THEN NotCalculated
    ELSE [status |-> "calculated",
          outcome |-> IF category.results[1] = "not_calculated" THEN "eligible"
                      ELSE category.results[1],
          unlimited |-> category.limit = "unlimited",
          total |-> IF category.total # Missing /\ name = "capital"
                    THEN NotNegative(category.total)
                    ELSE category.total]

Unavailable == [status |-> "unavailable"]

\* Variant: a result without totals is taken from anybody.
CalculationsOfAll(summary, answers) ==
    LET categories == [name \in Categories |-> Category(name, summary.categories[name])]
    IN
    IF summary = Missing THEN Unavailable
    ELSE IF summary.overall \notin {"eligible", "contribution_required"} THEN Unavailable
    ELSE [status |-> "ready",
          outcome |-> summary.overall,
          contributions |-> summary.contributions,
          categories |-> categories]

\* toMeansAssessmentCalculations
Calculations(summary, answers) ==
    LET categories == [name \in Categories |-> Category(name, summary.categories[name])]
    IN
    IF summary = Missing THEN Unavailable
    ELSE IF summary.overall \notin {"eligible", "contribution_required"} THEN Unavailable
    ELSE IF /\ \A name \in Categories : categories[name] = NotCalculated
            /\ ~(answers # Missing /\ IsExemptOrPassported(answers))
    THEN Unavailable
    ELSE [status |-> "ready",
          outcome |-> summary.overall,
          contributions |-> summary.contributions,
          categories |-> categories]

\* toTotalDetail
TotalDetail(name, category) ==
    IF category.total = Missing THEN Missing
    ELSE IF category.unlimited THEN "noUpperLimit"
    ELSE CASE category.outcome = "ineligible" -> "exceedsUpperLimit"
           [] category.outcome = "contribution_required" -> "contributionRequired"
           [] OTHER -> IF name = "grossIncome" THEN "belowUpperLimit" ELSE "eligible"

\* toTotalSummaries: nothing of the categories that were not calculated.
Totals(calculations) ==
    IF calculations.status # "ready" THEN {}
    ELSE {[total |-> name, amount |-> calculations.categories[name].total,
           detail |-> TotalDetail(name, calculations.categories[name])] :
             name \in {n \in Categories : calculations.categories[n] # NotCalculated}}

\* toMeansAssessmentOutcomeSummary: contributions go with their outcome only.
OutcomeSummary(calculations) ==
    [outcome |-> IF calculations.status = "ready" THEN calculations.outcome
                 ELSE "unavailable",
     contributions |-> IF /\ calculations.status = "ready"
                          /\ calculations.outcome = "contribution_required"
                       THEN calculations.contributions ELSE {},
     totals |-> Totals(calculations)]

\* toMeansAssessmentSection, of an application's eligibility.  Only a case that
\* is recorded to need no assessment has no section; RCW does not record that.
MeansSection(eligibility) ==
    [answers |-> IF eligibility.data = Missing THEN Missing
                 ELSE AnswerSummaries(eligibility.data),
     summary |-> OutcomeSummary(
                   Calculations(IF eligibility.result = Missing THEN Missing
                                ELSE eligibility.result.summary,
                                eligibility.data))]

=============================================================================
