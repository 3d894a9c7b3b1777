----------------------- MODULE MeansAssessmentProofs -----------------------
(***************************************************************************)
(* Proofs about MeansAssessment, for any dates, journeys and responses:    *)
(* the age range is the calendar's, a saved assessment resumes, a result   *)
(* is reported without totals only where no income was asked for, and      *)
(* nothing that is left of a closed branch shows.                          *)
(***************************************************************************)
EXTENDS MeansAssessment, TLAPS

---------------------------------------------------------------------------
(* Answers *)

LEMMA FieldNames ==
    /\ AgeField \in Fields
    /\ <<"household", "level_of_help">> \in Fields
    /\ <<"household", "level_of_help">> # AgeField
    /\ Choices(AgeField[2]) = AgeRanges
    /\ Choices(<<"household", "level_of_help">>[2]) = {"controlled"}
<1>1. AgeField[2] = "client_age" /\ <<"household", "level_of_help">>[2] = "level_of_help"
  BY DEF AgeField
<1>2. Choices("client_age") = AgeRanges
  BY DEF Choices, SpecialChoices
<1>3. Choices("level_of_help") = {"controlled"}
  BY DEF Choices, SpecialChoices
<1>4. <<"household", "level_of_help">> # AgeField
  BY <1>1
<1>5. AgeField \in Fields /\ <<"household", "level_of_help">> \in Fields
  BY DEF AgeField, Fields, RouteSelectors, Household
<1> QED
  BY <1>1, <1>2, <1>3, <1>4, <1>5

LEMMA WithAge ==
    ASSUME NEW answers, AreAnswers(answers), NEW age \in Maybe(AgeRanges)
    PROVE  /\ AreAnswers([answers EXCEPT ![AgeField] = age])
           /\ \A field \in Fields \ {AgeField} :
                  [answers EXCEPT ![AgeField] = age][field] = answers[field]
  BY FieldNames DEF AreAnswers

LEMMA NoAnswers == AreAnswers([field \in Fields |-> Missing])
  BY DEF AreAnswers, Maybe

LEMMA AgeRangeType == \A born, day : DeriveClientAgeRange(born, day) \in Maybe(AgeRanges)
  BY DEF DeriveClientAgeRange, AgeRangeOf, AgeRanges, Maybe

---------------------------------------------------------------------------
(* The inductive invariant *)

LEMMA LoadStep ==
    ASSUME IInv, Load
    PROVE  IInv' /\ LoadResumes
<1> DEFINE saved == IF eligibility.data # Missing /\ eligibility.result # Missing
                    THEN eligibility.data ELSE [field \in Fields |-> Missing]
           age == DeriveClientAgeRange(birth, Today)
<1>1. age \in Maybe(AgeRanges)
  BY AgeRangeType
<1>2. AreAnswers(saved)
  BY NoAnswers DEF IInv
<1>3. eligibility.data # Missing => saved = eligibility.data
  BY DEF IInv
<1>4. ccq' = [saved EXCEPT ![AgeField] = age]
  BY DEF Load, LoadEligibilityAssessment
<1> HIDE DEF saved, age
<1>5. AreAnswers(ccq') /\ \A field \in Fields \ {AgeField} : ccq'[field] = saved[field]
  BY <1>1, <1>2, <1>4, WithAge
<1>6. IInv'
  BY <1>5 DEF Load, IInv, AreAnswers, Started
<1> QED
  BY <1>3, <1>5, <1>6 DEF LoadResumes

LEMMA CompleteJourneyStep ==
    ASSUME IInv, CompleteJourney
    PROVE  IInv'
<1>1. PICK journey \in Journeys : ccq' = [journey EXCEPT ![AgeField] = ccq[AgeField]]
  BY DEF CompleteJourney
<1>2. AreAnswers(journey)
  BY AssessmentAssumption
<1>3. ccq[AgeField] \in Maybe(AgeRanges)
  BY FieldNames DEF IInv, CompleteJourney, AreAnswers
<1>4. AreAnswers(ccq')
  BY <1>1, <1>2, <1>3, WithAge
<1> QED
  BY <1>4 DEF CompleteJourney, IInv, AreAnswers, Started

LEMMA ChangeAnswerStep ==
    ASSUME IInv, ChangeAnswer
    PROVE  IInv'
<1>1. PICK field \in Fields \ {AgeField} :
          \E answer \in Choices(field[2]) : ccq' = [ccq EXCEPT ![field] = answer]
  BY DEF ChangeAnswer
<1>5. PICK answer \in Choices(field[2]) : ccq' = [ccq EXCEPT ![field] = answer]
  BY <1>1
<1>2. AreAnswers(ccq)
  BY DEF IInv, ChangeAnswer
<1>3. answer \in Maybe(Choices(field[2]))
  BY DEF Maybe
<1>4. AreAnswers(ccq')
  BY <1>2, <1>3, <1>5 DEF AreAnswers
<1> QED
  BY <1>4 DEF ChangeAnswer, IInv, AreAnswers, Started

LEMMA SaveStep ==
    ASSUME IInv, Save
    PROVE  IInv'
<1>1. PICK response \in Maybe(Responses) :
          eligibility' = SplitEligibilityAssessment(ccq, response)
  BY DEF Save
<1>2. /\ DOMAIN eligibility' = {"data", "result"}
      /\ eligibility'.data = ccq
      /\ eligibility'.result = [summary |-> response]
      /\ eligibility'.result.summary = response
  BY <1>1 DEF SplitEligibilityAssessment
<1>3. [summary |-> response] # Missing
  BY AssessmentAssumption
<1>4. AreAnswers(ccq) /\ Started(ccq)
  BY DEF IInv, Save
<1>5. AreAnswers(eligibility'.data) /\ Started(eligibility'.data)
  BY <1>2, <1>4
<1> QED
  BY <1>2, <1>3, <1>5 DEF Save, IInv, AreAnswers, Started

LEMMA Initially == Init => IInv
  BY AssessmentAssumption DEF Init, IInv

LEMMA Preserved == IInv /\ [Next]_vars => IInv'
<1> SUFFICES ASSUME IInv, [Next]_vars PROVE IInv'
  OBVIOUS
<1>1. CASE Tomorrow
  BY <1>1, AssessmentAssumption DEF Tomorrow, IInv, AreAnswers, Started
<1>2. CASE EditDateOfBirth
  BY <1>2 DEF EditDateOfBirth, IInv, AreAnswers, Started
<1>3. CASE Load
  BY <1>3, LoadStep
<1>4. CASE CompleteJourney
  BY <1>4, CompleteJourneyStep
<1>5. CASE ChangeAnswer
  BY <1>5, ChangeAnswerStep
<1>6. CASE Save
  BY <1>6, SaveStep
<1>7. CASE Leave
  BY <1>7 DEF Leave, IInv, AreAnswers, Started
<1>8. CASE UNCHANGED vars
  BY <1>8 DEF vars, IInv, AreAnswers, Started
<1> QED
  BY <1>1, <1>2, <1>3, <1>4, <1>5, <1>6, <1>7, <1>8 DEF Next

\* Whatever the journeys and the responses: answers are of their questions, and
\* are saved of a started assessment and with a result.
THEOREM MeansInvariance == Spec => []IInv
  BY Initially, Preserved, PTL DEF Spec

\* A saved assessment is resumed whatever the result
\* (eligibility.service.ts, loadEligibilityAssessment).
THEOREM AssessmentResumes == Spec => SavedResumes
<1>1. IInv => LoadResumes
  BY LoadStep DEF LoadResumes
<1> QED
  BY <1>1, MeansInvariance, PTL DEF SavedResumes

---------------------------------------------------------------------------
(* The age range *)

LEMMA MonthsInOrder ==
    ASSUME NEW year \in Nat, NEW m \in 1 .. 12, NEW n \in 1 .. 12
    PROVE  /\ DaysBefore(year, m) \in Nat
           /\ m < n => DaysBefore(year, m) + MonthLength(year, m) <= DaysBefore(year, n)
<1> DEFINE leap == IF IsLeap(year) THEN 1 ELSE 0
           before == <<0, 31, 59 + leap, 90 + leap, 120 + leap, 151 + leap, 181 + leap,
                       212 + leap, 243 + leap, 273 + leap, 304 + leap, 334 + leap>>
           length == <<31, 28 + leap, 31, 30, 31, 30, 31, 31, 30, 31, 30, 31>>
<1>1. leap \in {0, 1} /\ (IsLeap(year) <=> leap = 1)
  OBVIOUS
<1>2. \A k \in 1 .. 12 : DaysBefore(year, k) = before[k]
  BY DEF DaysBefore
<1>3. \A k \in 1 .. 12 : MonthLength(year, k) = length[k]
  BY DEF MonthLength
<1> HIDE DEF leap
<1>4. \A k \in 1 .. 12 : before[k] \in Nat
  BY <1>1
<1>5. \A k \in 1 .. 11 : before[k] + length[k] = before[k + 1]
  BY <1>1
<1> QED
  BY <1>1, <1>2, <1>3

\* A birthday on 29 February falls on 1 March in a year that is not a leap year.
LEMMA MonthOfBirth ==
    ASSUME NEW born \in Births, NEW year \in Nat
    PROVE  /\ born.month \in 1 .. 12 /\ born.day \in Nat \ {0} /\ born.year \in Nat
           /\ born.day <= MonthLength(year, born.month) + 1
           /\ born.day > MonthLength(year, born.month) =>
                  born.month = 2 /\ born.day = 29
<1>1. IsDate(born)
  BY AssessmentAssumption
<1>2. MonthLength(born.year, born.month) \in Nat /\ MonthLength(year, born.month) \in Nat
  BY DEF MonthLength
<1>3. born.month # 2 =>
          MonthLength(year, born.month) = MonthLength(born.year, born.month)
  BY DEF MonthLength
<1>4. born.month = 2 =>
          MonthLength(born.year, born.month) <= 29 /\ MonthLength(year, born.month) >= 28
  BY DEF MonthLength
<1> QED
  BY <1>1, <1>2, <1>3, <1>4 DEF IsDate

LEMMA BirthdayByCalendar ==
    ASSUME NEW born \in Births, NEW day, IsDate(day)
    PROVE  BirthdayHasPassed(born, day) <=>
               \/ day.month > born.month
               \/ day.month = born.month /\ day.day >= born.day
<1> DEFINE year == day.year
           first(m) == DaysBefore(year, m)
<1>1. /\ year \in Nat /\ day.month \in 1 .. 12 /\ day.day \in Nat \ {0}
      /\ day.day <= MonthLength(year, day.month)
  BY DEF IsDate, MonthLength
<1>2. /\ born.month \in 1 .. 12 /\ born.day \in Nat \ {0}
      /\ born.day <= MonthLength(year, born.month) + 1
  BY <1>1, MonthOfBirth
<1>3. /\ first(born.month) \in Nat /\ first(day.month) \in Nat
      /\ MonthLength(year, born.month) \in Nat /\ MonthLength(year, day.month) \in Nat
      /\ born.month < day.month =>
             first(born.month) + MonthLength(year, born.month) <= first(day.month)
      /\ day.month < born.month =>
             first(day.month) + MonthLength(year, day.month) <= first(born.month)
<2>1. MonthLength(year, born.month) \in Nat /\ MonthLength(year, day.month) \in Nat
  BY DEF MonthLength
<2> QED
  BY <1>1, <1>2, <2>1, MonthsInOrder
<1>4. BirthdayHasPassed(born, day) <=>
          first(day.month) + day.day >= first(born.month) + born.day
  BY DEF BirthdayHasPassed, DayOfYear
<1> HIDE DEF year, first
<1>5. CASE day.month > born.month
  BY <1>1, <1>2, <1>3, <1>4, <1>5
<1>6. CASE day.month = born.month
  BY <1>1, <1>2, <1>3, <1>4, <1>6
<1>7. CASE day.month < born.month
  BY <1>1, <1>2, <1>3, <1>4, <1>7
<1> QED
  BY <1>1, <1>2, <1>5, <1>6, <1>7

\* For any dates, the age range is that of the years completed by the calendar
\* (eligibility.service.ts, deriveClientAgeRange).
THEOREM AgeByCalendar == Spec => []AgeIsCompletedYears
<1>1. IInv => AgeIsCompletedYears
<2> SUFFICES ASSUME IInv PROVE AgeIsCompletedYears
  OBVIOUS
<2>1. birth \in Births /\ IsDate(Today)
  BY AssessmentAssumption DEF IInv, Today
<2>2. BirthdayHasPassed(birth, Today) <=>
          \/ Today.month > birth.month
          \/ Today.month = birth.month /\ Today.day >= birth.day
  BY <2>1, BirthdayByCalendar
<2> QED
  BY <2>2 DEF AgeIsCompletedYears, DeriveClientAgeRange, CompletedYears
<1> QED
  BY <1>1, MeansInvariance, PTL

---------------------------------------------------------------------------
(* A result without totals *)

\* Unless a result is ready without any total, there is a total or no outcome.
LEMMA NoTotalsExcused ==
    ASSUME NEW summary, NEW answers,
           OutcomeSummary(Calculations(summary, answers)).outcome # "unavailable",
           OutcomeSummary(Calculations(summary, answers)).totals = {}
    PROVE  answers # Missing /\ IsExemptOrPassported(answers)
<1> DEFINE categories ==
               [name \in Categories |-> Category(name, summary.categories[name])]
           ready == [status |-> "ready",
                     outcome |-> summary.overall,
                     contributions |-> summary.contributions,
                     categories |-> categories]
           calculations == Calculations(summary, answers)
<1>1. calculations \in {Unavailable, ready}
  BY DEF Calculations
<1>2. calculations.status = "ready"
  BY DEF OutcomeSummary
<1>3. calculations = ready
  BY <1>1, <1>2 DEF Unavailable
<1>4. Totals(calculations) = {}
  BY DEF OutcomeSummary
<1>5. \A name \in Categories : calculations.categories[name] = NotCalculated
  BY <1>2, <1>4 DEF Totals
<1>6. \A name \in Categories : categories[name] = NotCalculated
  BY <1>3, <1>5
<1>7. calculations # Unavailable
  BY <1>2 DEF Unavailable
<1> QED
  BY <1>6, <1>7 DEF Calculations

\* The exemptions by which the calculations are taken agree with the routes.
LEMMA ExemptHasNoIncome ==
    ASSUME NEW answers, AreAnswers(answers), Started(answers),
           IsExemptOrPassported(answers)
    PROVE  ~IsIncomeAssessmentRelevant(answers)
<1>1. Ask(answers, "household", "level_of_help") = "controlled"
  BY FieldNames, MeansAssumption DEF AreAnswers, Started, Ask, Maybe
<1> QED
  BY <1>1 DEF IsExemptOrPassported, IsIncomeAssessmentRelevant, IsMeansTested,
              NoIncomeOrAssets, Says, Ask

LEMMA IrrelevantHasNoRows ==
    ASSUME NEW answers, ~IsIncomeAssessmentRelevant(answers)
    PROVE  IncomeRowsOf(answers) = {}
<1>1. \A adult \in Adults : ~IncomeShown(answers, adult)
  BY DEF IncomeShown
<1>2. \A adult \in Adults :
          /\ EmploymentRows(answers, adult) \subseteq Household({"partner_over_60"})
          /\ IncomeRows(answers, adult) = {}
          /\ BenefitRows(answers, adult) = {}
          /\ OtherIncomeRows(answers, adult) = {}
          /\ OutgoingsRows(answers, adult) = {}
  BY <1>1 DEF EmploymentRows, IncomeRows, BenefitRows, OtherIncomeRows,
              OutgoingsRows, When
<1> SUFFICES ASSUME NEW row \in IncomeRowsOf(answers) PROVE FALSE
  OBVIOUS
<1>3. /\ row \notin Household({"partner_over_60"})
      /\ \E adult \in Adults :
             row \in EmploymentRows(answers, adult) \cup IncomeRows(answers, adult)
                    \cup BenefitRows(answers, adult) \cup OtherIncomeRows(answers, adult)
                    \cup OutgoingsRows(answers, adult)
  BY DEF IncomeRowsOf
<1> QED
  BY <1>2, <1>3

\* Whatever the answers and CFE's responses, a result the export reports without
\* totals is one of a case whose income was not asked for
\* (calculations.mapper.ts and answers.selections.ts).
THEOREM NoTotalsOnlyUnasked == Spec => []NoTotalsNoIncome
<1>1. IInv => NoTotalsNoIncome
<2> SUFFICES ASSUME IInv,
                    eligibility.data # Missing,
                    MeansSection(eligibility).summary.outcome # "unavailable",
                    MeansSection(eligibility).summary.totals = {}
             PROVE  IncomeRowsOf(eligibility.data) = {}
  BY DEF NoTotalsNoIncome
<2>1. IsExemptOrPassported(eligibility.data)
  BY NoTotalsExcused DEF MeansSection
<2>2. AreAnswers(eligibility.data) /\ Started(eligibility.data)
  BY DEF IInv
<2> QED
  BY <2>1, <2>2, ExemptHasNoIncome, IrrelevantHasNoRows
<1> QED
  BY <1>1, MeansInvariance, PTL

---------------------------------------------------------------------------
(* Answers that no card shows *)

\* b has of a what the cards of a show and what chooses the routes, and of the
\* rest what a has or nothing.
KeepsShown(a, b) ==
    /\ \A field \in Rows(a) \cup Household(RouteSelectors) : b[field] = a[field]
    /\ \A field \in Fields : b[field] \in {a[field], Missing}

\* And the incomes, which are read even where no card shows them.
Keeps(a, b) == KeepsShown(a, b) /\ \A field \in Incomes : b[field] = a[field]

\* The cards of one adult, and those of the household.
LEMMA CardsAreRows ==
    ASSUME NEW a
    PROVE  /\ ClientRows(a) \subseteq Rows(a) /\ DependantRows(a) \subseteq Rows(a)
           /\ HousingRows(a) \subseteq Rows(a)
           /\ \A adult \in Adults :
                 /\ EmploymentRows(a, adult) \subseteq Rows(a)
                 /\ IncomeRows(a, adult) \subseteq Rows(a)
                 /\ BenefitRows(a, adult) \subseteq Rows(a)
                 /\ OtherIncomeRows(a, adult) \subseteq Rows(a)
                 /\ OutgoingsRows(a, adult) \subseteq Rows(a)
                 /\ AdditionalPropertyRows(a, adult) \subseteq Rows(a)
                 /\ AssetRows(a, adult) \subseteq Rows(a)
  BY DEF Rows

\* The routes are chosen by what is shown or kept.
LEMMA SameRoutes ==
    ASSUME NEW a, NEW b, KeepsShown(a, b)
    PROVE  /\ IsMeansTested(b) <=> IsMeansTested(a)
           /\ IsIncomeAssessmentRelevant(b) <=> IsIncomeAssessmentRelevant(a)
           /\ IsIncomeAssessmentRelevant(a) => IsMeansTested(a)
           /\ \A adult \in Adults :
                 /\ IncomeShown(b, adult) <=> IncomeShown(a, adult)
                 /\ CapitalShown(b, adult) <=> CapitalShown(a, adult)
                 /\ IncomeShown(a, adult) => CapitalShown(a, adult)
                 /\ IsMeansTested(a) => (IsPresent(b, adult) <=> IsPresent(a, adult))
<1>1. b[<<"household", "client_age">>] = a[<<"household", "client_age">>]
  BY CardsAreRows DEF KeepsShown, ClientRows, Household
<1>2. \A name \in RouteSelectors : b[<<"household", name>>] = a[<<"household", name>>]
  BY DEF KeepsShown, Household
<1>3. IsMeansTested(b) <=> IsMeansTested(a)
  BY <1>1, <1>2
     DEF IsMeansTested, NoIncomeOrAssets, AsylumSupported, Says, Ask, RouteSelectors
<1>4. ASSUME IsMeansTested(a)
      PROVE  /\ b[<<"household", "partner">>] = a[<<"household", "partner">>]
             /\ b[<<"household", "passporting">>] = a[<<"household", "passporting">>]
  BY <1>4, CardsAreRows DEF KeepsShown, ClientRows, Household, When
<1>5. \A adult \in Adults :
         IsMeansTested(a) => (IsPresent(b, adult) <=> IsPresent(a, adult))
  BY <1>4 DEF IsPresent, Says
<1>6. IsIncomeAssessmentRelevant(b) <=> IsIncomeAssessmentRelevant(a)
  BY <1>3, <1>4 DEF IsIncomeAssessmentRelevant, Ask
<1>7. IsIncomeAssessmentRelevant(a) => IsMeansTested(a)
  BY DEF IsIncomeAssessmentRelevant
<1> QED
  BY <1>3, <1>5, <1>6, <1>7 DEF IncomeShown, CapitalShown

LEMMA SameClientRows ==
    ASSUME NEW a, NEW b, KeepsShown(a, b)
    PROVE  ClientRows(b) = ClientRows(a)
  BY SameRoutes DEF ClientRows, When

LEMMA SameDependantRows ==
    ASSUME NEW a, NEW b, KeepsShown(a, b)
    PROVE  DependantRows(b) = DependantRows(a)
<1>1. CASE ~IsIncomeAssessmentRelevant(a)
  BY <1>1, SameRoutes DEF DependantRows, When
<1>2. CASE IsIncomeAssessmentRelevant(a)
  <2>1. \A name \in {"child_dependants", "adult_dependants"} :
           Says(b, "household", name) <=> Says(a, "household", name)
    BY <1>2, CardsAreRows DEF KeepsShown, DependantRows, When, Household, Says
  <2>2. HasDependants(b) <=> HasDependants(a)
    BY <2>1 DEF HasDependants
  <2>3. HasDependants(a) =>
           (Says(b, "household", "dependants_get_income")
               <=> Says(a, "household", "dependants_get_income"))
    BY <1>2, CardsAreRows DEF KeepsShown, DependantRows, When, Household, Says
  <2> QED
    BY <1>2, <2>1, <2>2, <2>3, SameRoutes DEF DependantRows, When
<1> QED
  BY <1>1, <1>2

LEMMA SameIncomeRows ==
    ASSUME NEW a, NEW b, KeepsShown(a, b), NEW adult \in Adults
    PROVE  /\ EmploymentRows(b, adult) = EmploymentRows(a, adult)
           /\ IncomeRows(b, adult) = IncomeRows(a, adult)
           /\ BenefitRows(b, adult) = BenefitRows(a, adult)
           /\ OtherIncomeRows(b, adult) = OtherIncomeRows(a, adult)
<1>1. EmploymentRows(b, adult) = EmploymentRows(a, adult)
  <2>1. "partner" \in Adults
    BY DEF Adults
  <2> QED
    BY <2>1, SameRoutes DEF EmploymentRows, When
<1>2. IncomeShown(a, adult) =>
         /\ b[<<adult, "employment_status">>] = a[<<adult, "employment_status">>]
         /\ b[<<adult, "receives_benefits">>] = a[<<adult, "receives_benefits">>]
         /\ \A name \in DOMAIN OtherIncome : b[<<adult, name>>] = a[<<adult, name>>]
  <2> SUFFICES ASSUME IncomeShown(a, adult)
               PROVE  /\ <<adult, "employment_status">> \in Rows(a)
                      /\ <<adult, "receives_benefits">> \in Rows(a)
                      /\ \A name \in DOMAIN OtherIncome : <<adult, name>> \in Rows(a)
    BY DEF KeepsShown
  <2>1. <<adult, "employment_status">> \in Rows(a)
    BY CardsAreRows DEF EmploymentRows, When, Of
  <2>2. <<adult, "receives_benefits">> \in Rows(a)
    BY CardsAreRows DEF BenefitRows, When, Of
  <2>3. \A name \in DOMAIN OtherIncome : <<adult, name>> \in Rows(a)
    BY CardsAreRows DEF OtherIncomeRows, When, Of
  <2> QED
    BY <2>1, <2>2, <2>3
<1>3. IncomeRows(b, adult) = IncomeRows(a, adult)
  BY <1>2, SameRoutes DEF IncomeRows, When, Ask
<1>4. BenefitRows(b, adult) = BenefitRows(a, adult)
  BY <1>2, SameRoutes DEF BenefitRows, When, Says
<1>5. OtherIncomeRows(b, adult) = OtherIncomeRows(a, adult)
  <2>1. CASE ~IncomeShown(a, adult)
    BY <2>1, SameRoutes DEF OtherIncomeRows, When
  <2>2. CASE IncomeShown(a, adult)
    <3>1. {n \in DOMAIN OtherIncome : Says(b, adult, n)}
             = {n \in DOMAIN OtherIncome : Says(a, adult, n)}
      BY <1>2, <2>2 DEF Says
    <3> QED
      BY <2>2, <3>1, SameRoutes DEF OtherIncomeRows, When
  <2> QED
    BY <2>1, <2>2
<1> QED
  BY <1>1, <1>3, <1>4, <1>5

\* The childcare payments, and whether they are asked for, go by the incomes.
Childcare(adult) ==
    Of(adult, {"childcare_payments_relevant", Payments["childcare_payments_relevant"]})

LEMMA ChildcareAvailable ==
    ASSUME NEW a, NEW b, KeepsShown(a, b), IsIncomeAssessmentRelevant(a)
    PROVE  /\ IsChildcareAvailable(b) => IsChildcareAvailable(a)
           /\ Keeps(a, b) => (IsChildcareAvailable(b) <=> IsChildcareAvailable(a))
<1>1. IsMeansTested(a)
  BY SameRoutes
<1>2. Says(b, "household", "child_dependants") <=> Says(a, "household", "child_dependants")
  BY CardsAreRows DEF KeepsShown, DependantRows, When, Household, Says
<1>3. ASSUME NEW other \in Adults, IsPresent(a, other)
      PROVE  /\ QualifiesForChildcare(b, other) => QualifiesForChildcare(a, other)
             /\ Keeps(a, b) =>
                   (QualifiesForChildcare(b, other) <=> QualifiesForChildcare(a, other))
  <2>1. IncomeShown(a, other)
    BY <1>3 DEF IncomeShown
  <2>2. "student_finance_relevant" \in DOMAIN OtherIncome
    BY DEF OtherIncome
  <2>3. <<other, "student_finance_relevant">> \in Rows(a)
    BY <2>1, <2>2, CardsAreRows DEF OtherIncomeRows, When, Of
  <2>4. <<other, "incomes">> \in Incomes /\ <<other, "incomes">> \in Fields
    BY DEF Incomes, Fields
  <2>5. Says(b, other, "student_finance_relevant") <=> Says(a, other, "student_finance_relevant")
    BY <2>3 DEF KeepsShown, Says
  <2>6. Ask(b, other, "incomes") \in {Ask(a, other, "incomes"), Missing}
    BY <2>4 DEF KeepsShown, Ask
  <2>7. Keeps(a, b) => Ask(b, other, "incomes") = Ask(a, other, "incomes")
    BY <2>4 DEF Keeps, Ask
  <2> QED
    BY <2>5, <2>6, <2>7 DEF QualifiesForChildcare
<1> QED
  BY <1>1, <1>2, <1>3, SameRoutes DEF IsChildcareAvailable

\* Of the outgoings at most the childcare payments are shown less.
LEMMA SameOutgoingsRows ==
    ASSUME NEW a, NEW b, KeepsShown(a, b), NEW adult \in Adults
    PROVE  /\ OutgoingsRows(b, adult) \subseteq OutgoingsRows(a, adult)
           /\ OutgoingsRows(a, adult) \subseteq OutgoingsRows(b, adult) \cup Childcare(adult)
           /\ Keeps(a, b) => OutgoingsRows(b, adult) = OutgoingsRows(a, adult)
<1>1. CASE ~IncomeShown(a, adult)
  BY <1>1, SameRoutes DEF OutgoingsRows, When
<1>2. CASE IncomeShown(a, adult)
  <2> DEFINE available(x) == IF IsChildcareAvailable(x) THEN DOMAIN Payments
                             ELSE DOMAIN Payments \ {"childcare_payments_relevant"}
             asked(x) == {n \in available(x) : Says(x, adult, n)}
             amounts(x) == {Payments[name] : name \in asked(x)}
  <2>1. /\ OutgoingsRows(a, adult) = Of(adult, available(a)) \cup Of(adult, amounts(a))
        /\ OutgoingsRows(b, adult) = Of(adult, available(b)) \cup Of(adult, amounts(b))
    BY <1>2, SameRoutes DEF OutgoingsRows, When
  <2>2. /\ available(b) \subseteq available(a)
        /\ available(a) \subseteq available(b) \cup {"childcare_payments_relevant"}
        /\ Keeps(a, b) => available(b) = available(a)
    BY <1>2, ChildcareAvailable DEF IncomeShown
  <2> HIDE DEF available
  <2>3. \A name \in available(a) : Says(b, adult, name) <=> Says(a, adult, name)
    <3>1. \A name \in available(a) : <<adult, name>> \in Rows(a)
      BY <2>1, CardsAreRows DEF Of
    <3> QED
      BY <3>1 DEF KeepsShown, Says
  <2>4. /\ asked(b) \subseteq asked(a)
        /\ asked(a) \subseteq asked(b) \cup {"childcare_payments_relevant"}
        /\ Keeps(a, b) => asked(b) = asked(a)
    BY <2>2, <2>3
  <2> HIDE DEF asked
  <2>5. /\ amounts(b) \subseteq amounts(a)
        /\ amounts(a) \subseteq amounts(b) \cup {Payments["childcare_payments_relevant"]}
        /\ Keeps(a, b) => amounts(b) = amounts(a)
    BY <2>4
  <2> HIDE DEF amounts
  <2> QED
    BY <2>1, <2>2, <2>5 DEF Of, Childcare
<1> QED
  BY <1>1, <1>2

LEMMA SameHousingRows ==
    ASSUME NEW a, NEW b, KeepsShown(a, b)
    PROVE  HousingRows(b) = HousingRows(a)
<1>1. CASE ~IsMeansTested(a)
  BY <1>1, SameRoutes DEF HousingRows, When
<1>2. CASE IsMeansTested(a)
  <2>1. Ask(b, "household", "property_owned") = Ask(a, "household", "property_owned")
    BY <1>2, CardsAreRows DEF KeepsShown, HousingRows, When, Household, Ask
  <2>2. MainPropertyRows(b) = MainPropertyRows(a)
    BY <2>1 DEF MainPropertyRows
  <2>3. ASSUME IsIncomeAssessmentRelevant(a)
        PROVE  HousingCostRows(b) = HousingCostRows(a)
    <3>1. HousingCostRows(a) \subseteq Rows(a)
      BY <2>3, CardsAreRows DEF HousingRows, When
    <3>2. CASE <<"household", "housing_benefit_relevant">> \in HousingCostRows(a)
      <4>1. HousingBenefitRows(b) = HousingBenefitRows(a)
        BY <3>1, <3>2 DEF KeepsShown, HousingBenefitRows, When, Says
      <4> QED
        BY <2>1, <4>1 DEF HousingCostRows
    <3>3. CASE <<"household", "housing_benefit_relevant">> \notin HousingCostRows(a)
      <4>1. Ask(a, "household", "property_owned") \notin {"none", "shared_ownership"}
        BY <3>3 DEF HousingCostRows, HousingBenefitRows, Household
      <4> QED
        BY <2>1, <4>1 DEF HousingCostRows
    <3> QED
      BY <3>2, <3>3
  <2> QED
    BY <1>2, <2>1, <2>2, <2>3, SameRoutes DEF HousingRows, When
<1> QED
  BY <1>1, <1>2

\* A dispute is shown where there is one, and what is not shown is not made up.
LEMMA SameDispute ==
    ASSUME NEW a, NEW b, KeepsShown(a, b), NEW adult \in Adults,
           NEW name \in ClientDisputes,
           DisputeRows(a, adult, name) \subseteq Rows(a)
    PROVE  DisputeRows(b, adult, name) = DisputeRows(a, adult, name)
<1>1. IsDisputeApplicable(b, adult) <=> IsDisputeApplicable(a, adult)
  BY DEF KeepsShown, Household, RouteSelectors, IsDisputeApplicable, Says
<1>2. CASE IsDisputeApplicable(a, adult)
  <2>1. <<adult, name>> \in Fields
    BY <1>2 DEF IsDisputeApplicable, Fields
  <2>2. Missing # "yes"
    BY MeansAssumption
  <2>3. Says(a, adult, name) => b[<<adult, name>>] = a[<<adult, name>>]
    BY <1>2 DEF KeepsShown, DisputeRows, When, Of
  <2>4. Says(b, adult, name) <=> Says(a, adult, name)
    BY <2>1, <2>2, <2>3 DEF KeepsShown, Says
  <2> QED
    BY <1>1, <2>4 DEF DisputeRows, When
<1>3. CASE ~IsDisputeApplicable(a, adult)
  BY <1>1, <1>3 DEF DisputeRows, When
<1> QED
  BY <1>2, <1>3

\* The same of what is shown if it is there at all.
LEMMA SameHeld ==
    ASSUME NEW a, NEW b, KeepsShown(a, b), NEW adult \in Adults, NEW name \in AdultAmounts,
           IsHeld(a, adult, name) => <<adult, name>> \in Rows(a)
    PROVE  IsHeld(b, adult, name) <=> IsHeld(a, adult, name)
<1>1. <<adult, name>> \in Fields
  BY DEF Fields
<1> QED
  BY <1>1 DEF KeepsShown, IsHeld, Ask

LEMMA SameAdditionalPropertyRows ==
    ASSUME NEW a, NEW b, KeepsShown(a, b), NEW adult \in Adults
    PROVE  AdditionalPropertyRows(b, adult) = AdditionalPropertyRows(a, adult)
<1> DEFINE owned == "additional_property_owned"
<1>1. CASE ~CapitalShown(a, adult)
  BY <1>1, SameRoutes DEF AdditionalPropertyRows, When
<1>2. ASSUME CapitalShown(a, adult)
      PROVE  Ask(b, adult, owned) = Ask(a, adult, owned)
  BY <1>2, CardsAreRows DEF KeepsShown, AdditionalPropertyRows, When, Of, Ask
<1>3. CASE CapitalShown(a, adult) /\ Ask(a, adult, owned) \notin PropertyOwnership \ {"none"}
  BY <1>2, <1>3, SameRoutes DEF AdditionalPropertyRows, When
<1>4. CASE CapitalShown(a, adult) /\ Ask(a, adult, owned) \in PropertyOwnership \ {"none"}
  <2>1. FirstPropertyRows(a, adult) \subseteq Rows(a) /\ SecondPropertyRows(a, adult) \subseteq Rows(a)
    BY <1>4, CardsAreRows DEF AdditionalPropertyRows, When
  <2>2. /\ "first_property" \in AdultAmounts /\ "second_property" \in AdultAmounts
        /\ "house_in_dispute" \in ClientDisputes
    BY DEF AdultAmounts, ClientDisputes
  <2>3. IsHeld(b, adult, "first_property") <=> IsHeld(a, adult, "first_property")
    <3>1. IsHeld(a, adult, "first_property") => <<adult, "first_property">> \in Rows(a)
      BY <2>1 DEF FirstPropertyRows, When, Of
    <3> QED
      BY <2>2, <3>1, SameHeld
  <2>4. FirstPropertyRows(b, adult) = FirstPropertyRows(a, adult)
    <3>1. CASE ~IsHeld(a, adult, "first_property")
      BY <2>3, <3>1 DEF FirstPropertyRows, When
    <3>2. CASE IsHeld(a, adult, "first_property")
      <4>1. DisputeRows(a, adult, "house_in_dispute") \subseteq Rows(a)
        BY <2>1, <3>2 DEF FirstPropertyRows, When
      <4>2. DisputeRows(b, adult, "house_in_dispute") = DisputeRows(a, adult, "house_in_dispute")
        BY <2>2, <4>1, SameDispute
      <4> QED
        BY <1>2, <1>4, <2>3, <3>2, <4>2 DEF FirstPropertyRows, When
    <3> QED
      BY <3>1, <3>2
  <2>5. SecondPropertyRows(b, adult) = SecondPropertyRows(a, adult)
    <3>1. CASE ~IsHeld(a, adult, "first_property")
      BY <2>3, <3>1 DEF SecondPropertyRows, When
    <3>2. CASE IsHeld(a, adult, "first_property")
      <4>1. IsHeld(a, adult, "second_property") =>
               /\ <<adult, "second_property">> \in Rows(a)
               /\ <<adult, "second_property_inline_owned_with_mortgage">> \in Rows(a)
        BY <2>1, <3>2 DEF SecondPropertyRows, When, Of
      <4>2. IsHeld(b, adult, "second_property") <=> IsHeld(a, adult, "second_property")
        BY <2>2, <4>1, SameHeld
      <4>3. IsHeld(a, adult, "second_property") =>
               (Says(b, adult, "second_property_inline_owned_with_mortgage")
                   <=> Says(a, adult, "second_property_inline_owned_with_mortgage"))
        BY <4>1 DEF KeepsShown, Says
      <4> QED
        BY <2>3, <3>2, <4>2, <4>3 DEF SecondPropertyRows, When
    <3> QED
      BY <3>1, <3>2
  <2> QED
    BY <1>2, <1>4, <2>4, <2>5, SameRoutes DEF AdditionalPropertyRows, When
<1> QED
  BY <1>1, <1>3, <1>4

LEMMA SameAssetRows ==
    ASSUME NEW a, NEW b, KeepsShown(a, b), NEW adult \in Adults
    PROVE  AssetRows(b, adult) = AssetRows(a, adult)
<1>1. CASE ~CapitalShown(a, adult)
  BY <1>1, SameRoutes DEF AssetRows, When
<1>2. CASE CapitalShown(a, adult)
  <2> DEFINE held(x) == {name \in DOMAIN Assets : Says(x, adult, name)}
             disputed(x) == UNION {DisputeRows(x, adult, Disputes[name]) : name \in held(x)}
  <2>1. /\ AssetRows(a, adult) = BankAccountRows(a, adult) \cup Of(adult, DOMAIN Assets)
                 \cup Of(adult, {Assets[name] : name \in held(a)}) \cup disputed(a)
        /\ AssetRows(b, adult) = BankAccountRows(b, adult) \cup Of(adult, DOMAIN Assets)
                 \cup Of(adult, {Assets[name] : name \in held(b)}) \cup disputed(b)
    BY <1>2, SameRoutes DEF AssetRows, When
  <2>2. held(b) = held(a)
    <3>1. \A name \in DOMAIN Assets : <<adult, name>> \in Rows(a)
      BY <2>1, CardsAreRows DEF Of
    <3> QED
      BY <3>1 DEF KeepsShown, Says
  <2>3. BankAccountRows(b, adult) = BankAccountRows(a, adult)
    <3>1. BankAccountRows(a, adult) \subseteq Rows(a)
      BY <2>1, CardsAreRows
    <3>2. "bank_accounts" \in AdultAmounts /\ "account_in_dispute" \in ClientDisputes
      BY DEF AdultAmounts, ClientDisputes
    <3>3. IsHeld(a, adult, "bank_accounts") => <<adult, "bank_accounts">> \in Rows(a)
      BY <3>1 DEF BankAccountRows, When, Of
    <3>4. IsHeld(b, adult, "bank_accounts") <=> IsHeld(a, adult, "bank_accounts")
      BY <3>2, <3>3, SameHeld
    <3>5. CASE IsHeld(a, adult, "bank_accounts")
      <4>1. DisputeRows(a, adult, "account_in_dispute") \subseteq Rows(a)
        BY <3>1, <3>5 DEF BankAccountRows, When
      <4> QED
        BY <3>2, <3>4, <3>5, <4>1, SameDispute DEF BankAccountRows, When
    <3>6. CASE ~IsHeld(a, adult, "bank_accounts")
      BY <3>4, <3>6 DEF BankAccountRows, When
    <3> QED
      BY <3>5, <3>6
  <2>4. ASSUME NEW name \in held(a)
        PROVE  DisputeRows(b, adult, Disputes[name]) = DisputeRows(a, adult, Disputes[name])
    <3>1. Disputes[name] \in ClientDisputes
      BY <2>4 DEF ClientDisputes, Disputes, Assets
    <3>2. DisputeRows(a, adult, Disputes[name]) \subseteq Rows(a)
      BY <2>1, <2>4, CardsAreRows
    <3> QED
      BY <3>1, <3>2, SameDispute
  <2>5. disputed(b) = disputed(a)
    BY <2>2, <2>4
  <2> QED
    BY <2>1, <2>2, <2>3, <2>5
<1> QED
  BY <1>1, <1>2

\* The cards but for the outgoings, and all of them where the incomes are kept.
LEMMA SameRows ==
    ASSUME NEW a, NEW b, KeepsShown(a, b)
    PROVE  /\ Rows(b) \subseteq Rows(a)
           /\ Rows(a) \subseteq Rows(b) \cup UNION {Childcare(adult) : adult \in Adults}
           /\ Keeps(a, b) => Rows(b) = Rows(a)
<1> DEFINE others(x, adult) ==
               EmploymentRows(x, adult) \cup IncomeRows(x, adult)
               \cup BenefitRows(x, adult) \cup OtherIncomeRows(x, adult)
               \cup AdditionalPropertyRows(x, adult) \cup AssetRows(x, adult)
<1>1. \A adult \in Adults : others(b, adult) = others(a, adult)
  BY SameIncomeRows, SameAdditionalPropertyRows, SameAssetRows
<1>2. ClientRows(b) = ClientRows(a) /\ DependantRows(b) = DependantRows(a)
      /\ HousingRows(b) = HousingRows(a)
  BY SameClientRows, SameDependantRows, SameHousingRows
<1> DEFINE household(x) == ClientRows(x) \cup DependantRows(x) \cup HousingRows(x)
           cards(x) == UNION {others(x, adult) : adult \in Adults}
           outgoings(x) == UNION {OutgoingsRows(x, adult) : adult \in Adults}
           childcare == UNION {Childcare(adult) : adult \in Adults}
<1>3. ASSUME NEW x
      PROVE  Rows(x) = household(x) \cup cards(x) \cup outgoings(x)
  BY DEF Rows
<1> HIDE DEF others
<1>4. cards(b) = cards(a)
  BY <1>1
<1>5. outgoings(b) \subseteq outgoings(a)
  BY SameOutgoingsRows
<1>6. outgoings(a) \subseteq outgoings(b) \cup childcare
  <2> SUFFICES ASSUME NEW row \in outgoings(a)
               PROVE  row \in outgoings(b) \cup childcare
    OBVIOUS
  <2>1. PICK adult \in Adults : row \in OutgoingsRows(a, adult)
    OBVIOUS
  <2>2. row \in OutgoingsRows(b, adult) \/ row \in Childcare(adult)
    BY <2>1, SameOutgoingsRows
  <2> QED
    BY <2>2
<1>7. Keeps(a, b) => outgoings(b) = outgoings(a)
  BY SameOutgoingsRows
<1>8. household(b) = household(a)
  BY <1>2
<1> HIDE DEF household, cards, outgoings, childcare
<1>9. /\ Rows(b) \subseteq Rows(a)
      /\ Rows(a) \subseteq Rows(b) \cup childcare
      /\ Keeps(a, b) => Rows(b) = Rows(a)
  BY <1>3, <1>4, <1>5, <1>6, <1>7, <1>8
<1> QED
  BY <1>9 DEF childcare

---------------------------------------------------------------------------
(* Every card shows fields *)

LEMMA HouseholdCardsAreFields ==
    ASSUME NEW a
    PROVE  ClientRows(a) \cup DependantRows(a) \cup HousingRows(a) \subseteq Fields
<1>1. Household({"client_age", "property_owned"} \cup HouseholdToggles \cup HouseholdAmounts)
         \subseteq Fields
  BY DEF Fields, Household
<1>2. ClientRows(a) \subseteq Fields
  BY <1>1 DEF ClientRows, When, Household, HouseholdToggles
<1>3. DependantRows(a) \subseteq Fields
  BY <1>1 DEF DependantRows, When, Household, HouseholdToggles, HouseholdAmounts
<1>4. HousingCostRows(a) \subseteq Fields
  BY <1>1 DEF HousingCostRows, HousingBenefitRows, When, Household, HouseholdToggles,
              HouseholdAmounts
<1>5. MainPropertyRows(a) \subseteq Fields
  BY <1>1 DEF MainPropertyRows, When, Household, HouseholdAmounts
<1>6. HousingRows(a) \subseteq Fields
  BY <1>1, <1>4, <1>5 DEF HousingRows, When, Household, HouseholdToggles
<1> QED
  BY <1>2, <1>3, <1>6

LEMMA AdultCardsAreFields ==
    ASSUME NEW a, NEW adult \in Adults
    PROVE  /\ EmploymentRows(a, adult) \cup IncomeRows(a, adult) \subseteq Fields
           /\ BenefitRows(a, adult) \cup OtherIncomeRows(a, adult) \subseteq Fields
           /\ OutgoingsRows(a, adult) \subseteq Fields
           /\ AdditionalPropertyRows(a, adult) \cup AssetRows(a, adult) \subseteq Fields
<1>1. /\ Household(HouseholdToggles) \subseteq Fields
      /\ \A name \in {"employment_status", "incomes", "additional_property_owned"}
                        \cup AdultToggles \cup AdultAmounts : <<adult, name>> \in Fields
  BY DEF Fields, Household
<1>10. \A names : names \subseteq AdultToggles \cup AdultAmounts =>
          Of(adult, names) \subseteq Fields
  <2> SUFFICES ASSUME NEW names, names \subseteq AdultToggles \cup AdultAmounts,
                      NEW row \in Of(adult, names)
               PROVE  row \in Fields
    OBVIOUS
  <2>1. PICK name \in names : row = <<adult, name>>
    BY DEF Of
  <2> QED
    BY <1>1, <2>1
<1>2. EmploymentRows(a, adult) \cup IncomeRows(a, adult) \subseteq Fields
  BY <1>1 DEF EmploymentRows, IncomeRows, When, Of, Household, HouseholdToggles
<1>3. BenefitRows(a, adult) \subseteq Fields
  BY <1>1 DEF BenefitRows, When, Of, AdultToggles, AdultAmounts
<1>4. OtherIncomeRows(a, adult) \subseteq Fields
  <2>1. \A name \in DOMAIN OtherIncome : name \in AdultToggles /\ OtherIncome[name] \in AdultAmounts
    BY DEF AdultToggles, AdultAmounts
  <2>2. \A names : names \subseteq DOMAIN OtherIncome =>
           Of(adult, names) \cup Of(adult, {OtherIncome[name] : name \in names}) \subseteq Fields
    BY <1>10, <2>1
  <2> QED
    BY <2>2 DEF OtherIncomeRows, When
<1>5. OutgoingsRows(a, adult) \subseteq Fields
  <2>1. \A name \in DOMAIN Payments : name \in AdultToggles /\ Payments[name] \in AdultAmounts
    BY DEF AdultToggles, AdultAmounts
  <2>2. \A names : names \subseteq DOMAIN Payments =>
           Of(adult, names) \cup Of(adult, {Payments[name] : name \in names}) \subseteq Fields
    BY <1>10, <2>1
  <2> QED
    BY <2>2 DEF OutgoingsRows, When
<1>6. \A name \in ClientDisputes : DisputeRows(a, adult, name) \subseteq Fields
  BY DEF DisputeRows, IsDisputeApplicable, When, Of, Fields
<1>7. FirstPropertyRows(a, adult) \cup SecondPropertyRows(a, adult) \subseteq Fields
  <2>1. /\ "house_in_dispute" \in ClientDisputes
        /\ "second_property_inline_owned_with_mortgage" \in AdultToggles
        /\ {"first_property", "first_property_mortgage", "second_property",
            "second_property_mortgage"} \subseteq AdultAmounts
    BY DEF ClientDisputes, AdultToggles, AdultAmounts
  <2> QED
    BY <1>1, <1>6, <2>1 DEF FirstPropertyRows, SecondPropertyRows, When, Of
<1>8. AdditionalPropertyRows(a, adult) \subseteq Fields
  BY <1>1, <1>7 DEF AdditionalPropertyRows, When, Of
<1>9. AssetRows(a, adult) \subseteq Fields
  <2>1. \A name \in DOMAIN Assets :
           /\ name \in AdultToggles /\ Assets[name] \in AdultAmounts
           /\ Disputes[name] \in ClientDisputes
    BY DEF AdultToggles, AdultAmounts, ClientDisputes, Assets, Disputes
  <2>2. BankAccountRows(a, adult) \subseteq Fields
    BY <1>1, <1>6 DEF BankAccountRows, When, Of, AdultAmounts, ClientDisputes
  <2>3. \A names : names \subseteq DOMAIN Assets =>
           Of(adult, names) \cup Of(adult, {Assets[name] : name \in names}) \subseteq Fields
    BY <1>10, <2>1
  <2>4. \A names : names \subseteq DOMAIN Assets =>
           UNION {DisputeRows(a, adult, Disputes[name]) : name \in names} \subseteq Fields
    BY <1>6, <2>1
  <2> QED
    BY <2>2, <2>3, <2>4 DEF AssetRows, When
<1> QED
  BY <1>2, <1>3, <1>4, <1>5, <1>8, <1>9

LEMMA RowsAreFields ==
    ASSUME NEW a
    PROVE  Rows(a) \subseteq Fields
  BY HouseholdCardsAreFields, AdultCardsAreFields DEF Rows

\* Whatever the answers, those that neither a card shows nor a route is chosen by
\* decide nothing the export shows, but for incomes (answers.mapper.ts and the
\* questions' cards): no answer CCQ kept of a branch that was left comes through.
THEOREM NothingStaleShows == Spec => []NoStaleAnswerShows
<1>1. IInv => NoStaleAnswerShows
  <2> SUFFICES ASSUME IInv, eligibility.data # Missing
               PROVE  AnswerSummaries(WithoutHidden(eligibility.data, Incomes))
                          = AnswerSummaries(eligibility.data)
    BY DEF NoStaleAnswerShows
  <2> DEFINE a == eligibility.data
             b == WithoutHidden(a, Incomes)
  <2>1. Rows(a) \cup Household(RouteSelectors) \cup Incomes \subseteq Fields
    <3>1. Household(RouteSelectors) \cup Incomes \subseteq Fields
      BY DEF Household, Incomes, Fields
    <3> QED
      BY <3>1, RowsAreFields
  <2>2. Keeps(a, b)
    BY <2>1 DEF WithoutHidden, Keeps, KeepsShown
  <2> HIDE DEF a, b
  <2>3. Rows(b) = Rows(a) /\ \A field \in Rows(a) : b[field] = a[field]
    BY <2>2, SameRows DEF Keeps, KeepsShown
  <2>4. AnswerSummaries(b) = AnswerSummaries(a)
    BY <2>3 DEF AnswerSummaries
  <2> QED
    BY <2>4 DEF a, b
<1> QED
  BY <1>1, MeansInvariance, PTL

\* What incomes that no card shows decide after all: whether the childcare rows are
\* there.  Every other row is the same, with the same answer.
HiddenIncomesHideChildcare ==
    eligibility.data # Missing =>
        LET shown == AnswerSummaries(eligibility.data)
            rest == AnswerSummaries(WithoutHidden(eligibility.data, {}))
        IN
        /\ DOMAIN rest \subseteq DOMAIN shown
        /\ DOMAIN shown \ DOMAIN rest \subseteq UNION {Childcare(adult) : adult \in Adults}
        /\ \A field \in DOMAIN rest : rest[field] = shown[field]

\* Without any answer that is hidden the export shows the same rows, or those
\* without the childcare payments, whatever CCQ kept of the branches that were left
\* (qualifiesForChildcare, outgoings.questions.ts).
THEOREM OnlyChildcareGoesByHidden == Spec => []HiddenIncomesHideChildcare
<1>1. IInv => HiddenIncomesHideChildcare
  <2> SUFFICES ASSUME IInv, eligibility.data # Missing
               PROVE  HiddenIncomesHideChildcare
    BY DEF HiddenIncomesHideChildcare
  <2> DEFINE a == eligibility.data
             b == WithoutHidden(a, {})
  <2>1. Rows(a) \cup Household(RouteSelectors) \subseteq Fields
    <3>1. Household(RouteSelectors) \subseteq Fields
      BY DEF Household, Fields
    <3> QED
      BY <3>1, RowsAreFields
  <2>2. KeepsShown(a, b)
    BY <2>1 DEF WithoutHidden, KeepsShown
  <2> HIDE DEF b
  <2>3. /\ Rows(b) \subseteq Rows(a)
        /\ Rows(a) \subseteq Rows(b) \cup UNION {Childcare(adult) : adult \in Adults}
        /\ \A field \in Rows(a) : b[field] = a[field]
    BY <2>2, SameRows DEF KeepsShown
  <2>4. HiddenIncomesHideChildcare
           <=> LET shown == AnswerSummaries(a)
                   rest == AnswerSummaries(b)
               IN
               /\ DOMAIN rest \subseteq DOMAIN shown
               /\ DOMAIN shown \ DOMAIN rest \subseteq UNION {Childcare(adult) : adult \in Adults}
               /\ \A field \in DOMAIN rest : rest[field] = shown[field]
    BY DEF HiddenIncomesHideChildcare, b
  <2> QED
    BY <2>3, <2>4 DEF AnswerSummaries
<1> QED
  BY <1>1, MeansInvariance, PTL

=============================================================================
