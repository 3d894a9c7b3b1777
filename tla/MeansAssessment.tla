-------------------------- MODULE MeansAssessment --------------------------
(***************************************************************************)
(* The means assessment of one case: CCQ, in the browser, loads it from and  *)
(* saves it to /eligibility, which derives the client's age range from the   *)
(* date of birth, and the export reads what was saved.                       *)
(*                                                                         *)
(* CCQ keeps the answers of a branch that was left, so what is saved may hold *)
(* answers to questions that no longer apply.                                *)
(***************************************************************************)
EXTENDS MeansExport

CONSTANTS
    Births,        \* dates of birth a case can have
    Days,          \* the days of the model, a sequence of dates
    Journeys,      \* the answers of journeys CCQ completes in one go
    Responses,     \* the summaries of CFE's results
    NoAssessment,
    MaxChanges     \* bound: how many answers are changed afterwards

VARIABLES
    birth,        \* the client's date of birth
    today,        \* the index of today in Days
    ccq,          \* the answers CCQ holds, if it is open
    eligibility,  \* the application's eligibility: data and result
    changes       \* history: how many answers were changed

vars == <<birth, today, ccq, eligibility, changes>>

---------------------------------------------------------------------------
(* The age range *)

IsLeap(year) == year % 4 = 0 /\ (year % 100 # 0 \/ year % 400 = 0)

\* The days of the year before a month begins.
DaysBefore(year, month) ==
    <<0, 31, 59, 90, 120, 151, 181, 212, 243, 273, 304, 334>>[month]
    + (IF month > 2 /\ IsLeap(year) THEN 1 ELSE 0)

MonthLength(year, month) ==
    CASE month = 2 -> IF IsLeap(year) THEN 29 ELSE 28
      [] month \in {4, 6, 9, 11} -> 30
      [] OTHER -> 31

IsDate(date) ==
    /\ date.year \in Nat
    /\ date.month \in 1 .. 12
    /\ date.day \in 1 .. MonthLength(date.year, date.month)

\* Date.UTC of a year, month and day: a day the month lacks is in the next one.
DayOfYear(year, month, day) == DaysBefore(year, month) + day

\* Variant: the birthday itself is not yet past.
BirthdayHasPassedLate(born, day) ==
    DayOfYear(day.year, day.month, day.day)
        > DayOfYear(day.year, born.month, born.day)

BirthdayHasPassed(born, day) ==
    DayOfYear(day.year, day.month, day.day)
        >= DayOfYear(day.year, born.month, born.day)

AgeRangeOf(age) ==
    IF age < 18 THEN "under_18" ELSE IF age < 60 THEN "standard" ELSE "over_60"

DeriveClientAgeRange(born, day) ==
    AgeRangeOf(day.year - born.year - (IF BirthdayHasPassed(born, day) THEN 0 ELSE 1))

---------------------------------------------------------------------------
(* /eligibility *)

Today == Days[today]

AgeField == <<"household", "client_age">>

\* Variant: only an assessment with a result of CFE is resumed.
LoadOfCalculated ==
    LET saved == IF /\ eligibility.data # Missing /\ eligibility.result # Missing
                    /\ eligibility.result.summary # Missing
                 THEN eligibility.data ELSE [field \in Fields |-> Missing]
    IN  [saved EXCEPT ![AgeField] = DeriveClientAgeRange(birth, Today)]

\* loadEligibilityAssessment: resumed if both the answers and a result are saved.
LoadEligibilityAssessment ==
    LET saved == IF eligibility.data # Missing /\ eligibility.result # Missing
                 THEN eligibility.data ELSE [field \in Fields |-> Missing]
    IN  [saved EXCEPT ![AgeField] = DeriveClientAgeRange(birth, Today)]

\* Variant: a response that is not a record is dropped.
SplitDroppingResponse(answers, response) ==
    [data |-> answers,
     result |-> IF response = Missing THEN Missing ELSE [summary |-> response]]

\* splitEligibilityAssessment: without a response that is a record, the result
\* is an empty one.
SplitEligibilityAssessment(answers, response) ==
    [data |-> answers, result |-> [summary |-> response]]

AreAnswers(answers) ==
    /\ DOMAIN answers = Fields
    /\ \A field \in Fields : answers[field] \in Maybe(Choices(field[2]))

ASSUME AssessmentAssumption ==
    /\ Len(Days) \in Nat \ {0}
    /\ \A i \in 1 .. Len(Days) : IsDate(Days[i])
    /\ \A born \in Births : IsDate(born)
    /\ \A journey \in Journeys : AreAnswers(journey)
    /\ \A response \in Maybe(Responses) : [summary |-> response] # Missing

Init ==
    /\ birth \in Births
    /\ today = 1
    /\ ccq = NoAssessment
    /\ eligibility = [data |-> Missing, result |-> Missing]
    /\ changes = 0

Tomorrow ==
    /\ today < Len(Days)
    /\ today' = today + 1
    /\ UNCHANGED <<birth, ccq, eligibility, changes>>

\* The client's details are edited; nothing is reassessed.
EditDateOfBirth ==
    /\ birth' \in Births \ {birth}
    /\ UNCHANGED <<today, ccq, eligibility, changes>>

Load ==
    /\ ccq' = LoadEligibilityAssessment
    /\ UNCHANGED <<birth, today, eligibility, changes>>

\* CCQ has an assessment once its first question, the level of help, is answered.
Started(answers) == answers[<<"household", "level_of_help">>] # Missing

\* CCQ's own journey, of an assessment that was not resumed.
CompleteJourney ==
    /\ ccq # NoAssessment
    /\ ~Started(ccq)
    /\ \E journey \in Journeys : ccq' = [journey EXCEPT ![AgeField] = ccq[AgeField]]
    /\ UNCHANGED <<birth, today, eligibility, changes>>

\* CCQ changes an answer and keeps the others; the age is RCW's.
ChangeAnswer ==
    /\ ccq # NoAssessment
    /\ Started(ccq)
    /\ changes < MaxChanges
    /\ \E field \in Fields \ {AgeField} : \E answer \in Choices(field[2]) :
           ccq' = [ccq EXCEPT ![field] = answer]
    /\ changes' = changes + 1
    /\ UNCHANGED <<birth, today, eligibility>>

\* CCQ has a result, and the API takes it.
Save ==
    /\ ccq # NoAssessment
    /\ Started(ccq)
    /\ \E response \in Maybe(Responses) :
           eligibility' = SplitEligibilityAssessment(ccq, response)
    /\ ccq' = NoAssessment
    /\ UNCHANGED <<birth, today, changes>>

\* CCQ is left, or the save failed and the page with it.
Leave ==
    /\ ccq # NoAssessment
    /\ ccq' = NoAssessment
    /\ UNCHANGED <<birth, today, eligibility, changes>>

Next ==
    \/ Tomorrow
    \/ EditDateOfBirth
    \/ Load
    \/ CompleteJourney
    \/ ChangeAnswer
    \/ Save
    \/ Leave

Spec == Init /\ [][Next]_vars

---------------------------------------------------------------------------
(* Properties *)

\* The inductive invariant: every answer is one of its question, and answers are
\* saved of a started assessment and together with a result.
IInv ==
    /\ birth \in Births
    /\ today \in 1 .. Len(Days)
    /\ ccq # NoAssessment => AreAnswers(ccq)
    /\ DOMAIN eligibility = {"data", "result"}
    /\ eligibility.data # Missing =>
           /\ eligibility.result # Missing
           /\ AreAnswers(eligibility.data)
           /\ Started(eligibility.data)
           /\ eligibility.result.summary \in Maybe(Responses)

\* An outcome the export reports without any total is one of a case whose income
\* was not asked for: the exemptions by which the calculations are taken agree
\* with the routes by which the cards are shown (calculations.mapper.ts, isExempt;
\* answers.selections.ts).
NoTotalsNoIncome ==
    LET section == MeansSection(eligibility)
    IN
    /\ eligibility.data # Missing
    /\ section.summary.outcome # "unavailable"
    /\ section.summary.totals = {}
    => IncomeRowsOf(eligibility.data) = {}

\* The answers without those that neither a card shows nor a route is chosen by.
WithoutHidden(answers, kept) ==
    LET used == Rows(answers) \cup Household(RouteSelectors) \cup kept
    IN  [field \in Fields |-> IF field \in used THEN answers[field] ELSE Missing]

Incomes == Adults \X {"incomes"}

\* What the export shows does not depend on answers CCQ kept of a branch that was
\* left, except on incomes (answers.mapper.ts and the questions' cards).
NoStaleAnswerShows ==
    eligibility.data # Missing =>
        AnswerSummaries(WithoutHidden(eligibility.data, Incomes))
            = AnswerSummaries(eligibility.data)

\* The same without exception: nothing shows of answers behind inactive controls
\* (tests/ui/tests/export.spec.ts, "does not render stale answers behind inactive
\* controls").  The incomes of a person who no longer works still decide whether
\* the childcare payments show.
NoHiddenAnswerShows ==
    eligibility.data # Missing =>
        AnswerSummaries(WithoutHidden(eligibility.data, {}))
            = AnswerSummaries(eligibility.data)

\* By the calendar: a year is complete when month and day of the birth have come.
CompletedYears(born, day) ==
    day.year - born.year
        - (IF \/ day.month > born.month
              \/ day.month = born.month /\ day.day >= born.day
           THEN 0 ELSE 1)

\* The age range CCQ is given is that of the years completed by the calendar, on
\* the birthday itself and for births on 29 February, whose birthday Date.UTC
\* moves to 1 March (eligibility.service.ts, deriveClientAgeRange).
AgeIsCompletedYears ==
    DeriveClientAgeRange(birth, Today) = AgeRangeOf(CompletedYears(birth, Today))

LoadResumes ==
    Load /\ eligibility.data # Missing =>
        \A field \in Fields \ {AgeField} : ccq'[field] = eligibility.data[field]

\* An assessment that was saved is not lost: whatever the result, even none that
\* CFE gave, the next load resumes it, with the age of that day
\* (eligibility.service.ts, splitEligibilityAssessment and
\* loadEligibilityAssessment).
SavedResumes == [][LoadResumes]_vars

=============================================================================
