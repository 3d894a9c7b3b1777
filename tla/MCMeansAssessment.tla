------------------------- MODULE MCMeansAssessment -------------------------
(***************************************************************************)
(* An instance of MeansAssessment: journeys from which one change reaches    *)
(* every route, with answers beside it, and the day before a birthday and    *)
(* the birthday itself.                                                      *)
(***************************************************************************)
EXTENDS MeansAssessment

Date(y, m, d) == [year |-> y, month |-> m, day |-> d]

\* Eighteen on the 29 February that 2026 has not, and sixty on 1 March 2026.
MCBirths == {Date(2008, 2, 29), Date(1966, 3, 1)}

MCDays == <<Date(2026, 2, 28), Date(2026, 3, 1)>>

Plain ==
    [field \in Fields |->
        CASE field[2] = "level_of_help" -> "controlled"
          [] field[2] \in {"property_owned", "additional_property_owned"} -> "none"
          [] field[2] = "employment_status" -> "unemployed"
          [] field[2] \in RouteSelectors \cup HouseholdToggles -> "no"
          [] OTHER -> Missing]

\* A household of which every question was answered once.
EveryQuestion ==
    [field \in Fields |->
        CASE field[2] = "level_of_help" -> "controlled"
          [] field[2] \in {"property_owned", "additional_property_owned"} -> "shared_ownership"
          [] field[2] = "employment_status" -> "in_work"
          [] field[2] = "incomes" -> {"employment", "statutory_pay"}
          [] field[2] \in RouteSelectors \cup {"passporting"} -> "no"
          [] field[2] = "client_age" -> Missing
          [] field[2] \in HouseholdAmounts \cup AdultAmounts ->
                CHOOSE amount \in Amounts : TRUE
          [] OTHER -> "yes"]

Answered(answers, names, answer) ==
    [field \in Fields |-> IF field[2] \in names THEN answer ELSE answers[field]]

MCJourneys ==
    {Plain,
     EveryQuestion,
     Answered(EveryQuestion, {"partner", "student_finance_relevant"}, "no"),
     Answered(EveryQuestion, {"child_dependants", "adult_dependants", "partner"}, "no"),
     Answered(EveryQuestion, {"immigration_or_asylum", "asylum_support"}, "yes")}

Untested == [results |-> <<"not_calculated", "not_calculated">>,
             limit |-> "limit", total |-> 0]

MCResponses ==
    {[overall |-> "eligible", contributions |-> {},
      categories |-> [name \in Categories |-> Untested]],
     [overall |-> "ineligible", contributions |-> {},
      categories |-> [name \in Categories |-> Untested]],
     [overall |-> "contribution_required", contributions |-> {"capital"},
      categories |-> [name \in Categories |->
          IF name = "capital"
          THEN [results |-> <<"contribution_required">>, limit |-> "limit", total |-> -1]
          ELSE Missing]]}

=============================================================================
