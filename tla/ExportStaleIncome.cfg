\* An answer behind an inactive control still shows.
CONSTANTS
    Missing = Missing
    NoAssessment = NoAssessment
    Amounts = {a1}
    Births <- MCBirths
    Days <- MCDays
    Journeys <- MCJourneys
    Responses <- MCResponses
    MaxChanges = 1
SPECIFICATION Spec
INVARIANT
    NoHiddenAnswerShows
