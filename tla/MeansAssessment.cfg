\* Five journeys, one answer changed afterwards; days around two birthdays.
CONSTANTS
    Missing = Missing
    NoAssessment = NoAssessment
    Amounts = {a1}
    Births <- MCBirths
    Days <- MCDays
    Journeys <- MCJourneys
    Responses <- MCResponses
    MaxChanges = 1
SPECIFICATION Spec
INVARIANTS
    IInv
    NoTotalsNoIncome
    NoStaleAnswerShows
    AgeIsCompletedYears
PROPERTY
    SavedResumes
