\* Two requests at a time, two cases, and claims that change.
SPECIFICATION Spec
CONSTANTS
    Requests = {r1, r2}
    Cases = {c1, c2}
    o1 = o1
    o2 = o2
    Offices = {o1, o2}
    ClaimSets <- MCClaimSets
    Results = {"ineligible"}
    Missing = Missing
    MaxDrafts = 1
    MaxRequests = 4
SYMMETRY Symmetry
INVARIANTS
    IInv
    SubmittedIsComplete
    DeclaredAsSigned
    NoAnswersLost
    CreatedOnce
PROPERTY
    OfficesAreClaimed
\* The number of requests is bounded, and every case may be completed.
CHECK_DEADLOCK FALSE
