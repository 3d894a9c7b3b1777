\* Two requests at a time in one session, long enough for renewals to reach
\* the absolute deadline.
SPECIFICATION Spec
CONSTANTS
    Sids = {s1}
    NoSid = NoSid
    Requests = {r1, r2}
    Idle = 2
    Absolute = 5
    MaxTime = 7
SYMMETRY Symmetry
INVARIANTS
    IInv
    TokensWithinLimits
    TokensOutliveSession
    EndedStaysEnded
PROPERTIES
    LetInOnlyInTime
    ActiveNotTimedOut
    KeepsPromise
\* The clock is bounded, and every sid may have been used.
CHECK_DEADLOCK FALSE
