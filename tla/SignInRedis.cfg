\* Two sessions, two racing sign-ins and two callbacks against Redis, with
\* refused calls, lost replies, key expiry and processes that die.  No symmetry,
\* since a liveness property is checked.
SPECIFICATION FairSpec
CONSTANTS
    Attempts = {a1, a2}
    NoAttempt = NoAttempt
    Sessions = {s1, s2}
    NoSession = NoSession
    Callbacks = {c1, c2}
    Lifetime = 2
    MaxTime = 3
    Backend = "redis"
INVARIANTS
    ConsumedAtMostOnce
    SupersededOnlyByNewer
    FailedLeavesNoFlow
PROPERTIES
    ConsumesOnlyCurrentFlow
    FlowLossJustified
    KeepsPromise
    RaceHasAWinner
\* Every request of the instance may have been answered and the clock be at
\* its bound.
CHECK_DEADLOCK FALSE
