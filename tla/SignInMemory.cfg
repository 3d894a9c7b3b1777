\* Three sign-ins racing in two sessions of the process-local store, with two
\* callbacks and restarts.
SPECIFICATION Spec
CONSTANTS
    Attempts = {a1, a2, a3}
    NoAttempt = NoAttempt
    Sessions = {s1, s2}
    NoSession = NoSession
    Callbacks = {c1, c2}
    Lifetime = 2
    MaxTime = 3
    Backend = "memory"
SYMMETRY Symmetry
INVARIANTS
    IInv
PROPERTIES
    FlowLossJustified
\* Every request of the instance may have been answered and the clock be at
\* its bound.
CHECK_DEADLOCK FALSE
