\* A sign-out while another request of the session is in flight.
SPECIFICATION Spec
CONSTANTS
    Sids = {s1}
    NoSid = NoSid
    Requests = {r1, r2}
    Idle = 2
    Absolute = 4
    MaxTime = 2
INVARIANTS
    SignedOutHasNoSession
\* The clock is bounded, and every sid may have been used.
CHECK_DEADLOCK FALSE
