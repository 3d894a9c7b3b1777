\* Two providers and every kind of request, three requests between them.
SPECIFICATION Spec
CONSTANTS
    Users = {u1, u2}
    Requests = {r1, r2, r3}
    NoUser = NoUser
    NoVersion = NoVersion
    MaxVersion = 2
    Served = {"view", "answer", "submit", "dropout", "elsewhere", "officeCleared"}
SYMMETRY Symmetry
INVARIANTS
    IInv
    KeptUntilAccepted
PROPERTIES
    NoEditUndone
\* Every request of the instance may have been answered.
CHECK_DEADLOCK FALSE
