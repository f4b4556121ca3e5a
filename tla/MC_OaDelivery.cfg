\* Two workers, two requests, one user and an unclear recipient, one fault.
SPECIFICATION Spec
CONSTANTS
    Workers = {w1, w2}
    Requests = {r1, r2}
    Users = {"u1"}
    Unaddressed = {"ambiguous"}
    MaxDay = 2
    MaxCalls = 2
    MaxFaults = 1
SYMMETRY Interchangeable
INVARIANTS
    TypeOK
    RemindedOncePerDay
    SentIsTrue
    PendingIsInHand
PROPERTIES
    RemindersAreErrands
CHECK_DEADLOCK FALSE
