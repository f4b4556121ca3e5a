\* A worker stops between the commit of a reminder and the record of its outcome.
SPECIFICATION FairSpec
CONSTANTS
    Workers = {w1}
    Requests = {r1}
    Users = {"u1"}
    Unaddressed = {"ambiguous"}
    MaxDay = 1
    MaxCalls = 0
    MaxFaults = 1
PROPERTIES
    PendingIsDecided
CHECK_DEADLOCK FALSE
