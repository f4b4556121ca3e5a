\* One worker whose commit succeeds while the answer is lost.
SPECIFICATION Spec
CONSTANTS
    Workers = {"w1"}
    Batches = {"b1"}
    Spus = {"s1", "s2"}
    Rows <- MCRows
    Readable = {"b1"}
    Steady = {}
    Faults = {"lost_ack"}
    MaxFaults = 1
INVARIANTS
    FailedHasNoList
CHECK_DEADLOCK FALSE
