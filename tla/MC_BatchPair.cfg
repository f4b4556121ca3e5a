\* Two workers, every kind of fault, and leases that may run out under them.
SPECIFICATION FairSpec
CONSTANTS
    Workers = {"w1", "w2"}
    Batches = {"b1", "b2", "b3"}
    Spus = {"s1", "s2"}
    Rows <- MCRows
    Readable = {"b1", "b2"}
    Steady = {"b1"}
    Faults = {"crash", "error", "lost_ack"}
    MaxFaults = 2
INVARIANTS
    TypeOK
    WrittenOnce
    ReadyIsComplete
    JobAgreesWithBatch
PROPERTIES
    ImportsAreAtomic
    EveryBatchSettles
CHECK_DEADLOCK FALSE
