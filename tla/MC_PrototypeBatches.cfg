\* Two files, one worker, one tab; pages of one row or two.
SPECIFICATION FairSpec
CONSTANTS
    Files = {"f", "g"}
    Own = {"f"}
    Filters = {"ready"}
    Workers = {"w"}
    Rows <- MCRows
    MaxAttempts = 2
    PageSize = 1
    Sizes = {2}
INVARIANTS
    TypeOK
    PublishedForGood
    RetryHasNothingToRead
    FinalPageIsComplete
PROPERTIES
    PageSettles
