\* An override of a link whose change was rejected opens unapproved work.
SPECIFICATION Spec
CONSTANTS
    Cutoffs = {1}
    Suggestions <- MCSuggestions
    Overrides <- MCOverrides
    MaxLinks = 2
    MaxVersion = 4
    MaxCompletions = 0
INVARIANTS
    WorkIsApproved
CHECK_DEADLOCK FALSE
