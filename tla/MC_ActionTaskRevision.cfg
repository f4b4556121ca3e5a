\* Two reviews of one shared revision leave approved work without a revision.
SPECIFICATION Spec
CONSTANTS
    Cutoffs = {1}
    Suggestions <- MCSuggestions
    Overrides <- MCOverrides
    MaxLinks = 2
    MaxVersion = 4
    MaxCompletions = 0
INVARIANTS
    WorkHasRevision
CHECK_DEADLOCK FALSE
