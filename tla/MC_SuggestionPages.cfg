\* One page, and everyone else, over a task of two weekly links.
SPECIFICATION PagesSpec
CONSTANTS
    Cutoffs = {1}
    Suggestions <- MCSuggestions
    Overrides <- MCOverrides
    MaxLinks = 2
    MaxVersion = 3
    MaxCompletions = 1
    Tabs = {"t"}
    Operators = {a, b}
SYMMETRY Symmetry
INVARIANTS
    PagesTypeOK
    AcceptedAsShown
    OfferedIsAccepted
CHECK_DEADLOCK FALSE
