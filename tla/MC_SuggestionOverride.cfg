\* One page of a task that is terminated and then overridden.
SPECIFICATION PagesSpec
CONSTANTS
    Cutoffs = {1}
    Suggestions <- MCSuggestions
    Overrides <- MCOverrides
    MaxLinks = 1
    MaxVersion = 3
    MaxCompletions = 1
    Tabs = {"t"}
    Operators = {a, b}
SYMMETRY Symmetry
INVARIANTS
    TerminatedCanBeOverridden
CHECK_DEADLOCK FALSE
