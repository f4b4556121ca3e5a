\* Two weeks, three weekly links: reviews, overrides and executions in depth.
SPECIFICATION Spec
CONSTANTS
    Cutoffs = {1, 2}
    Suggestions <- MCSuggestions
    Overrides <- MCOverrides
    MaxLinks = 3
    MaxVersion = 4
    MaxCompletions = 2
INVARIANTS
    TypeOK
    WeeksChain
    OneActiveRevision
    ActiveIsCurrent
    LossPairing
    DerivedColumnsAgree
    ReviewGatesWork
    HistoryExplainsVersions
    CompletionsInTurn
PROPERTIES
    VersionsFenceChanges
    DecisionsAreFinal
    TracksImplemented
CHECK_DEADLOCK FALSE
