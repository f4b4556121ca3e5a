\* Two workers that read without claiming, requests, two lost answers.
SPECIFICATION FairSpec
CONSTANTS
    Workers = {"w1", "w2"}
    Batches <- MCBatches
    Migrated = {"d3"}
    Linked = {"d1", "d3"}
    Outcomes = {"generated", "failed"}
    MaxVersions = 2
    MaxLost = 2
INVARIANTS
    TypeOK
    LatestIsGenerating
    HistoryTellsOutcome
PROPERTIES
    ExplanationsAnsweredOnce
    EveryExplanationDecided
CHECK_DEADLOCK FALSE
