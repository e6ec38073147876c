SPECIFICATION FairSpec
CONSTANTS
    Plans <- MCPlans
INVARIANTS
    EvidenceIsOfWhatRan
    ChainRestsOnOneBoot
    AcceptedGameWasTested
    NoOrphans
PROPERTY
    ScriptsEnd
CHECK_DEADLOCK FALSE
