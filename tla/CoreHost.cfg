SPECIFICATION FairSpec
CONSTANTS
    MaxMatches = 3
    MaxPolls = 2
INVARIANTS
    RuntimeHandlesLive
    NetplayWithoutCodes
PROPERTIES
    StopReturns
    EndReopensRoom
\* A freed host takes no further step.
CHECK_DEADLOCK FALSE
