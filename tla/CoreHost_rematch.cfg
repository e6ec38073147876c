SPECIFICATION Spec
CONSTANTS
    MaxMatches = 2
    MaxPolls = 1
PROPERTIES
    MatchCallbackHasRuntime
CHECK_DEADLOCK FALSE
