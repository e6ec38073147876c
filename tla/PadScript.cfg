SPECIFICATION FairSpec
CONSTANTS
    Scripts <- MCScripts
    Repeat = 2
    Width = 8
    Increments = 2
    Timeout = 3
    Pause = 2
    OpenTimeout = 1
    MaxTaps = 2
    MaxEvents = 6
    None = None
INVARIANTS
    SteeringReleasesStick
    PassedReleasesTaps
    CounterWaitsLongEnough
PROPERTIES
    ScriptEnds
\* A script that has ended takes no further step.
CHECK_DEADLOCK FALSE
