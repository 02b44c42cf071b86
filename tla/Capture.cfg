CONSTANTS
    MaxQueue = 3
SPECIFICATION FairSpec
INVARIANTS
    StoppedIsHonest
    RetainedCatchesUp
    Agreement
    StopFlagHasReader
PROPERTIES
    StopTakesEffect
    StoppedComesToRest
