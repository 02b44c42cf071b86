CONSTANTS
    Networks = {"home"}
    PressTime = 3
    Values = {0, 1}
    Default = 0
    MaxChanges = 2
    MaxEvents = 3
SPECIFICATION Spec
INVARIANTS
    OneTruth
    ClientFollowsSettings
    OneModeAtATime
    OneRequestPerPress
CHECK_DEADLOCK FALSE
