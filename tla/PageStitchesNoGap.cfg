SPECIFICATION Spec
CONSTANTS
    Log <- ThreeSent
    MaxUpdate = 1
    PageSize = 1
    MaxCalls = 1
PROPERTY PageStitchesNoGap
CHECK_DEADLOCK FALSE
