SPECIFICATION Spec
CONSTANTS
    Keys = {32, 280}
    LockKeys = {280}
    Buttons = {0, 1}
    PadButtons = {"trigger"}
    Places <- MCPlaces
    Middle <- MCMiddle
    QueueSize = 1
    Capacity = 5
    Pauses = {1, 4}
    MaxFrames = 3
    MaxEvents = 4
CHECK_DEADLOCK FALSE
INVARIANTS
    InputFollowsTheUser
    GesturesNeedAButton
    ReplaysAsRecorded
