SPECIFICATION FairSpec
CONSTANTS
    Threads = {main, other}
    RealWindows = {main}
    FramesToRun = 1
    MaxObjects = 2
INVARIANTS
    RaylibUsedAsAllowed
    ObjectsHold
PROPERTIES
    DroppedObjectsGo
