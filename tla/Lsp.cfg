SPECIFICATION FairSpec
CONSTANTS
    AppTexts <- SomeAppTexts
    LibTexts <- SomeLibTexts
    Shows <- TwoShows
    Disks <- SomeDisks
    MaxEvents = 5
    MaxQueue = 1
CHECK_DEADLOCK FALSE
INVARIANTS
    EditorIsShownWhatHolds
PROPERTIES
    MarkedIsAnalysed
