SPECIFICATION FairSpec
CONSTANTS
    t1 = t1
    t2 = t2
    t3 = t3
    Entries <- OnlyMain
    MainTexts <- SomeMainTexts
    ModuleTexts <- SomeModuleTexts
    MaxEdits = 2
    MaxCalls = 3
    Threads <- ThreeThreads
INVARIANTS
    NewFilesReloaded
