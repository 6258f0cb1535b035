SPECIFICATION FairSpec
CONSTANTS
    Callers = {c1}
    Workers = {w1, w2}
    Threads = 3
    Counts = {1, 2, 5}
    ChunksPerThread = 1
    Grows = {0, 2, 3}
    MaxUsize = 7
    Rounds = 2
    MaxIterations = 5
    MaxBad = 2
INVARIANTS
    IInv
    HelpersCountedOn
    LowestFailureWins
    EachIterationOnce
    EarlierIterationsRan
    NobodyOutlivesTheLoop
    GrowthsApart
PROPERTIES
    ImplementsPlainFor
    EveryLoopReturns
