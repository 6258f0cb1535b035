SPECIFICATION FairSpec
CONSTANTS
    Callers = {c1, c2}
    Workers = {w1, w2}
    Threads = 2
    Counts = {2}
    ChunksPerThread = 1
    Grows = {}
    MaxUsize = 7
    Rounds = 1
    MaxIterations = 2
    MaxBad = 1
PROPERTIES
    EveryLoopReturns
