SPECIFICATION Spec
CONSTANTS
    now = now
    one = one
    two = two
    Natives <- OneNative
    Values <- TwoValues
    Bytes <- Three
    Chunks <- Writes
    Messages <- OneMessage
    DrawLine <- Shape
    NL <- Break
    MaxOps = 3
INVARIANTS
    SameProgramMatches
    ReplaysTellApart
