SPECIFICATION Spec
CONSTANTS
    Elements = 3
    DrawCalls = 3
    Textures = {"red"}
    MaxSent = 4
    MaxOpen = 2
INVARIANTS
    DrawnAsSent
    BufferHeld
    ModesReturn
