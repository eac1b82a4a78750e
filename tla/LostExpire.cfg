\* Every INCR is answered; an EXPIRE fails, or its client goes away before it.
CONSTANTS
    Requests = {a, b, c}
    MaxCount = 2
    Window = 3
    CountCap = 5
    Faults = {"EXPIRE"}
SPECIFICATION FairSpec
PROPERTY BlockEnds
