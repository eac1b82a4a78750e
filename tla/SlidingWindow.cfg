\* While Redis answers.
CONSTANTS
    Requests = {a, b, c}
    MaxCount = 2
    Window = 3
    CountCap = 5
    Faults = {}
SPECIFICATION Spec
INVARIANT SlidingWindow
