\* Three requests in flight, a limit of two and a window of three ticks: a
\* stretch of one window can touch the end of one key and the start of the next.
CONSTANTS
    Requests = {a, b, c}
    MaxCount = 2
    Window = 3
    CountCap = 5
    Faults = {"INCR", "EXPIRE"}
SPECIFICATION FairSpec
INVARIANT TypeOK
INVARIANT TwoWindowBound
INVARIANT OneExpirePending
PROPERTY KeyGoesAway
