\* Four users on pages of one to three; ints of four bits, so that offsets of
\* later pages overflow; no, one or two replicas.
CONSTANTS
    Users = {u1, u2, u3, u4}
    MaxReplicas = 2
    MaxChanges = 2
    CounterSize = 2
    MaxInt = 7
    DefaultPageSize = 2
    MaxPageSize = 3
    RawPages <- Pages
    RawSizes <- Sizes
SPECIFICATION ListSpec
SYMMETRY Symmetry
INVARIANT ListTypeOK
INVARIANT PagesPartition
INVARIANT MetaAgrees
INVARIANT WalkMissesNobody
