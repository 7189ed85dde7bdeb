SPECIFICATION FairSpec
CONSTANTS
    TailLines = 2
    MaxBytes = 6
CHECK_DEADLOCK FALSE
INVARIANTS
    IInv
    ServedInOrder
    OnlyGap
PROPERTY
    FollowerCatchesUp
