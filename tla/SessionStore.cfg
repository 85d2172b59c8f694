SPECIFICATION StoreLiveSpec
CONSTANTS
    Jobs = {j1, j2, j3}
    Ordering = {j3}
    Awaited = {j1, j3}
    Sizes = {2}
    None = None
INVARIANT NoneLeftWaiting
INVARIANT TrackedIsCommitted
INVARIANT ReturnedIsFolded
INVARIANT SettledCoversEarlier
PROPERTY ImplementsCommitLog
PROPERTY DrainEnds
PROPERTY CallersReturn
CHECK_DEADLOCK FALSE
