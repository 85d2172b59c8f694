SPECIFICATION LiveSpec
CONSTANTS
    root = root
    left = left
    right = right
    user = user
    other = other
    closer = closer
    none = none
    Runs = {root, left, right}
    ParentOf <- Chain3
    Inherited = {}
    Stoppers = {user, closer}
    Closer = closer
    None = none
    KeepAgentsRunning = FALSE
    MaxLives = 1
    MaxStops = 1
    MaxRefused = 0
    MaxLetGo = 0
INVARIANT ClosedIsStopped
INVARIANT StoppedIsInterrupted
PROPERTY ClosingDrains
CHECK_DEADLOCK FALSE
