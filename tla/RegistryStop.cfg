SPECIFICATION Spec
CONSTANTS
    root = root
    left = left
    right = right
    user = user
    other = other
    closer = closer
    none = none
    Runs = {root, left}
    ParentOf <- Chain2
    Inherited = {root}
    Stoppers = {user, other, closer}
    Closer = closer
    None = none
    KeepAgentsRunning = TRUE
    MaxLives = 1
    MaxStops = 2
    MaxRefused = 1
    MaxLetGo = 1
PROPERTY SlipsHaveCause
PROPERTY AskedStopIsApplied
PROPERTY ImplementsLives
CHECK_DEADLOCK FALSE
SYMMETRY Alike
