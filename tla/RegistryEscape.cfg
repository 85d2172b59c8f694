SPECIFICATION Spec
CONSTANTS
    root = root
    left = left
    right = right
    user = user
    other = other
    closer = closer
    none = none
    Runs = {root, left, right}
    ParentOf <- Fork2
    Inherited = {}
    Stoppers = {user}
    Closer = none
    None = none
    KeepAgentsRunning = FALSE
    MaxLives = 1
    MaxStops = 1
    MaxRefused = 0
    MaxLetGo = 0
INVARIANT NoneEscapes
CHECK_DEADLOCK FALSE
