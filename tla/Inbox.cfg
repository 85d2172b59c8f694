SPECIFICATION LiveSpec
CONSTANTS
    user = user
    typed = typed
    report = report
    peer = peer
    notice = notice
    exit = exit
    Msgs = {typed, report}
    From <- FromOf
    Hold <- HoldOf
    Exits = exit
    MaxLives = 2
    MaxStops = 1
    MaxRestarts = 1
    MaxSends = 1
INVARIANT NoSleepOnInput
INVARIANT SomeoneComes
PROPERTY ImplementsMailbox
PROPERTY OwedIsRead
CHECK_DEADLOCK FALSE
