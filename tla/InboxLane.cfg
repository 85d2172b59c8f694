SPECIFICATION LiveSpec
CONSTANTS
    user = user
    typed = typed
    report = report
    peer = peer
    notice = notice
    exit = exit
    Msgs = {user}
    From <- FromOf
    Hold <- HoldOf
    Exits = exit
    MaxLives = 2
    MaxStops = 1
    MaxRestarts = 1
    MaxSends = 1
PROPERTY EverySendLands
CHECK_DEADLOCK FALSE
