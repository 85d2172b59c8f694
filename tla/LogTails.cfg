SPECIFICATION LiveSpec
CONSTANTS
    Tails = {t1}
    MaxLog = 3
    MaxGone = 1
INVARIANT QuietIsCaughtUp
PROPERTY ImplementsReaders
PROPERTY TailsCatchUp
PROPERTY TailsEnd
CHECK_DEADLOCK FALSE
