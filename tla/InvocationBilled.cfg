SPECIFICATION FairSpec
CONSTANTS
    Retries = 1
    Background = TRUE
    StopReasons = {"user", "shutdown"}
    MaxAttempts = 3
    MaxRestarts = 1
INVARIANT HistoryLoads
INVARIANT BilledWithinBudget
PROPERTY RecordedWorkIsObserved
PROPERTY AskedBeforeResend
PROPERTY SettlesOrAsks
\* A run nobody opens again stays down.
CHECK_DEADLOCK FALSE
