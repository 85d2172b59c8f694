SPECIFICATION Spec
CONSTANTS
    Retries = 1
    Background = TRUE
    StopReasons = {}
    MaxAttempts = 2
    MaxRestarts = 0
PROPERTY FailedObservationIsAsked
\* A run nobody opens again stays down.
CHECK_DEADLOCK FALSE
