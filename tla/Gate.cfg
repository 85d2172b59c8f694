SPECIFICATION FairSpec
CONSTANTS
    c1 = c1
    c2 = c2
    model1 = model1
    model2 = model2
    wire = wire
    nobody = nobody
    Calls = {c1, c2}
    Routes = {model1, model2, wire}
    Path <- TwoModels
    MaxCool = 2
    NoCall = nobody
INVARIANT CoolingAdmitsOnlyItsProbe
INVARIANT NoCircularWait
PROPERTY AttemptWaitsOutEveryRoute
PROPERTY OneCoolingPerCohort
PROPERTY ImplementsBreaker
PROPERTY EveryCallEnds
