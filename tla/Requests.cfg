SPECIFICATION Spec
CONSTANTS
    root = root
    child = child
    q1 = q1
    s1 = s1
    s2 = s2
    None = None
    Runs = {root, child}
    Under <- UnderOf
    Reqs = {q1}
    RunOf <- RunsOf
    Surfaces = {s1, s2}
    MaxChanges = 2
    MaxCrashes = 1
INVARIANT NoLostDecision
INVARIANT PluginAgrees
INVARIANT CoveredIsDecided
INVARIANT ChangeStands
PROPERTY ImplementsRegister
CHECK_DEADLOCK FALSE
SYMMETRY Alike
