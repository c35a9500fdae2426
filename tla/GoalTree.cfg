\* Main loop and worker, two goals and two keys of which one may be kept.
SPECIFICATION Spec
SYMMETRY KeySymmetry
CONSTANTS
    Keys = {k1, k2}
    MaxFacts = 1
    MaxGoals = 2
    MaxIds = 2
    MaxWorkerIterations = 1
INVARIANTS
    
    GateHonoursPlan
    ChildSettled
