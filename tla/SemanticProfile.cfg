SPECIFICATION Spec
CONSTANTS
    Sessions = {s1, s2}
    Sources = {a}
    Keys = {"time", "unit"}
    Signatures = {"wide", "narrow"}
    Candidates <- MCCandidates
    Overrides <- MCOverrides
    Callers = {w1, w2}
    MaxProfiles = 2
    MaxConfirms = 2
SYMMETRY MCSymmetry
INVARIANTS
    
    OverridesStayInScope
    ConfirmedKeysHaveValue
CHECK_DEADLOCK FALSE
