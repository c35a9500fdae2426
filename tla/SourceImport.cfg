SPECIFICATION Spec
CONSTANTS
    Requests = {r1, r2}
    Files = {"f"}
    Pgs = {p, q}
    Objects = {"Orders"}
    TableOf <- MCTableOf
    MaxSnaps = 2
    MaxCalls = 6
SYMMETRY MCSymmetry
INVARIANTS
    FileReadable
    
    BindingResolves
    
    
    LockHeldByImport
CHECK_DEADLOCK FALSE
