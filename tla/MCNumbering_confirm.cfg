SPECIFICATION Spec
CONSTANTS
    root = root
    branch = branch
    d1 = d1
    d2 = d2
    Docs = {d1, d2}
    Scopes = {root, branch}
    Root = root
    ScopeOf <- InBranch
    Periods = {1, 2}
    Setups <- EverySetup
    PaymentTries = 2
    Slow = {d1}
    OpenCopies = 1
    TopNumber = 3
INVARIANTS
    TypeOK
    NoneSkipped
    
PROPERTIES
    NumberIsKept
CHECK_DEADLOCK FALSE
