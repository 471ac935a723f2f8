SPECIFICATION Spec
CONSTANTS
    d = d
    branch = branch
    All = All
    Docs = {d}
    Scopes = {All, branch}
    Years <- ThreeYears
    YearOf <- FirstYear
    ScopeOf <- InBranch
    Requested <- WholeAndBranch
    Reviewed <- WholeEntity
    MaxCalls = 2
INVARIANTS
    ClosingCoversYear
CHECK_DEADLOCK FALSE
