\* Batches paid, failed and brought back while users settle the same bills.
SPECIFICATION Spec
CONSTANTS
    small = small
    large = large
    Batches = {b1, b2}
    Items = {small, large}
    Payments = {p1, p2}
    Original <- Bills
    Valid = {small, large}
SYMMETRY Alike
INVARIANTS TypeOK NeverOverpaid PaidInFull SharedAfterFailure
PROPERTIES ImplementsAllocation
CHECK_DEADLOCK FALSE
