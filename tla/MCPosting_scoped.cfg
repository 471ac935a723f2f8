SPECIFICATION FairSpec
CONSTANTS
    r1 = r1
    r2 = r2
    r3 = r3
    w1 = w1
    w2 = w2
    voucher = voucher
    opening = opening
    Runs = {r1, r2, r3}
    Workers = {w1, w2}
    Docs = {voucher}
    ScopedDocs = {voucher}
    HeaderLocked = {}
    Keys <- AllKeys
    KeyOf <- ProcessKeys
    JlInputs <- SomeInputs
INVARIANTS
    OneActiveBatch
PROPERTIES
    EveryPostEnds
CHECK_DEADLOCK FALSE
