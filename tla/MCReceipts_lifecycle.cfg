SPECIFICATION ReceiptsSpec
CONSTANTS
    bill = bill
    a1 = a1
    a2 = a2
    s1 = s1
    s2 = s2
    s3 = s3
    s4 = s4
    onAcc = onAcc
    against = against
    Items = {bill}
    CreditNotes = {}
    Original <- NoOriginal
    DueOrder <- BillOnly
    Advances = {a1, a2}
    Settlements = {s1, s2, s3, s4}
    Gross <- BillOf16
    AdvanceAmounts = {}
    LineChoices <- ByHand
    FifoAmounts = {}
    TypedAmounts = {}
    SlowEdits = {}
    BlockOver = TRUE
    AutoAdjust = FALSE
    TOL = 1
    Vouchers = {onAcc, against}
    Cash <- CashOf
    OnAccount = {onAcc}
    Allocations <- Allocated
    Draws <- Drawn
    OwnAdvance <- Own
    SlowConfirms = {against}
SYMMETRY SettlementSymmetry
INVARIANTS
    ReceiptsTypeOK
    NeverAppliedTwice
    StandingIsLinked
    ReceiptAccountedFor
CHECK_DEADLOCK FALSE
