SPECIFICATION Spec
CONSTANTS
    inv = inv
    late = late
    note = note
    a1 = a1
    s1 = s1
    s2 = s2
    Items = {inv, late}
    CreditNotes = {}
    Original <- NoOriginal
    DueOrder <- InvoiceDue
    Advances = {a1}
    Settlements = {s1, s2}
    Gross <- Fixed
    AdvanceAmounts = {6}
    LineChoices <- TwoInvoices
    FifoAmounts = {6}
    TypedAmounts = {}
    SlowEdits = {late}
    BlockOver = FALSE
    AutoAdjust = FALSE
    TOL = 1
VIEW Mirrors
SYMMETRY SettlementSymmetry
INVARIANTS
    SettledIsApplied
    AdvanceIsApplied
    AdvanceNeverOverdrawn
    OpenMeansOwing
    HeaderMirrorsItem
    SettledWithinOriginal
CHECK_DEADLOCK FALSE
