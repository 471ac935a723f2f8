SPECIFICATION Spec
CONSTANTS
    inv = inv
    late = late
    note = note
    a1 = a1
    s1 = s1
    s2 = s2
    Items = {inv, note}
    CreditNotes = {note}
    Original <- NoteFor
    DueOrder <- NoteDue
    Advances = {}
    Settlements = {s1, s2}
    Gross <- NoteOf4
    AdvanceAmounts = {}
    LineChoices <- WithNote
    FifoAmounts = {}
    TypedAmounts = {2}
    SlowEdits = {inv}
    BlockOver = TRUE
    AutoAdjust = TRUE
    TOL = 1
VIEW Essence
SYMMETRY SettlementSymmetry
INVARIANTS
    TypeOK
    SettledIsApplied
    
CHECK_DEADLOCK FALSE
