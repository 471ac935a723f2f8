\* Two runs over the same lines, by engine and by hand.
SPECIFICATION Spec
CONSTANTS
    early = early
    late = late
    cheque = cheque
    transfer = transfer
    Runs = {early, late}
    Lines = {1, 2}
    Books = {1, 2, 3}
    Instruments = {cheque, transfer}
    Sees <- SeesUpTo
    Ledger <- LedgerUpTo
    LineAmount <- OneEach
    BookAmount <- TwoIsTwo
    InstrumentAmount <- InstrumentOne
    Score <- Scores
    Safe <- Alike
    Named <- Quoted
    Locking = {early}
    Unwritten = {3}
    MaxMatches = 3
INVARIANTS TypeOK OneFinalMatch FinalIsShown SidesAgree LinksAreFinal VoucherStands
VIEW Essence
