\* A locked run is matched by the engine all the same.
SPECIFICATION Spec
CONSTANTS
    early = early
    late = late
    cheque = cheque
    transfer = transfer
    Runs = {early, late}
    Lines = {1, 2}
    Books = {1, 2, 3}
    Instruments = {cheque, transfer}
    Sees <- SeesUpTo
    Ledger <- LedgerUpTo
    LineAmount <- OneEach
    BookAmount <- TwoIsTwo
    InstrumentAmount <- InstrumentOne
    Score <- Scores
    Safe <- Alike
    Named <- Quoted
    Locking = {early, late}
    Unwritten = {3}
    MaxMatches = 2
INVARIANT LockHolds
