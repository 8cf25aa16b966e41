CONSTANTS
    Symbols <- AllSymbols
    Inputs <- AllInputs
    MaxBytes = 9
SPECIFICATION Spec
INVARIANT StopsAtEmptyLine
INVARIANT EmptyLineStops
INVARIANT LinesAreWhatCame
INVARIANT RequestLineRead
INVARIANT RequestsAsSent
