SPECIFICATION Spec
CONSTANTS
    Chars <- MCChars
    NumChars <- MCNumChars
    Hex <- MCHex
    CsvOptions <- MCLoadData
    Targets <- MCTidb
    Columns <- MCColumns
    MaxText = 2
INVARIANTS RoundTrip
CHECK_DEADLOCK FALSE
