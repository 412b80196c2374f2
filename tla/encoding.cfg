SPECIFICATION Spec
CONSTANTS
    Chars <- MCChars
    NumChars <- MCNumChars
    Hex <- MCHex
    CsvOptions <- MCCsvOptions
    Targets <- MCTargets
    Columns <- MCColumns
    MaxText = 2
INVARIANTS RoundTrip IInv
CHECK_DEADLOCK FALSE
