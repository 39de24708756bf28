CONSTANTS
    DigitValue <- MCDigitValue
    Letters <- MCLetters
    Names <- MCNames
    EOT = EOT
    Octets = 2
    OctetBits = 2
    IntMax = 7
    SizeMod = 16
    MaxAddress = 6
    MaxPattern = 5
SPECIFICATION Spec
\* A text is read once.
CHECK_DEADLOCK FALSE
INVARIANTS CheckedWordIsRead AcceptedIsWritten MaskTextIsContiguous PatternIsKept
