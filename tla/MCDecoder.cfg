CONSTANTS
    HeaderSize = 2
    FieldWidth = 1
    HostEndian = "little"
    ArgSize <- UnitArgSize
    MaxLen = 7
    Codes = {1, 3, 6, 7, 8, 12, 16, 21, 26}

SPECIFICATION Spec
INVARIANT TypeOK

\* Decoding one packet is a single step; a decoded packet is final.
CHECK_DEADLOCK FALSE
