CONSTANTS
    Fields <- MCFields
    MaxFields = 3
    MaxCut = 2
    LittleEndian = TRUE
SPECIFICATION Spec
\* Reading a datagram ends.
CHECK_DEADLOCK FALSE
INVARIANTS FramingKept SoundRequestIsRead ReplyIsRead
