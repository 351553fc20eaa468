SPECIFICATION WireSpec
CONSTANTS
    MaxLength = 5
    Payloads <- SomePayloads
    Links <- SuitedLinks
    Strays <- NoMarkers
    MaxSent = 3
    MaxStrays = 1
    MaxItems = 3
    MaxSize = 20
    MaxParams = 3
CHECK_DEADLOCK FALSE
INVARIANTS
    RoundTrip
    NoMarkerInside
    OneFrameIsExtracted
    ChunksDoNotMatter
    ReceivedWasSent
    AllReadIsReceived
    BufferIsBounded
    ReportIsRead
    CutIsRefusedOrHarmless
    LegacyReadsWholeItems
    BuiltIsParsed
    StacksAgree
    ParamsAreRead
    DialogueIsRead
