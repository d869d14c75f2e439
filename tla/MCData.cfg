CONSTANTS
    \* chunks of two bytes, reservations below and above a chunk
    Chunk = 2
    InitialSize = 3
    MaxReserve = 3
    MaxCapacity = 9
    MaxBytes = 8
    \* every text of up to 8 characters over the alphabet; an index is saved
    \* in three bits: an array as third element is the first case that does not fit
    CharBits = 3
    MaxText = 8
    Alphabet <- MCAlphabet
    StrAlphabet <- MCStrAlphabet
    Samples <- MCSamples
    \* five calls on two message objects
    Schema <- MCSchema
    LuaTables <- MCTables
    MsgIds = {1, 2}
    MaxCalls = 5
    \* HTTP and text
    Requests <- MCRequests
    SizeMod = 64
    TextSamples <- MCTexts
    IntBits = 5
    \* three operations on the registry, one text of a document overwritten
    Documents <- MCDocuments
    Settings <- MCSettings
    LongBits = 4
    MaxOps = 3
    MaxOverwritten = 1
    \* two milliseconds in a second, the time of day set once
    PerSecond = 2
    ClockMod = 16
    Start = 3
    MaxUptime = 2
    MaxSets = 1
    Intervals = {1, 2}
    \* an answer in up to two pieces
    MaxPieces = 2
SPECIFICATION DataSpec
CONSTRAINT BytesBound
CHECK_DEADLOCK FALSE
INVARIANTS ReservedFits Contents
INVARIANTS JsonAccepts JsonBuilds UnderflowNeedsMismatch EncodeDecodes
INVARIANTS MessageDecodes HttpChunking TextAgrees ConfigExact JscodeReports
PROPERTY TimerExact
