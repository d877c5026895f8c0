\* Two operations and two hashes; a token that ends with a 0 or runs into the field behind
\* it.  Blocks of 8 bytes with the length in the last two, and bytes of 16 values, so that
\* the counters carry after 2 bytes and overflow after 32.
CONSTANTS
    MaxCalls = 2
    MaxHashes = 2
    Users = {0, 1}
    Samples = 2
    TokenLength = 7
    TokenPrefixes = {6, 7}
    FileLengths = {1, 2}
    BlockSize = 8
    ByteValues = 16
    WordBytes = 1
    WordSize = 16
    MaxFileLength = 39
    Files <- MCFiles
    Strings <- MCStrings
SPECIFICATION MCSpec
INVARIANTS
    TypeOK
    NoticeOfOperation
    AnnouncedIsStored
    ContextOK
    DigestOfInput
PROPERTY
    FinalNoticeKept
    CountdownHonest
\* A thread that could not be created leaves the HAL busy for ever.
CHECK_DEADLOCK FALSE
