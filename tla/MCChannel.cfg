SPECIFICATION MCSpec
CONSTANTS
    Uploads <- MCUploads
    MaxFiles = 2
    MAX_BLOBS = 2
    BLOB_MINSLACK = 3
    Align = 4
    Word = 64
    Lo0 = 16
    Hi0 = 34
    Quarter = 64
    LD_MIN_ADDR = 130
    LD_MAX_ADDR = 152
    ARGS_MAX_LEN = 3
    CrtOffset = 3
    MagicOffset = 1
    ArgvOffset = 2
    EhdrSize = 3
    PhdrSize = 2
    ALIGNOFFSET = 4
    AesBlock = 2
    FONT_MAX = 3
    DefaultData <- MCData
    DefaultSize <- MCSize
    FileKind <- MCKind
    Themes <- MCThemes
    Drawn_ <- MCDrawn
    CACHE_ROOT = 2
    CACHE_INIT = 1
    CACHE_GROW = 1
    CapitalM = 1
    Advance <- MCAdvance
    DvdFds = {0, 1, 2}
    Titles = {"hbc", "app"}
    MY_TITLEID = "hbc"
    StubFds = {0, 1}
    MaxStale = 2
    WPAD_MAX_WIIMOTES = 3
    RUMBLE_TIME = 3
    RUMBLE_DELAY = 12
    LD_MAX_SIZE = 4
    MAX_THEME_ZIP_SIZE = 2
    META_ARGS_MAX = 6
    U16 = 9
    FontTargets = {1, 2}
INVARIANTS MemoryInOrder PayloadWhole NothingLeft ProgramsPlaced FontsWhole TextsWhole DvdQuiet CodecsAgree RumbleEnds MetaRead
PROPERTIES UsesBlobs LoadEnds StubReturns
