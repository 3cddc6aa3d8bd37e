SPECIFICATION MCSpec
CONSTANTS
    Conns = {c1}
    NoConn = NoConn
    Fds = {f1, f2}
    NoFd = NoFd
    Retries = 2
    Tries = 1
    MaxResets = 1
    Lens <- MCLens
    MetaMax = 1
    DownloadMax = 2
    CheckDelay = 2
    HTries = 2
    Files <- MCFiles
    MAX_ARGS_LEN = 3
    ARGS_MAX_LEN = 3
    LD_MAX_SIZE = 3
    MAX_BLOCK = 2
    TCP_BLOCK_SIZE = 2
    RecvTimeout = 1
    GeckoBlock = 2
    GeckoTimeout = 1
    Fifo = 2
    Sessions = 2
INVARIANTS MetaIsText
