SPECIFICATION Spec
CONSTANTS
    Conns = {c1, c2}
    NoConn = NoConn
    Fds = {f1, f2, f3}
    NoFd = NoFd
    Retries = 2
    Tries = 2
    MaxResets = 1
INVARIANTS UsbReaderExclusive SocketsOwned
PROPERTIES HandshakeKept
SYMMETRY Symmetry
