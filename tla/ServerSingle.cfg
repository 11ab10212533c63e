CONSTANTS
    Conns = {c1, c2, c3}
    Workers = {w1}
    FDs = {f1, f2, f3}
    Main = main
    NoConn = NoConn
    NoFd = NoFd
    Listener = Listener
    Free = Free
    Handler = "single"
    UseSSL = TRUE
    AcceptTimeout = TRUE
    RequestTimeout = TRUE
    MaxServes = 2

SPECIFICATION Spec
SYMMETRY Symmetry
INVARIANTS TypeOK OwnDescriptor TlsBalanced StopIsWanted
PROPERTIES StopHonoured ImplementsDescriptors
CHECK_DEADLOCK FALSE
