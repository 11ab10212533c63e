CONSTANTS
    Conns = {c1, c2}
    Workers = {w1, w2}
    FDs = {f1, f2, f3}
    Main = main
    NoConn = NoConn
    NoFd = NoFd
    Listener = Listener
    Free = Free
    Handler = "multi"
    UseSSL = FALSE
    AcceptTimeout = TRUE
    RequestTimeout = TRUE
    MaxServes = 2

SPECIFICATION Spec
PROPERTY StopIsSticky
CHECK_DEADLOCK FALSE
