CONSTANTS
    Conns = {c1, c2}
    Workers = {w1, w2}
    FDs = {f1, f2, f3}
    Main = main
    NoConn = NoConn
    NoFd = NoFd
    Listener = Listener
    Free = Free
    Handler = "multi"
    UseSSL = TRUE
    AcceptTimeout = TRUE
    RequestTimeout = TRUE
    MaxServes = 1

SPECIFICATION FairSpec
INVARIANTS HandledOnce DescriptorsReturned
PROPERTIES StopClosesListener AcceptedIsClosed
CHECK_DEADLOCK FALSE
