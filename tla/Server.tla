------------------------------- MODULE Server -------------------------------
(***************************************************************************)
(* The life of an HSServer (hs_server.c): hs_server_serve, the listen      *)
(* loop, the single-threaded and the thread-pool connection handlers, and  *)
(* the socket layer under them (hs_socket.c) down to the process's         *)
(* descriptor table.                                                       *)
(*                                                                         *)
(* A socket object keeps its number (raw_socket) from accept to release;   *)
(* close() acts on the number, whoever owns it by then.  That is why the   *)
(* number a connection remembers (sock) and the owner of a number in the   *)
(* kernel (fds) are two variables.                                         *)
(***************************************************************************)
EXTENDS Naturals, FiniteSets

CONSTANTS
    Conns,            \* connections clients may open, each used once
    Workers,          \* threads of the pool (handler "multi")
    Main,             \* the thread that calls hs_server_serve
    FDs,              \* descriptor numbers
    NoConn, NoFd,     \* NULL socket pointer, no descriptor
    Listener, Free,   \* owners of a number that are not connections
    Handler,          \* which constructor built the server
    UseSSL,           \* ssl_info names both PEM files
    AcceptTimeout,    \* accept_recv_timeout_seconds > 0
    RequestTimeout,   \* request_recv_timeout_seconds > 0
    MaxServes         \* bound on the calls of hs_server_serve

ASSUME ConnsAssumption == NoConn \notin Conns /\ Listener \notin Conns /\ Free \notin Conns
ASSUME OwnersAssumption == Listener # Free
ASSUME ThreadsAssumption == Main \notin Workers
ASSUME FdsAssumption == NoFd \notin FDs
ASSUME HandlerAssumption == Handler \in {"single", "multi"}
ASSUME FlagsAssumption ==
    UseSSL \in BOOLEAN /\ AcceptTimeout \in BOOLEAN /\ RequestTimeout \in BOOLEAN
ASSUME MaxServesAssumption == MaxServes \in Nat

VARIABLES
    pc,             \* where each thread is
    cur,            \* the socket object each thread works on
    answer,         \* what should_stop_server returned to each thread
    running,        \* internal->running
    stopRequested,  \* internal->stop_requested
    tls,            \* internal->ssl_context # NULL
    tlsUsers,       \* _hs_openssl_global_ssl_init
    released,       \* hs_server_release has been called
    listenFd,       \* number of the listening socket
    jobs,           \* connections queued in the thread pool
    conn,           \* the life of each connection
    sock,           \* raw_socket of each connection's socket object
    fds,            \* the process's descriptor table
    stopDue,        \* the application wants the server to stop
    serves          \* calls of hs_server_serve that got past its checks

vars == <<pc, cur, answer, running, stopRequested, tls, tlsUsers, released,
          listenFd, jobs, conn, sock, fds, stopDue, serves>>

serveVars == <<running, tls, tlsUsers, released, listenFd, serves>>
stopVars == <<stopRequested, stopDue, answer>>
connVars == <<conn, sock, fds>>
workVars == <<cur, jobs>>

Threads == Workers \cup {Main}
MainPcs == {"out", "accept", "prepare", "loop"}
HandlerPcs == {"serving", "closing", "ask", "store"}

FlagsOK ==
    /\ running \in BOOLEAN /\ stopRequested \in BOOLEAN /\ tls \in BOOLEAN
    /\ released \in BOOLEAN /\ stopDue \in BOOLEAN

TypeOK ==
    /\ FlagsOK
    /\ pc \in [Threads -> MainPcs \cup HandlerPcs \cup {"idle"}]
    /\ pc[Main] # "idle"
    /\ \A w \in Workers : pc[w] \notin MainPcs
    /\ cur \in [Threads -> Conns \cup {NoConn}]
    /\ answer \in [Threads -> BOOLEAN]
    /\ tlsUsers \in Nat /\ serves \in 0 .. MaxServes
    /\ listenFd \in FDs \cup {NoFd}
    /\ jobs \subseteq Conns
    /\ conn \in [Conns -> {"new", "waiting", "live", "closed"}]
    /\ sock \in [Conns -> FDs \cup {NoFd}]
    /\ fds \in [FDs -> Conns \cup {Listener, Free}]

\* hs_server_new*: nothing runs before hs_server_serve.
Init ==
    /\ pc = [t \in Threads |-> IF t = Main THEN "out" ELSE "idle"]
    /\ cur = [t \in Threads |-> NoConn]
    /\ answer = [t \in Threads |-> FALSE]
    /\ running = FALSE /\ stopRequested = FALSE
    /\ tls = FALSE /\ tlsUsers = 0
    /\ released = FALSE
    /\ listenFd = NoFd
    /\ jobs = {}
    /\ conn = [c \in Conns |-> "new"]
    /\ sock = [c \in Conns |-> NoFd]
    /\ fds = [f \in FDs |-> Free]
    /\ stopDue = FALSE
    /\ serves = 0

Goto(t, label) == pc' = [pc EXCEPT ![t] = label]

\* close(2): it frees the number, whoever owns it; EBADF changes nothing.
Close(f) == fds' = [g \in FDs |-> IF g = f THEN Free ELSE fds[g]]

\* hs_server_create_socket_and_listen: on any failure the number it took is
\* given back, on success the listening socket owns it.
Listen(f) ==
    /\ fds[f] = Free
    /\ listenFd' = f
    /\ fds' = [fds EXCEPT ![f] = Listener]

\* hs_openssl_init and hs_openssl_cleanup, by the number of their users.
TlsInit(users) == users + 1
TlsCleanup(users) == IF users > 0 THEN users - 1 ELSE 0

\* Where a thread goes once a connection is dealt with.
Done(t) == IF t = Main THEN "loop" ELSE "idle"

-----------------------------------------------------------------------------
\* Faulty variants of actions below.  They are in no specification: each one
\* is put in place of its action to see that a property can fail.

\* A failed hs_server_serve undoes TLS once too often, with a counter that
\* does not stop at 0.
ServeFailsUndoesTwice ==
    /\ pc[Main] = "out" /\ ~released /\ ~running /\ serves < MaxServes
    /\ running' = TRUE /\ stopRequested' = FALSE
    /\ serves' = serves + 1
    /\ tlsUsers' = tlsUsers - 1
    /\ UNCHANGED <<connVars, workVars, pc, answer, tls, released, listenFd, stopDue>>

\* serve starts without resetting stop_requested.
ServeKeepsStop(f) ==
    /\ pc[Main] = "out" /\ ~released /\ ~running /\ serves < MaxServes
    /\ tls' = UseSSL /\ tlsUsers' = IF UseSSL THEN TlsInit(tlsUsers) ELSE tlsUsers
    /\ running' = TRUE /\ stopDue' = FALSE
    /\ Listen(f)
    /\ serves' = serves + 1
    /\ Goto(Main, "accept")
    /\ UNCHANGED <<workVars, answer, stopRequested, released, conn, sock>>

\* The connection handed to the pool is also kept by the listener.
DeliverKeeps ==
    /\ pc[Main] = "prepare"
    /\ jobs' = jobs \cup {cur[Main]}
    /\ Goto(Main, "loop")
    /\ UNCHANGED <<serveVars, stopVars, connVars, cur>>

\* The pool refuses the job and the connection is dropped.
DeliverDrops ==
    /\ pc[Main] = "prepare"
    /\ cur' = [cur EXCEPT ![Main] = NoConn]
    /\ Goto(Main, "loop")
    /\ UNCHANGED <<serveVars, stopVars, connVars, jobs>>

\* A failed handshake releases the object without closing the number.
PrepareFailsLeaks ==
    /\ pc[Main] = "prepare"
    /\ conn' = [conn EXCEPT ![cur[Main]] = "closed"]
    /\ sock' = [sock EXCEPT ![cur[Main]] = NoFd]
    /\ cur' = [cur EXCEPT ![Main] = NoConn]
    /\ Goto(Main, "ask")
    /\ UNCHANGED <<serveVars, stopVars, jobs, fds>>

\* A failed handshake closes the number, and the connection lives on.
PrepareFailsLivesOn ==
    /\ pc[Main] = "prepare"
    /\ Close(sock[cur[Main]])
    /\ cur' = [cur EXCEPT ![Main] = NoConn]
    /\ Goto(Main, "ask")
    /\ UNCHANGED <<serveVars, stopVars, jobs, conn, sock>>

\* The loop goes on without looking at stop_requested.
ContinueAlways ==
    /\ pc[Main] = "loop"
    /\ Goto(Main, "accept")
    /\ UNCHANGED <<serveVars, stopVars, connVars, workVars>>

\* serve returns without releasing the TLS context.
LeaveLoopKeepsTls ==
    /\ pc[Main] = "loop" /\ stopRequested
    /\ Close(listenFd) /\ listenFd' = NoFd
    /\ conn' = [c \in Conns |-> IF conn[c] = "waiting" THEN "closed" ELSE conn[c]]
    /\ running' = FALSE
    /\ Goto(Main, "out")
    /\ UNCHANGED <<stopVars, workVars, tls, tlsUsers, released, sock, serves>>

\* The router closes the number and goes on with the connection.
RouterClosesUnnoticed(t) ==
    /\ pc[t] = "serving"
    /\ Close(sock[cur[t]])
    /\ UNCHANGED <<serveVars, stopVars, workVars, pc, conn, sock>>

-----------------------------------------------------------------------------
\* The environment: clients and the application's wish to stop.

Connect(c) ==
    /\ listenFd \in FDs /\ fds[listenFd] = Listener
    /\ conn[c] = "new"
    /\ conn' = [conn EXCEPT ![c] = "waiting"]
    /\ UNCHANGED <<serveVars, stopVars, workVars, pc, sock, fds>>

\* should_stop_server starts to answer true; it does until serve returns.
WantStop ==
    /\ pc[Main] # "out" /\ ~stopDue
    /\ stopDue' = TRUE
    /\ UNCHANGED <<serveVars, connVars, workVars, pc, answer, stopRequested>>

-----------------------------------------------------------------------------
\* hs_server_serve

MayServe ==
    /\ pc[Main] = "out" /\ ~released
    /\ ~running
    /\ serves < MaxServes

\* Set up TLS, set the flags, create the listening socket, enter the loop.
Serve(f) ==
    /\ MayServe
    /\ tls' = UseSSL
    /\ tlsUsers' = IF UseSSL THEN TlsInit(tlsUsers) ELSE tlsUsers
    /\ running' = TRUE
    /\ stopRequested' = FALSE
    /\ stopDue' = FALSE
    /\ Listen(f)
    /\ serves' = serves + 1
    /\ Goto(Main, "accept")
    /\ UNCHANGED <<workVars, answer, released, conn, sock>>

\* create_socket_and_listen fails: TLS is undone, running is not.
ServeFails ==
    /\ MayServe
    /\ running' = TRUE
    /\ stopRequested' = FALSE
    /\ tlsUsers' = IF UseSSL THEN TlsCleanup(TlsInit(tlsUsers)) ELSE tlsUsers
    /\ serves' = serves + 1
    /\ UNCHANGED <<connVars, workVars, pc, answer, tls, released, listenFd, stopDue>>

-----------------------------------------------------------------------------
\* _hs_server_socket_listen_loop

\* accept(2) hands over a waiting connection under a free number.
Accept(c, f) ==
    /\ pc[Main] = "accept"
    /\ listenFd \in FDs /\ fds[listenFd] = Listener
    /\ conn[c] = "waiting"
    /\ fds[f] = Free
    /\ conn' = [conn EXCEPT ![c] = "live"]
    /\ sock' = [sock EXCEPT ![c] = f]
    /\ fds' = [fds EXCEPT ![f] = c]
    /\ cur' = [cur EXCEPT ![Main] = c]
    /\ Goto(Main, "prepare")
    /\ UNCHANGED <<serveVars, stopVars, jobs>>

\* accept(2) returns no connection: a timeout or an error.
AcceptNothing ==
    /\ pc[Main] = "accept"
    /\ Goto(Main, "ask")
    /\ UNCHANGED <<serveVars, stopVars, connVars, workVars>>

\* The TLS handshake (if any) and the receive timeout are done:
\* the connection goes to the connection handler.
Deliver ==
    /\ pc[Main] = "prepare"
    /\ IF Handler = "single"
       THEN /\ Goto(Main, "serving")
            /\ UNCHANGED workVars
       ELSE /\ jobs' = jobs \cup {cur[Main]}
            /\ cur' = [cur EXCEPT ![Main] = NoConn]
            /\ Goto(Main, "loop")
    /\ UNCHANGED <<serveVars, stopVars, connVars>>

\* The handshake or setsockopt fails: the connection is closed and released.
PrepareFails ==
    /\ pc[Main] = "prepare"
    /\ Close(sock[cur[Main]])
    /\ conn' = [conn EXCEPT ![cur[Main]] = "closed"]
    /\ sock' = [sock EXCEPT ![cur[Main]] = NoFd]
    /\ cur' = [cur EXCEPT ![Main] = NoConn]
    /\ Goto(Main, "ask")
    /\ UNCHANGED <<serveVars, stopVars, jobs>>

\* while (!stop_requested)
Continue ==
    /\ pc[Main] = "loop"
    /\ ~stopRequested
    /\ Goto(Main, "accept")
    /\ UNCHANGED <<serveVars, stopVars, connVars, workVars>>

\* The loop ends: serve closes the listening socket, which resets the
\* connections still in its backlog, undoes TLS and returns.
LeaveLoop ==
    /\ pc[Main] = "loop"
    /\ stopRequested
    /\ Close(listenFd)
    /\ listenFd' = NoFd
    /\ conn' = [c \in Conns |-> IF conn[c] = "waiting" THEN "closed" ELSE conn[c]]
    /\ tls' = FALSE
    /\ tlsUsers' = IF UseSSL THEN TlsCleanup(tlsUsers) ELSE tlsUsers
    /\ running' = FALSE
    /\ Goto(Main, "out")
    /\ UNCHANGED <<stopVars, workVars, released, sock, serves>>

-----------------------------------------------------------------------------
\* The connection handlers.  A worker of the pool and, in a single-threaded
\* server, the listening thread run the same steps.

\* The pool starts _hs_server_multi_thread_on_connection_in_background.
TakeJob(w) ==
    /\ pc[w] = "idle"
    /\ \E c \in jobs :
          /\ jobs' = jobs \ {c}
          /\ cur' = [cur EXCEPT ![w] = c]
    /\ Goto(w, "serving")
    /\ UNCHANGED <<serveVars, stopVars, connVars>>

\* hs_router_serve_forever returns with the socket still open: end of the
\* stream, a read timeout, no route for the request, or should_stop.
EndServing(t) ==
    /\ pc[t] = "serving"
    /\ Goto(t, "closing")
    /\ UNCHANGED <<serveVars, stopVars, connVars, workVars>>

\* The router closes the connection after a response (hs_socket_close);
\* raw_socket keeps the number.
RouterCloses(t) ==
    /\ pc[t] = "serving"
    /\ Close(sock[cur[t]])
    /\ conn' = [conn EXCEPT ![cur[t]] = "closed"]
    /\ Goto(t, "closing")
    /\ UNCHANGED <<serveVars, stopVars, workVars, sock>>

\* hs_socket_close_and_release: close the number, free the object.
ReleaseSocket(t) ==
    /\ pc[t] = "closing"
    /\ Close(sock[cur[t]])
    /\ conn' = [conn EXCEPT ![cur[t]] = "closed"]
    /\ sock' = [sock EXCEPT ![cur[t]] = NoFd]
    /\ cur' = [cur EXCEPT ![t] = NoConn]
    /\ Goto(t, "ask")
    /\ UNCHANGED <<serveVars, stopVars, jobs>>

\* if (!stop_requested) ... should_stop_server(...): the answer is not yet
\* stored.  The test and the call are one step: the callback never turns
\* from true to false while the server serves.
AskStop(t) ==
    /\ pc[t] = "ask"
    /\ IF stopRequested
       THEN /\ Goto(t, Done(t))
            /\ UNCHANGED answer
       ELSE /\ answer' = [answer EXCEPT ![t] = stopDue]
            /\ Goto(t, "store")
    /\ UNCHANGED <<serveVars, connVars, workVars, stopRequested, stopDue>>

\* stop_requested = <the answer>
StoreStop(t) ==
    /\ pc[t] = "store"
    /\ stopRequested' = answer[t]
    /\ Goto(t, Done(t))
    /\ UNCHANGED <<serveVars, connVars, workVars, answer, stopDue>>

-----------------------------------------------------------------------------
\* hs_server_release, called by the thread that serves: it frees the router,
\* then the TLS context.
Release ==
    /\ pc[Main] = "out" /\ ~released
    /\ released' = TRUE
    /\ tls' = FALSE
    /\ UNCHANGED <<stopVars, connVars, workVars, pc, running, tlsUsers, listenFd, serves>>

HandlerStep(t) ==
    \/ EndServing(t)
    \/ RouterCloses(t)
    \/ ReleaseSocket(t)
    \/ AskStop(t)
    \/ StoreStop(t)

ListenStep ==
    \/ \E c \in Conns, f \in FDs : Accept(c, f)
    \/ AcceptNothing
    \/ Deliver
    \/ PrepareFails
    \/ Continue
    \/ LeaveLoop

Next ==
    \/ \E c \in Conns : Connect(c)
    \/ WantStop
    \/ \E f \in FDs : Serve(f)
    \/ ServeFails
    \/ ListenStep
    \/ \E w \in Workers : TakeJob(w)
    \/ \E t \in Threads : HandlerStep(t)
    \/ Release

Spec == Init /\ [][Next]_vars

\* A thread that can run keeps running.  What blocks in a system call goes
\* on only if its timeout is set: the peer of a connection may be silent for
\* ever, and so may every client.  A TLS handshake runs under the timeout of
\* the listening socket, which an accepted socket inherits.
ThreadFairness(t) ==
    /\ WF_vars(ReleaseSocket(t))
    /\ WF_vars(AskStop(t))
    /\ WF_vars(StoreStop(t))
    /\ RequestTimeout => WF_vars(EndServing(t) \/ RouterCloses(t))

ListenFairness ==
    /\ WF_vars(Continue)
    /\ WF_vars(LeaveLoop)
    /\ WF_vars(\E c \in Conns, f \in FDs : Accept(c, f))
    /\ AcceptTimeout => WF_vars(AcceptNothing \/ \E c \in Conns, f \in FDs : Accept(c, f))
    /\ AcceptTimeout \/ ~UseSSL => WF_vars(Deliver \/ PrepareFails)

FairSpec ==
    /\ Spec
    /\ \A t \in Threads : ThreadFairness(t)
    /\ \A w \in Workers : WF_vars(TakeJob(w))
    /\ ListenFairness

-----------------------------------------------------------------------------
\* Properties

\* A live connection and the listening socket own the number they remember:
\* no read, write or close on behalf of one of them reaches another
\* (hs_socket_close in the router, then hs_socket_close_and_release in the
\* handler, close the same number twice).
OwnDescriptor ==
    /\ \A c \in Conns : conn[c] = "live" => sock[c] \in FDs /\ fds[sock[c]] = c
    /\ listenFd # NoFd => fds[listenFd] = Listener

\* An accepted connection is never forgotten and never handled twice: until
\* it is closed it is queued in the pool or worked on, by one thread.
HandledOnce ==
    \A c \in Conns :
        /\ \A t, u \in Threads : cur[t] = c /\ cur[u] = c => t = u
        /\ c \in jobs => \A t \in Threads : cur[t] # c
        /\ conn[c] = "live" => c \in jobs \/ \E t \in Threads : cur[t] = c

\* No number leaks: one that is in use belongs to a connection that is still
\* to be closed, or to the socket the listener listens on.
DescriptorsReturned ==
    \A f \in FDs :
        /\ fds[f] \in Conns => conn[fds[f]] = "live" /\ sock[fds[f]] = f
        /\ fds[f] = Listener => listenFd = f

\* Every return of hs_server_serve has undone its hs_openssl_init and its
\* SSL_CTX, and while it listens both are there.
TlsBalanced ==
    /\ tls <=> UseSSL /\ pc[Main] # "out"
    /\ tlsUsers = IF tls THEN 1 ELSE 0

\* The server stops only because the application asked this call of
\* hs_server_serve to stop.
StopIsWanted == stopRequested /\ pc[Main] # "out" => stopDue

\* stop_requested, once true, is not taken back while serve runs.
StopIsSticky == [][stopRequested /\ pc[Main] # "out" => stopRequested']_vars

\* Once stop_requested is true it stays so and no other connection is
\* accepted before hs_server_serve returns.
StopHonoured ==
    [][stopRequested /\ pc[Main] # "out" =>
          /\ stopRequested'
          /\ \A c \in Conns : conn[c] = "waiting" => conn'[c] # "live"]_vars

\* Once stop is requested the listening socket gets closed.
StopClosesListener == stopRequested /\ pc[Main] # "out" ~> pc[Main] = "out"

\* An accepted connection is closed in the end.
AcceptedIsClosed == \A c \in Conns : conn[c] = "live" ~> conn[c] = "closed"

\* A connection holds its number from accept to the first close.
Held == [h \in Conns \cup {Listener} |->
            IF h = Listener THEN listenFd
            ELSE IF conn[h] = "live" THEN sock[h] ELSE NoFd]

D == INSTANCE Descriptors
        WITH Holders <- Conns \cup {Listener}, Numbers <- FDs, None <- NoFd, holds <- Held

\* The server implements the abstract descriptor discipline: at any moment a
\* number has one holder, and only its holder gives it back.
ImplementsDescriptors == D!Spec

=============================================================================
