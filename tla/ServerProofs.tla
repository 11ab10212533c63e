---------------------------- MODULE ServerProofs ----------------------------
(***************************************************************************)
(* Proofs about Server, for every number of connections, workers and       *)
(* descriptors.  The first part holds for both connection handlers; the    *)
(* second part assumes the single-threaded one.                            *)
(***************************************************************************)
EXTENDS Server, TLAPS

\* A thread works on a connection exactly while it is in these places.
Working == {"prepare", "serving", "closing"}

\* Where the listener is and what it holds agree.
Places ==
    /\ pc[Main] = "out" <=> listenFd = NoFd
    /\ \A t \in Threads : pc[t] \in Working <=> cur[t] # NoConn

\* A connection has a socket object exactly while somebody holds it, and
\* only the thread that is about to release it may hold a closed one.
Sockets ==
    /\ \A c \in Conns : conn[c] \in {"new", "waiting"} => sock[c] = NoFd
    /\ \A c \in Conns : conn[c] = "live" => sock[c] \in FDs
    /\ \A c \in jobs : conn[c] = "live"
    /\ \A t \in Threads :
          pc[t] \in {"prepare", "serving"} => conn[cur[t]] = "live"
    /\ \A t \in Threads :
          pc[t] = "closing" => conn[cur[t]] \in {"live", "closed"} /\ sock[cur[t]] \in FDs

\* The inductive invariant of both servers.
IInv ==
    /\ TypeOK
    /\ Places
    /\ Sockets
    /\ HandledOnce
    /\ DescriptorsReturned
    /\ TlsBalanced

USE ConnsAssumption, OwnersAssumption, ThreadsAssumption, FdsAssumption,
    HandlerAssumption, FlagsAssumption, MaxServesAssumption

LEMMA InitInvariant == Init => IInv
  <1> SUFFICES ASSUME Init PROVE IInv
    OBVIOUS
  <1> USE DEF Init, Threads, MainPcs, HandlerPcs, Working
  <1>0. FlagsOK
    BY DEF FlagsOK
  <1>1. TypeOK
    BY <1>0 DEF TypeOK
  <1>2. Places
    BY DEF Places
  <1>3. Sockets
    BY DEF Sockets
  <1>4. HandledOnce
    BY DEF HandledOnce
  <1>5. DescriptorsReturned
    BY DEF DescriptorsReturned
  <1>6. TlsBalanced
    BY DEF TlsBalanced
  <1>7. QED
    BY <1>1, <1>2, <1>3, <1>4, <1>5, <1>6 DEF IInv

LEMMA NextInvariant == IInv /\ [Next]_vars => IInv'
  <1> SUFFICES ASSUME IInv, [Next]_vars
               PROVE  IInv'
    OBVIOUS
  <1> USE DEF IInv, TypeOK, Places, Sockets, HandledOnce, DescriptorsReturned, TlsBalanced,
          Threads, MainPcs, HandlerPcs, Working, Goto, Close,
          serveVars, stopVars, connVars, workVars, TlsInit, TlsCleanup
  <1>1. ASSUME NEW c \in Conns, Connect(c) PROVE IInv'
    BY <1>1 DEF Connect, FlagsOK
  <1>2. CASE WantStop
    BY <1>2 DEF WantStop, FlagsOK
  <1>3. ASSUME NEW f \in FDs, Serve(f) PROVE IInv'
    <2>1. FlagsOK'
      BY <1>3 DEF Serve, Listen, FlagsOK
    <2>2. QED
      BY <1>3, <2>1 DEF Serve, MayServe, Listen
  <1>4. CASE ServeFails
    <2>1. FlagsOK'
      BY <1>4 DEF ServeFails, FlagsOK
    <2>2. QED
      BY <1>4, <2>1 DEF ServeFails, MayServe
  <1>5. ASSUME NEW c \in Conns, NEW f \in FDs, Accept(c, f) PROVE IInv'
    BY <1>5 DEF Accept, FlagsOK
  <1>6. CASE AcceptNothing
    BY <1>6 DEF AcceptNothing, FlagsOK
  <1>7. CASE Deliver
    BY <1>7 DEF Deliver, FlagsOK
  <1>8. CASE PrepareFails
    BY <1>8 DEF PrepareFails, FlagsOK
  <1>9. CASE Continue
    BY <1>9 DEF Continue, FlagsOK
  <1>10. CASE LeaveLoop
    <2>1. FlagsOK'
      BY <1>10 DEF LeaveLoop, FlagsOK
    <2>2. QED
      BY <1>10, <2>1 DEF LeaveLoop
  <1>11. ASSUME NEW w \in Workers, TakeJob(w) PROVE IInv'
    BY <1>11 DEF TakeJob, FlagsOK
  <1>12. ASSUME NEW t \in Threads, EndServing(t) PROVE IInv'
    BY <1>12 DEF EndServing, FlagsOK
  <1>13. ASSUME NEW t \in Threads, RouterCloses(t) PROVE IInv'
    BY <1>13 DEF RouterCloses, FlagsOK
  <1>14. ASSUME NEW t \in Threads, ReleaseSocket(t) PROVE IInv'
    BY <1>14 DEF ReleaseSocket, FlagsOK
  <1>15. ASSUME NEW t \in Threads, AskStop(t) PROVE IInv'
    BY <1>15 DEF AskStop, Done, FlagsOK
  <1>16. ASSUME NEW t \in Threads, StoreStop(t) PROVE IInv'
    BY <1>16 DEF StoreStop, Done, FlagsOK
  <1>17. CASE Release
    <2>1. UNCHANGED <<pc, tls>>
      <3>1. pc[Main] = "out" /\ tls' = FALSE /\ pc' = pc
        BY <1>17 DEF Release
      <3>2. tls \in BOOLEAN /\ (tls <=> UseSSL /\ pc[Main] # "out")
        BY Zenon DEF FlagsOK
      <3>3. tls = FALSE
        BY <3>1, <3>2
      <3>4. QED
        BY <3>1, <3>3
    <2>2. FlagsOK'
      BY <1>17 DEF Release, FlagsOK
    <2>3. QED
      BY <1>17, <2>1, <2>2 DEF Release
  <1>18. CASE UNCHANGED vars
    BY <1>18 DEF vars, FlagsOK
  <1>19. QED
    BY <1>1, <1>2, <1>3, <1>4, <1>5, <1>6, <1>7, <1>8, <1>9, <1>10, <1>11, <1>12,
       <1>13, <1>14, <1>15, <1>16, <1>17, <1>18 DEF Next, ListenStep, HandlerStep

THEOREM Invariance == Spec => []IInv
  BY InitInvariant, NextInvariant, PTL DEF Spec

\* The variables of Server keep their types (hs_server.c, hs_socket.c).
THEOREM TypeCorrect == Spec => []TypeOK
  BY Invariance, PTL DEF IInv

\* No accepted connection is forgotten by the listener, the pool and the
\* workers, or handled by two of them (hs_server.c:390-443).
THEOREM ConnectionsHandledOnce == Spec => []HandledOnce
  BY Invariance, PTL DEF IInv

\* Every path through the server gives its descriptors back.
THEOREM NoDescriptorLeaks == Spec => []DescriptorsReturned
  BY Invariance, PTL DEF IInv

\* TLS is set up while hs_server_serve listens, and only then.
THEOREM TlsIsBalanced == Spec => []TlsBalanced
  BY Invariance, PTL DEF IInv

-----------------------------------------------------------------------------
\* The single-threaded server.

\* The listening thread is the only one that handles connections.
OnlyMain == jobs = {} /\ \A w \in Workers : pc[w] = "idle"

\* Between the router's close and the handler's nobody takes the number.
ClosedNumberIsFree ==
    pc[Main] = "closing" /\ conn[cur[Main]] = "closed" => fds[sock[cur[Main]]] = Free

\* Nobody but the loop's test comes after the stop is stored.
StopAtTest ==
    /\ stopRequested /\ pc[Main] # "out" => pc[Main] = "loop" /\ stopDue
    /\ pc[Main] = "store" /\ answer[Main] => stopDue

\* The inductive invariant of the single-threaded server.
SInv ==
    /\ IInv
    /\ OwnDescriptor
    /\ OnlyMain
    /\ ClosedNumberIsFree
    /\ StopAtTest

LEMMA SingleInit == Init => SInv
  <1> SUFFICES ASSUME Init PROVE SInv
    OBVIOUS
  <1>1. IInv
    BY InitInvariant
  <1>2. OwnDescriptor /\ OnlyMain
    BY DEF Init, OwnDescriptor, OnlyMain, Threads
  <1>3. ClosedNumberIsFree /\ StopAtTest
    BY DEF Init, ClosedNumberIsFree, StopAtTest, Threads
  <1>4. QED
    BY <1>1, <1>2, <1>3 DEF SInv


LEMMA SingleNext ==
    ASSUME Handler = "single", SInv, [Next]_vars
    PROVE  SInv'
  <1>0. IInv'
    BY NextInvariant DEF SInv
  <1> SUFFICES (OwnDescriptor /\ OnlyMain /\ ClosedNumberIsFree /\ StopAtTest)'
    BY <1>0 DEF SInv
  <1> USE DEF SInv, IInv, TypeOK, Places, Sockets, HandledOnce, DescriptorsReturned,
          OwnDescriptor, OnlyMain, ClosedNumberIsFree, StopAtTest,
          Threads, MainPcs, HandlerPcs, Working, Goto, Close,
          serveVars, stopVars, connVars, workVars
  <1>1. ASSUME NEW c \in Conns, Connect(c)
         PROVE  (OwnDescriptor /\ OnlyMain /\ ClosedNumberIsFree /\ StopAtTest)'
    BY <1>1 DEF Connect
  <1>2. CASE WantStop
    BY <1>2 DEF WantStop
  <1>3. ASSUME NEW f \in FDs, Serve(f)
         PROVE  (OwnDescriptor /\ OnlyMain /\ ClosedNumberIsFree /\ StopAtTest)'
    BY <1>3 DEF Serve, MayServe, Listen
  <1>4. CASE ServeFails
    BY <1>4 DEF ServeFails, MayServe
  <1>5. ASSUME NEW c \in Conns, NEW f \in FDs, Accept(c, f)
         PROVE  (OwnDescriptor /\ OnlyMain /\ ClosedNumberIsFree /\ StopAtTest)'
    BY <1>5 DEF Accept
  <1>6. CASE AcceptNothing
    BY <1>6 DEF AcceptNothing
  <1>7. CASE Deliver
    BY <1>7 DEF Deliver
  <1>8. CASE PrepareFails
    BY <1>8 DEF PrepareFails
  <1>9. CASE Continue
    BY <1>9 DEF Continue
  <1>10. CASE LeaveLoop
    BY <1>10 DEF LeaveLoop
  <1>11. ASSUME NEW w \in Workers, TakeJob(w)
         PROVE  (OwnDescriptor /\ OnlyMain /\ ClosedNumberIsFree /\ StopAtTest)'
    BY <1>11 DEF TakeJob
  <1>12. ASSUME NEW t \in Threads, EndServing(t)
         PROVE  (OwnDescriptor /\ OnlyMain /\ ClosedNumberIsFree /\ StopAtTest)'
    BY <1>12 DEF EndServing
  <1>13. ASSUME NEW t \in Threads, RouterCloses(t)
         PROVE  (OwnDescriptor /\ OnlyMain /\ ClosedNumberIsFree /\ StopAtTest)'
    BY <1>13 DEF RouterCloses
  <1>14. ASSUME NEW t \in Threads, ReleaseSocket(t)
         PROVE  (OwnDescriptor /\ OnlyMain /\ ClosedNumberIsFree /\ StopAtTest)'
    BY <1>14 DEF ReleaseSocket
  <1>15. ASSUME NEW t \in Threads, AskStop(t)
         PROVE  (OwnDescriptor /\ OnlyMain /\ ClosedNumberIsFree /\ StopAtTest)'
    BY <1>15 DEF AskStop, Done
  <1>16. ASSUME NEW t \in Threads, StoreStop(t)
         PROVE  (OwnDescriptor /\ OnlyMain /\ ClosedNumberIsFree /\ StopAtTest)'
    BY <1>16 DEF StoreStop, Done
  <1>17. CASE Release
    BY <1>17 DEF Release
  <1>18. CASE UNCHANGED vars
    BY <1>18 DEF vars
  <1>19. QED
    BY <1>1, <1>2, <1>3, <1>4, <1>5, <1>6, <1>7, <1>8, <1>9, <1>10, <1>11, <1>12,
       <1>13, <1>14, <1>15, <1>16, <1>17, <1>18 DEF Next, ListenStep, HandlerStep

LEMMA SingleInvariance ==
    ASSUME Handler = "single"
    PROVE  Spec => []SInv
  <1>1. Init => SInv
    BY SingleInit
  <1>2. SInv /\ [Next]_vars => SInv'
    BY SingleNext
  <1>3. QED
    BY <1>1, <1>2, PTL DEF Spec

\* In the single-threaded server the second close of a connection's number
\* reaches nobody else (hs_router.c:490-495, hs_server.c:379).
THEOREM OwnDescriptorSingle ==
    ASSUME Handler = "single"
    PROVE  Spec => []OwnDescriptor
  BY SingleInvariance, PTL DEF SInv

\* The single-threaded server stops only when this serve was asked to stop.
THEOREM StopIsWantedSingle ==
    ASSUME Handler = "single"
    PROVE  Spec => []StopIsWanted
  <1>1. SInv => StopIsWanted
    BY DEF SInv, StopAtTest, StopIsWanted
  <1>2. QED
    BY <1>1, SingleInvariance, PTL

LEMMA StopStep ==
    ASSUME Handler = "single", SInv, [Next]_vars, stopRequested, pc[Main] # "out"
    PROVE  /\ stopRequested'
           /\ \A c \in Conns : conn[c] = "waiting" => conn'[c] # "live"
  <1>1. pc[Main] = "loop"
    BY DEF SInv, StopAtTest
  <1>2. \A t \in Threads : ~HandlerStep(t)
    BY <1>1 DEF SInv, OnlyMain, HandlerStep, EndServing, RouterCloses, ReleaseSocket,
                AskStop, StoreStop, Threads
  <1>3. \A w \in Workers : ~TakeJob(w)
    BY DEF SInv, OnlyMain, TakeJob
  <1> USE DEF SInv, IInv, TypeOK, serveVars, stopVars, connVars, workVars
  <1>4. ASSUME NEW c \in Conns, Connect(c)
        PROVE  stopRequested' /\ \A d \in Conns : conn[d] = "waiting" => conn'[d] # "live"
    BY <1>4 DEF Connect
  <1>5. CASE WantStop
    BY <1>5 DEF WantStop
  <1>6. CASE LeaveLoop
    BY <1>6 DEF LeaveLoop
  <1>7. CASE UNCHANGED vars
    BY <1>7 DEF vars
  <1>8. QED
    BY <1>1, <1>2, <1>3, <1>4, <1>5, <1>6, <1>7
       DEF Next, ListenStep, Serve, Listen, MayServe, ServeFails, Accept, AcceptNothing, Deliver,
           PrepareFails, Continue, Release

\* In the single-threaded server a stored stop is final: it is not taken
\* back and no other connection is accepted (hs_server.c:339-364).
THEOREM StopHonouredSingle ==
    ASSUME Handler = "single"
    PROVE  Spec => StopHonoured
  <1>1. SInv /\ [Next]_vars =>
            [stopRequested /\ pc[Main] # "out" =>
                /\ stopRequested'
                /\ \A c \in Conns : conn[c] = "waiting" => conn'[c] # "live"]_vars
    BY StopStep
  <1>2. QED
    BY <1>1, SingleInvariance, PTL DEF Spec, StopHonoured

-----------------------------------------------------------------------------
\* The single-threaded server implements Descriptors.

LEMMA RefinesInit == Init => D!Init
  BY DEF Init, D!Init, Held

AllHolders == Conns \cup {Listener}

LEMMA HeldValues ==
    /\ Held[Listener] = listenFd
    /\ \A c \in Conns : Held[c] = IF conn[c] = "live" THEN sock[c] ELSE NoFd
    /\ Held'[Listener] = listenFd'
    /\ \A c \in Conns : Held'[c] = IF conn'[c] = "live" THEN sock'[c] ELSE NoFd
  BY DEF Held

LEMMA TakeStep ==
    ASSUME NEW h \in AllHolders, NEW f,
           Held[h] = NoFd, \A g \in AllHolders : Held[g] # f,
           Held'[h] = f, \A g \in AllHolders \ {h} : Held'[g] = Held[g]
    PROVE  D!Take(h, f)
  <1>1. Held' = [Held EXCEPT ![h] = f]
    BY DEF Held, AllHolders
  <1>2. QED
    BY <1>1 DEF D!Take, AllHolders

LEMMA GiveBackStep ==
    ASSUME NEW h \in AllHolders, Held[h] # NoFd,
           Held'[h] = NoFd, \A g \in AllHolders \ {h} : Held'[g] = Held[g]
    PROVE  D!GiveBack(h)
  <1>1. Held' = [Held EXCEPT ![h] = NoFd]
    BY DEF Held, AllHolders
  <1>2. QED
    BY <1>1 DEF D!GiveBack

LEMMA StutterStep ==
    ASSUME \A g \in AllHolders : Held'[g] = Held[g]
    PROVE  UNCHANGED Held
  BY DEF Held, AllHolders

LEMMA RefinesNext ==
    ASSUME Handler = "single", SInv, SInv', [Next]_vars
    PROVE  [D!Next]_Held
  <1> USE HeldValues
      DEF SInv, IInv, TypeOK, Places, Sockets, HandledOnce, OwnDescriptor, OnlyMain,
          Threads, MainPcs, HandlerPcs, Working, Goto, Close, AllHolders,
          serveVars, stopVars, connVars, workVars
  <1>1. ASSUME NEW f \in FDs, Serve(f)
        PROVE  D!Take(Listener, f)
    BY <1>1, TakeStep DEF Serve, MayServe, Listen
  <1>2. ASSUME NEW c \in Conns, NEW f \in FDs, Accept(c, f)
        PROVE  D!Take(c, f)
    BY <1>2, TakeStep DEF Accept
  <1>3. CASE PrepareFails
    BY <1>3, GiveBackStep DEF PrepareFails, D!Next
  <1>4. CASE LeaveLoop
    <2>1. D!GiveBack(Listener)
      BY <1>4, GiveBackStep DEF LeaveLoop
    <2>2. QED
      BY <2>1 DEF D!Next
  <1>5. ASSUME NEW t \in Threads, RouterCloses(t)
        PROVE  cur[t] \in Conns /\ D!GiveBack(cur[t])
    BY <1>5, GiveBackStep DEF RouterCloses
  <1>6. ASSUME NEW t \in Threads, ReleaseSocket(t)
        PROVE  (cur[t] \in Conns /\ D!GiveBack(cur[t])) \/ UNCHANGED Held
    BY <1>6, GiveBackStep, StutterStep DEF ReleaseSocket
  <1>7. ASSUME NEW c \in Conns, Connect(c)
        PROVE  UNCHANGED Held
    BY <1>7, StutterStep DEF Connect
  <1>8. CASE UNCHANGED <<listenFd, conn, sock>>
    BY <1>8 DEF Held
  <1>9. CASE ListenStep
    BY <1>2, <1>3, <1>4, <1>8, <1>9
       DEF ListenStep, D!Next, AcceptNothing, Deliver, Continue
  <1>10. ASSUME NEW t \in Threads, HandlerStep(t)
         PROVE  [D!Next]_Held
    BY <1>5, <1>6, <1>8, <1>10 DEF HandlerStep, D!Next, EndServing, AskStop, StoreStop
  <1>11. ASSUME NEW f \in FDs, Serve(f)
         PROVE  [D!Next]_Held
    BY <1>1, <1>11 DEF D!Next
  <1>12. CASE WantStop \/ ServeFails \/ Release \/ \E w \in Workers : TakeJob(w)
    BY <1>8, <1>12 DEF WantStop, ServeFails, Release, TakeJob
  <1>13. CASE UNCHANGED vars
    BY <1>8, <1>13 DEF vars
  <1>14. QED
    BY <1>7, <1>9, <1>10, <1>11, <1>12, <1>13 DEF Next

\* Every step of the single-threaded server takes or gives back one number,
\* its own, or leaves the numbers alone.
THEOREM DescriptorRefinement ==
    ASSUME Handler = "single"
    PROVE  Spec => ImplementsDescriptors
  <1>1. SInv /\ SInv' /\ [Next]_vars => [D!Next]_Held
    BY RefinesNext
  <1>2. QED
    BY <1>1, RefinesInit, SingleInvariance, PTL DEF Spec, ImplementsDescriptors, D!Spec

=============================================================================
