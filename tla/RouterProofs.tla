---------------------------- MODULE RouterProofs ----------------------------
(***************************************************************************)
(* Proofs about Paths and Router, for every table of routes, every request *)
(* and every number of requests.                                           *)
(***************************************************************************)
EXTENDS Router, SequenceLemmas, FiniteSetTheorems

LEMMA RemovePrefixType ==
    ASSUME NEW path \in Seq(Chars), NEW res \in Seq(Chars)
    PROVE  RemovePrefix(path, res) \in Seq(Chars)
  BY SlashAssumption DEF RemovePrefix

-----------------------------------------------------------------------------
\* Type correctness.

\* A router is active exactly while a request is dispatched.
Active == phase \in {"dispatch", "unwind"} <=> Len(stack) > 0

\* No more callbacks run than there are.
RanBound == Len(ran) <= Len(callbacks)

TInv == TypeOK /\ Active /\ RanBound

LEMMA SeqFront ==
    ASSUME NEW F, NEW s \in Seq(F), Len(s) > 0
    PROVE  /\ SubSeq(s, 1, Len(s) - 1) \in Seq(F)
           /\ Len(SubSeq(s, 1, Len(s) - 1)) = Len(s) - 1
           /\ \A i \in 1 .. Len(s) - 1 : SubSeq(s, 1, Len(s) - 1)[i] = s[i]
  <1>1. Len(s) \in Nat /\ \A i \in 1 .. Len(s) - 1 : s[i] \in F
    OBVIOUS
  <1>2. ASSUME NEW n \in Nat, n + 1 = Len(s)
        PROVE  /\ SubSeq(s, 1, n) \in Seq(F)
               /\ Len(SubSeq(s, 1, n)) = n
               /\ \A i \in 1 .. n : SubSeq(s, 1, n)[i] = s[i]
    BY <1>1, <1>2, SubSeqProperties
  <1>3. Len(s) - 1 \in Nat /\ (Len(s) - 1) + 1 = Len(s)
    BY <1>1
  <1>4. QED
    BY <1>2, <1>3

LEMMA SeqAppend ==
    ASSUME NEW F, NEW s \in Seq(F), NEW e \in F
    PROVE  /\ Append(s, e) \in Seq(F)
           /\ Len(Append(s, e)) = Len(s) + 1
           /\ \A i \in 1 .. Len(s) : Append(s, e)[i] = s[i]
           /\ Append(s, e)[Len(s) + 1] = e
  OBVIOUS

LEMMA RecordStep ==
    ASSUME NEW A, NEW B, NEW C,
           NEW f \in [router : A, idx : Nat \ {0}, original : B, base : C]
    PROVE  [f EXCEPT !.idx = f.idx + 1] \in [router : A, idx : Nat \ {0}, original : B, base : C]
  OBVIOUS

LEMMA FrameStep ==
    ASSUME NEW f \in Frame
    PROVE  [f EXCEPT !.idx = f.idx + 1] \in Frame
  BY SMTT(30), RecordStep DEF Frame

LEMMA AdvancedType ==
    ASSUME NEW frames \in Seq(Frame), Len(frames) > 0
    PROVE  /\ Advanced(frames) \in Seq(Frame)
           /\ Len(Advanced(frames)) = Len(frames)
           /\ \A i \in 1 .. Len(frames) - 1 : Advanced(frames)[i] = frames[i]
           /\ Advanced(frames)[Len(frames)] =
                  [frames[Len(frames)] EXCEPT !.idx = frames[Len(frames)].idx + 1]
  <1>1. frames[Len(frames)] \in Frame /\ Len(frames) \in 1 .. Len(frames)
    BY LenProperties, ElementOfSeq
  <1> DEFINE next == [frames[Len(frames)] EXCEPT !.idx = frames[Len(frames)].idx + 1]
  <1>2. next \in Frame
    BY <1>1, FrameStep
  <1>3. Advanced(frames) = [frames EXCEPT ![Len(frames)] = next]
    BY DEF Advanced
  <1> HIDE DEF next
  <1>4. /\ Advanced(frames) \in Seq(Frame)
        /\ Len(Advanced(frames)) = Len(frames)
        /\ \A i \in 1 .. Len(frames) :
              Advanced(frames)[i] = IF i = Len(frames) THEN next ELSE frames[i]
    BY <1>1, <1>2, <1>3, ExceptSeq
  <1>5. QED
    BY <1>1, <1>4 DEF next

LEMMA AdvancedKeeps ==
    ASSUME NEW n \in Nat \ {0}, NEW frames \in Seq(Frame), Len(frames) = n
    PROVE  /\ Len(Advanced(frames)) = n
           /\ \A i \in 1 .. n - 1 : Advanced(frames)[i] = frames[i]
           /\ Advanced(frames)[n].router = frames[n].router
           /\ Advanced(frames)[n].idx = frames[n].idx + 1
           /\ Advanced(frames)[n].original = frames[n].original
           /\ Advanced(frames)[n].base = frames[n].base
  <1>1. frames[n] \in Frame
    BY ElementOfSeq
  <1>2. /\ Len(Advanced(frames)) = n
        /\ \A i \in 1 .. n - 1 : Advanced(frames)[i] = frames[i]
        /\ Advanced(frames)[n] = [frames[n] EXCEPT !.idx = frames[n].idx + 1]
    <2>1. Len(frames) > 0
      OBVIOUS
    <2>2. QED
      BY <2>1, AdvancedType
  <1>3. ASSUME NEW f \in Frame, NEW g, g = [f EXCEPT !.idx = f.idx + 1]
        PROVE  g.router = f.router /\ g.idx = f.idx + 1 /\ g.original = f.original /\ g.base = f.base
    BY ONLY <1>3 DEF Frame
  <1>4. QED
    BY ONLY <1>1, <1>2, <1>3

LEMMA OneLess ==
    ASSUME NEW k \in Nat, k > 1
    PROVE  \E n \in Nat \ {0} : n \in 1 .. k /\ n + 1 = k /\ n = k - 1
  <1>1. k - 1 \in Nat \ {0} /\ k - 1 \in 1 .. k /\ (k - 1) + 1 = k
    OBVIOUS
  <1>2. QED
    BY <1>1

LEMMA PopType ==
    ASSUME stack \in Seq(Frame), Len(stack) > 0
    PROVE  /\ Pop \in Seq(Frame)
           /\ Len(Pop) = Len(stack) - 1
           /\ \A i \in 1 .. Len(stack) - 1 : Pop[i] = stack[i]
  BY SeqFront DEF Pop

LEMMA TopType ==
    ASSUME TypeOK, Len(stack) > 0
    PROVE  /\ Top \in Frame
           /\ Top.router \in Routers
           /\ Routes \in Seq(Route)
           /\ CurrentName \in RouteNames
           /\ Top.idx <= Len(Routes) => Current \in Route
  <1>1. stack \in Seq(Frame) /\ table \in Table
    BY TablesAssumption DEF TypeOK
  <1>2. Top \in Frame
    BY <1>1 DEF Top
  <1>3. Top.router \in Routers /\ Top.idx \in Nat \ {0}
    BY <1>2 DEF Frame
  <1>4. Routes \in Seq(Route)
    BY <1>1, <1>3 DEF Routes, Table
  <1>5. CurrentName \in RouteNames
    BY <1>3 DEF CurrentName, RouteNames
  <1>6. Top.idx <= Len(Routes) => Current \in Route
    BY <1>3, <1>4 DEF Current
  <1>7. QED
    BY <1>2, <1>3, <1>4, <1>5, <1>6

\* What a route may do keeps the types.
LEMMA InvokeType ==
    ASSUME TypeOK, Len(stack) > 0, Invoke
    PROVE  /\ invoked' \in Seq(RouteNames)
           /\ connection' \in ConnectionTypes
           /\ callbacks' \in Seq(RouteNames) /\ Len(callbacks') >= Len(callbacks)
           /\ capacity' \in Nat \ {0}
           /\ loaded' \in BOOLEAN /\ unread' \in BOOLEAN
  <1>1. CurrentName \in RouteNames
    BY TopType
  <1>2. invoked' \in Seq(RouteNames) /\ connection' \in ConnectionTypes
    BY <1>1 DEF TypeOK, Invoke, MayClose, ConnectionTypes
  <1>3. callbacks' \in Seq(RouteNames) /\ Len(callbacks') >= Len(callbacks)
    <2>1. callbacks \in Seq(RouteNames) /\ Len(callbacks) \in Nat
      BY DEF TypeOK
    <2>2. callbacks' = callbacks \/ callbacks' = Append(callbacks, CurrentName)
      BY DEF Invoke, MayAddCallback, AddCallback
    <2>3. QED
      BY <1>1, <2>1, <2>2, SeqAppend
  <1>6. capacity' \in Nat \ {0}
    BY DEF TypeOK, Invoke, MayAddCallback, AddCallback
  <1>4. loaded' \in BOOLEAN /\ unread' \in BOOLEAN
    BY DEF TypeOK, Invoke, MayLoad
  <1>5. QED
    BY <1>2, <1>3, <1>4, <1>6

LEMMA TypeInit == Init => TInv
  <1> SUFFICES ASSUME Init PROVE TInv
    OBVIOUS
  <1>1. loaded \in BOOLEAN /\ unread \in BOOLEAN /\ done \in BOOLEAN /\ closed \in BOOLEAN
        /\ served \in BOOLEAN
    BY DEF Init
  <1>2. TypeOK
    BY <1>1, MaxRequestsAssumption DEF Init, TypeOK, Phases, ConnectionTypes
  <1>3. Active /\ RanBound
    BY DEF Init, Active, RanBound
  <1>4. QED
    BY <1>2, <1>3 DEF TInv

LEMMA TypeNext == TInv /\ [Next]_vars => TInv'
  <1> SUFFICES ASSUME TInv, [Next]_vars PROVE TInv'
    OBVIOUS
  <1> USE DEF TInv, Active, RanBound, routeVars, stackVars, requestVars, Phases
  <1>0. TypeOK
    OBVIOUS
  <1>1. ASSUME NEW r \in Requests, Parse(r) PROVE TInv'
    <2>1. r \in Request
      BY RequestsAssumption
    <2>2. r.resource \in Seq(Chars) /\ r.connection \in ConnectionTypes /\ r.hasPayload \in BOOLEAN
      BY <2>1 DEF Request
    <2>3. loaded' \in BOOLEAN /\ unread' \in BOOLEAN /\ done' \in BOOLEAN /\ closed' \in BOOLEAN
          /\ served' \in BOOLEAN
      BY <1>1, <2>2 DEF Parse
    <2>4. stack' \in Seq(Frame) /\ (Len(stack') > 0 <=> phase' = "dispatch")
      <3> DEFINE frame == [router |-> Root, idx |-> 1, original |-> r.resource, base |-> <<>>]
      <3>1. frame \in Frame
        BY <2>2, RoutersAssumption DEF Frame
      <3>2. stack' = IF Rooted(r.resource) THEN <<frame>> ELSE <<>>
        BY <1>1 DEF Parse
      <3>3. phase' = IF Rooted(r.resource) THEN "dispatch" ELSE "callbacks"
        BY <1>1 DEF Parse
      <3> HIDE DEF frame
      <3>4. <<frame>> \in Seq(Frame) /\ Len(<<frame>>) = 1
        BY <3>1
      <3>5. QED
        BY <3>2, <3>3, <3>4
    <2>5. count' \in 0 .. MaxRequests /\ phase' \in Phases /\ table' \in Tables /\ request' \in Requests
      BY <1>0, <1>1, MaxRequestsAssumption DEF Parse, TypeOK
    <2>6. callbacks' = <<>> /\ ran' = <<>> /\ capacity' \in Nat \ {0} /\ responses' = <<>>
          /\ invoked' = <<>> /\ base' = <<>>
      BY <1>1 DEF Parse, NewCallbacks
    <2>7. resource' \in Seq(Chars) /\ connection' \in ConnectionTypes
      BY <1>1, <2>2 DEF Parse
    <2>8. TypeOK'
      BY <2>3, <2>4, <2>5, <2>6, <2>7 DEF TypeOK
    <2>9. phase' \in {"dispatch", "callbacks"}
      BY <1>1 DEF Parse
    <2>10. QED
      BY <2>4, <2>6, <2>8, <2>9
  <1>2. CASE StopServing
    BY <1>2 DEF StopServing, TypeOK
  <1>3. CASE SkipRoute
    <2>1. stack' \in Seq(Frame) /\ Len(stack') > 0
      BY <1>0, <1>3, AdvancedType DEF SkipRoute, AtRoute, TypeOK
    <2>2. QED
      BY <1>0, <1>3, <2>1 DEF SkipRoute, AtRoute, TypeOK
  <1>4. CASE RouteContinues
    <2>1. stack' \in Seq(Frame) /\ Len(stack') > 0
      BY <1>0, <1>4, AdvancedType DEF RouteContinues, AtRoute, TypeOK
    <2>2. Len(stack) > 0 /\ Invoke
      BY <1>4 DEF RouteContinues, AtRoute
    <2>3. QED
      BY <1>0, <1>4, <2>1, <2>2, InvokeType DEF RouteContinues, AtRoute, TypeOK
  <1>5. CASE RouteResponds
    <2>1. Len(stack) > 0 /\ Invoke
      BY <1>5 DEF RouteResponds, ConnectionHeader, AtRoute
    <2>2. closed' \in BOOLEAN
      BY <1>5 DEF RouteResponds, ConnectionHeader, ClosesAfter
    <2>3. responses' \in Seq({"close", "keep-alive"})
      BY <1>0, <1>5 DEF RouteResponds, ConnectionHeader, TypeOK
    <2>4. QED
      BY <1>0, <1>5, <2>1, <2>2, <2>3, InvokeType DEF RouteResponds, ConnectionHeader, AtRoute, TypeOK
  <1>6. CASE EnterSub
    <2>1. Len(stack) > 0 /\ Top \in Frame /\ Current \in Route /\ CurrentName \in RouteNames
      BY <1>0, <1>6, TopType DEF EnterSub, AtRoute
    <2>2. Current.path \in Seq(Chars) \cup {Null} /\ Current.sub \in Routers
      BY <1>6, <2>1 DEF EnterSub, Route
    <2>3. resource \in Seq(Chars) \cup {Null} /\ resource # Null /\ base \in Seq(Seq(Chars))
      BY <1>0, <1>6 DEF EnterSub, Applies, TypeOK
    <2>4. resource' \in Seq(Chars) \cup {Null}
      BY <1>6, <2>2, <2>3, RemovePrefixType DEF EnterSub
    <2>5. base' \in Seq(Seq(Chars))
      BY <1>6, <2>2, <2>3 DEF EnterSub
    <2> DEFINE frame == [router |-> Current.sub, idx |-> 1,
                         original |-> IF Current.path = Null THEN Null ELSE resource,
                         base |-> base]
    <2>6. frame \in Frame
      BY <2>2, <2>3 DEF Frame
    <2>7. stack' = Append(stack, frame)
      BY <1>6 DEF EnterSub
    <2> HIDE DEF frame
    <2>8. stack' \in Seq(Frame) /\ Len(stack') > 0
      BY <1>0, <2>1, <2>6, <2>7, SeqAppend DEF TypeOK
    <2>9. invoked' \in Seq(RouteNames)
      BY <1>0, <1>6, <2>1 DEF EnterSub, TypeOK
    <2>10. QED
      BY <1>0, <1>6, <2>4, <2>5, <2>8, <2>9 DEF EnterSub, AtRoute, TypeOK
  <1>7. CASE LeaveSub \/ ReturnDone
    <2>1. Len(stack) > 1 /\ phase' = phase /\ phase \in {"dispatch", "unwind"}
      BY <1>7 DEF LeaveSub, ReturnDone
    <2>2. Pop \in Seq(Frame) /\ Len(Pop) > 0
      BY <1>0, <2>1, PopType DEF TypeOK
    <2>3. stack' \in Seq(Frame) /\ Len(stack') > 0
      BY <1>7, <2>2, AdvancedType DEF LeaveSub, ReturnDone
    <2>4. Top \in Frame
      BY <1>0, <2>1, TopType
    <2>5. resource' \in Seq(Chars) \cup {Null} /\ base' \in Seq(Seq(Chars)) /\ done' \in BOOLEAN
      BY <1>7, <2>4 DEF LeaveSub, ReturnDone, Restore, Frame
    <2>6. QED
      BY <1>0, <1>7, <2>1, <2>3, <2>5 DEF LeaveSub, ReturnDone, TypeOK
  <1>8. CASE LeaveRoot
    <2>1. served' \in BOOLEAN
      BY <1>8 DEF LeaveRoot
    <2>2. QED
      BY <1>0, <1>8, <2>1 DEF LeaveRoot, TypeOK
  <1>9. CASE RunCallback
    <2>1. Len(callbacks) \in Nat /\ Len(ran) \in Nat /\ Len(callbacks) - Len(ran) \in 1 .. Len(callbacks)
      BY <1>0, <1>9 DEF RunCallback, TypeOK
    <2>2. callbacks[Len(callbacks) - Len(ran)] \in RouteNames
      BY <1>0, <2>1, ElementOfSeq DEF TypeOK
    <2>3. ran' \in Seq(RouteNames) /\ Len(ran') = Len(ran) + 1
      BY <1>0, <1>9, <2>2, SeqAppend DEF RunCallback, TypeOK
    <2>4. QED
      BY <1>0, <1>9, <2>1, <2>3 DEF RunCallback, TypeOK
  <1>10. CASE Finish
    BY <1>0, <1>10 DEF Finish, TypeOK
  <1>11. CASE UNCHANGED vars
    BY <1>0, <1>11 DEF vars, TypeOK
  <1>12. QED
    BY <1>1, <1>2, <1>3, <1>4, <1>5, <1>6, <1>7, <1>8, <1>9, <1>10, <1>11 DEF Next, Dispatch

\* The variables of Router keep their types (hs_router.c, hs_types.c).
THEOREM TypeCorrect == Spec => []TypeOK
  <1>1. TInv => TypeOK
    BY DEF TInv
  <1>2. QED
    BY <1>1, TypeInit, TypeNext, PTL DEF Spec

-----------------------------------------------------------------------------
\* One response, the announced close, and the room for callbacks.

AInv ==
    /\ TInv
    /\ OneResponse
    /\ ClosePromised
    /\ CallbacksFit

LEMMA AnswerInit == Init => AInv
  <1>1. Init => TInv
    BY TypeInit
  <1>2. Init => OneResponse /\ ClosePromised /\ CallbacksFit
    BY DEF Init, OneResponse, ClosePromised, CallbacksFit
  <1>3. QED
    BY <1>1, <1>2 DEF AInv

LEMMA CallbacksFitInvoke ==
    ASSUME TypeOK, CallbacksFit, Len(stack) > 0, Invoke
    PROVE  CallbacksFit'
  <1>1. CASE UNCHANGED <<callbacks, capacity>>
    BY <1>1 DEF CallbacksFit
  <1>2. CASE AddCallback(CurrentName)
    <2>1. callbacks \in Seq(RouteNames) /\ Len(callbacks) \in Nat /\ CurrentName \in RouteNames
          /\ capacity \in Nat \ {0}
      BY TopType DEF TypeOK
    <2>2. Len(callbacks') = Len(callbacks) + 1
      BY <1>2, <2>1, SeqAppend DEF AddCallback
    <2>3. QED
      BY <1>2, <2>1, <2>2 DEF AddCallback, CallbacksFit
  <1>3. QED
    BY <1>1, <1>2 DEF Invoke, MayAddCallback

LEMMA AnswerNext == AInv /\ [Next]_vars => AInv'
  <1> SUFFICES ASSUME AInv, [Next]_vars PROVE AInv'
    OBVIOUS
  <1>0. TypeOK /\ TInv' /\ Active /\ OneResponse /\ ClosePromised /\ CallbacksFit
    BY TypeNext DEF AInv, TInv
  <1> SUFFICES OneResponse' /\ ClosePromised' /\ CallbacksFit'
    BY <1>0 DEF AInv
  <1> USE DEF routeVars, stackVars, requestVars
  <1>1. ASSUME NEW r \in Requests, Parse(r)
        PROVE  OneResponse' /\ ClosePromised' /\ CallbacksFit'
    BY <1>1 DEF Parse, NewCallbacks, OneResponse, ClosePromised, CallbacksFit
  <1>2. CASE RouteContinues
    BY <1>0, <1>2, CallbacksFitInvoke
       DEF RouteContinues, AtRoute, OneResponse, ClosePromised, Active
  <1>3. CASE RouteResponds
    <2>1. responses = <<>> /\ phase' = "unwind"
      BY <1>0, <1>3 DEF RouteResponds, ConnectionHeader, AtRoute, OneResponse
    <2>2. PICK close \in BOOLEAN :
              /\ responses' = Append(responses, IF close THEN "close" ELSE "keep-alive")
              /\ closed' = ClosesAfter(close)
      BY <1>3 DEF RouteResponds, ConnectionHeader
    <2>3. responses' = <<IF close THEN "close" ELSE "keep-alive">>
      BY <2>1, <2>2
    <2>4. OneResponse'
      BY <2>1, <2>3 DEF OneResponse
    <2>5. ClosePromised'
      BY <2>1, <2>2, <2>3 DEF ClosePromised, ClosesAfter
    <2>6. CallbacksFit'
      BY <1>0, <1>3, CallbacksFitInvoke DEF RouteResponds, ConnectionHeader, AtRoute, Active
    <2>7. QED
      BY <2>4, <2>5, <2>6
  <1>4. CASE LeaveRoot
    <2>1. phase' = "callbacks" /\ UNCHANGED <<responses, closed, callbacks, capacity>>
      BY <1>4 DEF LeaveRoot
    <2>2. CASE phase = "dispatch"
      <3>1. responses = <<>> /\ ~served'
        BY <1>0, <1>4, <2>2 DEF LeaveRoot, OneResponse
      <3>2. OneResponse'
        BY <2>1, <3>1 DEF OneResponse
      <3>3. QED
        BY <1>0, <2>1, <3>1, <3>2 DEF ClosePromised, CallbacksFit
    <2>3. CASE phase = "unwind"
      <3>1. Len(responses) = 1 /\ served'
        BY <1>0, <1>4, <2>3 DEF LeaveRoot, OneResponse
      <3>2. OneResponse'
        BY <2>1, <3>1 DEF OneResponse
      <3>3. QED
        BY <1>0, <2>1, <2>3, <3>2 DEF ClosePromised, CallbacksFit
    <2>4. QED
      BY <1>4, <2>2, <2>3 DEF LeaveRoot
  <1>5. CASE Finish
    BY <1>0, <1>5 DEF Finish, OneResponse, ClosePromised, CallbacksFit
  <1>6. CASE StopServing
    BY <1>0, <1>6 DEF StopServing, OneResponse, ClosePromised, CallbacksFit
  <1>7. CASE UNCHANGED <<phase, responses, served, closed, callbacks, capacity>>
    BY <1>0, <1>7 DEF OneResponse, ClosePromised, CallbacksFit
  <1>8. QED
    BY <1>1, <1>2, <1>3, <1>4, <1>5, <1>6, <1>7
       DEF Next, Dispatch, SkipRoute, EnterSub, LeaveSub, ReturnDone, RunCallback, vars

LEMMA AnswerInvariance == Spec => []AInv
  BY AnswerInit, AnswerNext, PTL DEF Spec

\* A request gets at most one response, however deep the routers are nested,
\* and hs_router_serve tells truly whether there was one (hs_router.c:359-537).
THEOREM OneResponseHolds == Spec => []OneResponse
  BY AnswerInvariance, PTL DEF AInv

\* "Connection: close" in a response is followed by the close, whatever the
\* payload (hs_router.c:399-495).
THEOREM ClosePromisedHolds == Spec => []ClosePromised
  BY AnswerInvariance, PTL DEF AInv

\* The vector of callbacks has room for every callback added
\* (hs_types.c:193-218, with the capacity of hs_types.c:27).
THEOREM CallbacksFitHolds == Spec => []CallbacksFit
  BY AnswerInvariance, PTL DEF AInv

-----------------------------------------------------------------------------
\* Router implements Exchange.

\* The state of the connection as its peer sees it.
Seen == <<CASE phase = "ready" -> "waiting"
            [] phase = "over" -> "over"
            [] OTHER -> "serving",
          responses>>

LEMMA ExchangeInit == Init => Exchanges!Init
  BY DEF Init, Exchanges!Init

LEMMA ExchangeNext == AInv /\ [Next]_vars => [Exchanges!Next]_Seen
  <1> SUFFICES ASSUME AInv, [Next]_vars PROVE [Exchanges!Next]_Seen
    OBVIOUS
  <1>0. TypeOK /\ OneResponse /\ ClosePromised
    BY DEF AInv, TInv
  <1> USE DEF Seen
  <1>1. ASSUME NEW r \in Requests, Parse(r) PROVE Exchanges!TakeRequest
    <2>1. phase = "ready" /\ phase' \in {"dispatch", "callbacks"} /\ responses' = <<>>
      BY <1>1 DEF Parse
    <2>2. QED
      BY <2>1 DEF Exchanges!TakeRequest
  <1>2. CASE RouteResponds
    <2>1. phase = "dispatch" /\ phase' = "unwind" /\ responses = <<>>
      BY <1>0, <1>2 DEF RouteResponds, AtRoute, OneResponse
    <2>2. PICK close \in BOOLEAN : responses' = Append(responses, ConnectionHeader(close))
      BY <1>2 DEF RouteResponds
    <2>3. responses' = <<"close">> \/ responses' = <<"keep-alive">>
      BY <2>1, <2>2 DEF ConnectionHeader
    <2>4. QED
      BY <2>1, <2>3 DEF Exchanges!Next, Exchanges!Answer
  <1>3. CASE Finish
    <2>1. phase = "callbacks" /\ responses' = responses
      BY <1>3 DEF Finish
    <2>2. CASE served /\ ~closed
      <3>1. Len(responses) = 1 /\ responses # <<"close">> /\ phase' = "ready"
        BY <1>0, <1>3, <2>1, <2>2 DEF Finish, OneResponse, ClosePromised
      <3>2. responses \in Seq({"close", "keep-alive"})
        BY <1>0 DEF TypeOK
      <3>3. responses = <<"keep-alive">>
        BY <3>1, <3>2
      <3>4. Exchanges!GoOn
        BY <2>1, <3>1, <3>3 DEF Exchanges!GoOn
      <3>5. QED
        BY <3>4 DEF Exchanges!Next
    <2>3. CASE ~(served /\ ~closed)
      <3>1. phase' = "over"
        BY <1>3, <2>3 DEF Finish
      <3>2. Exchanges!End
        BY <2>1, <3>1 DEF Exchanges!End
      <3>3. QED
        BY <3>2 DEF Exchanges!Next
    <2>4. QED
      BY <2>2, <2>3
  <1>4. CASE StopServing
    <2>1. Exchanges!End
      BY <1>4 DEF StopServing, Exchanges!End
    <2>2. QED
      BY <2>1 DEF Exchanges!Next
  <1>5. CASE LeaveRoot
    <2>1. phase \in {"dispatch", "unwind"} /\ phase' = "callbacks" /\ responses' = responses
      BY <1>5 DEF LeaveRoot
    <2>2. QED
      BY <2>1
  <1>6. CASE UNCHANGED <<phase, responses>>
    BY <1>6
  <1>7. QED
    BY <1>1, <1>2, <1>3, <1>4, <1>5, <1>6
       DEF Next, Dispatch, SkipRoute, RouteContinues, EnterSub, LeaveSub, ReturnDone, RunCallback,
           vars, Exchanges!Next

\* However deep the routers are nested, and whatever the routes do, the
\* connection's loop answers its requests one by one, at most once each, and
\* takes none after an announced close (hs_router.c:80-168, 393-498).
THEOREM ExchangeRefinement == Spec => ImplementsExchange
  <1>1. AInv /\ [Next]_vars => [Exchanges!Next]_Seen
    BY ExchangeNext
  <1>2. QED
    BY <1>1, ExchangeInit, AnswerInvariance, PTL DEF Spec, ImplementsExchange, Exchanges!Spec, Seen

-----------------------------------------------------------------------------
\* The payload and the next request, when every read of a payload succeeds.

\* Before the response: payload in the socket is payload of this request
\* that was not loaded.  After it: the connection is closed, or clean.
FInv ==
    /\ phase = "dispatch" => (unread => request.hasPayload /\ ~loaded)
    /\ phase = "unwind" => closed \/ ~unread
    /\ phase = "callbacks" /\ served => closed \/ ~unread
    /\ NextRequestIsFramed

LEMMA MayLoadReads ==
    ASSUME ~LoadsFail, MayLoad, unread => ~loaded
    PROVE  unread' => unread /\ ~loaded'
  <1>1. CASE UNCHANGED <<loaded, unread>>
    BY <1>1
  <1>2. CASE unread' \in IF LoadsFail THEN {unread, FALSE} ELSE {FALSE}
    <2>1. unread' \in {FALSE}
      BY <1>2
    <2>2. QED
      BY <2>1, Zenon
  <1>3. QED
    BY <1>1, <1>2 DEF MayLoad

LEMMA FramedNext ==
    ASSUME ~LoadsFail, TInv, FInv, [Next]_vars
    PROVE  FInv'
  <1> USE DEF FInv, NextRequestIsFramed, routeVars, stackVars, requestVars
  <1>1. ASSUME NEW r \in Requests, Parse(r) PROVE FInv'
    BY <1>1 DEF Parse
  <1>2. CASE RouteContinues
    BY <1>2, MayLoadReads DEF RouteContinues, AtRoute, Invoke
  <1>3. CASE RouteResponds
    <2>1. phase = "dispatch" /\ phase' = "unwind" /\ request' = request
      BY <1>3 DEF RouteResponds, ConnectionHeader, AtRoute
    <2>2. unread' => request.hasPayload /\ ~loaded'
      BY <1>3, <2>1, MayLoadReads DEF RouteResponds, ConnectionHeader, Invoke
    <2>3. request.hasPayload /\ ~loaded' => closed'
      BY <1>3, Zenon DEF RouteResponds, ConnectionHeader, ClosesAfter
    <2>4. QED
      BY <2>1, <2>2, <2>3
  <1>4. CASE LeaveRoot
    BY <1>4 DEF LeaveRoot
  <1>5. CASE Finish
    BY <1>5 DEF Finish
  <1>6. CASE StopServing
    BY <1>6 DEF StopServing
  <1>7. CASE UNCHANGED <<phase, request, loaded, unread, closed, served>>
    BY <1>7
  <1>8. QED
    BY <1>1, <1>2, <1>3, <1>4, <1>5, <1>6, <1>7
       DEF Next, Dispatch, SkipRoute, EnterSub, LeaveSub, ReturnDone, RunCallback, vars

\* "if there is still payload left to read ... we will still close the
\* connection": the next request is never read from inside a payload, as
\* long as no read of a payload fails (hs_router.c:483-495).
THEOREM NextRequestIsFramedHolds ==
    ASSUME ~LoadsFail
    PROVE  Spec => []NextRequestIsFramed
  <1>1. Init => FInv
    BY DEF Init, FInv, NextRequestIsFramed
  <1>2. TInv /\ FInv /\ [Next]_vars => FInv'
    BY FramedNext
  <1>3. FInv => NextRequestIsFramed
    BY DEF FInv
  <1>4. QED
    BY <1>1, <1>2, <1>3, TypeInit, TypeNext, PTL DEF Spec

-----------------------------------------------------------------------------
\* What the routes see below the mounts.

\* Every router is mounted at a path.  Without it a mounted router gives back
\* no resource at all (hs_router.c:519-529 with a route->path of NULL).
MountsHavePaths ==
    \A tbl \in Tables, r \in Routers :
        \A i \in 1 .. Len(tbl[r].routes) :
            tbl[r].routes[i].sub # NoRouter => tbl[r].routes[i].path # Null

\* What SeenBelowMounts says of the router of frame i.
SeenAt(i) ==
    LET path == MountOf(i).path
    IN  IF path = Null THEN BaseAt(i) = BaseAt(i - 1)
        ELSE /\ ResourceAt(i) = RemovePrefix(path, ResourceAt(i - 1))
             /\ BaseAt(i) = Append(BaseAt(i - 1), path)

\* Levels up to n see what they saw, when the frames below keep their place.
LEMMA LevelsKept ==
    ASSUME TypeOK, SeenBelowMounts, NEW n \in 1 .. Len(stack),
           table' = table, request' = request,
           \A i \in 1 .. n - 1 : stack'[i].router = stack[i].router /\ stack'[i].idx = stack[i].idx,
           \A i \in 1 .. n : ResourceAt(i)' = ResourceAt(i) /\ BaseAt(i)' = BaseAt(i)
    PROVE  /\ ResourceAt(1)' = request'.resource /\ BaseAt(1)' = <<>>
           /\ \A i \in 2 .. n : SeenAt(i)'
  <1>1. Len(stack) \in Nat /\ stack # <<>>
    BY DEF TypeOK
  <1>2. ResourceAt(1) = request.resource /\ BaseAt(1) = <<>>
    BY <1>1 DEF SeenBelowMounts
  <1>3. ResourceAt(1)' = request'.resource /\ BaseAt(1)' = <<>>
    BY <1>1, <1>2
  <1>4. ASSUME NEW i \in 2 .. n PROVE SeenAt(i)'
    <2>1. SeenAt(i)
      BY <1>1 DEF SeenBelowMounts, SeenAt
    <2>2. i - 1 \in 1 .. n - 1 /\ i - 1 \in 1 .. n /\ i \in 1 .. n
      BY <1>1
    <2>3. MountOf(i)' = MountOf(i)
      BY <2>2 DEF MountOf
    <2>4. /\ ResourceAt(i)' = ResourceAt(i) /\ BaseAt(i)' = BaseAt(i)
          /\ ResourceAt(i - 1)' = ResourceAt(i - 1) /\ BaseAt(i - 1)' = BaseAt(i - 1)
      BY <2>2
    <2>5. QED
      BY ONLY <2>1, <2>3, <2>4 DEF SeenAt
  <1>5. QED
    BY <1>3, <1>4

LEMMA SeenFrom ==
    ASSUME NEW n \in Nat \ {0}, Len(stack') = n, phase' # "callbacks",
           ResourceAt(1)' = request'.resource, BaseAt(1)' = <<>>,
           \A i \in 2 .. n : SeenAt(i)'
    PROVE  SeenBelowMounts'
  BY DEF SeenBelowMounts, ResourceRestored, SeenAt

\* The loop of the top router, or a response, changes nothing of what is seen.
LEMMA SeenSame ==
    ASSUME TypeOK, SeenBelowMounts, Len(stack) > 0,
           table' = table, request' = request, resource' = resource, base' = base,
           phase' # "callbacks",
           stack' = stack \/ stack' = Advanced(stack)
    PROVE  SeenBelowMounts'
  <1>1. stack \in Seq(Frame) /\ Len(stack) \in Nat \ {0}
    BY DEF TypeOK
  <1>2. /\ Len(stack') = Len(stack)
        /\ \A i \in 1 .. Len(stack) - 1 : stack'[i] = stack[i]
        /\ stack'[Len(stack)].original = stack[Len(stack)].original
        /\ stack'[Len(stack)].base = stack[Len(stack)].base
    <2>1. CASE stack' = stack
      BY <2>1
    <2>2. CASE stack' = Advanced(stack)
      BY <1>1, <2>2, AdvancedKeeps
    <2>3. QED
      BY <2>1, <2>2
  <1>3. \A i \in 1 .. Len(stack) : ResourceAt(i)' = ResourceAt(i) /\ BaseAt(i)' = BaseAt(i)
    BY <1>1, <1>2 DEF ResourceAt, BaseAt
  <1>4. /\ ResourceAt(1)' = request'.resource /\ BaseAt(1)' = <<>>
        /\ \A i \in 2 .. Len(stack) : SeenAt(i)'
    BY <1>1, <1>2, <1>3, LevelsKept
  <1>5. QED
    BY <1>1, <1>2, <1>4, SeenFrom

\* A mounted router that returns leaves the outer one what it saw before.
LEMMA SeenBack ==
    ASSUME TypeOK, SeenBelowMounts, Len(stack) > 1,
           table' = table, request' = request, Restore, phase' # "callbacks",
           stack' = Pop \/ stack' = Advanced(Pop)
    PROVE  SeenBelowMounts'
  <1>1. stack \in Seq(Frame) /\ Len(stack) \in Nat
    BY DEF TypeOK
  <1>2. PICK n \in Nat \ {0} : n \in 1 .. Len(stack) /\ n + 1 = Len(stack)
    BY <1>1, OneLess
  <1>3. Pop \in Seq(Frame) /\ Len(Pop) = n /\ \A i \in 1 .. n : Pop[i] = stack[i]
    <2>1. Len(stack) - 1 = n
      BY <1>1, <1>2
    <2>2. QED
      BY <1>1, <2>1, PopType
  <1>4. /\ Len(stack') = n
        /\ \A i \in 1 .. n - 1 : stack'[i] = stack[i]
        /\ stack'[n].original = stack[n].original
        /\ stack'[n].base = stack[n].base
    <2>1. CASE stack' = Pop
      BY <1>2, <1>3, <2>1
    <2>2. CASE stack' = Advanced(Pop)
      <3>1. /\ Len(Advanced(Pop)) = n
            /\ \A i \in 1 .. n - 1 : Advanced(Pop)[i] = Pop[i]
            /\ Advanced(Pop)[n].original = Pop[n].original
            /\ Advanced(Pop)[n].base = Pop[n].base
        BY ONLY <1>2, <1>3, AdvancedKeeps
      <3>2. \A i \in 1 .. n - 1 : i \in 1 .. n
        BY <1>2
      <3>3. n \in 1 .. n
        BY <1>2
      <3>4. QED
        BY ONLY <1>3, <2>2, <3>1, <3>2, <3>3
    <2>3. QED
      BY <2>1, <2>2
  <1>5. resource' = stack[n + 1].original /\ base' = stack[n + 1].base
    BY <1>2 DEF Restore, Top
  <1>6. \A i \in 1 .. n : ResourceAt(i)' = ResourceAt(i) /\ BaseAt(i)' = BaseAt(i)
    BY <1>2, <1>4, <1>5 DEF ResourceAt, BaseAt
  <1>7. /\ ResourceAt(1)' = request'.resource /\ BaseAt(1)' = <<>>
        /\ \A i \in 2 .. n : SeenAt(i)'
    BY <1>2, <1>4, <1>6, LevelsKept
  <1>8. QED
    BY <1>2, <1>4, <1>7, SeenFrom

\* A router that is entered sees what is left of what the outer one sees.
LEMMA SeenEnter ==
    ASSUME MountsHavePaths, TInv, SeenBelowMounts, EnterSub
    PROVE  SeenBelowMounts'
  <1>1. /\ TypeOK /\ Len(stack) > 0 /\ stack \in Seq(Frame) /\ Len(stack) \in Nat
        /\ phase' = "dispatch" /\ table' = table /\ request' = request
    BY DEF TInv, TypeOK, Active, EnterSub, AtRoute, requestVars
  <1>2. Top.router \in Routers /\ Routes \in Seq(Route) /\ Top.idx \in 1 .. Len(Routes)
        /\ Current \in Route
    <2>1. Top \in Frame /\ Routes \in Seq(Route) /\ Top.idx <= Len(Routes) /\ Top.router \in Routers
      BY <1>1, TopType DEF EnterSub, AtRoute
    <2>2. QED
      BY <1>1, <2>1, TopType DEF Frame
  <1>3. Current.path # Null
    <2>1. table \in Tables
      BY <1>1 DEF TypeOK
    <2>2. QED
      BY <1>2, <2>1 DEF MountsHavePaths, EnterSub, Current, Routes
  <1> DEFINE frame == [router |-> Current.sub, idx |-> 1, original |-> resource, base |-> base]
  <1>4. PICK n \in Nat \ {0} : n = Len(stack) /\ n \in 1 .. n
    BY <1>1
  <1>5. /\ stack' = Append(stack, frame)
        /\ resource' = RemovePrefix(Current.path, resource)
        /\ base' = Append(base, Current.path)
    BY <1>3 DEF EnterSub
  <1>6. Len(stack') = n + 1 /\ (\A i \in 1 .. n : stack'[i] = stack[i]) /\ stack'[n + 1] = frame
    BY <1>1, <1>4, <1>5
  <1>7. stack'[n + 1].original = resource /\ stack'[n + 1].base = base
    BY <1>6
  <1> HIDE DEF frame
  <1>8. MountOf(n + 1)' = Current
    <2>1. stack'[n] = Top
      BY <1>4, <1>6 DEF Top
    <2>2. (n + 1) - 1 = n /\ table' = table
      BY <1>1
    <2>3. QED
      BY ONLY <2>1, <2>2 DEF MountOf, Current, Routes
  <1>9. \A i \in 1 .. n : ResourceAt(i)' = ResourceAt(i) /\ BaseAt(i)' = BaseAt(i)
    BY <1>6, <1>7, <1>4 DEF ResourceAt, BaseAt
  <1>10. /\ ResourceAt(1)' = request'.resource /\ BaseAt(1)' = <<>>
         /\ \A i \in 2 .. n : SeenAt(i)'
    BY <1>1, <1>4, <1>6, <1>9, LevelsKept
  <1>11. SeenAt(n + 1)'
    <2>1. ResourceAt(n + 1)' = RemovePrefix(Current.path, resource)
      BY ONLY <1>5, <1>6 DEF ResourceAt
    <2>2. BaseAt(n + 1)' = Append(base, Current.path)
      BY ONLY <1>5, <1>6 DEF BaseAt
    <2>3. (n + 1) - 1 = n /\ ResourceAt(n)' = resource /\ BaseAt(n)' = base
      BY ONLY <1>4, <1>6, <1>7 DEF ResourceAt, BaseAt
    <2>4. QED
      BY ONLY <1>3, <1>8, <2>1, <2>2, <2>3 DEF SeenAt
  <1>12. \A i \in 2 .. n + 1 : SeenAt(i)'
    <2>1. ASSUME NEW i \in 2 .. n + 1, i # n + 1 PROVE i \in 2 .. n
      BY ONLY <2>1
    <2>2. QED
      BY ONLY <1>10, <1>11, <2>1, Zenon
  <1>13. QED
    BY <1>1, <1>6, <1>4, <1>10, <1>12, SeenFrom

LEMMA SeenNext ==
    ASSUME MountsHavePaths, TInv, SeenBelowMounts, [Next]_vars
    PROVE  SeenBelowMounts'
  <1>0. TypeOK /\ Active /\ (stack = <<>> <=> Len(stack) = 0) /\ Len(stack) \in Nat
    BY DEF TInv, TypeOK
  <1> USE DEF routeVars, stackVars, requestVars
  <1>1. ASSUME NEW r \in Requests, Parse(r) PROVE SeenBelowMounts'
    <2>1. CASE Rooted(r.resource)
      <3>1. /\ stack' = <<[router |-> Root, idx |-> 1, original |-> r.resource, base |-> <<>>]>>
            /\ phase' = "dispatch" /\ resource' = r.resource /\ request' = r /\ base' = <<>>
        BY <1>1, <2>1 DEF Parse
      <3>2. Len(stack') = 1
        BY <3>1
      <3>3. ResourceAt(1)' = request'.resource /\ BaseAt(1)' = <<>>
        BY <3>1, <3>2 DEF ResourceAt, BaseAt
      <3>4. QED
        BY <3>1, <3>2, <3>3, SeenFrom
    <2>2. CASE ~Rooted(r.resource)
      <3>1. stack' = <<>> /\ resource' = r.resource /\ request' = r /\ base' = <<>>
        BY <1>1, <2>2 DEF Parse
      <3>2. QED
        BY <3>1 DEF SeenBelowMounts, ResourceRestored
    <2>3. QED
      BY <2>1, <2>2
  <1>2. CASE SkipRoute \/ RouteContinues \/ RouteResponds
    <2>1. /\ Len(stack) > 0 /\ phase' # "callbacks" /\ table' = table /\ request' = request
          /\ resource' = resource /\ base' = base
          /\ stack' = stack \/ stack' = Advanced(stack)
      BY <1>0, <1>2 DEF SkipRoute, RouteContinues, RouteResponds, AtRoute, Active
    <2>2. QED
      BY <1>0, <2>1, SeenSame
  <1>3. CASE EnterSub
    BY <1>3, SeenEnter
  <1>4. CASE LeaveSub \/ ReturnDone
    <2>1. /\ Len(stack) > 1 /\ phase' # "callbacks" /\ table' = table /\ request' = request
          /\ Restore
          /\ stack' = Pop \/ stack' = Advanced(Pop)
      BY <1>4 DEF LeaveSub, ReturnDone
    <2>2. QED
      BY <1>0, <2>1, SeenBack
  <1>5. CASE LeaveRoot
    <2>1. Len(stack) = 1 /\ stack # <<>> /\ stack' = <<>> /\ resource' = resource /\ base' = base
          /\ request' = request
      BY <1>0, <1>5 DEF LeaveRoot
    <2>2. resource = request.resource /\ base = <<>>
      BY <2>1 DEF SeenBelowMounts, ResourceAt, BaseAt
    <2>3. QED
      BY <2>1, <2>2 DEF SeenBelowMounts, ResourceRestored
  <1>6. CASE StopServing \/ Finish
    <2>1. stack = <<>> /\ stack' = <<>> /\ phase' # "callbacks"
      BY <1>0, <1>6 DEF StopServing, Finish, Active
    <2>2. QED
      BY <2>1 DEF SeenBelowMounts, ResourceRestored
  <1>7. CASE RunCallback \/ UNCHANGED vars
    BY <1>7 DEF RunCallback, vars, SeenBelowMounts, ResourceRestored, ResourceAt, BaseAt, MountOf
  <1>8. QED
    BY <1>1, <1>2, <1>3, <1>4, <1>5, <1>6, <1>7 DEF Next, Dispatch

\* However deep the routers are mounted, and in whatever order they are
\* entered and left, a route sees the request's resource without the paths
\* of the mounts above it and a base path of exactly those mounts, and both
\* are given back (hs_router.c:519-529), if every mount has a path.
THEOREM SeenBelowMountsHolds ==
    ASSUME MountsHavePaths
    PROVE  Spec => []SeenBelowMounts
  <1>1. Init => SeenBelowMounts
    BY DEF Init, SeenBelowMounts, ResourceRestored
  <1>2. TInv /\ SeenBelowMounts /\ [Next]_vars => SeenBelowMounts'
    BY SeenNext
  <1>3. QED
    BY <1>1, <1>2, TypeInit, TypeNext, PTL DEF Spec

-----------------------------------------------------------------------------
\* The order of the callbacks.

\* No router is mounted twice, and the server's own router is not mounted:
\* a route releases the router mounted in it (hs_router.c:540-549), which
\* would release such a router twice.
MountedOnce ==
    \A tbl \in Tables, r, s \in Routers :
        \A i \in 1 .. Len(tbl[r].routes), j \in 1 .. Len(tbl[s].routes) :
            tbl[r].routes[i].sub # NoRouter =>
                /\ tbl[r].routes[i].sub # Root
                /\ tbl[r].routes[i].sub = tbl[s].routes[j].sub => r = s /\ i = j

\* The route invoked n-th in the request.
InvokedRoute(n) == table[invoked[n][1]].routes[invoked[n][2]]

IsInvoked(name) == \E n \in 1 .. Len(invoked) : invoked[n] = name

\* No route is invoked twice in a request.
InvokedOnce == \A m, n \in 1 .. Len(invoked) : invoked[m] = invoked[n] => m = n

InvokedExist == \A n \in 1 .. Len(invoked) : invoked[n][2] \in 1 .. Len(table[invoked[n][1]].routes)

\* A router has routes invoked only if it was entered by its mount.
EnteredByMount ==
    \A n \in 1 .. Len(invoked) :
        invoked[n][1] # Root => \E m \in 1 .. Len(invoked) : InvokedRoute(m).sub = invoked[n][1]

\* Each active router was entered by the route the outer one is at.
StackedByMount ==
    /\ stack # <<>> => stack[1].router = Root
    /\ \A i \in 2 .. Len(stack) :
          /\ IsInvoked(<<stack[i - 1].router, stack[i - 1].idx>>)
          /\ stack[i - 1].idx <= Len(table[stack[i - 1].router].routes)
          /\ MountOf(i).sub = stack[i].router

StackDistinct == \A i, j \in 1 .. Len(stack) : stack[i].router = stack[j].router => i = j

\* An active router has invoked no route after the one it is at, and while
\* it looks for a route, not that one.
InvokedBehind ==
    \A i \in 1 .. Len(stack), n \in 1 .. Len(invoked) :
        invoked[n][1] = stack[i].router =>
            /\ invoked[n][2] <= stack[i].idx
            /\ i = Len(stack) /\ phase = "dispatch" => invoked[n][2] # stack[i].idx

\* The callbacks are of invoked routes, in the order of their invocation.
CallbacksInOrder ==
    /\ \A a \in 1 .. Len(callbacks) : IsInvoked(callbacks[a])
    /\ \A a, b \in 1 .. Len(callbacks), m, n \in 1 .. Len(invoked) :
          a < b /\ invoked[m] = callbacks[a] /\ invoked[n] = callbacks[b] => m < n

\* The callbacks that ran are the last ones, from the last.
RanFromLast ==
    /\ \A i \in 1 .. Len(ran) : ran[i] = callbacks[Len(callbacks) + 1 - i]
    /\ phase \in {"dispatch", "unwind"} => ran = <<>>

NestInv ==
    /\ InvokedOnce /\ InvokedExist /\ EnteredByMount
    /\ StackedByMount /\ StackDistinct /\ InvokedBehind
    /\ CallbacksInOrder /\ RanFromLast

LEMMA FrameTypes ==
    ASSUME TypeOK
    PROVE  /\ \A i \in 1 .. Len(stack) : stack[i].router \in Routers /\ stack[i].idx \in Nat \ {0}
           /\ \A n \in 1 .. Len(invoked) :
                 /\ invoked[n] = <<invoked[n][1], invoked[n][2]>>
                 /\ invoked[n][1] \in Routers /\ invoked[n][2] \in Nat \ {0}
           /\ Len(stack) \in Nat /\ Len(invoked) \in Nat /\ Len(callbacks) \in Nat /\ Len(ran) \in Nat
  <1>1. \A i \in 1 .. Len(stack) : stack[i] \in Frame
    BY ElementOfSeq DEF TypeOK
  <1>2. \A n \in 1 .. Len(invoked) : invoked[n] \in Routers \X (Nat \ {0})
    BY ElementOfSeq DEF TypeOK, RouteNames
  <1>3. Len(stack) \in Nat /\ Len(invoked) \in Nat /\ Len(callbacks) \in Nat /\ Len(ran) \in Nat
    BY DEF TypeOK
  <1>4. QED
    BY <1>1, <1>2, <1>3 DEF Frame

\* The route at hand was not invoked before.
LEMMA CurrentIsNew ==
    ASSUME TypeOK, InvokedBehind, phase = "dispatch", Len(stack) > 0
    PROVE  ~IsInvoked(CurrentName)
  <1> SUFFICES ASSUME NEW n \in 1 .. Len(invoked), invoked[n] = CurrentName PROVE FALSE
    BY DEF IsInvoked
  <1>1. invoked[n][1] = Top.router /\ invoked[n][2] = Top.idx
    BY DEF CurrentName
  <1>2. Len(stack) \in 1 .. Len(stack)
    BY FrameTypes
  <1>3. QED
    BY <1>1, <1>2 DEF InvokedBehind, Top

\* What is invoked stays invoked when one more route is.
LEMMA InvokedAppended ==
    ASSUME TypeOK, Len(stack) > 0, invoked' = Append(invoked, CurrentName)
    PROVE  /\ Len(invoked') = Len(invoked) + 1
           /\ \A n \in 1 .. Len(invoked) : invoked'[n] = invoked[n]
           /\ invoked'[Len(invoked) + 1] = CurrentName
           /\ CurrentName \in RouteNames
           /\ \A name : IsInvoked(name) => IsInvoked(name)'
           /\ \A name : name = CurrentName => IsInvoked(name)'
           /\ \A n \in 1 .. Len(invoked') :
                 n \in 1 .. Len(invoked) \/ (n = Len(invoked) + 1 /\ n \notin 1 .. Len(invoked))
  <1>1. invoked \in Seq(RouteNames) /\ CurrentName \in RouteNames /\ Len(invoked) \in Nat
    BY TopType DEF TypeOK
  <1>2. /\ Len(invoked') = Len(invoked) + 1
        /\ \A n \in 1 .. Len(invoked) : invoked'[n] = invoked[n]
        /\ invoked'[Len(invoked) + 1] = CurrentName
    BY <1>1, SeqAppend
  <1>3. \A n \in 1 .. Len(invoked) : n \in 1 .. Len(invoked')
    BY <1>1, <1>2
  <1>4. Len(invoked) + 1 \in 1 .. Len(invoked')
    BY <1>1, <1>2
  <1>5. \A n \in 1 .. Len(invoked') :
           n \in 1 .. Len(invoked) \/ (n = Len(invoked) + 1 /\ n \notin 1 .. Len(invoked))
    BY <1>1, <1>2
  <1>6. ASSUME NEW name, IsInvoked(name) PROVE IsInvoked(name)'
    BY <1>2, <1>3, <1>6 DEF IsInvoked
  <1>7. ASSUME NEW name, name = CurrentName PROVE IsInvoked(name)'
    BY <1>2, <1>4, <1>7 DEF IsInvoked
  <1>8. QED
    BY <1>1, <1>2, <1>5, <1>6, <1>7

LEMMA CurrentOf ==
    ASSUME TypeOK, Len(stack) > 0
    PROVE  /\ CurrentName[1] = Top.router /\ CurrentName[2] = Top.idx
           /\ Len(stack) \in 1 .. Len(stack) /\ Top = stack[Len(stack)]
           /\ Top.router \in Routers /\ Top.idx \in Nat \ {0}
  BY FrameTypes, TopType DEF CurrentName, Top

\* A route that is invoked is new, and its router was entered.
LEMMA InvocationKeeps ==
    ASSUME TypeOK, NestInv, AtRoute, Len(stack) > 0,
           table' = table, invoked' = Append(invoked, CurrentName)
    PROVE  InvokedOnce' /\ InvokedExist' /\ EnteredByMount'
  <1>1. InvokedOnce /\ InvokedExist /\ EnteredByMount /\ StackedByMount /\ InvokedBehind
        /\ phase = "dispatch" /\ Top.idx <= Len(Routes)
    BY DEF NestInv, AtRoute
  <1>2. ~IsInvoked(CurrentName)
    BY <1>1, CurrentIsNew
  <1> DEFINE last == Len(invoked) + 1
  <1>3. /\ \A n \in 1 .. Len(invoked) : invoked'[n] = invoked[n]
        /\ invoked'[last] = CurrentName
        /\ \A n \in 1 .. Len(invoked') : n \in 1 .. Len(invoked) \/ n = last
        /\ \A n \in 1 .. Len(invoked) : n \in 1 .. Len(invoked')
    BY InvokedAppended, FrameTypes
  <1>4. CurrentName[1] = Top.router /\ CurrentName[2] = Top.idx /\ Top.idx \in Nat \ {0}
    BY CurrentOf
  <1> HIDE DEF last
  <1>5. InvokedOnce'
    <2>1. \A n \in 1 .. Len(invoked) : invoked[n] # CurrentName
      BY <1>2 DEF IsInvoked
    <2>2. QED
      BY ONLY <1>1, <1>3, <2>1, Zenon DEF InvokedOnce
  <1>6. InvokedExist'
    <2>1. \A n \in 1 .. Len(invoked) :
             invoked[n][2] \in 1 .. Len(table[invoked[n][1]].routes)
      BY <1>1 DEF InvokedExist
    <2>2. CurrentName[2] \in 1 .. Len(table[CurrentName[1]].routes)
      <3>1. Routes \in Seq(Route)
        BY TopType
      <3>2. Len(Routes) \in Nat
        BY <3>1
      <3>3. Top.idx \in 1 .. Len(Routes)
        BY <1>1, <1>4, <3>2
      <3>4. QED
        BY <1>4, <3>3 DEF Routes
    <2>3. QED
      BY ONLY <1>3, <2>1, <2>2, table' = table DEF InvokedExist
  <1>7. EnteredByMount'
    <2>1. \A m \in 1 .. Len(invoked) : InvokedRoute(m)' = InvokedRoute(m)
      BY <1>3 DEF InvokedRoute
    <2>2. ASSUME NEW name \in {invoked[n] : n \in 1 .. Len(invoked)} \cup {CurrentName},
                 name[1] # Root
          PROVE  \E m \in 1 .. Len(invoked) : InvokedRoute(m).sub = name[1]
      <3>1. CASE name = CurrentName
        <4>1. stack # <<>> /\ Len(stack) \in Nat /\ Len(stack) > 0
          BY FrameTypes
        <4>2. stack[1].router = Root
          BY <1>1, <4>1 DEF StackedByMount
        <4>3. Len(stack) # 1
          BY <1>4, <2>2, <3>1, <4>2, CurrentOf
        <4>4. Len(stack) \in 2 .. Len(stack)
          <5>1. \A k \in Nat : k > 0 /\ k # 1 => k \in 2 .. k
            OBVIOUS
          <5>2. QED
            BY ONLY <4>1, <4>3, <5>1, Zenon
        <4>5. PICK m \in 1 .. Len(invoked) :
                  invoked[m] = <<stack[Len(stack) - 1].router, stack[Len(stack) - 1].idx>>
          BY <1>1, <4>4 DEF StackedByMount, IsInvoked
        <4>6. InvokedRoute(m) = MountOf(Len(stack))
          BY <4>5 DEF InvokedRoute, MountOf
        <4>7. MountOf(Len(stack)).sub = stack[Len(stack)].router
          BY <1>1, <4>4 DEF StackedByMount
        <4>8. QED
          BY <1>4, <3>1, <4>6, <4>7, CurrentOf
      <3>2. CASE \E n \in 1 .. Len(invoked) : name = invoked[n]
        BY <1>1, <2>2, <3>2 DEF EnteredByMount
      <3>3. QED
        BY <2>2, <3>1, <3>2
    <2>3. QED
      BY <1>3, <2>1, <2>2 DEF EnteredByMount
  <1>8. QED
    BY <1>5, <1>6, <1>7

\* The frames up to n stay where they are, but for the place of frame n.
LEMMA StackKept ==
    ASSUME TypeOK, StackedByMount, StackDistinct, NEW n \in 1 .. Len(stack),
           table' = table, Len(stack') = n, stack' \in Seq(Frame),
           \A i \in 1 .. n - 1 : stack'[i] = stack[i],
           stack'[n].router = stack[n].router,
           \A name : IsInvoked(name) => IsInvoked(name)'
    PROVE  StackedByMount' /\ StackDistinct'
  <1>1. Len(stack) \in Nat /\ n \in Nat \ {0} /\ stack # <<>> /\ n <= Len(stack)
    BY FrameTypes
  <1>2. \A i \in 1 .. n : stack'[i].router = stack[i].router
    <2>1. ASSUME NEW i \in 1 .. n PROVE i = n \/ i \in 1 .. n - 1
      BY ONLY <1>1, <2>1
    <2>2. QED
      BY <2>1
  <1>3. stack'[1].router = Root
    BY <1>1, <1>2 DEF StackedByMount
  <1>4. ASSUME NEW i \in 2 .. n
        PROVE  /\ IsInvoked(<<stack[i - 1].router, stack[i - 1].idx>>)'
               /\ (stack[i - 1].idx <= Len(table[stack[i - 1].router].routes))'
               /\ (MountOf(i).sub = stack[i].router)'
    <2>1. i \in 2 .. Len(stack) /\ i - 1 \in 1 .. n - 1 /\ i \in 1 .. n
      BY <1>1
    <2> DEFINE f == stack[i - 1]
    <2>2. stack'[i - 1] = f
      BY <2>1
    <2>3. /\ IsInvoked(<<f.router, f.idx>>)
          /\ f.idx <= Len(table[f.router].routes)
          /\ MountOf(i).sub = stack[i].router
      BY <2>1 DEF StackedByMount
    <2>4. PICK name : name = <<f.router, f.idx>>
      OBVIOUS
    <2>5. IsInvoked(name)'
      BY <2>3, <2>4
    <2>6. MountOf(i)' = MountOf(i)
      BY <2>2 DEF MountOf
    <2>7. name = <<stack[i - 1].router, stack[i - 1].idx>>'
      BY <2>2, <2>4
    <2>8. IsInvoked(<<stack[i - 1].router, stack[i - 1].idx>>)'
      BY ONLY <2>5, <2>7 DEF IsInvoked
    <2>9. QED
      BY <1>2, <2>1, <2>2, <2>3, <2>6, <2>8
  <1>5. StackedByMount'
    BY <1>3, <1>4 DEF StackedByMount
  <1>6. StackDistinct'
    <2>1. \A i \in 1 .. n : i \in 1 .. Len(stack)
      BY <1>1
    <2>2. QED
      BY ONLY <1>2, <2>1, StackDistinct, Len(stack') = n DEF StackDistinct
  <1>7. QED
    BY <1>5, <1>6

\* The router of frame n goes past the route it was at, or stops looking.
LEMMA BehindKept ==
    ASSUME TypeOK, TypeOK', InvokedBehind, StackDistinct, NEW n \in 1 .. Len(stack),
           Len(stack') = n,
           \A i \in 1 .. n - 1 : stack'[i] = stack[i],
           stack'[n].router = stack[n].router,
           \/ stack'[n].idx = stack[n].idx + 1
           \/ stack'[n].idx = stack[n].idx /\ phase' # "dispatch",
           invoked' = invoked \/ (n = Len(stack) /\ invoked' = Append(invoked, CurrentName))
    PROVE  InvokedBehind'
  <1>1. Len(stack) \in Nat /\ n \in Nat \ {0} /\ n <= Len(stack) /\ Len(stack) > 0
    BY FrameTypes
  <1>2. \A i \in 1 .. n : i \in 1 .. Len(stack) /\ (i = n \/ i \in 1 .. n - 1)
    BY ONLY <1>1
  <1>3. \A i \in 1 .. n : stack'[i].router = stack[i].router
    BY <1>2
  <1> SUFFICES ASSUME NEW i \in 1 .. n, NEW m \in 1 .. Len(invoked'),
                      invoked'[m][1] = stack'[i].router
               PROVE  /\ invoked'[m][2] <= stack'[i].idx
                      /\ i = n /\ phase' = "dispatch" => invoked'[m][2] # stack'[i].idx
    BY DEF InvokedBehind
  <1>4. invoked'[m][2] <= stack[i].idx
    <2>1. CASE m \in 1 .. Len(invoked) /\ invoked'[m] = invoked[m]
      BY <1>2, <1>3, <2>1 DEF InvokedBehind
    <2>2. CASE n = Len(stack) /\ invoked'[m] = CurrentName
      <3>1. stack[i].router = stack[n].router /\ n \in 1 .. Len(stack)
        BY <1>3, <2>2, CurrentOf
      <3>2. i = n
        BY <1>2, <3>1 DEF StackDistinct
      <3>3. invoked'[m][2] = stack[i].idx /\ stack[i].idx \in Nat
        BY <1>1, <2>2, <3>2, CurrentOf
      <3>4. QED
        BY <3>3
    <2>3. CASE invoked' = invoked
      BY <2>1, <2>3
    <2>4. CASE n = Len(stack) /\ invoked' = Append(invoked, CurrentName)
      BY <1>1, <2>1, <2>2, <2>4, InvokedAppended
    <2>5. QED
      BY <2>3, <2>4
  <1>5. stack[i].idx \in Nat /\ invoked'[m][2] \in Nat
    <2>1. stack[i].idx \in Nat \ {0}
      BY <1>2, FrameTypes
    <2>2. invoked'[m] \in RouteNames
      BY ElementOfSeq DEF TypeOK
    <2>3. QED
      BY <2>1, <2>2 DEF RouteNames
  <1>6. CASE i = n
    <2>1. CASE stack'[n].idx = stack[n].idx + 1
      BY ONLY <1>4, <1>5, <1>6, <2>1
    <2>2. CASE stack'[n].idx = stack[n].idx /\ phase' # "dispatch"
      BY <1>4, <1>6, <2>2
    <2>3. QED
      BY <2>1, <2>2
  <1>7. CASE i # n
    <2>1. stack'[i] = stack[i]
      BY <1>2, <1>7
    <2>2. QED
      BY <1>4, <1>7, <2>1
  <1>8. QED
    BY <1>6, <1>7

\* A router that is entered was not entered before.
LEMMA NestEnter ==
    ASSUME MountedOnce, TInv, TInv', NestInv, EnterSub
    PROVE  StackedByMount' /\ StackDistinct' /\ InvokedBehind'
  <1>1. /\ TypeOK /\ TypeOK' /\ Len(stack) > 0 /\ Len(stack) \in Nat /\ phase = "dispatch"
        /\ table' = table /\ table \in Tables /\ stack \in Seq(Frame)
        /\ InvokedExist /\ EnteredByMount /\ StackedByMount /\ StackDistinct /\ InvokedBehind
        /\ invoked' = Append(invoked, CurrentName)
    BY DEF TInv, TypeOK, Active, NestInv, EnterSub, AtRoute, requestVars
  <1> DEFINE n == Len(stack)
             sub == Current.sub
  <1>2. /\ CurrentName[1] = Top.router /\ CurrentName[2] = Top.idx /\ Top = stack[n]
        /\ n \in 1 .. n /\ Top.router \in Routers /\ Top.idx \in Nat \ {0}
    BY <1>1, CurrentOf
  <1>3. Top.idx \in 1 .. Len(Routes) /\ sub # NoRouter /\ Routes \in Seq(Route)
    <2>1. Top.idx <= Len(Routes) /\ Routes \in Seq(Route) /\ Current.sub # NoRouter
      BY <1>1, TopType DEF EnterSub, AtRoute
    <2>2. QED
      BY <1>2, <2>1
  <1>4. ~IsInvoked(CurrentName)
    BY <1>1, CurrentIsNew
  <1>5. sub # Root
    BY <1>1, <1>2, <1>3 DEF MountedOnce, Current, Routes
  <1>6. ASSUME NEW r \in Routers, NEW k \in 1 .. Len(table[r].routes), table[r].routes[k].sub = sub
        PROVE  r = Top.router /\ k = Top.idx
    BY <1>1, <1>2, <1>3, <1>6 DEF MountedOnce, Current, Routes
  <1>7. \A m \in 1 .. Len(invoked) : invoked[m][1] # sub
    <2> SUFFICES ASSUME NEW m \in 1 .. Len(invoked), invoked[m][1] = sub PROVE FALSE
      OBVIOUS
    <2>1. PICK l \in 1 .. Len(invoked) : InvokedRoute(l).sub = sub
      BY <1>1, <1>5 DEF EnteredByMount
    <2>2. /\ invoked[l][1] \in Routers
          /\ invoked[l][2] \in 1 .. Len(table[invoked[l][1]].routes)
          /\ invoked[l] = <<invoked[l][1], invoked[l][2]>>
      BY <1>1, FrameTypes DEF InvokedExist
    <2>3. invoked[l][1] = Top.router /\ invoked[l][2] = Top.idx
      BY <1>6, <2>1, <2>2 DEF InvokedRoute
    <2>4. invoked[l] = CurrentName
      BY <2>2, <2>3 DEF CurrentName
    <2>5. QED
      BY <1>4, <2>4 DEF IsInvoked
  <1>8. \A j \in 1 .. n : stack[j].router # sub
    <2> SUFFICES ASSUME NEW j \in 1 .. n, stack[j].router = sub PROVE FALSE
      OBVIOUS
    <2>1. j # 1
      BY <1>1, <1>5 DEF StackedByMount
    <2>2. j \in 2 .. n /\ j - 1 \in 1 .. n
      BY ONLY <1>1, <2>1, j \in 1 .. n
    <2>3. /\ IsInvoked(<<stack[j - 1].router, stack[j - 1].idx>>)
          /\ stack[j - 1].idx <= Len(table[stack[j - 1].router].routes)
          /\ MountOf(j).sub = sub
      BY <1>1, <2>2 DEF StackedByMount
    <2>4. stack[j - 1].router \in Routers /\ stack[j - 1].idx \in Nat \ {0}
      BY <1>1, <2>2, FrameTypes
    <2>5. table[stack[j - 1].router].routes \in Seq(Route)
      BY <1>1, <2>4, TablesAssumption DEF Table
    <2>6. stack[j - 1].idx \in 1 .. Len(table[stack[j - 1].router].routes)
      BY <2>3, <2>4, <2>5
    <2>7. stack[j - 1].router = Top.router /\ stack[j - 1].idx = Top.idx
      BY <1>6, <2>3, <2>4, <2>6 DEF MountOf
    <2>8. QED
      BY <1>4, <2>3, <2>7 DEF CurrentName
  <1> DEFINE frame == [router |-> sub, idx |-> 1,
                       original |-> IF Current.path = Null THEN Null ELSE resource, base |-> base]
  <1>9. /\ Len(stack') = n + 1
        /\ \A i \in 1 .. n : stack'[i] = stack[i]
        /\ stack'[n + 1].router = sub
    <2>1. stack' = Append(stack, frame)
      BY DEF EnterSub
    <2>2. frame.router = sub
      OBVIOUS
    <2> HIDE DEF frame
    <2>3. QED
      BY <1>1, <2>1, <2>2
  <1>10. /\ \A name : IsInvoked(name) => IsInvoked(name)'
         /\ \A name : name = CurrentName => IsInvoked(name)'
         /\ \A m \in 1 .. Len(invoked') : m \in 1 .. Len(invoked) \/ m = Len(invoked) + 1
         /\ \A m \in 1 .. Len(invoked) : invoked'[m] = invoked[m]
         /\ invoked'[Len(invoked) + 1] = CurrentName
    BY <1>1, InvokedAppended
  <1> HIDE DEF frame, n, sub
  <1>11. n \in Nat \ {0} /\ n = Len(stack)
    BY <1>1 DEF n
  <1>12. \A i \in 1 .. n + 1 : (i \in 1 .. n /\ i # n + 1) \/ i = n + 1
    BY ONLY <1>11
  <1>13. StackedByMount'
    <2>1. stack'[1].router = Root
      <3>1. stack # <<>> /\ 1 \in 1 .. n
        BY <1>1, <1>11
      <3>2. QED
        BY <1>1, <1>9, <3>1 DEF StackedByMount
    <2>2. ASSUME NEW i \in 2 .. n + 1
          PROVE  /\ IsInvoked(<<stack[i - 1].router, stack[i - 1].idx>>)'
                 /\ (stack[i - 1].idx <= Len(table[stack[i - 1].router].routes))'
                 /\ (MountOf(i).sub = stack[i].router)'
      <3>1. i - 1 \in 1 .. n
        BY ONLY <1>11, i \in 2 .. n + 1
      <3>2. PICK f : f = stack[i - 1]
        OBVIOUS
      <3>3. stack'[i - 1] = f
        BY <1>9, <3>1, <3>2
      <3>4. PICK name : name = <<f.router, f.idx>>
        OBVIOUS
      <3>5. MountOf(i)' = MountOf(i) /\ MountOf(i) = table[f.router].routes[f.idx]
        BY <1>1, <3>2, <3>3 DEF MountOf
      <3>6. IsInvoked(name)' /\ f.idx <= Len(table[f.router].routes)
            /\ table[f.router].routes[f.idx].sub = stack'[i].router
        <4>1. CASE i = n + 1
          <5>1. f = Top
            BY <1>2, <1>11, <3>2, <4>1
          <5>2. name = CurrentName /\ table[f.router].routes[f.idx] = Current
            BY <3>4, <5>1 DEF CurrentName, Current, Routes
          <5>3. f.idx <= Len(table[f.router].routes)
            BY <1>3, <5>1 DEF Routes
          <5>4. QED
            BY <1>9, <1>10, <4>1, <5>2, <5>3 DEF sub
        <4>2. CASE i # n + 1
          <5>1. i \in 2 .. Len(stack) /\ i \in 1 .. n
            BY ONLY <1>11, <4>2, i \in 2 .. n + 1
          <5>2. /\ IsInvoked(name)
                /\ f.idx <= Len(table[f.router].routes)
                /\ MountOf(i).sub = stack[i].router
            BY <1>1, <3>2, <3>4, <5>1 DEF StackedByMount
          <5>3. QED
            BY <1>9, <1>10, <3>5, <5>1, <5>2
        <4>3. QED
          BY <4>1, <4>2
      <3>7. name = <<stack[i - 1].router, stack[i - 1].idx>>'
        BY <3>3, <3>4
      <3>8. IsInvoked(<<stack[i - 1].router, stack[i - 1].idx>>)'
        BY ONLY <3>6, <3>7 DEF IsInvoked
      <3>9. QED
        BY <1>1, <3>3, <3>5, <3>6, <3>8
    <2>3. QED
      BY <1>9, <2>1, <2>2 DEF StackedByMount
  <1>14. StackDistinct'
    <2>1. \A i, j \in 1 .. n : stack[i].router = stack[j].router => i = j
      BY <1>1, <1>11 DEF StackDistinct
    <2>2. \A i \in 1 .. n : stack[i].router # sub
      BY <1>8, <1>11
    <2>3. QED
      BY ONLY <1>9, <1>12, <2>1, <2>2, Zenon DEF StackDistinct
  <1>15. InvokedBehind'
    <2> SUFFICES ASSUME NEW i \in 1 .. n + 1, NEW m \in 1 .. Len(invoked'),
                        invoked'[m][1] = stack'[i].router
                 PROVE  /\ invoked'[m][2] <= stack'[i].idx
                        /\ i = n + 1 /\ phase' = "dispatch" => invoked'[m][2] # stack'[i].idx
      BY <1>9 DEF InvokedBehind
    <2>1. i \in 1 .. n /\ i # n + 1
      <3>1. invoked'[m][1] # sub
        BY <1>2, <1>7, <1>8, <1>10, <1>11
      <3>2. QED
        BY <1>9, <1>12, <3>1
    <2>2. stack'[i] = stack[i]
      BY <1>9, <2>1
    <2>3. CASE m \in 1 .. Len(invoked)
      BY <1>1, <1>10, <1>11, <2>1, <2>2, <2>3 DEF InvokedBehind
    <2>4. CASE m = Len(invoked) + 1
      <3>1. stack[i].router = stack[n].router /\ n \in 1 .. n
        BY <1>2, <1>10, <2>2, <2>4
      <3>2. i = n
        BY <1>1, <1>11, <2>1, <3>1 DEF StackDistinct
      <3>3. invoked'[m][2] = stack'[i].idx /\ stack'[i].idx \in Nat
        BY <1>2, <1>10, <2>2, <2>4, <3>2
      <3>4. QED
        BY <2>1, <3>3
    <2>5. QED
      BY <1>10, <2>3, <2>4
  <1>16. QED
    BY <1>13, <1>14, <1>15

\* A route that is invoked without a callback keeps the order.
LEMMA InvokedGrown ==
    ASSUME TypeOK, CallbacksInOrder, InvokedBehind, phase = "dispatch", Len(stack) > 0,
           invoked' = Append(invoked, CurrentName), callbacks' = callbacks
    PROVE  CallbacksInOrder'
  <1>1. ~IsInvoked(CurrentName)
    BY CurrentIsNew
  <1>2. /\ \A n \in 1 .. Len(invoked) : invoked'[n] = invoked[n]
        /\ invoked'[Len(invoked) + 1] = CurrentName
        /\ \A name : IsInvoked(name) => IsInvoked(name)'
        /\ \A n \in 1 .. Len(invoked') : n \in 1 .. Len(invoked) \/ n = Len(invoked) + 1
    BY InvokedAppended
  <1>3. ASSUME NEW a \in 1 .. Len(callbacks)
        PROVE  /\ IsInvoked(callbacks[a])'
               /\ \A n \in 1 .. Len(invoked') : invoked'[n] = callbacks[a] =>
                      n \in 1 .. Len(invoked) /\ invoked[n] = callbacks[a]
    <2>1. PICK name : name = callbacks[a]
      OBVIOUS
    <2>2. IsInvoked(name)
      BY <2>1 DEF CallbacksInOrder
    <2>3. name # CurrentName
      BY <1>1, <2>2
    <2>4. IsInvoked(name)' /\ name = callbacks[a]'
      BY <1>2, <2>1, <2>2
    <2>5. IsInvoked(callbacks[a])'
      BY ONLY <2>4 DEF IsInvoked
    <2>6. QED
      BY <1>2, <2>1, <2>3, <2>5
  <1>4. ASSUME NEW a \in 1 .. Len(callbacks), NEW b \in 1 .. Len(callbacks),
               NEW m \in 1 .. Len(invoked'), NEW n \in 1 .. Len(invoked'),
               a < b, invoked'[m] = callbacks[a], invoked'[n] = callbacks[b]
        PROVE  m < n
    <2>1. m \in 1 .. Len(invoked) /\ invoked[m] = callbacks[a]
      BY <1>3, <1>4, Zenon
    <2>2. n \in 1 .. Len(invoked) /\ invoked[n] = callbacks[b]
      BY <1>3, <1>4, Zenon
    <2>3. QED
      BY ONLY <1>4, <2>1, <2>2, CallbacksInOrder, Zenon DEF CallbacksInOrder
  <1>5. QED
    BY <1>3, <1>4 DEF CallbacksInOrder

\* A callback that is added is of the route invoked last.
LEMMA CallbacksKept ==
    ASSUME TypeOK, NestInv, phase = "dispatch", Len(stack) > 0, Invoke, ran' = ran
    PROVE  CallbacksInOrder' /\ RanFromLast'
  <1>1. CallbacksInOrder /\ RanFromLast /\ InvokedBehind /\ ran = <<>>
        /\ invoked' = Append(invoked, CurrentName)
    BY DEF NestInv, RanFromLast, Invoke
  <1>2. ~IsInvoked(CurrentName)
    BY <1>1, CurrentIsNew
  <1>3. /\ \A n \in 1 .. Len(invoked) : invoked'[n] = invoked[n]
        /\ invoked'[Len(invoked) + 1] = CurrentName
        /\ \A name : IsInvoked(name) => IsInvoked(name)'
        /\ \A name : name = CurrentName => IsInvoked(name)'
        /\ \A n \in 1 .. Len(invoked') : n \in 1 .. Len(invoked) \/ n = Len(invoked) + 1
        /\ CurrentName \in RouteNames
    BY <1>1, InvokedAppended
  <1>4. RanFromLast'
    BY <1>1 DEF RanFromLast
  \* An invoked callback is found where it was before.
  <1>5. ASSUME NEW a \in 1 .. Len(callbacks)
        PROVE  /\ callbacks[a] # CurrentName
               /\ \A n \in 1 .. Len(invoked') : invoked'[n] = callbacks[a] =>
                      n \in 1 .. Len(invoked) /\ invoked[n] = callbacks[a]
    <2>1. IsInvoked(callbacks[a])
      BY <1>1 DEF CallbacksInOrder
    <2>2. callbacks[a] # CurrentName
      BY <1>2, <2>1
    <2>3. QED
      BY <1>3, <2>2
  <1>6. CASE callbacks' = callbacks
    BY <1>1, <1>4, <1>6, InvokedGrown
  <1>7. CASE callbacks' = Append(callbacks, CurrentName)
    <2>1. PICK last \in Nat \ {0} : last = Len(callbacks) + 1
      BY FrameTypes
    <2>2. /\ Len(callbacks') = last
          /\ \A a \in 1 .. Len(callbacks) : callbacks'[a] = callbacks[a]
          /\ callbacks'[last] = CurrentName
      BY <1>3, <1>7, <2>1, SeqAppend DEF TypeOK
    <2>3. \A a \in 1 .. last : a \in 1 .. Len(callbacks) \/ a = last
      BY <2>1, FrameTypes
    <2>4. ASSUME NEW a \in 1 .. last PROVE IsInvoked(callbacks[a])'
      <3>1. PICK name : name = callbacks'[a]
        OBVIOUS
      <3>2. IsInvoked(name)'
        BY <1>1, <1>3, <2>2, <2>3, <3>1 DEF CallbacksInOrder
      <3>3. QED
        BY ONLY <3>1, <3>2 DEF IsInvoked
    <2>5. ASSUME NEW a \in 1 .. last, NEW b \in 1 .. last,
                 NEW m \in 1 .. Len(invoked'), NEW n \in 1 .. Len(invoked'),
                 a < b, invoked'[m] = callbacks'[a], invoked'[n] = callbacks'[b]
          PROVE  m < n
      <3>1. a \in 1 .. Len(callbacks)
        BY ONLY <2>1, <2>3, <2>5
      <3>2. m \in 1 .. Len(invoked) /\ invoked[m] = callbacks[a]
        BY <1>5, <2>2, <2>5, <3>1
      <3>3. CASE b \in 1 .. Len(callbacks)
        <4>1. n \in 1 .. Len(invoked) /\ invoked[n] = callbacks[b]
          BY <1>5, <2>2, <2>5, <3>3
        <4>2. QED
          BY <1>1, <2>5, <3>1, <3>2, <3>3, <4>1 DEF CallbacksInOrder
      <3>4. CASE b = last
        <4>1. invoked'[n] = CurrentName
          BY <2>2, <2>5, <3>4
        <4>2. n \notin 1 .. Len(invoked)
          BY <1>2, <1>3, <4>1 DEF IsInvoked
        <4>3. n = Len(invoked) + 1 /\ Len(invoked) \in Nat
          BY <1>3, <4>2, FrameTypes
        <4>4. QED
          BY ONLY <3>2, <4>3
      <3>5. QED
        BY <2>3, <3>3, <3>4
    <2>6. QED
      BY <1>4, <2>2, <2>4, <2>5 DEF CallbacksInOrder
  <1>8. QED
    BY <1>6, <1>7 DEF Invoke, MayAddCallback, AddCallback

\* Nothing of what the order is about changes.
LEMMA CallbacksSame ==
    ASSUME CallbacksInOrder, RanFromLast, callbacks' = callbacks, ran' = ran, invoked' = invoked,
           phase' \in {"dispatch", "unwind"} => phase \in {"dispatch", "unwind"}
    PROVE  CallbacksInOrder' /\ RanFromLast'
  BY DEF CallbacksInOrder, RanFromLast, IsInvoked

LEMMA InvokedSame ==
    ASSUME InvokedOnce, InvokedExist, EnteredByMount, invoked' = invoked, table' = table
    PROVE  /\ InvokedOnce' /\ InvokedExist' /\ EnteredByMount'
           /\ \A name : IsInvoked(name) => IsInvoked(name)'
  BY DEF InvokedOnce, InvokedExist, EnteredByMount, InvokedRoute, IsInvoked

LEMMA NestNext ==
    ASSUME MountedOnce, TInv, NestInv, [Next]_vars
    PROVE  NestInv'
  <1>0. /\ TypeOK /\ TInv' /\ TypeOK' /\ Active /\ Active' /\ RanBound
        /\ Len(stack) \in Nat /\ stack \in Seq(Frame) /\ stack' \in Seq(Frame)
        /\ InvokedOnce /\ InvokedExist /\ EnteredByMount /\ StackedByMount /\ StackDistinct
        /\ InvokedBehind /\ CallbacksInOrder /\ RanFromLast
    BY TypeNext DEF TInv, TypeOK, NestInv
  <1> USE DEF routeVars, stackVars, requestVars
  <1>1. ASSUME NEW r \in Requests, Parse(r) PROVE NestInv'
    <2>1. /\ invoked' = <<>> /\ callbacks' = <<>> /\ ran' = <<>> /\ Len(<<>>) = 0
          /\ \/ stack' = <<[router |-> Root, idx |-> 1, original |-> r.resource, base |-> <<>>]>>
             \/ stack' = <<>>
      BY <1>1 DEF Parse, NewCallbacks
    <2>2. InvokedOnce' /\ InvokedExist' /\ EnteredByMount' /\ InvokedBehind'
      BY <2>1 DEF InvokedOnce, InvokedExist, EnteredByMount, InvokedBehind
    <2>3. CallbacksInOrder' /\ RanFromLast'
      BY <2>1 DEF CallbacksInOrder, RanFromLast
    <2>4. StackedByMount' /\ StackDistinct'
      BY <2>1 DEF StackedByMount, StackDistinct
    <2>5. QED
      BY <2>2, <2>3, <2>4 DEF NestInv
  <1>2. CASE SkipRoute
    <2>1. /\ Len(stack) > 0 /\ stack' = Advanced(stack)
          /\ invoked' = invoked /\ table' = table /\ callbacks' = callbacks /\ ran' = ran
          /\ phase' = phase
      BY <1>0, <1>2 DEF SkipRoute, AtRoute, Active
    <2>2. PICK n \in Nat \ {0} : n = Len(stack) /\ n \in 1 .. n
      BY <1>0, <2>1
    <2>3. /\ Len(stack') = n
          /\ \A i \in 1 .. n - 1 : stack'[i] = stack[i]
          /\ stack'[n].router = stack[n].router /\ stack'[n].idx = stack[n].idx + 1
      BY <1>0, <2>1, <2>2, AdvancedKeeps
    <2>4. InvokedOnce' /\ InvokedExist' /\ EnteredByMount'
          /\ \A name : IsInvoked(name) => IsInvoked(name)'
      BY <1>0, <2>1, InvokedSame
    <2>5. StackedByMount' /\ StackDistinct'
      BY <1>0, <2>1, <2>2, <2>3, <2>4, StackKept
    <2>6. InvokedBehind'
      BY <1>0, <2>1, <2>2, <2>3, BehindKept
    <2>7. CallbacksInOrder' /\ RanFromLast'
      BY <1>0, <2>1, CallbacksSame
    <2>8. QED
      BY <2>4, <2>5, <2>6, <2>7 DEF NestInv
  <1>3. CASE RouteContinues \/ RouteResponds
    <2>1. /\ AtRoute /\ phase = "dispatch" /\ Len(stack) > 0 /\ Invoke
          /\ invoked' = Append(invoked, CurrentName) /\ table' = table /\ ran' = ran
          /\ \/ stack' = Advanced(stack)
             \/ stack' = stack /\ phase' # "dispatch"
      BY <1>0, <1>3 DEF RouteContinues, RouteResponds, AtRoute, Active, Invoke
    <2>2. PICK n \in Nat \ {0} : n = Len(stack) /\ n \in 1 .. n
      BY <1>0, <2>1
    <2>3. /\ Len(stack') = n
          /\ \A i \in 1 .. n - 1 : stack'[i] = stack[i]
          /\ stack'[n].router = stack[n].router
          /\ \/ stack'[n].idx = stack[n].idx + 1
             \/ stack'[n].idx = stack[n].idx /\ phase' # "dispatch"
      BY <1>0, <2>1, <2>2, AdvancedKeeps
    <2>4. InvokedOnce' /\ InvokedExist' /\ EnteredByMount'
      BY <1>0, <2>1, InvocationKeeps
    <2>5. \A name : IsInvoked(name) => IsInvoked(name)'
      BY <1>0, <2>1, InvokedAppended
    <2>6. StackedByMount' /\ StackDistinct'
      BY <1>0, <2>1, <2>2, <2>3, <2>5, StackKept
    <2>7. InvokedBehind'
      BY <1>0, <2>1, <2>2, <2>3, BehindKept
    <2>8. CallbacksInOrder' /\ RanFromLast'
      BY <1>0, <2>1, CallbacksKept
    <2>9. QED
      BY <2>4, <2>6, <2>7, <2>8 DEF NestInv
  <1>4. CASE EnterSub
    <2>1. /\ AtRoute /\ phase = "dispatch" /\ phase' = "dispatch" /\ Len(stack) > 0
          /\ invoked' = Append(invoked, CurrentName) /\ table' = table /\ ran' = ran
          /\ callbacks' = callbacks
      BY <1>0, <1>4 DEF EnterSub, AtRoute, Active
    <2>2. InvokedOnce' /\ InvokedExist' /\ EnteredByMount'
      BY <1>0, <2>1, InvocationKeeps
    <2>3. StackedByMount' /\ StackDistinct' /\ InvokedBehind'
      BY <1>0, <1>4, NestEnter
    <2>4. RanFromLast'
      BY <1>0, <2>1 DEF RanFromLast
    <2>5. CallbacksInOrder'
      BY <1>0, <2>1, InvokedGrown
    <2>6. QED
      BY <2>2, <2>3, <2>4, <2>5 DEF NestInv
  <1>5. CASE LeaveSub \/ ReturnDone
    <2>1. /\ Len(stack) > 1 /\ phase' = phase /\ phase \in {"dispatch", "unwind"}
          /\ invoked' = invoked /\ table' = table /\ callbacks' = callbacks /\ ran' = ran
          /\ \/ stack' = Advanced(Pop)
             \/ stack' = Pop /\ phase' # "dispatch"
      BY <1>5 DEF LeaveSub, ReturnDone
    <2>2. PICK n \in Nat \ {0} : n \in 1 .. Len(stack) /\ n + 1 = Len(stack) /\ n = Len(stack) - 1
      BY <1>0, <2>1, OneLess
    <2>3. Pop \in Seq(Frame) /\ Len(Pop) = n /\ \A i \in 1 .. n : Pop[i] = stack[i]
      <3>1. /\ Pop \in Seq(Frame) /\ Len(Pop) = Len(stack) - 1
            /\ \A i \in 1 .. Len(stack) - 1 : Pop[i] = stack[i]
        BY <1>0, <2>1, PopType
      <3>2. QED
        BY <2>2, <3>1
    <2>4. /\ Len(Advanced(Pop)) = n
          /\ \A i \in 1 .. n - 1 : Advanced(Pop)[i] = Pop[i]
          /\ Advanced(Pop)[n].router = Pop[n].router /\ Advanced(Pop)[n].idx = Pop[n].idx + 1
      BY <2>2, <2>3, AdvancedKeeps
    <2>5. n \in 1 .. n /\ \A i \in 1 .. n - 1 : i \in 1 .. n
      BY ONLY n \in Nat \ {0}
    <2>6. /\ Len(stack') = n
          /\ \A i \in 1 .. n - 1 : stack'[i] = stack[i]
          /\ stack'[n].router = stack[n].router
          /\ \/ stack'[n].idx = stack[n].idx + 1
             \/ stack'[n].idx = stack[n].idx /\ phase' # "dispatch"
      <3>1. CASE stack' = Advanced(Pop)
        BY ONLY <2>3, <2>4, <2>5, <3>1
      <3>2. CASE stack' = Pop /\ phase' # "dispatch"
        BY ONLY <2>3, <2>5, <3>2
      <3>3. QED
        BY <2>1, <3>1, <3>2
    <2>7. InvokedOnce' /\ InvokedExist' /\ EnteredByMount'
          /\ \A name : IsInvoked(name) => IsInvoked(name)'
      BY <1>0, <2>1, InvokedSame
    <2>8. StackedByMount' /\ StackDistinct'
      BY <1>0, <2>1, <2>2, <2>6, <2>7, StackKept
    <2>9. InvokedBehind'
      BY <1>0, <2>1, <2>2, <2>6, BehindKept
    <2>10. CallbacksInOrder' /\ RanFromLast'
      BY <1>0, <2>1, CallbacksSame
    <2>11. QED
      BY <2>7, <2>8, <2>9, <2>10 DEF NestInv
  <1>6. CASE StopServing \/ LeaveRoot \/ Finish
    <2>1. /\ invoked' = invoked /\ table' = table /\ callbacks' = callbacks /\ ran' = ran
          /\ phase' \notin {"dispatch", "unwind"} /\ stack' = <<>>
      <3>1. Len(stack') = 0 => stack' = <<>>
        BY <1>0
      <3>2. /\ invoked' = invoked /\ table' = table /\ callbacks' = callbacks /\ ran' = ran
            /\ phase' \notin {"dispatch", "unwind"}
        BY <1>6 DEF StopServing, LeaveRoot, Finish
      <3>3. QED
        BY <1>0, <3>1, <3>2 DEF Active
    <2>2. InvokedOnce' /\ InvokedExist' /\ EnteredByMount'
      BY <1>0, <2>1, InvokedSame
    <2>3. CallbacksInOrder' /\ RanFromLast'
      BY <1>0, <2>1, CallbacksSame
    <2>4. StackedByMount' /\ StackDistinct' /\ InvokedBehind'
      BY <2>1 DEF StackedByMount, StackDistinct, InvokedBehind
    <2>5. QED
      BY <2>2, <2>3, <2>4 DEF NestInv
  <1>7. CASE RunCallback
    <2>1. /\ invoked' = invoked /\ table' = table /\ callbacks' = callbacks /\ stack' = stack
          /\ phase = "callbacks" /\ phase' = phase
          /\ ran' = Append(ran, callbacks[Len(callbacks) - Len(ran)])
      BY <1>7 DEF RunCallback
    <2>2. InvokedOnce' /\ InvokedExist' /\ EnteredByMount'
      BY <1>0, <2>1, InvokedSame
    <2>3. StackedByMount' /\ StackDistinct' /\ InvokedBehind'
      BY <1>0, <2>1 DEF StackedByMount, StackDistinct, InvokedBehind, IsInvoked, MountOf
    <2>4. CallbacksInOrder'
      BY <1>0, <2>1 DEF CallbacksInOrder, IsInvoked
    <2>5. RanFromLast'
      <3>1. Len(ran) \in Nat /\ Len(callbacks) \in Nat
        BY <1>0, FrameTypes
      <3>2. /\ Len(ran') = Len(ran) + 1
            /\ \A i \in 1 .. Len(ran) : ran'[i] = ran[i]
            /\ ran'[Len(ran) + 1] = callbacks[Len(callbacks) - Len(ran)]
        BY <1>0, <2>1 DEF TypeOK
      <3>3. \A i \in 1 .. Len(ran) + 1 : i \in 1 .. Len(ran) \/ i = Len(ran) + 1
        BY ONLY <3>1
      <3>4. \A i \in 1 .. Len(ran) : ran[i] = callbacks[Len(callbacks) + 1 - i]
        BY <1>0 DEF RanFromLast
      <3>5. \A i \in 1 .. Len(ran) + 1 : ran'[i] = callbacks[Len(callbacks) + 1 - i]
        <4> SUFFICES ASSUME NEW i \in 1 .. Len(ran) + 1
                     PROVE  ran'[i] = callbacks[Len(callbacks) + 1 - i]
          OBVIOUS
        <4>1. CASE i \in 1 .. Len(ran)
          BY ONLY <3>2, <3>4, <4>1
        <4>2. CASE i = Len(ran) + 1
          <5>1. Len(callbacks) + 1 - i = Len(callbacks) - Len(ran)
            BY ONLY <3>1, <4>2
          <5>2. ran'[i] = callbacks[Len(callbacks) - Len(ran)]
            BY ONLY <3>2, <4>2
          <5>3. QED
            BY ONLY <5>1, <5>2
        <4>3. QED
          BY <3>3, <4>1, <4>2
      <3>6. QED
        BY <2>1, <3>2, <3>5 DEF RanFromLast
    <2>6. QED
      BY <2>2, <2>3, <2>4, <2>5 DEF NestInv
  <1>8. CASE UNCHANGED vars
    <2>1. InvokedOnce' /\ InvokedExist' /\ EnteredByMount'
      BY <1>0, <1>8, InvokedSame DEF vars
    <2>2. CallbacksInOrder' /\ RanFromLast'
      BY <1>0, <1>8, CallbacksSame DEF vars
    <2>3. StackedByMount' /\ StackDistinct' /\ InvokedBehind'
      BY <1>0, <1>8 DEF vars, StackedByMount, StackDistinct, InvokedBehind, IsInvoked, MountOf
    <2>4. QED
      BY <2>1, <2>2, <2>3 DEF NestInv
  <1>9. QED
    BY <1>1, <1>2, <1>3, <1>4, <1>5, <1>6, <1>7, <1>8 DEF Next, Dispatch

\* The order of the callbacks that ran is that of their invocation, reversed.
LEMMA NestOrder ==
    ASSUME TInv, NestInv
    PROVE  CallbacksNest
  <1>1. Len(ran) \in Nat /\ Len(callbacks) \in Nat /\ Len(ran) <= Len(callbacks)
    BY FrameTypes DEF TInv, RanBound
  <1> SUFFICES ASSUME NEW i \in 1 .. Len(ran), NEW j \in 1 .. Len(ran), i < j,
                      NEW m \in 1 .. Len(invoked), NEW n \in 1 .. Len(invoked),
                      invoked[m] = ran[i], invoked[n] = ran[j]
               PROVE  n < m
    BY DEF CallbacksNest
  <1>2. PICK a, b \in 1 .. Len(callbacks) :
            a < b /\ a = Len(callbacks) + 1 - j /\ b = Len(callbacks) + 1 - i
    <2>1. /\ Len(callbacks) + 1 - j \in 1 .. Len(callbacks)
          /\ Len(callbacks) + 1 - i \in 1 .. Len(callbacks)
          /\ Len(callbacks) + 1 - j < Len(callbacks) + 1 - i
      BY <1>1
    <2>2. QED
      BY <2>1
  <1>3. ran[i] = callbacks[b] /\ ran[j] = callbacks[a]
    BY <1>2 DEF NestInv, RanFromLast
  <1>4. QED
    BY <1>2, <1>3 DEF NestInv, CallbacksInOrder

LEMMA NestInvariance ==
    ASSUME MountedOnce
    PROVE  Spec => []NestInv
  <1>1. Init => NestInv
    BY DEF Init, NestInv, InvokedOnce, InvokedExist, EnteredByMount, StackedByMount, StackDistinct,
       InvokedBehind, CallbacksInOrder, RanFromLast
  <1>2. TInv /\ NestInv /\ [Next]_vars => NestInv'
    BY NestNext
  <1>3. QED
    BY <1>1, <1>2, TypeInit, TypeNext, PTL DEF Spec

\* No route serves a request twice, however the routers are nested
\* (hs_router.c:359-391, 500-537), if no router is mounted twice.
THEOREM InvokedOnceHolds ==
    ASSUME MountedOnce
    PROVE  Spec => []InvokedOnce
  <1>1. NestInv => InvokedOnce
    BY DEF NestInv
  <1>2. QED
    BY <1>1, NestInvariance, PTL

\* "run in the reverse order (first route callback is called last)"
\* (hs_router.c:560): of two routes whatever router they are in, the one
\* that was invoked first has its callback run last, if no router is mounted
\* twice.
THEOREM CallbacksNestHolds ==
    ASSUME MountedOnce
    PROVE  Spec => []CallbacksNest
  <1>1. TInv /\ NestInv => CallbacksNest
    BY NestOrder
  <1>2. QED
    BY <1>1, NestInvariance, TypeInit, TypeNext, PTL DEF Spec

-----------------------------------------------------------------------------
\* The order of dispatch.

\* The most routers behind each other.
Depth == Cardinality(Routers)

\* The lists of all routers, for every resource.
ListsOf == [Routers -> [Seq(Chars) -> Seq(RouteNames)]]

\* What the routes of a router stand for, one by one.
Entries(below, router, res) ==
    [i \in 1 .. Len(table[router].routes) |-> Listed(below, router, i, res)]

\* Routers are finitely many.
LEMMA DepthType == Depth \in Nat
  BY RoutersAssumption, FS_CardinalityType DEF Depth

\* A resource that a route is for is seen behind it as another resource.
LEMMA SeenBehindType ==
    ASSUME NEW route \in Route, NEW res \in Seq(Chars)
    PROVE  SeenBehind(route, res) \in Seq(Chars)
  <1>1. route.path \in Seq(Chars) \cup {Null}
    BY DEF Route
  <1>2. CASE route.path = Null
    BY <1>2 DEF SeenBehind
  <1>3. CASE route.path # Null
    BY <1>1, <1>3, RemovePrefixType DEF SeenBehind
  <1>4. QED
    BY <1>2, <1>3

\* A route stands for routes.
LEMMA ListedType ==
    ASSUME table \in Table, NEW below \in ListsOf, NEW router \in Routers,
           NEW i \in 1 .. Len(table[router].routes), NEW res \in Seq(Chars)
    PROVE  Listed(below, router, i, res) \in Seq(RouteNames)
  <1> DEFINE route == table[router].routes[i]
             seen == SeenBehind(route, res)
             inner == IF route.sub = NoRouter THEN <<>> ELSE below[route.sub][seen]
  <1>1. table[router].routes \in Seq(Route)
    BY DEF Table
  <1>2. route \in Route
    BY <1>1, ElementOfSeq
  <1>3. route.sub \in Routers \cup {NoRouter} /\ seen \in Seq(Chars)
    BY <1>2, SeenBehindType DEF Route
  <1>4. inner \in Seq(RouteNames)
    <2>1. CASE route.sub = NoRouter
      BY <2>1, EmptySeq
    <2>2. CASE route.sub # NoRouter
      <3>1. route.sub \in Routers
        BY <1>3, <2>2
      <3>2. below[route.sub][seen] \in Seq(RouteNames)
        BY <1>3, <3>1, Zenon DEF ListsOf
      <3>3. QED
        BY <2>2, <3>2, Zenon
    <2>3. QED
      BY <2>1, <2>2
  <1>5. <<router, i>> \in RouteNames
    <2>1. i \in Nat \ {0}
      BY <1>1
    <2>2. QED
      BY <2>1 DEF RouteNames
  <1>6. Listed(below, router, i, res) = IF ~Invokes(route, res) THEN <<>> ELSE <<<<router, i>>>> \o inner
    BY Zenon DEF Listed
  <1> HIDE DEF inner
  <1>7. <<<<router, i>>>> \o inner \in Seq(RouteNames) /\ <<>> \in Seq(RouteNames)
    BY <1>4, <1>5
  <1>8. QED
    BY <1>6, <1>7, Zenon

\* The routes of a router stand for routes, each for a list of its own.
LEMMA EntriesType ==
    ASSUME table \in Table, NEW below \in ListsOf, NEW router \in Routers, NEW res \in Seq(Chars)
    PROVE  /\ Entries(below, router, res) \in Seq(Seq(RouteNames))
           /\ Len(Entries(below, router, res)) = Len(table[router].routes)
           /\ FlattenSeq(Entries(below, router, res)) \in Seq(RouteNames)
  <1>1. PICK n \in Nat : n = Len(table[router].routes)
    <2>1. table[router].routes \in Seq(Route)
      BY DEF Table
    <2>2. QED
      BY <2>1
  <1>2. PICK T : T = Seq(RouteNames)
    OBVIOUS
  <1>3. PICK s : s = Entries(below, router, res)
    OBVIOUS
  <1>4. s = [i \in 1 .. n |-> Listed(below, router, i, res)]
    BY <1>1, <1>3, Zenon DEF Entries
  <1>5. \A i \in 1 .. n : Listed(below, router, i, res) \in T
    BY <1>1, <1>2, ListedType, Zenon
  <1>6. s \in Seq(T) /\ Len(s) = n
    BY ONLY <1>4, <1>5
  <1>7. FlattenSeq(s) \in Seq(RouteNames)
    <2>1. s \in Seq(Seq(RouteNames))
      BY <1>2, <1>6, Zenon
    <2>2. PICK rest : IsRest(rest, RouteNames, s)
      BY <2>1, FlattenRests, Zenon
    <2>3. 0 \in 0 .. n
      OBVIOUS
    <2>4. QED
      BY <1>6, <2>2, <2>3, Zenon DEF IsRest
  <1>8. QED
    BY <1>1, <1>2, <1>3, <1>6, <1>7, Zenon

\* Flat, unfolded.
FlatUnfolded ==
    /\ \A d \in 0 .. Depth : Flat[d] \in ListsOf
    /\ \A d \in 1 .. Depth, router \in Routers, res \in Seq(Chars) :
          Flat[d][router][res] = FlattenSeq(Entries(Flat[d - 1], router, res))

\* The recursive function is what its equation says: it is built level by level.
LEMMA FlatDef == TypeOK => FlatUnfolded
  <1> SUFFICES ASSUME table \in Table PROVE FlatUnfolded
    BY TablesAssumption DEF TypeOK
  <1> DEFINE First == [router \in Routers |-> [res \in Seq(Chars) |-> <<>>]]
             NextOf(below) == [router \in Routers |-> [res \in Seq(Chars) |->
                                  FlattenSeq(Entries(below, router, res))]]
             Level(f, d) == [router \in Routers |-> [res \in Seq(Chars) |->
                IF d = 0 THEN <<>> ELSE FlattenSeq(Entries(f[d - 1], router, res))]]
  <1>1. First \in ListsOf
    <2>1. <<>> \in Seq(RouteNames)
      BY EmptySeq
    <2>2. QED
      BY <2>1 DEF ListsOf
  <1>2. \A below \in ListsOf : NextOf(below) \in ListsOf
    <2> SUFFICES ASSUME NEW below \in ListsOf PROVE NextOf(below) \in ListsOf
      OBVIOUS
    <2>1. \A router \in Routers, res \in Seq(Chars) :
             FlattenSeq(Entries(below, router, res)) \in Seq(RouteNames)
      BY EntriesType, Zenon
    <2>2. QED
      BY <2>1, Zenon DEF ListsOf
  <1>3. PICK step : step = [d \in 1 .. Depth |-> [below \in ListsOf |-> NextOf(below)]]
    OBVIOUS
  <1>4. step \in [1 .. Depth -> [ListsOf -> ListsOf]]
    BY <1>2, <1>3, Zenon
  <1> HIDE DEF First, NextOf
  <1>5. PICK f : Iterates(f, ListsOf, First, Depth, step)
    BY <1>1, <1>4, DepthType, IterationExists, Zenon
  <1>6. /\ f \in [0 .. Depth -> ListsOf] /\ f[0] = First
        /\ \A d \in 1 .. Depth : f[d] = NextOf(f[d - 1])
    <2>1. /\ f \in [0 .. Depth -> ListsOf] /\ f[0] = First
          /\ \A d \in 1 .. Depth : f[d] = step[d][f[d - 1]]
      BY <1>5, Zenon DEF Iterates
    <2>2. \A d \in 1 .. Depth : d - 1 \in 0 .. Depth
      BY DepthType
    <2>3. \A d \in 1 .. Depth, below \in ListsOf : step[d][below] = NextOf(below)
      BY <1>3, Zenon
    <2>4. QED
      BY <2>1, <2>2, <2>3, Zenon
  <1>7. \A d \in 0 .. Depth : f[d] = Level(f, d)
    <2> SUFFICES ASSUME NEW d \in 0 .. Depth PROVE f[d] = Level(f, d)
      OBVIOUS
    <2>1. CASE d = 0
      BY <1>6, <2>1, Zenon DEF First
    <2>2. CASE d # 0
      <3>1. d \in 1 .. Depth
        BY <2>2, DepthType
      <3>2. QED
        BY <1>6, <2>2, <3>1, Zenon DEF NextOf
    <2>3. QED
      BY <2>1, <2>2
  <1> HIDE DEF Level
  <1>8. f = [d \in 0 .. Depth |-> Level(f, d)]
    BY <1>6, <1>7, Zenon
  <1>9. Flat = CHOOSE g : g = [d \in 0 .. Depth |-> Level(g, d)]
    BY DEF Flat, Level, Entries, Depth
  <1>10. PICK g : g = Flat /\ g = [d \in 0 .. Depth |-> Level(g, d)]
    BY <1>8, <1>9, Zenon
  <1>11. \A d \in 0 .. Depth : g[d] = Level(g, d)
    BY <1>10, Zenon
  <1>12. g[0] = First
    <2>1. 0 \in 0 .. Depth
      BY DepthType
    <2>2. QED
      BY <1>11, <2>1, Zenon DEF Level, First
  <1>13. \A d \in 1 .. Depth : g[d] = NextOf(g[d - 1])
    <2> SUFFICES ASSUME NEW d \in 1 .. Depth PROVE g[d] = NextOf(g[d - 1])
      OBVIOUS
    <2>1. d \in 0 .. Depth /\ d # 0
      BY DepthType
    <2>2. QED
      BY <1>11, <2>1, Zenon DEF Level, NextOf
  <1>14. \A d \in 0 .. Depth : g[d] \in ListsOf
    <2> DEFINE Bad == {d \in Nat : d <= Depth /\ g[d] \notin ListsOf}
    <2>1. SUFFICES ASSUME Bad # {} PROVE FALSE
      BY DepthType
    <2>2. PICK d \in Bad : \A k \in Bad : d <= k
      <3>1. Bad \in SUBSET Nat
        OBVIOUS
      <3>2. QED
        BY ONLY <2>1, <3>1, HasMin
    <2>3. d \in 1 .. Depth /\ d - 1 \in Nat /\ d - 1 <= Depth /\ d - 1 \notin Bad
      BY <1>1, <1>12, <2>2, DepthType
    <2>4. g[d - 1] \in ListsOf
      BY <2>3
    <2>5. g[d] \in ListsOf
      BY <1>2, <1>13, <2>3, <2>4, Zenon
    <2>6. QED
      BY <2>2, <2>5
  <1>15. ASSUME NEW d \in 1 .. Depth, NEW router \in Routers, NEW res \in Seq(Chars)
         PROVE  g[d][router][res] = FlattenSeq(Entries(g[d - 1], router, res))
    <2>1. g[d] = [r \in Routers |-> [x \in Seq(Chars) |->
                     FlattenSeq(Entries(g[d - 1], r, x))]]
      BY <1>13, Zenon DEF NextOf
    <2>2. g[d][router] = [x \in Seq(Chars) |-> FlattenSeq(Entries(g[d - 1], router, x))]
      BY <2>1, Zenon
    <2>3. QED
      BY <2>2, Zenon
  <1>16. QED
    BY <1>10, <1>14, <1>15, Zenon DEF FlatUnfolded


\* The flat list of the server's own router.
FlatList == Flat[Depth][Root][request.resource]

\* What the routes of frame i's router stand for, for the resource they see.
EntriesAt(i) == Entries(Flat[Depth - i], stack[i].router, ResourceAt(i))

\* What they still stand for, after so many of them.
RestAt(i) == CHOOSE rest : IsRest(rest, RouteNames, EntriesAt(i))

\* The routes that are left once the router of frame i returns.
AreTails(tails) ==
    /\ \A i \in 1 .. Len(stack) : tails[i] \in Seq(RouteNames)
    /\ tails[1] = <<>>
    /\ \A i \in 2 .. Len(stack) : tails[i] = RestAt(i - 1)[stack[i - 1].idx] \o tails[i - 1]

LeftToInvoke(tails) == RestAt(Len(stack))[Top.idx - 1] \o tails[Len(stack)]


\* The loop of the top router is within its routes.
LoopInv ==
    phase = "dispatch" => request \in Requests /\ ~closed /\ Top.idx <= Len(Routes) + 1

\* What was invoked and what is left is the flat list.
Left == \E tails : AreTails(tails) /\ FlatList = invoked \o LeftToInvoke(tails)
Begun == \E more \in Seq(RouteNames) : FlatList = invoked \o more

OrderInv ==
    /\ LoopInv
    /\ phase = "dispatch" => Left
    /\ phase = "unwind" => Begun
    /\ phase = "callbacks" /\ Rooted(request.resource) => Begun /\ (~served => FlatList = invoked)

\* The flat list depends on the table and on the request only.
LEMMA FlatKept ==
    ASSUME table' = table, request' = request
    PROVE  Flat' = Flat /\ FlatList' = FlatList
  <1>1. Flat' = Flat
    BY SMT DEF Flat, Listed, Invokes, SeenBehind
  <1>2. QED
    BY <1>1 DEF FlatList, Depth

\* A frame whose router and resource stay stands for the same routes.
LEMMA RestKept ==
    ASSUME table' = table, request' = request, NEW i,
           stack'[i].router = stack[i].router, ResourceAt(i)' = ResourceAt(i)
    PROVE  RestAt(i)' = RestAt(i)
  <1>1. Flat' = Flat
    BY FlatKept
  <1>2. EntriesAt(i)' = EntriesAt(i)
    BY <1>1, SMT DEF EntriesAt, Entries, Listed, Invokes, SeenBehind, Depth
  <1>3. QED
    BY <1>2, Zenon DEF RestAt

\* No more routers are active than there are, if each is active once.
LEMMA StackBound ==
    ASSUME TypeOK, StackDistinct
    PROVE  Len(stack) <= Depth
  <1>1. PICK n \in Nat : n = Len(stack)
    BY FrameTypes
  <1>2. Cardinality(1 .. n) = n /\ IsFiniteSet(1 .. n)
    BY FS_Interval
  <1> DEFINE f == [i \in 1 .. n |-> stack[i].router]
  <1>3. f \in [1 .. n -> Routers]
    BY <1>1, FrameTypes
  <1>4. \A i, j \in 1 .. n : f[i] = f[j] => i = j
    BY <1>1 DEF StackDistinct
  <1> HIDE DEF f
  <1>5. ~(Cardinality(Routers) < Cardinality(1 .. n))
    <2>1. IsFiniteSet(Routers) /\ IsFiniteSet(1 .. n)
      BY <1>2, RoutersAssumption
    <2>2. Cardinality(Routers) < Cardinality(1 .. n) => \E x, y \in 1 .. n : x # y /\ f[x] = f[y]
      BY ONLY <1>3, <2>1, FS_PigeonHole
    <2>3. QED
      BY <1>4, <2>2, Zenon
  <1>6. QED
    BY <1>1, <1>2, <1>5, DepthType DEF Depth

LevelsGood ==
    phase = "dispatch" =>
        /\ Len(stack) \in Nat \ {0} /\ Len(stack) <= Depth
        /\ \A i \in 1 .. Len(stack) :
              /\ ResourceAt(i) \in Seq(Chars)
              /\ EntriesAt(i) \in Seq(Seq(RouteNames))
              /\ Len(EntriesAt(i)) = Len(table[stack[i].router].routes)
              /\ IsRest(RestAt(i), RouteNames, EntriesAt(i))

\* Every active router sees a resource.
LEMMA ResourcesSeen ==
    ASSUME MountsHavePaths, TInv, SeenBelowMounts, NestInv, LoopInv, phase = "dispatch"
    PROVE  \A i \in 1 .. Len(stack) : ResourceAt(i) \in Seq(Chars)
  <1>1. TypeOK /\ Len(stack) > 0 /\ Len(stack) \in Nat /\ stack # <<>> /\ StackedByMount
    BY FrameTypes DEF TInv, Active, NestInv
  <1> DEFINE Bad == {i \in Nat : i \in 1 .. Len(stack) /\ ResourceAt(i) \notin Seq(Chars)}
  <1>2. SUFFICES ASSUME Bad # {} PROVE FALSE
    OBVIOUS
  <1>3. PICK i \in Bad : \A j \in Bad : i <= j
    <2>1. Bad \in SUBSET Nat
      OBVIOUS
    <2>2. QED
      BY ONLY <1>2, <2>1, HasMin
  <1>4. i # 1
    <2>1. ResourceAt(1) = request.resource
      BY <1>1 DEF SeenBelowMounts
    <2>2. request.resource \in Seq(Chars)
      BY RequestsAssumption DEF LoopInv, Request
    <2>3. QED
      BY <2>1, <2>2
  <1>5. i \in 2 .. Len(stack) /\ i - 1 \in 1 .. Len(stack) /\ i - 1 \in Nat /\ i - 1 \notin Bad
    BY <1>1, <1>3, <1>4
  <1>6. ResourceAt(i - 1) \in Seq(Chars)
    BY <1>5
  <1>7. MountOf(i) \in Route /\ MountOf(i).path # Null
    <2>1. stack[i - 1].router \in Routers /\ stack[i - 1].idx \in Nat \ {0}
          /\ stack[i - 1].idx <= Len(table[stack[i - 1].router].routes)
          /\ MountOf(i).sub = stack[i].router /\ stack[i].router \in Routers
      BY <1>1, <1>3, <1>5, FrameTypes DEF StackedByMount
    <2>2. table \in Tables /\ table[stack[i - 1].router].routes \in Seq(Route)
      BY <1>1, <2>1, TablesAssumption DEF TypeOK, Table
    <2>3. stack[i - 1].idx \in 1 .. Len(table[stack[i - 1].router].routes)
      BY <2>1, <2>2
    <2>4. MountOf(i) \in Route
      BY <2>2, <2>3, ElementOfSeq DEF MountOf
    <2>5. MountOf(i).sub # NoRouter
      BY <2>1, RoutersAssumption
    <2>6. QED
      BY <2>1, <2>2, <2>3, <2>4, <2>5 DEF MountsHavePaths, MountOf
  <1>8. ResourceAt(i) = RemovePrefix(MountOf(i).path, ResourceAt(i - 1))
    BY <1>5, <1>7 DEF SeenBelowMounts
  <1>9. MountOf(i).path \in Seq(Chars)
    BY <1>7 DEF Route
  <1>10. QED
    BY <1>3, <1>6, <1>8, <1>9, RemovePrefixType

\* In dispatch every active router has rests of its list, and depth is left for it.
LEMMA Levels ==
    MountsHavePaths /\ TInv /\ SeenBelowMounts /\ NestInv /\ LoopInv => LevelsGood
  <1> SUFFICES ASSUME MountsHavePaths, TInv, SeenBelowMounts, NestInv, LoopInv, phase = "dispatch"
               PROVE  LevelsGood
    BY DEF LevelsGood
  <1>1. TypeOK /\ Len(stack) \in Nat \ {0} /\ StackDistinct /\ table \in Table
    BY FrameTypes, TablesAssumption DEF TInv, Active, NestInv, TypeOK
  <1>2. Len(stack) <= Depth
    BY <1>1, StackBound
  <1>3. ASSUME NEW i \in 1 .. Len(stack)
        PROVE  /\ ResourceAt(i) \in Seq(Chars)
               /\ EntriesAt(i) \in Seq(Seq(RouteNames))
               /\ Len(EntriesAt(i)) = Len(table[stack[i].router].routes)
               /\ IsRest(RestAt(i), RouteNames, EntriesAt(i))
    <2>1. ResourceAt(i) \in Seq(Chars) /\ stack[i].router \in Routers
      BY <1>1, ResourcesSeen, FrameTypes
    <2>2. Depth - i \in 0 .. Depth
      BY <1>1, <1>2, DepthType
    <2>3. Flat[Depth - i] \in ListsOf
      BY <1>1, <2>2, FlatDef DEF FlatUnfolded
    <2>4. EntriesAt(i) \in Seq(Seq(RouteNames))
          /\ Len(EntriesAt(i)) = Len(table[stack[i].router].routes)
      BY <1>1, <2>1, <2>3, EntriesType, Zenon DEF EntriesAt
    <2>5. \E rest : IsRest(rest, RouteNames, EntriesAt(i))
      BY <2>4, FlattenRests, Zenon
    <2>6. IsRest(RestAt(i), RouteNames, EntriesAt(i))
      BY <2>5, Zenon DEF RestAt
    <2>7. QED
      BY <2>1, <2>4, <2>6
  <1>4. QED
    BY <1>1, <1>2, <1>3 DEF LevelsGood

\* What the routes from the top router's current one on stand for, split
\* after the current one.
LEMMA LeftSplit ==
    ASSUME TypeOK, LoopInv, LevelsGood, AtRoute, Len(stack) > 0, NEW tails, AreTails(tails)
    PROVE  \E entry \in Seq(RouteNames), after \in Seq(RouteNames) :
              /\ entry = Listed(Flat[Depth - Len(stack)], Top.router, Top.idx, resource)
              /\ after = RestAt(Len(stack))[Top.idx] \o tails[Len(stack)]
              /\ LeftToInvoke(tails) = entry \o after
              /\ Applies(Current) <=> Invokes(Current, resource)
  <1> DEFINE n == Len(stack)
             k == Top.idx
             entry == Listed(Flat[Depth - n], Top.router, k, resource)
  <1>1. /\ n \in 1 .. n /\ phase = "dispatch" /\ k \in Nat \ {0} /\ k <= Len(Routes)
        /\ Top = stack[n] /\ Routes \in Seq(Route)
    BY FrameTypes, TopType DEF AtRoute, Top
  <1>2. /\ IsRest(RestAt(n), RouteNames, EntriesAt(n)) /\ ResourceAt(n) \in Seq(Chars)
        /\ Len(EntriesAt(n)) = Len(Routes) /\ EntriesAt(n) \in Seq(Seq(RouteNames))
    BY <1>1, Zenon DEF LevelsGood, Routes
  <1>3. ResourceAt(n) = resource
    BY DEF ResourceAt
  <1>4. k \in 1 .. Len(EntriesAt(n)) /\ k \in 0 .. Len(EntriesAt(n))
        /\ k - 1 \in 0 .. Len(EntriesAt(n)) - 1 /\ (k - 1) + 1 = k
    BY <1>1, <1>2
  <1>5. EntriesAt(n)[k] = entry
    BY <1>1, <1>2, <1>3, <1>4 DEF EntriesAt, Entries, Routes
  <1> HIDE DEF entry, k, n
  <1>6. entry \in Seq(RouteNames)
    BY <1>2, <1>4, <1>5, ElementOfSeq, Zenon
  <1>7. RestAt(n)[k - 1] = entry \o RestAt(n)[k] /\ RestAt(n)[k] \in Seq(RouteNames)
    <2>1. RestAt(n)[k - 1] = EntriesAt(n)[(k - 1) + 1] \o RestAt(n)[(k - 1) + 1]
      BY <1>2, <1>4, Zenon DEF IsRest
    <2>2. RestAt(n)[k] \in Seq(RouteNames)
      BY <1>2, <1>4, Zenon DEF IsRest
    <2>3. QED
      BY <1>4, <1>5, <2>1, <2>2, Zenon
  <1>8. tails[n] \in Seq(RouteNames)
    BY <1>1, Zenon DEF AreTails, n
  <1> DEFINE after == RestAt(n)[k] \o tails[n]
  <1>9. after \in Seq(RouteNames)
    BY <1>7, <1>8, ConcatProperties, Zenon
  <1>10. LeftToInvoke(tails) = entry \o after
    <2>1. LeftToInvoke(tails) = (entry \o RestAt(n)[k]) \o tails[n]
      BY <1>7, Zenon DEF LeftToInvoke, n, k
    <2>2. PICK a \in Seq(RouteNames) : a = RestAt(n)[k]
      BY <1>7
    <2>3. PICK t \in Seq(RouteNames) : t = tails[n]
      BY <1>8
    <2>4. (entry \o a) \o t = entry \o (a \o t)
      BY ONLY <1>6, ConcatAssociative
    <2>5. QED
      BY <2>1, <2>2, <2>3, <2>4, Zenon
  <1>11. Applies(Current) <=> Invokes(Current, resource)
    <2>1. resource # Null /\ ~closed
      BY <1>1, <1>2, <1>3, NullAssumption DEF LoopInv
    <2>2. QED
      BY <2>1, Zenon DEF Applies, Invokes
  <1>12. QED
    BY <1>6, <1>9, <1>10, <1>11, Zenon DEF entry, n, k

\* A router that goes on after its current route leaves what its later routes
\* stand for.
LEMMA LeftAdvanced ==
    ASSUME TypeOK, Len(stack) > 0, table' = table, request' = request, resource' = resource,
           stack' = Advanced(stack), NEW tails, AreTails(tails)
    PROVE  /\ AreTails(tails)'
           /\ LeftToInvoke(tails)' = RestAt(Len(stack))[Top.idx] \o tails[Len(stack)]
           /\ Top' = stack'[Len(stack)] /\ Top'.idx = Top.idx + 1 /\ Routes' = Routes
  <1>1. PICK n \in Nat \ {0} : n = Len(stack) /\ n \in 1 .. n /\ stack \in Seq(Frame)
    BY FrameTypes DEF TypeOK
  <1>2. /\ Len(stack') = n
        /\ \A i \in 1 .. n - 1 : stack'[i] = stack[i]
        /\ stack'[n].router = stack[n].router /\ stack'[n].idx = stack[n].idx + 1
        /\ stack'[n].original = stack[n].original
    BY <1>1, AdvancedKeeps
  <1>3. \A i \in 1 .. n : stack'[i].router = stack[i].router /\ ResourceAt(i)' = ResourceAt(i)
    BY <1>1, <1>2 DEF ResourceAt
  <1>4. \A i \in 1 .. n : RestAt(i)' = RestAt(i)
    BY <1>3, RestKept, Zenon
  <1>5. /\ \A i \in 1 .. n : tails[i] \in Seq(RouteNames)
        /\ tails[1] = <<>>
        /\ \A i \in 2 .. n : tails[i] = RestAt(i - 1)[stack[i - 1].idx] \o tails[i - 1]
    BY <1>1, Zenon DEF AreTails
  <1>6. \A i \in 2 .. n : tails[i] = RestAt(i - 1)'[stack'[i - 1].idx] \o tails[i - 1]
    <2> SUFFICES ASSUME NEW i \in 2 .. n
                 PROVE  tails[i] = RestAt(i - 1)'[stack'[i - 1].idx] \o tails[i - 1]
      OBVIOUS
    <2>1. i - 1 \in 1 .. n - 1 /\ i - 1 \in 1 .. n
      OBVIOUS
    <2>2. QED
      BY <1>2, <1>4, <1>5, <2>1, Zenon
  <1>7. AreTails(tails)'
    BY <1>2, <1>5, <1>6, Zenon DEF AreTails
  <1>8. Top = stack[n] /\ Top' = stack'[n]
    BY <1>1, <1>2 DEF Top
  <1>9. LeftToInvoke(tails)' = RestAt(n)[Top.idx] \o tails[n]
    <2>1. Top'.idx - 1 = Top.idx
      BY <1>1, <1>2, <1>8, FrameTypes
    <2>2. LeftToInvoke(tails)' = RestAt(n)'[Top'.idx - 1] \o tails[n]
      BY <1>2, Zenon DEF LeftToInvoke
    <2>3. QED
      BY <1>1, <1>4, <2>1, <2>2, Zenon
  <1>10. Routes' = Routes
    BY <1>2, <1>8 DEF Routes
  <1>11. QED
    BY <1>1, <1>2, <1>7, <1>8, <1>9, <1>10, Zenon

\* Invoking a route moves it from what is left to what was invoked.
Moves(a, name, b, c) == a \o ((<<name>> \o b) \o c) = Append(a, name) \o (b \o c)

\* The first route left is invoked, and moves from one list to the other.
LEMMA InvokedMoves ==
    ASSUME NEW S, NEW a \in Seq(S), NEW name \in S, NEW b \in Seq(S), NEW c \in Seq(S)
    PROVE  Moves(a, name, b, c)
  <1>1. <<name>> \in Seq(S) /\ <<name>> \o b \in Seq(S) /\ b \o c \in Seq(S)
    BY ConcatProperties
  <1>2. (<<name>> \o b) \o c = <<name>> \o (b \o c)
    BY <1>1, ConcatAssociative
  <1>3. a \o (<<name>> \o (b \o c)) = (a \o <<name>>) \o (b \o c)
    BY <1>1, ConcatAssociative
  <1>4. a \o <<name>> = Append(a, name)
    BY AppendIsConcat
  <1>5. QED
    BY <1>2, <1>3, <1>4, Zenon DEF Moves

\* What the routes of a frame will stand for.
LEMMA EntriesThen ==
    ASSUME table' = table, request' = request, NEW i, NEW d, NEW r, NEW x,
           Depth - i = d, stack'[i].router = r, ResourceAt(i)' = x
    PROVE  EntriesAt(i)' = Entries(Flat[d], r, x)
  <1>1. Flat' = Flat
    BY FlatKept
  <1>2. QED
    BY <1>1, SMT DEF EntriesAt, Entries, Listed, Invokes, SeenBehind, Depth

\* A mounted router is entered: its routes are what its mount stands for
\* behind itself.
LEMMA OrderEnter ==
    ASSUME MountsHavePaths, TInv, LoopInv, LevelsGood, LevelsGood', FlatUnfolded, Left, EnterSub
    PROVE  Left'
  <1>1. /\ TypeOK /\ Len(stack) > 0 /\ stack \in Seq(Frame) /\ AtRoute /\ phase' = "dispatch"
        /\ table' = table /\ request' = request /\ invoked \in Seq(RouteNames)
        /\ CurrentName \in RouteNames /\ phase = "dispatch"
    BY TopType DEF TInv, TypeOK, Active, EnterSub, AtRoute, requestVars
  <1>2. PICK n \in Nat \ {0} : n = Len(stack) /\ n \in 1 .. n
    BY <1>1, FrameTypes
  <1>3. PICK tails : AreTails(tails) /\ FlatList = invoked \o LeftToInvoke(tails)
    BY Zenon DEF Left
  <1>4. PICK entry \in Seq(RouteNames), after \in Seq(RouteNames) :
            /\ entry = Listed(Flat[Depth - n], Top.router, Top.idx, resource)
            /\ after = RestAt(n)[Top.idx] \o tails[n]
            /\ LeftToInvoke(tails) = entry \o after
            /\ Applies(Current) <=> Invokes(Current, resource)
    BY <1>1, <1>2, <1>3, LeftSplit, Zenon
  <1> DEFINE frame == [router |-> Current.sub, idx |-> 1,
                       original |-> IF Current.path = Null THEN Null ELSE resource, base |-> base]
  <1>5. /\ stack' = Append(stack, frame) /\ resource' = SeenBehind(Current, resource)
        /\ invoked' = Append(invoked, CurrentName)
        /\ Applies(Current) /\ Current.sub # NoRouter
    BY Zenon DEF EnterSub, SeenBehind
  <1>6. Current.path # Null /\ Current.sub \in Routers
    <2>1. Top.router \in Routers /\ Top.idx \in Nat \ {0} /\ Top.idx <= Len(Routes)
          /\ Routes \in Seq(Route) /\ Current \in Route
      BY <1>1, TopType, FrameTypes, CurrentOf DEF AtRoute
    <2>2. Top.idx \in 1 .. Len(Routes) /\ table \in Tables
      BY <1>1, <2>1 DEF TypeOK
    <2>3. QED
      BY <1>5, <2>1, <2>2 DEF MountsHavePaths, Current, Routes, Route
  <1>7. /\ Len(stack') = n + 1 /\ (\A i \in 1 .. n : stack'[i] = stack[i])
        /\ stack'[n + 1].router = Current.sub /\ stack'[n + 1].idx = 1
        /\ stack'[n + 1].original = resource
    <2>1. Len(stack') = n + 1 /\ (\A i \in 1 .. n : stack'[i] = stack[i]) /\ stack'[n + 1] = frame
      BY <1>1, <1>2, <1>5
    <2>2. QED
      BY <1>6, <2>1
  <1> HIDE DEF frame
  <1>8. \A i \in 1 .. n : ResourceAt(i)' = ResourceAt(i) /\ RestAt(i)' = RestAt(i)
    <2>1. \A i \in 1 .. n : ResourceAt(i)' = ResourceAt(i)
      BY <1>2, <1>7 DEF ResourceAt
    <2>2. QED
      BY <1>1, <1>7, <2>1, RestKept, Zenon
  <1> DEFINE inner == Flat[Depth - n][Current.sub][resource']
  <1>9. entry = <<CurrentName>> \o inner
    BY <1>4, <1>5, Zenon DEF Listed, Current, CurrentName, Routes
  <1>10. /\ ResourceAt(n + 1)' = resource' /\ resource' \in Seq(Chars)
         /\ n + 1 <= Depth /\ IsRest(RestAt(n + 1), RouteNames, EntriesAt(n + 1))'
    <2>1. ResourceAt(n + 1)' = resource'
      BY <1>7 DEF ResourceAt
    <2>2. n + 1 \in 1 .. n + 1 /\ Depth' = Depth
      BY DEF Depth
    <2>3. /\ Len(stack') <= Depth /\ ResourceAt(n + 1)' \in Seq(Chars)
          /\ IsRest(RestAt(n + 1), RouteNames, EntriesAt(n + 1))'
      BY <1>1, <1>7, <2>2, Zenon DEF LevelsGood
    <2>4. QED
      BY <1>7, <2>1, <2>3
  <1>11. /\ Depth - n \in 1 .. Depth /\ Depth - (n + 1) = (Depth - n) - 1
         /\ Depth - n \in 0 .. Depth
    BY <1>10, DepthType
  <1>12. inner = RestAt(n + 1)'[0] /\ inner \in Seq(RouteNames)
    <2>1. inner = FlattenSeq(Entries(Flat[(Depth - n) - 1], Current.sub, resource'))
      BY <1>6, <1>10, <1>11, Zenon DEF FlatUnfolded
    <2>2. inner \in Seq(RouteNames)
      BY <1>6, <1>10, <1>11, Zenon DEF FlatUnfolded, ListsOf
    <2>3. EntriesAt(n + 1)' = Entries(Flat[(Depth - n) - 1], Current.sub, resource')
      <3>1. stack'[n + 1].router = Current.sub /\ ResourceAt(n + 1)' = resource'
        BY <1>7, <1>10
      <3>2. PICK m : m = n + 1
        OBVIOUS
      <3>3. PICK d : d = (Depth - n) - 1
        OBVIOUS
      <3>4. PICK r, x : r = Current.sub /\ x = resource'
        OBVIOUS
      <3>5. EntriesAt(m)' = Entries(Flat[d], r, x)
        <4>1. Depth - m = d /\ stack'[m].router = r /\ ResourceAt(m)' = x
          BY <1>11, <3>1, <3>2, <3>3, <3>4
        <4>2. table' = table /\ request' = request
          BY <1>1
        <4>3. QED
          BY ONLY <4>1, <4>2, EntriesThen
      <3>6. QED
        BY <3>2, <3>3, <3>4, <3>5
    <2>4. RestAt(n + 1)'[0] = FlattenSeq(EntriesAt(n + 1)')
      BY <1>10, Zenon DEF IsRest
    <2>5. QED
      BY <2>1, <2>2, <2>3, <2>4, Zenon
  <1> HIDE DEF inner
  <1>13. PICK more : more = [i \in 1 .. n + 1 |-> IF i = n + 1 THEN after ELSE tails[i]]
    OBVIOUS
  <1>14. more[n + 1] = after /\ \A i \in 1 .. n : more[i] = tails[i]
    BY <1>13
  <1>15. AreTails(more)'
    <2>1. /\ \A i \in 1 .. n : tails[i] \in Seq(RouteNames)
          /\ tails[1] = <<>>
          /\ \A i \in 2 .. n : tails[i] = RestAt(i - 1)[stack[i - 1].idx] \o tails[i - 1]
      BY <1>2, <1>3, Zenon DEF AreTails
    <2>2. \A i \in 1 .. n + 1 : more[i] \in Seq(RouteNames)
      BY <1>14, <2>1
    <2>3. more[1] = <<>>
      BY <1>2, <1>14, <2>1
    <2>4. ASSUME NEW i \in 2 .. n + 1
          PROVE  more[i] = RestAt(i - 1)'[stack'[i - 1].idx] \o more[i - 1]
      <3>1. i - 1 \in 1 .. n
        OBVIOUS
      <3>2. RestAt(i - 1)' = RestAt(i - 1) /\ stack'[i - 1] = stack[i - 1] /\ more[i - 1] = tails[i - 1]
        BY <1>7, <1>8, <1>14, <3>1, Zenon
      <3>3. CASE i = n + 1
        <4>1. i - 1 = n
          BY <3>3
        <4>2. stack[n].idx = Top.idx
          BY <1>2 DEF Top
        <4>3. QED
          BY <1>4, <1>14, <3>2, <3>3, <4>1, <4>2, Zenon
      <3>4. CASE i # n + 1
        <4>1. i \in 2 .. n /\ i \in 1 .. n
          BY <3>4
        <4>2. QED
          BY <1>14, <2>1, <3>2, <4>1, Zenon
      <3>5. QED
        BY <3>3, <3>4
    <2>5. QED
      BY <1>7, <2>2, <2>3, <2>4, Zenon DEF AreTails
  <1>16. LeftToInvoke(more)' = inner \o after
    <2>1. Top'.idx - 1 = 0
      BY <1>7 DEF Top
    <2>2. LeftToInvoke(more)' = RestAt(n + 1)'[Top'.idx - 1] \o more[n + 1]
      BY <1>7, Zenon DEF LeftToInvoke
    <2>3. QED
      BY <1>12, <1>14, <2>1, <2>2, Zenon
  <1>17. invoked \o (entry \o after) = Append(invoked, CurrentName) \o (inner \o after)
    <2>1. Moves(invoked, CurrentName, inner, after)
      BY <1>1, <1>4, <1>12, InvokedMoves, Zenon
    <2>2. QED
      BY <1>9, <2>1, Zenon DEF Moves
  <1>18. FlatList' = FlatList
    BY <1>1, FlatKept
  <1>19. QED
    BY <1>3, <1>4, <1>5, <1>15, <1>16, <1>17, <1>18, Zenon DEF Left

\* At the end of its loop a router has no route left.
LEMMA NoneLeft ==
    ASSUME TypeOK, LoopInv, LevelsGood, phase = "dispatch", Len(stack) > 0, Top.idx > Len(Routes),
           NEW tails, AreTails(tails)
    PROVE  LeftToInvoke(tails) = tails[Len(stack)]
  <1> DEFINE n == Len(stack)
  <1>1. /\ n \in 1 .. n /\ Top.idx \in Nat /\ Top.idx - 1 = Len(Routes) /\ Top = stack[n]
    <2>1. n \in 1 .. n /\ Top.idx \in Nat /\ Routes \in Seq(Route) /\ Top = stack[n]
      BY FrameTypes, CurrentOf, TopType
    <2>2. Len(Routes) \in Nat /\ Top.idx <= Len(Routes) + 1
      BY <2>1 DEF LoopInv
    <2>3. QED
      BY <2>1, <2>2
  <1>2. IsRest(RestAt(n), RouteNames, EntriesAt(n)) /\ Len(EntriesAt(n)) = Len(Routes)
    BY <1>1, Zenon DEF LevelsGood, Routes
  <1>3. RestAt(n)[Top.idx - 1] = <<>>
    BY <1>1, <1>2, Zenon DEF IsRest
  <1>4. tails[n] \in Seq(RouteNames)
    BY <1>1, Zenon DEF AreTails
  <1>5. <<>> \o tails[n] = tails[n]
    BY <1>4, ConcatEmptySeq
  <1>6. QED
    BY <1>3, <1>5, Zenon DEF LeftToInvoke

\* A mounted router returns, and the outer one goes on with its next route.
LEMMA OrderLeave ==
    ASSUME TInv, LoopInv, LevelsGood, Left, LeaveSub
    PROVE  Left'
  <1>1. /\ TypeOK /\ Len(stack) > 1 /\ stack \in Seq(Frame) /\ Len(stack) \in Nat
        /\ phase = "dispatch" /\ table' = table /\ request' = request /\ invoked' = invoked
        /\ resource' = Top.original /\ stack' = Advanced(Pop) /\ Top.idx > Len(Routes)
    BY FrameTypes DEF TInv, TypeOK, LeaveSub, Restore, requestVars
  <1>2. PICK n \in Nat \ {0} : n \in 1 .. Len(stack) /\ n + 1 = Len(stack) /\ n = Len(stack) - 1
    BY <1>1, OneLess
  <1>3. Pop \in Seq(Frame) /\ Len(Pop) = n /\ \A i \in 1 .. n : Pop[i] = stack[i]
    <2>1. Len(stack) - 1 = n /\ Len(stack) > 0 /\ stack \in Seq(Frame)
      BY <1>1, <1>2
    <2>2. QED
      BY <2>1, PopType
  <1>4. /\ Len(stack') = n
        /\ \A i \in 1 .. n - 1 : stack'[i] = stack[i]
        /\ stack'[n].router = stack[n].router /\ stack'[n].idx = stack[n].idx + 1
        /\ stack'[n].original = stack[n].original
    <2>1. /\ Len(stack') = n /\ \A i \in 1 .. n - 1 : stack'[i] = Pop[i]
          /\ stack'[n].router = Pop[n].router /\ stack'[n].idx = Pop[n].idx + 1
          /\ stack'[n].original = Pop[n].original
      BY <1>1, <1>3, AdvancedKeeps
    <2>2. n \in 1 .. n /\ \A i \in 1 .. n - 1 : i \in 1 .. n
      OBVIOUS
    <2>3. QED
      BY <1>3, <2>1, <2>2
  <1>5. \A i \in 1 .. n : stack'[i].router = stack[i].router /\ ResourceAt(i)' = ResourceAt(i)
    <2>1. resource' = stack[n + 1].original
      BY <1>1, <1>2 DEF Top
    <2>2. QED
      BY <1>2, <1>4, <2>1 DEF ResourceAt
  <1>6. \A i \in 1 .. n : RestAt(i)' = RestAt(i)
    BY <1>1, <1>5, RestKept, Zenon
  <1>7. PICK tails : AreTails(tails) /\ FlatList = invoked \o LeftToInvoke(tails)
    BY Zenon DEF Left
  <1>8. LeftToInvoke(tails) = tails[n + 1]
    <2>1. Len(stack) > 0
      BY <1>1
    <2>2. QED
      BY <1>1, <1>2, <1>7, <2>1, NoneLeft, Zenon
  <1>9. /\ \A i \in 1 .. n + 1 : tails[i] \in Seq(RouteNames)
        /\ tails[1] = <<>>
        /\ \A i \in 2 .. n + 1 : tails[i] = RestAt(i - 1)[stack[i - 1].idx] \o tails[i - 1]
    BY <1>2, <1>7, Zenon DEF AreTails
  <1>10. AreTails(tails)'
    <2>1. \A i \in 1 .. n : tails[i] \in Seq(RouteNames)
      BY <1>9
    <2>2. ASSUME NEW i \in 2 .. n
          PROVE  tails[i] = RestAt(i - 1)'[stack'[i - 1].idx] \o tails[i - 1]
      <3>1. i - 1 \in 1 .. n - 1 /\ i - 1 \in 1 .. n /\ i \in 2 .. n + 1
        OBVIOUS
      <3>2. QED
        BY <1>4, <1>6, <1>9, <3>1, Zenon
    <2>3. QED
      BY <1>4, <1>9, <2>1, <2>2, Zenon DEF AreTails
  <1>11. LeftToInvoke(tails)' = tails[n + 1]
    <2>1. n \in 1 .. n /\ n + 1 \in 2 .. n + 1 /\ (n + 1) - 1 = n
      OBVIOUS
    <2>2. tails[n + 1] = RestAt(n)[stack[n].idx] \o tails[n]
      BY <1>9, <2>1, Zenon
    <2>3. Top'.idx - 1 = stack[n].idx
      <3>1. Top' = stack'[n] /\ stack[n].idx \in Nat
        BY <1>1, <1>2, <1>4, FrameTypes DEF Top
      <3>2. QED
        BY <1>4, <3>1
    <2>4. LeftToInvoke(tails)' = RestAt(n)'[Top'.idx - 1] \o tails[n]
      BY <1>4, Zenon DEF LeftToInvoke
    <2>5. QED
      BY <1>6, <2>1, <2>2, <2>3, <2>4, Zenon
  <1>12. FlatList' = FlatList
    BY <1>1, FlatKept
  <1>13. QED
    BY <1>1, <1>7, <1>8, <1>10, <1>11, <1>12, Zenon DEF Left

\* A request's dispatch begins with the whole list left.
LEMMA OrderParse ==
    ASSUME TypeOK', FlatUnfolded', LevelsGood', NEW r \in Requests, Parse(r), Rooted(r.resource)
    PROVE  Left'
  <1>1. /\ stack' = <<[router |-> Root, idx |-> 1, original |-> r.resource, base |-> <<>>]>>
        /\ resource' = r.resource /\ request' = r /\ invoked' = <<>> /\ phase' = "dispatch"
    BY DEF Parse
  <1>2. Len(stack') = 1 /\ stack'[1].router = Root /\ stack'[1].idx = 1
    BY <1>1
  <1>3. /\ ResourceAt(1)' = r.resource /\ Len(stack') <= Depth'
        /\ IsRest(RestAt(1)', RouteNames, EntriesAt(1)')
        /\ ResourceAt(1)' \in Seq(Chars)
    <2>1. ResourceAt(1)' = r.resource
      BY <1>1, <1>2 DEF ResourceAt
    <2>2. 1 \in 1 .. 1
      OBVIOUS
    <2>3. QED
      BY <1>1, <1>2, <2>1, <2>2, Zenon DEF LevelsGood
  <1>4. PICK d \in Nat : d = Depth /\ d' = d /\ d \in 1 .. d
    <2>1. Depth' = Depth /\ Depth \in Nat
      BY DepthType DEF Depth
    <2>2. QED
      BY <1>2, <1>3, <2>1
  <1>5. FlatList' = FlattenSeq(EntriesAt(1)')
    <2>1. FlatList' = Flat'[d][Root][r.resource]
      BY <1>1, <1>4 DEF FlatList, Depth
    <2>2. Flat'[d][Root][r.resource] = FlattenSeq(Entries(Flat[d - 1], Root, r.resource)')
      BY <1>3, <1>4, RoutersAssumption, Zenon DEF FlatUnfolded, Depth
    <2>3. EntriesAt(1)' = Entries(Flat[d - 1], Root, r.resource)'
      <3>1. stack[1].router' = Root /\ ResourceAt(1)' = r.resource /\ d' = d /\ Depth' = d
        BY <1>2, <1>3, <1>4
      <3>2. EntriesAt(1)' = Entries(Flat[Depth - 1], stack[1].router, ResourceAt(1))'
        BY Zenon DEF EntriesAt
      <3>3. QED
        BY <3>1, <3>2, Zenon
    <2>4. QED
      BY <2>1, <2>2, <2>3, Zenon
  <1>6. PICK tails : tails = [i \in 1 .. 1 |-> <<>>]
    OBVIOUS
  <1>7. tails[1] = <<>> /\ <<>> \in Seq(RouteNames) /\ \A i \in 1 .. 1 : i = 1
    BY <1>6, EmptySeq
  <1>8. AreTails(tails)'
    <2>1. \A i \in 1 .. 1 : tails[i] \in Seq(RouteNames)
      BY <1>7
    <2>2. \A i \in 2 .. 1 : tails[i] = RestAt(i - 1)'[stack'[i - 1].idx] \o tails[i - 1]
      OBVIOUS
    <2>3. QED
      BY <1>2, <1>7, <2>1, <2>2, Zenon DEF AreTails
  <1>9. RestAt(1)'[0] = FlatList' /\ FlatList' \in Seq(RouteNames)
    <2>1. Len(EntriesAt(1)') \in Nat
      BY <1>1, <1>2 DEF LevelsGood
    <2>2. 0 \in 0 .. Len(EntriesAt(1)')
      BY <2>1
    <2>3. QED
      BY <1>3, <1>5, <2>2, Zenon DEF IsRest
  <1>10. LeftToInvoke(tails)' = FlatList' \o <<>>
    <2>1. Top'.idx - 1 = 0
      BY <1>2 DEF Top
    <2>2. LeftToInvoke(tails)' = RestAt(1)'[Top'.idx - 1] \o tails[1]
      BY <1>2, Zenon DEF LeftToInvoke
    <2>3. QED
      BY <1>7, <1>9, <2>1, <2>2, Zenon
  <1>11. <<>> \o (FlatList' \o <<>>) = FlatList'
    BY <1>9, ConcatEmptySeq
  <1>12. QED
    BY <1>1, <1>8, <1>10, <1>11, Zenon DEF Left

\* Every step keeps the loop of the top router within its routes.
LEMMA LoopNext ==
    ASSUME TInv, NestInv, LoopInv, [Next]_vars
    PROVE  LoopInv'
  <1>0. TypeOK /\ Active /\ Len(stack) \in Nat
    BY FrameTypes DEF TInv
  <1> USE DEF routeVars, stackVars, requestVars
  <1> SUFFICES ASSUME phase' = "dispatch"
               PROVE  request' \in Requests /\ ~closed' /\ Top'.idx <= Len(Routes') + 1
    BY DEF LoopInv
  <1>1. ASSUME NEW r \in Requests, Parse(r)
        PROVE  request' \in Requests /\ ~closed' /\ Top'.idx <= Len(Routes') + 1
    <2>1. Rooted(r.resource)
      BY <1>1 DEF Parse
    <2>2. /\ stack' = <<[router |-> Root, idx |-> 1, original |-> r.resource, base |-> <<>>]>>
          /\ request' = r /\ closed' = FALSE /\ table' = table
      BY <1>1, <2>1 DEF Parse
    <2>3. Top'.idx = 1 /\ Top'.router = Root
      BY <2>2 DEF Top
    <2>4. table[Root].routes \in Seq(Route)
      BY <1>0, RoutersAssumption, TablesAssumption DEF TypeOK, Table
    <2>5. QED
      BY <2>2, <2>3, <2>4 DEF Routes
  <1>2. CASE SkipRoute \/ RouteContinues
    <2>1. /\ phase = "dispatch" /\ Top.idx <= Len(Routes) /\ Len(stack) > 0
          /\ stack' = Advanced(stack) /\ table' = table /\ request' = request /\ closed' = closed
      BY <1>0, <1>2 DEF SkipRoute, RouteContinues, AtRoute, Active
    <2>2. stack \in Seq(Frame) /\ Len(stack) \in Nat \ {0}
      BY <1>0, <2>1 DEF TypeOK
    <2>3. Top'.idx = Top.idx + 1 /\ Top'.router = Top.router /\ Top.idx \in Nat
      <3>1. /\ Len(stack') = Len(stack) /\ stack'[Len(stack)].router = stack[Len(stack)].router
            /\ stack'[Len(stack)].idx = stack[Len(stack)].idx + 1
        BY <2>1, <2>2, AdvancedKeeps
      <3>2. QED
        BY <1>0, <2>1, <3>1, CurrentOf DEF Top
    <2>4. Routes' = Routes /\ Routes \in Seq(Route)
      BY <1>0, <2>1, <2>3, TopType DEF Routes
    <2>5. QED
      BY <2>1, <2>3, <2>4 DEF LoopInv
  <1>3. CASE EnterSub
    <2>1. /\ phase = "dispatch" /\ Len(stack) > 0 /\ table' = table
          /\ request' = request /\ closed' = closed
          /\ stack' = Append(stack, [router |-> Current.sub, idx |-> 1,
                     original |-> IF Current.path = Null THEN Null ELSE resource, base |-> base])
      BY <1>0, <1>3 DEF EnterSub, AtRoute, Active
    <2>2. stack \in Seq(Frame)
      BY <1>0 DEF TypeOK
    <2>3. Top'.idx = 1 /\ Top'.router = Current.sub
      BY <2>1, <2>2 DEF Top
    <2>4. Current.sub \in Routers
      <3>1. Top.idx \in Nat \ {0} /\ Top.idx <= Len(Routes) /\ Routes \in Seq(Route)
        BY <1>0, <1>3, <2>1, TopType, CurrentOf DEF EnterSub, AtRoute
      <3>2. Current \in Route /\ Current.sub # NoRouter
        BY <1>3, <3>1, ElementOfSeq DEF EnterSub, Current
      <3>3. QED
        BY <3>2 DEF Route
    <2>5. table[Current.sub].routes \in Seq(Route)
      BY <1>0, <2>4, TablesAssumption DEF TypeOK, Table
    <2>6. QED
      BY <2>1, <2>3, <2>5 DEF LoopInv, Routes
  <1>4. CASE LeaveSub
    <2>1. /\ phase = "dispatch" /\ Len(stack) > 1 /\ table' = table
          /\ request' = request /\ closed' = closed /\ stack' = Advanced(Pop)
          /\ Len(stack) > 0 /\ stack \in Seq(Frame)
      BY <1>0, <1>4 DEF LeaveSub, TypeOK
    <2>2. PICK n \in Nat \ {0} : n \in 1 .. Len(stack) /\ n + 1 = Len(stack) /\ n = Len(stack) - 1
      BY <1>0, <2>1, OneLess
    <2>3. Pop \in Seq(Frame) /\ Len(Pop) = n /\ \A i \in 1 .. n : Pop[i] = stack[i]
      <3>1. Len(stack) - 1 = n
        BY <2>2
      <3>2. QED
        BY <2>1, <3>1, PopType
    <2>4. /\ Len(stack') = n /\ stack'[n].router = stack[n].router
          /\ stack'[n].idx = stack[n].idx + 1
      <3>1. /\ Len(stack') = n /\ stack'[n].router = Pop[n].router /\ stack'[n].idx = Pop[n].idx + 1
        BY <2>1, <2>3, AdvancedKeeps
      <3>2. n \in 1 .. n
        OBVIOUS
      <3>3. QED
        BY <2>3, <3>1, <3>2
    <2>5. stack[n].idx <= Len(table[stack[n].router].routes) /\ stack[n].idx \in Nat
          /\ stack[n].router \in Routers
      <3>1. n + 1 \in 2 .. Len(stack) /\ (n + 1) - 1 = n
        BY <2>2
      <3>2. stack[n].idx <= Len(table[stack[n].router].routes)
        BY <3>1, Zenon DEF NestInv, StackedByMount
      <3>3. QED
        BY <1>0, <2>2, <3>2, FrameTypes
    <2>6. table[stack[n].router].routes \in Seq(Route)
      BY <1>0, <2>5, TablesAssumption DEF TypeOK, Table
    <2>7. QED
      BY <2>1, <2>4, <2>5, <2>6 DEF LoopInv, Top, Routes
  <1>5. CASE StopServing \/ RouteResponds \/ ReturnDone \/ LeaveRoot \/ RunCallback \/ Finish
    BY <1>5 DEF StopServing, RouteResponds, ReturnDone, LeaveRoot, RunCallback, Finish
  <1>6. CASE UNCHANGED vars
    BY <1>6 DEF vars, LoopInv, Top, Routes
  <1>7. QED
    BY <1>1, <1>2, <1>3, <1>4, <1>5, <1>6 DEF Next, Dispatch

\* A route that is skipped stands for nothing.
LEMMA OrderSkip ==
    ASSUME TInv, LoopInv, LevelsGood, Left, SkipRoute
    PROVE  Left'
  <1>1. /\ TypeOK /\ Len(stack) > 0 /\ AtRoute /\ stack' = Advanced(stack)
        /\ table' = table /\ request' = request /\ resource' = resource /\ invoked' = invoked
        /\ ~Applies(Current)
    BY DEF TInv, Active, SkipRoute, AtRoute, requestVars
  <1>2. PICK tails : AreTails(tails) /\ FlatList = invoked \o LeftToInvoke(tails)
    BY Zenon DEF Left
  <1>3. PICK entry \in Seq(RouteNames), after \in Seq(RouteNames) :
            /\ entry = Listed(Flat[Depth - Len(stack)], Top.router, Top.idx, resource)
            /\ after = RestAt(Len(stack))[Top.idx] \o tails[Len(stack)]
            /\ LeftToInvoke(tails) = entry \o after
            /\ Applies(Current) <=> Invokes(Current, resource)
    BY <1>1, <1>2, LeftSplit, Zenon
  <1>4. entry = <<>>
    BY <1>1, <1>3, Zenon DEF Listed, Current, Routes
  <1>5. LeftToInvoke(tails) = after
    BY <1>3, <1>4, ConcatEmptySeq
  <1>6. AreTails(tails)' /\ LeftToInvoke(tails)' = after
    BY <1>1, <1>2, <1>3, LeftAdvanced, Zenon
  <1>7. FlatList' = FlatList
    BY <1>1, FlatKept
  <1>8. QED
    BY <1>1, <1>2, <1>5, <1>6, <1>7, Zenon DEF Left

\* A route that is invoked and is no mount stands for itself.
LEMMA OrderInvoke ==
    ASSUME TInv, LoopInv, LevelsGood, AtRoute, Applies(Current), Current.sub = NoRouter,
           NEW tails, AreTails(tails), FlatList = invoked \o LeftToInvoke(tails)
    PROVE  \E after \in Seq(RouteNames) :
              /\ after = RestAt(Len(stack))[Top.idx] \o tails[Len(stack)]
              /\ FlatList = Append(invoked, CurrentName) \o after
  <1>1. TypeOK /\ Len(stack) > 0 /\ invoked \in Seq(RouteNames) /\ CurrentName \in RouteNames
    BY TopType DEF TInv, Active, AtRoute, TypeOK
  <1>2. PICK entry \in Seq(RouteNames), after \in Seq(RouteNames) :
            /\ entry = Listed(Flat[Depth - Len(stack)], Top.router, Top.idx, resource)
            /\ after = RestAt(Len(stack))[Top.idx] \o tails[Len(stack)]
            /\ LeftToInvoke(tails) = entry \o after
            /\ Applies(Current) <=> Invokes(Current, resource)
    BY <1>1, LeftSplit, Zenon
  <1>3. entry = <<CurrentName>> \o <<>>
    BY <1>2, Zenon DEF Listed, Current, Routes, CurrentName
  <1>4. invoked \o (entry \o after) = Append(invoked, CurrentName) \o (<<>> \o after)
    <2>1. <<>> \in Seq(RouteNames)
      BY EmptySeq
    <2>2. Moves(invoked, CurrentName, <<>>, after)
      BY <1>1, <1>2, <2>1, InvokedMoves, Zenon
    <2>3. QED
      BY <1>3, <2>2, Zenon DEF Moves
  <1>5. <<>> \o after = after
    BY <1>2, ConcatEmptySeq
  <1>6. QED
    BY <1>2, <1>4, <1>5, Zenon

\* Every step keeps what was invoked and what is left together the flat list.
LEMMA OrderNext ==
    ASSUME MountsHavePaths, TInv, TypeOK', OrderInv, LoopInv', LevelsGood, LevelsGood', FlatUnfolded,
           FlatUnfolded', [Next]_vars
    PROVE  OrderInv'
  <1>0. TypeOK /\ Active /\ LoopInv /\ Len(stack) \in Nat
    BY FrameTypes DEF TInv, OrderInv
  <1> USE DEF routeVars, stackVars, requestVars
  <1>1. ASSUME NEW r \in Requests, Parse(r) PROVE OrderInv'
    <2>1. CASE Rooted(r.resource)
      <3>1. Left' /\ phase' = "dispatch"
        BY <1>1, <2>1, OrderParse DEF Parse
      <3>2. QED
        BY <3>1, Zenon DEF OrderInv
    <2>2. CASE ~Rooted(r.resource)
      <3>1. request' = r /\ phase' = "callbacks"
        BY <1>1, <2>2 DEF Parse
      <3>2. QED
        BY <2>2, <3>1, Zenon DEF OrderInv
    <2>3. QED
      BY <2>1, <2>2
  <1>2. CASE SkipRoute
    <2>1. phase = "dispatch" /\ phase' = "dispatch"
      BY <1>2 DEF SkipRoute, AtRoute
    <2>2. Left'
      BY <1>0, <1>2, <2>1, OrderSkip DEF OrderInv
    <2>3. QED
      BY <2>1, <2>2, Zenon DEF OrderInv
  <1>3. CASE RouteContinues \/ RouteResponds
    <2>1. /\ phase = "dispatch" /\ AtRoute /\ Applies(Current) /\ Current.sub = NoRouter
          /\ invoked' = Append(invoked, CurrentName) /\ table' = table /\ request' = request
          /\ Len(stack) > 0
      BY <1>0, <1>3 DEF RouteContinues, RouteResponds, AtRoute, Invoke, Active
    <2>2. PICK tails : AreTails(tails) /\ FlatList = invoked \o LeftToInvoke(tails)
      BY <2>1, Zenon DEF Left, OrderInv
    <2>3. PICK after \in Seq(RouteNames) :
             /\ after = RestAt(Len(stack))[Top.idx] \o tails[Len(stack)]
             /\ FlatList = Append(invoked, CurrentName) \o after
      BY <1>0, <2>1, <2>2, OrderInvoke, Zenon
    <2>4. FlatList' = FlatList
      BY <2>1, FlatKept
    <2>5. CASE RouteContinues
      <3>1. stack' = Advanced(stack) /\ resource' = resource /\ phase' = "dispatch"
        BY <2>1, <2>5 DEF RouteContinues
      <3>2. AreTails(tails)' /\ LeftToInvoke(tails)' = after
        BY <1>0, <2>1, <2>2, <2>3, <3>1, LeftAdvanced, Zenon
      <3>3. Left'
        BY <2>1, <2>3, <2>4, <3>2, Zenon DEF Left
      <3>4. QED
        BY <3>1, <3>3, Zenon DEF OrderInv
    <2>6. CASE RouteResponds
      <3>1. phase' = "unwind"
        BY <2>6 DEF RouteResponds
      <3>2. Begun'
        BY <2>1, <2>3, <2>4, Zenon DEF Begun
      <3>3. QED
        BY <3>1, <3>2, Zenon DEF OrderInv
    <2>7. QED
      BY <1>3, <2>5, <2>6
  <1>4. CASE EnterSub
    <2>1. phase = "dispatch" /\ phase' = "dispatch"
      BY <1>4 DEF EnterSub, AtRoute
    <2>2. Left'
      BY <1>0, <1>4, <2>1, OrderEnter DEF OrderInv
    <2>3. QED
      BY <2>1, <2>2, Zenon DEF OrderInv
  <1>5. CASE LeaveSub
    <2>1. phase = "dispatch" /\ phase' = "dispatch"
      BY <1>5 DEF LeaveSub
    <2>2. Left'
      BY <1>0, <1>5, <2>1, OrderLeave DEF OrderInv
    <2>3. QED
      BY <2>1, <2>2, Zenon DEF OrderInv
  <1>6. CASE LeaveRoot
    <2>1. /\ Len(stack) = 1 /\ Len(stack) > 0 /\ phase' = "callbacks" /\ invoked' = invoked
          /\ table' = table /\ request' = request
      BY <1>6 DEF LeaveRoot
    <2>2. FlatList' = FlatList
      BY <2>1, FlatKept
    <2>3. CASE phase = "unwind" /\ served' = TRUE
      <3>1. Begun'
        BY <2>1, <2>2, <2>3, Zenon DEF OrderInv, Begun
      <3>2. QED
        BY <2>1, <2>3, <3>1, Zenon DEF OrderInv
    <2>4. CASE phase = "dispatch" /\ Top.idx > Len(Routes)
      <3>1. PICK tails : AreTails(tails) /\ FlatList = invoked \o LeftToInvoke(tails)
        BY <2>4, Zenon DEF Left, OrderInv
      <3>2. LeftToInvoke(tails) = tails[Len(stack)]
        BY <1>0, <2>1, <2>4, <3>1, NoneLeft, Zenon
      <3>3. tails[1] = <<>>
        BY <3>1, Zenon DEF AreTails
      <3>4. invoked \in Seq(RouteNames)
        BY <1>0 DEF TypeOK
      <3>5. invoked \o <<>> = invoked /\ <<>> \in Seq(RouteNames)
        BY <3>4, ConcatEmptySeq, EmptySeq
      <3>6. FlatList = invoked \o <<>>
        BY <2>1, <3>1, <3>2, <3>3, Zenon
      <3>7. FlatList' = invoked' /\ Begun'
        BY <2>1, <2>2, <3>5, <3>6, Zenon DEF Begun
      <3>8. QED
        BY <2>1, <3>7, Zenon DEF OrderInv
    <2>5. QED
      BY <1>6, <2>3, <2>4 DEF LeaveRoot
  <1>7. CASE ReturnDone
    <2>1. phase = "unwind" /\ phase' = "unwind" /\ invoked' = invoked /\ table' = table /\ request' = request
      BY <1>7 DEF ReturnDone
    <2>2. FlatList' = FlatList
      BY <2>1, FlatKept
    <2>3. Begun'
      BY <2>1, <2>2, Zenon DEF OrderInv, Begun
    <2>4. QED
      BY <2>1, <2>3, Zenon DEF OrderInv
  <1>8. CASE RunCallback
    <2>1. /\ phase = "callbacks" /\ phase' = "callbacks" /\ invoked' = invoked /\ table' = table
          /\ request' = request /\ served' = served
      BY <1>8 DEF RunCallback
    <2>2. FlatList' = FlatList
      BY <2>1, FlatKept
    <2>3. QED
      BY <2>1, <2>2, Zenon DEF OrderInv, Begun
  <1>9. CASE StopServing \/ Finish
    <2>1. phase' \in {"ready", "over"}
      BY <1>9 DEF StopServing, Finish
    <2>2. phase' # "dispatch" /\ phase' # "unwind" /\ phase' # "callbacks"
      BY <2>1
    <2>3. QED
      BY <2>2, Zenon DEF OrderInv
  <1>10. CASE UNCHANGED vars
    <2>1. /\ phase' = phase /\ invoked' = invoked /\ table' = table /\ request' = request
          /\ served' = served /\ stack' = stack /\ resource' = resource
      BY <1>10 DEF vars
    <2>2. FlatList' = FlatList
      BY <2>1, FlatKept
    <2>3. \A i : RestAt(i)' = RestAt(i)
      <3> SUFFICES ASSUME NEW i PROVE RestAt(i)' = RestAt(i)
        OBVIOUS
      <3>1. ResourceAt(i)' = ResourceAt(i) /\ stack'[i].router = stack[i].router
        BY <2>1, Zenon DEF ResourceAt
      <3>2. QED
        BY <2>1, <3>1, RestKept, Zenon
    <2>4. \A tails : AreTails(tails) => AreTails(tails)' /\ LeftToInvoke(tails)' = LeftToInvoke(tails)
      BY <2>1, <2>3, Zenon DEF AreTails, LeftToInvoke, Top
    <2>5. Left => Left'
      BY <2>1, <2>2, <2>4, Zenon DEF Left
    <2>6. QED
      BY <2>1, <2>2, <2>5, Zenon DEF OrderInv, Begun
  <1>11. QED
    BY <1>1, <1>2, <1>3, <1>4, <1>5, <1>6, <1>7, <1>8, <1>9, <1>10, Zenon DEF Next, Dispatch

\* Whatever routers are mounted in each other, a request is shown to the
\* routes of one flat list, from its first to the one that responds, and to
\* all of them if none does (hs_router.c:343-391, 500-537), if every mount
\* has a path and no router is mounted twice.
THEOREM DispatchFollowsOrderHolds ==
    ASSUME MountsHavePaths, MountedOnce
    PROVE  Spec => []DispatchFollowsOrder
  <1>1. Init => OrderInv
    BY DEF Init, OrderInv, LoopInv
  <1>2. TInv => FlatUnfolded
    BY FlatDef DEF TInv
  <1>3. TInv /\ SeenBelowMounts /\ NestInv /\ LoopInv => LevelsGood
    BY Levels
  <1>4. TInv /\ NestInv /\ LoopInv /\ [Next]_vars => LoopInv'
    BY LoopNext
  <1>5. /\ TInv /\ TypeOK' /\ OrderInv /\ LoopInv' /\ LevelsGood /\ LevelsGood'
        /\ FlatUnfolded /\ FlatUnfolded' /\ [Next]_vars
        => OrderInv'
    BY OrderNext
  <1>6. OrderInv => LoopInv
    BY DEF OrderInv
  <1>7. TInv => TypeOK
    BY DEF TInv
  <1>8. TInv /\ OrderInv => DispatchFollowsOrder
    <2> SUFFICES ASSUME TInv, OrderInv, phase = "callbacks", Rooted(request.resource)
                 PROVE  StartsWith(FlatList, invoked) /\ (~served => invoked = FlatList)
      BY Zenon DEF DispatchFollowsOrder, FlatList, Depth
    <2>1. Begun /\ (~served => FlatList = invoked)
      BY Zenon DEF OrderInv
    <2>2. PICK more \in Seq(RouteNames) : FlatList = invoked \o more
      BY <2>1, Zenon DEF Begun
    <2>3. PICK all : all = FlatList
      OBVIOUS
    <2>4. invoked \in Seq(RouteNames) /\ all = invoked \o more
      BY <2>2, <2>3 DEF TInv, TypeOK
    <2>5. StartsWith(all, invoked)
      BY <2>4 DEF StartsWith
    <2>6. QED
      BY <2>1, <2>3, <2>5, Zenon
  <1>9. QED
    BY <1>1, <1>2, <1>3, <1>4, <1>5, <1>6, <1>7, <1>8, TypeInit, TypeNext, SeenBelowMountsHolds,
       NestInvariance, PTL DEF Spec

=============================================================================
