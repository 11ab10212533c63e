------------------------- MODULE BuiltinRoutesProofs -------------------------
(***************************************************************************)
(* Proofs about BuiltinRoutes, for every pipeline of routes, every request *)
(* and every number of requests.                                           *)
(***************************************************************************)
EXTENDS BuiltinRoutes, SequenceLemmas

-----------------------------------------------------------------------------
\* Numbers and sets of numbers.

LEMMA MinOfSet ==
    ASSUME NEW S \in SUBSET Nat, S # {}
    PROVE  Min(S) \in S
  BY HasMin DEF Min

LEMMA MaxOfSet ==
    ASSUME NEW n \in Nat, NEW S \in SUBSET (1 .. n), S # {}
    PROVE  Max(S) \in S
  <1>1. S \in SUBSET (0 .. n)
    OBVIOUS
  <1>2. QED
    BY <1>1, HasMax DEF Max

\* What a client announces is a number, and so is what becomes of it.
LEMMA LengthTypes ==
    ASSUME NEW r \in Request
    PROVE  /\ Lengths(r) # {} => LastLength(r) \in Nat
           /\ ContentLength(r) \in 0 .. SizeValues - 1
  <1>1. SizeValues \in Nat /\ SizeValues > 0 /\ IntValues \in Nat /\ IntValues > 0
    BY WidthsAssumption
  <1>2. Lengths(r) # {} => LastLength(r) \in Nat
    <2>1. r.headers \in Seq(Header) /\ Len(r.headers) \in Nat
      BY DEF Request
    <2>2. Lengths(r) \in SUBSET (1 .. Len(r.headers))
      BY DEF Lengths
    <2>3. Lengths(r) # {} => Max(Lengths(r)) \in Lengths(r)
      BY <2>1, <2>2, MaxOfSet
    <2>4. \A i \in Lengths(r) : r.headers[i].value \in Nat
      <3>1. \A i \in 1 .. Len(r.headers) : r.headers[i] \in Header
        BY <2>1
      <3>2. QED
        BY <3>1 DEF Lengths, Header
    <2>5. QED
      BY <2>3, <2>4 DEF LastLength
  <1>3. \A n \in Nat : ToInt(n) \in Int
    BY <1>1 DEF ToInt
  <1>4. \A n \in Int : ToSize(n) \in 0 .. SizeValues - 1
    BY <1>1 DEF ToSize
  <1>5. QED
    BY <1>1, <1>2, <1>3, <1>4 DEF ContentLength

\* A length that fits an int is kept, and no length grows.
LEMMA LengthKept ==
    ASSUME NEW r \in Request, Lengths(r) # {}, ToInt(LastLength(r)) = LastLength(r)
    PROVE  ContentLength(r) = LastLength(r)
  <1> DEFINE length == LastLength(r)
  <1>1. length \in Nat
    BY LengthTypes
  <1>2. IntValues \in Nat /\ IntValues > 0 /\ SizeValues \in Nat /\ IntValues <= SizeValues
    BY WidthsAssumption
  <1>3. length % IntValues \in 0 .. IntValues - 1
    BY <1>1, <1>2
  <1>4. length < IntValues
    BY <1>1, <1>2, <1>3 DEF ToInt
  <1>5. ContentLength(r) = length % SizeValues
    BY DEF ContentLength, ToSize
  <1>6. QED
    BY <1>1, <1>2, <1>4, <1>5

\* A length header that is found has a value.
LEMMA LengthFound ==
    ASSUME NEW r \in Request, GetByKey(r.headers, "content-length") # Null
    PROVE  Lengths(r) # {}
  <1> DEFINE found == {i \in 1 .. Len(r.headers) : r.headers[i].key = "content-length"}
             at == IF found # {} THEN Min(found) ELSE 0
  <1>1. r.headers \in Seq(Header) /\ Len(r.headers) \in Nat
    BY DEF Request
  <1>2. GetByKey(r.headers, "content-length") = IF at = 0 THEN Null ELSE r.headers[at].value
    BY DEF GetByKey, SelectInSeq
  <1>3. found # {}
    BY <1>2
  <1>4. at \in 1 .. Len(r.headers)
    <2>1. found \in SUBSET Nat
      BY <1>1
    <2>2. at \in found
      BY <1>3, <2>1, MinOfSet
    <2>3. QED
      BY <2>2
  <1>5. QED
    BY <1>2, <1>4 DEF Lengths

-----------------------------------------------------------------------------
\* The inductive invariant.

\* A request has been parsed: it is looked at, or was answered.
Known == phase = "dispatch" \/ by # 0

Flow ==
    /\ Known => request \in Requests /\ counter > 0
    /\ phase = "dispatch" => by = 0 /\ code = 200
    /\ phase = "ready" /\ by = 0 => counter = 0
    /\ phase = "ready" /\ by # 0 => connection = "keep-alive"

\* The authorization is the client's, or lost its scheme on the way.
Cut(given) == [given EXCEPT !.basic = FALSE]

Authorized(k) == k < idx /\ pipeline[k].kind = "auth" /\ Applies(pipeline[k])

CameIn ==
    Known =>
        /\ contentLength = ContentLength(request)
        /\ \/ authorization = request.authorization
           \/ request.authorization # Null /\ authorization = Cut(request.authorization)
        /\ phase = "dispatch" /\ (\A k \in 1 .. Len(pipeline) : ~Authorized(k)) =>
              authorization = request.authorization

\* Why a route let the request through.
Lets(k) ==
    /\ pipeline[k].kind = "auth" => Accepted(k)
    /\ pipeline[k].kind = "length-required" => Lengths(request) # {}
    /\ pipeline[k].kind = "payload-limit" => contentLength <= pipeline[k].limit
    /\ pipeline[k].kind = "request-limit" /\ connection # "close" => counter < pipeline[k].limit
    /\ pipeline[k].kind = "time-limit" /\ connection # "close" /\ steady => arrived < pipeline[k].limit

PassedLet == Known => \A k \in 1 .. Len(pipeline) : k < idx /\ Applies(pipeline[k]) => Lets(k)

\* The route that answered, and why it refused.
Answered ==
    by # 0 =>
        /\ by = idx /\ by \in 1 .. Len(pipeline)
        /\ Applies(pipeline[by]) /\ pipeline[by].kind \in Answering
        /\ code = 401 /\ (\A k \in 1 .. Len(pipeline) : ~Authorized(k)) => ~Accepted(by)
        /\ code = 413 => contentLength > pipeline[by].limit

\* Requests come when the clock shows their time.
Clock == steady => arrived <= now

\* A request limit in front of every route that answers.
Foremost(k) ==
    /\ pipeline[k].kind = "request-limit"
    /\ pipeline[k].at = Resources /\ pipeline[k].methods = Methods
    /\ \A j \in 1 .. k - 1 : pipeline[j].kind \notin Answering

Bounded ==
    \A k \in 1 .. Len(pipeline) :
        Foremost(k) => counter <= IF pipeline[k].limit < 2 THEN 1 ELSE pipeline[k].limit

IInv == TypeOK /\ Flow /\ CameIn /\ PassedLet /\ Answered /\ Clock /\ Bounded

-----------------------------------------------------------------------------
\* Types of the constants, and of what is taken from them.

LEMMA PipelineType ==
    ASSUME TypeOK
    PROVE  /\ pipeline \in Seq(Route) /\ Len(pipeline) \in Nat
           /\ \A k \in 1 .. Len(pipeline) : pipeline[k] \in Route
  BY PipelinesAssumption DEF TypeOK


\* The headers that an answer adds.
Added == {<<>>, <<"WWW-Authenticate">>, <<"Location">>, <<"Cache-Control">>}

LEMMA NamesTypes ==
    /\ Added \subseteq Seq(Names)
    /\ \A kind : HeaderNames(kind) \in Seq(Names)
  <1>1. \A S : \A a, b, c \in S : <<a>> \in Seq(S) /\ <<a, b, c>> \in Seq(S)
    OBVIOUS
  <1>2. \A S : <<>> \in Seq(S)
    OBVIOUS
  <1>3. QED
    BY <1>1, <1>2 DEF Names, Added, HeaderNames

LEMMA RequestType ==
    ASSUME NEW r \in Requests
    PROVE  r \in Request
  BY RequestsAssumption

-----------------------------------------------------------------------------
\* The steps.

\* What a route may do to the request's authorization: cut off the scheme.
CutsOnly ==
    \/ authorization' = authorization
    \/ /\ Presents(authorization) /\ authorization' = Cut(authorization)
       /\ Current.kind = "auth" /\ Applies(Current)

\* With its scheme, the authorization is the client's.
LEMMA PresentedIsGiven ==
    ASSUME IInv, Known, Presents(authorization)
    PROVE  authorization = request.authorization
  <1>1. request.authorization \in Authorization \cup {Null}
    BY RequestType DEF IInv, Flow, Request
  <1>2. request.authorization # Null => Cut(request.authorization).basic = FALSE
    BY <1>1 DEF Cut, Authorization
  <1>3. QED
    BY <1>2 DEF IInv, CameIn, Presents

LEMMA CutKeeps ==
    ASSUME IInv, phase = "dispatch", CutsOnly, UNCHANGED request
    PROVE  /\ authorization' \in Authorization \cup {Null}
           /\ \/ authorization' = request'.authorization
              \/ request'.authorization # Null /\ authorization' = Cut(request'.authorization)
  <1>1. authorization \in Authorization \cup {Null}
    BY DEF IInv, TypeOK
  <1>2. CASE authorization' = authorization
    BY <1>1, <1>2 DEF IInv, CameIn, Known
  <1>3. CASE Presents(authorization) /\ authorization' = Cut(authorization)
    <2>1. authorization = request.authorization /\ authorization # Null
      BY <1>3, PresentedIsGiven DEF Known, Presents
    <2>2. Cut(authorization) \in Authorization
      BY <1>1, <2>1 DEF Cut, Authorization
    <2>3. QED
      BY <1>3, <2>1, <2>2
  <1>4. QED
    BY <1>2, <1>3 DEF CutsOnly

\* A route that lets the request through keeps the invariant.
LEMMA GoOnKeeps ==
    ASSUME IInv, phase = "dispatch", idx <= Len(pipeline), GoOn, CutsOnly,
           headers' \in Seq(Names), connection' \in {connection, "close"},
           \A k \in 1 .. Len(pipeline) : k = idx /\ Applies(pipeline[k]) => Lets(k)'
    PROVE  IInv'
  <1>1. UNCHANGED <<pipeline, phase, counter, now, steady, request, arrived, contentLength, code, by>>
        /\ idx' = idx + 1
    BY DEF GoOn, clock, requestVars
  <1>2. idx \in 1 .. Len(pipeline) /\ Len(pipeline) \in Nat
    BY PipelineType DEF IInv, TypeOK
  <1>3. TypeOK'
    BY <1>1, <1>2, CutKeeps DEF IInv, TypeOK
  <1>4. Flow'
    BY <1>1 DEF IInv, Flow, Known
  <1>5. CameIn'
    <2>1. contentLength' = ContentLength(request)'
      BY <1>1 DEF IInv, CameIn, Known
    <2>2. ASSUME \A k \in 1 .. Len(pipeline) : ~Authorized(k)'
          PROVE  authorization' = request'.authorization
      <3>1. \A k \in 1 .. Len(pipeline) : ~Authorized(k)
        <4>1. \A k \in 1 .. Len(pipeline) : k < idx => k < idx'
          BY <1>1, <1>2
        <4>2. QED
          BY <1>1, <2>2, <4>1 DEF Authorized, Applies
      <3>2. ~(Current.kind = "auth" /\ Applies(Current))
        BY <1>1, <1>2, <2>2 DEF Authorized, Applies, Current
      <3>3. QED
        BY <1>1, <3>1, <3>2 DEF CutsOnly, IInv, CameIn, Known
    <2>3. QED
      BY <1>1, <2>1, <2>2, CutKeeps DEF CameIn
  <1>6. PassedLet'
    <2>1. ASSUME NEW k \in 1 .. Len(pipeline), k < idx', Applies(pipeline[k])'
          PROVE  Lets(k)'
      <3>1. Applies(pipeline[k])
        BY <1>1, <2>1 DEF Applies
      <3>2. CASE k = idx
        BY <3>1, <3>2
      <3>3. CASE k < idx
        <4>1. Lets(k)
          BY <3>1, <3>3 DEF IInv, PassedLet, Known
        <4>2. QED
          BY <1>1, <4>1 DEF Lets, Accepted
      <3>4. QED
        BY <1>1, <1>2, <2>1, <3>2, <3>3
    <2>2. QED
      BY <1>1, <2>1 DEF PassedLet
  <1>7. Answered' /\ Clock' /\ Bounded'
    BY <1>1 DEF IInv, Flow, Answered, Clock, Bounded, Foremost
  <1>8. QED
    BY <1>3, <1>4, <1>5, <1>6, <1>7 DEF IInv

\* A route that answers keeps the invariant.
LEMMA AnswerKeeps ==
    ASSUME IInv, phase = "dispatch", idx <= Len(pipeline), CutsOnly,
           Applies(Current), Current.kind \in Answering,
           NEW status \in {200, 307, 401, 404, 411, 413}, NEW names \in Seq(Names),
           Answer(status, names), connection' \in {connection, "close"},
           status = 401 /\ (\A k \in 1 .. Len(pipeline) : ~Authorized(k)) => ~Accepted(idx),
           status = 413 => contentLength > Current.limit
    PROVE  IInv'
  <1>1. /\ UNCHANGED <<pipeline, idx, counter, now, steady, request, arrived, contentLength>>
        /\ code' = status /\ headers' = headers \o names /\ by' = idx
        /\ phase' \in {"ready", "over"} /\ (phase' = "ready" => connection' = "keep-alive")
    BY DEF Answer, KeepsOpen, clock, requestVars
  <1>2. idx \in 1 .. Len(pipeline) /\ Len(pipeline) \in Nat
    BY PipelineType DEF IInv, TypeOK
  <1>3. TypeOK'
    BY <1>1, <1>2, CutKeeps DEF IInv, TypeOK
  <1>4. Flow'
    BY <1>1, <1>2 DEF IInv, Flow, Known
  <1>5. CameIn'
    BY <1>1, CutKeeps DEF IInv, CameIn, Known
  <1>6. PassedLet'
    <2>1. ASSUME NEW k \in 1 .. Len(pipeline), k < idx, Applies(pipeline[k])'
          PROVE  Lets(k)'
      <3>1. Lets(k)
        BY <1>1, <2>1 DEF IInv, PassedLet, Known, Applies
      <3>2. QED
        BY <1>1, <3>1 DEF Lets, Accepted
    <2>2. QED
      BY <1>1, <2>1 DEF PassedLet
  <1>7. Answered'
    <2>1. Applies(pipeline[idx])' /\ pipeline[idx]'.kind \in Answering
      BY <1>1 DEF Applies, Current
    <2>2. code' = 401 /\ (\A k \in 1 .. Len(pipeline) : ~Authorized(k)') => ~Accepted(idx)'
      BY <1>1 DEF Authorized, Applies, Accepted
    <2>3. code' = 413 => contentLength' > pipeline'[idx].limit
      BY <1>1 DEF Current
    <2>4. QED
      BY <1>1, <1>2, <2>1, <2>2, <2>3 DEF Answered
  <1>8. Clock' /\ Bounded'
    BY <1>1 DEF IInv, Clock, Bounded, Foremost
  <1>9. QED
    BY <1>3, <1>4, <1>5, <1>6, <1>7, <1>8 DEF IInv

\* The clock ticks or is set back, the peer leaves, or no route is left.
LEMMA OthersKeep ==
    ASSUME IInv, \/ PeerLeaves \/ ClockTicks \/ NoRouteLeft
                 \/ \E time \in -1 .. MaxTime : ClockSetBack(time)
    PROVE  IInv'
  <1>1. /\ UNCHANGED <<pipeline, idx, counter, request, arrived, contentLength, authorization, connection,
                       headers, code, by>>
        /\ phase' \in {phase, "over"} /\ now' \in -1 .. MaxTime /\ steady' \in BOOLEAN
        /\ steady' => steady /\ now <= now'
    <2>1. now \in -1 .. MaxTime /\ steady \in BOOLEAN /\ MaxTime \in Nat
      BY BoundsAssumption DEF IInv, TypeOK
    <2>2. CASE PeerLeaves \/ NoRouteLeft
      BY <2>1, <2>2 DEF PeerLeaves, NoRouteLeft, clock, requestVars
    <2>3. CASE ClockTicks
      BY <2>1, <2>3 DEF ClockTicks, requestVars
    <2>4. CASE \E time \in -1 .. MaxTime : ClockSetBack(time)
      BY <2>1, <2>4 DEF ClockSetBack, requestVars
    <2>5. QED
      BY <2>2, <2>3, <2>4
  <1>2. TypeOK'
    BY <1>1 DEF IInv, TypeOK
  <1>3. Flow' /\ CameIn'
    BY <1>1 DEF IInv, Flow, CameIn, Known, Authorized, Applies
  <1>4. PassedLet'
    <2>1. ASSUME NEW k \in 1 .. Len(pipeline), Lets(k)
          PROVE  Lets(k)'
      BY <1>1, <2>1 DEF Lets, Accepted
    <2>2. QED
      BY <1>1, <2>1 DEF IInv, PassedLet, Known, Applies
  <1>5. Answered'
    BY <1>1 DEF IInv, Answered, Applies, Authorized, Accepted
  <1>6. Clock' /\ Bounded'
    <2>1. arrived \in -1 .. MaxTime /\ now \in -1 .. MaxTime
      BY DEF IInv, TypeOK
    <2>2. QED
      BY <1>1, <2>1, BoundsAssumption DEF IInv, Clock, Bounded, Foremost
  <1>7. QED
    BY <1>2, <1>3, <1>4, <1>5, <1>6 DEF IInv

\* A foremost limit was met by a request that was answered, and not reached
\* if the connection goes on.
LEMMA ForemostMet ==
    ASSUME IInv, phase = "ready", by # 0, NEW k \in 1 .. Len(pipeline), Foremost(k)
    PROVE  counter < pipeline[k].limit
  <1>1. by \in 1 .. Len(pipeline) /\ by = idx /\ pipeline[by].kind \in Answering
    BY DEF IInv, Answered
  <1>2. Len(pipeline) \in Nat
    BY PipelineType DEF IInv
  <1>3. k < by
    BY <1>1, <1>2 DEF Foremost, Answering
  <1>4. request \in Request
    BY RequestType DEF IInv, Flow, Known
  <1>5. Applies(pipeline[k])
    BY <1>4 DEF Foremost, Applies, Request
  <1>6. Lets(k)
    BY <1>1, <1>3, <1>5 DEF IInv, PassedLet, Known
  <1>7. QED
    BY <1>6 DEF IInv, Flow, Lets, Foremost

LEMMA ParseKeeps ==
    ASSUME IInv, NEW r \in Requests, Parse(r)
    PROVE  IInv'
  <1>1. /\ UNCHANGED <<pipeline, now, steady>>
        /\ phase = "ready" /\ counter < MaxRequests /\ counter' = counter + 1
        /\ request' = r /\ arrived' = now /\ contentLength' = ContentLength(r)
        /\ authorization' = r.authorization /\ connection' = r.connection
        /\ headers' = <<>> /\ code' = 200 /\ by' = 0 /\ idx' = 1 /\ phase' = "dispatch"
    BY DEF Parse, NewResponse, AuthorizationOf, clock
  <1>2. counter \in Nat /\ MaxRequests \in Nat /\ now \in Int /\ Len(pipeline) \in Nat
    BY BoundsAssumption, PipelineType DEF IInv, TypeOK
  <1>3. TypeOK'
    <2>1. r \in Request /\ contentLength' \in 0 .. SizeValues - 1
      BY <1>1, RequestType, LengthTypes
    <2>2. authorization' \in Authorization \cup {Null} /\ connection' \in {"unknown", "close", "keep-alive"}
      BY <1>1, <2>1 DEF Request
    <2>3. QED
      BY <1>1, <1>2, <2>1, <2>2, BoundsAssumption DEF IInv, TypeOK
  <1>4. Flow' /\ CameIn' /\ PassedLet' /\ Answered'
    BY <1>1, <1>2 DEF Flow, CameIn, PassedLet, Answered
  <1>5. Clock'
    BY <1>1, <1>2 DEF Clock
  <1>6. Bounded'
    <2>1. ASSUME NEW k \in 1 .. Len(pipeline), Foremost(k)
          PROVE  counter + 1 <= IF pipeline[k].limit < 2 THEN 1 ELSE pipeline[k].limit
      <3>1. pipeline[k].limit \in Nat
        BY PipelineType DEF IInv, Route
      <3>2. CASE by = 0
        BY <1>1, <3>1, <3>2 DEF IInv, Flow
      <3>3. CASE by # 0
        <4>1. counter < pipeline[k].limit
          BY <1>1, <2>1, <3>3, ForemostMet
        <4>2. counter > 0
          BY <3>3 DEF IInv, Flow, Known
        <4>3. QED
          BY <1>2, <3>1, <4>1, <4>2
      <3>4. QED
        BY <3>2, <3>3
    <2>2. QED
      BY <1>1, <2>1 DEF Bounded, Foremost
  <1>7. QED
    BY <1>3, <1>4, <1>5, <1>6 DEF IInv

-----------------------------------------------------------------------------
\* The routes.

\* The route at idx, where the loop over the routes looks at it.
LEMMA CurrentType ==
    ASSUME IInv, idx <= Len(pipeline)
    PROVE  Current = pipeline[idx] /\ Current \in Route /\ idx \in 1 .. Len(pipeline)
  BY PipelineType DEF IInv, TypeOK, Current

\* Routes that ask for nothing and let every request through.
LEMMA FiltersKeep ==
    ASSUME IInv, SkipRoute \/ AddHeaders \/ NothingStored
    PROVE  IInv'
  <1>1. /\ phase = "dispatch" /\ idx <= Len(pipeline) /\ GoOn /\ UNCHANGED <<authorization, connection>>
        /\ headers' \in {headers, headers \o HeaderNames(Current.kind)}
        /\ Applies(Current) => Current.kind \in Filters \cup {"favicon", "directory", "file"}
    BY DEF SkipRoute, AddHeaders, NothingStored, AtRoute
  <1>2. headers' \in Seq(Names)
    <2>1. headers \in Seq(Names)
      BY DEF IInv, TypeOK
    <2>2. HeaderNames(Current.kind) \in Seq(Names)
      BY NamesTypes
    <2>3. headers \o HeaderNames(Current.kind) \in Seq(Names)
      BY <2>1, <2>2
    <2>4. QED
      BY <1>1, <2>1, <2>3
  <1>3. \A k \in 1 .. Len(pipeline) : k = idx /\ Applies(pipeline[k]) => Lets(k)'
    BY <1>1 DEF Current, Filters, GoOn, Lets
  <1>4. QED
    BY <1>1, <1>2, <1>3, GoOnKeeps DEF CutsOnly

LEMMA LimitsKeep ==
    ASSUME IInv, LimitRequests \/ LimitTime
    PROVE  IInv'
  <1>1. /\ phase = "dispatch" /\ idx <= Len(pipeline) /\ GoOn /\ UNCHANGED <<authorization, headers>>
        /\ connection' \in {connection, "close"}
        /\ Current.kind \in {"request-limit", "time-limit"}
        /\ Current.kind = "request-limit" => connection' = "close" \/ ~LimitReached(Current.limit)
        /\ Current.kind = "time-limit" => connection' = "close" \/ ~TimeIsUp(Current.limit)
    BY DEF LimitRequests, LimitTime, AtRoute
  <1>2. Current = pipeline[idx] /\ Current.limit \in Nat /\ idx \in 1 .. Len(pipeline)
    BY <1>1, CurrentType DEF Route
  <1>3. UNCHANGED <<pipeline, counter, now, arrived, steady>>
    BY <1>1 DEF GoOn, clock, requestVars
  <1>4. counter \in Nat /\ now \in Int /\ arrived \in Int /\ (steady => arrived <= now)
    BY BoundsAssumption DEF IInv, TypeOK, Clock
  <1>6. \A k \in 1 .. Len(pipeline) : k = idx /\ Applies(pipeline[k]) => Lets(k)'
    <2>1. Current.kind = "request-limit" /\ connection' # "close" => counter' < Current.limit
      BY <1>1, <1>2, <1>3, <1>4 DEF LimitReached
    <2>2. Current.kind = "time-limit" /\ connection' # "close" /\ steady' => arrived' < Current.limit
      BY <1>1, <1>2, <1>3, <1>4 DEF TimeIsUp
    <2>3. QED
      BY <1>1, <1>2, <1>3, <2>1, <2>2 DEF Lets
  <1>7. headers' \in Seq(Names)
    BY <1>1 DEF IInv, TypeOK
  <1>8. QED
    BY <1>1, <1>6, <1>7, GoOnKeeps DEF CutsOnly

LEMMA RequireLengthKeeps ==
    ASSUME IInv, RequireLength
    PROVE  IInv'
  <1>1. /\ phase = "dispatch" /\ idx <= Len(pipeline) /\ Applies(Current)
        /\ Current.kind = "length-required" /\ UNCHANGED <<authorization, connection>>
    BY DEF RequireLength, AtRoute
  <1>2. CASE GetByKey(request.headers, "content-length") # Null /\ GoOn /\ UNCHANGED headers
    <2>1. UNCHANGED <<pipeline, request>>
      BY <1>2 DEF GoOn, requestVars
    <2>2. Lengths(request) # {}
      BY <1>1, <1>2, RequestType, LengthFound DEF IInv, Flow, Known
    <2>3. \A k \in 1 .. Len(pipeline) : k = idx /\ Applies(pipeline[k]) => Lets(k)'
      BY <1>1, <2>1, <2>2 DEF Current, Lets
    <2>4. headers' \in Seq(Names)
      BY <1>2 DEF IInv, TypeOK
    <2>5. QED
      BY <1>1, <1>2, <2>3, <2>4, GoOnKeeps DEF CutsOnly
  <1>3. CASE Answer(411, <<>>)
    <2>1. Current.kind \in Answering /\ CutsOnly /\ connection' \in {connection, "close"}
      BY <1>1 DEF CutsOnly, Answering, Kinds, Filters
    <2>2. PICK status \in {404, 411}, names \in Added : Answer(status, names)
      BY <1>3 DEF Added
    <2>3. names \in Seq(Names)
      BY NamesTypes
    <2>4. /\ status \in {200, 307, 401, 404, 411, 413}
          /\ status = 401 /\ (\A k \in 1 .. Len(pipeline) : ~Authorized(k)) => ~Accepted(idx)
          /\ status = 413 => contentLength > Current.limit
      OBVIOUS
    <2>5. QED
      BY <1>1, <2>1, <2>2, <2>3, <2>4, AnswerKeeps
  <1>4. QED
    BY <1>2, <1>3 DEF RequireLength

LEMMA LimitPayloadKeeps ==
    ASSUME IInv, LimitPayload
    PROVE  IInv'
  <1>1. /\ phase = "dispatch" /\ idx <= Len(pipeline) /\ Applies(Current)
        /\ Current.kind = "payload-limit" /\ UNCHANGED <<authorization, connection>>
    BY DEF LimitPayload, AtRoute
  <1>2. CASE contentLength <= Current.limit /\ GoOn /\ UNCHANGED headers
    <2>1. UNCHANGED <<pipeline, contentLength>>
      BY <1>2 DEF GoOn, requestVars
    <2>2. \A k \in 1 .. Len(pipeline) : k = idx /\ Applies(pipeline[k]) => Lets(k)'
      BY <1>1, <1>2, <2>1 DEF Current, Lets
    <2>3. headers' \in Seq(Names)
      BY <1>2 DEF IInv, TypeOK
    <2>4. QED
      BY <1>1, <1>2, <2>2, <2>3, GoOnKeeps DEF CutsOnly
  <1>3. CASE ~(contentLength <= Current.limit) /\ Answer(413, <<>>)
    <2>1. contentLength > Current.limit
      <3>1. contentLength \in Nat /\ Current.limit \in Nat
        BY <1>1, CurrentType, WidthsAssumption DEF IInv, TypeOK, Route
      <3>2. QED
        BY <1>3, <3>1
    <2>2. Current.kind \in Answering /\ CutsOnly /\ connection' \in {connection, "close"}
      BY <1>1 DEF CutsOnly, Answering, Kinds, Filters
    <2>3. PICK status \in {404, 413}, names \in Added : Answer(status, names)
      BY <1>3 DEF Added
    <2>4. names \in Seq(Names)
      BY NamesTypes
    <2>5. /\ status \in {200, 307, 401, 404, 411, 413}
          /\ status = 401 /\ (\A k \in 1 .. Len(pipeline) : ~Authorized(k)) => ~Accepted(idx)
          /\ status = 413 => contentLength > Current.limit
      BY <2>1
    <2>6. QED
      BY <1>1, <2>2, <2>3, <2>4, <2>5, AnswerKeeps
  <1>4. QED
    BY <1>2, <1>3 DEF LimitPayload

LEMMA AuthenticateKeeps ==
    ASSUME IInv, Authenticate
    PROVE  IInv'
  <1> DEFINE passes == Presents(authorization) /\ authorization.credential \in Current.accepts
  <1>1. /\ phase = "dispatch" /\ idx <= Len(pipeline) /\ Applies(Current)
        /\ Current.kind = "auth" /\ UNCHANGED connection /\ CutsOnly
    BY DEF Authenticate, AtRoute, CutsOnly, Cut
  <1>2. CASE passes /\ GoOn /\ UNCHANGED headers
    <2>1. UNCHANGED <<pipeline, request>>
      BY <1>2 DEF GoOn, requestVars
    <2>2. authorization = request.authorization
      BY <1>1, <1>2, PresentedIsGiven DEF Known
    <2>3. \A k \in 1 .. Len(pipeline) : k = idx /\ Applies(pipeline[k]) => Lets(k)'
      BY <1>1, <1>2, <2>1, <2>2 DEF Current, Lets, Accepted
    <2>4. headers' \in Seq(Names)
      BY <1>2 DEF IInv, TypeOK
    <2>5. QED
      BY <1>1, <1>2, <2>3, <2>4, GoOnKeeps
  <1>3. CASE ~passes /\ Answer(401, <<"WWW-Authenticate">>)
    <2>1. (\A k \in 1 .. Len(pipeline) : ~Authorized(k)) => ~Accepted(idx)
      BY <1>1, <1>3 DEF IInv, CameIn, Known, Accepted, Current
    <2>2. Current.kind \in Answering /\ connection' \in {connection, "close"}
      BY <1>1 DEF Answering, Kinds, Filters
    <2>3. PICK status \in {401, 404}, names \in Added : Answer(status, names)
      BY <1>3 DEF Added
    <2>4. names \in Seq(Names)
      BY NamesTypes
    <2>5. QED
      BY <1>1, <2>1, <2>2, <2>3, <2>4, AnswerKeeps
  <1>4. QED
    BY <1>2, <1>3 DEF Authenticate

\* Routes that answer and refuse nothing.
LEMMA ServesKeep ==
    ASSUME IInv, \/ ServeStatic \/ Redirect \/ NotFound
                 \/ ServeFavicon \/ ServeDirectory \/ ServeFile
    PROVE  IInv'
  <1>1. PICK status \in {200, 307, 404}, names \in Added : Answer(status, names)
    BY DEF Added, ServeStatic, Redirect, NotFound, ServeFavicon, ServeDirectory, ServeFile
  <1>2. /\ phase = "dispatch" /\ idx <= Len(pipeline) /\ Applies(Current)
        /\ Current.kind \in {"static", "redirect", "not-found", "favicon", "directory", "file"}
        /\ UNCHANGED authorization /\ connection' \in {connection, "close"}
    BY DEF ServeStatic, Redirect, NotFound, ServeFavicon, ServeDirectory, ServeFile, AtRoute
  <1>3. Current.kind \in Answering /\ CutsOnly
    BY <1>2 DEF CutsOnly, Answering, Kinds, Filters
  <1>4. names \in Seq(Names)
    BY NamesTypes
  <1>5. QED
    BY <1>1, <1>2, <1>3, <1>4, AnswerKeeps

-----------------------------------------------------------------------------
\* Theorems.

LEMMA InitInvariant == Init => IInv
  <1> SUFFICES ASSUME Init PROVE IInv
    OBVIOUS
  <1>1. pipeline \in Seq(Route) /\ Len(pipeline) \in Nat
    BY PipelinesAssumption DEF Init
  <1>2. TypeOK
    BY <1>1, BoundsAssumption, WidthsAssumption DEF Init, TypeOK
  <1>3. Bounded
    <2>1. \A k \in 1 .. Len(pipeline) : pipeline[k].limit \in Nat
      <3>1. \A k \in 1 .. Len(pipeline) : pipeline[k] \in Route
        BY <1>1
      <3>2. QED
        BY <3>1 DEF Route
    <2>2. QED
      BY <2>1 DEF Init, Bounded
  <1>4. QED
    BY <1>2, <1>3 DEF Init, IInv, Flow, CameIn, PassedLet, Answered, Clock, Known

LEMMA NextInvariant == IInv /\ [Next]_vars => IInv'
  <1> SUFFICES ASSUME IInv, [Next]_vars PROVE IInv'
    OBVIOUS
  <1>1. CASE \E r \in Requests : Parse(r)
    BY <1>1, ParseKeeps
  <1>2. CASE PeerLeaves \/ ClockTicks \/ NoRouteLeft \/ \E time \in -1 .. MaxTime : ClockSetBack(time)
    BY <1>2, OthersKeep
  <1>3. CASE SkipRoute \/ AddHeaders \/ NothingStored
    BY <1>3, FiltersKeep
  <1>4. CASE LimitRequests \/ LimitTime
    BY <1>4, LimitsKeep
  <1>5. CASE RequireLength
    BY <1>5, RequireLengthKeeps
  <1>6. CASE LimitPayload
    BY <1>6, LimitPayloadKeeps
  <1>7. CASE Authenticate
    BY <1>7, AuthenticateKeeps
  <1>8. CASE ServeStatic \/ Redirect \/ NotFound \/ ServeFavicon \/ ServeDirectory \/ ServeFile
    BY <1>8, ServesKeep
  <1>9. CASE UNCHANGED vars
    BY <1>9 DEF IInv, TypeOK, Flow, CameIn, PassedLet, Lets, Answered, Authorized, Applies, Accepted, Clock,
                Bounded, Foremost, Known, vars, clock, requestVars
  <1>10. QED
    BY <1>1, <1>2, <1>3, <1>4, <1>5, <1>6, <1>7, <1>8, <1>9 DEF Next, Dispatch

THEOREM Invariance == Spec => []IInv
  BY InitInvariant, NextInvariant, PTL DEF Spec

\* Every variable keeps its type.
THEOREM TypeCorrect == Spec => []TypeOK
  <1>1. IInv => TypeOK
    BY DEF IInv
  <1>2. QED
    BY <1>1, Invariance, PTL

\* A connection goes on only if no limit on the way of its last request was
\* reached, whatever routes there are and wherever the limits stand.
THEOREM LimitsHoldAlways == Spec => []LimitsHold
  <1>1. ASSUME IInv PROVE LimitsHold
    <2>1. ASSUME phase = "ready", by # 0, NEW k \in 1 .. by - 1, Applies(pipeline[k])
          PROVE  /\ pipeline[k].kind = "request-limit" => counter < pipeline[k].limit
                 /\ pipeline[k].kind = "time-limit" /\ steady => arrived < pipeline[k].limit
      <3>1. by = idx /\ by \in 1 .. Len(pipeline) /\ Len(pipeline) \in Nat
        BY <1>1, <2>1, PipelineType DEF IInv, Answered
      <3>2. k \in 1 .. Len(pipeline) /\ k < idx
        BY <3>1
      <3>3. Lets(k)
        BY <1>1, <2>1, <3>2 DEF IInv, PassedLet, Known
      <3>4. connection = "keep-alive"
        BY <1>1, <2>1 DEF IInv, Flow
      <3>5. QED
        BY <3>3, <3>4 DEF Lets
    <2>2. QED
      BY <1>1, <2>1 DEF LimitsHold, Passed, IInv, Bounded, Foremost
  <1>2. QED
    BY <1>1, Invariance, PTL

\* Whoever gets past a guard was to be let through, and whoever is refused
\* lacks what the guard asks for, whatever routes there are.
THEOREM GuardsHoldAlways == Spec => []GuardsHold
  <1>1. ASSUME IInv, by # 0
        PROVE  /\ \A k \in Passed({"auth"}) : Accepted(k)
               /\ \A k \in Passed({"length-required"}) : Lengths(request) # {}
               /\ \A k \in Passed({"payload-limit"}) :
                     Lengths(request) # {} /\ Fits => Announced <= pipeline[k].limit
               /\ code = 401 /\ Passed({"auth"}) = {} => ~Accepted(by)
               /\ code = 413 /\ Fits => Announced > pipeline[by].limit
    <2>1. by = idx /\ by \in 1 .. Len(pipeline) /\ Len(pipeline) \in Nat /\ request \in Request
      BY <1>1, PipelineType, RequestType DEF IInv, Answered, Flow, Known
    <2>2. \A k \in 1 .. by - 1 : k \in 1 .. Len(pipeline) /\ k < idx
      BY <2>1
    <2>3. \A k \in 1 .. by - 1 : Applies(pipeline[k]) => Lets(k)
      BY <1>1, <2>2 DEF IInv, PassedLet, Known
    <2>4. contentLength = ContentLength(request)
      BY <1>1 DEF IInv, CameIn, Known
    <2>5. Lengths(request) # {} /\ Fits => contentLength = Announced
      BY <2>1, <2>4, LengthKept DEF Fits, Announced
    <2>6. \A k \in Passed({"payload-limit"}) :
             Lengths(request) # {} /\ Fits => Announced <= pipeline[k].limit
      BY <2>3, <2>5 DEF Passed, Lets
    <2>7. code = 401 /\ Passed({"auth"}) = {} => ~Accepted(by)
      <3>1. ASSUME Passed({"auth"}) = {}
            PROVE  \A k \in 1 .. Len(pipeline) : ~Authorized(k)
        <4>1. \A k \in 1 .. Len(pipeline) : k < idx => k \in 1 .. by - 1
          BY <2>1
        <4>2. QED
          BY <3>1, <4>1 DEF Passed, Authorized
      <3>2. QED
        BY <1>1, <3>1 DEF IInv, Answered
    <2>8. code = 413 /\ Fits => Announced > pipeline[by].limit
      <3>1. ASSUME code = 413 PROVE contentLength > pipeline[by].limit
        BY <1>1, <3>1 DEF IInv, Answered
      <3>2. pipeline[by].limit \in Nat
        BY <1>1, <2>1, PipelineType DEF IInv, Route
      <3>3. ASSUME code = 413 PROVE Lengths(request) # {}
        BY <2>4, <3>1, <3>2, <3>3 DEF ContentLength
      <3>4. QED
        BY <2>5, <3>1, <3>3
    <2>9. QED
      BY <2>3, <2>6, <2>7, <2>8 DEF Passed, Lets
  <1>2. IInv => GuardsHold
    BY <1>1 DEF GuardsHold
  <1>3. QED
    BY <1>2, Invariance, PTL

-----------------------------------------------------------------------------
\* The headers of a response.

\* The route at k adds its headers to those that the ones before it made.
Passes(k) == pipeline[k].kind \in Filters /\ Applies(pipeline[k])
After(k, before) == IF Passes(k) THEN before \o HeaderNames(pipeline[k].kind) ELSE before

\* f[k] is what the first k routes add.
IsTrail(f, n) ==
    /\ f \in [0 .. n -> Seq(Names)]
    /\ f[0] = <<>>
    /\ \A k \in 1 .. n : f[k] = After(k, f[k - 1])

\* The headers are those of the routes passed, and of the one that answered.
Trailed(f) ==
    /\ IsTrail(f, idx - 1)
    /\ IF by = 0 THEN headers = f[idx - 1] ELSE \E names \in Added : headers = f[idx - 1] \o names

HInv == Known => \E f : Trailed(f)

LEMMA TrailKept ==
    ASSUME NEW f, NEW n \in Nat, IsTrail(f, n), UNCHANGED <<pipeline, request>>
    PROVE  IsTrail(f, n)'
  BY DEF IsTrail, After, Passes, Applies

LEMMA TrailExtended ==
    ASSUME NEW f, NEW n \in Nat, IsTrail(f, n)
    PROVE  \E g : IsTrail(g, n + 1) /\ g[n + 1] = After(n + 1, f[n])
  <1> DEFINE next == After(n + 1, f[n])
  <1>1. f[n] \in Seq(Names) /\ f \in [0 .. n -> Seq(Names)] /\ f[0] = <<>>
    BY DEF IsTrail
  <1>2. next \in Seq(Names)
    <2>1. HeaderNames(pipeline[n + 1].kind) \in Seq(Names)
      BY NamesTypes
    <2>2. f[n] \o HeaderNames(pipeline[n + 1].kind) \in Seq(Names)
      BY <1>1, <2>1, ConcatProperties
    <2>3. QED
      BY <1>1, <2>2 DEF After
  <1>3. \A k \in 1 .. n : f[k] = After(k, f[k - 1])
    BY DEF IsTrail
  <1>4. PICK e \in Seq(Names) : e = next
    BY <1>2
  <1>5. PICK g : g = [k \in 0 .. n + 1 |-> IF k = n + 1 THEN e ELSE f[k]]
    OBVIOUS
  <1>6. \A k \in 0 .. n : g[k] = f[k]
    BY ONLY <1>5, n \in Nat
  <1>7. g[n + 1] = e /\ g[0] = <<>>
    BY ONLY <1>1, <1>5, n \in Nat
  <1>8. g \in [0 .. n + 1 -> Seq(Names)]
    BY ONLY <1>1, <1>5, n \in Nat, e \in Seq(Names)
  <1>9. ASSUME NEW k \in 1 .. n + 1 PROVE g[k] = After(k, g[k - 1])
    <2>1. CASE k \in 1 .. n
      <3>1. k \in 0 .. n /\ k - 1 \in 0 .. n
        BY ONLY <2>1, n \in Nat
      <3>2. g[k] = f[k] /\ g[k - 1] = f[k - 1]
        BY ONLY <1>6, <3>1
      <3>3. QED
        BY ONLY <1>3, <2>1, <3>2
    <2>2. CASE k = n + 1
      <3>1. k - 1 = n /\ n \in 0 .. n
        BY ONLY <2>2, n \in Nat
      <3>2. g[k - 1] = f[n]
        BY ONLY <1>6, <3>1
      <3>3. QED
        BY ONLY <1>4, <1>7, <2>2, <3>2
    <2>3. k \in 1 .. n \/ k = n + 1
      BY ONLY n \in Nat, k \in 1 .. n + 1
    <2>4. QED
      BY <2>1, <2>2, <2>3
  <1> HIDE DEF next
  <1>10. IsTrail(g, n + 1)
    BY <1>7, <1>8, <1>9 DEF IsTrail
  <1>11. QED
    BY <1>4, <1>7, <1>10 DEF next

\* A route that lets the request through has added its headers, if any.
LEMMA HeadersGoOn ==
    ASSUME IInv, HInv, phase = "dispatch", idx <= Len(pipeline), GoOn,
           headers' = After(idx, headers)
    PROVE  HInv'
  <1>1. UNCHANGED <<pipeline, request, by, phase>> /\ idx' = idx + 1
    BY DEF GoOn, requestVars
  <1>2. by = 0
    BY DEF IInv, Flow
  <1>3. PICK n \in Nat : n + 1 = idx /\ n = idx - 1 /\ n + 1 = idx' - 1
    <2>1. idx \in 1 .. Len(pipeline)
      BY PipelineType DEF IInv, TypeOK
    <2>2. idx - 1 \in Nat /\ (idx - 1) + 1 = idx /\ (idx - 1) + 1 = idx' - 1
      BY <1>1, <2>1
    <2>3. QED
      BY <2>2
  <1>4. PICK f : IsTrail(f, n) /\ headers = f[n]
    BY <1>2, <1>3 DEF HInv, Known, Trailed
  <1>5. PICK g : IsTrail(g, n + 1) /\ g[n + 1] = After(n + 1, f[n])
    BY <1>4, TrailExtended
  <1>6. IsTrail(g, n + 1)'
    BY <1>1, <1>5, TrailKept
  <1>7. headers' = g[n + 1]
    BY <1>3, <1>4, <1>5
  <1>8. Trailed(g)'
    BY <1>1, <1>2, <1>3, <1>6, <1>7 DEF Trailed
  <1>9. QED
    BY <1>8 DEF HInv

\* A route that answers adds at most one header.
LEMMA HeadersAnswer ==
    ASSUME IInv, HInv, phase = "dispatch", idx <= Len(pipeline),
           NEW status, NEW names \in Added, Answer(status, names)
    PROVE  HInv'
  <1>1. UNCHANGED <<pipeline, request, idx>> /\ by' = idx /\ headers' = headers \o names
    BY DEF Answer, requestVars
  <1>2. by = 0 /\ idx \in 1 .. Len(pipeline)
    BY PipelineType DEF IInv, Flow, TypeOK
  <1>3. idx - 1 \in Nat /\ by' # 0
    BY <1>1, <1>2
  <1>4. PICK f : IsTrail(f, idx - 1) /\ headers = f[idx - 1]
    BY <1>2 DEF HInv, Known, Trailed
  <1>5. IsTrail(f, idx - 1)'
    BY <1>1, <1>3, <1>4 DEF IsTrail, After, Passes, Applies
  <1>6. Trailed(f)'
    BY <1>1, <1>3, <1>4, <1>5 DEF Trailed
  <1>7. QED
    BY <1>6 DEF HInv

LEMMA HeadersSame ==
    ASSUME HInv, UNCHANGED <<pipeline, request, idx, by, headers>>, Known' => Known
    PROVE  HInv'
  <1>1. ASSUME NEW f, Trailed(f) PROVE Trailed(f)'
    BY <1>1 DEF Trailed, IsTrail, After, Passes, Applies
  <1>2. QED
    BY <1>1 DEF HInv

LEMMA HeadersNext ==
    ASSUME IInv, HInv, [Next]_vars
    PROVE  HInv'
  <1>1. ASSUME NEW r \in Requests, Parse(r) PROVE HInv'
    <2>1. idx' = 1 /\ by' = 0 /\ headers' = <<>> /\ 1 - 1 = 0
      BY <1>1 DEF Parse, NewResponse
    <2>2. PICK f : f = [k \in 0 .. 0 |-> <<>>]
      OBVIOUS
    <2>3. f \in [0 .. 0 -> Seq(Names)] /\ f[0] = <<>> /\ 1 .. 0 = {}
      BY <2>2
    <2>4. IsTrail(f, 0)'
      BY <2>3 DEF IsTrail
    <2>5. Trailed(f)'
      BY <2>1, <2>3, <2>4 DEF Trailed
    <2>6. QED
      BY <2>5 DEF HInv
  <1>2. CASE PeerLeaves \/ ClockTicks \/ NoRouteLeft \/ \E time \in -1 .. MaxTime : ClockSetBack(time)
    BY <1>2, HeadersSame DEF PeerLeaves, ClockTicks, NoRouteLeft, ClockSetBack, requestVars, Known
  <1>3. CASE SkipRoute \/ AddHeaders \/ NothingStored
    <2>1. phase = "dispatch" /\ idx <= Len(pipeline) /\ GoOn /\ headers' = After(idx, headers)
      BY <1>3 DEF SkipRoute, AddHeaders, NothingStored, AtRoute, After, Passes, Current, Filters
    <2>2. QED
      BY <2>1, HeadersGoOn
  <1>4. CASE LimitRequests \/ LimitTime
    <2>1. phase = "dispatch" /\ idx <= Len(pipeline) /\ GoOn /\ headers' = After(idx, headers)
      BY <1>4 DEF LimitRequests, LimitTime, AtRoute, After, Passes, Current, Filters
    <2>2. QED
      BY <2>1, HeadersGoOn
  <1>5. CASE RequireLength \/ LimitPayload \/ Authenticate
    <2>1. phase = "dispatch" /\ idx <= Len(pipeline) /\ ~Passes(idx)
      BY <1>5 DEF RequireLength, LimitPayload, Authenticate, AtRoute, Passes, Current, Filters
    <2>2. \/ GoOn /\ UNCHANGED headers
          \/ Answer(411, <<>>) \/ Answer(413, <<>>) \/ Answer(401, <<"WWW-Authenticate">>)
      BY <1>5, Zenon DEF RequireLength, LimitPayload, Authenticate
    <2>3. CASE GoOn /\ UNCHANGED headers
      BY <2>1, <2>3, HeadersGoOn DEF After
    <2>4. CASE Answer(411, <<>>) \/ Answer(413, <<>>) \/ Answer(401, <<"WWW-Authenticate">>)
      <3>1. PICK status \in {411, 413, 401}, names \in Added : Answer(status, names)
        BY <2>4 DEF Added
      <3>2. QED
        BY <2>1, <3>1, HeadersAnswer
    <2>5. QED
      BY <2>2, <2>3, <2>4
  <1>6. CASE ServeStatic \/ Redirect \/ NotFound \/ ServeFavicon \/ ServeDirectory \/ ServeFile
    <2>1. PICK status \in {200, 307, 404}, names \in Added : Answer(status, names)
      BY <1>6 DEF Added, ServeStatic, Redirect, NotFound, ServeFavicon, ServeDirectory, ServeFile
    <2>2. phase = "dispatch" /\ idx <= Len(pipeline)
      BY <1>6 DEF ServeStatic, Redirect, NotFound, ServeFavicon, ServeDirectory, ServeFile, AtRoute
    <2>3. QED
      BY <2>1, <2>2, HeadersAnswer
  <1>7. CASE UNCHANGED vars
    BY <1>7, HeadersSame DEF vars, requestVars, Known
  <1>8. QED
    BY <1>1, <1>2, <1>3, <1>4, <1>5, <1>6, <1>7 DEF Next, Dispatch

\* The headers that HeadersOfRequest adds up are the last of a trail.
AddedUp(f) ==
    f = [k \in 0 .. by |->
            IF k = 0 THEN <<>>
            ELSE IF k \in Passed(Filters) THEN f[k - 1] \o HeaderNames(pipeline[k].kind)
            ELSE f[k - 1]]

LEMMA AddedUpIsTrail ==
    ASSUME NEW n \in Nat, by = n + 1, NEW f, IsTrail(f, n)
    PROVE  \A a : AddedUp(a) => a[by] = f[n]
  <1>1. f[0] = <<>> /\ \A k \in 1 .. n : f[k] = After(k, f[k - 1])
    BY DEF IsTrail
  <1>2. \A k \in 1 .. n : k \in Passed(Filters) <=> Passes(k)
    <2>1. by - 1 = n
      OBVIOUS
    <2>2. QED
      BY <2>1 DEF Passed, Passes
  <1>3. n + 1 \notin Passed(Filters)
    <2>1. \A k \in Passed(Filters) : k \in 1 .. by - 1
      BY DEF Passed
    <2>2. by - 1 = n /\ n + 1 \notin 1 .. n
      OBVIOUS
    <2>3. QED
      BY <2>1, <2>2
  <1> SUFFICES ASSUME NEW a, AddedUp(a) PROVE a[by] = f[n]
    OBVIOUS
  <1>4. \A k \in 0 .. n + 1 : a[k] = IF k = 0 THEN <<>>
                                     ELSE IF k \in Passed(Filters) THEN a[k - 1] \o HeaderNames(pipeline[k].kind)
                                     ELSE a[k - 1]
    BY DEF AddedUp
  <1> DEFINE Bad == {k \in Nat : k <= n /\ a[k] # f[k]}
  <1>5. Bad = {}
    <2> SUFFICES ASSUME Bad # {} PROVE FALSE
      OBVIOUS
    <2>1. PICK k \in Bad : \A j \in Bad : k <= j
      <3>1. Bad \in SUBSET Nat
        OBVIOUS
      <3>2. QED
        BY ONLY Bad # {}, <3>1, HasMin
    <2>2. k # 0
      BY <1>1, <1>4
    <2>3. k \in 1 .. n /\ k \in 0 .. n + 1 /\ k - 1 \in Nat /\ k - 1 <= n /\ k - 1 < k
      BY <2>2
    <2>4. a[k - 1] = f[k - 1]
      BY <2>1, <2>3
    <2>5. a[k] = f[k]
      <3>1. a[k] = IF k \in Passed(Filters) THEN a[k - 1] \o HeaderNames(pipeline[k].kind) ELSE a[k - 1]
        BY ONLY <1>4, <2>2, <2>3
      <3>2. f[k] = After(k, f[k - 1]) /\ (k \in Passed(Filters) <=> Passes(k))
        BY ONLY <1>1, <1>2, <2>3
      <3>3. QED
        BY ONLY <2>4, <3>1, <3>2 DEF After
    <2>6. QED
      BY <2>5
  <1>6. a[n] = f[n]
    BY <1>5
  <1>7. a[n + 1] = a[n]
    <2>1. n + 1 \in 0 .. n + 1 /\ n + 1 # 0 /\ (n + 1) - 1 = n
      OBVIOUS
    <2>2. QED
      BY ONLY <1>3, <1>4, <2>1
  <1>8. QED
    BY <1>6, <1>7

LEMMA AddedUpExists ==
    ASSUME NEW n \in Nat, by = n + 1, NEW f, IsTrail(f, n)
    PROVE  \E a : AddedUp(a)
  <1>1. f[0] = <<>> /\ \A k \in 1 .. n : f[k] = After(k, f[k - 1])
    BY DEF IsTrail
  <1>2. \A k \in 1 .. n : k \in Passed(Filters) <=> Passes(k)
    <2>1. by - 1 = n
      OBVIOUS
    <2>2. QED
      BY <2>1 DEF Passed, Passes
  <1>3. n + 1 \notin Passed(Filters)
    <2>1. \A k \in Passed(Filters) : k \in 1 .. by - 1
      BY DEF Passed
    <2>2. by - 1 = n /\ n + 1 \notin 1 .. n
      OBVIOUS
    <2>3. QED
      BY <2>1, <2>2
  <1>4. PICK a : a = [k \in 0 .. by |-> IF k = n + 1 THEN f[n] ELSE f[k]]
    OBVIOUS
  <1>5. \A k \in 0 .. n : a[k] = f[k]
    BY <1>4
  <1>6. a[n + 1] = f[n]
    BY <1>4
  <1> DEFINE step(k) == IF k = 0 THEN <<>>
                        ELSE IF k \in Passed(Filters) THEN a[k - 1] \o HeaderNames(pipeline[k].kind)
                        ELSE a[k - 1]
  <1>7. ASSUME NEW k \in 0 .. by PROVE a[k] = step(k)
    <2>1. CASE k = 0
      BY <1>1, <1>5, <2>1
    <2>2. CASE k \in 1 .. n
      <3>1. k \in 0 .. n /\ k - 1 \in 0 .. n /\ k # 0
        BY ONLY <2>2, n \in Nat
      <3>2. a[k] = f[k] /\ a[k - 1] = f[k - 1]
        BY ONLY <1>5, <3>1
      <3>3. f[k] = After(k, f[k - 1]) /\ (k \in Passed(Filters) <=> Passes(k))
        BY ONLY <1>1, <1>2, <2>2
      <3>4. QED
        BY ONLY <3>1, <3>2, <3>3 DEF After
    <2>3. CASE k = n + 1
      <3>1. k - 1 = n /\ k # 0 /\ n \in 0 .. n
        BY <2>3
      <3>2. a[k - 1] = f[n]
        BY ONLY <1>5, <3>1
      <3>3. QED
        BY ONLY <1>3, <1>6, <2>3, <3>1, <3>2
    <2>4. k = 0 \/ k \in 1 .. n \/ k = n + 1
      OBVIOUS
    <2>5. QED
      BY <2>1, <2>2, <2>3, <2>4
  <1>8. a = [k \in 0 .. by |-> step(k)]
    <2>1. a = [k \in 0 .. by |-> a[k]]
      BY <1>4
    <2> HIDE DEF step
    <2>2. QED
      BY <1>7, <2>1
  <1>9. AddedUp(a)
    BY <1>8 DEF AddedUp
  <1>10. QED
    BY <1>9

LEMMA PrefixOfConcat ==
    ASSUME NEW S, NEW s \in Seq(S), NEW t \in Seq(S), Len(t) <= 1
    PROVE  IsPrefix(s, s \o t) /\ Len(s \o t) <= Len(s) + 1
  <1>1. /\ Len(s) \in Nat /\ Len(t) \in Nat /\ s \o t \in Seq(S)
        /\ Len(s \o t) = Len(s) + Len(t)
        /\ \A i \in 1 .. Len(s) : (s \o t)[i] = s[i]
    BY ConcatProperties
  <1>2. SubSeq(s \o t, 1, Len(s)) = SubSeq(s, 1, Len(s))
    <2>1. SubSeq(s \o t, 1, Len(s)) = [i \in 1 .. Len(s) |-> (s \o t)[i]]
      BY <1>1
    <2>2. SubSeq(s, 1, Len(s)) = [i \in 1 .. Len(s) |-> s[i]]
      BY <1>1
    <2>3. QED
      BY ONLY <1>1, <2>1, <2>2
  <1>3. Len(s) <= Len(s \o t) /\ Len(s \o t) <= Len(s) + 1
    BY ONLY <1>1, Len(t) <= 1
  <1>4. QED
    BY ONLY <1>2, <1>3 DEF IsPrefix

\* A response carries the headers of the routes its request passed, in their
\* order, and at most one of the route that answered: nothing of another
\* response of the connection, whatever routes there are.
THEOREM HeadersOfRequestAlways == Spec => []HeadersOfRequest
  <1>1. Init => HInv
    BY DEF Init, HInv, Known
  <1>2. IInv /\ HInv /\ [Next]_vars => HInv'
    BY HeadersNext
  <1>3. ASSUME IInv, HInv, by # 0
        PROVE  LET added[k \in 0 .. by] ==
                       IF k = 0 THEN <<>>
                       ELSE IF k \in Passed(Filters) THEN added[k - 1] \o HeaderNames(pipeline[k].kind)
                       ELSE added[k - 1]
               IN  IsPrefix(added[by], headers) /\ Len(headers) <= Len(added[by]) + 1
    <2>1. by = idx /\ by \in 1 .. Len(pipeline) /\ Len(pipeline) \in Nat
      BY <1>3, PipelineType DEF IInv, Answered
    <2>2. PICK n \in Nat : n = by - 1 /\ by = n + 1
      <3>1. by - 1 \in Nat /\ by = (by - 1) + 1
        BY ONLY <2>1
      <3>2. QED
        BY <3>1
    <2>3. PICK f : IsTrail(f, n) /\ \E names \in Added : headers = f[n] \o names
      BY <1>3, <2>1, <2>2 DEF HInv, Known, Trailed
    <2>4. PICK names \in Added : headers = f[n] \o names
      BY <2>3
    <2>5. f[n] \in Seq(Names) /\ names \in Seq(Names) /\ Len(names) <= 1
      <3>1. n \in 0 .. n /\ f \in [0 .. n -> Seq(Names)]
        BY <2>3 DEF IsTrail
      <3>2. names \in Seq(Names)
        BY NamesTypes
      <3>3. Len(names) <= 1
        BY DEF Added
      <3>4. QED
        BY <3>1, <3>2, <3>3
    <2>6. IsPrefix(f[n], headers) /\ Len(headers) <= Len(f[n]) + 1
      BY <2>4, <2>5, PrefixOfConcat
    <2>7. \E a : AddedUp(a)
      BY <2>2, <2>3, AddedUpExists
    <2>8. (CHOOSE a : AddedUp(a))[by] = f[n]
      BY <2>2, <2>3, <2>7, AddedUpIsTrail
    <2>9. QED
      BY <2>6, <2>8 DEF AddedUp
  <1>4. IInv /\ HInv => HeadersOfRequest
    BY <1>3 DEF HeadersOfRequest
  <1>5. QED
    BY <1>1, <1>2, <1>4, Invariance, PTL DEF Spec

=============================================================================
