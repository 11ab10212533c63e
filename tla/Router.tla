------------------------------- MODULE Router -------------------------------
(***************************************************************************)
(* hs_router.c: the requests of one connection (hs_router_serve_forever),  *)
(* the dispatch of each through the routes of a router and of the routers  *)
(* mounted in it (hs_router_as_route), the response, and the callbacks     *)
(* that run after it (hs_types.c).                                         *)
(*                                                                         *)
(* The C call stack of nested routers is the sequence stack; its last      *)
(* frame is the router that looks for a route.                             *)
(***************************************************************************)
EXTENDS Paths, SequencesExt, FiniteSets

CONSTANTS
    Routers,       \* names of routers
    Root,          \* the server's router
    NoRouter,      \* a route that is not a mounted router
    Null,          \* no path, no resource
    Methods,       \* HTTP methods
    Tables,        \* the routes and the keep-alive flag of each router
    Requests,      \* the requests a peer may send
    MaxRequests,   \* bound on the requests of the connection
    LoadsFail      \* reading a payload may fail with the connection in order

\* request->connection
ConnectionTypes == {"unknown", "close", "keep-alive"}

Route == [path : Seq(Chars) \cup {Null}, parent : BOOLEAN,
          methods : SUBSET Methods, sub : Routers \cup {NoRouter}]
Table == [Routers -> [routes : Seq(Route), keepAlive : BOOLEAN]]
Request == [method : Methods, resource : Seq(Chars), connection : ConnectionTypes,
            hasPayload : BOOLEAN]

ASSUME RoutersAssumption == Root \in Routers /\ NoRouter \notin Routers /\ IsFiniteSet(Routers)
ASSUME NullAssumption == Null \notin Seq(Chars)
ASSUME TablesAssumption == \A table \in Tables : table \in Table
ASSUME RequestsAssumption == Requests \subseteq Request
ASSUME MaxRequestsAssumption == MaxRequests \in Nat

VARIABLES
    table,       \* the routers of the server
    phase,       \* what the connection's thread does
    request,     \* the request as it was parsed
    resource,    \* request->resource
    connection,  \* request->connection
    loaded,      \* request->payload->loaded
    unread,      \* payload bytes of the request are still in the socket
    stack,       \* active routers, outermost first
    base,        \* router_state->base_path, as the mounts it joins
    done,        \* router_state->done
    closed,      \* router_state->closed_connection
    served,      \* what hs_router_serve returns
    callbacks,   \* params->callbacks, each named by its route
    capacity,    \* params->callbacks->capacity
    ran,         \* callbacks that ran, in order
    responses,   \* the Connection header of each response written
    invoked,     \* routes whose serve was called, in order
    count        \* connection_state->request_counter

vars == <<table, phase, request, resource, connection, loaded, unread, stack, base,
          done, closed, served, callbacks, capacity, ran, responses, invoked, count>>

\* what a route may change, and the rest of the parameters of a request
routeVars == <<connection, loaded, unread, callbacks, capacity>>
stackVars == <<stack, resource, base, done>>
requestVars == <<table, request, count>>

Phases == {"ready", "dispatch", "unwind", "callbacks", "over"}
RouteNames == Routers \X (Nat \ {0})
Frame == [router : Routers, idx : Nat \ {0}, original : Seq(Chars) \cup {Null},
          base : Seq(Seq(Chars))]

TypeOK ==
    /\ table \in Tables
    /\ phase \in Phases
    /\ request \in Requests \cup {Null}
    /\ resource \in Seq(Chars) \cup {Null}
    /\ connection \in ConnectionTypes
    /\ loaded \in BOOLEAN /\ unread \in BOOLEAN
    /\ stack \in Seq(Frame)
    /\ base \in Seq(Seq(Chars))
    /\ done \in BOOLEAN /\ closed \in BOOLEAN /\ served \in BOOLEAN
    /\ callbacks \in Seq(RouteNames) /\ ran \in Seq(RouteNames)
    /\ invoked \in Seq(RouteNames)
    /\ responses \in Seq({"close", "keep-alive"})
    /\ capacity \in Nat \ {0}
    /\ count \in 0 .. MaxRequests

Init ==
    /\ table \in Tables
    /\ phase = "ready"
    /\ request = Null /\ resource = Null
    /\ connection = "unknown"
    /\ loaded = FALSE /\ unread = FALSE
    /\ stack = <<>> /\ base = <<>>
    /\ done = FALSE /\ closed = FALSE /\ served = FALSE
    /\ callbacks = <<>> /\ capacity = 1 /\ ran = <<>>
    /\ responses = <<>> /\ invoked = <<>>
    /\ count = 0

Top == stack[Len(stack)]
Routes == table[Top.router].routes
Current == Routes[Top.idx]
CurrentName == <<Top.router, Top.idx>>
Pop == SubSeq(stack, 1, Len(stack) - 1)

\* The loop of the top router goes on with its next route.
Advanced(frames) == [frames EXCEPT ![Len(frames)].idx = @ + 1]

-----------------------------------------------------------------------------
\* Faulty variants of definitions below.  They are in no specification: each
\* is put in place of its definition to see that a property can fail.

\* The method of the request is not looked at.
AppliesToAnyMethod(route) ==
    /\ resource # Null /\ ~closed
    /\ route.path # Null => Supported(route.path, route.parent, resource)

\* The vector of callbacks starts without room, and doubling keeps it so.
NewCallbacksWithoutRoom == callbacks' = <<>> /\ capacity' = 0 /\ ran' = <<>>

\* Only the header decides whether the connection is closed.
ClosesAsAnnounced(close) == close

\* Only unread payload decides whether the connection is closed.
ClosesForPayload(close) == request.hasPayload /\ ~loaded'

\* A mounted router returns without giving back the base path.
RestoreResourceOnly == resource' = Top.original /\ UNCHANGED base

\* The loop over the routes looks at the same route again.
SkipRouteStays == phase = "dispatch" /\ UNCHANGED vars

\* The outer router writes a response of its own.
ReturnDoneAnswers ==
    /\ phase = "unwind" /\ Len(stack) > 1
    /\ resource' = Top.original /\ base' = Top.base /\ done' = TRUE
    /\ stack' = Pop
    /\ responses' = Append(responses, "keep-alive")
    /\ UNCHANGED <<requestVars, routeVars, phase, closed, served, ran, invoked>>

\* The callbacks run in the order they were added.
RunCallbackInOrder ==
    /\ phase = "callbacks" /\ Len(ran) < Len(callbacks)
    /\ ran' = Append(ran, callbacks[Len(ran) + 1])
    /\ UNCHANGED <<requestVars, routeVars, stackVars, phase, closed, served, responses, invoked>>

-----------------------------------------------------------------------------
\* hs_route_is_allowed_for_method, hs_route_is_supported_path and the other
\* conditions under which a route's serve is called.
Applies(route) ==
    /\ resource # Null /\ ~closed
    /\ request.method \in route.methods
    /\ route.path # Null => Supported(route.path, route.parent, resource)

\* hs_types_post_response_callbacks_new(1)
NewCallbacks == callbacks' = <<>> /\ capacity' = 1 /\ ran' = <<>>

-----------------------------------------------------------------------------
\* hs_router_serve_forever and hs_router_serve_next

\* The next request is parsed and gets parameters of its own.
Parse(r) ==
    /\ phase = "ready" /\ count < MaxRequests
    /\ count' = count + 1
    /\ request' = r /\ resource' = r.resource /\ connection' = r.connection
    /\ loaded' = FALSE /\ unread' = r.hasPayload
    /\ base' = <<>>
    /\ done' = FALSE /\ closed' = FALSE /\ served' = FALSE
    /\ NewCallbacks
    /\ responses' = <<>> /\ invoked' = <<>>
    /\ IF Rooted(r.resource)
       THEN /\ stack' = <<[router |-> Root, idx |-> 1, original |-> r.resource, base |-> <<>>]>>
            /\ phase' = "dispatch"
       ELSE /\ stack' = <<>>
            /\ phase' = "callbacks"
    /\ UNCHANGED table

\* No request comes, or should_stop ends the connection.
StopServing ==
    /\ phase = "ready"
    /\ phase' = "over"
    /\ UNCHANGED <<requestVars, routeVars, stackVars, closed, served, ran, responses, invoked>>

-----------------------------------------------------------------------------
\* What the serve function of a route may do to the request.

\* ratelimit and the file routes set request->connection to close.
MayClose == connection' \in {connection, "close"}

\* A session route adds a callback; the vector doubles when it is full.
AddCallback(name) ==
    /\ callbacks' = Append(callbacks, name)
    /\ capacity' = IF Len(callbacks) >= capacity THEN capacity * 2 ELSE capacity

MayAddCallback ==
    \/ UNCHANGED <<callbacks, capacity>>
    \/ AddCallback(CurrentName)

\* payload_to_string and payload_to_file mark the payload loaded before they
\* read it, and read it once.
MayLoad ==
    \/ UNCHANGED <<loaded, unread>>
    \/ /\ ~loaded
       /\ loaded' = TRUE
       /\ unread' \in IF LoadsFail THEN {unread, FALSE} ELSE {FALSE}

Invoke ==
    /\ invoked' = Append(invoked, CurrentName)
    /\ MayClose /\ MayAddCallback /\ MayLoad

-----------------------------------------------------------------------------
\* _hs_router_find_route_and_serve, _hs_router_serve

AtRoute == phase = "dispatch" /\ Top.idx <= Len(Routes)

SkipRoute ==
    /\ AtRoute
    /\ ~Applies(Current)
    /\ stack' = Advanced(stack)
    /\ UNCHANGED <<requestVars, routeVars, resource, base, done, phase, closed, served,
                   ran, responses, invoked>>

\* The route's serve returns HS_SERVE_FLOW_RESPONSE_CONTINUE.
RouteContinues ==
    /\ AtRoute
    /\ Applies(Current) /\ Current.sub = NoRouter
    /\ Invoke
    /\ stack' = Advanced(stack)
    /\ UNCHANGED <<requestVars, resource, base, done, phase, closed, served, ran, responses>>

\* hs_router_write_common_response_header, of which the Connection header
\* decides what the peer does next.
ConnectionHeader(close) == IF close THEN "close" ELSE "keep-alive"

\* The connection is closed if the header said so, and if payload is left.
ClosesAfter(close) == close \/ (request.hasPayload /\ ~loaded')

\* The route's serve returns HS_SERVE_FLOW_RESPONSE_DONE: the response is
\* written, and the connection closed if its header said so or if payload
\* was left unread.
RouteResponds ==
    /\ AtRoute
    /\ Applies(Current) /\ Current.sub = NoRouter
    /\ Invoke
    /\ LET close == ~table[Top.router].keepAlive \/ connection' # "keep-alive"
       IN  /\ responses' = Append(responses, ConnectionHeader(close))
           /\ closed' = ClosesAfter(close)
    /\ phase' = "unwind"
    /\ UNCHANGED <<requestVars, stackVars, served, ran>>

\* _hs_router_as_route_serve: the mounted router sees the resource without
\* the mount's path; a mount without a path leaves it, and remembers NULL.
EnterSub ==
    /\ AtRoute
    /\ Applies(Current) /\ Current.sub # NoRouter
    /\ LET path == Current.path
           frame == [router |-> Current.sub, idx |-> 1,
                     original |-> IF path = Null THEN Null ELSE resource, base |-> base]
       IN  /\ stack' = Append(stack, frame)
           /\ resource' = IF path = Null THEN resource ELSE RemovePrefix(path, resource)
           /\ base' = IF path = Null THEN base ELSE Append(base, path)
    /\ invoked' = Append(invoked, CurrentName)
    /\ UNCHANGED <<requestVars, routeVars, done, phase, closed, served, ran, responses>>

\* _hs_router_as_route_serve gives back what it changed.
Restore == resource' = Top.original /\ base' = Top.base

\* No route of the mounted router responded: the outer router goes on.
LeaveSub ==
    /\ phase = "dispatch" /\ Top.idx > Len(Routes)
    /\ Len(stack) > 1
    /\ Restore /\ done' = FALSE
    /\ stack' = Advanced(Pop)
    /\ UNCHANGED <<requestVars, routeVars, phase, closed, served, ran, responses, invoked>>

\* A response was written: a mounted router reports it to the outer one,
\* which writes nothing more.
ReturnDone ==
    /\ phase = "unwind" /\ Len(stack) > 1
    /\ Restore /\ done' = TRUE
    /\ stack' = Pop
    /\ UNCHANGED <<requestVars, routeVars, phase, closed, served, ran, responses, invoked>>

\* The server's own router returns.
LeaveRoot ==
    /\ Len(stack) = 1
    /\ \/ phase = "dispatch" /\ Top.idx > Len(Routes) /\ served' = FALSE
       \/ phase = "unwind" /\ served' = TRUE
    /\ stack' = <<>>
    /\ phase' = "callbacks"
    /\ UNCHANGED <<requestVars, routeVars, resource, base, done, closed, ran, responses, invoked>>

-----------------------------------------------------------------------------
\* _hs_router_run_callbacks: the last one added runs first.
RunCallback ==
    /\ phase = "callbacks" /\ Len(ran) < Len(callbacks)
    /\ ran' = Append(ran, callbacks[Len(callbacks) - Len(ran)])
    /\ UNCHANGED <<requestVars, routeVars, stackVars, phase, closed, served, responses, invoked>>

\* The parameters are released; the connection goes on if it was served and
\* not closed.
Finish ==
    /\ phase = "callbacks" /\ Len(ran) = Len(callbacks)
    /\ phase' = IF served /\ ~closed THEN "ready" ELSE "over"
    /\ UNCHANGED <<requestVars, routeVars, stackVars, closed, served, ran, responses, invoked>>

Dispatch ==
    \/ SkipRoute
    \/ RouteContinues
    \/ RouteResponds
    \/ EnterSub
    \/ LeaveSub
    \/ ReturnDone
    \/ LeaveRoot
    \/ RunCallback
    \/ Finish

Next ==
    \/ \E r \in Requests : Parse(r)
    \/ StopServing
    \/ Dispatch

Spec == Init /\ [][Next]_vars

\* A route's serve returns, so the thread that serves a request goes on.
FairSpec == Spec /\ WF_vars(Dispatch)

-----------------------------------------------------------------------------
\* Properties

\* A request gets at most one response, and hs_router_serve reports success
\* exactly when one was written: a mounted router's answer is not followed
\* by another of the outer router.
OneResponse ==
    /\ phase = "dispatch" => responses = <<>>
    /\ phase = "unwind" => Len(responses) = 1
    /\ phase = "callbacks" => Len(responses) = IF served THEN 1 ELSE 0

\* The resource seen at the depth of frame i.
ResourceAt(i) == IF i = Len(stack) THEN resource ELSE stack[i + 1].original

\* The mount that frame i is the router of.
MountOf(i) == table[stack[i - 1].router].routes[stack[i - 1].idx]

\* After the dispatch the request has its own resource back.
ResourceRestored == stack = <<>> /\ phase = "callbacks" => resource = request.resource

BaseAt(i) == IF i = Len(stack) THEN base ELSE stack[i + 1].base

\* At every depth the routes see the resource of the request without the
\* mounts' paths, and a base path made of those mounts and of none that was
\* left again; the request has its own resource back afterwards
\* (hs_router.c:519-529).
SeenBelowMounts ==
    /\ ResourceRestored
    /\ stack = <<>> /\ phase = "callbacks" => base = <<>>
    /\ stack # <<>> => ResourceAt(1) = request.resource /\ BaseAt(1) = <<>>
    /\ \A i \in 2 .. Len(stack) :
          LET path == MountOf(i).path
          IN  IF path = Null THEN BaseAt(i) = BaseAt(i - 1)
              ELSE /\ ResourceAt(i) = RemovePrefix(path, ResourceAt(i - 1))
                   /\ BaseAt(i) = Append(BaseAt(i - 1), path)

\* Whether a route is for a resource of the request, and what the router
\* mounted in it sees of the resource.
Invokes(route, res) ==
    /\ request.method \in route.methods
    /\ route.path = Null \/ Supported(route.path, route.parent, res)

SeenBehind(route, res) == IF route.path = Null THEN res ELSE RemovePrefix(route.path, res)

\* What a router's i-th route stands for: itself, and behind a mount the
\* routes of its router.
Listed(below, router, i, res) ==
    LET route == table[router].routes[i]
    IN  IF ~Invokes(route, res) THEN <<>>
        ELSE <<<<router, i>>>> \o
             IF route.sub = NoRouter THEN <<>> ELSE below[route.sub][SeenBehind(route, res)]

\* The routes that dispatch may invoke in a router for a resource, in order,
\* mounts being followed to a depth; each of a server's routers may be behind
\* another one.
Flat[depth \in 0 .. Cardinality(Routers)] ==
    [router \in Routers |-> [res \in Seq(Chars) |->
        IF depth = 0 THEN <<>>
        ELSE FlattenSeq([i \in 1 .. Len(table[router].routes) |->
                            Listed(Flat[depth - 1], router, i, res)])]]

\* Nested routers behave like one flat list of routes: dispatch invokes the
\* routes of the list from the first to the one that responds, and all of
\* them if none responds (hs_router.c:343-391, 500-537).
DispatchFollowsOrder ==
    phase = "callbacks" /\ Rooted(request.resource) =>
        LET flat == Flat[Cardinality(Routers)][Root][request.resource]
        IN  /\ StartsWith(flat, invoked)
            /\ ~served => invoked = flat

\* The next request is read only from a connection that was not closed and
\* whose payload was read: what the next parse finds is a request line.
NextRequestIsFramed == phase = "ready" => ~unread /\ ~closed

\* A response that announces the close of the connection is followed by it.
ClosePromised ==
    phase \in {"unwind", "callbacks"} /\ responses = <<"close">> => closed

\* Callbacks nest: of two routes that added one, the callback of the route
\* that was invoked first runs last.
CallbacksNest ==
    \A i, j \in 1 .. Len(ran) : i < j =>
        \A m, n \in 1 .. Len(invoked) :
            invoked[m] = ran[i] /\ invoked[n] = ran[j] => n < m

\* No callback is written past the end of the vector.
CallbacksFit == Len(callbacks) <= capacity

\* What the peer sees of the loop over the requests.
Exchanges == INSTANCE Exchange WITH
    state <- CASE phase = "ready" -> "waiting"
               [] phase = "over" -> "over"
               [] OTHER -> "serving",
    answers <- responses

\* However deep the routers are mounted, and whatever the routes do, the
\* requests of a connection are answered one by one, and none is taken after
\* an announced close (hs_router.c:80-168, 393-498).
ImplementsExchange == Exchanges!Spec

\* A request that was parsed is dealt with in the end.
RequestEnds == phase = "dispatch" ~> phase \in {"ready", "over"}

=============================================================================
