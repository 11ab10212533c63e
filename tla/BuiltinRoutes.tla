---------------------------- MODULE BuiltinRoutes ----------------------------
(***************************************************************************)
(* The routes that come with the server (hs_routes_*.c), put one after     *)
(* another, and the requests of one connection through them: which route   *)
(* answers, with what code and headers, and whether the connection goes    *)
(* on.  A router mounted in another is written as its routes in its place, *)
(* each at the resources that the mount leaves it; Router shows that this  *)
(* is how dispatch behaves.  The session route is in Session.              *)
(***************************************************************************)
EXTENDS Pairs

CONSTANTS
    Pipelines,    \* the routes an application may have added, in order
    Requests,     \* the requests a peer may send
    Methods,      \* HTTP methods
    Resources,    \* resources
    Dotted,       \* the resources with ".." in them
    Credentials,  \* what may follow "Basic "
    MaxRequests,  \* bound on the requests of the connection
    MaxTime,      \* bound on the age of the connection, in seconds
    IntValues,    \* how many values an int has
    SizeValues    \* how many values a size_t has

Filters == {"powered-by", "security"}
Kinds == Filters \cup {"length-required", "payload-limit", "request-limit", "time-limit", "auth",
                       "static", "favicon", "directory", "file", "redirect", "not-found"}

\* The headers that the routes add.
Names == {"X-Powered-By", "X-Frame-Options", "X-Content-Type-Options", "Referrer-Policy",
          "WWW-Authenticate", "Location", "Cache-Control"}

\* limit: of the payload, the requests or the time; accepts: what the auth
\* callback accepts; closes: the option of the file route.
Route == [kind : Kinds, at : SUBSET Resources, methods : SUBSET Methods, limit : Nat,
          accepts : SUBSET Credentials, closes : BOOLEAN]

\* request->authorization; without a credential nothing follows the scheme.
Authorization == [basic : BOOLEAN, credential : Credentials \cup {Null}]

Header == [key : {"content-length"}, value : Nat \cup {Null}]
Request == [method : Methods, resource : Resources, connection : {"unknown", "close", "keep-alive"},
            headers : Seq(Header), authorization : Authorization \cup {Null}]

ASSUME PipelinesAssumption == Pipelines \subseteq Seq(Route)
ASSUME RequestsAssumption == Requests \subseteq Request
ASSUME BoundsAssumption == MaxRequests \in Nat /\ MaxTime \in Nat
ASSUME WidthsAssumption == IntValues \in Nat \ {0} /\ SizeValues \in Nat /\ IntValues <= SizeValues

VARIABLES
    pipeline,       \* the routes of this server
    phase,          \* ready for a request, in the loop over the routes, over
    idx,            \* the route looked at
    counter,        \* connection_state->request_counter
    now,            \* seconds since connection_state->creation_time
    steady,         \* the clock has not been set back
    request,        \* the request as it was sent
    arrived,        \* the time it was sent
    contentLength,  \* request->content_length
    authorization,  \* request->authorization
    connection,     \* request->connection
    headers,        \* names of response->headers
    code,           \* response->code
    by              \* the route that answered, or 0

clock == <<now, steady>>
requestVars == <<request, arrived, contentLength>>
vars == <<pipeline, phase, idx, counter, clock, requestVars, authorization, connection, headers, code, by>>

TypeOK ==
    /\ pipeline \in Pipelines
    /\ phase \in {"ready", "dispatch", "over"}
    /\ idx \in 1 .. Len(pipeline) + 1 /\ by \in 0 .. Len(pipeline)
    /\ counter \in 0 .. MaxRequests
    /\ now \in -1 .. MaxTime /\ arrived \in -1 .. MaxTime /\ steady \in BOOLEAN
    /\ request \in Requests \cup {Null}
    /\ contentLength \in 0 .. SizeValues - 1
    /\ authorization \in Authorization \cup {Null}
    /\ connection \in {"unknown", "close", "keep-alive"}
    /\ headers \in Seq(Names)
    /\ code \in {200, 307, 401, 404, 411, 413}

Init ==
    /\ pipeline \in Pipelines
    /\ phase = "ready" /\ idx = 1 /\ counter = 0
    /\ now = 0 /\ steady = TRUE
    /\ request = Null /\ arrived = 0 /\ contentLength = 0 /\ authorization = Null
    /\ connection = "unknown" /\ headers = <<>> /\ code = 200 /\ by = 0

Current == pipeline[idx]

-----------------------------------------------------------------------------
\* The width of a length: atoi gives an int, which becomes a size_t.

ToInt(n) == LET low == n % IntValues
            IN  IF 2 * low < IntValues THEN low ELSE low - IntValues
ToSize(n) == n % SizeValues

\* The places of the lengths that a client gave, and the last length.
Lengths(r) == {i \in 1 .. Len(r.headers) : r.headers[i].value # Null}
LastLength(r) == r.headers[Max(Lengths(r))].value

-----------------------------------------------------------------------------
\* Faulty variants, each put in place of a definition below to see that a
\* property can fail.

\* A length stays a signed number.
ContentLengthSigned(r) == IF Lengths(r) = {} THEN 0 ELSE ToInt(LastLength(r))

\* The request that reaches the limit is not counted.
LimitReachedLate(limit) == counter > limit

\* The authorization of an earlier request stays.
AuthorizationKept(r) == IF r.authorization = Null THEN authorization ELSE r.authorization

\* The response of the request before is used again.
NewResponseKeepsHeaders == UNCHANGED headers /\ code' = 200 /\ by' = 0

-----------------------------------------------------------------------------
\* hs_parser_set_header: the last length given counts.
ContentLength(r) == IF Lengths(r) = {} THEN 0 ELSE ToSize(ToInt(LastLength(r)))

AuthorizationOf(r) == r.authorization

\* hs_types_http_response_new
NewResponse == headers' = <<>> /\ code' = 200 /\ by' = 0

\* hs_router_serve_forever counts the request before it is parsed.
Parse(r) ==
    /\ phase = "ready" /\ counter < MaxRequests
    /\ counter' = counter + 1
    /\ request' = r /\ arrived' = now /\ contentLength' = ContentLength(r)
    /\ authorization' = AuthorizationOf(r) /\ connection' = r.connection
    /\ NewResponse
    /\ idx' = 1 /\ phase' = "dispatch"
    /\ UNCHANGED <<pipeline, clock>>

\* No request comes.
PeerLeaves ==
    /\ phase = "ready" /\ phase' = "over"
    /\ UNCHANGED <<pipeline, idx, counter, clock, requestVars, authorization, connection, headers, code, by>>

\* time(NULL), which follows the system's clock.
ClockTicks ==
    /\ phase # "over" /\ now < MaxTime
    /\ now' = now + 1
    /\ UNCHANGED <<pipeline, phase, idx, counter, steady, requestVars, authorization, connection, headers,
                   code, by>>

ClockSetBack(time) ==
    /\ phase # "over" /\ time < now
    /\ now' = time /\ steady' = FALSE
    /\ UNCHANGED <<pipeline, phase, idx, counter, requestVars, authorization, connection, headers, code, by>>

-----------------------------------------------------------------------------
\* The loop over the routes (_hs_router_serve).

\* hs_route_is_allowed_for_method, hs_route_is_supported_path; a payload
\* limit of 0 is a route without serve.
Applies(route) ==
    /\ request.method \in route.methods /\ request.resource \in route.at
    /\ ~(route.kind = "payload-limit" /\ route.limit = 0)

AtRoute(kinds) ==
    /\ phase = "dispatch" /\ idx <= Len(pipeline)
    /\ Applies(Current) /\ Current.kind \in kinds

\* The serve of the route returns HS_SERVE_FLOW_RESPONSE_CONTINUE.
GoOn ==
    /\ idx' = idx + 1
    /\ UNCHANGED <<pipeline, phase, counter, clock, requestVars, code, by>>

\* A response closes the connection unless the request keeps it alive and has
\* no payload: none of these routes reads one.
KeepsOpen == connection' = "keep-alive" /\ contentLength = 0

\* The serve of the route returns HS_SERVE_FLOW_RESPONSE_DONE.
Answer(status, names) ==
    /\ code' = status /\ headers' = headers \o names /\ by' = idx
    /\ phase' = IF KeepsOpen THEN "ready" ELSE "over"
    /\ UNCHANGED <<pipeline, idx, counter, clock, requestVars>>

SkipRoute ==
    /\ phase = "dispatch" /\ idx <= Len(pipeline) /\ ~Applies(Current)
    /\ GoOn /\ UNCHANGED <<authorization, connection, headers>>

\* No route answers, and the connection ends.
NoRouteLeft ==
    /\ phase = "dispatch" /\ idx > Len(pipeline)
    /\ phase' = "over"
    /\ UNCHANGED <<pipeline, idx, counter, clock, requestVars, authorization, connection, headers, code, by>>

-----------------------------------------------------------------------------
\* Routes that let every request through.

\* The headers that the routes for powered-by and security add, with the
\* options they have by default.
HeaderNames(kind) ==
    IF kind = "powered-by" THEN <<"X-Powered-By">>
    ELSE <<"X-Frame-Options", "X-Content-Type-Options", "Referrer-Policy">>

AddHeaders ==
    /\ AtRoute(Filters)
    /\ headers' = headers \o HeaderNames(Current.kind)
    /\ GoOn /\ UNCHANGED <<authorization, connection>>

\* _hs_routes_ratelimit_max_connection_requests_route_serve
LimitReached(limit) == limit < 2 \/ counter >= limit

LimitRequests ==
    /\ AtRoute({"request-limit"})
    /\ connection' = IF LimitReached(Current.limit) THEN "close" ELSE connection
    /\ GoOn /\ UNCHANGED <<authorization, headers>>

\* _hs_routes_ratelimit_max_connection_time_route_serve
TimeIsUp(limit) == limit < 1 \/ now < 0 \/ now >= limit

LimitTime ==
    /\ AtRoute({"time-limit"})
    /\ connection' = IF TimeIsUp(Current.limit) THEN "close" ELSE connection
    /\ GoOn /\ UNCHANGED <<authorization, headers>>

-----------------------------------------------------------------------------
\* Routes that let some requests through.

\* _hs_routes_411_length_required_serve: a header without a value is none.
RequireLength ==
    /\ AtRoute({"length-required"})
    /\ UNCHANGED <<authorization, connection>>
    /\ IF GetByKey(request.headers, "content-length") # Null THEN GoOn /\ UNCHANGED headers
       ELSE Answer(411, <<>>)

\* _hs_routes_payload_limit_serve
LimitPayload ==
    /\ AtRoute({"payload-limit"})
    /\ UNCHANGED <<authorization, connection>>
    /\ IF contentLength <= Current.limit THEN GoOn /\ UNCHANGED headers
       ELSE Answer(413, <<>>)

\* _hs_routes_security_basic_auth_route_serve: the scheme is cut off the
\* request's authorization before the credential is looked at.
Presents(given) == given # Null /\ given.basic /\ given.credential # Null

Authenticate ==
    /\ AtRoute({"auth"})
    /\ authorization' = IF Presents(authorization) THEN [authorization EXCEPT !.basic = FALSE]
                        ELSE authorization
    /\ UNCHANGED connection
    /\ IF Presents(authorization) /\ authorization.credential \in Current.accepts
       THEN GoOn /\ UNCHANGED headers
       ELSE Answer(401, <<"WWW-Authenticate">>)

-----------------------------------------------------------------------------
\* Routes that answer.

\* _hs_routes_static_serve
ServeStatic ==
    /\ AtRoute({"static"})
    /\ UNCHANGED <<authorization, connection>>
    /\ Answer(200, <<>>)

\* _hs_routes_redirection_serve, for a temporary redirection
Redirect ==
    /\ AtRoute({"redirect"})
    /\ UNCHANGED <<authorization, connection>>
    /\ Answer(307, <<"Location">>)

\* _hs_routes_404_not_found_serve
NotFound ==
    /\ AtRoute({"not-found"})
    /\ UNCHANGED <<authorization, connection>>
    /\ Answer(404, <<>>)

\* _hs_routes_favicon_route_serve, with a time to cache the icon
ServeFavicon ==
    /\ AtRoute({"favicon"})
    /\ UNCHANGED <<authorization, connection>>
    /\ Answer(200, <<"Cache-Control">>)

\* _hs_routes_directory_route_serve: the listing is made of names (Listings).
ServeDirectory ==
    /\ AtRoute({"directory"}) /\ request.resource \notin Dotted
    /\ UNCHANGED <<authorization, connection>>
    /\ Answer(200, <<>>)

\* _hs_routes_file_route_serve
ServeFile ==
    /\ AtRoute({"file"}) /\ request.resource \notin Dotted
    /\ connection' = IF Current.closes THEN "close" ELSE connection
    /\ Answer(200, <<>>) /\ UNCHANGED authorization

\* What one of the last three would serve is not there.
NothingStored ==
    /\ AtRoute({"favicon", "directory", "file"})
    /\ GoOn /\ UNCHANGED <<authorization, connection, headers>>

-----------------------------------------------------------------------------
Dispatch ==
    \/ SkipRoute \/ NoRouteLeft
    \/ AddHeaders \/ LimitRequests \/ LimitTime
    \/ RequireLength \/ LimitPayload \/ Authenticate
    \/ ServeStatic \/ Redirect \/ NotFound
    \/ ServeFavicon \/ ServeDirectory \/ ServeFile \/ NothingStored

Next ==
    \/ \E r \in Requests : Parse(r)
    \/ PeerLeaves \/ ClockTicks
    \/ \E time \in -1 .. MaxTime : ClockSetBack(time)
    \/ Dispatch

Spec == Init /\ [][Next]_vars

-----------------------------------------------------------------------------
\* Properties

\* The routes that the request met on its way to the one that answered.
Passed(kinds) ==
    {k \in 1 .. by - 1 : pipeline[k].kind \in kinds /\ Applies(pipeline[k])}

\* Routes that may answer.
Answering == Kinds \ (Filters \cup {"request-limit", "time-limit"})

\* A connection goes on after an answer behind a limit only if the limit is
\* not reached, in requests or in seconds since the connection came, as long
\* as the clock is not set back; and a request limit in front of every route
\* that answers bounds the requests of the connection (hs_router.c:98,
\* hs_routes_ratelimit.c:46-87).
LimitsHold ==
    /\ phase = "ready" /\ by # 0 =>
        /\ \A k \in Passed({"request-limit"}) : counter < pipeline[k].limit
        /\ \A k \in Passed({"time-limit"}) : steady => arrived < pipeline[k].limit
    /\ \A k \in 1 .. Len(pipeline) :
          /\ pipeline[k].kind = "request-limit"
          /\ pipeline[k].at = Resources /\ pipeline[k].methods = Methods
          /\ \A j \in 1 .. k - 1 : pipeline[j].kind \notin Answering
          => counter <= IF pipeline[k].limit < 2 THEN 1 ELSE pipeline[k].limit

\* The client's length, which the server knows if it fits an int.
Announced == LastLength(request)
Fits == ToInt(Announced) = Announced

Accepted(k) == Presents(request.authorization) /\ request.authorization.credential \in pipeline[k].accepts

\* A route is reached only by the requests that the routes before it are
\* there to let through, whatever came on the connection before; and a
\* request is refused only for what it lacks, if one authentication route is
\* on its way and its length fits (hs_routes_error.c:40-55,
\* hs_routes_payload_limit.c:26-43, hs_routes_security.c:168-208).
GuardsHold ==
    by # 0 =>
        /\ \A k \in Passed({"auth"}) : Accepted(k)
        /\ \A k \in Passed({"length-required"}) : Lengths(request) # {}
        /\ \A k \in Passed({"payload-limit"}) :
              Lengths(request) # {} /\ Fits => Announced <= pipeline[k].limit
        /\ code = 401 /\ Passed({"auth"}) = {} => ~Accepted(by)
        /\ code = 413 /\ Fits => Announced > pipeline[by].limit

\* A response carries the headers of the routes that its request passed and
\* of the one that answered, in their order, and nothing of another response
\* of the connection (hs_types.c:102-114, hs_routes_powered_by.c:21-33,
\* hs_routes_security.c:69-151).
HeadersOfRequest ==
    by # 0 =>
        LET added[k \in 0 .. by] ==
                IF k = 0 THEN <<>>
                ELSE IF k \in Passed(Filters) THEN added[k - 1] \o HeaderNames(pipeline[k].kind)
                ELSE added[k - 1]
        IN  IsPrefix(added[by], headers) /\ Len(headers) <= Len(added[by]) + 1

=============================================================================
