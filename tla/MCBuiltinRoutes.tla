--------------------------- MODULE MCBuiltinRoutes ---------------------------
(***************************************************************************)
(* Instances of BuiltinRoutes for TLC: the routes of examples/example.c in *)
(* their order, the rate limits in front of them, and two authentication   *)
(* routes on one way.                                                      *)
(***************************************************************************)
EXTENDS BuiltinRoutes

MethodNames == {"GET", "POST"}
Places == {"/", "/favicon.ico", "/fs/", "/fs/..", "/fs"}
DottedPlaces == {"/fs/.."}
Passwords == {"good", "bad"}

\* hs_routes_common_serve_all_route_new
All(kind, limit) ==
    [kind |-> kind, at |-> Places, methods |-> MethodNames, limit |-> limit, accepts |-> {}, closes |-> FALSE]

\* A route for GET at some places.
Get(kind, places) == [All(kind, 0) EXCEPT !.methods = {"GET"}, !.at = places]

LengthRequired == [All("length-required", 0) EXCEPT !.methods = {"POST"}]

Fs == {"/fs/", "/fs/.."}
Auth == [All("auth", 0) EXCEPT !.at = Fs, !.accepts = {"good"}]
FsRoutes == <<Auth, Get("directory", Fs), [Get("file", Fs) EXCEPT !.closes = TRUE]>>

Limits == <<All("request-limit", 2), All("time-limit", 2)>>

\* examples/example.c:96-175
Example ==
    <<All("powered-by", 0), All("security", 0), LengthRequired, All("payload-limit", 2)>> \o Limits
    \o <<Get("static", {"/"}), Get("favicon", {"/favicon.ico"})>> \o FsRoutes
    \o <<Get("redirect", {"/fs"}), All("not-found", 0)>>

LimitsFirst == Limits \o <<All("payload-limit", 0), All("powered-by", 0)>> \o FsRoutes
                      \o <<[Get("file", Places) EXCEPT !.closes = FALSE]>>

AuthTwice == <<All("request-limit", 0), Auth, All("security", 0), Auth, All("not-found", 0)>>

SomePipelines == {Example, LimitsFirst, AuthTwice}

Length(n) == Pair("content-length", n)

\* Lengths below, at and above the limit, negative as an int, and too wide
\* for one; a header without a value, and one that is repeated.
SomeHeaders ==
    {<<>>, <<Length(Null)>>, <<Length(0)>>, <<Length(2)>>, <<Length(3)>>, <<Length(6)>>, <<Length(8)>>,
     <<Length(3), Length(0)>>}

Authorizations ==
    {Null, [basic |-> TRUE, credential |-> "good"], [basic |-> TRUE, credential |-> "bad"],
     [basic |-> TRUE, credential |-> Null], [basic |-> FALSE, credential |-> "good"]}

SomeRequests ==
    [method : {"GET"}, resource : Places, connection : {"keep-alive"}, headers : {<<>>},
     authorization : Authorizations]
    \cup [method : {"POST"}, resource : {"/", "/fs/"}, connection : {"keep-alive", "unknown"},
          headers : SomeHeaders, authorization : {Null, [basic |-> TRUE, credential |-> "good"]}]

=============================================================================
