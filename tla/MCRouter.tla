------------------------------- MODULE MCRouter -------------------------------
(***************************************************************************)
(* Instances of Router for TLC.                                            *)
(***************************************************************************)
EXTENDS Router

CONSTANTS api, inner, get, post

AllChars == {"/", "a", "b"}
RouterNames == {"root", api, inner}
MethodNames == {get, post}

\* A route that is not a router, for all methods.
Leaf(path) == [path |-> path, parent |-> FALSE, methods |-> MethodNames, sub |-> NoRouter]

\* hs_router_as_route, given a path.
Mount(path, router) == [path |-> path, parent |-> TRUE, methods |-> MethodNames, sub |-> router]

Listing(routes) == [routes |-> routes, keepAlive |-> TRUE]

A == <<"/", "a">>
B == <<"/", "b">>
AB == <<"/", "a", "/", "b">>

\* A filter, a router two levels deep, and a route for everything else.
Nested ==
    [r \in RouterNames |->
        CASE r = "root" -> Listing(<<Leaf(Null), Mount(A, api), Leaf(AB)>>)
          [] r = api -> Listing(<<Mount(B, inner), Leaf(B)>>)
          [] r = inner -> [routes |-> <<Leaf(Null), Leaf(<<"/">>)>>, keepAlive |-> FALSE]]

\* Routes limited by method, a mount that ends with the separator.
Limited ==
    [r \in RouterNames |->
        CASE r = "root" -> Listing(<<[Leaf(A) EXCEPT !.methods = {post}],
                                     Mount(<<"/", "a", "/">>, api), Leaf(Null)>>)
          [] r = api -> Listing(<<[Leaf(B) EXCEPT !.methods = {get}], Mount(<<"/">>, inner)>>)
          [] r = inner -> Listing(<<Leaf(B), Leaf(Null)>>)]

\* A router mounted without a path, before the route for everything else.
CatchAll ==
    [r \in RouterNames |->
        CASE r = "root" -> Listing(<<Mount(Null, api), Leaf(Null)>>)
          [] OTHER -> Listing(<<Leaf(B)>>)]

MountedTables == {Nested, Limited}
CatchAllTables == {CatchAll}

SomeRequests ==
    [method : MethodNames, resource : {A, AB, <<"/">>}, connection : {"keep-alive"},
     hasPayload : {TRUE}]
    \cup {[method |-> get, resource |-> AB, connection |-> "unknown", hasPayload |-> FALSE],
          [method |-> get, resource |-> <<"a">>, connection |-> "keep-alive", hasPayload |-> FALSE]}

PlainRequest ==
    {[method |-> get, resource |-> A, connection |-> "keep-alive", hasPayload |-> FALSE]}

=============================================================================
