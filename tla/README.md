# A TLA+ model of c_hs

c_hs is an embeddable HTTP server library in C: an application builds an
`HSServer`, adds routes to its router and calls `hs_server_serve`. This
directory models the parts of the library whose correctness depends on order
(the server's life and its threads, the descriptors behind its sockets, the
characters and the requests of a connection, the routes a request passes, the
sessions requests share) and the operators on texts they rest on (paths, header
lines, cookies, queries, links of listings).
TLC checks the models on small instances, TLAPS proves the main invariants for
every value of the constants.
Paths like `hs_server.c` mean `src/src/hs_server.c`; `PROJECT.json` maps every
definition to its lines.

## Inventory

| component | state it keeps | operations | what makes it correct |
|---|---|---|---|
| server (`hs_server.c`) | running, stop_requested, SSL context, router, connection handler | new, serve, listen loop, two connection handlers, release | every accepted connection is handled once and closed; stop is honoured and only when asked; serve can be called again |
| sockets (`hs_socket.c`) | raw number, TLS object | accept, read, write, close, release, receive timeout | an operation reaches the socket it is meant for; no number leaks |
| openssl (`hs_openssl.c`) | global counter of users | init, cleanup, context create and release | set up while anyone uses it, balanced |
| router (`hs_router.c`) | routes, keep-alive flag; per request: resource, base path, done, closed | serve forever, serve next, serve, as route, remove path prefix | one response; nested routers give back what they change; a close is announced and done; the next request starts at a request line |
| routes (`hs_route.c`) | path, parent flag, methods | allowed for method, supported path | segment-wise matching |
| request parameters (`hs_types.c`) | request, response, callbacks, payload, flow states | new, release, add callback, payload to string, payload to file | callbacks fit; a payload is read once |
| I/O (`hs_io.c`) | work buffer of a request | read line, read fully, write string, write file | lines and payloads are taken as they were sent wherever reads cut them; a string that is reported as written went out whole (violated after a short write) |
| parser (`hs_parser.c`) | none | request line, headers, cookies, query string | inverse of what a client wrote |
| string pairs, cookies (`hs_types_array.c`, `hs_types_cookie.c`) | growing arrays | add, get, remove | the pairs added and not removed, in order |
| session route (`hs_routes_session.c`) | session of a request, files | read, callback writes | sessions of clients stay apart; an update is lost only to a concurrent one |
| rate limit routes (`hs_routes_ratelimit.c`) | counter and creation time of the connection | serve | a connection ends when its requests or its time are used up |
| payload limit, error and security routes | limits, the callback that accepts; the request's authorization | serve | what is behind them is reached only by requests they let through; what belongs to one request stays out of the next |
| file, static, favicon, redirection, powered-by routes | paths, texts | serve | a response has the headers of the routes on its way; links of a listing lead to its entries |
| example (`examples/example.c`) | none | builds the routes above, in an order | the order is one in which the limits and guards work |

How they interact. The listener (the thread in `hs_server_serve`) accepts a
connection, sets it up and passes it to the connection handler, which runs
`hs_router_serve_forever` in the same thread or queues it in a thread pool.
The router parses a request, offers it to the routes in order, writes the
response of the first that answers and runs the callbacks routes have added.
A mounted router is a route whose `serve` runs the same dispatch with a shorter
resource. Threads share the server's flags, the descriptor table and whatever
routes keep (sessions in files); nothing in the library locks.

What is hard: the descriptor number that a socket object remembers after it is
closed, in a process where other threads accept; stop_requested, tested and
stored by all threads; release and a second serve while workers are still busy;
nested routers that change the request and must restore it; the decision to
keep a connection whose payload may not have been read; what routes leave in a
request or a response for the routes, and the requests, that follow; and texts
taken apart by loops over characters and their neighbours. Every such place is
listed in `PROJECT.json` under hazards with its line.

## Modules

| module | models | checked in | proved in |
|---|---|---|---|
| `Server` | `hs_server.c`, accept and close of `hs_socket.c`, the counter of `hs_openssl.c` | `MCServer` with `Server*.cfg` | `ServerProofs` |
| `Descriptors` | what the server promises about descriptors (abstract) | `ImplementsDescriptors` of `Server` | `DescriptorRefinement` |
| `Paths` | `hs_route_is_supported_path`, `hs_router_remove_path_prefix` | `MCText` with `Text.cfg` | `TextProofs` |
| `Listings` | the links and the base element of `hs_routes_fs.c` | `MCText` | `TextProofs` |
| `Pairs` | `hs_types_array.c`, `hs_types_cookie.c` | `MCText` | `TextProofs` |
| `Parsers` | the texts of `hs_parser.c` | `MCText` | `TextProofs` |
| `Router` | `hs_router.c`, callbacks and payload of `hs_types.c` | `MCRouter` with `Router*.cfg` | `RouterProofs` |
| `Exchange` | what the loop over requests promises the peer (abstract) | `ImplementsExchange` of `Router` | `ExchangeRefinement` |
| `BuiltinRoutes` | `hs_routes_*.c` but sessions, in a pipeline | `MCBuiltinRoutes` with `BuiltinRoutes.cfg` | `BuiltinRoutesProofs` |
| `Connection` | `hs_io.c`, `hs_parser_parse_request`, payload loading of `hs_types.c`, the writes of `hs_router.c` | `MCConnection` with `Connection*.cfg` | `ConnectionProofs`, `ConnectionStreamProofs` |
| `Session` | `hs_routes_session.c` with its file storage | `MCSession` with `Session.cfg` | `SessionProofs` |

`SequenceLemmas` holds what the proofs need to know about sequences: least and
greatest members of sets of numbers, recursive functions unfolded, flattening, a
text read by a loop with a state (`Runs`).

The definitions under the heading "faulty variants" belong to no specification.
Each is what a plausible bug would make of one definition; put in its place it
must break a property, which shows that the property depends on the code.

### Server

`pc` holds the place of each thread: for the thread `Main` that serves `out`,
`accept`, `prepare` (TLS handshake and receive timeout) and `loop` (the test of
the do-while); for the thread that handles a connection `serving` (inside
`hs_router_serve_forever`), `closing`, `ask` and `store`. In a single-threaded
server `Main` goes through the handler's places itself, in a thread-pool server
a worker does and is `idle` otherwise. `cur[t]` is the socket object a thread
works on, `jobs` the pool's queue (the pool is external: any queued job may be
taken next). `conn[c]` is a connection's life: `new`, `waiting` in the backlog,
`live`, `closed`. `sock[c]` is `raw_socket` of its socket object and `fds` the
kernel's table of descriptor numbers. They are two variables because close(2)
acts on a number: `hs_socket_close` leaves `raw_socket` as it is, so that a
connection the router closed is closed again by the handler.

One action stands for the code between two points where other threads may
interfere: `AskStop` calls the callback, `StoreStop` stores its answer, and any
thread may act in between. The test of `stop_requested` and the call of the
callback are one step because the modelled callback, once true, stays true until
serve returns, so a step in between would not be answered differently.
`stopDue` is the application's wish; a new serve starts with it withdrawn.
`ServeFails` keeps `running` set, as the code does, so that no later serve gets
past its check. `LeaveLoop` closes the listening socket, which resets the
connections that wait in its backlog. `Accept` takes any free number, a
superset of the lowest that POSIX prescribes; the length of the backlog is not
modelled.

### Paths and Router

A path is a sequence of characters, because the code compares characters, at
the end of the route's path and after it. `Router` keeps the C call stack of
nested routers as `stack`; a frame remembers the resource and the base path that
`_hs_router_as_route_serve` will put back. `phase` says whether the thread is
between requests (`ready`), looks for a route (`dispatch`), returns after a
response (`unwind`), runs callbacks (`callbacks`) or is done with the connection
(`over`). A route's `serve` is the application's: `Invoke` lets it do whatever the
library's own routes do to the request (turn the connection to close, add a
callback, load the payload) and then continue or respond. `unread` says whether
payload of the request is still in the socket. With `LoadsFail` a payload may be
marked loaded and stay there, as when the file for it cannot be opened; the
connection is then kept and the payload read as a request, so the runs and the
theorem have `LoadsFail = FALSE` and say that the framing of the next request
depends on it (the hazard at `hs_types.c:367`). A request that does not parse ends
the connection (`StopServing`); the characters are in `Connection`.

`Exchange` is the same loop as the peer sees it: a request is taken, answered at
most once with an announced `keep-alive` or `close`, and another one is taken only
after the former. `Router` implements it with `ready` as waiting, `over` as
over and every other phase as serving; what happens between `Parse` and the
response, and between the response and the end of the callbacks, stutters.

### Paths, Listings, Pairs, Parsers

Operators, translated loop by loop: a recursive function of an index stands for
a loop over characters, its record for the loop's local variables
(`ParseCookies`, `ParseQuery`). `MCText` compares each with what it is the inverse
of, or with a definition by parts. The state of `MCText` is a subject (`paths`,
`header`, `cookies`, `address`, `query`, `pairs`) and the texts of its parts, which
grow a character at a time; so TLC meets every choice of parts up to the
bound and reports the shortest that breaks a property. The alphabets hold the
characters the code compares with and one or two others. A protocol, a method
and the HTTP version are one character each, since the code finds
them by comparing whole words; letters have case only where the code maps it
(header names).

What a client writes must be told apart before it can be said to come out as
written, so a property has the preconditions of the format, and no others: a header's value has no ": ", since
the last one ends the name; a cookie's name has no "=" and does not start with a
space, its value neither has "; " nor ends with ";"; a domain has no separator, a
port only digits. A last cookie without a value, not followed by ";", is dropped,
which `CookiesAsWritten` says. Links are looked at below a mount that ends with the
separator, the only place where the page's base element and the link fit.

### BuiltinRoutes

The requests of one connection through a `pipeline`: the routes of an
application in their order, each with the resources and methods it is there
for. A router mounted in another is written as its routes in its place, which is
how dispatch treats it (`DispatchFollowsOrder` and `SeenBelowMounts` of `Router`).
Each route is an action, or two when what it looks for may be missing
(`NothingStored` for a file that is not there): what the file system
holds is a choice at every request. `GoOn` is
`HS_SERVE_FLOW_RESPONSE_CONTINUE`, `Answer` is `_DONE` with the close decision of
`_hs_router_serve`, for routes that never read a payload.

`request` is what the client sent, and `contentLength`, `authorization` and
`connection` what the server made of it and routes change: the authentication
route cuts the scheme off the authorization in place, the limits and the file
route turn `connection` to close. `headers`, `code` and `by` (the route that
answered) describe the response. They stay after the answer, until the next
`Parse`, so that the properties can compare what came out with what came in;
`NewResponse` is what clears them. A length goes through `atoi` into an int and
from there into a size_t: both wrap, an int at `IntValues` and a size_t at `SizeValues` values. `now` is
the wall clock relative to the connection's creation; it may be set back, also to
before it (`steady` is false from then on).

### Connection

One connection, character by character. The client sends one request after
another, each after the response to the one before, and may leave between
requests or in the middle of one; `whole` says that the last one was sent to its
end. `inbox` is what the socket holds, and every read takes any non-empty part
of it. `work` is the work buffer of `hs_parser_parse_request`, which becomes
`payload->partial`; `chunk` is the local buffer of `hs_io_read_line`. `phase` is
the loop the thread is in: reading lines, in a route, loading the payload to a
string or to a file, writing, or done. `left` is the counter of that loop.

The code's particulars that a test would hardly meet are kept. The work buffer
takes C strings, so what follows a NUL in one read is dropped (`CString`); the run
connection_binary shows the loss, the other instance has no NUL. A read of -1 in
`hs_io_read_line` appends the last chunk once more (`ReadLineFails`), as the test
is `if (size)`; properties about what was sent therefore assume `~failed`. The
terminating zero that is then written outside the array, also after a read that
fills it, is not modelled. A first
line that does not parse leaves no request, and the handler works on a NULL
pointer (`crashed`). A write that takes part of a string is repeated from the
string's start (`WriteSome`), so that its end never goes out, although
`hs_io_write_string_to_socket` returns true and `hs_io.h:52` promises the entire
string. `EntireStringWritten` states that promise and the run connection_short shows
it violated; `short` remembers that it happened, and `ResponseAsWritten` speaks of the
characters of a response only until then, of their number afterwards. Writes fail only when the client has
gone, with SIGPIPE ignored by the application; files can be opened and do not
change. `LengthOf` is the length the server takes from a request's lines;
nothing in the module makes it the length of the body that follows, the scripts do.

### Session

What a session contains is the set of requests that changed it, so that a lost
update is a missing member. Each connection's thread reads the session when the
route runs (`ReadSession`), lets a later route change it and respond (`Respond`),
and stores it in the post-response callback, in two steps because opening the
file empties it (`WriteBegins`, `WriteEnds`). A client has a cookie jar for its
connections, and a request carries the cookie the jar held when it was sent. `jar`
starts empty or with an id the server did not make (`Foreign`): a cookie from
before the files were removed, for instance, that several clients may hold.
Generated ids are assumed to differ: the code makes them of two calls of rand()
and the time, and nothing checks them. `crowded` remembers which sessions two
requests held at a time. At most one failure of the storage or one restart
happens (`failed`). An id whose file is missing (`NoFile`) is not found, and the
request goes on with a new id.

## Runs

| run | question | instance | result |
|---|---|---|---|
| server_single | is the single-threaded server correct, TLS included? | 3 connections, 3 numbers, 2 serves | holds |
| server_live | does the thread-pool server handle each connection once, leak none, and do stop and connections come to an end? | TLS, 2 connections, 2 workers, 3 numbers, timeouts set | holds |
| text | do paths match by segment, links lead to entries, and header lines, cookies, queries, targets and arrays come out as written? | every text up to 7 or 8 characters, paths up to 13 | holds |
| router | dispatch, response, close decision, callbacks; does the loop implement `Exchange`? | routers three deep, two tables, 2 requests | holds |
| connection | are requests and payloads taken whole, however reads cut them, and responses written as they were made until a write is short? | 3 scripts of up to two requests, 5 responses | holds |
| session | do sessions stay apart and keep what is put in them? | 2 clients, 3 connections, storage failure, restart | holds |
| builtin_routes | do limits and guards hold whatever the order of the routes, and stay requests of a connection apart? | 3 pipelines, 3 requests, 3 seconds | holds |
| server_double_close | does a thread close only its own descriptor? | 2 connections, 2 workers | violated |
| server_lost_stop | is a stop final? | 2 connections, 2 workers, 2 serves | violated |
| router_catch_all | is the resource given back by a mount without path? | one such mount | violated |
| connection_binary | does a route get the payload that was sent? | a payload with a NUL | violated |
| connection_short | is a string that was reported as written written whole? | one request, a content of two characters | violated |

The runs expected to fail check one documented statement each; `PROJECT.json`
quotes the statement under findings. They show where the documentation and the
code disagree, not that the rest of the module is wrong.

Bounds. `MaxServes` caps the calls of `hs_server_serve`: two are enough for
the state of one serve to meet the next. Two workers are enough for two answers
to race. Two connections and three numbers (one is the listener's) let a number be
used again while another worker is not done with it; the single-threaded run has
a third connection, which waits meanwhile, and the second serve. That the
thread-pool server handles connections once and leaks none over several serves,
and with more connections than workers, is proved.
`MaxRequests` caps the requests of a connection: two, so that one starts from
what the other left. `SubjectMaxPart` and `SubjectMaxText` bound the parts of a text
and their sum: long enough for a mount of two segments, or one of two
characters, followed by more segments; for a header's value of four characters,
two cookies with separators in their values, two pairs of a query with empty keys
and values, a target with all its parts, and seven pairs with the same key next to
each other and apart. The tables of
`MCRouter` have filters, mounts with and without a trailing separator, a mount
of "/", a router two levels deep without keep-alive, routes limited by method and
a route nothing precedes. In `MCConnection` a word is one character and a read
takes at most three (`Bulk`), so that a line end, the empty line and a payload
are cut at every place, payloads look like line ends, and a file is shorter
than, as long as and longer than a chunk. A client of `MCSession` makes two
requests, one client on one connection and one on two, which is what a lost
update, an overtaken write and a cookie that comes back need; there is an id for
every request and a foreign one. Deadlock is not checked: a server that was released and
a connection that is over, or whose client sends no more, really stop, and the
growth of the texts in `MCText`
ends at its bound.

`MCBuiltinRoutes` has three pipelines: the routes of `examples/example.c` in its
order; the rate limits in front of everything, with a payload limit of 0, which
is a route without `serve`; and two authentication routes on one way. Three
requests are one more than the request limit, three seconds one more than the
time limit. An int of eight values and a size_t of sixteen have lengths below, at
and above the limit, one that is negative as an int and one that wraps to 0.
`MaxRequests` and `MaxTime` cap the counter and the clock.

Symmetry (connections, workers, numbers) is used where only safety is checked,
and in no run that checks leads-to properties.

## Fairness

`FairSpec` of `Server` assumes that a thread that can run runs: weak fairness of
every step of a handler, of taking a job by an idle worker and of the
listener's own steps. Steps that wait in a system call are fair only if a timeout
makes the call return: `AcceptNothing` with `accept_recv_timeout_seconds`, the end
of a connection with `request_recv_timeout_seconds`, the TLS handshake with the
accept timeout, which an accepted socket inherits from the listening one. A
client that waits in the backlog is accepted in the end. The end of a connection
also assumes that a client does not send requests for ever, or that
`should_stop_for_connection` ends it. Nothing makes an application ask for a
stop. `FairSpec` of `Router` assumes that the `serve` of a route returns. `FairSpec` of
`Connection` is weak fairness of the steps of its thread, which include neither the
client's nor a failing read: a request that was sent to its end must be answered
without the help of a timeout. `FairSpec` of `Session` assumes, for each
connection, that its thread runs and that a response on its way arrives.

## Proofs

`ServerProofs`. `IInv` is the inductive invariant for both handlers: types; where
a thread may be and whether it then holds a socket object (`Places`); that what
it holds is live or was closed by the router (`Sockets`); `HandledOnce`,
`DescriptorsReturned`, `TlsBalanced`. `HandledOnce` is not inductive without
`Places` (a thread that holds nothing could be handed a second connection) and
`DescriptorsReturned` not without `HandledOnce` (a thread may then close the
number of a connection another one holds). `SInv` adds what holds when the handler
is single-threaded: only `Main` works (`OnlyMain`), and the number of a connection
the router closed is free or its own until the handler closes it again
(`ClosedNumberIsFree`), which is what makes the double close harmless there and
fails with a second thread. From it follow `OwnDescriptor`, `StopIsWanted`,
`StopHonoured` and the refinement of `Descriptors`, where a holder's number is its
`raw_socket` while it is live and none afterwards: `Accept` and `Serve` are
`Take`, the first close is `GiveBack`, every other step stutters. These theorems
assume `Handler = "single"`; the violated runs show that they need to.

`BuiltinRoutesProofs`. `IInv` says, for a request that is looked at or was
answered, why each route in front of the current one let it through (`PassedLet`),
that what the routes see is what came in, but for a scheme that was cut off
(`CameIn`), why the route that answered refused it (`Answered`), and that a limit
in front of every answer bounds the counter (`Bounded`). `GuardsHold` and `LimitsHold`
are not inductive: they speak of answers, and say nothing of a request on its way.
The proof has a lemma for a route that lets a request through (`GoOnKeeps`) and one for
a route that answers (`AnswerKeeps`); each route's own lemma shows what these ask
for. That a client's last length exists needs the greatest of a set of places;
`HasMin` takes it from the well-foundedness of the numbers in the library, which is an induction
without an operator as parameter.

That an answer has the headers of its own request (`HeadersOfRequestAlways`) needs
that the headers added so far are those of the routes passed, in order (`IsTrail`);
the reference definition is a recursive function, of which only its defining
equation is used.

`RouterProofs`. `TypeCorrect` needs that the stack is not empty while a router is
active. `AInv` joins `OneResponse`, `ClosePromised` and `CallbacksFit` with what a
phase says about responses and flags. `NextRequestIsFramedHolds` assumes that
loading a payload does not fail (`~LoadsFail`), without which it is false.
`ExchangeRefinement` shows that `Router` implements `Exchange` from `AInv`, which says
that there is at most one response and that a response that announces the close has
set the flag: `Parse` is `TakeRequest`, `RouteResponds` is `Answer`, `Finish` is
`GoOn` or `End`, `StopServing` is `End`, the rest stutters. `SeenBelowMountsHolds`
is inductive together with the types: entering a mount strips what leaving gives
back. It assumes `MountsHavePaths`, and the run router_catch_all shows why.
`CallbacksNestHolds` and `InvokedOnceHolds` rest on `NestInv`: a route is
invoked once (`InvokedOnce`), after the mount of its router (`EnteredByMount`,
`InvokedBehind`), the routers on the stack are those of mounts that were invoked and
are all different (`StackedByMount`, `StackDistinct`), callbacks are stored in the
order of invocation and run from the last (`CallbacksInOrder`, `RanFromLast`). They
assume `MountedOnce`, no router mounted at two places: releasing the
routes would release such a router twice. `ClosePromisedHolds`, `CallbacksFitHolds`
and `InvokedOnceHolds` are only proved; no run checks them by themselves.
`DispatchFollowsOrderHolds` compares what was invoked with a flat list that follows the
mounts (`Flat`, a recursive function over the depth of mounting). `OrderInv` says that
what was invoked and what is left make up that list, where what is left is, at every
active router, what its routes from the current one on stand for (`RestAt`), one after
the other from the innermost out (`AreTails`): a route that does not match stands
for nothing (`OrderSkip`), an invoked one moves over (`OrderInvoke`), entering a mount
unfolds what it stands for (`OrderEnter`), and leaving a router whose routes are at an
end changes nothing (`OrderLeave`). That the list's depth, the number of routers,
is enough needs that no router is active twice, by the pigeonhole principle
(`StackBound`); so it assumes `MountedOnce`, and `MountsHavePaths`, since a router mounted
without a path gives back no resource and nothing after it would match.

`SessionProofs`. The idea is that an id the server generated is known to one
client: the jar, the request, the thread and the response on its way that hold it
belong to that client (`IdsArePrivate`, `OwnRequests`), and no id is made twice
(`GeneratedIds`). `Threads` ties a thread's phase to what it holds. From it
`SessionsNotMixed` is inductive: what a thread writes to a session is its client's,
and so is what it read there (`SessionsOfOwner`). `AloneKeepsAll` needs that a
session that was never crowded has one holder, who has seen all that is stored in it
(`AloneHasAll`); `OneConnectionKeepsAll` that a client with one connection holds, in
its jar, on the way or in its thread, the session of its last request, and all its
requests in it (`SingleProgress`).

`ConnectionProofs` proves the types (`Places` says what the file and write loops
work on) and `ResponseAsWritten` from `Channel`: what is written, what is left of the
piece and what comes after it make up the response, in number always and in content
until a write is short. `ConnectionStreamProofs` is about what is read. `Heads` of a
request are its lines cut at every place; `StreamInv` says that what is buffered and
what is in the socket is the rest of a request that was sent at least up to there
(`InHeader`), and that between requests there is nothing (`Between`). `PayloadInv` is
the same for the body and for a request that was sent whole. The theorems assume
`FramedScripts`: lines without line ends and without NUL, and a body of the length
the header gives, as a client must write them; what follows a shorter length is
read as the next request by any server. `PayloadAsSentHolds` also assumes bodies
without NUL (`PlainScripts`), and the run connection_binary shows why.

`TextProofs` proves what `MCText` checks up to a bound for texts of every length and
over every alphabet, in pairs: a theorem about the operators, and the invariant of
`MCText` that follows from it and from `WellFormed` (the parts are texts, paths are
rooted). `HeaderRoundTrip` shows that the last ": " of a line is the one the client
wrote. `ParentServesByName` and `MountedRouteServes` are about the names of a path:
`Segments` of two paths put together are those of the one and the other
(`SegmentsConcat`), those of a resource are those of the mount and of what the
mounted router sees (`SeenSegments`), and a clean path is spelled by its names
(`JoinSegments`), so that nothing else has the same. `LinkLeadsToEntry` follows a
link from a page through the browser's rules (RFC 3986, with the base element of the
page) to the mount and back through the code; its invariant assumes that the
separator is "/", since `MCText` names the entry "a". `RemovalIsExact`
is about the loop from the last index to the first: after each step the indexes still
to be looked at hold what they held (`LooksAt`). For this the recursive functions
`Segments`, `RemoveByKey` and `FlattenSeq` are shown to have the value their equation
gives, and induction over an index is the least counterexample of `HasMin`, which
the library has from the well-foundedness of the numbers without an operator as
parameter.

The parsers that keep a record of several variables are proved the same way. The
loop of the model is restated with its separators as parameters (`QueryLoop`,
`CookieLoop`, `WordLoop`; that it is the model's is `QueryIsLoop`, `CookiesAreLoop`,
`WordsAreLoop`), since the solvers do not compare character constants well. `Runs`
says that reading a text leads from one state to another; it is composed of what
each character does (`QueryEnds`, `CookieSkips`, `WordGoesOn`, ...) by concatenation
(`RunsConcat`) and along a list of pieces (`RunsChain`), here the pairs a client wrote.
Whether a ";" ends a cookie depends on the character after it, so a line of cookies
is read as characters that are marked with that answer (`Marks`), and the marks of a
piece depend on what follows it (`MarksConcat`). From the state after the last piece
follow `QueryRoundTrip`, `CookieRoundTrip` and `RequestLineRoundTrip`.
`AddressRoundTrip` has no loop of its own: each separator first stands at the end of the
part in front of it (`CutAtFirst`), because a domain has none of them, a port no "/" or
"?" and a path no "?"; a ":" in the path comes after the first "/" and is no port
(`PortOfTarget`).
`CookiesAsWrittenHolds` and `AddressAsWrittenHolds` follow for the inputs of `MCText`.

All theorems assume the named assumptions on the constants, which TLC
evaluates in the runs (of `MCText`: `PartsAssumption`, a subject has as many bounds as
parts; `NullAssumption`, NULL is no text and no part of one; `AddressAssumption`, the
characters of a URL are no spaces and are not the ones that stand for a
whole protocol, and a digit is no separator), and, where it is said above, a hypothesis on the instance that a run
shows to be needed.

Only model-checked: the liveness properties and what involves fairness (out of the
prover's reach). Every invariant and every action property that a run checks and
that holds is also stated by a theorem.

## Seen, and not a finding

Places where the code does something a user might not expect. The properties
name them as preconditions, or the hazards of `PROJECT.json` note them.

- A header's value is cut at its last ": " (`hs_parser.c:62`).
- A content length beyond an int wraps, so that the payload limit may let it
  through (`hs_routes_payload_limit.c:26`; `hs_parser.c:182`).
- In the example's order the length and payload routes are in front of the rate
  limits, so their 411 and 413 answers are counted and never limited
  (`examples/example.c:96`).
- Of two authentication routes on one way the second refuses everything, since the
  first cuts off the scheme (`hs_routes_security.c:185`).
- The links of a listing lead to its entries only below a mount that ends with the
  separator (`hs_routes_fs.c:319`).
- A last cookie without a value is dropped (`hs_parser.c:148`), and an address that ends
  with ":" has no resource (`hs_parser.c:467`).
- `hs_server_release` frees the router (`hs_server.c:90`) before the thread pool
  (`hs_server.c:91`), and `hs_server_serve` does not wait for the workers: in `Server`,
  `Release` is enabled while a worker is `serving`. The usage in `src/README.md` calls
  one right after the other.
- A server whose accepted connection gets no `SSL` object does not close its number
  (`hs_socket.c:303`). Only a failed allocation leads there, so `PrepareFails` stands for
  the handshake and for the receive timeout, which do close it.
- A failed load leaves the payload in the socket of a connection that stays open
  (`hs_types.c:367`).

## Not modelled

The tables of `hs_constants.c`; the text of responses, of header values and of the
HTML around links, and log output; allocation failures and the freeing of
structures; routes and connection handlers an application writes itself, except as
`Router` lets any route behave; TLS below the handshake's outcome; the options of
the listening socket; several servers sharing the counter of OpenSSL's users;
files that change between the look at their size and the read
(`hs_router.c:443`); the command line of the example.
The thread pool, vector, hashtable, stringfn, stringbuffer, fsio and ini are other
projects and enter as the code uses them.

## Plan

Done, in this order: `Server` with `Descriptors`, `Paths`, `Router`, their proofs,
`Connection`, `Session`, `Pairs`, `Parsers`, `Listings`, `BuiltinRoutes`, `Exchange` with
its refinement proof, the proofs about `BuiltinRoutes`, `Session`,
`Connection`, what nested routers see and in which order they are dispatched and
their callbacks run, paths, links, removals, and the texts of the parsers. Next:

1. Abstract specifications: an atomic store that `Session` implements as long as no
   session is crowded, a channel that delivers a prefix of the response for
   `Connection`.
2. The unlocked counter of `hs_openssl.c` with several servers.
