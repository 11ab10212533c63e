-------------------------------- MODULE Session --------------------------------
(***************************************************************************)
(* hs_routes_session.c: the session route with its file storage.  Threads  *)
(* handle connections side by side; a request reads its session when the   *)
(* route runs and writes it back in a callback, after the response.  A     *)
(* client keeps its session id in a cookie and may use several             *)
(* connections; on each it sends a request when it has the response to the *)
(* one before.                                                             *)
(*                                                                         *)
(* What is in a session is the set of the requests that changed it.        *)
(***************************************************************************)
EXTENDS Naturals, FiniteSets

CONSTANTS
    Clients,      \* clients, each with a cookie jar
    Conns,        \* connections
    ClientOf,     \* the client of a connection
    Ids,          \* session ids
    Foreign,      \* an id a client may hold that the server has not made
    NoId,         \* no session cookie
    None,         \* no request
    MaxRequests   \* bound on the requests of a client

ASSUME ClientOfAssumption == ClientOf \in [Conns -> Clients]
ASSUME ForeignAssumption == Foreign \in Ids /\ NoId \notin Ids
ASSUME MaxRequestsAssumption == MaxRequests \in Nat

Requests == [client : Clients, number : 1 .. MaxRequests, cookie : Ids \cup {NoId}]

ASSUME NoneAssumption == None \notin Requests

\* What the storage has for an id without a file: no session has None in it.
NoFile == {None}

VARIABLES
    jar,        \* the session cookie of a client
    asked,      \* requests a client has made
    inbox,      \* the request that waits on a connection
    setCookie,  \* the cookie of a response that is on its way
    phase,      \* what the connection's thread does
    request,    \* the request it serves
    sid,        \* session_id of the callback's context
    data,       \* session->data
    open,       \* the connection goes on after the callback
    store,      \* the files under ./sessions
    used,       \* ids that were generated
    stored,     \* requests whose session was written, with its id
    crowded,    \* ids of sessions that two requests held at a time
    failed      \* the storage has failed or the server was killed

clientVars == <<jar, asked, inbox, setCookie>>
threadVars == <<phase, request, sid, data, open>>
vars == <<clientVars, threadVars, store, used, stored, crowded, failed>>

Phases == {"idle", "serve", "callback", "writing", "over"}

TypeOK ==
    /\ jar \in [Clients -> Ids \cup {NoId}]
    /\ asked \in [Clients -> 0 .. MaxRequests]
    /\ inbox \in [Conns -> Requests \cup {None}]
    /\ setCookie \in [Conns -> Ids \cup {NoId}]
    /\ phase \in [Conns -> Phases]
    /\ request \in [Conns -> Requests \cup {None}]
    /\ sid \in [Conns -> Ids \cup {NoId}]
    /\ data \in [Conns -> SUBSET Requests]
    /\ open \in [Conns -> BOOLEAN]
    /\ store \in [Ids -> (SUBSET Requests) \cup {NoFile}]
    /\ used \in SUBSET (Ids \ {Foreign})
    /\ stored \in SUBSET (Requests \X Ids)
    /\ crowded \in SUBSET Ids
    /\ failed \in BOOLEAN

Init ==
    /\ \E id \in {NoId, Foreign} : jar = [u \in Clients |-> id]
    /\ asked = [u \in Clients |-> 0]
    /\ inbox = [c \in Conns |-> None]
    /\ setCookie = [c \in Conns |-> NoId]
    /\ phase = [c \in Conns |-> "idle"]
    /\ request = [c \in Conns |-> None]
    /\ sid = [c \in Conns |-> NoId]
    /\ data = [c \in Conns |-> {}]
    /\ open = [c \in Conns |-> TRUE]
    /\ store = [id \in Ids |-> NoFile]
    /\ used = {} /\ stored = {} /\ crowded = {} /\ failed = FALSE

\* A request holds its session from reading it to writing it.
Holds(c, id) == phase[c] \in {"serve", "callback", "writing"} /\ sid[c] = id

\* A faulty variant of Fresh: generated ids are so few that somebody has made
\* one up.
GuessableId == IF Foreign \notin used THEN Foreign ELSE CHOOSE id \in Ids : id \notin used

\* hs_routes_session_route_generate_cookie_id: ids do not repeat.
Fresh == CHOOSE id \in Ids \ {Foreign} : id \notin used

Found(id) == id # NoId /\ store[id] # NoFile

-----------------------------------------------------------------------------
\* Faulty variants, each put in place of a definition below to see that a
\* property can fail.

\* A session that is not found is created under the id that was asked for.
SessionIdKept(id) == IF id = NoId THEN Fresh ELSE id

\* The session is serialised when the route runs, before a later route
\* changes it.
SerializedEarly(c) == data[c] \ {request[c]}

\* Only a session that was found refreshes its cookie.
CookieOnlyRefreshed(c) ==
    IF request[c].cookie = sid[c] THEN sid[c] ELSE request[c].cookie

\* A callback writes to files that exist.
CreatesOnlyFound(id) == Found(id)

-----------------------------------------------------------------------------
\* The client.

Waits(c) == inbox[c] # None \/ phase[c] = "serve" \/ setCookie[c] # NoId

Ask(c) ==
    LET u == ClientOf[c]
    IN  /\ open[c] /\ ~Waits(c) /\ asked[u] < MaxRequests
        /\ asked' = [asked EXCEPT ![u] = @ + 1]
        /\ inbox' = [inbox EXCEPT ![c] = [client |-> u, number |-> asked[u] + 1, cookie |-> jar[u]]]
        /\ UNCHANGED <<jar, setCookie, threadVars, store, used, stored, crowded, failed>>

Receive(c) ==
    /\ setCookie[c] # NoId
    /\ jar' = [jar EXCEPT ![ClientOf[c]] = setCookie[c]]
    /\ setCookie' = [setCookie EXCEPT ![c] = NoId]
    /\ UNCHANGED <<asked, inbox, threadVars, store, used, stored, crowded, failed>>

-----------------------------------------------------------------------------
\* The id a request goes on with: the cookie's when its session is found, a
\* generated one otherwise.
SessionId(id) == IF Found(id) THEN id ELSE Fresh

\* What read_from_storage and from_string make of it.
SessionData(id) == IF Found(id) THEN store[id] ELSE {}

\* _hs_routes_session_route_serve.  Ids bounds the sessions that are made.
ReadSession(c) ==
    LET r == inbox[c]
    IN  /\ phase[c] = "idle" /\ r # None
        /\ Found(r.cookie) \/ used # Ids \ {Foreign}
        /\ phase' = [phase EXCEPT ![c] = "serve"]
        /\ request' = [request EXCEPT ![c] = r]
        /\ inbox' = [inbox EXCEPT ![c] = None]
        /\ sid' = [sid EXCEPT ![c] = SessionId(r.cookie)]
        /\ data' = [data EXCEPT ![c] = SessionData(r.cookie)]
        /\ used' = IF Found(r.cookie) THEN used ELSE used \cup {Fresh}
        /\ crowded' = crowded \cup {id \in {sid'[c]} : \E d \in Conns \ {c} : Holds(d, id)}
        /\ UNCHANGED <<jar, asked, setCookie, open, store, stored, failed>>

\* The cookie hs_routes_session_new_cookie adds to the response.
ResponseCookie(c) == sid[c]

\* A later route changes the session and answers; the response is written.
Respond(c) ==
    /\ phase[c] = "serve"
    /\ data' = [data EXCEPT ![c] = @ \cup {request[c]}]
    /\ setCookie' = [setCookie EXCEPT ![c] = ResponseCookie(c)]
    /\ phase' = [phase EXCEPT ![c] = "callback"]
    /\ UNCHANGED <<jar, asked, inbox, request, sid, open, store, used, stored, crowded, failed>>

\* No route answers: the callback runs all the same, the connection is over.
NoResponse(c) ==
    /\ phase[c] = "serve"
    /\ phase' = [phase EXCEPT ![c] = "callback"]
    /\ open' = [open EXCEPT ![c] = FALSE]
    /\ UNCHANGED <<clientVars, request, sid, data, store, used, stored, crowded, failed>>

\* What to_string makes of the session in the callback.
Serialized(c) == data[c]

\* write_to_storage does not ask whether there is a session yet.
Creates(id) == TRUE

\* The file is opened, which empties it.
WriteBegins(c) ==
    /\ phase[c] = "callback" /\ Creates(sid[c])
    /\ store' = [store EXCEPT ![sid[c]] = {}]
    /\ phase' = [phase EXCEPT ![c] = "writing"]
    /\ UNCHANGED <<clientVars, request, sid, data, open, used, stored, crowded, failed>>

\* The thread is done with the request.
Release(c) ==
    /\ phase' = [phase EXCEPT ![c] = IF open[c] THEN "idle" ELSE "over"]
    /\ request' = [request EXCEPT ![c] = None]
    /\ sid' = [sid EXCEPT ![c] = NoId]
    /\ data' = [data EXCEPT ![c] = {}]

\* The file is written and closed.
WriteEnds(c) ==
    /\ phase[c] = "writing"
    /\ store' = [store EXCEPT ![sid[c]] = Serialized(c)]
    /\ stored' = stored \cup {<<r, sid[c]>> : r \in data[c] \cap {request[c]}}
    /\ Release(c)
    /\ UNCHANGED <<clientVars, open, used, crowded, failed>>

\* write_to_storage fails, before or after it has emptied the file; its
\* result is not looked at.  Failures and restarts are bounded by one.
WriteFails(c) ==
    /\ phase[c] \in {"callback", "writing"}
    /\ ~failed /\ failed' = TRUE
    /\ Release(c)
    /\ UNCHANGED <<clientVars, open, store, used, stored, crowded>>

\* The server is killed and started again: the files and the cookies stay.
Restart ==
    /\ ~failed /\ failed' = TRUE
    /\ inbox' = [c \in Conns |-> None]
    /\ setCookie' = [c \in Conns |-> NoId]
    /\ phase' = [c \in Conns |-> "idle"]
    /\ request' = [c \in Conns |-> None]
    /\ sid' = [c \in Conns |-> NoId]
    /\ data' = [c \in Conns |-> {}]
    /\ open' = [c \in Conns |-> TRUE]
    /\ UNCHANGED <<jar, asked, store, used, stored, crowded>>

Step(c) == \/ ReadSession(c) \/ Respond(c) \/ NoResponse(c)
           \/ WriteBegins(c) \/ WriteEnds(c)

Next == \/ \E c \in Conns : Ask(c) \/ Receive(c) \/ Step(c) \/ WriteFails(c)
        \/ Restart

Spec == Init /\ [][Next]_vars

\* Threads run, and responses arrive.
FairSpec == Spec /\ \A c \in Conns : WF_vars(Step(c)) /\ WF_vars(Receive(c))

-----------------------------------------------------------------------------
\* No session holds what requests of two clients put in it, whatever id they
\* came with, failures or not (hs_routes_session.c:303-320).
SessionsNotMixed ==
    \A id \in Ids : store[id] # NoFile =>
        \A r, s \in store[id] : r.client = s.client

\* A client that uses one connection finds in its session what all its
\* requests before have put there (hs_routes_session.c:279-405): the session
\* is stored before the connection's next request is read.
OneConnectionKeepsAll ==
    \A c \in Conns :
        /\ phase[c] = "serve" /\ ~failed
        /\ \A d \in Conns \ {c} : ClientOf[d] # ClientOf[c]
        => {r.number : r \in data[c]} = 1 .. request[c].number - 1

\* A session loses a change only when two requests held it at a time.
AloneKeepsAll ==
    \A id \in Ids \ crowded :
        ~failed /\ (\A c \in Conns : ~(phase[c] = "writing" /\ sid[c] = id)) =>
            \A r \in Requests : <<r, id>> \in stored => r \in store[id]

\* A cookie leads to a session: what a client was told to come back with is
\* stored in the end.
CookieIsStored ==
    \A u \in Clients :
        (jar[u] \in used) ~> (failed \/ jar[u] \notin used \/ store[jar[u]] # NoFile)

=============================================================================
