----------------------------- MODULE SessionProofs -----------------------------
(***************************************************************************)
(* Proofs about Session, for every number of clients, connections, ids and *)
(* requests.  They rest on one idea: an id that the server has generated   *)
(* is known to one client only, so that only this client's requests reach  *)
(* the session of that id.                                                 *)
(***************************************************************************)
EXTENDS Session, TLAPS

USE ClientOfAssumption, ForeignAssumption, MaxRequestsAssumption, NoneAssumption

\* The thread of a connection has a request in these phases.
Serving == {"serve", "callback", "writing"}

\* Where a thread is and what it has in hand agree.
Threads ==
    \A c \in Conns :
        /\ phase[c] \in Serving <=> request[c] # None
        /\ phase[c] \in Serving <=> sid[c] # NoId
        /\ phase[c] = "serve" => inbox[c] = None /\ setCookie[c] = NoId
        /\ phase[c] \in {"idle", "serve"} => open[c]
        /\ setCookie[c] # NoId => inbox[c] = None
        /\ ~open[c] => inbox[c] = None

\* A thread serves its client's requests, and works on a session of theirs.
OwnRequests ==
    \A c \in Conns :
        /\ inbox[c] # None => inbox[c].client = ClientOf[c]
        /\ request[c] # None => request[c].client = ClientOf[c]
        /\ \A r \in data[c] : r.client = ClientOf[c]

\* An id that is about is a generated one, or the one a client came with.
GeneratedIds ==
    /\ \A u \in Clients : jar[u] \in used \cup {NoId, Foreign}
    /\ \A c \in Conns :
        /\ inbox[c] # None => inbox[c].cookie \in used \cup {NoId, Foreign}
        /\ setCookie[c] \in used \cup {NoId}
        /\ sid[c] \in used \cup {NoId}
    /\ \A id \in Ids : store[id] # NoFile => id \in used
    /\ \A p \in stored : p[2] \in used

\* Client u has the generated id, or one of its connections deals with it.
Knows(u, id) ==
    /\ id \in used
    /\ \/ jar[u] = id
       \/ \E c \in Conns :
            /\ ClientOf[c] = u
            /\ id \in {setCookie[c], sid[c]} \/ (inbox[c] # None /\ inbox[c].cookie = id)

\* A generated id is known to one client.
IdsArePrivate ==
    \A u, v \in Clients, id \in Ids : Knows(u, id) /\ Knows(v, id) => u = v

\* The session a client knows of has nothing but that client's changes.
SessionsOfOwner ==
    \A u \in Clients, id \in Ids :
        Knows(u, id) /\ store[id] # NoFile => \A r \in store[id] : r.client = u

\* The inductive invariant.
IInv ==
    /\ TypeOK
    /\ Threads
    /\ OwnRequests
    /\ GeneratedIds
    /\ IdsArePrivate
    /\ SessionsOfOwner
    /\ SessionsNotMixed

\* A session that was never crowded has one holder, who has seen all of it.
AloneHasAll ==
    ~failed => \A id \in Ids \ crowded :
        /\ \A c, d \in Conns : Holds(c, id) /\ Holds(d, id) => c = d
        /\ \A c \in Conns : Holds(c, id) =>
              \A r \in Requests : <<r, id>> \in stored => r \in data[c]

Numbers(S) == {r.number : r \in S}

\* The only connection of its client.
Single(c) == \A d \in Conns \ {c} : ClientOf[d] # ClientOf[c]

\* What a client that uses connection c alone comes back with.
Cookie(c) == IF setCookie[c] # NoId THEN setCookie[c] ELSE jar[ClientOf[c]]

\* The requests of such a client that its thread has taken.
Taken(c) == asked[ClientOf[c]] - (IF inbox[c] = None THEN 0 ELSE 1)

\* Its thread has in hand what all requests before have put in the session,
\* or the file of its cookie has.
Progress(c) ==
    /\ inbox[c] # None => inbox[c].number = asked[ClientOf[c]]
    /\ inbox[c] # None => inbox[c].cookie = jar[ClientOf[c]]
    /\ request[c] # None => request[c].number = Taken(c)
    /\ phase[c] = "serve" => Numbers(data[c]) = 1 .. Taken(c) - 1
    /\ phase[c] \in {"callback", "writing"} =>
          Numbers(data[c]) = 1 .. Taken(c) /\ Cookie(c) = sid[c]
    /\ phase[c] = "idle" =>
          \/ Taken(c) = 0 /\ Cookie(c) \in {NoId, Foreign}
          \/ /\ Cookie(c) \in used
             /\ store[Cookie(c)] # NoFile
             /\ Numbers(store[Cookie(c)]) = 1 .. Taken(c)

SingleProgress == ~failed => \A c \in Conns : Single(c) /\ open[c] => Progress(c)

-----------------------------------------------------------------------------
\* A step of connection c, seen from the outside.
Acts(c) == Ask(c) \/ Receive(c) \/ Step(c) \/ WriteFails(c)

\* The generated id is a new one as long as one is left.
LEMMA FreshIsNew ==
    ASSUME TypeOK, used # Ids \ {Foreign}
    PROVE  Fresh \in Ids \ {Foreign} /\ Fresh \notin used
  <1>1. \E id \in Ids \ {Foreign} : id \notin used
    BY DEF TypeOK
  <1>2. QED
    BY <1>1 DEF Fresh

\* The id a request goes on with is its cookie's or a new one.
LEMMA SessionIdIs ==
    ASSUME TypeOK, GeneratedIds, NEW c \in Conns, ReadSession(c)
    PROVE  LET id == SessionId(inbox[c].cookie)
           IN  /\ id \in Ids \ {Foreign}
               /\ used' = used \cup {id}
               /\ \/ id \in used /\ id = inbox[c].cookie /\ store[id] # NoFile
                     /\ SessionData(inbox[c].cookie) = store[id]
                  \/ id \notin used /\ SessionData(inbox[c].cookie) = {}
  <1>1. inbox[c] \in Requests
    BY DEF TypeOK, ReadSession
  <1>2. inbox[c].cookie \in Ids \cup {NoId}
    BY <1>1 DEF Requests
  <1>3. CASE Found(inbox[c].cookie)
    BY <1>2, <1>3 DEF Found, SessionId, SessionData, GeneratedIds, TypeOK, ReadSession
  <1>4. CASE ~Found(inbox[c].cookie)
    BY <1>4, FreshIsNew DEF SessionId, SessionData, ReadSession
  <1>5. QED
    BY <1>3, <1>4

LEMMA InitInvariant == Init => IInv
  <1> SUFFICES ASSUME Init PROVE IInv
    OBVIOUS
  <1>0. jar \in [Clients -> Ids \cup {NoId}]
    <2>1. PICK id \in {NoId, Foreign} : jar = [u \in Clients |-> id]
      BY DEF Init
    <2>2. id \in Ids \cup {NoId}
      OBVIOUS
    <2>3. QED
      BY <2>1, <2>2
  <1>1. TypeOK
    <2>1. 0 \in 0 .. MaxRequests
      OBVIOUS
    <2>2. stored \in SUBSET (Requests \X Ids)
      BY DEF Init
    <2>3. QED
      BY <1>0, <2>1, <2>2 DEF Init, TypeOK, Phases
  <1>2. Threads /\ OwnRequests /\ GeneratedIds /\ SessionsNotMixed
    BY DEF Init, Threads, OwnRequests, GeneratedIds, SessionsNotMixed, Serving
  <1>3. IdsArePrivate /\ SessionsOfOwner
    BY DEF Init, IdsArePrivate, SessionsOfOwner, Knows
  <1>4. QED
    BY <1>1, <1>2, <1>3 DEF IInv

LEMMA TypeKept ==
    ASSUME IInv, NEW c \in Conns, Acts(c) PROVE TypeOK'
  <1> USE DEF IInv, TypeOK, Phases
  <1>0. ClientOf[c] \in Clients
    OBVIOUS
  <1>1. CASE Ask(c)
    <2>1. [client |-> ClientOf[c], number |-> asked[ClientOf[c]] + 1, cookie |-> jar[ClientOf[c]]] \in Requests
      BY <1>0, <1>1 DEF Ask, Requests
    <2>2. QED
      BY <1>0, <1>1, <2>1 DEF Ask, threadVars
  <1>2. CASE Receive(c)
    BY <1>0, <1>2 DEF Receive, threadVars
  <1>3. CASE ReadSession(c)
    <2>1. SessionData(inbox[c].cookie) \in SUBSET Requests
      <3>1. inbox[c].cookie \in Ids \cup {NoId}
        BY <1>3 DEF ReadSession, Requests
      <3>2. QED
        BY <3>1 DEF SessionData, Found
    <2>2. SessionId(inbox[c].cookie) \in Ids /\ used' \in SUBSET (Ids \ {Foreign})
      BY <1>3, SessionIdIs
    <2>3. crowded' \in SUBSET Ids
      BY <1>3, <2>2 DEF ReadSession
    <2>4. QED
      BY <1>3, <2>1, <2>2, <2>3 DEF ReadSession
  <1>4. CASE Respond(c)
    <2>1. request[c] \in Requests
      BY <1>4 DEF Respond, Threads, Serving
    <2>2. QED
      BY <1>4, <2>1 DEF Respond, ResponseCookie
  <1>5. CASE NoResponse(c)
    BY <1>5 DEF NoResponse, clientVars
  <1>6. CASE WriteBegins(c)
    <2>1. sid[c] \in Ids
      BY <1>6 DEF WriteBegins, Threads, Serving
    <2>2. QED
      BY <1>6, <2>1 DEF WriteBegins, clientVars
  <1>7. CASE WriteEnds(c)
    <2>1. sid[c] \in Ids
      BY <1>7 DEF WriteEnds, Threads, Serving
    <2>2. QED
      BY <1>7, <2>1 DEF WriteEnds, Release, Serialized, clientVars
  <1>8. CASE WriteFails(c)
    BY <1>8 DEF WriteFails, Release, clientVars
  <1>9. QED
    BY <1>1, <1>2, <1>3, <1>4, <1>5, <1>6, <1>7, <1>8 DEF Acts, Step

LEMMA ThreadsKept ==
    ASSUME IInv, NEW c \in Conns, Acts(c) PROVE Threads'
  <1> USE DEF IInv, TypeOK, Threads, Serving
  <1>1. CASE Ask(c)
    BY <1>1 DEF Ask, Waits, threadVars
  <1>2. CASE Receive(c)
    BY <1>2 DEF Receive, threadVars
  <1>3. CASE ReadSession(c)
    <2>1. SessionId(inbox[c].cookie) # NoId
      BY <1>3, SessionIdIs
    <2>2. QED
      BY <1>3, <2>1 DEF ReadSession
  <1>4. CASE Respond(c)
    BY <1>4 DEF Respond
  <1>5. CASE NoResponse(c)
    BY <1>5 DEF NoResponse, clientVars
  <1>6. CASE WriteBegins(c)
    BY <1>6 DEF WriteBegins, clientVars
  <1>7. CASE WriteEnds(c)
    BY <1>7 DEF WriteEnds, Release, clientVars
  <1>8. CASE WriteFails(c)
    BY <1>8 DEF WriteFails, Release, clientVars
  <1>9. QED
    BY <1>1, <1>2, <1>3, <1>4, <1>5, <1>6, <1>7, <1>8 DEF Acts, Step

LEMMA GeneratedIdsKept ==
    ASSUME IInv, NEW c \in Conns, Acts(c) PROVE GeneratedIds'
  <1> USE DEF IInv, TypeOK, GeneratedIds
  <1>1. CASE Ask(c)
    BY <1>1 DEF Ask, threadVars
  <1>2. CASE Receive(c)
    BY <1>2 DEF Receive, threadVars
  <1>3. CASE ReadSession(c)
    <2>1. used' = used \cup {SessionId(inbox[c].cookie)}
      BY <1>3, SessionIdIs
    <2>2. QED
      BY <1>3, <2>1 DEF ReadSession
  <1>4. CASE Respond(c)
    BY <1>4 DEF Respond, ResponseCookie
  <1>5. CASE NoResponse(c)
    BY <1>5 DEF NoResponse, clientVars
  <1>6. CASE WriteBegins(c)
    BY <1>6 DEF WriteBegins, clientVars, Threads, Serving
  <1>7. CASE WriteEnds(c)
    <2>1. sid[c] \in used
      BY <1>7 DEF WriteEnds, Threads, Serving
    <2>2. QED
      BY <1>7, <2>1 DEF WriteEnds, Release, clientVars
  <1>8. CASE WriteFails(c)
    BY <1>8 DEF WriteFails, Release, clientVars
  <1>9. QED
    BY <1>1, <1>2, <1>3, <1>4, <1>5, <1>6, <1>7, <1>8 DEF Acts, Step

LEMMA OwnRequestsKept ==
    ASSUME IInv, NEW c \in Conns, Acts(c) PROVE OwnRequests'
  <1> USE DEF IInv, TypeOK, OwnRequests
  <1>1. CASE Ask(c)
    BY <1>1 DEF Ask, threadVars
  <1>2. CASE Receive(c)
    BY <1>2 DEF Receive, threadVars
  <1>3. CASE ReadSession(c)
    <2> DEFINE id == inbox[c].cookie
    <2>1. inbox[c] \in Requests /\ inbox[c].client = ClientOf[c]
      BY <1>3 DEF ReadSession
    <2>2. \A r \in SessionData(id) : r.client = ClientOf[c]
      <3>1. CASE SessionId(id) \in used /\ SessionId(id) = id /\ SessionData(id) = store[id] /\ store[id] # NoFile
        <4>1. Knows(ClientOf[c], id)
          BY <1>3, <3>1 DEF Knows, ReadSession
        <4>2. QED
          BY <3>1, <4>1 DEF SessionsOfOwner
      <3>2. QED
        BY <1>3, <3>1, SessionIdIs
    <2>3. QED
      BY <1>3, <2>1, <2>2 DEF ReadSession
  <1>4. CASE Respond(c)
    BY <1>4 DEF Respond, Threads, Serving
  <1>5. CASE NoResponse(c)
    BY <1>5 DEF NoResponse, clientVars
  <1>6. CASE WriteBegins(c)
    BY <1>6 DEF WriteBegins, clientVars
  <1>7. CASE WriteEnds(c)
    BY <1>7 DEF WriteEnds, Release, clientVars
  <1>8. CASE WriteFails(c)
    BY <1>8 DEF WriteFails, Release, clientVars
  <1>9. QED
    BY <1>1, <1>2, <1>3, <1>4, <1>5, <1>6, <1>7, <1>8 DEF Acts, Step

\* What a step can teach a client: a new id that its own request was given.
LEMMA KnowledgeGrows ==
    ASSUME IInv, NEW c \in Conns, Acts(c), NEW u \in Clients, NEW id \in Ids, Knows(u, id)'
    PROVE  Knows(u, id) \/ (u = ClientOf[c] /\ id \notin used)
  <1> USE DEF IInv, TypeOK, Knows
  <1>1. CASE Ask(c)
    BY <1>1 DEF Ask, threadVars
  <1>2. CASE Receive(c)
    BY <1>2 DEF Receive, threadVars
  <1>3. CASE ReadSession(c)
    <2> DEFINE given == SessionId(inbox[c].cookie)
    <2>1. /\ given \in Ids \ {Foreign}
          /\ used' = used \cup {given}
          /\ given \in used => given = inbox[c].cookie
      BY <1>3, SessionIdIs
    <2>2. given \in used => Knows(ClientOf[c], given)
      BY <1>3, <2>1 DEF ReadSession
    <2>3. CASE id = given /\ id \notin used
      <3>1. \A v \in Clients : jar[v] # id
        BY <1>3, <2>1, <2>3 DEF GeneratedIds, ReadSession
      <3>2. QED
        BY <1>3, <2>1, <2>3, <3>1, SessionIdIs DEF ReadSession, GeneratedIds
    <2>4. CASE id \in used
      BY <1>3, <2>1, <2>2, <2>4 DEF ReadSession
    <2>5. QED
      BY <2>1, <2>3, <2>4
  <1>4. CASE Respond(c)
    BY <1>4 DEF Respond, ResponseCookie
  <1>5. CASE NoResponse(c)
    BY <1>5 DEF NoResponse, clientVars
  <1>6. CASE WriteBegins(c)
    BY <1>6 DEF WriteBegins, clientVars
  <1>7. CASE WriteEnds(c)
    BY <1>7 DEF WriteEnds, Release, clientVars, GeneratedIds
  <1>8. CASE WriteFails(c)
    BY <1>8 DEF WriteFails, Release, clientVars, GeneratedIds
  <1>9. QED
    BY <1>1, <1>2, <1>3, <1>4, <1>5, <1>6, <1>7, <1>8 DEF Acts, Step

LEMMA IdsArePrivateKept ==
    ASSUME IInv, NEW c \in Conns, Acts(c) PROVE IdsArePrivate'
  <1> SUFFICES ASSUME NEW u \in Clients, NEW v \in Clients, NEW id \in Ids,
                      Knows(u, id)', Knows(v, id)'
               PROVE  u = v
    BY DEF IdsArePrivate
  <1>1. Knows(u, id) \/ (u = ClientOf[c] /\ id \notin used)
    BY KnowledgeGrows
  <1>2. Knows(v, id) \/ (v = ClientOf[c] /\ id \notin used)
    BY KnowledgeGrows
  <1>3. Knows(u, id) => id \in used
    BY DEF Knows
  <1>4. Knows(v, id) => id \in used
    BY DEF Knows
  <1>5. QED
    BY <1>1, <1>2, <1>3, <1>4 DEF IInv, IdsArePrivate

\* What is in a file after a step: what was, nothing, or what the thread that
\* works on this session has in hand.
LEMMA StoreSteps ==
    ASSUME IInv, NEW c \in Conns, Acts(c), NEW id \in Ids
    PROVE  \/ store'[id] = store[id]
           \/ /\ Knows(ClientOf[c], id)
              /\ id = sid[c]
              /\ phase[c] \in {"callback", "writing"}
              /\ store'[id] \in {{}, data[c]}
  <1> USE DEF IInv, TypeOK
  <1>1. CASE Ask(c) \/ Receive(c) \/ ReadSession(c) \/ Respond(c) \/ NoResponse(c) \/ WriteFails(c)
    BY <1>1 DEF Ask, Receive, ReadSession, Respond, NoResponse, WriteFails
  <1>2. CASE WriteBegins(c)
    <2>1. Knows(ClientOf[c], sid[c])
      BY <1>2 DEF WriteBegins, Knows, Threads, Serving, GeneratedIds
    <2>2. QED
      BY <1>2, <2>1 DEF WriteBegins
  <1>3. CASE WriteEnds(c)
    <2>1. Knows(ClientOf[c], sid[c])
      BY <1>3 DEF WriteEnds, Knows, Threads, Serving, GeneratedIds
    <2>2. QED
      BY <1>3, <2>1 DEF WriteEnds, Serialized
  <1>4. QED
    BY <1>1, <1>2, <1>3 DEF Acts, Step

LEMMA SessionsOfOwnerKept ==
    ASSUME IInv, NEW c \in Conns, Acts(c) PROVE SessionsOfOwner'
  <1> SUFFICES ASSUME NEW u \in Clients, NEW id \in Ids, Knows(u, id)', store'[id] # NoFile,
                      NEW r \in store'[id]
               PROVE  r.client = u
    BY DEF SessionsOfOwner
  <1>1. Knows(u, id) \/ (u = ClientOf[c] /\ id \notin used)
    BY KnowledgeGrows
  <1>2. CASE store'[id] = store[id]
    <2>1. id \in used
      BY <1>2 DEF IInv, GeneratedIds
    <2>2. QED
      BY <1>1, <1>2, <2>1 DEF IInv, SessionsOfOwner
  <1>3. CASE Knows(ClientOf[c], id) /\ store'[id] \in {{}, data[c]}
    <2>1. id \in used
      BY <1>3 DEF Knows
    <2>2. u = ClientOf[c]
      BY <1>1, <1>3, <2>1 DEF IInv, IdsArePrivate
    <2>3. QED
      BY <1>3, <2>2 DEF IInv, OwnRequests
  <1>4. QED
    BY <1>2, <1>3, StoreSteps

LEMMA SessionsNotMixedKept ==
    ASSUME IInv, NEW c \in Conns, Acts(c) PROVE SessionsNotMixed'
  <1> SUFFICES ASSUME NEW id \in Ids, store'[id] # NoFile, NEW r \in store'[id], NEW s \in store'[id]
               PROVE  r.client = s.client
    BY DEF SessionsNotMixed
  <1>1. CASE store'[id] = store[id]
    BY <1>1 DEF IInv, SessionsNotMixed
  <1>2. CASE store'[id] \in {{}, data[c]}
    BY <1>2 DEF IInv, OwnRequests
  <1>3. QED
    BY <1>1, <1>2, StoreSteps

LEMMA RestartInvariant ==
    ASSUME IInv, Restart PROVE IInv'
  <1> USE DEF IInv, Restart
  <1>1. TypeOK'
    BY DEF TypeOK, Phases
  <1>2. Threads' /\ OwnRequests' /\ GeneratedIds' /\ SessionsNotMixed'
    BY DEF TypeOK, Threads, OwnRequests, GeneratedIds, SessionsNotMixed, Serving
  <1>3. \A u \in Clients, id \in Ids : Knows(u, id)' => Knows(u, id)
    BY DEF TypeOK, GeneratedIds, Knows
  <1>4. IdsArePrivate' /\ SessionsOfOwner'
    BY <1>3 DEF IdsArePrivate, SessionsOfOwner
  <1>5. QED
    BY <1>1, <1>2, <1>4

LEMMA StutterInvariant ==
    ASSUME IInv, UNCHANGED vars PROVE IInv'
  BY DEF IInv, vars, clientVars, threadVars, TypeOK, Threads, OwnRequests, GeneratedIds,
         IdsArePrivate, SessionsOfOwner, SessionsNotMixed, Knows

LEMMA NextInvariant == IInv /\ [Next]_vars => IInv'
  <1> SUFFICES ASSUME IInv, [Next]_vars PROVE IInv'
    OBVIOUS
  <1>1. ASSUME NEW c \in Conns, Acts(c) PROVE IInv'
    BY <1>1, TypeKept, ThreadsKept, OwnRequestsKept, GeneratedIdsKept, IdsArePrivateKept,
       SessionsOfOwnerKept, SessionsNotMixedKept DEF IInv
  <1>2. CASE Restart
    BY <1>2, RestartInvariant
  <1>3. CASE UNCHANGED vars
    BY <1>3, StutterInvariant
  <1>4. QED
    BY <1>1, <1>2, <1>3 DEF Next, Acts

\* The inductive invariant: what threads have in hand, which ids are about,
\* who knows them and what their sessions hold.
THEOREM Invariance == Spec => []IInv
  BY InitInvariant, NextInvariant, PTL DEF Spec

\* Every variable of Session keeps its type; in particular the server
\* never makes an id that a client brought (hs_routes_session.c:113-127).
THEOREM TypeCorrect == Spec => []TypeOK
  <1>1. IInv => TypeOK
    BY DEF IInv
  <1>2. QED
    BY <1>1, Invariance, PTL

\* No session holds the changes of two clients, however many clients,
\* connections and requests there are, failures and restarts included.
THEOREM SessionsNotMixedHolds == Spec => []SessionsNotMixed
  <1>1. IInv => SessionsNotMixed
    BY DEF IInv
  <1>2. QED
    BY <1>1, Invariance, PTL

-----------------------------------------------------------------------------
\* Who holds a session after a step held it before, or has just read it, and
\* then nobody else holds it unless it is crowded.
LEMMA HoldersStep ==
    ASSUME IInv, NEW c \in Conns, Acts(c), NEW d \in Conns, NEW id \in Ids, Holds(d, id)'
    PROVE  \/ Holds(d, id)
           \/ /\ d = c /\ ReadSession(c) /\ id = SessionId(inbox[c].cookie)
              /\ id \notin crowded' => \A e \in Conns \ {c} : ~Holds(e, id)
  <1> USE DEF IInv, TypeOK, Holds
  <1>1. CASE Ask(c) \/ Receive(c)
    BY <1>1 DEF Ask, Receive, threadVars
  <1>2. CASE ReadSession(c)
    BY <1>2 DEF ReadSession
  <1>3. CASE Respond(c) \/ NoResponse(c) \/ WriteBegins(c)
    BY <1>3 DEF Respond, NoResponse, WriteBegins
  <1>4. CASE WriteEnds(c) \/ WriteFails(c)
    BY <1>4 DEF WriteEnds, WriteFails, Release
  <1>5. QED
    BY <1>1, <1>2, <1>3, <1>4 DEF Acts, Step

\* The only holder of a session reads, keeps and writes all that is stored
\* in it.
LEMMA AloneKept ==
    ASSUME IInv, AloneHasAll, AloneKeepsAll, NEW c \in Conns, Acts(c)
    PROVE  AloneHasAll' /\ AloneKeepsAll'
  <1> SUFFICES ASSUME ~failed'
               PROVE  AloneHasAll' /\ AloneKeepsAll'
    BY DEF AloneHasAll, AloneKeepsAll
  <1>1. ~failed /\ crowded \subseteq crowded'
    BY DEF Acts, Step, Ask, Receive, ReadSession, Respond, NoResponse, WriteBegins, WriteEnds,
           WriteFails
  <1>2. ASSUME NEW id \in Ids \ crowded', NEW d \in Conns, NEW e \in Conns,
               Holds(d, id)', Holds(e, id)'
        PROVE  d = e
    BY <1>1, <1>2, HoldersStep DEF AloneHasAll
  <1>3. ASSUME NEW id \in Ids \ crowded', NEW d \in Conns, Holds(d, id)',
               NEW r \in Requests, <<r, id>> \in stored'
        PROVE  r \in data'[d]
    <2>1. CASE ReadSession(c) /\ d = c
      <3> DEFINE cookie == inbox[c].cookie
      <3>1. /\ stored' = stored /\ store' = store
            /\ data'[c] = SessionData(cookie)
            /\ sid'[c] = SessionId(cookie)
        BY <2>1 DEF ReadSession, IInv, TypeOK
      <3>2. id = SessionId(cookie)
        BY <1>3, <2>1, <3>1 DEF Holds
      <3>3. \A f \in Conns : ~(phase[f] = "writing" /\ sid[f] = id)
        <4>1. \A f \in Conns \ {c} : ~Holds(f, id)
          BY <2>1, <3>1, <3>2 DEF ReadSession
        <4>2. phase[c] = "idle"
          BY <2>1 DEF ReadSession
        <4>3. QED
          BY <4>1, <4>2 DEF Holds
      <3>4. r \in store[id]
        BY <1>1, <1>3, <3>1, <3>3 DEF AloneKeepsAll
      <3>5. id \in used
        BY <1>3, <3>1 DEF IInv, GeneratedIds
      <3>6. QED
        BY <2>1, <3>1, <3>2, <3>4, <3>5, SessionIdIs DEF IInv
    <2>2. CASE ~(ReadSession(c) /\ d = c)
      <3>1. Holds(d, id)
        BY <1>3, <2>2, HoldersStep
      <3>2. <<r, id>> \in stored => r \in data[d]
        BY <1>1, <3>1 DEF AloneHasAll
      <3>3. CASE WriteEnds(c)
        <4>1. d # c
          BY <1>3, <3>3 DEF WriteEnds, Release, Holds, IInv, TypeOK
        <4>2. sid[c] # id
          BY <1>1, <3>1, <3>3, <4>1 DEF AloneHasAll, WriteEnds, Holds
        <4>3. <<r, id>> \in stored
          BY <1>3, <3>3, <4>2 DEF WriteEnds
        <4>4. data'[d] = data[d]
          BY <3>3, <4>1 DEF WriteEnds, Release, IInv, TypeOK
        <4>5. QED
          BY <3>2, <4>3, <4>4
      <3>4. CASE WriteFails(c)
        BY <3>4, <1>1 DEF WriteFails
      <3>5. CASE ReadSession(c)
        BY <1>3, <2>2, <3>2, <3>5 DEF ReadSession, IInv, TypeOK
      <3>6. CASE Ask(c) \/ Receive(c) \/ Respond(c) \/ NoResponse(c) \/ WriteBegins(c)
        BY <1>3, <3>2, <3>6
        DEF Ask, Receive, Respond, NoResponse, WriteBegins, threadVars, IInv, TypeOK
      <3>7. QED
        BY <3>3, <3>4, <3>5, <3>6 DEF Acts, Step
    <2>3. QED
      BY <2>1, <2>2
  <1>4. AloneHasAll'
    BY <1>2, <1>3 DEF AloneHasAll
  <1>5. ASSUME NEW id \in Ids \ crowded', \A f \in Conns : ~(phase'[f] = "writing" /\ sid'[f] = id),
               NEW r \in Requests, <<r, id>> \in stored'
        PROVE  r \in store'[id]
    <2>1. CASE WriteEnds(c) /\ sid[c] = id
      <3>1. Holds(c, id)
        BY <2>1 DEF WriteEnds, Holds
      <3>2. <<r, id>> \in stored => r \in data[c]
        BY <1>1, <3>1 DEF AloneHasAll
      <3>3. <<r, id>> \in stored \/ r \in data[c]
        BY <1>5, <2>1 DEF WriteEnds
      <3>4. store'[id] = data[c]
        BY <2>1 DEF WriteEnds, Serialized, IInv, TypeOK
      <3>5. QED
        BY <3>2, <3>3, <3>4
    <2>2. CASE ~(WriteEnds(c) /\ sid[c] = id)
      <3>1. <<r, id>> \in stored
        BY <1>5, <2>2 DEF Acts, Step, Ask, Receive, ReadSession, Respond, NoResponse, WriteBegins,
              WriteEnds, WriteFails
      <3>2. \A f \in Conns : ~(phase[f] = "writing" /\ sid[f] = id)
        BY <1>1, <1>5, <2>2 DEF Acts, Step, Ask, Receive, ReadSession, Respond, NoResponse, WriteBegins,
              WriteEnds, WriteFails, Release, threadVars, IInv, TypeOK
      <3>3. r \in store[id]
        BY <1>1, <3>1, <3>2 DEF AloneKeepsAll
      <3>4. store'[id] = store[id]
        BY <1>5, <2>2 DEF Acts, Step, Ask, Receive, ReadSession, Respond, NoResponse, WriteBegins,
              WriteEnds, WriteFails, IInv, TypeOK
      <3>5. QED
        BY <3>3, <3>4
    <2>3. QED
      BY <2>1, <2>2
  <1>6. AloneKeepsAll'
    BY <1>5 DEF AloneKeepsAll
  <1>7. QED
    BY <1>4, <1>6

\* A session loses a change only when two requests held it at a time
\* (hs_routes_session.c:279-405), for every number of connections of a client.
THEOREM AloneKeepsAllHolds == Spec => []AloneKeepsAll
  <1>1. Init => AloneHasAll /\ AloneKeepsAll
    BY DEF Init, AloneHasAll, AloneKeepsAll, Holds
  <1>2. IInv /\ AloneHasAll /\ AloneKeepsAll /\ [Next]_vars => AloneHasAll' /\ AloneKeepsAll'
    <2> SUFFICES ASSUME IInv, AloneHasAll, AloneKeepsAll, [Next]_vars
                 PROVE  AloneHasAll' /\ AloneKeepsAll'
      OBVIOUS
    <2>1. ASSUME NEW c \in Conns, Acts(c) PROVE AloneHasAll' /\ AloneKeepsAll'
      BY <2>1, AloneKept
    <2>2. CASE Restart
      BY <2>2 DEF Restart, AloneHasAll, AloneKeepsAll
    <2>3. CASE UNCHANGED vars
      BY <2>3 DEF vars, threadVars, AloneHasAll, AloneKeepsAll, Holds
    <2>4. QED
      BY <2>1, <2>2, <2>3 DEF Next, Acts
  <1>3. QED
    BY <1>1, <1>2, Invariance, PTL DEF Spec

-----------------------------------------------------------------------------
LEMMA NumbersOfNone == Numbers({}) = 1 .. 0
  BY DEF Numbers

LEMMA NumbersGrow ==
    ASSUME NEW S, NEW r, NEW n \in Nat, r.number = n + 1, Numbers(S) = 1 .. n
    PROVE  Numbers(S \cup {r}) = 1 .. n + 1
  <1>1. Numbers(S \cup {r}) = Numbers(S) \cup {r.number}
    BY DEF Numbers
  <1>2. \A k : k \in 1 .. n + 1 <=> k \in 1 .. n \/ k = n + 1
    OBVIOUS
  <1>3. \A k : k \in Numbers(S \cup {r}) <=> k \in 1 .. n + 1
    BY <1>1, <1>2
  <1>4. QED
    BY <1>3

\* No session has None among its changes.
LEMMA DataIsAFile ==
    ASSUME NEW S \in SUBSET Requests PROVE S # NoFile
  BY DEF NoFile

\* What a client with one connection comes back with is known to it only.
LEMMA CookieIsKnown ==
    ASSUME IInv, NEW c \in Conns, Cookie(c) \in used
    PROVE  Knows(ClientOf[c], Cookie(c))
  BY DEF Cookie, Knows, IInv, TypeOK

\* The steps of other clients leave the session of a client alone.
LEMMA ProgressOfOthers ==
    ASSUME IInv, NEW c \in Conns, Progress(c),
           NEW d \in Conns, Acts(d), ClientOf[d] # ClientOf[c]
    PROVE  Progress(c)'
  <1> USE DEF IInv, TypeOK
  <1>0. c # d /\ ClientOf[c] \in Clients
    OBVIOUS
  <1>1. /\ jar'[ClientOf[c]] = jar[ClientOf[c]] /\ asked'[ClientOf[c]] = asked[ClientOf[c]]
        /\ inbox'[c] = inbox[c] /\ setCookie'[c] = setCookie[c] /\ phase'[c] = phase[c]
        /\ request'[c] = request[c] /\ sid'[c] = sid[c] /\ data'[c] = data[c]
        /\ used \subseteq used'
    <2>1. CASE Ask(d) \/ Receive(d)
      BY <1>0, <2>1 DEF Ask, Receive, threadVars
    <2>2. CASE ReadSession(d) \/ Respond(d) \/ NoResponse(d) \/ WriteBegins(d)
      BY <1>0, <2>2 DEF ReadSession, Respond, NoResponse, WriteBegins, clientVars
    <2>3. CASE WriteEnds(d) \/ WriteFails(d)
      BY <1>0, <2>3 DEF WriteEnds, WriteFails, Release, clientVars
    <2>4. QED
      BY <2>1, <2>2, <2>3 DEF Acts, Step
  <1>2. Cookie(c)' = Cookie(c) /\ Taken(c)' = Taken(c)
    BY <1>1 DEF Cookie, Taken
  <1>3. Cookie(c) \in used => store'[Cookie(c)] = store[Cookie(c)]
    <2> SUFFICES ASSUME Cookie(c) \in used, store'[Cookie(c)] # store[Cookie(c)] PROVE FALSE
      OBVIOUS
    <2>1. Knows(ClientOf[c], Cookie(c))
      BY CookieIsKnown
    <2>2. Cookie(c) \in Ids
      OBVIOUS
    <2>3. Knows(ClientOf[d], Cookie(c))
      BY <2>2, StoreSteps
    <2>4. QED
      BY <2>1, <2>2, <2>3 DEF IdsArePrivate
  <1>4. QED
    BY <1>1, <1>2, <1>3 DEF Progress

\* The steps of the connection itself pass the session on.
LEMMA ProgressOfOwn ==
    ASSUME IInv, NEW c \in Conns, open[c], Progress(c), Acts(c), ~failed', open'[c]
    PROVE  Progress(c)'
  <1> DEFINE u == ClientOf[c]
  <1> USE DEF IInv, TypeOK
  <1>0. u \in Clients /\ asked[u] \in Nat
    OBVIOUS
  <1>1. CASE Ask(c)
    <2>1. /\ inbox[c] = None /\ setCookie[c] = NoId /\ phase[c] # "serve"
          /\ inbox'[c] = [client |-> u, number |-> asked[u] + 1, cookie |-> jar[u]]
          /\ asked'[u] = asked[u] + 1
          /\ UNCHANGED <<jar, setCookie, phase, request, sid, data, store, used>>
      BY <1>0, <1>1 DEF Ask, Waits, threadVars
    <2>2. inbox'[c] # None
      <3>1. inbox'[c] \in Requests
        BY <1>0, <1>1, <2>1, TypeKept DEF Requests, Ask
      <3>2. QED
        BY <3>1
    <2>3. Taken(c)' = Taken(c) /\ Cookie(c)' = Cookie(c)
      BY <1>0, <2>1, <2>2 DEF Taken, Cookie
    <2>4. QED
      BY <2>1, <2>2, <2>3 DEF Progress
  <1>2. CASE Receive(c)
    <2>1. /\ inbox[c] = None /\ phase[c] # "serve"
          /\ jar'[u] = setCookie[c] /\ setCookie'[c] = NoId
          /\ UNCHANGED <<asked, inbox, phase, request, sid, data, store, used>>
      BY <1>0, <1>2 DEF Receive, threadVars, Threads
    <2>2. Taken(c)' = Taken(c) /\ Cookie(c)' = Cookie(c)
      BY <1>2, <2>1 DEF Taken, Cookie, Receive
    <2>3. QED
      BY <2>1, <2>2 DEF Progress
  <1>3. CASE ReadSession(c)
    <2> DEFINE cookie == inbox[c].cookie
    <2>1. /\ phase[c] = "idle" /\ inbox[c] # None /\ setCookie[c] = NoId
          /\ phase'[c] = "serve" /\ inbox'[c] = None
          /\ request'[c] = inbox[c] /\ data'[c] = SessionData(cookie)
          /\ UNCHANGED <<jar, asked, setCookie>>
      BY <1>3 DEF ReadSession, Threads
    <2>2. Taken(c) = asked[u] - 1 /\ Taken(c)' = asked[u] /\ Cookie(c) = cookie
      BY <2>1 DEF Taken, Cookie, Progress
    <2>3. Numbers(SessionData(cookie)) = 1 .. asked[u] - 1
      <3>1. CASE Taken(c) = 0 /\ cookie \in {NoId, Foreign}
        <4>1. ~Found(cookie)
          BY <3>1 DEF Found, GeneratedIds
        <4>2. QED
          BY <1>0, <2>2, <3>1, <4>1, NumbersOfNone DEF SessionData
      <3>2. CASE cookie \in used /\ store[cookie] # NoFile /\ Numbers(store[cookie]) = 1 .. Taken(c)
        BY <2>2, <3>2 DEF SessionData, Found
      <3>3. QED
        BY <2>1, <2>2, <3>1, <3>2 DEF Progress
    <2>4. inbox[c].number = asked[u]
      BY <2>1 DEF Progress
    <2>5. QED
      BY <2>1, <2>2, <2>3, <2>4 DEF Progress
  <1>4. CASE Respond(c)
    <2>1. /\ phase[c] = "serve" /\ phase'[c] = "callback"
          /\ inbox[c] = None /\ setCookie'[c] = sid[c] /\ sid[c] # NoId /\ request[c] # None
          /\ data'[c] = data[c] \cup {request[c]}
          /\ UNCHANGED <<jar, asked, inbox, request, sid>>
      BY <1>4 DEF Respond, ResponseCookie, Threads, Serving
    <2>2. Taken(c)' = asked[u] /\ Taken(c) = asked[u] /\ Cookie(c)' = sid'[c]
      BY <1>0, <2>1 DEF Taken, Cookie
    <2>3. request[c].number = asked[u] /\ Numbers(data[c]) = 1 .. asked[u] - 1
      BY <2>1, <2>2 DEF Progress
    <2>4. asked[u] >= 1
      <3>1. request[c].number \in 1 .. MaxRequests
        BY <2>1 DEF Requests
      <3>2. QED
        BY <2>3, <3>1
    <2>5. Numbers(data'[c]) = 1 .. asked[u]
      <3>1. asked[u] - 1 \in Nat /\ request[c].number = (asked[u] - 1) + 1
        BY <1>0, <2>3, <2>4
      <3>2. Numbers(data[c] \cup {request[c]}) = 1 .. (asked[u] - 1) + 1
        BY <2>3, <3>1, NumbersGrow
      <3>3. QED
        BY <1>0, <2>1, <3>2
    <2>6. QED
      BY <2>1, <2>2, <2>3, <2>5 DEF Progress
  <1>5. CASE NoResponse(c)
    BY <1>5 DEF NoResponse
  <1>6. CASE WriteBegins(c)
    <2>1. /\ phase[c] = "callback" /\ phase'[c] = "writing"
          /\ UNCHANGED <<jar, asked, inbox, setCookie, request, sid, data>>
      BY <1>6 DEF WriteBegins, clientVars
    <2>2. Taken(c)' = Taken(c) /\ Cookie(c)' = Cookie(c)
      BY <2>1 DEF Taken, Cookie
    <2>3. QED
      BY <2>1, <2>2 DEF Progress
  <1>7. CASE WriteEnds(c)
    <2>1. /\ phase[c] = "writing" /\ phase'[c] = "idle" /\ request'[c] = None
          /\ store'[sid[c]] = data[c] /\ sid[c] \in used
          /\ UNCHANGED <<jar, asked, inbox, setCookie, used>>
      BY <1>7 DEF WriteEnds, Release, Serialized, clientVars, Threads, Serving, GeneratedIds
    <2>2. Taken(c)' = Taken(c) /\ Cookie(c)' = Cookie(c)
      BY <2>1 DEF Taken, Cookie
    <2>3. Numbers(data[c]) = 1 .. Taken(c) /\ Cookie(c) = sid[c]
      BY <2>1 DEF Progress
    <2>4. data[c] # NoFile
      BY DataIsAFile
    <2>5. QED
      BY <2>1, <2>2, <2>3, <2>4 DEF Progress
  <1>8. CASE WriteFails(c)
    BY <1>8 DEF WriteFails
  <1>9. QED
    BY <1>1, <1>2, <1>3, <1>4, <1>5, <1>6, <1>7, <1>8 DEF Acts, Step

LEMMA SingleProgressKept ==
    ASSUME IInv, SingleProgress, NEW d \in Conns, Acts(d)
    PROVE  SingleProgress'
  <1> SUFFICES ASSUME ~failed', NEW c \in Conns, Single(c), open'[c]
               PROVE  Progress(c)'
    BY DEF SingleProgress, Single
  <1>1. ~failed /\ open[c]
    BY DEF Acts, Step, Ask, Receive, ReadSession, Respond, NoResponse, WriteBegins, WriteEnds,
           WriteFails, threadVars, IInv, TypeOK
  <1>2. Progress(c)
    BY <1>1 DEF SingleProgress
  <1>3. CASE d = c
    BY <1>1, <1>2, <1>3, ProgressOfOwn
  <1>4. CASE d # c
    BY <1>2, <1>4, ProgressOfOthers DEF Single
  <1>5. QED
    BY <1>3, <1>4

\* A client with one connection finds in its session what all its requests
\* before have put there (hs_routes_session.c:279-405), whatever other clients
\* do in the meantime.
THEOREM OneConnectionKeepsAllHolds == Spec => []OneConnectionKeepsAll
  <1>1. Init => SingleProgress
    <2> SUFFICES ASSUME Init, NEW c \in Conns PROVE Progress(c)
      BY DEF SingleProgress
    <2>1. ClientOf[c] \in Clients
      OBVIOUS
    <2>2. Taken(c) = 0 /\ Cookie(c) \in {NoId, Foreign}
      BY <2>1 DEF Init, Taken, Cookie
    <2>3. QED
      BY <2>2 DEF Init, Progress
  <1>2. IInv /\ SingleProgress /\ [Next]_vars => SingleProgress'
    <2> SUFFICES ASSUME IInv, SingleProgress, [Next]_vars PROVE SingleProgress'
      OBVIOUS
    <2>1. ASSUME NEW d \in Conns, Acts(d) PROVE SingleProgress'
      BY <2>1, SingleProgressKept
    <2>2. CASE Restart
      BY <2>2 DEF Restart, SingleProgress
    <2>3. CASE UNCHANGED vars
      BY <2>3 DEF vars, clientVars, threadVars, SingleProgress, Progress, Single, Taken, Cookie
    <2>4. QED
      BY <2>1, <2>2, <2>3 DEF Next, Acts
  <1>3. IInv /\ SingleProgress => OneConnectionKeepsAll
    <2> SUFFICES ASSUME IInv, SingleProgress, NEW c \in Conns, phase[c] = "serve", ~failed, Single(c)
                 PROVE  Numbers(data[c]) = 1 .. request[c].number - 1
      BY DEF OneConnectionKeepsAll, Numbers, Single
    <2>1. open[c] /\ request[c] # None
      BY DEF IInv, Threads, Serving
    <2>2. QED
      BY <2>1 DEF SingleProgress, Progress
  <1>4. QED
    BY <1>1, <1>2, <1>3, Invariance, PTL DEF Spec

=============================================================================
