-------------------------------- MODULE MCText --------------------------------
(***************************************************************************)
(* The operators on texts - Paths, Listings, Pairs and Parsers - checked   *)
(* against what a client wrote or against a definition by parts, for every *)
(* input up to a bound.  The subject of a behaviour chooses the operators  *)
(* that are looked at and the characters of the inputs; the inputs are the *)
(* parts, which grow a character at a time.                                *)
(***************************************************************************)
EXTENDS Parsers, Listings

CONSTANTS Alphabet,  \* the characters of each subject's parts
          MaxPart,   \* for each subject, the longest that each part may be
          MaxText    \* for each subject, the most characters of all its parts

VARIABLES subject, parts

PathChars == {"/", "a", "b"}
Lower == [c \in {"A"} |-> "a"]
DigitValues == [c \in {"0", "1"} |-> IF c = "0" THEN 0 ELSE 1]

SubjectAlphabet ==
    [paths |-> PathChars, header |-> {"a", "A", ":", " "}, cookies |-> {"a", "=", ";", " "},
     address |-> {"a", ":", "/", "?", "1"}, query |-> {"a", "=", "&"}, pairs |-> {"a", "b"}]

SubjectMaxPart ==
    [paths |-> <<4, 4, 5>>, header |-> <<3, 4>>, cookies |-> <<2, 3, 2, 3>>,
     address |-> <<1, 2, 3, 2>>, query |-> <<2, 2, 2, 2>>, pairs |-> <<7>>]

SubjectMaxText ==
    [paths |-> 13, header |-> 7, cookies |-> 7, address |-> 7, query |-> 8, pairs |-> 7]

vars == <<subject, parts>>

Subjects == DOMAIN Alphabet

\* What a text may be made of: the characters of the inputs and those that
\* the operators look for.
Symbols ==
    (UNION {Alphabet[s] : s \in Subjects})
        \cup {Slash, "=", "&", ";", " ", ":", "/", "?"} \cup Protocols

\* NULL is no text and no part of one.
ASSUME NullAssumption == Null \notin Symbols \cup Seq(Symbols)

\* A protocol is not written with the characters that stand for themselves,
\* which in a URL are no spaces; a digit is no separator.
ASSUME AddressAssumption ==
    /\ "address" \in Subjects => Alphabet["address"] \cap ({" "} \cup Protocols) = {}
    /\ DOMAIN Digits \cap {":", "/", "?"} = {}

\* How many parts the inputs of a subject are made of.
PartsOf == [paths |-> 3, header |-> 2, cookies |-> 4, address |-> 4, query |-> 4, pairs |-> 1]

ASSUME PartsAssumption ==
    \A s \in Subjects :
        s \in DOMAIN PartsOf /\ MaxPart[s] \in Seq(Nat) /\ Len(MaxPart[s]) = PartsOf[s]

Init ==
    /\ subject \in Subjects
    /\ parts = IF subject = "paths" THEN <<<<Slash>>, <<Slash>>, <<Slash>>>>
               ELSE [i \in 1 .. Len(MaxPart[subject]) |-> <<>>]

Grow(i, c) ==
    /\ Len(parts[i]) < MaxPart[subject][i]
    /\ Len(FlattenSeq(parts)) < MaxText[subject]
    /\ parts' = [parts EXCEPT ![i] = Append(@, c)]
    /\ UNCHANGED subject

Next == \E i \in 1 .. Len(parts), c \in Alphabet[subject] : Grow(i, c)

Spec == Init /\ [][Next]_vars

-----------------------------------------------------------------------------
\* Paths: a mount, a route of the mounted router, and a resource.

mount == parts[1]
route == parts[2]
resource == parts[3]

\* The names between the separators of a path.
Segments(path) ==
    LET upTo[i \in 0 .. Len(path)] ==
            IF i = 0 THEN <<>>
            ELSE IF path[i] = Slash THEN upTo[i - 1]
            ELSE IF path[i - 1] = Slash THEN Append(upTo[i - 1], <<path[i]>>)
            ELSE [upTo[i - 1] EXCEPT ![Len(upTo[i - 1])] = Append(@, path[i])]
    IN  upTo[Len(path)]

\* A path with one separator before each name and none at the end, or "/".
Clean(path) ==
    \/ path = <<Slash>>
    \/ /\ path[Len(path)] # Slash
       /\ \A i \in 1 .. Len(path) - 1 : ~(path[i] = Slash /\ path[i + 1] = Slash)

Serves(parent) ==
    Supported(mount, TRUE, resource) /\ Supported(route, parent, RemovePrefix(mount, resource))

\* A parent path serves a resource exactly when its names are the first ones
\* of the resource: "/a" serves "/a/b" and not "/ab" (hs_route.c:107-147).
ParentMatchesBySegment ==
    subject = "paths" /\ Clean(mount) /\ Clean(resource) =>
        (Supported(mount, TRUE, resource) <=> StartsWith(Segments(resource), Segments(mount)))

\* A route of a mounted router serves exactly the resource whose names are
\* the mount's followed by its own: no name is lost or read twice
\* (hs_router.c:300-332).
MountingComposes ==
    subject = "paths" =>
        /\ Serves(FALSE) => Segments(resource) = Segments(mount) \o Segments(route)
        /\ Clean(mount) /\ Clean(route) /\ Clean(resource)
              /\ Segments(resource) = Segments(mount) \o Segments(route) => Serves(FALSE)

\* Following the link of an entry in a listing leads to the entry: below a
\* mount that ends with the separator, the directory route is asked for the
\* directory's path and the entry's name (hs_routes_fs.c:265-352, 414-418,
\* hs_router.c:519-523).  Below another mount, or none, links lead elsewhere.
LinksLeadToEntries ==
    subject = "paths" /\ Supported(mount, TRUE, resource) /\ Ends(mount, Slash) =>
        LET seen == RemovePrefix(mount, resource)
            base == BaseElement(JoinPaths(NoBase, mount))
            entry == <<"a">>
            next == Followed(resource, base, Link(seen, entry))
        IN  ~StartsWith(seen, <<Slash, Slash>>) =>
                /\ Supported(mount, TRUE, next)
                /\ RemovePrefix(mount, next) = JoinPaths(seen, entry)

-----------------------------------------------------------------------------
\* Header lines, as a client writes them from a name and a value.

Has(text, pattern) ==
    \E i \in 1 .. Len(text) - Len(pattern) + 1 : SubSeq(text, i, i + Len(pattern) - 1) = pattern

ColonSpace == <<":", " ">>

\* A name and a value come out of a header line as they were written, the
\* name in lower case, provided the value has no ": " of its own
\* (hs_parser.c:47-89).
HeaderAsWritten ==
    LET name == parts[1]
        value == parts[2]
    IN  subject = "header" /\ name # <<>> /\ ~Has(value, ColonSpace) =>
            ParseHeader(name \o ColonSpace \o value) = Pair(ToLower(name), OrNull(value))

\* The pairs that a client means with four parts, the second pair if it has
\* a name.
Meant ==
    <<Pair(parts[1], parts[2])>> \o (IF parts[3] = <<>> THEN <<>> ELSE <<Pair(parts[3], parts[4])>>)

\* Pairs written with "=" between key and value.
Written(pairs, separator) ==
    FlattenSeq([i \in 1 .. Len(pairs) |->
        (IF i = 1 THEN <<>> ELSE separator) \o pairs[i].key \o <<"=">> \o pairs[i].value])

CookieName(name) == name # <<>> /\ name[1] # " " /\ ~Has(name, <<"=">>)
CookieValue(value) == ~Has(value, <<";", " ">>) /\ ~Ends(value, ";")

\* The cookies a client sends are the ones the server reads, in their order,
\* with "=" and ";" in their values, and the separator at the end of the line
\* or not; only a last cookie without a value is dropped (hs_parser.c:92-166).
CookiesAsWritten ==
    subject = "cookies"
    /\ (\A i \in 1 .. Len(Meant) : CookieName(Meant[i].key) /\ CookieValue(Meant[i].value)) =>
        LET line == Written(Meant, <<";", " ">>)
        IN  /\ Meant[Len(Meant)].value # <<>> => ParseCookies(line) = Meant
            /\ Meant[Len(Meant)].value = <<>> => ParseCookies(line) = Front(Meant)
            /\ ParseCookies(line \o <<";">>) = Meant

QueryPairs == [i \in 1 .. Len(Meant) |-> Pair(Meant[i].key, OrNull(Meant[i].value))]

\* What a client writes of a URL after its protocol, and what is meant.
WrittenAddress(domain, port, path, query) ==
    domain \o (IF port = <<>> THEN <<>> ELSE <<":">> \o port)
           \o (IF path = <<>> THEN <<>> ELSE <<"/">> \o path)
           \o (IF query = <<>> THEN <<>> ELSE <<"?">> \o query)

MeantAddress(domain, port, path, query) ==
    [ssl |-> FALSE, domain |-> domain, port |-> IF port = <<>> THEN -1 ELSE Atoi(port),
     resource |-> <<"/">> \o path, query |-> OrNull(query)]

Without(text, chars) == \A i \in 1 .. Len(text) : text[i] \notin chars

\* The parts of a URL, or of the target of a request line, come out of it as
\* they were written - the domain, the port, the resource, "/" if there is
\* none - and so do the pairs of its query, in which a missing value is NULL;
\* a request line with a fourth word is refused (hs_parser.c:21-44, 293-382,
\* 416-559).
AddressAsWritten ==
    /\ subject = "address" =>
        LET written == WrittenAddress(parts[1], parts[2], parts[3], parts[4])
            meant == MeantAddress(parts[1], parts[2], parts[3], parts[4])
            line == <<"GET", " ">> \o written \o <<" ", "HTTP/1.1">>
        IN  written # <<>> /\ Without(parts[1], {":", "/", "?"})
            /\ Without(parts[2], Alphabet[subject] \ DOMAIN Digits) /\ Without(parts[3], {"?"}) =>
                /\ CreateRequest(written, FALSE) = meant
                /\ ParseRequestLine(line) = [method |-> "GET", target |-> meant]
                /\ \A word \in Alphabet[subject] : ParseRequestLine(line \o <<" ", word>>) = Null
                /\ CreateRequest(written, TRUE) = Null
                /\ \A protocol \in Protocols :
                      CreateRequest(<<protocol>> \o written, TRUE) =
                          [meant EXCEPT !.ssl = (protocol = "https://")]
    /\ subject = "query"
       /\ (\A i \in 1 .. Len(Meant) :
              Without(Meant[i].key, {"=", "&"}) /\ Without(Meant[i].value, {"&"})) =>
        ParseQuery(Written(Meant, <<"&">>)) = QueryPairs

-----------------------------------------------------------------------------
\* Arrays of pairs: the characters of the first part are the keys of an array,
\* whose values are their places.

\* Removing a key removes every pair that has it and no other, and leaves
\* the order of the others (hs_types_array.c:221-248, hs_types_cookie.c:130-157).
RemovalKeepsOthers ==
    LET pairs == [i \in 1 .. Len(parts[1]) |-> Pair(parts[1][i], i)]
    IN  subject = "pairs" =>
            \A key \in Alphabet["pairs"] :
                LET kept == RemoveByKey(pairs, key)
                IN  /\ ToSet(kept) = {pair \in ToSet(pairs) : pair.key # key}
                    /\ \A i, j \in 1 .. Len(kept) : i < j => kept[i].value < kept[j].value

=============================================================================
