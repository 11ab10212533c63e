------------------------------- MODULE Parsers -------------------------------
(***************************************************************************)
(* hs_parser.c: what is made of the text of a header line, of a Cookie     *)
(* header, of a query string and of a URL or request target.  A text is a  *)
(* sequence of characters, each a string of one; the protocol that starts  *)
(* a URL and the words around the target of a request line are taken as    *)
(* one character each.                                                     *)
(***************************************************************************)
EXTENDS Pairs, FiniteSetsExt

CONSTANTS
    LowerCase,  \* the lower-case form of each upper-case letter
    Digits      \* the value of each digit

\* The protocols of a URL, in any case of letters.
Protocols == {"http://", "https://"}

\* The methods of a request line, in capital letters only.
Methods == {"GET", "POST", "PUT", "DELETE", "HEAD", "CONNECT", "OPTIONS", "TRACE", "PATCH"}

ToLower(text) ==
    [i \in 1 .. Len(text) |-> IF text[i] \in DOMAIN LowerCase THEN LowerCase[text[i]] ELSE text[i]]

\* Where a character first stands in a text, or 0.
FirstOf(char, text) == SelectInSeq(text, LAMBDA c : c = char)

Before(text, i) == SubSeq(text, 1, i - 1)
After(text, i) == SubSeq(text, i + 1, Len(text))

\* An empty text is given as NULL.
OrNull(text) == IF text = <<>> THEN Null ELSE text

-----------------------------------------------------------------------------
\* Faulty variants, each put in place of an operator below to see that a
\* property can fail.

\* A cookie's value ends at any separator.
ValueEndsAtAny(line, i) == line[i] = ";"

\* The value of a header starts with the space that ends the key.
ParseHeaderKeepsSpace(line) ==
    LET ends == {i \in 2 .. Len(line) - 1 : line[i] = ":" /\ line[i + 1] = " "}
    IN  IF ends = {} THEN Null
        ELSE Pair(ToLower(Before(line, Max(ends))), OrNull(After(line, Max(ends))))

\* A port is looked for in the path too.
PortAtAny(address) == FirstOf(":", address)

-----------------------------------------------------------------------------
\* hs_parser_parse_header: the last ": " ends the key, unless it starts the
\* line.
ParseHeader(line) ==
    LET ends == {i \in 2 .. Len(line) - 1 : line[i] = ":" /\ line[i + 1] = " "}
    IN  IF ends = {} THEN Null
        ELSE Pair(ToLower(Before(line, Max(ends))), OrNull(After(line, Max(ends) + 1)))

\* A separator ends a cookie's value at the end of the line or before a space.
ValueEnds(line, i) == line[i] = ";" /\ (i = Len(line) \/ line[i + 1] = " ")

\* hs_parser_parse_cookie_header, for cookies that had none before: naming is
\* looking_for_name, and after[i] the state once i characters are read.
ParseCookies(line) ==
    LET read(s, i) ==
            LET c == line[i]
            IN  CASE s.naming /\ c = "=" -> [s EXCEPT !.naming = FALSE, !.name = s.buffer, !.buffer = <<>>]
                  [] s.naming /\ c = " " /\ s.buffer = <<>> -> s
                  [] ~s.naming /\ ValueEnds(line, i) ->
                        [s EXCEPT !.naming = TRUE, !.buffer = <<>>,
                                  !.cookies = AddCookie(@, s.name, s.buffer)]
                  [] OTHER -> [s EXCEPT !.buffer = Append(@, c)]
        after[i \in 0 .. Len(line)] ==
            IF i = 0 THEN [naming |-> TRUE, name |-> Null, buffer |-> <<>>, cookies |-> <<>>]
            ELSE read(after[i - 1], i)
        end == after[Len(line)]
    IN  IF end.naming \/ end.buffer = <<>> THEN end.cookies
        ELSE AddCookie(end.cookies, end.name, end.buffer)

\* hs_parser_parse_query_string
ParseQuery(query) ==
    LET read(s, c) ==
            CASE s.keying /\ c = "&" -> [s EXCEPT !.pairs = AddPair(@, s.buffer, Null), !.buffer = <<>>]
              [] s.keying /\ c = "=" -> [s EXCEPT !.keying = FALSE, !.key = s.buffer, !.buffer = <<>>]
              [] ~s.keying /\ c = "&" ->
                    [s EXCEPT !.keying = TRUE, !.pairs = AddPair(@, s.key, OrNull(s.buffer)),
                              !.buffer = <<>>]
              [] OTHER -> [s EXCEPT !.buffer = Append(@, c)]
        after[i \in 0 .. Len(query)] ==
            IF i = 0 THEN [keying |-> TRUE, key |-> Null, buffer |-> <<>>, pairs |-> <<>>]
            ELSE read(after[i - 1], query[i])
        end == after[Len(query)]
    IN  IF query = <<>> THEN Null
        ELSE IF end.keying THEN AddPair(end.pairs, OrNull(end.buffer), Null)
        ELSE AddPair(end.pairs, end.key, OrNull(end.buffer))

-----------------------------------------------------------------------------
\* atoi, of a text that starts with no space or sign.
Atoi(text) ==
    LET value[i \in 0 .. Len(text)] == IF i = 0 THEN 0 ELSE 10 * value[i - 1] + Digits[text[i]]
        others == {i \in 1 .. Len(text) : text[i] \notin DOMAIN Digits}
    IN  value[IF others = {} THEN Len(text) ELSE Min(others) - 1]

\* hs_parser_parse_protocol_from_url
Protocol(url) == IF url # <<>> /\ url[1] \in Protocols THEN url[1] ELSE Null

\* Where the separator before the port stands in an address, or 0: one in the
\* path is no such separator.
PortAt(address) ==
    LET colon == FirstOf(":", address)
        slash == FirstOf("/", address)
    IN  IF slash # 0 /\ slash < colon THEN 0 ELSE colon

\* _hs_parser_create_request_from_path: a URL must have a protocol, the
\* target of a request line need not.
CreateRequest(target, forceProtocol) ==
    LET protocol == Protocol(target)
        url == IF protocol = Null THEN target ELSE Tail(target)
        mark == FirstOf("?", url)
        address == IF mark = 0 THEN url ELSE Before(url, mark)
        port == PortAt(address)
        slash == FirstOf("/", address)
        host == IF slash = 0 THEN address ELSE Before(address, slash)
    IN  IF forceProtocol /\ protocol = Null THEN Null
        ELSE [ssl |-> protocol = "https://",
              query |-> IF mark = 0 THEN Null ELSE OrNull(After(url, mark)),
              domain |-> IF port = 0 THEN host ELSE Before(address, port),
              port |-> IF port \in {0, Len(address)} THEN -1 ELSE Atoi(After(host, port)),
              resource |-> IF port # 0 /\ port = Len(address) THEN Null
                           ELSE IF slash = 0 THEN <<"/">>
                           ELSE SubSeq(address, slash, Len(address))]

\* stringfn_split_words: what stands between spaces.
Words(line) ==
    LET after[i \in 0 .. Len(line)] ==
            IF i = 0 THEN [words |-> <<>>, inWord |-> FALSE]
            ELSE LET s == after[i - 1]
                 IN  IF line[i] = " " THEN [s EXCEPT !.inWord = FALSE]
                     ELSE [words |-> IF s.inWord
                                     THEN Append(Front(s.words), Append(Last(s.words), line[i]))
                                     ELSE Append(s.words, <<line[i]>>),
                           inWord |-> TRUE]
    IN  after[Len(line)].words

\* hs_parser_parse_method
Method(word) == IF Len(word) = 1 /\ word[1] \in Methods THEN word[1] ELSE "UNKNOWN"

\* hs_parser_parse_request_line: a line of three words, of which the last is
\* not looked at.
ParseRequestLine(line) ==
    LET words == Words(line)
    IN  IF Len(words) # 3 THEN Null
        ELSE [method |-> Method(words[1]), target |-> CreateRequest(words[2], FALSE)]

=============================================================================
