------------------------------ MODULE Connection ------------------------------
(***************************************************************************)
(* The characters of one connection: how hs_parser_parse_request takes a   *)
(* request from the socket through hs_io_read_line and its work buffer,    *)
(* how a route loads the payload (hs_types.c), and how the response is     *)
(* written (hs_router.c, hs_io.c).  Reads return any part of what has been *)
(* sent.  A client sends a request when the one before is answered; it     *)
(* may leave at any time, in the middle of a request too.                  *)
(***************************************************************************)
EXTENDS Integers, SequencesExt

CONSTANTS
    CR, LF, NUL,      \* the characters the code looks at
    Chars,            \* all characters
    RequestLines,     \* lines that hs_parser_parse_request_line accepts
    ContentLengths,   \* value of each header line that is a Content-Length
    Scripts,          \* what a client may send: sequences of requests
    Responses,        \* what the routes may answer
    None,             \* no payload loaded, no file kept
    Bulk              \* HS_IO_READ_BUFFER_SIZE

Text == Seq(Chars)
Request == [lines : Seq(Text), body : Text]
Response == [header : Text, body : Text, file : BOOLEAN]

ASSUME CharsAssumption == {CR, LF, NUL} \subseteq Chars /\ CR # LF /\ NUL \notin {CR, LF}
ASSUME BulkAssumption == Bulk \in Nat /\ Bulk > 1
ASSUME ScriptsAssumption == Scripts \subseteq Seq(Request)
ASSUME ResponsesAssumption == Responses \subseteq Response /\ \A r \in Responses : r.header # <<>>
ASSUME ContentLengthsAssumption ==
    \A line \in DOMAIN ContentLengths : ContentLengths[line] \in Nat
ASSUME NoneAssumption == None \notin Text

VARIABLES
    script,     \* the requests of this client
    sent,       \* how many of them it has sent
    whole,      \* the last of them was sent to its end
    gone,       \* the client has closed its end
    inbox,      \* characters sent and not yet read
    failed,     \* a read has returned -1: a timeout, or a TLS peer that ended
    phase,      \* the loop or call the connection's thread is in
    work,       \* the work buffer of the request, later payload->partial
    chunk,      \* the local buffer of hs_io_read_line, up to its NUL
    lines,      \* lines read of the request
    load,       \* how the payload was loaded, if it was
    payload,    \* the string or the file a route got
    left,       \* characters the running loop has still to read or write
    response,   \* what is being answered
    piece,      \* the string hs_io_write_string_to_socket was given
    tail,       \* content not yet given to it
    out,        \* characters written of the response
    short,      \* a write has taken a part of what it was given
    closes,     \* the response announced that the connection closes
    answered    \* responses finished

clientVars == <<script, sent, whole, gone>>
requestVars == <<work, chunk, lines>>
payloadVars == <<load, payload>>
writeVars == <<response, piece, tail, out, short, closes>>
vars == <<clientVars, inbox, failed, phase, requestVars, payloadVars, left, writeVars, answered>>

Phases == {"line", "route", "string", "file", "write", "over", "crashed"}

CRLF == <<CR, LF>>

\* What a client sends for a request.
Wire(r) == FlattenSeq([i \in 1 .. Len(r.lines) |-> r.lines[i] \o CRLF]) \o CRLF \o r.body

Current == script[sent]

TypeOK ==
    /\ script \in Scripts
    /\ sent \in 0 .. Len(script) /\ answered \in Nat
    /\ whole \in BOOLEAN /\ gone \in BOOLEAN /\ failed \in BOOLEAN
    /\ inbox \in Text /\ work \in Text /\ chunk \in Text
    /\ phase \in Phases
    /\ lines \in Seq(Text)
    /\ load \in {"none", "string", "file"}
    /\ payload \in Text \cup {None}
    /\ left \in Nat
    /\ response \in Responses \cup {None}
    /\ piece \in Text /\ tail \in Text /\ out \in Text
    /\ short \in BOOLEAN /\ closes \in BOOLEAN

Init ==
    /\ script \in Scripts
    /\ sent = 0 /\ whole = TRUE /\ gone = FALSE /\ inbox = <<>> /\ failed = FALSE
    /\ phase = "line"
    /\ work = <<>> /\ chunk = <<>> /\ lines = <<>>
    /\ load = "none" /\ payload = None /\ left = 0
    /\ response = None /\ piece = <<>> /\ tail = <<>> /\ out = <<>>
    /\ short = FALSE /\ closes = FALSE
    /\ answered = 0

-----------------------------------------------------------------------------
\* Strings, as stringbuffer and the C library handle them.

Least(a, b) == IF a < b THEN a ELSE b

\* A string ends at its first NUL.
CString(s) ==
    LET nuls == {i \in 1 .. Len(s) : s[i] = NUL}
    IN  IF nuls = {} THEN s ELSE SubSeq(s, 1, (CHOOSE i \in nuls : \A j \in nuls : i <= j) - 1)

AppendString(buffer, s) == buffer \o CString(s)

LineEnds(s) == {i \in 1 .. Len(s) - 1 : s[i] = CR /\ s[i + 1] = LF}
HasLine(s) == LineEnds(s) # {}
FirstLineEnd(s) == CHOOSE i \in LineEnds(s) : \A j \in LineEnds(s) : i <= j

\* request->content_length, which the last such header line decides
\* (hs_parser_set_header).
LengthOf(header) ==
    LET given == {i \in 2 .. Len(header) : header[i] \in DOMAIN ContentLengths}
    IN  IF given = {} THEN 0
        ELSE ContentLengths[header[CHOOSE i \in given : \A j \in given : j <= i]]

ContentLength == LengthOf(lines)

-----------------------------------------------------------------------------
\* Faulty variants, each put in place of a definition below to see that a
\* property can fail.

\* Only the carriage return is dropped from the buffer with the line.
AfterLineKeepsLineFeed(s, i) == SubSeq(s, i + 1, Len(s))

\* More in the buffer than the payload is not expected.
StillToReadUnchecked == ContentLength - Len(work)

\* The payload to read does not count what is in the buffer already.
StillToReadAll == ContentLength

\* The file gets what is read from now on.
FromBufferNothing == <<>>

\* The decision announced in the header is not corrected.
MustCloseAnnounced == closes

\* A chunk of a file is as long as the buffer, the next one starts where a
\* chunk without its last character would have ended.
AfterChunkOverlaps == SubSeq(tail, Least(Bulk - 1, Len(tail)), Len(tail))

-----------------------------------------------------------------------------
\* The client.

\* The first k characters of the next request; with less than all of them the
\* client leaves.
ClientSends(k) ==
    /\ ~gone /\ phase \notin {"over", "crashed"}
    /\ sent = answered /\ sent < Len(script)
    /\ LET wire == Wire(script[sent + 1])
       IN  /\ inbox' = inbox \o SubSeq(wire, 1, k)
           /\ whole' = (k = Len(wire)) /\ gone' = (k < Len(wire))
    /\ sent' = sent + 1
    /\ UNCHANGED <<script, failed, phase, requestVars, payloadVars, left, writeVars, answered>>

ClientLeaves ==
    /\ ~gone /\ gone' = TRUE
    /\ UNCHANGED <<script, sent, whole, inbox, failed, phase, requestVars, payloadVars, left, writeVars,
                   answered>>

-----------------------------------------------------------------------------
\* hs_socket_read takes n characters.
Takes(n, count) ==
    /\ n \in 1 .. Least(count, Len(inbox))
    /\ inbox' = SubSeq(inbox, n + 1, Len(inbox))

Taken(n) == SubSeq(inbox, 1, n)

\* hs_socket_read returns 0.
EndOfStream == inbox = <<>> /\ gone

\* What _hs_io_read_line_from_buffer leaves in the buffer.
AfterLine(s, i) == SubSeq(s, i + 2, Len(s))

\* hs_parser_parse_request after its loop: without a line there is no request.
HeaderEnds == phase' = IF lines = <<>> THEN "over" ELSE "route"

\* A line is in the buffer.  The empty one ends the header; a first line that
\* does not parse leaves parse_request with no request to work on.
TakeLine ==
    /\ phase = "line" /\ HasLine(work)
    /\ LET i == FirstLineEnd(work)
           line == SubSeq(work, 1, i - 1)
       IN  /\ work' = AfterLine(work, i)
           /\ IF line = <<>> THEN HeaderEnds /\ UNCHANGED lines
              ELSE /\ lines' = Append(lines, line)
                   /\ phase' = IF lines = <<>> /\ line \notin RequestLines THEN "crashed" ELSE "line"
    /\ chunk' = <<>>
    /\ UNCHANGED <<clientVars, inbox, failed, payloadVars, left, writeVars, answered>>

\* The loop of hs_io_read_line.
ReadChunk(n) ==
    /\ phase = "line" /\ ~HasLine(work)
    /\ Takes(n, Bulk)
    /\ chunk' = CString(Taken(n))
    /\ work' = AppendString(work, Taken(n))
    /\ UNCHANGED <<clientVars, failed, phase, lines, payloadVars, left, writeVars, answered>>

ReadLineEnds ==
    /\ phase = "line" /\ ~HasLine(work) /\ EndOfStream
    /\ HeaderEnds /\ chunk' = <<>>
    /\ UNCHANGED <<clientVars, inbox, failed, work, lines, payloadVars, left, writeVars, answered>>

\* A read of this loop returns -1: the chunk is appended once more and the
\* buffer searched before the loop ends.
ReadLineFails ==
    /\ phase = "line" /\ ~HasLine(work)
    /\ failed' = TRUE
    /\ work' = work \o chunk /\ chunk' = <<>>
    /\ IF HasLine(work') THEN UNCHANGED phase ELSE HeaderEnds
    /\ UNCHANGED <<clientVars, inbox, lines, payloadVars, left, writeVars, answered>>

-----------------------------------------------------------------------------
\* A route runs; it may load the payload, once.

\* What of the payload is not in the buffer yet.
StillToRead == IF Len(work) >= ContentLength THEN 0 ELSE ContentLength - Len(work)

\* What the buffer holds of the payload; for a length of 0 nothing is trimmed.
FromBuffer ==
    IF ContentLength > 0 /\ Len(work) > ContentLength THEN SubSeq(work, 1, ContentLength) ELSE work

\* hs_types_http_request_payload_to_string, up to the reads.
LoadString ==
    /\ phase = "route" /\ load = "none"
    /\ load' = "string" /\ phase' = "string"
    /\ left' = StillToRead
    /\ UNCHANGED <<clientVars, inbox, failed, requestVars, payload, writeVars, answered>>

\* hs_types_http_request_payload_to_file, for a file that can be written.
LoadFile ==
    /\ phase = "route" /\ load = "none"
    /\ load' = "file"
    /\ IF ContentLength = 0 THEN UNCHANGED <<phase, left, payload>>
       ELSE phase' = "file" /\ left' = StillToRead /\ payload' = FromBuffer
    /\ UNCHANGED <<clientVars, inbox, failed, requestVars, writeVars, answered>>

\* The loops of hs_io_read_fully, which appends strings, and of
\* hs_io_read_and_write_to_file, which writes bytes.
ReadPayload(n) ==
    /\ phase \in {"string", "file"}
    /\ Takes(n, Least(Bulk, left))
    /\ left' = left - n
    /\ IF phase = "string" THEN work' = AppendString(work, Taken(n)) /\ UNCHANGED payload
       ELSE payload' = payload \o Taken(n) /\ UNCHANGED work
    /\ UNCHANGED <<clientVars, failed, phase, chunk, lines, load, writeVars, answered>>

\* The loop ends: a string is what there is by then, a file that is not
\* complete is removed.
LoadEnds ==
    /\ payload' = IF phase = "string" THEN FromBuffer
                  ELSE IF left = 0 THEN payload ELSE None
    /\ phase' = "route" /\ left' = 0
    /\ UNCHANGED <<clientVars, inbox, requestVars, load, writeVars, answered>>

PayloadLoaded ==
    /\ phase \in {"string", "file"} /\ (left = 0 \/ EndOfStream)
    /\ LoadEnds /\ UNCHANGED failed

PayloadFails ==
    /\ phase \in {"string", "file"} /\ left > 0
    /\ LoadEnds /\ failed' = TRUE

-----------------------------------------------------------------------------
\* The response.

\* hs_io_write_string_to_socket is called.
Write(s) == piece' = s /\ left' = Len(s)

\* A route answered with r; the header comes first.
Answer(r, close) ==
    /\ phase = "route"
    /\ response' = r /\ closes' = close
    /\ Write(r.header) /\ tail' = r.body /\ out' = <<>> /\ short' = FALSE
    /\ phase' = "write"
    /\ UNCHANGED <<clientVars, inbox, failed, requestVars, payloadVars, answered>>

\* No route answered: the handler ends the connection.
NoAnswer ==
    /\ phase = "route" /\ phase' = "over"
    /\ UNCHANGED <<clientVars, inbox, failed, requestVars, payloadVars, left, writeVars, answered>>

\* One write of the loop, always from the start of the string.
WriteSome(n) ==
    /\ phase = "write" /\ n \in 1 .. left
    /\ short' = (short \/ n < left)
    /\ out' = out \o SubSeq(piece, 1, n) /\ left' = left - n
    /\ UNCHANGED <<clientVars, inbox, failed, phase, requestVars, payloadVars, response, piece, tail,
                   closes, answered>>

\* The client has gone: this write fails, and so do those that would follow.
WriteFails ==
    /\ phase = "write" /\ left > 0 /\ gone
    /\ left' = 0 /\ tail' = <<>>
    /\ UNCHANGED <<clientVars, inbox, failed, phase, requestVars, payloadVars, response, piece, out,
                   short, closes, answered>>

\* What is left of a file after hs_io_write_file_to_socket read a chunk.
AfterChunk == SubSeq(tail, Least(Bulk - 1, Len(tail)) + 1, Len(tail))

\* The content: a string at once, a file in chunks.
WriteContent ==
    /\ phase = "write" /\ left = 0 /\ tail # <<>>
    /\ IF response.file
       THEN Write(SubSeq(tail, 1, Least(Bulk - 1, Len(tail)))) /\ tail' = AfterChunk
       ELSE Write(tail) /\ tail' = <<>>
    /\ UNCHANGED <<clientVars, inbox, failed, phase, requestVars, payloadVars, response, out, short, closes,
                   answered>>

\* A payload nobody loaded closes the connection whatever was announced.
MustClose == closes \/ (ContentLength > 0 /\ load = "none")

\* The response is written; the request and its buffer are released.
FinishResponse ==
    /\ phase = "write" /\ left = 0 /\ tail = <<>>
    /\ answered' = answered + 1
    /\ phase' = IF MustClose THEN "over" ELSE "line"
    /\ work' = <<>> /\ chunk' = <<>> /\ lines' = <<>>
    /\ load' = "none" /\ payload' = None
    /\ response' = None /\ piece' = <<>> /\ out' = <<>>
    /\ short' = FALSE /\ closes' = FALSE
    /\ UNCHANGED <<clientVars, inbox, failed, left, tail>>

-----------------------------------------------------------------------------
NextWire == IF sent < Len(script) THEN Wire(script[sent + 1]) ELSE <<>>

Client == ClientLeaves \/ \E k \in 1 .. Len(NextWire) : ClientSends(k)

Reads == \/ TakeLine \/ ReadLineEnds \/ PayloadLoaded
         \/ \E n \in 1 .. Bulk : ReadChunk(n) \/ ReadPayload(n)

Routes == \/ LoadString \/ LoadFile \/ NoAnswer
          \/ \E r \in Responses, close \in BOOLEAN : Answer(r, close)

Writes == \/ WriteFails \/ WriteContent \/ FinishResponse
          \/ \E n \in 1 .. left : WriteSome(n)

Server == Reads \/ Routes \/ Writes

Fails == ReadLineFails \/ PayloadFails

Next == Client \/ Server \/ Fails

Spec == Init /\ [][Next]_vars

\* The thread of the connection runs whenever what it waits for is there; no
\* timeout has to come to its help.
FairSpec == Spec /\ WF_vars(Server)

-----------------------------------------------------------------------------
\* However the stream is cut into reads, the lines found are those the client
\* sent (hs_io.c:23-69, 274-314): all of them, unless it left before.
LinesAsSent ==
    phase \in {"route", "string", "file", "write"} /\ ~failed =>
        IsPrefix(lines, Current.lines) /\ (whole => lines = Current.lines)

\* A route gets the payload the client sent, no character lost or added
\* between the work buffer and the socket (hs_types.c:308-434).
PayloadAsSent ==
    phase \in {"route", "write"} /\ whole /\ ~failed =>
        /\ load = "string" => payload = Current.body
        /\ load = "file" /\ Current.body # <<>> => payload = Current.body

\* When a connection is kept, nothing of the request before is left where
\* the next one is read (hs_router.c:483-495).
NextStartsAtRequest ==
    phase = "line" /\ sent = answered /\ ~failed => inbox = <<>> /\ work = <<>>

\* Until a write is short, what the client has received is the beginning of
\* the header followed by the content, and all of it once the loops of
\* hs_io.c:175-252 have ended and the client is there (hs_router.c:464-479).
\* After a short write only their number is claimed: which characters they
\* are is the matter of EntireStringWritten.
ResponseAsWritten ==
    phase = "write" =>
        LET due == response.header \o response.body
        IN  /\ Len(out) <= Len(due) /\ (~short => IsPrefix(out, due))
            /\ left = 0 /\ tail = <<>> /\ ~gone => Len(out) = Len(due)

\* When hs_io_write_string_to_socket has returned true (hs_io.c:189-204), the
\* entire string was written, however its writes were cut: to a client that
\* is there, and with no failure in the reads before.
EntireStringWritten ==
    phase = "write" /\ left = 0 /\ ~gone /\ ~failed => IsSuffix(piece, out)

\* A request that was sent to its end is answered or ends the connection: no
\* loop waits for characters that do not come.
RequestIsAnswered == (sent > answered) ~> (sent = answered \/ phase \in {"over", "crashed"})

=============================================================================
