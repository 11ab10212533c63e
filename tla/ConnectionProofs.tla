--------------------------- MODULE ConnectionProofs ---------------------------
(***************************************************************************)
(* Proofs about Connection, for every client, every request and response,  *)
(* every way reads and writes cut them, and every size of a read: the      *)
(* types of its variables, and what is written of a response.              *)
(***************************************************************************)
EXTENDS Connection, SequenceLemmas

USE CharsAssumption, BulkAssumption, ScriptsAssumption, ResponsesAssumption, NoneAssumption

\* A phase has what it works on: a file, or a response and a string of which
\* something is left.
Places ==
    /\ phase = "file" => payload \in Text
    /\ phase = "write" => response \in Responses /\ left <= Len(piece)

\* What was written and what is still to be written make up the response, as
\* long as no write was short and the client is there; in number always.
Channel ==
    phase = "write" =>
        LET due  == response.header \o response.body
            rest == SubSeq(piece, 1, left) \o tail
        IN  /\ Len(out) + left + Len(tail) <= Len(due)
            /\ ~gone => Len(out) + left + Len(tail) = Len(due)
            /\ ~short => IsPrefix(out \o rest, due)

\* A line, its end, and what comes after it.
Joined(line, rest) == (line \o CRLF) \o rest

\* What a request is on the wire: heads[m] is what is left of its header after
\* m lines, with the empty line.
IsHeads(heads, r) ==
    /\ heads \in [0 .. Len(r.lines) -> Text]
    /\ Wire(r) = heads[0] \o r.body
    /\ heads[Len(r.lines)] = CRLF
    /\ \A m \in 0 .. Len(r.lines) - 1 : heads[m] = Joined(r.lines[m + 1], heads[m + 1])

Heads(r) == CHOOSE heads : IsHeads(heads, r)

-----------------------------------------------------------------------------
\* Texts and their parts.

LEMMA TextLen ==
    ASSUME NEW s \in Text
    PROVE  /\ Len(s) \in Nat
           /\ \A i \in 1 .. Len(s) : s[i] \in Chars
           /\ Len(s) = 0 <=> s = <<>>
  BY LenProperties, ElementOfSeq, EmptySeq DEF Text

LEMMA EmptyText == <<>> \in Text /\ Len(<<>>) = 0
  BY EmptySeq DEF Text

LEMMA SubText ==
    ASSUME NEW s \in Text, NEW i \in Nat \ {0}, NEW j \in 0 .. Len(s)
    PROVE  /\ SubSeq(s, i, j) \in Text
           /\ Len(SubSeq(s, i, j)) = IF i <= j THEN j - i + 1 ELSE 0
           /\ \A k \in 1 .. j - i + 1 : SubSeq(s, i, j)[k] = s[k + i - 1]
  <1>1. i \in Int /\ j \in Int /\ Len(s) \in Nat
    BY TextLen
  <1>2. \A k \in i .. j : s[k] \in Chars
    BY <1>1, TextLen
  <1>3. /\ SubSeq(s, i, j) \in Seq(Chars)
        /\ Len(SubSeq(s, i, j)) = IF i <= j THEN j - i + 1 ELSE 0
        /\ \A k \in 1 .. j - i + 1 : SubSeq(s, i, j)[k] = s[i + k - 1]
    BY ONLY <1>1, <1>2, SubSeqProperties
  <1>4. \A k \in 1 .. j - i + 1 : i + k - 1 = k + i - 1
    BY <1>1
  <1>5. QED
    BY <1>3, <1>4 DEF Text

LEMMA JoinText ==
    ASSUME NEW s \in Text, NEW t \in Text
    PROVE  /\ s \o t \in Text
           /\ Len(s \o t) = Len(s) + Len(t)
           /\ \A i \in 1 .. Len(s) + Len(t) :
                 (s \o t)[i] = IF i <= Len(s) THEN s[i] ELSE t[i - Len(s)]
  BY ConcatProperties DEF Text

LEMMA JoinEmpty ==
    ASSUME NEW s \in Text PROVE s \o <<>> = s /\ <<>> \o s = s
  BY ConcatEmptySeq DEF Text

LEMMA JoinThree ==
    ASSUME NEW s \in Text, NEW t \in Text, NEW u \in Text
    PROVE  (s \o t) \o u = s \o (t \o u)
  BY ConcatAssociative DEF Text

LEMMA WholeText ==
    ASSUME NEW s \in Text PROVE SubSeq(s, 1, Len(s)) = s
  BY SubSeqFull DEF Text

LEMMA NoText ==
    ASSUME NEW s \in Text, NEW i \in Nat, NEW j \in Nat, j < i
    PROVE  SubSeq(s, i, j) = <<>>
  BY SubSeqEmpty

\* A text is what comes before a place and what comes after it.
LEMMA CutText ==
    ASSUME NEW s \in Text, NEW k \in 0 .. Len(s)
    PROVE  SubSeq(s, 1, k) \o SubSeq(s, k + 1, Len(s)) = s
  <1>1. Len(s) \in Nat
    BY TextLen
  <1>2. 1 \in 1 .. Len(s) + 1 /\ k \in 1 - 1 .. Len(s) /\ Len(s) \in k .. Len(s)
    BY <1>1
  <1>3. SubSeq(s, 1, k) \o SubSeq(s, k + 1, Len(s)) = SubSeq(s, 1, Len(s))
    BY <1>2, ConcatAdjacentSubSeq DEF Text
  <1>4. QED
    BY <1>3, WholeText

LEMMA SameText ==
    ASSUME NEW s \in Text, NEW t \in Text, Len(s) = Len(t), \A i \in 1 .. Len(s) : s[i] = t[i]
    PROVE  s = t
  BY SeqEqual DEF Text

LEMMA PrefixByPlaces ==
    ASSUME NEW s \in Text, NEW t \in Text
    PROVE  IsPrefix(s, t) <=> Len(s) <= Len(t) /\ \A i \in 1 .. Len(s) : s[i] = t[i]
  <1>1. Len(s) \in Nat /\ Len(t) \in Nat
    BY TextLen
  <1>2. SubSeq(s, 1, Len(s)) = s
    BY WholeText
  <1>3. CASE Len(s) <= Len(t)
    <2>1. /\ SubSeq(t, 1, Len(s)) \in Text
          /\ Len(SubSeq(t, 1, Len(s))) = Len(s)
          /\ \A k \in 1 .. Len(s) : SubSeq(t, 1, Len(s))[k] = t[k]
      <3>1. 1 \in Nat \ {0} /\ Len(s) \in 0 .. Len(t)
        BY <1>1, <1>3
      <3>2. /\ SubSeq(t, 1, Len(s)) \in Text
            /\ Len(SubSeq(t, 1, Len(s))) = IF 1 <= Len(s) THEN Len(s) - 1 + 1 ELSE 0
            /\ \A k \in 1 .. Len(s) - 1 + 1 : SubSeq(t, 1, Len(s))[k] = t[k + 1 - 1]
        BY ONLY <3>1, SubText
      <3>3. QED
        BY <1>1, <3>2
    <2>2. SubSeq(t, 1, Len(s)) = s <=> \A i \in 1 .. Len(s) : s[i] = t[i]
      BY <2>1, SameText
    <2>3. QED
      BY <1>2, <1>3, <2>2 DEF IsPrefix
  <1>4. QED
    BY <1>3 DEF IsPrefix

-----------------------------------------------------------------------------
\* What the helpers of the module make of texts.

\* A C string is the text up to its first NUL.
LEMMA CStringIs ==
    ASSUME NEW s \in Text
    PROVE  \/ CString(s) = s /\ \A i \in 1 .. Len(s) : s[i] # NUL
           \/ \E k \in 1 .. Len(s) : s[k] = NUL /\ CString(s) = SubSeq(s, 1, k - 1)
  <1> DEFINE nuls == {i \in 1 .. Len(s) : s[i] = NUL}
  <1>1. CASE nuls = {}
    BY <1>1 DEF CString
  <1>2. CASE nuls # {}
    <2>1. \E k \in nuls : \A j \in nuls : k <= j
      <3>1. nuls \in SUBSET Nat
        BY TextLen
      <3>2. QED
        BY ONLY <1>2, <3>1, HasMin
    <2>2. PICK k \in nuls : k = CHOOSE i \in nuls : \A j \in nuls : i <= j
      BY <2>1
    <2>3. QED
      BY <1>2, <2>2 DEF CString
  <1>3. QED
    BY <1>1, <1>2

LEMMA CStringText ==
    ASSUME NEW s \in Text
    PROVE  /\ CString(s) \in Text
           /\ Len(CString(s)) <= Len(s)
           /\ \A i \in 1 .. Len(CString(s)) : CString(s)[i] = s[i]
           /\ \/ CString(s) = s
              \/ Len(CString(s)) < Len(s) /\ s[Len(CString(s)) + 1] = NUL
  <1>1. Len(s) \in Nat
    BY TextLen
  <1>2. ASSUME NEW k \in 1 .. Len(s), s[k] = NUL, CString(s) = SubSeq(s, 1, k - 1)
        PROVE  /\ CString(s) \in Text
               /\ Len(CString(s)) = k - 1
               /\ \A i \in 1 .. k - 1 : CString(s)[i] = s[i]
    <2>1. 1 \in Nat \ {0} /\ k - 1 \in 0 .. Len(s)
      BY <1>1
    <2>2. /\ SubSeq(s, 1, k - 1) \in Text
          /\ Len(SubSeq(s, 1, k - 1)) = IF 1 <= k - 1 THEN (k - 1) - 1 + 1 ELSE 0
          /\ \A i \in 1 .. (k - 1) - 1 + 1 : SubSeq(s, 1, k - 1)[i] = s[i + 1 - 1]
      BY ONLY <2>1, SubText
    <2>3. QED
      BY <1>1, <1>2, <2>2
  <1>3. CASE CString(s) = s
    BY <1>1, <1>3
  <1>4. CASE \E k \in 1 .. Len(s) : s[k] = NUL /\ CString(s) = SubSeq(s, 1, k - 1)
    <2>1. PICK k \in 1 .. Len(s) : s[k] = NUL /\ CString(s) = SubSeq(s, 1, k - 1)
      BY <1>4
    <2>2. QED
      BY <1>1, <1>2, <2>1
  <1>5. QED
    BY <1>3, <1>4, CStringIs

LEMMA AppendText ==
    ASSUME NEW s \in Text, NEW t \in Text PROVE AppendString(s, t) \in Text
  BY CStringText, JoinText DEF AppendString

\* A line is searched from the start of the buffer.
LEMMA FirstLineEndIs ==
    ASSUME NEW s \in Text, HasLine(s)
    PROVE  /\ FirstLineEnd(s) \in LineEnds(s)
           /\ \A j \in LineEnds(s) : FirstLineEnd(s) <= j
           /\ FirstLineEnd(s) \in 1 .. Len(s) - 1
  <1>1. LineEnds(s) \in SUBSET Nat /\ LineEnds(s) # {}
    BY TextLen DEF LineEnds, HasLine
  <1>2. \E i \in LineEnds(s) : \A j \in LineEnds(s) : i <= j
    BY ONLY <1>1, HasMin
  <1>3. FirstLineEnd(s) \in LineEnds(s) /\ \A j \in LineEnds(s) : FirstLineEnd(s) <= j
    BY <1>2 DEF FirstLineEnd
  <1>4. QED
    BY <1>3 DEF LineEnds

\* What TakeLine takes and what it leaves.
LEMMA LineText ==
    ASSUME NEW s \in Text, NEW i \in 1 .. Len(s) - 1
    PROVE  /\ SubSeq(s, 1, i - 1) \in Text
           /\ Len(SubSeq(s, 1, i - 1)) = i - 1
           /\ \A k \in 1 .. i - 1 : SubSeq(s, 1, i - 1)[k] = s[k]
           /\ AfterLine(s, i) \in Text
           /\ Len(AfterLine(s, i)) = Len(s) - (i + 1)
           /\ \A k \in 1 .. Len(s) - (i + 1) : AfterLine(s, i)[k] = s[k + (i + 1)]
  <1>1. Len(s) \in Nat
    BY TextLen
  <1>2. /\ 1 \in Nat \ {0} /\ i - 1 \in 0 .. Len(s)
        /\ i + 2 \in Nat \ {0} /\ Len(s) \in 0 .. Len(s)
    BY <1>1
  <1>3. /\ SubSeq(s, 1, i - 1) \in Text
        /\ Len(SubSeq(s, 1, i - 1)) = IF 1 <= i - 1 THEN (i - 1) - 1 + 1 ELSE 0
        /\ \A k \in 1 .. (i - 1) - 1 + 1 : SubSeq(s, 1, i - 1)[k] = s[k + 1 - 1]
    BY ONLY <1>2, SubText
  <1>4. /\ SubSeq(s, i + 2, Len(s)) \in Text
        /\ Len(SubSeq(s, i + 2, Len(s))) = IF i + 2 <= Len(s) THEN Len(s) - (i + 2) + 1 ELSE 0
        /\ \A k \in 1 .. Len(s) - (i + 2) + 1 : SubSeq(s, i + 2, Len(s))[k] = s[k + (i + 2) - 1]
    BY ONLY <1>2, SubText
  <1>5. QED
    BY <1>1, <1>3, <1>4 DEF AfterLine

LEMMA LengthType ==
    ASSUME NEW ls \in Seq(Text) PROVE LengthOf(ls) \in Nat
  <1> DEFINE given == {i \in 2 .. Len(ls) : ls[i] \in DOMAIN ContentLengths}
  <1>1. Len(ls) \in Nat
    BY LenProperties
  <1>2. CASE given = {}
    BY <1>2 DEF LengthOf
  <1>3. CASE given # {}
    <2>1. \E i \in given : \A j \in given : j <= i
      <3>1. given \in SUBSET (0 .. Len(ls))
        BY <1>1
      <3>2. QED
        BY ONLY <1>1, <1>3, <3>1, HasMax
    <2>2. PICK i \in given : i = CHOOSE k \in given : \A j \in given : j <= k
      BY <2>1
    <2>3. LengthOf(ls) = ContentLengths[ls[i]]
      BY <1>3, <2>2 DEF LengthOf
    <2>4. QED
      BY <2>3, ContentLengthsAssumption
  <1>4. QED
    BY <1>2, <1>3

\* What a read takes from what has been sent.
LEMMA TakesText ==
    ASSUME NEW count \in Nat, NEW n, inbox \in Text, Takes(n, count)
    PROVE  /\ n \in 1 .. Len(inbox) /\ n <= count
           /\ Taken(n) \in Text /\ Len(Taken(n)) = n
           /\ \A i \in 1 .. n : Taken(n)[i] = inbox[i]
           /\ inbox' \in Text /\ Len(inbox') = Len(inbox) - n
           /\ \A i \in 1 .. Len(inbox) - n : inbox'[i] = inbox[i + n]
           /\ inbox = Taken(n) \o inbox'
  <1>1. Len(inbox) \in Nat
    BY TextLen
  <1>2. n \in 1 .. Len(inbox) /\ n <= count /\ inbox' = SubSeq(inbox, n + 1, Len(inbox))
    BY <1>1 DEF Takes, Least
  <1>3. /\ inbox \in Text
        /\ 1 \in Nat \ {0} /\ n \in 0 .. Len(inbox)
        /\ n + 1 \in Nat \ {0} /\ Len(inbox) \in 0 .. Len(inbox)
    BY <1>1, <1>2
  <1>4. /\ SubSeq(inbox, 1, n) \in Text
        /\ Len(SubSeq(inbox, 1, n)) = IF 1 <= n THEN n - 1 + 1 ELSE 0
        /\ \A k \in 1 .. n - 1 + 1 : SubSeq(inbox, 1, n)[k] = inbox[k + 1 - 1]
    BY ONLY <1>3, SubText
  <1>5. /\ SubSeq(inbox, n + 1, Len(inbox)) \in Text
        /\ Len(SubSeq(inbox, n + 1, Len(inbox)))
             = IF n + 1 <= Len(inbox) THEN Len(inbox) - (n + 1) + 1 ELSE 0
        /\ \A k \in 1 .. Len(inbox) - (n + 1) + 1 :
              SubSeq(inbox, n + 1, Len(inbox))[k] = inbox[k + (n + 1) - 1]
    BY ONLY <1>3, SubText
  <1>6. SubSeq(inbox, 1, n) \o SubSeq(inbox, n + 1, Len(inbox)) = inbox
    BY <1>3, CutText
  <1>7. QED
    BY <1>1, <1>2, <1>4, <1>5, <1>6 DEF Taken

-----------------------------------------------------------------------------
\* What a request is on the wire.
LEMMA LineEndText == CRLF \in Text /\ Len(CRLF) = 2 /\ CRLF[1] = CR /\ CRLF[2] = LF
  <1>1. CR \in Chars /\ LF \in Chars
    OBVIOUS
  <1>2. QED
    BY <1>1 DEF CRLF, Text

LEMMA RequestText ==
    ASSUME NEW r \in Request
    PROVE  /\ r.lines \in Seq(Text) /\ r.body \in Text
           /\ Len(r.lines) \in Nat
           /\ \A i \in 1 .. Len(r.lines) : r.lines[i] \in Text
  <1>1. r.lines \in Seq(Text) /\ r.body \in Text
    BY DEF Request
  <1>2. QED
    BY <1>1, LenProperties, ElementOfSeq

LEMMA WireShape ==
    ASSUME NEW r \in Request
    PROVE  IsHeads(Heads(r), r)
  <1> DEFINE n == Len(r.lines)
             parts == [i \in 1 .. n |-> r.lines[i] \o CRLF]
  <1>1. n \in Nat /\ \A i \in 1 .. n : r.lines[i] \o CRLF \in Text
    BY RequestText, LineEndText, JoinText
  <1>2. parts \in Seq(Seq(Chars)) /\ Len(parts) = n
    <2>1. \A i \in 1 .. n : r.lines[i] \o CRLF \in Seq(Chars)
      BY <1>1 DEF Text
    <2>2. QED
      BY <1>1, <2>1
  <1>3. \A i \in 1 .. n : parts[i] = r.lines[i] \o CRLF
    OBVIOUS
  <1>4. Wire(r) = FlattenSeq(parts) \o CRLF \o r.body
    BY DEF Wire
  <1> HIDE DEF parts
  <1>5. PICK rest : IsRest(rest, Chars, parts)
    BY <1>2, FlattenRests
  <1>6. /\ \A m \in 0 .. n : rest[m] \in Text
        /\ rest[0] = FlattenSeq(parts)
        /\ rest[n] = <<>>
        /\ \A m \in 0 .. n - 1 : rest[m] = parts[m + 1] \o rest[m + 1]
    BY <1>2, <1>5 DEF IsRest, Text
  <1>7. PICK heads : heads = [m \in 0 .. n |-> rest[m] \o CRLF]
    OBVIOUS
  <1>8. heads \in [0 .. n -> Text]
    <2>1. \A m \in 0 .. n : rest[m] \o CRLF \in Text
      BY <1>6, LineEndText, JoinText
    <2>2. QED
      BY ONLY <1>7, <2>1
  <1>9. Wire(r) = heads[0] \o r.body
    <2>1. heads[0] = rest[0] \o CRLF
      BY <1>1, <1>7
    <2>2. QED
      BY <1>4, <1>6, <2>1
  <1>10. heads[n] = CRLF
    <2>1. n \in 0 .. n
      BY <1>1
    <2>2. <<>> \o CRLF = CRLF
      BY LineEndText, JoinEmpty
    <2>3. QED
      BY ONLY <1>6, <1>7, <2>1, <2>2
  <1>11. ASSUME NEW m \in 0 .. n - 1
         PROVE  heads[m] = Joined(r.lines[m + 1], heads[m + 1])
    <2>1. m \in 0 .. n /\ m + 1 \in 0 .. n /\ m + 1 \in 1 .. n
      BY <1>1
    <2>2. heads[m] = rest[m] \o CRLF /\ heads[m + 1] = rest[m + 1] \o CRLF
      BY <1>7, <2>1
    <2>3. rest[m] = parts[m + 1] \o rest[m + 1] /\ parts[m + 1] = r.lines[m + 1] \o CRLF
      BY <1>3, <1>6, <2>1
    <2>4. parts[m + 1] \in Text /\ rest[m + 1] \in Text
      BY <1>1, <1>6, <2>1, <2>3
    <2>5. (parts[m + 1] \o rest[m + 1]) \o CRLF = parts[m + 1] \o (rest[m + 1] \o CRLF)
      BY <2>4, LineEndText, JoinThree
    <2>6. heads[m] = parts[m + 1] \o heads[m + 1]
      BY <2>2, <2>3, <2>5
    <2>7. QED
      BY <2>3, <2>6 DEF Joined
  <1>12. IsHeads(heads, r)
    BY <1>8, <1>9, <1>10, <1>11 DEF IsHeads
  <1>13. QED
    BY <1>12 DEF Heads

LEMMA WireText ==
    ASSUME NEW r \in Request
    PROVE  Wire(r) \in Text /\ Len(Wire(r)) \in Nat
  <1>1. IsHeads(Heads(r), r) /\ 0 \in 0 .. Len(r.lines) /\ r.body \in Text
    BY WireShape, RequestText
  <1>2. Heads(r)[0] \in Text /\ Wire(r) = Heads(r)[0] \o r.body
    BY <1>1 DEF IsHeads
  <1>3. QED
    BY <1>1, <1>2, JoinText, TextLen

-----------------------------------------------------------------------------
\* Types.

LEMMA ScriptText ==
    ASSUME TypeOK
    PROVE  /\ script \in Seq(Request) /\ Len(script) \in Nat
           /\ \A i \in 1 .. Len(script) : script[i] \in Request
           /\ sent \in Nat
  <1>1. script \in Seq(Request)
    BY DEF TypeOK
  <1>2. QED
    BY <1>1, LenProperties, ElementOfSeq DEF TypeOK

\* A loop asks for no more than there is of the payload.
LEMMA LoadTypes ==
    ASSUME TypeOK
    PROVE  /\ ContentLength \in Nat
           /\ StillToRead \in Nat
           /\ FromBuffer \in Text
  <1>1. ContentLength \in Nat
    BY LengthType DEF TypeOK, ContentLength
  <1>2. work \in Text /\ Len(work) \in Nat
    BY TextLen DEF TypeOK
  <1>3. StillToRead \in Nat
    BY <1>1, <1>2 DEF StillToRead
  <1>4. ContentLength > 0 /\ Len(work) > ContentLength => SubSeq(work, 1, ContentLength) \in Text
    <2>1. Len(work) > ContentLength => ContentLength \in 0 .. Len(work)
      BY <1>1, <1>2
    <2>2. QED
      BY <1>2, <2>1, SubText
  <1>5. QED
    BY <1>1, <1>2, <1>3, <1>4 DEF FromBuffer

LEMMA ResponseText ==
    ASSUME NEW r \in Responses
    PROVE  r.header \in Text /\ r.body \in Text /\ r.file \in BOOLEAN
  BY DEF Response

\* The parts a content is cut into.
LEMMA ChunkText ==
    ASSUME NEW s \in Text
    PROVE  LET k == Least(Bulk - 1, Len(s))
           IN  /\ k \in 0 .. Len(s)
               /\ SubSeq(s, 1, k) \in Text /\ Len(SubSeq(s, 1, k)) = k
               /\ SubSeq(s, k + 1, Len(s)) \in Text /\ Len(SubSeq(s, k + 1, Len(s))) = Len(s) - k
               /\ s = SubSeq(s, 1, k) \o SubSeq(s, k + 1, Len(s))
  <1> DEFINE k == Least(Bulk - 1, Len(s))
  <1>1. Len(s) \in Nat /\ k \in 0 .. Len(s)
    BY TextLen DEF Least
  <1>2. /\ 1 \in Nat \ {0} /\ k + 1 \in Nat \ {0} /\ Len(s) \in 0 .. Len(s)
    BY <1>1
  <1> HIDE DEF k
  <1>3. /\ SubSeq(s, 1, k) \in Text
        /\ Len(SubSeq(s, 1, k)) = IF 1 <= k THEN k - 1 + 1 ELSE 0
    BY ONLY <1>1, <1>2, SubText
  <1>4. /\ SubSeq(s, k + 1, Len(s)) \in Text
        /\ Len(SubSeq(s, k + 1, Len(s))) = IF k + 1 <= Len(s) THEN Len(s) - (k + 1) + 1 ELSE 0
    BY ONLY <1>1, <1>2, SubText
  <1>5. s = SubSeq(s, 1, k) \o SubSeq(s, k + 1, Len(s))
    BY <1>1, CutText
  <1>6. SubSeq(s, 1, k) \in Text /\ Len(SubSeq(s, 1, k)) = k
    BY ONLY <1>1, <1>3
  <1>7. SubSeq(s, k + 1, Len(s)) \in Text /\ Len(SubSeq(s, k + 1, Len(s))) = Len(s) - k
    BY ONLY <1>1, <1>4
  <1>8. QED
    BY ONLY <1>1, <1>5, <1>6, <1>7 DEF k

LEMMA ClientTypes ==
    ASSUME TypeOK, Places, Client PROVE TypeOK' /\ Places'
  <1>1. CASE ClientLeaves
    BY <1>1 DEF ClientLeaves, TypeOK, Places, Phases, requestVars, payloadVars, writeVars
  <1>2. ASSUME NEW k \in 1 .. Len(NextWire), ClientSends(k) PROVE TypeOK' /\ Places'
    <2>1. sent < Len(script) /\ sent + 1 \in 1 .. Len(script)
      BY <1>2, ScriptText DEF ClientSends
    <2>2. Wire(script[sent + 1]) \in Text /\ Len(Wire(script[sent + 1])) \in Nat
      BY <2>1, ScriptText, WireText
    <2>3. SubSeq(Wire(script[sent + 1]), 1, k) \in Text
      <3>1. k \in 0 .. Len(Wire(script[sent + 1]))
        BY <2>1, <2>2 DEF NextWire
      <3>2. QED
        BY <2>2, <3>1, SubText
    <2>4. inbox' \in Text
      BY <1>2, <2>3, JoinText DEF ClientSends, TypeOK
    <2>5. sent' \in 0 .. Len(script)
      BY <1>2, <2>1, ScriptText DEF ClientSends
    <2>6. QED
      BY <1>2, <2>4, <2>5
      DEF ClientSends, TypeOK, Places, Phases, requestVars, payloadVars, writeVars
  <1>3. QED
    BY <1>1, <1>2 DEF Client

LEMMA HeaderTypes ==
    ASSUME TypeOK, Places,
           TakeLine \/ ReadLineEnds \/ ReadLineFails \/ \E n \in 1 .. Bulk : ReadChunk(n)
    PROVE  TypeOK' /\ Places'
  <1> USE DEF TypeOK, Places, Phases, clientVars, requestVars, payloadVars, writeVars
  <1>1. CASE TakeLine
    <2> DEFINE i == FirstLineEnd(work)
               line == SubSeq(work, 1, i - 1)
    <2>1. line \in Text /\ AfterLine(work, i) \in Text
      BY <1>1, FirstLineEndIs, LineText DEF TakeLine
    <2>2. lines' \in Seq(Text)
      <3>1. Append(lines, line) \in Seq(Text)
        BY <2>1, AppendProperties
      <3>2. lines' = lines \/ lines' = Append(lines, line)
        BY <1>1 DEF TakeLine
      <3>3. QED
        BY <3>1, <3>2
    <2>3. phase' \in {"line", "route", "over", "crashed"}
      BY <1>1 DEF TakeLine, HeaderEnds
    <2>4. work' \in Text /\ chunk' \in Text
      BY <1>1, <2>1, EmptyText DEF TakeLine
    <2>5. QED
      BY <1>1, <2>2, <2>3, <2>4 DEF TakeLine
  <1>2. CASE ReadLineEnds
    BY <1>2, EmptyText DEF ReadLineEnds, HeaderEnds
  <1>3. CASE ReadLineFails
    <2>1. work \o chunk \in Text
      BY JoinText
    <2>2. phase' \in {"line", "route", "over"}
      BY <1>3 DEF ReadLineFails, HeaderEnds
    <2>3. QED
      BY <1>3, <2>1, <2>2, EmptyText DEF ReadLineFails
  <1>4. ASSUME NEW n \in 1 .. Bulk, ReadChunk(n) PROVE TypeOK' /\ Places'
    <2>1. Taken(n) \in Text /\ inbox' \in Text
      BY <1>4, TakesText DEF ReadChunk
    <2>2. CString(Taken(n)) \in Text /\ AppendString(work, Taken(n)) \in Text
      BY <2>1, CStringText, AppendText
    <2>3. QED
      BY <1>4, <2>1, <2>2 DEF ReadChunk
  <1>5. QED
    BY <1>1, <1>2, <1>3, <1>4

LEMMA LoadsTypes ==
    ASSUME TypeOK, Places,
           \/ LoadString \/ LoadFile \/ PayloadLoaded \/ PayloadFails
           \/ \E n \in 1 .. Bulk : ReadPayload(n)
    PROVE  TypeOK' /\ Places'
  <1> USE DEF TypeOK, Places, Phases, clientVars, requestVars, payloadVars, writeVars
  <1>1. CASE LoadString
    BY <1>1, LoadTypes DEF LoadString
  <1>2. CASE LoadFile
    BY <1>2, LoadTypes DEF LoadFile
  <1>3. CASE PayloadLoaded
    BY <1>3, LoadTypes DEF PayloadLoaded, LoadEnds
  <1>4. CASE PayloadFails
    BY <1>4, LoadTypes DEF PayloadFails, LoadEnds
  <1>5. ASSUME NEW n \in 1 .. Bulk, ReadPayload(n) PROVE TypeOK' /\ Places'
    <2>1. Least(Bulk, left) \in Nat /\ Least(Bulk, left) <= left
      BY DEF Least
    <2>2. Taken(n) \in Text /\ inbox' \in Text /\ n <= left
      BY <1>5, <2>1, TakesText DEF ReadPayload
    <2>3. work' \in Text
      <3>1. AppendString(work, Taken(n)) \in Text
        BY <2>2, AppendText
      <3>2. QED
        BY <1>5, <3>1 DEF ReadPayload
    <2>4. payload' \in Text \cup {None} /\ (phase = "file" => payload' \in Text)
      <3>1. phase = "file" => payload \o Taken(n) \in Text
        BY <2>2, JoinText
      <3>2. QED
        BY <1>5, <3>1 DEF ReadPayload
    <2>5. left' \in Nat
      BY <1>5, <2>2 DEF ReadPayload
    <2>6. QED
      BY <1>5, <2>2, <2>3, <2>4, <2>5 DEF ReadPayload
  <1>6. QED
    BY <1>1, <1>2, <1>3, <1>4, <1>5

LEMMA WriteTypes ==
    ASSUME TypeOK, Places,
           \/ NoAnswer \/ WriteFails \/ WriteContent \/ FinishResponse
           \/ \E r \in Responses, close \in BOOLEAN : Answer(r, close)
           \/ \E n \in 1 .. left : WriteSome(n)
    PROVE  TypeOK' /\ Places'
  <1> USE DEF TypeOK, Places, Phases, clientVars, requestVars, payloadVars, writeVars
  <1>1. CASE NoAnswer
    BY <1>1 DEF NoAnswer
  <1>2. CASE WriteFails
    BY <1>2, EmptyText, TextLen DEF WriteFails
  <1>3. CASE WriteContent
    <2> DEFINE k == Least(Bulk - 1, Len(tail))
    <2>1. /\ SubSeq(tail, 1, k) \in Text /\ SubSeq(tail, k + 1, Len(tail)) \in Text
          /\ Len(SubSeq(tail, 1, k)) \in Nat
      BY ChunkText, TextLen
    <2>2. Len(tail) \in Nat
      BY TextLen
    <2>3. /\ piece' \in Text /\ tail' \in Text /\ left' = Len(piece') /\ left' \in Nat
          /\ UNCHANGED <<phase, response>>
      BY <1>3, <2>1, <2>2, EmptyText DEF WriteContent, AfterChunk, Write
    <2>4. QED
      BY <1>3, <2>3 DEF WriteContent
  <1>4. CASE FinishResponse
    <2>1. <<>> \in Seq(Text) /\ <<>> \in Text
      BY EmptyText, EmptySeq
    <2>2. phase' \in {"over", "line"}
      BY <1>4 DEF FinishResponse
    <2>3. /\ work' \in Text /\ chunk' \in Text /\ lines' \in Seq(Text)
          /\ load' = "none" /\ payload' = None /\ response' = None
          /\ piece' \in Text /\ out' \in Text
      BY <1>4, <2>1 DEF FinishResponse
    <2>4. short' \in BOOLEAN /\ closes' \in BOOLEAN /\ answered' \in Nat
      <3>1. short' = FALSE /\ closes' = FALSE /\ answered' = answered + 1
        BY <1>4 DEF FinishResponse
      <3>2. answered' \in Nat
        BY <3>1
      <3>3. QED
        BY ONLY <3>1, <3>2
    <2>5. UNCHANGED <<script, sent, whole, gone, inbox, failed, left, tail>>
      BY <1>4 DEF FinishResponse
    <2>6. QED
      BY <2>2, <2>3, <2>5, <2>4
  <1>5. ASSUME NEW r \in Responses, NEW close \in BOOLEAN, Answer(r, close)
        PROVE  TypeOK' /\ Places'
    <2>1. r.header \in Text /\ r.body \in Text /\ Len(r.header) \in Nat
      BY ResponseText, TextLen
    <2>2. /\ response' \in Responses /\ closes' \in BOOLEAN
          /\ piece' \in Text /\ left' \in Nat /\ left' = Len(piece')
          /\ tail' \in Text /\ out' \in Text /\ short' \in BOOLEAN
          /\ phase' = "write"
      BY <1>5, <2>1, EmptyText DEF Answer, Write
    <2>3. UNCHANGED <<script, sent, whole, gone, inbox, failed, work, chunk, lines, load, payload,
                      answered>>
      BY <1>5 DEF Answer
    <2>4. QED
      BY <2>2, <2>3
  <1>6. ASSUME NEW n \in 1 .. left, WriteSome(n) PROVE TypeOK' /\ Places'
    <2>1. n \in 0 .. Len(piece) /\ Len(piece) \in Nat
      BY <1>6, TextLen DEF WriteSome
    <2>2. out \o SubSeq(piece, 1, n) \in Text
      <3>1. piece \in Text /\ 1 \in Nat \ {0} /\ n \in 0 .. Len(piece)
        BY <2>1
      <3>2. SubSeq(piece, 1, n) \in Text
        BY ONLY <3>1, SubText
      <3>3. QED
        BY <3>2, JoinText
    <2>3. left - n \in Nat /\ left - n <= Len(piece)
      BY <1>6, <2>1 DEF WriteSome
    <2>4. QED
      BY <1>6, <2>2, <2>3 DEF WriteSome
  <1>7. QED
    BY <1>1, <1>2, <1>3, <1>4, <1>5, <1>6

\* The stages a response goes through when no write is short: what is out,
\* what is left of the string, and what comes after it.
LEMMA ChannelStep ==
    ASSUME NEW o \in Text, NEW p \in Text, NEW t \in Text, NEW n \in Nat, n <= Len(p)
    PROVE  /\ SubSeq(p, 1, n) \in Text /\ Len(SubSeq(p, 1, n)) = n
           /\ (o \o SubSeq(p, 1, n)) \o t = o \o (SubSeq(p, 1, n) \o t)
           /\ o \o SubSeq(p, 1, n) \in Text /\ Len(o \o SubSeq(p, 1, n)) = Len(o) + n
           /\ SubSeq(p, 1, n) \o t \in Text
           /\ o \o (SubSeq(p, 1, n) \o t) \in Text
  <1>1. Len(p) \in Nat /\ Len(o) \in Nat
    BY TextLen
  <1>2. 1 \in Nat \ {0} /\ n \in 0 .. Len(p)
    BY <1>1
  <1>3. SubSeq(p, 1, n) \in Text /\ Len(SubSeq(p, 1, n)) = IF 1 <= n THEN n - 1 + 1 ELSE 0
    BY ONLY <1>2, SubText
  <1>4. SubSeq(p, 1, n) \in Text /\ Len(SubSeq(p, 1, n)) = n
    BY <1>3
  <1>5. PICK q : q = SubSeq(p, 1, n)
    OBVIOUS
  <1>6. q \in Text /\ Len(q) = n
    BY <1>4, <1>5
  <1>7. /\ o \o q \in Text /\ Len(o \o q) = Len(o) + Len(q)
        /\ q \o t \in Text /\ (o \o q) \o t = o \o (q \o t)
    <2>1. o \o q \in Text /\ Len(o \o q) = Len(o) + Len(q)
      BY <1>6, JoinText
    <2>2. q \o t \in Text
      BY <1>6, JoinText
    <2>3. (o \o q) \o t = o \o (q \o t)
      BY <1>6, JoinThree
    <2>4. QED
      BY <2>1, <2>2, <2>3
  <1>8. o \o (q \o t) \in Text
    BY <1>7, JoinText
  <1>9. QED
    BY ONLY <1>5, <1>6, <1>7, <1>8

\* A text a text starts with starts it as well.
LEMMA PrefixOfJoin ==
    ASSUME NEW s \in Text, NEW t \in Text, NEW u \in Text, IsPrefix(s \o t, u)
    PROVE  IsPrefix(s, u)
  <1>1. s \o t \in Text /\ Len(s \o t) = Len(s) + Len(t)
    BY JoinText
  <1>2. \A i \in 1 .. Len(s) : (s \o t)[i] = s[i]
    BY JoinText, TextLen
  <1>3. Len(s) \in Nat /\ Len(t) \in Nat /\ Len(u) \in Nat
    BY TextLen
  <1>4. Len(s) + Len(t) <= Len(u) /\ \A i \in 1 .. Len(s) + Len(t) : (s \o t)[i] = u[i]
    BY <1>1, PrefixByPlaces
  <1>5. \A i \in 1 .. Len(s) : i \in 1 .. Len(s) + Len(t)
    BY <1>3
  <1>6. Len(s) <= Len(u) /\ \A i \in 1 .. Len(s) : s[i] = u[i]
    BY <1>2, <1>3, <1>4, <1>5
  <1>7. QED
    BY <1>6, PrefixByPlaces

LEMMA PrefixOfItself ==
    ASSUME NEW s \in Text PROVE IsPrefix(s, s)
  BY PrefixByPlaces, TextLen

LEMMA ChannelKept ==
    ASSUME TypeOK, Places, Channel, [Next]_vars
    PROVE  Channel'
  <1> USE DEF TypeOK, Places, Phases
  <1> DEFINE due == response.header \o response.body
             rest == SubSeq(piece, 1, left) \o tail
  <1>1. ASSUME NEW r \in Responses, NEW close \in BOOLEAN, Answer(r, close)
        PROVE  Channel'
    <2>1. /\ r.header \in Text /\ r.body \in Text
          /\ Len(r.header) \in Nat /\ Len(r.body) \in Nat
          /\ Len(r.header \o r.body) = Len(r.header) + Len(r.body)
          /\ r.header \o r.body \in Text
      BY ResponseText, TextLen, JoinText
    <2>2. /\ response' = r /\ piece' = r.header /\ left' = Len(r.header)
          /\ tail' = r.body /\ out' = <<>>
      BY <1>1 DEF Answer, Write
    <2>3. SubSeq(piece', 1, left') = r.header
      BY <2>1, <2>2, WholeText
    <2>4. out' \o (SubSeq(piece', 1, left') \o tail') = r.header \o r.body
      BY <2>1, <2>2, <2>3, JoinEmpty
    <2>5. Len(out') + left' + Len(tail') = Len(r.header \o r.body)
      BY <2>1, <2>2, EmptyText
    <2>6. response'.header = r.header /\ response'.body = r.body
      BY <2>2
    <2>7. IsPrefix(out' \o (SubSeq(piece', 1, left') \o tail'), response'.header \o response'.body)
      BY <2>1, <2>4, <2>6, PrefixOfItself
    <2>8. PICK d : d = r.header \o r.body
      OBVIOUS
    <2>9. Len(d) \in Nat /\ Len(out') + left' + Len(tail') = Len(d)
      BY <2>1, <2>5, <2>8, TextLen
    <2>10. Len(out') + left' + Len(tail') <= Len(d)
      BY <2>9
    <2>11. response'.header \o response'.body = d
      BY <2>6, <2>8
    <2>12. QED
      BY ONLY <2>7, <2>9, <2>10, <2>11 DEF Channel
  <1>2. ASSUME NEW n \in 1 .. left, WriteSome(n) PROVE Channel'
    <2>1. /\ phase = "write" /\ n <= left /\ n \in Nat /\ left <= Len(piece) /\ left \in Nat
          /\ out' = out \o SubSeq(piece, 1, n) /\ left' = left - n
          /\ short' = (short \/ n < left)
          /\ UNCHANGED <<phase, response, piece, tail, gone>>
      BY <1>2 DEF WriteSome, clientVars
    <2>2. Len(out') = Len(out) + n /\ Len(out) \in Nat /\ Len(tail) \in Nat /\ Len(piece) \in Nat
      BY <2>1, ChannelStep, TextLen
    <2>3. Len(out') + left' + Len(tail') = Len(out) + left + Len(tail)
      BY <2>1, <2>2
    <2>4. ASSUME ~short' PROVE IsPrefix(out' \o (SubSeq(piece', 1, left') \o tail'), due')
      <3>1. ~short /\ ~(n < left)
        BY <2>1, <2>4
      <3>2. ~short /\ n = left /\ left' = 0
        BY ONLY <2>1, <3>1
      <3>3. SubSeq(piece', 1, left') = <<>>
        BY <2>1, <3>2, NoText
      <3>4. SubSeq(piece', 1, left') \o tail' = tail
        BY <2>1, <3>3, JoinEmpty
      <3>5. out' \o tail = out \o rest
        BY <2>1, <3>2, ChannelStep
      <3>6. IsPrefix(out \o rest, due) /\ due' = due
        BY <2>1, <3>2 DEF Channel
      <3>7. QED
        BY <3>4, <3>5, <3>6
    <2>5. QED
      BY <2>1, <2>3, <2>4 DEF Channel
  <1>3. CASE WriteFails
    <2>1. /\ phase = "write" /\ gone' /\ left' = 0 /\ tail' = <<>>
          /\ UNCHANGED <<phase, response, piece, out, short>>
      BY <1>3 DEF WriteFails, clientVars
    <2>2. Len(out) \in Nat /\ Len(tail) \in Nat /\ left \in Nat /\ Len(<<>>) = 0
      BY TextLen, EmptyText
    <2>3. Len(out') + left' + Len(tail') <= Len(due')
      <3>1. Len(out) + left + Len(tail) <= Len(due)
        BY <2>1 DEF Channel
      <3>2. due \in Text /\ Len(due) \in Nat
        BY <2>1, ResponseText, JoinText, TextLen
      <3>3. PICK d : d = Len(due)
        OBVIOUS
      <3>4. Len(out) + left + Len(tail) <= d /\ d \in Nat
        BY <3>1, <3>2, <3>3
      <3>5. Len(out) + 0 + 0 <= d
        BY ONLY <2>2, <3>4
      <3>6. due' = due
        BY <2>1
      <3>7. QED
        BY ONLY <2>1, <2>2, <3>3, <3>5, <3>6
    <2>4. ASSUME ~short' PROVE IsPrefix(out' \o (SubSeq(piece', 1, left') \o tail'), due')
      <3>1. SubSeq(piece', 1, left') = <<>>
        BY <2>1, NoText
      <3>2. out' \o (SubSeq(piece', 1, left') \o tail') = out
        BY <2>1, <3>1, EmptyText, JoinEmpty
      <3>3. IsPrefix(out \o rest, due)
        BY <2>1, <2>4 DEF Channel
      <3>4. rest \in Text /\ due \in Text
        BY <2>1, ChannelStep, ResponseText, JoinText
      <3>5. IsPrefix(out, due)
        BY <3>3, <3>4, PrefixOfJoin
      <3>6. QED
        BY <2>1, <3>2, <3>5
    <2>5. QED
      BY <2>1, <2>3, <2>4 DEF Channel
  <1>4. CASE WriteContent
    <2> DEFINE k == Least(Bulk - 1, Len(tail))
    <2>1. /\ phase = "write" /\ left = 0
          /\ UNCHANGED <<phase, response, out, short, gone>>
      BY <1>4 DEF WriteContent, clientVars
    <2>2. /\ piece' \in Text /\ tail' \in Text /\ left' = Len(piece')
          /\ tail = piece' \o tail' /\ Len(tail) = Len(piece') + Len(tail')
      <3>1. CASE response.file
        <4>1. /\ SubSeq(tail, 1, k) \in Text /\ Len(SubSeq(tail, 1, k)) = k
              /\ SubSeq(tail, k + 1, Len(tail)) \in Text
              /\ Len(SubSeq(tail, k + 1, Len(tail))) = Len(tail) - k
              /\ k \in 0 .. Len(tail)
              /\ tail = SubSeq(tail, 1, k) \o SubSeq(tail, k + 1, Len(tail))
          BY ChunkText
        <4>2. piece' = SubSeq(tail, 1, k) /\ tail' = SubSeq(tail, k + 1, Len(tail)) /\ left' = Len(piece')
          BY <1>4, <3>1 DEF WriteContent, AfterChunk, Write
        <4>3. Len(tail) \in Nat
          BY TextLen
        <4>4. QED
          <5>1. Len(piece') = k /\ Len(tail') = Len(tail) - k
            BY ONLY <4>1, <4>2
          <5>2. Len(tail) = Len(piece') + Len(tail')
            BY ONLY <4>1, <4>3, <5>1
          <5>3. piece' \in Text /\ tail' \in Text /\ tail = piece' \o tail'
            BY ONLY <4>1, <4>2
          <5>4. QED
            BY <4>2, <5>2, <5>3
      <3>2. CASE ~response.file
        <4>1. piece' = tail /\ tail' = <<>> /\ left' = Len(piece')
          BY <1>4, <3>2 DEF WriteContent, Write
        <4>2. QED
          BY <4>1, EmptyText, JoinEmpty, TextLen
      <3>3. QED
        BY <3>1, <3>2
    <2>3. SubSeq(piece', 1, left') \o tail' = tail
      BY <2>2, WholeText
    <2>4. SubSeq(piece, 1, left) \o tail = tail
      <3>1. SubSeq(piece, 1, left) = <<>>
        BY <2>1, NoText
      <3>2. QED
        BY <3>1, JoinEmpty
    <2>5. Len(out) + left' + Len(tail') = Len(out) + left + Len(tail)
      BY <2>1, <2>2, TextLen
    <2>6. QED
      BY <2>1, <2>3, <2>4, <2>5 DEF Channel
  <1>5. CASE Client
    <2>1. UNCHANGED <<phase, writeVars, left>> /\ (~gone' => ~gone)
      BY <1>5 DEF Client, ClientSends, ClientLeaves
    <2>2. QED
      BY <2>1 DEF Channel, writeVars
  <1>6. CASE FinishResponse \/ NoAnswer
    BY <1>6 DEF FinishResponse, NoAnswer, Channel
  <1>7. CASE TakeLine \/ ReadLineEnds \/ ReadLineFails
    BY <1>7 DEF TakeLine, ReadLineEnds, ReadLineFails, HeaderEnds, Channel
  <1>8. CASE LoadString \/ LoadFile \/ PayloadLoaded \/ PayloadFails
    BY <1>8 DEF LoadString, LoadFile, PayloadLoaded, PayloadFails, LoadEnds, Channel
  <1>9. CASE \E n \in 1 .. Bulk : ReadChunk(n) \/ ReadPayload(n)
    BY <1>9 DEF ReadChunk, ReadPayload, Channel
  <1>10. CASE UNCHANGED vars
    BY <1>10 DEF Channel, vars, clientVars, writeVars
  <1>11. QED
    BY <1>1, <1>2, <1>3, <1>4, <1>5, <1>6, <1>7, <1>8, <1>9, <1>10
    DEF Next, Server, Reads, Routes, Writes, Fails

LEMMA TypesKept ==
    ASSUME TypeOK, Places, [Next]_vars PROVE TypeOK' /\ Places'
  <1>1. CASE UNCHANGED vars
    BY <1>1 DEF TypeOK, Places, vars, clientVars, requestVars, payloadVars, writeVars
  <1>2. CASE Next
    BY <1>2, ClientTypes, HeaderTypes, LoadsTypes, WriteTypes
    DEF Next, Server, Reads, Routes, Writes, Fails
  <1>3. QED
    BY <1>1, <1>2

LEMMA InitInvariant ==
    ASSUME Init PROVE TypeOK /\ Places /\ Channel
  <1>1. script \in Seq(Request) /\ Len(script) \in Nat
    BY LenProperties DEF Init
  <1>2. <<>> \in Text /\ <<>> \in Seq(Text)
    BY EmptyText, EmptySeq
  <1>3. sent \in 0 .. Len(script) /\ answered \in Nat /\ left \in Nat
    BY <1>1 DEF Init
  <1>4. QED
    BY <1>2, <1>3 DEF Init, TypeOK, Places, Channel, Phases

LEMMA Invariance == Spec => [](TypeOK /\ Places /\ Channel)
  <1>1. Init => TypeOK /\ Places /\ Channel
    BY InitInvariant
  <1>2. TypeOK /\ Places /\ Channel /\ [Next]_vars => (TypeOK /\ Places /\ Channel)'
    BY TypesKept, ChannelKept
  <1>3. QED
    BY <1>1, <1>2, PTL DEF Spec

\* Every variable keeps its type, whatever clients send and however reads and
\* writes cut it (hs_io.c, hs_parser.c, hs_types.c).
THEOREM TypeCorrect == Spec => []TypeOK
  BY Invariance, PTL

\* The number of characters written is that of the response, and what was
\* written before a short write starts the response: the header, then the
\* content, a file chunk after chunk (hs_io.c:175-252, hs_router.c:464-479).
THEOREM ResponseAsWrittenHolds == Spec => []ResponseAsWritten
  <1>1. ASSUME TypeOK, Places, Channel, phase = "write" PROVE ResponseAsWritten
    <2> DEFINE due == response.header \o response.body
               rest == SubSeq(piece, 1, left) \o tail
    <2>1. /\ out \in Text /\ tail \in Text /\ piece \in Text /\ left \in Nat /\ left <= Len(piece)
          /\ due \in Text /\ rest \in Text
      <3>1. response \in Responses /\ left <= Len(piece)
        BY <1>1 DEF Places
      <3>2. out \in Text /\ tail \in Text /\ piece \in Text /\ left \in Nat
        BY <1>1 DEF TypeOK
      <3>3. due \in Text
        BY <3>1, ResponseText, JoinText
      <3>4. rest \in Text
        BY <3>1, <3>2, ChannelStep
      <3>5. QED
        BY <3>1, <3>2, <3>3, <3>4
    <2>2. /\ Len(out) + left + Len(tail) <= Len(due)
          /\ ~gone => Len(out) + left + Len(tail) = Len(due)
          /\ ~short => IsPrefix(out \o rest, due)
      BY <1>1 DEF Channel
    <2>3. Len(out) \in Nat /\ Len(tail) \in Nat /\ Len(due) \in Nat /\ Len(<<>>) = 0
      BY <2>1, TextLen, EmptyText
    <2> HIDE DEF due, rest
    <2>4. Len(out) <= Len(due)
      BY <2>1, <2>2, <2>3
    <2>5. ~short => IsPrefix(out, due)
      BY <2>1, <2>2, PrefixOfJoin
    <2>6. left = 0 /\ tail = <<>> /\ ~gone => Len(out) = Len(due)
      BY <2>1, <2>2, <2>3
    <2>7. QED
      BY <2>4, <2>5, <2>6 DEF ResponseAsWritten, due
  <1>2. phase # "write" => ResponseAsWritten
    BY DEF ResponseAsWritten
  <1>3. TypeOK /\ Places /\ Channel => ResponseAsWritten
    BY <1>1, <1>2
  <1>4. QED
    BY <1>3, Invariance, PTL

=============================================================================
