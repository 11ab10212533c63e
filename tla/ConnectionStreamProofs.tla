------------------------ MODULE ConnectionStreamProofs ------------------------
(***************************************************************************)
(* Proofs about Connection: the lines of a request, its payload and where  *)
(* the next request starts, for every client that frames its requests,     *)
(* every way reads cut what it sends, and every size of a read.            *)
(***************************************************************************)
EXTENDS ConnectionProofs

USE CharsAssumption, BulkAssumption, ScriptsAssumption, ResponsesAssumption, NoneAssumption

\* The hypothesis of the theorems about requests: no header line is empty or
\* has an end of line or a NUL in it, and the length a header gives is that of
\* the body.
Framed(r) ==
    /\ \A m \in 1 .. Len(r.lines) :
          /\ r.lines[m] # <<>> /\ ~HasLine(r.lines[m])
          /\ \A i \in 1 .. Len(r.lines[m]) : r.lines[m][i] # NUL
    /\ LengthOf(r.lines) = Len(r.body)

FramedScripts == \A s \in Scripts : \A i \in 1 .. Len(s) : Framed(s[i])

\* No body has a NUL in it.
PlainScripts == \A s \in Scripts : \A m \in 1 .. Len(s) :
                   \A i \in 1 .. Len(s[m].body) : s[m].body[i] # NUL

\* A request is with the routes, or its answer is written.
Busy == phase \in {"route", "string", "file", "write"}

\* A client sends when the request before is answered; nothing is loaded
\* before the header is read.
InTurn ==
    /\ phase = "line" => sent \in {answered, answered + 1} /\ load = "none"
    /\ Busy => sent = answered + 1

\* Nothing is there of a request that was not sent.
Between == phase = "line" /\ sent = answered => lines = <<>> /\ work = <<>> /\ inbox = <<>>

\* The lines read are the first of those sent, and the characters read and to
\* be read are what is left of the header and then some of the body.
Partly(r, ls, stream) ==
    LET head == Heads(r)[Len(ls)]
    IN  /\ Len(ls) <= Len(r.lines)
        /\ \A i \in 1 .. Len(ls) : ls[i] = r.lines[i]
        /\ Len(stream) <= Len(head) + Len(r.body)
        /\ \A i \in 1 .. Len(stream) : i <= Len(head) => stream[i] = head[i]

InHeader ==
    phase = "line" /\ sent = answered + 1 =>
        /\ Partly(Current, lines, work \o inbox)
        /\ whole => Len(Heads(Current)[Len(lines)]) <= Len(work \o inbox)

\* No more is to be read than the loops of the payload will read; a route that
\* read it left nothing.
AfterHeader ==
    Busy =>
        /\ IsPrefix(lines, Current.lines) /\ (whole => lines = Current.lines)
        /\ phase \in {"string", "file"} => load # "none" /\ Len(inbox) <= left
        /\ phase \in {"route", "write"} =>
              \/ inbox = <<>>
              \/ load = "none" /\ lines = Current.lines
                 /\ Len(work) + Len(inbox) <= Len(Current.body)

StreamInv == ~failed => InTurn /\ Between /\ InHeader /\ AfterHeader

\* A request that was sent whole is in the buffers whole, and its payload where
\* the route put it.
PayloadInv ==
    ~failed /\ whole =>
        /\ phase = "line" /\ sent = answered + 1 =>
              work \o inbox = Heads(Current)[Len(lines)] \o Current.body
        /\ Busy /\ load = "none" => work \o inbox = Current.body
        /\ phase = "string" => load = "string" /\ work \o inbox = Current.body /\ left = Len(inbox)
        /\ phase = "file" => load = "file" /\ payload \o inbox = Current.body /\ left = Len(inbox)
        /\ phase \in {"route", "write"} =>
              /\ load = "string" => payload = Current.body
              /\ load = "file" /\ Current.body # <<>> => payload = Current.body

-----------------------------------------------------------------------------
\* What is read is what was sent: the lines of a request.

LEMMA LineAndRest ==
    ASSUME NEW line \in Text, NEW rest \in Text
    PROVE  LET h == Joined(line, rest)
           IN
           /\ h \in Text /\ Len(line) \in Nat /\ Len(rest) \in Nat
           /\ Len(h) = Len(line) + 2 + Len(rest)
           /\ \A i \in 1 .. Len(line) : h[i] = line[i]
           /\ h[Len(line) + 1] = CR /\ h[Len(line) + 2] = LF
           /\ \A k \in 1 .. Len(rest) : h[k + (Len(line) + 2)] = rest[k]
  <1> DEFINE h == Joined(line, rest)
  <1>1. CRLF \in Text /\ Len(CRLF) = 2 /\ CRLF[1] = CR /\ CRLF[2] = LF
    BY LineEndText
  <1>2. Len(line) \in Nat /\ Len(rest) \in Nat
    BY TextLen
  <1>3. PICK first : first = line \o CRLF
    OBVIOUS
  <1>4. /\ first \in Text /\ Len(first) = Len(line) + 2
        /\ \A i \in 1 .. Len(line) + 2 :
              first[i] = IF i <= Len(line) THEN line[i] ELSE CRLF[i - Len(line)]
    <2>1. /\ first \in Text /\ Len(first) = Len(line) + Len(CRLF)
          /\ \A i \in 1 .. Len(line) + Len(CRLF) :
                first[i] = IF i <= Len(line) THEN line[i] ELSE CRLF[i - Len(line)]
      BY <1>1, <1>3, JoinText
    <2>2. QED
      BY ONLY <1>1, <2>1
  <1>5. /\ h \in Text /\ Len(h) = Len(first) + Len(rest)
        /\ \A i \in 1 .. Len(first) + Len(rest) :
              h[i] = IF i <= Len(first) THEN first[i] ELSE rest[i - Len(first)]
    <2>1. h = first \o rest
      BY <1>3 DEF Joined
    <2>2. rest \in Text /\ first \in Text
      BY <1>4
    <2>3. /\ first \o rest \in Text /\ Len(first \o rest) = Len(first) + Len(rest)
          /\ \A i \in 1 .. Len(first) + Len(rest) :
                (first \o rest)[i] = IF i <= Len(first) THEN first[i] ELSE rest[i - Len(first)]
      BY ONLY <2>2, JoinText
    <2>4. QED
      BY ONLY <2>1, <2>3
  <1> HIDE DEF h
  <1>6. \A i \in 1 .. Len(line) : h[i] = line[i]
    BY ONLY <1>2, <1>4, <1>5
  <1>7. h[Len(line) + 1] = CR /\ h[Len(line) + 2] = LF
    <2>1. h[Len(line) + 1] = CRLF[1]
      <3>1. Len(line) + 1 \in 1 .. Len(line) + 2 /\ ~(Len(line) + 1 <= Len(line))
            /\ (Len(line) + 1) - Len(line) = 1
            /\ Len(line) + 1 \in 1 .. Len(first) + Len(rest) /\ Len(line) + 1 <= Len(first)
        BY ONLY <1>2, <1>4
      <3>2. QED
        BY ONLY <1>4, <1>5, <3>1
    <2>2. h[Len(line) + 2] = CRLF[2]
      <3>1. Len(line) + 2 \in 1 .. Len(line) + 2 /\ ~(Len(line) + 2 <= Len(line))
            /\ (Len(line) + 2) - Len(line) = 2
            /\ Len(line) + 2 \in 1 .. Len(first) + Len(rest) /\ Len(line) + 2 <= Len(first)
        BY ONLY <1>2, <1>4
      <3>2. QED
        BY ONLY <1>4, <1>5, <3>1
    <2>3. QED
      BY <1>1, <2>1, <2>2
  <1>8. ASSUME NEW k \in 1 .. Len(rest) PROVE h[k + (Len(line) + 2)] = rest[k]
    <2>1. /\ k + (Len(line) + 2) \in 1 .. Len(first) + Len(rest)
          /\ ~(k + (Len(line) + 2) <= Len(first))
          /\ (k + (Len(line) + 2)) - Len(first) = k
      BY ONLY <1>2, <1>4
    <2>2. QED
      BY ONLY <1>5, <2>1
  <1>9. QED
    BY <1>2, <1>4, <1>5, <1>6, <1>7, <1>8 DEF h

\* The first line of a buffer that starts with a line is this line.
LEMMA FirstLine ==
    ASSUME NEW w \in Text, NEW line \in Text, NEW rest \in Text, NEW h,
           h = Joined(line, rest), ~HasLine(line), HasLine(w),
           \A i \in 1 .. Len(w) : i <= Len(h) => w[i] = h[i]
    PROVE  /\ FirstLineEnd(w) = Len(line) + 1 /\ Len(line) + 2 <= Len(w)
           /\ SubSeq(w, 1, FirstLineEnd(w) - 1) = line
  <1> DEFINE l == Len(line)
             i == FirstLineEnd(w)
  <1>1. /\ l \in Nat /\ Len(w) \in Nat /\ Len(h) \in Nat /\ l + 2 <= Len(h)
        /\ \A k \in 1 .. l : h[k] = line[k]
        /\ h[l + 1] = CR /\ h[l + 2] = LF
    <2>1. /\ h \in Text /\ Len(line) \in Nat /\ Len(rest) \in Nat
          /\ Len(h) = Len(line) + 2 + Len(rest)
          /\ \A k \in 1 .. Len(line) : h[k] = line[k]
          /\ h[Len(line) + 1] = CR /\ h[Len(line) + 2] = LF
      <3>1. PICK j : j = Joined(line, rest)
        OBVIOUS
      <3>2. /\ j \in Text /\ Len(line) \in Nat /\ Len(rest) \in Nat
            /\ Len(j) = Len(line) + 2 + Len(rest)
            /\ \A k \in 1 .. Len(line) : j[k] = line[k]
            /\ j[Len(line) + 1] = CR /\ j[Len(line) + 2] = LF
        BY <3>1, LineAndRest
      <3>3. h = j
        BY <3>1
      <3>4. QED
        BY ONLY <3>2, <3>3
    <2>2. Len(w) \in Nat
      BY TextLen
    <2>3. QED
      BY <2>1, <2>2
  <1>2. /\ i \in 1 .. Len(w) - 1 /\ w[i] = CR /\ w[i + 1] = LF
        /\ \A j \in LineEnds(w) : i <= j
    BY FirstLineEndIs DEF LineEnds
  <1>3. \A k \in 1 .. l - 1 : ~(line[k] = CR /\ line[k + 1] = LF)
    BY DEF HasLine, LineEnds
  <1> HIDE DEF i, l
  <1>4. i <= l + 1
    <2>1. CASE l + 2 <= Len(w)
      <3>1. l + 1 \in 1 .. Len(w) - 1 /\ w[l + 1] = h[l + 1] /\ w[l + 2] = h[l + 2]
        <4>1. l + 1 \in 1 .. Len(w) /\ l + 2 \in 1 .. Len(w) /\ l + 1 <= Len(h)
              /\ l + 1 \in 1 .. Len(w) - 1
          BY <1>1, <2>1
        <4>2. QED
          BY <1>1, <4>1
      <3>2. l + 1 \in LineEnds(w)
        <4>1. (l + 1) + 1 = l + 2
          BY <1>1
        <4>2. QED
          BY <1>1, <3>1, <4>1 DEF LineEnds
      <3>3. QED
        BY <1>2, <3>2
    <2>2. CASE ~(l + 2 <= Len(w))
      BY <1>1, <1>2, <2>2
    <2>3. QED
      BY <2>1, <2>2
  <1>5. ~(i <= l)
    <2>1. ASSUME i <= l PROVE FALSE
      <3>1. i \in 1 .. Len(w) /\ i + 1 \in 1 .. Len(w) /\ i <= Len(h) /\ i + 1 <= Len(h) /\ i \in 1 .. l
        BY <1>1, <1>2, <2>1
      <3>2. h[i] = CR /\ h[i + 1] = LF /\ line[i] = CR
        BY <1>1, <1>2, <3>1
      <3>3. CASE i = l
        BY <1>1, <3>2, <3>3
      <3>4. CASE i # l
        <4>1. i \in 1 .. l - 1 /\ i + 1 \in 1 .. l
          BY <1>1, <3>1, <3>4
        <4>2. QED
          BY <1>1, <1>3, <3>2, <4>1
      <3>5. QED
        BY <3>3, <3>4
    <2>2. QED
      BY <2>1
  <1>6. i = l + 1
    BY <1>1, <1>2, <1>4, <1>5
  <1>7. l + 2 <= Len(w)
    BY <1>1, <1>2, <1>6
  <1>8. SubSeq(w, 1, i - 1) = line
    <2>1. /\ SubSeq(w, 1, i - 1) \in Text
          /\ Len(SubSeq(w, 1, i - 1)) = i - 1
          /\ \A k \in 1 .. i - 1 : SubSeq(w, 1, i - 1)[k] = w[k]
      BY <1>2, LineText
    <2>2. i - 1 = l
      BY <1>1, <1>6
    <2>3. \A k \in 1 .. l : SubSeq(w, 1, i - 1)[k] = line[k]
      <3>1. \A k \in 1 .. l : k \in 1 .. Len(w) /\ k <= Len(h)
        BY <1>1, <1>7
      <3>2. QED
        BY <1>1, <2>1, <2>2, <3>1
    <2>4. Len(SubSeq(w, 1, i - 1)) = l /\ l = Len(line)
      BY <2>1, <2>2 DEF l
    <2>5. QED
      BY <2>1, <2>3, <2>4, SameText
  <1>9. QED
    BY <1>6, <1>7, <1>8 DEF i, l

\* A buffer that has no line is shorter than a header.
LEMMA NoLineYet ==
    ASSUME NEW w \in Text, NEW line \in Text, NEW rest \in Text, NEW h,
           h = Joined(line, rest), ~HasLine(w),
           \A i \in 1 .. Len(w) : i <= Len(h) => w[i] = h[i]
    PROVE  Len(w) < Len(h)
  <1> DEFINE l == Len(line)
  <1>1. /\ l \in Nat /\ Len(w) \in Nat /\ Len(h) \in Nat /\ l + 2 <= Len(h)
        /\ h[l + 1] = CR /\ h[l + 2] = LF
    <2>1. /\ h \in Text /\ Len(line) \in Nat /\ Len(rest) \in Nat
          /\ Len(h) = Len(line) + 2 + Len(rest)
          /\ \A i \in 1 .. Len(line) : h[i] = line[i]
          /\ h[Len(line) + 1] = CR /\ h[Len(line) + 2] = LF
      <3>1. PICK j : j = Joined(line, rest)
        OBVIOUS
      <3>2. /\ j \in Text /\ Len(line) \in Nat /\ Len(rest) \in Nat
            /\ Len(j) = Len(line) + 2 + Len(rest)
            /\ \A k \in 1 .. Len(line) : j[k] = line[k]
            /\ j[Len(line) + 1] = CR /\ j[Len(line) + 2] = LF
        BY <3>1, LineAndRest
      <3>3. h = j
        BY <3>1
      <3>4. QED
        BY ONLY <3>2, <3>3
    <2>2. Len(w) \in Nat
      BY TextLen
    <2>3. QED
      BY <2>1, <2>2
  <1> HIDE DEF l
  <1>2. ASSUME Len(h) <= Len(w) PROVE FALSE
    <2>1. /\ l + 1 \in 1 .. Len(w) /\ l + 2 \in 1 .. Len(w) /\ l + 1 <= Len(h)
          /\ l + 1 \in 1 .. Len(w) - 1 /\ (l + 1) + 1 = l + 2
      BY <1>1, <1>2
    <2>2. w[l + 1] = CR /\ w[(l + 1) + 1] = LF
      BY <1>1, <2>1
    <2>3. l + 1 \in LineEnds(w)
      BY <2>1, <2>2 DEF LineEnds
    <2>4. QED
      BY <2>3 DEF HasLine
  <1>3. QED
    BY <1>1, <1>2

LEMMA HeadText ==
    ASSUME NEW r \in Request, NEW m \in 0 .. Len(r.lines)
    PROVE  /\ Heads(r)[m] \in Text
           /\ Wire(r) = Heads(r)[0] \o r.body
  BY WireShape DEF IsHeads

\* What is left of a header is the next line and what comes after it, or the
\* empty line.
LEMMA HeadLine ==
    ASSUME NEW r \in Request, Framed(r), NEW m \in 0 .. Len(r.lines)
    PROVE  \E line, rest \in Text :
              /\ Heads(r)[m] = Joined(line, rest) /\ ~HasLine(line)
              /\ \A i \in 1 .. Len(line) : line[i] # NUL
              /\ m < Len(r.lines) => /\ m + 1 \in 1 .. Len(r.lines) /\ m + 1 \in 0 .. Len(r.lines)
                                    /\ line = r.lines[m + 1] /\ line # <<>> /\ rest = Heads(r)[m + 1]
              /\ m = Len(r.lines) => line = <<>> /\ rest = <<>>
  <1>1. Len(r.lines) \in Nat /\ \A i \in 1 .. Len(r.lines) : r.lines[i] \in Text
    BY RequestText
  <1>2. CASE m < Len(r.lines)
    <2>1. m + 1 \in 1 .. Len(r.lines) /\ m + 1 \in 0 .. Len(r.lines) /\ m \in 0 .. Len(r.lines) - 1
          /\ m # Len(r.lines)
      BY <1>1, <1>2
    <2>2. PICK line \in Text : line = r.lines[m + 1]
      BY <1>1, <2>1
    <2>3. PICK rest \in Text : rest = Heads(r)[m + 1]
      BY <2>1, HeadText
    <2>4. Heads(r)[m] = Joined(line, rest)
      BY <2>1, <2>2, <2>3, WireShape DEF IsHeads
    <2>5. line # <<>> /\ ~HasLine(line) /\ \A i \in 1 .. Len(line) : line[i] # NUL
      BY <2>1, <2>2 DEF Framed
    <2>6. QED
      BY ONLY <2>1, <2>2, <2>3, <2>4, <2>5
  <1>3. CASE m = Len(r.lines)
    <2>1. Heads(r)[m] = CRLF
      BY <1>3, WireShape DEF IsHeads
    <2>2. PICK line \in Text : line = <<>>
      BY EmptyText
    <2>3. <<>> \o CRLF = CRLF /\ CRLF \o <<>> = CRLF
      BY LineEndText, JoinEmpty
    <2>4. Joined(line, line) = CRLF
      BY ONLY <2>2, <2>3 DEF Joined
    <2>5. Len(line) = 0 /\ ~(m < Len(r.lines))
      BY <1>1, <1>3, <2>2, EmptyText
    <2>6. ~HasLine(line) /\ \A i \in 1 .. Len(line) : line[i] # NUL
      BY <2>5 DEF HasLine, LineEnds
    <2>7. QED
      BY ONLY <1>3, <2>1, <2>2, <2>4, <2>5, <2>6
  <1>4. QED
    BY <1>1, <1>2, <1>3

\* No header has a NUL in it.
LEMMA HeadPlain ==
    ASSUME NEW r \in Request, Framed(r)
    PROVE  \A m \in 0 .. Len(r.lines) : \A i \in 1 .. Len(Heads(r)[m]) : Heads(r)[m][i] # NUL
  <1> DEFINE n == Len(r.lines)
             bad == {m \in 0 .. n : \E i \in 1 .. Len(Heads(r)[m]) : Heads(r)[m][i] = NUL}
  <1>1. n \in Nat
    BY RequestText
  <1>2. ASSUME bad # {} PROVE FALSE
    <2>1. PICK m \in bad : \A j \in bad : j <= m
      <3>1. bad \in SUBSET (0 .. n)
        OBVIOUS
      <3>2. QED
        BY ONLY <1>1, <1>2, <3>1, HasMax
    <2>2. PICK i \in 1 .. Len(Heads(r)[m]) : Heads(r)[m][i] = NUL
      OBVIOUS
    <2>3. m \in 0 .. n
      OBVIOUS
    <2>4. PICK line \in Text, rest \in Text :
              /\ Heads(r)[m] = Joined(line, rest)
              /\ \A j \in 1 .. Len(line) : line[j] # NUL
              /\ m < n => m + 1 \in 0 .. n /\ rest = Heads(r)[m + 1]
              /\ m = n => rest = <<>>
      BY <2>3, HeadLine
    <2>5. PICK h : h = Joined(line, rest)
      OBVIOUS
    <2>6. /\ Len(line) \in Nat /\ Len(rest) \in Nat
          /\ Len(h) = Len(line) + 2 + Len(rest)
          /\ \A j \in 1 .. Len(line) : h[j] = line[j]
          /\ h[Len(line) + 1] = CR /\ h[Len(line) + 2] = LF
          /\ \A k \in 1 .. Len(rest) : h[k + (Len(line) + 2)] = rest[k]
      BY <2>5, LineAndRest
    <2>7. i \in 1 .. Len(h) /\ h[i] = NUL
      BY <2>2, <2>4, <2>5
    <2>8. i - (Len(line) + 2) \in 1 .. Len(rest) /\ rest[i - (Len(line) + 2)] = NUL
      <3>1. i \notin 1 .. Len(line)
        BY <2>4, <2>6, <2>7
      <3>2. i # Len(line) + 1 /\ i # Len(line) + 2
        BY <2>6, <2>7
      <3>3. i - (Len(line) + 2) \in 1 .. Len(rest) /\ (i - (Len(line) + 2)) + (Len(line) + 2) = i
        <4>1. /\ Len(line) \in Nat /\ Len(rest) \in Nat /\ Len(h) = Len(line) + 2 + Len(rest)
              /\ i \in 1 .. Len(h)
          BY <2>6, <2>7
        <4>2. QED
          BY ONLY <3>1, <3>2, <4>1
      <3>4. QED
        BY <2>6, <2>7, <3>3
    <2>9. m < n
      BY <1>1, <2>3, <2>4, <2>8, EmptyText
    <2>10. m + 1 \in bad
      BY <2>4, <2>8, <2>9
    <2>11. QED
      BY <1>1, <2>1, <2>3, <2>10
  <1>3. QED
    BY <1>2

LEMMA PartlyStart ==
    ASSUME NEW r \in Request, NEW k \in 1 .. Len(Wire(r))
    PROVE  /\ Partly(r, <<>>, SubSeq(Wire(r), 1, k))
           /\ SubSeq(Wire(r), 1, k) \in Text
           /\ k = Len(Wire(r)) => Len(Heads(r)[0]) <= Len(SubSeq(Wire(r), 1, k))
  <1>1. PICK h : h = Heads(r)[0]
    OBVIOUS
  <1>2. /\ 0 \in 0 .. Len(r.lines) /\ r.body \in Text /\ Wire(r) \in Text /\ Len(Wire(r)) \in Nat
        /\ Len(r.lines) \in Nat /\ Len(<<>>) = 0
    BY RequestText, WireText, EmptyText
  <1>3. h \in Text /\ Wire(r) = h \o r.body
    BY <1>1, <1>2, HeadText
  <1>4. /\ Len(h \o r.body) = Len(h) + Len(r.body) /\ Len(h) \in Nat /\ Len(r.body) \in Nat
        /\ \A i \in 1 .. Len(h) + Len(r.body) :
              (h \o r.body)[i] = IF i <= Len(h) THEN h[i] ELSE r.body[i - Len(h)]
    BY <1>2, <1>3, JoinText, TextLen
  <1>5. PICK w : w = Wire(r)
    OBVIOUS
  <1>6. /\ Len(w) = Len(h) + Len(r.body)
        /\ \A i \in 1 .. Len(w) : i <= Len(h) => w[i] = h[i]
    BY ONLY <1>3, <1>4, <1>5
  <1>7. PICK s : s = SubSeq(w, 1, k)
    OBVIOUS
  <1>8. s \in Text /\ Len(s) = k /\ \A i \in 1 .. k : s[i] = w[i]
    <2>1. w \in Text /\ 1 \in Nat \ {0} /\ k \in 0 .. Len(w) /\ k \in 1 .. Len(w)
      BY <1>2, <1>5
    <2>2. /\ SubSeq(w, 1, k) \in Text
          /\ Len(SubSeq(w, 1, k)) = IF 1 <= k THEN k - 1 + 1 ELSE 0
          /\ \A i \in 1 .. k - 1 + 1 : SubSeq(w, 1, k)[i] = w[i + 1 - 1]
      BY ONLY <2>1, SubText
    <2>3. QED
      BY <1>2, <1>7, <2>1, <2>2
  <1>9. \A i \in 1 .. Len(s) : i <= Len(h) => s[i] = h[i]
    BY <1>2, <1>4, <1>5, <1>6, <1>8
  <1>10. Len(s) <= Len(h) + Len(r.body) /\ (k = Len(w) => Len(h) <= Len(s))
    BY <1>2, <1>4, <1>5, <1>6, <1>8
  <1>11. Partly(r, <<>>, s)
    <2>1. Heads(r)[Len(<<>>)] = h /\ Len(<<>>) <= Len(r.lines)
      BY <1>1, <1>2
    <2>2. \A i \in 1 .. Len(<<>>) : <<>>[i] = r.lines[i]
      BY <1>2
    <2>3. QED
      BY ONLY <1>9, <1>10, <2>1, <2>2 DEF Partly
  <1>12. QED
    BY <1>1, <1>5, <1>7, <1>8, <1>10, <1>11

\* What a read that cuts its characters at a NUL adds to the buffer is still
\* what was sent, for as long as the header goes on.
LEMMA PartlyRead ==
    ASSUME NEW r \in Request, Framed(r), NEW ls \in Seq(Text),
           NEW w \in Text, NEW t \in Text, NEW u \in Text,
           Partly(r, ls, w \o (t \o u))
    PROVE  /\ Partly(r, ls, AppendString(w, t) \o u)
           /\ Len(Heads(r)[Len(ls)]) <= Len(w \o (t \o u))
                => Len(Heads(r)[Len(ls)]) <= Len(AppendString(w, t) \o u)
  <1>1. PICK h : h = Heads(r)[Len(ls)]
    OBVIOUS
  <1>2. Len(ls) \in 0 .. Len(r.lines)
    <2>1. Len(ls) <= Len(r.lines)
      BY DEF Partly
    <2>2. QED
      BY <2>1, RequestText, LenProperties
  <1>3. h \in Text /\ Len(h) \in Nat /\ Len(r.body) \in Nat
    BY <1>1, <1>2, HeadText, RequestText, TextLen
  <1>4. \A i \in 1 .. Len(h) : h[i] # NUL
    BY <1>1, <1>2, HeadPlain
  <1>5. PICK c : c = CString(t)
    OBVIOUS
  <1>6. /\ c \in Text /\ Len(c) <= Len(t) /\ \A i \in 1 .. Len(c) : c[i] = t[i]
        /\ c = t \/ (Len(c) < Len(t) /\ t[Len(c) + 1] = NUL)
    BY <1>5, CStringText
  <1>7. AppendString(w, t) = w \o c
    BY <1>5 DEF AppendString
  <1>8. CASE c = t
    <2>1. (w \o t) \o u = w \o (t \o u)
      BY JoinThree
    <2>2. AppendString(w, t) \o u = w \o (t \o u)
      BY <1>7, <1>8, <2>1
    <2>3. QED
      BY <2>2
  <1>9. CASE c # t
    <2>1. Len(c) < Len(t) /\ t[Len(c) + 1] = NUL
      BY <1>6, <1>9
    <2>2. PICK s : s = w \o (t \o u)
      OBVIOUS
    <2>3. PICK v : v = (w \o c) \o u
      OBVIOUS
    <2>4. Len(w) \in Nat /\ Len(t) \in Nat /\ Len(u) \in Nat /\ Len(c) \in Nat
      BY <1>6, TextLen
    <2>5. /\ Len(s) = Len(w) + Len(t) + Len(u)
          /\ \A i \in 1 .. Len(w) : s[i] = w[i]
          /\ \A i \in 1 .. Len(t) : s[i + Len(w)] = t[i]
      <3>1. PICK a : a = t \o u
        OBVIOUS
      <3>2. /\ a \in Text /\ Len(a) = Len(t) + Len(u)
            /\ \A i \in 1 .. Len(t) + Len(u) : a[i] = IF i <= Len(t) THEN t[i] ELSE u[i - Len(t)]
        BY <3>1, JoinText
      <3>3. /\ Len(w \o a) = Len(w) + Len(a)
            /\ \A i \in 1 .. Len(w) + Len(a) : (w \o a)[i] = IF i <= Len(w) THEN w[i] ELSE a[i - Len(w)]
        BY <3>2, JoinText
      <3>4. s = w \o a
        BY <2>2, <3>1
      <3>5. /\ Len(s) = Len(w) + Len(a)
            /\ \A i \in 1 .. Len(w) + Len(a) : s[i] = IF i <= Len(w) THEN w[i] ELSE a[i - Len(w)]
        BY ONLY <3>3, <3>4
      <3>6. \A i \in 1 .. Len(t) : /\ i + Len(w) \in 1 .. Len(w) + Len(a)
                                   /\ ~(i + Len(w) <= Len(w)) /\ (i + Len(w)) - Len(w) = i
        BY ONLY <2>4, <3>2
      <3>7. \A i \in 1 .. Len(t) : s[i + Len(w)] = a[i]
        BY ONLY <3>5, <3>6
      <3>8. \A i \in 1 .. Len(t) : a[i] = t[i]
        BY ONLY <2>4, <3>2
      <3>9. \A i \in 1 .. Len(w) : s[i] = w[i]
        BY ONLY <2>4, <3>2, <3>5
      <3>10. Len(s) = Len(w) + Len(t) + Len(u)
        BY ONLY <2>4, <3>2, <3>5
      <3>11. QED
        BY ONLY <3>7, <3>8, <3>9, <3>10
    <2>6. /\ Len(v) = Len(w) + Len(c) + Len(u)
          /\ \A i \in 1 .. Len(w) : v[i] = w[i]
          /\ \A i \in 1 .. Len(c) : v[i + Len(w)] = c[i]
      <3>1. PICK a : a = w \o c
        OBVIOUS
      <3>2. /\ a \in Text /\ Len(a) = Len(w) + Len(c)
            /\ \A i \in 1 .. Len(w) + Len(c) : a[i] = IF i <= Len(w) THEN w[i] ELSE c[i - Len(w)]
        BY <1>6, <3>1, JoinText
      <3>3. /\ Len(a \o u) = Len(a) + Len(u)
            /\ \A i \in 1 .. Len(a) + Len(u) : (a \o u)[i] = IF i <= Len(a) THEN a[i] ELSE u[i - Len(a)]
        BY <3>2, JoinText
      <3>4. v = a \o u
        BY <2>3, <3>1
      <3>5. /\ Len(v) = Len(a) + Len(u)
            /\ \A i \in 1 .. Len(a) + Len(u) : v[i] = IF i <= Len(a) THEN a[i] ELSE u[i - Len(a)]
        BY ONLY <3>3, <3>4
      <3>6. \A i \in 1 .. Len(c) : /\ i + Len(w) \in 1 .. Len(w) + Len(c)
                                   /\ i + Len(w) \in 1 .. Len(a) + Len(u) /\ i + Len(w) <= Len(a)
                                   /\ ~(i + Len(w) <= Len(w)) /\ (i + Len(w)) - Len(w) = i
        BY ONLY <2>4, <3>2
      <3>7. \A i \in 1 .. Len(c) : v[i + Len(w)] = a[i + Len(w)]
        BY ONLY <3>5, <3>6
      <3>8. \A i \in 1 .. Len(c) : a[i + Len(w)] = c[i]
        BY ONLY <3>2, <3>6
      <3>9. \A i \in 1 .. Len(w) : v[i] = a[i] /\ a[i] = w[i]
        BY ONLY <2>4, <3>2, <3>5
      <3>10. Len(v) = Len(w) + Len(c) + Len(u)
        BY ONLY <3>2, <3>5
      <3>11. QED
        BY ONLY <3>7, <3>8, <3>9, <3>10
    <2>7. /\ Len(s) <= Len(h) + Len(r.body)
          /\ \A i \in 1 .. Len(s) : i <= Len(h) => s[i] = h[i]
      BY <1>1, <2>2 DEF Partly
    <2>8. Len(h) <= Len(w) + Len(c)
      <3>1. ASSUME ~(Len(h) <= Len(w) + Len(c)) PROVE FALSE
        <4>1. /\ (Len(c) + 1) + Len(w) \in 1 .. Len(s) /\ (Len(c) + 1) + Len(w) <= Len(h)
              /\ (Len(c) + 1) + Len(w) \in 1 .. Len(h) /\ Len(c) + 1 \in 1 .. Len(t)
          BY <1>3, <2>1, <2>4, <2>5, <3>1
        <4>2. s[(Len(c) + 1) + Len(w)] = NUL
          BY <2>1, <2>5, <4>1
        <4>3. QED
          BY <1>4, <2>7, <4>1, <4>2
      <3>2. QED
        BY <3>1
    <2>9. \A i \in 1 .. Len(v) : i <= Len(h) => v[i] = h[i]
      <3>1. ASSUME NEW i \in 1 .. Len(v), i <= Len(h) PROVE v[i] = h[i]
        <4>1. i \in Nat /\ i >= 1 /\ i <= Len(w) + Len(c) /\ i \in 1 .. Len(s)
          BY <1>3, <2>1, <2>4, <2>5, <2>6, <2>8, <3>1
        <4>2. s[i] = h[i]
          BY <2>7, <3>1, <4>1
        <4>3. CASE i <= Len(w)
          BY <2>4, <2>5, <2>6, <4>1, <4>2, <4>3
        <4>4. CASE ~(i <= Len(w))
          <5>1. /\ i - Len(w) \in 1 .. Len(c) /\ i - Len(w) \in 1 .. Len(t)
                /\ (i - Len(w)) + Len(w) = i
            BY <2>1, <2>4, <4>1, <4>4
          <5>2. QED
            <6>1. PICK j : j = i - Len(w)
              OBVIOUS
            <6>2. j \in 1 .. Len(c) /\ j \in 1 .. Len(t) /\ j + Len(w) = i
              BY ONLY <5>1, <6>1
            <6>3. v[j + Len(w)] = c[j] /\ c[j] = t[j] /\ s[j + Len(w)] = t[j]
              BY ONLY <1>6, <2>5, <2>6, <6>2
            <6>4. QED
              BY ONLY <4>2, <6>2, <6>3
        <4>5. QED
          BY <4>3, <4>4
      <3>2. QED
        BY <3>1
    <2>10. Len(v) <= Len(h) + Len(r.body) /\ Len(h) <= Len(v)
      BY <1>3, <2>1, <2>4, <2>5, <2>6, <2>7, <2>8
    <2>11. Partly(r, ls, v)
      <3>1. Len(ls) <= Len(r.lines) /\ \A i \in 1 .. Len(ls) : ls[i] = r.lines[i]
        BY DEF Partly
      <3>2. QED
        BY <1>1, <2>9, <2>10, <3>1 DEF Partly
    <2>12. QED
      BY <1>1, <1>7, <2>3, <2>10, <2>11
  <1>10. QED
    BY <1>8, <1>9

\* The line TakeLine finds is the next one that was sent.
LEMMA NextLine ==
    ASSUME NEW r \in Request, Framed(r), NEW ls \in Seq(Text), NEW w \in Text, NEW u \in Text,
           Partly(r, ls, w \o u), HasLine(w)
    PROVE  \E line, rest \in Text :
              /\ Heads(r)[Len(ls)] = Joined(line, rest)
              /\ FirstLineEnd(w) = Len(line) + 1 /\ Len(line) + 2 <= Len(w)
              /\ SubSeq(w, 1, FirstLineEnd(w) - 1) = line
              /\ line # <<>> => /\ Len(ls) + 1 \in 1 .. Len(r.lines)
                               /\ line = r.lines[Len(ls) + 1] /\ rest = Heads(r)[Len(ls) + 1]
              /\ line = <<>> => Len(ls) = Len(r.lines) /\ rest = <<>>
  <1>1. Len(ls) \in 0 .. Len(r.lines)
    <2>1. Len(ls) <= Len(r.lines)
      BY DEF Partly
    <2>2. QED
      BY <2>1, RequestText, LenProperties
  <1>2. PICK line \in Text, rest \in Text :
              /\ Heads(r)[Len(ls)] = Joined(line, rest) /\ ~HasLine(line)
              /\ Len(ls) < Len(r.lines) =>
                    /\ Len(ls) + 1 \in 1 .. Len(r.lines)
                    /\ line = r.lines[Len(ls) + 1] /\ line # <<>> /\ rest = Heads(r)[Len(ls) + 1]
              /\ Len(ls) = Len(r.lines) => line = <<>> /\ rest = <<>>
    BY <1>1, HeadLine
  <1>3. PICK h : h = Heads(r)[Len(ls)]
    OBVIOUS
  <1>4. \A i \in 1 .. Len(w) : i <= Len(h) => w[i] = h[i]
    <2>1. PICK s : s = w \o u
      OBVIOUS
    <2>2. \A i \in 1 .. Len(s) : i <= Len(h) => s[i] = h[i]
      BY <1>3, <2>1 DEF Partly
    <2>3. Len(s) = Len(w) + Len(u) /\ \A i \in 1 .. Len(w) : s[i] = w[i]
      <3>1. /\ Len(w \o u) = Len(w) + Len(u)
            /\ \A i \in 1 .. Len(w) + Len(u) : (w \o u)[i] = IF i <= Len(w) THEN w[i] ELSE u[i - Len(w)]
        BY JoinText
      <3>2. Len(w) \in Nat /\ Len(u) \in Nat
        BY TextLen
      <3>3. QED
        BY ONLY <2>1, <3>1, <3>2
    <2>4. Len(w) \in Nat /\ Len(u) \in Nat
      BY TextLen
    <2>5. QED
      BY ONLY <2>2, <2>3, <2>4
  <1>5. /\ FirstLineEnd(w) = Len(line) + 1 /\ Len(line) + 2 <= Len(w)
        /\ SubSeq(w, 1, FirstLineEnd(w) - 1) = line
    <2>1. h = Joined(line, rest) /\ ~HasLine(line) /\ HasLine(w)
      BY <1>2, <1>3
    <2>2. QED
      BY ONLY <1>4, <2>1, FirstLine
  <1>6. Len(ls) < Len(r.lines) \/ Len(ls) = Len(r.lines)
    BY <1>1, RequestText
  <1>7. QED
    BY ONLY <1>2, <1>5, <1>6

LineOf(w) == SubSeq(w, 1, FirstLineEnd(w) - 1)
RestOf(w) == AfterLine(w, FirstLineEnd(w))
Exactly(r, ls, stream) == stream = Heads(r)[Len(ls)] \o r.body

\* Taking this line leaves what comes after it.
LEMMA PartlyLine ==
    ASSUME NEW r \in Request, Framed(r), NEW ls \in Seq(Text), NEW w \in Text, NEW u \in Text,
           Partly(r, ls, w \o u), HasLine(w)
    PROVE  /\ RestOf(w) \in Text
           /\ LineOf(w) # <<>> =>
                 /\ Partly(r, Append(ls, LineOf(w)), RestOf(w) \o u)
                 /\ Len(Heads(r)[Len(ls)]) <= Len(w \o u)
                      => Len(Heads(r)[Len(Append(ls, LineOf(w)))]) <= Len(RestOf(w) \o u)
                 /\ Exactly(r, ls, w \o u) => Exactly(r, Append(ls, LineOf(w)), RestOf(w) \o u)
           /\ LineOf(w) = <<>> =>
                 /\ ls = r.lines
                 /\ Len(RestOf(w)) + Len(u) <= Len(r.body)
                 /\ Exactly(r, ls, w \o u) => RestOf(w) \o u = r.body
  <1>1. PICK line : line = LineOf(w)
    OBVIOUS
  <1>2. PICK left2 : left2 = RestOf(w)
    OBVIOUS
  <1>3. PICK rest \in Text :
              /\ line \in Text
              /\ Heads(r)[Len(ls)] = Joined(line, rest)
              /\ FirstLineEnd(w) = Len(line) + 1 /\ Len(line) + 2 <= Len(w)
              /\ line # <<>> => /\ Len(ls) + 1 \in 1 .. Len(r.lines)
                               /\ line = r.lines[Len(ls) + 1] /\ rest = Heads(r)[Len(ls) + 1]
              /\ line = <<>> => Len(ls) = Len(r.lines) /\ rest = <<>>
    <2>1. PICK line2 \in Text, rest \in Text :
              /\ Heads(r)[Len(ls)] = Joined(line2, rest)
              /\ FirstLineEnd(w) = Len(line2) + 1 /\ Len(line2) + 2 <= Len(w)
              /\ SubSeq(w, 1, FirstLineEnd(w) - 1) = line2
              /\ line2 # <<>> => /\ Len(ls) + 1 \in 1 .. Len(r.lines)
                                /\ line2 = r.lines[Len(ls) + 1] /\ rest = Heads(r)[Len(ls) + 1]
              /\ line2 = <<>> => Len(ls) = Len(r.lines) /\ rest = <<>>
      BY NextLine
    <2>2. line2 = line
      BY <1>1, <2>1 DEF LineOf
    <2>3. QED
      BY ONLY <2>1, <2>2
  <1>4. PICK h : h = Joined(line, rest)
    OBVIOUS
  <1>5. /\ h \in Text /\ Len(line) \in Nat /\ Len(rest) \in Nat
        /\ Len(h) = Len(line) + 2 + Len(rest)
        /\ \A k \in 1 .. Len(rest) : h[k + (Len(line) + 2)] = rest[k]
    <2>1. line \in Text /\ rest \in Text
      BY <1>3
    <2>2. LET j == Joined(line, rest)
          IN  /\ j \in Text /\ Len(line) \in Nat /\ Len(rest) \in Nat
              /\ Len(j) = Len(line) + 2 + Len(rest)
              /\ \A k \in 1 .. Len(rest) : j[k + (Len(line) + 2)] = rest[k]
      BY ONLY <2>1, LineAndRest
    <2>3. QED
      BY ONLY <1>4, <2>2
  <1>6. PICK d : d = Len(line) + 2
    OBVIOUS
  <1>7. d \in Nat /\ d <= Len(w) /\ Len(h) = d + Len(rest) /\ \A k \in 1 .. Len(rest) : h[k + d] = rest[k]
    BY ONLY <1>3, <1>5, <1>6
  <1>8. Len(w) \in Nat /\ Len(u) \in Nat /\ Len(r.body) \in Nat /\ r.body \in Text
    BY RequestText, TextLen
  <1>9. /\ left2 \in Text /\ Len(left2) = Len(w) - d
        /\ \A k \in 1 .. Len(w) - d : left2[k] = w[k + d]
    <2>1. FirstLineEnd(w) \in 1 .. Len(w) - 1 /\ FirstLineEnd(w) + 1 = d
      BY <1>3, <1>5, <1>6, FirstLineEndIs
    <2>2. PICK i \in 1 .. Len(w) - 1 : i = FirstLineEnd(w)
      BY <2>1
    <2>3. /\ AfterLine(w, i) \in Text
          /\ Len(AfterLine(w, i)) = Len(w) - (i + 1)
          /\ \A k \in 1 .. Len(w) - (i + 1) : AfterLine(w, i)[k] = w[k + (i + 1)]
      BY LineText
    <2>4. i + 1 = d /\ left2 = AfterLine(w, i)
      BY <1>2, <2>1, <2>2 DEF RestOf
    <2>5. QED
      BY ONLY <2>3, <2>4
  <1>10. PICK s : s = w \o u
    OBVIOUS
  <1>11. PICK v : v = left2 \o u
    OBVIOUS
  <1>12. /\ s \in Text /\ Len(s) = Len(w) + Len(u)
         /\ \A i \in 1 .. Len(w) + Len(u) : s[i] = IF i <= Len(w) THEN w[i] ELSE u[i - Len(w)]
    <2>1. /\ w \o u \in Text /\ Len(w \o u) = Len(w) + Len(u)
          /\ \A i \in 1 .. Len(w) + Len(u) : (w \o u)[i] = IF i <= Len(w) THEN w[i] ELSE u[i - Len(w)]
      BY JoinText
    <2>2. QED
      BY ONLY <1>10, <2>1
  <1>13. /\ v \in Text /\ Len(v) = Len(left2) + Len(u)
         /\ \A i \in 1 .. Len(left2) + Len(u) :
               v[i] = IF i <= Len(left2) THEN left2[i] ELSE u[i - Len(left2)]
    <2>1. /\ left2 \o u \in Text /\ Len(left2 \o u) = Len(left2) + Len(u)
          /\ \A i \in 1 .. Len(left2) + Len(u) :
               (left2 \o u)[i] = IF i <= Len(left2) THEN left2[i] ELSE u[i - Len(left2)]
      BY <1>9, JoinText
    <2>2. QED
      BY ONLY <1>11, <2>1
  <1>14. Len(v) = Len(s) - d /\ Len(v) \in Nat /\ Len(s) \in Nat
    BY ONLY <1>7, <1>8, <1>9, <1>12, <1>13
  <1>15. ASSUME NEW k \in 1 .. Len(v) PROVE v[k] = s[k + d] /\ k + d \in 1 .. Len(s)
    <2>1. k + d \in 1 .. Len(w) + Len(u) /\ k \in 1 .. Len(left2) + Len(u) /\ k + d \in 1 .. Len(s)
      BY ONLY <1>7, <1>8, <1>9, <1>12, <1>13
    <2>2. CASE k <= Len(left2)
      <3>1. k \in 1 .. Len(w) - d /\ k + d <= Len(w)
        BY ONLY <1>7, <1>8, <1>9, <2>1, <2>2
      <3>2. v[k] = left2[k] /\ left2[k] = w[k + d] /\ s[k + d] = w[k + d]
        BY ONLY <1>9, <1>12, <1>13, <2>1, <2>2, <3>1
      <3>3. QED
        BY <2>1, <3>2
    <2>3. CASE ~(k <= Len(left2))
      <3>1. ~(k + d <= Len(w)) /\ (k + d) - Len(w) = k - Len(left2)
        BY ONLY <1>7, <1>8, <1>9, <2>1, <2>3
      <3>2. v[k] = u[k - Len(left2)] /\ s[k + d] = u[(k + d) - Len(w)]
        BY ONLY <1>12, <1>13, <2>1, <2>3, <3>1
      <3>3. QED
        BY <2>1, <3>1, <3>2
    <2>4. QED
      BY <2>2, <2>3
  <1>16. /\ \A i \in 1 .. Len(ls) : ls[i] = r.lines[i]
         /\ Len(s) <= Len(h) + Len(r.body)
         /\ \A i \in 1 .. Len(s) : i <= Len(h) => s[i] = h[i]
    BY <1>3, <1>4, <1>10 DEF Partly
  <1>17. Len(rest) \in Nat /\ d \in Nat /\ Len(h) = d + Len(rest) /\ Len(h) \in Nat
    <2>1. Len(rest) \in Nat /\ d \in Nat /\ Len(h) = d + Len(rest)
      BY ONLY <1>5, <1>7
    <2>2. QED
      BY ONLY <2>1
  <1>18. Len(v) <= Len(rest) + Len(r.body) /\ (Len(h) <= Len(s) => Len(rest) <= Len(v))
    <2>1. Len(s) <= Len(h) + Len(r.body)
      BY ONLY <1>16
    <2>2. PICK b \in Nat : b = Len(r.body)
      BY <1>8
    <2>3. PICK m \in Nat : m = Len(rest)
      BY <1>17
    <2>4. Len(v) = Len(s) - d /\ Len(h) = d + m /\ Len(s) <= Len(h) + b /\ d \in Nat
          /\ Len(s) \in Nat /\ Len(v) \in Nat
      BY <1>14, <1>17, <2>1, <2>2, <2>3
    <2>5. Len(v) <= m + b /\ (Len(h) <= Len(s) => m <= Len(v))
      BY ONLY <2>4
    <2>6. QED
      BY <2>2, <2>3, <2>5
  <1>19. ASSUME NEW k \in 1 .. Len(v), k <= Len(rest) PROVE v[k] = rest[k]
    <2>1. k \in 1 .. Len(rest) /\ k + d <= Len(h)
      BY ONLY <1>14, <1>19, <1>17
    <2>2. v[k] = s[k + d] /\ s[k + d] = h[k + d] /\ h[k + d] = rest[k]
      BY <1>7, <1>15, <1>16, <2>1
    <2>3. QED
      BY <2>2
  <1>20. ASSUME s = h \o r.body PROVE v = rest \o r.body
    <2>1. /\ Len(h \o r.body) = Len(h) + Len(r.body)
          /\ \A i \in 1 .. Len(h) + Len(r.body) :
               (h \o r.body)[i] = IF i <= Len(h) THEN h[i] ELSE r.body[i - Len(h)]
      BY <1>5, <1>8, JoinText
    <2>2. PICK x : x = rest \o r.body
      OBVIOUS
    <2>3. /\ rest \o r.body \in Text /\ Len(rest \o r.body) = Len(rest) + Len(r.body)
          /\ \A i \in 1 .. Len(rest) + Len(r.body) :
               (rest \o r.body)[i] = IF i <= Len(rest) THEN rest[i] ELSE r.body[i - Len(rest)]
      BY <1>5, <1>8, JoinText
    <2>4. /\ x \in Text /\ Len(x) = Len(rest) + Len(r.body)
          /\ \A i \in 1 .. Len(rest) + Len(r.body) :
               x[i] = IF i <= Len(rest) THEN rest[i] ELSE r.body[i - Len(rest)]
      BY ONLY <2>2, <2>3
    <2>5. /\ Len(s) = Len(h) + Len(r.body)
          /\ \A i \in 1 .. Len(h) + Len(r.body) : s[i] = IF i <= Len(h) THEN h[i] ELSE r.body[i - Len(h)]
      BY ONLY <1>20, <2>1
    <2>6. Len(v) = Len(x)
      <3>1. Len(x) = Len(rest) + Len(r.body) /\ Len(s) = Len(h) + Len(r.body)
        BY ONLY <2>4, <2>5
      <3>2. PICK b \in Nat : b = Len(r.body)
        BY <1>8
      <3>3. Len(x) = Len(rest) + b /\ Len(s) = Len(h) + b
        BY ONLY <3>1, <3>2
      <3>4. QED
        BY ONLY <1>14, <1>17, <3>3
    <2>7. ASSUME NEW k \in 1 .. Len(v) PROVE v[k] = x[k]
      <3>1. v[k] = s[k + d] /\ k + d \in 1 .. Len(h) + Len(r.body) /\ k \in 1 .. Len(rest) + Len(r.body)
        BY <1>15, <2>4, <2>5, <2>6
      <3>2. CASE k <= Len(rest)
        <4>1. k \in 1 .. Len(rest) /\ k + d <= Len(h)
          BY ONLY <1>17, <3>1, <3>2
        <4>2. s[k + d] = h[k + d] /\ h[k + d] = rest[k] /\ x[k] = rest[k]
          BY ONLY <1>7, <2>4, <2>5, <3>1, <3>2, <4>1
        <4>3. QED
          BY <3>1, <4>2
      <3>3. CASE ~(k <= Len(rest))
        <4>1. ~(k + d <= Len(h)) /\ (k + d) - Len(h) = k - Len(rest)
          <5>1. k \in Nat /\ Len(rest) \in Nat /\ d \in Nat /\ Len(h) = d + Len(rest)
            BY <1>17, <3>1
          <5>2. QED
            BY ONLY <3>3, <5>1
        <4>2. s[k + d] = r.body[(k + d) - Len(h)] /\ x[k] = r.body[k - Len(rest)]
          BY ONLY <2>4, <2>5, <3>1, <3>3, <4>1
        <4>3. QED
          BY <3>1, <4>1, <4>2
      <3>4. QED
        BY <3>2, <3>3
    <2>8. v = x
      BY <1>13, <2>4, <2>6, <2>7, SameText
    <2>9. QED
      BY <2>2, <2>8
  <1>21. Len(ls) \in Nat
    BY LenProperties
  <1>22. ASSUME line # <<>>
         PROVE  /\ Partly(r, Append(ls, line), v)
                /\ Heads(r)[Len(Append(ls, line))] = rest
    <2>1. /\ Len(ls) + 1 \in 1 .. Len(r.lines)
          /\ line = r.lines[Len(ls) + 1] /\ rest = Heads(r)[Len(ls) + 1]
      BY <1>3, <1>22
    <2>2. PICK more : more = Append(ls, line)
      OBVIOUS
    <2>3. /\ Len(more) = Len(ls) + 1
          /\ \A i \in 1 .. Len(ls) : more[i] = ls[i]
          /\ more[Len(ls) + 1] = line
      <3>1. ls \in Seq(Text) /\ line \in Text
        BY <1>3
      <3>2. /\ Len(Append(ls, line)) = Len(ls) + 1
            /\ \A i \in 1 .. Len(ls) : Append(ls, line)[i] = ls[i]
            /\ Append(ls, line)[Len(ls) + 1] = line
        BY ONLY <3>1, AppendProperties
      <3>3. QED
        BY ONLY <2>2, <3>2
    <2>4. ASSUME NEW i \in 1 .. Len(more) PROVE more[i] = r.lines[i]
      <3>1. i \in 1 .. Len(ls) \/ i = Len(ls) + 1
        BY ONLY <1>21, <2>3
      <3>2. QED
        BY ONLY <1>16, <2>1, <2>3, <3>1
    <2>5. Heads(r)[Len(more)] = rest /\ Len(more) <= Len(r.lines)
      BY <1>21, <2>1, <2>3
    <2>6. Partly(r, more, v)
      BY <1>18, <1>19, <2>4, <2>5 DEF Partly
    <2>7. QED
      BY <2>2, <2>5, <2>6
  <1>23. ASSUME line = <<>>
         PROVE ls = r.lines /\ Len(left2) + Len(u) <= Len(r.body) /\ rest \o r.body = r.body
    <2>1. Len(ls) = Len(r.lines) /\ rest = <<>>
      BY <1>3, <1>23
    <2>2. ls = r.lines
      <3>1. ls \in Seq(Text) /\ r.lines \in Seq(Text)
        BY RequestText
      <3>2. QED
        BY <1>16, <2>1, <3>1, SeqEqual
    <2>3. rest \o r.body = r.body
      BY <1>8, <2>1, JoinEmpty
    <2>4. Len(rest) = 0
      BY <2>1, EmptyText
    <2>5. QED
      BY <1>8, <1>9, <1>13, <1>18, <2>2, <2>3, <2>4
  <1>24. QED
    <2>1. /\ line # <<>> =>
                 /\ Partly(r, Append(ls, line), v)
                 /\ Len(Heads(r)[Len(ls)]) <= Len(s) => Len(Heads(r)[Len(Append(ls, line))]) <= Len(v)
                 /\ Exactly(r, ls, s) => Exactly(r, Append(ls, line), v)
          /\ line = <<>> =>
                 /\ ls = r.lines
                 /\ Len(left2) + Len(u) <= Len(r.body)
                 /\ Exactly(r, ls, s) => v = r.body
      <3>1. Exactly(r, ls, s) => v = rest \o r.body
        BY <1>3, <1>4, <1>20 DEF Exactly
      <3>2. line # <<>> => (Exactly(r, ls, s) => Exactly(r, Append(ls, line), v))
        BY <1>22, <3>1 DEF Exactly
      <3>3. line = <<>> => (Exactly(r, ls, s) => v = r.body)
        BY <1>23, <3>1
      <3>4. QED
        BY <1>3, <1>4, <1>18, <1>22, <1>23, <3>2, <3>3
    <2>2. QED
      BY ONLY <1>1, <1>2, <1>9, <1>10, <1>11, <2>1

\* As long as there is no line in the buffer, the header was not sent whole.
LEMMA PartlyEnd ==
    ASSUME NEW r \in Request, Framed(r), NEW ls \in Seq(Text), NEW w \in Text,
           Partly(r, ls, w), ~HasLine(w)
    PROVE  ~(Len(Heads(r)[Len(ls)]) <= Len(w))
  <1>1. Len(ls) \in 0 .. Len(r.lines)
    <2>1. Len(ls) <= Len(r.lines)
      BY DEF Partly
    <2>2. QED
      BY <2>1, RequestText, LenProperties
  <1>2. PICK line \in Text, rest \in Text :
              Heads(r)[Len(ls)] = Joined(line, rest)
    BY <1>1, HeadLine
  <1>3. PICK h : h = Heads(r)[Len(ls)]
    OBVIOUS
  <1>4. /\ h = Joined(line, rest) /\ ~HasLine(w)
        /\ \A i \in 1 .. Len(w) : i <= Len(h) => w[i] = h[i]
    BY <1>2, <1>3 DEF Partly
  <1>5. Len(w) < Len(h)
    BY ONLY <1>4, NoLineYet
  <1>6. Len(w) \in Nat /\ Len(h) \in Nat
    BY <1>1, <1>3, HeadText, TextLen
  <1>7. QED
    BY <1>3, <1>5, <1>6

LEMMA LinesPrefix ==
    ASSUME NEW ls \in Seq(Text), NEW ks \in Seq(Text),
           Len(ls) <= Len(ks), \A i \in 1 .. Len(ls) : ls[i] = ks[i]
    PROVE  IsPrefix(ls, ks)
  <1>1. Len(ls) \in Nat /\ Len(ks) \in Nat
    BY LenProperties
  <1>2. SubSeq(ls, 1, Len(ls)) = ls
    BY SubSeqFull
  <1>3. SubSeq(ks, 1, Len(ls)) = ls
    <2>1. 1 \in Int /\ Len(ls) \in Int /\ \A i \in 1 .. Len(ls) : ks[i] \in Text
      BY <1>1, ElementOfSeq
    <2>2. /\ SubSeq(ks, 1, Len(ls)) \in Seq(Text)
          /\ Len(SubSeq(ks, 1, Len(ls))) = IF 1 <= Len(ls) THEN Len(ls) - 1 + 1 ELSE 0
          /\ \A i \in 1 .. Len(ls) - 1 + 1 : SubSeq(ks, 1, Len(ls))[i] = ks[1 + i - 1]
      BY ONLY <2>1, SubSeqProperties
    <2>3. /\ Len(SubSeq(ks, 1, Len(ls))) = Len(ls)
          /\ \A i \in 1 .. Len(ls) : SubSeq(ks, 1, Len(ls))[i] = ks[i]
      BY <1>1, <2>2
    <2>4. QED
      BY <2>2, <2>3, SeqEqual
  <1>4. QED
    BY <1>2, <1>3 DEF IsPrefix

LEMMA CurrentIs ==
    ASSUME TypeOK, sent = answered + 1
    PROVE  /\ Current \in Request
           /\ FramedScripts => Framed(Current)
           /\ PlainScripts => \A i \in 1 .. Len(Current.body) : Current.body[i] # NUL
  <1>1. sent \in 1 .. Len(script)
    BY ScriptText DEF TypeOK
  <1>2. Current \in Request /\ Current = script[sent] /\ script \in Scripts
    BY <1>1, ScriptText DEF Current, TypeOK
  <1>3. FramedScripts => Framed(Current)
    BY <1>1, <1>2 DEF FramedScripts
  <1>4. PlainScripts => \A i \in 1 .. Len(Current.body) : Current.body[i] # NUL
    BY <1>1, <1>2 DEF PlainScripts
  <1>5. QED
    BY <1>2, <1>3, <1>4

LEMMA StreamClient ==
    ASSUME TypeOK, StreamInv, Client PROVE StreamInv'
  <1>1. CASE ClientLeaves
    <2>1. UNCHANGED <<script, sent, whole, inbox, failed, phase, work, lines, load, left, answered>>
      BY <1>1 DEF ClientLeaves, requestVars, payloadVars
    <2>2. QED
      BY <2>1 DEF StreamInv, InTurn, Between, InHeader, AfterHeader, Current, Busy
  <1>2. ASSUME NEW k \in 1 .. Len(NextWire), ClientSends(k), ~failed' PROVE StreamInv'
    <2>1. /\ phase \notin {"over", "crashed"} /\ sent = answered /\ sent < Len(script)
          /\ inbox' = inbox \o SubSeq(Wire(script[sent + 1]), 1, k)
          /\ whole' = (k = Len(Wire(script[sent + 1])))
          /\ sent' = sent + 1
          /\ UNCHANGED <<script, failed, phase, work, lines, load, left, answered>>
      BY <1>2 DEF ClientSends, requestVars, payloadVars
    <2>2. ~failed /\ InTurn /\ Between
      BY <1>2, <2>1 DEF StreamInv
    <2>3. ~Busy
      BY <2>1, <2>2 DEF InTurn, TypeOK
    <2>4. phase = "line" /\ lines = <<>> /\ work = <<>> /\ inbox = <<>>
      BY <2>1, <2>2, <2>3 DEF Busy, TypeOK, Phases, Between
    <2>5. PICK r \in Request : r = script[sent + 1]
      BY <2>1, ScriptText DEF TypeOK
    <2>6. Current' = r
      BY <2>1, <2>5 DEF Current
    <2>7. k \in 1 .. Len(Wire(r))
      BY <2>1, <2>5 DEF NextWire
    <2>8. PICK t : t = SubSeq(Wire(r), 1, k)
      OBVIOUS
    <2>9. /\ t \in Text /\ Partly(r, <<>>, t)
          /\ k = Len(Wire(r)) => Len(Heads(r)[0]) <= Len(t)
      BY <2>7, <2>8, PartlyStart
    <2>10. inbox' = <<>> \o t /\ <<>> \o t = t
      BY <2>1, <2>4, <2>5, <2>8, <2>9, JoinEmpty
    <2>11. work' \o inbox' = t
      BY <2>1, <2>4, <2>10
    <2>12. lines' = <<>> /\ Len(lines') = 0
      BY <2>1, <2>4, EmptyText
    <2>13. whole' => k = Len(Wire(r))
      BY <2>1, <2>5
    <2>14. InHeader'
      <3>1. Partly(r, lines', t)
        BY ONLY <2>9, <2>12
      <3>2. whole' => Len(Heads(r)[Len(lines')]) <= Len(t)
        BY ONLY <2>9, <2>12, <2>13
      <3>3. QED
        BY ONLY <2>6, <2>11, <3>1, <3>2 DEF InHeader
    <2>15. phase' = "line" /\ sent' = answered' + 1 /\ answered' # sent' /\ load' = "none"
      BY <2>1, <2>2, <2>4 DEF TypeOK, InTurn
    <2>16. InTurn' /\ Between' /\ AfterHeader'
      BY ONLY <2>15 DEF InTurn, Between, AfterHeader, Busy
    <2>17. QED
      BY <2>14, <2>16 DEF StreamInv
  <1>3. QED
    BY <1>1, <1>2 DEF Client, StreamInv

LEMMA StreamHeader ==
    ASSUME TypeOK, FramedScripts, StreamInv,
           TakeLine \/ ReadLineEnds \/ ReadLineFails \/ \E n \in 1 .. Bulk : ReadChunk(n)
    PROVE  StreamInv'
  <1> SUFFICES ASSUME ~failed' PROVE InTurn' /\ Between' /\ InHeader' /\ AfterHeader'
    BY DEF StreamInv
  <1>1. CASE TakeLine
    <2>1. PICK line : line = LineOf(work)
      OBVIOUS
    <2>2. PICK rest : rest = RestOf(work)
      OBVIOUS
    <2>3. /\ phase = "line" /\ HasLine(work) /\ work' = rest
          /\ line = <<>> => phase' \in {"over", "route"} /\ lines' = lines
          /\ line # <<>> => lines' = Append(lines, line) /\ phase' \in {"crashed", "line"}
          /\ UNCHANGED <<script, sent, whole, inbox, failed, load, left, answered>>
      BY <1>1, <2>1, <2>2 DEF TakeLine, HeaderEnds, clientVars, payloadVars, LineOf, RestOf
    <2>4. ~failed /\ InTurn /\ Between /\ InHeader
      BY <2>3 DEF StreamInv
    <2>5. sent = answered + 1
      <3>1. work # <<>>
        <4>1. LineEnds(<<>>) = {}
          BY EmptyText DEF LineEnds
        <4>2. QED
          BY <2>3, <4>1 DEF HasLine
      <3>2. QED
        BY <2>3, <2>4, <3>1 DEF InTurn, Between
    <2>6. PICK r \in Request : r = Current /\ Framed(r)
      BY <2>5, CurrentIs
    <2>7. Current' = r
      BY <2>3, <2>6 DEF Current
    <2>8. /\ Partly(r, lines, work \o inbox)
          /\ whole => Len(Heads(r)[Len(lines)]) <= Len(work \o inbox)
      BY <2>3, <2>4, <2>5, <2>6 DEF InHeader
    <2>9. lines \in Seq(Text) /\ work \in Text /\ inbox \in Text
      BY DEF TypeOK
    <2>10. /\ line # <<>> =>
                 /\ Partly(r, Append(lines, line), rest \o inbox)
                 /\ Len(Heads(r)[Len(lines)]) <= Len(work \o inbox)
                      => Len(Heads(r)[Len(Append(lines, line))]) <= Len(rest \o inbox)
           /\ line = <<>> => lines = r.lines /\ Len(rest) + Len(inbox) <= Len(r.body)
      <3>1. /\ r \in Request /\ Framed(r) /\ HasLine(work) /\ Partly(r, lines, work \o inbox)
        BY <2>3, <2>6, <2>8
      <3>2. /\ LineOf(work) # <<>> =>
                 /\ Partly(r, Append(lines, LineOf(work)), RestOf(work) \o inbox)
                 /\ Len(Heads(r)[Len(lines)]) <= Len(work \o inbox)
                      => Len(Heads(r)[Len(Append(lines, LineOf(work)))]) <= Len(RestOf(work) \o inbox)
            /\ LineOf(work) = <<>> => lines = r.lines /\ Len(RestOf(work)) + Len(inbox) <= Len(r.body)
        BY ONLY <2>9, <3>1, PartlyLine
      <3>3. QED
        BY ONLY <2>1, <2>2, <3>2
    <2>11. sent' = answered' + 1 /\ sent' # answered'
      BY <2>3, <2>5 DEF TypeOK
    <2>12. load' = "none"
      BY <2>3, <2>4 DEF InTurn
    <2>13. InTurn' /\ Between'
      BY ONLY <2>11, <2>12 DEF InTurn, Between
    <2>14. CASE line = <<>>
      <3>1. phase' \in {"over", "route"} /\ lines' = r.lines /\ Len(work') + Len(inbox') <= Len(r.body)
        BY <2>3, <2>10, <2>14
      <3>2. IsPrefix(lines', r.lines)
        <4>1. r.lines \in Seq(Text) /\ Len(r.lines) \in Nat
          BY RequestText
        <4>2. Len(r.lines) <= Len(r.lines)
          BY <4>1
        <4>3. IsPrefix(r.lines, r.lines)
          BY <4>1, <4>2, LinesPrefix
        <4>4. QED
          BY <3>1, <4>3
      <3>3. phase' \notin {"line", "string", "file"} /\ (phase' = "route" => sent' = answered' + 1)
        BY <2>11, <3>1
      <3>4. AfterHeader'
        BY ONLY <2>7, <2>12, <3>1, <3>2, <3>3 DEF AfterHeader, Busy
      <3>5. InHeader'
        BY ONLY <3>3 DEF InHeader
      <3>6. QED
        BY <2>13, <3>4, <3>5
    <2>15. CASE line # <<>>
      <3>1. lines' = Append(lines, line) /\ phase' \in {"crashed", "line"}
        BY <2>3, <2>15
      <3>2. Partly(r, lines', work' \o inbox')
        BY <2>3, <2>10, <2>15, <3>1
      <3>3. whole' => Len(Heads(r)[Len(lines')]) <= Len(work' \o inbox')
        BY <2>3, <2>8, <2>10, <2>15, <3>1
      <3>4. InHeader'
        BY ONLY <2>7, <3>2, <3>3 DEF InHeader
      <3>5. AfterHeader'
        BY ONLY <3>1 DEF AfterHeader, Busy
      <3>6. QED
        BY <2>13, <3>4, <3>5
    <2>16. QED
      BY <2>14, <2>15
  <1>2. CASE ReadLineEnds
    <2>1. /\ phase = "line" /\ ~HasLine(work) /\ inbox = <<>> /\ phase' \in {"over", "route"}
          /\ lines # <<>> \/ phase' = "over"
          /\ UNCHANGED <<script, sent, whole, inbox, failed, load, left, work, lines, answered>>
      BY <1>2 DEF ReadLineEnds, EndOfStream, HeaderEnds, clientVars, payloadVars
    <2>2. ~failed /\ InTurn /\ Between /\ InHeader
      BY <2>1 DEF StreamInv
    <2>3. CASE phase' = "over"
      BY ONLY <2>3 DEF InTurn, Between, InHeader, AfterHeader, Busy
    <2>4. CASE phase' = "route"
      <3>1. sent = answered + 1
        BY <2>1, <2>2, <2>4 DEF InTurn, Between
      <3>2. PICK r \in Request : r = Current /\ Framed(r)
        BY <3>1, CurrentIs
      <3>3. Current' = r
        BY <2>1, <3>2 DEF Current
      <3>4. work \o inbox = work /\ work \in Text /\ lines \in Seq(Text)
        BY <2>1, JoinEmpty DEF TypeOK
      <3>5. Partly(r, lines, work) /\ (whole => Len(Heads(r)[Len(lines)]) <= Len(work))
        <4>1. /\ Partly(r, lines, work \o inbox)
              /\ whole => Len(Heads(r)[Len(lines)]) <= Len(work \o inbox)
          BY <2>1, <2>2, <3>1, <3>2 DEF InHeader
        <4>2. QED
          BY ONLY <3>4, <4>1
      <3>6. ~(Len(Heads(r)[Len(lines)]) <= Len(work))
        BY <2>1, <3>2, <3>4, <3>5, PartlyEnd
      <3>7. IsPrefix(lines, r.lines)
        <4>1. Len(lines) <= Len(r.lines) /\ \A i \in 1 .. Len(lines) : lines[i] = r.lines[i]
          BY <3>5 DEF Partly
        <4>2. r.lines \in Seq(Text)
          BY RequestText
        <4>3. QED
          BY <3>4, <4>1, <4>2, LinesPrefix
      <3>8. ~whole' /\ IsPrefix(lines', r.lines) /\ inbox' = <<>> /\ sent' = answered' + 1
        BY <2>1, <3>1, <3>5, <3>6, <3>7
      <3>9. QED
        BY ONLY <2>4, <3>3, <3>8 DEF InTurn, Between, InHeader, AfterHeader, Busy
    <2>5. QED
      BY <2>1, <2>3, <2>4
  <1>3. CASE ReadLineFails
    BY <1>3 DEF ReadLineFails
  <1>4. ASSUME NEW n \in 1 .. Bulk, ReadChunk(n)
        PROVE  InTurn' /\ Between' /\ InHeader' /\ AfterHeader'
    <2>1. PICK t : t = Taken(n)
      OBVIOUS
    <2>2. t \in Text /\ inbox' \in Text /\ inbox = t \o inbox' /\ n \in 1 .. Len(inbox)
      <3>1. Bulk \in Nat /\ inbox \in Text /\ Takes(n, Bulk)
        BY <1>4 DEF ReadChunk, TypeOK
      <3>2. QED
        BY <2>1, <3>1, TakesText
    <2>3. /\ phase = "line" /\ phase' = "line" /\ work' = AppendString(work, t)
          /\ UNCHANGED <<script, sent, whole, failed, load, lines, answered>>
      BY <1>4, <2>1 DEF ReadChunk, clientVars, payloadVars
    <2>4. ~failed /\ InTurn /\ Between /\ InHeader
      BY <2>3 DEF StreamInv
    <2>5. sent = answered + 1
      <3>1. inbox # <<>>
        BY <2>2, EmptyText
      <3>2. QED
        BY <2>3, <2>4, <3>1 DEF InTurn, Between
    <2>6. PICK r \in Request : r = Current /\ Framed(r)
      BY <2>5, CurrentIs
    <2>7. Current' = r
      BY <2>3, <2>6 DEF Current
    <2>8. PICK u : u = inbox'
      OBVIOUS
    <2>9. lines \in Seq(Text) /\ work \in Text /\ t \in Text /\ u \in Text
      BY <2>2, <2>8 DEF TypeOK
    <2>10. /\ Partly(r, lines, work \o (t \o u))
           /\ whole => Len(Heads(r)[Len(lines)]) <= Len(work \o (t \o u))
      <3>1. inbox = t \o u
        BY <2>2, <2>8
      <3>2. /\ Partly(r, lines, work \o inbox)
            /\ whole => Len(Heads(r)[Len(lines)]) <= Len(work \o inbox)
        BY <2>3, <2>4, <2>5, <2>6 DEF InHeader
      <3>3. QED
        BY ONLY <3>1, <3>2
    <2>11. /\ Partly(r, lines, AppendString(work, t) \o u)
           /\ Len(Heads(r)[Len(lines)]) <= Len(work \o (t \o u))
                => Len(Heads(r)[Len(lines)]) <= Len(AppendString(work, t) \o u)
      BY ONLY <2>6, <2>9, <2>10, PartlyRead
    <2>12. InHeader'
      <3>1. Partly(r, lines', work' \o inbox')
        BY ONLY <2>3, <2>8, <2>11
      <3>2. whole' => Len(Heads(r)[Len(lines')]) <= Len(work' \o inbox')
        BY ONLY <2>3, <2>8, <2>10, <2>11
      <3>3. QED
        BY ONLY <2>7, <3>1, <3>2 DEF InHeader
    <2>13. sent' = answered' + 1 /\ sent' # answered' /\ load' = "none"
      BY <2>3, <2>4, <2>5 DEF TypeOK, InTurn
    <2>14. InTurn' /\ Between' /\ AfterHeader'
      BY ONLY <2>3, <2>13 DEF InTurn, Between, AfterHeader, Busy
    <2>15. QED
      BY <2>12, <2>14
  <1>5. QED
    BY <1>1, <1>2, <1>3, <1>4

\* When the routes run, what is sent and not read is no more than what a load
\* of the payload expects.
LEMMA AllExpected ==
    ASSUME TypeOK, FramedScripts, Busy, InTurn, AfterHeader,
           phase \in {"route", "write"}, load = "none"
    PROVE  /\ Len(inbox) <= StillToRead
           /\ ContentLength = 0 => inbox = <<>>
  <1>1. sent = answered + 1
    BY DEF InTurn
  <1>2. PICK r \in Request : r = Current /\ Framed(r)
    BY <1>1, CurrentIs
  <1>3. inbox = <<>> \/ (lines = r.lines /\ Len(work) + Len(inbox) <= Len(r.body))
    BY <1>2 DEF AfterHeader
  <1>4. Len(work) \in Nat /\ Len(inbox) \in Nat /\ (Len(inbox) = 0 <=> inbox = <<>>)
    BY TextLen DEF TypeOK
  <1>5. StillToRead \in Nat /\ ContentLength \in Nat
    BY LoadTypes
  <1>6. CASE inbox = <<>>
    BY <1>4, <1>5, <1>6
  <1>7. CASE lines = r.lines /\ Len(work) + Len(inbox) <= Len(r.body)
    <2>1. ContentLength = Len(r.body)
      BY <1>2, <1>7 DEF ContentLength, Framed
    <2>2. Len(work) + Len(inbox) <= ContentLength
      BY <1>7, <2>1
    <2>3. QED
      BY ONLY <1>4, <1>5, <2>2 DEF StillToRead
  <1>8. QED
    BY <1>3, <1>6, <1>7

LEMMA StreamLoads ==
    ASSUME TypeOK, FramedScripts, StreamInv,
           \/ LoadString \/ LoadFile \/ PayloadLoaded \/ PayloadFails
           \/ \E n \in 1 .. Bulk : ReadPayload(n)
    PROVE  StreamInv'
  <1> SUFFICES ASSUME ~failed' PROVE InTurn' /\ Between' /\ InHeader' /\ AfterHeader'
    BY DEF StreamInv
  <1>1. CASE LoadString \/ LoadFile
    <2>1. /\ phase = "route" /\ load = "none" /\ load' # "none"
          /\ \/ phase' \in {"string", "file"} /\ left' = StillToRead
             \/ phase' = "route" /\ ContentLength = 0
          /\ UNCHANGED <<script, sent, whole, inbox, failed, lines, work, answered>>
      BY <1>1 DEF LoadString, LoadFile, clientVars, requestVars
    <2>2. ~failed /\ InTurn /\ AfterHeader /\ Busy
      BY <2>1 DEF StreamInv, Busy
    <2>3. Len(inbox) <= StillToRead /\ (ContentLength = 0 => inbox = <<>>)
      BY <2>1, <2>2, AllExpected
    <2>4. sent' = answered' + 1 /\ phase' # "line" /\ phase' # "write"
      BY <2>1, <2>2 DEF InTurn
    <2>5. IsPrefix(lines', Current'.lines) /\ (whole' => lines' = Current'.lines)
      BY <2>1, <2>2 DEF AfterHeader, Current
    <2>6. phase' \in {"string", "file"} => Len(inbox') <= left'
      BY <2>1, <2>3
    <2>7. phase' = "route" => inbox' = <<>>
      BY <2>1, <2>3
    <2>8. QED
      BY ONLY <2>1, <2>4, <2>5, <2>6, <2>7 DEF InTurn, Between, InHeader, AfterHeader, Busy
  <1>2. ASSUME NEW n \in 1 .. Bulk, ReadPayload(n)
        PROVE  InTurn' /\ Between' /\ InHeader' /\ AfterHeader'
    <2>1. /\ phase \in {"string", "file"} /\ phase' = phase /\ left' = left - n
          /\ UNCHANGED <<script, sent, whole, failed, lines, load, answered>>
      BY <1>2 DEF ReadPayload, clientVars
    <2>2. ~failed /\ InTurn /\ AfterHeader /\ Busy
      BY <2>1 DEF StreamInv, Busy
    <2>3. Len(inbox') = Len(inbox) - n /\ Len(inbox) \in Nat /\ left \in Nat /\ n \in Nat
      <3>1. Least(Bulk, left) \in Nat /\ inbox \in Text /\ left \in Nat
        BY DEF Least, TypeOK
      <3>2. Takes(n, Least(Bulk, left))
        BY <1>2 DEF ReadPayload
      <3>3. Len(inbox') = Len(inbox) - n
        BY ONLY <3>1, <3>2, TakesText
      <3>4. QED
        BY <3>1, <3>3, TextLen
    <2>4. load # "none" /\ Len(inbox) <= left
      BY <2>1, <2>2 DEF AfterHeader
    <2>5. Len(inbox') <= left'
      BY <2>1, <2>3, <2>4
    <2>6. sent' = answered' + 1 /\ phase' \in {"string", "file"} /\ load' # "none"
      BY <2>1, <2>2, <2>4 DEF InTurn
    <2>7. IsPrefix(lines', Current'.lines) /\ (whole' => lines' = Current'.lines)
      BY <2>1, <2>2 DEF AfterHeader, Current
    <2>8. QED
      BY ONLY <2>5, <2>6, <2>7 DEF InTurn, Between, InHeader, AfterHeader, Busy
  <1>3. CASE PayloadLoaded
    <2>1. /\ phase \in {"string", "file"} /\ phase' = "route" /\ (left = 0 \/ inbox = <<>>)
          /\ UNCHANGED <<script, sent, whole, inbox, failed, lines, load, answered>>
      BY <1>3 DEF PayloadLoaded, LoadEnds, EndOfStream, clientVars, requestVars
    <2>2. ~failed /\ InTurn /\ AfterHeader /\ Busy
      BY <2>1 DEF StreamInv, Busy
    <2>3. inbox = <<>>
      <3>1. Len(inbox) <= left
        BY <2>1, <2>2 DEF AfterHeader
      <3>2. QED
        BY <2>1, <3>1, TextLen DEF TypeOK
    <2>4. sent' = answered' + 1 /\ inbox' = <<>>
      BY <2>1, <2>2, <2>3 DEF InTurn
    <2>5. IsPrefix(lines', Current'.lines) /\ (whole' => lines' = Current'.lines)
      BY <2>1, <2>2 DEF AfterHeader, Current
    <2>6. QED
      BY ONLY <2>1, <2>4, <2>5 DEF InTurn, Between, InHeader, AfterHeader, Busy
  <1>4. CASE PayloadFails
    BY <1>4 DEF PayloadFails
  <1>5. QED
    BY <1>1, <1>2, <1>3, <1>4

LEMMA StreamAnswer ==
    ASSUME TypeOK, FramedScripts, StreamInv,
           \/ NoAnswer \/ WriteFails \/ WriteContent \/ FinishResponse
           \/ \E r \in Responses, close \in BOOLEAN : Answer(r, close)
           \/ \E n \in 1 .. left : WriteSome(n)
    PROVE  StreamInv'
  <1> SUFFICES ASSUME ~failed' PROVE InTurn' /\ Between' /\ InHeader' /\ AfterHeader'
    BY DEF StreamInv
  <1>1. CASE NoAnswer
    <2>1. phase' = "over"
      BY <1>1 DEF NoAnswer
    <2>2. QED
      BY ONLY <2>1 DEF InTurn, Between, InHeader, AfterHeader, Busy
  <1>2. ASSUME \/ WriteFails \/ WriteContent
               \/ \E r \in Responses, close \in BOOLEAN : Answer(r, close)
               \/ \E n \in 1 .. left : WriteSome(n)
        PROVE  InTurn' /\ Between' /\ InHeader' /\ AfterHeader'
    <2>1. /\ phase \in {"route", "write"} /\ phase' = "write"
          /\ UNCHANGED <<script, sent, whole, inbox, failed, lines, work, load, answered>>
      BY <1>2 DEF WriteFails, WriteContent, Answer, WriteSome, clientVars, requestVars, payloadVars
    <2>2. ~failed /\ InTurn /\ AfterHeader /\ Busy
      BY <2>1 DEF StreamInv, Busy
    <2>3. sent' = answered' + 1
      BY <2>1, <2>2 DEF InTurn
    <2>4. PICK r : r = Current
      OBVIOUS
    <2>5. Current' = r
      BY <2>1, <2>4 DEF Current
    <2>6. /\ IsPrefix(lines, r.lines) /\ (whole => lines = r.lines)
          /\ \/ inbox = <<>>
             \/ load = "none" /\ lines = r.lines /\ Len(work) + Len(inbox) <= Len(r.body)
      BY <2>1, <2>2, <2>4 DEF AfterHeader
    <2>7. /\ IsPrefix(lines', r.lines) /\ (whole' => lines' = r.lines)
          /\ \/ inbox' = <<>>
             \/ load' = "none" /\ lines' = r.lines /\ Len(work') + Len(inbox') <= Len(r.body)
      BY ONLY <2>1, <2>6
    <2>8. QED
      BY ONLY <2>1, <2>3, <2>5, <2>7 DEF InTurn, Between, InHeader, AfterHeader, Busy
  <1>3. CASE FinishResponse
    <2>1. /\ phase = "write" /\ answered' = answered + 1 /\ work' = <<>> /\ lines' = <<>>
          /\ load' = "none" /\ phase' \in {"over", "line"}
          /\ phase' = "line" => ~MustClose
          /\ UNCHANGED <<sent, inbox, failed>>
      BY <1>3 DEF FinishResponse, clientVars
    <2>2. ~failed /\ InTurn /\ AfterHeader /\ Busy
      BY <2>1 DEF StreamInv, Busy
    <2>3. sent' = answered' /\ sent' # answered' + 1 /\ sent' \in {answered', answered' + 1}
      BY <2>1, <2>2 DEF InTurn, TypeOK
    <2>4. phase' = "line" => inbox = <<>>
      <3>1. ASSUME ~MustClose PROVE inbox = <<>>
        <4>1. CASE load = "none"
          <5>1. ContentLength = 0
            BY <3>1, <4>1, LoadTypes DEF MustClose
          <5>2. QED
            BY <2>1, <2>2, <4>1, <5>1, AllExpected
        <4>2. CASE load # "none"
          BY <2>1, <2>2, <4>2 DEF AfterHeader
        <4>3. QED
          BY <4>1, <4>2
      <3>2. QED
        BY <2>1, <3>1
    <2>5. phase' = "line" => inbox' = <<>>
      BY <2>1, <2>4
    <2>6. QED
      BY ONLY <2>1, <2>3, <2>5 DEF InTurn, Between, InHeader, AfterHeader, Busy
  <1>4. QED
    BY <1>1, <1>2, <1>3

LEMMA StreamKept ==
    ASSUME TypeOK, FramedScripts, StreamInv, [Next]_vars PROVE StreamInv'
  <1>1. CASE UNCHANGED vars
    BY <1>1 DEF StreamInv, InTurn, Between, InHeader, AfterHeader, Busy, Current,
                vars, clientVars, requestVars, payloadVars
  <1>2. CASE Next
    BY <1>2, StreamClient, StreamHeader, StreamLoads, StreamAnswer
    DEF Next, Server, Reads, Routes, Writes, Fails
  <1>3. QED
    BY <1>1, <1>2

LEMMA StreamInit == Init => StreamInv
  <1>1. ASSUME Init
        PROVE  phase = "line" /\ sent = answered /\ sent # answered + 1 /\ lines = <<>> /\ work = <<>>
               /\ inbox = <<>> /\ load = "none" /\ sent \in {answered, answered + 1}
    BY <1>1 DEF Init
  <1>2. QED
    BY ONLY <1>1 DEF StreamInv, InTurn, Between, InHeader, AfterHeader, Busy

LEMMA StreamInvariance == ASSUME FramedScripts PROVE Spec => [](TypeOK /\ StreamInv)
  <1>1. StreamInv /\ TypeOK /\ [Next]_vars => StreamInv'
    BY StreamKept
  <1>2. QED
    BY <1>1, StreamInit, TypeCorrect, PTL DEF Spec

\* For a client whose requests are framed, the lines found are those it sent
\* (hs_io.c:23-69, 274-314).
THEOREM LinesAsSentHolds == ASSUME FramedScripts PROVE Spec => []LinesAsSent
  <1>1. StreamInv => LinesAsSent
    BY DEF StreamInv, AfterHeader, Busy, LinesAsSent
  <1>2. QED
    BY <1>1, StreamInvariance, PTL

\* Nothing of such a request is left where the next one is read
\* (hs_router.c:483-495).
THEOREM NextStartsAtRequestHolds == ASSUME FramedScripts PROVE Spec => []NextStartsAtRequest
  <1>1. StreamInv => NextStartsAtRequest
    BY DEF StreamInv, Between, NextStartsAtRequest
  <1>2. QED
    BY <1>1, StreamInvariance, PTL

-----------------------------------------------------------------------------
\* The payload.

\* A part of a text without a NUL is appended as it is.
LEMMA PlainAppend ==
    ASSUME NEW a \in Text, NEW t \in Text, NEW u \in Text,
           \A i \in 1 .. Len(t \o u) : (t \o u)[i] # NUL
    PROVE  AppendString(a, t) = a \o t /\ (a \o t) \o u = a \o (t \o u)
  <1>1. /\ Len(t \o u) = Len(t) + Len(u)
        /\ \A i \in 1 .. Len(t) + Len(u) : (t \o u)[i] = IF i <= Len(t) THEN t[i] ELSE u[i - Len(t)]
    BY JoinText
  <1>2. Len(t) \in Nat /\ Len(u) \in Nat
    BY TextLen
  <1>3. \A i \in 1 .. Len(t) : t[i] # NUL
    <2>1. \A i \in 1 .. Len(t) : i \in 1 .. Len(t) + Len(u) /\ i <= Len(t)
      BY <1>2
    <2>2. QED
      BY <1>1, <2>1
  <1>4. CString(t) = t
    BY <1>2, <1>3, CStringIs
  <1>5. QED
    BY <1>4, JoinThree DEF AppendString

\* The end of a text without a NUL has none either.
LEMMA PlainEnd ==
    ASSUME NEW a \in Text, NEW b \in Text, NEW x, x = a \o b, \A i \in 1 .. Len(x) : x[i] # NUL
    PROVE  \A i \in 1 .. Len(b) : b[i] # NUL
  <1>1. /\ Len(a \o b) = Len(a) + Len(b)
        /\ \A i \in 1 .. Len(a) + Len(b) : (a \o b)[i] = IF i <= Len(a) THEN a[i] ELSE b[i - Len(a)]
    BY JoinText
  <1>2. /\ Len(x) = Len(a) + Len(b)
        /\ \A i \in 1 .. Len(a) + Len(b) : x[i] = IF i <= Len(a) THEN a[i] ELSE b[i - Len(a)]
    BY ONLY <1>1, x = a \o b
  <1>3. Len(a) \in Nat /\ Len(b) \in Nat
    BY TextLen
  <1>4. ASSUME NEW i \in 1 .. Len(b) PROVE b[i] # NUL
    <2>1. /\ i + Len(a) \in 1 .. Len(a) + Len(b) /\ ~(i + Len(a) <= Len(a))
          /\ (i + Len(a)) - Len(a) = i
      BY ONLY <1>3
    <2>2. x[i + Len(a)] = b[i] /\ i + Len(a) \in 1 .. Len(x)
      BY ONLY <1>2, <2>1
    <2>3. QED
      BY <2>2
  <1>5. QED
    BY <1>4

\* What is sent of a header and a body has no NUL.
LEMMA PlainWire ==
    ASSUME NEW r \in Request, Framed(r), \A i \in 1 .. Len(r.body) : r.body[i] # NUL,
           NEW m \in 0 .. Len(r.lines)
    PROVE  \A i \in 1 .. Len(Heads(r)[m] \o r.body) : (Heads(r)[m] \o r.body)[i] # NUL
  <1>1. PICK h : h = Heads(r)[m]
    OBVIOUS
  <1>2. h \in Text /\ r.body \in Text
    BY <1>1, HeadText, RequestText
  <1>3. \A i \in 1 .. Len(h) : h[i] # NUL
    BY <1>1, HeadPlain
  <1>4. PICK b : b = r.body
    OBVIOUS
  <1>5. b \in Text /\ \A i \in 1 .. Len(b) : b[i] # NUL
    BY <1>2, <1>4
  <1>6. /\ Len(h \o b) = Len(h) + Len(b)
        /\ \A i \in 1 .. Len(h) + Len(b) : (h \o b)[i] = IF i <= Len(h) THEN h[i] ELSE b[i - Len(h)]
    BY <1>2, <1>5, JoinText
  <1>7. Len(h) \in Nat /\ Len(b) \in Nat
    BY <1>2, <1>5, TextLen
  <1>8. ASSUME NEW i \in 1 .. Len(h) + Len(b) PROVE (h \o b)[i] # NUL
    <2>1. CASE i <= Len(h)
      BY <1>3, <1>6, <1>7, <2>1
    <2>2. CASE ~(i <= Len(h))
      <3>1. i - Len(h) \in 1 .. Len(b)
        BY ONLY <1>7, <2>2
      <3>2. QED
        BY ONLY <1>5, <1>6, <2>2, <3>1
    <2>3. QED
      BY <2>1, <2>2
  <1>9. QED
    BY ONLY <1>1, <1>4, <1>6, <1>8

LEMMA PayloadClient ==
    ASSUME TypeOK, StreamInv, PayloadInv, Client PROVE PayloadInv'
  <1>1. CASE ClientLeaves
    <2>1. UNCHANGED <<script, sent, whole, inbox, failed, phase, work, lines, load, payload, left, answered>>
      BY <1>1 DEF ClientLeaves, requestVars, payloadVars
    <2>2. QED
      BY <2>1 DEF PayloadInv, Current, Busy
  <1>2. ASSUME NEW k \in 1 .. Len(NextWire), ClientSends(k), ~failed', whole' PROVE PayloadInv'
    <2>1. /\ phase \notin {"over", "crashed"} /\ sent = answered /\ sent < Len(script)
          /\ inbox' = inbox \o SubSeq(Wire(script[sent + 1]), 1, k)
          /\ k = Len(Wire(script[sent + 1]))
          /\ sent' = sent + 1
          /\ UNCHANGED <<script, failed, phase, work, lines>>
      BY <1>2 DEF ClientSends, requestVars
    <2>2. ~failed /\ InTurn /\ Between
      BY <1>2, <2>1 DEF StreamInv
    <2>3. ~Busy
      BY <2>1, <2>2 DEF InTurn, TypeOK
    <2>4. phase = "line" /\ lines = <<>> /\ work = <<>> /\ inbox = <<>>
      BY <2>1, <2>2, <2>3 DEF Busy, TypeOK, Phases, Between
    <2>5. PICK r \in Request : r = script[sent + 1]
      BY <2>1, ScriptText DEF TypeOK
    <2>6. Current' = r
      BY <2>1, <2>5 DEF Current
    <2>7. PICK t \in Text : t = Wire(r) /\ SubSeq(t, 1, Len(t)) = t
      BY WireText, WholeText
    <2>8. inbox' = <<>> \o t /\ <<>> \o t = t
      BY <2>1, <2>4, <2>5, <2>7, JoinEmpty
    <2>9. work' \o inbox' = t
      BY <2>1, <2>4, <2>8
    <2>10. t = Heads(r)[0] \o r.body
      <3>1. 0 \in 0 .. Len(r.lines)
        BY RequestText
      <3>2. Wire(r) = Heads(r)[0] \o r.body
        BY <3>1, HeadText
      <3>3. QED
        BY ONLY <2>7, <3>2
    <2>11. Len(lines') = 0
      BY <2>1, <2>4, EmptyText
    <2>12. work' \o inbox' = Heads(Current')[Len(lines')] \o Current'.body
      BY ONLY <2>6, <2>9, <2>10, <2>11
    <2>13. phase' = "line"
      BY <2>1, <2>4
    <2>14. QED
      BY ONLY <2>12, <2>13 DEF PayloadInv, Busy
  <1>3. QED
    BY <1>1, <1>2 DEF Client, PayloadInv

LEMMA PayloadHeader ==
    ASSUME TypeOK, FramedScripts, PlainScripts, StreamInv, PayloadInv,
           TakeLine \/ ReadLineEnds \/ ReadLineFails \/ \E n \in 1 .. Bulk : ReadChunk(n)
    PROVE  PayloadInv'
  <1> SUFFICES ASSUME ~failed', whole' PROVE PayloadInv'
    BY DEF PayloadInv
  <1>1. CASE TakeLine
    <2>1. PICK line : line = LineOf(work)
      OBVIOUS
    <2>2. PICK rest : rest = RestOf(work)
      OBVIOUS
    <2>3. /\ phase = "line" /\ HasLine(work) /\ work' = rest
          /\ line = <<>> => phase' \in {"over", "route"} /\ lines' = lines
          /\ line # <<>> => lines' = Append(lines, line) /\ phase' \in {"crashed", "line"}
          /\ UNCHANGED <<script, sent, whole, inbox, failed, load, payload, answered>>
      BY <1>1, <2>1, <2>2 DEF TakeLine, HeaderEnds, clientVars, payloadVars, LineOf, RestOf
    <2>4. ~failed /\ whole /\ InTurn /\ Between /\ InHeader
      BY <2>3 DEF StreamInv
    <2>5. sent = answered + 1 /\ load = "none"
      <3>1. work # <<>>
        <4>1. LineEnds(<<>>) = {}
          BY EmptyText DEF LineEnds
        <4>2. QED
          BY <2>3, <4>1 DEF HasLine
      <3>2. QED
        BY <2>3, <2>4, <3>1 DEF InTurn, Between
    <2>6. PICK r \in Request : r = Current /\ Framed(r)
      BY <2>5, CurrentIs
    <2>7. Current' = r
      BY <2>3, <2>6 DEF Current
    <2>8. Partly(r, lines, work \o inbox)
      BY <2>3, <2>4, <2>5, <2>6 DEF InHeader
    <2>9. lines \in Seq(Text) /\ work \in Text /\ inbox \in Text
      BY DEF TypeOK
    <2>10. Exactly(r, lines, work \o inbox)
      BY <2>3, <2>4, <2>5, <2>6 DEF PayloadInv, Exactly
    <2>11. /\ line # <<>> => rest \o inbox = Heads(r)[Len(Append(lines, line))] \o r.body
           /\ line = <<>> => rest \o inbox = r.body
      <3>1. r \in Request /\ Framed(r) /\ HasLine(work) /\ Partly(r, lines, work \o inbox)
        BY <2>3, <2>6, <2>8
      <3>2. /\ LineOf(work) # <<>> => Exactly(r, Append(lines, LineOf(work)), RestOf(work) \o inbox)
            /\ LineOf(work) = <<>> => RestOf(work) \o inbox = r.body
        BY ONLY <2>9, <2>10, <3>1, PartlyLine
      <3>3. QED
        BY ONLY <2>1, <2>2, <3>2 DEF Exactly
    <2>12. CASE line = <<>>
      <3>1. phase' \in {"over", "route"} /\ load' = "none" /\ work' \o inbox' = r.body
        BY <2>3, <2>5, <2>11, <2>12
      <3>2. QED
        BY ONLY <2>7, <3>1 DEF PayloadInv, Busy
    <2>13. CASE line # <<>>
      <3>1. /\ phase' \in {"crashed", "line"} /\ load' = "none"
            /\ work' \o inbox' = Heads(r)[Len(lines')] \o r.body
        BY <2>3, <2>5, <2>11, <2>13
      <3>2. QED
        BY ONLY <2>7, <3>1 DEF PayloadInv, Busy
    <2>14. QED
      BY <2>12, <2>13
  <1>2. CASE ReadLineEnds
    <2>1. /\ phase = "line" /\ ~HasLine(work) /\ inbox = <<>> /\ phase' \in {"over", "route"}
          /\ lines # <<>> \/ phase' = "over"
          /\ UNCHANGED <<whole, failed>>
      BY <1>2 DEF ReadLineEnds, EndOfStream, HeaderEnds, clientVars, payloadVars
    <2>2. ~failed /\ whole /\ InTurn /\ Between /\ InHeader
      BY <2>1 DEF StreamInv
    <2>3. phase' = "over"
      <3>1. ASSUME phase' = "route" PROVE FALSE
        <4>1. sent = answered + 1
          BY <2>1, <2>2, <3>1 DEF InTurn, Between
        <4>2. PICK r \in Request : r = Current /\ Framed(r)
          BY <4>1, CurrentIs
        <4>3. work \o inbox = work /\ work \in Text /\ lines \in Seq(Text)
          BY <2>1, JoinEmpty DEF TypeOK
        <4>4. /\ Partly(r, lines, work \o inbox)
              /\ Len(Heads(r)[Len(lines)]) <= Len(work \o inbox)
          BY <2>1, <2>2, <4>1, <4>2 DEF InHeader
        <4>5. Partly(r, lines, work) /\ Len(Heads(r)[Len(lines)]) <= Len(work)
          BY ONLY <4>3, <4>4
        <4>6. QED
          BY <2>1, <4>2, <4>3, <4>5, PartlyEnd
      <3>2. QED
        BY <2>1, <3>1
    <2>4. QED
      BY ONLY <2>3 DEF PayloadInv, Busy
  <1>3. CASE ReadLineFails
    BY <1>3 DEF ReadLineFails
  <1>4. ASSUME NEW n \in 1 .. Bulk, ReadChunk(n) PROVE PayloadInv'
    <2>1. PICK t : t = Taken(n)
      OBVIOUS
    <2>2. t \in Text /\ inbox' \in Text /\ inbox = t \o inbox' /\ n \in 1 .. Len(inbox)
      <3>1. Bulk \in Nat /\ inbox \in Text /\ Takes(n, Bulk)
        BY <1>4 DEF ReadChunk, TypeOK
      <3>2. QED
        BY <2>1, <3>1, TakesText
    <2>3. /\ phase = "line" /\ phase' = "line" /\ work' = AppendString(work, t)
          /\ UNCHANGED <<script, sent, whole, failed, lines>>
      BY <1>4, <2>1 DEF ReadChunk, clientVars
    <2>4. ~failed /\ whole /\ InTurn /\ Between /\ InHeader
      BY <2>3 DEF StreamInv
    <2>5. sent = answered + 1
      <3>1. inbox # <<>>
        BY <2>2, EmptyText
      <3>2. QED
        BY <2>3, <2>4, <3>1 DEF InTurn, Between
    <2>6. PICK r \in Request :
              r = Current /\ Framed(r) /\ \A i \in 1 .. Len(r.body) : r.body[i] # NUL
      BY <2>5, CurrentIs
    <2>7. Current' = r
      BY <2>3, <2>6 DEF Current
    <2>8. work \o inbox = Heads(r)[Len(lines)] \o r.body
      BY <2>3, <2>4, <2>5, <2>6 DEF PayloadInv
    <2>9. Len(lines) \in 0 .. Len(r.lines)
      <3>1. Len(lines) <= Len(r.lines)
        BY <2>3, <2>4, <2>5, <2>6 DEF InHeader, Partly
      <3>2. QED
        BY <3>1, RequestText, LenProperties DEF TypeOK
    <2>10. PICK x : x = work \o inbox
      OBVIOUS
    <2>11. \A i \in 1 .. Len(x) : x[i] # NUL
      <3>1. \A i \in 1 .. Len(Heads(r)[Len(lines)] \o r.body) : (Heads(r)[Len(lines)] \o r.body)[i] # NUL
        BY <2>6, <2>9, PlainWire
      <3>2. QED
        BY ONLY <2>8, <2>10, <3>1
    <2>12. \A i \in 1 .. Len(inbox) : inbox[i] # NUL
      <3>1. work \in Text /\ inbox \in Text
        BY DEF TypeOK
      <3>2. QED
        BY ONLY <2>10, <2>11, <3>1, PlainEnd
    <2>13. PICK u : u = inbox'
      OBVIOUS
    <2>14. AppendString(work, t) \o u = work \o inbox
      <3>1. work \in Text /\ t \in Text /\ u \in Text /\ inbox = t \o u
        BY <2>2, <2>13 DEF TypeOK
      <3>2. \A i \in 1 .. Len(t \o u) : (t \o u)[i] # NUL
        BY ONLY <2>12, <3>1
      <3>3. AppendString(work, t) = work \o t /\ (work \o t) \o u = work \o (t \o u)
        BY ONLY <3>1, <3>2, PlainAppend
      <3>4. QED
        BY ONLY <3>1, <3>3
    <2>15. work' \o inbox' = Heads(r)[Len(lines')] \o r.body
      BY ONLY <2>3, <2>8, <2>13, <2>14
    <2>16. QED
      BY ONLY <2>3, <2>7, <2>15 DEF PayloadInv, Busy
  <1>5. QED
    BY <1>1, <1>2, <1>3, <1>4

LEMMA PayloadLoads ==
    ASSUME TypeOK, Places, FramedScripts, PlainScripts, StreamInv, PayloadInv,
           \/ LoadString \/ LoadFile \/ PayloadLoaded \/ PayloadFails
           \/ \E n \in 1 .. Bulk : ReadPayload(n)
    PROVE  PayloadInv'
  <1> SUFFICES ASSUME ~failed', whole' PROVE PayloadInv'
    BY DEF PayloadInv
  <1>1. /\ UNCHANGED <<script, sent, whole, lines, answered>> /\ phase \in {"route", "string", "file"}
        /\ ~failed
    <2>1. CASE LoadString
      BY <2>1 DEF LoadString, clientVars, requestVars
    <2>2. CASE LoadFile
      BY <2>2 DEF LoadFile, clientVars, requestVars
    <2>3. CASE PayloadLoaded
      BY <2>3 DEF PayloadLoaded, LoadEnds, clientVars, requestVars
    <2>4. ASSUME NEW n \in 1 .. Bulk, ReadPayload(n)
          PROVE  /\ UNCHANGED <<script, sent, whole, lines, answered>> /\ phase \in {"string", "file"}
                 /\ ~failed
      BY <2>4 DEF ReadPayload, clientVars
    <2>5. ~PayloadFails
      BY DEF PayloadFails
    <2>6. QED
      BY <2>1, <2>3, <2>4, <2>5, <2>2
  <1>2. whole /\ InTurn /\ AfterHeader /\ Busy
    BY <1>1 DEF StreamInv, Busy
  <1>3. sent = answered + 1
    BY <1>2 DEF InTurn
  <1>4. PICK r \in Request :
            r = Current /\ Framed(r) /\ \A i \in 1 .. Len(r.body) : r.body[i] # NUL
    BY <1>3, CurrentIs
  <1>5. Current' = r
    BY <1>1, <1>4 DEF Current
  <1>6. ContentLength = Len(r.body)
    BY <1>2, <1>4 DEF AfterHeader, ContentLength, Framed
  <1>7. /\ work \in Text /\ inbox \in Text /\ r.body \in Text /\ left \in Nat
        /\ Len(work) \in Nat /\ Len(inbox) \in Nat /\ Len(r.body) \in Nat
        /\ Len(work \o inbox) = Len(work) + Len(inbox)
    BY RequestText, TextLen, JoinText DEF TypeOK
  <1>8. CASE LoadString \/ LoadFile
    <2>1. phase = "route" /\ load = "none" /\ UNCHANGED <<inbox, work>>
      BY <1>8 DEF LoadString, LoadFile, requestVars
    <2>2. work \o inbox = r.body
      BY <1>1, <1>2, <1>4, <2>1 DEF PayloadInv
    <2>3. Len(work) + Len(inbox) = Len(r.body)
      BY ONLY <1>7, <2>2
    <2>4. StillToRead = Len(inbox)
      BY ONLY <1>6, <1>7, <2>3 DEF StillToRead
    <2>5. CASE LoadString
      <3>1. load' = "string" /\ phase' = "string" /\ left' = Len(inbox') /\ work' \o inbox' = r.body
        BY <2>1, <2>2, <2>4, <2>5 DEF LoadString
      <3>2. QED
        BY ONLY <1>5, <3>1 DEF PayloadInv, Busy
    <2>6. CASE LoadFile /\ ContentLength = 0
      <3>1. load' = "file" /\ phase' = "route"
        BY <2>1, <2>6 DEF LoadFile
      <3>2. r.body = <<>>
        BY <1>4, <1>6, <2>6, RequestText, TextLen
      <3>3. QED
        BY ONLY <1>5, <3>1, <3>2 DEF PayloadInv, Busy
    <2>7. CASE LoadFile /\ ContentLength # 0
      <3>1. FromBuffer = work
        <4>1. ~(Len(work) > ContentLength)
          BY ONLY <1>6, <1>7, <2>3
        <4>2. QED
          BY <4>1 DEF FromBuffer
      <3>2. load' = "file" /\ phase' = "file" /\ left' = Len(inbox') /\ payload' \o inbox' = r.body
        BY <2>1, <2>2, <2>4, <2>7, <3>1 DEF LoadFile
      <3>3. QED
        BY ONLY <1>5, <3>2 DEF PayloadInv, Busy
    <2>8. QED
      BY <1>8, <2>5, <2>6, <2>7
  <1>9. ASSUME NEW n \in 1 .. Bulk, ReadPayload(n) PROVE PayloadInv'
    <2>1. PICK t : t = Taken(n)
      OBVIOUS
    <2>2. PICK u : u = inbox'
      OBVIOUS
    <2>3. t \in Text /\ u \in Text /\ inbox = t \o u /\ Len(u) = Len(inbox) - n
      <3>1. Least(Bulk, left) \in Nat /\ inbox \in Text
        BY DEF Least, TypeOK
      <3>2. Takes(n, Least(Bulk, left))
        BY <1>9 DEF ReadPayload
      <3>3. Taken(n) \in Text /\ inbox' \in Text /\ inbox = Taken(n) \o inbox' /\ Len(inbox') = Len(inbox) - n
        BY ONLY <3>1, <3>2, TakesText
      <3>4. QED
        BY ONLY <2>1, <2>2, <3>3
    <2>4. /\ phase \in {"string", "file"} /\ phase' = phase /\ left' = left - n /\ load' = load
          /\ phase = "string" => work' = AppendString(work, t)
          /\ phase = "file" => payload' = payload \o t
      BY <1>9, <2>1 DEF ReadPayload
    <2>5. CASE phase = "string"
      <3>1. load = "string" /\ work \o inbox = r.body /\ left = Len(inbox)
        BY <1>1, <1>2, <1>4, <2>5 DEF PayloadInv
      <3>2. PICK x : x = r.body
        OBVIOUS
      <3>3. \A i \in 1 .. Len(inbox) : inbox[i] # NUL
        <4>1. /\ work \in Text /\ inbox \in Text /\ x = work \o inbox
              /\ \A i \in 1 .. Len(x) : x[i] # NUL
          BY <1>4, <1>7, <3>1, <3>2
        <4>2. QED
          BY ONLY <4>1, PlainEnd
      <3>4. AppendString(work, t) \o u = r.body
        <4>1. \A i \in 1 .. Len(t \o u) : (t \o u)[i] # NUL
          BY ONLY <2>3, <3>3
        <4>2. AppendString(work, t) = work \o t /\ (work \o t) \o u = work \o (t \o u)
          <5>1. work \in Text /\ t \in Text /\ u \in Text
            BY <1>7, <2>3
          <5>2. QED
            BY ONLY <4>1, <5>1, PlainAppend
        <4>3. QED
          BY ONLY <2>3, <3>1, <4>2
      <3>5. /\ phase' = "string" /\ load' = "string" /\ left' = Len(inbox')
            /\ work' \o inbox' = r.body
        BY ONLY <2>2, <2>3, <2>4, <2>5, <3>1, <3>4
      <3>6. QED
        BY ONLY <1>5, <3>5 DEF PayloadInv, Busy
    <2>6. CASE phase = "file"
      <3>1. load = "file" /\ payload \o inbox = r.body /\ left = Len(inbox)
        BY <1>1, <1>2, <1>4, <2>6 DEF PayloadInv
      <3>2. (payload \o t) \o u = payload \o (t \o u)
        <4>1. payload \in Text
          BY <2>6 DEF Places
        <4>2. QED
          BY <2>3, <4>1, JoinThree
      <3>3. (payload \o t) \o u = r.body
        BY ONLY <2>3, <3>1, <3>2
      <3>4. /\ phase' = "file" /\ load' = "file" /\ left' = Len(inbox')
            /\ payload' \o inbox' = r.body
        BY ONLY <2>2, <2>3, <2>4, <2>6, <3>1, <3>3
      <3>5. QED
        BY ONLY <1>5, <3>4 DEF PayloadInv, Busy
    <2>7. QED
      BY <2>4, <2>5, <2>6
  <1>10. CASE PayloadLoaded
    <2>1. /\ phase \in {"string", "file"} /\ (left = 0 \/ inbox = <<>>)
          /\ payload' = IF phase = "string" THEN FromBuffer ELSE IF left = 0 THEN payload ELSE None
          /\ phase' = "route" /\ load' = load
      BY <1>10 DEF PayloadLoaded, LoadEnds, EndOfStream
    <2>2. CASE phase = "string"
      <3>1. load = "string" /\ work \o inbox = r.body /\ left = Len(inbox)
        BY <1>1, <1>2, <1>4, <2>2 DEF PayloadInv
      <3>2. inbox = <<>>
        BY <1>7, <2>1, <3>1, TextLen
      <3>3. work = r.body
        BY <1>7, <3>1, <3>2, JoinEmpty
      <3>4. FromBuffer = r.body
        <4>1. ~(Len(work) > ContentLength)
          BY ONLY <1>6, <1>7, <3>3
        <4>2. QED
          BY <3>3, <4>1 DEF FromBuffer
      <3>5. payload' = r.body /\ load' = "string" /\ phase' = "route"
        BY <2>1, <2>2, <3>1, <3>4
      <3>6. QED
        BY ONLY <1>5, <3>5 DEF PayloadInv, Busy
    <2>3. CASE phase = "file"
      <3>1. load = "file" /\ payload \o inbox = r.body /\ left = Len(inbox)
        BY <1>1, <1>2, <1>4, <2>3 DEF PayloadInv
      <3>2. inbox = <<>> /\ left = 0
        BY <1>7, <2>1, <3>1, TextLen, EmptyText
      <3>3. payload \in Text
        BY <2>3 DEF Places
      <3>4. payload = r.body
        BY <3>1, <3>2, <3>3, JoinEmpty
      <3>5. payload' = r.body /\ load' = "file" /\ phase' = "route"
        BY <2>1, <2>3, <3>1, <3>2, <3>4
      <3>6. QED
        BY ONLY <1>5, <3>5 DEF PayloadInv, Busy
    <2>4. QED
      BY <2>1, <2>2, <2>3
  <1>11. CASE PayloadFails
    BY <1>11 DEF PayloadFails
  <1>12. QED
    BY <1>8, <1>9, <1>10, <1>11

LEMMA PayloadAnswer ==
    ASSUME TypeOK, StreamInv, PayloadInv,
           \/ NoAnswer \/ WriteFails \/ WriteContent \/ FinishResponse
           \/ \E r \in Responses, close \in BOOLEAN : Answer(r, close)
           \/ \E n \in 1 .. left : WriteSome(n)
    PROVE  PayloadInv'
  <1> SUFFICES ASSUME ~failed', whole' PROVE PayloadInv'
    BY DEF PayloadInv
  <1>1. CASE NoAnswer
    <2>1. phase' = "over"
      BY <1>1 DEF NoAnswer
    <2>2. QED
      BY ONLY <2>1 DEF PayloadInv, Busy
  <1>2. ASSUME \/ WriteFails \/ WriteContent
               \/ \E r \in Responses, close \in BOOLEAN : Answer(r, close)
               \/ \E n \in 1 .. left : WriteSome(n)
        PROVE  PayloadInv'
    <2>1. /\ phase \in {"route", "write"} /\ phase' = "write"
          /\ UNCHANGED <<script, sent, whole, inbox, failed, work, load, payload>>
      BY <1>2 DEF WriteFails, WriteContent, Answer, WriteSome, clientVars, requestVars, payloadVars
    <2>2. PICK r : r = Current
      OBVIOUS
    <2>3. Current' = r
      BY <2>1, <2>2 DEF Current
    <2>4. /\ load = "none" => work \o inbox = r.body
          /\ load = "string" => payload = r.body
          /\ load = "file" /\ r.body # <<>> => payload = r.body
      BY <2>1, <2>2 DEF PayloadInv, Busy
    <2>5. /\ load' = "none" => work' \o inbox' = r.body
          /\ load' = "string" => payload' = r.body
          /\ load' = "file" /\ r.body # <<>> => payload' = r.body
      BY ONLY <2>1, <2>4
    <2>6. QED
      BY ONLY <2>1, <2>3, <2>5 DEF PayloadInv, Busy
  <1>3. CASE FinishResponse
    <2>1. /\ phase = "write" /\ answered' = answered + 1 /\ phase' \in {"over", "line"}
          /\ UNCHANGED <<sent, failed>>
      BY <1>3 DEF FinishResponse, clientVars
    <2>2. sent' # answered' + 1
      BY <2>1 DEF StreamInv, InTurn, Busy, TypeOK
    <2>3. QED
      BY ONLY <2>1, <2>2 DEF PayloadInv, Busy
  <1>4. QED
    BY <1>1, <1>2, <1>3

LEMMA PayloadKept ==
    ASSUME TypeOK, Places, FramedScripts, PlainScripts, StreamInv, PayloadInv, [Next]_vars
    PROVE  PayloadInv'
  <1>1. CASE UNCHANGED vars
    BY <1>1 DEF PayloadInv, Busy, Current, vars, clientVars, requestVars, payloadVars
  <1>2. CASE Next
    BY <1>2, PayloadClient, PayloadHeader, PayloadLoads, PayloadAnswer
    DEF Next, Server, Reads, Routes, Writes, Fails
  <1>3. QED
    BY <1>1, <1>2

LEMMA PayloadInit == Init => PayloadInv
  <1>1. ASSUME Init PROVE phase = "line" /\ sent # answered + 1
    BY <1>1 DEF Init
  <1>2. QED
    BY ONLY <1>1 DEF PayloadInv, Busy

\* For requests that are framed and whose bodies have no NUL, the payload a
\* route gets is the body that was sent (hs_types.c:308-434).
THEOREM PayloadAsSentHolds ==
    ASSUME FramedScripts, PlainScripts PROVE Spec => []PayloadAsSent
  <1>1. PayloadInv /\ StreamInv /\ TypeOK /\ Places /\ [Next]_vars => PayloadInv'
    BY PayloadKept
  <1>2. PayloadInv => PayloadAsSent
    BY DEF PayloadInv, Busy, PayloadAsSent
  <1>3. QED
    BY <1>1, <1>2, PayloadInit, StreamInvariance, Invariance, PTL DEF Spec

=============================================================================
