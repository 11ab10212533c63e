------------------------------ MODULE TextProofs ------------------------------
(***************************************************************************)
(* What MCText checks for texts up to a bound, for texts of every length   *)
(* and over every alphabet: a header line gives its name and value back, a *)
(* line of cookies its cookies, a query its pairs, and a URL or request    *)
(* line its parts (hs_parser.c); paths are matched and mounted by the      *)
(* names in them (hs_route.c, hs_router.c), the links of a listing lead to *)
(* the entries (hs_routes_fs.c), and removing a key from an array of pairs *)
(* removes nothing else (hs_types_array.c).                                *)
(*                                                                         *)
(* A parser is a loop over characters.  Its loop, a recursive function in  *)
(* the model, is restated with its separators as parameters (QueryLoop,    *)
(* CookieLoop, WordLoop); a text is then read piece by piece (Runs), and   *)
(* the state after each piece is known.                                    *)
(***************************************************************************)
EXTENDS MCText, SequenceLemmas

\* The inputs of a behaviour: as many texts as its subject takes, which start
\* with the separator if they are paths.
WellFormed ==
    /\ subject \in Subjects
    /\ parts \in Seq(Seq(Symbols))
    /\ Len(parts) = PartsOf[subject]
    /\ subject = "paths" => \A i \in 1 .. 3 : Rooted(parts[i])
    /\ subject # "paths" => \A i \in 1 .. Len(parts) : parts[i] \in Seq(Alphabet[subject])

-----------------------------------------------------------------------------
\* The inputs are texts of the subject's alphabet, and paths stay rooted.
LEMMA WellFormedAlways == Spec => []WellFormed
  <1>1. Init => WellFormed
    <2> SUFFICES ASSUME Init PROVE WellFormed
      OBVIOUS
    <2>1. subject \in Subjects
      BY DEF Init
    <2>2. CASE subject = "paths"
      <3>1. parts = <<<<Slash>>, <<Slash>>, <<Slash>>>>
        BY <2>2 DEF Init
      <3>2. Slash \in Symbols
        BY Zenon DEF Symbols
      <3>3. parts \in Seq(Seq(Symbols)) /\ Len(parts) = 3
        BY <3>1, <3>2
      <3>4. \A i \in 1 .. 3 : Rooted(parts[i])
        BY <3>1 DEF Rooted
      <3>5. QED
        BY <2>1, <2>2, <3>3, <3>4 DEF WellFormed, PartsOf
    <2>3. CASE subject # "paths"
      <3>1. parts = [i \in 1 .. Len(MaxPart[subject]) |-> <<>>]
        BY <2>3 DEF Init
      <3>2. Len(MaxPart[subject]) = PartsOf[subject] /\ Len(MaxPart[subject]) \in Nat
        BY <2>1, PartsAssumption
      <3>3. <<>> \in Seq(Symbols) /\ <<>> \in Seq(Alphabet[subject])
        BY EmptySeq
      <3>4. /\ parts \in Seq(Seq(Symbols)) /\ Len(parts) = PartsOf[subject]
            /\ \A i \in 1 .. Len(parts) : parts[i] = <<>>
        <4>1. PICK n \in Nat : n = Len(MaxPart[subject])
          BY <3>2
        <4>2. parts = [i \in 1 .. n |-> <<>>]
          BY <3>1, <4>1
        <4>3. parts \in Seq(Seq(Symbols)) /\ Len(parts) = n /\ \A i \in 1 .. n : parts[i] = <<>>
          BY ONLY <3>3, <4>2
        <4>4. QED
          BY <3>2, <4>1, <4>3
      <3>5. QED
        BY <2>1, <2>3, <3>3, <3>4 DEF WellFormed
    <2>4. QED
      BY <2>2, <2>3
  <1>2. WellFormed /\ [Next]_vars => WellFormed'
    <2> SUFFICES ASSUME WellFormed, [Next]_vars PROVE WellFormed'
      OBVIOUS
    <2>1. CASE Next
      <3>1. PICK i \in 1 .. Len(parts), c \in Alphabet[subject] : Grow(i, c)
        BY <2>1 DEF Next
      <3>2. parts[i] \in Seq(Symbols) /\ c \in Symbols
        <4>1. parts[i] \in Seq(Symbols) /\ subject \in Subjects
          BY <3>1, ElementOfSeq DEF WellFormed
        <4>2. c \in Symbols
          BY <3>1, <4>1, Zenon DEF Symbols
        <4>3. QED
          BY <4>1, <4>2
      <3>3. /\ Append(parts[i], c) \in Seq(Symbols)
            /\ Rooted(parts[i]) => Rooted(Append(parts[i], c))
        BY <3>2 DEF Rooted
      <3>4. /\ parts' \in Seq(Seq(Symbols))
            /\ Len(parts') = Len(parts)
            /\ \A j \in 1 .. Len(parts) : parts'[j] = IF j = i THEN Append(parts[i], c) ELSE parts[j]
        <4>1. parts' = [parts EXCEPT ![i] = Append(parts[i], c)]
          BY <3>1 DEF Grow
        <4>2. parts \in Seq(Seq(Symbols))
          BY DEF WellFormed
        <4>3. QED
          BY <3>1, <3>3, <4>1, <4>2, ExceptSeq
      <3>5. subject' = subject
        BY <3>1 DEF Grow
      <3>6. subject = "paths" => \A j \in 1 .. 3 : Rooted(parts'[j])
        <4> SUFFICES ASSUME subject = "paths", NEW j \in 1 .. 3 PROVE Rooted(parts'[j])
          OBVIOUS
        <4>1. Len(parts) = 3 /\ Rooted(parts[j])
          BY DEF WellFormed, PartsOf
        <4>2. parts'[j] = IF j = i THEN Append(parts[i], c) ELSE parts[j]
          BY <3>4, <4>1
        <4>3. QED
          BY <3>3, <4>1, <4>2
      <3>7. ASSUME subject # "paths", NEW j \in 1 .. Len(parts) PROVE parts'[j] \in Seq(Alphabet[subject])
        <4>1. parts[i] \in Seq(Alphabet[subject]) /\ parts[j] \in Seq(Alphabet[subject])
          BY <3>1, <3>7 DEF WellFormed
        <4>2. Append(parts[i], c) \in Seq(Alphabet[subject])
          <5> DEFINE A == Alphabet[subject]
          <5>1. PICK text \in Seq(A), d \in A : text = parts[i] /\ d = c
            BY <3>1, <4>1, Zenon
          <5> HIDE DEF A
          <5>2. Append(text, d) \in Seq(A)
            BY ONLY text \in Seq(A), d \in A
          <5>3. QED
            BY <5>1, <5>2, Zenon DEF A
        <4>3. QED
          BY <3>4, <4>1, <4>2
      <3>8. QED
        BY <3>4, <3>5, <3>6, <3>7 DEF WellFormed
    <2>2. CASE UNCHANGED vars
      BY <2>2 DEF WellFormed, vars, Rooted
    <2>3. QED
      BY <2>1, <2>2
  <1>3. QED
    BY <1>1, <1>2, PTL DEF Spec

-----------------------------------------------------------------------------
\* The greatest of a set of numbers is what Max gives.
LEMMA MaxIs ==
    ASSUME NEW S \in SUBSET Int, NEW m \in S, \A i \in S : i <= m
    PROVE  Max(S) = m
  <1>1. \A i \in S : m >= i
    OBVIOUS
  <1>2. Max(S) \in S /\ \A i \in S : Max(S) >= i
    BY <1>1 DEF Max
  <1>3. Max(S) \in Int /\ Max(S) >= m /\ Max(S) <= m
    BY <1>2
  <1>4. QED
    BY <1>3

\* A text in which a pattern of two does not occur has no place where it
\* starts.
LEMMA NoPlaceOf ==
    ASSUME NEW S, NEW text \in Seq(S), NEW c \in S, NEW d \in S, ~Has(text, <<c, d>>),
           NEW i \in 1 .. Len(text) - 1
    PROVE  ~(text[i] = c /\ text[i + 1] = d)
  <1> SUFFICES ASSUME text[i] = c, text[i + 1] = d PROVE FALSE
    OBVIOUS
  <1>1. Len(text) \in Nat /\ Len(<<c, d>>) = 2
    OBVIOUS
  <1>2. i \in 1 .. Len(text) - Len(<<c, d>>) + 1
    BY <1>1
  <1>3. SubSeq(text, i, i + Len(<<c, d>>) - 1) = <<c, d>>
    <2>1. i + Len(<<c, d>>) - 1 = i + 1 /\ i \in 1 .. Len(text) /\ i + 1 \in i .. Len(text)
      BY <1>1
    <2>2. /\ SubSeq(text, i, i + 1) \in Seq(S)
          /\ Len(SubSeq(text, i, i + 1)) = 2
          /\ SubSeq(text, i, i + 1)[1] = c /\ SubSeq(text, i, i + 1)[2] = d
      BY <2>1
    <2>3. SubSeq(text, i, i + 1) = <<c, d>>
      <3>1. \A k \in 1 .. 2 : SubSeq(text, i, i + 1)[k] = <<c, d>>[k]
        BY <2>2
      <3>2. <<c, d>> \in Seq(S)
        OBVIOUS
      <3>3. QED
        BY <1>1, <2>2, <3>1, <3>2, SeqEqual
    <2>4. QED
      BY <2>1, <2>3
  <1>4. QED
    BY <1>2, <1>3 DEF Has

\* The separator, whose characters are parameters because the provers do not
\* read ":" and " ": where it is in a line, and what its last place cuts the
\* line into.
PlacesOf(c, d, line) == {i \in 2 .. Len(line) - 1 : line[i] = c /\ line[i + 1] = d}

CutBy(c, d, line, name, value) ==
    LET ends == PlacesOf(c, d, line)
    IN  /\ ends # {}
        /\ Before(line, Max(ends)) = name
        /\ After(line, Max(ends) + 1) = value

\* Between a name and a value in which it does not occur, a separator of two
\* different characters is the last one, and cuts the line into the two.
LEMMA LastSeparator ==
    ASSUME NEW S, NEW name \in Seq(S), NEW value \in Seq(S), name # <<>>,
           NEW c \in S, NEW d \in S, c # d, ~Has(value, <<c, d>>)
    PROVE  CutBy(c, d, name \o <<c, d>> \o value, name, value)
  <1> SUFFICES ASSUME NEW line, line = name \o <<c, d>> \o value,
                      NEW ends, ends = {i \in 2 .. Len(line) - 1 : line[i] = c /\ line[i + 1] = d}
               PROVE  /\ ends # {}
                      /\ Before(line, Max(ends)) = name
                      /\ After(line, Max(ends) + 1) = value
    BY Zenon DEF CutBy, PlacesOf
  <1> DEFINE n == Len(name)
             v == Len(value)
  <1>1. n \in Nat \ {0} /\ v \in Nat
    BY EmptySeq, LenProperties
  <1>2. line \in Seq(S) /\ Len(line) = n + 2 + v
    OBVIOUS
  <1>3. /\ \A i \in 1 .. n : line[i] = name[i]
        /\ line[n + 1] = c /\ line[n + 2] = d
        /\ \A i \in 1 .. v : line[n + 2 + i] = value[i]
    BY <1>1
  <1>4. n + 1 \in ends
    BY <1>1, <1>2, <1>3
  <1>5. \A i \in ends : i <= n + 1
    <2> SUFFICES ASSUME NEW i \in ends, ~(i <= n + 1) PROVE FALSE
      OBVIOUS
    <2>1. i \in Int /\ i <= n + 1 + v /\ i > n + 1 /\ line[i] = c /\ line[i + 1] = d
      BY <1>1, <1>2
    <2>2. i # n + 2
      BY <1>3, <2>1
    <2>3. PICK j \in 1 .. v - 1 : i = n + 2 + j
      <3>1. i - n - 2 \in 1 .. v - 1 /\ i = n + 2 + (i - n - 2)
        BY <1>1, <2>1, <2>2
      <3>2. QED
        BY <3>1
    <2>4. value[j] = c /\ value[j + 1] = d
      <3>1. j \in 1 .. v /\ j + 1 \in 1 .. v /\ i + 1 = n + 2 + (j + 1)
        BY <1>1, <2>3
      <3>2. QED
        BY <1>3, <2>1, <2>3, <3>1
    <2>5. QED
      BY <2>3, <2>4, NoPlaceOf
  <1>6. Max(ends) = n + 1
    <2>1. ends \in SUBSET Int
      OBVIOUS
    <2>2. QED
      BY ONLY <1>4, <1>5, <2>1, MaxIs
  <1>7. Before(line, n + 1) = name
    <2>1. Before(line, n + 1) = SubSeq(line, 1, n)
      BY <1>1 DEF Before
    <2>2. SubSeq(line, 1, n) \in Seq(S) /\ Len(SubSeq(line, 1, n)) = n
          /\ \A i \in 1 .. n : SubSeq(line, 1, n)[i] = line[i]
      BY ONLY <1>1, <1>2
    <2>3. QED
      <3>1. \A i \in 1 .. n : SubSeq(line, 1, n)[i] = name[i]
        BY ONLY <1>3, <2>2
      <3>2. SubSeq(line, 1, n) = name
        BY <2>2, <3>1, SeqEqual, Zenon
      <3>3. QED
        BY ONLY <2>1, <3>2
  <1>8. After(line, (n + 1) + 1) = value
    <2>1. After(line, (n + 1) + 1) = SubSeq(line, n + 3, n + 2 + v)
      BY <1>1, <1>2 DEF After
    <2>2. SubSeq(line, n + 3, n + 2 + v) \in Seq(S) /\ Len(SubSeq(line, n + 3, n + 2 + v)) = v
          /\ \A i \in 1 .. v : SubSeq(line, n + 3, n + 2 + v)[i] = line[n + 2 + i]
      BY ONLY <1>1, <1>2
    <2>3. QED
      <3>1. \A i \in 1 .. v : SubSeq(line, n + 3, n + 2 + v)[i] = value[i]
        BY ONLY <1>3, <2>2
      <3>2. SubSeq(line, n + 3, n + 2 + v) = value
        BY <2>2, <3>1, SeqEqual, Zenon
      <3>3. QED
        BY ONLY <2>1, <3>2
  <1>9. QED
    BY ONLY <1>4, <1>6, <1>7, <1>8

\* A header line gives back the name and the value it was written from, of
\* any length and of any characters (hs_parser.c:47-89).
THEOREM HeaderRoundTrip ==
    ASSUME NEW S, NEW name \in Seq(S), NEW value \in Seq(S), ":" \in S, " " \in S,
           name # <<>>, ~Has(value, ColonSpace)
    PROVE  ParseHeader(name \o ColonSpace \o value) = Pair(ToLower(name), OrNull(value))
  <1>1. PICK c \in S, d \in S : c = ":" /\ d = " "
    BY Zenon
  <1>2. ColonSpace = <<c, d>> /\ c # d
    BY <1>1, Zenon DEF ColonSpace
  <1>3. CutBy(c, d, name \o <<c, d>> \o value, name, value)
    BY <1>2, LastSeparator, Zenon
  <1>4. PICK line : line = name \o <<c, d>> \o value
    OBVIOUS
  <1>5. ParseHeader(line) =
          IF PlacesOf(c, d, line) = {} THEN Null
          ELSE Pair(ToLower(Before(line, Max(PlacesOf(c, d, line)))),
                    OrNull(After(line, Max(PlacesOf(c, d, line)) + 1)))
    BY <1>1, Zenon DEF ParseHeader, PlacesOf
  <1>6. QED
    BY <1>2, <1>3, <1>4, <1>5, Zenon DEF CutBy

-----------------------------------------------------------------------------
\* The header lines of every behaviour come back as they were written.
THEOREM HeaderAsWrittenHolds == Spec => []HeaderAsWritten
  <1>1. WellFormed => HeaderAsWritten
    <2> SUFFICES ASSUME WellFormed, subject = "header", parts[1] # <<>>,
                        ~Has(parts[2], ColonSpace)
                 PROVE  ParseHeader(parts[1] \o ColonSpace \o parts[2]) =
                            Pair(ToLower(parts[1]), OrNull(parts[2]))
      BY Zenon DEF HeaderAsWritten
    <2>1. parts \in Seq(Seq(Symbols)) /\ Len(parts) = 2
      BY Zenon DEF WellFormed, PartsOf
    <2>2. parts[1] \in Seq(Symbols) /\ parts[2] \in Seq(Symbols)
      <3>1. 1 \in 1 .. 2 /\ 2 \in 1 .. 2
        OBVIOUS
      <3>2. QED
        BY <2>1, <3>1, ElementOfSeq, Zenon
    <2> DEFINE S == Symbols \cup {":", " "}
    <2>3. Symbols \subseteq S /\ ":" \in S /\ " " \in S
      BY Zenon
    <2> HIDE DEF S
    <2>4. parts[1] \in Seq(S) /\ parts[2] \in Seq(S)
      BY <2>2, <2>3, SeqMonotonic, Zenon
    <2>5. QED
      BY <2>3, <2>4, HeaderRoundTrip, Zenon
  <1>2. QED
    BY <1>1, WellFormedAlways, PTL

-----------------------------------------------------------------------------
\* A text starts with the elements of its prefix.
LEMMA PrefixElements ==
    ASSUME NEW S, NEW s \in Seq(S), NEW prefix \in Seq(S), StartsWith(s, prefix),
           NEW i \in 1 .. Len(prefix)
    PROVE  s[i] = prefix[i]
  <1>1. SubSeq(s, 1, Len(prefix))[i] = s[i]
    BY DEF StartsWith
  <1>2. QED
    BY <1>1 DEF StartsWith

\* A mounted router sees a rooted path whenever its mount matches, so that
\* hs_route_is_supported_path can match the routes in it (hs_router.c:300).
THEOREM RemovePrefixRooted ==
    ASSUME NEW S, NEW path \in Seq(S), NEW res \in Seq(S), Supported(path, TRUE, res)
    PROVE  Rooted(RemovePrefix(path, res))
  <1>0. Len(path) > 0 /\ path[1] = Slash /\ Len(path) \in Nat /\ Len(res) \in Nat
    <2>1. Rooted(path)
      BY DEF Supported
    <2>2. QED
      BY <2>1 DEF Rooted
  <1>1. CASE Len(path) <= 1
    <2>1. Len(path) = 1
      <3>1. \A n \in Nat : n > 0 /\ n <= 1 => n = 1
        OBVIOUS
      <3>2. QED
        BY <1>0, <1>1, <3>1, Zenon
    <2>2. StartsWith(res, path) => res[1] = path[1] /\ Len(res) > 0
      BY <2>1, PrefixElements DEF StartsWith
    <2>3. res = path \/ StartsWith(res, path)
      BY DEF Supported
    <2>4. res[1] = Slash /\ Len(res) > 0
      BY <1>0, <2>2, <2>3
    <2>5. QED
      BY <1>1, <2>4 DEF RemovePrefix, Rooted
  <1>2. CASE Len(path) > 1 /\ Len(path) = Len(res)
    BY <1>2 DEF RemovePrefix, Rooted
  <1>3. CASE Len(path) > 1 /\ Len(path) # Len(res)
    <2> DEFINE from == IF path[Len(path)] = Slash THEN Len(path) ELSE Len(path) + 1
    <2>1. RemovePrefix(path, res) = SubSeq(res, from, Len(res))
      <3>1. CASE path[Len(path)] = Slash
        BY <1>3, <3>1 DEF RemovePrefix
      <3>2. CASE path[Len(path)] # Slash
        BY <1>3, <3>2 DEF RemovePrefix
      <3>3. QED
        BY <3>1, <3>2
    <2>2. Len(res) > Len(path) /\ StartsWith(res, path)
      BY <1>3 DEF Supported
    <2>3. res[Len(path)] = path[Len(path)]
      BY <1>3, <2>2, PrefixElements
    <2>4. res[from] = Slash
      BY <1>3, <2>2, <2>3 DEF Supported
    <2>5. from \in 1 .. Len(res)
      BY <1>3, <2>2
    <2> HIDE DEF from
    <2>6. SubSeq(res, from, Len(res))[1] = res[from] /\ Len(SubSeq(res, from, Len(res))) > 0
      BY <1>0, <2>5
    <2>7. QED
      BY <2>1, <2>4, <2>6 DEF Rooted
  <1>4. QED
    BY <1>1, <1>2, <1>3

-----------------------------------------------------------------------------
\* The names of a path, from its first character to its last.

\* The names of what is read of a path, once one more character is read.
Grown(names, path, i) ==
    IF path[i] = Slash THEN names
    ELSE IF path[i - 1] = Slash THEN Append(names, <<path[i]>>)
    ELSE [names EXCEPT ![Len(names)] = Append(@, path[i])]

IsUpTo(up, S, path) ==
    /\ up \in [0 .. Len(path) -> Seq(Seq(S))]
    /\ up[0] = <<>>
    /\ \A i \in 1 .. Len(path) : up[i] = Grown(up[i - 1], path, i)
    /\ Segments(path) = up[Len(path)]

\* What has been read of a path stays a sequence of names.
LEMMA GrownType ==
    ASSUME NEW S, NEW path \in Seq(S), NEW i \in 1 .. Len(path), NEW names \in Seq(Seq(S))
    PROVE  Grown(names, path, i) \in Seq(Seq(S))
  <1>1. path[i] \in S /\ <<path[i]>> \in Seq(S)
    OBVIOUS
  <1>2. PICK T : T = Seq(S)
    OBVIOUS
  <1>3. names \in Seq(T) /\ \A x \in T : Append(x, path[i]) \in T
    BY <1>1, <1>2
  <1>4. Append(names, <<path[i]>>) \in Seq(T)
    BY <1>1, <1>2
  <1>5. [names EXCEPT ![Len(names)] = Append(@, path[i])] \in Seq(T)
    <2>1. CASE names = <<>>
      <3>1. [names EXCEPT ![Len(names)] = Append(@, path[i])] = <<>>
        BY <2>1
      <3>2. QED
        BY <3>1, EmptySeq, Zenon
    <2>2. CASE names # <<>>
      <3>1. Len(names) \in 1 .. Len(names)
        BY ONLY <1>3, <2>2
      <3>2. Append(names[Len(names)], path[i]) \in T
        BY <1>3, <3>1, ElementOfSeq, Zenon
      <3>3. QED
        BY <1>3, <3>1, <3>2, ExceptSeq, Zenon
    <2>3. QED
      BY <2>1, <2>2
  <1>6. QED
    BY <1>2, <1>3, <1>4, <1>5, Zenon DEF Grown

\* Segments, unfolded.
LEMMA SegmentsDef ==
    ASSUME NEW S, NEW path \in Seq(S)
    PROVE  \E up : IsUpTo(up, S, path)
  <1> DEFINE n == Len(path)
             X == Seq(Seq(S))
  <1>1. n \in Nat /\ <<>> \in X
    BY EmptySeq, LenProperties
  <1>2. PICK step : step = [i \in 1 .. n |-> [names \in X |-> Grown(names, path, i)]]
    OBVIOUS
  <1>3. step \in [1 .. n -> [X -> X]]
    <2>1. \A i \in 1 .. n : [names \in X |-> Grown(names, path, i)] \in [X -> X]
      BY GrownType
    <2> HIDE DEF X
    <2>2. QED
      BY ONLY <1>2, <2>1
  <1> HIDE DEF X
  <1>4. PICK f \in [0 .. n -> X] : f[0] = <<>> /\ \A i \in 1 .. n : f[i] = step[i][f[i - 1]]
    <2>1. \E f : Iterates(f, X, <<>>, n, step)
      BY <1>1, <1>3, IterationExists, Zenon
    <2>2. QED
      BY <2>1, Zenon DEF Iterates
  <1>5. \A i \in 1 .. n : f[i] = Grown(f[i - 1], path, i)
    <2> SUFFICES ASSUME NEW i \in 1 .. n PROVE f[i] = Grown(f[i - 1], path, i)
      OBVIOUS
    <2>1. f[i - 1] \in X
      BY <1>1
    <2>2. step[i][f[i - 1]] = Grown(f[i - 1], path, i)
      BY <1>2, <2>1
    <2>3. QED
      BY <1>4, <2>2
  <1> DEFINE Reads(g) == g = [i \in 0 .. n |-> IF i = 0 THEN <<>> ELSE Grown(g[i - 1], path, i)]
  <1>6. Reads(f)
    <2>1. \A i \in 0 .. n : f[i] = IF i = 0 THEN <<>> ELSE Grown(f[i - 1], path, i)
      <3>1. \A i \in 0 .. n : i = 0 \/ i \in 1 .. n
        BY <1>1
      <3>2. QED
        BY <1>4, <1>5, <3>1, Zenon
    <2>2. f = [i \in 0 .. n |-> f[i]]
      OBVIOUS
    <2>3. QED
      BY <2>1, <2>2, Zenon
  <1>7. PICK g : g = CHOOSE h : Reads(h)
    OBVIOUS
  <1>8. Reads(g)
    BY <1>6, <1>7, Zenon
  <1>9. Segments(path) = g[n]
    BY <1>7, Zenon DEF Segments, Grown
  <1>10. \A i \in 0 .. n : g[i] = IF i = 0 THEN <<>> ELSE Grown(g[i - 1], path, i)
    BY <1>8, Zenon
  <1> DEFINE Bad == {i \in Nat : i <= n /\ g[i] # f[i]}
  <1>11. Bad = {}
    <2> SUFFICES ASSUME Bad # {} PROVE FALSE
      OBVIOUS
    <2>1. PICK i \in Bad : \A j \in Bad : i <= j
      <3>1. Bad \in SUBSET Nat
        OBVIOUS
      <3>2. QED
        BY ONLY <3>1, Bad # {}, HasMin
    <2>2. i \in 0 .. n /\ (i = 0 \/ (i \in 1 .. n /\ i - 1 \notin Bad /\ i - 1 \in Nat /\ i - 1 <= n))
      BY <1>1, <2>1
    <2>3. i = 0 \/ g[i - 1] = f[i - 1]
      BY <2>2
    <2>4. 0 \in 0 .. n
      BY <1>1
    <2>5. g[i] = f[i]
      BY <1>4, <1>5, <1>10, <2>2, <2>3, <2>4, Zenon
    <2>6. QED
      BY <2>1, <2>5
  <1>12. g[n] = f[n]
    BY <1>1, <1>11
  <1>13. QED
    BY <1>4, <1>5, <1>9, <1>12, Zenon DEF IsUpTo, X

\* The names of a path are texts.
LEMMA SegmentsType ==
    ASSUME NEW S, NEW path \in Seq(S)
    PROVE  Segments(path) \in Seq(Seq(S))
  <1>1. PICK up : IsUpTo(up, S, path)
    BY SegmentsDef
  <1>2. Len(path) \in 0 .. Len(path)
    BY LenProperties
  <1>3. QED
    BY <1>1, <1>2, Zenon DEF IsUpTo

\* The only name of "/" is none.
LEMMA NoNames ==
    ASSUME NEW S, Slash \in S
    PROVE  Segments(<<Slash>>) = <<>>
  <1>1. <<Slash>> \in Seq(S) /\ Len(<<Slash>>) = 1 /\ <<Slash>>[1] = Slash
    OBVIOUS
  <1>2. PICK up : IsUpTo(up, S, <<Slash>>)
    BY <1>1, SegmentsDef
  <1>3. 1 \in 1 .. 1 /\ 1 - 1 = 0
    OBVIOUS
  <1>4. QED
    BY <1>1, <1>2, <1>3, Zenon DEF IsUpTo, Grown

GrownAlike(names, more, r, i, q, j) ==
    /\ Grown(names \o more, r, i) = names \o Grown(more, q, j)
    /\ q[j] # Slash => Grown(more, q, j) # <<>>

\* One more character is read of a path that goes on with another one as it
\* is of the other one.
LEMMA GrownConcat ==
    ASSUME NEW S, NEW T, T = Seq(S), NEW names \in Seq(T), NEW more \in Seq(T),
           NEW r, NEW i, NEW q, NEW j, r[i] = q[j], q[j] \in S,
           q[j] # Slash => r[i - 1] = q[j - 1],
           q[j] # Slash /\ q[j - 1] # Slash => more # <<>>
    PROVE  GrownAlike(names, more, r, i, q, j)
  <1>1. T = Seq(S)
    OBVIOUS
  <1>2. names \in Seq(T) /\ more \in Seq(T)
    OBVIOUS
  <1>3. CASE q[j] = Slash
    BY <1>3, Zenon DEF Grown, GrownAlike
  <1>4. CASE q[j] # Slash /\ q[j - 1] = Slash
    <2>1. Grown(names \o more, r, i) = Longer(names \o more, <<q[j]>>)
          /\ Grown(more, q, j) = Longer(more, <<q[j]>>)
      BY <1>4 DEF Grown, Longer
    <2>2. <<q[j]>> \in T
      BY <1>1
    <2>3. Longer(names \o more, <<q[j]>>) = names \o Longer(more, <<q[j]>>)
          /\ Longer(more, <<q[j]>>) # <<>>
      <3>1. PICK y \in T : y = <<q[j]>>
        BY <2>2, Zenon
      <3>2. LongerAlike(names, more, y)
        BY <1>2, LongerConcat, Zenon
      <3>3. Longer(names \o more, y) = names \o Longer(more, y) /\ Longer(more, y) # <<>>
        BY <3>2, Zenon DEF LongerAlike
      <3>4. QED
        BY <3>1, <3>2, <3>3, Zenon
    <2>4. QED
      BY <2>1, <2>3, Zenon DEF GrownAlike
  <1>5. CASE q[j] # Slash /\ q[j - 1] # Slash
    <2>1. /\ Grown(names \o more, r, i)
               = [(names \o more) EXCEPT ![Len(names \o more)] = Append(@, q[j])]
          /\ Grown(more, q, j) = [more EXCEPT ![Len(more)] = Append(@, q[j])]
      BY <1>5, Zenon DEF Grown
    <2>2. more # <<>>
      BY <1>5
    <2>3. PICK last \in Seq(S) : last = more[Len(more)]
      <3>1. Len(more) \in 1 .. Len(more)
        BY <2>2, EmptySeq
      <3>2. more[Len(more)] \in Seq(S)
        BY <1>1, <3>1, ElementOfSeq, Zenon
      <3>3. QED
        BY <3>2, Zenon
    <2>4. PICK y : y = Append(last, q[j])
      OBVIOUS
    <2>5. y \in T
      BY <1>1, <2>4
    <2>6. /\ [(names \o more) EXCEPT ![Len(names \o more)] = y]
                = names \o [more EXCEPT ![Len(more)] = y]
          /\ (names \o more)[Len(names \o more)] = last
      BY ONLY <1>2, <2>2, <2>3, <2>5, ExtendLast
    <2>7. [more EXCEPT ![Len(more)] = y] # <<>>
      <3>1. Len(more) \in 1 .. Len(more) /\ Len(more) # 0
        BY <2>2, EmptySeq
      <3>2. Len([more EXCEPT ![Len(more)] = y]) # 0
        BY <1>2, <2>5, <3>1, ExceptSeq
      <3>3. QED
        BY <3>2
    <2>8. Append((names \o more)[Len(names \o more)], q[j]) = y /\ Append(more[Len(more)], q[j]) = y
      BY <2>3, <2>4, <2>6
    <2>9. QED
      BY <2>1, <2>6, <2>7, <2>8, Zenon DEF GrownAlike
  <1>6. QED
    BY <1>3, <1>4, <1>5, Zenon

\* A path that goes on with another one has the names of both.
LEMMA SegmentsConcat ==
    ASSUME NEW S, NEW p \in Seq(S), NEW q \in Seq(S), Rooted(p), Rooted(q)
    PROVE  Segments(p \o q) = Segments(p) \o Segments(q)
  <1> DEFINE m == Len(p)
             n == Len(q)
  <1>1. m \in Nat \ {0} /\ n \in Nat \ {0} /\ p[1] = Slash /\ q[1] = Slash
    BY LenProperties DEF Rooted
  <1>2. PICK r \in Seq(S) : r = p \o q
    BY ConcatProperties
  <1>3. /\ Len(r) = m + n
        /\ \A i \in 1 .. m : r[i] = p[i]
        /\ \A j \in 1 .. n : r[m + j] = q[j]
    BY <1>1, <1>2
  <1>4. PICK up : IsUpTo(up, S, p)
    BY SegmentsDef
  <1>5. PICK uq : IsUpTo(uq, S, q)
    BY SegmentsDef
  <1>6. PICK u : IsUpTo(u, S, r)
    BY SegmentsDef
  <1> DEFINE Bad == {i \in Nat : i <= m /\ u[i] # up[i]}
  <1>7. Bad = {}
    <2> SUFFICES ASSUME Bad # {} PROVE FALSE
      OBVIOUS
    <2>1. PICK i \in Bad : \A j \in Bad : i <= j
      <3>1. Bad \in SUBSET Nat
        OBVIOUS
      <3>2. QED
        BY ONLY <3>1, Bad # {}, HasMin
    <2>2. i # 0
      BY <1>4, <1>6, <2>1, Zenon DEF IsUpTo
    <2>3. /\ i \in 1 .. m /\ i \in 1 .. m + n /\ i - 1 \in Nat /\ i - 1 <= m
          /\ i - 1 \notin Bad /\ (i = 1 \/ i - 1 \in 1 .. m)
      BY <1>1, <2>1, <2>2
    <2>4. u[i - 1] = up[i - 1]
      BY <2>3
    <2>5. r[i] = p[i] /\ (i = 1 \/ r[i - 1] = p[i - 1])
      BY <1>3, <2>3, Zenon
    <2>6. Grown(up[i - 1], r, i) = Grown(up[i - 1], p, i)
      BY <1>1, <2>5, Zenon DEF Grown
    <2>7. u[i] = Grown(u[i - 1], r, i) /\ up[i] = Grown(up[i - 1], p, i)
      BY <1>3, <1>4, <1>6, <2>3, Zenon DEF IsUpTo
    <2>8. QED
      BY <2>1, <2>4, <2>6, <2>7
  <1>8. u[m] = up[m]
    BY <1>1, <1>7
  <1> DEFINE Good(j) == /\ u[m + j] = up[m] \o uq[j]
                        /\ j # 0 /\ q[j] # Slash => uq[j] # <<>>
  <1>9. up[m] \in Seq(Seq(S)) /\ \A j \in 0 .. n : uq[j] \in Seq(Seq(S))
    <2>1. m \in 0 .. m
      BY <1>1
    <2>2. QED
      BY <1>4, <1>5, <2>1, Zenon DEF IsUpTo
  <1>10. Good(0)
    <2>1. uq[0] = <<>> /\ m + 0 = m
      BY <1>1, <1>5 DEF IsUpTo
    <2>2. up[m] \o <<>> = up[m]
      BY <1>9, ConcatEmptySeq, Zenon
    <2>3. QED
      BY <1>8, <2>1, <2>2, Zenon
  <1>11. ASSUME NEW j \in 1 .. n, Good(j - 1) PROVE Good(j)
    <2>1. PICK k \in 0 .. n : k = j - 1 /\ m + k = (m + j) - 1 /\ m + j \in 1 .. m + n
      <3>1. j - 1 \in 0 .. n /\ m + (j - 1) = (m + j) - 1 /\ m + j \in 1 .. m + n
        BY <1>1
      <3>2. QED
        BY <3>1
    <2>2. up[m] \in Seq(Seq(S)) /\ uq[k] \in Seq(Seq(S))
      BY <1>9, <2>1
    <2>3. /\ u[m + j] = Grown(up[m] \o uq[k], r, m + j)
          /\ uq[j] = Grown(uq[k], q, j)
      <3>1. u[m + j] = Grown(u[(m + j) - 1], r, m + j) /\ uq[j] = Grown(uq[j - 1], q, j)
        BY <1>3, <1>5, <1>6, <2>1, Zenon DEF IsUpTo
      <3>2. QED
        BY <1>11, <2>1, <3>1, Zenon
    <2>4. r[m + j] = q[j] /\ q[j] \in S
      BY <1>3
    <2>5. q[j] # Slash => k \in 1 .. n /\ k # 0
      BY <1>1, <2>1
    <2>6. q[j] # Slash => r[(m + j) - 1] = q[j - 1]
      BY <1>3, <2>1, <2>5, Zenon
    <2>7. q[j] # Slash /\ q[j - 1] # Slash => uq[k] # <<>>
      BY <1>11, <2>1, <2>5, Zenon
    <2>8. /\ Grown(up[m] \o uq[k], r, m + j) = up[m] \o Grown(uq[k], q, j)
          /\ q[j] # Slash => Grown(uq[k], q, j) # <<>>
      <3>1. PICK T : T = Seq(S)
        OBVIOUS
      <3>2. up[m] \in Seq(T) /\ uq[k] \in Seq(T)
        BY <2>2, <3>1, Zenon
      <3>3. QED
        <4>1. GrownAlike(up[m], uq[k], r, m + j, q, j)
          <5>1. k = j - 1
            BY <2>1
          <5>2. QED
            BY <2>4, <2>6, <2>7, <3>1, <3>2, GrownConcat, Zenon
        <4>2. QED
          BY <4>1, Zenon DEF GrownAlike
    <2>9. QED
      BY <2>3, <2>8, Zenon
  <1> HIDE DEF Good
  <1> DEFINE BadAfter == {j \in Nat : j <= n /\ ~Good(j)}
  <1>12. BadAfter = {}
    <2> SUFFICES ASSUME BadAfter # {} PROVE FALSE
      OBVIOUS
    <2>1. PICK j \in BadAfter : \A i \in BadAfter : j <= i
      <3>1. BadAfter \in SUBSET Nat
        OBVIOUS
      <3>2. QED
        BY ONLY <3>1, BadAfter # {}, HasMin
    <2>2. j \in 1 .. n /\ j - 1 \in Nat /\ j - 1 <= n /\ j - 1 \notin BadAfter
      BY <1>1, <1>10, <2>1
    <2>3. QED
      BY <1>11, <2>1, <2>2
  <1>13. Good(n)
    BY <1>1, <1>12
  <1>14. Segments(r) = u[m + n] /\ Segments(p) = up[m] /\ Segments(q) = uq[n]
    BY <1>3, <1>4, <1>5, <1>6, Zenon DEF IsUpTo
  <1>15. QED
    BY <1>2, <1>13, <1>14, Zenon DEF Good

\* A text falls into what precedes a place in it and the rest.
LEMMA SplitAt ==
    ASSUME NEW S, NEW s \in Seq(S), NEW k \in 0 .. Len(s)
    PROVE  /\ s = SubSeq(s, 1, k) \o SubSeq(s, k + 1, Len(s))
           /\ SubSeq(s, 1, k) \in Seq(S)
           /\ SubSeq(s, k + 1, Len(s)) \in Seq(S)
           /\ Len(SubSeq(s, 1, k)) = k
           /\ \A i \in 1 .. k : SubSeq(s, 1, k)[i] = s[i]
           /\ k > 0 => SubSeq(s, 1, k)[1] = s[1]
           /\ k > 0 => SubSeq(s, k, k) = <<s[k]>>
           /\ k < Len(s) => Rooted(SubSeq(s, k + 1, Len(s))) <=> s[k + 1] = Slash
  <1>1. Len(s) \in Nat /\ k \in 1 - 1 .. Len(s) /\ 1 \in 1 .. Len(s) + 1 /\ Len(s) \in k .. Len(s)
    BY LenProperties
  <1>2. SubSeq(s, 1, k) \o SubSeq(s, k + 1, Len(s)) = s
    BY <1>1, ConcatAdjacentSubSeq, SubSeqFull
  <1>3. /\ SubSeq(s, 1, k) \in Seq(S) /\ SubSeq(s, k + 1, Len(s)) \in Seq(S)
        /\ Len(SubSeq(s, 1, k)) = k
        /\ \A i \in 1 .. k : SubSeq(s, 1, k)[i] = s[i]
        /\ k > 0 => SubSeq(s, 1, k)[1] = s[1]
    BY <1>1
  <1>6. k > 0 => SubSeq(s, k, k) = <<s[k]>>
    <2> SUFFICES ASSUME k > 0 PROVE SubSeq(s, k, k) = <<s[k]>>
      OBVIOUS
    <2>1. k \in 1 .. Len(s) /\ k \in k .. Len(s) /\ k \in Int /\ k + 1 \in Int /\ k < k + 1
          /\ k \in 1 .. k
      BY <1>1
    <2>2. SubSeq(s, k, k) = <<s[k]>> \o SubSeq(s, k + 1, k)
      BY <2>1, SubSeqRecursiveFirst, Zenon
    <2>3. SubSeq(s, k + 1, k) = <<>>
      BY <2>1, SubSeqEmpty, Zenon
    <2>4. <<s[k]>> \in Seq(S)
      BY <2>1
    <2>5. QED
      BY <2>2, <2>3, <2>4, ConcatEmptySeq, Zenon
  <1>4. k < Len(s) => Rooted(SubSeq(s, k + 1, Len(s))) <=> s[k + 1] = Slash
    BY <1>1 DEF Rooted
  <1>5. QED
    BY <1>2, <1>3, <1>4, <1>6

\* The mounted router sees a text.
LEMMA SeenType ==
    ASSUME NEW S, Slash \in S, NEW path \in Seq(S), NEW res \in Seq(S)
    PROVE  RemovePrefix(path, res) \in Seq(S)
  <1>1. Len(path) \in Nat /\ Len(res) \in Nat /\ <<Slash>> \in Seq(S)
    BY LenProperties
  <1>2. \A from \in 1 .. Len(res) + 1 : SubSeq(res, from, Len(res)) \in Seq(S)
    BY <1>1
  <1>3. QED
    BY <1>1, <1>2 DEF RemovePrefix

\* The names of a resource are those of the mount that it is below and those
\* of what the mounted router sees.
LEMMA SeenSegments ==
    ASSUME NEW S, Slash \in S, NEW path \in Seq(S), NEW res \in Seq(S),
           Supported(path, TRUE, res)
    PROVE  Segments(res) = Segments(path) \o Segments(RemovePrefix(path, res))
  <1> DEFINE n == Len(path)
             k == Len(res)
  <1>1. n \in Nat \ {0} /\ k \in Nat /\ path[1] = Slash
    BY LenProperties DEF Supported, Rooted
  <1>2. Segments(path) \in Seq(Seq(S)) /\ Segments(res) \in Seq(Seq(S))
    BY SegmentsType, Zenon
  <1>3. CASE n = 1
    <2>1. path = <<Slash>> /\ RemovePrefix(path, res) = res
      BY <1>1, <1>3 DEF RemovePrefix
    <2>2. Segments(path) = <<>>
      BY <2>1, NoNames, Zenon
    <2>3. QED
      BY <1>2, <2>1, <2>2, ConcatEmptySeq, Zenon
  <1>4. CASE n # 1 /\ n = k
    <2>1. path = res
      BY <1>1, <1>4 DEF Supported
    <2>2. RemovePrefix(path, res) = <<Slash>>
      BY <1>1, <1>4 DEF RemovePrefix
    <2>3. Segments(RemovePrefix(path, res)) = <<>>
      BY <2>2, NoNames, Zenon
    <2>4. QED
      BY <1>2, <2>1, <2>3, ConcatEmptySeq, Zenon
  <1>5. CASE n # 1 /\ n # k
    <2>1. n < k /\ StartsWith(res, path) /\ (res[n] = Slash \/ res[n + 1] = Slash)
      BY <1>5 DEF Supported
    <2>2. n \in 1 .. n /\ 1 \in 1 .. n /\ n \in 0 .. k /\ n - 1 \in 0 .. k /\ n - 1 \in 0 .. n
          /\ n \in 0 .. n /\ (n - 1) + 1 = n /\ n - 1 < k /\ n - 1 < n /\ n - 1 > 0 /\ n > 0
      <3>1. n < k /\ n # 1
        BY <1>5, <2>1
      <3>2. \A a, b \in Nat : a < b /\ a # 1 /\ a # 0 =>
                a \in 1 .. a /\ 1 \in 1 .. a /\ a \in 0 .. b /\ a - 1 \in 0 .. b /\ a - 1 \in 0 .. a
                /\ a \in 0 .. a /\ (a - 1) + 1 = a /\ a - 1 < b /\ a - 1 < a /\ a - 1 > 0 /\ a > 0
        OBVIOUS
      <3>3. n \in Nat /\ k \in Nat /\ n # 0
        BY <1>1
      <3>4. QED
        BY <3>1, <3>2, <3>3, Zenon
    <2>3. res[n] = path[n] /\ res[1] = path[1]
      BY <1>1, <2>1, <2>2, PrefixElements
    <2>4. SubSeq(res, 1, n) = path
      BY <2>1 DEF StartsWith
    <2>5. CASE path[n] # Slash
      <3>1. RemovePrefix(path, res) = SubSeq(res, n + 1, k)
        BY <1>1, <1>5, <2>5 DEF RemovePrefix
      <3>2. PICK q \in Seq(S) : q = SubSeq(res, n + 1, k)
        BY <2>2, SplitAt, Zenon
      <3>3. res = path \o q
        BY <2>2, <2>4, <3>2, SplitAt, Zenon
      <3>4. Rooted(q) /\ Rooted(path)
        <4>1. res[n + 1] = Slash
          BY <2>1, <2>3, <2>5
        <4>2. QED
          BY <2>1, <2>2, <3>2, <4>1, SplitAt, Zenon DEF Supported
      <3>5. QED
        BY <3>1, <3>2, <3>3, <3>4, SegmentsConcat, Zenon
    <2>6. CASE path[n] = Slash
      <3>1. RemovePrefix(path, res) = SubSeq(res, n, k)
        <4>1. RemovePrefix(path, res) = SubSeq(res, n + 0, k) /\ n + 0 = n
          BY <1>1, <1>5, <2>6 DEF RemovePrefix
        <4>2. QED
          BY <4>1, Zenon
      <3>2. PICK q \in Seq(S) : q = SubSeq(res, n, k)
        BY <2>2, SplitAt, Zenon
      <3>3. PICK p \in Seq(S) : p = SubSeq(res, 1, n - 1)
        BY <2>2, SplitAt, Zenon
      <3>4. res = p \o q /\ Rooted(q) /\ Len(p) = n - 1 /\ p[1] = res[1]
        <4>1. PICK m \in 0 .. k : m = n - 1 /\ m + 1 = n /\ m > 0 /\ m < k
          BY <2>2, Zenon
        <4>2. res = p \o SubSeq(res, m + 1, k) /\ Len(p) = m /\ p[1] = res[1]
          <5>1. p = SubSeq(res, 1, m)
            BY <3>3, <4>1, Zenon
          <5>2. res = SubSeq(res, 1, m) \o SubSeq(res, m + 1, k)
            BY SplitAt, Zenon
          <5>3. Len(SubSeq(res, 1, m)) = m /\ SubSeq(res, 1, m)[1] = res[1]
            BY <4>1, SplitAt, Zenon
          <5>4. QED
            BY <5>1, <5>2, <5>3, Zenon
        <4>3. Rooted(SubSeq(res, m + 1, k)) <=> res[m + 1] = Slash
          BY <4>1, SplitAt, Zenon
        <4>4. QED
          BY <2>3, <2>6, <3>2, <4>1, <4>2, <4>3, Zenon
      <3>5. Rooted(p) /\ Rooted(<<Slash>>)
        BY <1>1, <2>2, <2>3, <3>4 DEF Rooted
      <3>6. path = p \o <<Slash>>
        <4>1. path = SubSeq(path, 1, n - 1) \o SubSeq(path, n, n)
          <5>1. PICK m \in 0 .. Len(path) : m = n - 1 /\ m + 1 = n
            BY <2>2, Zenon
          <5>2. path = SubSeq(path, 1, m) \o SubSeq(path, m + 1, Len(path))
            BY SplitAt, Zenon
          <5>3. QED
            BY <5>1, <5>2, Zenon
        <4>2. SubSeq(path, n, n) = <<Slash>>
          BY <2>2, <2>6, SplitAt, Zenon
        <4>3. SubSeq(path, 1, n - 1) = p
          <5>1. \A i \in 1 .. n - 1 : path[i] = res[i]
            BY <2>1, <2>2, PrefixElements
          <5>2. /\ SubSeq(path, 1, n - 1) \in Seq(S) /\ Len(SubSeq(path, 1, n - 1)) = n - 1
                /\ \A i \in 1 .. n - 1 : SubSeq(path, 1, n - 1)[i] = path[i]
            <6>1. PICK m \in 0 .. Len(path) : m = n - 1
              BY <2>2, Zenon
            <6>2. QED
              BY <6>1, SplitAt, Zenon
          <5>3. /\ Len(p) = n - 1
                /\ \A i \in 1 .. n - 1 : p[i] = res[i]
            BY <2>2, <3>3, SplitAt, Zenon
          <5>4. QED
            BY <5>1, <5>2, <5>3, SeqEqual
        <4>4. QED
          BY <4>1, <4>2, <4>3, Zenon
      <3>7. Segments(path) = Segments(p) \o Segments(<<Slash>>) /\ <<Slash>> \in Seq(S)
        <4>1. <<Slash>> \in Seq(S)
          OBVIOUS
        <4>2. QED
          BY <3>5, <3>6, <4>1, SegmentsConcat, Zenon
      <3>8. Segments(path) = Segments(p)
        <4>1. Segments(p) \in Seq(Seq(S)) /\ Segments(<<Slash>>) = <<>>
          BY SegmentsType, NoNames, Zenon
        <4>2. Segments(p) \o <<>> = Segments(p)
          BY <4>1, ConcatEmptySeq, Zenon
        <4>3. QED
          BY <3>7, <4>1, <4>2, Zenon
      <3>9. Segments(res) = Segments(p) \o Segments(q)
        BY <3>4, <3>5, SegmentsConcat, Zenon
      <3>10. QED
        BY <3>1, <3>2, <3>8, <3>9, Zenon
    <2>7. QED
      BY <2>5, <2>6
  <1>6. QED
    BY <1>3, <1>4, <1>5

\* The path of an entry in a directory starts with one separator.
LEMMA JoinedStartsWithOne ==
    ASSUME NEW S, Slash \in S, NEW seen \in Seq(S), Rooted(seen),
           ~StartsWith(seen, <<Slash, Slash>>),
           NEW entry \in Seq(S), entry # <<>>, entry[1] # Slash
    PROVE  /\ JoinPaths(seen, entry) \in Seq(S)
           /\ Len(JoinPaths(seen, entry)) > 1
           /\ JoinPaths(seen, entry)[1] = Slash
           /\ JoinPaths(seen, entry)[2] # Slash
  <1> DEFINE head == IF Ends(seen, Slash) THEN SubSeq(seen, 1, Len(seen) - 1) ELSE seen
  <1>1. /\ Len(seen) \in Nat \ {0} /\ seen[1] = Slash /\ seen # <<>>
        /\ Len(entry) \in Nat \ {0}
    BY EmptySeq, LenProperties DEF Rooted
  <1>2. JoinPaths(seen, entry) = (head \o <<Slash>>) \o entry
    BY <1>1 DEF JoinPaths, NoBase, Rooted
  <1>3. Len(seen) > 1 => seen[2] # Slash
    <2> SUFFICES ASSUME Len(seen) > 1, seen[2] = Slash PROVE FALSE
      OBVIOUS
    <2>1. /\ SubSeq(seen, 1, 2) \in Seq(S) /\ Len(SubSeq(seen, 1, 2)) = 2
          /\ SubSeq(seen, 1, 2)[1] = Slash /\ SubSeq(seen, 1, 2)[2] = Slash
      BY <1>1
    <2>2. <<Slash, Slash>> \in Seq(S) /\ Len(<<Slash, Slash>>) = 2
      OBVIOUS
    <2>3. \A k \in 1 .. 2 : SubSeq(seen, 1, 2)[k] = <<Slash, Slash>>[k]
      BY <2>1
    <2>4. SubSeq(seen, 1, 2) = <<Slash, Slash>>
      BY <2>1, <2>2, <2>3, SeqEqual
    <2>5. QED
      BY <1>1, <2>2, <2>4 DEF StartsWith
  <1>4. /\ head \in Seq(S)
        /\ head = <<>> \/ (Len(head) > 1 /\ head[1] = Slash /\ head[2] # Slash)
    <2>1. CASE Ends(seen, Slash)
      <3>1. head = SubSeq(seen, 1, Len(seen) - 1)
        BY <2>1
      <3>2. Len(seen) # 2
        <4> SUFFICES ASSUME Len(seen) = 2 PROVE FALSE
          OBVIOUS
        <4>1. seen[2] = Slash
          BY <2>1, Zenon DEF Ends
        <4>2. Len(seen) > 1
          OBVIOUS
        <4>3. QED
          BY <1>3, <4>1, <4>2, Zenon
      <3>3. CASE Len(seen) = 1
        BY <3>1, <3>3
      <3>4. CASE Len(seen) > 2
        BY <1>1, <1>3, <3>1, <3>4
      <3>5. QED
        <4>1. \A k \in Nat \ {0} : k = 1 \/ k = 2 \/ k > 2
          OBVIOUS
        <4>2. QED
          BY <1>1, <3>2, <3>3, <3>4, <4>1, Zenon
    <2>2. CASE ~Ends(seen, Slash)
      <3>1. Len(seen) > 1
        BY <1>1, <2>2 DEF Ends
      <3>2. QED
        BY <1>1, <1>3, <2>2, <3>1
    <2>3. QED
      BY <2>1, <2>2
  <1> HIDE DEF head
  <1>5. CASE head = <<>>
    <2>1. (head \o <<Slash>>) \o entry = <<Slash>> \o entry
      BY <1>5
    <2>2. /\ <<Slash>> \o entry \in Seq(S)
          /\ Len(<<Slash>> \o entry) > 1
          /\ (<<Slash>> \o entry)[1] = Slash
          /\ (<<Slash>> \o entry)[2] = entry[1]
      BY <1>1
    <2>3. QED
      BY <1>2, <2>1, <2>2, Zenon
  <1>6. CASE head # <<>>
    BY <1>1, <1>2, <1>4, <1>6
  <1>7. QED
    BY <1>5, <1>6

\* The link of an entry is its path without the separator.
LEMMA LinkIsRelative ==
    ASSUME NEW S, Slash \in S, NEW joined \in Seq(S), Len(joined) > 1,
           joined[1] = Slash, joined[2] # Slash
    PROVE  /\ Relative(joined) \in Seq(S)
           /\ Len(Relative(joined)) > 0
           /\ ~Rooted(Relative(joined))
           /\ <<Slash>> \o Relative(joined) = joined
  <1>1. Relative(joined) = SubSeq(joined, 2, Len(joined)) /\ Len(joined) \in Nat
    BY DEF Relative, Rooted
  <1>2. /\ Relative(joined) \in Seq(S)
        /\ Len(Relative(joined)) = Len(joined) - 1
        /\ \A i \in 1 .. Len(joined) - 1 : Relative(joined)[i] = joined[i + 1]
    BY <1>1
  <1>3. ~Rooted(Relative(joined))
    BY <1>1, <1>2 DEF Rooted
  <1>4. <<Slash>> \o Relative(joined) = joined
    <2>1. /\ <<Slash>> \o Relative(joined) \in Seq(S)
          /\ Len(<<Slash>> \o Relative(joined)) = Len(joined)
          /\ \A i \in 1 .. Len(joined) : (<<Slash>> \o Relative(joined))[i] = joined[i]
      BY <1>1, <1>2
    <2>2. QED
      BY <2>1, SeqEqual
  <1>5. QED
    BY <1>1, <1>2, <1>3, <1>4

\* A link that is not rooted is taken from the mount's path, whatever the
\* character that the page has after it.
LEMMA FollowedFromMount ==
    ASSUME NEW S, NEW path \in Seq(S), Ends(path, Slash), NEW c, c # Slash,
           NEW page, NEW link, ~Rooted(link)
    PROVE  Followed(page, path \o <<c>>, link) = path \o link
  <1> DEFINE T == S \cup {c}
             from == path \o <<c>>
             n == Len(path)
             IsLast(i) == from[i] = Slash /\ \A j \in i + 1 .. Len(from) : from[j] # Slash
  <1>1. n \in Nat \ {0} /\ path[n] = Slash
    BY EmptySeq DEF Ends
  <1>2. path \in Seq(T) /\ <<c>> \in Seq(T)
    BY SeqMonotonic
  <1>3. /\ from \in Seq(T) /\ Len(from) = n + 1 /\ from[n + 1] = c
        /\ \A i \in 1 .. n : from[i] = path[i]
    <2> HIDE DEF T
    <2>1. QED
      BY <1>1, <1>2
  <1>4. n \in 1 .. Len(from) /\ IsLast(n)
    BY <1>1, <1>3
  <1>5. \A i \in 1 .. Len(from) : IsLast(i) => i = n
    BY <1>1, <1>3
  <1>6. (CHOOSE i \in 1 .. Len(from) : IsLast(i)) = n
    <2> HIDE DEF IsLast
    <2>1. QED
      BY <1>4, <1>5
  <1>7. SubSeq(from, 1, n) = path
    <2>1. /\ SubSeq(from, 1, n) \in Seq(T) /\ Len(SubSeq(from, 1, n)) = n
          /\ \A i \in 1 .. n : SubSeq(from, 1, n)[i] = path[i]
      <3> HIDE DEF T, from
      <3>1. QED
        BY <1>1, <1>3
    <2> HIDE DEF T, from
    <2>2. QED
      BY <1>2, <2>1, SeqEqual
  <1>8. from # NoBase
    BY <1>1, <1>3 DEF NoBase
  <1>9. Followed(page, from, link) =
            SubSeq(from, 1, CHOOSE i \in 1 .. Len(from) : IsLast(i)) \o link
    BY <1>8, Zenon DEF Followed
  <1>10. QED
    BY <1>6, <1>7, <1>9, Zenon

\* What is asked for below a mount is served by it, and its router sees the
\* rest.
LEMMA SeenBelowMount ==
    ASSUME NEW S, Slash \in S, NEW path \in Seq(S), Rooted(path), Ends(path, Slash),
           NEW link \in Seq(S), Len(link) > 0
    PROVE  /\ Supported(path, TRUE, path \o link)
           /\ RemovePrefix(path, path \o link) = <<Slash>> \o link
  <1> DEFINE n == Len(path)
             next == path \o link
             k == Len(link)
  <1>1. n \in Nat \ {0} /\ path[1] = Slash /\ path[n] = Slash /\ k \in Nat \ {0}
    BY LenProperties DEF Rooted, Ends
  <1>2. /\ next \in Seq(S) /\ Len(next) = n + k
        /\ \A i \in 1 .. n : next[i] = path[i]
        /\ \A i \in 1 .. k : next[n + i] = link[i]
    BY <1>1
  <1> HIDE DEF next
  <1>3. SubSeq(next, 1, n) = path
    <2>1. /\ SubSeq(next, 1, n) \in Seq(S) /\ Len(SubSeq(next, 1, n)) = n
          /\ \A i \in 1 .. n : SubSeq(next, 1, n)[i] = path[i]
      BY <1>1, <1>2
    <2>2. QED
      BY <2>1, SeqEqual
  <1>4. Supported(path, TRUE, next)
    BY <1>1, <1>2, <1>3 DEF Supported, StartsWith, Rooted
  <1>5. SubSeq(next, n, n + k) = <<Slash>> \o link
    <2>1. /\ SubSeq(next, n, n + k) \in Seq(S) /\ Len(SubSeq(next, n, n + k)) = k + 1
          /\ SubSeq(next, n, n + k)[1] = Slash
          /\ \A i \in 1 .. k : SubSeq(next, n, n + k)[i + 1] = link[i]
      BY <1>1, <1>2
    <2>2. /\ <<Slash>> \o link \in Seq(S) /\ Len(<<Slash>> \o link) = k + 1
          /\ (<<Slash>> \o link)[1] = Slash
          /\ \A i \in 1 .. k : (<<Slash>> \o link)[i + 1] = link[i]
      BY <1>1
    <2>3. \A j \in 1 .. k + 1 : j = 1 \/ \E i \in 1 .. k : j = i + 1
      <3>1. \A j \in 1 .. k + 1 : j = 1 \/ (j - 1 \in 1 .. k /\ j = (j - 1) + 1)
        BY <1>1
      <3>2. QED
        BY <3>1
    <2>4. \A j \in 1 .. k + 1 : SubSeq(next, n, n + k)[j] = (<<Slash>> \o link)[j]
      BY ONLY <2>1, <2>2, <2>3
    <2>5. QED
      BY <2>1, <2>2, <2>4, SeqEqual, Zenon
  <1>6. RemovePrefix(path, next) = <<Slash>> \o link
    <2>1. CASE n = 1
      <3>1. path = <<Slash>>
        BY <1>1, <2>1
      <3>2. QED
        BY <1>1, <2>1, <3>1 DEF RemovePrefix, next
    <2>2. CASE n # 1
      <3>1. RemovePrefix(path, next) = SubSeq(next, n + 0, Len(next))
        BY <1>1, <1>2, <2>2 DEF RemovePrefix
      <3>2. n + 0 = n /\ Len(next) = n + k
        BY <1>1, <1>2
      <3>3. QED
        BY <1>5, <3>1, <3>2, Zenon
    <2>3. QED
      BY <2>1, <2>2
  <1>7. QED
    BY <1>4, <1>6 DEF next

\* What a client asks for that follows the link of an entry on a page goes to
\* the mount, whose router sees the entry of the directory.
LinkLeads(path, page, entry) ==
    LET seen == RemovePrefix(path, page)
        next == Followed(page, BaseElement(JoinPaths(NoBase, path)), Link(seen, entry))
    IN  /\ Supported(path, TRUE, next)
        /\ RemovePrefix(path, next) = JoinPaths(seen, entry)

\* Below a mount that ends with the separator, the link of an entry leads to
\* the entry, whatever the directory, its mount and the entry's name
\* (hs_routes_fs.c:265-352, 414-418, hs_router.c:519-523).
THEOREM LinkLeadsToEntry ==
    ASSUME NEW S, Slash \in S, Slash # "<",
           NEW path \in Seq(S), NEW page \in Seq(S), NEW entry \in Seq(S),
           Supported(path, TRUE, page), Ends(path, Slash),
           ~StartsWith(RemovePrefix(path, page), <<Slash, Slash>>),
           entry # <<>>, entry[1] # Slash
    PROVE  LinkLeads(path, page, entry)
  <1> DEFINE seen == RemovePrefix(path, page)
             link == Link(seen, entry)
             joined == JoinPaths(seen, entry)
             next == Followed(page, BaseElement(JoinPaths(NoBase, path)), link)
  <1>1. Rooted(path)
    BY Zenon DEF Supported
  <1>2. seen \in Seq(S) /\ Rooted(seen)
    <2>1. seen \in Seq(S)
      BY DEF RemovePrefix
    <2>2. QED
      BY <2>1, RemovePrefixRooted, Zenon
  <1>3. joined \in Seq(S) /\ Len(joined) > 1 /\ joined[1] = Slash /\ joined[2] # Slash
    BY <1>2, JoinedStartsWithOne, Zenon
  <1>4. link \in Seq(S) /\ Len(link) > 0 /\ ~Rooted(link) /\ <<Slash>> \o link = joined
    BY <1>3, LinkIsRelative, Zenon DEF Link
  <1>5. BaseElement(JoinPaths(NoBase, path)) = path \o <<"<">>
    BY Zenon DEF BaseElement, JoinPaths, Ends, NoBase
  <1>6. next = path \o link
    BY <1>4, <1>5, FollowedFromMount, Zenon
  <1>7. Supported(path, TRUE, path \o link) /\ RemovePrefix(path, path \o link) = <<Slash>> \o link
    BY <1>1, <1>4, SeenBelowMount, Zenon
  <1>8. Supported(path, TRUE, next) /\ RemovePrefix(path, next) = joined
    BY <1>4, <1>6, <1>7, Zenon
  <1>9. QED
    BY <1>8, Zenon DEF LinkLeads

\* Following a link of a listing leads to its entry, for every mount and
\* directory.
THEOREM LinksLeadToEntriesHolds ==
    ASSUME Slash = "/"
    PROVE  Spec => []LinksLeadToEntries
  <1>1. WellFormed => LinksLeadToEntries
    <2> DEFINE seen == RemovePrefix(mount, resource)
               base == BaseElement(JoinPaths(NoBase, mount))
               next == Followed(resource, base, Link(seen, <<"a">>))
    <2> SUFFICES ASSUME WellFormed, subject = "paths", Supported(mount, TRUE, resource),
                        Ends(mount, Slash), ~StartsWith(seen, <<Slash, Slash>>)
                 PROVE  /\ Supported(mount, TRUE, next)
                        /\ RemovePrefix(mount, next) = JoinPaths(seen, <<"a">>)
      BY Zenon DEF LinksLeadToEntries
    <2>1. parts \in Seq(Seq(Symbols)) /\ Len(parts) = 3
      BY Zenon DEF WellFormed, PartsOf
    <2>2. mount \in Seq(Symbols) /\ resource \in Seq(Symbols)
      <3>1. 1 \in 1 .. 3 /\ 3 \in 1 .. 3
        OBVIOUS
      <3>2. QED
        BY <2>1, <3>1, ElementOfSeq, Zenon DEF mount, resource
    <2>3. Slash # "<" /\ Slash # "a"
      BY Zenon
    <2>4. PICK a : a = "a"
      OBVIOUS
    <2>5. PICK S : S = Symbols \cup {a}
      OBVIOUS
    <2>6. mount \in Seq(S) /\ resource \in Seq(S)
      BY <2>2, <2>5, SeqMonotonic, Zenon
    <2>7. Slash \in S /\ <<a>> \in Seq(S) /\ <<a>> # <<>> /\ <<a>>[1] = a
      <3>1. Slash \in S /\ a \in S
        BY ONLY <2>5, Zenon DEF Symbols
      <3>2. <<a>> \in Seq(S) /\ <<a>> # <<>> /\ <<a>>[1] = a
        BY ONLY <3>1
      <3>3. QED
        BY <3>1, <3>2
    <2>8. QED
      <3>1. PICK entry \in Seq(S) : entry = <<"a">> /\ entry # <<>> /\ entry[1] # Slash
        BY <2>3, <2>4, <2>7, Zenon
      <3>2. QED
        <4>1. LinkLeads(mount, resource, entry)
          BY <2>3, <2>6, <2>7, <3>1, LinkLeadsToEntry, Zenon
        <4>2. QED
          BY <3>1, <4>1, Zenon DEF LinkLeads
  <1>2. QED
    BY <1>1, WellFormedAlways, PTL

-----------------------------------------------------------------------------
\* The path that a sequence of names spells, with one separator before each.
Piece(name) == <<Slash>> \o name
Pieces(names) == [i \in 1 .. Len(names) |-> Piece(names[i])]
Join(names) == FlattenSeq(Pieces(names))

\* A name with the separator before it, as it is and with one more character.
LEMMA PieceIs ==
    ASSUME NEW S, Slash \in S, NEW name \in Seq(S), NEW c \in S
    PROVE  /\ Piece(name) \in Seq(S)
           /\ Rooted(Piece(name))
           /\ Append(name, c) \in Seq(S)
           /\ Piece(Append(name, c)) = Piece(name) \o <<c>>
  <1>1. <<Slash>> \in Seq(S) /\ <<c>> \in Seq(S) /\ Append(name, c) = name \o <<c>>
    BY AppendIsConcat
  <1>2. <<Slash>> \o (name \o <<c>>) = (<<Slash>> \o name) \o <<c>>
    BY <1>1, ConcatAssociative
  <1>3. Piece(name) \in Seq(S) /\ Rooted(Piece(name)) /\ name \o <<c>> \in Seq(S)
    BY <1>1 DEF Piece, Rooted
  <1>4. Piece(Append(name, c)) = Piece(name) \o <<c>>
    BY <1>1, <1>2, Zenon DEF Piece
  <1>5. QED
    BY <1>1, <1>3, <1>4, Zenon

\* Each name stands for itself, whatever names are before it.
LEMMA PiecesConcat ==
    ASSUME NEW T, \A x \in T : Piece(x) \in T, NEW a \in Seq(T), NEW b \in Seq(T)
    PROVE  /\ Pieces(a) \in Seq(T)
           /\ Pieces(a \o b) = Pieces(a) \o Pieces(b)
  <1> DEFINE m == Len(a)
             n == Len(b)
  <1>1. \A s \in Seq(T) : /\ Pieces(s) \in Seq(T) /\ Len(Pieces(s)) = Len(s)
                          /\ \A i \in 1 .. Len(s) : Pieces(s)[i] = Piece(s[i])
    BY DEF Pieces
  <1>2. m \in Nat /\ n \in Nat /\ a \o b \in Seq(T) /\ Len(a \o b) = m + n
        /\ \A i \in 1 .. m + n : (a \o b)[i] = IF i <= m THEN a[i] ELSE b[i - m]
    BY ConcatProperties, LenProperties
  <1>3. Pieces(a) \in Seq(T) /\ Pieces(b) \in Seq(T) /\ Pieces(a \o b) \in Seq(T)
        /\ Len(Pieces(a)) = m /\ Len(Pieces(b)) = n /\ Len(Pieces(a \o b)) = m + n
    BY <1>1, <1>2, Zenon
  <1>4. /\ Pieces(a) \o Pieces(b) \in Seq(T)
        /\ Len(Pieces(a) \o Pieces(b)) = m + n
        /\ \A i \in 1 .. m + n :
              (Pieces(a) \o Pieces(b))[i] = IF i <= m THEN Pieces(a)[i] ELSE Pieces(b)[i - m]
    <2>1. PICK u \in Seq(T), v \in Seq(T) : u = Pieces(a) /\ v = Pieces(b)
      BY <1>3, Zenon
    <2>2. Len(u) = m /\ Len(v) = n
      BY <1>3, <2>1, Zenon
    <2>3. /\ u \o v \in Seq(T) /\ Len(u \o v) = Len(u) + Len(v)
          /\ \A i \in 1 .. Len(u) + Len(v) : (u \o v)[i] = IF i <= Len(u) THEN u[i] ELSE v[i - Len(u)]
      BY ONLY ConcatProperties
    <2>4. QED
      BY <2>1, <2>2, <2>3, Zenon
  <1>5. \A i \in 1 .. m + n : Pieces(a \o b)[i] = (Pieces(a) \o Pieces(b))[i]
    <2> SUFFICES ASSUME NEW i \in 1 .. m + n
                 PROVE  Pieces(a \o b)[i] = (Pieces(a) \o Pieces(b))[i]
      OBVIOUS
    <2>1. Pieces(a \o b)[i] = Piece((a \o b)[i])
      BY <1>1, <1>2, Zenon
    <2>2. CASE i <= m
      <3>1. i \in 1 .. m
        BY <1>2, <2>2
      <3>2. QED
        BY <1>1, <1>2, <1>4, <2>1, <2>2, <3>1, Zenon
    <2>3. CASE ~(i <= m)
      <3>1. i - m \in 1 .. n
        BY <1>2, <2>3
      <3>2. QED
        BY <1>1, <1>2, <1>4, <2>1, <2>3, <3>1, Zenon
    <2>4. QED
      BY <2>2, <2>3
  <1>6. Pieces(a \o b) = Pieces(a) \o Pieces(b)
    BY <1>3, <1>4, <1>5, SeqEqual
  <1>7. QED
    BY <1>3, <1>6

\* Names that follow others are spelled after them.
LEMMA JoinConcat ==
    ASSUME NEW S, Slash \in S, NEW a \in Seq(Seq(S)), NEW b \in Seq(Seq(S))
    PROVE  Join(a) \in Seq(S) /\ Join(b) \in Seq(S) /\ Join(a \o b) = Join(a) \o Join(b)
  <1>1. \A x \in Seq(S) : Piece(x) \in Seq(S)
    BY PieceIs
  <1>2. Pieces(a) \in Seq(Seq(S)) /\ Pieces(b) \in Seq(Seq(S))
        /\ Pieces(a \o b) = Pieces(a) \o Pieces(b)
    BY <1>1, PiecesConcat, Zenon
  <1>3. Join(a) \in Seq(S) /\ Join(b) \in Seq(S)
    BY <1>2, FlattenAppend, EmptySeq, Zenon DEF Join
  <1>4. Join(a \o b) = Join(a) \o Join(b)
    BY <1>2, FlattenConcat, Zenon DEF Join
  <1>5. QED
    BY <1>3, <1>4

\* One more name.
LEMMA JoinLonger ==
    ASSUME NEW S, Slash \in S, NEW names \in Seq(Seq(S)), NEW name \in Seq(S)
    PROVE  Join(Append(names, name)) = Join(names) \o Piece(name)
  <1>1. <<name>> \in Seq(Seq(S)) /\ Append(names, name) = names \o <<name>>
    <2>1. PICK T : T = Seq(S)
      OBVIOUS
    <2>2. names \in Seq(T) /\ name \in T
      BY <2>1
    <2>3. <<name>> \in Seq(T) /\ Append(names, name) = names \o <<name>>
      BY ONLY <2>2, AppendIsConcat
    <2>4. QED
      BY <2>1, <2>3, Zenon
  <1>2. Join(<<name>>) = Piece(name)
    <2>1. Pieces(<<name>>) = <<Piece(name)>>
      BY DEF Pieces
    <2>2. Piece(name) \in Seq(S) /\ <<>> \in Seq(Seq(S))
      BY PieceIs, EmptySeq
    <2>3. <<Piece(name)>> = Append(<<>>, Piece(name))
      OBVIOUS
    <2>4. FlattenSeq(Append(<<>>, Piece(name))) = FlattenSeq(<<>>) \o Piece(name)
      BY <2>2, FlattenAppend
    <2>5. FlattenSeq(<<>>) = <<>>
      BY DEF FlattenSeq
    <2>6. <<>> \o Piece(name) = Piece(name)
      BY <2>2, ConcatEmptySeq
    <2>7. QED
      BY <2>1, <2>3, <2>4, <2>5, <2>6, Zenon DEF Join
  <1>3. QED
    BY <1>1, <1>2, JoinConcat, Zenon

Extended(names, c) == [names EXCEPT ![Len(names)] = Append(@, c)]

\* The last name with one more character.
LEMMA JoinExtended ==
    ASSUME NEW S, Slash \in S, NEW names \in Seq(Seq(S)), names # <<>>, NEW c \in S
    PROVE  Join(Extended(names, c)) = Join(names) \o <<c>>
  <1>1. PICK T : T = Seq(S)
    OBVIOUS
  <1>2. names \in Seq(T) /\ names # <<>>
    BY <1>1
  <1>3. PICK front \in Seq(T), last \in T : names = Append(front, last)
    BY <1>2, SequenceEmptyOrAppend, Zenon
  <1>4. front \in Seq(Seq(S)) /\ last \in Seq(S)
    BY <1>1, <1>3, Zenon
  <1>5. PICK longer : longer = Append(last, c)
    OBVIOUS
  <1>6. longer \in Seq(S) /\ Piece(longer) = Piece(last) \o <<c>> /\ Piece(last) \in Seq(S)
    BY <1>4, <1>5, PieceIs, Zenon
  <1>7. longer \in T
    BY <1>1, <1>6, Zenon
  <1>8. Extended(names, c) = Append(front, longer)
    <2>1. names[Len(names)] = last /\ [names EXCEPT ![Len(names)] = longer] = Append(front, longer)
      <3>1. Replaced(Longer(front, last), last, longer, Longer(front, longer))
        BY <1>7, ReplaceLast, Zenon
      <3>2. QED
        BY <1>3, <3>1, Zenon DEF Replaced, Longer
    <2>2. QED
      BY <1>5, <2>1, Zenon DEF Extended
  <1>9. Join(names) = Join(front) \o Piece(last)
    BY <1>3, <1>4, JoinLonger, Zenon
  <1>10. Join(Extended(names, c)) = Join(front) \o Piece(longer)
    BY <1>4, <1>6, <1>8, JoinLonger, Zenon
  <1>11. Join(front) \in Seq(S) /\ <<c>> \in Seq(S)
    <2>1. Join(front) \in Seq(S)
      BY <1>4, JoinConcat, Zenon
    <2>2. QED
      BY <2>1
  <1>12. Join(front) \o (Piece(last) \o <<c>>) = (Join(front) \o Piece(last)) \o <<c>>
    <2>1. \A u, v, w \in Seq(S) : (u \o v) \o w = u \o (v \o w)
      BY ONLY Associative, SMTT(40) DEF Associates
    <2>2. QED
      BY <1>6, <1>11, <2>1, Zenon
  <1>13. QED
    BY <1>6, <1>9, <1>10, <1>12, Zenon

\* Whatever the names, what they spell is empty or starts with the separator.
LEMMA JoinRooted ==
    ASSUME NEW S, Slash \in S, NEW names \in Seq(Seq(S))
    PROVE  IF names = <<>> THEN Join(names) = <<>> ELSE Rooted(Join(names))
  <1>1. \A x \in Seq(S) : Piece(x) \in Seq(S) /\ Rooted(Piece(x))
    BY PieceIs
  <1>2. CASE names = <<>>
    <2>1. Pieces(names) = <<>>
      BY <1>2 DEF Pieces
    <2>2. QED
      BY <1>2, <2>1 DEF Join, FlattenSeq
  <1>3. CASE names # <<>>
    <2>1. Pieces(names) \in Seq(Seq(S))
      BY <1>1, PiecesConcat, Zenon
    <2>2. PICK rest : IsRest(rest, S, Pieces(names))
      BY <2>1, FlattenRests
    <2>3. PICK n \in Nat \ {0} : n = Len(names) /\ Len(Pieces(names)) = n
      BY <1>3, EmptySeq DEF Pieces
    <2>4. 0 \in 0 .. n - 1 /\ 0 + 1 = 1 /\ 1 \in 1 .. n /\ 1 \in 0 .. n
      BY <2>3
    <2>5. Join(names) = Pieces(names)[1] \o rest[1] /\ rest[1] \in Seq(S)
      BY <2>2, <2>3, <2>4, Zenon DEF IsRest, Join
    <2>6. Pieces(names)[1] = Piece(names[1])
      BY <2>3, <2>4 DEF Pieces
    <2>7. names[1] \in Seq(S)
      BY <2>3, <2>4, ElementOfSeq
    <2>8. Piece(names[1]) \in Seq(S) /\ Rooted(Piece(names[1]))
      BY <1>1, <2>7, Zenon
    <2>9. PICK first \in Seq(S), others \in Seq(S) : first = Piece(names[1]) /\ others = rest[1]
      BY <2>5, <2>8, Zenon
    <2>10. Rooted(first) => Rooted(first \o others)
      BY DEF Rooted
    <2>11. QED
      BY <1>3, <2>5, <2>6, <2>8, <2>9, <2>10, Zenon
  <1>4. QED
    BY <1>2, <1>3

\* A clean path is what its names spell, unless it is "/".
LEMMA JoinSegments ==
    ASSUME NEW S, Slash \in S, NEW p \in Seq(S), Rooted(p), Clean(p), p # <<Slash>>
    PROVE  Join(Segments(p)) = p /\ Segments(p) # <<>>
  <1> DEFINE upTo(i) == SubSeq(p, 1, i)
  <1>1. PICK n \in Nat \ {0} : n = Len(p)
    BY LenProperties DEF Rooted
  <1>2. /\ p[1] = Slash
        /\ p[n] # Slash
        /\ \A i \in 1 .. n - 1 : ~(p[i] = Slash /\ p[i + 1] = Slash)
    BY <1>1, Zenon DEF Rooted, Clean
  <1>3. PICK up : IsUpTo(up, S, p)
    BY SegmentsDef
  <1>4. \A i \in 1 .. n : /\ upTo(i) = upTo(i - 1) \o <<p[i]>>
                          /\ upTo(i - 1) \in Seq(S)
                          /\ p[i] \in S
    <2> SUFFICES ASSUME NEW i \in 1 .. n
                 PROVE  upTo(i) = upTo(i - 1) \o <<p[i]>> /\ upTo(i - 1) \in Seq(S) /\ p[i] \in S
      OBVIOUS
    <2>1. 1 \in 1 .. Len(p) /\ i \in 1 .. Len(p) /\ i - 1 \in 0 .. Len(p)
      BY <1>1
    <2>2. p[i] \in S
      BY <2>1, ElementOfSeq
    <2>3. QED
      BY <2>1, <2>2, SplitAt, SubSeqRecursiveSecond, Zenon
  <1>5. upTo(0) = <<>> /\ upTo(n) = p
    BY <1>1, SubSeqFull
  <1> HIDE DEF upTo
  <1>6. \A names \in Seq(Seq(S)) : names = <<>> => Join(names) = <<>>
    BY JoinRooted
  <1>7. \A u, v, w \in Seq(S) : (u \o v) \o w = u \o (v \o w)
    BY ONLY Associative, SMTT(40) DEF Associates
  <1> DEFINE Good(i) == Join(up[i]) = IF i = 0 THEN <<>> ELSE IF p[i] = Slash THEN upTo(i - 1) ELSE upTo(i)
  <1>8. Good(0)
    <2>1. up[0] = <<>> /\ <<>> \in Seq(Seq(S))
      BY <1>3, EmptySeq DEF IsUpTo
    <2>2. QED
      BY <1>6, <2>1, Zenon
  <1>9. ASSUME NEW i \in 1 .. n, Good(i - 1) PROVE Good(i)
    <2>1. PICK k \in 0 .. n : k = i - 1 /\ i # 0 /\ (k = 0 <=> i = 1)
      <3>1. i - 1 \in 0 .. n /\ i # 0 /\ (i - 1 = 0 <=> i = 1)
        BY <1>1
      <3>2. QED
        BY <3>1, Zenon
    <2>2. up[i] = Grown(up[k], p, i) /\ up[k] \in Seq(Seq(S))
      BY <1>1, <1>3, <2>1, Zenon DEF IsUpTo
    <2>3. Good(k)
      BY <1>9, <2>1, Zenon
    <2>4. p[i] \in S /\ <<p[i]>> \in Seq(S) /\ <<Slash>> \in Seq(S) /\ upTo(k) \in Seq(S)
          /\ upTo(i) = upTo(k) \o <<p[i]>>
      <3>1. p[i] \in S
        BY <1>4, Zenon
      <3>2. <<p[i]>> \in Seq(S) /\ <<Slash>> \in Seq(S)
        BY <3>1
      <3>3. QED
        BY <1>4, <2>1, <3>1, <3>2, Zenon
    <2>5. CASE p[i] = Slash
      <3>1. up[i] = up[k]
        BY <2>2, <2>5, Zenon DEF Grown
      <3>2. Join(up[k]) = upTo(k)
        <4>1. CASE k = 0
          BY <1>5, <2>3, <4>1, Zenon
        <4>2. CASE k # 0
          <5>1. k \in 1 .. n - 1 /\ k + 1 = i
            BY <1>1, <2>1, <4>2
          <5>2. p[k] # Slash
            BY <1>2, <2>5, <5>1, Zenon
          <5>3. QED
            BY <2>3, <4>2, <5>2, Zenon
        <4>3. QED
          BY <4>1, <4>2
      <3>3. QED
        BY <2>1, <2>5, <3>1, <3>2, Zenon
    <2>6. CASE p[i] # Slash /\ p[k] = Slash
      <3>1. k # 0 /\ k \in 1 .. n
        BY <1>1, <1>2, <2>1, <2>6
      <3>2. upTo(k) = upTo(k - 1) \o <<Slash>> /\ upTo(k - 1) \in Seq(S)
        BY <1>4, <2>6, <3>1, Zenon
      <3>3. Join(up[k]) = upTo(k - 1)
        BY <2>3, <2>6, <3>1, Zenon
      <3>4. up[i] = Append(up[k], <<p[i]>>)
        BY <2>1, <2>2, <2>6, Zenon DEF Grown
      <3>5. Join(up[i]) = upTo(k - 1) \o (<<Slash>> \o <<p[i]>>)
        BY <2>2, <2>4, <3>3, <3>4, JoinLonger, Zenon DEF Piece
      <3>6. Join(up[i]) = upTo(i)
        <4>1. (upTo(k - 1) \o <<Slash>>) \o <<p[i]>> = upTo(k - 1) \o (<<Slash>> \o <<p[i]>>)
          BY <1>7, <2>4, <3>2, Zenon
        <4>2. QED
          BY <2>4, <3>2, <3>5, <4>1, Zenon
      <3>7. QED
        BY <2>1, <2>6, <3>6, Zenon
    <2>7. CASE p[i] # Slash /\ p[k] # Slash
      <3>1. k # 0
        BY <1>2, <2>1, <2>7
      <3>2. Join(up[k]) = upTo(k)
        BY <2>3, <2>7, <3>1, Zenon
      <3>3. up[k] # <<>>
        <4>1. upTo(k) # <<>>
          <5>1. k \in 1 .. n
            BY <2>1, <3>1
          <5>2. PICK u \in Seq(S), c \in S : u = upTo(k - 1) /\ c = p[k] /\ upTo(k) = u \o <<c>>
            BY <1>4, <5>1, Zenon
          <5>3. u \o <<c>> # <<>>
            OBVIOUS
          <5>4. QED
            BY <5>2, <5>3, Zenon
        <4>2. QED
          BY <1>6, <2>2, <3>2, <4>1, Zenon
      <3>4. up[i] = Extended(up[k], p[i])
        BY <2>1, <2>2, <2>7, Zenon DEF Grown, Extended
      <3>5. Join(up[i]) = upTo(k) \o <<p[i]>>
        BY <2>2, <2>4, <3>2, <3>3, <3>4, JoinExtended, Zenon
      <3>6. QED
        BY <2>1, <2>4, <2>7, <3>5, Zenon
    <2>8. QED
      BY <2>5, <2>6, <2>7, Zenon
  <1> HIDE DEF Good
  <1> DEFINE Bad == {i \in Nat : i <= n /\ ~Good(i)}
  <1>10. Bad = {}
    <2> SUFFICES ASSUME Bad # {} PROVE FALSE
      OBVIOUS
    <2>1. PICK i \in Bad : \A j \in Bad : i <= j
      <3>1. Bad \in SUBSET Nat
        OBVIOUS
      <3>2. QED
        BY ONLY <3>1, Bad # {}, HasMin
    <2>2. i \in 1 .. n /\ i - 1 \in Nat /\ i - 1 <= n /\ i - 1 \notin Bad
      BY <1>1, <1>8, <2>1
    <2>3. QED
      BY <1>9, <2>1, <2>2
  <1>11. Good(n)
    BY <1>1, <1>10
  <1>12. Join(Segments(p)) = p
    BY <1>1, <1>2, <1>3, <1>5, <1>11, Zenon DEF Good, IsUpTo
  <1>13. Segments(p) # <<>>
    <2>1. p # <<>>
      BY <1>1
    <2>2. Segments(p) \in Seq(Seq(S))
      BY SegmentsType, Zenon
    <2>3. QED
      BY <1>6, <1>12, <2>1, <2>2, Zenon
  <1>14. QED
    BY <1>12, <1>13

\* The inputs about paths.
LEMMA PathsTyped ==
    ASSUME WellFormed, subject = "paths"
    PROVE  /\ Slash \in Symbols
           /\ mount \in Seq(Symbols) /\ route \in Seq(Symbols) /\ resource \in Seq(Symbols)
           /\ Rooted(mount) /\ Rooted(route) /\ Rooted(resource)
  <1>1. parts \in Seq(Seq(Symbols)) /\ Len(parts) = 3 /\ \A i \in 1 .. 3 : Rooted(parts[i])
    BY Zenon DEF WellFormed, PartsOf
  <1>2. 1 \in 1 .. 3 /\ 2 \in 1 .. 3 /\ 3 \in 1 .. 3
    OBVIOUS
  <1>3. Slash \in Symbols
    BY Zenon DEF Symbols
  <1>4. QED
    BY <1>1, <1>2, <1>3, ElementOfSeq, Zenon DEF mount, route, resource

\* Clean paths with the same names are the same.
LEMMA SameNames ==
    ASSUME NEW S, Slash \in S, NEW p \in Seq(S), NEW q \in Seq(S),
           Rooted(p), Rooted(q), Clean(p), Clean(q), Segments(p) = Segments(q)
    PROVE  p = q
  <1>1. Segments(<<Slash>>) = <<>>
    BY NoNames
  <1>2. CASE p = <<Slash>>
    BY <1>1, <1>2, JoinSegments, Zenon
  <1>3. CASE q = <<Slash>>
    BY <1>1, <1>3, JoinSegments, Zenon
  <1>4. CASE p # <<Slash>> /\ q # <<Slash>>
    BY <1>4, JoinSegments, Zenon
  <1>5. QED
    BY <1>2, <1>3, <1>4, Zenon

\* A sequence starts with another one when it goes on from it.
GoesOn(T, s, prefix) == \E rest \in Seq(T) : s = prefix \o rest

LEMMA StartsWithConcat ==
    ASSUME NEW T, NEW s \in Seq(T), NEW prefix \in Seq(T)
    PROVE  StartsWith(s, prefix) <=> GoesOn(T, s, prefix)
  <1>1. ASSUME StartsWith(s, prefix) PROVE GoesOn(T, s, prefix)
    <2>1. PICK m \in 0 .. Len(s) : SubSeq(s, 1, m) = prefix
      <3>1. Len(prefix) \in 0 .. Len(s)
        BY <1>1, LenProperties DEF StartsWith
      <3>2. SubSeq(s, 1, Len(prefix)) = prefix
        BY <1>1 DEF StartsWith
      <3>3. QED
        BY <3>1, <3>2, Zenon
    <2>2. PICK rest \in Seq(T) : rest = SubSeq(s, m + 1, Len(s))
      BY SplitAt, Zenon
    <2>3. s = prefix \o rest
      BY <2>1, <2>2, SplitAt, Zenon
    <2>4. QED
      BY <2>3, Zenon DEF GoesOn
  <1>2. ASSUME NEW rest \in Seq(T), s = prefix \o rest PROVE StartsWith(s, prefix)
    <2>1. PICK m \in Nat, n \in Nat : m = Len(prefix) /\ n = Len(rest)
      BY LenProperties
    <2>2. Len(s) = m + n /\ \A i \in 1 .. m : s[i] = prefix[i]
      BY <1>2, <2>1
    <2>3. m \in 0 .. Len(s) /\ m <= Len(s)
      BY <2>1, <2>2
    <2>4. /\ SubSeq(s, 1, m) \in Seq(T) /\ Len(SubSeq(s, 1, m)) = m
          /\ \A i \in 1 .. m : SubSeq(s, 1, m)[i] = s[i]
      BY <2>3, SplitAt, Zenon
    <2>5. SubSeq(s, 1, m) = prefix
      BY <2>1, <2>2, <2>4, SeqEqual
    <2>6. QED
      BY <2>1, <2>3, <2>5 DEF StartsWith
  <1>3. QED
    BY <1>1, <1>2, Zenon DEF GoesOn

\* A mount serves itself and what goes on from it with a separator.
LEMMA GoesOnSupported ==
    ASSUME NEW S, NEW path \in Seq(S), Rooted(path), NEW rest \in Seq(S),
           rest = <<>> \/ Rooted(rest)
    PROVE  Supported(path, TRUE, path \o rest)
  <1>1. CASE rest = <<>>
    BY <1>1, ConcatEmptySeq DEF Supported
  <1>2. CASE Rooted(rest)
    <2>1. PICK res \in Seq(S) : res = path \o rest
      BY ConcatProperties
    <2>2. StartsWith(res, path)
      BY <2>1, StartsWithConcat, Zenon DEF GoesOn
    <2>3. PICK m \in Nat, n \in Nat : m = Len(path) /\ n = Len(rest)
      BY LenProperties
    <2>4. n > 0 /\ rest[1] = Slash
      BY <1>2, <2>3 DEF Rooted
    <2>5. Len(res) = m + n /\ Len(res) > m /\ res[m + 1] = rest[1]
      BY <2>1, <2>3, <2>4
    <2>6. QED
      BY <2>1, <2>2, <2>3, <2>4, <2>5 DEF Supported
  <1>3. QED
    BY <1>1, <1>2

\* A parent path serves exactly the resources whose names start with its own,
\* whatever their length and the characters of the names
\* (hs_route_is_supported_path, hs_route.c:107-147).
THEOREM ParentServesByName ==
    ASSUME NEW S, Slash \in S, NEW path \in Seq(S), NEW res \in Seq(S),
           Rooted(path), Rooted(res), Clean(path), Clean(res)
    PROVE  Supported(path, TRUE, res) <=> StartsWith(Segments(res), Segments(path))
  <1>1. Segments(path) \in Seq(Seq(S)) /\ Segments(res) \in Seq(Seq(S))
    BY SegmentsType, Zenon
  <1>2. ASSUME Supported(path, TRUE, res)
        PROVE  StartsWith(Segments(res), Segments(path))
    <2>1. Segments(res) = Segments(path) \o Segments(RemovePrefix(path, res))
      BY <1>2, SeenSegments, Zenon
    <2>2. Segments(RemovePrefix(path, res)) \in Seq(Seq(S))
      BY <1>2, SeenType, SegmentsType, Zenon
    <2>3. QED
      BY <1>1, <2>1, <2>2, StartsWithConcat, Zenon DEF GoesOn
  <1>3. ASSUME StartsWith(Segments(res), Segments(path))
        PROVE  Supported(path, TRUE, res)
    <2>1. PICK rest \in Seq(Seq(S)) : Segments(res) = Segments(path) \o rest
      <3>1. GoesOn(Seq(S), Segments(res), Segments(path))
        BY <1>1, <1>3, StartsWithConcat, Zenon
      <3>2. QED
        BY <3>1, Zenon DEF GoesOn
    <2>2. CASE path = <<Slash>>
      <3>1. Len(path) = 1 /\ Len(res) \in Nat /\ Len(res) > 0 /\ res[1] = Slash
        BY <2>2, LenProperties DEF Rooted
      <3>2. 1 \in 0 .. Len(res) /\ 1 > 0 /\ (Len(res) > 1 \/ Len(res) = 1)
        BY <3>1
      <3>3. SubSeq(res, 1, 1) = path
        BY <2>2, <3>1, <3>2, SplitAt, Zenon
      <3>4. Len(res) = 1 => res = path
        BY <3>3, SubSeqFull
      <3>5. Len(res) > 1 => StartsWith(res, path)
        BY <3>1, <3>2, <3>3 DEF StartsWith
      <3>6. QED
        BY <3>1, <3>2, <3>4, <3>5 DEF Supported
    <2>3. CASE path # <<Slash>>
      <3>1. Join(Segments(path)) = path /\ Segments(path) # <<>>
        BY <2>3, JoinSegments, Zenon
      <3>2. res # <<Slash>>
        <4>1. Segments(res) # <<>>
          <5>1. Segments(path) \o rest = <<>> => Segments(path) = <<>>
            <6>1. \A T : \A s, u \in Seq(T) : s \o u = <<>> => s = <<>> /\ u = <<>>
              BY ConcatSimplifications
            <6>2. QED
              BY <1>1, <6>1, Zenon
          <5>2. QED
            BY <2>1, <3>1, <5>1, Zenon
        <4>2. QED
          BY <4>1, NoNames, Zenon
      <3>3. Join(Segments(res)) = res
        BY <3>2, JoinSegments, Zenon
      <3>4. res = path \o Join(rest) /\ Join(rest) \in Seq(S)
        BY <1>1, <2>1, <3>1, <3>3, JoinConcat, Zenon
      <3>5. Join(rest) = <<>> \/ Rooted(Join(rest))
        BY JoinRooted, Zenon
      <3>6. QED
        BY <3>4, <3>5, GoesOnSupported, Zenon
    <2>4. QED
      BY <2>2, <2>3
  <1>4. QED
    BY <1>2, <1>3

\* The code matches parent paths by name, for every mount and resource.
THEOREM ParentMatchesBySegmentHolds == Spec => []ParentMatchesBySegment
  <1>1. WellFormed => ParentMatchesBySegment
    BY PathsTyped, ParentServesByName, Zenon DEF ParentMatchesBySegment
  <1>2. QED
    BY <1>1, WellFormedAlways, PTL

\* What is left of a clean resource below a clean mount is clean.
LEMMA SeenClean ==
    ASSUME NEW S, Slash \in S, NEW path \in Seq(S), NEW res \in Seq(S),
           Clean(path), Clean(res), Supported(path, TRUE, res)
    PROVE  Clean(RemovePrefix(path, res))
  <1> DEFINE n == Len(path)
             k == Len(res)
  <1>1. n \in Nat \ {0} /\ k \in Nat /\ path[1] = Slash
    BY LenProperties DEF Supported, Rooted
  <1>2. CASE n <= 1
    BY <1>2 DEF RemovePrefix
  <1>3. CASE ~(n <= 1) /\ n = k
    BY <1>3 DEF RemovePrefix, Clean
  <1>4. CASE ~(n <= 1) /\ n # k
    <2>1. n < k
      BY <1>4 DEF Supported
    <2>2. path # <<Slash>> /\ res # <<Slash>>
      <3>1. Len(<<Slash>>) = 1
        OBVIOUS
      <3>2. n # 1 /\ k # 1
        <4>1. \A a, b \in Nat : ~(a <= 1) /\ a < b => a # 1 /\ b # 1
          OBVIOUS
        <4>2. QED
          BY <1>1, <1>4, <2>1, <4>1, Zenon
      <3>3. QED
        BY <3>1, <3>2, Zenon
    <2>3. path[n] # Slash
      BY <2>2 DEF Clean
    <2>4. RemovePrefix(path, res) = SubSeq(res, n + 1, k)
      BY <1>4, <2>3 DEF RemovePrefix
    <2>5. PICK m \in Nat \ {0} : m = k - n
      <3>1. k - n \in Nat \ {0}
        BY <1>1, <2>1
      <3>2. QED
        BY <3>1
    <2>6. PICK q \in Seq(S) : q = SubSeq(res, n + 1, k)
      <3>1. n \in 0 .. k
        BY <1>1, <2>1
      <3>2. QED
        BY <3>1, SplitAt, Zenon
    <2>7. Len(q) = m /\ \A i \in 1 .. m : q[i] = res[n + i]
      BY <1>1, <2>1, <2>5, <2>6
    <2>8. q[m] = res[k]
      BY <1>1, <2>5, <2>7
    <2>9. \A i \in 1 .. m - 1 : q[i] = res[n + i] /\ q[i + 1] = res[(n + i) + 1] /\ n + i \in 1 .. k - 1
      <3>1. \A i \in 1 .. m - 1 : i \in 1 .. m /\ i + 1 \in 1 .. m /\ n + (i + 1) = (n + i) + 1
                                   /\ n + i \in 1 .. k - 1
        BY ONLY <1>1, <2>5
      <3>2. QED
        BY <2>7, <3>1, Zenon
    <2>10. res[k] # Slash /\ \A i \in 1 .. k - 1 : ~(res[i] = Slash /\ res[i + 1] = Slash)
      BY <2>2, Zenon DEF Clean
    <2>11. QED
      <3>1. q[Len(q)] # Slash
        BY <2>7, <2>8, <2>10, Zenon
      <3>2. \A i \in 1 .. Len(q) - 1 : ~(q[i] = Slash /\ q[i + 1] = Slash)
        <4>1. \A i \in 1 .. m - 1 : ~(q[i] = Slash /\ q[i + 1] = Slash)
          BY <2>9, <2>10, Zenon
        <4>2. QED
          BY <2>7, <4>1, Zenon
      <3>3. QED
        BY <2>4, <2>6, <3>1, <3>2, Zenon DEF Clean
  <1>5. QED
    BY <1>2, <1>3, <1>4

\* A route of a mounted router serves exactly the resource whose names are the
\* mount's followed by its own, for every mount, route and resource
\* (hs_route_is_supported_path, hs_router_remove_path_prefix, hs_router.c:300-332).
THEOREM MountedRouteServes ==
    ASSUME NEW S, Slash \in S, NEW path \in Seq(S), NEW own \in Seq(S), NEW res \in Seq(S),
           Rooted(path), Rooted(own), Rooted(res)
    PROVE  /\ Supported(path, TRUE, res) /\ Supported(own, FALSE, RemovePrefix(path, res))
                => Segments(res) = Segments(path) \o Segments(own)
           /\ Clean(path) /\ Clean(own) /\ Clean(res)
                    /\ Segments(res) = Segments(path) \o Segments(own)
                => Supported(path, TRUE, res) /\ Supported(own, FALSE, RemovePrefix(path, res))
  <1>1. Segments(path) \in Seq(Seq(S)) /\ Segments(own) \in Seq(Seq(S))
    BY SegmentsType, Zenon
  <1>2. ASSUME Supported(path, TRUE, res), Supported(own, FALSE, RemovePrefix(path, res))
        PROVE  Segments(res) = Segments(path) \o Segments(own)
    <2>1. RemovePrefix(path, res) = own
      BY <1>2 DEF Supported
    <2>2. QED
      BY <1>2, <2>1, SeenSegments, Zenon
  <1>3. ASSUME Clean(path), Clean(own), Clean(res),
               Segments(res) = Segments(path) \o Segments(own)
        PROVE  Supported(path, TRUE, res) /\ Supported(own, FALSE, RemovePrefix(path, res))
    <2>1. Supported(path, TRUE, res)
      <3>1. Segments(res) \in Seq(Seq(S))
        BY SegmentsType, Zenon
      <3>2. StartsWith(Segments(res), Segments(path))
        BY <1>1, <1>3, <3>1, StartsWithConcat, Zenon DEF GoesOn
      <3>3. QED
        BY <1>3, <3>2, ParentServesByName, Zenon
    <2>2. PICK seen \in Seq(S) : seen = RemovePrefix(path, res)
      BY <2>1, SeenType, Zenon
    <2>3. Rooted(seen) /\ Clean(seen)
      BY <1>3, <2>1, <2>2, RemovePrefixRooted, SeenClean, Zenon
    <2>4. Segments(seen) \in Seq(Seq(S)) /\ Segments(res) = Segments(path) \o Segments(seen)
      BY <2>1, <2>2, SeenSegments, SegmentsType, Zenon
    <2>5. Segments(seen) = Segments(own)
      <3>1. \A T : \A s, t, v \in Seq(T) : s \o t = s \o v => t = v
        BY ConcatSimplifications
      <3>2. QED
        BY <1>1, <1>3, <2>4, <3>1, Zenon
    <2>6. seen = own
      BY <1>3, <2>3, <2>5, SameNames, Zenon
    <2>7. QED
      BY <2>1, <2>2, <2>6, Zenon DEF Supported
  <1>4. QED
    BY <1>2, <1>3

\* Mounting a router composes the names, for every mount, route and resource.
THEOREM MountingComposesHolds == Spec => []MountingComposes
  <1>1. WellFormed => MountingComposes
    BY PathsTyped, MountedRouteServes, Zenon DEF MountingComposes, Serves
  <1>2. QED
    BY <1>1, WellFormedAlways, PTL

-----------------------------------------------------------------------------
\* Arrays of pairs.

\* RemoveByKey, unfolded: after[i] is the array once its last i indexes have
\* been looked at.
Removes(after, pairs, key, n) ==
    after = [i \in 0 .. n |->
        IF i = 0 THEN pairs
        ELSE LET index == Len(pairs) - i + 1
             IN  IF after[i - 1][index].key = key THEN RemoveAt(after[i - 1], index)
                 ELSE after[i - 1]]

\* RemoveByKey, unfolded.
LEMMA RemovesExists ==
    ASSUME NEW pairs, NEW key, NEW n \in Nat
    PROVE  \E after : Removes(after, pairs, key, n)
  <1> DEFINE Bad == {k \in Nat : ~\E after : Removes(after, pairs, key, k)}
             Looked(index, s) == IF s[index].key = key THEN RemoveAt(s, index) ELSE s
             Step(f, i) == IF i = 0 THEN pairs ELSE Looked(Len(pairs) - i + 1, f[i - 1])
  <1>0. \A f, k : Removes(f, pairs, key, k) <=> f = [i \in 0 .. k |-> Step(f, i)]
    BY Zenon DEF Removes
  <1>1. SUFFICES ASSUME Bad # {} PROVE FALSE
    OBVIOUS
  <1>2. PICK k \in Bad : \A j \in Bad : k <= j
    <2>1. Bad \in SUBSET Nat
      OBVIOUS
    <2>2. QED
      BY ONLY <1>1, <2>1, HasMin
  <1> HIDE DEF Looked
  <1>3. k # 0
    <2>1. [i \in 0 .. 0 |-> pairs] = [i \in 0 .. 0 |-> Step([j \in 0 .. 0 |-> pairs], i)]
      OBVIOUS
    <2>2. QED
      BY <1>0, <2>1
  <1>4. k - 1 \in Nat /\ k - 1 \notin Bad
    BY <1>2, <1>3
  <1>5. PICK f : f = [i \in 0 .. k - 1 |-> Step(f, i)]
    BY <1>0, <1>4
  <1>6. PICK g : g = [i \in 0 .. k |-> Step(f, i)]
    OBVIOUS
  <1>7. \A i \in 0 .. k - 1 : g[i] = f[i]
    <2>1. \A i \in 0 .. k - 1 : i \in 0 .. k
      BY <1>4
    <2>2. \A i \in 0 .. k : g[i] = Step(f, i)
      BY ONLY <1>6
    <2>3. \A i \in 0 .. k - 1 : f[i] = Step(f, i)
      BY ONLY <1>5
    <2>4. QED
      BY ONLY <2>1, <2>2, <2>3
  <1>8. \A i \in 0 .. k : Step(g, i) = Step(f, i)
    <2>1. \A i \in 0 .. k : i = 0 \/ g[i - 1] = f[i - 1]
      BY <1>4, <1>7
    <2>2. QED
      BY <2>1
  <1>9. g = [i \in 0 .. k |-> Step(g, i)]
    BY ONLY <1>6, <1>8
  <1>10. QED
    BY <1>0, <1>9

\* Removing the element at an index keeps the others, in their order.
LEMMA RemoveAtKeeps ==
    ASSUME NEW P, NEW s \in Seq(P), NEW x \in 1 .. Len(s)
    PROVE  /\ RemoveAt(s, x) \in Seq(P)
           /\ Len(RemoveAt(s, x)) = Len(s) - 1
           /\ \A i \in 1 .. Len(s) - 1 : RemoveAt(s, x)[i] = IF i < x THEN s[i] ELSE s[i + 1]
  <1>1. Len(s) \in Nat
    OBVIOUS
  <1>2. /\ SubSeq(s, 1, x - 1) \in Seq(P) /\ Len(SubSeq(s, 1, x - 1)) = x - 1
        /\ \A i \in 1 .. x - 1 : SubSeq(s, 1, x - 1)[i] = s[i]
    BY <1>1
  <1>3. /\ SubSeq(s, x + 1, Len(s)) \in Seq(P)
        /\ Len(SubSeq(s, x + 1, Len(s))) = Len(s) - x
        /\ \A i \in 1 .. Len(s) - x : SubSeq(s, x + 1, Len(s))[i] = s[x + i]
    BY <1>1
  <1>4. PICK front \in Seq(P) : front = SubSeq(s, 1, x - 1)
    BY <1>2
  <1>5. PICK back \in Seq(P) : back = SubSeq(s, x + 1, Len(s))
    BY <1>3
  <1>6. RemoveAt(s, x) = front \o back
    BY <1>4, <1>5, Zenon DEF RemoveAt
  <1>7. /\ Len(front) = x - 1 /\ Len(back) = Len(s) - x
        /\ \A i \in 1 .. x - 1 : front[i] = s[i]
        /\ \A i \in 1 .. Len(s) - x : back[i] = s[x + i]
    BY ONLY <1>2, <1>3, <1>4, <1>5
  <1>8. /\ front \o back \in Seq(P)
        /\ Len(front \o back) = Len(s) - 1
        /\ \A i \in 1 .. Len(s) - 1 : (front \o back)[i] = IF i < x THEN s[i] ELSE s[i + 1]
    BY ONLY <1>1, <1>7, x \in 1 .. Len(s), front \in Seq(P), back \in Seq(P)
  <1>9. QED
    BY <1>6, <1>8, Zenon

\* What is left of an array once its places after m have been looked at: the
\* pairs up to m, and after them, in their order, those without the key.
LooksAt(kept, pairs, key, m) ==
    /\ Len(kept) >= m
    /\ \A j \in 1 .. m : kept[j] = pairs[j]
    /\ \A j \in m + 1 .. Len(kept) : kept[j].key # key
    /\ \A j \in m + 1 .. Len(pairs) :
          pairs[j].key # key => \E i \in 1 .. Len(kept) : kept[i] = pairs[j]
    /\ \A i \in 1 .. Len(kept) : \E k \in 1 .. Len(pairs) : kept[i] = pairs[k]
    /\ \A i, j \in 1 .. Len(kept) : i < j =>
          \E k, l \in 1 .. Len(pairs) : k < l /\ kept[i] = pairs[k] /\ kept[j] = pairs[l]

\* An index whose pair has the key is looked at, and the pair removed.
LEMMA LooksAtRemoved ==
    ASSUME NEW P, NEW pairs \in Seq(P), NEW key, NEW m \in Nat, m < Len(pairs),
           NEW kept \in Seq(P), LooksAt(kept, pairs, key, m + 1), kept[m + 1].key = key
    PROVE  LooksAt(RemoveAt(kept, m + 1), pairs, key, m)
  <1> DEFINE s == RemoveAt(kept, m + 1)
             n == Len(kept)
  <1>1. n \in Nat /\ Len(pairs) \in Nat /\ m + 1 \in 1 .. n
    BY DEF LooksAt
  <1>2. /\ Len(s) = n - 1
        /\ \A i \in 1 .. n - 1 : s[i] = IF i < m + 1 THEN kept[i] ELSE kept[i + 1]
    BY <1>1, RemoveAtKeeps
  <1> HIDE DEF s
  <1>3. \A i \in 1 .. n - 1 : \E a \in 1 .. n : s[i] = kept[a] /\ a = IF i < m + 1 THEN i ELSE i + 1
    BY <1>1, <1>2
  <1>4. Len(s) >= m /\ \A j \in 1 .. m : s[j] = pairs[j]
    BY <1>1, <1>2 DEF LooksAt
  <1>5. \A j \in m + 1 .. Len(s) : s[j].key # key
    <2> SUFFICES ASSUME NEW j \in m + 1 .. Len(s) PROVE s[j].key # key
      OBVIOUS
    <2>1. j \in 1 .. n - 1 /\ ~(j < m + 1) /\ j + 1 \in (m + 1) + 1 .. n
      BY <1>1, <1>2
    <2>2. s[j] = kept[j + 1]
      BY <1>2, <2>1
    <2>3. kept[j + 1].key # key
      BY <2>1, Zenon DEF LooksAt
    <2>4. QED
      BY <2>2, <2>3
  <1>6. \A j \in m + 1 .. Len(pairs) :
           pairs[j].key # key => \E i \in 1 .. Len(s) : s[i] = pairs[j]
    <2> SUFFICES ASSUME NEW j \in m + 1 .. Len(pairs), pairs[j].key # key
                 PROVE  \E i \in 1 .. Len(s) : s[i] = pairs[j]
      OBVIOUS
    <2>1. kept[m + 1] = pairs[m + 1]
      BY DEF LooksAt
    <2>2. j # m + 1
      BY <2>1
    <2>3. j \in (m + 1) + 1 .. Len(pairs)
      BY <1>1, <2>2
    <2>4. PICK a \in 1 .. n : kept[a] = pairs[j]
      BY <2>3, Zenon DEF LooksAt
    <2>5. a # m + 1
      BY <2>4
    <2>6. CASE a < m + 1
      BY <1>1, <1>2, <2>4, <2>6
    <2>7. CASE a > m + 1
      <3>1. a - 1 \in 1 .. n - 1 /\ ~(a - 1 < m + 1) /\ (a - 1) + 1 = a
        BY <1>1, <2>7
      <3>2. s[a - 1] = kept[a]
        BY <1>2, <3>1
      <3>3. QED
        BY <1>2, <2>4, <3>1, <3>2
    <2>8. QED
      BY <1>1, <2>5, <2>6, <2>7
  <1>7. \A i \in 1 .. Len(s) : \E k \in 1 .. Len(pairs) : s[i] = pairs[k]
    <2> SUFFICES ASSUME NEW i \in 1 .. n - 1
                 PROVE  \E k \in 1 .. Len(pairs) : s[i] = pairs[k]
      BY <1>2
    <2>1. PICK a \in 1 .. n : s[i] = kept[a]
      BY <1>3
    <2>2. \E k \in 1 .. Len(pairs) : kept[a] = pairs[k]
      BY Zenon DEF LooksAt
    <2>3. QED
      BY <2>1, <2>2
  <1>8. \A i, j \in 1 .. Len(s) : i < j =>
           \E k, l \in 1 .. Len(pairs) : k < l /\ s[i] = pairs[k] /\ s[j] = pairs[l]
    <2> SUFFICES ASSUME NEW i \in 1 .. Len(s), NEW j \in 1 .. Len(s), i < j
                 PROVE  \E k, l \in 1 .. Len(pairs) : k < l /\ s[i] = pairs[k] /\ s[j] = pairs[l]
      BY Zenon
    <2>1. PICK a \in 1 .. n : s[i] = kept[a] /\ a = IF i < m + 1 THEN i ELSE i + 1
      BY <1>2, <1>3
    <2>2. PICK b \in 1 .. n : s[j] = kept[b] /\ b = IF j < m + 1 THEN j ELSE j + 1
      BY <1>2, <1>3
    <2>3. a < b
      BY <1>1, <1>2, <2>1, <2>2
    <2>4. \E k, l \in 1 .. Len(pairs) : k < l /\ kept[a] = pairs[k] /\ kept[b] = pairs[l]
      BY <2>3, Zenon DEF LooksAt
    <2>5. QED
      BY <2>1, <2>2, <2>4
  <1>9. QED
    BY <1>4, <1>5, <1>6, <1>7, <1>8, Zenon DEF LooksAt, s

\* An index whose pair has another key is looked at.
LEMMA LooksAtLeft ==
    ASSUME NEW P, NEW pairs \in Seq(P), NEW key, NEW m \in Nat, m < Len(pairs),
           NEW kept \in Seq(P), LooksAt(kept, pairs, key, m + 1), kept[m + 1].key # key
    PROVE  LooksAt(kept, pairs, key, m)
  <1>1. Len(kept) \in Nat /\ Len(pairs) \in Nat /\ m + 1 \in 1 .. Len(kept)
    BY DEF LooksAt
  <1>2. Len(kept) >= m /\ \A j \in 1 .. m : kept[j] = pairs[j]
    BY <1>1 DEF LooksAt
  <1>3. \A j \in m + 1 .. Len(kept) : j = m + 1 \/ j \in (m + 1) + 1 .. Len(kept)
    BY <1>1
  <1>4. \A j \in m + 1 .. Len(kept) : kept[j].key # key
    BY <1>3, Zenon DEF LooksAt
  <1>5. \A j \in m + 1 .. Len(pairs) : j = m + 1 \/ j \in (m + 1) + 1 .. Len(pairs)
    BY <1>1
  <1>6. kept[m + 1] = pairs[m + 1]
    BY DEF LooksAt
  <1>7. \A j \in m + 1 .. Len(pairs) :
           pairs[j].key # key => \E i \in 1 .. Len(kept) : kept[i] = pairs[j]
    BY <1>1, <1>5, <1>6, Zenon DEF LooksAt
  <1>8. QED
    BY <1>2, <1>4, <1>7, Zenon DEF LooksAt

\* Removing a key leaves exactly the pairs without it, each before those it
\* was before, however long the array and whatever stands next to each other
\* in it (hs_types_array.c:221-248, hs_types_cookie.c:130-157).
THEOREM RemovalIsExact ==
    ASSUME NEW P, NEW pairs \in Seq(P), NEW key
    PROVE  /\ RemoveByKey(pairs, key) \in Seq(P)
           /\ LooksAt(RemoveByKey(pairs, key), pairs, key, 0)
  <1> DEFINE n == Len(pairs)
  <1>1. n \in Nat
    BY LenProperties
  <1>2. PICK after : /\ Removes(after, pairs, key, n)
                     /\ RemoveByKey(pairs, key) = after[n]
    <2>1. \E after : Removes(after, pairs, key, n)
      BY <1>1, RemovesExists
    <2>2. PICK after : after = CHOOSE f : Removes(f, pairs, key, n)
      OBVIOUS
    <2>3. Removes(after, pairs, key, n)
      BY <2>1, <2>2, Zenon
    <2>4. RemoveByKey(pairs, key) = after[n]
      BY <2>2, Zenon DEF RemoveByKey, Removes
    <2>5. QED
      BY <2>3, <2>4
  <1>3. \A i \in 0 .. n : after[i] = IF i = 0 THEN pairs
                                   ELSE IF after[i - 1][n - i + 1].key = key
                                        THEN RemoveAt(after[i - 1], n - i + 1)
                                        ELSE after[i - 1]
    BY <1>2, Zenon DEF Removes
  <1> DEFINE Good(i) == after[i] \in Seq(P) /\ LooksAt(after[i], pairs, key, n - i)
             Bad == {i \in Nat : i <= n /\ ~Good(i)}
  <1>4. Good(0)
    <2>1. after[0] = pairs
      BY <1>1, <1>3
    <2>2. LooksAt(pairs, pairs, key, n)
      <3>1. n >= n /\ \A j \in n + 1 .. n : FALSE
        BY <1>1
      <3>2. \A i, j \in 1 .. n : i < j =>
               \E k, l \in 1 .. n : k < l /\ pairs[i] = pairs[k] /\ pairs[j] = pairs[l]
        OBVIOUS
      <3>3. QED
        BY <3>1, <3>2, Zenon DEF LooksAt
    <2>3. n - 0 = n
      BY <1>1
    <2>4. QED
      BY <2>1, <2>2, <2>3
  <1>5. ASSUME NEW i \in 1 .. n, Good(i - 1) PROVE Good(i)
    <2>1. PICK m \in Nat : m = n - i
      BY <1>1
    <2>2. m < n /\ n - (i - 1) = m + 1 /\ n - i + 1 = m + 1 /\ i \in 0 .. n /\ i # 0
      BY <1>1, <2>1
    <2>3. PICK kept \in Seq(P) : kept = after[i - 1] /\ LooksAt(kept, pairs, key, m + 1)
      BY <1>5, <2>2, Zenon
    <2>4. after[i] = IF kept[m + 1].key = key THEN RemoveAt(kept, m + 1) ELSE kept
      BY <1>3, <2>2, <2>3, Zenon
    <2>5. CASE kept[m + 1].key = key
      <3>1. LooksAt(RemoveAt(kept, m + 1), pairs, key, m)
        BY <2>2, <2>3, <2>5, LooksAtRemoved, Zenon
      <3>2. m + 1 \in 1 .. Len(kept)
        BY <2>3 DEF LooksAt
      <3>3. RemoveAt(kept, m + 1) \in Seq(P)
        BY <3>2, RemoveAtKeeps, Zenon
      <3>4. QED
        BY <2>1, <2>4, <2>5, <3>1, <3>3, Zenon
    <2>6. CASE kept[m + 1].key # key
      <3>1. LooksAt(kept, pairs, key, m)
        BY <2>2, <2>3, <2>6, LooksAtLeft, Zenon
      <3>2. QED
        BY <2>1, <2>4, <2>6, <3>1, Zenon
    <2>7. QED
      BY <2>5, <2>6
  <1> HIDE DEF Good
  <1>6. Bad = {}
    <2> SUFFICES ASSUME Bad # {} PROVE FALSE
      OBVIOUS
    <2>1. PICK i \in Bad : \A j \in Bad : i <= j
      <3>1. Bad \in SUBSET Nat
        OBVIOUS
      <3>2. QED
        BY ONLY <3>1, Bad # {}, HasMin
    <2>2. i \in 1 .. n /\ i - 1 \in Nat /\ i - 1 <= n /\ i - 1 \notin Bad
      BY <1>1, <1>4, <2>1
    <2>3. QED
      BY <1>5, <2>1, <2>2
  <1>7. Good(n)
    BY <1>1, <1>6
  <1>8. n - n = 0
    BY <1>1
  <1>9. QED
    BY <1>2, <1>7, <1>8, Zenon DEF Good

\* In every behaviour, what is left of the array is what it had without the
\* key, in its order.
THEOREM RemovalKeepsOthersHolds == Spec => []RemovalKeepsOthers
  <1>1. WellFormed => RemovalKeepsOthers
    <2> DEFINE pairs == [i \in 1 .. Len(parts[1]) |-> Pair(parts[1][i], i)]
    <2> SUFFICES ASSUME WellFormed, subject = "pairs", NEW key, NEW kept,
                        kept = RemoveByKey(pairs, key)
                 PROVE  /\ ToSet(kept) = {pair \in ToSet(pairs) : pair.key # key}
                        /\ \A i, j \in 1 .. Len(kept) : i < j => kept[i].value < kept[j].value
      BY Zenon DEF RemovalKeepsOthers
    <2> DEFINE P == {Pair(c, i) : c \in Symbols, i \in Nat}
    <2>1. parts[1] \in Seq(Symbols)
      <3>1. parts \in Seq(Seq(Symbols)) /\ Len(parts) = 1
        BY Zenon DEF WellFormed, PartsOf
      <3>2. 1 \in 1 .. 1
        OBVIOUS
      <3>3. QED
        BY <3>1, <3>2, ElementOfSeq, Zenon
    <2>2. PICK n \in Nat : n = Len(parts[1])
      BY <2>1
    <2>3. \A i \in 1 .. n : Pair(parts[1][i], i) \in P
      <3>1. \A i \in 1 .. n : parts[1][i] \in Symbols /\ i \in Nat
        BY ONLY <2>1, <2>2
      <3>2. QED
        BY ONLY <3>1
    <2>4. pairs = [i \in 1 .. n |-> Pair(parts[1][i], i)]
      BY <2>2, Zenon
    <2>5. \A i \in 1 .. n : pairs[i].value = i
      BY <2>4 DEF Pair
    <2> HIDE DEF P, pairs
    <2>6. pairs \in Seq(P) /\ Len(pairs) = n
      BY ONLY <2>3, <2>4
    <2>7. kept \in Seq(P) /\ LooksAt(kept, pairs, key, 0)
      BY <2>6, RemovalIsExact, Zenon
    <2>8. /\ \A j \in 0 + 1 .. Len(kept) : kept[j].key # key
          /\ \A j \in 0 + 1 .. Len(pairs) :
                pairs[j].key # key => \E i \in 1 .. Len(kept) : kept[i] = pairs[j]
          /\ \A i \in 1 .. Len(kept) : \E k \in 1 .. Len(pairs) : kept[i] = pairs[k]
          /\ \A i, j \in 1 .. Len(kept) : i < j =>
                \E k, l \in 1 .. Len(pairs) : k < l /\ kept[i] = pairs[k] /\ kept[j] = pairs[l]
      BY <2>7, Zenon DEF LooksAt
    <2>9. ToSet(kept) = {pair \in ToSet(pairs) : pair.key # key}
      <3>1. ToSet(kept) = {kept[i] : i \in 1 .. Len(kept)}
            /\ ToSet(pairs) = {pairs[i] : i \in 1 .. Len(pairs)}
        BY <2>6, <2>7, LenProperties DEF ToSet
      <3>2. 0 + 1 = 1
        OBVIOUS
      <3>3. QED
        BY ONLY <2>8, <3>1, <3>2
    <2>10. \A i, j \in 1 .. Len(kept) : i < j => kept[i].value < kept[j].value
      BY ONLY <2>5, <2>6, <2>8
    <2>11. QED
      BY <2>9, <2>10
  <1>2. QED
    BY <1>1, WellFormedAlways, PTL

-----------------------------------------------------------------------------
\* Reading a query.

\* Pairs as they are written, and as they are read: a value may be missing.
TextPairs(C) == [key : Seq(C), value : Seq(C)]

ReadPairs(C) == [key : Seq(C), value : Seq(C) \cup {Null}]

QueryState(C) ==
    [keying : BOOLEAN, key : Seq(C) \cup {Null}, buffer : Seq(C), pairs : Seq(ReadPairs(C))]

QueryAt(keying, key, buffer, pairs) ==
    [keying |-> keying, key |-> key, buffer |-> buffer, pairs |-> pairs]

\* The loop of hs_parser_parse_query_string, one character at a time.
QueryRead(s, c, amp, eq) ==
    CASE s.keying /\ c = amp -> [s EXCEPT !.pairs = AddPair(@, s.buffer, Null), !.buffer = <<>>]
      [] s.keying /\ c = eq -> [s EXCEPT !.keying = FALSE, !.key = s.buffer, !.buffer = <<>>]
      [] ~s.keying /\ c = amp ->
            [s EXCEPT !.keying = TRUE, !.pairs = AddPair(@, s.key, OrNull(s.buffer)),
                      !.buffer = <<>>]
      [] OTHER -> [s EXCEPT !.buffer = Append(@, c)]

QueryStep(C, amp, eq) == [s \in QueryState(C) |-> [c \in C |-> QueryRead(s, c, amp, eq)]]

LEMMA AddPairType ==
    ASSUME NEW C, NEW pairs \in Seq(ReadPairs(C)), NEW key \in Seq(C) \cup {Null},
           NEW value \in Seq(C) \cup {Null}
    PROVE  AddPair(pairs, key, value) \in Seq(ReadPairs(C))
  <1>1. key # Null => Pair(key, value) \in ReadPairs(C)
    BY DEF Pair, ReadPairs
  <1>2. QED
    BY <1>1 DEF AddPair

\* A step of the loop stays within its states.
LEMMA QueryReadType ==
    ASSUME NEW C, NEW amp, NEW eq, NEW s \in QueryState(C), NEW c \in C
    PROVE  QueryRead(s, c, amp, eq) \in QueryState(C)
  <1>1. /\ s = QueryAt(s.keying, s.key, s.buffer, s.pairs)
        /\ s.keying \in BOOLEAN /\ s.key \in Seq(C) \cup {Null} /\ s.buffer \in Seq(C)
        /\ s.pairs \in Seq(ReadPairs(C))
    BY DEF QueryState, QueryAt
  <1>2. /\ AddPair(s.pairs, s.buffer, Null) \in Seq(ReadPairs(C))
        /\ AddPair(s.pairs, s.key, OrNull(s.buffer)) \in Seq(ReadPairs(C))
        /\ Append(s.buffer, c) \in Seq(C) /\ <<>> \in Seq(C)
    <2>1. OrNull(s.buffer) \in Seq(C) \cup {Null} /\ s.buffer \in Seq(C) \cup {Null}
          /\ Null \in Seq(C) \cup {Null}
      BY <1>1 DEF OrNull
    <2>2. /\ AddPair(s.pairs, s.buffer, Null) \in Seq(ReadPairs(C))
          /\ AddPair(s.pairs, s.key, OrNull(s.buffer)) \in Seq(ReadPairs(C))
      BY <1>1, <2>1, AddPairType, Zenon
    <2>3. QED
      BY <1>1, <2>2
  <1>3. CASE s.keying /\ c = amp
    BY <1>1, <1>2, <1>3 DEF QueryRead, QueryState
  <1>4. CASE s.keying /\ c # amp /\ c = eq
    BY <1>1, <1>2, <1>4 DEF QueryRead, QueryState
  <1>5. CASE ~s.keying /\ c = amp
    BY <1>1, <1>2, <1>5 DEF QueryRead, QueryState
  <1>6. CASE ~(s.keying /\ c = amp) /\ ~(s.keying /\ c = eq) /\ ~(~s.keying /\ c = amp)
    BY <1>1, <1>2, <1>6 DEF QueryRead, QueryState
  <1>7. QED
    BY <1>3, <1>4, <1>5, <1>6

\* So does its function.
LEMMA QueryStepType ==
    ASSUME NEW C, NEW amp, NEW eq
    PROVE  QueryStep(C, amp, eq) \in [QueryState(C) -> [C -> QueryState(C)]]
  BY QueryReadType, Zenon DEF QueryStep

\* What the characters of a query do: end a key, end a pair, or go on.
LEMMA QueryStepIs ==
    ASSUME NEW C, NEW amp, NEW eq, NEW keying \in BOOLEAN, NEW key \in Seq(C) \cup {Null},
           NEW buffer \in Seq(C), NEW pairs \in Seq(ReadPairs(C)), NEW c \in C, NEW t,
           t = QueryRead(QueryAt(keying, key, buffer, pairs), c, amp, eq)
    PROVE  Leads(QueryStep(C, amp, eq), QueryAt(keying, key, buffer, pairs), c, t)
  <1>1. QueryAt(keying, key, buffer, pairs) \in QueryState(C)
    BY DEF QueryAt, QueryState
  <1>2. \A s \in QueryState(C), d \in C : QueryStep(C, amp, eq)[s][d] = QueryRead(s, d, amp, eq)
    BY Zenon DEF QueryStep
  <1>3. QED
    BY <1>1, <1>2, Zenon DEF Leads

\* The separator of a key ends it.
LEMMA QueryNames ==
    ASSUME NEW C, NEW amp \in C, NEW eq \in C, amp # eq, NEW key \in Seq(C) \cup {Null},
           NEW buffer \in Seq(C), NEW pairs \in Seq(ReadPairs(C))
    PROVE  Leads(QueryStep(C, amp, eq), QueryAt(TRUE, key, buffer, pairs), eq,
                 QueryAt(FALSE, buffer, <<>>, pairs))
  <1>1. QueryAt(FALSE, buffer, <<>>, pairs) = QueryRead(QueryAt(TRUE, key, buffer, pairs), eq, amp, eq)
    BY DEF QueryRead, QueryAt
  <1>2. TRUE \in BOOLEAN
    OBVIOUS
  <1>3. QED
    BY <1>1, <1>2, QueryStepIs, Zenon

\* The separator of pairs ends a pair.
LEMMA QueryEnds ==
    ASSUME NEW C, NEW amp \in C, NEW eq \in C, Null \notin Seq(C), NEW key \in Seq(C),
           NEW buffer \in Seq(C), NEW pairs \in Seq(ReadPairs(C)),
           NEW more, more = Append(pairs, Pair(key, OrNull(buffer)))
    PROVE  Leads(QueryStep(C, amp, eq), QueryAt(FALSE, key, buffer, pairs), amp,
                 QueryAt(TRUE, key, <<>>, more))
  <1>1. key # Null /\ key \in Seq(C) \cup {Null} /\ FALSE \in BOOLEAN
    OBVIOUS
  <1>2. QueryAt(TRUE, key, <<>>, more) = QueryRead(QueryAt(FALSE, key, buffer, pairs), amp, amp, eq)
    BY <1>1 DEF QueryRead, QueryAt, AddPair
  <1>3. QED
    BY <1>1, <1>2, QueryStepIs, Zenon

\* Any other character is taken into the buffer.
LEMMA QueryTakes ==
    ASSUME NEW C, NEW amp \in C, NEW eq \in C, NEW keying \in BOOLEAN, NEW key \in Seq(C) \cup {Null},
           NEW buffer \in Seq(C), NEW pairs \in Seq(ReadPairs(C)), NEW c \in C, c # amp, keying => c # eq,
           NEW longer, longer = Append(buffer, c)
    PROVE  Leads(QueryStep(C, amp, eq), QueryAt(keying, key, buffer, pairs), c,
                 QueryAt(keying, key, longer, pairs))
  <1>1. QueryAt(keying, key, longer, pairs) = QueryRead(QueryAt(keying, key, buffer, pairs), c, amp, eq)
    BY DEF QueryRead, QueryAt
  <1>2. QED
    BY <1>1, QueryStepIs, Zenon

\* A text of which every character is taken into the buffer.
Buffers(step, text, keying, key, pairs) ==
    Runs(step, text, QueryAt(keying, key, <<>>, pairs), QueryAt(keying, key, text, pairs))

LEMMA QueryBuffers ==
    ASSUME NEW C, NEW amp \in C, NEW eq \in C, amp # eq, Null \notin Seq(C),
           NEW key \in Seq(C) \cup {Null}, NEW pairs \in Seq(ReadPairs(C)),
           NEW text \in Seq(C), NEW keying \in BOOLEAN,
           \A i \in 1 .. Len(text) : text[i] # amp /\ (keying => text[i] # eq)
    PROVE  Buffers(QueryStep(C, amp, eq), text, keying, key, pairs)
  <1> DEFINE step == QueryStep(C, amp, eq)
  <1>1. PICK n \in Nat : n = Len(text)
    BY LenProperties
  <1>2. PICK f : f = [i \in 0 .. n |-> QueryAt(keying, key, SubSeq(text, 1, i), pairs)]
    OBVIOUS
  <1>3. \A i \in 0 .. n : f[i] = QueryAt(keying, key, SubSeq(text, 1, i), pairs)
    BY <1>2, Zenon
  <1>4. 0 \in 0 .. n /\ n \in 0 .. n
    OBVIOUS
  <1>5. f[0] = QueryAt(keying, key, <<>>, pairs) /\ f[n] = QueryAt(keying, key, text, pairs)
    BY <1>1, <1>3, <1>4, Beginnings, Zenon
  <1>6. ASSUME NEW i \in 1 .. n PROVE f[i] = step[f[i - 1]][text[i]]
    <2>1. i \in 0 .. n /\ i - 1 \in 0 .. n /\ text[i] \in C /\ i \in 1 .. Len(text)
      BY <1>1, ElementOfSeq
    <2>2. PICK b \in Seq(C), c \in C : b = SubSeq(text, 1, i - 1) /\ c = text[i]
      BY <1>1, <2>1, Beginnings, Zenon
    <2>3. PICK longer \in Seq(C) : longer = Append(b, c) /\ longer = SubSeq(text, 1, i)
      <3>1. SubSeq(text, 1, i) \in Seq(C)
        BY <1>1, <2>1, Beginnings, Zenon
      <3>2. SubSeq(text, 1, i) = Append(SubSeq(text, 1, i - 1), text[i])
        BY <2>1, SubSeqAppend
      <3>3. QED
        BY <2>2, <3>1, <3>2
    <2>4. f[i] = QueryAt(keying, key, longer, pairs) /\ f[i - 1] = QueryAt(keying, key, b, pairs)
      BY <1>3, <2>1, <2>2, <2>3, Zenon
    <2>5. c # amp /\ (keying => c # eq)
      BY <2>1, <2>2
    <2>6. Leads(step, QueryAt(keying, key, b, pairs), c, QueryAt(keying, key, longer, pairs))
      BY <2>3, <2>5, QueryTakes
    <2>7. QED
      BY <2>2, <2>4, <2>6, Zenon DEF Leads
  <1>7. Runs(step, text, QueryAt(keying, key, <<>>, pairs), QueryAt(keying, key, text, pairs))
    BY <1>1, <1>5, <1>6, Zenon DEF Runs
  <1>8. QED
    BY <1>7, Zenon DEF Buffers

\* A pair is read.
LEMMA QueryPair ==
    ASSUME NEW C, NEW amp \in C, NEW eq \in C, amp # eq, Null \notin Seq(C),
           NEW k \in Seq(C) \cup {Null}, NEW pairs \in Seq(ReadPairs(C)),
           NEW key \in Seq(C), NEW value \in Seq(C), NEW step, step = QueryStep(C, amp, eq),
           \A i \in 1 .. Len(key) : key[i] # amp /\ key[i] # eq,
           \A i \in 1 .. Len(value) : value[i] # amp
    PROVE  Runs(step, (key \o <<eq>>) \o value, QueryAt(TRUE, k, <<>>, pairs),
                                                QueryAt(FALSE, key, value, pairs))
  <1>1. Runs(step, key, QueryAt(TRUE, k, <<>>, pairs), QueryAt(TRUE, k, key, pairs))
    <2>1. Buffers(QueryStep(C, amp, eq), key, TRUE, k, pairs)
      BY QueryBuffers
    <2>2. QED
      BY <2>1, Zenon DEF Buffers
  <1>2. Runs(step, <<eq>>, QueryAt(TRUE, k, key, pairs), QueryAt(FALSE, key, <<>>, pairs))
    <2>1. Leads(step, QueryAt(TRUE, k, key, pairs), eq, QueryAt(FALSE, key, <<>>, pairs))
      BY QueryNames
    <2>2. QED
      BY <2>1, RunsOne
  <1>3. Runs(step, value, QueryAt(FALSE, key, <<>>, pairs), QueryAt(FALSE, key, value, pairs))
    <2>1. key \in Seq(C) \cup {Null} /\ FALSE \in BOOLEAN
      OBVIOUS
    <2>2. Buffers(QueryStep(C, amp, eq), value, FALSE, key, pairs)
      BY <2>1, QueryBuffers
    <2>3. QED
      BY <2>2, Zenon DEF Buffers
  <1>4. <<eq>> \in Seq(C) /\ key \o <<eq>> \in Seq(C)
    OBVIOUS
  <1>5. PICK s, t, u, v : /\ s = QueryAt(TRUE, k, <<>>, pairs) /\ t = QueryAt(TRUE, k, key, pairs)
                          /\ u = QueryAt(FALSE, key, <<>>, pairs) /\ v = QueryAt(FALSE, key, value, pairs)
    OBVIOUS
  <1>6. PICK one \in Seq(C), two \in Seq(C) : one = <<eq>> /\ two = key \o one
    BY <1>4, Zenon
  <1>7. Runs(step, key, s, t) /\ Runs(step, one, t, u) /\ Runs(step, value, u, v)
    BY <1>1, <1>2, <1>3, <1>5, <1>6, Zenon
  <1>8. Runs(step, two, s, u)
    BY ONLY <1>6, <1>7, RunsConcat, key \in Seq(C)
  <1>9. Runs(step, two \o value, s, v)
    BY ONLY <1>7, <1>8, RunsConcat, value \in Seq(C), two \in Seq(C)
  <1>10. QED
    BY <1>5, <1>6, <1>9, Zenon

\* A pair is read after a separator, which ends the one before.
LEMMA QueryNextPair ==
    ASSUME NEW C, NEW amp \in C, NEW eq \in C, amp # eq, Null \notin Seq(C),
           NEW k \in Seq(C), NEW v \in Seq(C), NEW pairs \in Seq(ReadPairs(C)),
           NEW key \in Seq(C), NEW value \in Seq(C), NEW step, step = QueryStep(C, amp, eq),
           \A i \in 1 .. Len(key) : key[i] # amp /\ key[i] # eq,
           \A i \in 1 .. Len(value) : value[i] # amp
    PROVE  Runs(step, ((<<amp>> \o key) \o <<eq>>) \o value, QueryAt(FALSE, k, v, pairs),
                QueryAt(FALSE, key, value, Append(pairs, Pair(k, OrNull(v)))))
  <1>1. PICK more \in Seq(ReadPairs(C)) : more = Append(pairs, Pair(k, OrNull(v)))
    <2>1. Pair(k, OrNull(v)) \in ReadPairs(C)
      BY DEF Pair, OrNull, ReadPairs
    <2>2. Append(pairs, Pair(k, OrNull(v))) \in Seq(ReadPairs(C))
      BY <2>1
    <2>3. QED
      BY <2>2, Zenon
  <1>2. Runs(step, <<amp>>, QueryAt(FALSE, k, v, pairs), QueryAt(TRUE, k, <<>>, more))
    <2>1. Leads(step, QueryAt(FALSE, k, v, pairs), amp, QueryAt(TRUE, k, <<>>, more))
      BY <1>1, QueryEnds
    <2>2. QED
      BY <2>1, RunsOne
  <1>3. PICK s, t, u : /\ s = QueryAt(FALSE, k, v, pairs) /\ t = QueryAt(TRUE, k, <<>>, more)
                       /\ u = QueryAt(FALSE, key, value, more)
    OBVIOUS
  <1>4. PICK one \in Seq(C), two \in Seq(C) : one = <<amp>> /\ two = (key \o <<eq>>) \o value
    <2>1. <<amp>> \in Seq(C) /\ (key \o <<eq>>) \o value \in Seq(C)
      OBVIOUS
    <2>2. QED
      BY <2>1, Zenon
  <1>5. Runs(step, two, t, u)
    <2>1. k \in Seq(C) \cup {Null}
      OBVIOUS
    <2>2. Runs(step, (key \o <<eq>>) \o value, QueryAt(TRUE, k, <<>>, more), QueryAt(FALSE, key, value, more))
      BY <2>1, QueryPair
    <2>3. QED
      BY <1>3, <1>4, <2>2, Zenon
  <1>6. Runs(step, one \o two, s, u)
    BY ONLY <1>2, <1>3, <1>4, <1>5, RunsConcat
  <1>7. one \o two = ((<<amp>> \o key) \o <<eq>>) \o value
    <2>1. <<amp>> \in Seq(C) /\ <<eq>> \in Seq(C) /\ key \o <<eq>> \in Seq(C)
      OBVIOUS
    <2>2. PICK a \in Seq(C), e \in Seq(C) : a = <<amp>> /\ e = <<eq>>
      BY <2>1, Zenon
    <2>3. Regroups(a, key, e, value)
      BY ConcatOfFour
    <2>4. QED
      BY <1>4, <2>2, <2>3, Zenon DEF Regroups
  <1>8. QED
    BY <1>1, <1>3, <1>6, <1>7

\* Pairs as a client writes them, and what they mean up to one of them.
SpelledPair(pairs, i, separator, eq) ==
    (((IF i = 1 THEN <<>> ELSE separator) \o pairs[i].key) \o <<eq>>) \o pairs[i].value

SpelledPairs(pairs, separator, eq) == [i \in 1 .. Len(pairs) |-> SpelledPair(pairs, i, separator, eq)]

QueryMeaning(pairs, i) == [j \in 1 .. i |-> Pair(pairs[j].key, OrNull(pairs[j].value))]

LEMMA QueryMeans ==
    ASSUME NEW C, NEW pairs \in Seq(TextPairs(C)), NEW i \in 0 .. Len(pairs)
    PROVE  /\ QueryMeaning(pairs, i) \in Seq(ReadPairs(C))
           /\ i = 0 => QueryMeaning(pairs, i) = <<>>
           /\ i > 0 => QueryMeaning(pairs, i) =
                  Append(QueryMeaning(pairs, i - 1), Pair(pairs[i].key, OrNull(pairs[i].value)))
  <1> DEFINE pair(j) == Pair(pairs[j].key, OrNull(pairs[j].value))
  <1>1. \A j \in 1 .. i : pair(j) \in ReadPairs(C)
    <2> SUFFICES ASSUME NEW j \in 1 .. i PROVE pair(j) \in ReadPairs(C)
      OBVIOUS
    <2>1. pairs[j] \in TextPairs(C)
      BY ElementOfSeq
    <2>2. QED
      BY <2>1 DEF TextPairs, ReadPairs, Pair, OrNull
  <1> HIDE DEF pair
  <1>2. \A k \in 0 .. i : QueryMeaning(pairs, k) = [j \in 1 .. k |-> pair(j)]
    BY Zenon DEF QueryMeaning, pair
  <1>3. i \in Nat /\ i \in 0 .. i
    OBVIOUS
  <1>4. QueryMeaning(pairs, i) \in Seq(ReadPairs(C))
    BY <1>1, <1>2, <1>3
  <1>5. ASSUME i = 0 PROVE QueryMeaning(pairs, i) = <<>>
    BY <1>2, <1>3, <1>5
  <1>6. ASSUME i > 0 PROVE QueryMeaning(pairs, i) = Append(QueryMeaning(pairs, i - 1), pair(i))
    <2>1. i - 1 \in 0 .. i /\ i - 1 \in Nat
      BY <1>6
    <2>2. PICK R : R = ReadPairs(C)
      OBVIOUS
    <2>3. PICK a, b : a = [j \in 1 .. i |-> pair(j)] /\ b = [j \in 1 .. i - 1 |-> pair(j)]
      OBVIOUS
    <2>4. b \in Seq(R) /\ Len(b) = i - 1 /\ a \in Seq(R) /\ Len(a) = i
      BY <1>1, <1>3, <2>1, <2>2, <2>3
    <2>5. \A j \in 1 .. i : Append(b, pair(i))[j] = a[j]
      BY <1>1, <1>6, <2>2, <2>3, <2>4
    <2>6. Append(b, pair(i)) \in Seq(R) /\ Len(Append(b, pair(i))) = i
      BY <1>1, <1>6, <2>2, <2>4
    <2>7. a = Append(b, pair(i))
      BY <2>4, <2>5, <2>6, SeqEqual
    <2>8. QED
      BY <1>2, <1>3, <2>1, <2>3, <2>7
  <1>7. QED
    BY <1>4, <1>5, <1>6 DEF pair

\* What is spelled is texts that are not empty.
LEMMA SpelledType ==
    ASSUME NEW C, NEW separator \in Seq(C), NEW eq \in C, NEW pairs \in Seq(TextPairs(C))
    PROVE  /\ \A i \in 1 .. Len(pairs) : /\ pairs[i].key \in Seq(C) /\ pairs[i].value \in Seq(C)
                                         /\ SpelledPair(pairs, i, separator, eq) \in Seq(C)
                                         /\ SpelledPair(pairs, i, separator, eq) # <<>>
           /\ SpelledPairs(pairs, separator, eq) \in Seq(Seq(C))
           /\ Len(SpelledPairs(pairs, separator, eq)) = Len(pairs)
  <1>1. PICK n \in Nat : n = Len(pairs)
    BY LenProperties
  <1>2. ASSUME NEW i \in 1 .. n
        PROVE  /\ pairs[i].key \in Seq(C) /\ pairs[i].value \in Seq(C)
               /\ SpelledPair(pairs, i, separator, eq) \in Seq(C)
               /\ SpelledPair(pairs, i, separator, eq) # <<>>
    <2>1. pairs[i] \in TextPairs(C)
      BY <1>1, ElementOfSeq
    <2>2. PICK key \in Seq(C), value \in Seq(C) : key = pairs[i].key /\ value = pairs[i].value
      BY <2>1 DEF TextPairs
    <2>3. PICK front \in Seq(C) : front = IF i = 1 THEN <<>> ELSE separator
      BY EmptySeq
    <2>4. ((front \o key) \o <<eq>>) \o value \in Seq(C) /\ ((front \o key) \o <<eq>>) \o value # <<>>
      <3>1. PICK a \in Seq(C) : a = (front \o key) \o <<eq>> /\ Len(a) > 0
        <4>1. front \o key \in Seq(C) /\ Len(front \o key) \in Nat
          OBVIOUS
        <4>2. (front \o key) \o <<eq>> \in Seq(C) /\ Len((front \o key) \o <<eq>>) = Len(front \o key) + 1
          BY <4>1
        <4>3. Len((front \o key) \o <<eq>>) > 0
          BY <4>1, <4>2
        <4>4. QED
          BY <4>2, <4>3, Zenon
      <3>2. a \o value \in Seq(C) /\ Len(a \o value) = Len(a) + Len(value)
        OBVIOUS
      <3>3. a \o value # <<>>
        BY <3>1, <3>2
      <3>4. QED
        BY <3>1, <3>2, <3>3
    <2>5. QED
      BY <2>2, <2>3, <2>4, Zenon DEF SpelledPair
  <1>3. PICK s : s = SpelledPairs(pairs, separator, eq)
    OBVIOUS
  <1>4. s = [i \in 1 .. n |-> SpelledPair(pairs, i, separator, eq)]
    BY <1>1, <1>3, Zenon DEF SpelledPairs
  <1>5. PICK T : T = Seq(C)
    OBVIOUS
  <1>6. \A i \in 1 .. n : SpelledPair(pairs, i, separator, eq) \in T
    BY <1>2, <1>5
  <1>7. s \in Seq(T) /\ Len(s) = n
    BY ONLY <1>4, <1>6
  <1>8. QED
    BY <1>1, <1>2, <1>3, <1>5, <1>7, Zenon

\* A query is read pair by pair, and its last pair is left in the loop.
LEMMA QueryRuns ==
    ASSUME NEW C, NEW amp \in C, NEW eq \in C, amp # eq, Null \notin Seq(C),
           NEW pairs \in Seq(TextPairs(C)), NEW n \in Nat \ {0}, n = Len(pairs),
           NEW step, step = QueryStep(C, amp, eq),
           \A i \in 1 .. n :
              /\ \A j \in 1 .. Len(pairs[i].key) : pairs[i].key[j] # amp /\ pairs[i].key[j] # eq
              /\ \A j \in 1 .. Len(pairs[i].value) : pairs[i].value[j] # amp
    PROVE  Runs(step, FlattenSeq(SpelledPairs(pairs, <<amp>>, eq)), QueryAt(TRUE, Null, <<>>, <<>>),
                QueryAt(FALSE, pairs[n].key, pairs[n].value, QueryMeaning(pairs, n - 1)))
  <1>1. <<amp>> \in Seq(C)
    OBVIOUS
  <1>2. PICK s \in Seq(Seq(C)) : s = SpelledPairs(pairs, <<amp>>, eq) /\ Len(s) = n
    <2>1. SpelledPairs(pairs, <<amp>>, eq) \in Seq(Seq(C))
      BY <1>1, SpelledType, Zenon
    <2>2. PICK s : s = SpelledPairs(pairs, <<amp>>, eq)
      OBVIOUS
    <2>3. s = [i \in 1 .. n |-> SpelledPair(pairs, i, <<amp>>, eq)]
      BY <2>2, Zenon DEF SpelledPairs
    <2>4. Len(s) = n
      BY ONLY <2>3, n \in Nat \ {0}
    <2>5. QED
      BY <2>1, <2>2, <2>4, Zenon
  <1>3. \A i \in 1 .. n : pairs[i].key \in Seq(C) /\ pairs[i].value \in Seq(C)
    BY <1>1, SpelledType, Zenon
  <1>4. \A i \in 1 .. n : s[i] = SpelledPair(pairs, i, <<amp>>, eq) /\ s[i] \in Seq(C)
    <2>1. \A i \in 1 .. n : SpelledPair(pairs, i, <<amp>>, eq) \in Seq(C)
      BY <1>1, SpelledType, Zenon
    <2>2. s = [i \in 1 .. n |-> SpelledPair(pairs, i, <<amp>>, eq)]
      BY <1>2, Zenon DEF SpelledPairs
    <2>3. QED
      BY <2>1, <2>2, Zenon
  <1>5. PICK rest : IsRest(rest, C, s)
    BY FlattenRests, Zenon
  <1>6. /\ rest \in [0 .. n -> Seq(C)] /\ rest[0] = FlattenSeq(s) /\ rest[n] = <<>>
        /\ \A m \in 0 .. n - 1 : rest[m] = s[m + 1] \o rest[m + 1]
    BY <1>2, <1>5, Zenon DEF IsRest
  <1> DEFINE after(i) == IF i = 0 THEN QueryAt(TRUE, Null, <<>>, <<>>)
                         ELSE QueryAt(FALSE, pairs[i].key, pairs[i].value, QueryMeaning(pairs, i - 1))
  <1>7. PICK state : state = [i \in 0 .. n |-> after(i)]
    OBVIOUS
  <1>8. \A i \in 0 .. n : state[i] = after(i)
    BY <1>7, Zenon
  <1>9. PICK piece \in [1 .. n -> Seq(C)] : piece = [i \in 1 .. n |-> s[i]]
    BY <1>4
  <1>10. ASSUME NEW i \in 1 .. n
         PROVE  rest[i - 1] = piece[i] \o rest[i] /\ Runs(step, piece[i], state[i - 1], state[i])
    <2>1. i \in 0 .. n /\ i - 1 \in 0 .. n - 1 /\ i - 1 \in 0 .. n /\ (i - 1) + 1 = i /\ i # 0
      OBVIOUS
    <2>2. piece[i] = s[i]
      BY <1>9
    <2>3. rest[i - 1] = piece[i] \o rest[i]
      BY <1>6, <2>1, <2>2, Zenon
    <2>4. PICK key \in Seq(C), value \in Seq(C) : key = pairs[i].key /\ value = pairs[i].value
      BY <1>3, Zenon
    <2>5. /\ \A j \in 1 .. Len(key) : key[j] # amp /\ key[j] # eq
          /\ \A j \in 1 .. Len(value) : value[j] # amp
      BY <2>4
    <2>6. QueryMeaning(pairs, i - 1) \in Seq(ReadPairs(C))
      BY <2>1, QueryMeans
    <2>7. state[i] = QueryAt(FALSE, key, value, QueryMeaning(pairs, i - 1))
      BY <1>8, <2>1, <2>4, Zenon
    <2>8. CASE i = 1
      <3>1. state[i - 1] = QueryAt(TRUE, Null, <<>>, <<>>)
        <4>1. i - 1 = 0
          BY <2>8
        <4>2. QED
          BY <1>8, <2>1, <4>1, Zenon
      <3>2. QueryMeaning(pairs, i - 1) = <<>>
        <4>1. i - 1 = 0 /\ i - 1 \in 0 .. Len(pairs)
          BY <2>8
        <4>2. QED
          BY <4>1, QueryMeans
      <3>3. piece[i] = (key \o <<eq>>) \o value
        <4>1. piece[i] = ((<<>> \o key) \o <<eq>>) \o value
          BY <1>4, <2>2, <2>4, <2>8, Zenon DEF SpelledPair
        <4>2. <<>> \o key = key
          BY ConcatEmptySeq
        <4>3. QED
          BY <4>1, <4>2, Zenon
      <3>4. Runs(step, (key \o <<eq>>) \o value, QueryAt(TRUE, Null, <<>>, <<>>),
                 QueryAt(FALSE, key, value, <<>>))
        <4>1. Null \in Seq(C) \cup {Null} /\ <<>> \in Seq(ReadPairs(C))
          BY EmptySeq
        <4>2. QED
          BY <2>5, <4>1, QueryPair
      <3>5. QED
        BY <2>3, <2>7, <3>1, <3>2, <3>3, <3>4, Zenon
    <2>9. CASE i # 1
      <3>1. PICK h \in 1 .. n : h = i - 1 /\ h \in 0 .. n /\ h - 1 \in 0 .. n
        <4>1. i - 1 \in 1 .. n /\ i - 1 \in 0 .. n /\ (i - 1) - 1 \in 0 .. n
          BY <2>9
        <4>2. QED
          BY <4>1
      <3>2. PICK k \in Seq(C), v \in Seq(C) : k = pairs[h].key /\ v = pairs[h].value
        BY <1>3, Zenon
      <3>3. PICK before \in Seq(ReadPairs(C)) : before = QueryMeaning(pairs, h - 1)
        BY <3>1, QueryMeans
      <3>4. QueryMeaning(pairs, i - 1) = Append(before, Pair(k, OrNull(v)))
        <4>1. h \in 0 .. Len(pairs) /\ h > 0
          BY <3>1
        <4>2. QueryMeaning(pairs, h) = Append(QueryMeaning(pairs, h - 1), Pair(pairs[h].key, OrNull(pairs[h].value)))
          BY <4>1, QueryMeans
        <4>3. QED
          BY <3>1, <3>2, <3>3, <4>2
      <3>5. state[i - 1] = QueryAt(FALSE, k, v, before)
        <4>1. h # 0
          OBVIOUS
        <4>2. QED
          BY <1>8, <3>1, <3>2, <3>3, <4>1, Zenon
      <3>6. piece[i] = ((<<amp>> \o key) \o <<eq>>) \o value
        BY <1>4, <2>2, <2>4, <2>9, Zenon DEF SpelledPair
      <3>7. Runs(step, ((<<amp>> \o key) \o <<eq>>) \o value, QueryAt(FALSE, k, v, before),
                 QueryAt(FALSE, key, value, Append(before, Pair(k, OrNull(v)))))
        BY <2>5, QueryNextPair
      <3>8. QED
        BY <2>3, <2>7, <3>4, <3>5, <3>6, <3>7, Zenon
    <2>10. QED
      BY <2>8, <2>9
  <1>11. Runs(step, rest[n], state[n], state[n])
    BY <1>6, RunsEmpty
  <1>12. Runs(step, rest[0], state[0], state[n])
    BY ONLY <1>6, <1>10, <1>11, RunsChain, n \in Nat, piece \in [1 .. n -> Seq(C)]
  <1>13. 0 \in 0 .. n /\ n \in 0 .. n /\ n # 0
    OBVIOUS
  <1>14. state[0] = QueryAt(TRUE, Null, <<>>, <<>>)
         /\ state[n] = QueryAt(FALSE, pairs[n].key, pairs[n].value, QueryMeaning(pairs, n - 1))
    BY <1>8, <1>13, Zenon
  <1>15. QED
    BY <1>2, <1>6, <1>12, <1>14, Zenon

\* The loop of ParseQuery, for any two separators, and what it returns.
IsQueryLoop(after, query, amp, eq) ==
    after = [i \in 0 .. Len(query) |->
                IF i = 0 THEN [keying |-> TRUE, key |-> Null, buffer |-> <<>>, pairs |-> <<>>]
                ELSE QueryRead(after[i - 1], query[i], amp, eq)]

QueryLoop(query, amp, eq) == CHOOSE after : IsQueryLoop(after, query, amp, eq)

QueryEnd(end) ==
    IF end.keying THEN AddPair(end.pairs, OrNull(end.buffer), Null)
    ELSE AddPair(end.pairs, end.key, OrNull(end.buffer))

LEMMA QueryLoopEnds ==
    ASSUME NEW C, NEW amp \in C, NEW eq \in C, NEW query \in Seq(C), NEW t,
           Runs(QueryStep(C, amp, eq), query, QueryAt(TRUE, Null, <<>>, <<>>), t)
    PROVE  QueryLoop(query, amp, eq)[Len(query)] = t
  <1> DEFINE S == QueryState(C)
             step == QueryStep(C, amp, eq)
             start == QueryAt(TRUE, Null, <<>>, <<>>)
  <1>1. PICK n \in Nat : n = Len(query)
    BY LenProperties
  <1>2. start \in S
    <2>1. <<>> \in Seq(C) /\ <<>> \in Seq(ReadPairs(C))
      BY EmptySeq
    <2>2. QED
      BY <2>1 DEF QueryAt, QueryState
  <1>3. step \in [S -> [C -> S]]
    BY QueryStepType
  <1>4. PICK f \in [0 .. n -> S] : f[0] = start /\ f[n] = t /\ \A i \in 1 .. n : f[i] = step[f[i - 1]][query[i]]
    <2> HIDE DEF S, step, start
    <2>1. Runs(step, query, start, t)
      BY DEF step, start
    <2>2. PICK f : Traces(f, S, step, query, start, t)
      BY <1>2, <1>3, <2>1, RunsTyped, Zenon
    <2>3. QED
      BY <1>1, <2>2, Zenon DEF Traces
  <1>5. \A i \in 1 .. n : f[i] = QueryRead(f[i - 1], query[i], amp, eq)
    <2> SUFFICES ASSUME NEW i \in 1 .. n PROVE f[i] = QueryRead(f[i - 1], query[i], amp, eq)
      OBVIOUS
    <2>1. i - 1 \in 0 .. n
      OBVIOUS
    <2>2. f[i - 1] \in S /\ query[i] \in C
      BY <1>1, <2>1, ElementOfSeq
    <2>3. step[f[i - 1]][query[i]] = QueryRead(f[i - 1], query[i], amp, eq)
      BY <2>2, Zenon DEF QueryStep
    <2>4. QED
      BY <1>4, <2>3, Zenon
  <1>6. PICK h : h = [i \in 0 .. n |-> IF i = 0 THEN start ELSE QueryRead(f[i - 1], query[i], amp, eq)]
    OBVIOUS
  <1>7. \A i \in 0 .. n : h[i] = f[i]
    <2> SUFFICES ASSUME NEW i \in 0 .. n PROVE h[i] = f[i]
      OBVIOUS
    <2>1. CASE i = 0
      BY <1>4, <1>6, <2>1, Zenon
    <2>2. CASE i # 0
      <3>1. i \in 1 .. n
        BY <2>2
      <3>2. QED
        BY <1>5, <1>6, <2>2, <3>1, Zenon
    <2>3. QED
      BY <2>1, <2>2
  <1>8. h = f
    <2>1. DOMAIN h = 0 .. n /\ h = [i \in DOMAIN h |-> h[i]]
      BY <1>6, Zenon
    <2>2. h = [i \in 0 .. n |-> h[i]] /\ f = [i \in 0 .. n |-> f[i]]
      BY <2>1, Zenon
    <2>3. QED
      BY <1>7, <2>2, Zenon
  <1>9. IsQueryLoop(f, query, amp, eq)
    BY <1>1, <1>6, <1>8, Zenon DEF IsQueryLoop, QueryAt
  <1>10. PICK g : g = QueryLoop(query, amp, eq)
    OBVIOUS
  <1>11. IsQueryLoop(g, query, amp, eq)
    BY <1>9, <1>10, Zenon DEF QueryLoop
  <1>12. g[0] = f[0] /\ \A i \in 1 .. n : g[i] = QueryRead(g[i - 1], query[i], amp, eq)
    <2>1. \A i \in 0 .. n : g[i] = IF i = 0 THEN start ELSE QueryRead(g[i - 1], query[i], amp, eq)
      BY <1>1, <1>11, Zenon DEF IsQueryLoop, QueryAt
    <2>2. 0 \in 0 .. n /\ \A i \in 1 .. n : i \in 0 .. n /\ i # 0
      OBVIOUS
    <2>3. QED
      BY <1>4, <2>1, <2>2, Zenon
  <1>13. g[n] = f[n]
    <2>1. \A i \in 1 .. n : g[i - 1] = f[i - 1] => g[i] = f[i]
      BY <1>5, <1>12, Zenon
    <2>2. QED
      BY ONLY <1>12, <2>1, SameValues, n \in Nat
  <1>14. QED
    BY <1>1, <1>4, <1>10, <1>13, Zenon

QueryLooped(query) ==
    IF query = <<>> THEN Null ELSE QueryEnd(QueryLoop(query, "&", "=")[Len(query)])

LEMMA QueryIsLoop ==
    ASSUME NEW query
    PROVE  ParseQuery(query) = QueryLooped(query)
  BY Zenon DEF ParseQuery, QueryLooped, QueryEnd, QueryLoop, IsQueryLoop, QueryRead

\* A query gives back the pairs it was written from, however many: their keys
\* and values, NULL for an empty value, in their order (hs_parser.c:293-382).
THEOREM QueryRoundTrip ==
    ASSUME NEW C, "&" \in C, "=" \in C, Null \notin Seq(C),
           NEW pairs \in Seq(TextPairs(C)), pairs # <<>>,
           \A i \in 1 .. Len(pairs) :
              Without(pairs[i].key, {"=", "&"}) /\ Without(pairs[i].value, {"&"})
    PROVE  ParseQuery(Written(pairs, <<"&">>)) = QueryMeaning(pairs, Len(pairs))
  <1>1. PICK amp \in C, eq \in C : amp = "&" /\ eq = "=" /\ amp # eq
    BY Zenon
  <1>2. PICK n \in Nat \ {0} : n = Len(pairs)
    <2>1. Len(pairs) \in Nat \ {0}
      BY EmptySeq
    <2>2. QED
      BY <2>1
  <1>3. PICK step : step = QueryStep(C, amp, eq)
    OBVIOUS
  <1>4. PICK text : text = FlattenSeq(SpelledPairs(pairs, <<amp>>, eq))
    OBVIOUS
  <1>5. Written(pairs, <<"&">>) = text
    BY <1>1, <1>4, Zenon DEF Written, SpelledPairs, SpelledPair
  <1>6. \A i \in 1 .. n :
            /\ \A j \in 1 .. Len(pairs[i].key) : pairs[i].key[j] # amp /\ pairs[i].key[j] # eq
            /\ \A j \in 1 .. Len(pairs[i].value) : pairs[i].value[j] # amp
    BY <1>1, <1>2, Zenon DEF Without
  <1>7. Runs(step, text, QueryAt(TRUE, Null, <<>>, <<>>),
             QueryAt(FALSE, pairs[n].key, pairs[n].value, QueryMeaning(pairs, n - 1)))
    BY <1>1, <1>2, <1>3, <1>4, <1>6, QueryRuns
  <1>8. text \in Seq(C) /\ text # <<>>
    <2>1. <<amp>> \in Seq(C)
      OBVIOUS
    <2>2. PICK s \in Seq(Seq(C)) : s = SpelledPairs(pairs, <<amp>>, eq)
      BY <2>1, SpelledType, Zenon
    <2>3. PICK rest : IsRest(rest, C, s)
      BY FlattenRests, Zenon
    <2>4. s = [i \in 1 .. n |-> SpelledPair(pairs, i, <<amp>>, eq)] /\ Len(s) = n
      <3>1. s = [i \in 1 .. n |-> SpelledPair(pairs, i, <<amp>>, eq)]
        BY <1>2, <2>2, Zenon DEF SpelledPairs
      <3>2. Len(s) = n
        BY ONLY <3>1, n \in Nat \ {0}
      <3>3. QED
        BY <3>1, <3>2
    <2>5. 1 \in 1 .. n /\ 0 \in 0 .. n - 1 /\ 0 + 1 = 1 /\ 1 \in 0 .. n
      OBVIOUS
    <2>6. SpelledPair(pairs, 1, <<amp>>, eq) # <<>> /\ SpelledPair(pairs, 1, <<amp>>, eq) \in Seq(C)
      <3>1. \A i \in 1 .. Len(pairs) : SpelledPair(pairs, i, <<amp>>, eq) \in Seq(C) /\ SpelledPair(pairs, i, <<amp>>, eq) # <<>>
        BY <2>1, SpelledType, Zenon
      <3>2. 1 \in 1 .. Len(pairs)
        BY <1>2
      <3>3. QED
        BY <3>1, <3>2, Zenon
    <2>7. PICK first \in Seq(C), more \in Seq(C) : first # <<>> /\ text = first \o more
      <3>1. s[1] = SpelledPair(pairs, 1, <<amp>>, eq)
        BY <2>4, <2>5, Zenon
      <3>2. rest[1] \in Seq(C) /\ text = s[1] \o rest[1]
        BY <1>4, <2>2, <2>3, <2>4, <2>5, Zenon DEF IsRest
      <3>3. QED
        BY <2>6, <3>1, <3>2, Zenon
    <2>8. first \o more \in Seq(C) /\ first \o more # <<>>
      <3>1. Len(first) > 0 /\ Len(more) \in Nat /\ Len(first) \in Nat
        BY <2>7, EmptySeq
      <3>2. Len(first \o more) = Len(first) + Len(more) /\ first \o more \in Seq(C)
        OBVIOUS
      <3>3. QED
        BY <3>1, <3>2
    <2>9. QED
      BY <2>7, <2>8
  <1>9. PICK key \in Seq(C), value \in Seq(C) : key = pairs[n].key /\ value = pairs[n].value
    <2>1. pairs[n] \in TextPairs(C)
      BY <1>2, ElementOfSeq
    <2>2. QED
      BY <2>1 DEF TextPairs
  <1>10. PICK before \in Seq(ReadPairs(C)) : before = QueryMeaning(pairs, n - 1)
    <2>1. n - 1 \in 0 .. Len(pairs)
      BY <1>2
    <2>2. QED
      BY <2>1, QueryMeans
  <1>11. QueryMeaning(pairs, n) = Append(before, Pair(key, OrNull(value)))
    <2>1. n \in 0 .. Len(pairs) /\ n > 0
      BY <1>2
    <2>2. QueryMeaning(pairs, n) = Append(QueryMeaning(pairs, n - 1), Pair(pairs[n].key, OrNull(pairs[n].value)))
      BY <2>1, QueryMeans
    <2>3. QED
      BY <1>9, <1>10, <2>2
  <1>12. QueryLoop(text, amp, eq)[Len(text)] = QueryAt(FALSE, key, value, before)
    <2>1. Runs(QueryStep(C, amp, eq), text, QueryAt(TRUE, Null, <<>>, <<>>), QueryAt(FALSE, key, value, before))
      BY <1>3, <1>7, <1>9, <1>10, Zenon
    <2>2. PICK end : end = QueryAt(FALSE, key, value, before)
      OBVIOUS
    <2>3. QED
      BY ONLY <1>8, <2>1, <2>2, QueryLoopEnds, amp \in C, eq \in C
  <1>13. ParseQuery(text) = QueryEnd(QueryLoop(text, amp, eq)[Len(text)])
    BY <1>1, <1>8, QueryIsLoop, Zenon DEF QueryLooped
  <1>14. QueryEnd(QueryAt(FALSE, key, value, before)) = Append(before, Pair(key, OrNull(value)))
    BY DEF QueryEnd, QueryAt, AddPair
  <1>15. QED
    BY <1>2, <1>5, <1>11, <1>12, <1>13, <1>14, Zenon

-----------------------------------------------------------------------------
\* Reading cookies.

CookieState(C) ==
    [naming : BOOLEAN, name : Seq(C) \cup {Null}, buffer : Seq(C), cookies : Seq(TextPairs(C))]

CookieAt(naming, name, buffer, cookies) ==
    [naming |-> naming, name |-> name, buffer |-> buffer, cookies |-> cookies]

\* The loop of hs_parser_parse_cookie_header, one character at a time, with
\* what follows it: whether it would end a value.
CookieRead(s, c, ends, eq, blank) ==
    CASE s.naming /\ c = eq -> [s EXCEPT !.naming = FALSE, !.name = s.buffer, !.buffer = <<>>]
      [] s.naming /\ c = blank /\ s.buffer = <<>> -> s
      [] ~s.naming /\ ends -> [s EXCEPT !.naming = TRUE, !.buffer = <<>>,
                                        !.cookies = AddCookie(@, s.name, s.buffer)]
      [] OTHER -> [s EXCEPT !.buffer = Append(@, c)]

Marked(C) == C \X BOOLEAN

CookieStep(C, eq, blank) ==
    [s \in CookieState(C) |-> [m \in Marked(C) |-> CookieRead(s, m[1], m[2], eq, blank)]]

LEMMA AddCookieType ==
    ASSUME NEW C, NEW cookies \in Seq(TextPairs(C)), NEW name \in Seq(C) \cup {Null}, NEW value \in Seq(C)
    PROVE  AddCookie(cookies, name, value) \in Seq(TextPairs(C))
  <1>1. name # Null => Pair(name, value) \in TextPairs(C)
    BY DEF Pair, TextPairs
  <1>2. QED
    BY <1>1 DEF AddCookie

\* A step of the loop stays within its states.
LEMMA CookieReadType ==
    ASSUME NEW C, NEW eq, NEW blank, NEW s \in CookieState(C), NEW c \in C, NEW ends \in BOOLEAN
    PROVE  CookieRead(s, c, ends, eq, blank) \in CookieState(C)
  <1>1. /\ s = CookieAt(s.naming, s.name, s.buffer, s.cookies)
        /\ s.naming \in BOOLEAN /\ s.name \in Seq(C) \cup {Null} /\ s.buffer \in Seq(C)
        /\ s.cookies \in Seq(TextPairs(C))
    BY DEF CookieState, CookieAt
  <1>2. /\ AddCookie(s.cookies, s.name, s.buffer) \in Seq(TextPairs(C))
        /\ Append(s.buffer, c) \in Seq(C) /\ <<>> \in Seq(C)
    <2>1. AddCookie(s.cookies, s.name, s.buffer) \in Seq(TextPairs(C))
      BY <1>1, AddCookieType, Zenon
    <2>2. QED
      BY <1>1, <2>1
  <1>3. CASE s.naming /\ c = eq
    BY <1>1, <1>2, <1>3 DEF CookieRead, CookieState
  <1>4. CASE s.naming /\ c # eq /\ c = blank /\ s.buffer = <<>>
    BY <1>1, <1>2, <1>4 DEF CookieRead, CookieState
  <1>5. CASE ~s.naming /\ ends
    BY <1>1, <1>2, <1>5 DEF CookieRead, CookieState
  <1>6. CASE ~(s.naming /\ c = eq) /\ ~(s.naming /\ c = blank /\ s.buffer = <<>>) /\ ~(~s.naming /\ ends)
    BY <1>1, <1>2, <1>6 DEF CookieRead, CookieState
  <1>7. QED
    BY <1>3, <1>4, <1>5, <1>6

\* So does its function.
LEMMA CookieStepType ==
    ASSUME NEW C, NEW eq, NEW blank
    PROVE  CookieStep(C, eq, blank) \in [CookieState(C) -> [Marked(C) -> CookieState(C)]]
  <1>1. \A s \in CookieState(C), m \in Marked(C) : CookieRead(s, m[1], m[2], eq, blank) \in CookieState(C)
    <2> SUFFICES ASSUME NEW s \in CookieState(C), NEW m \in Marked(C)
                 PROVE  CookieRead(s, m[1], m[2], eq, blank) \in CookieState(C)
      OBVIOUS
    <2>1. m[1] \in C /\ m[2] \in BOOLEAN
      BY DEF Marked
    <2>2. QED
      BY <2>1, CookieReadType, Zenon
  <1>2. QED
    BY <1>1, Zenon DEF CookieStep

\* What the characters of a line do: end a name, or a cookie, or go on.
LEMMA CookieStepIs ==
    ASSUME NEW C, NEW eq, NEW blank, NEW naming \in BOOLEAN, NEW name \in Seq(C) \cup {Null},
           NEW buffer \in Seq(C), NEW cookies \in Seq(TextPairs(C)), NEW c \in C, NEW ends \in BOOLEAN,
           NEW t, t = CookieRead(CookieAt(naming, name, buffer, cookies), c, ends, eq, blank)
    PROVE  Leads(CookieStep(C, eq, blank), CookieAt(naming, name, buffer, cookies), <<c, ends>>, t)
  <1>1. CookieAt(naming, name, buffer, cookies) \in CookieState(C)
    BY DEF CookieAt, CookieState
  <1>2. \A s \in CookieState(C), m \in Marked(C) :
            CookieStep(C, eq, blank)[s][m] = CookieRead(s, m[1], m[2], eq, blank)
    BY Zenon DEF CookieStep
  <1>3. <<c, ends>> \in Marked(C) /\ <<c, ends>>[1] = c /\ <<c, ends>>[2] = ends
    BY DEF Marked
  <1>4. QED
    BY <1>1, <1>2, <1>3, Zenon DEF Leads

LEMMA CookieNames ==
    ASSUME NEW C, NEW eq \in C, NEW blank \in C, blank # eq, NEW name \in Seq(C) \cup {Null},
           NEW buffer \in Seq(C), NEW cookies \in Seq(TextPairs(C)), NEW ends \in BOOLEAN
    PROVE  Leads(CookieStep(C, eq, blank), CookieAt(TRUE, name, buffer, cookies), <<eq, ends>>,
                 CookieAt(FALSE, buffer, <<>>, cookies))
  <1>1. CookieAt(FALSE, buffer, <<>>, cookies) = CookieRead(CookieAt(TRUE, name, buffer, cookies), eq, ends, eq, blank)
    BY DEF CookieRead, CookieAt
  <1>2. TRUE \in BOOLEAN
    OBVIOUS
  <1>3. QED
    BY <1>1, <1>2, CookieStepIs, Zenon

\* A blank before a name is skipped.
LEMMA CookieSkips ==
    ASSUME NEW C, NEW eq \in C, NEW blank \in C, blank # eq, NEW name \in Seq(C) \cup {Null},
           NEW cookies \in Seq(TextPairs(C)), NEW ends \in BOOLEAN
    PROVE  Leads(CookieStep(C, eq, blank), CookieAt(TRUE, name, <<>>, cookies), <<blank, ends>>,
                 CookieAt(TRUE, name, <<>>, cookies))
  <1>1. CookieAt(TRUE, name, <<>>, cookies) = CookieRead(CookieAt(TRUE, name, <<>>, cookies), blank, ends, eq, blank)
    BY DEF CookieRead, CookieAt
  <1>2. TRUE \in BOOLEAN /\ <<>> \in Seq(C)
    OBVIOUS
  <1>3. QED
    BY <1>1, <1>2, CookieStepIs, Zenon

\* A separator that ends a value adds a cookie.
LEMMA CookieEnds ==
    ASSUME NEW C, NEW eq \in C, NEW blank \in C, Null \notin Seq(C), NEW name \in Seq(C),
           NEW buffer \in Seq(C), NEW cookies \in Seq(TextPairs(C)), NEW c \in C,
           NEW more, more = Append(cookies, Pair(name, buffer))
    PROVE  Leads(CookieStep(C, eq, blank), CookieAt(FALSE, name, buffer, cookies), <<c, TRUE>>,
                 CookieAt(TRUE, name, <<>>, more))
  <1>1. name # Null /\ buffer # Null /\ name \in Seq(C) \cup {Null} /\ FALSE \in BOOLEAN /\ TRUE \in BOOLEAN
    OBVIOUS
  <1>2. CookieAt(TRUE, name, <<>>, more) = CookieRead(CookieAt(FALSE, name, buffer, cookies), c, TRUE, eq, blank)
    BY <1>1 DEF CookieRead, CookieAt, AddCookie
  <1>3. QED
    BY <1>1, <1>2, CookieStepIs, Zenon

\* Any other character is taken into the buffer.
LEMMA CookieTakes ==
    ASSUME NEW C, NEW eq \in C, NEW blank \in C, NEW naming \in BOOLEAN, NEW name \in Seq(C) \cup {Null},
           NEW buffer \in Seq(C), NEW cookies \in Seq(TextPairs(C)), NEW c \in C, NEW ends \in BOOLEAN,
           naming => c # eq /\ (buffer = <<>> => c # blank), ~naming => ~ends,
           NEW longer, longer = Append(buffer, c)
    PROVE  Leads(CookieStep(C, eq, blank), CookieAt(naming, name, buffer, cookies), <<c, ends>>,
                 CookieAt(naming, name, longer, cookies))
  <1>1. CookieAt(naming, name, longer, cookies) = CookieRead(CookieAt(naming, name, buffer, cookies), c, ends, eq, blank)
    BY DEF CookieRead, CookieAt
  <1>2. QED
    BY <1>1, CookieStepIs, Zenon

\* A text with its marks, of which every character is taken into the buffer.
CookieBuffers(step, marks, text, naming, name, cookies) ==
    Runs(step, marks, CookieAt(naming, name, <<>>, cookies), CookieAt(naming, name, text, cookies))

LEMMA CookieTakesText ==
    ASSUME NEW C, NEW eq \in C, NEW blank \in C, blank # eq,
           NEW name \in Seq(C) \cup {Null}, NEW cookies \in Seq(TextPairs(C)),
           NEW text \in Seq(C), NEW naming \in BOOLEAN, NEW ends \in [1 .. Len(text) -> BOOLEAN],
           NEW marks, Len(marks) = Len(text), \A i \in 1 .. Len(text) : marks[i] = <<text[i], ends[i]>>,
           \A i \in 1 .. Len(text) : IF naming THEN text[i] # eq /\ (i = 1 => text[i] # blank) ELSE ~ends[i]
    PROVE  CookieBuffers(CookieStep(C, eq, blank), marks, text, naming, name, cookies)
  <1> DEFINE step == CookieStep(C, eq, blank)
  <1>1. PICK n \in Nat : n = Len(text)
    BY LenProperties
  <1>2. PICK f : f = [i \in 0 .. n |-> CookieAt(naming, name, SubSeq(text, 1, i), cookies)]
    OBVIOUS
  <1>3. \A i \in 0 .. n : f[i] = CookieAt(naming, name, SubSeq(text, 1, i), cookies)
    BY <1>2, Zenon
  <1>4. 0 \in 0 .. n /\ n \in 0 .. n
    OBVIOUS
  <1>5. f[0] = CookieAt(naming, name, <<>>, cookies) /\ f[n] = CookieAt(naming, name, text, cookies)
    BY <1>1, <1>3, <1>4, Beginnings, Zenon
  <1>6. ASSUME NEW i \in 1 .. n PROVE f[i] = step[f[i - 1]][marks[i]]
    <2>1. i \in 0 .. n /\ i - 1 \in 0 .. n /\ text[i] \in C /\ i \in 1 .. Len(text)
      BY <1>1, ElementOfSeq
    <2>2. PICK b \in Seq(C), c \in C : b = SubSeq(text, 1, i - 1) /\ c = text[i]
      BY <1>1, <2>1, Beginnings, Zenon
    <2>3. PICK longer \in Seq(C) : longer = Append(b, c) /\ longer = SubSeq(text, 1, i)
      <3>1. SubSeq(text, 1, i) \in Seq(C)
        BY <1>1, <2>1, Beginnings, Zenon
      <3>2. SubSeq(text, 1, i) = Append(SubSeq(text, 1, i - 1), text[i])
        BY <2>1, SubSeqAppend
      <3>3. QED
        BY <2>2, <3>1, <3>2
    <2>4. f[i] = CookieAt(naming, name, longer, cookies) /\ f[i - 1] = CookieAt(naming, name, b, cookies)
      BY <1>3, <2>1, <2>2, <2>3, Zenon
    <2>5. PICK e \in BOOLEAN : e = ends[i]
      BY <2>1
    <2>6. naming => c # eq /\ (b = <<>> => c # blank)
      <3>1. b = <<>> => i = 1
        <4>1. Len(b) = i - 1
          BY <2>2, <1>1
        <4>2. QED
          BY <4>1
      <3>2. QED
        BY <2>1, <2>2, <3>1
    <2>7. ~naming => ~e
      BY <2>1, <2>5
    <2>8. Leads(step, CookieAt(naming, name, b, cookies), <<c, e>>, CookieAt(naming, name, longer, cookies))
      BY <2>3, <2>6, <2>7, CookieTakes
    <2>9. marks[i] = <<c, e>>
      BY <2>1, <2>2, <2>5, Zenon
    <2>10. QED
      BY <2>4, <2>8, <2>9, Zenon DEF Leads
  <1>7. Runs(step, marks, CookieAt(naming, name, <<>>, cookies), CookieAt(naming, name, text, cookies))
    <2>1. Len(marks) = n
      BY <1>1
    <2>2. QED
      BY <1>5, <1>6, <2>1, Zenon DEF Runs
  <1>8. QED
    BY <1>7, Zenon DEF CookieBuffers

\* The characters of a text, each with whether it would end a value: whether
\* it is a separator at the end of the line or before a space.
EndsAt(line, i, semi, blank) == line[i] = semi /\ (i = Len(line) \/ line[i + 1] = blank)

Marks(text, rest, semi, blank) ==
    [i \in 1 .. Len(text) |-> <<text[i], EndsAt(text \o rest, i, semi, blank)>>]

LEMMA MarksType ==
    ASSUME NEW C, NEW text \in Seq(C), NEW rest \in Seq(C), NEW semi, NEW blank
    PROVE  /\ Marks(text, rest, semi, blank) \in Seq(Marked(C))
           /\ Len(Marks(text, rest, semi, blank)) = Len(text)
  <1>1. PICK n \in Nat : n = Len(text)
    BY LenProperties
  <1>2. PICK marks : marks = [i \in 1 .. n |-> <<text[i], EndsAt(text \o rest, i, semi, blank)>>]
    OBVIOUS
  <1>3. \A i \in 1 .. n : <<text[i], EndsAt(text \o rest, i, semi, blank)>> \in Marked(C)
    <2> SUFFICES ASSUME NEW i \in 1 .. n
                 PROVE  <<text[i], EndsAt(text \o rest, i, semi, blank)>> \in Marked(C)
      OBVIOUS
    <2>1. text[i] \in C
      BY <1>1, ElementOfSeq
    <2>2. EndsAt(text \o rest, i, semi, blank) \in BOOLEAN
      BY DEF EndsAt
    <2>3. QED
      BY <2>1, <2>2 DEF Marked
  <1>4. PICK M : M = Marked(C)
    OBVIOUS
  <1>5. \A i \in 1 .. n : marks[i] \in M
    BY <1>2, <1>3, <1>4, Zenon
  <1>6. marks \in Seq(M) /\ Len(marks) = n
    <2>1. marks = [i \in 1 .. n |-> marks[i]]
      BY <1>2, Zenon
    <2>2. QED
      BY ONLY <1>5, <2>1, n \in Nat
  <1>7. QED
    BY <1>1, <1>2, <1>4, <1>6, Zenon DEF Marks

\* What is concatenated is marked piece by piece, each before what follows it.
MarksJoin(a, b, rest, semi, blank) ==
    Marks(a \o b, rest, semi, blank) = Marks(a, b \o rest, semi, blank) \o Marks(b, rest, semi, blank)

LEMMA MarksConcat ==
    ASSUME NEW C, NEW a \in Seq(C), NEW b \in Seq(C), NEW rest \in Seq(C), NEW semi, NEW blank
    PROVE  MarksJoin(a, b, rest, semi, blank)
  <1>1. PICK ab \in Seq(C), br \in Seq(C), all \in Seq(C) :
            ab = a \o b /\ br = b \o rest /\ all = ab \o rest /\ all = a \o br
    <2>1. a \o b \in Seq(C) /\ b \o rest \in Seq(C)
      BY ConcatProperties
    <2>2. (a \o b) \o rest = a \o (b \o rest) /\ (a \o b) \o rest \in Seq(C)
      BY <2>1, ConcatAssociative, ConcatProperties
    <2>3. QED
      BY <2>1, <2>2, Zenon
  <1>2. PICK l, m, r \in Nat : l = Len(a) /\ m = Len(b) /\ r = Len(rest)
    BY LenProperties
  <1>3. Len(ab) = l + m /\ Len(br) = m + r /\ Len(all) = l + (m + r)
    BY <1>1, <1>2, ConcatProperties
  <1>4. /\ \A i \in 1 .. l : ab[i] = a[i]
        /\ \A i \in 1 .. m : ab[l + i] = b[i]
        /\ \A i \in 1 .. m + r : all[l + i] = br[i]
    <2>1. Len(br) = m + r
      BY <1>3
    <2>2. QED
      BY <1>1, <1>2, <2>1, ConcatProperties
  <1>5. \A i \in 1 .. m : EndsAt(all, l + i, semi, blank) = EndsAt(br, i, semi, blank)
    <2> SUFFICES ASSUME NEW i \in 1 .. m PROVE EndsAt(all, l + i, semi, blank) = EndsAt(br, i, semi, blank)
      OBVIOUS
    <2>1. all[l + i] = br[i]
      <3>1. i \in 1 .. m + r
        OBVIOUS
      <3>2. QED
        BY <1>4, <3>1, Zenon
    <2>2. (l + i = Len(all)) <=> (i = Len(br))
      BY <1>3
    <2>3. i # Len(br) => all[(l + i) + 1] = br[i + 1]
      <3>1. i # Len(br) => i + 1 \in 1 .. m + r
        BY <1>3
      <3>2. (l + i) + 1 = l + (i + 1)
        OBVIOUS
      <3>3. i # Len(br) => all[l + (i + 1)] = br[i + 1]
        BY <1>4, <3>1, Zenon
      <3>4. QED
        BY <3>2, <3>3, Zenon
    <2>4. QED
      BY <2>1, <2>2, <2>3 DEF EndsAt
  <1>6. PICK x \in Seq(Marked(C)), y \in Seq(Marked(C)), z \in Seq(Marked(C)) :
            x = Marks(a, br, semi, blank) /\ y = Marks(b, rest, semi, blank) /\ z = Marks(ab, rest, semi, blank)
    BY MarksType, Zenon
  <1>7. Len(x) = l /\ Len(y) = m /\ Len(z) = l + m
    BY <1>2, <1>3, <1>6, MarksType
  <1>8. /\ \A i \in 1 .. l : x[i] = <<a[i], EndsAt(all, i, semi, blank)>>
        /\ \A i \in 1 .. m : y[i] = <<b[i], EndsAt(br, i, semi, blank)>>
        /\ \A i \in 1 .. l + m : z[i] = <<ab[i], EndsAt(all, i, semi, blank)>>
    BY <1>1, <1>2, <1>3, <1>6, Zenon DEF Marks
  <1>9. \A i \in 1 .. l + m : z[i] = (x \o y)[i]
    <2> SUFFICES ASSUME NEW i \in 1 .. l + m PROVE z[i] = (x \o y)[i]
      OBVIOUS
    <2>1. CASE i <= l
      <3>1. (x \o y)[i] = x[i] /\ i \in 1 .. l
        BY <1>7, <2>1, ConcatProperties
      <3>2. QED
        BY <1>4, <1>8, <3>1, Zenon
    <2>2. CASE i > l
      <3>1. PICK j \in 1 .. m : i = l + j
        <4>1. i - l \in 1 .. m /\ i = l + (i - l)
          BY <2>2
        <4>2. QED
          BY <4>1
      <3>2. (x \o y)[i] = y[j]
        <4>1. j \in 1 .. Len(y) /\ i = Len(x) + j
          BY <1>7, <3>1
        <4>2. (x \o y)[Len(x) + j] = y[j]
          BY <4>1, ConcatProperties
        <4>3. QED
          BY <4>1, <4>2, Zenon
      <3>3. QED
        BY <1>4, <1>5, <1>8, <3>1, <3>2, Zenon
    <2>3. i <= l \/ i > l
      OBVIOUS
    <2>4. QED
      BY <2>1, <2>2, <2>3, Zenon
  <1>10. x \o y \in Seq(Marked(C)) /\ Len(x \o y) = l + m
    BY <1>7, ConcatProperties
  <1>11. z = x \o y
    BY <1>7, <1>9, <1>10, SeqEqual
  <1>12. QED
    BY <1>1, <1>6, <1>11, Zenon DEF MarksJoin

\* A value that no separator ends before its last character is read.
Unended(value, semi, blank) == \A i \in 1 .. Len(value) : ~EndsAt(value, i, semi, blank)

LEMMA UnendedBefore ==
    ASSUME NEW C, NEW value \in Seq(C), NEW rest \in Seq(C), NEW semi, NEW blank, Unended(value, semi, blank)
    PROVE  \A i \in 1 .. Len(value) : ~EndsAt(value \o rest, i, semi, blank)
  <1> SUFFICES ASSUME NEW i \in 1 .. Len(value) PROVE ~EndsAt(value \o rest, i, semi, blank)
    OBVIOUS
  <1>1. PICK m, n \in Nat : m = Len(value) /\ n = Len(rest)
    BY LenProperties
  <1>2. PICK all : all = value \o rest
    OBVIOUS
  <1>3. Len(all) = m + n /\ \A j \in 1 .. m : all[j] = value[j]
    BY <1>1, <1>2, ConcatProperties
  <1>4. ~EndsAt(value, i, semi, blank)
    BY DEF Unended
  <1>5. CASE i = m
    <2>1. all[i] = value[i] /\ value[i] # semi
      BY <1>1, <1>3, <1>4, <1>5 DEF EndsAt
    <2>2. QED
      BY <1>2, <2>1, Zenon DEF EndsAt
  <1>6. CASE i # m
    <2>1. i \in 1 .. m /\ i + 1 \in 1 .. m /\ i # Len(all)
      BY <1>1, <1>3, <1>6
    <2>2. all[i] = value[i] /\ all[i + 1] = value[i + 1]
      BY <1>3, <2>1, Zenon
    <2>3. QED
      BY <1>2, <1>4, <2>1, <2>2, Zenon DEF EndsAt
  <1>7. QED
    BY <1>5, <1>6

\* Reading the name of a cookie, and its value.
LEMMA CookieReadsName ==
    ASSUME NEW C, NEW eq \in C, NEW blank \in C, blank # eq, NEW semi,
           NEW name \in Seq(C) \cup {Null}, NEW cookies \in Seq(TextPairs(C)),
           NEW key \in Seq(C), NEW rest \in Seq(C),
           \A i \in 1 .. Len(key) : key[i] # eq /\ (i = 1 => key[i] # blank)
    PROVE  CookieBuffers(CookieStep(C, eq, blank), Marks(key, rest, semi, blank), key, TRUE, name, cookies)
  <1>1. PICK ends : ends = [i \in 1 .. Len(key) |-> EndsAt(key \o rest, i, semi, blank)]
    OBVIOUS
  <1>2. ends \in [1 .. Len(key) -> BOOLEAN]
    <2>1. \A i \in 1 .. Len(key) : EndsAt(key \o rest, i, semi, blank) \in BOOLEAN
      BY DEF EndsAt
    <2>2. QED
      BY <1>1, <2>1, Zenon
  <1>3. PICK marks : marks = Marks(key, rest, semi, blank)
    OBVIOUS
  <1>4. Len(marks) = Len(key) /\ \A i \in 1 .. Len(key) : marks[i] = <<key[i], ends[i]>>
    <2>1. Len(marks) = Len(key)
      BY <1>3, MarksType
    <2>2. \A i \in 1 .. Len(key) : marks[i] = <<key[i], ends[i]>>
      BY <1>1, <1>3, Zenon DEF Marks
    <2>3. QED
      BY <2>1, <2>2
  <1>5. TRUE \in BOOLEAN
    OBVIOUS
  <1>6. CookieBuffers(CookieStep(C, eq, blank), marks, key, TRUE, name, cookies)
    BY <1>2, <1>4, <1>5, CookieTakesText
  <1>7. QED
    BY <1>3, <1>6, Zenon

\* A value in which nothing ends is read to its end.
LEMMA CookieReadsValue ==
    ASSUME NEW C, NEW eq \in C, NEW blank \in C, blank # eq, NEW semi,
           NEW name \in Seq(C), NEW cookies \in Seq(TextPairs(C)),
           NEW value \in Seq(C), NEW rest \in Seq(C), Unended(value, semi, blank)
    PROVE  CookieBuffers(CookieStep(C, eq, blank), Marks(value, rest, semi, blank), value, FALSE, name, cookies)
  <1>1. PICK ends : ends = [i \in 1 .. Len(value) |-> EndsAt(value \o rest, i, semi, blank)]
    OBVIOUS
  <1>2. ends \in [1 .. Len(value) -> BOOLEAN]
    <2>1. \A i \in 1 .. Len(value) : EndsAt(value \o rest, i, semi, blank) \in BOOLEAN
      BY DEF EndsAt
    <2>2. QED
      BY <1>1, <2>1, Zenon
  <1>3. PICK marks : marks = Marks(value, rest, semi, blank)
    OBVIOUS
  <1>4. Len(marks) = Len(value) /\ \A i \in 1 .. Len(value) : marks[i] = <<value[i], ends[i]>>
    <2>1. Len(marks) = Len(value)
      BY <1>3, MarksType
    <2>2. \A i \in 1 .. Len(value) : marks[i] = <<value[i], ends[i]>>
      BY <1>1, <1>3, Zenon DEF Marks
    <2>3. QED
      BY <2>1, <2>2
  <1>5. FALSE \in BOOLEAN /\ name \in Seq(C) \cup {Null}
    OBVIOUS
  <1>6. \A i \in 1 .. Len(value) : ~ends[i]
    BY <1>1, UnendedBefore, Zenon
  <1>7. CookieBuffers(CookieStep(C, eq, blank), marks, value, FALSE, name, cookies)
    BY <1>2, <1>4, <1>5, <1>6, CookieTakesText
  <1>8. QED
    BY <1>3, <1>7, Zenon

\* One character with its mark.
LEMMA MarksOne ==
    ASSUME NEW C, NEW c \in C, NEW rest \in Seq(C), NEW semi, NEW blank
    PROVE  \E ends \in BOOLEAN : /\ Marks(<<c>>, rest, semi, blank) = <<<<c, ends>>>>
                                 /\ ends <=> EndsAt(<<c>> \o rest, 1, semi, blank)
  <1>1. PICK one \in Seq(C) : one = <<c>> /\ Len(one) = 1 /\ one[1] = c
    <2>1. <<c>> \in Seq(C) /\ Len(<<c>>) = 1 /\ <<c>>[1] = c
      OBVIOUS
    <2>2. QED
      BY <2>1, Zenon
  <1>2. PICK ends \in BOOLEAN : ends <=> EndsAt(one \o rest, 1, semi, blank)
    OBVIOUS
  <1>3. PICK marks \in Seq(Marked(C)) : marks = Marks(one, rest, semi, blank) /\ Len(marks) = 1
    <2>1. PICK marks \in Seq(Marked(C)) : marks = Marks(one, rest, semi, blank)
      BY MarksType, Zenon
    <2>2. Len(marks) = Len(one)
      BY <2>1, MarksType
    <2>3. QED
      BY <1>1, <2>1, <2>2, Zenon
  <1>4. marks[1] = <<c, ends>>
    <2>1. 1 \in 1 .. Len(one)
      BY <1>1
    <2>2. EndsAt(one \o rest, 1, semi, blank) \in BOOLEAN
      BY DEF EndsAt
    <2>3. ends = EndsAt(one \o rest, 1, semi, blank)
      BY <1>2, <2>2
    <2>4. marks[1] = <<one[1], EndsAt(one \o rest, 1, semi, blank)>>
      BY <1>3, <2>1, Zenon DEF Marks
    <2>5. QED
      BY <1>1, <2>3, <2>4, Zenon
  <1>5. marks = <<marks[1]>>
    BY <1>3
  <1>6. QED
    BY <1>1, <1>2, <1>3, <1>4, <1>5, Zenon

\* A cookie is read.
LEMMA CookiePair ==
    ASSUME NEW C, NEW eq \in C, NEW blank \in C, blank # eq, NEW semi,
           NEW k \in Seq(C) \cup {Null}, NEW cookies \in Seq(TextPairs(C)),
           NEW key \in Seq(C), NEW value \in Seq(C), NEW rest \in Seq(C),
           NEW step, step = CookieStep(C, eq, blank),
           \A i \in 1 .. Len(key) : key[i] # eq /\ (i = 1 => key[i] # blank),
           Unended(value, semi, blank)
    PROVE  Runs(step, Marks((key \o <<eq>>) \o value, rest, semi, blank),
                CookieAt(TRUE, k, <<>>, cookies), CookieAt(FALSE, key, value, cookies))
  <1>1. PICK one \in Seq(C), two \in Seq(C), three \in Seq(C), after \in Seq(C), more \in Seq(C) :
            /\ one = <<eq>> /\ two = key \o one /\ three = two \o value
            /\ after = value \o rest /\ more = one \o after
    <2>1. PICK one \in Seq(C) : one = <<eq>>
      <3>1. <<eq>> \in Seq(C)
        OBVIOUS
      <3>2. QED
        BY <3>1, Zenon
    <2>2. key \o one \in Seq(C) /\ value \o rest \in Seq(C)
      BY ConcatProperties
    <2>3. (key \o one) \o value \in Seq(C) /\ one \o (value \o rest) \in Seq(C)
      BY <2>2, ConcatProperties
    <2>4. QED
      BY <2>1, <2>2, <2>3, Zenon
  <1>2. PICK s, t, u, v : /\ s = CookieAt(TRUE, k, <<>>, cookies) /\ t = CookieAt(TRUE, k, key, cookies)
                          /\ u = CookieAt(FALSE, key, <<>>, cookies) /\ v = CookieAt(FALSE, key, value, cookies)
    OBVIOUS
  <1>3. PICK a \in Seq(Marked(C)), b \in Seq(Marked(C)), c \in Seq(Marked(C)), ab \in Seq(Marked(C)) :
            /\ a = Marks(key, more, semi, blank) /\ b = Marks(one, after, semi, blank)
            /\ c = Marks(value, rest, semi, blank) /\ ab = Marks(two, after, semi, blank)
    BY MarksType, Zenon
  <1>4. Runs(step, a, s, t)
    <2>1. CookieBuffers(CookieStep(C, eq, blank), a, key, TRUE, k, cookies)
      BY <1>3, CookieReadsName
    <2>2. QED
      BY <1>2, <2>1, Zenon DEF CookieBuffers
  <1>5. Runs(step, b, t, u)
    <2>1. PICK ends \in BOOLEAN : b = <<<<eq, ends>>>>
      <3>1. \E ends \in BOOLEAN : Marks(<<eq>>, after, semi, blank) = <<<<eq, ends>>>>
        BY MarksOne, Zenon
      <3>2. QED
        BY <1>1, <1>3, <3>1, Zenon
    <2>2. Leads(step, CookieAt(TRUE, k, key, cookies), <<eq, ends>>, CookieAt(FALSE, key, <<>>, cookies))
      BY CookieNames
    <2>3. PICK x : x = <<eq, ends>>
      OBVIOUS
    <2>4. Runs(step, <<x>>, t, u)
      BY <1>2, <2>2, <2>3, RunsOne
    <2>5. QED
      BY <2>1, <2>3, <2>4, Zenon
  <1>6. Runs(step, c, u, v)
    <2>1. CookieBuffers(CookieStep(C, eq, blank), c, value, FALSE, key, cookies)
      BY <1>3, CookieReadsValue
    <2>2. QED
      BY <1>2, <2>1, Zenon DEF CookieBuffers
  <1>7. ab = a \o b /\ Marks(three, rest, semi, blank) = ab \o c
    <2>1. MarksJoin(key, one, after, semi, blank) /\ MarksJoin(two, value, rest, semi, blank)
      BY MarksConcat
    <2>2. QED
      BY <1>1, <1>3, <2>1, Zenon DEF MarksJoin
  <1>8. PICK M : M = Marked(C) /\ a \in Seq(M) /\ b \in Seq(M) /\ c \in Seq(M) /\ ab \in Seq(M)
    BY <1>3, Zenon
  <1>9. Runs(step, a \o b, s, u)
    BY ONLY <1>4, <1>5, <1>8, RunsConcat
  <1>10. Runs(step, ab \o c, s, v)
    <2>1. Runs(step, ab, s, u)
      BY <1>7, <1>9, Zenon
    <2>2. QED
      BY ONLY <2>1, <1>6, <1>8, RunsConcat
  <1>11. QED
    BY <1>1, <1>2, <1>7, <1>10, Zenon

\* A separator ends a value where a space follows it.
LEMMA CookieSeparates ==
    ASSUME NEW C, NEW eq \in C, NEW blank \in C, blank # eq, NEW semi \in C, semi # blank, Null \notin Seq(C),
           NEW name \in Seq(C), NEW value \in Seq(C), NEW cookies \in Seq(TextPairs(C)),
           NEW more, more = Append(cookies, Pair(name, value)), NEW rest \in Seq(C),
           NEW step, step = CookieStep(C, eq, blank)
    PROVE  Runs(step, Marks(<<semi, blank>>, rest, semi, blank),
                CookieAt(FALSE, name, value, cookies), CookieAt(TRUE, name, <<>>, more))
  <1>1. PICK one \in Seq(C), two \in Seq(C), after \in Seq(C) :
            one = <<semi>> /\ two = <<blank>> /\ after = two \o rest
    <2>1. <<semi>> \in Seq(C) /\ <<blank>> \in Seq(C) /\ <<blank>> \o rest \in Seq(C)
      OBVIOUS
    <2>2. QED
      BY <2>1, Zenon
  <1>2. one \o two = <<semi, blank>>
    <2>1. PICK x \in Seq(C), y \in Seq(C) : x = <<semi>> \o <<blank>> /\ y = <<semi, blank>>
      <3>1. <<semi>> \o <<blank>> \in Seq(C) /\ <<semi, blank>> \in Seq(C)
        OBVIOUS
      <3>2. QED
        BY <3>1, Zenon
    <2>2. Len(x) = 2 /\ x[1] = semi /\ x[2] = blank
      BY <2>1
    <2>3. Len(y) = 2 /\ y[1] = semi /\ y[2] = blank
      BY <2>1
    <2>4. x = y
      <3>1. Len(x) = Len(y) /\ \A i \in 1 .. Len(x) : x[i] = y[i]
        BY <2>2, <2>3
      <3>2. QED
        BY ONLY <3>1, SeqEqual, x \in Seq(C), y \in Seq(C)
    <2>5. QED
      BY <1>1, <2>1, <2>4, Zenon
  <1>3. PICK a \in Seq(Marked(C)), b \in Seq(Marked(C)) :
            a = Marks(one, after, semi, blank) /\ b = Marks(two, rest, semi, blank)
    BY MarksType, Zenon
  <1>4. more \in Seq(TextPairs(C))
    <2>1. Pair(name, value) \in TextPairs(C)
      BY DEF Pair, TextPairs
    <2>2. QED
      BY <2>1
  <1>5. PICK s, t : s = CookieAt(FALSE, name, value, cookies) /\ t = CookieAt(TRUE, name, <<>>, more)
    OBVIOUS
  <1>6. Runs(step, a, s, t)
    <2>1. EndsAt(<<semi>> \o after, 1, semi, blank)
      <3>1. PICK all : all = one \o after /\ Len(one) = 1 /\ one[1] = semi
        BY <1>1
      <3>2. after[1] = blank /\ Len(after) > 0
        BY <1>1
      <3>3. all[1] = semi /\ all[1 + 1] = blank
        <4>1. 1 \in 1 .. Len(one) /\ 1 \in 1 .. Len(after)
          BY <3>1, <3>2
        <4>2. (one \o after)[1] = one[1] /\ (one \o after)[Len(one) + 1] = after[1]
          BY <4>1
        <4>3. Len(one) + 1 = 1 + 1
          BY <3>1
        <4>4. QED
          BY <3>1, <3>2, <4>2, <4>3, Zenon
      <3>4. QED
        BY <1>1, <3>1, <3>3, Zenon DEF EndsAt
    <2>2. PICK ends \in BOOLEAN : Marks(<<semi>>, after, semi, blank) = <<<<semi, ends>>>>
                                  /\ (ends <=> EndsAt(<<semi>> \o after, 1, semi, blank))
      BY MarksOne, Zenon
    <2>3. ends = TRUE
      BY <2>1, <2>2, Zenon
    <2>4. PICK x : x = <<semi, TRUE>>
      OBVIOUS
    <2>5. a = <<x>>
      BY <1>1, <1>3, <2>2, <2>3, <2>4, Zenon
    <2>6. Leads(CookieStep(C, eq, blank), CookieAt(FALSE, name, value, cookies), <<semi, TRUE>>,
                CookieAt(TRUE, name, <<>>, more))
      BY CookieEnds
    <2>7. Runs(step, <<x>>, s, t)
      BY <1>5, <2>4, <2>6, RunsOne
    <2>8. QED
      BY <2>5, <2>7, Zenon
  <1>7. Runs(step, b, t, t)
    <2>1. PICK ends \in BOOLEAN : Marks(<<blank>>, rest, semi, blank) = <<<<blank, ends>>>>
      BY MarksOne, Zenon
    <2>2. PICK x : x = <<blank, ends>>
      OBVIOUS
    <2>3. b = <<x>>
      BY <1>1, <1>3, <2>1, <2>2, Zenon
    <2>4. name \in Seq(C) \cup {Null}
      OBVIOUS
    <2>5. Leads(CookieStep(C, eq, blank), CookieAt(TRUE, name, <<>>, more), <<blank, ends>>,
                CookieAt(TRUE, name, <<>>, more))
      BY <1>4, <2>4, CookieSkips
    <2>6. Runs(step, <<x>>, t, t)
      BY <1>5, <2>2, <2>5, RunsOne
    <2>7. QED
      BY <2>3, <2>6, Zenon
  <1>8. Runs(step, a \o b, s, t)
    <2>1. PICK M : M = Marked(C) /\ a \in Seq(M) /\ b \in Seq(M)
      BY <1>3, Zenon
    <2>2. QED
      BY ONLY <1>6, <1>7, <2>1, RunsConcat
  <1>9. MarksJoin(one, two, rest, semi, blank)
    BY MarksConcat
  <1>10. QED
    BY <1>1, <1>2, <1>3, <1>5, <1>8, <1>9, Zenon DEF MarksJoin

\* A cookie is read after a separator, which ends the one before.
LEMMA CookieNextPair ==
    ASSUME NEW C, NEW eq \in C, NEW blank \in C, blank # eq, NEW semi \in C, semi # blank, Null \notin Seq(C),
           NEW k \in Seq(C), NEW v \in Seq(C), NEW cookies \in Seq(TextPairs(C)),
           NEW key \in Seq(C), NEW value \in Seq(C), NEW rest \in Seq(C),
           NEW step, step = CookieStep(C, eq, blank),
           \A i \in 1 .. Len(key) : key[i] # eq /\ (i = 1 => key[i] # blank),
           Unended(value, semi, blank)
    PROVE  Runs(step, Marks(((<<semi, blank>> \o key) \o <<eq>>) \o value, rest, semi, blank),
                CookieAt(FALSE, k, v, cookies),
                CookieAt(FALSE, key, value, Append(cookies, Pair(k, v))))
  <1>1. PICK more \in Seq(TextPairs(C)) : more = Append(cookies, Pair(k, v))
    <2>1. Pair(k, v) \in TextPairs(C)
      BY DEF Pair, TextPairs
    <2>2. Append(cookies, Pair(k, v)) \in Seq(TextPairs(C))
      BY <2>1
    <2>3. QED
      BY <2>2, Zenon
  <1>2. PICK one \in Seq(C), two \in Seq(C), after \in Seq(C) :
            one = <<semi, blank>> /\ two = (key \o <<eq>>) \o value /\ after = two \o rest
    <2>1. <<semi, blank>> \in Seq(C) /\ (key \o <<eq>>) \o value \in Seq(C)
      OBVIOUS
    <2>2. ((key \o <<eq>>) \o value) \o rest \in Seq(C)
      BY <2>1
    <2>3. QED
      BY <2>1, <2>2, Zenon
  <1>3. PICK s, t, u : /\ s = CookieAt(FALSE, k, v, cookies) /\ t = CookieAt(TRUE, k, <<>>, more)
                       /\ u = CookieAt(FALSE, key, value, more)
    OBVIOUS
  <1>4. PICK a \in Seq(Marked(C)), b \in Seq(Marked(C)) :
            a = Marks(one, after, semi, blank) /\ b = Marks(two, rest, semi, blank)
    BY MarksType, Zenon
  <1>5. Runs(step, a, s, t)
    <2>1. Runs(step, Marks(<<semi, blank>>, after, semi, blank), CookieAt(FALSE, k, v, cookies),
               CookieAt(TRUE, k, <<>>, more))
      BY <1>1, CookieSeparates
    <2>2. QED
      BY <1>2, <1>3, <1>4, <2>1, Zenon
  <1>6. Runs(step, b, t, u)
    <2>1. k \in Seq(C) \cup {Null}
      OBVIOUS
    <2>2. Runs(step, Marks((key \o <<eq>>) \o value, rest, semi, blank), CookieAt(TRUE, k, <<>>, more),
               CookieAt(FALSE, key, value, more))
      BY <2>1, CookiePair
    <2>3. QED
      BY <1>2, <1>3, <1>4, <2>2, Zenon
  <1>7. Runs(step, a \o b, s, u)
    <2>1. PICK M : M = Marked(C) /\ a \in Seq(M) /\ b \in Seq(M)
      BY <1>4, Zenon
    <2>2. QED
      BY ONLY <1>5, <1>6, <2>1, RunsConcat
  <1>8. MarksJoin(one, two, rest, semi, blank)
    BY MarksConcat
  <1>9. one \o two = ((<<semi, blank>> \o key) \o <<eq>>) \o value
    <2>1. <<eq>> \in Seq(C)
      OBVIOUS
    <2>2. PICK e \in Seq(C) : e = <<eq>>
      BY <2>1, Zenon
    <2>3. Regroups(one, key, e, value)
      BY ConcatOfFour
    <2>4. QED
      BY <1>2, <2>2, <2>3, Zenon DEF Regroups
  <1>10. QED
    BY <1>1, <1>2, <1>3, <1>4, <1>7, <1>8, <1>9, Zenon DEF MarksJoin

\* There is nothing to mark in an empty text.
LEMMA MarksNothing ==
    ASSUME NEW C, NEW rest \in Seq(C), NEW semi, NEW blank
    PROVE  Marks(<<>>, rest, semi, blank) = <<>>
  <1>1. PICK none \in Seq(C) : none = <<>> /\ Len(none) = 0
    <2>1. <<>> \in Seq(C) /\ Len(<<>>) = 0
      OBVIOUS
    <2>2. QED
      BY <2>1, Zenon
  <1>2. PICK marks \in Seq(Marked(C)) : marks = Marks(none, rest, semi, blank)
    BY MarksType, Zenon
  <1>3. Len(marks) = 0
    <2>1. Len(marks) = Len(none)
      BY <1>2, MarksType
    <2>2. QED
      BY <1>1, <2>1, Zenon
  <1>4. marks = <<>>
    BY <1>3, EmptySeq
  <1>5. QED
    BY <1>1, <1>2, <1>4, Zenon

\* Cookies are read one by one, and the last is left in the loop.
LEMMA CookieRuns ==
    ASSUME NEW C, NEW eq \in C, NEW blank \in C, blank # eq, NEW semi \in C, semi # blank, Null \notin Seq(C),
           NEW pairs \in Seq(TextPairs(C)), NEW n \in Nat \ {0}, n = Len(pairs), NEW tail \in Seq(C),
           NEW step, step = CookieStep(C, eq, blank),
           \A i \in 1 .. n :
              /\ \A j \in 1 .. Len(pairs[i].key) : pairs[i].key[j] # eq /\ (j = 1 => pairs[i].key[j] # blank)
              /\ Unended(pairs[i].value, semi, blank)
    PROVE  Runs(step, Marks(FlattenSeq(SpelledPairs(pairs, <<semi, blank>>, eq)), tail, semi, blank),
                CookieAt(TRUE, Null, <<>>, <<>>),
                CookieAt(FALSE, pairs[n].key, pairs[n].value, SubSeq(pairs, 1, n - 1)))
  <1>1. PICK separator \in Seq(C) : separator = <<semi, blank>>
    <2>1. <<semi, blank>> \in Seq(C)
      OBVIOUS
    <2>2. QED
      BY <2>1, Zenon
  <1>2. PICK s \in Seq(Seq(C)) : s = SpelledPairs(pairs, separator, eq) /\ Len(s) = n
    <2>1. SpelledPairs(pairs, separator, eq) \in Seq(Seq(C))
      BY SpelledType, Zenon
    <2>2. PICK s : s = SpelledPairs(pairs, separator, eq)
      OBVIOUS
    <2>3. s = [i \in 1 .. n |-> SpelledPair(pairs, i, separator, eq)]
      BY <2>2, Zenon DEF SpelledPairs
    <2>4. Len(s) = n
      BY ONLY <2>3, n \in Nat \ {0}
    <2>5. QED
      BY <2>1, <2>2, <2>4, Zenon
  <1>3. \A i \in 1 .. n : pairs[i].key \in Seq(C) /\ pairs[i].value \in Seq(C)
    BY SpelledType, Zenon
  <1>4. \A i \in 1 .. n : s[i] = SpelledPair(pairs, i, separator, eq) /\ s[i] \in Seq(C)
    <2>1. \A i \in 1 .. n : SpelledPair(pairs, i, separator, eq) \in Seq(C)
      BY SpelledType, Zenon
    <2>2. s = [i \in 1 .. n |-> SpelledPair(pairs, i, separator, eq)]
      BY <1>2, Zenon DEF SpelledPairs
    <2>3. QED
      BY <2>1, <2>2, Zenon
  <1>5. PICK rest : IsRest(rest, C, s)
    BY FlattenRests, Zenon
  <1>6. /\ rest \in [0 .. n -> Seq(C)] /\ rest[0] = FlattenSeq(s) /\ rest[n] = <<>>
        /\ \A m \in 0 .. n - 1 : rest[m] = s[m + 1] \o rest[m + 1]
    BY <1>2, <1>5, Zenon DEF IsRest
  <1> DEFINE after(i) == IF i = 0 THEN CookieAt(TRUE, Null, <<>>, <<>>)
                         ELSE CookieAt(FALSE, pairs[i].key, pairs[i].value, SubSeq(pairs, 1, i - 1))
  <1>7. PICK state : state = [i \in 0 .. n |-> after(i)]
    OBVIOUS
  <1>8. \A i \in 0 .. n : state[i] = after(i)
    BY <1>7, Zenon
  <1>9. PICK M : M = Marked(C)
    OBVIOUS
  <1>10. PICK follows \in [0 .. n -> Seq(C)] : \A i \in 0 .. n : follows[i] = rest[i] \o tail
    <2>1. \A i \in 0 .. n : rest[i] \o tail \in Seq(C)
      BY <1>6, ConcatProperties
    <2>2. PICK follows : follows = [i \in 0 .. n |-> rest[i] \o tail]
      OBVIOUS
    <2>3. follows \in [0 .. n -> Seq(C)] /\ \A i \in 0 .. n : follows[i] = rest[i] \o tail
      BY <2>1, <2>2, Zenon
    <2>4. QED
      BY <2>3, Zenon
  <1>11. PICK piece \in [1 .. n -> Seq(M)] : \A i \in 1 .. n : piece[i] = Marks(s[i], follows[i], semi, blank)
    <2>1. \A i \in 1 .. n : Marks(s[i], follows[i], semi, blank) \in Seq(M)
      <3> SUFFICES ASSUME NEW i \in 1 .. n PROVE Marks(s[i], follows[i], semi, blank) \in Seq(M)
        OBVIOUS
      <3>1. s[i] \in Seq(C) /\ i \in 0 .. n
        BY <1>4
      <3>2. follows[i] \in Seq(C)
        BY <3>1
      <3>3. QED
        BY <1>9, <3>1, <3>2, MarksType, Zenon
    <2>2. PICK piece : piece = [i \in 1 .. n |-> Marks(s[i], follows[i], semi, blank)]
      OBVIOUS
    <2>3. piece \in [1 .. n -> Seq(M)] /\ \A i \in 1 .. n : piece[i] = Marks(s[i], follows[i], semi, blank)
      BY <2>1, <2>2, Zenon
    <2>4. QED
      BY <2>3, Zenon
  <1>12. PICK word \in [0 .. n -> Seq(M)] : \A i \in 0 .. n : word[i] = Marks(rest[i], tail, semi, blank)
    <2>1. \A i \in 0 .. n : Marks(rest[i], tail, semi, blank) \in Seq(M)
      <3> SUFFICES ASSUME NEW i \in 0 .. n PROVE Marks(rest[i], tail, semi, blank) \in Seq(M)
        OBVIOUS
      <3>1. rest[i] \in Seq(C)
        BY <1>6
      <3>2. QED
        BY <1>9, <3>1, MarksType, Zenon
    <2>2. PICK word : word = [i \in 0 .. n |-> Marks(rest[i], tail, semi, blank)]
      OBVIOUS
    <2>3. word \in [0 .. n -> Seq(M)] /\ \A i \in 0 .. n : word[i] = Marks(rest[i], tail, semi, blank)
      BY <2>1, <2>2, Zenon
    <2>4. QED
      BY <2>3, Zenon
  <1>13. ASSUME NEW i \in 1 .. n
         PROVE  word[i - 1] = piece[i] \o word[i] /\ Runs(step, piece[i], state[i - 1], state[i])
    <2>1. i \in 0 .. n /\ i - 1 \in 0 .. n - 1 /\ i - 1 \in 0 .. n /\ (i - 1) + 1 = i /\ i # 0
      OBVIOUS
    <2>2. PICK this \in Seq(C), left \in Seq(C), next \in Seq(C) :
              this = s[i] /\ left = rest[i] /\ next = follows[i] /\ next = left \o tail /\ rest[i - 1] = this \o left
      <3>1. s[i] \in Seq(C) /\ rest[i] \in Seq(C) /\ follows[i] \in Seq(C)
        BY <1>4, <1>6, <2>1
      <3>2. rest[i - 1] = s[i] \o rest[i] /\ follows[i] = rest[i] \o tail
        BY <1>6, <1>10, <2>1, Zenon
      <3>3. QED
        BY <3>1, <3>2, Zenon
    <2>3. word[i - 1] = piece[i] \o word[i]
      <3>1. MarksJoin(this, left, tail, semi, blank)
        BY MarksConcat
      <3>2. /\ word[i - 1] = Marks(this \o left, tail, semi, blank)
            /\ word[i] = Marks(left, tail, semi, blank) /\ piece[i] = Marks(this, left \o tail, semi, blank)
        BY <1>11, <1>12, <2>1, <2>2, Zenon
      <3>3. QED
        BY <3>1, <3>2, Zenon DEF MarksJoin
    <2>4. PICK key \in Seq(C), value \in Seq(C) : key = pairs[i].key /\ value = pairs[i].value
      BY <1>3, Zenon
    <2>5. (\A j \in 1 .. Len(key) : key[j] # eq /\ (j = 1 => key[j] # blank)) /\ Unended(value, semi, blank)
      BY <2>4
    <2>6. state[i] = CookieAt(FALSE, key, value, SubSeq(pairs, 1, i - 1))
      BY <1>8, <2>1, <2>4, Zenon
    <2>7. piece[i] = Marks(this, next, semi, blank)
      BY <1>11, <2>2, Zenon
    <2>8. CASE i = 1
      <3>1. i - 1 = 0
        BY <2>8
      <3>2. state[i - 1] = CookieAt(TRUE, Null, <<>>, <<>>)
        BY <1>8, <2>1, <3>1, Zenon
      <3>3. SubSeq(pairs, 1, i - 1) = <<>>
        <4>1. SubSeq(pairs, 1, 0) = <<>>
          BY Beginnings
        <4>2. QED
          BY <3>1, <4>1, Zenon
      <3>4. this = (key \o <<eq>>) \o value
        <4>1. this = ((<<>> \o key) \o <<eq>>) \o value
          BY <1>4, <2>2, <2>4, <2>8, Zenon DEF SpelledPair
        <4>2. <<>> \o key = key
          BY ConcatEmptySeq
        <4>3. QED
          BY <4>1, <4>2, Zenon
      <3>5. Runs(step, Marks((key \o <<eq>>) \o value, next, semi, blank), CookieAt(TRUE, Null, <<>>, <<>>),
                 CookieAt(FALSE, key, value, <<>>))
        <4>1. Null \in Seq(C) \cup {Null} /\ <<>> \in Seq(TextPairs(C))
          BY EmptySeq
        <4>2. QED
          BY <2>5, <4>1, CookiePair
      <3>6. QED
        BY <2>3, <2>6, <2>7, <3>2, <3>3, <3>4, <3>5, Zenon
    <2>9. CASE i # 1
      <3>1. PICK h \in 1 .. n : h = i - 1 /\ h \in 0 .. n /\ h - 1 \in 0 .. n
        <4>1. i - 1 \in 1 .. n /\ i - 1 \in 0 .. n /\ (i - 1) - 1 \in 0 .. n
          BY <2>9
        <4>2. QED
          BY <4>1
      <3>2. PICK k \in Seq(C), v \in Seq(C) : k = pairs[h].key /\ v = pairs[h].value
        BY <1>3, Zenon
      <3>3. PICK before \in Seq(TextPairs(C)) : before = SubSeq(pairs, 1, h - 1)
        BY <3>1, Beginnings
      <3>4. SubSeq(pairs, 1, i - 1) = Append(before, Pair(k, v))
        <4>1. SubSeq(pairs, 1, h) = Append(SubSeq(pairs, 1, h - 1), pairs[h])
          BY <3>1, Beginnings
        <4>2. pairs[h] = Pair(k, v)
          <5>1. pairs[h] \in TextPairs(C)
            BY ElementOfSeq
          <5>2. QED
            BY <3>2, <5>1 DEF TextPairs, Pair
        <4>3. QED
          BY <3>1, <3>3, <4>1, <4>2, Zenon
      <3>5. state[i - 1] = CookieAt(FALSE, k, v, before)
        <4>1. h # 0
          OBVIOUS
        <4>2. QED
          BY <1>8, <3>1, <3>2, <3>3, <4>1, Zenon
      <3>6. this = ((<<semi, blank>> \o key) \o <<eq>>) \o value
        BY <1>1, <1>4, <2>2, <2>4, <2>9, Zenon DEF SpelledPair
      <3>7. Runs(step, Marks(((<<semi, blank>> \o key) \o <<eq>>) \o value, next, semi, blank),
                 CookieAt(FALSE, k, v, before), CookieAt(FALSE, key, value, Append(before, Pair(k, v))))
        BY <2>5, CookieNextPair
      <3>8. QED
        BY <2>3, <2>6, <2>7, <3>4, <3>5, <3>6, <3>7, Zenon
    <2>10. QED
      BY <2>8, <2>9
  <1>14. 0 \in 0 .. n /\ n \in 0 .. n /\ n # 0
    OBVIOUS
  <1>15. Runs(step, word[n], state[n], state[n])
    <2>1. word[n] = <<>>
      <3>1. word[n] = Marks(<<>>, tail, semi, blank)
        BY <1>6, <1>12, <1>14, Zenon
      <3>2. QED
        BY <3>1, MarksNothing, Zenon
    <2>2. QED
      BY <2>1, RunsEmpty
  <1>16. Runs(step, word[0], state[0], state[n])
    BY ONLY <1>13, <1>15, RunsChain, n \in Nat, piece \in [1 .. n -> Seq(M)], word \in [0 .. n -> Seq(M)]
  <1>17. state[0] = CookieAt(TRUE, Null, <<>>, <<>>)
         /\ state[n] = CookieAt(FALSE, pairs[n].key, pairs[n].value, SubSeq(pairs, 1, n - 1))
    BY <1>8, <1>14, Zenon
  <1>18. word[0] = Marks(FlattenSeq(SpelledPairs(pairs, <<semi, blank>>, eq)), tail, semi, blank)
    BY <1>1, <1>2, <1>6, <1>12, <1>14, Zenon
  <1>19. QED
    BY <1>16, <1>17, <1>18, Zenon

\* The loop of ParseCookies, for any separators, and what it returns.
IsCookieLoop(after, line, semi, eq, blank) ==
    after = [i \in 0 .. Len(line) |->
                IF i = 0 THEN [naming |-> TRUE, name |-> Null, buffer |-> <<>>, cookies |-> <<>>]
                ELSE CookieRead(after[i - 1], line[i], EndsAt(line, i, semi, blank), eq, blank)]

CookieLoop(line, semi, eq, blank) == CHOOSE after : IsCookieLoop(after, line, semi, eq, blank)

CookieEnd(end) ==
    IF end.naming \/ end.buffer = <<>> THEN end.cookies
    ELSE AddCookie(end.cookies, end.name, end.buffer)

CookiesLooped(line) == CookieEnd(CookieLoop(line, ";", "=", " ")[Len(line)])

LEMMA CookiesAreLoop ==
    ASSUME NEW line
    PROVE  ParseCookies(line) = CookiesLooped(line)
  BY Zenon DEF ParseCookies, CookiesLooped, CookieEnd, CookieLoop, IsCookieLoop, CookieRead, EndsAt, ValueEnds

\* The state in which a line is read.
CookieLineEnds(line, semi, eq, blank, t) == CookieLoop(line, semi, eq, blank)[Len(line)] = t

LEMMA CookieLoopEnds ==
    ASSUME NEW C, NEW semi, NEW eq \in C, NEW blank \in C, NEW line \in Seq(C), NEW t,
           Runs(CookieStep(C, eq, blank), Marks(line, <<>>, semi, blank), CookieAt(TRUE, Null, <<>>, <<>>), t)
    PROVE  CookieLineEnds(line, semi, eq, blank, t)
  <1> DEFINE S == CookieState(C)
             step == CookieStep(C, eq, blank)
             start == CookieAt(TRUE, Null, <<>>, <<>>)
  <1>1. PICK n \in Nat : n = Len(line)
    BY LenProperties
  <1>2. start \in S
    <2>1. <<>> \in Seq(C) /\ <<>> \in Seq(TextPairs(C))
      BY EmptySeq
    <2>2. QED
      BY <2>1 DEF CookieAt, CookieState
  <1>3. step \in [S -> [Marked(C) -> S]]
    BY CookieStepType
  <1>4. PICK marks \in Seq(Marked(C)) : /\ marks = Marks(line, <<>>, semi, blank) /\ Len(marks) = n
                                        /\ \A i \in 1 .. n : marks[i] = <<line[i], EndsAt(line, i, semi, blank)>>
    <2>1. PICK none \in Seq(C) : none = <<>> /\ line \o none = line
      <3>1. <<>> \in Seq(C) /\ line \o <<>> = line
        OBVIOUS
      <3>2. QED
        BY <3>1, Zenon
    <2>2. PICK marks \in Seq(Marked(C)) : marks = Marks(line, none, semi, blank)
      BY MarksType, Zenon
    <2>3. Len(marks) = n
      BY <1>1, <2>2, MarksType
    <2>4. \A i \in 1 .. n : marks[i] = <<line[i], EndsAt(line, i, semi, blank)>>
      BY <1>1, <2>1, <2>2, Zenon DEF Marks
    <2>5. QED
      BY <2>1, <2>2, <2>3, <2>4, Zenon
  <1>5. PICK f \in [0 .. n -> S] : f[0] = start /\ f[n] = t /\ \A i \in 1 .. n : f[i] = step[f[i - 1]][marks[i]]
    <2> HIDE DEF S, step, start
    <2>1. Runs(step, marks, start, t)
      BY <1>4, Zenon DEF step, start
    <2>2. PICK f : Traces(f, S, step, marks, start, t)
      BY <1>2, <1>3, <2>1, RunsTyped, Zenon
    <2>3. QED
      BY <1>4, <2>2, Zenon DEF Traces
  <1> DEFINE read(g, i) == CookieRead(g[i - 1], line[i], EndsAt(line, i, semi, blank), eq, blank)
  <1>6. \A i \in 1 .. n : f[i] = read(f, i)
    <2> SUFFICES ASSUME NEW i \in 1 .. n PROVE f[i] = read(f, i)
      OBVIOUS
    <2>1. i - 1 \in 0 .. n
      OBVIOUS
    <2>2. PICK e : e = EndsAt(line, i, semi, blank)
      OBVIOUS
    <2>3. f[i - 1] \in S /\ <<line[i], e>> \in Marked(C)
      <3>1. line[i] \in C
        BY <1>1, ElementOfSeq
      <3>2. e \in BOOLEAN
        BY <2>2 DEF EndsAt
      <3>3. QED
        BY <2>1, <3>1, <3>2 DEF Marked
    <2>4. <<line[i], e>>[1] = line[i] /\ <<line[i], e>>[2] = e
      OBVIOUS
    <2>5. step[f[i - 1]][<<line[i], e>>] = CookieRead(f[i - 1], line[i], e, eq, blank)
      BY <2>3, <2>4, Zenon DEF CookieStep
    <2>6. QED
      BY <1>4, <1>5, <2>2, <2>5, Zenon
  <1>7. PICK h : h = [i \in 0 .. n |-> IF i = 0 THEN start ELSE read(f, i)]
    OBVIOUS
  <1>8. \A i \in 0 .. n : h[i] = f[i]
    <2> HIDE DEF read, start
    <2> SUFFICES ASSUME NEW i \in 0 .. n PROVE h[i] = f[i]
      OBVIOUS
    <2>1. CASE i = 0
      BY <1>5, <1>7, <2>1, Zenon
    <2>2. CASE i # 0
      <3>1. i \in 1 .. n
        BY <2>2
      <3>2. QED
        BY <1>6, <1>7, <2>2, <3>1, Zenon
    <2>3. QED
      BY <2>1, <2>2
  <1>9. h = f
    <2>1. DOMAIN h = 0 .. n /\ h = [i \in DOMAIN h |-> h[i]]
      BY <1>7, Zenon
    <2>2. h = [i \in 0 .. n |-> h[i]] /\ f = [i \in 0 .. n |-> f[i]]
      BY <2>1, Zenon
    <2>3. QED
      BY <1>8, <2>2, Zenon
  <1>10. IsCookieLoop(f, line, semi, eq, blank)
    BY <1>1, <1>7, <1>9, Zenon DEF IsCookieLoop, CookieAt
  <1>11. PICK g : g = CookieLoop(line, semi, eq, blank)
    OBVIOUS
  <1>12. IsCookieLoop(g, line, semi, eq, blank)
    BY <1>10, <1>11, Zenon DEF CookieLoop
  <1>13. g[0] = f[0] /\ \A i \in 1 .. n : g[i] = read(g, i)
    <2>1. \A i \in 0 .. n : g[i] = IF i = 0 THEN start ELSE read(g, i)
      BY <1>1, <1>12, Zenon DEF IsCookieLoop, CookieAt
    <2> HIDE DEF read, start
    <2>2. 0 \in 0 .. n /\ \A i \in 1 .. n : i \in 0 .. n /\ i # 0
      OBVIOUS
    <2>3. QED
      BY <1>5, <2>1, <2>2, Zenon
  <1>14. g[n] = f[n]
    <2>1. \A i \in 1 .. n : g[i - 1] = f[i - 1] => g[i] = f[i]
      BY <1>6, <1>13, Zenon
    <2>2. QED
      BY ONLY <1>13, <2>1, SameValues, n \in Nat
  <1>15. QED
    BY <1>1, <1>5, <1>11, <1>14, Zenon DEF CookieLineEnds

\* A symbol that a text does not have stands nowhere in it.
LEMMA NoPlaceOfOne ==
    ASSUME NEW S, NEW text \in Seq(S), NEW c \in S, ~Has(text, <<c>>), NEW i \in 1 .. Len(text)
    PROVE  text[i] # c
  <1> SUFFICES ASSUME text[i] = c PROVE FALSE
    OBVIOUS
  <1>1. Len(text) \in Nat /\ Len(<<c>>) = 1
    OBVIOUS
  <1>2. i \in 1 .. Len(text) - Len(<<c>>) + 1 /\ i + Len(<<c>>) - 1 = i
    BY <1>1
  <1>3. SubSeq(text, i, i) = <<c>>
    <2>1. PICK x \in Seq(S), y \in Seq(S) : x = SubSeq(text, i, i) /\ y = <<c>>
      <3>1. SubSeq(text, i, i) \in Seq(S) /\ <<c>> \in Seq(S)
        BY SubSeqProperties
      <3>2. QED
        BY <3>1, Zenon
    <2>2. Len(x) = 1 /\ x[1] = c /\ Len(y) = 1 /\ y[1] = c
      BY <1>1, <2>1
    <2>3. Len(x) = Len(y) /\ \A j \in 1 .. Len(x) : x[j] = y[j]
      BY <2>2
    <2>4. x = y
      BY ONLY <2>3, SeqEqual, x \in Seq(S), y \in Seq(S)
    <2>5. QED
      BY <2>1, <2>4, Zenon
  <1>4. QED
    BY <1>2, <1>3, Zenon DEF Has

\* A value without "; ", and no ";" at its end, is read to its end.
LEMMA CookieValueUnended ==
    ASSUME NEW C, NEW value \in Seq(C), NEW semi \in C, NEW blank \in C, ~Has(value, <<semi, blank>>),
           value # <<>> => value[Len(value)] # semi
    PROVE  Unended(value, semi, blank)
  <1> SUFFICES ASSUME NEW i \in 1 .. Len(value), EndsAt(value, i, semi, blank) PROVE FALSE
    BY DEF Unended
  <1>1. PICK n \in Nat : n = Len(value)
    BY LenProperties
  <1>2. value[i] = semi /\ (i = n \/ value[i + 1] = blank)
    BY <1>1 DEF EndsAt
  <1>3. CASE i = n
    <2>1. value # <<>>
      BY <1>1, <1>3
    <2>2. QED
      BY <1>1, <1>2, <1>3, <2>1
  <1>4. CASE i # n
    <2>1. i \in 1 .. Len(value) - 1
      BY <1>1, <1>4
    <2>2. ~(value[i] = semi /\ value[i + 1] = blank)
      BY <2>1, NoPlaceOf
    <2>3. QED
      BY <1>2, <1>4, <2>2
  <1>5. QED
    BY <1>3, <1>4

\* What is spelled is one text.
LEMMA SpelledText ==
    ASSUME NEW C, NEW separator \in Seq(C), NEW eq \in C, NEW pairs \in Seq(TextPairs(C))
    PROVE  FlattenSeq(SpelledPairs(pairs, separator, eq)) \in Seq(C)
  <1>1. PICK s \in Seq(Seq(C)) : s = SpelledPairs(pairs, separator, eq)
    BY SpelledType, Zenon
  <1>2. PICK rest : IsRest(rest, C, s)
    BY FlattenRests, Zenon
  <1>3. 0 \in 0 .. Len(s)
    BY LenProperties
  <1>4. rest \in [0 .. Len(s) -> Seq(C)] /\ rest[0] = FlattenSeq(s)
    BY <1>2, Zenon DEF IsRest
  <1>5. QED
    BY <1>1, <1>3, <1>4, Zenon

\* The states in which a line of cookies ends, without and with a separator
\* at its end.
LEMMA CookieLines ==
    ASSUME NEW C, NEW eq \in C, NEW blank \in C, blank # eq, NEW semi \in C, semi # blank, Null \notin Seq(C),
           NEW pairs \in Seq(TextPairs(C)), NEW n \in Nat \ {0}, n = Len(pairs),
           NEW line \in Seq(C), line = FlattenSeq(SpelledPairs(pairs, <<semi, blank>>, eq)),
           \A i \in 1 .. n :
              /\ \A j \in 1 .. Len(pairs[i].key) : pairs[i].key[j] # eq /\ (j = 1 => pairs[i].key[j] # blank)
              /\ Unended(pairs[i].value, semi, blank)
    PROVE  /\ CookieLineEnds(line, semi, eq, blank,
                              CookieAt(FALSE, pairs[n].key, pairs[n].value, SubSeq(pairs, 1, n - 1)))
           /\ CookieLineEnds(line \o <<semi>>, semi, eq, blank, CookieAt(TRUE, pairs[n].key, <<>>, pairs))
  <1>1. PICK step : step = CookieStep(C, eq, blank)
    OBVIOUS
  <1>2. PICK start, end : start = CookieAt(TRUE, Null, <<>>, <<>>)
            /\ end = CookieAt(FALSE, pairs[n].key, pairs[n].value, SubSeq(pairs, 1, n - 1))
    OBVIOUS
  <1>3. PICK none \in Seq(C), one \in Seq(C), longer \in Seq(C) :
            none = <<>> /\ one = <<semi>> /\ longer = line \o one /\ one \o none = one
    <2>1. <<>> \in Seq(C) /\ <<semi>> \in Seq(C) /\ line \o <<semi>> \in Seq(C) /\ <<semi>> \o <<>> = <<semi>>
      OBVIOUS
    <2>2. QED
      BY <2>1, Zenon
  <1>4. ASSUME NEW tail \in Seq(C) PROVE Runs(step, Marks(line, tail, semi, blank), start, end)
    <2>1. Runs(step, Marks(FlattenSeq(SpelledPairs(pairs, <<semi, blank>>, eq)), tail, semi, blank),
                CookieAt(TRUE, Null, <<>>, <<>>),
                CookieAt(FALSE, pairs[n].key, pairs[n].value, SubSeq(pairs, 1, n - 1)))
      BY <1>1, CookieRuns
    <2>2. QED
      BY <1>2, <2>1, Zenon
  <1>5. CookieLineEnds(line, semi, eq, blank, end)
    <2>1. Runs(CookieStep(C, eq, blank), Marks(line, <<>>, semi, blank), CookieAt(TRUE, Null, <<>>, <<>>), end)
      BY <1>1, <1>2, <1>3, <1>4, Zenon
    <2>2. QED
      BY <2>1, CookieLoopEnds, Zenon
  <1>6. PICK key \in Seq(C), value \in Seq(C), before \in Seq(TextPairs(C)) :
            /\ key = pairs[n].key /\ value = pairs[n].value /\ before = SubSeq(pairs, 1, n - 1)
            /\ pairs = Append(before, Pair(key, value))
    <2>1. pairs[n] \in TextPairs(C) /\ n \in 1 .. Len(pairs) /\ n - 1 \in 0 .. Len(pairs)
      BY ElementOfSeq
    <2>2. pairs[n].key \in Seq(C) /\ pairs[n].value \in Seq(C) /\ pairs[n] = Pair(pairs[n].key, pairs[n].value)
      BY <2>1 DEF TextPairs, Pair
    <2>3. SubSeq(pairs, 1, n - 1) \in Seq(TextPairs(C)) /\ SubSeq(pairs, 1, n) = pairs
          /\ SubSeq(pairs, 1, n) = Append(SubSeq(pairs, 1, n - 1), pairs[n])
      BY <2>1, Beginnings
    <2>4. QED
      BY <2>2, <2>3, Zenon
  <1>7. PICK last : last = CookieAt(TRUE, key, <<>>, pairs)
    OBVIOUS
  <1>8. PICK x : x = <<semi, TRUE>>
    OBVIOUS
  <1>9. Runs(step, <<x>>, end, last)
    <2>1. Leads(CookieStep(C, eq, blank), CookieAt(FALSE, key, value, before), <<semi, TRUE>>, CookieAt(TRUE, key, <<>>, pairs))
      BY <1>6, CookieEnds
    <2>2. Leads(step, end, x, last)
      BY <1>1, <1>2, <1>6, <1>7, <1>8, <2>1, Zenon
    <2>3. QED
      BY <2>2, RunsOne
  <1>10. Marks(one, none, semi, blank) = <<x>>
    <2>1. EndsAt(<<semi>> \o none, 1, semi, blank)
      <3>1. Len(<<semi>>) = 1 /\ <<semi>>[1] = semi
        OBVIOUS
      <3>2. QED
        BY <1>3, <3>1, Zenon DEF EndsAt
    <2>2. PICK ends \in BOOLEAN : Marks(<<semi>>, none, semi, blank) = <<<<semi, ends>>>>
                                  /\ (ends <=> EndsAt(<<semi>> \o none, 1, semi, blank))
      BY MarksOne, Zenon
    <2>3. ends = TRUE
      BY <2>1, <2>2, Zenon
    <2>4. QED
      BY <1>3, <1>8, <2>2, <2>3, Zenon
  <1>11. Runs(step, Marks(longer, none, semi, blank), start, last)
    <2>1. MarksJoin(line, one, none, semi, blank)
      BY MarksConcat
    <2>2. PICK M : M = Marked(C)
      OBVIOUS
    <2>3. PICK a \in Seq(M), b \in Seq(M) : a = Marks(line, one, semi, blank) /\ b = Marks(one, none, semi, blank)
      BY <2>2, MarksType, Zenon
    <2>4. Runs(step, a, start, end) /\ Runs(step, b, end, last)
      BY <1>4, <1>9, <1>10, <2>3, Zenon
    <2>5. Runs(step, a \o b, start, last)
      BY ONLY <2>4, RunsConcat, a \in Seq(M), b \in Seq(M)
    <2>6. QED
      BY <1>3, <2>1, <2>3, <2>5, Zenon DEF MarksJoin
  <1>12. CookieLineEnds(longer, semi, eq, blank, last)
    <2>1. Runs(CookieStep(C, eq, blank), Marks(longer, <<>>, semi, blank), CookieAt(TRUE, Null, <<>>, <<>>), last)
      BY <1>1, <1>2, <1>3, <1>11, Zenon
    <2>2. QED
      BY <2>1, CookieLoopEnds, Zenon
  <1>13. QED
    BY <1>2, <1>3, <1>5, <1>6, <1>7, <1>12, Zenon

\* Cookies written on a line, with "; " between them, are read back in their
\* order, however many (hs_parser.c:92-166): all of them if the line ends with
\* a separator or the last has a value, all but the last otherwise.
THEOREM CookieRoundTrip ==
    ASSUME NEW C, "=" \in C, ";" \in C, " " \in C, Null \notin Seq(C),
           NEW pairs \in Seq(TextPairs(C)), pairs # <<>>,
           \A i \in 1 .. Len(pairs) : CookieName(pairs[i].key) /\ CookieValue(pairs[i].value),
           NEW line, line = Written(pairs, <<";", " ">>)
    PROVE  /\ pairs[Len(pairs)].value # <<>> => ParseCookies(line) = pairs
           /\ pairs[Len(pairs)].value = <<>> => ParseCookies(line) = Front(pairs)
           /\ ParseCookies(line \o <<";">>) = pairs
  <1>1. PICK eq \in C, semi \in C, blank \in C : eq = "=" /\ semi = ";" /\ blank = " " /\ blank # eq /\ semi # blank
    BY Zenon
  <1>2. PICK n \in Nat \ {0} : n = Len(pairs)
    <2>1. Len(pairs) \in Nat \ {0}
      BY EmptySeq
    <2>2. QED
      BY <2>1
  <1>3. PICK separator \in Seq(C) : separator = <<semi, blank>>
    <2>1. <<semi, blank>> \in Seq(C)
      BY ONLY semi \in C, blank \in C
    <2>2. QED
      BY <2>1, Zenon
  <1>4. line = FlattenSeq(SpelledPairs(pairs, <<semi, blank>>, eq)) /\ line \in Seq(C)
    <2>1. line = FlattenSeq(SpelledPairs(pairs, <<semi, blank>>, eq))
      BY <1>1, Zenon DEF Written, SpelledPairs, SpelledPair
    <2>2. QED
      BY <1>3, <2>1, SpelledText, Zenon
  <1>5. \A i \in 1 .. n :
            /\ pairs[i].key \in Seq(C) /\ pairs[i].value \in Seq(C)
            /\ \A j \in 1 .. Len(pairs[i].key) : pairs[i].key[j] # eq /\ (j = 1 => pairs[i].key[j] # blank)
            /\ Unended(pairs[i].value, semi, blank)
    <2> SUFFICES ASSUME NEW i \in 1 .. n
                 PROVE  /\ pairs[i].key \in Seq(C) /\ pairs[i].value \in Seq(C)
                        /\ \A j \in 1 .. Len(pairs[i].key) : pairs[i].key[j] # eq /\ (j = 1 => pairs[i].key[j] # blank)
                        /\ Unended(pairs[i].value, semi, blank)
      OBVIOUS
    <2>1. PICK key \in Seq(C), value \in Seq(C) : key = pairs[i].key /\ value = pairs[i].value
      <3>1. pairs[i] \in TextPairs(C)
        BY <1>2, ElementOfSeq
      <3>2. QED
        BY <3>1 DEF TextPairs
    <2>2. key # <<>> /\ key[1] # blank /\ ~Has(key, <<eq>>)
      BY <1>1, <1>2, <2>1, Zenon DEF CookieName
    <2>3. \A j \in 1 .. Len(key) : key[j] # eq
      BY <2>2, NoPlaceOfOne
    <2>4. \A j \in 1 .. Len(key) : key[j] # eq /\ (j = 1 => key[j] # blank)
      BY <2>2, <2>3, Zenon
    <2>5. Unended(value, semi, blank)
      <3>1. ~Has(value, <<semi, blank>>) /\ (value # <<>> => value[Len(value)] # semi)
        BY <1>1, <1>2, <2>1, Zenon DEF CookieValue, Ends
      <3>2. QED
        BY <3>1, CookieValueUnended
    <2>6. QED
      BY <2>1, <2>4, <2>5, Zenon
  <1>6. /\ CookieLineEnds(line, semi, eq, blank,
                           CookieAt(FALSE, pairs[n].key, pairs[n].value, SubSeq(pairs, 1, n - 1)))
        /\ CookieLineEnds(line \o <<semi>>, semi, eq, blank, CookieAt(TRUE, pairs[n].key, <<>>, pairs))
    BY <1>1, <1>2, <1>4, <1>5, CookieLines
  <1>7. PICK key \in Seq(C), value \in Seq(C), before \in Seq(TextPairs(C)) :
            /\ key = pairs[n].key /\ value = pairs[n].value /\ before = SubSeq(pairs, 1, n - 1)
            /\ pairs = Append(before, Pair(key, value)) /\ before = Front(pairs)
    <2>1. pairs[n] \in TextPairs(C) /\ n \in 1 .. Len(pairs) /\ n - 1 \in 0 .. Len(pairs)
      BY ONLY <1>2, ElementOfSeq, pairs \in Seq(TextPairs(C)), n \in Nat \ {0}
    <2>2. pairs[n].key \in Seq(C) /\ pairs[n].value \in Seq(C) /\ pairs[n] = Pair(pairs[n].key, pairs[n].value)
      BY <2>1 DEF TextPairs, Pair
    <2>3. SubSeq(pairs, 1, n - 1) \in Seq(TextPairs(C)) /\ SubSeq(pairs, 1, n) = pairs
          /\ SubSeq(pairs, 1, n) = Append(SubSeq(pairs, 1, n - 1), pairs[n])
      BY <1>2, <2>1, Beginnings
    <2>4. SubSeq(pairs, 1, n - 1) = Front(pairs)
      BY <1>2, Zenon DEF Front
    <2>5. QED
      BY <2>2, <2>3, <2>4, Zenon
  <1>8. ParseCookies(line) = CookieEnd(CookieAt(FALSE, key, value, before))
    <2>1. CookieLoop(line, semi, eq, blank)[Len(line)] = CookieAt(FALSE, key, value, before)
      BY <1>6, <1>7, Zenon DEF CookieLineEnds
    <2>2. QED
      BY <1>1, <2>1, CookiesAreLoop, Zenon DEF CookiesLooped
  <1>9. ParseCookies(line \o <<semi>>) = CookieEnd(CookieAt(TRUE, key, <<>>, pairs))
    <2>1. PICK longer : longer = line \o <<semi>>
      OBVIOUS
    <2>2. CookieLoop(longer, semi, eq, blank)[Len(longer)] = CookieAt(TRUE, key, <<>>, pairs)
      BY <1>6, <1>7, <2>1, Zenon DEF CookieLineEnds
    <2>3. QED
      BY <1>1, <2>1, <2>2, CookiesAreLoop, Zenon DEF CookiesLooped
  <1>10. key # Null /\ value # Null
    OBVIOUS
  <1>11. /\ value = <<>> => CookieEnd(CookieAt(FALSE, key, value, before)) = before
         /\ value # <<>> => CookieEnd(CookieAt(FALSE, key, value, before)) = Append(before, Pair(key, value))
         /\ CookieEnd(CookieAt(TRUE, key, <<>>, pairs)) = pairs
    BY <1>10 DEF CookieEnd, CookieAt, AddCookie
  <1>12. QED
    BY <1>1, <1>2, <1>7, <1>8, <1>9, <1>11, Zenon

-----------------------------------------------------------------------------
\* The pairs that a client means are texts of symbols.
LEMMA MeantType ==
    ASSUME WellFormed, Len(parts) = 4
    PROVE  Meant \in Seq(TextPairs(Symbols)) /\ Meant # <<>>
  <1>1. \A i \in 1 .. 4 : parts[i] \in Seq(Symbols)
    <2>1. parts \in Seq(Seq(Symbols))
      BY Zenon DEF WellFormed
    <2>2. QED
      BY <2>1, ElementOfSeq
  <1>2. PICK P : P = TextPairs(Symbols)
    OBVIOUS
  <1>3. PICK a, b, c, d \in Seq(Symbols) : a = parts[1] /\ b = parts[2] /\ c = parts[3] /\ d = parts[4]
    BY <1>1
  <1>4. PICK x \in P, y \in P : x = Pair(a, b) /\ y = Pair(c, d)
    <2>1. Pair(a, b) \in P /\ Pair(c, d) \in P
      BY <1>2 DEF Pair, TextPairs
    <2>2. QED
      BY <2>1, Zenon
  <1>5. PICK one \in Seq(P), more \in Seq(P) : one = <<x>> /\ more = IF c = <<>> THEN <<>> ELSE <<y>>
    <2>1. <<x>> \in Seq(P) /\ <<y>> \in Seq(P) /\ <<>> \in Seq(P)
      OBVIOUS
    <2>2. QED
      BY <2>1
  <1>6. Meant = one \o more
    BY <1>3, <1>4, <1>5, Zenon DEF Meant
  <1>7. one \o more \in Seq(P) /\ one \o more # <<>>
    <2>1. Len(one) = 1 /\ Len(more) \in Nat
      BY <1>5
    <2>2. one \o more \in Seq(P) /\ Len(one \o more) = Len(one) + Len(more)
      BY ConcatProperties
    <2>3. Len(one \o more) # 0
      BY <2>1, <2>2
    <2>4. QED
      BY <2>2, <2>3
  <1>8. QED
    BY <1>2, <1>6, <1>7, Zenon

\* The cookies of every behaviour come back as they were meant.
THEOREM CookiesAsWrittenHolds == Spec => []CookiesAsWritten
  <1>1. WellFormed => CookiesAsWritten
    <2> SUFFICES ASSUME WellFormed, subject = "cookies",
                        \A i \in 1 .. Len(Meant) : CookieName(Meant[i].key) /\ CookieValue(Meant[i].value),
                        NEW line, line = Written(Meant, <<";", " ">>)
                 PROVE  /\ Meant[Len(Meant)].value # <<>> => ParseCookies(line) = Meant
                        /\ Meant[Len(Meant)].value = <<>> => ParseCookies(line) = Front(Meant)
                        /\ ParseCookies(line \o <<";">>) = Meant
      BY Zenon DEF CookiesAsWritten
    <2>1. Len(parts) = 4
      BY Zenon DEF WellFormed, PartsOf
    <2>2. Meant \in Seq(TextPairs(Symbols)) /\ Meant # <<>>
      BY <2>1, MeantType, Zenon
    <2>3. Null \notin Seq(Symbols) /\ "=" \in Symbols /\ ";" \in Symbols /\ " " \in Symbols
      BY NullAssumption, Zenon DEF Symbols
    <2>4. PICK pairs \in Seq(TextPairs(Symbols)) : pairs = Meant
      BY <2>2, Zenon
    <2>5. QED
      BY <2>2, <2>3, <2>4, CookieRoundTrip, Zenon
  <1>2. QED
    BY <1>1, WellFormedAlways, PTL

-----------------------------------------------------------------------------
\* Where a symbol first stands in a text.
LEMMA FirstOfDef ==
    ASSUME NEW c, NEW text
    PROVE  LET I == {i \in 1 .. Len(text) : text[i] = c}
           IN  FirstOf(c, text) = IF I # {} THEN Min(I) ELSE 0
  BY Zenon DEF FirstOf, SelectInSeq

\* A symbol that did not stand before stands first.
LEMMA FirstOfIs ==
    ASSUME NEW S, NEW text \in Seq(S), NEW c, NEW i \in 1 .. Len(text), text[i] = c,
           \A j \in 1 .. i - 1 : text[j] # c
    PROVE  FirstOf(c, text) = i
  <1>1. PICK I : I = {j \in 1 .. Len(text) : text[j] = c}
    OBVIOUS
  <1>2. I \in SUBSET Nat /\ i \in I /\ \A j \in I : i <= j
    BY <1>1
  <1>3. Min(I) = i
    BY <1>2, MinIs
  <1>4. I # {}
    BY <1>2
  <1>5. QED
    BY <1>1, <1>3, <1>4, FirstOfDef, Zenon

\* A symbol that stands nowhere has no first place.
LEMMA FirstOfNone ==
    ASSUME NEW text, NEW c, \A j \in 1 .. Len(text) : text[j] # c
    PROVE  FirstOf(c, text) = 0
  <1>1. PICK I : I = {j \in 1 .. Len(text) : text[j] = c}
    OBVIOUS
  <1>2. I = {}
    BY <1>1
  <1>3. QED
    BY <1>1, <1>2, FirstOfDef, Zenon

\* The first place of a symbol is one of its places.
LEMMA FirstOfStands ==
    ASSUME NEW S, NEW text \in Seq(S), NEW c
    PROVE  \/ FirstOf(c, text) = 0
           \/ FirstOf(c, text) \in 1 .. Len(text) /\ text[FirstOf(c, text)] = c
  <1>1. PICK I : I = {j \in 1 .. Len(text) : text[j] = c}
    OBVIOUS
  <1>2. I \in SUBSET Nat
    BY <1>1
  <1>3. CASE I # {}
    <2>1. PICK i \in I : \A j \in I : i <= j
      BY <1>2, <1>3, HasMin
    <2>2. Min(I) = i
      BY <1>2, <2>1, MinIs
    <2>3. FirstOf(c, text) = i
      BY <1>1, <1>3, <2>2, FirstOfDef, Zenon
    <2>4. QED
      BY <1>1, <2>3
  <1>4. CASE I = {}
    BY <1>1, <1>4, FirstOfDef, Zenon
  <1>5. QED
    BY <1>3, <1>4

\* A text is cut where a symbol first stands, if its beginning is without it.
CutFirst(all, c, a, b) ==
    /\ FirstOf(c, all) = Len(a) + 1
    /\ Before(all, Len(a) + 1) = a
    /\ After(all, Len(a) + 1) = b
    /\ SubSeq(all, Len(a) + 1, Len(all)) = <<c>> \o b
    /\ Len(all) = Len(a) + 1 + Len(b)

LEMMA CutAtFirst ==
    ASSUME NEW C, NEW a \in Seq(C), NEW b \in Seq(C), NEW c \in C, Without(a, {c}),
           NEW all, all = a \o (<<c>> \o b)
    PROVE  CutFirst(all, c, a, b)
  <1>1. PICK m, n \in Nat : m = Len(a) /\ n = Len(b)
    BY LenProperties
  <1>2. PICK right \in Seq(C) : /\ right = <<c>> \o b /\ Len(right) = n + 1 /\ right[1] = c
                                /\ \A i \in 1 .. n : right[i + 1] = b[i]
    <2>1. PICK one \in Seq(C) : one = <<c>> /\ Len(one) = 1 /\ one[1] = c
      <3>1. <<c>> \in Seq(C) /\ Len(<<c>>) = 1 /\ <<c>>[1] = c
        OBVIOUS
      <3>2. QED
        BY <3>1, Zenon
    <2>2. PICK right \in Seq(C) : right = one \o b
      BY ConcatProperties
    <2>3. Len(right) = n + 1 /\ right[1] = c /\ \A i \in 1 .. n : right[i + 1] = b[i]
      BY <1>1, <2>1, <2>2, ConcatProperties
    <2>4. QED
      BY <2>1, <2>2, <2>3, Zenon
  <1>3. all \in Seq(C) /\ Len(all) = m + (n + 1)
        /\ (\A i \in 1 .. m : all[i] = a[i]) /\ \A i \in 1 .. n + 1 : all[m + i] = right[i]
    <2>1. all = a \o right
      BY <1>2, Zenon
    <2>2. QED
      BY <1>1, <1>2, <2>1, ConcatProperties
  <1>4. FirstOf(c, all) = m + 1
    <2>1. m + 1 \in 1 .. Len(all) /\ all[m + 1] = c
      BY <1>2, <1>3
    <2>2. \A j \in 1 .. (m + 1) - 1 : all[j] # c
      <3>1. \A j \in 1 .. m : a[j] # c
        BY <1>1 DEF Without
      <3>2. QED
        BY <1>3, <3>1
    <2>3. QED
      BY <1>3, <2>1, <2>2, FirstOfIs
  <1>5. SubSeq(all, 1, (m + 1) - 1) = a
    <2>1. 0 + m <= Len(all) /\ \A i \in 1 .. m : all[0 + i] = a[i]
      BY <1>3
    <2>2. SubSeq(all, 0 + 1, 0 + m) = a
      BY ONLY <2>1, <1>1, <1>3, PartIs, a \in Seq(C), 0 \in Nat
    <2>3. 0 + 1 = 1 /\ 0 + m = m /\ (m + 1) - 1 = m
      OBVIOUS
    <2>4. QED
      BY <2>2, <2>3, Zenon
  <1>6. SubSeq(all, (m + 1) + 1, Len(all)) = b
    <2>1. \A i \in 1 .. n : all[(m + 1) + i] = b[i]
      <3> SUFFICES ASSUME NEW i \in 1 .. n PROVE all[(m + 1) + i] = b[i]
        OBVIOUS
      <3>1. i + 1 \in 1 .. n + 1 /\ m + (i + 1) = (m + 1) + i
        OBVIOUS
      <3>2. all[m + (i + 1)] = right[i + 1]
        BY <1>3, <3>1, Zenon
      <3>3. QED
        BY <1>2, <3>1, <3>2, Zenon
    <2>2. PICK k \in Nat : k = m + 1
      OBVIOUS
    <2>3. k + n <= Len(all) /\ \A i \in 1 .. n : all[k + i] = b[i]
      BY <1>3, <2>1, <2>2
    <2>4. SubSeq(all, k + 1, k + n) = b
      BY ONLY <2>3, <1>1, <1>3, PartIs, b \in Seq(C), k \in Nat
    <2>5. k + n = Len(all)
      BY <1>3, <2>2
    <2>6. QED
      BY <2>2, <2>4, <2>5, Zenon
  <1>7. SubSeq(all, m + 1, Len(all)) = right
    <2>1. PICK k \in Nat : k = n + 1
      OBVIOUS
    <2>2. k = Len(right) /\ m + k <= Len(all) /\ \A i \in 1 .. k : all[m + i] = right[i]
      BY <1>2, <1>3, <2>1
    <2>3. SubSeq(all, m + 1, m + k) = right
      BY ONLY <2>2, <1>3, PartIs, right \in Seq(C), k \in Nat, m \in Nat
    <2>4. m + k = Len(all)
      BY <1>3, <2>1
    <2>5. QED
      BY <2>3, <2>4, Zenon
  <1>8. Len(all) = Len(a) + 1 + Len(b)
    BY <1>1, <1>3
  <1>9. QED
    BY <1>1, <1>2, <1>4, <1>5, <1>6, <1>7, <1>8, Zenon DEF CutFirst, Before, After

\* What is concatenated is without what each part is without.
LEMMA WithoutConcat ==
    ASSUME NEW C, NEW a \in Seq(C), NEW b \in Seq(C), NEW chars, Without(a, chars), Without(b, chars)
    PROVE  Without(a \o b, chars)
  <1> SUFFICES ASSUME NEW i \in 1 .. Len(a \o b) PROVE (a \o b)[i] \notin chars
    BY Zenon DEF Without
  <1>1. PICK m, n \in Nat : m = Len(a) /\ n = Len(b)
    BY LenProperties
  <1>2. i \in 1 .. m + n
    BY <1>1, ConcatProperties
  <1>3. CASE i <= m
    <2>1. (a \o b)[i] = a[i] /\ i \in 1 .. Len(a)
      BY <1>1, <1>2, <1>3, ConcatProperties
    <2>2. QED
      BY <2>1, Zenon DEF Without
  <1>4. CASE i > m
    <2>1. PICK j \in 1 .. Len(b) : i = Len(a) + j
      <3>1. i - m \in 1 .. n /\ i = m + (i - m)
        BY <1>2, <1>4
      <3>2. QED
        BY <1>1, <3>1
    <2>2. (a \o b)[Len(a) + j] = b[j]
      BY ConcatProperties
    <2>3. QED
      BY <2>1, <2>2, Zenon DEF Without
  <1>5. i <= m \/ i > m
    BY <1>2
  <1>6. QED
    BY <1>3, <1>4, <1>5, Zenon

\* The target of a request, read with any separators, and what it means.
PortFrom(address, colon, slash) ==
    IF FirstOf(slash, address) # 0 /\ FirstOf(slash, address) < FirstOf(colon, address) THEN 0
    ELSE FirstOf(colon, address)

AddressFrom(url, mark) == IF FirstOf(mark, url) = 0 THEN url ELSE Before(url, FirstOf(mark, url))

HostFrom(address, slash) ==
    IF FirstOf(slash, address) = 0 THEN address ELSE Before(address, FirstOf(slash, address))

Addressed(ssl, address, host, port, colon, slash, query) ==
    [ssl |-> ssl,
     query |-> query,
     domain |-> IF port = 0 THEN host ELSE Before(address, port),
     port |-> IF port \in {0, Len(address)} THEN -1 ELSE Atoi(After(host, port)),
     resource |-> IF port # 0 /\ port = Len(address) THEN Null
                  ELSE IF FirstOf(slash, address) = 0 THEN <<slash>>
                  ELSE SubSeq(address, FirstOf(slash, address), Len(address))]

QueryFrom(url, mark) == IF FirstOf(mark, url) = 0 THEN Null ELSE OrNull(After(url, FirstOf(mark, url)))

Targeted(url, ssl, colon, slash, mark) ==
    Addressed(ssl, AddressFrom(url, mark), HostFrom(AddressFrom(url, mark), slash),
              PortFrom(AddressFrom(url, mark), colon, slash), colon, slash, QueryFrom(url, mark))

CreatedFrom(target, forceProtocol) ==
    IF forceProtocol /\ Protocol(target) = Null THEN Null
    ELSE Targeted(IF Protocol(target) = Null THEN target ELSE Tail(target),
                  Protocol(target) = "https://", ":", "/", "?")

LEMMA CreateIs ==
    ASSUME NEW target, NEW forceProtocol
    PROVE  CreateRequest(target, forceProtocol) = CreatedFrom(target, forceProtocol)
  BY Zenon DEF CreateRequest, CreatedFrom, Targeted, Addressed, QueryFrom, HostFrom, AddressFrom, PortFrom, PortAt

\* What stands before a part of a URL, and the part: a separator of its own
\* comes with a part that is not empty.
After1(separator, part) == IF part = <<>> THEN <<>> ELSE <<separator>> \o part

LEMMA After1Type ==
    ASSUME NEW C, NEW separator \in C, NEW part \in Seq(C)
    PROVE  After1(separator, part) \in Seq(C)
  <1>1. <<>> \in Seq(C) /\ <<separator>> \o part \in Seq(C)
    OBVIOUS
  <1>2. QED
    BY <1>1 DEF After1

\* A separator adds to a part no other symbol than itself.
LEMMA WithoutAfter1 ==
    ASSUME NEW C, NEW separator \in C, NEW part \in Seq(C), NEW c, separator # c, Without(part, {c})
    PROVE  Without(After1(separator, part), {c})
  <1>1. CASE part = <<>>
    BY <1>1 DEF After1, Without
  <1>2. CASE part # <<>>
    <2>1. PICK one \in Seq(C) : one = <<separator>>
      <3>1. <<separator>> \in Seq(C)
        OBVIOUS
      <3>2. QED
        BY <3>1, Zenon
    <2>2. Without(one, {c})
      BY <2>1 DEF Without
    <2>3. Without(one \o part, {c})
      BY <2>2, WithoutConcat
    <2>4. QED
      BY <1>2, <2>1, <2>3, Zenon DEF After1
  <1>3. QED
    BY <1>1, <1>2

\* The query is what follows the first mark.
QueryStands(url, address, mark, query) ==
    AddressFrom(url, mark) = address /\ QueryFrom(url, mark) = OrNull(query)

LEMMA QueryOfTarget ==
    ASSUME NEW C, NEW mark \in C, NEW address \in Seq(C), NEW query \in Seq(C), Without(address, {mark}),
           NEW url, url = address \o After1(mark, query)
    PROVE  QueryStands(url, address, mark, query)
  <1>1. CASE query = <<>>
    <2>1. address \o <<>> = address
      OBVIOUS
    <2>2. url = address
      BY <1>1, <2>1, Zenon DEF After1
    <2>3. FirstOf(mark, url) = 0
      <3>1. \A j \in 1 .. Len(url) : url[j] # mark
        BY <2>2 DEF Without
      <3>2. QED
        BY <3>1, FirstOfNone
    <2>4. QED
      BY <1>1, <2>2, <2>3, Zenon DEF QueryStands, AddressFrom, QueryFrom, OrNull
  <1>2. CASE query # <<>>
    <2>1. url = address \o (<<mark>> \o query)
      BY <1>2, Zenon DEF After1
    <2>2. CutFirst(url, mark, address, query)
      BY <2>1, CutAtFirst
    <2>3. Len(address) + 1 # 0
      OBVIOUS
    <2>4. QED
      BY <2>2, <2>3, Zenon DEF QueryStands, CutFirst, AddressFrom, QueryFrom
  <1>3. QED
    BY <1>1, <1>2

\* The resource is what starts with the first separator of paths.
PathStands(address, host, slash, path) ==
    /\ HostFrom(address, slash) = host
    /\ path = <<>> => FirstOf(slash, address) = 0
    /\ path # <<>> => /\ FirstOf(slash, address) = Len(host) + 1
                      /\ SubSeq(address, Len(host) + 1, Len(address)) = <<slash>> \o path

LEMMA PathOfTarget ==
    ASSUME NEW C, NEW slash \in C, NEW host \in Seq(C), NEW path \in Seq(C), Without(host, {slash}),
           NEW address, address = host \o After1(slash, path)
    PROVE  PathStands(address, host, slash, path)
  <1>1. CASE path = <<>>
    <2>1. host \o <<>> = host
      OBVIOUS
    <2>2. address = host
      BY <1>1, <2>1, Zenon DEF After1
    <2>3. FirstOf(slash, address) = 0
      <3>1. \A j \in 1 .. Len(address) : address[j] # slash
        BY <2>2 DEF Without
      <3>2. QED
        BY <3>1, FirstOfNone
    <2>4. QED
      BY <1>1, <2>2, <2>3, Zenon DEF HostFrom, PathStands
  <1>2. CASE path # <<>>
    <2>1. address = host \o (<<slash>> \o path)
      BY <1>2, Zenon DEF After1
    <2>2. CutFirst(address, slash, host, path)
      BY <2>1, CutAtFirst
    <2>3. Len(host) + 1 # 0
      OBVIOUS
    <2>4. QED
      BY <1>2, <2>2, <2>3, Zenon DEF CutFirst, HostFrom, PathStands
  <1>3. QED
    BY <1>1, <1>2

\* A port stands between the domain and the path; a separator in the path is
\* none.
PortStands(address, host, domain, port, at) ==
    IF port = <<>> THEN at = 0
    ELSE /\ at = Len(domain) + 1 /\ at # Len(address)
         /\ Before(address, at) = domain /\ After(host, at) = port

LEMMA PortOfTarget ==
    ASSUME NEW C, NEW colon \in C, NEW slash \in C, colon # slash, NEW domain \in Seq(C), NEW port \in Seq(C),
           NEW path \in Seq(C), Without(domain, {colon}), Without(domain, {slash}), Without(port, {slash}),
           NEW host, host = domain \o After1(colon, port),
           NEW address, address = host \o After1(slash, path)
    PROVE  PortStands(address, host, domain, port, PortFrom(address, colon, slash))
  <1>1. PICK p \in Seq(C), r \in Seq(C) : p = After1(colon, port) /\ r = After1(slash, path)
    BY After1Type, Zenon
  <1>2. host \in Seq(C) /\ Without(host, {slash})
    <2>1. Without(p, {slash})
      BY <1>1, WithoutAfter1
    <2>2. domain \o p \in Seq(C) /\ Without(domain \o p, {slash})
      BY <2>1, WithoutConcat, ConcatProperties
    <2>3. QED
      BY <1>1, <2>2, Zenon
  <1>3. /\ path = <<>> => FirstOf(slash, address) = 0
        /\ path # <<>> => FirstOf(slash, address) = Len(host) + 1
    <2>1. PathStands(address, host, slash, path)
      BY <1>2, PathOfTarget
    <2>2. QED
      BY <2>1, Zenon DEF PathStands
  <1>4. CASE port = <<>>
    <2>1. host = domain
      <3>1. domain \o <<>> = domain
        OBVIOUS
      <3>2. QED
        BY <1>4, <3>1, Zenon DEF After1
    <2>2. CASE path = <<>>
      <3>1. address = domain
        <4>1. domain \o <<>> = domain
          OBVIOUS
        <4>2. QED
          BY <2>1, <2>2, <4>1, Zenon DEF After1
      <3>2. FirstOf(colon, address) = 0
        <4>1. \A j \in 1 .. Len(address) : address[j] # colon
          BY <3>1 DEF Without
        <4>2. QED
          BY <4>1, FirstOfNone
      <3>3. QED
        BY <1>3, <1>4, <2>2, <3>2, Zenon DEF PortFrom, PortStands
    <2>3. CASE path # <<>>
      <3>1. PICK first : first = FirstOf(colon, address)
        OBVIOUS
      <3>2. address \in Seq(C)
        BY <1>1, <1>2, ConcatProperties
      <3>3. first = 0 \/ (first \in 1 .. Len(address) /\ address[first] = colon)
        BY <3>1, <3>2, FirstOfStands, Zenon
      <3>4. PICK m \in Nat : m = Len(host)
        BY <1>2, LenProperties
      <3>5. PICK cut \in Nat : cut = m + 1 /\ FirstOf(slash, address) = cut /\ cut # 0
        BY <1>3, <2>3, <3>4
      <3>6. first # 0 => first > cut
        <4> SUFFICES ASSUME first # 0 PROVE first > cut
          OBVIOUS
        <4>1. first \in Nat /\ address[first] = colon /\ first # 0
          BY <3>3
        <4>2. \A j \in 1 .. m : address[j] # colon
          <5>1. \A j \in 1 .. m : address[j] = host[j]
            BY <1>1, <1>2, <3>4, ConcatProperties
          <5>2. \A j \in 1 .. m : host[j] # colon
            BY <2>1, <3>4 DEF Without
          <5>3. QED
            BY <5>1, <5>2
        <4>3. address[cut] = slash
          <5>1. FirstOf(slash, address) # 0
            BY <3>5
          <5>2. address[FirstOf(slash, address)] = slash
            BY <3>2, <5>1, FirstOfStands
          <5>3. QED
            BY <3>5, <5>2
        <4>4. first # cut
          BY <4>1, <4>3
        <4>5. first \notin 1 .. m
          BY <4>1, <4>2
        <4>6. first >= 1 /\ ~(first <= m) /\ cut = m + 1
          BY <3>5, <4>1, <4>5
        <4>7. QED
          BY ONLY <4>1, <4>4, <4>6, m \in Nat
      <3>7. PortFrom(address, colon, slash) = 0
        <4>1. CASE first = 0
          <5>1. ~(cut < 0)
            OBVIOUS
          <5>2. QED
            BY <3>1, <3>5, <4>1, <5>1, Zenon DEF PortFrom
        <4>2. CASE first # 0
          <5>1. cut < first
            BY <3>3, <3>6, <4>2
          <5>2. QED
            BY <3>1, <3>5, <5>1, Zenon DEF PortFrom
        <4>3. QED
          BY <4>1, <4>2
      <3>8. QED
        BY <1>4, <3>7, Zenon DEF PortStands
    <2>4. QED
      BY <2>2, <2>3
  <1>5. CASE port # <<>>
    <2>1. PICK one \in Seq(C) : one = <<colon>>
      <3>1. <<colon>> \in Seq(C)
        OBVIOUS
      <3>2. QED
        BY <3>1, Zenon
    <2>2. p = one \o port
      BY <1>1, <1>5, <2>1, Zenon DEF After1
    <2>3. PICK left \in Seq(C) : left = port \o r
      BY ConcatProperties
    <2>4. address = domain \o (one \o left)
      <3>1. (domain \o p) \o r = domain \o (p \o r)
        <4>1. Regrouped(domain, p, r)
          BY Regroup
        <4>2. QED
          BY <4>1, Zenon DEF Regrouped
      <3>2. (one \o port) \o r = one \o (port \o r)
        <4>1. Regrouped(one, port, r)
          BY Regroup
        <4>2. QED
          BY <4>1, Zenon DEF Regrouped
      <3>3. QED
        BY <1>1, <2>2, <2>3, <3>1, <3>2, Zenon
    <2>5. CutFirst(address, colon, domain, left)
      BY <2>1, <2>4, CutAtFirst
    <2>6. CutFirst(host, colon, domain, port)
      BY <1>1, <2>1, <2>2, CutAtFirst
    <2>7. PICK d, l, m \in Nat : d = Len(domain) /\ l = Len(left) /\ m = Len(port) /\ m # 0 /\ l # 0
      <3>1. Len(port) \in Nat /\ Len(port) # 0 /\ Len(domain) \in Nat
        BY <1>5, EmptySeq
      <3>2. Len(left) \in Nat /\ Len(left) # 0
        <4>1. Len(left) = Len(port) + Len(r) /\ Len(r) \in Nat
          BY <2>3, ConcatProperties, LenProperties
        <4>2. QED
          BY <3>1, <4>1
      <3>3. QED
        BY <3>1, <3>2
    <2>8. FirstOf(colon, address) = d + 1 /\ Len(address) = (d + 1) + l /\ Len(host) = (d + 1) + m
      BY <2>5, <2>6, <2>7 DEF CutFirst
    <2>9. ~(FirstOf(slash, address) # 0 /\ FirstOf(slash, address) < FirstOf(colon, address))
      <3>1. FirstOf(slash, address) = 0 \/ FirstOf(slash, address) = Len(host) + 1
        BY <1>3
      <3>2. ~(Len(host) + 1 < d + 1)
        BY <2>8
      <3>3. QED
        BY <2>8, <3>1, <3>2
    <2>10. PICK at : at = PortFrom(address, colon, slash)
      OBVIOUS
    <2>11. at = FirstOf(colon, address)
      BY <2>9, <2>10, Zenon DEF PortFrom
    <2>12. at = Len(domain) + 1 /\ at # Len(address)
      BY <2>7, <2>8, <2>11
    <2>13. Before(address, at) = domain /\ After(host, at) = port
      BY <2>5, <2>6, <2>12, Zenon DEF CutFirst
    <2>14. QED
      BY <1>5, <2>10, <2>12, <2>13, Zenon DEF PortStands
  <1>6. QED
    BY <1>4, <1>5

\* What is read of a URL is what it was written from.
TargetStands(url, ssl, colon, slash, mark, domain, port, path, query) ==
    Targeted(url, ssl, colon, slash, mark) =
        [ssl |-> ssl, domain |-> domain, port |-> IF port = <<>> THEN -1 ELSE Atoi(port),
         resource |-> <<slash>> \o path, query |-> OrNull(query)]

LEMMA TargetRead ==
    ASSUME NEW C, NEW colon \in C, NEW slash \in C, NEW mark \in C, colon # slash, colon # mark, slash # mark,
           NEW domain \in Seq(C), NEW port \in Seq(C), NEW path \in Seq(C), NEW query \in Seq(C), NEW ssl,
           Without(domain, {colon}), Without(domain, {slash}), Without(domain, {mark}),
           Without(port, {slash}), Without(port, {mark}), Without(path, {mark}),
           NEW url, url = ((domain \o After1(colon, port)) \o After1(slash, path)) \o After1(mark, query)
    PROVE  TargetStands(url, ssl, colon, slash, mark, domain, port, path, query)
  <1>1. PICK p \in Seq(C), r \in Seq(C) : p = After1(colon, port) /\ r = After1(slash, path)
    BY After1Type, Zenon
  <1>2. PICK host \in Seq(C) : host = domain \o p
    BY ConcatProperties
  <1>3. PICK address \in Seq(C) : address = host \o r
    BY ConcatProperties
  <1>4. url = address \o After1(mark, query)
    BY <1>1, <1>2, <1>3, Zenon
  <1>5. Without(host, {slash}) /\ Without(address, {mark})
    <2>1. Without(p, {slash}) /\ Without(p, {mark}) /\ Without(r, {mark})
      BY <1>1, WithoutAfter1
    <2>2. Without(host, {slash}) /\ Without(host, {mark})
      BY <1>2, <2>1, WithoutConcat
    <2>3. Without(address, {mark})
      BY <1>3, <2>1, <2>2, WithoutConcat
    <2>4. QED
      BY <2>2, <2>3
  <1>6. AddressFrom(url, mark) = address /\ QueryFrom(url, mark) = OrNull(query)
    <2>1. QueryStands(url, address, mark, query)
      BY <1>4, <1>5, QueryOfTarget
    <2>2. QED
      BY <2>1, Zenon DEF QueryStands
  <1>7. /\ HostFrom(address, slash) = host
        /\ path = <<>> => FirstOf(slash, address) = 0
        /\ path # <<>> => /\ FirstOf(slash, address) = Len(host) + 1
                          /\ SubSeq(address, Len(host) + 1, Len(address)) = <<slash>> \o path
    <2>1. address = host \o After1(slash, path)
      BY <1>1, <1>3, Zenon
    <2>2. PathStands(address, host, slash, path)
      BY <1>5, <2>1, PathOfTarget
    <2>3. QED
      BY <2>2, Zenon DEF PathStands
  <1>8. PICK at : at = PortFrom(address, colon, slash)
    OBVIOUS
  <1>9. PortStands(address, host, domain, port, at)
    BY <1>1, <1>2, <1>3, <1>8, PortOfTarget
  <1>10. (IF at = 0 THEN host ELSE Before(address, at)) = domain
    <2>1. CASE port = <<>>
      <3>1. domain \o <<>> = domain
        OBVIOUS
      <3>2. host = domain
        BY <1>1, <1>2, <2>1, <3>1, Zenon DEF After1
      <3>3. QED
        BY <1>9, <2>1, <3>2, Zenon DEF PortStands
    <2>2. CASE port # <<>>
      <3>1. Len(domain) + 1 # 0
        OBVIOUS
      <3>2. QED
        BY <1>9, <2>2, <3>1, Zenon DEF PortStands
    <2>3. QED
      BY <2>1, <2>2
  <1>11. (IF at \in {0, Len(address)} THEN -1 ELSE Atoi(After(host, at))) = IF port = <<>> THEN -1 ELSE Atoi(port)
    <2>1. CASE port = <<>>
      BY <1>9, <2>1, Zenon DEF PortStands
    <2>2. CASE port # <<>>
      <3>1. Len(domain) + 1 # 0
        OBVIOUS
      <3>2. QED
        BY <1>9, <2>2, <3>1, Zenon DEF PortStands
    <2>3. QED
      BY <2>1, <2>2
  <1>12. ~(at # 0 /\ at = Len(address))
    BY <1>9 DEF PortStands
  <1>13. (IF FirstOf(slash, address) = 0 THEN <<slash>>
          ELSE SubSeq(address, FirstOf(slash, address), Len(address))) = <<slash>> \o path
    <2>1. CASE path = <<>>
      <3>1. <<slash>> \o <<>> = <<slash>>
        OBVIOUS
      <3>2. QED
        BY <1>7, <2>1, <3>1, Zenon
    <2>2. CASE path # <<>>
      <3>1. Len(host) + 1 # 0
        OBVIOUS
      <3>2. QED
        BY <1>7, <2>2, <3>1, Zenon
    <2>3. QED
      BY <2>1, <2>2
  <1>14. Targeted(url, ssl, colon, slash, mark) = Addressed(ssl, address, host, at, colon, slash, OrNull(query))
    BY <1>6, <1>7, <1>8, Zenon DEF Targeted
  <1>15. Addressed(ssl, address, host, at, colon, slash, OrNull(query)) =
               [ssl |-> ssl, domain |-> domain, port |-> IF port = <<>> THEN -1 ELSE Atoi(port),
                resource |-> <<slash>> \o path, query |-> OrNull(query)]
    <2> DEFINE c == IF at \in {0, Len(address)} THEN -1 ELSE Atoi(After(host, at))
               d == IF at = 0 THEN host ELSE Before(address, at)
               e == IF at # 0 /\ at = Len(address) THEN Null
                    ELSE IF FirstOf(slash, address) = 0 THEN <<slash>>
                    ELSE SubSeq(address, FirstOf(slash, address), Len(address))
               w == IF port = <<>> THEN -1 ELSE Atoi(port)
               s == <<slash>> \o path
               q == OrNull(query)
    <2>1. Addressed(ssl, address, host, at, colon, slash, OrNull(query)) =
              [ssl |-> ssl, query |-> q, domain |-> d, port |-> c, resource |-> e]
      BY Zenon DEF Addressed
    <2>2. c = w /\ d = domain
      BY <1>10, <1>11, Zenon
    <2>3. e = s
      BY <1>12, <1>13, Zenon
    <2> HIDE DEF c, d, e, w, s, q
    <2>4. [ssl |-> ssl, query |-> q, domain |-> d, port |-> c, resource |-> e] =
          [ssl |-> ssl, domain |-> domain, port |-> w, resource |-> s, query |-> q]
      BY <2>2, <2>3
    <2>5. QED
      BY <2>1, <2>4, Zenon DEF w, s, q
  <1>16. QED
    BY <1>14, <1>15, Zenon DEF TargetStands

-----------------------------------------------------------------------------
\* What a text is without.
LEMMA WithoutOne ==
    ASSUME NEW text, NEW chars, NEW c \in chars, Without(text, chars)
    PROVE  Without(text, {c})
  BY Zenon DEF Without

\* A text is without what its alphabet is without.
LEMMA WithoutOutside ==
    ASSUME NEW A, NEW text \in Seq(A), NEW c, c \notin A
    PROVE  Without(text, {c})
  <1>1. \A i \in 1 .. Len(text) : text[i] \in A
    BY ElementOfSeq
  <1>2. QED
    BY <1>1, Zenon DEF Without

\* A text of digits is without what is no digit.
LEMMA WithoutOther ==
    ASSUME NEW A, NEW D, NEW text \in Seq(A), Without(text, A \ D), NEW c, c \notin D
    PROVE  Without(text, {c})
  <1>1. \A i \in 1 .. Len(text) : text[i] \in A
    BY ElementOfSeq
  <1>2. \A i \in 1 .. Len(text) : text[i] \in D
    BY <1>1, Zenon DEF Without
  <1>3. QED
    BY <1>2, Zenon DEF Without

\* The protocol in front of a URL, and none.
LEMMA NoProtocol ==
    ASSUME NEW D, D \cap Protocols = {}, NEW url \in Seq(D)
    PROVE  Protocol(url) = Null
  <1>1. CASE url = <<>>
    BY <1>1, Zenon DEF Protocol
  <1>2. CASE url # <<>>
    <2>1. 1 \in 1 .. Len(url)
      BY <1>2, EmptySeq
    <2>2. url[1] \in D
      BY <2>1, ElementOfSeq
    <2>3. url[1] \notin Protocols
      BY <2>2, Zenon
    <2>4. QED
      BY <2>3, Zenon DEF Protocol
  <1>3. QED
    BY <1>1, <1>2

Starts(protocol, url) == Protocol(<<protocol>> \o url) = protocol /\ Tail(<<protocol>> \o url) = url

LEMMA ProtocolStarts ==
    ASSUME NEW D, NEW url \in Seq(D), NEW protocol \in Protocols
    PROVE  Starts(protocol, url)
  <1>1. PICK E : E = D \cup Protocols
    OBVIOUS
  <1>2. PICK one \in Seq(E), rest \in Seq(E), p \in E :
            p = protocol /\ one = <<p>> /\ Len(one) = 1 /\ one[1] = p /\ rest = url
    <2>1. protocol \in E /\ url \in Seq(E)
      BY <1>1
    <2>2. PICK p \in E : p = protocol
      BY <2>1, Zenon
    <2>3. <<p>> \in Seq(E) /\ Len(<<p>>) = 1 /\ <<p>>[1] = p
      BY ONLY p \in E
    <2>4. QED
      BY <2>1, <2>2, <2>3, Zenon
  <1>3. PICK n \in Nat : n = Len(rest)
    BY LenProperties
  <1>4. PICK all \in Seq(E) : /\ all = one \o rest /\ Len(all) = 1 + n /\ all[1] = p
                              /\ \A i \in 1 .. n : all[1 + i] = rest[i]
    <2>1. one \o rest \in Seq(E) /\ Len(one \o rest) = Len(one) + Len(rest)
          /\ (one \o rest)[1] = one[1] /\ \A i \in 1 .. n : (one \o rest)[Len(one) + i] = rest[i]
      BY ONLY <1>2, <1>3, ConcatProperties, one \in Seq(E), rest \in Seq(E), n \in Nat
    <2>2. QED
      BY <1>2, <1>3, <2>1, Zenon
  <1>5. all # <<>>
    BY ONLY <1>4, EmptySeq, n \in Nat, all \in Seq(E)
  <1>6. SubSeq(all, 1 + 1, 1 + n) = rest
    <2>1. 1 + n <= Len(all)
      BY ONLY <1>4, n \in Nat
    <2>2. QED
      BY ONLY <1>3, <1>4, <2>1, PartIs, rest \in Seq(E), all \in Seq(E), n \in Nat, 1 \in Nat
  <1>7. Tail(all) = rest
    <2>1. Len(all) = 1 + n /\ 1 + 1 = 2
      BY ONLY <1>4
    <2>2. PICK t : t = Tail(all)
      OBVIOUS
    <2>3. t \in Seq(E) /\ Len(t) = n /\ \A i \in 1 .. n : t[i] = all[1 + i]
      BY ONLY <1>4, <1>5, <2>2, HeadTailProperties, all \in Seq(E), n \in Nat
    <2>4. Len(t) = Len(rest) /\ \A i \in 1 .. Len(t) : t[i] = rest[i]
      BY ONLY <1>3, <1>4, <2>3
    <2>5. t = rest
      BY ONLY <2>3, <2>4, SeqEqual, rest \in Seq(E)
    <2>6. QED
      BY <2>2, <2>5, Zenon
  <1>8. Protocol(all) = p
    BY <1>2, <1>4, <1>5, Zenon DEF Protocol
  <1>9. QED
    BY <1>2, <1>4, <1>7, <1>8, Zenon DEF Starts

\* The address of a client in these terms.
LEMMA WrittenAddressIs ==
    ASSUME NEW domain, NEW port, NEW path, NEW query
    PROVE  WrittenAddress(domain, port, path, query) =
               ((domain \o After1(":", port)) \o After1("/", path)) \o After1("?", query)
  BY Zenon DEF WrittenAddress, After1

\* What is meant by an address that is read over TLS or not.
MeantTarget(ssl, domain, port, path, query) ==
    [ssl |-> ssl, domain |-> domain, port |-> IF port = <<>> THEN -1 ELSE Atoi(port),
     resource |-> <<"/">> \o path, query |-> OrNull(query)]

\* An address is read as it was meant: without a protocol, unless there has to
\* be one, and with one, which says whether TLS is used.
AddressIsRead(written, domain, port, path, query) ==
    /\ CreateRequest(written, FALSE) = MeantTarget(FALSE, domain, port, path, query)
    /\ CreateRequest(written, TRUE) = Null
    /\ \A protocol \in Protocols, force \in BOOLEAN :
          CreateRequest(<<protocol>> \o written, force) =
              MeantTarget(protocol = "https://", domain, port, path, query)

\* The address of a URL gives back what it was written from, whatever protocol
\* stands before it (hs_parser.c:416-559).
THEOREM AddressRoundTrip ==
    ASSUME NEW D, ":" \in D, "/" \in D, "?" \in D, D \cap Protocols = {}, Null \notin Protocols,
           NEW domain \in Seq(D), NEW port \in Seq(D), NEW path \in Seq(D), NEW query \in Seq(D),
           Without(domain, {":", "/", "?"}), Without(port, {"/"}), Without(port, {"?"}), Without(path, {"?"}),
           NEW written, written = WrittenAddress(domain, port, path, query)
    PROVE  written \in Seq(D) /\ AddressIsRead(written, domain, port, path, query)
  <1>1. PICK colon \in D, slash \in D, mark \in D :
            colon = ":" /\ slash = "/" /\ mark = "?" /\ colon # slash /\ colon # mark /\ slash # mark
    BY Zenon
  <1>2. /\ Without(domain, {colon}) /\ Without(domain, {slash}) /\ Without(domain, {mark})
        /\ Without(port, {slash}) /\ Without(port, {mark}) /\ Without(path, {mark})
    <2>1. PICK chars : chars = {":", "/", "?"}
      OBVIOUS
    <2>2. colon \in chars /\ slash \in chars /\ mark \in chars /\ Without(domain, chars)
      BY <1>1, <2>1, Zenon
    <2>3. Without(domain, {colon}) /\ Without(domain, {slash}) /\ Without(domain, {mark})
      BY ONLY <2>2, WithoutOne
    <2>4. QED
      BY <1>1, <2>3, Zenon
  <1>3. written = ((domain \o After1(colon, port)) \o After1(slash, path)) \o After1(mark, query)
    BY <1>1, WrittenAddressIs, Zenon
  <1>4. PICK url \in Seq(D) : url = written
    <2>1. PICK a \in Seq(D), b \in Seq(D), c \in Seq(D) :
              a = After1(colon, port) /\ b = After1(slash, path) /\ c = After1(mark, query)
      BY After1Type, Zenon
    <2>2. ((domain \o a) \o b) \o c \in Seq(D)
      BY ONLY ConcatProperties, domain \in Seq(D), a \in Seq(D), b \in Seq(D), c \in Seq(D)
    <2>3. QED
      BY <1>3, <2>1, <2>2, Zenon
  <1>5. ASSUME NEW ssl PROVE Targeted(url, ssl, colon, slash, mark) = MeantTarget(ssl, domain, port, path, query)
    <2>1. url = ((domain \o After1(colon, port)) \o After1(slash, path)) \o After1(mark, query)
      BY <1>3, <1>4, Zenon
    <2>2. colon # slash /\ colon # mark /\ slash # mark
      BY <1>1, Zenon
    <2>3. TargetStands(url, ssl, colon, slash, mark, domain, port, path, query)
      BY ONLY <1>2, <2>1, <2>2, TargetRead, colon \in D, slash \in D, mark \in D,
              domain \in Seq(D), port \in Seq(D), path \in Seq(D), query \in Seq(D)
    <2>4. QED
      BY <1>1, <2>3, Zenon DEF MeantTarget, TargetStands
  <1>6. Protocol(url) = Null
    BY <1>4, NoProtocol, Zenon
  <1>7. CreateRequest(url, FALSE) = MeantTarget(FALSE, domain, port, path, query)
    <2>1. Null # "https://"
      BY Zenon DEF Protocols
    <2>2. CreateRequest(url, FALSE) = Targeted(url, FALSE, colon, slash, mark)
      <3>1. (Protocol(url) = "https://") = FALSE
        BY <1>6, <2>1, Zenon
      <3>2. CreateRequest(url, FALSE) = CreatedFrom(url, FALSE)
        BY CreateIs, Zenon
      <3>3. CreatedFrom(url, FALSE) = Targeted(url, FALSE, colon, slash, mark)
        BY <1>1, <1>6, <3>1, Zenon DEF CreatedFrom
      <3>4. QED
        BY <3>2, <3>3, Zenon
    <2>3. QED
      BY <1>5, <2>2, Zenon
  <1>8. CreateRequest(url, TRUE) = Null
    BY <1>6, CreateIs, Zenon DEF CreatedFrom
  <1>9. ASSUME NEW protocol \in Protocols, NEW force \in BOOLEAN
        PROVE  CreateRequest(<<protocol>> \o url, force) =
                   MeantTarget(protocol = "https://", domain, port, path, query)
    <2>1. PICK target : target = <<protocol>> \o url
      OBVIOUS
    <2>2. Protocol(target) = protocol /\ Tail(target) = url /\ protocol # Null
      <3>1. Starts(protocol, url)
        BY ProtocolStarts, Zenon
      <3>2. QED
        BY <2>1, <3>1, Zenon DEF Starts
    <2>3. CreateRequest(target, force) = CreatedFrom(target, force)
      BY CreateIs, Zenon
    <2>4. CreatedFrom(target, force) = Targeted(url, protocol = "https://", colon, slash, mark)
      BY <1>1, <2>2, Zenon DEF CreatedFrom
    <2>5. QED
      BY <1>5, <2>1, <2>3, <2>4, Zenon
  <1>10. QED
    BY <1>4, <1>7, <1>8, <1>9, Zenon DEF AddressIsRead

-----------------------------------------------------------------------------
\* Splitting a line into words: the loop of stringfn_split_words, one
\* character at a time, with any blank.
WordState(C) == {s \in [words : Seq(Seq(C)), inWord : BOOLEAN] : s.inWord => s.words # <<>>}

WordAt(words, inWord) == [words |-> words, inWord |-> inWord]

WordRead(s, c, blank) ==
    IF c = blank THEN [s EXCEPT !.inWord = FALSE]
    ELSE [words |-> IF s.inWord THEN Append(Front(s.words), Append(Last(s.words), c))
                    ELSE Append(s.words, <<c>>),
          inWord |-> TRUE]

WordStep(C, blank) == [s \in WordState(C) |-> [c \in C |-> WordRead(s, c, blank)]]

\* A word that grows is the last of the words.
LongerWord(words, c) == Append(Front(words), Append(Last(words), c))

LEMMA LongerWordType ==
    ASSUME NEW C, NEW words \in Seq(Seq(C)), words # <<>>, NEW c \in C
    PROVE  LongerWord(words, c) \in Seq(Seq(C)) /\ LongerWord(words, c) # <<>>
  <1>1. PICK T : T = Seq(C)
    OBVIOUS
  <1>2. words \in Seq(T)
    BY <1>1, Zenon
  <1>3. PICK n \in Nat \ {0} : n = Len(words)
    <2>1. Len(words) \in Nat \ {0}
      BY ONLY <1>2, words # <<>>, EmptySeq
    <2>2. QED
      BY <2>1
  <1>4. PICK last \in Seq(C) : last = Last(words)
    <2>1. words[n] \in T
      BY ONLY <1>2, <1>3, ElementOfSeq, n \in Nat \ {0}
    <2>2. QED
      BY <1>1, <1>3, <2>1, Zenon DEF Last
  <1>5. PICK longer \in T : longer = Append(last, c)
    <2>1. Append(last, c) \in Seq(C)
      BY ONLY last \in Seq(C), c \in C
    <2>2. QED
      BY <1>1, <2>1, Zenon
  <1>6. PICK front \in Seq(T) : front = Front(words)
    <2>1. n - 1 \in 0 .. Len(words)
      BY ONLY <1>3, n \in Nat \ {0}
    <2>2. SubSeq(words, 1, n - 1) \in Seq(T)
      BY ONLY <1>2, <2>1, Beginnings
    <2>3. QED
      BY <1>3, <2>2, Zenon DEF Front
  <1>7. Append(front, longer) \in Seq(T) /\ Append(front, longer) # <<>>
    BY ONLY front \in Seq(T), longer \in T
  <1>8. QED
    BY <1>1, <1>4, <1>5, <1>6, <1>7, Zenon DEF LongerWord

\* A step of the loop stays within its states.
LEMMA WordReadType ==
    ASSUME NEW C, NEW blank, NEW s \in WordState(C), NEW c \in C
    PROVE  WordRead(s, c, blank) \in WordState(C)
  <1>1. s \in [words : Seq(Seq(C)), inWord : BOOLEAN] /\ (s.inWord => s.words # <<>>)
    BY Zenon DEF WordState
  <1>2. PICK T : T = Seq(C)
    OBVIOUS
  <1>3. PICK words \in Seq(T), inWord \in BOOLEAN :
            words = s.words /\ inWord = s.inWord /\ s = WordAt(words, inWord)
    BY ONLY <1>1, <1>2 DEF WordAt
  <1>4. inWord => words # <<>>
    BY <1>1, <1>3, Zenon
  <1>5. ASSUME NEW w \in Seq(T), NEW b \in BOOLEAN, b => w # <<>>
        PROVE  WordAt(w, b) \in WordState(C)
    BY ONLY <1>2, <1>5 DEF WordAt, WordState
  <1>6. CASE c = blank
    <2>1. WordRead(s, c, blank) = WordAt(words, FALSE)
      BY ONLY <1>3, <1>6 DEF WordAt, WordRead
    <2>2. QED
      BY <1>5, <2>1, Zenon
  <1>7. CASE c # blank /\ inWord
    <2>1. WordRead(s, c, blank) = WordAt(LongerWord(words, c), TRUE)
      <3>1. s.words = words /\ s.inWord
        BY <1>3, <1>7, Zenon
      <3>2. QED
        BY <1>7, <3>1, Zenon DEF WordRead, WordAt, LongerWord
    <2>2. LongerWord(words, c) \in Seq(T) /\ LongerWord(words, c) # <<>>
      BY <1>2, <1>4, <1>7, LongerWordType, Zenon
    <2>3. QED
      BY <1>5, <2>1, <2>2, Zenon
  <1>8. CASE c # blank /\ ~inWord
    <2>1. WordRead(s, c, blank) = WordAt(Append(words, <<c>>), TRUE)
      <3>1. s.words = words /\ ~s.inWord
        BY <1>3, <1>8, Zenon
      <3>2. QED
        BY <1>8, <3>1, Zenon DEF WordRead, WordAt
    <2>2. PICK one \in T : one = <<c>>
      <3>1. <<c>> \in Seq(C)
        BY ONLY c \in C
      <3>2. QED
        BY <1>2, <3>1, Zenon
    <2>3. Append(words, one) \in Seq(T) /\ Append(words, one) # <<>>
      BY ONLY words \in Seq(T), one \in T
    <2>4. QED
      BY <1>5, <2>1, <2>2, <2>3, Zenon
  <1>9. QED
    BY <1>6, <1>7, <1>8, Zenon

\* So does its function.
LEMMA WordStepType ==
    ASSUME NEW C, NEW blank
    PROVE  WordStep(C, blank) \in [WordState(C) -> [C -> WordState(C)]]
  BY WordReadType, Zenon DEF WordStep

\* What the characters of a line do.
LEMMA WordStepIs ==
    ASSUME NEW C, NEW blank, NEW s \in WordState(C), NEW c \in C, NEW t, t = WordRead(s, c, blank)
    PROVE  Leads(WordStep(C, blank), s, c, t)
  <1>1. \A x \in WordState(C), d \in C : WordStep(C, blank)[x][d] = WordRead(x, d, blank)
    BY Zenon DEF WordStep
  <1>2. QED
    BY <1>1, Zenon DEF Leads

\* Words that are read are states of the loop.
LEMMA WordAtType ==
    ASSUME NEW C, NEW words \in Seq(Seq(C)), NEW inWord \in BOOLEAN, inWord => words # <<>>
    PROVE  WordAt(words, inWord) \in WordState(C)
  <1>1. PICK T : T = Seq(C)
    OBVIOUS
  <1>2. words \in Seq(T)
    BY <1>1, Zenon
  <1>3. QED
    BY ONLY <1>1, <1>2, inWord \in BOOLEAN, inWord => words # <<>> DEF WordAt, WordState

\* A blank ends a word; another symbol starts a word, or goes on with it.
LEMMA WordEnds ==
    ASSUME NEW C, NEW blank \in C, NEW words \in Seq(Seq(C)), words # <<>>
    PROVE  Leads(WordStep(C, blank), WordAt(words, TRUE), blank, WordAt(words, FALSE))
  <1>1. WordAt(words, TRUE) \in WordState(C)
    BY WordAtType
  <1>2. WordAt(words, FALSE) = WordRead(WordAt(words, TRUE), blank, blank)
    BY DEF WordRead, WordAt
  <1>3. QED
    BY <1>1, <1>2, WordStepIs, Zenon

\* Another symbol starts a word after a blank.
LEMMA WordStarts ==
    ASSUME NEW C, NEW blank \in C, NEW words \in Seq(Seq(C)), NEW c \in C, c # blank,
           NEW more, more = Append(words, <<c>>)
    PROVE  Leads(WordStep(C, blank), WordAt(words, FALSE), c, WordAt(more, TRUE))
  <1>1. WordAt(words, FALSE) \in WordState(C)
    BY WordAtType
  <1>2. PICK s : s = WordAt(words, FALSE)
    OBVIOUS
  <1>3. s.words = words /\ s.inWord = FALSE
    BY <1>2 DEF WordAt
  <1>4. WordAt(more, TRUE) = WordRead(s, c, blank)
    BY <1>3, Zenon DEF WordRead, WordAt
  <1>5. QED
    BY <1>1, <1>2, <1>4, WordStepIs, Zenon

\* It goes on with the word otherwise.
LEMMA WordGoesOn ==
    ASSUME NEW C, NEW blank \in C, NEW words \in Seq(Seq(C)), NEW word \in Seq(C), NEW c \in C, c # blank,
           NEW some, some = Append(words, word), NEW more, more = Append(words, Append(word, c))
    PROVE  Leads(WordStep(C, blank), WordAt(some, TRUE), c, WordAt(more, TRUE))
  <1>1. PICK T : T = Seq(C)
    OBVIOUS
  <1>2. words \in Seq(T) /\ word \in T
    BY <1>1, Zenon
  <1>3. PICK n \in Nat : n = Len(words)
    BY <1>2, LenProperties
  <1>4. some \in Seq(T) /\ Len(some) = n + 1 /\ some[n + 1] = word /\ (\A i \in 1 .. n : some[i] = words[i])
        /\ some # <<>>
    <2>1. some \in Seq(T) /\ Len(some) = n + 1 /\ some[n + 1] = word /\ \A i \in 1 .. n : some[i] = words[i]
      BY ONLY <1>2, <1>3, some = Append(words, word), n \in Nat, AppendProperties
    <2>2. some # <<>>
      BY ONLY <2>1, n \in Nat, EmptySeq
    <2>3. QED
      BY <2>1, <2>2
  <1>5. Last(some) = word
    BY <1>4, Zenon DEF Last
  <1>6. Front(some) = words
    <2>1. 0 + n <= Len(some) /\ \A i \in 1 .. n : some[0 + i] = words[i]
      BY ONLY <1>4, n \in Nat
    <2>2. SubSeq(some, 0 + 1, 0 + n) = words
      BY ONLY <1>2, <1>3, <1>4, <2>1, PartIs, 0 \in Nat, n \in Nat
    <2>3. 0 + 1 = 1 /\ 0 + n = n /\ Len(some) - 1 = n
      BY ONLY <1>4, n \in Nat
    <2>4. QED
      BY <2>2, <2>3, Zenon DEF Front
  <1>7. WordAt(some, TRUE) \in WordState(C)
    <2>1. TRUE \in BOOLEAN /\ some \in Seq(Seq(C)) /\ some # <<>>
      BY <1>1, <1>4, Zenon
    <2>2. QED
      BY <2>1, WordAtType, Zenon
  <1>8. PICK s : s = WordAt(some, TRUE)
    OBVIOUS
  <1>9. s.words = some /\ s.inWord = TRUE
    BY <1>8 DEF WordAt
  <1>10. WordAt(more, TRUE) = WordRead(s, c, blank)
    BY <1>5, <1>6, <1>9, Zenon DEF WordRead, WordAt
  <1>11. QED
    BY <1>7, <1>8, <1>10, WordStepIs, Zenon

\* A text without blanks is one word.
Adds(step, text, words) == Runs(step, text, WordAt(words, FALSE), WordAt(Append(words, text), TRUE))

LEMMA WordAdds ==
    ASSUME NEW C, NEW blank \in C, NEW words \in Seq(Seq(C)), NEW text \in Seq(C), text # <<>>,
           \A i \in 1 .. Len(text) : text[i] # blank
    PROVE  Adds(WordStep(C, blank), text, words)
  <1> DEFINE step == WordStep(C, blank)
  <1>1. PICK n \in Nat \ {0} : n = Len(text)
    <2>1. Len(text) \in Nat \ {0}
      BY EmptySeq
    <2>2. QED
      BY <2>1
  <1>2. PICK f : f = [i \in 0 .. n |-> IF i = 0 THEN WordAt(words, FALSE)
                                        ELSE WordAt(Append(words, SubSeq(text, 1, i)), TRUE)]
    OBVIOUS
  <1>3. \A i \in 0 .. n : f[i] = IF i = 0 THEN WordAt(words, FALSE)
                                 ELSE WordAt(Append(words, SubSeq(text, 1, i)), TRUE)
    BY <1>2, Zenon
  <1>4. 0 \in 0 .. n /\ n \in 0 .. n /\ n # 0
    OBVIOUS
  <1>5. f[0] = WordAt(words, FALSE) /\ f[n] = WordAt(Append(words, text), TRUE)
    <2>1. SubSeq(text, 1, n) = text
      BY <1>1, Beginnings, Zenon
    <2>2. QED
      BY <1>3, <1>4, <2>1, Zenon
  <1>6. ASSUME NEW i \in 1 .. n PROVE f[i] = step[f[i - 1]][text[i]]
    <2>1. i \in 0 .. n /\ i - 1 \in 0 .. n /\ text[i] \in C /\ i \in 1 .. Len(text) /\ i # 0
      BY <1>1, ElementOfSeq
    <2>2. PICK b \in Seq(C), c \in C : b = SubSeq(text, 1, i - 1) /\ c = text[i] /\ c # blank
      <3>1. SubSeq(text, 1, i - 1) \in Seq(C)
        BY <1>1, <2>1, Beginnings, Zenon
      <3>2. QED
        BY <2>1, <3>1, Zenon
    <2>3. SubSeq(text, 1, i) = Append(b, c)
      BY <2>1, <2>2, Beginnings, Zenon
    <2>4. f[i] = WordAt(Append(words, Append(b, c)), TRUE)
      BY <1>3, <2>1, <2>3, Zenon
    <2>5. CASE i - 1 = 0
      <3>1. Append(b, c) = <<c>>
        <4>1. b = <<>>
          BY <2>2, <2>5, Beginnings, Zenon
        <4>2. Append(<<>>, c) = <<c>>
          OBVIOUS
        <4>3. QED
          BY <4>1, <4>2, Zenon
      <3>2. f[i - 1] = WordAt(words, FALSE)
        BY <1>3, <1>4, <2>5, Zenon
      <3>3. PICK more : more = Append(words, <<c>>)
        OBVIOUS
      <3>4. Leads(step, WordAt(words, FALSE), c, WordAt(more, TRUE))
        BY <2>2, <3>3, WordStarts, Zenon
      <3>5. QED
        BY <2>2, <2>4, <3>1, <3>2, <3>3, <3>4, Zenon DEF Leads
    <2>6. CASE i - 1 # 0
      <3>1. PICK some, more : some = Append(words, b) /\ more = Append(words, Append(b, c))
        OBVIOUS
      <3>2. f[i - 1] = WordAt(some, TRUE)
        BY <1>3, <2>1, <2>2, <2>6, <3>1, Zenon
      <3>3. Leads(step, WordAt(some, TRUE), c, WordAt(more, TRUE))
        BY <2>2, <3>1, WordGoesOn, Zenon
      <3>4. QED
        BY <2>2, <2>4, <3>1, <3>2, <3>3, Zenon DEF Leads
    <2>7. QED
      BY <2>5, <2>6
  <1>7. Runs(step, text, WordAt(words, FALSE), WordAt(Append(words, text), TRUE))
    BY <1>1, <1>5, <1>6, Zenon DEF Runs
  <1>8. QED
    BY <1>7, Zenon DEF Adds

\* The loop of Words, for any blank.
IsWordLoop(after, line, blank) ==
    after = [i \in 0 .. Len(line) |->
                IF i = 0 THEN [words |-> <<>>, inWord |-> FALSE]
                ELSE WordRead(after[i - 1], line[i], blank)]

WordLoop(line, blank) == CHOOSE after : IsWordLoop(after, line, blank)

LEMMA WordsAreLoop ==
    ASSUME NEW line
    PROVE  Words(line) = WordLoop(line, " ")[Len(line)].words
  BY Zenon DEF Words, WordLoop, IsWordLoop, WordRead

\* The loop ends in the state that the line is read to.
LEMMA WordLoopEnds ==
    ASSUME NEW C, NEW blank \in C, NEW line \in Seq(C), NEW t,
           Runs(WordStep(C, blank), line, WordAt(<<>>, FALSE), t)
    PROVE  WordLoop(line, blank)[Len(line)] = t
  <1> DEFINE S == WordState(C)
             step == WordStep(C, blank)
             start == WordAt(<<>>, FALSE)
  <1>1. PICK n \in Nat : n = Len(line)
    BY LenProperties
  <1>2. start \in S
    <2>1. <<>> \in Seq(Seq(C)) /\ FALSE \in BOOLEAN
      BY EmptySeq
    <2>2. QED
      BY <2>1, WordAtType, Zenon
  <1>3. step \in [S -> [C -> S]]
    BY WordStepType
  <1>4. PICK f \in [0 .. n -> S] : f[0] = start /\ f[n] = t /\ \A i \in 1 .. n : f[i] = step[f[i - 1]][line[i]]
    <2> HIDE DEF S, step, start
    <2>1. Runs(step, line, start, t)
      BY DEF step, start
    <2>2. PICK f : Traces(f, S, step, line, start, t)
      BY <1>2, <1>3, <2>1, RunsTyped, Zenon
    <2>3. QED
      BY <1>1, <2>2, Zenon DEF Traces
  <1>5. \A i \in 1 .. n : f[i] = WordRead(f[i - 1], line[i], blank)
    <2> SUFFICES ASSUME NEW i \in 1 .. n PROVE f[i] = WordRead(f[i - 1], line[i], blank)
      OBVIOUS
    <2>1. i - 1 \in 0 .. n
      OBVIOUS
    <2>2. f[i - 1] \in S /\ line[i] \in C
      BY <1>1, <2>1, ElementOfSeq
    <2>3. step[f[i - 1]][line[i]] = WordRead(f[i - 1], line[i], blank)
      BY <2>2, Zenon DEF WordStep
    <2>4. QED
      BY <1>4, <2>3, Zenon
  <1>6. PICK h : h = [i \in 0 .. n |-> IF i = 0 THEN start ELSE WordRead(f[i - 1], line[i], blank)]
    OBVIOUS
  <1>7. \A i \in 0 .. n : h[i] = f[i]
    <2> SUFFICES ASSUME NEW i \in 0 .. n PROVE h[i] = f[i]
      OBVIOUS
    <2>1. CASE i = 0
      BY <1>4, <1>6, <2>1, Zenon
    <2>2. CASE i # 0
      <3>1. i \in 1 .. n
        BY <2>2
      <3>2. QED
        BY <1>5, <1>6, <2>2, <3>1, Zenon
    <2>3. QED
      BY <2>1, <2>2
  <1>8. h = f
    <2>1. DOMAIN h = 0 .. n /\ h = [i \in DOMAIN h |-> h[i]]
      BY <1>6, Zenon
    <2>2. h = [i \in 0 .. n |-> h[i]] /\ f = [i \in 0 .. n |-> f[i]]
      BY <2>1, Zenon
    <2>3. QED
      BY <1>7, <2>2, Zenon
  <1>9. IsWordLoop(f, line, blank)
    BY <1>1, <1>6, <1>8, Zenon DEF IsWordLoop, WordAt
  <1>10. PICK g : g = WordLoop(line, blank)
    OBVIOUS
  <1>11. IsWordLoop(g, line, blank)
    BY <1>9, <1>10, Zenon DEF WordLoop
  <1>12. g[0] = f[0] /\ \A i \in 1 .. n : g[i] = WordRead(g[i - 1], line[i], blank)
    <2>1. \A i \in 0 .. n : g[i] = IF i = 0 THEN start ELSE WordRead(g[i - 1], line[i], blank)
      BY <1>1, <1>11, Zenon DEF IsWordLoop, WordAt
    <2>2. 0 \in 0 .. n /\ \A i \in 1 .. n : i \in 0 .. n /\ i # 0
      OBVIOUS
    <2>3. QED
      BY <1>4, <2>1, <2>2, Zenon
  <1>13. g[n] = f[n]
    <2>1. \A i \in 1 .. n : g[i - 1] = f[i - 1] => g[i] = f[i]
      BY <1>5, <1>12, Zenon
    <2>2. QED
      BY ONLY <1>12, <2>1, SameValues, n \in Nat
  <1>14. QED
    BY <1>1, <1>4, <1>10, <1>13, Zenon

\* A word of one symbol after a blank.
LEMMA WordOfOne ==
    ASSUME NEW C, NEW blank \in C, NEW words \in Seq(Seq(C)), words # <<>>, NEW c \in C, c # blank,
           NEW more, more = Append(words, <<c>>)
    PROVE  Runs(WordStep(C, blank), <<blank, c>>, WordAt(words, TRUE), WordAt(more, TRUE))
  <1>1. Leads(WordStep(C, blank), WordAt(words, TRUE), blank, WordAt(words, FALSE))
    BY WordEnds
  <1>2. Leads(WordStep(C, blank), WordAt(words, FALSE), c, WordAt(more, TRUE))
    BY WordStarts
  <1>3. QED
    BY <1>1, <1>2, RunsTwo

\* The words of a request line, and of one with a word more.
ThreeWords(words, C, get, text) ==
    words \in Seq(Seq(C)) /\ Len(words) = 3 /\ words[1] = <<get>> /\ words[2] = text

LEMMA LineOfThree ==
    ASSUME NEW C, NEW blank \in C, NEW get \in C, NEW http \in C, get # blank, http # blank,
           NEW text \in Seq(C), text # <<>>, \A i \in 1 .. Len(text) : text[i] # blank,
           NEW line, line = (<<get, blank>> \o text) \o <<blank, http>>
    PROVE  /\ line \in Seq(C)
           /\ \E words : ThreeWords(words, C, get, text)
                          /\ Runs(WordStep(C, blank), line, WordAt(<<>>, FALSE), WordAt(words, TRUE))
  <1> DEFINE step == WordStep(C, blank)
  <1>1. PICK T : T = Seq(C)
    OBVIOUS
  <1>2. PICK one \in T, last \in T : one = <<get>> /\ last = <<http>>
    <2>1. <<get>> \in Seq(C) /\ <<http>> \in Seq(C)
      BY ONLY get \in C, http \in C
    <2>2. QED
      BY <1>1, <2>1, Zenon
  <1>3. PICK none \in Seq(T) : none = <<>> /\ Len(none) = 0
    BY EmptySeq
  <1>4. text \in T
    BY <1>1, Zenon
  <1>5. PICK first \in Seq(T) : first = Append(none, one) /\ Len(first) = 1 /\ first[1] = one
    <2>1. Append(none, one) \in Seq(T) /\ Len(Append(none, one)) = 1 /\ Append(none, one)[1] = one
      BY ONLY <1>3, AppendProperties, none \in Seq(T), one \in T
    <2>2. QED
      BY <2>1, Zenon
  <1>6. PICK some \in Seq(T) : some = Append(first, text) /\ Len(some) = 2 /\ some[1] = one /\ some[2] = text
    <2>1. Append(first, text) \in Seq(T) /\ Len(Append(first, text)) = 2
          /\ Append(first, text)[1] = one /\ Append(first, text)[2] = text
      BY ONLY <1>4, <1>5, AppendProperties, first \in Seq(T)
    <2>2. QED
      BY <2>1, Zenon
  <1>7. PICK words \in Seq(T) : words = Append(some, last) /\ Len(words) = 3 /\ words[1] = one /\ words[2] = text
    <2>1. Append(some, last) \in Seq(T) /\ Len(Append(some, last)) = 3
          /\ Append(some, last)[1] = one /\ Append(some, last)[2] = text
      BY ONLY <1>6, AppendProperties, some \in Seq(T), last \in T
    <2>2. QED
      BY <2>1, Zenon
  <1>8. first # <<>> /\ some # <<>>
    BY ONLY <1>5, <1>6, EmptySeq
  <1>9. none \in Seq(Seq(C)) /\ first \in Seq(Seq(C)) /\ some \in Seq(Seq(C)) /\ words \in Seq(Seq(C))
    BY <1>1, Zenon
  <1>10. Runs(step, <<get, blank>>, WordAt(none, FALSE), WordAt(first, FALSE))
    <2>1. Leads(step, WordAt(none, FALSE), get, WordAt(first, TRUE))
      BY <1>2, <1>5, <1>9, WordStarts, Zenon
    <2>2. Leads(step, WordAt(first, TRUE), blank, WordAt(first, FALSE))
      BY <1>8, <1>9, WordEnds, Zenon
    <2>3. QED
      BY <2>1, <2>2, RunsTwo, Zenon
  <1>11. Runs(step, text, WordAt(first, FALSE), WordAt(some, TRUE))
    <2>1. Adds(step, text, first)
      BY <1>9, WordAdds, Zenon
    <2>2. QED
      BY <1>6, <2>1, Zenon DEF Adds
  <1>12. Runs(step, <<blank, http>>, WordAt(some, TRUE), WordAt(words, TRUE))
    <2>1. words = Append(some, <<http>>)
      BY <1>2, <1>7, Zenon
    <2>2. QED
      BY <1>8, <1>9, <2>1, WordOfOne, Zenon
  <1>13. PICK a \in Seq(C), c \in Seq(C) : a = <<get, blank>> /\ c = <<blank, http>>
    BY PairOfSymbols, Zenon
  <1>14. PICK s, t, u, v : /\ s = WordAt(none, FALSE) /\ t = WordAt(first, FALSE)
                          /\ u = WordAt(some, TRUE) /\ v = WordAt(words, TRUE)
    OBVIOUS
  <1>15. Runs(step, a, s, t) /\ Runs(step, text, t, u) /\ Runs(step, c, u, v)
    BY <1>10, <1>11, <1>12, <1>13, <1>14, Zenon
  <1> HIDE DEF step
  <1>16. PICK b \in Seq(C) : b = a \o text
    BY ConcatProperties
  <1>17. Runs(step, b, s, u)
    BY ONLY <1>15, <1>16, RunsConcat, a \in Seq(C), text \in Seq(C)
  <1>18. Runs(step, b \o c, s, v)
    BY ONLY <1>15, <1>17, RunsConcat, b \in Seq(C), c \in Seq(C)
  <1>19. line = b \o c
    BY <1>13, <1>16, Zenon
  <1>20. line \in Seq(C)
    BY <1>19, ConcatProperties
  <1>21. ThreeWords(words, C, get, text)
    BY <1>2, <1>7, <1>9, Zenon DEF ThreeWords
  <1>22. Runs(WordStep(C, blank), line, WordAt(<<>>, FALSE), WordAt(words, TRUE))
    BY <1>3, <1>14, <1>18, <1>19, Zenon DEF step
  <1>23. QED
    BY <1>20, <1>21, <1>22, Zenon

\* A word more makes four of three.
LEMMA FourOfThree ==
    ASSUME NEW T, NEW words \in Seq(T), Len(words) = 3, NEW one \in T, NEW more, more = Append(words, one)
    PROVE  Len(more) = 4 /\ words # <<>>
  <1>1. Len(more) = 4
    <2>1. Len(Append(words, one)) = Len(words) + 1
      BY AppendProperties
    <2>2. Len(Append(words, one)) = 4
      BY <2>1
    <2>3. QED
      BY <2>2, Zenon
  <1>2. words # <<>>
    BY EmptySeq
  <1>3. QED
    BY <1>1, <1>2

\* A request line is read as it was meant, and refused with a word more.
LineIsRead(line, C, method, target) ==
    /\ ParseRequestLine(line) = [method |-> method, target |-> CreateRequest(target, FALSE)]
    /\ \A word \in C : word # " " => ParseRequestLine(line \o <<" ", word>>) = Null

\* A request line gives back its method and its target, and one with a word
\* more is refused (hs_parser.c:21-44).
THEOREM RequestLineRoundTrip ==
    ASSUME NEW C, " " \in C, NEW method \in Methods, method \in C,
           NEW version \in C, version # " ", NEW target \in Seq(C), target # <<>>, Without(target, {" "}),
           NEW line, line = <<method, " ">> \o target \o <<" ", version>>
    PROVE  LineIsRead(line, C, method, target)
  <1>1. PICK blank \in C : blank = " "
    BY Zenon
  <1>2. method # blank /\ version # blank /\ \A i \in 1 .. Len(target) : target[i] # blank
    BY <1>1, Zenon DEF Methods, Without
  <1>3. line = (<<method, blank>> \o target) \o <<blank, version>>
    BY <1>1, Zenon
  <1>4. line \in Seq(C)
    BY ONLY <1>2, <1>3, LineOfThree, blank \in C, method \in C, version \in C, target \in Seq(C), target # <<>>
  <1>5. PICK words : ThreeWords(words, C, method, target)
                     /\ Runs(WordStep(C, blank), line, WordAt(<<>>, FALSE), WordAt(words, TRUE))
    BY ONLY <1>2, <1>3, LineOfThree, blank \in C, method \in C, version \in C, target \in Seq(C), target # <<>>
  <1>6. words \in Seq(Seq(C)) /\ Len(words) = 3 /\ words[1] = <<method>> /\ words[2] = target
    BY <1>5, Zenon DEF ThreeWords
  <1>7. Words(line) = words
    <2>1. WordLoop(line, blank)[Len(line)] = WordAt(words, TRUE)
      BY <1>4, <1>5, WordLoopEnds, Zenon
    <2>2. WordAt(words, TRUE).words = words
      BY DEF WordAt
    <2>3. QED
      BY <1>1, <2>1, <2>2, WordsAreLoop, Zenon
  <1>8. ParseRequestLine(line) = [method |-> method, target |-> CreateRequest(target, FALSE)]
    <2>1. Method(words[1]) = method
      <3>1. Len(<<method>>) = 1 /\ <<method>>[1] = method
        OBVIOUS
      <3>2. QED
        BY <1>6, <3>1, Zenon DEF Method
    <2>2. QED
      BY <1>6, <1>7, <2>1, Zenon DEF ParseRequestLine
  <1>9. ASSUME NEW word \in C, word # " " PROVE ParseRequestLine(line \o <<" ", word>>) = Null
    <2>1. PICK more : more = Append(words, <<word>>)
      OBVIOUS
    <2>2. PICK T : T = Seq(C)
      OBVIOUS
    <2>3. PICK one \in T : one = <<word>>
      <3>1. <<word>> \in Seq(C)
        BY ONLY word \in C
      <3>2. QED
        BY <2>2, <3>1, Zenon
    <2>4. Len(more) = 4 /\ words # <<>>
      <3>1. words \in Seq(T) /\ Len(words) = 3
        BY <1>6, <2>2, Zenon
      <3>2. more = Append(words, one)
        BY <2>1, <2>3, Zenon
      <3>3. Len(more) = 4 /\ words # <<>>
        BY <3>1, <3>2, FourOfThree, Zenon
      <3>4. QED
        BY <3>3
    <2>5. word # blank
      BY <1>1, <1>9, Zenon
    <2>6. Runs(WordStep(C, blank), <<blank, word>>, WordAt(words, TRUE), WordAt(more, TRUE))
      BY <1>6, <2>1, <2>4, <2>5, WordOfOne, Zenon
    <2>7. PICK e \in Seq(C) : e = <<blank, word>>
      BY PairOfSymbols, Zenon
    <2>8. PICK s, t, u, step : s = WordAt(<<>>, FALSE) /\ t = WordAt(words, TRUE) /\ u = WordAt(more, TRUE)
                              /\ step = WordStep(C, blank)
      OBVIOUS
    <2>9. Runs(step, line, s, t) /\ Runs(step, e, t, u)
      BY <1>5, <2>6, <2>7, <2>8, Zenon
    <2>10. PICK longer \in Seq(C) : longer = line \o e
      BY <1>4, ConcatProperties
    <2>11. Runs(step, longer, s, u)
      BY ONLY <1>4, <2>9, <2>10, RunsConcat, e \in Seq(C)
    <2>12. WordLoop(longer, blank)[Len(longer)] = WordAt(more, TRUE)
      BY <2>8, <2>11, WordLoopEnds, Zenon
    <2>13. WordAt(more, TRUE).words = more
      BY DEF WordAt
    <2>14. Words(longer) = more
      BY <1>1, <2>12, <2>13, WordsAreLoop, Zenon
    <2>15. 4 # 3
      BY ONLY <2>4
    <2>16. ParseRequestLine(longer) = Null
      BY <2>4, <2>14, <2>15, Zenon DEF ParseRequestLine
    <2>17. QED
      BY <1>1, <2>7, <2>10, <2>16, Zenon
  <1>10. QED
    BY <1>8, <1>9, Zenon DEF LineIsRead

-----------------------------------------------------------------------------
\* The address of every behaviour, and the pairs of its query, come back as
\* they were meant.
MeantOver(domain, port, path, query) ==
    /\ MeantAddress(domain, port, path, query) = MeantTarget(FALSE, domain, port, path, query)
    /\ \A ssl : [MeantAddress(domain, port, path, query) EXCEPT !.ssl = ssl] =
                    MeantTarget(ssl, domain, port, path, query)

LEMMA MeantIsTarget ==
    ASSUME NEW domain, NEW port, NEW path, NEW query
    PROVE  MeantOver(domain, port, path, query)
  <1>1. MeantAddress(domain, port, path, query) = MeantTarget(FALSE, domain, port, path, query)
    BY Zenon DEF MeantAddress, MeantTarget
  <1>2. ASSUME NEW ssl
        PROVE  [MeantTarget(FALSE, domain, port, path, query) EXCEPT !.ssl = ssl] =
                   MeantTarget(ssl, domain, port, path, query)
    <2> DEFINE p == IF port = <<>> THEN -1 ELSE Atoi(port)
               r == <<"/">> \o path
               q == OrNull(query)
    <2>1. \A b : MeantTarget(b, domain, port, path, query) =
                     [ssl |-> b, domain |-> domain, port |-> p, resource |-> r, query |-> q]
      BY Zenon DEF MeantTarget
    <2> HIDE DEF p, r, q
    <2>2. [[ssl |-> FALSE, domain |-> domain, port |-> p, resource |-> r, query |-> q] EXCEPT !.ssl = ssl] =
          [ssl |-> ssl, domain |-> domain, port |-> p, resource |-> r, query |-> q]
      OBVIOUS
    <2>3. QED
      BY <2>1, <2>2, Zenon
  <1>3. QED
    BY <1>1, <1>2, Zenon DEF MeantOver

\* The parts of an address, of an input of this subject.
LEMMA AddressMeant ==
    ASSUME WellFormed, subject = "address",
           NEW written, written = WrittenAddress(parts[1], parts[2], parts[3], parts[4]),
           NEW meant, meant = MeantAddress(parts[1], parts[2], parts[3], parts[4]),
           NEW line, line = <<"GET", " ">> \o written \o <<" ", "HTTP/1.1">>,
           written # <<>>, Without(parts[1], {":", "/", "?"}),
           Without(parts[2], Alphabet[subject] \ DOMAIN Digits), Without(parts[3], {"?"})
    PROVE  /\ CreateRequest(written, FALSE) = meant
           /\ ParseRequestLine(line) = [method |-> "GET", target |-> meant]
           /\ \A word \in Alphabet[subject] : ParseRequestLine(line \o <<" ", word>>) = Null
           /\ CreateRequest(written, TRUE) = Null
           /\ \A protocol \in Protocols :
                 CreateRequest(<<protocol>> \o written, TRUE) = [meant EXCEPT !.ssl = (protocol = "https://")]
  <1>1. PICK A : A = Alphabet["address"]
    OBVIOUS
  <1>2. "address" \in Subjects /\ Len(parts) = 4
    BY Zenon DEF WellFormed, PartsOf
  <1>3. A \cap ({" "} \cup Protocols) = {} /\ DOMAIN Digits \cap {":", "/", "?"} = {}
    BY <1>1, <1>2, AddressAssumption, Zenon
  <1>4. PICK D : D = A \cup {":", "/", "?"}
    OBVIOUS
  <1>5. \A i \in 1 .. 4 : parts[i] \in Seq(A)
    BY <1>1, <1>2, Zenon DEF WellFormed
  <1>6. PICK domain \in Seq(A), port \in Seq(A), path \in Seq(A), query \in Seq(A) :
            domain = parts[1] /\ port = parts[2] /\ path = parts[3] /\ query = parts[4]
    <2>1. 1 \in 1 .. 4 /\ 2 \in 1 .. 4 /\ 3 \in 1 .. 4 /\ 4 \in 1 .. 4
      BY ONLY 4 \in Nat
    <2>2. QED
      BY <1>5, <2>1, Zenon
  <1>7. domain \in Seq(D) /\ port \in Seq(D) /\ path \in Seq(D) /\ query \in Seq(D)
    <2>1. A \subseteq D
      BY <1>4, Zenon
    <2>2. QED
      BY ONLY <2>1, WiderSeq, domain \in Seq(A), port \in Seq(A), path \in Seq(A), query \in Seq(A)
  <1>8. ":" \in D /\ "/" \in D /\ "?" \in D /\ " " \notin D /\ D \cap Protocols = {}
    BY <1>3, <1>4, Zenon DEF Protocols
  <1>9. Null \notin Protocols
    BY NullAssumption, Zenon DEF Symbols
  <1>10. Without(domain, {":", "/", "?"}) /\ Without(port, {"/"}) /\ Without(port, {"?"}) /\ Without(path, {"?"})
    <2>1. Without(port, A \ DOMAIN Digits)
      BY <1>1, <1>6, Zenon
    <2>2. PICK digits, slash, mark : digits = DOMAIN Digits /\ slash = "/" /\ mark = "?"
                                     /\ slash \notin digits /\ mark \notin digits
      BY <1>3, Zenon
    <2>3. Without(port, {slash}) /\ Without(port, {mark})
      BY <2>1, <2>2, WithoutOther, Zenon
    <2>4. QED
      BY <1>6, <2>2, <2>3, Zenon
  <1>11. written = WrittenAddress(domain, port, path, query)
    BY <1>6, Zenon
  <1>12. written \in Seq(D) /\ AddressIsRead(written, domain, port, path, query)
    BY <1>7, <1>8, <1>9, <1>10, <1>11, AddressRoundTrip, Zenon
  <1>13. meant = MeantTarget(FALSE, domain, port, path, query)
         /\ \A ssl : [meant EXCEPT !.ssl = ssl] = MeantTarget(ssl, domain, port, path, query)
    <2>1. MeantOver(domain, port, path, query)
      BY MeantIsTarget, Zenon
    <2>2. PICK m : m = MeantAddress(domain, port, path, query)
      OBVIOUS
    <2>3. m = MeantTarget(FALSE, domain, port, path, query)
          /\ \A ssl : [m EXCEPT !.ssl = ssl] = MeantTarget(ssl, domain, port, path, query)
      BY <2>1, <2>2, Zenon DEF MeantOver
    <2>4. meant = m
      BY <1>6, <2>2, Zenon
    <2>5. QED
      BY <2>3, <2>4, Zenon
  <1>14. /\ ParseRequestLine(line) = [method |-> "GET", target |-> CreateRequest(written, FALSE)]
         /\ \A word \in A : ParseRequestLine(line \o <<" ", word>>) = Null
    <2>1. PICK C : C = D \cup {" ", "GET", "HTTP/1.1"}
      OBVIOUS
    <2>2. " " \in C /\ "GET" \in C /\ "HTTP/1.1" \in C /\ "GET" \in Methods /\ "HTTP/1.1" # " "
          /\ D \subseteq C /\ A \subseteq C
      BY <1>4, <2>1, Zenon DEF Methods
    <2>3. written \in Seq(C)
      BY <1>12, <2>2, WiderSeq, Zenon
    <2>4. Without(written, {" "})
      BY <1>8, <1>12, WithoutOutside, Zenon
    <2>5. LineIsRead(line, C, "GET", written)
      BY <2>2, <2>3, <2>4, RequestLineRoundTrip, Zenon
    <2>6. " " \notin A
      BY <1>3, Zenon
    <2>7. QED
      BY <2>2, <2>5, <2>6, Zenon DEF LineIsRead
  <1>15. QED
    BY <1>1, <1>12, <1>13, <1>14, Zenon DEF AddressIsRead

\* The pairs of a query, of an input of this subject.
LEMMA QueryMeant ==
    ASSUME WellFormed, subject = "query",
           \A i \in 1 .. Len(Meant) : Without(Meant[i].key, {"=", "&"}) /\ Without(Meant[i].value, {"&"})
    PROVE  ParseQuery(Written(Meant, <<"&">>)) = QueryPairs
  <1>1. Len(parts) = 4
    BY Zenon DEF WellFormed, PartsOf
  <1>2. Meant \in Seq(TextPairs(Symbols)) /\ Meant # <<>>
    BY <1>1, MeantType, Zenon
  <1>3. Null \notin Seq(Symbols) /\ "=" \in Symbols /\ "&" \in Symbols
    BY NullAssumption, Zenon DEF Symbols
  <1>4. PICK pairs \in Seq(TextPairs(Symbols)) : pairs = Meant
    BY <1>2, Zenon
  <1>5. ParseQuery(Written(pairs, <<"&">>)) = QueryMeaning(pairs, Len(pairs))
    BY <1>2, <1>3, <1>4, QueryRoundTrip, Zenon
  <1>6. QED
    BY <1>4, <1>5, Zenon DEF QueryPairs, QueryMeaning

\* Whatever the parts of a URL are, and however long (hs_parser.c:21-44,
\* 293-382, 416-559).
THEOREM AddressAsWrittenHolds == Spec => []AddressAsWritten
  <1>1. WellFormed => AddressAsWritten
    BY AddressMeant, QueryMeant, Zenon DEF AddressAsWritten
  <1>2. QED
    BY <1>1, WellFormedAlways, PTL

=============================================================================
