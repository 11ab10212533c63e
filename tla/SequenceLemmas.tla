---------------------------- MODULE SequenceLemmas ----------------------------
(***************************************************************************)
(* Facts about sets of numbers, about sequences of sequences and about     *)
(* reading a sequence step by step, that the proofs of several components  *)
(* use.  An induction takes the least member of the set of                 *)
(* counterexamples, which HasMin provides.                                 *)
(***************************************************************************)
EXTENDS Integers, SequencesExt, SequenceTheorems, WellFoundedInduction, TLAPS

\* Concatenation is associative.
Associates(S) == \A a, b, c \in Seq(S) : (a \o b) \o c = a \o (b \o c)

LEMMA Associative ==
    ASSUME NEW S
    PROVE  Associates(S)
  BY ConcatAssociative DEF Associates

\* A set of natural numbers has a least element.
LEMMA HasMin ==
    ASSUME NEW S \in SUBSET Nat, S # {}
    PROVE  \E m \in S : \A n \in S : m <= n
  <1>1. IsWellFoundedOn(OpToRel(<, Nat), Nat)
    BY NatLessThanWellFounded
  <1>2. PICK m \in S : \A n \in S : <<n, m>> \notin OpToRel(<, Nat)
    BY <1>1, WFMin
  <1>3. \A n \in S : ~(n < m)
    BY <1>2 DEF OpToRel
  <1>4. QED
    BY <1>3

\* Of some of the numbers up to n one is the greatest.
LEMMA HasMax ==
    ASSUME NEW n \in Nat, NEW S \in SUBSET (0 .. n), S # {}
    PROVE  \E m \in S : \A i \in S : i <= m
  <1> DEFINE fromEnd == {n - i : i \in S}
  <1>1. fromEnd \in SUBSET Nat /\ fromEnd # {}
    <2>1. \A i \in S : n - i \in Nat
      OBVIOUS
    <2>2. QED
      BY <2>1
  <1>2. PICK m \in fromEnd : \A k \in fromEnd : m <= k
    BY <1>1, HasMin
  <1>3. PICK i \in S : m = n - i
    BY <1>2
  <1>4. \A j \in S : j <= i
    BY <1>2, <1>3
  <1>5. QED
    BY <1>4

-----------------------------------------------------------------------------
\* FlattenSeq, unfolded: flatten[i] is what the first i sequences make.

Flattens(f, s, n) ==
    f = [i \in 1 .. n |-> IF i = 1 THEN s[i] ELSE f[i - 1] \o s[i]]

Flatten(s) == CHOOSE f : Flattens(f, s, Len(s))

\* The sequences flattened so far, one after the other.
LEMMA FlattenExists ==
    ASSUME NEW S, NEW s \in Seq(S), NEW n \in 0 .. Len(s)
    PROVE  \E f : Flattens(f, s, n)
  <1> DEFINE Bad == {k \in Nat : k <= Len(s) /\ ~\E f : Flattens(f, s, k)}
  <1>1. SUFFICES ASSUME Bad # {} PROVE FALSE
    <2>1. Len(s) \in Nat
      BY LenProperties
    <2>2. n \notin Bad
      BY <1>1
    <2>3. QED
      BY <2>1, <2>2
  <1>2. PICK k \in Bad : \A j \in Bad : k <= j
    <2>1. Bad \in SUBSET Nat
      OBVIOUS
    <2>2. QED
      BY ONLY <1>1, <2>1, HasMin
  <1>3. k # 0
    <2>1. Flattens([i \in 1 .. 0 |-> IF i = 1 THEN s[i] ELSE <<>>], s, 0)
      BY DEF Flattens
    <2>2. QED
      BY <2>1
  <1>4. k - 1 \in Nat /\ k - 1 <= Len(s) /\ k - 1 \notin Bad
    BY <1>2, <1>3
  <1>5. PICK f : Flattens(f, s, k - 1)
    BY <1>4
  <1>6. PICK g : g = [i \in 1 .. k |-> IF i = 1 THEN s[i] ELSE f[i - 1] \o s[i]]
    OBVIOUS
  <1>7. \A i \in 1 .. k - 1 : g[i] = f[i]
    <2>1. \A i \in 1 .. k - 1 : f[i] = IF i = 1 THEN s[i] ELSE f[i - 1] \o s[i]
      BY ONLY <1>5 DEF Flattens
    <2>2. \A i \in 1 .. k - 1 : i \in 1 .. k
      OBVIOUS
    <2>3. \A i \in 1 .. k : g[i] = IF i = 1 THEN s[i] ELSE f[i - 1] \o s[i]
      BY ONLY <1>6
    <2>4. QED
      BY ONLY <2>1, <2>2, <2>3
  <1>8. \A i \in 1 .. k : i # 1 => g[i - 1] = f[i - 1]
    BY <1>7
  <1>9. [i \in 1 .. k |-> IF i = 1 THEN s[i] ELSE f[i - 1] \o s[i]]
          = [i \in 1 .. k |-> IF i = 1 THEN s[i] ELSE g[i - 1] \o s[i]]
    BY <1>8
  <1>10. Flattens(g, s, k)
    BY ONLY <1>6, <1>9 DEF Flattens
  <1>11. QED
    BY <1>10

\* FlattenSeq, unfolded.
LEMMA FlattenDef ==
    ASSUME NEW S, NEW s \in Seq(S), s # <<>>
    PROVE  /\ FlattenSeq(s) = Flatten(s)[Len(s)]
           /\ \A i \in 1 .. Len(s) :
                 Flatten(s)[i] = IF i = 1 THEN s[i] ELSE Flatten(s)[i - 1] \o s[i]
  <1>1. Len(s) \in Nat \ {0}
    BY EmptySeq
  <1>2. FlattenSeq(s) = Flatten(s)[Len(s)]
    BY <1>1 DEF FlattenSeq, Flatten, Flattens
  <1>3. Flattens(Flatten(s), s, Len(s))
    <2>1. \E f : Flattens(f, s, Len(s))
      BY <1>1, FlattenExists
    <2>2. QED
      BY <2>1 DEF Flatten
  <1>4. QED
    BY <1>2, <1>3 DEF Flattens

\* What is left of the flattened sequence after the first m sequences, and how
\* it starts.
IsRest(rest, S, s) ==
    /\ rest \in [0 .. Len(s) -> Seq(S)]
    /\ rest[0] = FlattenSeq(s)
    /\ rest[Len(s)] = <<>>
    /\ \A m \in 0 .. Len(s) - 1 : rest[m] = s[m + 1] \o rest[m + 1]

\* Every place of a sequence of sequences has a rest.
LEMMA FlattenRests ==
    ASSUME NEW S, NEW s \in Seq(Seq(S))
    PROVE  \E rest : IsRest(rest, S, s)
  <1>assoc. \A a, b, c \in Seq(S) : (a \o b) \o c = a \o (b \o c)
    BY ONLY Associative, SMTT(40) DEF Associates
  <1>cancel. \A a, b, c \in Seq(S) : a \o b = a \o c => b = c
    BY ConcatSimplifications
  <1> DEFINE n == Len(s)
             F(m) == IF m = 0 THEN <<>> ELSE Flatten(s)[m]
             Total == F(n)
             IsTail(m, t) == Total = F(m) \o t
  <1>1. n \in Nat /\ \A m \in 0 .. n - 1 : s[m + 1] \in Seq(S)
    <2>1. n \in Nat
      BY LenProperties
    <2>2. \A m \in 0 .. n - 1 : m + 1 \in 1 .. n
      BY <2>1
    <2>3. QED
      BY <2>1, <2>2, ElementOfSeq
  <1>2. \A m \in 0 .. n - 1 : F(m + 1) = F(m) \o s[m + 1]
    <2> SUFFICES ASSUME NEW m \in 0 .. n - 1 PROVE F(m + 1) = F(m) \o s[m + 1]
      OBVIOUS
    <2>1. s # <<>>
      BY <1>1, EmptySeq
    <2>2. m + 1 \in 1 .. n /\ m + 1 # 0 /\ (m + 1) - 1 = m /\ (m + 1 = 1 <=> m = 0)
      BY <1>1
    <2>3. Flatten(s)[m + 1] = IF m = 0 THEN s[m + 1] ELSE Flatten(s)[m] \o s[m + 1]
      BY <2>1, <2>2, FlattenDef
    <2>4. <<>> \o s[m + 1] = s[m + 1]
      BY <1>1, ConcatEmptySeq
    <2>5. QED
      BY ONLY <2>2, <2>3, <2>4
  <1> HIDE DEF F
  <1>3. \A m \in 0 .. n : F(m) \in Seq(S)
    <2> DEFINE Bad == {m \in Nat : m <= n /\ F(m) \notin Seq(S)}
    <2>1. SUFFICES ASSUME Bad # {} PROVE FALSE
      BY <1>1
    <2>2. PICK m \in Bad : \A k \in Bad : m <= k
      <3>1. Bad \in SUBSET Nat
        OBVIOUS
      <3>2. QED
        BY ONLY <2>1, <3>1, HasMin
    <2>3. m # 0
      BY DEF F
    <2>4. m - 1 \in 0 .. n - 1 /\ (m - 1) + 1 = m /\ m - 1 \notin Bad
      BY <1>1, <2>2, <2>3
    <2>5. F(m - 1) \in Seq(S) /\ s[(m - 1) + 1] \in Seq(S)
      BY <1>1, <2>4
    <2>6. F(m) = F(m - 1) \o s[(m - 1) + 1]
      BY ONLY <1>2, <2>4
    <2>7. F(m) \in Seq(S)
      BY ONLY <2>5, <2>6, ConcatProperties
    <2>8. QED
      BY <2>7
  <1>4. \A m \in 0 .. n : \E t \in Seq(S) : IsTail(m, t)
    <2> DEFINE Bad == {m \in 0 .. n : ~\E t \in Seq(S) : IsTail(m, t)}
    <2>1. SUFFICES ASSUME Bad # {} PROVE FALSE
      OBVIOUS
    <2>2. PICK m \in Bad : \A k \in Bad : k <= m
      <3>1. Bad \in SUBSET (0 .. n)
        OBVIOUS
      <3>2. QED
        BY ONLY <1>1, <2>1, <3>1, HasMax
    <2>3. m # n
      <3>1. F(n) \in Seq(S)
        BY <1>1, <1>3
      <3>2. F(n) \o <<>> = F(n) /\ <<>> \in Seq(S)
        BY <3>1, ConcatEmptySeq, EmptySeq
      <3>3. QED
        BY <3>2
    <2>4. m \in 0 .. n - 1 /\ m + 1 \in 0 .. n /\ m + 1 \notin Bad
      <3>1. m \in 0 .. n
        OBVIOUS
      <3>2. m \in 0 .. n - 1 /\ m + 1 \in 0 .. n /\ ~(m + 1 <= m)
        BY ONLY <1>1, <2>3, <3>1
      <3>3. QED
        BY ONLY <2>2, <3>2
    <2>5. PICK t \in Seq(S) : Total = F(m + 1) \o t
      BY <2>4
    <2>6. F(m) \in Seq(S) /\ s[m + 1] \in Seq(S)
      BY <1>1, <1>3, <2>4
    <2>7. Total = F(m) \o (s[m + 1] \o t)
      <3>1. F(m + 1) = F(m) \o s[m + 1]
        BY ONLY <1>2, <2>4
      <3>2. (F(m) \o s[m + 1]) \o t = F(m) \o (s[m + 1] \o t)
        BY ONLY <2>5, <2>6, <1>assoc
      <3>3. QED
        BY ONLY <2>5, <3>1, <3>2
    <2>8. s[m + 1] \o t \in Seq(S)
      BY ONLY <2>5, <2>6, ConcatProperties
    <2>9. QED
      BY <2>7, <2>8
  <1> DEFINE rest == [m \in 0 .. n |-> CHOOSE t \in Seq(S) : IsTail(m, t)]
  <1>5. \A m \in 0 .. n : rest[m] \in Seq(S) /\ Total = F(m) \o rest[m]
    BY <1>4
  <1>6. rest \in [0 .. n -> Seq(S)]
    BY <1>5
  <1> HIDE DEF rest
  <1>7. \A m \in 0 .. n - 1 : rest[m] = s[m + 1] \o rest[m + 1]
    <2> SUFFICES ASSUME NEW m \in 0 .. n - 1 PROVE rest[m] = s[m + 1] \o rest[m + 1]
      OBVIOUS
    <2>1. m \in 0 .. n /\ m + 1 \in 0 .. n
      BY <1>1
    <2>2. F(m) \in Seq(S) /\ s[m + 1] \in Seq(S) /\ rest[m] \in Seq(S) /\ rest[m + 1] \in Seq(S)
      BY <1>1, <1>3, <1>5, <2>1
    <2>3. (F(m) \o s[m + 1]) \o rest[m + 1] = F(m) \o (s[m + 1] \o rest[m + 1])
      BY ONLY <2>2, <1>assoc
    <2>4. F(m) \o rest[m] = F(m) \o (s[m + 1] \o rest[m + 1])
      <3>1. Total = F(m) \o rest[m] /\ Total = F(m + 1) \o rest[m + 1]
        BY ONLY <1>5, <2>1
      <3>2. F(m + 1) = F(m) \o s[m + 1]
        BY ONLY <1>2
      <3>3. QED
        BY ONLY <2>3, <3>1, <3>2
    <2>5. s[m + 1] \o rest[m + 1] \in Seq(S)
      BY ONLY <2>2, ConcatProperties
    <2>6. QED
      BY ONLY <2>2, <2>4, <2>5, <1>cancel
  <1>8. rest[n] = <<>>
    <2>1. n \in 0 .. n
      BY <1>1
    <2>2. F(n) = F(n) \o rest[n] /\ F(n) \in Seq(S) /\ rest[n] \in Seq(S)
      BY <1>3, <1>5, <2>1
    <2>3. QED
      BY ONLY <2>2, ConcatEqualIffEmpty
  <1>9. rest[0] = FlattenSeq(s)
    <2>1. 0 \in 0 .. n /\ n \in 0 .. n
      BY <1>1
    <2>2. F(n) = rest[0]
      <3>1. F(n) = <<>> \o rest[0] /\ rest[0] \in Seq(S)
        BY <1>5, <2>1 DEF F
      <3>2. QED
        BY ONLY <3>1, ConcatEmptySeq
    <2>3. CASE s = <<>>
      BY <2>2, <2>3 DEF F, FlattenSeq
    <2>4. CASE s # <<>>
      <3>1. n # 0
        BY <2>4, EmptySeq
      <3>2. FlattenSeq(s) = Flatten(s)[n]
        BY <2>4, FlattenDef
      <3>3. QED
        BY <2>2, <3>1, <3>2 DEF F
    <2>5. QED
      BY <2>3, <2>4
  <1>10. QED
    BY <1>6, <1>7, <1>8, <1>9 DEF IsRest

\* One more sequence is flattened.
LEMMA FlattenAppend ==
    ASSUME NEW S, NEW s \in Seq(Seq(S)), NEW x \in Seq(S)
    PROVE  /\ FlattenSeq(s) \in Seq(S)
           /\ FlattenSeq(Append(s, x)) = FlattenSeq(s) \o x
  <1> DEFINE t == Append(s, x)
             n == Len(s)
  <1>1. n \in Nat /\ t \in Seq(Seq(S)) /\ Len(t) = n + 1 /\ t # <<>>
        /\ t[n + 1] = x /\ \A i \in 1 .. n : t[i] = s[i]
    <2>1. PICK T : T = Seq(S)
      OBVIOUS
    <2>2. s \in Seq(T) /\ x \in T
      BY <2>1
    <2>3. n \in Nat /\ t \in Seq(T) /\ Len(t) = n + 1 /\ t # <<>>
          /\ t[n + 1] = x /\ \A i \in 1 .. n : t[i] = s[i]
      BY ONLY <2>2
    <2>4. QED
      BY <2>1, <2>3, Zenon
  <1>2. FlattenSeq(s) \in Seq(S)
    <2>1. PICK rest : IsRest(rest, S, s)
      BY FlattenRests
    <2>2. 0 \in 0 .. n
      BY <1>1
    <2>3. QED
      BY <2>1, <2>2, Zenon DEF IsRest
  <1> HIDE DEF t
  <1>3. /\ FlattenSeq(t) = Flatten(t)[n + 1]
        /\ \A i \in 1 .. n + 1 :
              Flatten(t)[i] = IF i = 1 THEN t[i] ELSE Flatten(t)[i - 1] \o t[i]
    BY <1>1, FlattenDef, Zenon
  <1>4. CASE s = <<>>
    <2>1. n = 0 /\ FlattenSeq(s) = <<>>
      BY <1>4 DEF FlattenSeq
    <2>2. FlattenSeq(t) = x
      BY <1>1, <1>3, <2>1
    <2>3. QED
      BY <1>2, <2>1, <2>2, ConcatEmptySeq, Zenon DEF t
  <1>5. CASE s # <<>>
    <2>1. n \in Nat \ {0}
      BY <1>5, EmptySeq
    <2>2. /\ FlattenSeq(s) = Flatten(s)[n]
          /\ \A i \in 1 .. n :
                Flatten(s)[i] = IF i = 1 THEN s[i] ELSE Flatten(s)[i - 1] \o s[i]
      BY <1>5, FlattenDef, Zenon
    <2> DEFINE Bad == {i \in Nat : i \in 1 .. n /\ Flatten(t)[i] # Flatten(s)[i]}
    <2>3. Bad = {}
      <3> SUFFICES ASSUME Bad # {} PROVE FALSE
        OBVIOUS
      <3>1. PICK i \in Bad : \A j \in Bad : i <= j
        <4>1. Bad \in SUBSET Nat
          OBVIOUS
        <4>2. QED
          BY ONLY <4>1, Bad # {}, HasMin
      <3>2. i \in 1 .. n /\ i \in 1 .. n + 1 /\ t[i] = s[i] /\ (i = 1 \/ i - 1 \notin Bad)
        BY <1>1, <3>1
      <3>3. i = 1 \/ Flatten(t)[i - 1] = Flatten(s)[i - 1]
        BY <1>1, <3>2
      <3>4. Flatten(t)[i] = Flatten(s)[i]
        <4>1. Flatten(t)[i] = IF i = 1 THEN t[i] ELSE Flatten(t)[i - 1] \o t[i]
          BY <1>3, <3>2, Zenon
        <4>2. Flatten(s)[i] = IF i = 1 THEN s[i] ELSE Flatten(s)[i - 1] \o s[i]
          BY <2>2, <3>2, Zenon
        <4>3. QED
          BY <3>2, <3>3, <4>1, <4>2, Zenon
      <3>5. QED
        BY <3>1, <3>4
    <2>4. Flatten(t)[n] = FlattenSeq(s)
      <3>1. n \in Nat /\ n \in 1 .. n
        BY <2>1
      <3>2. QED
        BY <2>2, <2>3, <3>1, Zenon
    <2>5. n + 1 \in 1 .. n + 1 /\ n + 1 # 1 /\ (n + 1) - 1 = n
      BY <2>1
    <2>6. Flatten(t)[n + 1] = Flatten(t)[n] \o x
      BY <1>1, <1>3, <2>5, Zenon
    <2>7. QED
      BY <1>2, <1>3, <2>4, <2>6, Zenon DEF t
  <1>6. QED
    BY <1>4, <1>5

\* What is put at the end of two sequences is put at the end of the second.
LEMMA ExtendLast ==
    ASSUME NEW T, NEW a \in Seq(T), NEW b \in Seq(T), b # <<>>, NEW y \in T
    PROVE  /\ [(a \o b) EXCEPT ![Len(a \o b)] = y] = a \o [b EXCEPT ![Len(b)] = y]
           /\ (a \o b)[Len(a \o b)] = b[Len(b)]
  <1> DEFINE m == Len(a)
             n == Len(b)
  <1>1. m \in Nat /\ n \in Nat \ {0}
    BY EmptySeq, LenProperties
  <1>2. PICK c \in Seq(T) : c = a \o b
    BY ConcatProperties
  <1>3. Len(c) = m + n /\ \A i \in 1 .. m + n : c[i] = IF i <= m THEN a[i] ELSE b[i - m]
    BY <1>2, ConcatProperties
  <1>4. PICK d \in Seq(T) : d = [b EXCEPT ![n] = y]
    <2>1. n \in 1 .. Len(b)
      BY <1>1
    <2>2. [b EXCEPT ![n] = y] \in Seq(T)
      BY <2>1, ExceptSeq, Zenon
    <2>3. QED
      BY <2>2, Zenon
  <1>5. Len(d) = n /\ \A i \in 1 .. n : d[i] = IF i = n THEN y ELSE b[i]
    BY <1>1, <1>4, ExceptSeq
  <1>6. a \o d \in Seq(T) /\ Len(a \o d) = m + n
        /\ \A i \in 1 .. m + n : (a \o d)[i] = IF i <= m THEN a[i] ELSE d[i - m]
    <2>1. a \o d \in Seq(T) /\ Len(a \o d) = m + Len(d)
          /\ \A i \in 1 .. m + Len(d) : (a \o d)[i] = IF i <= m THEN a[i] ELSE d[i - m]
      BY ConcatProperties
    <2>2. QED
      BY <1>5, <2>1, Zenon
  <1>7. m + n \in 1 .. m + n
    BY <1>1
  <1>8. PICK e \in Seq(T) : e = [c EXCEPT ![m + n] = y]
    BY <1>3, <1>7, ExceptSeq
  <1>9. Len(e) = m + n /\ \A i \in 1 .. m + n : e[i] = IF i = m + n THEN y ELSE c[i]
    BY <1>3, <1>7, <1>8, ExceptSeq
  <1>10. \A i \in 1 .. m + n : e[i] = (a \o d)[i]
    <2> SUFFICES ASSUME NEW i \in 1 .. m + n PROVE e[i] = (a \o d)[i]
      OBVIOUS
    <2>1. CASE i <= m
      <3>1. i # m + n
        BY <1>1, <2>1
      <3>2. QED
        BY <1>3, <1>6, <1>9, <2>1, <3>1, Zenon
    <2>2. CASE ~(i <= m)
      <3>1. i - m \in 1 .. n /\ (i - m = n <=> i = m + n)
        BY <1>1, <2>2
      <3>2. QED
        BY <1>3, <1>5, <1>6, <1>9, <2>2, <3>1, Zenon
    <2>3. QED
      BY <2>1, <2>2
  <1>11. e = a \o d
    BY <1>6, <1>9, <1>10, SeqEqual
  <1>12. c[m + n] = b[n]
    <2>1. ~(m + n <= m) /\ (m + n) - m = n
      BY <1>1
    <2>2. QED
      BY <1>3, <1>7, <2>1, Zenon
  <1>13. QED
    BY <1>2, <1>3, <1>4, <1>8, <1>11, <1>12, Zenon

\* One more element after two sequences.
LEMMA AppendConcat ==
    ASSUME NEW T, NEW a \in Seq(T), NEW b \in Seq(T), NEW y \in T
    PROVE  /\ Append(a \o b, y) = a \o Append(b, y)
           /\ Append(b, y) \in Seq(T)
           /\ Append(b, y) # <<>>
  <1> DEFINE m == Len(a)
             n == Len(b)
  <1>1. m \in Nat /\ n \in Nat
    OBVIOUS
  <1>2. PICK c \in Seq(T) : c = a \o b
    BY ConcatProperties
  <1>3. Len(c) = m + n /\ \A i \in 1 .. m + n : c[i] = IF i <= m THEN a[i] ELSE b[i - m]
    BY <1>2, ConcatProperties
  <1>4. PICK d \in Seq(T) : d = Append(b, y)
    <2>1. Append(b, y) \in Seq(T)
      OBVIOUS
    <2>2. QED
      BY <2>1, Zenon
  <1>5. Len(d) = n + 1 /\ d[n + 1] = y /\ \A i \in 1 .. n : d[i] = b[i]
    BY <1>4
  <1>6. a \o d \in Seq(T) /\ Len(a \o d) = m + n + 1
        /\ \A i \in 1 .. m + n + 1 : (a \o d)[i] = IF i <= m THEN a[i] ELSE d[i - m]
    BY <1>1, <1>5
  <1>7. PICK e \in Seq(T) : e = Append(c, y)
    <2>1. Append(c, y) \in Seq(T)
      OBVIOUS
    <2>2. QED
      BY <2>1, Zenon
  <1>8. Len(e) = m + n + 1 /\ e[m + n + 1] = y /\ \A i \in 1 .. m + n : e[i] = c[i]
    BY <1>1, <1>3, <1>7
  <1>9. \A i \in 1 .. m + n + 1 : e[i] = (a \o d)[i]
    <2> SUFFICES ASSUME NEW i \in 1 .. m + n + 1 PROVE e[i] = (a \o d)[i]
      OBVIOUS
    <2>1. CASE i <= m
      <3>1. i \in 1 .. m + n
        BY <1>1, <2>1
      <3>2. QED
        BY <1>3, <1>6, <1>8, <2>1, <3>1, Zenon
    <2>2. CASE ~(i <= m) /\ i <= m + n
      <3>1. i \in 1 .. m + n /\ i - m \in 1 .. n
        BY <1>1, <2>2
      <3>2. QED
        BY <1>3, <1>5, <1>6, <1>8, <2>2, <3>1, Zenon
    <2>3. CASE i = m + n + 1
      <3>1. ~(i <= m) /\ i - m = n + 1
        BY <1>1, <2>3
      <3>2. QED
        BY <1>5, <1>6, <1>8, <2>3, <3>1, Zenon
    <2>4. QED
      <3>1. i <= m + n \/ i = m + n + 1
        BY <1>1
      <3>2. QED
        BY <2>1, <2>2, <2>3, <3>1, Zenon
  <1>10. e = a \o d
    BY <1>6, <1>8, <1>9, SeqEqual
  <1>11. d # <<>>
    BY <1>1, <1>5
  <1>12. QED
    BY <1>2, <1>4, <1>7, <1>10, <1>11

\* A sequence and one more element; a sequence that ends in another one, and
\* one more element.
Longer(s, y) == Append(s, y)
LongerAlike(a, b, y) == Longer(a \o b, y) = a \o Longer(b, y) /\ Longer(b, y) # <<>>

\* AppendConcat, for all sequences of a set.
LEMMA LongerConcat ==
    ASSUME NEW T
    PROVE  \A a \in Seq(T), b \in Seq(T), y \in T : LongerAlike(a, b, y)
  <1> SUFFICES ASSUME NEW a \in Seq(T), NEW b \in Seq(T), NEW y \in T
               PROVE  LongerAlike(a, b, y)
    BY Zenon
  <1>1. Append(a \o b, y) = a \o Append(b, y)
    BY AppendConcat
  <1>2. Append(b, y) # <<>>
    BY AppendConcat
  <1>3. QED
    BY <1>1, <1>2 DEF Longer, LongerAlike

\* Another last element.
Replaced(s, last, y, t) == s[Len(s)] = last /\ [s EXCEPT ![Len(s)] = y] = t

LEMMA ReplaceLast ==
    ASSUME NEW T
    PROVE  \A front \in Seq(T), last \in T, y \in T :
              Replaced(Longer(front, last), last, y, Longer(front, y))
  <1> SUFFICES ASSUME NEW front \in Seq(T), NEW last \in T, NEW y \in T
               PROVE  Replaced(Longer(front, last), last, y, Longer(front, y))
    BY Zenon
  <1>1. PICK n \in Nat : n = Len(front)
    OBVIOUS
  <1>s. PICK s : s = Longer(front, last)
    OBVIOUS
  <1>2. s \in Seq(T) /\ Len(s) = n + 1 /\ s[n + 1] = last /\ \A i \in 1 .. n : s[i] = front[i]
    BY <1>1, <1>s DEF Longer
  <1>3. n + 1 \in 1 .. n + 1 /\ \A j \in 1 .. n + 1 : j = n + 1 \/ (j \in 1 .. n /\ j # n + 1)
    BY ONLY <1>1
  <1>4. PICK d : d = [s EXCEPT ![n + 1] = y]
    OBVIOUS
  <1>5. d \in Seq(T) /\ Len(d) = n + 1
        /\ \A j \in 1 .. n + 1 : d[j] = IF j = n + 1 THEN y ELSE s[j]
    BY ONLY <1>2, <1>3, <1>4, ExceptSeq
  <1>6. PICK e : e = Longer(front, y)
    OBVIOUS
  <1>7. e \in Seq(T) /\ Len(e) = n + 1 /\ e[n + 1] = y /\ \A i \in 1 .. n : e[i] = front[i]
    BY <1>1, <1>6 DEF Longer
  <1>8. \A j \in 1 .. n + 1 : d[j] = e[j]
    BY <1>2, <1>3, <1>5, <1>7, Zenon
  <1>9. d = e
    BY <1>5, <1>7, <1>8, SeqEqual, Zenon
  <1>10. QED
    BY <1>2, <1>4, <1>6, <1>9, <1>s, Zenon DEF Replaced

\* A sequence up to one more element.
LEMMA SubSeqAppend ==
    ASSUME NEW S, NEW s \in Seq(S), NEW i \in 1 .. Len(s)
    PROVE  /\ SubSeq(s, 1, i) = Append(SubSeq(s, 1, i - 1), s[i])
           /\ SubSeq(s, 1, i - 1) \in Seq(S)
           /\ s[i] \in S
  <1>1. /\ SubSeq(s, 1, i) \in Seq(S) /\ Len(SubSeq(s, 1, i)) = i
        /\ \A j \in 1 .. i : SubSeq(s, 1, i)[j] = s[j]
    OBVIOUS
  <1>2. /\ SubSeq(s, 1, i - 1) \in Seq(S) /\ Len(SubSeq(s, 1, i - 1)) = i - 1
        /\ \A j \in 1 .. i - 1 : SubSeq(s, 1, i - 1)[j] = s[j]
    OBVIOUS
  <1>3. s[i] \in S
    OBVIOUS
  <1>4. PICK u \in Seq(S) : u = SubSeq(s, 1, i - 1)
    BY <1>2
  <1>5. /\ Append(u, s[i]) \in Seq(S) /\ Len(Append(u, s[i])) = i
        /\ \A j \in 1 .. i : Append(u, s[i])[j] = s[j]
    BY ONLY <1>2, <1>3, <1>4, i \in 1 .. Len(s), Len(s) \in Nat
  <1>6. SubSeq(s, 1, i) = Append(u, s[i])
    BY <1>1, <1>5, SeqEqual
  <1>7. QED
    BY <1>2, <1>3, <1>4, <1>6

\* Flattening two sequences one after the other.
LEMMA FlattenConcat ==
    ASSUME NEW S, NEW s \in Seq(Seq(S)), NEW t \in Seq(Seq(S))
    PROVE  FlattenSeq(s \o t) = FlattenSeq(s) \o FlattenSeq(t)
  <1>assoc. \A a, b, c \in Seq(S) : (a \o b) \o c = a \o (b \o c)
    BY ONLY Associative, SMTT(40) DEF Associates
  <1> DEFINE upTo(i) == SubSeq(t, 1, i)
             Good(i) == FlattenSeq(s \o upTo(i)) = FlattenSeq(s) \o FlattenSeq(upTo(i))
             Bad == {i \in Nat : i <= Len(t) /\ ~Good(i)}
  <1>1. Len(t) \in Nat /\ upTo(Len(t)) = t
    BY SubSeqFull
  <1>2. Good(0)
    <2>1. upTo(0) = <<>> /\ FlattenSeq(<<>>) = <<>> /\ s \o <<>> = s
      BY SubSeqEmpty DEF FlattenSeq
    <2>2. FlattenSeq(s) \o <<>> = FlattenSeq(s)
      <3>1. FlattenSeq(s) \in Seq(S)
        BY FlattenAppend
      <3>2. QED
        BY <3>1, ConcatEmptySeq, Zenon
    <2>3. QED
      BY <2>1, <2>2, Zenon
  <1>3. ASSUME NEW i \in 1 .. Len(t), Good(i - 1) PROVE Good(i)
    <2>1. PICK u \in Seq(Seq(S)), x \in Seq(S) : u = upTo(i - 1) /\ upTo(i) = Append(u, x)
      BY SubSeqAppend
    <2>2. s \o Append(u, x) = Append(s \o u, x) /\ s \o u \in Seq(Seq(S))
      <3>1. PICK T : T = Seq(S)
        OBVIOUS
      <3>2. s \in Seq(T) /\ u \in Seq(T) /\ x \in T
        BY <2>1, <3>1
      <3>3. s \o Append(u, x) = Append(s \o u, x) /\ s \o u \in Seq(T)
        BY ONLY <3>2
      <3>4. QED
        BY <3>1, <3>3
    <2>3. FlattenSeq(s \o upTo(i)) = FlattenSeq(s \o u) \o x
      <3>1. FlattenSeq(Append(s \o u, x)) = FlattenSeq(s \o u) \o x
        BY <2>2, FlattenAppend
      <3>2. QED
        BY <2>1, <2>2, <3>1, Zenon
    <2>4. FlattenSeq(upTo(i)) = FlattenSeq(u) \o x
      BY <2>1, FlattenAppend, Zenon
    <2>5. FlattenSeq(s) \in Seq(S) /\ FlattenSeq(u) \in Seq(S)
      BY <2>1, FlattenAppend, Zenon
    <2>6. (FlattenSeq(s) \o FlattenSeq(u)) \o x = FlattenSeq(s) \o (FlattenSeq(u) \o x)
      BY <1>assoc, <2>1, <2>5, Zenon
    <2>7. QED
      BY <1>3, <2>1, <2>3, <2>4, <2>6, Zenon
  <1> HIDE DEF Good
  <1>4. Bad = {}
    <2> SUFFICES ASSUME Bad # {} PROVE FALSE
      OBVIOUS
    <2>1. PICK i \in Bad : \A j \in Bad : i <= j
      <3>1. Bad \in SUBSET Nat
        OBVIOUS
      <3>2. QED
        BY ONLY <3>1, Bad # {}, HasMin
    <2>2. i \in 1 .. Len(t) /\ i - 1 \in Nat /\ i - 1 <= Len(t) /\ i - 1 \notin Bad
      BY <1>1, <1>2, <2>1
    <2>3. QED
      BY <1>3, <2>1, <2>2
  <1>5. QED
    <2>1. Good(Len(t))
      BY <1>1, <1>4
    <2>2. QED
      BY <1>1, <2>1, Zenon DEF Good

-----------------------------------------------------------------------------
\* A function whose values are each made from the one before, as the recursive
\* functions of the texts are.
Iterates(f, X, first, n, step) ==
    /\ f \in [0 .. n -> X]
    /\ f[0] = first
    /\ \A i \in 1 .. n : f[i] = step[i][f[i - 1]]

\* What a step makes of a value, time after time.
LEMMA IterationExists ==
    ASSUME NEW X, NEW first \in X, NEW n \in Nat, NEW step \in [1 .. n -> [X -> X]]
    PROVE  \E f : Iterates(f, X, first, n, step)
  <1> DEFINE Has(k) == \E f \in [0 .. k -> X] :
                           f[0] = first /\ \A i \in 1 .. k : f[i] = step[i][f[i - 1]]
             Bad == {k \in Nat : k <= n /\ ~Has(k)}
  <1>1. Has(0)
    <2>1. PICK f : f = [i \in 0 .. 0 |-> first]
      OBVIOUS
    <2>2. f \in [0 .. 0 -> X] /\ f[0] = first
      BY <2>1
    <2>3. \A i \in 1 .. 0 : f[i] = step[i][f[i - 1]]
      OBVIOUS
    <2>4. QED
      BY <2>2, <2>3, Zenon
  <1>2. ASSUME NEW k \in 1 .. n, Has(k - 1) PROVE Has(k)
    <2>1. PICK f \in [0 .. k - 1 -> X] :
              f[0] = first /\ \A i \in 1 .. k - 1 : f[i] = step[i][f[i - 1]]
      BY <1>2
    <2>2. PICK x \in X : x = step[k][f[k - 1]]
      <3>1. f[k - 1] \in X
        BY <2>1
      <3>2. QED
        BY <3>1
    <2>3. PICK g : g = [i \in 0 .. k |-> IF i = k THEN x ELSE f[i]]
      OBVIOUS
    <2>4. g \in [0 .. k -> X]
      BY <2>3
    <2>5. g[k] = x /\ \A i \in 0 .. k - 1 : g[i] = f[i]
      BY <2>3
    <2>6. g[0] = first
      BY <2>1, <2>5
    <2>7. \A i \in 1 .. k : g[i] = step[i][g[i - 1]]
      <3> SUFFICES ASSUME NEW i \in 1 .. k PROVE g[i] = step[i][g[i - 1]]
        OBVIOUS
      <3>1. CASE i = k
        BY <2>2, <2>5, <3>1
      <3>2. CASE i # k
        <4>1. i \in 1 .. k - 1 /\ i \in 0 .. k - 1 /\ i - 1 \in 0 .. k - 1
          BY <3>2
        <4>2. QED
          BY <2>1, <2>5, <4>1, Zenon
      <3>3. QED
        BY <3>1, <3>2
    <2>8. QED
      BY <2>4, <2>6, <2>7, Zenon
  <1> HIDE DEF Has
  <1>3. Bad = {}
    <2> SUFFICES ASSUME Bad # {} PROVE FALSE
      OBVIOUS
    <2>1. PICK k \in Bad : \A j \in Bad : k <= j
      <3>1. Bad \in SUBSET Nat
        OBVIOUS
      <3>2. QED
        BY ONLY <3>1, Bad # {}, HasMin
    <2>2. k \in 1 .. n /\ k - 1 \in Nat /\ k - 1 <= n /\ k - 1 \notin Bad
      BY <1>1, <2>1
    <2>3. QED
      BY <1>2, <2>1, <2>2
  <1>4. Has(n)
    BY <1>3
  <1>5. QED
    BY <1>4, Zenon DEF Has, Iterates

-----------------------------------------------------------------------------
\* Reading a text symbol by symbol, as the loops of the parsers do: from one
\* state to another with a step for each symbol.
Runs(step, text, s, t) ==
    \E f : /\ f[0] = s /\ f[Len(text)] = t
           /\ \A i \in 1 .. Len(text) : f[i] = step[f[i - 1]][text[i]]

LEMMA RunsEmpty ==
    ASSUME NEW step, NEW s
    PROVE  Runs(step, <<>>, s, s)
  <1>1. PICK f : f = [i \in {0} |-> s]
    OBVIOUS
  <1>2. f[0] = s
    BY <1>1
  <1>3. Len(<<>>) = 0
    OBVIOUS
  <1>4. \A i \in 1 .. 0 : f[i] = step[f[i - 1]][<<>>[i]]
    OBVIOUS
  <1>5. QED
    BY <1>2, <1>3, <1>4, Zenon DEF Runs

\* A step leads from one state to another.
Leads(step, s, c, t) == t = step[s][c]

LEMMA RunsOne ==
    ASSUME NEW step, NEW c, NEW s, NEW t, Leads(step, s, c, t)
    PROVE  Runs(step, <<c>>, s, t)
  <1>0. t = step[s][c]
    BY DEF Leads
  <1>1. PICK f : f = [i \in {0, 1} |-> IF i = 0 THEN s ELSE t]
    OBVIOUS
  <1>2. f[0] = s /\ f[1] = t /\ Len(<<c>>) = 1 /\ <<c>>[1] = c
    BY <1>1
  <1>3. \A i \in 1 .. 1 : f[i] = step[f[i - 1]][<<c>>[i]]
    BY <1>0, <1>2
  <1>4. QED
    BY <1>2, <1>3, Zenon DEF Runs

\* What is read one after the other.
LEMMA RunsConcat ==
    ASSUME NEW C, NEW a \in Seq(C), NEW b \in Seq(C), NEW step, NEW s, NEW t, NEW u,
           Runs(step, a, s, t), Runs(step, b, t, u)
    PROVE  Runs(step, a \o b, s, u)
  <1>1. PICK m, n \in Nat : m = Len(a) /\ n = Len(b)
    BY LenProperties
  <1>2. PICK f : f[0] = s /\ f[m] = t /\ \A i \in 1 .. m : f[i] = step[f[i - 1]][a[i]]
    BY <1>1, Zenon DEF Runs
  <1>3. PICK g : g[0] = t /\ g[n] = u /\ \A i \in 1 .. n : g[i] = step[g[i - 1]][b[i]]
    BY <1>1, Zenon DEF Runs
  <1>4. PICK all : all = a \o b
    OBVIOUS
  <1>5. /\ Len(all) = m + n
        /\ \A i \in 1 .. m : all[i] = a[i]
        /\ \A i \in 1 .. n : all[m + i] = b[i]
    BY <1>1, <1>4, ConcatProperties
  <1>6. PICK h : h = [i \in 0 .. m + n |-> IF i <= m THEN f[i] ELSE g[i - m]]
    OBVIOUS
  <1>7. /\ \A i \in 0 .. m : h[i] = f[i]
        /\ \A i \in 0 .. n : h[m + i] = g[i]
    <2>1. \A i \in 0 .. m : h[i] = f[i]
      BY <1>6
    <2>2. ASSUME NEW i \in 0 .. n PROVE h[m + i] = g[i]
      <3>1. CASE i = 0
        BY <1>2, <1>3, <1>6, <3>1
      <3>2. CASE i # 0
        <4>1. m + i \in 0 .. m + n /\ ~(m + i <= m) /\ (m + i) - m = i
          BY <3>2
        <4>2. QED
          BY <1>6, <4>1
      <3>3. QED
        BY <3>1, <3>2
    <2>3. QED
      BY <2>1, <2>2
  <1>8. h[0] = s /\ h[m + n] = u
    <2>1. 0 \in 0 .. m /\ n \in 0 .. n
      OBVIOUS
    <2>2. QED
      BY <1>2, <1>3, <1>7, <2>1
  <1>9. ASSUME NEW i \in 1 .. m + n PROVE h[i] = step[h[i - 1]][all[i]]
    <2>1. CASE i <= m
      <3>1. i \in 1 .. m /\ i \in 0 .. m /\ i - 1 \in 0 .. m
        BY <2>1
      <3>2. QED
        BY <1>2, <1>5, <1>7, <3>1, Zenon
    <2>2. CASE i > m
      <3>1. PICK j \in 1 .. n : i = m + j /\ i - 1 = m + (j - 1) /\ j \in 0 .. n /\ j - 1 \in 0 .. n
        <4>1. i - m \in 1 .. n
          BY <2>2
        <4>2. i = m + (i - m) /\ i - 1 = m + ((i - m) - 1)
          OBVIOUS
        <4>3. i - m \in 0 .. n /\ (i - m) - 1 \in 0 .. n
          BY <4>1
        <4>4. QED
          BY <4>1, <4>2, <4>3
      <3>2. h[i] = g[j] /\ h[i - 1] = g[j - 1] /\ all[i] = b[j]
        BY <1>5, <1>7, <3>1, Zenon
      <3>3. QED
        BY <1>3, <3>1, <3>2, Zenon
    <2>3. QED
      BY <2>1, <2>2
  <1>10. Runs(step, all, s, u)
    <2>1. PICK k : k = m + n
      OBVIOUS
    <2>2. Len(all) = k /\ h[k] = u
      BY <1>5, <1>8, <2>1, Zenon
    <2>3. \A i \in 1 .. k : h[i] = step[h[i - 1]][all[i]]
      BY <1>9, <2>1, Zenon
    <2>4. QED
      BY <1>8, <2>2, <2>3, Zenon DEF Runs
  <1>11. QED
    BY <1>4, <1>10, Zenon

\* Two symbols are two steps.
LEMMA RunsTwo ==
    ASSUME NEW step, NEW c, NEW d, NEW s, NEW t, NEW u, Leads(step, s, c, t), Leads(step, t, d, u)
    PROVE  Runs(step, <<c, d>>, s, u)
  <1>1. t = step[s][c] /\ u = step[t][d]
    BY DEF Leads
  <1>2. PICK f : f = [i \in {0, 1, 2} |-> IF i = 0 THEN s ELSE IF i = 1 THEN t ELSE u]
    OBVIOUS
  <1>3. f[0] = s /\ f[1] = t /\ f[2] = u /\ Len(<<c, d>>) = 2 /\ <<c, d>>[1] = c /\ <<c, d>>[2] = d
    BY <1>2
  <1>4. \A i \in 1 .. 2 : f[i] = step[f[i - 1]][<<c, d>>[i]]
    <2> SUFFICES ASSUME NEW i \in 1 .. 2 PROVE f[i] = step[f[i - 1]][<<c, d>>[i]]
      OBVIOUS
    <2>1. (i = 1 /\ i - 1 = 0) \/ (i = 2 /\ i - 1 = 1)
      OBVIOUS
    <2>2. QED
      BY <1>1, <1>3, <2>1, Zenon
  <1>5. QED
    BY <1>3, <1>4, Zenon DEF Runs

\* A text that is made of pieces is read piece by piece; word[i] is what is
\* left of it after i pieces.
LEMMA RunsChain ==
    ASSUME NEW C, NEW n \in Nat, NEW piece \in [1 .. n -> Seq(C)], NEW word \in [0 .. n -> Seq(C)],
           NEW step, NEW state, NEW t,
           \A i \in 1 .. n : word[i - 1] = piece[i] \o word[i]
                             /\ Runs(step, piece[i], state[i - 1], state[i]),
           Runs(step, word[n], state[n], t)
    PROVE  Runs(step, word[0], state[0], t)
  <1> DEFINE Good(i) == Runs(step, word[n - i], state[n - i], t)
             Bad == {i \in Nat : i <= n /\ ~Good(i)}
  <1>1. ASSUME NEW i \in Bad, \A j \in Bad : i <= j PROVE FALSE
    <2>1. i # 0
      <3>1. n - 0 = n
        OBVIOUS
      <3>2. Good(0)
        BY <3>1
      <3> HIDE DEF Good
      <3>3. QED
        BY <3>2
    <2>2. i - 1 \in Nat /\ i - 1 <= n /\ Good(i - 1)
      <3> HIDE DEF Good
      <3>1. i - 1 \in Nat /\ i - 1 <= n /\ i - 1 \notin Bad
        BY <1>1, <2>1
      <3>2. QED
        BY <3>1
    <2>3. PICK k \in 1 .. n : k = n - (i - 1) /\ k - 1 = n - i
      <3>1. n - (i - 1) \in 1 .. n /\ (n - (i - 1)) - 1 = n - i
        BY <2>1
      <3>2. QED
        BY <3>1
    <2>4. Runs(step, word[k], state[k], t)
      BY <2>2, <2>3
    <2>5. piece[k] \in Seq(C) /\ word[k] \in Seq(C)
      <3>1. k \in 0 .. n
        OBVIOUS
      <3>2. QED
        BY <3>1
    <2>6. Runs(step, piece[k] \o word[k], state[k - 1], t)
      <3>1. Runs(step, piece[k], state[k - 1], state[k])
        OBVIOUS
      <3>2. PICK a \in Seq(C), b \in Seq(C) : a = piece[k] /\ b = word[k]
        BY <2>5, Zenon
      <3>3. PICK x, y : x = state[k - 1] /\ y = state[k]
        OBVIOUS
      <3>4. Runs(step, a, x, y) /\ Runs(step, b, y, t)
        BY <2>4, <3>1, <3>2, <3>3, Zenon
      <3>5. Runs(step, a \o b, x, t)
        BY ONLY <3>4, RunsConcat, a \in Seq(C), b \in Seq(C)
      <3>6. QED
        BY <3>2, <3>3, <3>5, Zenon
    <2>7. Good(i)
      BY <2>3, <2>6, Zenon
    <2> HIDE DEF Good
    <2>8. QED
      BY <2>7
  <1>2. Bad = {}
    <2> SUFFICES ASSUME Bad # {} PROVE FALSE
      OBVIOUS
    <2>1. Bad \in SUBSET Nat
      OBVIOUS
    <2> HIDE DEF Bad
    <2>2. PICK i \in Bad : \A j \in Bad : i <= j
      BY ONLY <2>1, Bad # {}, HasMin
    <2>3. QED
      BY <1>1, <2>2
  <1>3. Good(n)
    <2> HIDE DEF Good
    <2>1. n \notin Bad
      BY <1>2, Zenon
    <2>2. n \in Nat /\ n <= n
      OBVIOUS
    <2>3. QED
      BY <2>1, <2>2, Zenon
  <1>4. n - n = 0
    OBVIOUS
  <1>5. QED
    BY <1>3, <1>4, Zenon

\* The states a text goes through.
Traces(f, S, step, text, s, t) ==
    /\ f \in [0 .. Len(text) -> S]
    /\ f[0] = s /\ f[Len(text)] = t
    /\ \A i \in 1 .. Len(text) : f[i] = step[f[i - 1]][text[i]]

\* What is read stays within the states that the step knows.
LEMMA RunsTyped ==
    ASSUME NEW S, NEW C, NEW step \in [S -> [C -> S]], NEW text \in Seq(C), NEW s \in S, NEW t,
           Runs(step, text, s, t)
    PROVE  \E f : Traces(f, S, step, text, s, t)
  <1>1. PICK n \in Nat : n = Len(text)
    BY LenProperties
  <1>2. PICK g : g[0] = s /\ g[n] = t /\ \A i \in 1 .. n : g[i] = step[g[i - 1]][text[i]]
    BY <1>1, Zenon DEF Runs
  <1> DEFINE Bad == {i \in Nat : i <= n /\ g[i] \notin S}
  <1>3. Bad = {}
    <2> SUFFICES ASSUME Bad # {} PROVE FALSE
      OBVIOUS
    <2>1. PICK i \in Bad : \A j \in Bad : i <= j
      <3>1. Bad \in SUBSET Nat
        OBVIOUS
      <3>2. QED
        BY ONLY <3>1, Bad # {}, HasMin
    <2>2. i # 0 /\ i \in 1 .. n /\ i - 1 \notin Bad /\ i - 1 \in Nat /\ i - 1 <= n
      BY <1>2, <2>1
    <2>3. g[i - 1] \in S /\ text[i] \in C
      BY <1>1, <2>2, ElementOfSeq
    <2>4. QED
      BY <1>2, <2>2, <2>3
  <1>4. PICK f : f = [i \in 0 .. n |-> g[i]]
    OBVIOUS
  <1>5. f \in [0 .. n -> S] /\ \A i \in 0 .. n : f[i] = g[i]
    <2>1. \A i \in 0 .. n : g[i] \in S
      BY <1>3
    <2>2. QED
      BY <1>4, <2>1, Zenon
  <1>6. f[0] = s /\ f[n] = t
    BY <1>2, <1>5
  <1>7. \A i \in 1 .. n : f[i] = step[f[i - 1]][text[i]]
    <2> SUFFICES ASSUME NEW i \in 1 .. n PROVE f[i] = step[f[i - 1]][text[i]]
      OBVIOUS
    <2>1. i \in 0 .. n /\ i - 1 \in 0 .. n
      OBVIOUS
    <2>2. QED
      BY <1>2, <1>5, <2>1, Zenon
  <1>8. QED
    BY <1>1, <1>5, <1>6, <1>7, Zenon DEF Traces

\* Two functions that start and go on alike are alike.
LEMMA SameValues ==
    ASSUME NEW n \in Nat, NEW f, NEW g, f[0] = g[0],
           \A i \in 1 .. n : f[i - 1] = g[i - 1] => f[i] = g[i]
    PROVE  f[n] = g[n]
  <1> DEFINE Bad == {i \in Nat : i <= n /\ f[i] # g[i]}
  <1>1. SUFFICES ASSUME Bad # {} PROVE FALSE
    OBVIOUS
  <1>2. PICK i \in Bad : \A j \in Bad : i <= j
    <2>1. Bad \in SUBSET Nat
      OBVIOUS
    <2>2. QED
      BY ONLY <2>1, <1>1, HasMin
  <1>3. i # 0 /\ i \in 1 .. n /\ i - 1 \notin Bad /\ i - 1 \in Nat /\ i - 1 <= n
    BY <1>2
  <1>4. QED
    BY <1>2, <1>3

\* The beginnings of a text.
LEMMA Beginnings ==
    ASSUME NEW C, NEW text \in Seq(C)
    PROVE  /\ SubSeq(text, 1, 0) = <<>> /\ SubSeq(text, 1, Len(text)) = text
           /\ \A i \in 0 .. Len(text) : SubSeq(text, 1, i) \in Seq(C)
           /\ \A i \in 1 .. Len(text) :
                 SubSeq(text, 1, i) = Append(SubSeq(text, 1, i - 1), text[i])
  <1>1. SubSeq(text, 1, 0) = <<>> /\ SubSeq(text, 1, Len(text)) = text
    <2>1. SubSeq(text, 1, Len(text)) = text
      OBVIOUS
    <2>2. SubSeq(text, 1, 0) = <<>>
      BY EmptySeq
    <2>3. QED
      BY <2>1, <2>2
  <1>2. \A i \in 1 .. Len(text) :
            SubSeq(text, 1, i) = Append(SubSeq(text, 1, i - 1), text[i])
    BY SubSeqAppend, Zenon
  <1>3. \A i \in 0 .. Len(text) : SubSeq(text, 1, i) \in Seq(C)
    BY SubSeqProperties
  <1>4. QED
    BY <1>1, <1>2, <1>3

\* Concatenation is associative, for three texts at a time.
Regrouped(a, b, c) == (a \o b) \o c = a \o (b \o c)

LEMMA Regroup ==
    ASSUME NEW C, NEW a \in Seq(C), NEW b \in Seq(C), NEW c \in Seq(C)
    PROVE  Regrouped(a, b, c)
  BY ConcatAssociative DEF Regrouped

\* Concatenation is associative, for four texts.
Regroups(a, b, c, d) == a \o ((b \o c) \o d) = ((a \o b) \o c) \o d

LEMMA ConcatOfFour ==
    ASSUME NEW C, NEW a \in Seq(C), NEW b \in Seq(C), NEW c \in Seq(C), NEW d \in Seq(C)
    PROVE  Regroups(a, b, c, d)
  <1>1. b \o c \in Seq(C) /\ a \o b \in Seq(C)
    BY ConcatProperties
  <1>2. Regrouped(a, b \o c, d) /\ Regrouped(a, b, c)
    BY <1>1, Regroup
  <1>3. QED
    BY <1>2, Zenon DEF Regroups, Regrouped

\* What a part of a text is.
LEMMA PartIs ==
    ASSUME NEW C, NEW all \in Seq(C), NEW x \in Seq(C), NEW k \in Nat, NEW n \in Nat, n = Len(x),
           k + n <= Len(all), \A i \in 1 .. n : all[k + i] = x[i]
    PROVE  SubSeq(all, k + 1, k + n) = x
  <1>1. \A i \in (k + 1) .. (k + n) : i \in 1 .. Len(all)
    OBVIOUS
  <1>2. PICK part : part = SubSeq(all, k + 1, k + n)
    OBVIOUS
  <1>3. part \in Seq(C) /\ Len(part) = n
    BY <1>1, <1>2, SubSeqProperties
  <1>4. \A i \in 1 .. n : part[i] = all[k + i]
    BY <1>1, <1>2, SubSeqProperties
  <1>5. Len(part) = Len(x) /\ \A i \in 1 .. Len(part) : part[i] = x[i]
    BY <1>3, <1>4
  <1>6. part = x
    BY ONLY <1>3, <1>5, SeqEqual, x \in Seq(C)
  <1>7. QED
    BY <1>2, <1>6, Zenon

\* The least member of a set.
LEMMA MinIs ==
    ASSUME NEW S \in SUBSET Nat, NEW m \in S, \A i \in S : m <= i
    PROVE  Min(S) = m
  <1>1. PICK x : x = CHOOSE y \in S : \A z \in S : y <= z
    OBVIOUS
  <1>2. x \in S /\ \A z \in S : x <= z
    BY <1>1
  <1>3. x = m
    BY <1>2
  <1>4. QED
    BY <1>1, <1>3, Zenon DEF Min

\* A text with more symbols to choose from.
LEMMA WiderSeq ==
    ASSUME NEW A, NEW B, A \subseteq B, NEW text \in Seq(A)
    PROVE  text \in Seq(B)
  OBVIOUS

\* A text of two symbols.
LEMMA PairOfSymbols ==
    ASSUME NEW C, NEW c \in C, NEW d \in C
    PROVE  <<c, d>> \in Seq(C)
  OBVIOUS

=============================================================================
