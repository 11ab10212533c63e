-------------------------------- MODULE Pairs --------------------------------
(***************************************************************************)
(* hs_types_array.c and hs_types_cookie.c: the growing arrays of keys and  *)
(* values that hold headers, query strings and cookies.  An array is a     *)
(* sequence of pairs; keys may repeat.                                     *)
(***************************************************************************)
EXTENDS SequencesExt, Integers

CONSTANT Null  \* NULL, for keys and values

Pair(key, value) == [key |-> key, value |-> value]

-----------------------------------------------------------------------------
\* Faulty variants, each put in place of an operator below to see that a
\* property can fail.

\* The array is searched from its start while pairs are removed from it.
RemoveByKeyForward(pairs, key) ==
    LET after[i \in 0 .. Len(pairs)] ==
            IF i = 0 THEN pairs
            ELSE IF i <= Len(after[i - 1]) /\ after[i - 1][i].key = key THEN RemoveAt(after[i - 1], i)
            ELSE after[i - 1]
    IN  after[Len(pairs)]

-----------------------------------------------------------------------------
\* _hs_types_array_pair_add: a pair without a key is not added.
AddPair(pairs, key, value) ==
    IF key = Null THEN pairs ELSE Append(pairs, Pair(key, value))

\* hs_types_cookies_add: a cookie needs a name and a value.
AddCookie(cookies, name, value) ==
    IF Null \in {name, value} THEN cookies ELSE Append(cookies, Pair(name, value))

\* _hs_types_array_pair_get_by_key, hs_types_cookies_get_by_name: the first.
GetByKey(pairs, key) ==
    LET at == SelectInSeq(pairs, LAMBDA pair : pair.key = key)
    IN  IF at = 0 THEN Null ELSE pairs[at].value

\* _hs_types_array_pair_remove_by_key, hs_types_cookies_remove_by_name: from
\* the last index to the first, removing in place.  after[i] is the array
\* once i indexes have been looked at.
RemoveByKey(pairs, key) ==
    LET after[i \in 0 .. Len(pairs)] ==
            IF i = 0 THEN pairs
            ELSE LET index == Len(pairs) - i + 1
                 IN  IF after[i - 1][index].key = key THEN RemoveAt(after[i - 1], index)
                     ELSE after[i - 1]
    IN  after[Len(pairs)]

=============================================================================
