----------------------------- MODULE Descriptors -----------------------------
(***************************************************************************)
(* What the server promises about the descriptors of its process: a number *)
(* has at most one holder, and only its holder gives it back.  Closing a   *)
(* number that is held by someone else is what this specification rules    *)
(* out.  Server.tla implements it when the handler is single-threaded.     *)
(***************************************************************************)
CONSTANTS Holders,  \* whoever may hold a number: connections and the listener
          Numbers,  \* descriptor numbers
          None      \* no number

VARIABLE holds      \* the number each holder has

Init == holds = [h \in Holders |-> None]

\* A number nobody holds is taken.
Take(h, n) ==
    /\ holds[h] = None
    /\ \A other \in Holders : holds[other] # n
    /\ holds' = [holds EXCEPT ![h] = n]

\* A holder gives back its own number.
GiveBack(h) ==
    /\ holds[h] # None
    /\ holds' = [holds EXCEPT ![h] = None]

Next == \E h \in Holders : GiveBack(h) \/ \E n \in Numbers : Take(h, n)

Spec == Init /\ [][Next]_holds

=============================================================================
