------------------------------- MODULE Exchange -------------------------------
(***************************************************************************)
(* What the loop over the requests of a connection promises to the peer    *)
(* ("Loops over HTTP requests and handles them until socket closed",       *)
(* hs_router.h): each request gets at most one response, no request is     *)
(* taken before the one before it is answered, and none after a response   *)
(* that announces the close.                                               *)
(***************************************************************************)
EXTENDS Sequences

VARIABLES state,    \* of the connection
          answers   \* the Connection header of each response to the last request

TypeOK ==
    /\ state \in {"waiting", "serving", "over"}
    /\ answers \in {<<>>, <<"close">>, <<"keep-alive">>}

Init == state = "waiting" /\ answers = <<>>

TakeRequest ==
    /\ state = "waiting"
    /\ state' = "serving" /\ answers' = <<>>

Answer(header) ==
    /\ state = "serving" /\ answers = <<>>
    /\ answers' = <<header>> /\ UNCHANGED state

GoOn ==
    /\ state = "serving" /\ answers = <<"keep-alive">>
    /\ state' = "waiting" /\ UNCHANGED answers

\* The connection ends: as announced, because the peer or the application
\* ends it, or because a request was not answered.
End ==
    /\ state # "over"
    /\ state' = "over" /\ UNCHANGED answers

Next == TakeRequest \/ Answer("close") \/ Answer("keep-alive") \/ GoOn \/ End

Spec == Init /\ [][Next]_<<state, answers>>

=============================================================================
