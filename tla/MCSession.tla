------------------------------- MODULE MCSession -------------------------------
(***************************************************************************)
(* An instance of Session for TLC: one client with a connection, one with  *)
(* two.                                                                    *)
(***************************************************************************)
EXTENDS Session, TLC

CONSTANTS ann, bob

Owners == ("a" :> ann) @@ ("b1" :> bob) @@ ("b2" :> bob)

=============================================================================
