------------------------------- MODULE MCServer -------------------------------
(***************************************************************************)
(* Instances of Server for TLC: the values are in the .cfg files.          *)
(***************************************************************************)
EXTENDS Server, TLC

\* Connections, workers and descriptor numbers are interchangeable.
Symmetry == Permutations(Conns) \cup Permutations(Workers) \cup Permutations(FDs)

=============================================================================
