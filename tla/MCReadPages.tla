----------------------------- MODULE MCReadPages ----------------------------
(* Small instances of ReadPages.                                            *)
EXTENDS ReadPages, TLC

Symmetry == Permutations(Transactions) \cup Permutations(Streams)
=============================================================================
