--------------------------- MODULE MCPublication ---------------------------
(* Small instances of Publication for TLC.                                  *)
EXTENDS PublicationInvariants, TLC

Symmetry == Permutations(Proc) \cup Permutations(Txn) \cup Permutations(Foreign)
=============================================================================
