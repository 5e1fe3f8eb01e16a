------------------------- MODULE MCDraftTransaction -------------------------
(* Small instances of DraftTransaction for TLC.                             *)
EXTENDS DraftTransaction, TLC

Symmetry == Permutations(Drafter)
=============================================================================
