---------------------------- MODULE MCFileLease ----------------------------
(* Small instances of FileLease for TLC.                                    *)
EXTENDS FileLease, TLC

Symmetry == Permutations(Proc) \cup Permutations(Gen)
=============================================================================
