--------------------------- MODULE MCSubjectLock ---------------------------
(* Small instances of SubjectLock for TLC.                                  *)
EXTENDS SubjectLock, TLC

Symmetry == Permutations(Proc \ MayCrash) \cup Permutations(Gen)
=============================================================================
