---------------------------- MODULE MCResetBarrier ----------------------------
(* Small instances of ResetBarrier for TLC.                                  *)
EXTENDS ResetBarrier
=============================================================================
