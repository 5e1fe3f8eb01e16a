-------------------------- MODULE MCTransportIntent --------------------------
(* Small instances of TransportIntent for TLC.                              *)
EXTENDS TransportIntent, TLC

CONSTANTS i1, c1, c2

SourceOne == [i \in Intent |-> c1]
=============================================================================
