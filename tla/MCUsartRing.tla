---------------------------- MODULE MCUsartRing ----------------------------
(* A transmit ring of four cells holds three bytes, a receive ring of      *)
(* three holds two: both wrap within a few operations, and can be found    *)
(* empty, full and in between at every cell.                               *)
EXTENDS UsartRing
=============================================================================
