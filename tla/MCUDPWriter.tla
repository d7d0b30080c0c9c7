----------------------------- MODULE MCUDPWriter -----------------------------
(* A small instance of UDPWriter: three calls on one writer. *)
EXTENDS UDPWriter

MCCalls == {"c1", "c2", "c3"}
=============================================================================
