---------------------------- MODULE MCSourceLedger ----------------------------
(* A request of six records and packets of at most three. *)
EXTENDS SourceLedger
=============================================================================
