-------------------------- MODULE MCDestinationState --------------------------
(* Small instances of DestinationState: one per protocol, chosen in the cfg. *)
EXTENDS DestinationState

\* Two aligned readings around the origin, one unaligned, one past the uptime limit.
MCWalls == {2, 4, 5, 8}
MCMonos == {0, 2}
=============================================================================
