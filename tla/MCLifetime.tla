------------------------------ MODULE MCLifetime ------------------------------
(* A small instance of Lifetime, for v5. *)
EXTENDS Lifetime

\* Readings before, at and after the origin, one unaligned, one past the uptime limit
\* and one that no header can hold.
MCWalls == {1, 2, 4, 5, 8, 11}
MCMonos == {0, 2}
=============================================================================
