----------------------------- MODULE MCResolver -----------------------------
(* A small instance of Resolver. *)
EXTENDS Resolver

MCOwners == {"start", "dns"}
MCAddresses == {1, 2, 3}
=============================================================================
