------------------------------ MODULE MCRuntime ------------------------------
(* Small instances of Runtime. *)
EXTENDS Runtime

MCTwoShutters == {"shutdown1", "shutdown2"}
MCOneShutter  == {"shutdown1"}
=============================================================================
