---------------------------- MODULE ExportContract ----------------------------
(***************************************************************************)
(* What one export request promises about its source records, without      *)
(* counters, intervals or storage: records are covered in order, at most   *)
(* one batch at a time is in flight, a batch is handed off as a whole, and *)
(* after a handoff in doubt, or a released batch, nothing more is sent.    *)
(* SourceLedger implements this specification.                             *)
(***************************************************************************)
EXTENDS Integers

CONSTANT Ordinals   \* the source ordinals of a request, an initial part of Nat

VARIABLES
  fate,    \* per ordinal, what became of the record
  batch,   \* the ordinals of the packet in flight
  halted   \* no further packet is attempted

vars == <<fate, batch, halted>>

Fates == {"uncovered", "unsent", "confirmed", "invalid", "ambiguous"}

Init ==
  /\ fate = [o \in Ordinals |-> "uncovered"]
  /\ batch = {} /\ halted = FALSE

\* The next record of the request is found valid or invalid.
Cover(o, f) ==
  /\ f \in {"unsent", "invalid"}
  /\ fate[o] = "uncovered"
  /\ \A i \in Ordinals : i < o => fate[i] # "uncovered"
  /\ fate' = [fate EXCEPT ![o] = f]
  /\ UNCHANGED <<batch, halted>>

\* A valid record outside the batch turns out not to be encodable.
Reject(o) ==
  /\ fate[o] = "unsent" /\ o \notin batch
  /\ fate' = [fate EXCEPT ![o] = "invalid"]
  /\ UNCHANGED <<batch, halted>>

\* A record joins the batch; no earlier sendable record is skipped.
Join(o) ==
  /\ ~halted /\ fate[o] = "unsent" /\ o \notin batch
  /\ \A i \in Ordinals : i < o => fate[i] \in {"confirmed", "invalid"} \/ i \in batch
  /\ batch' = batch \cup {o}
  /\ UNCHANGED <<fate, halted>>

\* The whole batch was handed off, or the whole batch is in doubt.
Settle(f) ==
  /\ f \in {"confirmed", "ambiguous"}
  /\ ~halted /\ batch # {}
  /\ fate' = [o \in Ordinals |-> IF o \in batch THEN f ELSE fate[o]]
  /\ batch' = {}
  /\ halted' = (f = "ambiguous")

\* The batch was not handed off; its records stay unsent.
Release ==
  /\ batch' = {} /\ halted' = TRUE
  /\ UNCHANGED fate

Next ==
  \/ \E o \in Ordinals :
       \/ \E f \in {"unsent", "invalid"} : Cover(o, f)
       \/ Reject(o)
       \/ Join(o)
  \/ \E f \in {"confirmed", "ambiguous"} : Settle(f)
  \/ Release

Spec == Init /\ [][Next]_vars
=============================================================================
