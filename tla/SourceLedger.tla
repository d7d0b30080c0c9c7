----------------------------- MODULE SourceLedger -----------------------------
(***************************************************************************)
(* The request-local source ledger of internal/destination/ledger.go: one  *)
(* class per source ordinal, scalar counters, and one open packet that is  *)
(* recorded as an ordinal interval only - there is no pending bit per      *)
(* record.  Resolving the packet marks every unsent ordinal of the         *)
(* interval, so the ledger is right only if the interval holds nothing but *)
(* the packet's own records and invalid gaps.                              *)
(*                                                                         *)
(* The four two-bit classes are one function over Ordinals.  An ordinal    *)
(* that is not covered yet reads as "unsent", as the zero bits of grown    *)
(* storage do.  rejectionCounts, a histogram of reasons, is left out.      *)
(***************************************************************************)
EXTENDS Integers, FiniteSets

CONSTANTS
  MaxSources,       \* bound: records of a request
  MaxPendingValid   \* maxPendingValid: valid records of one packet

ASSUME LedgerAssumption == MaxSources \in Nat /\ MaxPendingValid \in Nat \ {0}

VARIABLES
  class, covered, valid, invalid, confirmed, ambiguous,
  packetOpen, packetStart, packetEnd, packetValid, packetFloor, stopped,
  members           \* history: the ordinals given to addPending for the open packet

counters == <<valid, invalid, confirmed, ambiguous>>
packet   == <<packetOpen, packetStart, packetEnd, packetValid, packetFloor, stopped, members>>
vars     == <<class, covered, counters, packet>>

Ordinals == 0 .. MaxSources - 1
Classes  == {"unsent", "confirmed", "invalid", "ambiguous"}

Init ==
  /\ class = [o \in Ordinals |-> "unsent"] /\ covered = 0
  /\ valid = 0 /\ invalid = 0 /\ confirmed = 0 /\ ambiguous = 0
  /\ packetOpen = FALSE /\ packetStart = 0 /\ packetEnd = 0 /\ packetValid = 0
  /\ packetFloor = 0 /\ stopped = FALSE /\ members = {}

-----------------------------------------------------------------------------
(* Sources.                                                                *)

\* addSourceReason: the next ordinal of the covered prefix.
AddSource(ok) ==
  /\ covered < MaxSources
  /\ covered' = covered + 1
  /\ class' = IF ok THEN class ELSE [class EXCEPT ![covered] = "invalid"]
  /\ valid' = IF ok THEN valid + 1 ELSE valid
  /\ invalid' = IF ok THEN invalid ELSE invalid + 1
  /\ UNCHANGED <<confirmed, ambiguous, packet>>

\* Mutant of Invalidatable: records of the open packet may be invalidated.
InvalidatableAnywhere(o) == o < covered /\ class[o] = "unsent"

\* The checks of invalidate: an unsent valid record outside the open packet.
Invalidatable(o) ==
  /\ o < covered /\ class[o] = "unsent"
  /\ ~(packetOpen /\ packetStart <= o /\ o < packetEnd)

\* Mutant of Invalidate: the record stays among the valid ones.
InvalidateCountedTwice(o) ==
  /\ Invalidatable(o)
  /\ class' = [class EXCEPT ![o] = "invalid"]
  /\ invalid' = invalid + 1
  /\ UNCHANGED <<valid, covered, confirmed, ambiguous, packet>>

Invalidate(o) ==
  /\ Invalidatable(o)
  /\ class' = [class EXCEPT ![o] = "invalid"]
  /\ valid' = valid - 1 /\ invalid' = invalid + 1
  /\ UNCHANGED <<covered, confirmed, ambiguous, packet>>

-----------------------------------------------------------------------------
(* The open packet.                                                        *)

BeginPacket ==
  /\ ~stopped /\ ~packetOpen
  /\ packetOpen' = TRUE
  /\ packetStart' = 0 /\ packetEnd' = 0 /\ packetValid' = 0 /\ members' = {}
  /\ UNCHANGED <<class, covered, counters, packetFloor, stopped>>

\* Mutant of InvalidGap: the last ordinal of the gap is not inspected.
InvalidGapShort(first, end) == \A o \in Ordinals : first <= o /\ o < end - 1 => class[o] = "invalid"

\* invalidGap: nothing but invalid records from first up to end.
InvalidGap(first, end) == \A o \in Ordinals : first <= o /\ o < end => class[o] = "invalid"

\* A covered record that is valid and not handed off.
Sendable(o) == o < covered /\ class[o] = "unsent"

\* The checks of addPending: the record extends the packet across invalid
\* records only.
Addable(o) ==
  /\ ~stopped /\ packetOpen /\ Sendable(o)
  /\ packetValid < MaxPendingValid
  /\ IF packetValid = 0 THEN InvalidGap(packetFloor, o)
     ELSE o >= packetEnd /\ InvalidGap(packetEnd, o)

AddPending(o) ==
  /\ Addable(o)
  /\ packetStart' = IF packetValid = 0 THEN o ELSE packetStart
  /\ packetEnd' = o + 1
  /\ packetValid' = packetValid + 1
  /\ members' = members \cup {o}
  /\ UNCHANGED <<class, covered, counters, packetOpen, packetFloor, stopped>>

ClosePacket ==
  /\ packetOpen' = FALSE
  /\ packetStart' = 0 /\ packetEnd' = 0 /\ packetValid' = 0 /\ members' = {}

\* markPending: every unsent ordinal of the interval takes the class.
MarkPending(c) ==
  class' = [o \in Ordinals |->
              IF packetStart <= o /\ o < packetEnd /\ class[o] = "unsent" THEN c ELSE class[o]]

\* resolvePacket for a full write.
ResolveFull ==
  /\ packetOpen /\ packetValid > 0
  /\ MarkPending("confirmed")
  /\ confirmed' = confirmed + packetValid
  /\ packetFloor' = packetEnd
  /\ ClosePacket
  /\ UNCHANGED <<covered, valid, invalid, ambiguous, stopped>>

\* Mutant of ResolveAmbiguous: the request goes on after a handoff in doubt.
ResolveAmbiguousGoingOn ==
  /\ packetOpen /\ packetValid > 0
  /\ MarkPending("ambiguous")
  /\ ambiguous' = ambiguous + packetValid
  /\ packetFloor' = packetEnd
  /\ ClosePacket
  /\ UNCHANGED <<covered, valid, invalid, confirmed, stopped>>

\* resolvePacket for every other legal write result.
ResolveAmbiguous ==
  /\ packetOpen /\ packetValid > 0
  /\ MarkPending("ambiguous")
  /\ ambiguous' = ambiguous + packetValid
  /\ stopped' = TRUE
  /\ ClosePacket
  /\ UNCHANGED <<covered, valid, invalid, confirmed, packetFloor>>

\* abortPacket: the records stay unsent and nothing more is attempted.
AbortPacket ==
  /\ packetOpen
  /\ stopped' = TRUE
  /\ ClosePacket
  /\ UNCHANGED <<class, covered, counters, packetFloor>>

Next ==
  \/ \E ok \in BOOLEAN : AddSource(ok)
  \/ \E o \in Ordinals : Invalidate(o) \/ AddPending(o)
  \/ BeginPacket \/ ResolveFull \/ ResolveAmbiguous \/ AbortPacket

Spec == Init /\ [][Next]_vars

-----------------------------------------------------------------------------
(* Properties.                                                             *)

\* Every field of sourceLedger keeps its type; the covered prefix bounds every ordinal.
TypeOK ==
  /\ class \in [Ordinals -> Classes] /\ covered \in 0 .. MaxSources
  /\ valid \in Nat /\ invalid \in Nat /\ confirmed \in Nat /\ ambiguous \in Nat
  /\ packetOpen \in BOOLEAN /\ packetStart \in Nat /\ packetEnd \in 0 .. covered
  /\ packetValid \in 0 .. MaxPendingValid /\ packetFloor \in 0 .. covered
  /\ stopped \in BOOLEAN /\ members \subseteq Ordinals

Covered(c) == {o \in 0 .. covered - 1 : class[o] = c}

\* The counters a PackResult reports are the sizes of the classes: no record is
\* counted twice or lost by invalidation, resolution or abort.
CountsMatchClasses ==
  /\ invalid = Cardinality(Covered("invalid"))
  /\ confirmed = Cardinality(Covered("confirmed"))
  /\ ambiguous = Cardinality(Covered("ambiguous"))
  /\ valid = covered - invalid

\* The interval stands for exactly the records added to the open packet, so
\* markPending needs no per-record pending bit (ledger.go:242-246).
IntervalIsPacket ==
  packetOpen =>
    /\ members = {o \in Ordinals : packetStart <= o /\ o < packetEnd /\ class[o] = "unsent"}
    /\ packetValid = Cardinality(members)

\* Records are handed off in order: nothing sendable precedes a confirmed
\* record, and what is in doubt follows everything confirmed.
HandoffInOrder ==
  \A i, j \in Ordinals : i < j /\ class[j] \in {"confirmed", "ambiguous"} =>
    /\ class[i] # "unsent"
    /\ class[i] = "ambiguous" => class[j] = "ambiguous"

\* The contract's view of the ledger: the packet is read off its interval.
Fate  == [o \in Ordinals |-> IF o < covered THEN class[o] ELSE "uncovered"]
Batch == {o \in Ordinals : packetOpen /\ packetStart <= o /\ o < packetEnd /\ class[o] = "unsent"}

Contract == INSTANCE ExportContract WITH fate <- Fate, batch <- Batch, halted <- stopped

\* The ledger implements the export contract.
ImplementsContract == Contract!Spec
=============================================================================
