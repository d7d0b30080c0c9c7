------------------------- MODULE SourceLedger_proofs -------------------------
(***************************************************************************)
(* Proofs about the source ledger for every request size and every packet  *)
(* limit.                                                                  *)
(*                                                                         *)
(* The interval of the open packet stands for its records only because of  *)
(* what lies around it: LedgerInv adds to the checked properties that the  *)
(* floor separates settled records from the rest, that the gap between the *)
(* floor and the packet is invalid, and that no packet is open after a     *)
(* stop.                                                                   *)
(***************************************************************************)
EXTENDS SourceLedger, FiniteSetTheorems, TLAPS

-----------------------------------------------------------------------------
(* Sizes.                                                                  *)

\* The covered records of a class form a finite set, smaller than the prefix
\* as soon as one covered record is of another class.
LEMMA CoveredFinite ==
  ASSUME covered \in Nat, NEW c
  PROVE  /\ IsFiniteSet(Covered(c)) /\ Cardinality(Covered(c)) \in Nat
         /\ Cardinality(Covered(c)) <= covered
         /\ \A o \in 0 .. covered - 1 : class[o] # c => Cardinality(Covered(c)) < covered
<1>1. IsFiniteSet(0 .. covered - 1) /\ Cardinality(0 .. covered - 1) = covered
  BY FS_Interval
<1>2. Covered(c) \in SUBSET (0 .. covered - 1)
  BY DEF Covered
<1>3. /\ IsFiniteSet(Covered(c)) /\ Cardinality(Covered(c)) <= covered
      /\ covered = Cardinality(Covered(c)) => 0 .. covered - 1 = Covered(c)
  BY <1>1, <1>2, FS_Subset
<1>4. Cardinality(Covered(c)) \in Nat
  BY <1>3, FS_CardinalityType
<1>5. ASSUME NEW o \in 0 .. covered - 1, class[o] # c PROVE Covered(c) # 0 .. covered - 1
  BY <1>5 DEF Covered
<1> QED
  BY <1>3, <1>4, <1>5

\* Two finite sets without a common element add up.
LEMMA DisjointUnion ==
  ASSUME NEW A, NEW B, IsFiniteSet(A), IsFiniteSet(B), A \cap B = {}
  PROVE  Cardinality(A \cup B) = Cardinality(A) + Cardinality(B)
<1>1. Cardinality(A \cup B) = Cardinality(A) + Cardinality(B) - Cardinality(A \cap B)
  BY FS_Union
<1>2. Cardinality(A \cap B) = 0
  BY FS_EmptySet
<1>3. Cardinality(A) \in Nat /\ Cardinality(B) \in Nat
  BY FS_CardinalityType
<1> QED
  BY <1>1, <1>2, <1>3

-----------------------------------------------------------------------------
(* The inductive invariant.                                                *)

\* Records beyond the covered prefix read as unsent (the zero bits of grown storage).
UncoveredUnsent == \A o \in Ordinals : o >= covered => class[o] = "unsent"

\* Only what is below the floor is confirmed, doubt stops the request, and
\* while it goes on everything below the floor is settled.
FloorSettled ==
  /\ ~stopped => \A o \in Ordinals : o < packetFloor => class[o] \in {"confirmed", "invalid"}
  /\ \A o \in Ordinals : class[o] = "confirmed" => o < packetFloor
  /\ \A o \in Ordinals : class[o] = "ambiguous" => stopped

\* The open packet starts at or after the floor, across invalid records only.
PacketAboveFloor ==
  packetOpen =>
    /\ ~stopped
    /\ packetValid = 0 => packetStart = 0 /\ packetEnd = 0
    /\ packetValid # 0 => /\ packetFloor <= packetStart /\ packetStart < packetEnd
                          /\ InvalidGap(packetFloor, packetStart)

\* The strengthening under which the checked properties are inductive.
LedgerInv ==
  /\ TypeOK /\ UncoveredUnsent /\ FloorSettled /\ PacketAboveFloor
  /\ IntervalIsPacket /\ HandoffInOrder /\ CountsMatchClasses

\* The initial ledger satisfies the strengthened invariant.
LEMMA LedgerInit == Init => LedgerInv
<1> SUFFICES ASSUME Init PROVE LedgerInv
  OBVIOUS
<1> USE LedgerAssumption DEF LedgerAssumption
<1>1. TypeOK
  <2>1. class \in [Ordinals -> Classes] /\ members \subseteq Ordinals
    BY DEF Init, Classes
  <2>2. covered \in 0 .. MaxSources /\ packetEnd \in 0 .. covered /\ packetFloor \in 0 .. covered
    BY DEF Init
  <2>3. packetValid \in 0 .. MaxPendingValid
    BY DEF Init
  <2> QED
    BY <2>1, <2>2, <2>3 DEF Init, TypeOK
<1>2. UncoveredUnsent /\ FloorSettled /\ PacketAboveFloor /\ HandoffInOrder /\ IntervalIsPacket
  BY DEF Init, UncoveredUnsent, FloorSettled, PacketAboveFloor, HandoffInOrder, IntervalIsPacket, Ordinals
<1>3. \A c : Covered(c) = {}
  BY DEF Init, Covered
<1>4. CountsMatchClasses
  BY <1>3, FS_EmptySet DEF Init, CountsMatchClasses
<1> QED
  BY <1>1, <1>2, <1>4 DEF LedgerInv

\* addSourceReason: an invalid record past the prefix touches no packet.
LEMMA AddSourceStep ==
  ASSUME LedgerInv, NEW ok \in BOOLEAN, AddSource(ok)
  PROVE  LedgerInv'
<1> USE LedgerAssumption DEF LedgerAssumption
<1>0. TypeOK /\ covered \in Ordinals /\ class[covered] = "unsent"
  BY DEF LedgerInv, TypeOK, AddSource, UncoveredUnsent, Ordinals
<1>1. TypeOK'
  BY <1>0 DEF AddSource, TypeOK, Ordinals, Classes, counters, packet
<1>2. (UncoveredUnsent /\ FloorSettled /\ PacketAboveFloor)'
  BY <1>0 DEF LedgerInv, AddSource, TypeOK, UncoveredUnsent, FloorSettled, PacketAboveFloor,
              InvalidGap, Ordinals, packet
<1>3. HandoffInOrder'
  BY <1>0 DEF LedgerInv, AddSource, TypeOK, HandoffInOrder, Ordinals
<1>4. IntervalIsPacket'
  BY <1>0 DEF LedgerInv, AddSource, TypeOK, IntervalIsPacket, Ordinals, packet
<1>5. CountsMatchClasses'
  <2>1. \A c : c # "unsent" => Covered(c)' = IF ~ok /\ c = "invalid" THEN Covered(c) \cup {covered} ELSE Covered(c)
    BY <1>0 DEF LedgerInv, AddSource, TypeOK, Covered, Ordinals
  <2>2. covered \notin Covered("invalid")
    BY <1>0 DEF Covered
  <2>3. IsFiniteSet(Covered("invalid"))
    BY <1>0, CoveredFinite DEF TypeOK
  <2>4. Cardinality(Covered("invalid") \cup {covered}) = Cardinality(Covered("invalid")) + 1
    BY <2>2, <2>3, FS_AddElement
  <2>5. CountsMatchClasses /\ invalid \in Nat /\ covered \in Nat
    BY <1>0 DEF LedgerInv, TypeOK
  <2> QED
    BY <2>1, <2>4, <2>5 DEF AddSource, CountsMatchClasses
<1> QED
  BY <1>1, <1>2, <1>3, <1>4, <1>5 DEF LedgerInv

\* invalidate: the record is outside the packet, and a valid one is left to take away.
LEMMA InvalidateStep ==
  ASSUME LedgerInv, NEW o \in Ordinals, Invalidate(o)
  PROVE  LedgerInv'
<1> USE LedgerAssumption DEF LedgerAssumption
<1>0. TypeOK /\ o \in 0 .. covered - 1 /\ class[o] = "unsent"
  BY DEF LedgerInv, TypeOK, Invalidate, Invalidatable, Ordinals
<1>1. TypeOK'
  <2>1. Cardinality(Covered("invalid")) < covered
    BY <1>0, CoveredFinite DEF TypeOK
  <2>2. valid > 0
    BY <1>0, <2>1 DEF LedgerInv, CountsMatchClasses, TypeOK
  <2> QED
    BY <1>0, <2>2 DEF Invalidate, TypeOK, Ordinals, Classes, counters, packet
<1>2. (UncoveredUnsent /\ FloorSettled /\ PacketAboveFloor)'
  BY <1>0 DEF LedgerInv, Invalidate, TypeOK, UncoveredUnsent, FloorSettled, PacketAboveFloor,
              InvalidGap, Ordinals, packet
<1>3. HandoffInOrder'
  BY <1>0 DEF LedgerInv, Invalidate, TypeOK, HandoffInOrder, Ordinals
<1>4. IntervalIsPacket'
  BY <1>0 DEF LedgerInv, Invalidate, Invalidatable, TypeOK, IntervalIsPacket, Ordinals, packet
<1>5. CountsMatchClasses'
  <2>1. \A c : c # "unsent" => Covered(c)' = IF c = "invalid" THEN Covered(c) \cup {o} ELSE Covered(c)
    BY <1>0 DEF LedgerInv, Invalidate, TypeOK, Covered, Ordinals
  <2>2. o \notin Covered("invalid")
    BY <1>0 DEF Covered
  <2>3. IsFiniteSet(Covered("invalid"))
    BY <1>0, CoveredFinite DEF TypeOK
  <2>4. Cardinality(Covered("invalid") \cup {o}) = Cardinality(Covered("invalid")) + 1
    BY <2>2, <2>3, FS_AddElement
  <2>5. CountsMatchClasses /\ invalid \in Nat /\ covered \in Nat
    BY <1>0 DEF LedgerInv, TypeOK
  <2> QED
    BY <2>1, <2>4, <2>5 DEF Invalidate, CountsMatchClasses
<1> QED
  BY <1>1, <1>2, <1>3, <1>4, <1>5 DEF LedgerInv

\* beginPacket opens an empty interval.
LEMMA BeginPacketStep ==
  ASSUME LedgerInv, BeginPacket
  PROVE  LedgerInv'
<1> USE LedgerAssumption DEF LedgerAssumption
<1>0. TypeOK
  BY DEF LedgerInv
<1>1. TypeOK'
  BY <1>0 DEF BeginPacket, TypeOK, counters
<1>2. (UncoveredUnsent /\ FloorSettled /\ PacketAboveFloor)'
  BY <1>0 DEF LedgerInv, BeginPacket, TypeOK, UncoveredUnsent, FloorSettled, PacketAboveFloor
<1>3. (HandoffInOrder /\ CountsMatchClasses)'
  BY DEF LedgerInv, BeginPacket, HandoffInOrder, CountsMatchClasses, Covered, counters
<1>4. IntervalIsPacket'
  BY <1>0, FS_EmptySet DEF BeginPacket, IntervalIsPacket, TypeOK, Ordinals
<1> QED
  BY <1>1, <1>2, <1>3, <1>4 DEF LedgerInv

\* addPending: the interval grows by the record and by invalid ones only.
LEMMA AddPendingStep ==
  ASSUME LedgerInv, NEW o \in Ordinals, AddPending(o)
  PROVE  LedgerInv'
<1> USE LedgerAssumption DEF LedgerAssumption
<1>0. TypeOK /\ packetOpen /\ ~stopped /\ o < covered /\ class[o] = "unsent"
  BY DEF LedgerInv, AddPending, Addable, Sendable
<1>1. TypeOK'
  BY <1>0 DEF AddPending, Addable, TypeOK, Ordinals, counters
<1>2. packetFloor <= o
  BY <1>0 DEF LedgerInv, FloorSettled, TypeOK, Ordinals
<1>3. (UncoveredUnsent /\ FloorSettled)'
  BY DEF LedgerInv, AddPending, Addable, UncoveredUnsent, FloorSettled
<1>4. PacketAboveFloor'
  <2>1. CASE packetValid = 0
    BY <1>0, <1>2, <2>1 DEF LedgerInv, AddPending, Addable, PacketAboveFloor, InvalidGap, TypeOK, Ordinals
  <2>2. CASE packetValid # 0
    BY <1>0, <2>2 DEF LedgerInv, AddPending, Addable, PacketAboveFloor, InvalidGap, TypeOK, Ordinals
  <2> QED
    BY <2>1, <2>2
<1>5. (HandoffInOrder /\ CountsMatchClasses)'
  BY DEF LedgerInv, AddPending, Addable, HandoffInOrder, CountsMatchClasses, Covered, counters
<1>6. IntervalIsPacket'
  <2> DEFINE Held(start, end) == {i \in Ordinals : start <= i /\ i < end /\ class[i] = "unsent"}
  <2>1. members = Held(packetStart, packetEnd) /\ packetValid = Cardinality(members)
    BY <1>0 DEF LedgerInv, IntervalIsPacket
  <2>2. o \notin members
    <3>1. packetValid # 0 => o >= packetEnd
      BY DEF AddPending, Addable
    <3>2. packetValid = 0 => packetEnd = 0
      BY <1>0 DEF LedgerInv, PacketAboveFloor
    <3> QED
      BY <1>0, <2>1, <3>1, <3>2 DEF TypeOK, Ordinals
  <2>3. Held(packetStart', packetEnd') = members \cup {o}
    <3>1. CASE packetValid = 0
      <4>1. packetStart' = o /\ packetEnd' = o + 1 /\ packetEnd = 0
        BY <1>0, <3>1 DEF LedgerInv, PacketAboveFloor, AddPending, Addable
      <4> QED
        BY <1>0, <2>1, <4>1 DEF TypeOK, Ordinals
    <3>2. CASE packetValid # 0
      <4>1. /\ packetStart' = packetStart /\ packetEnd' = o + 1 /\ o >= packetEnd
            /\ InvalidGap(packetEnd, o) /\ packetStart < packetEnd
        BY <1>0, <3>2 DEF LedgerInv, PacketAboveFloor, AddPending, Addable
      <4> QED
        BY <1>0, <2>1, <4>1 DEF TypeOK, Ordinals, InvalidGap
    <3> QED
      BY <3>1, <3>2
  <2>4. IsFiniteSet(members)
    <3>1. IsFiniteSet(Ordinals)
      BY FS_Interval DEF Ordinals
    <3> QED
      BY <1>0, <3>1, FS_Subset DEF TypeOK
  <2>5. Cardinality(members \cup {o}) = Cardinality(members) + 1
    BY <2>2, <2>4, FS_AddElement
  <2>6. members' = Held(packetStart', packetEnd')
    BY <2>3 DEF AddPending, Addable
  <2>7. packetValid' = Cardinality(members')
    BY <2>1, <2>5 DEF AddPending, Addable
  <2>8. class' = class
    BY DEF AddPending, Addable
  <2> QED
    BY <2>6, <2>7, <2>8 DEF IntervalIsPacket
<1> QED
  BY <1>1, <1>3, <1>4, <1>5, <1>6 DEF LedgerInv

\* What markPending does: exactly the records of the open packet take the
\* class, they are covered, and all earlier ones are settled.
LEMMA Marked ==
  ASSUME LedgerInv, packetOpen, packetValid > 0, NEW c \in {"confirmed", "ambiguous"}, MarkPending(c)
  PROVE  /\ class' = [o \in Ordinals |-> IF o \in members THEN c ELSE class[o]]
         /\ members \subseteq 0 .. covered - 1 /\ IsFiniteSet(members)
         /\ \A o \in members : packetFloor <= o /\ o < packetEnd /\ class[o] = "unsent"
         /\ \A o \in Ordinals : o < packetEnd /\ o \notin members => class[o] \in {"confirmed", "invalid"}
<1> USE LedgerAssumption DEF LedgerAssumption
<1>0. TypeOK /\ ~stopped /\ packetFloor <= packetStart /\ InvalidGap(packetFloor, packetStart)
  BY DEF LedgerInv, PacketAboveFloor, TypeOK
<1>1. members = {o \in Ordinals : packetStart <= o /\ o < packetEnd /\ class[o] = "unsent"}
  BY DEF LedgerInv, IntervalIsPacket
<1>2. class' = [o \in Ordinals |-> IF o \in members THEN c ELSE class[o]]
  BY <1>1 DEF MarkPending
<1>3. members \subseteq 0 .. covered - 1
  BY <1>0, <1>1 DEF TypeOK, Ordinals
<1>4. IsFiniteSet(members)
  <2>1. IsFiniteSet(0 .. covered - 1)
    BY <1>0, FS_Interval DEF TypeOK
  <2> QED
    BY <1>3, <2>1, FS_Subset
<1>5. \A o \in members : packetFloor <= o /\ o < packetEnd /\ class[o] = "unsent"
  BY <1>0, <1>1 DEF TypeOK, Ordinals
<1>6. ASSUME NEW o \in Ordinals, o < packetEnd, o \notin members
      PROVE  class[o] \in {"confirmed", "invalid"}
  <2>1. CASE o < packetFloor
    BY <1>0, <2>1 DEF LedgerInv, FloorSettled
  <2>2. CASE packetFloor <= o /\ o < packetStart
    BY <1>0, <2>2 DEF InvalidGap
  <2>3. CASE packetStart <= o
    <3>1. class[o] # "unsent" /\ class[o] \in Classes
      BY <1>0, <1>1, <1>6, <2>3 DEF TypeOK
    <3>2. class[o] # "ambiguous"
      BY <1>0 DEF LedgerInv, FloorSettled
    <3> QED
      BY <3>1, <3>2 DEF Classes
  <2> QED
    BY <1>0, <2>1, <2>2, <2>3 DEF TypeOK, Ordinals
<1> QED
  BY <1>2, <1>3, <1>4, <1>5, <1>6

\* Marking the packet adds its records to one class and to no other.
LEMMA MarkedCounts ==
  ASSUME LedgerInv, packetOpen, packetValid > 0, NEW c \in {"confirmed", "ambiguous"}, MarkPending(c),
         covered' = covered
  PROVE  /\ Cardinality(Covered(c)') = Cardinality(Covered(c)) + packetValid
         /\ \A d : d \notin {c, "unsent"} => Covered(d)' = Covered(d)
<1> USE LedgerAssumption DEF LedgerAssumption
<1>0. TypeOK /\ packetValid = Cardinality(members)
  BY DEF LedgerInv, IntervalIsPacket
<1>1. 0 .. covered - 1 \subseteq Ordinals
  BY <1>0 DEF TypeOK, Ordinals
<1>2. Covered(c)' = Covered(c) \cup members
  BY <1>1, Marked DEF Covered
<1>3. Covered(c) \cap members = {}
  BY Marked DEF Covered
<1>4. \A d : d \notin {c, "unsent"} => Covered(d)' = Covered(d)
  BY <1>1, Marked DEF Covered
<1>5. IsFiniteSet(Covered(c)) /\ IsFiniteSet(members)
  BY <1>0, CoveredFinite, Marked DEF TypeOK
<1>6. Cardinality(Covered(c) \cup members) = Cardinality(Covered(c)) + Cardinality(members)
  BY <1>3, <1>5, DisjointUnion
<1> QED
  BY <1>0, <1>2, <1>4, <1>6

\* A closed packet is well typed.
LEMMA ClosedTypes ==
  ASSUME TypeOK, ClosePacket, covered' = covered
  PROVE  /\ packetOpen' \in BOOLEAN /\ packetStart' \in Nat /\ packetEnd' \in 0 .. covered'
         /\ packetValid' \in 0 .. MaxPendingValid /\ members' \subseteq Ordinals
<1>1. packetOpen' \in BOOLEAN /\ packetStart' \in Nat /\ members' \subseteq Ordinals
  BY DEF ClosePacket
<1>2. packetEnd' \in 0 .. covered'
  BY DEF ClosePacket, TypeOK
<1>3. packetValid' \in 0 .. MaxPendingValid
  BY LedgerAssumption DEF LedgerAssumption, ClosePacket
<1> QED
  BY <1>1, <1>2, <1>3

\* resolvePacket of a full write: the floor moves to the end of the packet.
LEMMA ResolveFullStep ==
  ASSUME LedgerInv, ResolveFull
  PROVE  LedgerInv'
<1> USE LedgerAssumption DEF LedgerAssumption
<1>0. TypeOK /\ packetOpen /\ packetValid > 0 /\ ~stopped /\ MarkPending("confirmed")
  BY DEF LedgerInv, ResolveFull, PacketAboveFloor
<1>1. /\ class' = [o \in Ordinals |-> IF o \in members THEN "confirmed" ELSE class[o]]
      /\ members \subseteq 0 .. covered - 1
      /\ \A o \in members : packetFloor <= o /\ o < packetEnd /\ class[o] = "unsent"
      /\ \A o \in Ordinals : o < packetEnd /\ o \notin members => class[o] \in {"confirmed", "invalid"}
  BY <1>0, Marked
<1>2. TypeOK'
  <2>1. class' \in [Ordinals -> Classes]
    BY <1>0, <1>1 DEF TypeOK, Classes
  <2> QED
    BY <1>0, <2>1, ClosedTypes DEF ResolveFull, TypeOK
<1>3. packetFloor <= packetEnd
  BY <1>0 DEF LedgerInv, PacketAboveFloor, TypeOK
<1>4. UncoveredUnsent'
  BY <1>0, <1>1 DEF LedgerInv, UncoveredUnsent, ResolveFull, TypeOK, Ordinals
<1>5. FloorSettled'
  BY <1>0, <1>1, <1>3 DEF LedgerInv, FloorSettled, ResolveFull, TypeOK, Ordinals
<1>6. (PacketAboveFloor /\ IntervalIsPacket)'
  BY DEF ResolveFull, ClosePacket, PacketAboveFloor, IntervalIsPacket
<1>7. HandoffInOrder'
  BY <1>0, <1>2, <1>5 DEF FloorSettled, HandoffInOrder, ResolveFull, TypeOK, Ordinals
<1>8. CountsMatchClasses'
  <2>1. /\ Cardinality(Covered("confirmed")') = Cardinality(Covered("confirmed")) + packetValid
        /\ Covered("invalid")' = Covered("invalid") /\ Covered("ambiguous")' = Covered("ambiguous")
    BY <1>0, MarkedCounts DEF ResolveFull
  <2> QED
    BY <2>1 DEF LedgerInv, CountsMatchClasses, ResolveFull
<1> QED
  BY <1>2, <1>4, <1>5, <1>6, <1>7, <1>8 DEF LedgerInv

\* resolvePacket of a write in doubt: it lies above everything confirmed, and
\* the request stops.
LEMMA ResolveAmbiguousStep ==
  ASSUME LedgerInv, ResolveAmbiguous
  PROVE  LedgerInv'
<1> USE LedgerAssumption DEF LedgerAssumption
<1>0. TypeOK /\ packetOpen /\ packetValid > 0 /\ ~stopped /\ MarkPending("ambiguous")
  BY DEF LedgerInv, ResolveAmbiguous, PacketAboveFloor
<1>1. /\ class' = [o \in Ordinals |-> IF o \in members THEN "ambiguous" ELSE class[o]]
      /\ members \subseteq 0 .. covered - 1
      /\ \A o \in members : packetFloor <= o /\ o < packetEnd /\ class[o] = "unsent"
      /\ \A o \in Ordinals : o < packetEnd /\ o \notin members => class[o] \in {"confirmed", "invalid"}
  BY <1>0, Marked
<1>2. TypeOK'
  <2>1. class' \in [Ordinals -> Classes]
    BY <1>0, <1>1 DEF TypeOK, Classes
  <2> QED
    BY <1>0, <2>1, ClosedTypes DEF ResolveAmbiguous, TypeOK
<1>3. UncoveredUnsent'
  BY <1>0, <1>1 DEF LedgerInv, UncoveredUnsent, ResolveAmbiguous, TypeOK, Ordinals
<1>4. FloorSettled'
  BY <1>0, <1>1 DEF LedgerInv, FloorSettled, ResolveAmbiguous, TypeOK, Ordinals
<1>5. (PacketAboveFloor /\ IntervalIsPacket)'
  BY DEF ResolveAmbiguous, ClosePacket, PacketAboveFloor, IntervalIsPacket
<1>6. HandoffInOrder'
  <2> SUFFICES ASSUME NEW i \in Ordinals, NEW j \in Ordinals, i < j,
                      class'[j] \in {"confirmed", "ambiguous"}
               PROVE  /\ class'[i] # "unsent"
                      /\ class'[i] = "ambiguous" => class'[j] = "ambiguous"
    BY DEF HandoffInOrder
  <2>1. CASE j \in members
    BY <1>0, <1>1, <2>1 DEF TypeOK, Ordinals
  <2>2. CASE j \notin members
    <3>1. class[j] = "confirmed" /\ j < packetFloor
      BY <1>0, <1>1, <2>2 DEF LedgerInv, FloorSettled, TypeOK
    <3>2. i \notin members /\ class[i] \in {"confirmed", "invalid"}
      BY <1>0, <1>1, <3>1 DEF LedgerInv, FloorSettled, TypeOK, Ordinals
    <3> QED
      BY <1>1, <3>2
  <2> QED
    BY <2>1, <2>2
<1>7. CountsMatchClasses'
  <2>1. /\ Cardinality(Covered("ambiguous")') = Cardinality(Covered("ambiguous")) + packetValid
        /\ Covered("invalid")' = Covered("invalid") /\ Covered("confirmed")' = Covered("confirmed")
    BY <1>0, MarkedCounts DEF ResolveAmbiguous
  <2> QED
    BY <2>1 DEF LedgerInv, CountsMatchClasses, ResolveAmbiguous
<1> QED
  BY <1>2, <1>3, <1>4, <1>5, <1>6, <1>7 DEF LedgerInv

\* abortPacket changes no class.
LEMMA AbortPacketStep ==
  ASSUME LedgerInv, AbortPacket
  PROVE  LedgerInv'
<1> USE LedgerAssumption DEF LedgerAssumption
<1>1. TypeOK'
  BY ClosedTypes DEF LedgerInv, AbortPacket, TypeOK, counters
<1>2. (UncoveredUnsent /\ FloorSettled /\ PacketAboveFloor /\ IntervalIsPacket)'
  BY DEF LedgerInv, AbortPacket, ClosePacket, UncoveredUnsent, FloorSettled, PacketAboveFloor, IntervalIsPacket
<1>3. (HandoffInOrder /\ CountsMatchClasses)'
  BY DEF LedgerInv, AbortPacket, HandoffInOrder, CountsMatchClasses, Covered, counters
<1> QED
  BY <1>1, <1>2, <1>3 DEF LedgerInv

\* A stuttering step of the ledger keeps the invariant.
LEMMA StutterStep ==
  ASSUME LedgerInv, UNCHANGED vars
  PROVE  LedgerInv'
BY DEF LedgerInv, vars, counters, packet, TypeOK, UncoveredUnsent, FloorSettled, PacketAboveFloor,
       InvalidGap, IntervalIsPacket, HandoffInOrder, CountsMatchClasses, Covered

\* The counters tell whether any record is valid and whether any was confirmed.
LEMMA CountsDecide ==
  ASSUME LedgerInv
  PROVE  /\ confirmed = 0 => \A o \in 0 .. covered - 1 : class[o] # "confirmed"
         /\ valid = 0 => \A o \in 0 .. covered - 1 : class[o] = "invalid"
<1>0. covered \in Nat /\ CountsMatchClasses
  BY LedgerAssumption DEF LedgerAssumption, LedgerInv, TypeOK
<1>1. ASSUME confirmed = 0 PROVE \A o \in 0 .. covered - 1 : class[o] # "confirmed"
  <2>1. IsFiniteSet(Covered("confirmed")) /\ Cardinality(Covered("confirmed")) = 0
    BY <1>0, <1>1, CoveredFinite DEF CountsMatchClasses
  <2>2. Covered("confirmed") = {}
    BY <2>1, FS_EmptySet
  <2> QED
    BY <2>2 DEF Covered
<1>2. ASSUME valid = 0 PROVE \A o \in 0 .. covered - 1 : class[o] = "invalid"
  <2>1. /\ Cardinality(Covered("invalid")) \in Nat
        /\ \A o \in 0 .. covered - 1 : class[o] # "invalid" => Cardinality(Covered("invalid")) < covered
    BY <1>0, CoveredFinite
  <2>2. Cardinality(Covered("invalid")) = covered
    BY <1>0, <1>2, <2>1 DEF CountsMatchClasses
  <2> QED
    BY <1>0, <2>1, <2>2
<1> QED
  BY <1>1, <1>2

-----------------------------------------------------------------------------
(* Theorems.                                                               *)

\* The strengthened invariant holds in every state of every request.
THEOREM LedgerInvariant == Spec => []LedgerInv
<1>1. LedgerInv /\ [Next]_vars => LedgerInv'
  BY AddSourceStep, InvalidateStep, BeginPacketStep, AddPendingStep, ResolveFullStep,
     ResolveAmbiguousStep, AbortPacketStep, StutterStep DEF Next
<1> QED
  BY LedgerInit, <1>1, PTL DEF Spec

\* The fields of sourceLedger keep their types: the valid counter does not go
\* below zero and the packet stays inside the covered prefix.
THEOREM LedgerTypes == Spec => []TypeOK
<1>1. LedgerInv => TypeOK
  BY DEF LedgerInv
<1> QED
  BY LedgerInvariant, <1>1, PTL

\* The counters a result reports are the sizes of the classes.
THEOREM CountsAreSizes == Spec => []CountsMatchClasses
<1>1. LedgerInv => CountsMatchClasses
  BY DEF LedgerInv
<1> QED
  BY LedgerInvariant, <1>1, PTL

\* The ordinal interval stands for exactly the records of the open packet.
THEOREM IntervalExact == Spec => []IntervalIsPacket
<1>1. LedgerInv => IntervalIsPacket
  BY DEF LedgerInv
<1> QED
  BY LedgerInvariant, <1>1, PTL

\* Records are handed off in source order, doubt last.
THEOREM HandoffOrdered == Spec => []HandoffInOrder
<1>1. LedgerInv => HandoffInOrder
  BY DEF LedgerInv
<1> QED
  BY LedgerInvariant, <1>1, PTL

-----------------------------------------------------------------------------
(* Refinement.                                                             *)

\* While a packet is open, its interval is the batch and holds the members.
LEMMA BatchIsMembers ==
  ASSUME LedgerInv
  PROVE  /\ packetOpen => Batch = members
         /\ ~packetOpen => Batch = {}
BY DEF LedgerInv, IntervalIsPacket, Batch

\* Covering a record is Cover.
LEMMA AddSourceRefines ==
  ASSUME LedgerInv, NEW ok \in BOOLEAN, AddSource(ok)
  PROVE  Contract!Next
<1> USE LedgerAssumption DEF LedgerAssumption
<1> DEFINE f == IF ok THEN "unsent" ELSE "invalid"
<1>0. TypeOK /\ covered \in Ordinals /\ class[covered] = "unsent"
  BY DEF LedgerInv, TypeOK, AddSource, UncoveredUnsent, Ordinals
<1>1. Fate[covered] = "uncovered" /\ \A i \in Ordinals : i < covered => Fate[i] # "uncovered"
  BY <1>0 DEF Fate, TypeOK, Classes, Ordinals
<1>2. Fate' = [Fate EXCEPT ![covered] = f]
  <2>1. class'[covered] = f /\ \A i \in Ordinals : i # covered => class'[i] = class[i]
    BY <1>0 DEF AddSource, TypeOK
  <2>2. \A i \in Ordinals : i < covered + 1 <=> i < covered \/ i = covered
    BY <1>0 DEF TypeOK, Ordinals
  <2>3. covered' = covered + 1
    BY DEF AddSource
  <2> HIDE DEF f
  <2> QED
    BY <1>0, <2>1, <2>2, <2>3 DEF Fate
<1>3. Batch' = Batch /\ stopped' = stopped
  BY <1>0 DEF AddSource, Batch, TypeOK, Ordinals, packet
<1>4. Contract!Cover(covered, f)
  BY <1>1, <1>2, <1>3 DEF Contract!Cover
<1> QED
  BY <1>0, <1>4 DEF Contract!Next

\* invalidate is Reject.
LEMMA InvalidateRefines ==
  ASSUME LedgerInv, NEW o \in Ordinals, Invalidate(o)
  PROVE  Contract!Next
<1> USE LedgerAssumption DEF LedgerAssumption
<1>0. TypeOK /\ o < covered /\ class[o] = "unsent"
  BY DEF LedgerInv, Invalidate, Invalidatable
<1>1. Fate[o] = "unsent" /\ o \notin Batch
  BY <1>0 DEF Invalidate, Invalidatable, Fate, Batch
<1>2. Fate' = [Fate EXCEPT ![o] = "invalid"]
  BY <1>0 DEF Invalidate, Fate, TypeOK, Ordinals
<1>3. Batch' = Batch /\ stopped' = stopped
  BY <1>0, <1>1 DEF Invalidate, Batch, TypeOK, Ordinals, packet
<1>4. Contract!Reject(o)
  BY <1>1, <1>2, <1>3 DEF Contract!Reject
<1> QED
  BY <1>4 DEF Contract!Next

\* addPending is Join: everything before the record is settled or in the batch.
LEMMA AddPendingRefines ==
  ASSUME LedgerInv, NEW o \in Ordinals, AddPending(o)
  PROVE  Contract!Next
<1> USE LedgerAssumption DEF LedgerAssumption
<1>0. TypeOK /\ packetOpen /\ ~stopped /\ o < covered /\ class[o] = "unsent"
  BY DEF LedgerInv, AddPending, Addable, Sendable
<1>1. Batch = members /\ Batch' = members'
  <2>1. IntervalIsPacket /\ IntervalIsPacket' /\ packetOpen'
    BY <1>0, AddPendingStep DEF LedgerInv, AddPending, Addable
  <2> QED
    BY <1>0, <2>1 DEF IntervalIsPacket, Batch
<1>2. o \notin Batch
  BY <1>0 DEF LedgerInv, AddPending, Addable, PacketAboveFloor, Batch, TypeOK, Ordinals
<1>3. Fate[o] = "unsent" /\ Fate' = Fate
  BY <1>0 DEF AddPending, Addable, Fate
<1>4. ASSUME NEW i \in Ordinals, i < o PROVE Fate[i] \in {"confirmed", "invalid"} \/ i \in Batch
  <2>1. Fate[i] = class[i] /\ class[i] \in Classes /\ class[i] # "ambiguous"
    BY <1>0, <1>4 DEF LedgerInv, FloorSettled, Fate, TypeOK, Ordinals
  <2>2. CASE i < packetFloor
    BY <1>0, <2>1, <2>2 DEF LedgerInv, FloorSettled
  <2>3. CASE packetFloor <= i /\ packetValid = 0
    BY <1>4, <2>1, <2>3 DEF AddPending, Addable, InvalidGap
  <2>4. CASE packetFloor <= i /\ packetValid # 0
    <3>1. CASE i < packetStart
      BY <1>0, <2>1, <2>4, <3>1 DEF LedgerInv, PacketAboveFloor, InvalidGap
    <3>2. CASE packetStart <= i /\ i < packetEnd
      BY <1>0, <2>1, <3>2 DEF Batch, Classes
    <3>3. CASE packetEnd <= i
      BY <1>4, <2>1, <2>4, <3>3 DEF AddPending, Addable, InvalidGap
    <3> QED
      BY <1>0, <3>1, <3>2, <3>3 DEF TypeOK, Ordinals
  <2> QED
    BY <1>0, <2>2, <2>3, <2>4 DEF TypeOK, Ordinals
<1>5. Contract!Join(o)
  BY <1>0, <1>1, <1>2, <1>3, <1>4 DEF Contract!Join, AddPending, Addable
<1> QED
  BY <1>5 DEF Contract!Next

\* resolvePacket settles the whole batch, either way.
LEMMA ResolveRefines ==
  ASSUME LedgerInv, ResolveFull \/ ResolveAmbiguous
  PROVE  Contract!Next
<1> USE LedgerAssumption DEF LedgerAssumption
<1> DEFINE f == IF ResolveFull THEN "confirmed" ELSE "ambiguous"
<1>0. /\ TypeOK /\ packetOpen /\ packetValid > 0 /\ ~stopped /\ f \in {"confirmed", "ambiguous"}
      /\ MarkPending(f) /\ ClosePacket /\ covered' = covered /\ stopped' = (f = "ambiguous")
  BY DEF LedgerInv, ResolveFull, ResolveAmbiguous, PacketAboveFloor, TypeOK
<1> HIDE DEF f
<1>1. /\ class' = [o \in Ordinals |-> IF o \in members THEN f ELSE class[o]]
      /\ members \subseteq 0 .. covered - 1
  BY <1>0, Marked
<1>2. Batch = members /\ Batch' = {}
  BY <1>0, BatchIsMembers DEF ClosePacket, Batch
<1>3. members # {}
  BY <1>0, FS_EmptySet DEF LedgerInv, IntervalIsPacket, TypeOK
<1>4. Fate' = [o \in Ordinals |-> IF o \in Batch THEN f ELSE Fate[o]]
  BY <1>0, <1>1, <1>2 DEF Fate, TypeOK
<1>5. Contract!Settle(f)
  BY <1>0, <1>2, <1>3, <1>4 DEF Contract!Settle
<1> QED
  BY <1>0, <1>5 DEF Contract!Next

\* The contract's initial condition and its step relation, for those who use a ledger.
ContractInit == Contract!Init
ContractStep == [Contract!Next]_(Contract!vars)

\* A new ledger is a request of which nothing is covered.
LEMMA ContractStarts == Init => ContractInit
BY DEF Init, ContractInit, Contract!Init, Fate, Batch, Ordinals

\* Every operation of a ledger is a step of the contract, or changes nothing it sees.
LEMMA ContractSteps ==
  ASSUME LedgerInv, [Next]_vars
  PROVE  ContractStep
<1>1. CASE BeginPacket
  BY <1>1, BeginPacketStep, BatchIsMembers
     DEF BeginPacket, LedgerInv, IntervalIsPacket, ContractStep, Contract!vars, Fate, Batch
<1>2. CASE AbortPacket
  <2>1. Batch' = {} /\ Fate' = Fate /\ stopped' = TRUE
    BY <1>2 DEF AbortPacket, ClosePacket, Batch, Fate
  <2> QED
    BY <2>1 DEF ContractStep, Contract!Release, Contract!Next
<1>3. CASE UNCHANGED vars
  BY <1>3 DEF vars, counters, packet, ContractStep, Contract!vars, Fate, Batch
<1> QED
  BY <1>1, <1>2, <1>3, AddSourceRefines, InvalidateRefines, AddPendingRefines, ResolveRefines DEF Next, ContractStep

\* The ledger - intervals, counters and two-bit classes - implements the
\* export contract: no record is skipped, split from its packet, or sent after
\* a stop.
THEOREM LedgerImplementsContract == Spec => ImplementsContract
<1>1. Init => Contract!Init
  BY ContractStarts DEF ContractInit
<1>2. LedgerInv /\ [Next]_vars => [Contract!Next]_(Contract!vars)
  BY ContractSteps DEF ContractStep
<1> QED
  BY <1>1, <1>2, LedgerInvariant, PTL DEF Spec, ImplementsContract, Contract!Spec
=============================================================================
