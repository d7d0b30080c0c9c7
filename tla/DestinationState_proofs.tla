----------------------- MODULE DestinationState_proofs -----------------------
(***************************************************************************)
(* Proofs about the destination state for every catalog size, refresh      *)
(* count, clock and write result, and every interleaving of Restart,       *)
(* AbortBootstrap and RefreshDue with a write in flight: first the types   *)
(* and the header times, then the appender, the header, the sequence       *)
(* number, the bootstrap before data, and the refresh rounds.              *)
(*                                                                         *)
(* The many operations of State change the protocol fields in only a few   *)
(* ways.  The second half names those kinds of step and shows that every   *)
(* step is of one of them; each invariant is then proved kind by kind.     *)
(*                                                                         *)
(* The end is about the uptime gauges, for every interleaving of a         *)
(* collection with the operations of State.  Beside the header times they  *)
(* need that a published epoch has an origin and that the last datagram on *)
(* the wire is representable against the origin in force now: a bootstrap  *)
(* that was given up takes its origin along, and the next one captures a   *)
(* later instant than anything on the wire.                                *)
(***************************************************************************)
EXTENDS Lifetime, TLAPS

-----------------------------------------------------------------------------
(* Operators.                                                              *)

\* ClassifyWrite calls a result invalid exactly when the count is outside the datagram.
LEMMA InvalidResult ==
  ASSUME NEW n \in Int, NEW length \in Nat \ {0}, NEW err \in BOOLEAN
  PROVE  ClassifyWrite(n, length, err) = "invalid" <=> n \notin 0 .. length
BY DEF ClassifyWrite

\* A clamped reading is a time and never older than the last reservation.
LEMMA ClampBounds ==
  ASSUME NEW wall \in Nat, lastReservedWall \in Times
  PROVE  Clamp(wall) \in Nat /\ Clamp(wall) >= lastReservedWall
BY DEF Clamp, Times, NoTime

\* The due mark is a truth value.
LEMMA DueBoolean == \A mono : DueAt(mono) \in BOOLEAN
BY DEF DueAt, MarkedDue

-----------------------------------------------------------------------------
(* Types.                                                                  *)

\* Rounds never reach InitialCopies, a published epoch starts every round at
\* zero, and a template reserved in one belongs to an active refresh; the
\* same holds of what a rollback would restore.
RoundsInRange ==
  /\ templateRound < InitialCopies /\ (epoch.ready => templateRound = 0)
  /\ pending # NoPacket =>
       /\ pending.prior.templateRound < InitialCopies
       /\ epoch.ready => pending.prior.templateRound = 0
       /\ epoch.ready /\ pending.template => refreshActive

\* The invariant under which the types are inductive.
TypeInv == TypeOK /\ RoundsInRange

\* A new State is well typed.
LEMMA TypeInit == Init => TypeInv
<1> SUFFICES ASSUME Init PROVE TypeInv
  OBVIOUS
<1> USE StateAssumption DEF StateAssumption, Normalized
<1>1. epoch \in Epoch /\ result \in Result
  BY DEF Init, NewEpoch, Epoch, Times, NoTime, Result, NoResult
<1>2. nextTemplateIndex \in Shapes /\ templateRound \in 0 .. InitialCopies
  BY DEF Init, Shapes
<1>3. copies \in [Shapes -> 0 .. InitialCopies] /\ fresh \subseteq Shapes
  BY DEF Init
<1>4. TypeOK
  BY <1>1, <1>2, <1>3 DEF Init, TypeOK, Times
<1>5. RoundsInRange
  BY DEF Init, RoundsInRange
<1> QED
  BY <1>4, <1>5 DEF TypeInv

\* What a reservation puts into pending.
LEMMA NewPacketTypes ==
  ASSUME TypeInv, NEW template \in BOOLEAN, NEW streamed \in BOOLEAN, NEW shape \in Shapes,
         NEW records \in 0 .. MaxRecords, NEW mono \in Nat, NEW t \in Nat
  PROVE  /\ NewPacket(template, streamed, shape, records, mono, t) \in Packet
         /\ NewPacket(template, streamed, shape, records, mono, t) # NoPacket
<1>1. PriorAt(mono) \in Prior
  BY DueBoolean DEF TypeInv, TypeOK, PriorAt, Prior, Epoch
<1>2. NewPacket(template, streamed, shape, records, mono, t) \in Packet
  BY <1>1 DEF TypeInv, TypeOK, NewPacket, Packet, Epoch
<1> QED
  BY <1>2, NoPacketAssumption DEF NoPacketAssumption

\* RefreshDue and its mark.
LEMMA MarkTypes ==
  ASSUME TypeInv, NEW mono \in Monos, MarkDue(mono)
  PROVE  refreshDue' \in BOOLEAN /\ fresh' \subseteq Shapes
BY DueBoolean DEF TypeInv, TypeOK, MarkDue

\* RefreshDue touches only the mark.
LEMMA RefreshDueTypes ==
  ASSUME TypeInv, NEW mono \in Monos, RefreshDue(mono)
  PROVE  TypeInv'
<1>1. refreshDue' \in BOOLEAN /\ fresh' \subseteq Shapes
  BY MarkTypes DEF RefreshDue
<1> QED
  BY <1>1 DEF RefreshDue, TypeInv, TypeOK, RoundsInRange, counts

\* A refused reservation changes at most the exhaustion latch.
LEMMA FailedReservationTypes ==
  ASSUME TypeInv, NEW t, ReservationFails(t)
  PROVE  epoch' \in Epoch /\ epoch'.ready = epoch.ready
BY DEF ReservationFails, TypeInv, TypeOK, Epoch, Exhausts

\* beginPacket for a template.
LEMMA BeginTemplateTypes ==
  ASSUME TypeInv, NEW wall \in Walls, NEW mono \in Monos, BeginTemplate(wall, mono)
  PROVE  TypeInv'
<1> USE StateAssumption DEF StateAssumption, Normalized
<1> DEFINE t == Clamp(wall)
           startsRound == epoch.ready /\ ~refreshActive
<1>1. refreshDue' \in BOOLEAN /\ fresh' \subseteq Shapes
  BY MarkTypes DEF BeginTemplate
<1>2. t \in Nat /\ wall \in Nat /\ mono \in Nat
  BY ClampBounds DEF TypeInv, TypeOK
<1>3. CASE ReservationFails(t)
  <2>1. epoch' \in Epoch /\ epoch'.ready = epoch.ready
    BY <1>3, FailedReservationTypes
  <2> QED
    BY <1>1, <1>3, <2>1 DEF BeginTemplate, ReservationFails, TypeInv, TypeOK, RoundsInRange, counts
<1>4. CASE ~ReservationFails(t)
  <2>1. /\ lastReservedWall' = t
        /\ epoch' = [epoch EXCEPT !.startOrigin = IF Protocol = "v9" /\ Origin = NoTime THEN t ELSE @]
        /\ refreshActive' = (refreshActive \/ startsRound)
        /\ nextTemplateIndex' = (IF startsRound THEN 0 ELSE nextTemplateIndex)
        /\ templateRound' = (IF startsRound THEN 0 ELSE templateRound)
        /\ nextToken' = nextToken + 1
        /\ pending' = NewPacket(TRUE, FALSE, nextTemplateIndex, 0, mono, t)
        /\ UNCHANGED <<lastRefreshMono, counts, stream, result, wireInstant, wireUnits, copies, dataSince>>
    BY <1>4 DEF BeginTemplate
  <2> HIDE DEF t
  <2>2. pending' \in Packet /\ pending' # NoPacket
    <3>1. 0 \in 0 .. MaxRecords /\ nextTemplateIndex \in Shapes
      BY DEF TypeInv, TypeOK
    <3> QED
      BY ONLY TypeInv, <1>2, <2>1, <3>1, NewPacketTypes
  <2>3. epoch' \in Epoch /\ epoch'.ready = epoch.ready
    BY <1>2, <2>1 DEF TypeInv, TypeOK, Epoch, Times
  <2>4. nextTemplateIndex' \in Shapes /\ templateRound' \in 0 .. InitialCopies /\ refreshActive' \in BOOLEAN
    <3>1. 0 \in Shapes /\ 0 \in 0 .. InitialCopies
      BY DEF Shapes
    <3>2. refreshActive' \in BOOLEAN
      BY <2>1
    <3> QED
      BY <2>1, <3>1, <3>2 DEF TypeInv, TypeOK
  <2>5. TypeOK'
    <3>1. lastReservedWall' \in Times /\ nextToken' \in Nat
      BY <1>2, <2>1 DEF TypeInv, TypeOK, Times
    <3> QED
      BY <1>1, <2>1, <2>2, <2>3, <2>4, <3>1 DEF TypeInv, TypeOK, counts
  <2>6. pending'.prior.templateRound = templateRound
    BY <2>1 DEF NewPacket, PriorAt
  <2>7. RoundsInRange'
    BY <2>1, <2>3, <2>6 DEF TypeInv, TypeOK, RoundsInRange
  <2> QED
    BY <2>5, <2>7 DEF TypeInv
<1> QED
  BY <1>3, <1>4

\* beginPacket for data, in one go or as a stream.
LEMMA BeginDataTypes ==
  ASSUME TypeInv, NEW wall \in Walls, NEW mono \in Monos, NEW shape \in Shapes,
         NEW streamed \in BOOLEAN, NEW records \in 0 .. MaxRecords,
         BeginDataPacket(wall, mono, shape, streamed, records)
  PROVE  TypeInv'
<1> USE StateAssumption DEF StateAssumption, Normalized
<1> DEFINE t == Clamp(wall)
<1>1. refreshDue' \in BOOLEAN /\ fresh' \subseteq Shapes
  BY MarkTypes DEF BeginDataPacket
<1>2. t \in Nat /\ wall \in Nat /\ mono \in Nat
  BY ClampBounds DEF TypeInv, TypeOK
<1>3. CASE ReservationFails(t) /\ stream' = (stream /\ ~streamed)
  <2>1. epoch' \in Epoch /\ epoch'.ready = epoch.ready
    BY <1>3, FailedReservationTypes
  <2>2. stream' \in BOOLEAN
    BY <1>3
  <2> QED
    BY <1>1, <1>3, <2>1, <2>2 DEF BeginDataPacket, ReservationFails, TypeInv, TypeOK, RoundsInRange, counts
<1>4. CASE /\ nextToken' = nextToken + 1 /\ stream' = FALSE
           /\ UNCHANGED <<epoch, nextTemplateIndex, templateRound, refreshActive, lastReservedWall, pending>>
  <2>1. nextToken' \in Nat
    BY <1>4 DEF TypeInv, TypeOK
  <2>2. stream' \in BOOLEAN
    BY ONLY <1>4
  <2> QED
    BY <1>1, <1>4, <2>1, <2>2 DEF BeginDataPacket, TypeInv, TypeOK, RoundsInRange, counts
<1>5. CASE /\ lastReservedWall' = t
           /\ nextToken' = nextToken + 1
           /\ pending' = NewPacket(FALSE, streamed, shape, records, mono, t)
           /\ stream' = (stream \/ streamed)
           /\ UNCHANGED <<epoch, nextTemplateIndex, templateRound, refreshActive>>
  <2> HIDE DEF t
  <2>1. pending' \in Packet /\ pending' # NoPacket
    BY ONLY TypeInv, <1>2, <1>5, NewPacketTypes, shape \in Shapes, streamed \in BOOLEAN,
            records \in 0 .. MaxRecords
  <2>2. lastReservedWall' \in Times /\ nextToken' \in Nat
    BY <1>2, <1>5 DEF TypeInv, TypeOK, Times
  <2>3. stream' \in BOOLEAN
    BY <1>5
  <2>4. TypeOK'
    BY <1>1, <1>5, <2>1, <2>2, <2>3 DEF BeginDataPacket, TypeInv, TypeOK, counts
  <2>5. pending'.prior.templateRound = templateRound /\ pending'.template = FALSE
    BY <1>5 DEF NewPacket, PriorAt
  <2>6. RoundsInRange'
    BY <1>5, <2>5 DEF TypeInv, TypeOK, RoundsInRange
  <2> QED
    BY <2>4, <2>6 DEF TypeInv
<1> QED
  <2>1. \/ ReservationFails(t) /\ stream' = (stream /\ ~streamed)
        \/ /\ nextToken' = nextToken + 1 /\ stream' = FALSE
           /\ UNCHANGED <<epoch, nextTemplateIndex, templateRound, refreshActive, lastReservedWall, pending>>
        \/ /\ lastReservedWall' = t
           /\ nextToken' = nextToken + 1
           /\ pending' = NewPacket(FALSE, streamed, shape, records, mono, t)
           /\ stream' = (stream \/ streamed)
           /\ UNCHANGED <<epoch, nextTemplateIndex, templateRound, refreshActive>>
    BY DEF BeginDataPacket
  <2> QED
    BY ONLY <1>3, <1>4, <1>5, <2>1

\* Append admits at most MaxRecords records.
LEMMA AppendTypes ==
  ASSUME TypeInv, Append
  PROVE  TypeInv'
<1> USE StateAssumption DEF StateAssumption, Normalized
<1>1. pending \in Packet
  BY DEF Append, TypeInv, TypeOK
<1>2. /\ pending' \in Packet /\ pending' # NoPacket
      /\ pending'.prior = pending.prior /\ pending'.template = pending.template
  BY <1>1, NoPacketAssumption DEF NoPacketAssumption, Append, Packet
<1>3. TypeOK'
  BY <1>2 DEF Append, TypeInv, TypeOK, refresh, counts, history
<1>4. RoundsInRange'
  BY <1>1, <1>2 DEF Append, TypeInv, RoundsInRange, refresh
<1> QED
  BY <1>3, <1>4 DEF TypeInv

\* The progress and history of an abandoned bootstrap are well typed.
LEMMA ResetTypes ==
  ASSUME ResetProgress, ForgetWrites
  PROVE  /\ nextTemplateIndex' \in Shapes /\ templateRound' \in 0 .. InitialCopies
         /\ templateRound' = 0 /\ templateRound' < InitialCopies
         /\ refreshActive' \in BOOLEAN /\ refreshDue' \in BOOLEAN
         /\ packetCount' \in Nat /\ dataMessageCount' \in Nat
         /\ wireUnits' \in Nat /\ dataSince' \in Nat /\ fresh' \subseteq Shapes
         /\ copies' \in [Shapes -> 0 .. InitialCopies]
<1> USE StateAssumption DEF StateAssumption, Normalized
<1>1. 0 \in Shapes /\ 0 \in 0 .. InitialCopies /\ 0 < InitialCopies
  BY DEF Shapes
<1> QED
  BY <1>1 DEF ResetProgress, ForgetWrites

\* What DiscardUnpublished leaves is well typed.
LEMMA DiscardTypes ==
  ASSUME TypeInv, DiscardUnpublished
  PROVE  /\ epoch' \in Epoch /\ nextTemplateIndex' \in Shapes /\ templateRound' \in 0 .. InitialCopies
         /\ templateRound' < InitialCopies /\ (epoch'.ready => templateRound' = 0)
         /\ refreshActive' \in BOOLEAN /\ refreshDue' \in BOOLEAN /\ lastRefreshMono' \in Times
         /\ packetCount' \in Nat /\ dataMessageCount' \in Nat
         /\ wireUnits' \in Nat /\ dataSince' \in Nat /\ fresh' \subseteq Shapes
         /\ copies' \in [Shapes -> 0 .. InitialCopies]
<1>1. CASE epoch.ready
  BY <1>1 DEF DiscardUnpublished, TypeInv, TypeOK, RoundsInRange, refresh, counts
<1>2. CASE ~epoch.ready
  <2>1. epoch' = DiscardedEpoch /\ lastRefreshMono' = NoTime /\ ResetProgress /\ ForgetWrites
    BY <1>2 DEF DiscardUnpublished
  <2>2. epoch' \in Epoch /\ lastRefreshMono' \in Times
    <3>1. 0 \in 0 .. SeqModulus - 1 /\ NoTime \in Times
      BY StateAssumption DEF StateAssumption, Normalized, Times
    <3> QED
      BY <2>1, <3>1 DEF DiscardedEpoch, TypeInv, TypeOK, Epoch
  <2> QED
    BY <2>1, <2>2, ResetTypes
<1> QED
  BY <1>1, <1>2

\* restoreEncodeReservationLocked.
LEMMA RestoreTypes ==
  ASSUME TypeInv, pending # NoPacket, RestoreReservation
  PROVE  TypeInv'
<1>1. pending \in Packet /\ pending.prior \in Prior
  BY DEF TypeInv, TypeOK, Packet
<1>2. lastReservedWall' \in Times
  BY <1>1 DEF RestoreReservation, Prior
<1>3. stream' \in BOOLEAN
  BY <1>1 DEF RestoreReservation, RestoredStream
<1>4. CASE epoch.ready
  <2>1. /\ epoch' = [epoch EXCEPT !.startOrigin = pending.prior.startOrigin]
        /\ refreshActive' = pending.prior.refreshActive
        /\ refreshDue' = pending.prior.refreshDue
        /\ nextTemplateIndex' = pending.prior.nextTemplateIndex
        /\ templateRound' = pending.prior.templateRound
        /\ UNCHANGED <<lastRefreshMono, counts, copies, dataSince, fresh, wireUnits>>
    BY <1>4 DEF RestoreReservation
  <2>2. epoch' \in Epoch /\ epoch'.ready = epoch.ready
    BY <1>1, <2>1 DEF TypeInv, TypeOK, Epoch, Prior
  <2>3. TypeOK'
    BY <1>1, <1>2, <1>3, <2>1, <2>2 DEF RestoreReservation, TypeInv, TypeOK, Prior, counts
  <2>4. RoundsInRange'
    BY <1>4, <2>1, <2>2 DEF RestoreReservation, TypeInv, RoundsInRange
  <2> QED
    BY <2>3, <2>4 DEF TypeInv
<1>5. CASE ~epoch.ready
  <2>1. DiscardUnpublished
    BY <1>5 DEF RestoreReservation
  <2> QED
    BY <1>2, <1>3, <2>1, DiscardTypes DEF RestoreReservation, TypeInv, TypeOK, RoundsInRange
<1> QED
  BY <1>4, <1>5

\* Encode, Finish and Abort mark the packet encoded or roll it back.
LEMMA EncodeTypes ==
  ASSUME TypeInv, Encode \/ Finish \/ Abort
  PROVE  TypeInv'
<1>1. pending # NoPacket /\ pending \in Packet
  BY DEF Encode, Finish, Abort, TypeInv, TypeOK
<1>2. CASE RestoreReservation
  BY <1>1, <1>2, RestoreTypes
<1>3. CASE /\ pending' = [pending EXCEPT !.encoded = TRUE]
           /\ stream' \in {stream, FALSE}
           /\ UNCHANGED <<epoch, refresh, counts, lastReservedWall, nextToken, result, history>>
  <2>1. /\ pending' \in Packet /\ pending' # NoPacket
        /\ pending'.prior = pending.prior /\ pending'.template = pending.template
    BY <1>1, <1>3, NoPacketAssumption DEF NoPacketAssumption, Packet
  <2>2. stream' \in BOOLEAN
    BY <1>3 DEF TypeInv, TypeOK
  <2>3. TypeOK'
    BY <1>3, <2>1, <2>2 DEF TypeInv, TypeOK, refresh, counts, history
  <2>4. RoundsInRange'
    BY <1>1, <1>3, <2>1 DEF TypeInv, RoundsInRange, refresh
  <2> QED
    BY <2>3, <2>4 DEF TypeInv
<1> QED
  BY <1>2, <1>3 DEF Encode, Finish, Abort

\* The transport write changes only its result and the history.
LEMMA WriteTypes ==
  ASSUME TypeInv, NEW n \in Int, NEW err \in BOOLEAN, Write(n, err)
  PROVE  TypeInv'
<1> USE StateAssumption DEF StateAssumption, Normalized
<1>1. pending \in Packet
  BY DEF Write, TypeInv, TypeOK
<1>2. result' \in Result /\ wireInstant' \in Times
  BY <1>1 DEF Write, TypeInv, TypeOK, Packet, Result, Times
<1>3. wireUnits' \in Nat /\ dataSince' \in Nat
  BY <1>1 DEF Write, TypeInv, TypeOK, Packet, SequenceUnits
<1>4. fresh' \subseteq Shapes /\ copies' \in [Shapes -> 0 .. InitialCopies]
  BY <1>1 DEF Write, TypeInv, TypeOK, Packet
<1>5. TypeOK'
  BY <1>2, <1>3, <1>4 DEF Write, TypeInv, TypeOK, refresh, counts
<1>6. RoundsInRange'
  BY DEF Write, TypeInv, RoundsInRange, refresh
<1> QED
  BY <1>5, <1>6 DEF TypeInv

\* Commit of a full write: the round counter stops below InitialCopies, and a
\* round that publishes or refreshes starts over at zero.
LEMMA CommitFullTypes ==
  ASSUME TypeInv, pending # NoPacket, CommitFull, pending' = NoPacket,
         UNCHANGED <<nextToken, stream, result, wireInstant>>
  PROVE  TypeInv'
<1> USE StateAssumption DEF StateAssumption, Normalized
<1> DEFINE wraps    == EndsRound(pending)
           rounds   == IF wraps THEN templateRound + 1 ELSE templateRound
           complete == wraps /\ IF epoch.ready THEN refreshActive /\ rounds = 1
                                ELSE rounds = InitialCopies
<1>0. pending \in Packet /\ epoch \in Epoch
  BY DEF TypeInv, TypeOK
<1>1. epoch' \in Epoch /\ epoch'.ready = (epoch.ready \/ complete)
  <2>1. (epoch.sequence + SequenceUnits(pending)) % SeqModulus \in 0 .. SeqModulus - 1
    <3>1. epoch.sequence + SequenceUnits(pending) \in Nat
      BY <1>0 DEF SequenceUnits, Epoch, Packet
    <3> QED
      BY <3>1
  <2>2. epoch' = [epoch EXCEPT !.sequence = (@ + SequenceUnits(pending)) % SeqModulus,
                               !.ready = epoch.ready \/ complete]
    BY DEF CommitFull
  <2> HIDE DEF complete
  <2> QED
    BY <1>0, <2>1, <2>2 DEF Epoch
<1>2. nextTemplateIndex' \in Shapes
  <2>1. nextTemplateIndex' = IF wraps THEN 0
                             ELSE IF pending.template THEN nextTemplateIndex + 1 ELSE nextTemplateIndex
    BY DEF CommitFull
  <2> QED
    BY <2>1 DEF TypeInv, TypeOK, EndsRound, Shapes
<1>3. epoch'.ready /\ ~complete => epoch.ready
  <2> HIDE DEF complete
  <2> QED
    BY ONLY <1>1
<1>4. /\ templateRound' \in 0 .. InitialCopies /\ templateRound' < InitialCopies
      /\ epoch'.ready => templateRound' = 0
  <2>1. templateRound' = IF complete THEN 0 ELSE rounds
    BY DEF CommitFull
  <2>2. templateRound \in Nat /\ templateRound < InitialCopies
    BY DEF TypeInv, TypeOK, RoundsInRange
  <2>3. CASE complete
    BY <2>1, <2>3
  <2>4. CASE ~complete /\ ~wraps
    <3>1. templateRound' = templateRound
      BY <2>1, <2>4
    <3> QED
      BY <1>3, <2>2, <2>4, <3>1 DEF TypeInv, RoundsInRange
  <2>5. CASE ~complete /\ wraps /\ ~epoch.ready
    <3>1. templateRound' = templateRound + 1 /\ templateRound + 1 # InitialCopies
      BY <2>1, <2>5
    <3> QED
      BY <1>3, <2>2, <2>5, <3>1
  <2>6. ~(~complete /\ wraps /\ epoch.ready)
    BY DEF TypeInv, RoundsInRange, EndsRound
  <2> QED
    BY <2>3, <2>4, <2>5, <2>6
<1>5. refreshActive' \in BOOLEAN
  BY DEF CommitFull
<1>6. refreshDue' \in BOOLEAN
  BY DEF CommitFull, MarkedDue
<1>7. lastRefreshMono' \in Times /\ packetCount' \in Nat /\ dataMessageCount' \in Nat /\ dataSince' \in Nat
  BY <1>0 DEF CommitFull, TypeInv, TypeOK, Packet, Times
<1>8. fresh' \subseteq Shapes
  BY DEF CommitFull, TypeInv, TypeOK
<1>9. TypeOK'
  BY <1>1, <1>2, <1>4, <1>5, <1>6, <1>7, <1>8 DEF CommitFull, TypeInv, TypeOK
<1> QED
  BY <1>4, <1>9 DEF TypeInv, RoundsInRange

\* Commit with any result.
LEMMA CommitTypes ==
  ASSUME TypeInv, Commit
  PROVE  TypeInv'
<1>1. /\ pending # NoPacket /\ pending \in Packet /\ pending' = NoPacket
      /\ UNCHANGED <<nextToken, stream, result, wireInstant>>
      /\ CommitFull \/ CommitAmbiguous \/ CommitInvalid
  BY DEF Commit, Current, TypeInv, TypeOK
<1>2. CASE CommitFull
  BY <1>1, <1>2, CommitFullTypes
<1>3. CASE CommitAmbiguous \/ CommitInvalid
  <2>1. DiscardUnpublished
    BY <1>3 DEF CommitAmbiguous, CommitInvalid
  <2>2. lastReservedWall' \in Times
    BY <1>1, <1>3 DEF CommitAmbiguous, CommitInvalid, TypeInv, TypeOK, Packet, Prior
  <2> QED
    BY <1>1, <2>1, <2>2, DiscardTypes DEF TypeInv, TypeOK, RoundsInRange
<1> QED
  BY <1>1, <1>2, <1>3

\* Restart and AbortBootstrap drop the packet and start the bootstrap over.
LEMMA EpochTypes ==
  ASSUME TypeInv, Restart \/ AbortBootstrap
  PROVE  TypeInv'
<1>1. 0 \in 0 .. SeqModulus - 1 /\ NoTime \in Times
  BY StateAssumption DEF StateAssumption, Normalized, Times
<1>2. CASE Restart
  <2>1. epoch' \in Epoch
    BY <1>1, <1>2 DEF Restart, NewEpoch, TypeInv, TypeOK, Epoch
  <2> QED
    BY <1>1, <1>2, <2>1, ResetTypes DEF Restart, TypeInv, TypeOK, RoundsInRange
<1>3. CASE AbortBootstrap
  <2>1. epoch' \in Epoch
    BY <1>1, <1>3 DEF AbortBootstrap, DiscardedEpoch, TypeInv, TypeOK, Epoch
  <2> QED
    BY <1>3, <2>1, ResetTypes DEF AbortBootstrap, TypeInv, TypeOK, RoundsInRange
<1> QED
  BY <1>2, <1>3

\* A step that changes nothing.
LEMMA StutterTypes == ASSUME TypeInv, UNCHANGED vars PROVE TypeInv'
BY DEF TypeInv, TypeOK, RoundsInRange, vars, refresh, counts, history

\* Every step of the State keeps its types.
LEMMA TypeStep == TypeInv /\ [Next]_vars => TypeInv'
<1> SUFFICES ASSUME TypeInv, [Next]_vars PROVE TypeInv'
  OBVIOUS
<1>1. ASSUME NEW wall \in Walls, NEW mono \in Monos, NEW shape \in Shapes,
             \/ \E records \in 1 .. MaxRecords : BeginData(wall, mono, shape, records)
             \/ BeginDataStream(wall, mono, shape)
      PROVE  TypeInv'
  <2>1. 0 \in 0 .. MaxRecords /\ 1 .. MaxRecords \subseteq 0 .. MaxRecords
    BY StateAssumption DEF StateAssumption, Normalized
  <2> QED
    BY <1>1, <2>1, BeginDataTypes DEF BeginData, BeginDataStream
<1>2. ASSUME NEW n \in -1 .. DatagramLength + 1, NEW err \in BOOLEAN, Write(n, err) PROVE TypeInv'
  BY <1>2, WriteTypes, StateAssumption DEF StateAssumption, Normalized
<1> QED
  BY <1>1, <1>2, RefreshDueTypes, BeginTemplateTypes, AppendTypes, EncodeTypes, CommitTypes,
     EpochTypes, StutterTypes DEF Next

\* Every field of State keeps its type through every operation, rollbacks and
\* stale commits included.
THEOREM StateTypes == Spec => []TypeOK
<1>1. TypeInv => TypeOK
  BY DEF TypeInv
<1> QED
  BY TypeInit, TypeStep, <1>1, PTL DEF Spec

-----------------------------------------------------------------------------
(* Header time.                                                            *)

\* While a packet is reserved its instant is the reserved wall; before its
\* write everything on the wire is as old as the wall a rollback would
\* restore, and after it so is it unless the packet itself may be out.
PendingTime ==
  pending # NoPacket =>
    /\ pending.token <= nextToken
    /\ lastReservedWall = pending.instant
    /\ pending.prior.reservedWall <= pending.instant
    /\ wireInstant <= pending.instant
    /\ Written => pending.encoded
    /\ ~Written \/ result.n \notin 0 .. DatagramLength => wireInstant <= pending.prior.reservedWall

\* Without a packet the reserved wall bounds all header times of the epoch.
TimeInv ==
  /\ TypeInv /\ PendingTime
  /\ result.token <= nextToken
  /\ pending = NoPacket => wireInstant <= lastReservedWall

\* A new State has reserved and written nothing.
LEMMA TimeInit == Init => TimeInv
<1> SUFFICES ASSUME Init PROVE TimeInv
  OBVIOUS
<1>1. TypeInv
  BY TypeInit
<1> QED
  BY <1>1 DEF Init, TimeInv, PendingTime, NoTime, NoResult

\* A reservation puts a new token, later than any write result, at an instant
\* no older than the wall it replaces.
LEMMA ReserveTime ==
  ASSUME TimeInv, TypeInv', pending = NoPacket, NEW wall \in Nat,
         NEW template, NEW streamed, NEW shape, NEW records, NEW mono,
         lastReservedWall' = Clamp(wall), nextToken' = nextToken + 1,
         pending' = NewPacket(template, streamed, shape, records, mono, Clamp(wall)),
         pending' # NoPacket, UNCHANGED <<result, wireInstant>>
  PROVE  TimeInv'
<1> DEFINE t == Clamp(wall)
<1>1. /\ t \in Nat /\ t >= lastReservedWall /\ lastReservedWall \in Int
      /\ nextToken \in Nat /\ wireInstant \in Int /\ result.token \in Nat
  BY ClampBounds DEF TimeInv, TypeInv, TypeOK, Times, NoTime, Result
<1>2. /\ pending'.token = nextToken + 1 /\ pending'.instant = t
      /\ pending'.prior.reservedWall = lastReservedWall
  BY DEF NewPacket, PriorAt
<1>3. wireInstant <= lastReservedWall /\ result.token <= nextToken
  BY DEF TimeInv
<1>4. ~Written'
  BY <1>1, <1>2, <1>3 DEF Written
<1> HIDE DEF t
<1>5. PendingTime'
  <2>1. lastReservedWall' = t /\ nextToken' = nextToken + 1 /\ wireInstant' = wireInstant
    BY DEF t
  <2>2. wireInstant <= t
    BY <1>1, <1>3
  <2> QED
    BY <1>1, <1>2, <1>3, <1>4, <2>1, <2>2 DEF PendingTime
<1>6. result'.token <= nextToken'
  BY <1>1, <1>3
<1> QED
  BY <1>5, <1>6 DEF TimeInv

\* Steps that reserve nothing and keep the packet's times.
LEMMA KeepTime ==
  ASSUME TimeInv, TypeInv',
         nextToken' \in {nextToken, nextToken + 1},
         UNCHANGED <<lastReservedWall, result, wireInstant>>,
         \/ pending' = pending
         \/ /\ pending # NoPacket /\ pending' # NoPacket
            /\ pending'.token = pending.token /\ pending'.instant = pending.instant
            /\ pending'.prior = pending.prior /\ (pending.encoded => pending'.encoded)
  PROVE  TimeInv'
<1>1. /\ lastReservedWall \in Int /\ nextToken \in Nat /\ wireInstant \in Int /\ result.token \in Nat
      /\ pending # NoPacket => pending.token \in Nat
  BY DEF TimeInv, TypeInv, TypeOK, Times, NoTime, Result, Packet
<1>2. (pending' = NoPacket) = (pending = NoPacket)
  OBVIOUS
<1>3. PendingTime'
  BY <1>1 DEF TimeInv, PendingTime, Written
<1> QED
  BY <1>1, <1>2, <1>3 DEF TimeInv

\* A rollback gives the instant back, but only of a packet not handed off.
LEMMA RestoreTime ==
  ASSUME TimeInv, TypeInv', pending # NoPacket, ~Written, RestoreReservation
  PROVE  TimeInv'
BY DEF TimeInv, PendingTime, RestoreReservation

\* Begin, for templates and for data.
LEMMA BeginTime ==
  ASSUME TimeInv, NEW wall \in Walls, NEW mono \in Monos,
         \/ BeginTemplate(wall, mono)
         \/ \E shape \in Shapes, streamed \in BOOLEAN, records \in 0 .. MaxRecords :
              BeginDataPacket(wall, mono, shape, streamed, records)
  PROVE  TimeInv'
<1>1. TypeInv /\ TypeInv'
  BY BeginTemplateTypes, BeginDataTypes DEF TimeInv
<1>2. wall \in Nat /\ mono \in Nat /\ Clamp(wall) \in Nat
  BY <1>1, ClampBounds, StateAssumption DEF StateAssumption, Normalized, TypeInv, TypeOK
<1>3. CASE BeginTemplate(wall, mono)
  <2>1. pending = NoPacket /\ UNCHANGED <<result, wireInstant>>
    BY <1>3 DEF BeginTemplate, CanBegin
  <2>2. CASE ReservationFails(Clamp(wall))
    BY <1>1, <2>1, <2>2, KeepTime DEF ReservationFails
  <2>3. CASE ~ReservationFails(Clamp(wall))
    <3>1. /\ lastReservedWall' = Clamp(wall) /\ nextToken' = nextToken + 1
          /\ pending' = NewPacket(TRUE, FALSE, nextTemplateIndex, 0, mono, Clamp(wall))
      BY <1>3, <2>3 DEF BeginTemplate
    <3>2. 0 \in 0 .. MaxRecords /\ nextTemplateIndex \in Shapes
      BY <1>1, StateAssumption DEF StateAssumption, Normalized, TypeInv, TypeOK
    <3>3. pending' # NoPacket
      BY ONLY <1>1, <1>2, <3>1, <3>2, NewPacketTypes
    <3> QED
      BY ONLY TimeInv, <1>1, <1>2, <2>1, <3>1, <3>3, ReserveTime
  <2> QED
    BY <2>2, <2>3
<1>4. ASSUME NEW shape \in Shapes, NEW streamed \in BOOLEAN, NEW records \in 0 .. MaxRecords,
             BeginDataPacket(wall, mono, shape, streamed, records)
      PROVE  TimeInv'
  <2>1. /\ pending = NoPacket /\ UNCHANGED <<result, wireInstant>>
        /\ \/ /\ UNCHANGED <<lastReservedWall, pending>>
              /\ nextToken' \in {nextToken, nextToken + 1}
           \/ /\ lastReservedWall' = Clamp(wall) /\ nextToken' = nextToken + 1
              /\ pending' = NewPacket(FALSE, streamed, shape, records, mono, Clamp(wall))
    BY <1>4 DEF BeginDataPacket, CanBegin, ReservationFails
  <2>2. CASE UNCHANGED <<lastReservedWall, pending>> /\ nextToken' \in {nextToken, nextToken + 1}
    BY <1>1, <2>1, <2>2, KeepTime
  <2>3. CASE /\ lastReservedWall' = Clamp(wall) /\ nextToken' = nextToken + 1
             /\ pending' = NewPacket(FALSE, streamed, shape, records, mono, Clamp(wall))
    <3>1. pending' # NoPacket
      BY ONLY <1>1, <1>2, <2>3, NewPacketTypes, shape \in Shapes, streamed \in BOOLEAN,
              records \in 0 .. MaxRecords
    <3> QED
      BY ONLY TimeInv, <1>1, <1>2, <2>1, <2>3, <3>1, ReserveTime
  <2> QED
    BY <2>1, <2>2, <2>3
<1> QED
  BY <1>3, <1>4

\* Append, Encode, Finish and Abort: only a packet that was not handed off is rolled back.
LEMMA FillTime ==
  ASSUME TimeInv, Append \/ Encode \/ Finish \/ Abort
  PROVE  TimeInv'
<1>1. TypeInv' /\ pending # NoPacket /\ pending \in Packet
  BY AppendTypes, EncodeTypes DEF TimeInv, Append, Encode, Finish, Abort, TypeInv, TypeOK
<1>2. CASE RestoreReservation /\ ~Append
  <2>1. ~Written
    BY <1>1, <1>2 DEF TimeInv, PendingTime, Encode, Finish, Abort
  <2> QED
    BY <1>1, <1>2, <2>1, RestoreTime
<1>3. CASE Append
  <2>1. /\ pending' = [pending EXCEPT !.records = @ + 1]
        /\ UNCHANGED <<lastReservedWall, nextToken, result, wireInstant>>
    BY <1>3 DEF Append, history
  <2>2. /\ pending'.token = pending.token /\ pending'.instant = pending.instant
        /\ pending'.prior = pending.prior /\ pending'.encoded = pending.encoded
        /\ pending' # NoPacket
    <3>1. pending.records < MaxRecords
      BY <1>3 DEF Append
    <3> QED
      BY <1>1, <2>1, <3>1, StateAssumption, NoPacketAssumption
         DEF StateAssumption, Normalized, NoPacketAssumption, Packet
  <2> QED
    BY <1>1, <2>1, <2>2, KeepTime
<1>4. CASE ~Append /\ ~RestoreReservation
  <2>1. /\ pending' = [pending EXCEPT !.encoded = TRUE]
        /\ UNCHANGED <<lastReservedWall, nextToken, result, wireInstant>>
    BY <1>4 DEF Encode, Finish, Abort, history
  <2>2. /\ pending'.token = pending.token /\ pending'.instant = pending.instant
        /\ pending'.prior = pending.prior /\ pending'.encoded /\ pending' \in Packet
    BY <1>1, <2>1 DEF Packet
  <2> QED
    BY <1>1, <2>1, <2>2, KeepTime, NoPacketAssumption DEF NoPacketAssumption
<1> QED
  BY <1>2, <1>3, <1>4

\* The write puts the reserved instant on the wire, unless its count is broken.
LEMMA WriteTime ==
  ASSUME TimeInv, NEW n \in Int, NEW err \in BOOLEAN, Write(n, err)
  PROVE  TimeInv' /\ wireInstant' >= wireInstant
<1>1. TypeInv' /\ pending # NoPacket /\ pending \in Packet /\ ~Written /\ pending.encoded
  BY WriteTypes DEF TimeInv, Write, TypeInv, TypeOK
<1>2. /\ wireInstant \in Int /\ pending.instant \in Int /\ pending.prior.reservedWall \in Int
      /\ wireInstant <= pending.prior.reservedWall /\ pending.prior.reservedWall <= pending.instant
  BY <1>1 DEF TimeInv, PendingTime, TypeInv, TypeOK, Packet, Prior, Times, NoTime
<1>3. /\ result'.token = pending.token /\ result'.n = n
      /\ wireInstant' = IF n \in 0 .. DatagramLength THEN pending.instant ELSE wireInstant
      /\ UNCHANGED <<lastReservedWall, nextToken, pending>>
  BY DEF Write
<1>4. PendingTime'
  BY <1>1, <1>2, <1>3 DEF TimeInv, PendingTime, Written
<1> QED
  BY <1>1, <1>2, <1>3, <1>4 DEF TimeInv, PendingTime

\* Commit takes the instant back only if the result was no handoff at all.
LEMMA CommitTime ==
  ASSUME TimeInv, Commit
  PROVE  TimeInv'
<1>1. /\ TypeInv' /\ pending # NoPacket /\ pending \in Packet /\ Written /\ pending' = NoPacket
      /\ UNCHANGED <<nextToken, result, wireInstant>>
  BY CommitTypes DEF TimeInv, Commit, Current, Written, TypeInv, TypeOK
<1>2. wireInstant <= lastReservedWall
  BY <1>1 DEF TimeInv, PendingTime
<1>3. CASE UNCHANGED lastReservedWall
  BY <1>1, <1>2, <1>3 DEF TimeInv, PendingTime
<1>4. CASE lastReservedWall' # lastReservedWall
  <2>1. /\ ClassifyWrite(result.n, DatagramLength, result.err) = "invalid"
        /\ lastReservedWall' = pending.prior.reservedWall
    BY <1>4 DEF Commit, CommitFull, CommitAmbiguous, CommitInvalid
  <2>2. result.n \notin 0 .. DatagramLength
    <3>1. result.n \in Int /\ result.err \in BOOLEAN /\ DatagramLength \in Nat \ {0}
      BY StateAssumption DEF StateAssumption, Normalized, TimeInv, TypeInv, TypeOK, Result
    <3> QED
      BY <2>1, <3>1, InvalidResult
  <2> QED
    BY <1>1, <2>1, <2>2 DEF TimeInv, PendingTime
<1> QED
  BY <1>3, <1>4

\* AbortBootstrap keeps the wall of the packet it drops; Restart starts a new epoch.
LEMMA EpochTime ==
  ASSUME TimeInv, Restart \/ AbortBootstrap
  PROVE  TimeInv'
<1>1. TypeInv' /\ pending' = NoPacket /\ UNCHANGED <<nextToken, result>>
  BY EpochTypes DEF TimeInv, Restart, AbortBootstrap
<1>2. wireInstant' <= lastReservedWall'
  BY DEF Restart, AbortBootstrap, TimeInv, PendingTime, NoTime
<1> QED
  BY <1>1, <1>2 DEF TimeInv, PendingTime

\* Every step keeps the time invariant, and within an epoch none moves the
\* wire time back.
LEMMA TimeStep ==
  TimeInv /\ [Next]_vars => TimeInv' /\ (epoch'.id = epoch.id => wireInstant' >= wireInstant)
<1> SUFFICES ASSUME TimeInv, [Next]_vars
             PROVE  TimeInv' /\ (epoch'.id = epoch.id => wireInstant' >= wireInstant)
  OBVIOUS
<1>0. TypeInv' /\ wireInstant \in Int
  BY TypeStep DEF TimeInv, TypeInv, TypeOK, Times, NoTime
<1>1. ASSUME NEW n \in -1 .. DatagramLength + 1, NEW err \in BOOLEAN, Write(n, err)
      PROVE  TimeInv' /\ wireInstant' >= wireInstant
  BY <1>1, WriteTime, StateAssumption DEF StateAssumption, Normalized
<1>2. CASE \E n \in -1 .. DatagramLength + 1, err \in BOOLEAN : Write(n, err)
  BY <1>1, <1>2
<1>3. CASE Restart
  <2>1. epoch'.id # epoch.id
    BY <1>3 DEF Restart, NewEpoch, TimeInv, TypeInv, TypeOK, Epoch
  <2> QED
    BY <1>3, <2>1, EpochTime
<1>4. CASE AbortBootstrap
  <2>1. wireInstant' = wireInstant
    BY <1>4 DEF AbortBootstrap
  <2>2. TimeInv'
    BY <1>4, EpochTime
  <2> QED
    BY ONLY <1>0, <2>1, <2>2
<1>5. CASE Append \/ Encode \/ Finish \/ Abort
  <2>1. wireInstant' = wireInstant
    BY <1>5 DEF Append, Encode, Finish, Abort, RestoreReservation, history
  <2> QED
    BY <1>0, <1>5, <2>1, FillTime
<1>6. CASE Commit
  <2>1. wireInstant' = wireInstant
    BY <1>6 DEF Commit
  <2> QED
    BY <1>0, <1>6, <2>1, CommitTime
<1>7. ASSUME NEW wall \in Walls, NEW mono \in Monos,
             \/ BeginTemplate(wall, mono)
             \/ \E shape \in Shapes, records \in 1 .. MaxRecords : BeginData(wall, mono, shape, records)
             \/ \E shape \in Shapes : BeginDataStream(wall, mono, shape)
      PROVE  TimeInv' /\ wireInstant' >= wireInstant
  <2>1. 0 \in 0 .. MaxRecords /\ 1 .. MaxRecords \subseteq 0 .. MaxRecords
    BY StateAssumption DEF StateAssumption, Normalized
  <2>2. \/ BeginTemplate(wall, mono)
        \/ \E shape \in Shapes, streamed \in BOOLEAN, records \in 0 .. MaxRecords :
             BeginDataPacket(wall, mono, shape, streamed, records)
    BY <1>7, <2>1 DEF BeginData, BeginDataStream
  <2>3. wireInstant' = wireInstant
    BY <2>2 DEF BeginTemplate, BeginDataPacket
  <2> QED
    BY <1>0, <2>2, <2>3, BeginTime
<1>8. CASE (\E mono \in Monos : RefreshDue(mono)) \/ UNCHANGED vars
  <2>1. UNCHANGED <<lastReservedWall, result, wireInstant, nextToken, pending>>
    BY <1>8 DEF RefreshDue, vars, history
  <2> QED
    BY <1>0, <2>1, KeepTime
<1> QED
  BY <1>2, <1>3, <1>4, <1>5, <1>6, <1>7, <1>8 DEF Next

\* Header time never goes backwards within an epoch over every datagram that
\* may have reached a collector, for all clocks and all write results.
THEOREM WireTimeIsMonotone == Spec => WireTimeMonotone
<1>1. Spec => []TimeInv
  BY TimeInit, TimeStep, PTL DEF Spec
<1>2. TimeInv /\ [Next]_vars => [epoch'.id = epoch.id => wireInstant' >= wireInstant]_vars
  BY TimeStep
<1> QED
  BY <1>1, <1>2, PTL DEF Spec, WireTimeMonotone

-----------------------------------------------------------------------------
(* Kinds of step.                                                          *)

\* The pending packet was written in full and waits for its Commit.
FullWrite == Written /\ result.n = DatagramLength /\ ~result.err

\* The epoch fields the invariants read; the exhaustion latch may be set.
SameEpoch ==
  /\ epoch'.id = epoch.id /\ epoch'.ready = epoch.ready
  /\ epoch'.sequence = epoch.sequence

\* History and counters no reservation or rollback of a published epoch changes.
SameCounts == UNCHANGED <<counts, wireUnits, copies, dataSince>>

\* A due mark is never taken back, and setting it forgets what was fresh.
MarkKept == refreshDue => refreshDue' /\ fresh' = fresh

\* RefreshDue, a refused Begin, an appender that refuses its buffer, a stutter.
Idle ==
  /\ SameEpoch /\ SameCounts /\ MarkKept /\ epoch'.startOrigin = epoch.startOrigin
  /\ UNCHANGED <<pending, result, nextTemplateIndex, templateRound, refreshActive>>

\* Begin of a packet: a new token that no write has answered.
Reserve ==
  /\ SameEpoch /\ SameCounts /\ MarkKept /\ UNCHANGED <<result, templateRound>>
  /\ pending = NoPacket /\ pending' # NoPacket /\ pending' \in Packet /\ ~Written'
  /\ pending'.prior.refreshActive = refreshActive
  /\ pending'.prior.refreshDue = refreshDue'
  /\ pending'.prior.nextTemplateIndex = nextTemplateIndex

\* Begin of the next template of the bootstrap or of a due refresh.
ReserveTemplate ==
  /\ Reserve /\ pending'.template /\ pending'.shape = nextTemplateIndex
  /\ Protocol # "v5"
  /\ ~epoch.ready \/ refreshDue' \/ refreshActive
  /\ refreshActive' = (refreshActive \/ epoch.ready)
  /\ nextTemplateIndex' = IF epoch.ready /\ ~refreshActive THEN 0 ELSE nextTemplateIndex

\* Begin of data, which a full counter refuses.
ReserveData ==
  /\ Reserve /\ ~pending'.template /\ epoch.ready /\ ~refreshActive
  /\ pending'.streamed \/ pending'.records > 0
  /\ Protocol = "v9" => packetCount < RefreshCount
  /\ Protocol = "ipfix" /\ RefreshCount # 0 => dataMessageCount < RefreshCount
  /\ ~pending'.encoded
  /\ UNCHANGED <<refreshActive, nextTemplateIndex>>

\* Append, and the success of Encode and Finish, of a packet not yet written.
Fill ==
  /\ SameCounts
  /\ UNCHANGED <<epoch, refresh, result, fresh>>
  /\ pending # NoPacket /\ pending' # NoPacket /\ ~Written /\ ~Written'
  /\ pending'.template = pending.template /\ pending'.shape = pending.shape
  /\ pending'.prior = pending.prior /\ pending'.instant = pending.instant
  /\ pending'.streamed = pending.streamed
  /\ pending'.records >= pending.records
  /\ pending'.streamed /\ pending'.encoded => pending'.records > 0

\* Rollback of an unwritten packet of a published epoch.
GiveBack ==
  /\ SameEpoch /\ SameCounts /\ epoch.ready /\ UNCHANGED <<result, fresh>>
  /\ pending # NoPacket /\ pending' = NoPacket /\ ~Written
  /\ refreshActive' = pending.prior.refreshActive
  /\ refreshDue' = pending.prior.refreshDue
  /\ nextTemplateIndex' = pending.prior.nextTemplateIndex
  /\ templateRound' = pending.prior.templateRound

\* Commit of a write that was not full, in a published epoch.
Drop ==
  /\ SameCounts /\ UNCHANGED <<epoch, refresh, result, fresh>> /\ epoch.ready
  /\ pending # NoPacket /\ pending' = NoPacket /\ Written /\ ~FullWrite

\* Restart, AbortBootstrap, and any failure before the epoch is published.
StartOver ==
  /\ pending' = NoPacket /\ ResetProgress /\ ForgetWrites
  /\ epoch'.sequence = 0 /\ (epoch'.ready => Protocol = "v5")
  /\ ~epoch.ready \/ epoch'.id # epoch.id

\* Commit of a full write.
CommitWritten ==
  /\ CommitFull /\ FullWrite /\ pending # NoPacket /\ pending.encoded
  /\ pending' = NoPacket /\ UNCHANGED result

\* A handed-over write.
WriteStep == \E n \in -1 .. DatagramLength + 1, err \in BOOLEAN : Write(n, err)

\* Without a packet nothing is written.
LEMMA NotWritten == pending = NoPacket => ~Written /\ ~FullWrite
BY DEF Written, FullWrite

\* A full result is one whose count is the datagram and whose error is nil.
LEMMA FullResult ==
  ASSUME TypeInv
  PROVE  ClassifyWrite(result.n, DatagramLength, result.err) = "full"
           <=> result.n = DatagramLength /\ ~result.err
<1>1. result.n \in Int /\ result.err \in BOOLEAN /\ DatagramLength \in Nat \ {0}
  BY StateAssumption DEF StateAssumption, TypeInv, TypeOK, Result
<1> QED
  BY <1>1 DEF ClassifyWrite

\* The mark of a Begin or RefreshDue.
LEMMA MarkIsKept == ASSUME NEW mono, MarkDue(mono) PROVE MarkKept
BY DEF MarkDue, MarkKept, DueAt, MarkedDue

\* A refused reservation changes nothing the invariants read.
LEMMA RefusedIsIdle ==
  ASSUME TypeInv, NEW mono, MarkDue(mono),
         UNCHANGED <<pending, result, nextTemplateIndex, templateRound, refreshActive, counts,
                     wireUnits, copies, dataSince>>,
         epoch' = epoch \/ \E t : ReservationFails(t)
  PROVE  Idle
<1>1. SameEpoch /\ epoch'.startOrigin = epoch.startOrigin
  <2>1. CASE epoch' = epoch
    BY <2>1 DEF SameEpoch
  <2>2. ASSUME NEW t, ReservationFails(t) PROVE SameEpoch /\ epoch'.startOrigin = epoch.startOrigin
    BY <2>2 DEF ReservationFails, SameEpoch, TypeInv, TypeOK, Epoch
  <2> QED
    BY <2>1, <2>2
<1> QED
  BY <1>1, MarkIsKept DEF Idle, SameCounts, counts

\* The fields of a new packet, and that no write has answered it.
LEMMA NewPacketFields ==
  ASSUME TimeInv, NEW template \in BOOLEAN, NEW streamed \in BOOLEAN, NEW shape \in Shapes,
         NEW records \in 0 .. MaxRecords, NEW mono \in Nat, NEW t \in Nat, MarkDue(mono),
         pending' = NewPacket(template, streamed, shape, records, mono, t), result' = result
  PROVE  /\ pending' # NoPacket /\ pending' \in Packet /\ ~Written'
         /\ pending'.template = template /\ pending'.streamed = streamed
         /\ pending'.shape = shape /\ pending'.records = records /\ ~pending'.encoded
         /\ pending'.instant = t
         /\ pending'.prior.refreshActive = refreshActive
         /\ pending'.prior.refreshDue = refreshDue'
         /\ pending'.prior.nextTemplateIndex = nextTemplateIndex
<1>1. pending' \in Packet /\ pending' # NoPacket
  BY NewPacketTypes DEF TimeInv
<1>2. pending'.token = nextToken + 1
  BY DEF NewPacket
<1>3. ~Written'
  <2>1. result.token \in Nat /\ nextToken \in Nat /\ result.token <= nextToken
    BY DEF TimeInv, TypeInv, TypeOK, Result
  <2> QED
    BY <1>2, <2>1 DEF Written
<1> QED
  BY <1>1, <1>3 DEF NewPacket, PriorAt, MarkDue

\* Begin for a template.
LEMMA BeginTemplateKind ==
  ASSUME TimeInv, NEW wall \in Walls, NEW mono \in Monos, BeginTemplate(wall, mono)
  PROVE  Idle \/ ReserveTemplate
<1> DEFINE t == Clamp(wall)
<1>1. /\ TypeInv /\ MarkDue(mono) /\ t \in Nat /\ mono \in Nat /\ pending = NoPacket
      /\ UNCHANGED <<counts, result, wireUnits, copies, dataSince>>
  BY ClampBounds, StateAssumption
     DEF StateAssumption, BeginTemplate, CanBegin, TimeInv, TypeInv, TypeOK
<1>2. CASE ReservationFails(t)
  <2>1. UNCHANGED <<pending, nextTemplateIndex, templateRound, refreshActive>>
    BY <1>2 DEF ReservationFails
  <2> QED
    BY <1>1, <1>2, <2>1, RefusedIsIdle
<1>3. CASE ~ReservationFails(t)
  <2>1. /\ epoch' = [epoch EXCEPT !.startOrigin = IF Protocol = "v9" /\ Origin = NoTime THEN t ELSE @]
        /\ refreshActive' = (refreshActive \/ (epoch.ready /\ ~refreshActive))
        /\ nextTemplateIndex' = (IF epoch.ready /\ ~refreshActive THEN 0 ELSE nextTemplateIndex)
        /\ templateRound' = (IF epoch.ready /\ ~refreshActive THEN 0 ELSE templateRound)
        /\ pending' = NewPacket(TRUE, FALSE, nextTemplateIndex, 0, mono, t)
        /\ Protocol # "v5"
        /\ ~epoch.ready \/ DueAt(mono) \/ refreshActive
    BY <1>3 DEF BeginTemplate
  <2>2. 0 \in 0 .. MaxRecords /\ nextTemplateIndex \in Shapes
    BY <1>1, StateAssumption DEF StateAssumption, TypeInv, TypeOK
  <2> HIDE DEF t
  <2>3. /\ pending' # NoPacket /\ pending' \in Packet /\ ~Written'
        /\ pending'.template = TRUE /\ pending'.shape = nextTemplateIndex
        /\ pending'.prior.refreshActive = refreshActive
        /\ pending'.prior.refreshDue = refreshDue'
        /\ pending'.prior.nextTemplateIndex = nextTemplateIndex
    BY ONLY TimeInv, <1>1, <2>1, <2>2, NewPacketFields
  <2>4. SameEpoch
    BY <1>1, <2>1 DEF SameEpoch, TypeInv, TypeOK, Epoch
  <2>5. templateRound' = templateRound
    BY <1>1, <2>1 DEF TypeInv, RoundsInRange
  <2>6. Reserve
    BY <1>1, <2>3, <2>4, <2>5, MarkIsKept DEF Reserve, SameCounts
  <2>7. refreshDue' = DueAt(mono)
    BY <1>1 DEF MarkDue
  <2>8. refreshActive' = (refreshActive \/ epoch.ready)
    BY <2>1
  <2>9. ~epoch.ready \/ refreshDue' \/ refreshActive
    BY <2>1, <2>7
  <2> QED
    BY <2>1, <2>3, <2>6, <2>8, <2>9 DEF ReserveTemplate
<1> QED
  BY <1>2, <1>3

\* A counter that a data packet finds is not full.
LEMMA NotDueCounts ==
  ASSUME TypeInv, NEW mono, ~DueAt(mono), epoch.ready, ~refreshActive
  PROVE  /\ Protocol = "v9" => packetCount < RefreshCount
         /\ Protocol = "ipfix" /\ RefreshCount # 0 => dataMessageCount < RefreshCount
BY StateAssumption DEF StateAssumption, Normalized, TypeInv, TypeOK, DueAt, MarkedDue

\* Begin for data.
LEMMA BeginDataKind ==
  ASSUME TimeInv, NEW wall \in Walls, NEW mono \in Monos, NEW shape \in Shapes,
         NEW streamed \in BOOLEAN, NEW records \in 0 .. MaxRecords, streamed \/ records > 0,
         BeginDataPacket(wall, mono, shape, streamed, records)
  PROVE  Idle \/ ReserveData
<1> DEFINE t == Clamp(wall)
<1>1. /\ TypeInv /\ MarkDue(mono) /\ t \in Nat /\ mono \in Nat /\ pending = NoPacket
      /\ UNCHANGED <<counts, result, wireUnits, copies, dataSince>>
      /\ epoch.ready /\ ~DueAt(mono) /\ ~refreshActive
  BY ClampBounds, StateAssumption
     DEF StateAssumption, BeginDataPacket, CanBegin, TimeInv, TypeInv, TypeOK
<1>2. CASE ReservationFails(t)
  <2>1. UNCHANGED <<pending, nextTemplateIndex, templateRound, refreshActive>>
    BY <1>2 DEF ReservationFails
  <2> QED
    BY <1>1, <1>2, <2>1, RefusedIsIdle
<1>3. CASE UNCHANGED <<epoch, nextTemplateIndex, templateRound, refreshActive, pending>>
  BY <1>1, <1>3, RefusedIsIdle
<1>4. CASE /\ pending' = NewPacket(FALSE, streamed, shape, records, mono, t)
           /\ UNCHANGED <<epoch, nextTemplateIndex, templateRound, refreshActive>>
  <2> HIDE DEF t
  <2>1. /\ pending' # NoPacket /\ pending' \in Packet /\ ~Written'
        /\ pending'.template = FALSE /\ pending'.streamed = streamed
        /\ pending'.records = records /\ ~pending'.encoded
        /\ pending'.prior.refreshActive = refreshActive
        /\ pending'.prior.refreshDue = refreshDue'
        /\ pending'.prior.nextTemplateIndex = nextTemplateIndex
    BY ONLY TimeInv, <1>1, <1>4, NewPacketFields, streamed \in BOOLEAN, shape \in Shapes,
            records \in 0 .. MaxRecords
  <2>2. Reserve
    BY <1>1, <1>4, <2>1, MarkIsKept DEF Reserve, SameCounts, SameEpoch
  <2>3. pending'.streamed \/ pending'.records > 0
    BY <2>1
  <2> QED
    BY <1>1, <1>4, <2>1, <2>2, <2>3, NotDueCounts DEF ReserveData
<1> QED
  <2>1. \/ ReservationFails(t)
        \/ UNCHANGED <<epoch, nextTemplateIndex, templateRound, refreshActive, pending>>
        \/ /\ pending' = NewPacket(FALSE, streamed, shape, records, mono, t)
           /\ UNCHANGED <<epoch, nextTemplateIndex, templateRound, refreshActive>>
    BY DEF BeginDataPacket
  <2> QED
    BY ONLY <1>2, <1>3, <1>4, <2>1

\* A discard starts an unpublished epoch over.
LEMMA DiscardKind ==
  ASSUME TypeInv, DiscardUnpublished, ~epoch.ready, pending' = NoPacket
  PROVE  StartOver
<1>1. epoch' = DiscardedEpoch /\ ResetProgress /\ ForgetWrites
  BY DEF DiscardUnpublished
<1>2. epoch'.sequence = 0 /\ epoch'.ready = epoch.ready
  <2>1. epoch \in Epoch
    BY DEF TypeInv, TypeOK
  <2> QED
    BY <1>1, <2>1 DEF DiscardedEpoch, Epoch
<1> QED
  BY <1>1, <1>2 DEF StartOver

\* A rollback is of a published epoch or starts over.
LEMMA RestoreKind ==
  ASSUME TimeInv, pending # NoPacket, ~Written, RestoreReservation
  PROVE  GiveBack \/ StartOver
<1>1. TypeInv
  BY DEF TimeInv
<1>2. CASE epoch.ready
  <2>1. /\ epoch' = [epoch EXCEPT !.startOrigin = pending.prior.startOrigin]
        /\ refreshActive' = pending.prior.refreshActive
        /\ refreshDue' = pending.prior.refreshDue
        /\ nextTemplateIndex' = pending.prior.nextTemplateIndex
        /\ templateRound' = pending.prior.templateRound
        /\ UNCHANGED <<counts, copies, dataSince, fresh, wireUnits, result>>
        /\ pending' = NoPacket
    BY <1>2 DEF RestoreReservation
  <2>2. SameEpoch
    BY <1>1, <2>1 DEF SameEpoch, TypeInv, TypeOK, Epoch
  <2> QED
    BY <1>2, <2>1, <2>2 DEF GiveBack, SameCounts
<1>3. CASE ~epoch.ready
  BY <1>1, <1>3, DiscardKind DEF RestoreReservation
<1> QED
  BY <1>2, <1>3

\* Append, Encode, Finish and Abort touch only a packet that was not written.
LEMMA FillKind ==
  ASSUME TimeInv, Append \/ Encode \/ Finish \/ Abort
  PROVE  Fill \/ GiveBack \/ StartOver
<1>1. pending # NoPacket /\ pending \in Packet /\ ~Written
  BY DEF TimeInv, PendingTime, TypeInv, TypeOK, Append, Encode, Finish, Abort
<1>2. CASE RestoreReservation
  BY <1>1, <1>2, RestoreKind
<1>3. CASE Append
  <2>1. /\ pending' = [pending EXCEPT !.records = @ + 1] /\ ~pending.encoded
        /\ pending.records < MaxRecords
        /\ UNCHANGED <<epoch, refresh, counts, result, history>>
    BY <1>3 DEF Append
  <2>2. /\ pending' \in Packet /\ pending'.token = pending.token
        /\ pending'.template = pending.template /\ pending'.shape = pending.shape
        /\ pending'.prior = pending.prior /\ pending'.instant = pending.instant
        /\ pending'.streamed = pending.streamed /\ pending'.encoded = pending.encoded
        /\ pending'.records = pending.records + 1 /\ pending.records \in Nat
    BY <1>1, <2>1, StateAssumption DEF StateAssumption, Packet
  <2>3. pending' # NoPacket
    BY <2>2, NoPacketAssumption DEF NoPacketAssumption
  <2>4. ~Written'
    BY <1>1, <2>1, <2>2 DEF Written
  <2> QED
    BY <1>1, <2>1, <2>2, <2>3, <2>4 DEF Fill, SameCounts, history
<1>4. CASE ~Append /\ ~RestoreReservation
  <2>1. /\ pending' = [pending EXCEPT !.encoded = TRUE] /\ (pending.streamed => pending.records > 0)
        /\ UNCHANGED <<epoch, refresh, counts, result, history>>
    BY <1>4 DEF Encode, Finish, Abort
  <2>2. /\ pending' \in Packet /\ pending'.token = pending.token
        /\ pending'.template = pending.template /\ pending'.shape = pending.shape
        /\ pending'.prior = pending.prior /\ pending'.instant = pending.instant
        /\ pending'.streamed = pending.streamed /\ pending'.records = pending.records
    BY <1>1, <2>1 DEF Packet
  <2>5. pending.records \in Nat
    BY <1>1, StateAssumption DEF StateAssumption, Packet
  <2>3. pending' # NoPacket
    BY <2>2, NoPacketAssumption DEF NoPacketAssumption
  <2>4. ~Written'
    BY <1>1, <2>1, <2>2 DEF Written
  <2> QED
    BY <1>1, <2>1, <2>2, <2>3, <2>4, <2>5 DEF Fill, SameCounts, history
<1> QED
  BY <1>2, <1>3, <1>4

\* Commit answers the write of its own packet.
LEMMA CommitKind ==
  ASSUME TimeInv, Commit
  PROVE  CommitWritten \/ Drop \/ StartOver
<1>1. /\ TypeInv /\ pending # NoPacket /\ pending.encoded /\ Written
      /\ pending' = NoPacket /\ UNCHANGED result
  BY DEF Commit, Current, Written, TimeInv
<1>2. CASE ClassifyWrite(result.n, DatagramLength, result.err) = "full"
  <2>1. CommitFull
    BY <1>2 DEF Commit
  <2> QED
    BY <1>1, <1>2, <2>1, FullResult DEF CommitWritten, FullWrite
<1>3. CASE ClassifyWrite(result.n, DatagramLength, result.err) # "full"
  <2>1. DiscardUnpublished
    BY <1>3 DEF Commit, CommitAmbiguous, CommitInvalid
  <2>2. CASE epoch.ready
    <3>1. UNCHANGED <<epoch, refresh, counts, wireUnits, dataSince, fresh, copies>>
      BY <2>1, <2>2 DEF DiscardUnpublished
    <3>2. ~FullWrite
      BY <1>1, <1>3, FullResult DEF FullWrite
    <3> QED
      BY <1>1, <2>2, <3>1, <3>2 DEF Drop, SameCounts
  <2>3. CASE ~epoch.ready
    BY <1>1, <2>1, <2>3, DiscardKind
  <2> QED
    BY <2>2, <2>3
<1> QED
  BY <1>2, <1>3

\* Restart and AbortBootstrap.
LEMMA EpochKind ==
  ASSUME TypeInv, Restart \/ AbortBootstrap
  PROVE  StartOver
<1>1. CASE Restart
  <2>1. epoch'.sequence = 0 /\ epoch'.ready = (Protocol = "v5") /\ epoch'.id = epoch.id + 1
    BY <1>1 DEF Restart, NewEpoch
  <2>2. epoch.id \in Nat
    BY DEF TypeInv, TypeOK, Epoch
  <2>3. epoch'.ready => Protocol = "v5"
    BY <2>1, Zenon
  <2>4. epoch'.id # epoch.id
    BY <2>1, <2>2
  <2> QED
    BY <1>1, <2>1, <2>3, <2>4 DEF Restart, StartOver
<1>2. CASE AbortBootstrap
  <2>1. epoch'.sequence = 0 /\ epoch'.ready = epoch.ready
    BY <1>2 DEF AbortBootstrap, DiscardedEpoch, TypeInv, TypeOK, Epoch
  <2> QED
    BY <1>2, <2>1 DEF AbortBootstrap, StartOver
<1> QED
  BY <1>1, <1>2

\* Every step of State is of one of the kinds.
LEMMA StepKinds ==
  ASSUME TimeInv, [Next]_vars
  PROVE  \/ Idle \/ ReserveTemplate \/ ReserveData \/ Fill \/ GiveBack \/ Drop
         \/ StartOver \/ WriteStep \/ CommitWritten
<1>0. TypeInv
  BY DEF TimeInv
<1>1. ASSUME NEW wall \in Walls, NEW mono \in Monos, NEW shape \in Shapes,
             \/ \E records \in 1 .. MaxRecords : BeginData(wall, mono, shape, records)
             \/ BeginDataStream(wall, mono, shape)
      PROVE  Idle \/ ReserveData
  <2>1. 0 \in 0 .. MaxRecords /\ \A r \in 1 .. MaxRecords : r \in 0 .. MaxRecords /\ r > 0
    BY StateAssumption DEF StateAssumption
  <2> QED
    BY <1>1, <2>1, BeginDataKind DEF BeginData, BeginDataStream
<1>2. ASSUME NEW mono \in Monos, RefreshDue(mono) PROVE Idle
  BY <1>0, <1>2, RefusedIsIdle DEF RefreshDue
<1>3. CASE UNCHANGED vars
  BY <1>3 DEF vars, refresh, history, Idle, SameEpoch, SameCounts, MarkKept
<1> QED
  BY <1>0, <1>1, <1>2, <1>3, BeginTemplateKind, FillKind, CommitKind, EpochKind
     DEF Next, WriteStep

-----------------------------------------------------------------------------
(* The shared appender.                                                    *)

\* The appender follows the packet that streams into it.
LEMMA AppenderStep ==
  ASSUME TimeInv, AppenderReleased, [Next]_vars
  PROVE  AppenderReleased'
<1>0. TypeInv /\ (pending # NoPacket => pending \in Packet)
  BY DEF TimeInv, TypeInv, TypeOK
<1>1. ASSUME NEW wall \in Walls, NEW mono \in Monos, NEW shape \in Shapes,
             NEW streamed \in BOOLEAN, NEW records \in 0 .. MaxRecords,
             BeginDataPacket(wall, mono, shape, streamed, records)
      PROVE  AppenderReleased'
  <2>1. pending = NoPacket /\ ~stream
    BY <1>1 DEF BeginDataPacket, CanBegin, AppenderReleased
  <2>2. CASE ~stream'
    BY <2>2 DEF AppenderReleased
  <2>3. CASE stream'
    <3>1. /\ streamed /\ result' = result /\ MarkDue(mono)
          /\ pending' = NewPacket(FALSE, streamed, shape, records, mono, Clamp(wall))
      BY <1>1, <2>1, <2>3 DEF BeginDataPacket
    <3>2. Clamp(wall) \in Nat /\ mono \in Nat
      BY <1>0, ClampBounds, StateAssumption DEF StateAssumption, TypeInv, TypeOK
    <3>3. pending' # NoPacket /\ pending'.streamed = streamed /\ ~pending'.encoded
      BY ONLY TimeInv, <3>1, <3>2, NewPacketFields, streamed \in BOOLEAN, shape \in Shapes,
              records \in 0 .. MaxRecords
    <3> QED
      BY <3>1, <3>3 DEF AppenderReleased
  <2> QED
    BY <2>2, <2>3
<1>2. ASSUME NEW wall \in Walls, NEW mono \in Monos, NEW shape \in Shapes,
             \/ \E records \in 1 .. MaxRecords : BeginData(wall, mono, shape, records)
             \/ BeginDataStream(wall, mono, shape)
      PROVE  AppenderReleased'
  <2>1. 0 \in 0 .. MaxRecords /\ 1 .. MaxRecords \subseteq 0 .. MaxRecords
    BY StateAssumption DEF StateAssumption
  <2> QED
    BY <1>1, <1>2, <2>1 DEF BeginData, BeginDataStream
<1>3. ASSUME NEW wall \in Walls, NEW mono \in Monos, BeginTemplate(wall, mono)
      PROVE  AppenderReleased'
  BY <1>3 DEF BeginTemplate, CanBegin, AppenderReleased
<1>4. CASE RestoreReservation \/ Restart \/ AbortBootstrap
  <2>1. ~stream'
    BY <1>4 DEF RestoreReservation, RestoredStream, Restart, AbortBootstrap, AppenderReleased
  <2> QED
    BY <2>1 DEF AppenderReleased
<1>5. CASE Append
  <2>1. /\ pending' = [pending EXCEPT !.records = @ + 1] /\ pending # NoPacket
        /\ pending.records < MaxRecords /\ stream' = stream
    BY <1>5 DEF Append
  <2>2. pending' \in Packet /\ pending'.streamed = pending.streamed /\ pending'.encoded = pending.encoded
    BY <1>0, <2>1, StateAssumption DEF StateAssumption, Packet
  <2>3. pending' # NoPacket
    BY <2>2, NoPacketAssumption DEF NoPacketAssumption
  <2> QED
    BY <2>1, <2>2, <2>3 DEF AppenderReleased
<1>6. CASE (Encode \/ Finish \/ Abort) /\ ~RestoreReservation
  <2>1. ~stream'
    BY <1>6 DEF Encode, Finish, Abort, AppenderReleased
  <2> QED
    BY <2>1 DEF AppenderReleased
<1>7. CASE Commit
  BY <1>7 DEF Commit, Current, AppenderReleased
<1>8. CASE \/ \E n \in -1 .. DatagramLength + 1, err \in BOOLEAN : Write(n, err)
           \/ \E mono \in Monos : RefreshDue(mono)
           \/ UNCHANGED vars
  <2>1. UNCHANGED <<pending, stream>>
    BY <1>8 DEF Write, RefreshDue, vars
  <2> QED
    BY <2>1 DEF AppenderReleased
<1> QED
  BY <1>2, <1>3, <1>4, <1>5, <1>6, <1>7, <1>8 DEF Next

\* The shared appender holds a caller buffer only while a streamed packet is
\* being filled, whatever Abort, Restart, AbortBootstrap and failures of Begin,
\* Encode and Finish interleave (state.go: streamAppender.Reset on every path).
THEOREM AppenderIsReleased == Spec => []AppenderReleased
<1>1. Init => AppenderReleased
  BY DEF Init, AppenderReleased
<1>2. TimeInv /\ [Next]_vars => TimeInv'
  BY TimeStep
<1>3. TimeInv /\ AppenderReleased /\ [Next]_vars => AppenderReleased'
  BY AppenderStep
<1> QED
  BY TimeInit, <1>1, <1>2, <1>3, PTL DEF Spec

-----------------------------------------------------------------------------
(* The header.                                                             *)

\* A reading that reserveWallLocked accepts for a packet with an origin.
LEMMA ReservableHeader ==
  ASSUME NEW t, Reservable(t), Protocol # "ipfix",
         ~(Origin = NoTime /\ Protocol = "v9" /\ ~epoch.ready)
  PROVE  /\ Origin # NoTime /\ t >= Origin
         /\ Uptime(t) <= MaxUptime /\ (t - Origin) % NanosPerMilli = 0
BY DEF Reservable

\* The origin is fixed from the reservation of a packet to its end.
LEMMA HeaderStep ==
  ASSUME TimeInv, HeaderRepresentable, [Next]_vars
  PROVE  HeaderRepresentable'
<1> USE StateAssumption DEF StateAssumption, Normalized
<1>0. TypeInv
  BY DEF TimeInv
<1>1. ASSUME pending' # NoPacket => pending # NoPacket /\ pending'.instant = pending.instant,
             epoch'.startOrigin = epoch.startOrigin
      PROVE  HeaderRepresentable'
  <2>1. Origin' = Origin
    BY <1>1 DEF Origin
  <2> QED
    BY <1>1, <2>1 DEF HeaderRepresentable, Uptime
<1>2. ASSUME pending' = NoPacket PROVE HeaderRepresentable'
  BY <1>2 DEF HeaderRepresentable
<1>3. ASSUME NEW wall \in Walls, NEW mono \in Monos, BeginTemplate(wall, mono)
      PROVE  HeaderRepresentable'
  <2> DEFINE t == Clamp(wall)
  <2>0. t \in Nat /\ mono \in Nat /\ MarkDue(mono) /\ result' = result /\ Protocol # "v5"
    BY <1>0, <1>3, ClampBounds DEF TypeInv, TypeOK, BeginTemplate
  <2>1. CASE ReservationFails(t)
    BY <1>2, <1>3, <2>1 DEF ReservationFails, BeginTemplate, CanBegin
  <2>2. CASE ~ReservationFails(t)
    <3>1. /\ epoch' = [epoch EXCEPT !.startOrigin = IF Protocol = "v9" /\ Origin = NoTime THEN t ELSE @]
          /\ pending' = NewPacket(TRUE, FALSE, nextTemplateIndex, 0, mono, t)
          /\ Reservable(t)
      BY <1>3, <2>2 DEF BeginTemplate
    <3> HIDE DEF t
    <3>2. pending'.instant = t
      BY <3>1 DEF NewPacket
    <3>3. epoch'.startOrigin = IF Protocol = "v9" /\ Origin = NoTime THEN t ELSE epoch.startOrigin
      BY <1>0, <3>1 DEF TypeInv, TypeOK, Epoch
    <3>4. CASE Protocol = "v9" /\ Origin = NoTime
      <4>1. Origin' = t
        BY <3>3, <3>4 DEF Origin
      <4>2. (t - t) \div NanosPerMilli = 0 /\ (t - t) % NanosPerMilli = 0 /\ t # NoTime
        BY <2>0 DEF NoTime
      <4> QED
        BY <2>0, <3>2, <4>1, <4>2 DEF HeaderRepresentable, Uptime
    <3>5. CASE ~(Protocol = "v9" /\ Origin = NoTime) /\ Protocol # "ipfix"
      <4>1. Origin' = Origin
        BY <3>3, <3>5 DEF Origin
      <4> QED
        BY <3>1, <3>2, <3>5, <4>1, ReservableHeader DEF HeaderRepresentable, Uptime
    <3>6. CASE Protocol = "ipfix"
      BY <3>6 DEF HeaderRepresentable
    <3> QED
      BY <3>4, <3>5, <3>6
  <2> QED
    BY <2>1, <2>2
<1>4. ASSUME NEW wall \in Walls, NEW mono \in Monos, NEW shape \in Shapes,
             NEW streamed \in BOOLEAN, NEW records,
             BeginDataPacket(wall, mono, shape, streamed, records)
      PROVE  HeaderRepresentable'
  <2>1. pending = NoPacket /\ epoch.ready
    BY <1>4 DEF BeginDataPacket, CanBegin
  <2>2. CASE pending' = pending
    BY <1>2, <2>1, <2>2
  <2>3. CASE pending' # pending
    <3>1. /\ pending' = NewPacket(FALSE, streamed, shape, records, mono, Clamp(wall))
          /\ epoch' = epoch /\ Reservable(Clamp(wall))
      BY <1>4, <2>3 DEF BeginDataPacket, ReservationFails
    <3>2. pending'.instant = Clamp(wall)
      BY <3>1 DEF NewPacket
    <3>3. Origin' = Origin
      BY <3>1 DEF Origin
    <3> QED
      BY <2>1, <3>1, <3>2, <3>3, ReservableHeader DEF HeaderRepresentable, Uptime
  <2> QED
    BY <2>2, <2>3
<1>5. CASE Append \/ Encode \/ Finish \/ Abort
  <2>1. CASE Fill
    BY <1>1, <2>1 DEF Fill
  <2>2. CASE GiveBack \/ StartOver
    BY <1>2, <2>2 DEF GiveBack, StartOver
  <2> QED
    BY <1>5, <2>1, <2>2, FillKind
<1>6. CASE Commit \/ Restart \/ AbortBootstrap
  BY <1>2, <1>6 DEF Commit, Restart, AbortBootstrap
<1>7. CASE \/ \E n \in -1 .. DatagramLength + 1, err \in BOOLEAN : Write(n, err)
           \/ \E mono \in Monos : RefreshDue(mono)
           \/ UNCHANGED vars
  BY <1>1, <1>7 DEF Write, RefreshDue, vars
<1> QED
  BY <1>3, <1>4, <1>5, <1>6, <1>7 DEF Next, BeginData, BeginDataStream

\* The header of a reserved packet is representable against the uptime origin
\* in force, for every reading of the wall clock: the clamp, the captured origin
\* of a v9 bootstrap and rollbacks never leave an uptime the uint32 field cannot
\* hold (state.go: reserveWallLocked, beginPacket).
THEOREM HeaderIsRepresentable == Spec => []HeaderRepresentable
<1>1. Init => HeaderRepresentable
  BY DEF Init, HeaderRepresentable
<1>2. TimeInv /\ [Next]_vars => TimeInv'
  BY TimeStep
<1>3. TimeInv /\ HeaderRepresentable /\ [Next]_vars => HeaderRepresentable'
  BY HeaderStep
<1> QED
  BY TimeInit, <1>1, <1>2, <1>3, PTL DEF Spec

-----------------------------------------------------------------------------
(* The sequence number.                                                    *)

\* The remainder is the only one: a number a multiple of m away from a value
\* below m has that value as its remainder.
LEMMA ModUnique ==
  ASSUME NEW m \in Nat \ {0}, NEW q \in Int, NEW r \in 0 .. m - 1, NEW x \in Int, x = m * q + r
  PROVE  x % m = r
<1> DEFINE k == x \div m
           e == x % m
<1>1. k \in Int /\ e \in 0 .. m - 1 /\ x = m * k + e
  OBVIOUS
<1> HIDE DEF k, e
<1>2. CASE q = k
  <2>1. r = e
    BY <1>1, <1>2
  <2> QED
    BY <2>1 DEF e
<1>3. CASE q # k
  <2>1. m * (q - k) = e - r
    BY <1>1
  <2>2. CASE q - k >= 1
    <3>1. m * (q - k) >= m
      BY <1>1, <2>2
    <3> QED
      BY <1>1, <2>1, <3>1
  <2>3. CASE k - q >= 1
    <3>1. m * (k - q) >= m
      BY <1>1, <2>3
    <3>2. m * (k - q) = r - e
      BY <1>1
    <3> QED
      BY <1>1, <3>1, <3>2
  <2> QED
    BY <1>1, <1>3, <2>2, <2>3
<1> QED
  BY <1>2, <1>3

\* Counting on from a wrapped value wraps to the same number.
LEMMA ModAdd ==
  ASSUME NEW m \in Nat \ {0}, NEW a \in Nat, NEW b \in Nat
  PROVE  ((a % m) + b) % m = (a + b) % m
<1> DEFINE q == a \div m
           r == a % m
           k == (r + b) \div m
           e == (r + b) % m
<1>1. q \in Int /\ r \in 0 .. m - 1 /\ a = m * q + r
  OBVIOUS
<1> HIDE DEF q, r
<1>2. k \in Int /\ e \in 0 .. m - 1 /\ r + b = m * k + e
  BY <1>1
<1> HIDE DEF k, e
<1> DEFINE x == a + b
           p == q + k
<1>3. x = m * p + e
  BY <1>1, <1>2
<1>4. p \in Int /\ x \in Int
  BY <1>1, <1>2
<1> HIDE DEF x, p
<1>5. x % m = e
  BY ONLY <1>2, <1>3, <1>4, ModUnique, m \in Nat \ {0}
<1> QED
  BY <1>5 DEF x, e, r

\* The sequence of the epoch counts the fully written units, one packet late
\* between the write of a packet and its Commit.
SequenceInv ==
  /\ ~FullWrite => epoch.sequence = wireUnits % SeqModulus
  /\ FullWrite => (epoch.sequence + SequenceUnits(pending)) % SeqModulus = wireUnits % SeqModulus

\* Nothing is counted at first.
LEMMA ZeroMod == 0 % SeqModulus = 0
BY StateAssumption DEF StateAssumption

\* Every kind of step keeps the count.
LEMMA SequenceStep ==
  ASSUME TimeInv, SequenceInv, [Next]_vars
  PROVE  SequenceInv'
<1>0. TypeInv
  BY DEF TimeInv
<1>1. CASE Idle
  <2>1. FullWrite' = FullWrite /\ (FullWrite => SequenceUnits(pending)' = SequenceUnits(pending))
    BY <1>1 DEF Idle, FullWrite, Written, SequenceUnits
  <2> QED
    BY <1>1, <2>1 DEF Idle, SameEpoch, SameCounts, SequenceInv
<1>2. CASE ReserveTemplate \/ ReserveData \/ Fill \/ GiveBack \/ Drop
  <2>1. ~FullWrite /\ ~FullWrite'
    BY <1>2 DEF ReserveTemplate, ReserveData, Reserve, Fill, GiveBack, Drop, FullWrite, Written
  <2>2. epoch'.sequence = epoch.sequence /\ wireUnits' = wireUnits
    BY <1>2 DEF ReserveTemplate, ReserveData, Reserve, Fill, GiveBack, Drop, SameEpoch, SameCounts
  <2> QED
    BY <2>1, <2>2 DEF SequenceInv
<1>3. CASE StartOver
  <2>1. ~FullWrite' /\ epoch'.sequence = 0 /\ wireUnits' = 0
    BY <1>3 DEF StartOver, ForgetWrites, FullWrite, Written
  <2> QED
    BY <2>1, ZeroMod DEF SequenceInv
<1>4. ASSUME NEW n \in -1 .. DatagramLength + 1, NEW err \in BOOLEAN, Write(n, err)
      PROVE  SequenceInv'
  <2>1. /\ pending \in Packet /\ ~Written /\ UNCHANGED <<epoch, pending>>
        /\ result'.token = pending.token /\ result'.n = n /\ result'.err = err
        /\ wireUnits' = IF n = DatagramLength /\ ~err THEN wireUnits + SequenceUnits(pending) ELSE wireUnits
    BY <1>0, <1>4 DEF Write, TypeInv, TypeOK
  <2>2. FullWrite' <=> n = DatagramLength /\ ~err
    BY <1>4, <2>1 DEF FullWrite, Written, Write
  <2>3. epoch.sequence = wireUnits % SeqModulus
    BY <2>1 DEF SequenceInv, FullWrite
  <2>4. SequenceUnits(pending) \in Nat /\ wireUnits \in Nat /\ SeqModulus \in Nat \ {0}
    BY <1>0, <2>1, StateAssumption DEF StateAssumption, SequenceUnits, Packet, TypeInv, TypeOK
  <2>5. SequenceUnits(pending)' = SequenceUnits(pending)
    BY <2>1 DEF SequenceUnits
  <2>6. (epoch.sequence + SequenceUnits(pending)) % SeqModulus = (wireUnits + SequenceUnits(pending)) % SeqModulus
    BY ONLY <2>3, <2>4, ModAdd
  <2>7. CASE FullWrite'
    BY <2>1, <2>2, <2>5, <2>6, <2>7 DEF SequenceInv
  <2>8. CASE ~FullWrite'
    BY <2>1, <2>2, <2>3, <2>8 DEF SequenceInv
  <2> QED
    BY <2>7, <2>8
<1>5. CASE CommitWritten
  <2>1. epoch'.sequence = (epoch.sequence + SequenceUnits(pending)) % SeqModulus
    BY <1>0, <1>5 DEF CommitWritten, CommitFull, TypeInv, TypeOK, Epoch
  <2>2. ~FullWrite' /\ FullWrite /\ wireUnits' = wireUnits
    BY <1>5 DEF CommitWritten, CommitFull, FullWrite, Written
  <2> QED
    BY <2>1, <2>2 DEF SequenceInv
<1> QED
  BY <1>1, <1>2, <1>3, <1>4, <1>5, StepKinds DEF WriteStep

\* Between packets the next header's sequence is the number of units in the
\* fully written datagrams of this epoch, modulo 2^32, for every sequence of
\* ambiguous, invalid, aborted and stale transactions (state.go: Commit,
\* commitSequenceLocked).
THEOREM SequenceCounts == Spec => []SequenceCountsHandoffs
<1>1. Init => SequenceInv
  BY ZeroMod DEF Init, NewEpoch, SequenceInv, FullWrite, Written
<1>2. TimeInv /\ [Next]_vars => TimeInv'
  BY TimeStep
<1>3. TimeInv /\ SequenceInv /\ [Next]_vars => SequenceInv'
  BY SequenceStep
<1>4. SequenceInv => SequenceCountsHandoffs
  BY NotWritten DEF SequenceInv, SequenceCountsHandoffs
<1> QED
  BY TimeInit, <1>1, <1>2, <1>3, <1>4, PTL DEF Spec

-----------------------------------------------------------------------------
(* Template rounds.                                                        *)

\* The commit of the pending template publishes the epoch or ends its refresh.
Completes == EndsRound(pending) /\ (epoch.ready \/ templateRound + 1 = InitialCopies)

\* Only the commit of the last template of the last round restarts the counters.
LEMMA CommitCompletes ==
  ASSUME TypeInv, CommitWritten, Completes
  PROVE  /\ epoch'.ready /\ ~refreshActive' /\ nextTemplateIndex' = 0
         /\ packetCount' = 0 /\ dataMessageCount' = 0 /\ dataSince' = 0
<1> DEFINE rounds   == IF EndsRound(pending) THEN templateRound + 1 ELSE templateRound
           complete == EndsRound(pending) /\ IF epoch.ready THEN refreshActive /\ rounds = 1
                                             ELSE rounds = InitialCopies
<1>1. complete
  BY StateAssumption
     DEF StateAssumption, Normalized, Completes, CommitWritten, TypeInv, TypeOK, RoundsInRange, EndsRound
<1>2. /\ epoch' = [epoch EXCEPT !.sequence = (@ + SequenceUnits(pending)) % SeqModulus,
                                !.ready = epoch.ready \/ complete]
      /\ refreshActive' = (refreshActive /\ ~complete)
      /\ packetCount' = 0 /\ dataMessageCount' = 0 /\ dataSince' = 0
      /\ nextTemplateIndex' = 0
  BY <1>1 DEF CommitWritten, CommitFull, Completes
<1> HIDE DEF complete
<1>3. epoch'.ready = TRUE
  BY <1>1, <1>2 DEF TypeInv, TypeOK, Epoch
<1> QED
  BY <1>1, <1>2, <1>3

\* Any other full commit counts the packet and moves to the next template.
LEMMA CommitCounts ==
  ASSUME TypeInv, CommitWritten, ~Completes
  PROVE  /\ epoch'.ready = epoch.ready /\ refreshActive' = refreshActive /\ MarkKept
         /\ packetCount' = IF Protocol = "v9" THEN packetCount + 1 ELSE packetCount
         /\ dataMessageCount' = IF Protocol = "ipfix" /\ pending.records # 0
                                THEN dataMessageCount + 1 ELSE dataMessageCount
         /\ dataSince' = dataSince
         /\ nextTemplateIndex' = IF EndsRound(pending) THEN 0
                                 ELSE IF pending.template THEN nextTemplateIndex + 1
                                 ELSE nextTemplateIndex
         /\ templateRound' = IF EndsRound(pending) THEN templateRound + 1 ELSE templateRound
<1> DEFINE rounds   == IF EndsRound(pending) THEN templateRound + 1 ELSE templateRound
           complete == EndsRound(pending) /\ IF epoch.ready THEN refreshActive /\ rounds = 1
                                             ELSE rounds = InitialCopies
<1>1. ~complete
  BY DEF Completes
<1>2. /\ epoch' = [epoch EXCEPT !.sequence = (@ + SequenceUnits(pending)) % SeqModulus,
                                !.ready = epoch.ready \/ complete]
      /\ refreshActive' = (refreshActive /\ ~complete)
      /\ dataSince' = dataSince
      /\ packetCount' = (IF Protocol = "v9" THEN packetCount + 1 ELSE packetCount)
      /\ dataMessageCount' = (IF Protocol = "ipfix" /\ pending.records # 0
                              THEN dataMessageCount + 1 ELSE dataMessageCount)
      /\ nextTemplateIndex' = (IF EndsRound(pending) THEN 0
                               ELSE IF pending.template THEN nextTemplateIndex + 1
                               ELSE nextTemplateIndex)
      /\ templateRound' = rounds
      /\ refreshDue => refreshDue'
      /\ fresh' = IF refreshDue' /\ ~refreshDue THEN {} ELSE fresh
  BY <1>1 DEF CommitWritten, CommitFull, MarkedDue
<1> HIDE DEF complete
<1>3. epoch'.ready = (epoch.ready \/ complete)
  BY <1>2 DEF TypeInv, TypeOK, Epoch
<1>4. epoch'.ready = epoch.ready /\ refreshActive' = refreshActive
  BY <1>1, <1>2, <1>3 DEF TypeInv, TypeOK, Epoch
<1>5. MarkKept
  BY <1>2 DEF MarkKept
<1> QED
  BY <1>2, <1>4, <1>5

\* A refresh round is active only while it is due, every template before the
\* next one was fully written since, and so was the pending one once written.
\* What a rollback would restore describes the same round.
RoundInv ==
  /\ epoch.ready /\ ~refreshActive => nextTemplateIndex = 0
  /\ refreshActive => /\ epoch.ready /\ refreshDue
                      /\ \A s \in Shapes : s < nextTemplateIndex => s \in fresh
  /\ pending # NoPacket =>
       /\ pending.template => pending.shape = nextTemplateIndex
       /\ ~pending.template => epoch.ready
       /\ pending.prior.refreshActive =>
            refreshActive /\ pending.prior.nextTemplateIndex = nextTemplateIndex
       /\ epoch.ready /\ ~pending.prior.refreshActive => pending.prior.nextTemplateIndex = 0
       /\ refreshActive => pending.prior.refreshDue
       /\ refreshActive /\ pending.template /\ FullWrite => pending.shape \in fresh

\* Every kind of step keeps the round.
LEMMA RoundStep ==
  ASSUME TimeInv, RoundInv, [Next]_vars
  PROVE  RoundInv'
<1> USE StateAssumption DEF StateAssumption, Normalized
<1>0. TypeInv /\ nextTemplateIndex \in Nat /\ nextTemplateIndex \in Shapes
  BY DEF TimeInv, TypeInv, TypeOK, Shapes
<1>1. CASE Idle
  <2>1. FullWrite' <=> FullWrite
    BY <1>1 DEF Idle, FullWrite, Written
  <2> QED
    BY <1>1, <2>1 DEF Idle, SameEpoch, MarkKept, RoundInv
<1>2. CASE ReserveTemplate
  <2>1. ~FullWrite'
    BY <1>2 DEF ReserveTemplate, Reserve, FullWrite
  <2>2. epoch'.ready = epoch.ready /\ MarkKept /\ pending' # NoPacket
    BY <1>2 DEF ReserveTemplate, Reserve, SameEpoch
  <2>3. refreshActive' => refreshDue' /\ (refreshActive => fresh' = fresh)
    BY <1>2, <2>2 DEF ReserveTemplate, MarkKept, RoundInv
  <2>4. nextTemplateIndex' = nextTemplateIndex
    BY <1>2 DEF ReserveTemplate, RoundInv
  <2>5. refreshActive' => epoch.ready
    BY <1>2 DEF ReserveTemplate, RoundInv
  <2>6. epoch'.ready => refreshActive'
    BY <1>2, <2>2 DEF ReserveTemplate
  <2>7. ASSUME refreshActive', NEW s \in Shapes, s < nextTemplateIndex' PROVE s \in fresh'
    <3>1. CASE refreshActive
      BY <2>3, <2>4, <2>7, <3>1 DEF RoundInv
    <3>2. CASE ~refreshActive
      BY <1>0, <2>4, <2>5, <2>7, <3>2 DEF RoundInv, Shapes
    <3> QED
      BY <3>1, <3>2
  <2>8. /\ pending'.template /\ pending'.shape = nextTemplateIndex'
        /\ pending'.prior.refreshActive = refreshActive
        /\ pending'.prior.refreshDue = refreshDue'
        /\ pending'.prior.nextTemplateIndex = nextTemplateIndex'
        /\ refreshActive => refreshActive'
        /\ epoch'.ready /\ ~refreshActive => nextTemplateIndex' = 0
    BY <1>2, <2>2, <2>4 DEF ReserveTemplate, Reserve, RoundInv
  <2> QED
    BY <2>1, <2>2, <2>3, <2>5, <2>6, <2>7, <2>8 DEF RoundInv
<1>3. CASE ReserveData
  <2>1. /\ ~FullWrite' /\ epoch'.ready /\ ~refreshActive' /\ nextTemplateIndex' = 0
        /\ ~pending'.prior.refreshActive /\ pending'.prior.nextTemplateIndex = 0 /\ ~pending'.template
    BY <1>3 DEF ReserveData, Reserve, SameEpoch, FullWrite, RoundInv
  <2> QED
    BY <2>1 DEF RoundInv
<1>4. CASE Fill
  <2>1. ~FullWrite'
    BY <1>4 DEF Fill, FullWrite
  <2> QED
    BY <1>4, <2>1 DEF Fill, RoundInv, refresh
<1>5. CASE GiveBack
  <2>1. /\ epoch'.ready /\ pending' = NoPacket /\ fresh' = fresh
        /\ refreshActive' => /\ refreshActive /\ nextTemplateIndex' = nextTemplateIndex /\ refreshDue'
        /\ ~refreshActive' => nextTemplateIndex' = 0
    BY <1>5 DEF GiveBack, SameEpoch, RoundInv
  <2> QED
    BY <2>1 DEF RoundInv
<1>6. CASE Drop
  BY <1>6 DEF Drop, RoundInv, refresh
<1>7. CASE StartOver
  BY <1>7 DEF StartOver, ResetProgress, RoundInv
<1>8. ASSUME NEW n \in -1 .. DatagramLength + 1, NEW err \in BOOLEAN, Write(n, err)
      PROVE  RoundInv'
  <2>1. /\ pending # NoPacket /\ UNCHANGED <<epoch, refresh, pending>>
        /\ result'.n = n /\ result'.err = err
        /\ fresh' = IF n = DatagramLength /\ ~err /\ pending.template
                    THEN fresh \cup {pending.shape} ELSE fresh
    BY <1>8 DEF Write
  <2>2. pending.template /\ FullWrite' => pending.shape \in fresh'
    BY <2>1 DEF FullWrite
  <2>3. fresh \subseteq fresh'
    BY <2>1
  <2> QED
    BY <2>1, <2>2, <2>3 DEF RoundInv, refresh
<1>9. CASE CommitWritten
  <2>1. pending' = NoPacket /\ FullWrite /\ pending # NoPacket
    BY <1>9 DEF CommitWritten
  <2>2. CASE Completes
    BY <1>0, <1>9, <2>1, <2>2, CommitCompletes DEF RoundInv
  <2>3. CASE ~Completes
    <3>1. /\ epoch'.ready = epoch.ready /\ refreshActive' = refreshActive /\ MarkKept
          /\ nextTemplateIndex' = IF EndsRound(pending) THEN 0
                                  ELSE IF pending.template THEN nextTemplateIndex + 1
                                  ELSE nextTemplateIndex
      BY <1>0, <1>9, <2>3, CommitCounts
    <3>2. epoch.ready /\ pending.template => refreshActive
      BY <1>0, <2>1 DEF TypeInv, RoundsInRange
    <3>3. epoch'.ready /\ ~refreshActive' => nextTemplateIndex' = 0
      BY <3>1, <3>2 DEF RoundInv, EndsRound
    <3>4. ASSUME refreshActive PROVE \A s \in Shapes : s < nextTemplateIndex' => s \in fresh
      <4>1. epoch.ready /\ ~EndsRound(pending) /\ (pending.template => nextTemplateIndex \in fresh)
        BY <2>1, <2>3, <3>4 DEF RoundInv, Completes
      <4>2. nextTemplateIndex' = IF pending.template THEN nextTemplateIndex + 1 ELSE nextTemplateIndex
        BY <3>1, <4>1
      <4> QED
        BY <1>0, <3>4, <4>1, <4>2 DEF RoundInv, Shapes
    <3> QED
      BY <2>1, <3>1, <3>3, <3>4 DEF RoundInv, MarkKept
  <2> QED
    BY <2>2, <2>3
<1> QED
  BY <1>1, <1>2, <1>3, <1>4, <1>5, <1>6, <1>7, <1>8, <1>9, StepKinds DEF WriteStep

\* A new State has no round.
LEMMA RoundInit == Init => RoundInv
BY DEF Init, RoundInv

\* A step of a published epoch that drops an active refresh or restarts a
\* counter finds the whole catalog fresh.
LEMMA CoverStep ==
  ASSUME TimeInv, RoundInv, [Next]_vars, epoch.ready, epoch'.id = epoch.id,
         \/ refreshActive /\ ~refreshDue'
         \/ packetCount' < packetCount
         \/ dataMessageCount' < dataMessageCount
  PROVE  fresh = Shapes
<1> USE StateAssumption DEF StateAssumption, Normalized
<1>0. /\ TypeInv /\ nextTemplateIndex \in Shapes /\ fresh \subseteq Shapes
      /\ packetCount \in Nat /\ dataMessageCount \in Nat
  BY DEF TimeInv, TypeInv, TypeOK
<1>1. ASSUME SameCounts, refreshActive => refreshDue' PROVE FALSE
  BY <1>0, <1>1 DEF SameCounts, counts
<1>2. CASE Idle \/ ReserveTemplate \/ ReserveData
  <2>1. SameCounts /\ MarkKept
    BY <1>2 DEF Idle, ReserveTemplate, ReserveData, Reserve
  <2> QED
    BY <1>1, <2>1 DEF RoundInv, MarkKept
<1>3. CASE Fill \/ Drop
  <2>1. SameCounts /\ refreshDue' = refreshDue
    BY <1>3 DEF Fill, Drop, refresh
  <2> QED
    BY <1>1, <2>1 DEF RoundInv
<1>4. CASE GiveBack
  BY <1>1, <1>4 DEF GiveBack, RoundInv
<1>5. CASE StartOver
  BY <1>5 DEF StartOver
<1>6. ASSUME NEW n \in -1 .. DatagramLength + 1, NEW err \in BOOLEAN, Write(n, err)
      PROVE  FALSE
  <2>1. UNCHANGED <<refresh, counts>>
    BY <1>6 DEF Write
  <2> QED
    BY <1>0, <2>1 DEF refresh, counts, RoundInv
<1>7. CASE CommitWritten
  <2>1. CASE ~Completes
    <3>1. /\ packetCount' \in Nat /\ packetCount' >= packetCount
          /\ dataMessageCount' \in Nat /\ dataMessageCount' >= dataMessageCount /\ MarkKept
      BY <1>0, <1>7, <2>1, CommitCounts
    <3> QED
      BY <1>0, <3>1 DEF RoundInv, MarkKept
  <2>2. CASE Completes
    <3>1. pending.template /\ nextTemplateIndex + 1 = ShapeCount /\ pending # NoPacket /\ FullWrite
      BY <1>7, <2>2 DEF Completes, EndsRound, CommitWritten
    <3>2. refreshActive
      BY <1>0, <3>1 DEF TypeInv, RoundsInRange
    <3>3. nextTemplateIndex \in fresh /\ \A s \in Shapes : s < nextTemplateIndex => s \in fresh
      BY <3>1, <3>2 DEF RoundInv
    <3>4. \A s \in Shapes : s = nextTemplateIndex \/ s < nextTemplateIndex
      BY <1>0, <3>1 DEF Shapes
    <3> QED
      BY <1>0, <3>3, <3>4
  <2> QED
    BY <2>1, <2>2
<1> QED
  BY <1>2, <1>3, <1>4, <1>5, <1>6, <1>7, StepKinds DEF WriteStep

\* A refresh ends, and its counters restart, only once every template of the
\* catalog was fully written since it became due, whatever aborted, ambiguous
\* and failed template writes, rollbacks and due marks came between
\* (state.go: Commit, restoreEncodeReservationLocked).
THEOREM RefreshIsComplete == Spec => RefreshCoversCatalog
<1>1. TimeInv /\ [Next]_vars => TimeInv'
  BY TimeStep
<1>2. TimeInv /\ RoundInv /\ [Next]_vars => RoundInv'
  BY RoundStep
<1>3. Spec => [](TimeInv /\ RoundInv)
  BY TimeInit, RoundInit, <1>1, <1>2, PTL DEF Spec
<1>4. TimeInv /\ RoundInv /\ [Next]_vars
        => [/\ epoch.ready /\ epoch'.id = epoch.id
            /\ \/ refreshActive /\ ~refreshDue'
               \/ packetCount' < packetCount
               \/ dataMessageCount' < dataMessageCount
            => fresh = Shapes]_vars
  BY CoverStep
<1> QED
  BY <1>3, <1>4, PTL DEF Spec, RefreshCoversCatalog

-----------------------------------------------------------------------------
(* Templates before data.                                                  *)

\* A published epoch wrote every template InitialCopies times; before that,
\* each one once per finished round, once more if it precedes the next one of
\* this round or is the pending one and was written.
BootInv ==
  Protocol # "v5" =>
    /\ epoch.ready => \A s \in Shapes : copies[s] = InitialCopies
    /\ ~epoch.ready => \A s \in Shapes :
         /\ copies[s] >= templateRound
         /\ s < nextTemplateIndex => copies[s] > templateRound
         /\ FullWrite /\ s = pending.shape => copies[s] > templateRound

\* Every kind of step keeps the copies ahead of the rounds.
LEMMA BootStep ==
  ASSUME TimeInv, RoundInv, BootInv, [Next]_vars, Protocol # "v5"
  PROVE  BootInv'
<1> USE StateAssumption DEF StateAssumption, Normalized
<1>0. /\ TypeInv /\ nextTemplateIndex \in Nat /\ nextTemplateIndex \in Shapes
      /\ templateRound \in Nat /\ templateRound < InitialCopies
      /\ \A s \in Shapes : copies[s] \in 0 .. InitialCopies
  BY DEF TimeInv, TypeInv, TypeOK, RoundsInRange, Shapes
<1>1. ASSUME UNCHANGED <<copies, templateRound>>, epoch'.ready = epoch.ready,
             ~epoch.ready => nextTemplateIndex' = nextTemplateIndex,
             FullWrite' => FullWrite /\ pending' = pending
      PROVE  BootInv'
  BY <1>1 DEF BootInv
<1>2. CASE Idle
  <2>1. FullWrite' => FullWrite
    BY <1>2 DEF Idle, FullWrite, Written
  <2> QED
    BY <1>1, <1>2, <2>1 DEF Idle, SameEpoch, SameCounts
<1>3. CASE ReserveTemplate \/ ReserveData
  <2>1. ~FullWrite'
    BY <1>3 DEF ReserveTemplate, ReserveData, Reserve, FullWrite
  <2>2. ~epoch.ready => nextTemplateIndex' = nextTemplateIndex
    BY <1>3 DEF ReserveTemplate, ReserveData
  <2> QED
    BY <1>1, <1>3, <2>1, <2>2 DEF ReserveTemplate, ReserveData, Reserve, SameEpoch, SameCounts
<1>4. CASE Fill
  <2>1. ~FullWrite'
    BY <1>4 DEF Fill, FullWrite
  <2> QED
    BY <1>1, <1>4, <2>1 DEF Fill, SameCounts, refresh
<1>5. CASE GiveBack \/ Drop
  <2>1. epoch.ready /\ epoch'.ready = epoch.ready /\ copies' = copies
    BY <1>5 DEF GiveBack, Drop, SameEpoch, SameCounts
  <2> QED
    BY <2>1 DEF BootInv
<1>6. CASE StartOver
  <2>1. /\ templateRound' = 0 /\ nextTemplateIndex' = 0 /\ copies' = [s \in Shapes |-> 0]
        /\ ~epoch'.ready /\ ~FullWrite'
    BY <1>6 DEF StartOver, ResetProgress, ForgetWrites, FullWrite, Written
  <2> QED
    BY <2>1 DEF BootInv, Shapes
<1>7. ASSUME NEW n \in -1 .. DatagramLength + 1, NEW err \in BOOLEAN, Write(n, err)
      PROVE  BootInv'
  <2>1. /\ pending # NoPacket /\ pending \in Packet /\ UNCHANGED <<epoch, refresh, pending>>
        /\ result'.n = n /\ result'.err = err
        /\ copies' = IF n = DatagramLength /\ ~err /\ pending.template /\ copies[pending.shape] < InitialCopies
                     THEN [copies EXCEPT ![pending.shape] = @ + 1] ELSE copies
    BY <1>0, <1>7 DEF Write, TypeInv, TypeOK
  <2>2. CASE epoch.ready
    <3>1. pending.shape \in Shapes
      BY <2>1 DEF Packet
    <3>2. copies' = copies
      BY <2>1, <2>2, <3>1 DEF BootInv
    <3> QED
      BY <2>1, <2>2, <3>2 DEF BootInv
  <2>3. CASE ~epoch.ready
    <3>1. pending.template /\ pending.shape = nextTemplateIndex
      BY <2>1, <2>3 DEF RoundInv
    <3>2. copies \in [Shapes -> 0 .. InitialCopies]
      BY <1>0 DEF TypeInv, TypeOK
    <3>3. \A s \in Shapes : copies'[s] \in Nat /\ copies'[s] >= copies[s]
      BY <1>0, <2>1, <3>2
    <3>4. FullWrite' => copies'[nextTemplateIndex] > templateRound
      <4>1. FullWrite' => n = DatagramLength /\ ~err
        BY <2>1 DEF FullWrite
      <4>2. copies[nextTemplateIndex] >= templateRound
        BY <1>0, <2>3 DEF BootInv
      <4> QED
        BY <1>0, <2>1, <3>1, <3>2, <4>1, <4>2
    <3>5. /\ nextTemplateIndex' = nextTemplateIndex /\ templateRound' = templateRound
          /\ epoch' = epoch /\ pending' = pending
      BY <2>1 DEF refresh
    <3> QED
      BY <1>0, <2>3, <3>1, <3>3, <3>4, <3>5 DEF BootInv
  <2> QED
    BY <2>2, <2>3
<1>8. CASE CommitWritten
  <2>1. /\ pending' = NoPacket /\ FullWrite /\ pending # NoPacket /\ copies' = copies /\ ~FullWrite'
    BY <1>8 DEF CommitWritten, CommitFull, FullWrite, Written
  <2>2. CASE epoch.ready
    <3>1. epoch'.ready
      BY <1>0, <1>8, <2>2, CommitCompletes, CommitCounts
    <3> QED
      BY <2>1, <2>2, <3>1 DEF BootInv
  <2>3. CASE ~epoch.ready
    <3>1. pending.template /\ pending.shape = nextTemplateIndex
      BY <2>1, <2>3 DEF RoundInv
    <3>2. \A s \in Shapes : /\ copies[s] >= templateRound
                            /\ s <= nextTemplateIndex => copies[s] > templateRound
      BY <1>0, <2>1, <2>3, <3>1 DEF BootInv, Shapes
    <3>3. EndsRound(pending) => \A s \in Shapes : copies[s] > templateRound
      BY <1>0, <3>2 DEF EndsRound, Shapes
    <3>4. CASE Completes
      <4>1. epoch'.ready
        BY <1>0, <1>8, <3>4, CommitCompletes
      <4>2. \A s \in Shapes : copies[s] = InitialCopies
        BY <1>0, <2>3, <3>3, <3>4 DEF Completes
      <4> QED
        BY <2>1, <4>1, <4>2 DEF BootInv
    <3>5. CASE ~Completes
      <4>1. /\ epoch'.ready = epoch.ready
            /\ nextTemplateIndex' = IF EndsRound(pending) THEN 0 ELSE nextTemplateIndex + 1
            /\ templateRound' = IF EndsRound(pending) THEN templateRound + 1 ELSE templateRound
        BY <1>0, <1>8, <3>1, <3>5, CommitCounts
      <4>2. CASE EndsRound(pending)
        BY <1>0, <2>1, <2>3, <3>3, <4>1, <4>2 DEF BootInv, Shapes
      <4>3. CASE ~EndsRound(pending)
        BY <1>0, <2>1, <2>3, <3>2, <4>1, <4>3 DEF BootInv, Shapes
      <4> QED
        BY <4>2, <4>3
    <3> QED
      BY <3>4, <3>5
  <2> QED
    BY <2>2, <2>3
<1> QED
  BY <1>2, <1>3, <1>4, <1>5, <1>6, <1>7, <1>8, StepKinds DEF WriteStep

\* No data packet exists before every template of the catalog was fully written
\* InitialCopies times in this very epoch, for every catalog and every failure
\* or restart of the bootstrap (state.go: beginPacket, Commit,
\* discardUnpublishedLocked).
THEOREM BootstrapPrecedesData == Spec => []DataFollowsBootstrap
<1>1. Init => BootInv
  <2> SUFFICES ASSUME Init, Protocol # "v5" PROVE BootInv
    BY DEF BootInv
  <2>1. ~epoch.ready
    <3>1. epoch.ready = (Protocol = "v5")
      BY DEF Init, NewEpoch
    <3> QED
      BY <3>1, Zenon
  <2>2. ~FullWrite /\ nextTemplateIndex = 0 /\ templateRound = 0 /\ \A s \in Shapes : copies[s] = 0
    BY NotWritten DEF Init
  <2>3. \A s \in Shapes : ~(s < 0)
    BY StateAssumption DEF StateAssumption, Normalized, Shapes
  <2> QED
    BY <2>1, <2>2, <2>3 DEF BootInv
<1>2. TimeInv /\ [Next]_vars => TimeInv'
  BY TimeStep
<1>3. TimeInv /\ RoundInv /\ [Next]_vars => RoundInv'
  BY RoundStep
<1>4. TimeInv /\ RoundInv /\ BootInv /\ [Next]_vars => BootInv'
  BY BootStep DEF BootInv
<1>5. RoundInv /\ BootInv => DataFollowsBootstrap
  BY DEF RoundInv, BootInv, DataFollowsBootstrap
<1> QED
  BY TimeInit, RoundInit, <1>1, <1>2, <1>3, <1>4, <1>5, PTL DEF Spec

-----------------------------------------------------------------------------
(* Data between two catalogs.                                              *)

\* The counter that makes a refresh due.
Count == IF Protocol = "v9" THEN packetCount ELSE dataMessageCount

\* The counter is at least the data written since the last catalog, but for
\* the pending packet between its write and its Commit, and a pending data
\* packet found it not full.
BoundInv ==
  Protocol # "v5" /\ RefreshCount # 0 =>
    /\ dataSince <= RefreshCount
    /\ ~(FullWrite /\ ~pending.template) => dataSince <= Count
    /\ dataSince <= Count + 1
    /\ pending # NoPacket /\ ~pending.template =>
         /\ Count < RefreshCount
         /\ pending.encoded /\ pending.streamed => pending.records > 0
         /\ ~pending.streamed => pending.records > 0

\* Every kind of step keeps the counter ahead of the data.
LEMMA BoundStep ==
  ASSUME TimeInv, BoundInv, [Next]_vars, Protocol # "v5", RefreshCount # 0
  PROVE  BoundInv'
<1> USE StateAssumption DEF StateAssumption, Normalized
<1>0. TypeInv /\ dataSince \in Nat /\ packetCount \in Nat /\ dataMessageCount \in Nat /\ Count \in Nat
  BY DEF TimeInv, TypeInv, TypeOK, Count
<1>1. ASSUME UNCHANGED <<counts, dataSince>>, pending' = NoPacket, ~(FullWrite /\ ~pending.template)
      PROVE  BoundInv'
  <2>1. Count' = Count
    BY <1>1 DEF Count, counts
  <2> QED
    BY <1>0, <1>1, <2>1 DEF BoundInv
<1>2. CASE Idle
  <2>1. (FullWrite' <=> FullWrite) /\ Count' = Count /\ dataSince' = dataSince /\ pending' = pending
    BY <1>2 DEF Idle, SameCounts, FullWrite, Written, Count, counts
  <2> QED
    BY <2>1 DEF BoundInv
<1>3. CASE ReserveTemplate \/ ReserveData
  <2>1. /\ ~FullWrite' /\ ~FullWrite /\ Count' = Count /\ dataSince' = dataSince
    BY <1>3, NotWritten
       DEF ReserveTemplate, ReserveData, Reserve, SameCounts, FullWrite, Count, counts
  <2>2. ~pending'.template => /\ Count < RefreshCount /\ ~pending'.encoded
                              /\ pending'.streamed \/ pending'.records > 0
    BY <1>3 DEF ReserveTemplate, ReserveData, Count
  <2> QED
    BY <1>0, <2>1, <2>2 DEF BoundInv
<1>4. CASE Fill
  <2>1. /\ ~FullWrite' /\ ~FullWrite /\ Count' = Count /\ dataSince' = dataSince
    BY <1>4 DEF Fill, SameCounts, FullWrite, Count, counts
  <2>2. pending.records \in Int /\ pending'.records \in Int
    <3>1. TypeInv' /\ pending # NoPacket /\ pending' # NoPacket
      BY <1>0, <1>4, TypeStep DEF Fill
    <3> QED
      BY <1>0, <3>1 DEF TypeInv, TypeOK, Packet
  <2> QED
    BY <1>0, <1>4, <2>1, <2>2 DEF Fill, BoundInv
<1>5. CASE GiveBack \/ Drop
  BY <1>1, <1>5 DEF GiveBack, Drop, SameCounts, FullWrite
<1>6. CASE StartOver
  <2>1. pending' = NoPacket /\ Count' = 0 /\ dataSince' = 0
    BY <1>6 DEF StartOver, ResetProgress, ForgetWrites, Count
  <2> QED
    BY <2>1 DEF BoundInv
<1>7. ASSUME NEW n \in -1 .. DatagramLength + 1, NEW err \in BOOLEAN, Write(n, err)
      PROVE  BoundInv'
  <2>1. /\ pending # NoPacket /\ ~Written /\ UNCHANGED <<counts, pending>>
        /\ result'.token = pending.token /\ result'.n = n /\ result'.err = err
        /\ dataSince' = IF n = DatagramLength /\ ~err /\ ~pending.template THEN dataSince + 1 ELSE dataSince
    BY <1>7 DEF Write
  <2>2. FullWrite' <=> n = DatagramLength /\ ~err
    BY <2>1 DEF FullWrite, Written
  <2>3. Count' = Count /\ dataSince <= Count
    BY <2>1 DEF Count, counts, BoundInv, FullWrite
  <2> QED
    BY <1>0, <2>1, <2>2, <2>3 DEF BoundInv
<1>8. CASE CommitWritten
  <2>1. pending' = NoPacket /\ FullWrite /\ pending # NoPacket /\ pending.encoded
    BY <1>8 DEF CommitWritten
  <2>2. CASE Completes
    <3>1. Count' = 0 /\ dataSince' = 0
      BY <1>0, <1>8, <2>2, CommitCompletes DEF Count
    <3> QED
      BY <2>1, <3>1 DEF BoundInv
  <2>3. CASE ~Completes
    <3>1. /\ packetCount' = (IF Protocol = "v9" THEN packetCount + 1 ELSE packetCount)
          /\ dataMessageCount' = (IF Protocol = "ipfix" /\ pending.records # 0
                                  THEN dataMessageCount + 1 ELSE dataMessageCount)
          /\ dataSince' = dataSince
      BY <1>0, <1>8, <2>3, CommitCounts
    <3>2. pending.template => Count' \in Nat /\ Count' >= Count
      BY <1>0, <3>1 DEF Count
    <3>3. ~pending.template => Count' = Count + 1
      <4>1. ~pending.template => pending.records # 0
        BY <2>1 DEF BoundInv
      <4> QED
        BY <3>1, <4>1 DEF Count
    <3> QED
      BY <1>0, <2>1, <3>1, <3>2, <3>3 DEF BoundInv
  <2> QED
    BY <2>2, <2>3
<1> QED
  BY <1>2, <1>3, <1>4, <1>5, <1>6, <1>7, <1>8, StepKinds DEF WriteStep

\* No more data datagrams than the refresh count are fully written between two
\* complete catalogs, for every refresh count: a due mark that a rollback takes
\* back, and a write still waiting for its Commit, do not let one more through
\* (state.go: markRefreshDueLocked, commitSequenceLocked).
THEOREM RefreshIsBounded == Spec => []RefreshBound
<1>1. Init => BoundInv
  BY StateAssumption DEF StateAssumption, Normalized, Init, BoundInv, Count
<1>2. TimeInv /\ [Next]_vars => TimeInv'
  BY TimeStep
<1>3. TimeInv /\ BoundInv /\ [Next]_vars => BoundInv'
  BY BoundStep DEF BoundInv
<1>4. BoundInv => RefreshBound
  BY DEF BoundInv, RefreshBound
<1> QED
  BY TimeInit, <1>1, <1>2, <1>3, <1>4, PTL DEF Spec

-----------------------------------------------------------------------------
(* Uptimes.                                                                *)

\* A later instant has no smaller uptime.
LEMMA DivMonotone ==
  ASSUME NEW m \in Nat \ {0}, NEW x \in Int, NEW y \in Int, x <= y
  PROVE  x \div m <= y \div m
<1> DEFINE j == x \div m
           k == y \div m
           d == x % m
           e == y % m
<1>1. /\ j \in Int /\ d \in 0 .. m - 1 /\ x = m * j + d
      /\ k \in Int /\ e \in 0 .. m - 1 /\ y = m * k + e
  OBVIOUS
<1> HIDE DEF j, k, d, e
<1>2. CASE j > k
  <2>1. j - k >= 1 /\ m * (j - k) <= e - d
    BY <1>1, <1>2
  <2>2. m * (j - k) >= m
    BY <1>1, <2>1
  <2> QED
    BY <1>1, <2>1, <2>2
<1>3. CASE j <= k
  BY <1>3 DEF j, k
<1> QED
  BY <1>1, <1>2, <1>3

\* An instant no later than the origin has no positive uptime.
LEMMA DivNonPositive ==
  ASSUME NEW m \in Nat \ {0}, NEW x \in Int, x <= 0
  PROVE  x \div m <= 0
<1>1. x \div m <= 0 \div m
  BY DivMonotone
<1>2. 0 \div m = 0
  OBVIOUS
<1> QED
  BY <1>1, <1>2

-----------------------------------------------------------------------------
(* The origin in force.                                                    *)

\* A published epoch has its origin, a rollback would keep it, and the last
\* header instant on the wire is within the uptime field.
WireInv ==
  Protocol # "ipfix" =>
    /\ epoch.ready => Origin # NoTime
    /\ wireInstant # NoTime /\ Origin # NoTime => Uptime(wireInstant) <= MaxUptime
    /\ pending # NoPacket /\ epoch.ready => pending.prior.startOrigin = epoch.startOrigin

\* A new State has nothing on the wire, and only v5 starts published.
LEMMA WireInit == Init => WireInv
<1> SUFFICES ASSUME Init PROVE WireInv
  OBVIOUS
<1>1. epoch.ready <=> Protocol = "v5"
  BY Zenon DEF Init, NewEpoch
<1>2. wireInstant = NoTime /\ pending = NoPacket
  BY DEF Init
<1> QED
  BY <1>1, <1>2, StateAssumption DEF StateAssumption, Normalized, WireInv, Origin

\* A step that changes neither the origin nor the wire.
LEMMA WireSame ==
  ASSUME WireInv, epoch'.startOrigin = epoch.startOrigin, wireInstant' = wireInstant,
         epoch'.ready => epoch.ready,
         pending' # NoPacket /\ epoch'.ready => pending'.prior.startOrigin = epoch.startOrigin
  PROVE  WireInv'
<1>1. Origin' = Origin
  BY DEF Origin
<1> QED
  BY <1>1 DEF WireInv, Uptime

\* A step that gives up the origin of an unpublished epoch.
LEMMA WireDropped ==
  ASSUME WireInv, epoch'.startOrigin = NoTime, wireInstant' \in {wireInstant, NoTime},
         epoch'.ready => Protocol = "v5", pending' = NoPacket
  PROVE  WireInv'
<1>1. CASE UptimeOrigin # NoTime
  <2>1. Origin' = Origin
    BY <1>1 DEF Origin
  <2> QED
    BY <1>1, <2>1 DEF WireInv, Uptime, Origin
<1>2. CASE UptimeOrigin = NoTime
  <2>1. Origin' = NoTime /\ Protocol # "v5"
    BY <1>2, StateAssumption DEF Origin, StateAssumption, Normalized
  <2> QED
    BY <2>1 DEF WireInv
<1> QED
  BY <1>1, <1>2

\* Reservations and rollbacks.  Only the first template of a v9 bootstrap without
\* a configured origin sets one, at an instant no older than the wire.
LEMMA WireStep ==
  ASSUME TimeInv, HeaderRepresentable, WireInv, [Next]_vars
  PROVE  WireInv'
<1> USE StateAssumption DEF StateAssumption, Normalized
<1>0. TypeInv /\ epoch \in Epoch /\ lastReservedWall \in Times /\ wireInstant \in Times
  BY DEF TimeInv, TypeInv, TypeOK
<1>1. ASSUME NEW wall \in Walls, NEW mono \in Monos, BeginTemplate(wall, mono)
      PROVE  WireInv'
  <2> DEFINE t == Clamp(wall)
  <2>0. /\ t \in Nat /\ t >= lastReservedWall /\ pending = NoPacket /\ wireInstant' = wireInstant
        /\ wireInstant <= lastReservedWall
    BY <1>0, <1>1, ClampBounds DEF BeginTemplate, CanBegin, TimeInv
  <2>1. CASE ReservationFails(t)
    <3>1. epoch'.startOrigin = epoch.startOrigin /\ epoch'.ready = epoch.ready /\ pending' = pending
      BY <1>0, <2>1 DEF ReservationFails, Epoch
    <3> QED
      BY <2>0, <3>1, WireSame
  <2>2. CASE ~ReservationFails(t)
    <3>1. /\ epoch' = [epoch EXCEPT !.startOrigin = IF Protocol = "v9" /\ Origin = NoTime THEN t ELSE @]
          /\ pending' = NewPacket(TRUE, FALSE, nextTemplateIndex, 0, mono, t)
      BY <1>1, <2>2 DEF BeginTemplate
    <3> HIDE DEF t
    <3>2. /\ epoch'.startOrigin = IF Protocol = "v9" /\ Origin = NoTime THEN t ELSE epoch.startOrigin
          /\ epoch'.ready = epoch.ready
      BY <1>0, <3>1 DEF Epoch
    <3>3. pending'.prior.startOrigin = epoch.startOrigin
      BY <3>1 DEF NewPacket, PriorAt
    <3>4. CASE Protocol = "v9" /\ Origin = NoTime
      <4>1. Origin' = t /\ t # NoTime
        BY <2>0, <3>2, <3>4 DEF Origin, NoTime
      <4>2. ~epoch.ready
        BY <3>4 DEF WireInv
      <4>3. Uptime(wireInstant)' <= 0
        <5>1. wireInstant - t \in Int /\ wireInstant - t <= 0
          BY <1>0, <2>0 DEF Times, NoTime
        <5> QED
          BY <2>0, <4>1, <5>1, DivNonPositive DEF Uptime
      <4>4. Uptime(wireInstant)' \in Int
        BY <1>0, <2>0, <4>1 DEF Uptime, Times, NoTime
      <4>5. Uptime(wireInstant)' <= MaxUptime
        BY <4>3, <4>4
      <4> QED
        BY <2>0, <3>2, <4>1, <4>2, <4>5 DEF WireInv
    <3>5. CASE ~(Protocol = "v9" /\ Origin = NoTime)
      BY <2>0, <3>2, <3>3, <3>5, WireSame
    <3> QED
      BY <3>4, <3>5
  <2> QED
    BY <2>1, <2>2
<1>2. ASSUME NEW wall \in Walls, NEW mono \in Monos, NEW shape \in Shapes,
             NEW streamed \in BOOLEAN, NEW records,
             BeginDataPacket(wall, mono, shape, streamed, records)
      PROVE  WireInv'
  <2>1. pending = NoPacket /\ wireInstant' = wireInstant
    BY <1>2 DEF BeginDataPacket, CanBegin
  <2>2. epoch'.startOrigin = epoch.startOrigin /\ epoch'.ready = epoch.ready
    BY <1>0, <1>2 DEF BeginDataPacket, ReservationFails, Epoch
  <2>3. CASE pending' = pending
    BY <2>1, <2>2, <2>3, WireSame
  <2>4. CASE pending' # pending
    <3>1. pending' = NewPacket(FALSE, streamed, shape, records, mono, Clamp(wall))
      BY <1>2, <2>4 DEF BeginDataPacket, ReservationFails
    <3>2. pending'.prior.startOrigin = epoch.startOrigin
      BY <3>1 DEF NewPacket, PriorAt
    <3> QED
      BY <2>1, <2>2, <3>2, WireSame
  <2> QED
    BY <2>3, <2>4
<1>3. ASSUME epoch.ready, pending # NoPacket, RestoreReservation
      PROVE  WireInv'
  <2>1. epoch.ready /\ pending' = NoPacket /\ wireInstant' = wireInstant
    BY <1>3 DEF RestoreReservation
  <2>2. epoch' = [epoch EXCEPT !.startOrigin = pending.prior.startOrigin]
    BY <1>3, <2>1 DEF RestoreReservation
  <2>3. epoch'.startOrigin = pending.prior.startOrigin /\ epoch'.ready = epoch.ready
    BY <1>0, <2>2 DEF Epoch
  <2>4. CASE Protocol # "ipfix"
    <3>1. epoch'.startOrigin = epoch.startOrigin
      BY <1>3, <2>1, <2>3, <2>4 DEF WireInv
    <3> QED
      BY <2>1, <2>3, <3>1, WireSame
  <2>5. CASE Protocol = "ipfix"
    BY <2>5 DEF WireInv
  <2> QED
    BY <2>4, <2>5
<1>4. ASSUME ~epoch.ready, DiscardUnpublished, pending' = NoPacket, wireInstant' = wireInstant
      PROVE  WireInv'
  <2>1. epoch' = DiscardedEpoch
    BY <1>4 DEF DiscardUnpublished
  <2>2. epoch'.startOrigin = NoTime /\ epoch'.ready = epoch.ready
    BY <1>0, <2>1 DEF DiscardedEpoch, Epoch
  <2> QED
    BY <1>4, <2>2, WireDropped
<1>5. ASSUME pending # NoPacket, RestoreReservation
      PROVE  WireInv'
  <2>1. CASE epoch.ready
    BY <1>3, <1>5, <2>1
  <2>2. CASE ~epoch.ready
    <3>1. DiscardUnpublished /\ pending' = NoPacket /\ wireInstant' = wireInstant
      BY <1>5, <2>2 DEF RestoreReservation
    <3> QED
      BY <1>4, <2>2, <3>1
  <2> QED
    BY <2>1, <2>2
<1>6. ASSUME pending # NoPacket, pending' = [pending EXCEPT !.records = @ + 1], UNCHANGED <<epoch, wireInstant>>
      PROVE  WireInv'
  <2>1. pending'.prior = pending.prior
    BY <1>0, <1>6 DEF TypeInv, TypeOK, Packet
  <2> QED
    BY <1>6, <2>1, WireSame DEF WireInv
<1>7. ASSUME pending # NoPacket, pending' = [pending EXCEPT !.encoded = TRUE], UNCHANGED <<epoch, wireInstant>>
      PROVE  WireInv'
  <2>1. pending'.prior = pending.prior
    BY <1>0, <1>7 DEF TypeInv, TypeOK, Packet
  <2> QED
    BY <1>7, <2>1, WireSame DEF WireInv
<1>8. CASE Append \/ Encode \/ Finish \/ Abort
  BY <1>5, <1>6, <1>7, <1>8 DEF Append, Encode, Finish, Abort, history
<1>9. ASSUME NEW n, NEW err, Write(n, err) PROVE WireInv'
  <2>1. pending # NoPacket /\ pending' = pending /\ epoch' = epoch /\ Origin' = Origin
    BY <1>9 DEF Write, Origin
  <2>2. wireInstant' = wireInstant \/ wireInstant' = pending.instant
    BY <1>9 DEF Write
  <2> QED
    BY <2>1, <2>2 DEF WireInv, HeaderRepresentable, Uptime
<1>10. CASE Commit
  <2>1. pending # NoPacket /\ pending' = NoPacket /\ wireInstant' = wireInstant
    BY <1>10 DEF Commit, Current
  <2>2. CASE CommitFull
    <3>1. epoch'.startOrigin = epoch.startOrigin
      BY <1>0, <2>2 DEF CommitFull, Epoch
    <3>2. Origin' = Origin
      BY <3>1 DEF Origin
    <3> QED
      BY <2>1, <3>2 DEF WireInv, HeaderRepresentable, Uptime
  <2>3. CASE DiscardUnpublished /\ epoch.ready
    <3>1. epoch' = epoch
      BY <2>3 DEF DiscardUnpublished
    <3> QED
      BY <2>1, <3>1, WireSame
  <2>4. CASE DiscardUnpublished /\ ~epoch.ready
    BY <1>4, <2>1, <2>4
  <2> QED
    BY <1>10, <2>2, <2>3, <2>4 DEF Commit, CommitAmbiguous, CommitInvalid
<1>11. CASE Restart
  <2>1. epoch' = NewEpoch(epoch.id + 1) /\ pending' = NoPacket /\ wireInstant' = NoTime
    BY <1>11 DEF Restart
  <2>2. (epoch'.ready => Protocol = "v5") /\ epoch'.startOrigin = NoTime
    BY Zenon, <2>1 DEF NewEpoch
  <2> QED
    BY <2>1, <2>2, WireDropped
<1>12. CASE AbortBootstrap
  <2>1. epoch' = DiscardedEpoch /\ ~epoch.ready /\ pending' = NoPacket /\ wireInstant' = wireInstant
    BY <1>12 DEF AbortBootstrap
  <2>2. epoch'.startOrigin = NoTime /\ epoch'.ready = epoch.ready
    BY <1>0, <2>1 DEF DiscardedEpoch, Epoch
  <2> QED
    BY <2>1, <2>2, WireDropped
<1>13. CASE (\E mono \in Monos : RefreshDue(mono)) \/ UNCHANGED vars
  <2>1. UNCHANGED <<epoch, pending, wireInstant>>
    BY <1>13 DEF RefreshDue, vars, history
  <2> QED
    BY <2>1, WireSame DEF WireInv
<1> QED
  BY <1>1, <1>2, <1>8, <1>9, <1>10, <1>11, <1>12, <1>13 DEF Next, BeginData, BeginDataStream

-----------------------------------------------------------------------------
(* The projection.                                                         *)

\* The fields of a snapshot.
LEMMA SnapshotFields ==
  /\ NotApplicable.applicable = FALSE
  /\ Unknown.applicable = TRUE /\ Unknown.known = FALSE /\ Unknown.exhausted = FALSE
  /\ Latched.applicable = TRUE /\ Latched.known = TRUE /\ Latched.exhausted = TRUE /\ Latched.remaining = 0
  /\ \A n : /\ Remaining(n).applicable = TRUE /\ Remaining(n).known = TRUE
            /\ Remaining(n).exhausted = FALSE /\ Remaining(n).remaining = n
BY DEF NotApplicable, Unknown, Latched, Remaining

\* What the callback observes of each.
LEMMA GaugeValues ==
  /\ Gauges(NotApplicable).exhausted = {}
  /\ Gauges(Unknown).exhausted = {0} /\ Gauges(Unknown).remaining = {}
  /\ Gauges(Latched).exhausted = {1} /\ Gauges(Latched).remaining = {0}
  /\ \A n : Gauges(Remaining(n)).exhausted = {0} /\ Gauges(Remaining(n)).remaining = {n}
BY SnapshotFields DEF Gauges

\* The reading is clamped the way a reservation would clamp it.
LEMMA ProjectedIsClamped ==
  ASSUME NEW wall \in Nat, lastReservedWall \in Times
  PROVE  ProjectedWall(wall) = Clamp(wall)
BY DEF ProjectedWall, Clamp, Times, NoTime

\* The gauges g, read at wall, agree with State: the consequent of GaugesMatchState.
Agrees(wall, g) ==
  LET t == Clamp(wall) left == g.remaining IN
  /\ \A r \in left : wireInstant # NoTime => r <= LifetimeLimit - Uptime(wireInstant)
  /\ (\E r \in left : r > 0) <=> ~epoch.uptimeExhausted /\ Reservable(t)
  /\ \A r \in left : r > 0 => Uptime(t) = LifetimeLimit - r
  /\ 0 \in left <=> epoch.uptimeExhausted \/ Exhausts(t)
  /\ 1 \in g.exhausted => left = {0}

\* The projection of a published State agrees with it, case by case.
LEMMA ProjectionAgrees ==
  ASSUME TimeInv, WireInv, epoch.ready, Protocol # "ipfix", NEW wall \in Nat
  PROVE  Agrees(wall, Gauges(Projection(wall)))
<1> USE StateAssumption, GaugeValues DEF StateAssumption, Normalized
<1> DEFINE t == Clamp(wall)
           up == Uptime(t)
<1>1. /\ t \in Nat /\ t >= lastReservedWall /\ lastReservedWall \in Times /\ wireInstant \in Times
      /\ epoch \in Epoch
  BY ClampBounds DEF TimeInv, TypeInv, TypeOK
<1>2. Origin \in Nat /\ Protocol \in {"v5", "v9"}
  BY <1>1 DEF WireInv, Origin, Epoch, Times
<1>3. up \in Int
  BY <1>1, <1>2 DEF Uptime
<1>4. wireInstant <= t
  <2>1. wireInstant <= lastReservedWall
    BY <1>1 DEF TimeInv, PendingTime, TypeInv, TypeOK, Packet, Times, NoTime
  <2> QED
    BY <1>1, <2>1 DEF Times, NoTime
<1>5. wireInstant # NoTime => /\ Uptime(wireInstant) \in Int /\ Uptime(wireInstant) <= MaxUptime
                              /\ Uptime(wireInstant) <= up
  <2> SUFFICES ASSUME wireInstant # NoTime
               PROVE  /\ Uptime(wireInstant) \in Int /\ Uptime(wireInstant) <= MaxUptime
                      /\ Uptime(wireInstant) <= up
    OBVIOUS
  <2>1. wireInstant - Origin \in Int /\ t - Origin \in Int /\ wireInstant - Origin <= t - Origin
    BY <1>1, <1>2, <1>4 DEF Times, NoTime
  <2>2. Uptime(wireInstant) \in Int /\ Uptime(wireInstant) <= MaxUptime
    BY <1>2, <2>1 DEF WireInv, Uptime, NoTime
  <2> QED
    BY <2>1, <2>2, DivMonotone DEF Uptime
<1>6. /\ Reservable(t) <=> t <= MaxExportWall /\ t >= Origin /\ up <= MaxUptime
                             /\ (t - Origin) % NanosPerMilli = 0
      /\ Exhausts(t) <=> t <= MaxExportWall /\ t >= Origin /\ up > MaxUptime
  BY <1>2 DEF Reservable, Exhausts, NoTime
<1>7. Projection(wall) =
        IF epoch.uptimeExhausted                          THEN Latched
        ELSE IF t > MaxExportWall \/ t < Origin           THEN Unknown
        ELSE IF up >= LifetimeLimit                       THEN Remaining(0)
        ELSE IF (t - Origin) % NanosPerMilli # 0          THEN Unknown
        ELSE Remaining(LifetimeLimit - up)
  BY <1>1, <1>2, ProjectedIsClamped DEF Projection, Origin, Uptime, NoTime
<1> HIDE DEF t, up
<1>8. CASE epoch.uptimeExhausted
  <2>1. Projection(wall) = Latched
    BY <1>7, <1>8
  <2>2. wireInstant # NoTime => 0 <= LifetimeLimit - Uptime(wireInstant)
    BY <1>5 DEF LifetimeLimit
  <2> QED
    BY <1>8, <2>1, <2>2 DEF Agrees
<1>9. CASE ~epoch.uptimeExhausted /\ (t > MaxExportWall \/ t < Origin)
  <2>1. Projection(wall) = Unknown
    BY <1>7, <1>9
  <2>2. ~Reservable(t) /\ ~Exhausts(t)
    BY <1>1, <1>2, <1>6, <1>9
  <2> QED
    BY <1>9, <2>1, <2>2 DEF Agrees, t
<1>10. CASE ~epoch.uptimeExhausted /\ t <= MaxExportWall /\ t >= Origin /\ up >= LifetimeLimit
  <2>1. Projection(wall) = Remaining(0)
    BY <1>1, <1>2, <1>7, <1>10
  <2>2. ~Reservable(t) /\ Exhausts(t)
    BY <1>3, <1>6, <1>10 DEF LifetimeLimit
  <2>3. wireInstant # NoTime => 0 <= LifetimeLimit - Uptime(wireInstant)
    BY <1>5 DEF LifetimeLimit
  <2> QED
    BY <1>10, <2>1, <2>2, <2>3 DEF Agrees, t
<1>11. CASE /\ ~epoch.uptimeExhausted /\ t <= MaxExportWall /\ t >= Origin /\ up < LifetimeLimit
            /\ (t - Origin) % NanosPerMilli # 0
  <2>1. Projection(wall) = Unknown
    BY <1>1, <1>2, <1>3, <1>7, <1>11 DEF LifetimeLimit
  <2>2. ~Reservable(t) /\ ~Exhausts(t)
    BY <1>3, <1>6, <1>11 DEF LifetimeLimit
  <2> QED
    BY <1>11, <2>1, <2>2 DEF Agrees, t
<1>12. CASE /\ ~epoch.uptimeExhausted /\ t <= MaxExportWall /\ t >= Origin /\ up < LifetimeLimit
            /\ (t - Origin) % NanosPerMilli = 0
  <2>1. Projection(wall) = Remaining(LifetimeLimit - up)
    BY <1>1, <1>2, <1>3, <1>7, <1>12 DEF LifetimeLimit
  <2>2. Reservable(t) /\ ~Exhausts(t)
    BY <1>3, <1>6, <1>12 DEF LifetimeLimit
  <2>3. LifetimeLimit - up > 0 /\ up = LifetimeLimit - (LifetimeLimit - up) /\ LifetimeLimit - up # 0
    BY <1>3, <1>12 DEF LifetimeLimit
  <2>4. wireInstant # NoTime => LifetimeLimit - up <= LifetimeLimit - Uptime(wireInstant)
    BY <1>3, <1>5 DEF LifetimeLimit
  <2> QED
    BY <1>12, <2>1, <2>2, <2>3, <2>4 DEF Agrees, t, up
<1> QED
  BY <1>1, <1>2, <1>3, <1>8, <1>9, <1>10, <1>11, <1>12 DEF LifetimeLimit

-----------------------------------------------------------------------------
(* Collections.                                                            *)

\* The held reading is one of the clock, and what was just observed comes from
\* a reading and the State as it still is.
CollectionInv ==
  /\ sampledWall \in Walls \cup {NotSampled}
  /\ observed # NotObserved =>
       \E wall \in Walls :
         \/ observed = [wall |-> wall, gauges |-> Gauges(NotApplicable)]
         \/ epoch.ready /\ observed = [wall |-> wall, gauges |-> Gauges(Projection(wall))]

\* The projection depends on State alone.
LEMMA ProjectionStays ==
  ASSUME UNCHANGED vars, NEW wall
  PROVE  Projection(wall)' = Projection(wall)
BY DEF vars, Projection, ProjectedWall, Remaining, Latched, Unknown, NotApplicable

\* Nobody else moves between the copy and the next step.
LEMMA CollectionStep ==
  ASSUME CollectionInv, [LifetimeNext]_lifetimeVars
  PROVE  CollectionInv'
<1>1. ASSUME NEW wall \in Walls, SampleClock(wall) PROVE CollectionInv'
  BY <1>1 DEF SampleClock, CollectionInv
<1>2. CASE CopyAndProject
  <2>1. sampledWall \in Walls /\ sampledWall' = NotSampled /\ UNCHANGED vars /\ epoch' = epoch
    BY <1>2 DEF CopyAndProject, CollectionInv, vars
  <2>2. PICK wall \in Walls : wall = sampledWall
    BY <2>1
  <2>3. Projection(wall)' = Projection(wall)
    BY <2>1, ProjectionStays
  <2>4. \/ observed' = [wall |-> wall, gauges |-> Gauges(NotApplicable)]
        \/ epoch.ready /\ observed' = [wall |-> wall, gauges |-> Gauges(Projection(wall))]
    BY <1>2, <2>2 DEF CopyAndProject
  <2>5. \/ observed' = [wall |-> wall, gauges |-> Gauges(NotApplicable)]
        \/ epoch'.ready /\ observed' = [wall |-> wall, gauges |-> Gauges(Projection(wall)')]
    BY <2>1, <2>3, <2>4
  <2> QED
    BY <2>1, <2>5 DEF CollectionInv
<1>3. CASE StateStep
  BY <1>3 DEF StateStep, CollectionInv
<1>4. CASE UNCHANGED lifetimeVars
  <2>1. UNCHANGED <<vars, sampledWall, observed>> /\ epoch' = epoch
    BY <1>4 DEF lifetimeVars, vars
  <2>2. \A wall \in Walls : Projection(wall)' = Projection(wall)
    BY <2>1, ProjectionStays
  <2> QED
    BY <2>1, <2>2 DEF CollectionInv
<1> QED
  BY <1>1, <1>2, <1>3, <1>4 DEF LifetimeNext

\* A collection observes State as the agreement says.
LEMMA CollectionAgrees ==
  ASSUME TimeInv, WireInv, CollectionInv
  PROVE  GaugesMatchState
<1> SUFFICES ASSUME observed # NotObserved, observed.gauges.exhausted # {}
             PROVE  Agrees(observed.wall, observed.gauges)
  BY Zenon DEF GaugesMatchState, Agrees
<1>1. PICK wall \in Walls : \/ observed = [wall |-> wall, gauges |-> Gauges(NotApplicable)]
                            \/ epoch.ready /\ observed = [wall |-> wall, gauges |-> Gauges(Projection(wall))]
  BY DEF CollectionInv
<1>2. observed # [wall |-> wall, gauges |-> Gauges(NotApplicable)]
  BY GaugeValues
<1>3. epoch.ready /\ observed.wall = wall /\ observed.gauges = Gauges(Projection(wall))
  BY <1>1, <1>2
<1>4. Protocol # "ipfix"
  BY <1>3, GaugeValues DEF Projection
<1>5. wall \in Nat
  BY StateAssumption DEF StateAssumption
<1> QED
  BY <1>3, <1>4, <1>5, ProjectionAgrees

\* A State operation is a step of State, and a collection none.
LEMMA StateUnaware == [LifetimeNext]_lifetimeVars => [Next]_vars
BY DEF LifetimeNext, lifetimeVars, SampleClock, CopyAndProject, StateStep

\* The uptime gauges agree with State: the projection of a clock reading taken
\* before the locks never promises time that reserveWallLocked would refuse,
\* nor denies time it would grant, whatever State did in between (lifetime.go:
\* Lifetime, lifetimeSnapshot; telemetry_lifetime.go).
THEOREM GaugesAgree == LifetimeSpec => []GaugesMatchState
<1> DEFINE Inv == TimeInv /\ HeaderRepresentable /\ WireInv /\ CollectionInv
<1>1. LifetimeInit => Inv
  <2> SUFFICES ASSUME LifetimeInit PROVE Inv
    OBVIOUS
  <2>1. Init /\ CollectionInv
    BY DEF LifetimeInit, CollectionInv
  <2>2. HeaderRepresentable
    BY <2>1 DEF Init, HeaderRepresentable
  <2> QED
    BY <2>1, <2>2, TimeInit, WireInit
<1>2. Inv /\ [LifetimeNext]_lifetimeVars => Inv'
  <2> SUFFICES ASSUME Inv, [LifetimeNext]_lifetimeVars PROVE Inv'
    OBVIOUS
  <2>1. [Next]_vars
    BY StateUnaware
  <2>2. TimeInv'
    BY <2>1, TimeStep
  <2>3. HeaderRepresentable' /\ WireInv'
    BY <2>1, HeaderStep, WireStep
  <2>4. CollectionInv'
    BY CollectionStep
  <2> QED
    BY <2>2, <2>3, <2>4
<1>3. Inv => GaugesMatchState
  BY CollectionAgrees
<1> QED
  BY <1>1, <1>2, <1>3, PTL DEF LifetimeSpec
=============================================================================
