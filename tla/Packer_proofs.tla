---------------------------- MODULE Packer_proofs ----------------------------
(***************************************************************************)
(* Proofs about the Packer for every request, packet and refresh limit,    *)
(* every protocol and any sequence of record fates.                        *)
(*                                                                         *)
(* The Packer drives two components whose own invariants are proved beside *)
(* them.  First, every Packer step is a step of State or leaves State      *)
(* alone, so the theorems of State hold here; likewise every step is a     *)
(* step of the ledger, leaves it alone or starts a new one, so LedgerInv   *)
(* holds here.  On top of the two, PacketInv couples the three views of    *)
(* the open packet, RequestInv says which records of a request are still   *)
(* to be sent, and WireInv relates the ledger to what the wire saw.        *)
(***************************************************************************)
EXTENDS Packer, FiniteSetTheorems, TLAPS

\* The theorems of State; its uptime gauges are not part of the Packer, so nothing is collected.
SP == INSTANCE DestinationState_proofs WITH
        NotSampled <- "none", NotObserved <- "none", sampledWall <- "none", observed <- "none"
LP == INSTANCE SourceLedger_proofs WITH packetOpen <- ledgerPacketOpen, stopped <- ledgerStopped

-----------------------------------------------------------------------------
(* The inductive invariant.                                                *)

\* Where a walk over the records, and where a template, may be.
WalkSteps     == {"next", "place", "fit", "open", "append", "account",
                  "flush", "flushWrite", "flushCommit", "preview", "result"}
TemplateSteps == {"drain", "encode", "gate", "templateCommit"}
OpenSteps     == {"append", "account", "flush", "flushWrite", "flushCommit"}
ReservedSteps == {"encode", "gate", "templateCommit"}

\* Where a call is, for whom, and with which record.
FlowInv ==
  /\ pc \in WalkSteps \cup TemplateSteps \cup {"refresh", "idle", "abandoned"}
  /\ caller \in {"bootstrap", "openData", "refresh"}
  /\ rec \in Records \cup {NoRecord}
  /\ rec # NoRecord => covered > 0
  /\ pc = "result" => rec = NoRecord
  /\ pc \in {"place", "fit", "open", "append", "account", "preview"} => rec # NoRecord
  /\ pc \in TemplateSteps /\ caller = "openData" => rec # NoRecord
  /\ pc = "refresh" => caller = "refresh"
  /\ earlier \in Nat

\* A request stops for a transient or for an internal reason.
FlagInv ==
  /\ packetOpen \in BOOLEAN /\ ledgerOpen \in BOOLEAN
  /\ stopped \in BOOLEAN /\ transient \in BOOLEAN /\ internal \in BOOLEAN
  /\ stopped <=> (transient \/ internal)

ControlInv == FlowInv /\ FlagInv

\* The packet as the Packer, State and the ledger see it.
PacketInv ==
  /\ pc \in OpenSteps => packetOpen
  /\ packetOpen => pc \in OpenSteps \cup {"next", "place"} /\ ~stopped
  /\ packetOpen => /\ pending # NoPacket /\ pending.streamed /\ ~pending.template
                   /\ pending.shape = Shape(lane)
                   /\ pending.records = packetValid + (IF pc = "account" THEN 1 ELSE 0)
  /\ pc \in ReservedSteps => pending # NoPacket /\ pending.template /\ pending.records = 0
  /\ ~packetOpen /\ pc \notin ReservedSteps => pending = NoPacket
  /\ ledgerOpen <=> ledgerPacketOpen
  /\ ledgerOpen => packetOpen /\ (pc # "account" => packetValid > 0)
  /\ ~ledgerOpen => packetValid = 0 /\ members = {}
  /\ pc = "account" => ledgerOpen
  /\ pc = "append" => rec.lane = lane
  /\ pc \in {"flushWrite", "flushCommit"} => packetValid > 0

\* A Pack request is under way, and a record of it is in hand.
InRequest == pc \in WalkSteps \/ (pc \in TemplateSteps /\ caller = "openData")
InHand    == InRequest /\ pc # "next" /\ rec # NoRecord

\* What is left to send: nothing is passed over unless the request has stopped.
RequestInv ==
  InRequest =>
    /\ ledgerStopped => stopped
    /\ pc \notin {"next", "place", "preview", "result"} => ~stopped
    /\ pc = "preview" => stopped
    /\ InHand => class[Ordinal] = "unsent" /\ packetEnd <= Ordinal
    /\ ~stopped => \A o \in 0 .. covered - 1 :
                     class[o] = "unsent" => o \in members \/ (InHand /\ o = Ordinal)

\* What the wire saw of a record: as the ledger classed it, or, between the
\* write and its commit, as the result says.
Seen(c)   == CASE c = "confirmed" -> "yes" [] c = "ambiguous" -> "maybe" [] OTHER -> "no"
WrittenAs == IF result.n \notin 0 .. DatagramLength THEN "no"
             ELSE IF result.n = DatagramLength /\ ~result.err THEN "yes" ELSE "maybe"
WireInv ==
  /\ sent \in [L!Ordinals -> {"no", "maybe", "yes"}]
  /\ \A o \in L!Ordinals :
       sent[o] = IF pc = "flushCommit" /\ o \in members THEN WrittenAs ELSE Seen(class[o])

\* The sequence counts confirmed records, none before the bootstrap is over.
CountInv ==
  /\ ~epoch.ready => /\ pc \in TemplateSteps \cup {"abandoned"} /\ caller = "bootstrap"
                     /\ earlier = 0 /\ confirmed = 0
  /\ Protocol # "v9" => epoch.sequence = (earlier + confirmed) % SeqModulus

\* A report stands until the next request.
OutcomeInv ==
  /\ outcome # "none" => \/ pc \in {"idle", "refresh", "abandoned"}
                         \/ pc \in TemplateSteps /\ caller # "openData"
  /\ outcome \in {"succeeded", "permanent"} =>
       \A o \in 0 .. covered - 1 : class[o] \in {"confirmed", "invalid"}
  /\ outcome = "permanent" => \A o \in 0 .. covered - 1 : class[o] = "invalid"

PackerInv == ControlInv /\ PacketInv /\ LP!LedgerInv /\ RequestInv /\ WireInv /\ CountInv /\ OutcomeInv

-----------------------------------------------------------------------------
(* The proofs of State speak of an instance of their own; the two are      *)
(* identified operation by operation, which takes nothing but expanding    *)
(* both.                                                                   *)

\* The initial states agree.
LEMMA SameInit ==
  S!Init => SP!Init
BY DEF S!Init, SP!Init, S!NewEpoch, SP!NewEpoch, S!NoResult, SP!NoResult, S!NoTime, SP!NoTime,
       S!Shapes, SP!Shapes

\* Begin of a template or of a data packet, and the due mark.
LEMMA SameBegin ==
  ASSUME NEW wall, NEW mono, NEW shape
  PROVE  /\ S!RefreshDue(mono) => SP!RefreshDue(mono)
         /\ S!BeginTemplate(wall, mono) => SP!BeginTemplate(wall, mono)
         /\ S!BeginDataStream(wall, mono, shape) => SP!BeginDataStream(wall, mono, shape)
BY DEF S!RefreshDue, SP!RefreshDue, S!BeginTemplate, SP!BeginTemplate, S!BeginDataStream,
       SP!BeginDataStream, S!BeginDataPacket, SP!BeginDataPacket, S!Clamp, SP!Clamp, S!CanBegin,
       SP!CanBegin, S!DueAt, SP!DueAt, S!MarkedDue, SP!MarkedDue, S!MarkDue, SP!MarkDue, S!Origin,
       SP!Origin, S!NoTime, SP!NoTime, S!Reservable, SP!Reservable, S!Exhausts, SP!Exhausts,
       S!Uptime, SP!Uptime, S!NewPacket, SP!NewPacket, S!PriorAt, SP!PriorAt, S!ReservationFails,
       SP!ReservationFails, S!counts, SP!counts

\* Filling, finishing and aborting a packet.
LEMMA SameFill ==
  /\ S!Append => SP!Append
  /\ S!Encode => SP!Encode
  /\ S!Finish => SP!Finish
  /\ S!Abort => SP!Abort
BY DEF S!Append, SP!Append, S!Encode, SP!Encode, S!Finish, SP!Finish, S!Abort, SP!Abort, S!Written,
       SP!Written, S!RestoreReservation, SP!RestoreReservation, S!RestoredStream,
       SP!RestoredStream, S!DiscardUnpublished, SP!DiscardUnpublished, S!DiscardedEpoch,
       SP!DiscardedEpoch, S!ResetProgress, SP!ResetProgress, S!ForgetWrites, SP!ForgetWrites,
       S!refresh, SP!refresh, S!counts, SP!counts, S!history, SP!history, S!Shapes, SP!Shapes,
       S!NoTime, SP!NoTime

\* Handing a datagram to the transport.
LEMMA SameWrite ==
  ASSUME NEW n, NEW err, S!Write(n, err)
  PROVE  SP!Write(n, err)
BY DEF S!Write, SP!Write, S!Written, SP!Written, S!SequenceUnits, SP!SequenceUnits, S!refresh,
       SP!refresh, S!counts, SP!counts

\* Committing a write result.
LEMMA SameCommit ==
  S!Commit => SP!Commit
BY DEF S!Commit, SP!Commit, S!Current, SP!Current, S!ClassifyWrite, SP!ClassifyWrite, S!CommitFull,
       SP!CommitFull, S!CommitAmbiguous, SP!CommitAmbiguous, S!CommitInvalid, SP!CommitInvalid,
       S!EndsRound, SP!EndsRound, S!SequenceUnits, SP!SequenceUnits, S!MarkedDue, SP!MarkedDue,
       S!RestoreReservation, SP!RestoreReservation, S!RestoredStream, SP!RestoredStream,
       S!DiscardUnpublished, SP!DiscardUnpublished, S!DiscardedEpoch, SP!DiscardedEpoch,
       S!ResetProgress, SP!ResetProgress, S!ForgetWrites, SP!ForgetWrites, S!refresh, SP!refresh,
       S!counts, SP!counts, S!history, SP!history, S!Shapes, SP!Shapes, S!NoTime, SP!NoTime

\* The operations the Packer does not call.
LEMMA SameRest ==
  /\ \A wall, mono, shape, records :
       S!BeginData(wall, mono, shape, records) => SP!BeginData(wall, mono, shape, records)
  /\ S!Restart => SP!Restart
  /\ S!AbortBootstrap => SP!AbortBootstrap
<1>1. \A wall, mono, shape, records :
        S!BeginData(wall, mono, shape, records) => SP!BeginData(wall, mono, shape, records)
  BY DEF S!BeginData, SP!BeginData, S!BeginDataPacket, SP!BeginDataPacket, S!Clamp, SP!Clamp,
         S!CanBegin, SP!CanBegin, S!DueAt, SP!DueAt, S!MarkedDue, SP!MarkedDue, S!MarkDue,
         SP!MarkDue, S!Origin, SP!Origin, S!NoTime, SP!NoTime, S!Reservable, SP!Reservable,
         S!Exhausts, SP!Exhausts, S!Uptime, SP!Uptime, S!NewPacket, SP!NewPacket, S!PriorAt,
         SP!PriorAt, S!ReservationFails, SP!ReservationFails, S!counts, SP!counts
<1>2. S!Restart => SP!Restart
  BY DEF S!Restart, SP!Restart, S!NewEpoch, SP!NewEpoch, S!ResetProgress, SP!ResetProgress,
         S!ForgetWrites, SP!ForgetWrites, S!NoTime, SP!NoTime, S!Shapes, SP!Shapes
<1>3. S!AbortBootstrap => SP!AbortBootstrap
  BY DEF S!AbortBootstrap, SP!AbortBootstrap, S!DiscardedEpoch, SP!DiscardedEpoch, S!ResetProgress,
         SP!ResetProgress, S!ForgetWrites, SP!ForgetWrites, S!NoTime, SP!NoTime, S!Shapes,
         SP!Shapes
<1> QED
  BY <1>1, <1>2, <1>3

\* A behaviour of the one instance is a behaviour of the other.
LEMMA SameSpec == S!Spec => SP!Spec
<1>1. S!Next => SP!Next
  BY SameBegin, SameFill, SameWrite, SameCommit, SameRest
     DEF S!Next, SP!Next, S!Shapes, SP!Shapes
<1>2. UNCHANGED S!vars => UNCHANGED SP!vars
  BY DEF S!vars, SP!vars, S!refresh, SP!refresh, S!counts, SP!counts, S!history, SP!history
<1>3. [S!Next]_(S!vars) => [SP!Next]_(SP!vars)
  BY <1>1, <1>2
<1> QED
  BY <1>3, SameInit, PTL DEF S!Spec, SP!Spec

-----------------------------------------------------------------------------
(* Every step of the Packer is a step of State, or leaves State alone.     *)

\* The record in hand is one of the request, or none.
RecordType == rec \in Records \cup {NoRecord}

\* The record in hand is always one of the request's kinds, or none.
LEMMA RecordStep == RecordType /\ [Next]_vars => RecordType'
BY DEF RecordType, Next, Step, vars, callVars, Pack, Refresh, Consume, EndOfRecords, Return,
       Unavailable, StopUnavailable, Misfit, Place, Fit, OpenDue, OpenData, RefreshWorker,
       BeginTemplate, AppendRecord, AccountRecord, AppendBoundary, AppendRefused, AppendFails,
       Preview, FlushFinish, FlushWrite, FlushCommit, EncodeTemplate, TemplateUnavailable,
       WriteTemplate, CommitTemplate

\* The shape a data packet is begun with is one of the catalog.
LEMMA ShapeOfLane ==
  ASSUME RecordType
  PROVE  Shape(rec.lane) \in S!Shapes
<1>1. ShapeCount \in Nat \ {0}
  BY InstanceAssumption DEF S!StateAssumption, S!Normalized
<1>2. rec.lane \in Lanes \cup {0}
  BY DEF RecordType, Records, NoRecord
<1>3. Protocol # "v5" => Lanes \subseteq 0 .. ShapeCount - 1
  BY PackerAssumption DEF PackerAssumption
<1> QED
  BY <1>1, <1>2, <1>3 DEF S!Shapes, Shape

\* Every Packer step is one step of State or leaves all of State alone.
LEMMA StateStep ==
  ASSUME RecordType, Next
  PROVE  S!Next \/ UNCHANGED stateVars
<1>1. CASE Pack \/ Refresh \/ (\E r \in Records : Consume(r)) \/ EndOfRecords \/ Return
  BY <1>1 DEF Pack, Refresh, Consume, EndOfRecords, Return
<1>2. CASE Misfit \/ Place \/ Fit \/ AccountRecord \/ AppendBoundary \/ (\E wall \in Walls : Preview(wall))
  BY <1>2 DEF Misfit, Place, Fit, AccountRecord, AppendBoundary, Preview
<1>3. CASE Unavailable \/ AppendFails \/ AppendRefused \/ TemplateUnavailable
  BY <1>3 DEF Unavailable, StopUnavailable, AppendFails, AppendRefused, EmptyPacketReleased,
              TemplateUnavailable, S!Next
<1>4. CASE \E r \in Readings : OpenDue(r) \/ RefreshWorker(r)
  BY <1>4 DEF OpenDue, RefreshWorker, Readings, S!Next
<1>5. CASE \E r \in Readings : OpenData(r) \/ BeginTemplate(r)
  BY <1>5, ShapeOfLane DEF OpenData, BeginTemplate, Readings, S!Next
<1>6. CASE AppendRecord \/ FlushFinish \/ FlushCommit \/ EncodeTemplate \/ CommitTemplate
  BY <1>6 DEF AppendRecord, FlushFinish, FlushCommit, EncodeTemplate, CommitTemplate, S!Next
<1>7. CASE \E n \in -1 .. DatagramLength + 1, err \in BOOLEAN : FlushWrite(n, err) \/ WriteTemplate(n, err)
  BY <1>7 DEF FlushWrite, WriteTemplate, S!Next
<1> QED
  BY <1>1, <1>2, <1>3, <1>4, <1>5, <1>6, <1>7 DEF Next, Step

\* The Packer implements State: whatever Pack, refresh and the bootstrap do with
\* their packets, State sees one of its own operations (packer.go, write.go).
THEOREM PackerDrivesState == Spec => S!Spec
<1>1. Init => S!Init /\ RecordType
  BY DEF Init, RecordType
<1>2. RecordType /\ [Next]_vars => [S!Next]_(S!vars)
  <2>1. UNCHANGED stateVars => UNCHANGED S!vars
    BY DEF S!vars, stateVars, S!refresh, S!counts, S!history
  <2>2. UNCHANGED vars => UNCHANGED stateVars
    BY DEF vars
  <2> QED
    BY StateStep, <2>1, <2>2
<1> QED
  BY <1>1, <1>2, RecordStep, PTL DEF Spec, S!Spec

\* What State guarantees of itself in the hands of the Packer.
LEMMA StateFacts == Spec => [](SP!TypeOK /\ SP!AppenderReleased)
<1>1. SP!StateAssumption /\ SP!NoPacketAssumption
  BY InstanceAssumption
     DEF S!StateAssumption, SP!StateAssumption, S!Normalized, SP!Normalized, S!NoPacketAssumption,
         SP!NoPacketAssumption, S!NoTime, SP!NoTime, S!Packet, SP!Packet, S!Prior, SP!Prior,
         S!Shapes, SP!Shapes, S!Times, SP!Times
<1>2. SP!Spec => []SP!TypeOK
  BY <1>1, SP!StateTypes DEF SP!StateAssumption, SP!NoPacketAssumption
<1>3. SP!Spec => []SP!AppenderReleased
  BY <1>1, SP!AppenderIsReleased DEF SP!StateAssumption, SP!NoPacketAssumption
<1> QED
  BY <1>2, <1>3, PackerDrivesState, SameSpec, PTL

-----------------------------------------------------------------------------
(* What the operations of State do to the packet and the sequence.         *)

\* The header sequence stays, or an unpublished bootstrap is given up.
SequenceKept ==
  /\ epoch'.ready <=> epoch.ready
  /\ epoch'.sequence = epoch.sequence \/ (~epoch.ready /\ epoch'.sequence = 0)

\* The packet in hand is typed, and so is one that differs in a typed field.
LEMMA PendingType ==
  ASSUME SP!TypeOK
  PROVE  /\ pending # NoPacket => pending \in SP!Packet
         /\ epoch \in SP!Epoch /\ result \in SP!Result
BY DEF SP!TypeOK

\* Rolling a reservation back.
LEMMA RestoreEffect ==
  ASSUME SP!TypeOK, S!RestoreReservation
  PROVE  pending' = NoPacket /\ SequenceKept
BY PendingType DEF S!RestoreReservation, S!DiscardUnpublished, S!DiscardedEpoch, SequenceKept, SP!Epoch

\* Packet.Abort drops the packet and keeps the sequence.
LEMMA AbortEffect ==
  ASSUME SP!TypeOK, S!Abort
  PROVE  pending' = NoPacket /\ SequenceKept
BY RestoreEffect DEF S!Abort

\* RefreshDue touches neither the pending packet nor the epoch.
LEMMA RefreshDueEffect ==
  ASSUME NEW mono, S!RefreshDue(mono)
  PROVE  UNCHANGED <<pending, epoch, result>>
BY DEF S!RefreshDue

\* BeginTemplate needs a free State and reserves an empty template packet.
LEMMA TemplateEffect ==
  ASSUME SP!TypeOK, NEW wall, NEW mono, S!BeginTemplate(wall, mono)
  PROVE  /\ pending = NoPacket /\ SequenceKept
         /\ pending' # NoPacket => pending'.template /\ pending'.records = 0
BY PendingType DEF S!BeginTemplate, S!CanBegin, S!ReservationFails, S!NewPacket, SequenceKept, SP!Epoch

\* BeginDataStream needs a ready, free State and reserves an empty packet
\* of the shape asked for.
LEMMA DataEffect ==
  ASSUME SP!TypeOK, NEW wall, NEW mono, NEW shape, S!BeginDataStream(wall, mono, shape)
  PROVE  /\ pending = NoPacket /\ SequenceKept /\ epoch.ready
         /\ pending' # NoPacket => /\ pending'.streamed /\ ~pending'.template
                                   /\ pending'.records = 0 /\ pending'.shape = shape
BY PendingType DEF S!BeginDataStream, S!BeginDataPacket, S!CanBegin, S!ReservationFails,
                   S!NewPacket, SequenceKept, SP!Epoch

\* The fields of a packet that filling does not touch.
SameHeader == /\ pending'.streamed = pending.streamed /\ pending'.template = pending.template
              /\ pending'.shape = pending.shape

\* A successful Append adds one record, below the limit, and nothing else.
LEMMA AppendEffect ==
  ASSUME SP!TypeOK, S!Append
  PROVE  /\ pending' # NoPacket /\ SameHeader /\ pending'.records = pending.records + 1
         /\ pending.records < MaxRecords /\ UNCHANGED epoch
<1> DEFINE packet == [pending EXCEPT !.records = @ + 1]
<1>1. pending \in SP!Packet /\ pending' = packet /\ pending.records < MaxRecords
  BY PendingType DEF S!Append
<1>2. pending.records \in 0 .. MaxRecords /\ MaxRecords \in Nat
  BY <1>1, InstanceAssumption DEF SP!Packet, S!StateAssumption
<1>3. packet \in SP!Packet
  BY <1>1, <1>2 DEF SP!Packet
<1>4. NoPacket \notin SP!Packet
  BY InstanceAssumption
     DEF S!NoPacketAssumption, S!Packet, SP!Packet, S!Prior, SP!Prior, S!Shapes, SP!Shapes,
         S!Times, SP!Times, S!NoTime, SP!NoTime
<1> QED
  BY <1>1, <1>3, <1>4 DEF S!Append, SameHeader, SP!Packet

\* Encode and Finish keep the packet as it is or roll it back; only a packet
\* with records is finished.
LEMMA EncodeEffect ==
  ASSUME SP!TypeOK, S!Encode \/ S!Finish
  PROVE  /\ SequenceKept
         /\ pending' # NoPacket => SameHeader /\ pending'.records = pending.records
         /\ pending' # NoPacket /\ S!Finish => pending.records > 0
<1>1. CASE S!RestoreReservation
  BY <1>1, RestoreEffect
<1>2. CASE pending' = [pending EXCEPT !.encoded = TRUE] /\ UNCHANGED epoch
  BY <1>2, PendingType DEF S!Encode, S!Finish, SameHeader, SequenceKept, SP!Packet, S!RestoreReservation
<1> QED
  BY <1>1, <1>2 DEF S!Encode, S!Finish

\* A write leaves its result behind and changes nothing of State.
LEMMA WriteEffect ==
  ASSUME NEW n, NEW err, S!Write(n, err)
  PROVE  UNCHANGED <<pending, epoch>> /\ result'.n = n /\ result'.err = err
BY DEF S!Write

\* The class of the last write result.
WriteClass == S!ClassifyWrite(result.n, DatagramLength, result.err)

\* What the two classes of write results the Packer branches on mean.
LEMMA WriteClasses ==
  ASSUME SP!TypeOK
  PROVE  /\ WriteClass = "full" <=> result.n = DatagramLength /\ ~result.err
         /\ WriteClass = "invalid" <=> result.n \notin 0 .. DatagramLength
<1>1. result.n \in Int /\ result.err \in BOOLEAN
  BY PendingType DEF SP!Result
<1>2. DatagramLength \in Nat \ {0, 1}
  BY InstanceAssumption DEF S!StateAssumption
<1> QED
  BY <1>1, <1>2 DEF WriteClass, S!ClassifyWrite

\* Commit closes the packet, and moves the sequence only after a full write.
LEMMA CommitEffect ==
  ASSUME SP!TypeOK, S!Commit
  PROVE  /\ pending # NoPacket /\ pending' = NoPacket
         /\ WriteClass = "full" =>
              /\ epoch'.sequence = (epoch.sequence + S!SequenceUnits(pending)) % SeqModulus
              /\ epoch.ready => epoch'.ready
         /\ WriteClass # "full" => SequenceKept
<1>1. pending # NoPacket /\ pending' = NoPacket
  BY DEF S!Commit, S!Current
<1>2. CASE WriteClass = "full"
  <2>1. S!CommitFull
    BY <1>2 DEF S!Commit, WriteClass
  <2>2. epoch \in SP!Epoch
    BY PendingType
  <2>3. epoch'.sequence = (epoch.sequence + S!SequenceUnits(pending)) % SeqModulus
    BY <2>1, <2>2 DEF S!CommitFull, SP!Epoch
  <2>4. epoch.ready => epoch'.ready
    BY <2>1, <2>2 DEF S!CommitFull, SP!Epoch
  <2> QED
    BY <1>1, <1>2, <2>3, <2>4
<1>3. CASE WriteClass # "full"
  <2>1. S!DiscardUnpublished
    BY <1>3 DEF S!Commit, WriteClass, S!CommitAmbiguous, S!CommitInvalid
  <2> QED
    BY <1>1, <1>3, <2>1, PendingType DEF S!DiscardUnpublished, S!DiscardedEpoch, SequenceKept, SP!Epoch
<1> QED
  BY <1>2, <1>3

-----------------------------------------------------------------------------
(* The ledger in the hands of the Packer.                                  *)

\* Each ledger operation is the one the proofs of the ledger speak of.
LEMMA SameLedger ==
  /\ \A ok : L!AddSource(ok) => LP!AddSource(ok)
  /\ \A o : L!Invalidate(o) => LP!Invalidate(o)
  /\ \A o : L!AddPending(o) => LP!AddPending(o)
  /\ L!BeginPacket => LP!BeginPacket
  /\ L!ResolveFull => LP!ResolveFull
  /\ L!ResolveAmbiguous => LP!ResolveAmbiguous
  /\ L!AbortPacket => LP!AbortPacket
<1>1. \A ok : L!AddSource(ok) => LP!AddSource(ok)
  BY DEF L!AddSource, LP!AddSource, L!counters, LP!counters, L!packet, LP!packet
<1>2. \A o : L!Invalidate(o) => LP!Invalidate(o)
  BY DEF L!Invalidate, LP!Invalidate, L!Invalidatable, LP!Invalidatable, L!packet, LP!packet
<1>3. \A o : L!AddPending(o) => LP!AddPending(o)
  BY DEF L!AddPending, LP!AddPending, L!Addable, LP!Addable, L!Sendable, LP!Sendable, L!InvalidGap,
         LP!InvalidGap, L!Ordinals, LP!Ordinals, L!counters, LP!counters
<1>4. L!BeginPacket => LP!BeginPacket
  BY DEF L!BeginPacket, LP!BeginPacket, L!counters, LP!counters
<1>5. L!ResolveFull => LP!ResolveFull
  BY DEF L!ResolveFull, LP!ResolveFull, L!ClosePacket, LP!ClosePacket, L!MarkPending,
         LP!MarkPending, L!Ordinals, LP!Ordinals
<1>6. L!ResolveAmbiguous => LP!ResolveAmbiguous
  BY DEF L!ResolveAmbiguous, LP!ResolveAmbiguous, L!ClosePacket, LP!ClosePacket, L!MarkPending,
         LP!MarkPending, L!Ordinals, LP!Ordinals
<1>7. L!AbortPacket => LP!AbortPacket
  BY DEF L!AbortPacket, LP!AbortPacket, L!ClosePacket, LP!ClosePacket, L!counters, LP!counters
<1> QED
  BY <1>1, <1>2, <1>3, <1>4, <1>5, <1>6, <1>7

\* The assumption of the ledger's proofs.
LEMMA LedgerLimits == LP!LedgerAssumption
BY InstanceAssumption DEF L!LedgerAssumption, LP!LedgerAssumption

\* What LedgerInv says, over the variables of the Packer.
LEMMA LedgerFacts ==
  ASSUME LP!LedgerInv
  PROVE  /\ MaxSources \in Nat
         /\ class \in [L!Ordinals -> L!Classes] /\ covered \in 0 .. MaxSources
         /\ confirmed \in Nat /\ packetValid \in Nat /\ packetEnd \in 0 .. covered
         /\ members \in SUBSET L!Ordinals
         /\ \A o \in L!Ordinals : o >= covered => class[o] = "unsent"
         /\ \A o \in L!Ordinals : class[o] = "ambiguous" => ledgerStopped
         /\ \A o \in L!Ordinals : class[o] = "confirmed" => o < packetFloor
         /\ ledgerPacketOpen =>
              /\ ~ledgerStopped
              /\ packetValid # 0 => packetFloor <= packetStart /\ packetStart < packetEnd
              /\ members = {o \in L!Ordinals :
                              packetStart <= o /\ o < packetEnd /\ class[o] = "unsent"}
<1>1. L!Ordinals = LP!Ordinals /\ L!Classes = LP!Classes
  BY DEF L!Ordinals, LP!Ordinals, L!Classes, LP!Classes
<1> QED
  BY <1>1, LedgerLimits
     DEF LP!LedgerAssumption, LP!LedgerInv, LP!TypeOK, LP!UncoveredUnsent, LP!FloorSettled,
         LP!PacketAboveFloor, LP!IntervalIsPacket

\* A new request starts with an empty ledger.
LEMMA FreshLedgerStep == FreshLedger => LP!LedgerInv'
<1>1. FreshLedger => LP!Init'
  BY DEF FreshLedger, LP!Init, L!Ordinals, LP!Ordinals
<1>2. LP!Init => LP!LedgerInv
  BY LP!LedgerInit, LedgerLimits DEF LP!LedgerAssumption
<1>3. LP!Init' => LP!LedgerInv'
  BY <1>2, PTL
<1> QED
  BY <1>1, <1>3

\* Every step of the Packer keeps the ledger's invariant.
LEMMA LedgerStep ==
  ASSUME ControlInv, LP!LedgerInv, Next
  PROVE  LP!LedgerInv'
<1> USE LedgerLimits DEF LP!LedgerAssumption
<1>0. rec # NoRecord => Ordinal \in LP!Ordinals
  BY LedgerFacts DEF ControlInv, FlowInv, Ordinal, LP!Ordinals
<1>1. UNCHANGED ledgerVars => LP!LedgerInv'
  <2>1. UNCHANGED ledgerVars => UNCHANGED LP!vars
    BY DEF ledgerVars, LP!vars, LP!counters, LP!packet
  <2> QED
    BY <2>1, LP!StutterStep
<1>2. \A ok \in BOOLEAN : L!AddSource(ok) => LP!LedgerInv'
  BY SameLedger, LP!AddSourceStep
<1>3. rec # NoRecord => (L!Invalidate(Ordinal) \/ L!AddPending(Ordinal) => LP!LedgerInv')
  BY <1>0, SameLedger, LP!InvalidateStep, LP!AddPendingStep
<1>4. L!BeginPacket \/ L!ResolveFull \/ L!ResolveAmbiguous \/ L!AbortPacket => LP!LedgerInv'
  BY SameLedger, LP!BeginPacketStep, LP!ResolveFullStep, LP!ResolveAmbiguousStep, LP!AbortPacketStep
<1>5. CASE Pack
  BY <1>5, FreshLedgerStep DEF Pack
<1>6. CASE \E r \in Records : Consume(r)
  BY <1>6, <1>2 DEF Consume
<1>7. CASE Misfit \/ Fit \/ AccountRecord \/ AppendRefused \/ (\E wall \in Walls : Preview(wall))
  <2>1. rec # NoRecord
    BY <1>7 DEF Misfit, Fit, AccountRecord, AppendRefused, Preview, ControlInv, FlowInv
  <2> QED
    BY <1>1, <1>3, <1>7, <2>1
       DEF Misfit, Fit, AccountRecord, AppendRefused, Preview, InvalidateRecord
<1>8. CASE Unavailable \/ AppendRecord \/ AppendFails \/ FlushFinish \/ FlushCommit
  BY <1>1, <1>4, <1>8
     DEF Unavailable, StopUnavailable, AppendRecord, AppendFails, FlushFinish, FlushCommit, LedgerFollows
<1>9. CASE Refresh \/ EndOfRecords \/ Return \/ Place \/ AppendBoundary
           \/ (\E r \in Readings : OpenDue(r) \/ OpenData(r) \/ RefreshWorker(r) \/ BeginTemplate(r))
           \/ EncodeTemplate \/ TemplateUnavailable \/ CommitTemplate
           \/ (\E n \in -1 .. DatagramLength + 1, err \in BOOLEAN :
                 FlushWrite(n, err) \/ WriteTemplate(n, err))
  BY <1>1, <1>9
     DEF Refresh, EndOfRecords, Return, Place, AppendBoundary, OpenDue, OpenData, RefreshWorker,
         BeginTemplate, EncodeTemplate, TemplateUnavailable, CommitTemplate, FlushWrite, WriteTemplate
<1> QED
  BY <1>5, <1>6, <1>7, <1>8, <1>9 DEF Next, Step

\* An operation of the ledger is a step that the export contract allows.
LEMMA LedgerOperation ==
  ASSUME LP!LedgerInv, UNCHANGED ledgerVars \/ LP!Next
  PROVE  LP!ContractStep
<1> USE LedgerLimits DEF LP!LedgerAssumption
<1>1. UNCHANGED ledgerVars => UNCHANGED LP!vars
  BY DEF ledgerVars, LP!vars, LP!counters, LP!packet
<1>2. [LP!Next]_(LP!vars)
  BY <1>1
<1> QED
  BY <1>2, LP!ContractSteps

\* A new request starts with nothing covered.
LEMMA FreshContract == FreshLedger => LP!ContractInit'
<1>1. FreshLedger => LP!Init'
  BY DEF FreshLedger, LP!Init, L!Ordinals, LP!Ordinals
<1>2. LP!Init => LP!ContractInit
  BY LP!ContractStarts, LedgerLimits DEF LP!LedgerAssumption
<1>3. LP!Init' => LP!ContractInit'
  BY <1>2, PTL
<1> QED
  BY <1>1, <1>3

\* Every step of the Packer starts a request or is one that the contract allows.
LEMMA RequestStepKeeps ==
  ASSUME ControlInv, LP!LedgerInv, Next
  PROVE  (Pack /\ LP!ContractInit') \/ LP!ContractStep
<1> USE LedgerLimits DEF LP!LedgerAssumption
<1>0. rec # NoRecord => Ordinal \in LP!Ordinals
  BY LedgerFacts DEF ControlInv, FlowInv, Ordinal, LP!Ordinals
<1>1. UNCHANGED ledgerVars => LP!ContractStep
  BY LedgerOperation
<1>2. \A ok \in BOOLEAN : L!AddSource(ok) => LP!ContractStep
  BY SameLedger, LedgerOperation DEF LP!Next
<1>3. rec # NoRecord => (L!Invalidate(Ordinal) \/ L!AddPending(Ordinal) => LP!ContractStep)
  BY <1>0, SameLedger, LedgerOperation DEF LP!Next
<1>4. L!BeginPacket \/ L!ResolveFull \/ L!ResolveAmbiguous \/ L!AbortPacket => LP!ContractStep
  BY SameLedger, LedgerOperation DEF LP!Next
<1>5. CASE Pack
  BY <1>5, FreshContract DEF Pack
<1>6. CASE \E r \in Records : Consume(r)
  BY <1>6, <1>2 DEF Consume
<1>7. CASE Misfit \/ Fit \/ AccountRecord \/ AppendRefused \/ (\E wall \in Walls : Preview(wall))
  <2>1. rec # NoRecord
    BY <1>7 DEF Misfit, Fit, AccountRecord, AppendRefused, Preview, ControlInv, FlowInv
  <2> QED
    BY <1>1, <1>3, <1>7, <2>1
       DEF Misfit, Fit, AccountRecord, AppendRefused, Preview, InvalidateRecord
<1>8. CASE Unavailable \/ AppendRecord \/ AppendFails \/ FlushFinish \/ FlushCommit
  BY <1>1, <1>4, <1>8
     DEF Unavailable, StopUnavailable, AppendRecord, AppendFails, FlushFinish, FlushCommit, LedgerFollows
<1>9. CASE Refresh \/ EndOfRecords \/ Return \/ Place \/ AppendBoundary
           \/ (\E r \in Readings : OpenDue(r) \/ OpenData(r) \/ RefreshWorker(r) \/ BeginTemplate(r))
           \/ EncodeTemplate \/ TemplateUnavailable \/ CommitTemplate
           \/ (\E n \in -1 .. DatagramLength + 1, err \in BOOLEAN :
                 FlushWrite(n, err) \/ WriteTemplate(n, err))
  BY <1>1, <1>9
     DEF Refresh, EndOfRecords, Return, Place, AppendBoundary, OpenDue, OpenData, RefreshWorker,
         BeginTemplate, EncodeTemplate, TemplateUnavailable, CommitTemplate, FlushWrite, WriteTemplate
<1> QED
  BY <1>5, <1>6, <1>7, <1>8, <1>9 DEF Next, Step

-----------------------------------------------------------------------------
(* Control.                                                                *)

\* Where the walk goes after a failure, and where templates lead.
LEMMA Destinations ==
  ASSUME FlowInv
  PROVE  /\ AfterFailure \in {"result", "preview"}
         /\ AfterFailure = "preview" => rec # NoRecord
         /\ AfterFailure = "result" => rec = NoRecord
         /\ caller = "bootstrap" => TemplateFailed = "abandoned" /\ TemplatesDone = "idle"
         /\ caller = "openData" => TemplateFailed = "preview" /\ TemplatesDone = "open"
         /\ caller = "refresh" => TemplateFailed = "idle" /\ TemplatesDone = "idle"
BY DEF AfterFailure, TemplateFailed, TemplatesDone, FlowInv

\* Every step leaves the flags consistent.
LEMMA FlagStep ==
  ASSUME FlagInv, Next
  PROVE  FlagInv'
<1>1. CASE UNCHANGED flags /\ UNCHANGED <<packetOpen, ledgerOpen>>
  BY <1>1 DEF FlagInv, flags
<1>2. CASE /\ packetOpen' \in BOOLEAN /\ ledgerOpen' \in BOOLEAN
           /\ (UNCHANGED flags \/ FailTransient \/ FailInternal)
  <2>1. CASE UNCHANGED flags
    BY <1>2, <2>1 DEF FlagInv, flags
  <2>2. CASE FailTransient
    BY <1>2, <2>2 DEF FlagInv, FailTransient
  <2>3. CASE FailInternal
    BY <1>2, <2>3 DEF FlagInv, FailInternal
  <2> QED
    BY <1>2, <2>1, <2>2, <2>3
<1>3. CASE Pack \/ Refresh
  <2>1. /\ packetOpen' = FALSE /\ ledgerOpen' = FALSE
        /\ stopped' = FALSE /\ transient' = FALSE /\ internal' = FALSE
    BY <1>3 DEF Pack, Refresh, ResetRequest
  <2> QED
    BY <2>1 DEF FlagInv
<1>4. CASE \/ (\E r \in Records : Consume(r)) \/ EndOfRecords \/ Return \/ Misfit \/ Place \/ Fit
           \/ AccountRecord \/ AppendBoundary
           \/ (\E n \in -1 .. DatagramLength + 1, err \in BOOLEAN :
                 FlushWrite(n, err) \/ WriteTemplate(n, err))
           \/ (\E r \in Readings : RefreshWorker(r))
  BY <1>1, <1>4 DEF Consume, EndOfRecords, Return, Misfit, Place, Fit, AccountRecord, AppendBoundary,
                    FlushWrite, WriteTemplate, RefreshWorker, packetVars
<1>5. CASE Unavailable \/ AppendRecord \/ AppendRefused \/ AppendFails \/ FlushFinish \/ FlushCommit
  <2>1. packetOpen' \in BOOLEAN /\ ledgerOpen' \in BOOLEAN
    BY <1>5 DEF Unavailable, StopUnavailable, AppendRecord, AppendRefused, EmptyPacketReleased,
                AppendFails, FlushFinish, FlushCommit, FlagInv
  <2> QED
    BY <1>2, <1>5, <2>1 DEF Unavailable, StopUnavailable, AppendRecord, AppendRefused, AppendFails,
                            FlushFinish, FlushCommit
<1>6. CASE \/ (\E wall \in Walls : Preview(wall))
           \/ (\E r \in Readings : OpenDue(r) \/ OpenData(r) \/ BeginTemplate(r))
           \/ EncodeTemplate \/ TemplateUnavailable \/ CommitTemplate
  <2>1. packetOpen' \in BOOLEAN /\ ledgerOpen' \in BOOLEAN
    BY <1>6 DEF Preview, OpenDue, OpenData, BeginTemplate, EncodeTemplate, TemplateUnavailable,
                CommitTemplate, packetVars, FlagInv
  <2> QED
    BY <1>2, <1>6, <2>1 DEF Preview, OpenDue, OpenData, BeginTemplate, EncodeTemplate,
                            TemplateUnavailable, CommitTemplate
<1> QED
  BY <1>3, <1>4, <1>5, <1>6 DEF Next, Step

\* Every step leads from one place of a call to the next.
LEMMA FlowStep ==
  ASSUME FlowInv, LP!LedgerInv, Next
  PROVE  FlowInv'
<1>0. covered \in Nat /\ confirmed \in Nat
  BY LedgerFacts
<1>1. CASE Pack \/ Refresh
  <2>1. rec' = NoRecord /\ pc' \in {"next", "refresh"} /\ (pc' = "refresh" => caller' = "refresh")
    BY <1>1 DEF Pack, Refresh, Goto
  <2>2. earlier' \in Nat /\ caller' \in {"bootstrap", "openData", "refresh"}
    BY <1>0, <1>1 DEF Pack, Refresh, FlowInv
  <2> QED
    BY <2>1, <2>2 DEF FlowInv, WalkSteps, TemplateSteps
<1>2. CASE \E r \in Records : Consume(r)
  <2>1. PICK r \in Records : Consume(r)
    BY <1>2
  <2>2. /\ rec' \in Records /\ covered' = covered + 1 /\ pc' \in {"next", "place"}
        /\ UNCHANGED <<caller, earlier>>
    BY <2>1 DEF Consume, L!AddSource, Goto
  <2>3. rec' # NoRecord
    BY <2>2, PackerAssumption DEF PackerAssumption, AllKinds, Records, NoRecord
  <2> QED
    BY <1>0, <2>2, <2>3 DEF FlowInv, WalkSteps, TemplateSteps
<1>3. CASE EndOfRecords \/ Return
  <2>1. /\ pc' \in {"flush", "result", "idle"} /\ UNCHANGED <<caller, earlier, covered>>
        /\ rec' = NoRecord
    BY <1>3 DEF EndOfRecords, Return, Goto, ledgerVars, FlowInv
  <2> QED
    BY <2>1 DEF FlowInv, WalkSteps, TemplateSteps
<1>4. CASE Unavailable \/ AppendFails \/ FlushFinish \/ FlushCommit
  <2>1. UNCHANGED <<rec, caller, earlier>>
    BY <1>4 DEF Unavailable, StopUnavailable, AppendFails, FlushFinish, FlushCommit, callVars
  <2>2. UNCHANGED covered
    BY <1>4 DEF Unavailable, StopUnavailable, AppendFails, FlushFinish, FlushCommit, LedgerFollows,
                ledgerVars, L!AbortPacket, L!ResolveFull, L!ResolveAmbiguous
  <2>3. \/ pc' = AfterFailure \/ pc' \in {"next", "flushWrite"}
        \/ pc' = (IF rec = NoRecord THEN "result" ELSE "fit")
    BY <1>4 DEF Unavailable, StopUnavailable, AppendFails, FlushFinish, FlushCommit, Goto
  <2> QED
    BY <2>1, <2>2, <2>3, Destinations DEF FlowInv, WalkSteps, TemplateSteps
<1>5. CASE \/ Misfit \/ Place \/ Fit \/ AppendRecord \/ AccountRecord \/ AppendBoundary
           \/ AppendRefused \/ (\E wall \in Walls : Preview(wall))
           \/ (\E r \in Readings : OpenData(r))
  <2>1. /\ UNCHANGED <<rec, caller, earlier>>
        /\ pc \in {"place", "fit", "open", "append", "account", "preview"}
    BY <1>5 DEF Misfit, Place, Fit, AppendRecord, AccountRecord, AppendBoundary, AppendRefused,
                Preview, OpenData, callVars
  <2>2. UNCHANGED covered
    BY <1>5 DEF Misfit, Place, Fit, AppendRecord, AccountRecord, AppendBoundary, AppendRefused,
                Preview, OpenData, InvalidateRecord, ledgerVars,
                L!Invalidate, L!BeginPacket, L!AddPending
  <2>3. pc' \in {"next", "preview", "fit", "flush", "append", "account", "open"}
    BY <1>5 DEF Misfit, Place, Fit, AppendRecord, AccountRecord, AppendBoundary, AppendRefused,
                Preview, OpenData, InvalidateRecord, Goto
  <2> QED
    BY <2>1, <2>2, <2>3 DEF FlowInv, WalkSteps, TemplateSteps
<1>6. CASE \E r \in Readings : OpenDue(r)
  <2>1. /\ UNCHANGED <<rec, earlier, covered>> /\ pc = "open"
        /\ caller' \in {caller, "openData"} /\ pc' \in {"preview", "drain"}
    BY <1>6 DEF OpenDue, Goto, ledgerVars
  <2> QED
    BY <2>1 DEF FlowInv, WalkSteps, TemplateSteps
<1>7. CASE \E n \in -1 .. DatagramLength + 1, err \in BOOLEAN :
             FlushWrite(n, err) \/ WriteTemplate(n, err)
  <2>1. /\ UNCHANGED <<rec, caller, earlier, covered>>
        /\ \/ pc = "flushWrite" /\ pc' = "flushCommit"
           \/ pc = "gate" /\ pc' = "templateCommit"
    BY <1>7 DEF FlushWrite, WriteTemplate, Goto, callVars, ledgerVars
  <2> QED
    BY <2>1 DEF FlowInv, WalkSteps, TemplateSteps
<1>8. CASE \/ (\E r \in Readings : RefreshWorker(r) \/ BeginTemplate(r))
           \/ EncodeTemplate \/ TemplateUnavailable \/ CommitTemplate
  <2>1. UNCHANGED <<rec, caller, earlier, covered>> /\ pc \in TemplateSteps \cup {"refresh"}
    BY <1>8 DEF RefreshWorker, BeginTemplate, EncodeTemplate, TemplateUnavailable, CommitTemplate,
                callVars, ledgerVars, TemplateSteps
  <2>2. \/ pc' \in TemplateSteps
        \/ pc' = "idle" /\ caller = "refresh"
        \/ pc' = TemplateFailed \/ pc' = TemplatesDone
    BY <1>8 DEF RefreshWorker, BeginTemplate, EncodeTemplate, TemplateUnavailable, CommitTemplate,
                Goto, TemplateSteps, FlowInv
  <2> QED
    BY <2>1, <2>2, Destinations DEF FlowInv, WalkSteps, TemplateSteps
<1> QED
  BY <1>1, <1>2, <1>3, <1>4, <1>5, <1>6, <1>7, <1>8 DEF Next, Step

-----------------------------------------------------------------------------
(* The open packet.                                                        *)

\* With no packet open and none of a template reserved, all three views are empty.
Empty ==
  /\ ~packetOpen /\ ~ledgerOpen /\ ~ledgerPacketOpen /\ pending = NoPacket
  /\ packetValid = 0 /\ members = {}

\* With no packet in any of the three views, PacketInv holds at the steps that
\* need none.
LEMMA EmptyPacket ==
  ASSUME Empty, pc \notin OpenSteps \cup ReservedSteps
  PROVE  PacketInv
BY DEF Empty, PacketInv, OpenSteps, ReservedSteps

\* A Packer without an open packet has none in State or ledger either.
LEMMA ClosedIsEmpty ==
  ASSUME PacketInv, ~packetOpen, pc \notin ReservedSteps
  PROVE  Empty
BY DEF PacketInv, Empty

\* A step that empties all three views, away from the steps that need a packet.
LEMMA EmptyStep ==
  ASSUME Empty', pc' \notin OpenSteps \cup ReservedSteps
  PROVE  PacketInv'
BY DEF Empty, PacketInv, OpenSteps, ReservedSteps

\* The steps that leave the packet as it is.
LEMMA PacketIdle ==
  ASSUME FlowInv, FlagInv, PacketInv,
         UNCHANGED <<packetOpen, ledgerOpen, lane, pending, ledgerPacketOpen, packetValid, members>>,
         pc' \notin ReservedSteps \cup {"append", "account", "flushWrite", "flushCommit"},
         pc' = "flush" => packetOpen,
         packetOpen => pc' \in {"next", "place", "flush"} /\ pc # "account" /\ ~stopped',
         pc \notin ReservedSteps
  PROVE  PacketInv'
BY DEF PacketInv, OpenSteps, ReservedSteps, FlagInv

\* The steps between packets keep the three views together.
LEMMA PacketWalk ==
  ASSUME FlowInv, FlagInv, PacketInv,
         \/ Pack \/ Refresh \/ (\E r \in Records : Consume(r)) \/ EndOfRecords \/ Return
         \/ Misfit \/ Fit \/ AppendBoundary \/ (\E wall \in Walls : Preview(wall))
  PROVE  PacketInv'
<1>1. CASE Pack
  <2>1. Empty
    BY <1>1, ClosedIsEmpty DEF Pack, PacketInv, OpenSteps, ReservedSteps
  <2>2. Empty' /\ pc' = "next"
    BY <1>1, <2>1 DEF Pack, ResetRequest, FreshLedger, Empty, Goto, stateVars
  <2> QED
    BY <2>2, EmptyStep DEF OpenSteps, ReservedSteps
<1>2. CASE Refresh
  <2>1. Empty
    BY <1>2, ClosedIsEmpty DEF Refresh, PacketInv, OpenSteps, ReservedSteps
  <2>2. Empty' /\ pc' = "refresh"
    BY <1>2, <2>1 DEF Refresh, ResetRequest, Empty, Goto, stateVars, ledgerVars
  <2> QED
    BY <2>2, EmptyStep DEF OpenSteps, ReservedSteps
<1>3. CASE \/ (\E r \in Records : Consume(r)) \/ EndOfRecords \/ Return
           \/ Misfit \/ Fit \/ AppendBoundary \/ (\E wall \in Walls : Preview(wall))
  <2>1. UNCHANGED <<packetOpen, ledgerOpen, lane, pending, ledgerPacketOpen, packetValid, members>>
    BY <1>3 DEF Consume, EndOfRecords, Return, Misfit, Fit, AppendBoundary, Preview, packetVars,
                InvalidateRecord, stateVars, ledgerVars, L!AddSource, L!Invalidate, L!packet
  <2>2. /\ pc' \notin ReservedSteps \cup {"append", "account", "flushWrite", "flushCommit"}
        /\ pc \notin ReservedSteps /\ pc # "account"
        /\ pc' = "flush" => packetOpen
    BY <1>3 DEF Consume, EndOfRecords, Return, Misfit, Fit, AppendBoundary, Preview,
                InvalidateRecord, Goto, ReservedSteps, PacketInv, OpenSteps
  <2>3. packetOpen => pc' \in {"next", "place", "flush"} /\ ~stopped'
    BY <1>3 DEF Consume, EndOfRecords, Return, Misfit, Fit, AppendBoundary, Preview,
                InvalidateRecord, Goto, PacketInv, OpenSteps, flags
  <2> QED
    BY <2>1, <2>2, <2>3, PacketIdle
<1> QED
  BY <1>1, <1>2, <1>3

\* Place keeps an open packet only for a record of its lane.
LEMMA PacketPlace ==
  ASSUME FlowInv, FlagInv, PacketInv, Place
  PROVE  PacketInv'
<1>1. UNCHANGED <<packetOpen, ledgerOpen, lane, pending, ledgerPacketOpen, packetValid, members, rec,
                  stopped>> /\ pc = "place"
  BY DEF Place, packetVars, stateVars, ledgerVars, callVars, flags
<1>2. CASE stopped \/ ~packetOpen
  <2>1. Empty
    BY <1>1, <1>2, ClosedIsEmpty DEF PacketInv, ReservedSteps
  <2>2. pc' \in {"preview", "fit"}
    BY <1>2 DEF Place, Goto
  <2> QED
    BY <1>1, <2>1, <2>2, EmptyStep DEF Empty, OpenSteps, ReservedSteps
<1>3. CASE ~stopped /\ packetOpen /\ MustFlush
  <2>1. pc' = "flush"
    BY <1>3 DEF Place, Goto
  <2> QED
    BY <1>1, <1>3, <2>1, PacketIdle DEF ReservedSteps
<1>4. CASE ~stopped /\ packetOpen /\ ~MustFlush
  <2>1. pc' = "append" /\ rec.lane = lane
    BY <1>4 DEF Place, Goto, MustFlush
  <2> QED
    BY <1>1, <1>4, <2>1 DEF PacketInv, OpenSteps, ReservedSteps
<1> QED
  BY <1>2, <1>3, <1>4

\* openData begins a packet for the lane of its record, or none.
LEMMA PacketOpen ==
  ASSUME FlowInv, FlagInv, PacketInv, SP!TypeOK, RequestInv, NEW r \in Readings, OpenDue(r) \/ OpenData(r)
  PROVE  PacketInv'
<1>0. pc = "open" /\ Empty /\ ~stopped
  <2>1. pc = "open"
    BY DEF OpenDue, OpenData
  <2>2. ~stopped
    BY <2>1 DEF RequestInv, InRequest, WalkSteps
  <2> QED
    BY <2>1, <2>2, ClosedIsEmpty DEF PacketInv, ReservedSteps, OpenSteps
<1>1. CASE OpenDue(r)
  <2>1. Empty'
    BY <1>0, <1>1, RefreshDueEffect DEF OpenDue, Empty, packetVars, ledgerVars
  <2>2. pc' \in {"preview", "drain"}
    BY <1>1 DEF OpenDue, Goto
  <2> QED
    BY <2>1, <2>2, EmptyStep DEF OpenSteps, ReservedSteps
<1>2. CASE OpenData(r)
  <2>1. UNCHANGED <<ledgerOpen, ledgerPacketOpen, packetValid, members, rec>>
    BY <1>2 DEF OpenData, ledgerVars, callVars
  <2>2. CASE pending' = NoPacket
    <3>1. UNCHANGED packetOpen /\ pc' = "preview"
      BY <1>2, <2>2 DEF OpenData, Goto
    <3> QED
      BY <1>0, <2>1, <2>2, <3>1, EmptyStep DEF Empty, OpenSteps, ReservedSteps
  <2>3. CASE pending' # NoPacket
    <3>1. packetOpen' = TRUE /\ lane' = rec.lane /\ pc' = "append" /\ UNCHANGED stopped
      BY <1>2, <2>3 DEF OpenData, Goto, flags
    <3>2. S!BeginDataStream(r[1], r[2], Shape(rec.lane))
      BY <1>0, <1>2, <2>3 DEF OpenData, stateVars, Empty
    <3>3. /\ pending'.streamed /\ ~pending'.template /\ pending'.records = 0
          /\ pending'.shape = Shape(rec.lane)
      BY <2>3, <3>2, DataEffect
    <3>4. Shape(lane') = Shape(lane)'
      BY DEF Shape
    <3> QED
      BY <1>0, <2>1, <2>3, <3>1, <3>3, <3>4 DEF Empty, PacketInv, OpenSteps, ReservedSteps
  <2> QED
    BY <2>2, <2>3
<1> QED
  BY <1>1, <1>2

\* append counts the record in the datagram first and in the ledger next.
LEMMA PacketAppend ==
  ASSUME FlowInv, FlagInv, PacketInv, SP!TypeOK, LP!LedgerInv, RequestInv, AppendRecord \/ AccountRecord
  PROVE  PacketInv'
<1>0. packetOpen /\ UNCHANGED <<packetOpen, lane, rec, stopped>> /\ packetValid \in Nat /\ ~stopped
  BY LedgerFacts DEF AppendRecord, AccountRecord, PacketInv, OpenSteps, packetVars, callVars, flags
<1>1. CASE AppendRecord
  <2>1. /\ pending' # NoPacket /\ SameHeader /\ pending'.records = pending.records + 1
    BY <1>1, AppendEffect DEF AppendRecord
  <2>2. ledgerOpen' = TRUE /\ pc = "append" /\ pc' = "account"
    BY <1>1 DEF AppendRecord, Goto
  <2>3. ledgerPacketOpen' /\ packetValid' = packetValid
    BY <1>1 DEF AppendRecord, ledgerVars, L!BeginPacket, PacketInv
  <2> QED
    BY <1>0, <2>1, <2>2, <2>3 DEF PacketInv, OpenSteps, ReservedSteps, SameHeader, Shape
<1>2. CASE AccountRecord
  <2>1. UNCHANGED <<pending, ledgerOpen>> /\ pc = "account" /\ pc' = "next"
    BY <1>2 DEF AccountRecord, stateVars, packetVars, Goto
  <2>2. packetValid' = packetValid + 1 /\ UNCHANGED ledgerPacketOpen
    BY <1>2 DEF AccountRecord, L!AddPending
  <2> QED
    BY <1>0, <2>1, <2>2 DEF PacketInv, OpenSteps, ReservedSteps, Shape
<1> QED
  BY <1>1, <1>2

\* Closing the ledger packet leaves none of it behind.
LEMMA LedgerCloses ==
  ASSUME L!AbortPacket \/ L!ResolveFull \/ L!ResolveAmbiguous
  PROVE  ~ledgerPacketOpen' /\ packetValid' = 0 /\ members' = {}
BY DEF L!AbortPacket, L!ResolveFull, L!ResolveAmbiguous, L!ClosePacket

\* A record the appender refuses leaves a filled packet as it is and an empty one released.
LEMMA PacketRefused ==
  ASSUME FlowInv, FlagInv, PacketInv, SP!TypeOK, LP!LedgerInv, AppendRefused
  PROVE  PacketInv'
<1>0. /\ pc = "append" /\ pc' = "next" /\ packetOpen /\ ~stopped
      /\ UNCHANGED <<ledgerOpen, lane, rec, stopped, ledgerPacketOpen, packetValid, members>>
  BY DEF AppendRefused, InvalidateRecord, Goto, PacketInv, OpenSteps, flags, callVars, L!Invalidate, L!packet
<1>1. CASE pending.records = 0
  <2>1. pending' = NoPacket /\ packetOpen' = FALSE
    BY <1>1, AbortEffect DEF AppendRefused, EmptyPacketReleased
  <2>2. packetValid = 0
    BY <1>0, <1>1, LedgerFacts DEF PacketInv
  <2>3. ~ledgerOpen
    BY <1>0, <2>2 DEF PacketInv
  <2> QED
    BY <1>0, <2>1, <2>3, EmptyStep DEF PacketInv, Empty, OpenSteps, ReservedSteps
<1>2. CASE pending.records # 0
  <2>1. UNCHANGED <<pending, packetOpen>>
    BY <1>2 DEF AppendRefused, EmptyPacketReleased, stateVars
  <2> QED
    BY <1>0, <2>1, PacketIdle DEF ReservedSteps
<1> QED
  BY <1>1, <1>2

\* Giving the packet up, for cancellation or after an internal failure.
LEMMA PacketDropped ==
  ASSUME FlowInv, FlagInv, PacketInv, SP!TypeOK, Unavailable \/ AppendFails
  PROVE  PacketInv'
<1>1. packetOpen' = FALSE /\ ledgerOpen' = FALSE
  BY DEF Unavailable, StopUnavailable, AppendFails
<1>2. ~ledgerPacketOpen' /\ packetValid' = 0 /\ members' = {}
  <2>1. CASE ledgerOpen
    BY <2>1, LedgerCloses DEF Unavailable, StopUnavailable, AppendFails
  <2>2. CASE ~ledgerOpen
    BY <2>2 DEF Unavailable, StopUnavailable, AppendFails, PacketInv, ledgerVars
  <2> QED
    BY <2>1, <2>2
<1>3. pending' = NoPacket
  <2>1. CASE S!Abort
    BY <2>1, AbortEffect
  <2>2. CASE ~packetOpen /\ UNCHANGED stateVars
    BY <2>2 DEF Unavailable, AppendFails, PacketInv, OpenSteps, ReservedSteps, stateVars
  <2> QED
    BY <2>1, <2>2 DEF Unavailable, StopUnavailable, AppendFails
<1>4. pc' \in {"result", "preview", "next"}
  BY Destinations DEF Unavailable, StopUnavailable, AppendFails, Goto
<1> QED
  BY <1>1, <1>2, <1>3, <1>4, EmptyStep DEF Empty, OpenSteps, ReservedSteps

\* flushData: the packet goes to the transport and is settled on both sides.
LEMMA PacketFlush ==
  ASSUME FlowInv, FlagInv, PacketInv, SP!TypeOK, LP!LedgerInv,
         \/ FlushFinish \/ FlushCommit
         \/ (\E n \in -1 .. DatagramLength + 1, err \in BOOLEAN : FlushWrite(n, err))
  PROVE  PacketInv'
<1>0. packetValid \in Nat
  BY LedgerFacts
<1>1. CASE FlushFinish /\ pending' # NoPacket
  <2>1. /\ UNCHANGED <<packetOpen, ledgerOpen, ledgerPacketOpen, packetValid, members, lane, stopped>>
        /\ pc = "flush" /\ pc' = "flushWrite"
    BY <1>1 DEF FlushFinish, ledgerVars, flags, Goto
  <2>2. SameHeader /\ pending'.records = pending.records /\ pending.records > 0
    BY <1>1, EncodeEffect DEF FlushFinish
  <2> QED
    BY <1>0, <1>1, <2>1, <2>2 DEF PacketInv, OpenSteps, ReservedSteps, SameHeader, Shape
<1>2. CASE FlushFinish /\ pending' = NoPacket
  <2>1. packetOpen' = FALSE /\ ledgerOpen' = FALSE /\ pc' = AfterFailure /\ L!AbortPacket
    BY <1>2 DEF FlushFinish, Goto
  <2> QED
    BY <1>2, <2>1, LedgerCloses, Destinations, EmptyStep DEF Empty, OpenSteps, ReservedSteps
<1>3. CASE \E n \in -1 .. DatagramLength + 1, err \in BOOLEAN : FlushWrite(n, err)
  <2>1. /\ UNCHANGED <<packetOpen, ledgerOpen, ledgerPacketOpen, packetValid, members, lane, stopped>>
        /\ pc = "flushWrite" /\ pc' = "flushCommit" /\ UNCHANGED pending
    BY <1>3, WriteEffect DEF FlushWrite, ledgerVars, packetVars, flags, Goto
  <2> QED
    BY <2>1 DEF PacketInv, OpenSteps, ReservedSteps, Shape
<1>4. CASE FlushCommit
  <2>1. packetOpen' = FALSE /\ ledgerOpen' = FALSE
    BY <1>4 DEF FlushCommit
  <2>2. pending' = NoPacket
    BY <1>4, CommitEffect DEF FlushCommit
  <2>3. ~ledgerPacketOpen' /\ packetValid' = 0 /\ members' = {}
    BY <1>4, LedgerCloses DEF FlushCommit, LedgerFollows
  <2>4. pc' \in {"result", "preview", "fit"}
    BY <1>4, Destinations DEF FlushCommit, Goto
  <2> QED
    BY <2>1, <2>2, <2>3, <2>4, EmptyStep DEF Empty, OpenSteps, ReservedSteps
<1> QED
  BY <1>1, <1>2, <1>3, <1>4

\* Templates use State while neither the Packer nor the ledger has a packet.
LEMMA PacketTemplate ==
  ASSUME FlowInv, FlagInv, PacketInv, SP!TypeOK,
         \/ (\E r \in Readings : RefreshWorker(r) \/ BeginTemplate(r))
         \/ EncodeTemplate \/ TemplateUnavailable \/ CommitTemplate
         \/ (\E n \in -1 .. DatagramLength + 1, err \in BOOLEAN : WriteTemplate(n, err))
  PROVE  PacketInv'
<1>0. /\ pc \in TemplateSteps \cup {"refresh"}
      /\ UNCHANGED <<packetOpen, ledgerOpen, ledgerPacketOpen, packetValid, members, lane>>
  BY DEF RefreshWorker, BeginTemplate, EncodeTemplate, TemplateUnavailable, CommitTemplate, WriteTemplate,
         packetVars, ledgerVars, TemplateSteps
<1>1. ~packetOpen /\ ~ledgerOpen /\ ~ledgerPacketOpen /\ packetValid = 0 /\ members = {}
  BY <1>0 DEF PacketInv, TemplateSteps, OpenSteps
<1>2. TemplateFailed \notin OpenSteps \cup ReservedSteps /\ TemplatesDone \notin OpenSteps \cup ReservedSteps
  BY Destinations DEF FlowInv, OpenSteps, ReservedSteps
<1>3. CASE pending' = NoPacket /\ pc' \notin OpenSteps \cup ReservedSteps
  BY <1>0, <1>1, <1>3, EmptyStep DEF Empty
<1>4. CASE pc' \in ReservedSteps /\ pending' # NoPacket /\ pending'.template /\ pending'.records = 0
  BY <1>0, <1>1, <1>4 DEF PacketInv, OpenSteps, ReservedSteps
<1>5. CASE \E r \in Readings : RefreshWorker(r)
  <2>1. pc = "refresh" /\ UNCHANGED pending /\ pc' \in {"drain", "idle"}
    BY <1>5, RefreshDueEffect DEF RefreshWorker, Goto
  <2> QED
    BY <1>1, <1>3, <2>1 DEF PacketInv, OpenSteps, ReservedSteps
<1>6. CASE \E r \in Readings : BeginTemplate(r)
  <2>1. PICK r \in Readings : BeginTemplate(r)
    BY <1>6
  <2>2. CASE pending' = NoPacket
    BY <1>2, <1>3, <2>1, <2>2 DEF BeginTemplate, Goto
  <2>3. CASE pending' # NoPacket
    <3>1. pending = NoPacket
      BY <1>1, <2>1 DEF BeginTemplate, PacketInv, ReservedSteps
    <3>2. S!BeginTemplate(r[1], r[2]) /\ pc' = "encode"
      BY <2>1, <2>3, <3>1 DEF BeginTemplate, Goto, stateVars
    <3> QED
      BY <1>4, <2>3, <3>2, TemplateEffect DEF ReservedSteps
  <2> QED
    BY <2>2, <2>3
<1>7. CASE EncodeTemplate
  <2>0. pending.template /\ pending.records = 0
    BY <1>7 DEF EncodeTemplate, PacketInv, ReservedSteps
  <2>1. CASE pending' = NoPacket
    BY <1>2, <1>3, <1>7, <2>1 DEF EncodeTemplate, Goto
  <2>2. CASE pending' # NoPacket
    <3>1. pc' = "gate" /\ SameHeader /\ pending'.records = pending.records
      BY <1>7, <2>2, EncodeEffect DEF EncodeTemplate, Goto
    <3> QED
      BY <1>4, <2>0, <2>2, <3>1 DEF ReservedSteps, SameHeader
  <2> QED
    BY <2>1, <2>2
<1>8. CASE \E n \in -1 .. DatagramLength + 1, err \in BOOLEAN : WriteTemplate(n, err)
  <2>1. pc = "gate" /\ pc' = "templateCommit" /\ UNCHANGED pending
    BY <1>8, WriteEffect DEF WriteTemplate, Goto
  <2> QED
    BY <1>4, <2>1 DEF PacketInv, ReservedSteps
<1>9. CASE TemplateUnavailable
  <2>1. pending' = NoPacket
    BY <1>1, <1>9, AbortEffect DEF TemplateUnavailable, PacketInv, ReservedSteps, stateVars
  <2> QED
    BY <1>2, <1>3, <1>9, <2>1 DEF TemplateUnavailable, Goto
<1>10. CASE CommitTemplate
  <2>1. pending' = NoPacket
    BY <1>10, CommitEffect DEF CommitTemplate
  <2>2. pc' \in {"drain", TemplatesDone, TemplateFailed}
    BY <1>10 DEF CommitTemplate, Goto
  <2> QED
    BY <1>2, <1>3, <2>1, <2>2 DEF OpenSteps, ReservedSteps
<1> QED
  BY <1>5, <1>6, <1>7, <1>8, <1>9, <1>10

\* Every step keeps the three views of the packet together.
LEMMA PacketStep ==
  ASSUME FlowInv, FlagInv, PacketInv, SP!TypeOK, LP!LedgerInv, RequestInv, Next
  PROVE  PacketInv'
BY PacketWalk, PacketPlace, PacketOpen, PacketAppend, PacketRefused, PacketDropped, PacketFlush,
   PacketTemplate DEF Next, Step

-----------------------------------------------------------------------------
(* The records of a request.                                               *)

\* A step that leaves the ledger alone, and the record where it was.
LEMMA RequestGoesOn ==
  ASSUME RequestInv, InRequest, UNCHANGED <<class, covered, members, packetEnd, ledgerStopped>>,
         stopped => stopped', InHand' => InHand, ~stopped' => (InHand => InHand'),
         pc' \notin {"next", "place", "preview", "result"} => ~stopped',
         pc' = "preview" => stopped'
  PROVE  RequestInv'
BY DEF RequestInv, Ordinal

\* A step that stops the request, whatever becomes of the open packet.
LEMMA RequestStops ==
  ASSUME RequestInv, InRequest, stopped', covered' = covered,
         pc' \in {"next", "preview", "result"},
         InHand' => InHand /\ class'[Ordinal] = class[Ordinal] /\ packetEnd' <= Ordinal
  PROVE  RequestInv'
BY DEF RequestInv, Ordinal

\* A step that settles the record in hand as invalid, and goes on with the next one.
LEMMA RequestInvalidates ==
  ASSUME RequestInv, LP!LedgerInv, FlowInv, InHand, L!Invalidate(Ordinal), UNCHANGED stopped, pc' = "next"
  PROVE  RequestInv'
<1>1. ~InHand'
  BY DEF InHand
<1>2. UNCHANGED <<covered, members, packetEnd, ledgerStopped>>
  BY DEF L!Invalidate, L!packet
<1>3. \A o \in 0 .. covered - 1 : class'[o] = "unsent" => class[o] = "unsent" /\ o # Ordinal
  BY LedgerFacts DEF L!Invalidate, L!Ordinals, Ordinal
<1> QED
  BY <1>1, <1>2, <1>3 DEF RequestInv, InHand

\* Starting, walking and ending a request keeps the account of its records.
LEMMA RequestWalk ==
  ASSUME RequestInv, LP!LedgerInv, FlowInv, FlagInv, PacketInv,
         Pack \/ Refresh \/ (\E r \in Records : Consume(r)) \/ EndOfRecords \/ Return
  PROVE  RequestInv'
<1>1. CASE Pack
  <2>1. covered' = 0 /\ ledgerStopped' = FALSE /\ pc' = "next"
    BY <1>1 DEF Pack, FreshLedger, Goto
  <2> QED
    BY <2>1 DEF RequestInv, InHand
<1>2. CASE Refresh \/ Return
  BY <1>2 DEF Refresh, Return, Goto, RequestInv, InRequest, WalkSteps, TemplateSteps
<1>3. CASE \E r \in Records : Consume(r)
  <2>1. PICK r \in Records : Consume(r)
    BY <1>3
  <2>2. /\ covered \in 0 .. MaxSources - 1 /\ covered' = covered + 1 /\ pc = "next"
        /\ UNCHANGED <<members, packetEnd, ledgerStopped, stopped>>
    BY <2>1, LedgerFacts DEF Consume, L!AddSource, L!packet, flags
  <2>3. /\ \A o \in 0 .. covered - 1 : class'[o] = class[o]
        /\ pc' = "next" => class'[covered] = "invalid"
        /\ pc' # "next" => class'[covered] = "unsent"
        /\ pc' \in {"next", "place"}
    BY <2>1, <2>2, LedgerFacts DEF Consume, L!AddSource, L!Ordinals, Goto
  <2>4. packetEnd <= covered /\ InRequest /\ ~InHand
    BY <2>2, LedgerFacts DEF InRequest, InHand, WalkSteps
  <2>5. InHand' <=> pc' # "next"
    <3>1. rec' # NoRecord
      BY <2>1, PackerAssumption DEF Consume, PackerAssumption, AllKinds, Records, NoRecord
    <3> QED
      BY <2>3, <3>1 DEF InHand, InRequest, WalkSteps
  <2>6. Ordinal' = covered
    BY <2>2 DEF Ordinal
  <2>7. ~stopped' => \A o \in 0 .. covered' - 1 :
           class'[o] = "unsent" => o \in members' \/ (InHand' /\ o = Ordinal')
    BY <2>2, <2>3, <2>4, <2>5, <2>6 DEF RequestInv
  <2> QED
    BY <2>2, <2>3, <2>4, <2>5, <2>6, <2>7 DEF RequestInv
<1>4. CASE EndOfRecords
  <2>1. /\ UNCHANGED <<class, covered, members, packetEnd, ledgerStopped, stopped>>
        /\ pc = "next" /\ pc' \in {"flush", "result"} /\ rec' = NoRecord
        /\ pc' = "flush" => ~stopped
    BY <1>4 DEF EndOfRecords, ledgerVars, flags, Goto
  <2>2. InRequest /\ ~InHand /\ ~InHand'
    BY <2>1 DEF InRequest, InHand, WalkSteps
  <2> QED
    BY <2>1, <2>2, RequestGoesOn
<1> QED
  BY <1>1, <1>2, <1>3, <1>4

\* Placing, appending and accounting for the record in hand keeps it.
LEMMA RequestRecord ==
  ASSUME RequestInv, LP!LedgerInv, FlowInv, FlagInv, PacketInv,
         \/ Misfit \/ Place \/ Fit
         \/ AppendRecord \/ AccountRecord \/ AppendBoundary \/ AppendRefused
         \/ (\E r \in Readings : OpenDue(r) \/ OpenData(r))
         \/ (\E wall \in Walls : Preview(wall))
  PROVE  RequestInv'
<1>0. InHand /\ InRequest /\ UNCHANGED rec
      /\ pc \in {"place", "fit", "open", "append", "account", "preview"}
  BY DEF Misfit, Place, Fit, AppendRecord, AccountRecord, AppendBoundary, AppendRefused, OpenDue,
         OpenData, Preview, callVars, InHand, InRequest, FlowInv, WalkSteps
<1>1. CASE Misfit \/ (Fit /\ rec.kind = "huge") \/ AppendRefused
  <2>1. L!Invalidate(Ordinal) /\ UNCHANGED stopped /\ pc' = "next"
    BY <1>1 DEF Misfit, Fit, AppendRefused, InvalidateRecord, Goto, flags
  <2> QED
    BY <1>0, <2>1, RequestInvalidates
<1>2. CASE Place \/ (Fit /\ rec.kind # "huge") \/ AppendBoundary
  <2>1. /\ UNCHANGED <<class, covered, members, packetEnd, ledgerStopped, stopped>>
        /\ pc' \in {"preview", "fit", "flush", "append", "open"}
        /\ pc' = "preview" <=> stopped
    BY <1>0, <1>2 DEF Place, Fit, AppendBoundary, ledgerVars, flags, Goto, RequestInv
  <2>2. InHand'
    BY <1>0, <2>1 DEF InHand, InRequest, WalkSteps
  <2> QED
    BY <1>0, <2>1, <2>2, RequestGoesOn
<1>3. CASE \E r \in Readings : OpenDue(r) \/ OpenData(r)
  <2>0. ~stopped
    BY <1>0, <1>3 DEF OpenDue, OpenData, RequestInv
  <2>1. /\ UNCHANGED <<class, covered, members, packetEnd, ledgerStopped>>
        /\ \/ pc' = "preview" /\ stopped' = TRUE
           \/ pc' = "append" /\ stopped' = stopped
           \/ pc' = "drain" /\ stopped' = stopped /\ caller' = "openData"
    BY <1>3 DEF OpenDue, OpenData, ledgerVars, flags, FailTransient, FailInternal, Goto
  <2>2. InHand'
    BY <1>0, <2>1 DEF InHand, InRequest, WalkSteps, TemplateSteps
  <2> QED
    BY <1>0, <2>0, <2>1, <2>2, RequestGoesOn
<1>4. CASE AppendRecord
  <2>0. ~stopped /\ pc' = "account" /\ UNCHANGED <<stopped, covered, class>>
    BY <1>0, <1>4 DEF AppendRecord, RequestInv, Goto, flags, ledgerVars, L!BeginPacket
  <2>1. UNCHANGED <<members, ledgerStopped>> /\ (packetEnd' = packetEnd \/ packetEnd' = 0)
    BY <1>4 DEF AppendRecord, PacketInv, ledgerVars, L!BeginPacket
  <2>2. InHand' /\ InRequest' /\ Ordinal' = Ordinal /\ 0 <= Ordinal
    BY <1>0, <2>0, LedgerFacts DEF InHand, InRequest, WalkSteps, Ordinal, FlowInv
  <2> QED
    BY <1>0, <2>0, <2>1, <2>2 DEF RequestInv
<1>5. CASE AccountRecord
  <2>1. /\ UNCHANGED <<stopped, covered, class, ledgerStopped>> /\ pc' = "next"
        /\ members' = members \cup {Ordinal}
    BY <1>5 DEF AccountRecord, flags, L!AddPending, L!counters, Goto
  <2>2. ~InHand' /\ InRequest'
    BY <2>1 DEF InHand, InRequest, WalkSteps
  <2> QED
    BY <1>0, <2>1, <2>2 DEF RequestInv
<1>6. CASE \E wall \in Walls : Preview(wall)
  <2>1. pc = "preview" /\ pc' = "next"
    BY <1>6 DEF Preview, Goto
  <2>2. covered' = covered
    BY <1>6 DEF Preview, ledgerVars, L!Invalidate
  <2>3. UNCHANGED flags \/ FailInternal
    BY <1>6 DEF Preview
  <2>4. stopped
    BY <1>0, <2>1 DEF RequestInv
  <2>5. stopped'
    BY <2>3, <2>4 DEF flags, FailInternal
  <2> QED
    BY <1>0, <2>1, <2>2, <2>5, RequestStops DEF InHand
<1> QED
  BY <1>1, <1>2, <1>3, <1>4, <1>5, <1>6

\* Settling a packet leaves the record in hand, which lies beyond it, unsent.
LEMMA SettledPacket ==
  ASSUME LP!LedgerInv, L!ResolveFull \/ L!ResolveAmbiguous
  PROVE  /\ covered' = covered /\ packetEnd' = 0 /\ members' = {}
         /\ \A o \in L!Ordinals : o \notin members => class'[o] = class[o]
         /\ \A o \in members : class'[o] = (IF L!ResolveFull THEN "confirmed" ELSE "ambiguous")
         /\ L!ResolveFull => UNCHANGED ledgerStopped
<1>1. members = {o \in L!Ordinals : packetStart <= o /\ o < packetEnd /\ class[o] = "unsent"}
  BY LedgerFacts DEF L!ResolveFull, L!ResolveAmbiguous
<1>2. CASE L!ResolveFull
  BY <1>1, <1>2 DEF L!ResolveFull, L!MarkPending, L!ClosePacket
<1>3. CASE ~L!ResolveFull /\ L!ResolveAmbiguous
  BY <1>1, <1>3 DEF L!ResolveAmbiguous, L!MarkPending, L!ClosePacket
<1> QED
  BY <1>2, <1>3

\* The record in hand is not yet in the packet.
LEMMA HandBeyondPacket ==
  ASSUME RequestInv, LP!LedgerInv, PacketInv, InHand
  PROVE  Ordinal \notin members
<1>1. packetEnd <= Ordinal /\ packetEnd \in Nat /\ Ordinal \in Int
  BY LedgerFacts DEF RequestInv, InHand, Ordinal
<1>2. CASE ledgerPacketOpen
  <2>1. \A o \in members : o \in Int /\ o < packetEnd
    BY <1>2, LedgerFacts DEF L!Ordinals
  <2> QED
    BY <1>1, <2>1
<1>3. CASE ~ledgerPacketOpen
  BY <1>3 DEF PacketInv
<1> QED
  BY <1>2, <1>3

\* Sending or giving up a data packet keeps it.
LEMMA RequestSend ==
  ASSUME RequestInv, LP!LedgerInv, FlowInv, FlagInv, PacketInv, SP!TypeOK,
         \/ Unavailable \/ AppendFails \/ FlushFinish \/ FlushCommit
         \/ (\E n \in -1 .. DatagramLength + 1, err \in BOOLEAN : FlushWrite(n, err))
  PROVE  RequestInv'
<1>0. /\ InRequest /\ UNCHANGED <<rec, caller>> /\ pc # "next"
      /\ InHand => Ordinal \in L!Ordinals
      /\ InHand => 0 <= Ordinal
  BY LedgerFacts
     DEF Unavailable, StopUnavailable, AppendFails, FlushFinish, FlushCommit, FlushWrite, callVars,
         InRequest, InHand, WalkSteps, FlowInv, Ordinal, L!Ordinals
<1>1. InHand' => InHand
  BY <1>0 DEF InHand
<1>2. CASE \/ Unavailable \/ AppendFails \/ (FlushFinish /\ pending' = NoPacket)
  <2>1. stopped' /\ pc' \in {"next", "preview", "result"}
    BY <1>2, Destinations DEF Unavailable, StopUnavailable, AppendFails, FlushFinish, FailTransient,
                              FailInternal, Goto
  <2>2. UNCHANGED <<class, covered>> /\ packetEnd' \in {packetEnd, 0}
    BY <1>2 DEF Unavailable, StopUnavailable, AppendFails, FlushFinish, ledgerVars, L!AbortPacket,
                L!ClosePacket
  <2> QED
    BY <1>0, <1>1, <2>1, <2>2, RequestStops DEF RequestInv
<1>3. CASE \/ (FlushFinish /\ pending' # NoPacket)
           \/ (\E n \in -1 .. DatagramLength + 1, err \in BOOLEAN : FlushWrite(n, err))
  <2>1. /\ UNCHANGED <<class, covered, members, packetEnd, ledgerStopped, stopped>>
        /\ pc \in {"flush", "flushWrite"} /\ pc' \in {"flushWrite", "flushCommit"}
    BY <1>3 DEF FlushFinish, FlushWrite, ledgerVars, flags, Goto
  <2>2. ~stopped /\ (InHand => InHand')
    BY <1>0, <2>1 DEF RequestInv, InHand, InRequest, WalkSteps
  <2> QED
    BY <1>0, <1>1, <2>1, <2>2, RequestGoesOn
<1>4. CASE FlushCommit
  <2>0. pc = "flushCommit" /\ ~stopped
    BY <1>0, <1>4 DEF FlushCommit, RequestInv
  <2>1. WriteClass = "full" => L!ResolveFull
    BY <1>4 DEF FlushCommit, LedgerFollows, WriteClass
  <2>2. CASE WriteClass = "full"
    <3>1. /\ covered' = covered /\ packetEnd' = 0 /\ members' = {} /\ UNCHANGED ledgerStopped
          /\ \A o \in L!Ordinals : o \notin members => class'[o] = class[o]
          /\ \A o \in members : class'[o] = "confirmed"
      BY <2>1, <2>2, SettledPacket
    <3>2. UNCHANGED stopped /\ pc' = (IF rec = NoRecord THEN "result" ELSE "fit")
      BY <1>4, <2>2 DEF FlushCommit, WriteClass, flags, Goto
    <3>3. InHand' <=> InHand
      BY <1>0, <2>0, <3>2 DEF InHand, InRequest, WalkSteps
    <3>4. InHand => Ordinal \notin members
      BY HandBeyondPacket
    <3>5. \A o \in 0 .. covered - 1 : o \in L!Ordinals
      BY LedgerFacts DEF L!Ordinals
    <3>6. \A o \in 0 .. covered - 1 : class'[o] = "unsent" => InHand /\ o = Ordinal
      BY <1>0, <2>0, <3>1, <3>5 DEF RequestInv
    <3> QED
      BY <1>0, <2>0, <3>1, <3>2, <3>3, <3>4, <3>6 DEF RequestInv, Ordinal
  <2>3. CASE WriteClass # "full"
    <3>1. stopped' /\ pc' = AfterFailure
      BY <1>4, <2>3 DEF FlushCommit, WriteClass, FailInternal, FailTransient, Goto
    <3>2. L!AbortPacket \/ L!ResolveAmbiguous
      BY <1>4, <2>3 DEF FlushCommit, LedgerFollows, WriteClass
    <3>3. InHand => Ordinal \notin members
      BY HandBeyondPacket
    <3>4. covered' = covered /\ packetEnd' = 0 /\ (InHand => class'[Ordinal] = class[Ordinal])
      BY <1>0, <3>2, <3>3, SettledPacket DEF L!AbortPacket, L!ClosePacket
    <3> QED
      BY <1>0, <1>1, <3>1, <3>4, Destinations, RequestStops
  <2> QED
    BY <2>2, <2>3
<1> QED
  BY <1>2, <1>3, <1>4

\* Templates do not touch the request.
LEMMA RequestTemplate ==
  ASSUME RequestInv, FlowInv, FlagInv,
         \/ (\E r \in Readings : RefreshWorker(r) \/ BeginTemplate(r))
         \/ EncodeTemplate \/ TemplateUnavailable \/ CommitTemplate
         \/ (\E n \in -1 .. DatagramLength + 1, err \in BOOLEAN : WriteTemplate(n, err))
  PROVE  RequestInv'
<1>0. /\ pc \in TemplateSteps \cup {"refresh"}
      /\ UNCHANGED <<class, covered, members, packetEnd, ledgerStopped, rec, caller>>
  BY DEF RefreshWorker, BeginTemplate, EncodeTemplate, TemplateUnavailable, CommitTemplate, WriteTemplate,
         ledgerVars, callVars, TemplateSteps
<1>1. \/ UNCHANGED stopped /\ pc' \in TemplateSteps \cup {TemplatesDone}
      \/ UNCHANGED stopped /\ pc' = "idle" /\ caller = "refresh"
      \/ stopped' = TRUE /\ pc' = TemplateFailed
  BY DEF RefreshWorker, BeginTemplate, EncodeTemplate, TemplateUnavailable, CommitTemplate, WriteTemplate,
         flags, FailTransient, FailInternal, Goto, TemplateSteps, FlowInv
<1>2. CASE caller = "openData"
  <2>1. InRequest /\ InHand /\ ~stopped
    BY <1>0, <1>2 DEF FlowInv, InRequest, InHand, RequestInv, TemplateSteps
  <2>2. \/ UNCHANGED stopped /\ pc' \in TemplateSteps \cup {"open"}
        \/ stopped' = TRUE /\ pc' = "preview"
    BY <1>1, <1>2, Destinations
  <2>3. InHand'
    BY <1>0, <1>2, <2>1, <2>2 DEF InHand, InRequest, TemplateSteps, WalkSteps
  <2> QED
    BY <1>0, <2>1, <2>2, <2>3, RequestGoesOn DEF TemplateSteps
<1>3. CASE caller # "openData"
  <2>1. pc' \in TemplateSteps \cup {"idle", "abandoned"}
    BY <1>1, <1>3, Destinations DEF FlowInv
  <2> QED
    BY <1>0, <1>3, <2>1 DEF RequestInv, InRequest, TemplateSteps, WalkSteps
<1> QED
  BY <1>2, <1>3

\* Every step keeps the account of what is left to send.
LEMMA RequestStep ==
  ASSUME FlowInv, FlagInv, PacketInv, SP!TypeOK, LP!LedgerInv, RequestInv, Next
  PROVE  RequestInv'
BY RequestWalk, RequestRecord, RequestSend, RequestTemplate DEF Next, Step

-----------------------------------------------------------------------------
(* The wire.                                                               *)

\* A step away from the write that changes no record's view of the wire.
LEMMA WireKept ==
  ASSUME WireInv, UNCHANGED sent, pc # "flushCommit", pc' # "flushCommit",
         \A o \in L!Ordinals : class'[o] = class[o] \/ (class[o] = "unsent" /\ class'[o] = "invalid")
  PROVE  WireInv'
BY DEF WireInv, Seen, L!Ordinals

\* The records of the packet are unsent until it is settled.
LEMMA MembersUnsent ==
  ASSUME LP!LedgerInv, PacketInv
  PROVE  \A o \in members : o \in L!Ordinals /\ class[o] = "unsent"
BY LedgerFacts DEF PacketInv

\* Steps that neither write nor settle change nothing the wire saw.
LEMMA WireWalk ==
  ASSUME WireInv, LP!LedgerInv, FlowInv,
         \/ Pack \/ Refresh \/ (\E r \in Records : Consume(r)) \/ EndOfRecords \/ Return
         \/ Unavailable \/ Misfit \/ Place \/ Fit
         \/ (\E r \in Readings : OpenDue(r) \/ OpenData(r))
         \/ AppendRecord \/ AccountRecord \/ AppendBoundary \/ AppendRefused \/ AppendFails
         \/ (\E wall \in Walls : Preview(wall)) \/ FlushFinish
  PROVE  WireInv'
<1>1. CASE Pack
  <2>1. sent' = [o \in L!Ordinals |-> "no"] /\ class' = [o \in L!Ordinals |-> "unsent"] /\ pc' = "next"
    BY <1>1 DEF Pack, FreshLedger, Goto
  <2>2. L!Ordinals' = L!Ordinals
    BY DEF L!Ordinals
  <2> QED
    BY <2>1, <2>2 DEF WireInv, Seen
<1>2. CASE \E r \in Records : Consume(r)
  <2>1. PICK r \in Records : Consume(r)
    BY <1>2
  <2>2. pc = "next" /\ pc' \in {"next", "place"} /\ UNCHANGED sent
    BY <2>1 DEF Consume, Goto, tallies
  <2>3. class[covered] = "unsent"
    BY <2>1, LedgerFacts DEF Consume, L!Ordinals
  <2>4. \A o \in L!Ordinals : class'[o] = class[o] \/ (class[o] = "unsent" /\ class'[o] = "invalid")
    BY <2>1, <2>3, LedgerFacts DEF Consume, L!AddSource
  <2> QED
    BY <2>2, <2>4, WireKept
<1>3. CASE \/ Refresh \/ EndOfRecords \/ Return \/ Unavailable \/ Misfit \/ Place \/ Fit
           \/ (\E r \in Readings : OpenDue(r) \/ OpenData(r))
           \/ AppendRecord \/ AccountRecord \/ AppendBoundary \/ AppendRefused \/ AppendFails
           \/ (\E wall \in Walls : Preview(wall)) \/ FlushFinish
  <2>1. UNCHANGED sent
    BY <1>3 DEF Refresh, EndOfRecords, Return, Unavailable, StopUnavailable, Misfit, Place, Fit, OpenDue,
                OpenData, AppendRecord, AccountRecord, AppendBoundary, AppendRefused, AppendFails,
                Preview, FlushFinish, tallies
  <2>2. pc # "flushCommit"
    BY <1>3 DEF Refresh, EndOfRecords, Return, Unavailable, Misfit, Place, Fit, OpenDue,
                OpenData, AppendRecord, AccountRecord, AppendBoundary, AppendRefused, AppendFails,
                Preview, FlushFinish
  <2>3. pc' # "flushCommit"
    BY <1>3, Destinations
       DEF Refresh, EndOfRecords, Return, Unavailable, StopUnavailable, Misfit, Place, Fit, OpenDue,
           OpenData, AppendRecord, AccountRecord, AppendBoundary, AppendRefused, AppendFails,
           Preview, FlushFinish, InvalidateRecord, Goto
  <2>4. UNCHANGED class \/ L!Invalidate(Ordinal)
    BY <1>3 DEF Refresh, EndOfRecords, Return, Unavailable, StopUnavailable, Misfit, Place, Fit, OpenDue,
                OpenData, AppendRecord, AccountRecord, AppendBoundary, AppendRefused, AppendFails,
                Preview, FlushFinish, InvalidateRecord, ledgerVars, L!AbortPacket, L!BeginPacket,
                L!AddPending
  <2>5. \A o \in L!Ordinals : class'[o] = class[o] \/ (class[o] = "unsent" /\ class'[o] = "invalid")
    BY <2>4, LedgerFacts DEF L!Invalidate, L!Invalidatable
  <2> QED
    BY <2>1, <2>2, <2>3, <2>5, WireKept
<1> QED
  BY <1>1, <1>2, <1>3

\* The write marks exactly the records of the packet.
LEMMA WireWrite ==
  ASSUME WireInv, LP!LedgerInv, PacketInv, NEW n \in -1 .. DatagramLength + 1, NEW err \in BOOLEAN,
         FlushWrite(n, err)
  PROVE  WireInv'
<1>1. /\ pc = "flushWrite" /\ pc' = "flushCommit" /\ UNCHANGED <<class, members>>
      /\ result'.n = n /\ result'.err = err
  BY WriteEffect DEF FlushWrite, Goto, ledgerVars
<1>2. sent' = [o \in L!Ordinals |->
                 IF o \notin members \/ n \notin 0 .. DatagramLength THEN sent[o]
                 ELSE IF n = DatagramLength /\ ~err THEN "yes" ELSE "maybe"]
  BY DEF FlushWrite
<1>3. \A o \in L!Ordinals : sent[o] = Seen(class[o])
  BY <1>1 DEF WireInv
<1>4. \A o \in members : sent[o] = "no"
  BY <1>3, MembersUnsent DEF Seen
<1>5. WrittenAs' = IF n \notin 0 .. DatagramLength THEN "no"
                   ELSE IF n = DatagramLength /\ ~err THEN "yes" ELSE "maybe"
  BY <1>1 DEF WrittenAs
<1>6. sent' \in [L!Ordinals -> {"no", "maybe", "yes"}]
  BY <1>2 DEF WireInv
<1>7. ASSUME NEW o \in L!Ordinals
      PROVE  sent'[o] = IF o \in members THEN WrittenAs' ELSE Seen(class[o])
  BY <1>2, <1>3, <1>4, <1>5
<1>8. \A o : Seen(class[o])' = Seen(class'[o])
  BY DEF Seen
<1>9. L!Ordinals' = L!Ordinals
  BY DEF L!Ordinals
<1> QED
  BY <1>1, <1>6, <1>7, <1>8, <1>9 DEF WireInv

\* State and ledger settle the packet as the wire saw it.
LEMMA WireCommit ==
  ASSUME WireInv, LP!LedgerInv, FlowInv, PacketInv, SP!TypeOK, FlushCommit
  PROVE  WireInv'
<1>0. /\ pc = "flushCommit" /\ pc' # "flushCommit" /\ UNCHANGED sent
  BY Destinations DEF FlushCommit, Goto
<1>1. /\ WriteClass = "full" => L!ResolveFull /\ WrittenAs = "yes"
      /\ WriteClass = "invalid" => L!AbortPacket /\ WrittenAs = "no"
      /\ WriteClass \notin {"full", "invalid"} => L!ResolveAmbiguous /\ WrittenAs = "maybe"
  <2>1. DatagramLength \in Nat
    BY InstanceAssumption DEF S!StateAssumption
  <2> QED
    BY <2>1, WriteClasses DEF FlushCommit, LedgerFollows, WriteClass, WrittenAs
<1>2. \A o \in members : Seen(class'[o]) = WrittenAs
  <2>1. CASE WriteClass = "full"
    BY <1>1, <2>1, SettledPacket DEF Seen
  <2>2. CASE WriteClass = "invalid"
    BY <1>1, <2>2, MembersUnsent DEF Seen, L!AbortPacket
  <2>3. CASE WriteClass \notin {"full", "invalid"}
    <3>1. ~L!ResolveFull
      <4>1. confirmed \in Nat /\ packetValid \in Nat
        BY LedgerFacts
      <4>2. confirmed' = confirmed /\ packetValid > 0
        BY <1>1, <2>3 DEF L!ResolveAmbiguous
      <4>3. L!ResolveFull => confirmed' = confirmed + packetValid
        BY DEF L!ResolveFull
      <4> QED
        BY <4>1, <4>2, <4>3
    <3> QED
      BY <1>1, <2>3, <3>1, SettledPacket DEF Seen
  <2> QED
    BY <2>1, <2>2, <2>3
<1>3. \A o \in L!Ordinals : o \notin members => class'[o] = class[o]
  BY <1>1, SettledPacket DEF L!AbortPacket
<1>4. \A o \in L!Ordinals : sent[o] = Seen(class'[o])
  BY <1>0, <1>2, <1>3 DEF WireInv
<1>5. L!Ordinals' = L!Ordinals /\ \A o : Seen(class[o])' = Seen(class'[o])
  BY DEF L!Ordinals, Seen
<1> QED
  BY <1>0, <1>4, <1>5 DEF WireInv

\* Templates touch no record.
LEMMA WireTemplate ==
  ASSUME WireInv, FlowInv,
         \/ (\E r \in Readings : RefreshWorker(r) \/ BeginTemplate(r))
         \/ EncodeTemplate \/ TemplateUnavailable \/ CommitTemplate
         \/ (\E n \in -1 .. DatagramLength + 1, err \in BOOLEAN : WriteTemplate(n, err))
  PROVE  WireInv'
<1>1. UNCHANGED <<sent, class>> /\ pc # "flushCommit"
  BY DEF RefreshWorker, BeginTemplate, EncodeTemplate, TemplateUnavailable, CommitTemplate, WriteTemplate,
         tallies, ledgerVars
<1>2. pc' # "flushCommit"
  BY Destinations DEF RefreshWorker, BeginTemplate, EncodeTemplate, TemplateUnavailable, CommitTemplate,
                      WriteTemplate, Goto, FlowInv
<1> QED
  BY <1>1, <1>2, WireKept

\* Every step keeps ledger and wire in agreement.
LEMMA WireStep ==
  ASSUME FlowInv, PacketInv, SP!TypeOK, LP!LedgerInv, WireInv, Next
  PROVE  WireInv'
BY WireWalk, WireWrite, WireCommit, WireTemplate DEF Next, Step

-----------------------------------------------------------------------------
(* The sequence.                                                           *)

\* Counting on from a wrapped value wraps to the same number.
LEMMA SequenceAdd ==
  ASSUME NEW a \in Nat, NEW b \in Nat
  PROVE  ((a % SeqModulus) + b) % SeqModulus = (a + b) % SeqModulus
<1>1. SeqModulus \in Nat \ {0}
  BY InstanceAssumption DEF S!StateAssumption
<1>2. SP!StateAssumption /\ SP!NoPacketAssumption
  BY InstanceAssumption
     DEF S!StateAssumption, SP!StateAssumption, S!Normalized, SP!Normalized, S!NoPacketAssumption,
         SP!NoPacketAssumption, S!NoTime, SP!NoTime, S!Packet, SP!Packet, S!Prior, SP!Prior,
         S!Shapes, SP!Shapes, S!Times, SP!Times
<1> QED
  BY <1>1, <1>2, SP!ModAdd DEF SP!StateAssumption, SP!NoPacketAssumption

\* A step that confirms nothing and commits no full write.
LEMMA CountKept ==
  ASSUME CountInv, SequenceKept, UNCHANGED <<earlier, confirmed, caller>>,
         ~epoch.ready => pc' \in TemplateSteps \cup {"abandoned"}
  PROVE  CountInv'
<1>1. SeqModulus \in Nat \ {0}
  BY InstanceAssumption DEF S!StateAssumption
<1>2. 0 % SeqModulus = 0
  BY <1>1
<1>3. Protocol # "v9" => epoch'.sequence = (earlier + confirmed) % SeqModulus
  <2>1. CASE ~epoch.ready
    <3>1. earlier + confirmed = 0
      BY <2>1 DEF CountInv
    <3> QED
      BY <1>2, <3>1 DEF CountInv, SequenceKept
  <2>2. CASE epoch.ready
    BY <2>2 DEF CountInv, SequenceKept
  <2> QED
    BY <2>1, <2>2
<1> QED
  BY <1>3 DEF CountInv, SequenceKept

\* The steps of a request, except the commit, and idle calls.
LEMMA CountWalk ==
  ASSUME CountInv, LP!LedgerInv, FlowInv, SP!TypeOK,
         \/ Pack \/ Refresh \/ (\E r \in Records : Consume(r)) \/ EndOfRecords \/ Return
         \/ Unavailable \/ Misfit \/ Place \/ Fit
         \/ (\E r \in Readings : OpenDue(r) \/ OpenData(r))
         \/ AppendRecord \/ AccountRecord \/ AppendBoundary \/ AppendRefused \/ AppendFails
         \/ (\E wall \in Walls : Preview(wall)) \/ FlushFinish
         \/ (\E n \in -1 .. DatagramLength + 1, err \in BOOLEAN : FlushWrite(n, err))
  PROVE  CountInv'
<1>0. epoch.ready
  BY DEF Pack, Refresh, Consume, EndOfRecords, Return, Unavailable, Misfit, Place, Fit, OpenDue, OpenData,
         AppendRecord, AccountRecord, AppendBoundary, AppendRefused, AppendFails, Preview, FlushFinish,
         FlushWrite, CountInv, TemplateSteps
<1>1. CASE UNCHANGED epoch /\ earlier' + confirmed' = earlier + confirmed
  BY <1>0, <1>1 DEF CountInv
<1>2. CASE SequenceKept /\ UNCHANGED <<earlier, confirmed>>
  BY <1>0, <1>2 DEF CountInv, SequenceKept
<1>3. CASE Pack
  <2>1. earlier' = earlier + confirmed /\ confirmed' = 0 /\ UNCHANGED epoch
    BY <1>3 DEF Pack, FreshLedger, stateVars
  <2>2. earlier \in Nat /\ confirmed \in Nat
    BY LedgerFacts DEF FlowInv
  <2> QED
    BY <1>1, <2>1, <2>2
<1>4. CASE \/ Refresh \/ (\E r \in Records : Consume(r)) \/ EndOfRecords \/ Return
           \/ Misfit \/ Place \/ Fit \/ AccountRecord \/ AppendBoundary
           \/ (\E wall \in Walls : Preview(wall))
           \/ (\E n \in -1 .. DatagramLength + 1, err \in BOOLEAN : FlushWrite(n, err))
  <2>1. UNCHANGED <<epoch, earlier>>
    BY <1>4, WriteEffect
       DEF Refresh, Consume, EndOfRecords, Return, Misfit, Place, Fit, AccountRecord,
           AppendBoundary, Preview, FlushWrite, stateVars, callVars
  <2>2. UNCHANGED confirmed
    BY <1>4 DEF Refresh, Consume, EndOfRecords, Return, Misfit, Place, Fit, AccountRecord,
                AppendBoundary, Preview, FlushWrite, ledgerVars, InvalidateRecord,
                L!AddSource, L!Invalidate, L!AddPending, L!counters
  <2> QED
    BY <1>1, <2>1, <2>2
<1>5. CASE \/ Unavailable \/ AppendRecord \/ AppendRefused \/ AppendFails \/ FlushFinish
           \/ (\E r \in Readings : OpenDue(r) \/ OpenData(r))
  <2>1. UNCHANGED earlier
    BY <1>5 DEF Unavailable, StopUnavailable, AppendRecord, AppendRefused, AppendFails, FlushFinish,
                OpenDue, OpenData, callVars
  <2>2. UNCHANGED confirmed
    BY <1>5 DEF Unavailable, StopUnavailable, AppendRecord, AppendRefused, AppendFails, FlushFinish,
                OpenDue, OpenData, InvalidateRecord, ledgerVars, L!AbortPacket, L!BeginPacket,
                L!Invalidate, L!counters
  <2>3. UNCHANGED epoch \/ SequenceKept
    BY <1>5, AbortEffect, AppendEffect, EncodeEffect, RefreshDueEffect, DataEffect
       DEF Unavailable, StopUnavailable, AppendRecord, AppendRefused, EmptyPacketReleased, AppendFails,
           FlushFinish, OpenDue, OpenData, stateVars
  <2> QED
    BY <1>1, <1>2, <2>1, <2>2, <2>3
<1> QED
  BY <1>3, <1>4, <1>5

\* A full data write advances the sequence and the ledger by the same records.
LEMMA CountCommit ==
  ASSUME CountInv, LP!LedgerInv, FlowInv, PacketInv, SP!TypeOK, FlushCommit
  PROVE  CountInv'
<1>0. epoch.ready /\ pc = "flushCommit" /\ UNCHANGED <<earlier, caller>>
  BY DEF FlushCommit, CountInv, TemplateSteps, callVars
<1>1. CASE WriteClass = "full"
  <2>1. /\ epoch'.sequence = (epoch.sequence + S!SequenceUnits(pending)) % SeqModulus
        /\ epoch'.ready
    BY <1>0, <1>1, CommitEffect DEF FlushCommit
  <2>2. confirmed' = confirmed + packetValid
    BY <1>1 DEF FlushCommit, LedgerFollows, WriteClass, L!ResolveFull
  <2>3. earlier \in Nat /\ confirmed \in Nat /\ packetValid \in Nat
    BY LedgerFacts DEF FlowInv
  <2>4. Protocol # "v9" => S!SequenceUnits(pending) = packetValid
    BY <1>0, <2>3 DEF PacketInv, OpenSteps, S!SequenceUnits
  <2>5. (((earlier + confirmed) % SeqModulus) + packetValid) % SeqModulus
          = ((earlier + confirmed) + packetValid) % SeqModulus
    BY <2>3, SequenceAdd
  <2>6. (earlier + confirmed) + packetValid = earlier' + confirmed'
    BY <1>0, <2>2, <2>3
  <2>7. Protocol # "v9" => epoch'.sequence = (earlier' + confirmed') % SeqModulus
    BY <2>1, <2>4, <2>5, <2>6 DEF CountInv
  <2> QED
    BY <2>1, <2>7 DEF CountInv
<1>2. CASE WriteClass # "full"
  <2>1. SequenceKept
    BY <1>2, CommitEffect DEF FlushCommit
  <2>2. UNCHANGED confirmed
    BY <1>2 DEF FlushCommit, LedgerFollows, WriteClass, L!ResolveAmbiguous, L!AbortPacket, L!counters
  <2> QED
    BY <1>0, <2>1, <2>2 DEF CountInv, SequenceKept
<1> QED
  BY <1>1, <1>2

\* A template counts no record; a bootstrap ends with an epoch that is ready.
LEMMA CountTemplate ==
  ASSUME CountInv, LP!LedgerInv, FlowInv, PacketInv, SP!TypeOK,
         \/ (\E r \in Readings : RefreshWorker(r) \/ BeginTemplate(r))
         \/ EncodeTemplate \/ TemplateUnavailable \/ CommitTemplate
         \/ (\E n \in -1 .. DatagramLength + 1, err \in BOOLEAN : WriteTemplate(n, err))
  PROVE  CountInv'
<1>0. UNCHANGED <<earlier, confirmed, caller>>
  BY DEF RefreshWorker, BeginTemplate, EncodeTemplate, TemplateUnavailable, CommitTemplate, WriteTemplate,
         callVars, ledgerVars
<1>1. ~epoch.ready => caller = "bootstrap"
  BY DEF CountInv
<1>2. caller = "bootstrap" => TemplateFailed = "abandoned"
  BY Destinations
<1>3. CASE \/ (\E r \in Readings : RefreshWorker(r) \/ BeginTemplate(r))
           \/ EncodeTemplate \/ TemplateUnavailable
           \/ (\E n \in -1 .. DatagramLength + 1, err \in BOOLEAN : WriteTemplate(n, err))
  <2>1. UNCHANGED epoch => SequenceKept
    BY DEF SequenceKept
  <2>2. SequenceKept
    BY <1>3, <2>1, AbortEffect, EncodeEffect, TemplateEffect, RefreshDueEffect, WriteEffect
       DEF RefreshWorker, BeginTemplate, EncodeTemplate, TemplateUnavailable, WriteTemplate, stateVars
  <2>3. ~epoch.ready => pc' \in TemplateSteps \cup {TemplateFailed}
    BY <1>1, <1>3 DEF RefreshWorker, BeginTemplate, EncodeTemplate, TemplateUnavailable, WriteTemplate,
                      Goto, TemplateSteps, FlowInv
  <2> QED
    BY <1>0, <1>1, <1>2, <2>2, <2>3, CountKept
<1>4. CASE CommitTemplate /\ WriteClass # "full"
  <2>1. SequenceKept /\ pc' = TemplateFailed
    BY <1>4, CommitEffect DEF CommitTemplate, WriteClass, Goto
  <2> QED
    BY <1>0, <1>1, <1>2, <2>1, CountKept
<1>5. CASE CommitTemplate /\ WriteClass = "full"
  <2>1. /\ epoch'.sequence = (epoch.sequence + S!SequenceUnits(pending)) % SeqModulus
        /\ epoch.ready => epoch'.ready
    BY <1>5, CommitEffect DEF CommitTemplate
  <2>2. Protocol # "v9" => S!SequenceUnits(pending) = 0
    BY <1>5 DEF CommitTemplate, PacketInv, ReservedSteps, S!SequenceUnits
  <2>3. earlier \in Nat /\ confirmed \in Nat
    BY LedgerFacts DEF FlowInv
  <2>4. (((earlier + confirmed) % SeqModulus) + 0) % SeqModulus = ((earlier + confirmed) + 0) % SeqModulus
    BY <2>3, SequenceAdd
  <2>5. (earlier + confirmed) + 0 = earlier' + confirmed'
    BY <1>0, <2>3
  <2>6. Protocol # "v9" => epoch'.sequence = (earlier' + confirmed') % SeqModulus
    BY <2>1, <2>2, <2>4, <2>5 DEF CountInv
  <2>7. ~epoch'.ready => pc' = "drain"
    <3>1. ASSUME ~epoch'.ready PROVE caller = "bootstrap"
      BY <1>1, <2>1, <3>1
    <3> QED
      BY <1>5, <3>1 DEF CommitTemplate, WriteClass, Goto
  <2> QED
    BY <1>0, <2>1, <2>6, <2>7 DEF CountInv, TemplateSteps
<1> QED
  BY <1>3, <1>4, <1>5

\* Every step keeps the sequence the number of confirmed records.
LEMMA CountStep ==
  ASSUME FlowInv, PacketInv, SP!TypeOK, LP!LedgerInv, CountInv, Next
  PROVE  CountInv'
BY CountWalk, CountCommit, CountTemplate DEF Next, Step

-----------------------------------------------------------------------------
(* The report.                                                             *)

\* While a request runs there is no report, and no other step touches the one that stands.
LEMMA OutcomeKept ==
  ASSUME OutcomeInv, FlowInv, Next, ~Return, ~Pack
  PROVE  OutcomeInv'
<1>1. UNCHANGED outcome
  BY DEF Next, Step, Refresh, Consume, EndOfRecords, Unavailable, StopUnavailable, Misfit, Place, Fit,
         OpenDue, OpenData, AppendRecord, AccountRecord, AppendBoundary, AppendRefused, AppendFails,
         Preview, FlushFinish, FlushWrite, FlushCommit, RefreshWorker, BeginTemplate, EncodeTemplate,
         TemplateUnavailable, CommitTemplate, WriteTemplate, callVars
<1>2. CASE outcome = "none"
  BY <1>1, <1>2 DEF OutcomeInv
<1>3. CASE outcome # "none"
  <2>1. pc \notin WalkSteps
    BY <1>3 DEF OutcomeInv, WalkSteps, TemplateSteps
  <2>2. \/ Refresh \/ (\E r \in Readings : RefreshWorker(r) \/ BeginTemplate(r))
        \/ EncodeTemplate \/ TemplateUnavailable \/ CommitTemplate
        \/ (\E n \in -1 .. DatagramLength + 1, err \in BOOLEAN : WriteTemplate(n, err))
    BY <2>1 DEF Next, Step, WalkSteps, Consume, EndOfRecords, Return, Unavailable, Misfit, Place, Fit,
                OpenDue, OpenData, AppendRecord, AccountRecord, AppendBoundary, AppendRefused,
                AppendFails, Preview, FlushFinish, FlushWrite, FlushCommit
  <2>3. UNCHANGED <<class, covered>>
    BY <2>2 DEF Refresh, RefreshWorker, BeginTemplate, EncodeTemplate, TemplateUnavailable, CommitTemplate,
                WriteTemplate, ledgerVars
  <2>4. \/ pc' = "refresh"
        \/ UNCHANGED caller /\ pc' \in TemplateSteps \cup {"idle", TemplateFailed, TemplatesDone}
    BY <2>2 DEF Refresh, RefreshWorker, BeginTemplate, EncodeTemplate, TemplateUnavailable, CommitTemplate,
                WriteTemplate, Goto, callVars, TemplateSteps
  <2>5. pc' # "refresh" => caller # "openData"
    BY <1>3, <2>2 DEF Refresh, RefreshWorker, BeginTemplate, EncodeTemplate, TemplateUnavailable,
                      CommitTemplate, WriteTemplate, Goto, OutcomeInv, FlowInv, TemplateSteps
  <2>6. caller # "openData" => TemplateFailed \in {"idle", "abandoned"} /\ TemplatesDone = "idle"
    BY Destinations DEF FlowInv
  <2> QED
    BY <1>1, <1>3, <2>3, <2>4, <2>5, <2>6 DEF OutcomeInv
<1> QED
  BY <1>2, <1>3

\* A request that ends without having stopped has settled every record.
LEMMA OutcomeReturn ==
  ASSUME FlowInv, FlagInv, PacketInv, LP!LedgerInv, RequestInv, OutcomeInv, Return
  PROVE  OutcomeInv'
<1>0. /\ pc = "result" /\ pc' = "idle" /\ UNCHANGED <<class, covered>> /\ outcome' = PackOutcome
  BY DEF Return, Goto, ledgerVars
<1>1. InRequest /\ ~InHand /\ members = {}
  BY <1>0, ClosedIsEmpty DEF InRequest, InHand, FlowInv, WalkSteps, PacketInv, OpenSteps, ReservedSteps, Empty
<1>2. \A o \in 0 .. covered - 1 : o \in L!Ordinals /\ class[o] \in L!Classes
  BY LedgerFacts DEF L!Ordinals
<1>3. ~stopped => \A o \in 0 .. covered - 1 : class[o] \in {"confirmed", "invalid"}
  BY <1>1, <1>2, LedgerFacts DEF RequestInv, L!Classes
<1>4. outcome' \in {"succeeded", "permanent"} => ~stopped
  BY <1>0 DEF PackOutcome, FlagInv
<1>5. outcome' = "permanent" => valid = 0 \/ confirmed = 0
  BY <1>0 DEF PackOutcome
<1>6. /\ confirmed = 0 => \A o \in 0 .. covered - 1 : class[o] # "confirmed"
      /\ valid = 0 => \A o \in 0 .. covered - 1 : class[o] = "invalid"
  BY LP!CountsDecide, LedgerLimits DEF LP!LedgerAssumption
<1> QED
  BY <1>0, <1>3, <1>4, <1>5, <1>6 DEF OutcomeInv

\* Every step keeps the reported outcome in agreement with the ledger.
LEMMA OutcomeStep ==
  ASSUME FlowInv, FlagInv, PacketInv, LP!LedgerInv, RequestInv, OutcomeInv, Next
  PROVE  OutcomeInv'
<1>1. CASE Pack
  <2>1. outcome' = "none"
    BY <1>1 DEF Pack
  <2> QED
    BY <2>1 DEF OutcomeInv
<1> QED
  BY <1>1, OutcomeKept, OutcomeReturn

-----------------------------------------------------------------------------
(* Theorems.                                                               *)

\* The invariant holds when a State is created and its bootstrap is about to begin.
LEMMA PackerInit == Init => PackerInv
<1> SUFFICES ASSUME Init PROVE PackerInv
  OBVIOUS
<1>1. FlowInv /\ FlagInv
  BY DEF Init, FlowInv, FlagInv, WalkSteps, TemplateSteps, NoRecord
<1>2. PacketInv
  BY EmptyPacket DEF Init, S!Init, L!Init, Empty, OpenSteps, ReservedSteps
<1>3. LP!LedgerInv
  <2>1. LP!Init
    BY DEF Init, L!Init, LP!Init, L!Ordinals, LP!Ordinals
  <2> QED
    BY <2>1, LP!LedgerInit, LedgerLimits DEF LP!LedgerAssumption
<1>4. RequestInv /\ OutcomeInv
  BY DEF Init, RequestInv, OutcomeInv, InRequest, WalkSteps, TemplateSteps
<1>5. WireInv
  BY DEF Init, L!Init, WireInv, Seen
<1>6. CountInv
  <2>1. SeqModulus \in Nat \ {0}
    BY InstanceAssumption DEF S!StateAssumption
  <2>2. (0 + 0) % SeqModulus = 0
    BY <2>1
  <2> QED
    BY <2>2 DEF Init, S!Init, L!Init, S!NewEpoch, CountInv, TemplateSteps
<1> QED
  BY <1>1, <1>2, <1>3, <1>4, <1>5, <1>6 DEF PackerInv, ControlInv

\* A stuttering step changes nothing the invariant speaks of.
LEMMA PackerStutter ==
  ASSUME PackerInv, UNCHANGED vars
  PROVE  PackerInv'
<1> USE DEF vars, stateVars, ledgerVars, flags, packetVars, callVars, tallies
<1>1. ControlInv'
  BY DEF PackerInv, ControlInv, FlowInv, FlagInv
<1>2. PacketInv'
  BY DEF PackerInv, PacketInv, Shape
<1>3. LP!LedgerInv'
  <2>1. UNCHANGED LP!vars
    BY DEF LP!vars, LP!counters, LP!packet
  <2> QED
    BY <2>1, LP!StutterStep, LedgerLimits DEF PackerInv, LP!LedgerAssumption
<1>4. RequestInv' /\ OutcomeInv'
  BY DEF PackerInv, RequestInv, OutcomeInv, InRequest, InHand, Ordinal
<1>5. WireInv' /\ CountInv'
  BY DEF PackerInv, WireInv, WrittenAs, Seen, CountInv, L!Ordinals
<1> QED
  BY <1>1, <1>2, <1>3, <1>4, <1>5 DEF PackerInv

\* The strengthened invariant holds in every state of every call.
THEOREM PackerInvariant == Spec => []PackerInv
<1>1. PackerInv /\ SP!TypeOK /\ [Next]_vars => PackerInv'
  <2> SUFFICES ASSUME PackerInv, SP!TypeOK, [Next]_vars PROVE PackerInv'
    OBVIOUS
  <2>1. CASE UNCHANGED vars
    BY <2>1, PackerStutter
  <2>2. CASE Next
    <3>1. FlowInv' /\ FlagInv'
      BY <2>2, FlowStep, FlagStep DEF PackerInv, ControlInv
    <3>2. PacketInv' /\ RequestInv'
      BY <2>2, PacketStep, RequestStep DEF PackerInv, ControlInv
    <3>3. LP!LedgerInv' /\ WireInv'
      BY <2>2, LedgerStep, WireStep DEF PackerInv, ControlInv
    <3>4. CountInv' /\ OutcomeInv'
      BY <2>2, CountStep, OutcomeStep DEF PackerInv, ControlInv
    <3> QED
      BY <3>1, <3>2, <3>3, <3>4 DEF PackerInv, ControlInv
  <2> QED
    BY <2>1, <2>2
<1> QED
  BY <1>1, PackerInit, StateFacts, PTL DEF Spec

\* Whatever path Pack, refresh or the bootstrap took, no reservation, bound
\* appender or open ledger packet is left when the call ends or previews a
\* record (packer.go: stopUnavailable, abortDataInternal, flushData).
THEOREM NothingIsStranded == Spec => []NothingStranded
<1>1. PackerInv /\ SP!AppenderReleased => NothingStranded
  <2> SUFFICES ASSUME PackerInv, SP!AppenderReleased, pc \in {"preview", "result", "idle", "abandoned"}
               PROVE  pending = NoPacket /\ ~stream /\ ~ledgerPacketOpen
    BY DEF NothingStranded
  <2>1. Empty
    BY ClosedIsEmpty DEF PackerInv, PacketInv, OpenSteps, ReservedSteps
  <2> QED
    BY <2>1 DEF Empty, SP!AppenderReleased
<1> QED
  BY <1>1, PackerInvariant, StateFacts, PTL

\* Packer and State agree on the open packet and its shape, and the datagram
\* holds as many records as the ledger packet (packer.go: append, flushData).
THEOREM PacketsAreCoupled == Spec => []PacketsCoupled
<1>1. PackerInv => PacketsCoupled
  <2> SUFFICES ASSUME PackerInv PROVE PacketsCoupled
    OBVIOUS
  <2>1. PacketInv /\ packetValid \in Nat
    BY LedgerFacts DEF PackerInv
  <2>2. ledgerOpen \in BOOLEAN /\ ledgerPacketOpen \in BOOLEAN
    BY DEF PackerInv, ControlInv, FlagInv, LP!LedgerInv, LP!TypeOK
  <2>3. ledgerOpen = ledgerPacketOpen
    BY <2>1, <2>2 DEF PacketInv
  <2> QED
    BY <2>1, <2>3 DEF PacketInv, PacketsCoupled
<1> QED
  BY <1>1, PackerInvariant, PTL

\* Between the floor or the packet's end and the record in hand all is invalid.
LEMMA GapIsInvalid ==
  ASSUME PackerInv, InHand, ~stopped
  PROVE  L!InvalidGap(IF packetValid = 0 THEN packetFloor ELSE packetEnd, Ordinal)
<1>0. /\ LP!LedgerInv /\ PacketInv /\ RequestInv /\ InRequest
      /\ Ordinal = covered - 1 /\ covered \in Nat /\ packetEnd \in Nat /\ packetFloor \in Nat
  <2>1. packetFloor \in Nat
    BY LedgerFacts DEF PackerInv, LP!LedgerInv, LP!TypeOK
  <2> QED
    BY <2>1, LedgerFacts DEF PackerInv, Ordinal, InHand
<1>1. ~ledgerStopped
  BY <1>0 DEF RequestInv
<1>2. SUFFICES ASSUME NEW o \in L!Ordinals, o < Ordinal,
                      (IF packetValid = 0 THEN packetFloor ELSE packetEnd) <= o
               PROVE  class[o] = "invalid"
  BY DEF L!InvalidGap
<1>3. o \in Int /\ o \in 0 .. covered - 1 /\ o # Ordinal
  BY <1>0, <1>2 DEF L!Ordinals
<1>4. packetFloor <= o /\ o \notin members
  <2>1. CASE ledgerPacketOpen /\ packetValid # 0
    <3>1. packetFloor <= packetStart /\ packetStart < packetEnd /\ packetStart \in Nat
      BY <1>0, <2>1, LedgerFacts DEF LP!LedgerInv, LP!TypeOK
    <3>2. \A m \in members : m < packetEnd
      BY <1>0, <2>1, LedgerFacts
    <3> QED
      BY <1>0, <1>2, <1>3, <2>1, <3>1, <3>2
  <2>2. CASE packetValid = 0
    <3>1. members = {}
      <4>1. CASE ledgerPacketOpen
        <5>1. packetStart = 0 /\ packetEnd = 0
          BY <1>0, <2>2, <4>1 DEF LP!LedgerInv, LP!PacketAboveFloor
        <5> QED
          BY <1>0, <4>1, <5>1, LedgerFacts DEF L!Ordinals
      <4>2. CASE ~ledgerPacketOpen
        BY <1>0, <4>2 DEF PacketInv
      <4> QED
        BY <4>1, <4>2
    <3> QED
      BY <1>2, <2>2, <3>1
  <2> QED
    BY <1>0, <2>1, <2>2 DEF PacketInv
<1>5. class[o] # "unsent"
  BY <1>0, <1>2, <1>3, <1>4 DEF RequestInv
<1>6. class[o] # "confirmed" /\ class[o] # "ambiguous"
  <2>1. class[o] = "confirmed" => o < packetFloor
    BY <1>0, LedgerFacts
  <2>2. class[o] # "ambiguous"
    BY <1>0, <1>1, LedgerFacts
  <2> QED
    BY <1>0, <1>3, <1>4, <2>1, <2>2
<1> QED
  BY <1>0, <1>5, <1>6, LedgerFacts DEF L!Classes

\* The ledger never refuses a call of the Packer, so the internal errors after
\* beginPacket, addPending and invalidate cannot occur (packer.go: append,
\* invalidate).
THEOREM LedgerAlwaysAccepts == Spec => []LedgerAccepts
<1>1. ASSUME PackerInv, SP!TypeOK PROVE LedgerAccepts
  <2>0. /\ LP!LedgerInv /\ PacketInv /\ RequestInv /\ FlowInv
        /\ Ordinal = covered - 1 /\ covered \in Nat /\ packetEnd \in Nat
    BY <1>1, LedgerFacts DEF PackerInv, ControlInv, Ordinal
  <2>1. ASSUME pc \in {"place", "fit", "append", "account", "preview"}
        PROVE  /\ InHand /\ InRequest
               /\ Ordinal < covered /\ class[Ordinal] = "unsent" /\ packetEnd <= Ordinal
    <3>1. InHand /\ InRequest
      BY <2>0, <2>1 DEF InHand, InRequest, WalkSteps, FlowInv
    <3> QED
      BY <2>0, <3>1 DEF RequestInv
  <2>2. pc \in {"place", "fit", "append", "preview"} => L!Invalidatable(Ordinal)
    BY <2>0, <2>1 DEF L!Invalidatable
  <2>3. pc \in {"append", "account"} => ~stopped /\ ~ledgerStopped
    BY <2>0, <2>1 DEF RequestInv
  <2>4. ASSUME pc = "account" PROVE L!Addable(Ordinal)
    <3>1. L!Sendable(Ordinal) /\ ~ledgerStopped /\ ledgerPacketOpen
      BY <2>0, <2>1, <2>3, <2>4 DEF L!Sendable, PacketInv
    <3>2. packetValid < MaxPendingValid
      <4>1. packetValid + 1 = pending.records /\ packetValid \in Nat /\ pending # NoPacket
        BY <2>0, <2>4, LedgerFacts DEF PacketInv, OpenSteps
      <4>2. pending.records \in 0 .. MaxRecords
        BY <1>1, <4>1, PendingType DEF SP!Packet
      <4>3. MaxRecords \in Nat /\ MaxPendingValid \in Nat /\ MaxRecords <= MaxPendingValid
        BY PackerAssumption, InstanceAssumption
           DEF PackerAssumption, S!StateAssumption, L!LedgerAssumption
      <4> QED
        BY <4>1, <4>2, <4>3
    <3>3. L!InvalidGap(IF packetValid = 0 THEN packetFloor ELSE packetEnd, Ordinal)
      BY <1>1, <2>1, <2>3, <2>4, GapIsInvalid
    <3>4. IF packetValid = 0 THEN L!InvalidGap(packetFloor, Ordinal)
          ELSE Ordinal >= packetEnd /\ L!InvalidGap(packetEnd, Ordinal)
      BY <2>0, <2>1, <2>4, <3>3
    <3> QED
      BY <3>1, <3>2, <3>4 DEF L!Addable
  <2> QED
    BY <2>2, <2>3, <2>4 DEF LedgerAccepts
<1>2. PackerInv /\ SP!TypeOK => LedgerAccepts
  BY <1>1
<1> QED
  BY <1>2, PackerInvariant, StateFacts, PTL

\* For v5 and IPFIX the header sequence counts exactly the records that the
\* ledgers of all requests confirmed: State.Commit and resolvePacket agree on
\* every write result (packer.go: flushData, state.go: commitSequenceLocked).
THEOREM SequenceFollowsLedger == Spec => []SequenceMatchesLedger
<1>1. PackerInv => SequenceMatchesLedger
  BY DEF PackerInv, CountInv, SequenceMatchesLedger
<1> QED
  BY <1>1, PackerInvariant, PTL

\* A finished request reports each record as the wire saw it (packer.go: Pack,
\* ledger.go: resolvePacket).
THEOREM ReportIsTrue == Spec => []ReportMatchesWire
<1>1. PackerInv => ReportMatchesWire
  <2> SUFFICES ASSUME PackerInv, pc = "result", NEW o \in 0 .. covered - 1
               PROVE  /\ class[o] = "confirmed" <=> sent[o] = "yes"
                      /\ class[o] = "ambiguous" <=> sent[o] = "maybe"
    BY DEF ReportMatchesWire
  <2>1. o \in L!Ordinals
    BY LedgerFacts DEF PackerInv, L!Ordinals
  <2>2. sent[o] = Seen(class[o])
    BY <2>1 DEF PackerInv, WireInv
  <2> QED
    BY <2>2 DEF Seen
<1> QED
  BY <1>1, PackerInvariant, PTL

\* A successful Pack left no valid record unsent, a transient one returns for
\* retry every valid record that was not fully handed off and no other, and a
\* permanent one had no valid record (packer.go: Pack, logs_exporter.go: the
\* returned subset).
THEOREM NothingIsLostOrRepeated == Spec => []NoRecordLostOrRepeated
<1>1. PackerInv => NoRecordLostOrRepeated
  <2> SUFFICES ASSUME PackerInv, pc = "idle" PROVE NoRecordLostOrRepeated
    BY DEF NoRecordLostOrRepeated
  <2>1. \A o \in 0 .. covered - 1 : o \in L!Ordinals /\ class[o] \in L!Classes
    BY LedgerFacts DEF PackerInv, L!Ordinals
  <2>2. \A o \in 0 .. covered - 1 : sent[o] = Seen(class[o])
    BY <2>1 DEF PackerInv, WireInv
  <2>3. \A o \in 0 .. covered - 1 : sent[o] = "yes" <=> class[o] = "confirmed"
    BY <2>2 DEF Seen
  <2>4. outcome = "succeeded" => \A o \in 0 .. covered - 1 : class[o] # "invalid" => sent[o] = "yes"
    BY <2>3 DEF PackerInv, OutcomeInv
  <2>5. outcome = "permanent" => \A o \in 0 .. covered - 1 : class[o] = "invalid"
    BY DEF PackerInv, OutcomeInv
  <2>6. outcome = "transient" =>
          ReturnedSubset = {o \in 0 .. covered - 1 : class[o] # "invalid" /\ sent[o] # "yes"}
    BY <2>1, <2>3 DEF ReturnedSubset, L!Classes
  <2> QED
    BY <2>4, <2>5, <2>6 DEF NoRecordLostOrRepeated
<1> QED
  BY <1>1, PackerInvariant, PTL

\* Each request, from Pack to its return, is a behaviour of the export contract
\* (packer.go with ledger.go): a Pack starts one with nothing covered, and every other
\* step of Packer, refresh or bootstrap is one the contract allows or does not see.
THEOREM RequestsKeepContract == Spec => [][(Pack /\ LP!ContractInit') \/ LP!ContractStep]_vars
<1>1. PackerInv /\ [Next]_vars => [(Pack /\ LP!ContractInit') \/ LP!ContractStep]_vars
  BY RequestStepKeeps DEF PackerInv, ControlInv
<1> QED
  BY <1>1, PackerInvariant, PTL DEF Spec
=============================================================================
