--------------------------- MODULE DestinationState ---------------------------
(***************************************************************************)
(* The destination-local protocol state machine: State, Packet and         *)
(* epochState of internal/destination (state.go, write.go, epoch.go).      *)
(*                                                                         *)
(* One packet transaction at a time goes Begin, Appends, Encode or Finish, *)
(* write, Commit, and may be aborted before the write.  Every              *)
(* method holds State.mu, so each is one action; the transport write is    *)
(* outside the lock and is a step of its own, between which Restart,       *)
(* AbortBootstrap and RefreshDue of other goroutines may run.              *)
(*                                                                         *)
(* Record contents, byte layout and sizes are abstracted: a packet that    *)
(* does not fit is an operation that may fail.  Clock readings are         *)
(* arbitrary members of Walls and Monos, so the wall clock and the         *)
(* monotonic reading may step backwards.                                   *)
(***************************************************************************)
EXTENDS Integers

CONSTANTS
  Protocol,         \* "v5", "v9" or "ipfix"
  ShapeCount,       \* Catalog.ShapeCount()
  InitialCopies,    \* Config.InitialCopies
  RefreshInterval,  \* Config.RefreshInterval, in monotonic units
  RefreshCount,     \* V9RefreshPacketCount / IPFIXDataMessageRefreshCount
  UptimeOrigin,     \* Config.UptimeOriginUnixNanos, NoTime when not configured
  NanosPerMilli,    \* wall units per uptime unit
  MaxUptime,        \* largest uptime the uint32 header field holds
  MaxExportWall,    \* largest wall reading whose seconds fit uint32
  SeqModulus,       \* 2^32: Config-independent width of epoch.sequence
  MaxRecords,       \* Config.MaxRecordsPerMessage
  DatagramLength,   \* length of every datagram; > 1 so a short write exists
  Walls,            \* wall-clock readings offered to Begin
  Monos,            \* monotonic readings offered to Begin and RefreshDue
  MaxTokens,        \* bound: packets begun in a behaviour
  MaxEpochs,        \* bound: epochs in a behaviour
  NoPacket          \* pending == nil

NoTime == -1        \* a have... flag of the code that is false

Shapes == 0 .. ShapeCount - 1

\* What the defaulting and validation of a Config leave possible.
Normalized ==
  /\ Protocol \in {"v5", "v9", "ipfix"}
  /\ ShapeCount \in Nat \ {0} /\ InitialCopies \in Nat \ {0}
  /\ RefreshInterval \in Nat \ {0} /\ RefreshCount \in Nat
  /\ Protocol = "v9" => RefreshCount > 0
  /\ UptimeOrigin \in Nat \cup {NoTime}
  /\ Protocol = "v5" => UptimeOrigin # NoTime
  /\ Protocol = "ipfix" => UptimeOrigin = NoTime

ASSUME StateAssumption ==
  /\ Normalized
  /\ NanosPerMilli \in Nat \ {0} /\ MaxUptime \in Nat /\ MaxExportWall \in Nat
  /\ SeqModulus \in Nat \ {0} /\ MaxRecords \in Nat \ {0}
  /\ DatagramLength \in Nat \ {0, 1}
  /\ Walls \subseteq Nat /\ Monos \subseteq Nat
  /\ MaxTokens \in Nat /\ MaxEpochs \in Nat \ {0}

VARIABLES
  epoch,              \* State.epoch
  nextTemplateIndex, templateRound, refreshActive, refreshDue,
  lastRefreshMono,    \* NoTime when !haveRefreshMono
  packetCount, dataMessageCount,
  lastReservedWall,   \* NoTime when !haveReservedWall
  nextToken, pending,
  stream,             \* TRUE while the shared appender holds a caller buffer
  result,             \* the last (n, err) a transport write returned, and for which packet
  \* History of what may have reached the wire; no action's guard reads it.
  wireInstant,        \* header instant of the last possible handoff of this epoch
  wireUnits,          \* sequence units in fully written datagrams of this bootstrap or epoch
  copies,             \* per shape, full template writes of this epoch (up to InitialCopies)
  fresh,              \* shapes fully written since the refresh became due
  dataSince           \* full data writes since templates were last complete

refresh == <<nextTemplateIndex, templateRound, refreshActive, refreshDue, lastRefreshMono>>
counts  == <<packetCount, dataMessageCount>>
history == <<wireInstant, wireUnits, copies, fresh, dataSince>>
vars    == <<epoch, refresh, counts, lastReservedWall, nextToken, pending, stream, result, history>>

-----------------------------------------------------------------------------
(* Types.                                                                  *)

Times == Nat \cup {NoTime}

Epoch == [id : Nat, sequence : 0 .. SeqModulus - 1, ready : BOOLEAN,
          startOrigin : Times, uptimeExhausted : BOOLEAN]

\* What Begin captured before its reservation: the prior... fields of Packet.
Prior == [refreshActive : BOOLEAN, refreshDue : BOOLEAN, nextTemplateIndex : Shapes,
          templateRound : 0 .. InitialCopies, reservedWall : Times, startOrigin : Times]

Packet == [token : Nat, epochID : Nat, template : BOOLEAN, streamed : BOOLEAN,
           shape : Shapes, records : 0 .. MaxRecords, mono : Nat, instant : Nat,
           encoded : BOOLEAN, prior : Prior]

Result == [token : Nat, epochID : Nat, n : Int, err : BOOLEAN]

NoResult == [token |-> 0, epochID |-> 0, n |-> 0, err |-> FALSE]

ASSUME NoPacketAssumption == NoPacket \notin Packet

-----------------------------------------------------------------------------
(* Write results.                                                          *)

\* Mutant of ClassifyWrite: all bytes accepted counts as full whatever the error.
ClassifyWriteIgnoringError(n, length, err) ==
  IF n < 0 \/ n > length THEN "invalid"
  ELSE IF n = length THEN "full" ELSE "shortError"

\* ClassifyWrite: the partition of (n, length, err).
ClassifyWrite(n, length, err) ==
  CASE n < 0 \/ n > length      -> "invalid"
    [] n = length /\ ~err       -> "full"
    [] n = length /\ err        -> "fullError"
    [] n = 0 /\ ~err            -> "zeroNil"
    [] n = 0 /\ err             -> "zeroError"
    [] n \in 1 .. length - 1 /\ ~err -> "shortNil"
    [] n \in 1 .. length - 1 /\ err  -> "shortError"

\* The protocol's sequence unit: packets for v9, data records otherwise.
SequenceUnits(p) == IF Protocol = "v9" THEN 1 ELSE p.records

-----------------------------------------------------------------------------
(* Time reservation.                                                       *)

Origin == IF UptimeOrigin # NoTime THEN UptimeOrigin ELSE epoch.startOrigin

\* A reading older than the last reservation is raised to it.
Clamp(wall) == IF wall < lastReservedWall THEN lastReservedWall ELSE wall

Uptime(t) == (t - Origin) \div NanosPerMilli

\* Mutant of Reservable: the uptime limit is off by one.
ReservableOneMore(t) ==
  /\ t <= MaxExportWall
  /\ \/ Protocol = "ipfix"
     \/ Origin = NoTime /\ Protocol = "v9" /\ ~epoch.ready
     \/ /\ Origin # NoTime /\ t >= Origin
        /\ Uptime(t) <= MaxUptime + 1
        /\ (t - Origin) % NanosPerMilli = 0

\* reserveWallLocked succeeds.  MaxInt64 nanoseconds is beyond the last
\* uint32 second, so one bound stands for both of its range checks.
Reservable(t) ==
  /\ t <= MaxExportWall
  /\ \/ Protocol = "ipfix"
     \/ Origin = NoTime /\ Protocol = "v9" /\ ~epoch.ready
     \/ /\ Origin # NoTime /\ t >= Origin
        /\ Uptime(t) <= MaxUptime
        /\ (t - Origin) % NanosPerMilli = 0

\* reserveWallLocked latches uptimeExhausted and reserves nothing.
Exhausts(t) ==
  /\ t <= MaxExportWall /\ Protocol # "ipfix"
  /\ Origin # NoTime /\ t >= Origin /\ Uptime(t) > MaxUptime

-----------------------------------------------------------------------------
(* Refresh scheduling.                                                     *)

\* Mutant of MarkedDue: the counters trigger one packet late.
MarkedDueLate(ready, active, due, last, packets, messages, mono) ==
  \/ due
  \/ /\ Protocol # "v5" /\ ready /\ ~active
     /\ \/ last # NoTime /\ mono >= last /\ mono - last >= RefreshInterval
        \/ Protocol = "v9" /\ packets > RefreshCount
        \/ Protocol = "ipfix" /\ RefreshCount # 0 /\ messages > RefreshCount

\* markRefreshDueLocked on the given state: an elapsed interval, or a full
\* counter.
MarkedDue(ready, active, due, last, packets, messages, mono) ==
  \/ due
  \/ /\ Protocol # "v5" /\ ready /\ ~active
     /\ \/ last # NoTime /\ mono >= last /\ mono - last >= RefreshInterval
        \/ Protocol = "v9" /\ packets >= RefreshCount
        \/ Protocol = "ipfix" /\ RefreshCount # 0 /\ messages >= RefreshCount

DueAt(mono) ==
  MarkedDue(epoch.ready, refreshActive, refreshDue, lastRefreshMono,
            packetCount, dataMessageCount, mono)

\* The mark every Begin and RefreshDue leaves behind, accepted or not.
MarkDue(mono) ==
  /\ refreshDue' = DueAt(mono)
  /\ fresh' = IF DueAt(mono) /\ ~refreshDue THEN {} ELSE fresh

RefreshDue(mono) ==
  /\ MarkDue(mono)
  /\ UNCHANGED <<epoch, nextTemplateIndex, templateRound, refreshActive, lastRefreshMono,
                 counts, lastReservedWall, nextToken, pending, stream, result,
                 wireInstant, wireUnits, copies, dataSince>>

-----------------------------------------------------------------------------
(* Reservations.                                                           *)

\* The snapshot is taken after the due mark and before the reservation.
PriorAt(mono) ==
  [refreshActive |-> refreshActive, refreshDue |-> DueAt(mono),
   nextTemplateIndex |-> nextTemplateIndex, templateRound |-> templateRound,
   reservedWall |-> lastReservedWall, startOrigin |-> epoch.startOrigin]

NewPacket(template, streamed, shape, records, mono, t) ==
  [token |-> nextToken + 1, epochID |-> epoch.id, template |-> template,
   streamed |-> streamed, shape |-> shape, records |-> records, mono |-> mono,
   instant |-> t, encoded |-> FALSE, prior |-> PriorAt(mono)]

CanBegin == pending = NoPacket /\ ~epoch.uptimeExhausted /\ nextToken < MaxTokens

\* A Begin turned away by reserveWallLocked keeps only the due mark and the latch.
ReservationFails(t) ==
  /\ ~Reservable(t)
  /\ epoch' = [epoch EXCEPT !.uptimeExhausted = Exhausts(t)]
  /\ UNCHANGED <<nextTemplateIndex, templateRound, refreshActive, lastReservedWall,
                 nextToken, pending>>

\* beginPacket with one template record, for the next shape of the round (any
\* other shape, or a refresh that is not due, is refused and leaves at most the
\* mark of RefreshDue).  A v9 candidate without a configured
\* origin captures the instant as its origin; the first template of a due
\* refresh activates the round.
BeginTemplate(wall, mono) ==
  LET t == Clamp(wall)
      startsRound == epoch.ready /\ ~refreshActive
  IN
  /\ CanBegin /\ Protocol # "v5"
  /\ ~epoch.ready \/ DueAt(mono) \/ refreshActive
  /\ MarkDue(mono)
  /\ \/ /\ Reservable(t)
        /\ lastReservedWall' = t
        /\ epoch' = [epoch EXCEPT !.startOrigin =
                       IF Protocol = "v9" /\ Origin = NoTime THEN t ELSE @]
        /\ refreshActive' = (refreshActive \/ startsRound)
        /\ nextTemplateIndex' = IF startsRound THEN 0 ELSE nextTemplateIndex
        /\ templateRound' = IF startsRound THEN 0 ELSE templateRound
        /\ nextToken' = nextToken + 1
        /\ pending' = NewPacket(TRUE, FALSE, nextTemplateIndex, 0, mono, t)
     \/ ReservationFails(t)
  /\ UNCHANGED <<lastRefreshMono, counts, stream, result, wireInstant, wireUnits, copies, dataSince>>

\* The part BeginData and BeginDataStream share: data waits for bootstrap and
\* for any due refresh (which a refused call has marked, as RefreshDue does).
\* An appender that refuses its Begin gives the reservation straight back.
BeginDataPacket(wall, mono, shape, streamed, records) ==
  LET t == Clamp(wall) IN
  /\ CanBegin /\ epoch.ready
  /\ ~DueAt(mono) /\ ~refreshActive
  /\ MarkDue(mono)
  /\ \/ /\ Reservable(t)
        /\ lastReservedWall' = t
        /\ nextToken' = nextToken + 1
        /\ pending' = NewPacket(FALSE, streamed, shape, records, mono, t)
        /\ stream' = (stream \/ streamed)
        /\ UNCHANGED <<epoch, nextTemplateIndex, templateRound, refreshActive>>
     \/ /\ Reservable(t) /\ streamed
        /\ nextToken' = nextToken + 1 /\ stream' = FALSE
        /\ UNCHANGED <<epoch, nextTemplateIndex, templateRound, refreshActive,
                       lastReservedWall, pending>>
     \/ ReservationFails(t) /\ stream' = (stream /\ ~streamed)
  /\ UNCHANGED <<lastRefreshMono, counts, result, wireInstant, wireUnits, copies, dataSince>>

\* BeginData: the records are given at once and Encode writes them.
BeginData(wall, mono, shape, records) ==
  BeginDataPacket(wall, mono, shape, FALSE, records)

\* BeginDataStream: the shared appender is reset, then bound to the caller's buffer.
BeginDataStream(wall, mono, shape) ==
  BeginDataPacket(wall, mono, shape, TRUE, 0)

\* Append admits one record; a refused record changes nothing.
Append ==
  /\ pending # NoPacket /\ pending.streamed /\ ~pending.encoded
  /\ pending.records < MaxRecords
  /\ pending' = [pending EXCEPT !.records = @ + 1]
  /\ UNCHANGED <<epoch, refresh, counts, lastReservedWall, nextToken, stream, result, history>>

-----------------------------------------------------------------------------
(* Rollback.                                                               *)

\* Mutant of ResetProgress: completed rounds are forgotten to be reset.
ResetProgressKeepingRound ==
  /\ nextTemplateIndex' = 0 /\ UNCHANGED templateRound
  /\ refreshActive' = FALSE /\ refreshDue' = FALSE
  /\ packetCount' = 0 /\ dataMessageCount' = 0

\* Template and refresh progress back to the start of a bootstrap.
ResetProgress ==
  /\ nextTemplateIndex' = 0 /\ templateRound' = 0
  /\ refreshActive' = FALSE /\ refreshDue' = FALSE
  /\ packetCount' = 0 /\ dataMessageCount' = 0

\* History: nothing of this bootstrap was written.
ForgetWrites ==
  /\ wireUnits' = 0 /\ dataSince' = 0 /\ fresh' = {}
  /\ copies' = [s \in Shapes |-> 0]

\* What an abandoned bootstrap leaves of its epoch.
DiscardedEpoch == [epoch EXCEPT !.startOrigin = NoTime, !.sequence = 0]

\* discardUnpublishedLocked: an unready epoch loses all bootstrap progress.
\* The reserved wall is not touched.
DiscardUnpublished ==
  \/ /\ epoch.ready
     /\ UNCHANGED <<epoch, refresh, counts, wireUnits, dataSince, fresh, copies>>
  \/ /\ ~epoch.ready
     /\ epoch' = DiscardedEpoch /\ lastRefreshMono' = NoTime
     /\ ResetProgress /\ ForgetWrites

\* Mutant of RestoredStream: the rollback forgets the appender.
UnrestoredStream == stream

\* The appender after a rollback: reset if the packet was streaming into it.
RestoredStream == stream /\ ~pending.streamed

\* restoreEncodeReservationLocked: undo the reservation of a packet that was
\* never handed to transport.
RestoreReservation ==
  /\ pending' = NoPacket
  /\ stream' = RestoredStream
  /\ lastReservedWall' = pending.prior.reservedWall
  /\ \/ /\ epoch.ready
        /\ epoch' = [epoch EXCEPT !.startOrigin = pending.prior.startOrigin]
        /\ refreshActive' = pending.prior.refreshActive
        /\ refreshDue' = pending.prior.refreshDue
        /\ nextTemplateIndex' = pending.prior.nextTemplateIndex
        /\ templateRound' = pending.prior.templateRound
        /\ UNCHANGED <<lastRefreshMono, counts, copies, dataSince, fresh, wireUnits>>
     \/ ~epoch.ready /\ DiscardUnpublished
  /\ UNCHANGED <<nextToken, result, wireInstant>>

Written == pending # NoPacket /\ result.token = pending.token

\* Encode of a template or BeginData packet: exact length, or any failure.
Encode ==
  /\ pending # NoPacket /\ ~pending.streamed /\ ~pending.encoded
  /\ \/ /\ pending' = [pending EXCEPT !.encoded = TRUE]
        /\ UNCHANGED <<epoch, refresh, counts, lastReservedWall, nextToken, stream, result, history>>
     \/ RestoreReservation

\* Finish of a streamed packet: an empty packet always fails.
Finish ==
  /\ pending # NoPacket /\ pending.streamed /\ ~pending.encoded
  /\ \/ /\ pending.records > 0
        /\ pending' = [pending EXCEPT !.encoded = TRUE]
        /\ stream' = FALSE
        /\ UNCHANGED <<epoch, refresh, counts, lastReservedWall, nextToken, result, history>>
     \/ RestoreReservation

\* Abort releases a reservation before its datagram is handed to transport.
Abort ==
  /\ pending # NoPacket /\ ~Written
  /\ RestoreReservation

-----------------------------------------------------------------------------
(* Handoff and commit.                                                     *)

\* external: the transport write of the encoded datagram, outside State.mu.  A
\* count outside the datagram is a broken local result, not a UDP handoff.
Write(n, err) ==
  LET full == n = DatagramLength /\ ~err IN
  /\ pending # NoPacket /\ pending.encoded /\ ~Written
  /\ result' = [token |-> pending.token, epochID |-> pending.epochID, n |-> n, err |-> err]
  /\ wireInstant' = IF n \in 0 .. DatagramLength THEN pending.instant ELSE wireInstant
  /\ wireUnits' = IF full THEN wireUnits + SequenceUnits(pending) ELSE wireUnits
  /\ copies' = IF full /\ pending.template /\ copies[pending.shape] < InitialCopies
               THEN [copies EXCEPT ![pending.shape] = @ + 1] ELSE copies
  /\ fresh' = IF full /\ pending.template THEN fresh \cup {pending.shape} ELSE fresh
  /\ dataSince' = IF full /\ ~pending.template THEN dataSince + 1 ELSE dataSince
  /\ UNCHANGED <<epoch, refresh, counts, lastReservedWall, nextToken, pending, stream>>

\* Mutant of Current: any handle of this epoch commits the pending packet.
CurrentEpoch(r) == pending # NoPacket /\ pending.encoded /\ r.epochID = epoch.id

\* The handle check of Commit: this packet, in this epoch, encoded.
Current(r) ==
  /\ pending # NoPacket /\ pending.encoded
  /\ r.token = pending.token /\ r.epochID = epoch.id

\* A template commit that completes one pass over the catalog.
EndsRound(p) == p.template /\ nextTemplateIndex + 1 = ShapeCount

\* commitSequenceLocked and the template progress of a full write.
CommitFull ==
  LET p        == pending
      packets  == IF Protocol = "v9" THEN packetCount + 1 ELSE packetCount
      messages == IF Protocol = "ipfix" /\ p.records # 0
                  THEN dataMessageCount + 1 ELSE dataMessageCount
      wraps    == EndsRound(p)
      rounds   == IF wraps THEN templateRound + 1 ELSE templateRound
      complete == wraps /\ IF epoch.ready THEN refreshActive /\ rounds = 1
                           ELSE rounds = InitialCopies
      active   == refreshActive /\ ~complete
      due      == refreshDue /\ ~complete
      last     == IF complete THEN p.mono ELSE lastRefreshMono
      packets2 == IF complete THEN 0 ELSE packets
      messages2    == IF complete THEN 0 ELSE messages
      ready    == epoch.ready \/ complete
  IN
  /\ epoch' = [epoch EXCEPT !.sequence = (@ + SequenceUnits(p)) % SeqModulus,
                            !.ready = ready]
  /\ nextTemplateIndex' = IF wraps THEN 0
                          ELSE IF p.template THEN nextTemplateIndex + 1 ELSE nextTemplateIndex
  /\ templateRound' = IF complete THEN 0 ELSE rounds
  /\ refreshActive' = active
  /\ lastRefreshMono' = last
  /\ packetCount' = packets2 /\ dataMessageCount' = messages2
  /\ refreshDue' = MarkedDue(ready, active, due, last, packets2, messages2, p.mono)
  /\ fresh' = IF refreshDue' /\ ~refreshDue THEN {} ELSE fresh
  /\ dataSince' = IF complete THEN 0 ELSE dataSince
  /\ UNCHANGED <<lastReservedWall, copies, wireUnits>>

\* Mutant of CommitAmbiguous: the reservation is given back.
CommitAmbiguousReleasing ==
  /\ DiscardUnpublished
  /\ lastReservedWall' = pending.prior.reservedWall

\* A non-full legal result is ambiguous: the reservation stays.
CommitAmbiguous ==
  /\ DiscardUnpublished
  /\ UNCHANGED lastReservedWall

\* An invalid result takes the reservation back.
CommitInvalid ==
  /\ DiscardUnpublished
  /\ lastReservedWall' = pending.prior.reservedWall

\* Commit(packet, n, err) with the handle and result of the last write.  A
\* handle that is not current is refused without a state change.
Commit ==
  LET class == ClassifyWrite(result.n, DatagramLength, result.err) IN
  /\ Current(result)
  /\ pending' = NoPacket
  /\ \/ class = "full" /\ CommitFull
     \/ class \notin {"full", "invalid"} /\ CommitAmbiguous
     \/ class = "invalid" /\ CommitInvalid
  /\ UNCHANGED <<nextToken, stream, result, wireInstant>>

-----------------------------------------------------------------------------
(* Epoch changes.                                                          *)

NewEpoch(id) ==
  [id |-> id, sequence |-> 0, ready |-> Protocol = "v5", startOrigin |-> NoTime,
   uptimeExhausted |-> FALSE]

Restart ==
  /\ epoch.id < MaxEpochs
  /\ epoch' = NewEpoch(epoch.id + 1)
  /\ ResetProgress /\ ForgetWrites
  /\ lastRefreshMono' = NoTime /\ lastReservedWall' = NoTime /\ wireInstant' = NoTime
  /\ pending' = NoPacket /\ stream' = FALSE
  /\ UNCHANGED <<nextToken, result>>

\* AbortBootstrap keeps the reserved wall, so an abandoned in-flight write
\* still bounds the next header from below.
AbortBootstrap ==
  /\ ~epoch.ready /\ Protocol # "v5"
  /\ epoch' = DiscardedEpoch
  /\ ResetProgress /\ ForgetWrites
  /\ pending' = NoPacket /\ stream' = FALSE
  /\ UNCHANGED <<lastRefreshMono, lastReservedWall, nextToken, result, wireInstant>>

-----------------------------------------------------------------------------
Init ==
  /\ epoch = NewEpoch(1)
  /\ nextTemplateIndex = 0 /\ templateRound = 0
  /\ refreshActive = FALSE /\ refreshDue = FALSE
  /\ lastRefreshMono = NoTime /\ lastReservedWall = NoTime
  /\ packetCount = 0 /\ dataMessageCount = 0
  /\ nextToken = 0 /\ pending = NoPacket /\ stream = FALSE /\ result = NoResult
  /\ wireInstant = NoTime /\ wireUnits = 0 /\ dataSince = 0
  /\ copies = [s \in Shapes |-> 0] /\ fresh = {}

Next ==
  \/ \E mono \in Monos : RefreshDue(mono)
  \/ \E wall \in Walls, mono \in Monos : BeginTemplate(wall, mono)
  \/ \E wall \in Walls, mono \in Monos, shape \in Shapes, records \in 1 .. MaxRecords :
       BeginData(wall, mono, shape, records)
  \/ \E wall \in Walls, mono \in Monos, shape \in Shapes : BeginDataStream(wall, mono, shape)
  \/ Append
  \/ Encode
  \/ Finish
  \/ Abort
  \/ \E n \in -1 .. DatagramLength + 1, err \in BOOLEAN : Write(n, err)
  \/ Commit
  \/ Restart
  \/ AbortBootstrap

Spec == Init /\ [][Next]_vars

-----------------------------------------------------------------------------
(* Properties.                                                             *)

\* Every field of State keeps its type through every operation, rollbacks included.
TypeOK ==
  /\ epoch \in Epoch
  /\ nextTemplateIndex \in Shapes /\ templateRound \in 0 .. InitialCopies
  /\ refreshActive \in BOOLEAN /\ refreshDue \in BOOLEAN
  /\ lastRefreshMono \in Times /\ lastReservedWall \in Times
  /\ packetCount \in Nat /\ dataMessageCount \in Nat
  /\ nextToken \in Nat /\ pending \in Packet \cup {NoPacket}
  /\ stream \in BOOLEAN /\ result \in Result
  /\ wireInstant \in Times /\ wireUnits \in Nat /\ dataSince \in Nat
  /\ copies \in [Shapes -> 0 .. InitialCopies] /\ fresh \subseteq Shapes

\* Header time never goes backwards within an epoch, over every datagram a
\* collector may have received: the reservation of an ambiguous write survives
\* its Commit, and only a packet that was never handed off gives its instant
\* back (state.go: reserveWallLocked, restoreReservationWallLocked).
WireTimeMonotone ==
  [][epoch'.id = epoch.id => wireInstant' >= wireInstant]_vars

\* Between packets the next header's sequence is the number of units in the
\* fully written datagrams of this epoch, modulo 2^32, whatever ambiguous,
\* invalid, aborted or stale transactions happened in between.
SequenceCountsHandoffs ==
  pending = NoPacket => epoch.sequence = wireUnits % SeqModulus

\* No data packet exists before every shape's template was fully written
\* InitialCopies times in this very epoch (state.go: Commit, beginPacket).
DataFollowsBootstrap ==
  pending # NoPacket /\ ~pending.template /\ Protocol # "v5"
    => \A s \in Shapes : copies[s] = InitialCopies

\* No more data datagrams than the refresh count are fully written between two
\* complete catalogs.
RefreshBound ==
  Protocol # "v5" /\ RefreshCount # 0 => dataSince <= RefreshCount

\* A refresh round ends, and its counters restart, only once every shape was
\* fully written since the refresh became due: failed, ambiguous, aborted and
\* repeated template writes do not shorten it.
RefreshCoversCatalog ==
  [][/\ epoch.ready /\ epoch'.id = epoch.id
     /\ \/ refreshActive /\ ~refreshDue'
        \/ packetCount' < packetCount
        \/ dataMessageCount' < dataMessageCount
     => fresh = Shapes]_vars

\* The header of a reserved packet is representable against the uptime origin
\* in force: after the clamp, not before it, and with no origin change while
\* the packet is pending.
HeaderRepresentable ==
  pending # NoPacket /\ Protocol # "ipfix"
    => /\ Origin # NoTime /\ pending.instant >= Origin
       /\ Uptime(pending.instant) <= MaxUptime
       /\ (pending.instant - Origin) % NanosPerMilli = 0

\* The shared appender holds a caller buffer only while a streamed packet is
\* being filled: Finish, failures, Abort, Restart and AbortBootstrap release it.
AppenderReleased ==
  stream => pending # NoPacket /\ pending.streamed /\ ~pending.encoded

=============================================================================
