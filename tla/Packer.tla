-------------------------------- MODULE Packer --------------------------------
(***************************************************************************)
(* One published endpoint at work: the bootstrap of its State              *)
(* (publication.go), then Packer.Pack requests and idle Packer.refresh     *)
(* runs (packer.go), each a synchronous walk that drives one State         *)
(* transaction and one SourceLedger packet at a time.  Between any two     *)
(* calls the context may be cancelled or the resolver may withdraw the     *)
(* endpoint (stopUnavailable), the clocks may step, and a write may return *)
(* anything.                                                               *)
(*                                                                         *)
(* A record is its fate in validation and its lane: the lane is the shape  *)
(* for v9 and IPFIX and the sampling rate for v5, whichever must agree in  *)
(* one packet.  A record that fits an empty datagram may or may not fit a  *)
(* filled one.                                                             *)
(***************************************************************************)
EXTENDS Integers, FiniteSets

CONSTANTS
  Protocol, ShapeCount, InitialCopies, RefreshInterval, RefreshCount, UptimeOrigin,
  NanosPerMilli, MaxUptime, MaxExportWall, SeqModulus, MaxRecords, DatagramLength,
  Walls, Monos, MaxTokens, MaxEpochs, NoPacket,   \* see DestinationState
  MaxSources, MaxPendingValid,                    \* see SourceLedger
  Kinds,         \* the record fates that occur
  Lanes,         \* the shapes or sampling rates that occur
  MaxRequests    \* bound: Pack and refresh calls in a behaviour

\* bad: normalization or mapping fails.  misfit: no shape or sampling rate for it.
\* huge: exceeds an empty datagram.  refused: the appender rejects its value.
\* faulty: the appender fails for a reason that is not the record's.
AllKinds == {"bad", "misfit", "huge", "refused", "faulty", "good"}

ASSUME PackerAssumption ==
  /\ Kinds \subseteq AllKinds
  /\ Lanes \subseteq Nat /\ (Protocol # "v5" => Lanes \subseteq 0 .. ShapeCount - 1)
  /\ MaxRequests \in Nat
  /\ MaxRecords <= MaxPendingValid   \* both limits are 1024 (state.go:26, ledger.go:8)

VARIABLES
  epoch, nextTemplateIndex, templateRound, refreshActive, refreshDue, lastRefreshMono,
  packetCount, dataMessageCount, lastReservedWall, nextToken, pending, stream, result,
  wireInstant, wireUnits, copies, fresh, dataSince

VARIABLES
  class, covered, valid, invalid, confirmed, ambiguous,
  ledgerPacketOpen, packetStart, packetEnd, packetValid, packetFloor, ledgerStopped, members

VARIABLES
  pc,              \* where the synchronous call is
  caller,          \* who sends templates: "bootstrap", "openData" or "refresh"
  rec,             \* the record being consumed; NoRecord in the final flush
  drained,         \* openData's drainedRefresh
  reading,         \* the (wall, mono) pair openData and drainRefresh share
  packetOpen, ledgerOpen, lane,            \* Packer.packetOpen, ledgerOpen, packetShape/Sample
  stopped, transient, internal,            \* Packer flags
  previewInstant,                          \* NoTime when !havePreviewInstant
  confirmedPackets, ambiguousPackets,
  outcome,         \* PackResult.outcome of the last request
  requests,        \* Pack and refresh calls begun
  earlier,         \* history: records confirmed by earlier requests
  sent             \* history: per ordinal, did its datagram reach the wire

S == INSTANCE DestinationState
L == INSTANCE SourceLedger WITH packetOpen <- ledgerPacketOpen, stopped <- ledgerStopped

\* The instances have no constants of their own; what they assume is assumed here.
ASSUME InstanceAssumption == S!StateAssumption /\ S!NoPacketAssumption /\ L!LedgerAssumption

stateVars  == <<epoch, nextTemplateIndex, templateRound, refreshActive, refreshDue,
                lastRefreshMono, packetCount, dataMessageCount, lastReservedWall, nextToken,
                pending, stream, result, wireInstant, wireUnits, copies, fresh, dataSince>>
ledgerVars == <<class, covered, valid, invalid, confirmed, ambiguous, ledgerPacketOpen,
                packetStart, packetEnd, packetValid, packetFloor, ledgerStopped, members>>
flags      == <<stopped, transient, internal>>
packetVars == <<packetOpen, ledgerOpen, lane>>
callVars   == <<caller, rec, drained, reading, previewInstant, outcome, requests, earlier>>
tallies    == <<confirmedPackets, ambiguousPackets, sent>>
vars == <<stateVars, ledgerVars, pc, flags, packetVars, callVars, tallies>>

NoTime   == S!NoTime
NoRecord == [kind |-> "none", lane |-> 0]
Records  == [kind : Kinds, lane : Lanes]
Readings == Walls \X Monos
NoReading == <<0, 0>>
Ordinal  == covered - 1            \* the record being consumed is the last one covered
Shape(l) == IF Protocol = "v5" THEN 0 ELSE l

Goto(to) == pc' = to

\* Mutant of FailTransient: the request goes on with its next packet.
FailTransientGoingOn == transient' = TRUE /\ UNCHANGED <<stopped, internal>>

\* The caller leaves with its internal or its transient flag set.
FailInternal  == stopped' = TRUE /\ internal' = TRUE /\ UNCHANGED transient
FailTransient == stopped' = TRUE /\ transient' = TRUE /\ UNCHANGED internal

\* A failed step of Pack goes on with the suffix validation of its record; the
\* final flush has no record left.
AfterFailure == IF rec = NoRecord THEN "result" ELSE "preview"

-----------------------------------------------------------------------------
(* Requests.                                                               *)

\* resetRequest and, for Pack, a new ledger.
ResetRequest ==
  /\ packetOpen' = FALSE /\ ledgerOpen' = FALSE /\ lane' = 0
  /\ stopped' = FALSE /\ transient' = FALSE /\ internal' = FALSE
  /\ previewInstant' = NoTime
  /\ confirmedPackets' = 0 /\ ambiguousPackets' = 0

FreshLedger ==
  /\ class' = [o \in L!Ordinals |-> "unsent"] /\ covered' = 0
  /\ valid' = 0 /\ invalid' = 0 /\ confirmed' = 0 /\ ambiguous' = 0
  /\ ledgerPacketOpen' = FALSE /\ packetStart' = 0 /\ packetEnd' = 0 /\ packetValid' = 0
  /\ packetFloor' = 0 /\ ledgerStopped' = FALSE /\ members' = {}
  /\ sent' = [o \in L!Ordinals |-> "no"]

\* Pack takes the busy flag.
Pack ==
  /\ pc = "idle" /\ requests < MaxRequests
  /\ requests' = requests + 1
  /\ ResetRequest /\ FreshLedger
  /\ earlier' = earlier + confirmed
  /\ outcome' = "none" /\ rec' = NoRecord
  /\ Goto("next")
  /\ UNCHANGED <<stateVars, caller, drained, reading>>

\* refresh: one due catalog round without a request.
Refresh ==
  /\ pc = "idle" /\ requests < MaxRequests
  /\ requests' = requests + 1
  /\ ResetRequest
  /\ caller' = "refresh" /\ rec' = NoRecord
  /\ Goto("refresh")
  /\ UNCHANGED <<stateVars, ledgerVars, drained, reading, outcome, earlier, sent>>

\* The callback of NormalizeEachIndexed: cover the record, valid if it maps.
Consume(r) ==
  /\ pc = "next" /\ covered < MaxSources
  /\ L!AddSource(r.kind # "bad")
  /\ rec' = r
  /\ Goto(IF r.kind = "bad" THEN "next" ELSE "place")
  /\ UNCHANGED <<stateVars, flags, packetVars, caller, drained, reading, previewInstant, outcome,
                 requests, earlier, tallies>>

\* All records seen: flush what is open.
EndOfRecords ==
  /\ pc = "next"
  /\ rec' = NoRecord
  /\ Goto(IF ~stopped /\ packetOpen THEN "flush" ELSE "result")
  /\ UNCHANGED <<stateVars, ledgerVars, flags, packetVars, caller, drained, reading,
                 previewInstant, outcome, requests, earlier, tallies>>

\* Mutant of PackOutcome: a confirmed record makes the request a success.
PackOutcomeConfirmedFirst ==
  IF internal THEN "internal" ELSE IF confirmed # 0 THEN "succeeded"
  ELSE IF transient THEN "transient" ELSE "permanent"

\* The aggregate class: internal before transient before permanent.
PackOutcome ==
  IF internal THEN "internal" ELSE IF transient THEN "transient"
  ELSE IF valid = 0 \/ confirmed = 0 THEN "permanent" ELSE "succeeded"

Return ==
  /\ pc = "result"
  /\ outcome' = PackOutcome
  /\ Goto("idle")
  /\ UNCHANGED <<stateVars, ledgerVars, flags, packetVars, caller, rec, drained, reading,
                 previewInstant, requests, earlier, tallies>>

\* returnedSubset: what a transient result hands back for retry.
ReturnedSubset ==
  IF outcome # "transient" THEN {}
  ELSE {o \in 0 .. covered - 1 : class[o] \in {"ambiguous", "unsent"}}

-----------------------------------------------------------------------------
(* Availability.                                                           *)

\* stopUnavailable when the context is done or the endpoint is withdrawn: the
\* buffered packet is aborted locally and its records stay unsent.
StopUnavailable(to) ==
  /\ \/ packetOpen /\ S!Abort
     \/ ~packetOpen /\ UNCHANGED stateVars
  /\ \/ ledgerOpen /\ L!AbortPacket
     \/ ~ledgerOpen /\ UNCHANGED ledgerVars
  /\ packetOpen' = FALSE /\ ledgerOpen' = FALSE
  /\ FailTransient
  /\ Goto(to)
  /\ UNCHANGED <<lane, callVars, tallies>>

\* The gates of consume, openData and flushData.
Unavailable ==
  /\ pc \in {"place", "open", "flush"} /\ rec.kind # "misfit"
  /\ ~(pc = "open" /\ drained)
  /\ StopUnavailable(AfterFailure)

-----------------------------------------------------------------------------
(* consume.                                                                *)

\* Packer.invalidate of the current record.
InvalidateRecord ==
  /\ L!Invalidate(Ordinal)
  /\ Goto("next")

\* A mapped record without a shape, or without a usable v5 sampling rate.
Misfit ==
  /\ pc = "place" /\ rec.kind = "misfit"
  /\ InvalidateRecord
  /\ UNCHANGED <<stateVars, flags, packetVars, callVars, tallies>>

\* Mutant of MustFlush: a lane change is not noticed.
MustFlushOnCount == pending.records >= MaxRecords

\* An open packet cannot take the record: another lane, or the count limit.
MustFlush == rec.lane # lane \/ pending.records >= MaxRecords

Place ==
  /\ pc = "place" /\ rec.kind # "misfit"
  /\ Goto(IF stopped THEN "preview"
          ELSE IF ~packetOpen THEN "fit"
          ELSE IF MustFlush THEN "flush" ELSE "append")
  /\ UNCHANGED <<stateVars, ledgerVars, flags, packetVars, callVars, tallies>>

\* minimumDataPacketFits before a packet is opened.
Fit ==
  /\ pc = "fit"
  /\ \/ rec.kind = "huge" /\ InvalidateRecord
     \/ rec.kind # "huge" /\ Goto("open") /\ UNCHANGED ledgerVars
  /\ drained' = FALSE
  /\ UNCHANGED <<stateVars, flags, packetVars, caller, rec, reading, previewInstant, outcome,
                 requests, earlier, tallies>>

\* Mutant of AlreadyDrained: every due refresh is drained before data.
NeverDrained == FALSE

\* openData drains at most one refresh round per data packet.
AlreadyDrained == drained

\* openData, one turn of its loop: a due refresh is drained once, and a
\* refresh due again after that stops the request.  (RefreshDue and
\* BeginDataStream use the same reading, so ErrRefreshRequired cannot follow.)
OpenDue(r) ==
  /\ pc = "open" /\ (S!DueAt(r[2]) \/ refreshActive)
  /\ S!RefreshDue(r[2])
  /\ \/ AlreadyDrained /\ FailTransient /\ Goto("preview")
        /\ UNCHANGED <<caller, drained, reading>>
     \/ ~AlreadyDrained /\ Goto("drain")
        /\ drained' = TRUE /\ reading' = r /\ caller' = "openData"
        /\ UNCHANGED flags
  /\ UNCHANGED <<ledgerVars, packetVars, rec, previewInstant, outcome, requests, earlier, tallies>>

\* A reservation that fails, for time or for exhaustion, is internal.
OpenData(r) ==
  /\ pc = "open" /\ ~S!DueAt(r[2]) /\ ~refreshActive
  /\ \/ S!BeginDataStream(r[1], r[2], Shape(rec.lane))
     \/ epoch.uptimeExhausted /\ UNCHANGED stateVars
  /\ \/ /\ pending' # NoPacket
        /\ packetOpen' = TRUE /\ lane' = rec.lane
        /\ Goto("append")
        /\ UNCHANGED flags
     \/ /\ pending' = NoPacket
        /\ FailInternal /\ Goto("preview")
        /\ UNCHANGED <<packetOpen, lane>>
  /\ UNCHANGED <<ledgerVars, ledgerOpen, callVars, tallies>>

\* append, first half: the datagram takes the record, and the ledger packet
\* opens with the first one.
AppendRecord ==
  /\ pc = "append" /\ rec.kind = "good"
  /\ S!Append
  /\ \/ ledgerOpen /\ UNCHANGED ledgerVars
     \/ ~ledgerOpen /\ L!BeginPacket
  /\ ledgerOpen' = TRUE
  /\ Goto("account")
  /\ UNCHANGED <<flags, packetOpen, lane, callVars, tallies>>

\* append, second half.
AccountRecord ==
  /\ pc = "account"
  /\ L!AddPending(Ordinal)
  /\ Goto("next")
  /\ UNCHANGED <<stateVars, flags, packetVars, callVars, tallies>>

\* A filled datagram that has no room: flush, then try an empty one.
AppendBoundary ==
  /\ pc = "append" /\ rec.kind \in {"good", "huge"} /\ pending.records > 0
  /\ Goto("flush")
  /\ UNCHANGED <<stateVars, ledgerVars, flags, packetVars, callVars, tallies>>

\* Mutant of EmptyPacketReleased: the packer forgets the packet without aborting it.
EmptyPacketForgotten == packetOpen' = (pending.records # 0) /\ UNCHANGED stateVars

\* A packet that was opened for a rejected record must not stay reserved.
EmptyPacketReleased ==
  IF pending.records = 0 THEN S!Abort /\ packetOpen' = FALSE
  ELSE UNCHANGED <<stateVars, packetOpen>>

\* The appender rejects the record itself.
AppendRefused ==
  /\ pc = "append" /\ rec.kind = "refused"
  /\ EmptyPacketReleased
  /\ InvalidateRecord
  /\ UNCHANGED <<flags, ledgerOpen, lane, callVars, tallies>>

\* abortDataInternal.
AppendFails ==
  /\ pc = "append" /\ rec.kind = "faulty"
  /\ S!Abort
  /\ \/ ledgerOpen /\ L!AbortPacket
     \/ ~ledgerOpen /\ UNCHANGED ledgerVars
  /\ packetOpen' = FALSE /\ ledgerOpen' = FALSE
  /\ FailInternal
  /\ Goto("next")
  /\ UNCHANGED <<lane, callVars, tallies>>

\* previewUnsent: a record after the stop is validated alone, against one
\* cached instant per request; nothing is reserved.
Preview(wall) ==
  LET t == IF previewInstant # NoTime THEN S!Clamp(previewInstant) ELSE S!Clamp(wall)
      headerFails == ~S!Reservable(t)
  IN
  /\ pc = "preview"
  /\ Goto("next")
  /\ \/ internal /\ UNCHANGED <<ledgerVars, flags, previewInstant>>
     \/ /\ ~internal
        /\ previewInstant' = t
        /\ \/ /\ headerFails \/ rec.kind = "faulty"
              /\ FailInternal /\ UNCHANGED ledgerVars
           \/ /\ ~headerFails /\ rec.kind \in {"huge", "refused"}
              /\ L!Invalidate(Ordinal) /\ UNCHANGED flags
           \/ ~headerFails /\ rec.kind = "good" /\ UNCHANGED <<ledgerVars, flags>>
  /\ UNCHANGED <<stateVars, packetVars, caller, rec, drained, reading, outcome, requests, earlier,
                 tallies>>

-----------------------------------------------------------------------------
(* flushData.                                                              *)

FlushFinish ==
  /\ pc = "flush"
  /\ S!Finish
  /\ \/ /\ pending' # NoPacket
        /\ Goto("flushWrite")
        /\ UNCHANGED <<ledgerVars, flags, packetOpen, ledgerOpen>>
     \/ /\ pending' = NoPacket
        /\ L!AbortPacket
        /\ packetOpen' = FALSE /\ ledgerOpen' = FALSE
        /\ FailInternal /\ Goto(AfterFailure)
  /\ UNCHANGED <<lane, callVars, tallies>>

\* external: the datagram callback.
FlushWrite(n, err) ==
  /\ pc = "flushWrite"
  /\ S!Write(n, err)
  /\ sent' = [o \in L!Ordinals |->
                IF o \notin members \/ n \notin 0 .. DatagramLength THEN sent[o]
                ELSE IF n = DatagramLength /\ ~err THEN "yes" ELSE "maybe"]
  /\ Goto("flushCommit")
  /\ UNCHANGED <<ledgerVars, flags, packetVars, callVars, confirmedPackets, ambiguousPackets>>

\* Mutant of LedgerFollows: the ledger is told of a handoff in doubt as confirmed.
LedgerAhead(outcomeClass) ==
  IF outcomeClass = "invalid" THEN L!AbortPacket ELSE L!ResolveFull

\* The ledger follows what State made of the result: a refused result leaves
\* the records unsent.
LedgerFollows(outcomeClass) ==
  \/ outcomeClass = "full" /\ L!ResolveFull
  \/ outcomeClass = "invalid" /\ L!AbortPacket
  \/ outcomeClass \notin {"full", "invalid"} /\ L!ResolveAmbiguous

\* State.Commit, then the ledger, then the packer's own verdict.
FlushCommit ==
  LET outcomeClass == S!ClassifyWrite(result.n, DatagramLength, result.err) IN
  /\ pc = "flushCommit"
  /\ S!Commit
  /\ LedgerFollows(outcomeClass)
  /\ packetOpen' = FALSE /\ ledgerOpen' = FALSE
  /\ \/ /\ outcomeClass = "invalid"
        /\ FailInternal /\ Goto(AfterFailure)
        /\ UNCHANGED <<confirmedPackets, ambiguousPackets>>
     \/ /\ outcomeClass = "full"
        /\ confirmedPackets' = confirmedPackets + 1
        /\ Goto(IF rec = NoRecord THEN "result" ELSE "fit")
        /\ UNCHANGED <<flags, ambiguousPackets>>
     \/ /\ outcomeClass \notin {"full", "invalid"}
        /\ ambiguousPackets' = ambiguousPackets + 1
        /\ FailTransient /\ Goto(AfterFailure)
        /\ UNCHANGED confirmedPackets
  /\ UNCHANGED <<lane, callVars, sent>>

-----------------------------------------------------------------------------
(* Templates: bootstrap, drainRefresh and refresh.                         *)

\* Where each caller goes on after its template failed or its round is over.
TemplateFailed == CASE caller = "bootstrap" -> "abandoned"
                    [] caller = "openData"  -> "preview"
                    [] caller = "refresh"   -> "idle"
TemplatesDone  == IF caller = "openData" THEN "open" ELSE "idle"

\* refresh: nothing to do, or a round to drain.
RefreshWorker(r) ==
  /\ pc = "refresh"
  /\ S!RefreshDue(r[2])
  /\ reading' = r
  /\ Goto(IF S!DueAt(r[2]) \/ refreshActive THEN "drain" ELSE "idle")
  /\ UNCHANGED <<ledgerVars, flags, packetVars, caller, rec, drained, previewInstant, outcome,
                 requests, earlier, tallies>>

\* The first template of a drain uses the reading that found the refresh due;
\* bootstrap and later templates read the clock again.
BeginTemplate(r) ==
  /\ pc = "drain" /\ (reading # NoReading => r = reading)
  /\ reading' = NoReading
  /\ \/ S!BeginTemplate(r[1], r[2])
     \/ epoch.uptimeExhausted /\ UNCHANGED stateVars
  /\ \/ pending' # NoPacket /\ Goto("encode") /\ UNCHANGED flags
     \/ pending' = NoPacket /\ FailInternal /\ Goto(TemplateFailed)
  /\ UNCHANGED <<ledgerVars, packetVars, caller, rec, drained, previewInstant, outcome, requests,
                 earlier, tallies>>

EncodeTemplate ==
  /\ pc = "encode"
  /\ S!Encode
  /\ \/ pending' # NoPacket /\ Goto("gate") /\ UNCHANGED flags
     \/ pending' = NoPacket /\ FailInternal /\ Goto(TemplateFailed)
  /\ UNCHANGED <<ledgerVars, packetVars, callVars, tallies>>

\* Cancelled, closing or unavailable: before a template is begun, or with one
\* encoded, which is then aborted.
TemplateUnavailable ==
  /\ \/ pc \in {"drain", "refresh"} /\ UNCHANGED stateVars
     \/ pc = "gate" /\ S!Abort
  /\ FailTransient
  /\ Goto(TemplateFailed)
  /\ UNCHANGED <<ledgerVars, packetVars, callVars, tallies>>

\* external: the template datagram is written.
WriteTemplate(n, err) ==
  /\ pc = "gate"
  /\ S!Write(n, err)
  /\ Goto("templateCommit")
  /\ UNCHANGED <<ledgerVars, flags, packetVars, callVars, tallies>>

CommitTemplate ==
  LET outcomeClass == S!ClassifyWrite(result.n, DatagramLength, result.err)
      more == IF caller = "bootstrap" THEN ~epoch'.ready ELSE refreshActive' \/ refreshDue'
  IN
  /\ pc = "templateCommit"
  /\ S!Commit
  /\ \/ outcomeClass = "full" /\ UNCHANGED flags
        /\ Goto(IF more THEN "drain" ELSE TemplatesDone)
     \/ outcomeClass = "invalid" /\ FailInternal /\ Goto(TemplateFailed)
     \/ outcomeClass \notin {"full", "invalid"} /\ FailTransient /\ Goto(TemplateFailed)
  /\ UNCHANGED <<ledgerVars, packetVars, callVars, tallies>>

-----------------------------------------------------------------------------
Init ==
  /\ S!Init /\ L!Init
  /\ pc = (IF Protocol = "v5" THEN "idle" ELSE "drain")
  /\ caller = "bootstrap" /\ rec = NoRecord /\ drained = FALSE /\ reading = NoReading
  /\ packetOpen = FALSE /\ ledgerOpen = FALSE /\ lane = 0
  /\ stopped = FALSE /\ transient = FALSE /\ internal = FALSE
  /\ previewInstant = NoTime /\ confirmedPackets = 0 /\ ambiguousPackets = 0
  /\ outcome = "none" /\ requests = 0 /\ earlier = 0
  /\ sent = [o \in L!Ordinals |-> "no"]

\* The steps of a call in progress.
Step ==
  \/ \E r \in Records : Consume(r)
  \/ EndOfRecords \/ Return
  \/ Unavailable \/ Misfit \/ Place \/ Fit
  \/ \E r \in Readings : OpenDue(r) \/ OpenData(r) \/ RefreshWorker(r) \/ BeginTemplate(r)
  \/ AppendRecord \/ AccountRecord \/ AppendBoundary \/ AppendRefused \/ AppendFails
  \/ \E wall \in Walls : Preview(wall)
  \/ FlushFinish \/ FlushCommit
  \/ \E n \in -1 .. DatagramLength + 1, err \in BOOLEAN : FlushWrite(n, err) \/ WriteTemplate(n, err)
  \/ EncodeTemplate \/ TemplateUnavailable \/ CommitTemplate

Next == Pack \/ Refresh \/ Step

Spec == Init /\ [][Next]_vars

\* The call runs on one goroutine; once begun, it keeps taking steps.
FairSpec == Spec /\ WF_vars(Step)

-----------------------------------------------------------------------------
(* Properties.                                                             *)

\* Whatever path a call took, it leaves no reservation, no bound appender and
\* no open ledger packet behind: a stranded one would make every later Begin
\* fail (state.go:364, packer.go:423-428).  The same holds whenever a record is
\* previewed, for previewUnsent encodes it into the buffer of the open packet.
NothingStranded ==
  pc \in {"preview", "result", "idle", "abandoned"} =>
    pending = NoPacket /\ ~stream /\ ~ledgerPacketOpen

\* Packer and State agree on the open packet, and the ledger packet holds as
\* many records as the datagram.
PacketsCoupled ==
  /\ packetOpen => pending # NoPacket /\ pending.streamed /\ pending.shape = Shape(lane)
  /\ ledgerOpen = ledgerPacketOpen
  /\ packetOpen /\ pc # "account" => pending.records = packetValid
  /\ pc = "append" /\ rec.kind = "good" => rec.lane = lane

\* The ledger never refuses a packer call: the internal-error paths after
\* addPending, beginPacket and invalidate are unreachable.
LedgerAccepts ==
  /\ pc = "account" => L!Addable(Ordinal)
  /\ pc = "append" /\ ~ledgerOpen => ~ledgerStopped
  /\ pc = "place" /\ rec.kind = "misfit" => L!Invalidatable(Ordinal)
  /\ pc \in {"fit", "append", "preview"} /\ rec.kind # "none" => L!Invalidatable(Ordinal)

\* State and ledger move together: for v5 and IPFIX the header sequence counts
\* exactly the records the ledgers of all requests confirmed.
SequenceMatchesLedger ==
  Protocol # "v9" /\ epoch.ready => epoch.sequence = (earlier + confirmed) % SeqModulus

\* A finished request reports each record as the wire saw it: confirmed ones
\* were fully handed off, ambiguous ones may have been, all others never were.
ReportMatchesWire ==
  pc = "result" => \A o \in 0 .. covered - 1 :
    /\ class[o] = "confirmed" <=> sent[o] = "yes"
    /\ class[o] = "ambiguous" <=> sent[o] = "maybe"

\* A successful Pack left no valid record behind, and a transient one hands
\* back every valid record that was not fully handed off, and no other.
NoRecordLostOrRepeated ==
  pc = "idle" =>
    /\ outcome = "succeeded" => \A o \in 0 .. covered - 1 : class[o] # "invalid" => sent[o] = "yes"
    /\ outcome = "transient" =>
         ReturnedSubset = {o \in 0 .. covered - 1 : class[o] # "invalid" /\ sent[o] # "yes"}
    /\ outcome = "permanent" => \A o \in 0 .. covered - 1 : class[o] = "invalid"

\* Every call returns: a drain ends, openData does not loop, the walk goes on.
CallReturns == pc \notin {"idle", "abandoned"} ~> pc \in {"idle", "abandoned"}
=============================================================================
