# TLA+ model of the NetFlow / IPFIX exporter

This directory holds a specification of the OpenTelemetry Collector exporter in
`src/`: the part of it that decides *which* records reach the wire, *in which
order*, under *which* template and sequence number, and what the Collector is
told about them. The modules are checked by TLC on small instances and the most
important invariants are proved with TLAPS for every value of the constants.

## 1. The system

The exporter receives batches of log records, normalizes each into a flow
record, packs the records into NetFlow v5, NetFlow v9 or IPFIX datagrams and
writes them on one connected UDP socket. The socket may be replaced when DNS
answers change. v9 and IPFIX destinations are sent their templates first
(bootstrap) and again at intervals (refresh).

| Component | State it keeps | Operations | Source |
|---|---|---|---|
| Protocol state (`State`, `Packet`) | sequence, reserved wall clock, uptime origin, bootstrap and refresh progress, the one pending packet | BeginTemplate, BeginData, BeginDataStream, Append, Encode, Finish, Write, Commit, Abort, Restart, AbortBootstrap, RefreshDue | `internal/destination/{state,write,epoch}.go` |
| Source ledger | a class per source record, counters, the interval of the open packet | addSource, invalidate, beginPacket, addPending, resolveFull, resolveAmbiguous, abortPacket | `internal/destination/ledger.go` |
| Packer | the request being packed, its open packet, its result | Pack, refresh, bootstrap | `internal/destination/packer.go` |
| Runtime | lifecycle phase, in-flight counts, send permit, current and candidate sockets, refresh wake | Start, Consume, DNS replacement, template refresh, Shutdown | `internal/destination/{lifecycle,admission,send,maintenance,refresh,publication}.go` |
| Resolver | last answers, current choice, failure and staleness times, generation, maintenance gate | BeginMaintenance, ResolveFor, ApplyLookup, commit, Snapshot | `internal/transport/resolver.go`, `candidate.go` |
| UDP writer | the deadline of the shared socket | Write and its cancellation callback | `internal/transport/udp.go` |
| Adapter | the cursor of its lookups, for one request | ConsumeLogs, lookup of custom attributes, the returned subset | `logs_exporter.go` |
| Wire contract, catalog, writers | the appender of the open datagram; otherwise pure | size arithmetic, validation, encoding, Begin, Append, Finish | `internal/wire`, `destination/catalog.go` |
| Configuration | none after construction | check the members, derive the mapping configuration, build resolver, dialer, state and runtime, word the diagnostic | `config*.go`, `factory.go` |
| Mapping | the compiled shapes | Compile, mapResult | `internal/mapping` |
| Normalization | none | admit and convert every attribute of a record, count the records | `internal/normalize` |
| Lifetime and telemetry | counters; the gauges of the uptime | Lifetime, the gauge callback, add | `destination/lifetime.go`, `telemetry*.go` |

**How they interact.** A configuration passes the exporter's own checks, then the
mapping compiler, then the constructors of resolver, dialer, state and runtime,
which repeat some of the limits in code of their own. `ConsumeLogs` takes the send
permit of the Runtime (a one-slot channel) and, holding it, runs the Packer over the
request. The Packer has each record normalized and mapped, asking the adapter's
cursor for custom attributes, and drives State and ledger in lock-step: one opens a
packet when the other does, and both settle it from the same write result. Template
refresh and DNS replacement take the same permit; replacement bootstraps the new
socket with a fresh State before it is published. Shutdown closes admission, cancels
the root context and closes a channel, `drained`, when the last in-flight party has
left. The Resolver has its own gate, so one maintenance run at a time may publish;
the readiness of the destination is read from it without the gate.

**What is hard.** A datagram write can succeed, fail with nothing sent, or fail
with the outcome unknown, and State, ledger and the Collector's retry must all
agree on which. Packets are prepared, then rolled back or committed, while the
clock may stall or go back. Five kinds of goroutine compete for one mutex and
one permit, and any may be cut off by Shutdown. The size of a record is computed
four times (compiler, mapper, packer, appender) and the position of a record three
times (normalizer, cursor, returned subset), each time by different code that
must come to the same answer. The hazards in `PROJECT.json`
name the lines where each of these bites.

## 2. Modules and how they follow the code

`DestinationState` — one State through its epochs. `BeginTemplate`, `BeginData`,
`BeginDataStream`, `Append`, `Encode`, `Finish`, `Write`, `Commit`, `Abort`,
`RefreshDue`, `Restart` and `AbortBootstrap` are actions; each takes the checks of
the method in the method's order. A packet is a record with the token, kind, header
times and counters the code holds in `Packet`, and the prior values used for
rollback. Times are small integers, the reserved "no reading" of the clock among
them; the sequence wraps at `SeqModulus`, which stands for 2^32. Buffer sizes are
abstracted to an append or an encoding that may fail.

`SourceLedger` — the ledger, with its two-bit classes as a function.
`ExportContract` — what a request promises, without counters or intervals:
records are covered in order, one batch at a time is in flight and is settled as
a whole, no sendable record is skipped, and after a batch in doubt or a released
one nothing more is sent. `SourceLedger` refines it.

`Packer` — composes `DestinationState` and `SourceLedger` by INSTANCE: a control state for the
loop of `Pack`, with each record a *kind* (invalid, not mappable, too large,
refused by the stream, failing internally, good) and a *lane* (its v9 shape or
its v5 sampling rate). A write chooses one of the results of the transport.

`Runtime` — Start, one request at a time per goroutine, the DNS worker, the
template worker, and `Shutters`, the callers of Shutdown. An action is one
critical section of the lifecycle mutex, one operation on the permit channel, or
one call outside both. Acquiring the permit is three steps: `Ask` (the context is
looked at before the select), `Receive` (the select, where a caller that is
cancelled by now may still get the token) and `Recheck` (the context again, after
the receive: a token taken together with a cancel is given back). From its receive
on a goroutine counts as a holder. `finishPack` sends the token back inside its
critical section, so that is one step. The work done while the permit is held is a loop of
datagram writes which may make a refresh due.

`Resolver` — two maintenance owners run through acquire, lookup, dial and
commit with a clock reading chosen at each point the code takes one. A reader
may take a Snapshot at any time. Dialing and PMTU discovery either succeed or
fail.

`UDPWriter` — the calls of `Write` on one socket, each with the callback
registered by `context.AfterFunc`, which the runtime may start at any time after
cancellation until it is stopped.

`WireSize` — the size arithmetic of the wire contract, of the catalog budgets and
of State, as operators over a shape (protocol and fields) and a record (the
length of each value). `DataPacket` — one datagram at a time, filled in place:
Begin, Append and Finish, with State's account of the packet and the appender's
side by side, and the buffer as a sequence of bytes in which lengths keep their
value and all other bytes only tell what they belong to. A one-shot writer and a
collector that knows the template are its references. The three protocols share
the module, since their appenders differ only in header, set header and what is
written into the header's count.

`Lifetime` — extends `DestinationState` with a collection of the uptime gauges.
`SampleClock` is the reading `Runtime.Lifetime` takes before its locks,
`CopyAndProject` the copy under them with the projection, which uses the copies
only. Any State operations may come in between.

`FieldTable`, `WireContract`, `Compiler`, `Mapper`, `Normalize`, `Configuration` —
the pure part of the pipeline, as operators, layer on layer:

- `FieldTable`: the canonical fields, conversion classes, targets, descriptors and
  built-in shapes of the profiles.
- `WireContract`: what the wire package accepts as value, descriptor, shape,
  catalog and record, and the encoded length of a value.
- `Compiler`: every stage of `Compile` as a sequence of checks in the code's order,
  the first failing one being the error, and the compiled shapes.
- `Mapper`: `mapResult`, with each value's checks in order and the mapper's own
  count of bytes.
- `Normalize`: admission and conversion of each attribute. The producer's order of
  attributes is left open, so with two bad ones either may be reported.
- `Configuration`: the checks of `newRuntime`, the derived mapping configuration,
  the projection of compile errors on diagnostics, and what the later constructors
  check by themselves.

`Pipeline` — the state machine over them: one action per constructor (`CheckConfig`,
`CompileMapping`, `BuildResolver`, `BuildDialer`, `BuildRuntime`), `ConsumeRecord`
for normalization, lookup, mapping and the Packer's size test of the next record,
and `ReturnAnswer` for `returnedSubset`. The packets between are those of `Packer`,
seen here as any split of the valid records into confirmed, ambiguous and unsent. An
attribute value names the memory its octets live in and counts how often they were
copied; what a map or a slice holds is a function from paths to nodes, and the nodes
the stack of `detachValuesBytes` comes to are those with containers all the way up.
The loops of `logCursor.at` are turns of one step each, of which `Turns` are enough
to pass the end of a request. A request meets `ScenariosAssumption`: only containers
hold values, nothing was copied yet, and identities tell the resources of a request
and the scopes of a resource apart. The body of a returned record is empty, since
normalization rejects any other. A text is a kind (an IPv4 address, a MAC, not
UTF-8, ...) with a length; the vocabularies of transports are sampled by members
that the code treats differently.

Modules `MC*` give constants their values. Modules `*_proofs` hold the theorems.

## 3. Runs

| Run | Question | Bounds, and why they suffice |
|---|---|---|
| `state_v5` | Are header times representable and never going back, when the uptime origin is configured and may be exhausted; do the uptime gauges agree with State? | Module `Lifetime`. Clock readings before and after the origin, unaligned, past the uptime limit and past what a header holds; a gauge collection at any point, its reading as old as it likes. |
| `state_v9` | Do sequence, refresh round, bootstrap and appender survive every rollback? | Two shapes, two copies each, so a bootstrap has four packets and a round can stop half way; refresh by time 2 and count 2; 8 tokens. |
| `ledger` | Do counters and interval describe the records; does the ledger implement the contract? | Six records and packets of up to three, so two full packets follow one another with rejected records within, before and after. |
| `packer_ipfix` | Do State and ledger stay coupled, and does the report match the wire? | Two calls, three records of all six kinds, refresh after every message. |
| `packer_v9` | Do packets hold one shape; does each call return? | Two shapes in any order over three records. |
| `packer_v5` | The same coupling with two sampling rates and a clock that passes the uptime limit within a request. | Two calls, three records. |
| `pipeline` | Do the constructors agree with the compiler, the mapper with the wire, the cursor with the normalizer, the returned subset with the ledger? | Some 2 000 configurations: five good ones (each protocol, with profile and with explicit fields) with one member changed to values on both sides of its limits, every field and target selected alone, custom entries of every encoding, budgets around the datagram size. Records that differ from a full one in one attribute, under eight mappings; custom values of every kind and of lengths around each budget, under 21 mappings. Requests of three records of four kinds in three hierarchies with empty scopes and resources. 2^32-1, 2^63-1, the nanoseconds of a millisecond and the last IPFIX instant are scaled to 2 097 152, 10 000 000, 4 and 9 000 000, in the same order; all other limits have the code's values. |
| `runtime` | Permit, drain, socket ownership, endpoint stability. | Three sockets (two successive replacements), two Starts, two Shutdown callers, one request. |
| `runtime_live` | Does Shutdown drain; is a due refresh attempted without the timer? | One of each, under fairness. |
| `resolver` | Is what is served fresh, published by the gate's owner, and the gate released? | Three addresses plus a foreign and an invalid one, staleness limit 2 of a horizon of 4, four generations. |
| `udp_writer` | Does a callback ever touch the deadline of a later write; does cancellation end a write? | Three calls: a late callback can meet the next call and the one after. |
| `data_packet` | Does a collector read back what was appended; do the three size computations agree? | Shapes with least records of one to six bytes, so on both sides of the padding rule; every budget from 24 to 45 bytes and those at the v5 and message limits; values on both sides of the long form and of their cap; up to three records. The 16-bit limit, the 255-byte escape and the 30 v5 records are scaled to 168, 3 and 3 together, so that all are reached. |

CHECK_DEADLOCK is off throughout: a destination with no caller left, and every
bounded instance at its bounds, may stop. What must not stop is stated as
`CallReturns`, `Drains`, `WakeNotLost` and `CancelInterrupts`.

### What the properties say

*State.* `SequenceCountsHandoffs`: between packets the sequence is the number of
units (data records for v5 and IPFIX, packets for v9) in the fully written
datagrams of the epoch, modulo its width; ambiguous, invalid and aborted
transactions do not count. `DataFollowsBootstrap`: no data packet before every
template was fully written its initial number of times in this epoch.
`RefreshBound`: no more data datagrams than the refresh count between two
complete catalogs. `RefreshCoversCatalog`: a round ends only once every template
was fully written since it became due. `HeaderRepresentable` and
`WireTimeMonotone`: header times fit the uptime field and never go back within an
epoch over anything that may have been received. `AppenderReleased`: the shared
appender holds a buffer only while a streamed packet is being filled.

*Gauges.* `GaugesMatchState`: the published remaining uptime is positive exactly
when State would reserve a packet at the reading used, zero exactly when State has
latched exhaustion or would, and never more than the latest header on the wire
leaves, although the clock was read before State was copied.

*Ledger.* `CountsMatchClasses`: the counters are the sizes of the classes.
`IntervalIsPacket`: the interval stands for exactly the records of the packet.
`HandoffInOrder`: nothing sendable precedes a record handed off, and what is in
doubt comes last. `ImplementsContract`.

*Packer.* `NothingStranded`: no packet, appender or ledger packet is left open
when a call has returned, nor when a record is previewed, which reuses the
datagram buffer. `LedgerAccepts`: the ledger never refuses what the
Packer asks, so those internal-error paths are dead. `SequenceMatchesLedger`: the
header sequence counts exactly the records all ledgers confirmed.
`ReportMatchesWire`: each record is reported as the wire saw it.
`NoRecordLostOrRepeated`: success leaves no valid record behind, a transient
outcome hands back every valid record not fully handed off and no other, a
permanent one has no valid record. `PacketsCoupled`: State's packet and the
ledger's hold the same number of records, of one lane.

*Runtime.* `PermitConserved`: the permit is in the channel or with one holder, also
when a caller is cancelled between receiving it and the re-check.
`DrainedOnce`: `drained` is closed once, exactly when Shutdown has begun and
nothing is in flight. `CleanAfterDrain`: a Shutdown that reports the drain leaves
no open socket, write, token or running goroutine. `NothingSentAfterShutdown`:
however Shutdown ended, nothing is published and what is still in flight has its
socket closed. `SocketsOwned`: every open socket is published, attached, just
dialled, or with whoever is about to close it. `EndpointStable`: the endpoint is
neither replaced nor closed under a request or a refresh, except by Shutdown.

*Resolver.* `ServedIsFresh`: no address is served past the retention, counted
from the first lookup that failed to confirm it. `SocketMatchesCurrent`: current
is the address of the published socket. `GateReleased`: the gate is held only by
a run in progress. `EpochKept`: the socket is replaced only by another address
when the lookup no longer returns this one, or by the same one when it expired.

*Writer.* `DeadlineOwned`: a call in its write has its own deadline on the socket,
and no other call's callback is about to change it. `CancelInterrupts`: a
cancelled write returns even if neither peer nor timeout ends it.

*Datagram.* `CollectorReadsBack`: alignment bytes are never read as a record,
variable lengths are unambiguous, and nothing of an earlier datagram shows.
`MatchesOneShot`: the datagram equals what the one-shot writer makes of the same
records, and State's and the appender's accounts never part, so Finish cannot
fail on a length. `FitsMeansAppends`: the Packer's size test and the appender
agree, and the budgets checked at construction leave room for every template and
a least record.

*Pipeline.* `OnlyEndpointIsGeneric`: what the compiler accepts, dialer, State and
Runtime accept too, and every compile error has its diagnostic; only a host the
resolver refuses ends in the generic message. `MappedFits`: a mapped record has on
the wire the size the mapper counted and fits a datagram alone; one refused for
its size would not have fitted. `SameRecord`: custom values come from the record
being mapped. `SubsetIsLedger`: the returned request holds exactly the ambiguous
and unsent records, in order, under their own envelopes, each once, and shares no
octets with the original.

## 4. Fairness

- `Packer`: weak fairness of its step. Pack is synchronous code in one
  goroutine; a write returns, since it has a deadline.
- `Runtime`: weak fairness of each goroutine's steps; strong fairness of acquiring
  the permit, since a Go channel queues its receivers first-come first-served;
  strong fairness of leaving a write loop, since requests, bootstraps and rounds
  have finitely many datagrams. Lookups, dials and writes are given deadlines by
  the code, so they return. Nothing forces callers, timers or Shutdown to come.
- `UDPWriter`: weak fairness of the call's and the callback's goroutines; none
  of the network, of cancellation or of the deadline timer.

## 5. What is proved

The theorems hold for every value of the constants that meets the assumptions named
in the modules: positive limits, and the ranges that configuration validation
guarantees. `Packer` adds two. `InstanceAssumption` repeats the assumptions of
State and ledger for the constants it passes to them, and `MaxRecords <=
MaxPendingValid` says that a packet never has more records than the ledger takes,
since the configured limit is at most 1024 (`state.go:26` and `:109`) and the
ledger's is 1024 (`ledger.go:8`).

| Theorem | Argument |
|---|---|
| **`SourceLedger_proofs`** | |
| `LedgerTypes`, `CountsAreSizes`, `IntervalExact`, `HandoffOrdered` | One inductive invariant, `LedgerInv`. The counters alone are not inductive: settling a packet adds the interval's valid count, so the interval must be known to contain exactly the packet's records, and order needs the cursor to lie beyond all of them. |
| `LedgerImplementsContract` | Each ledger step maps to a contract step or stutters, from `LedgerInv`. |
| **`DestinationState_proofs`** | |
| `StateTypes` | `TypeInv` with the ranges of refresh progress, which the counter increments need. |
| `WireTimeIsMonotone` | `TimeInv` and `PendingTime`: the reserved wall is at least the time of everything that may have been sent, and a pending packet's time and rollback value lie on the right sides of it. |
| `AppenderIsReleased` | Every way out of a streamed packet unbinds the appender; inductive with the types. |
| `HeaderIsRepresentable` | From the reservation's own checks, kept by every step that does not reserve. |
| `SequenceCounts` | `SequenceInv`: between the write of a packet and its Commit the sequence is behind the wire by exactly that packet's units, otherwise it equals the units handed off, modulo its width, through every rollback. |
| `RefreshIsComplete` | `RoundInv`: the shapes below the next template index were all fully written since the round began, and a pending packet's rollback values put the round back exactly there. |
| `BootstrapPrecedesData` | `BootInv`: every shape has at least as many full copies as rounds are complete, one more below the next template index, so "ready" means all of them. It needs `RoundInv`. |
| `RefreshIsBounded` | `BoundInv`: the refresh counter is never behind the data datagrams since the last complete catalog, save for one written and not yet committed, and a data packet is only open while the counter is below the limit. |
| `GaugesAgree` | Of `Lifetime`. State's `TimeInv`, `WireInv` (a published epoch has its origin, and the last header instant on the wire is within the uptime field of the origin in force) and `CollectionInv` (what was observed comes from some reading and the State as copied). The reading may be older than the copies; the projection uses the later of it and the reserved wall. |
| **`Packer_proofs`** | |
| `PackerDrivesState` | The Packer implements State (`S!Spec`): every action contains one State operation or leaves State alone. The theorems of State hold of the composition without being proved again. |
| `NothingIsStranded`, `PacketsAreCoupled` | `PacketInv`: Packer, State and ledger agree on whether a packet is open, on its shape and its records, at each place in the call; just after an append State is one ahead. With `AppenderIsReleased` of State. |
| `LedgerAlwaysAccepts` | `RequestInv` and `LedgerInv`: the record in hand is still unsent and lies behind the open packet's interval, and the ledger has not stopped unless the request has. |
| `SequenceFollowsLedger` | `CountInv`: Commit and the ledger's settlement read the same write result, so both count the packet or neither does, and the two counts are equal between the two. |
| `ReportIsTrue` | `WireInv`: a record's class agrees with what the wire saw of it. It is off only for the records of the packet whose write has just returned. |
| `NothingIsLostOrRepeated` | `OutcomeInv` with `RequestInv` and `WireInv`: a call which did not stop has flushed its packet, one which stopped covered the remaining records without sending them. |
| `RequestsKeepContract` | A Pack makes a new ledger, which is the contract's initial state; every other action contains one ledger operation or leaves the ledger alone, and from `LedgerInv` that is a step of the contract (`ContractSteps`). So no request of the composition skips a record, splits a packet or sends after a stop. |
| **`Runtime_proofs`** | |
| `PermitIsConserved` | `PermitInv`: positions are well-formed, workers not started hold nothing, and the permit is in the channel with nobody at a position that holds it, or exactly one goroutine is at one. The receive enters such a position; a publication, a request, a refresh and the refusal after a receive (`Recheck`) leave it, and each gives the permit back. |
| `RuntimeTypes`, `DrainIsClosedOnce` | `CountInv`, `RegisteredInv`, `OwnerInv`: the count of active calls is the number of registered operations, which are those that run, and `drained` is 1 exactly when it is zero after closing. |
| `DrainIsClean`, `NothingIsSentLate`, `SocketsAreOwned`, `EndpointIsStable` | `RuntimeInv`: which sockets are published, attached, retired or about to be closed at each position (`EndpointInv`), what Shutdown has closed at each of its own (`CloseInv`, `FlightInv`), and that an endpoint in use is kept by the permit (`StableInv`). Ownership is inductive only together with the lifecycle phase and the permit. |
| **`Transport_proofs`** | |
| `GateIsReleased`, `SocketIsCurrent` | Of `Resolver`. `GateInv`: a held gate has exactly one run in progress, with the gate's generation, and a lookup is in flight only while its owner waits. `SocketInv`: a candidate about to be published is the address selected. |
| `EpochIsKept`, `ServedAddressIsFresh` | Of `Resolver`. `SocketInv`: a candidate equal to the published address was chosen because that had expired. `Fresh`: the recorded start of staleness is the first failure since the address was confirmed, and availability is withdrawn at any reading past the retention. |
| `DeadlineIsOwned` | Of `UDPWriter`. `WriterInv`: calls exclude one another, a callback runs only inside its call, and the socket's deadline belongs to the call inside. |
| **`DataPacket_proofs`** | |
| `PacketInvariant` | `PacketInv`: the counts and bytes that appender and State keep are the sizes of the records held (`Accounted`), and the buffer starts with the header space and those records' encodings (`Filling`), or with the whole datagram once it is finished (`Finished`). The buffer is reused, so nothing is known of it beyond that prefix. |
| `FitsMeansAppendsHolds` | The size arithmetic alone: a least record fits what the catalog budget leaves (`CatalogHoldsRecord`, `CatalogHoldsTemplate`), and padding is monotone enough that a first record within the minimum packet meets no other limit. |
| `MatchesOneShotHolds` | `PacketInv`, and that the encoding of records and one more is the encoding of the records followed by the one more. |
| `CollectorReadsBackHolds` | `MatchesOneShotHolds`, then two inductions: reading a field returns it and stops at its end, so reading records returns each and stops where the padding begins, which is shorter than any record. |
| **`Pipeline_proofs`** | |
| `RecordsAreTheSame` | `CursorInv`: the cursor stands at a place of the request which no consumed record lies behind, and its ordinal is the number of records before that place. A turn moves its place on by one, so `Turns` of them pass the end, and the loops stop at the record whose ordinal is wanted, however many records were passed over without a lookup. |
| `ReturnedIsLedger` | `CursorInv` gives one result, and so one class, for each record. The ordinal `returnedSubset` counts for a record is its position among the normalized ones (`OrdinalIsNth`). Then, for scopes, resources and the request in turn, the rows of what is kept are the kept ones of its rows, because concatenation is a homomorphism (`ScopeCopyRows`, `ResourceCopyRows`, `SubsetRows`); an envelope is kept once; and octets in the copy were copied once where those of the request never were (`SubsetCopies`, `RequestCopies`). |
| `DiagnosticsAreNamed` | `ConstructionInv`: what the checks passed so far establish of the configuration, and that the mapper is the compiled one. Each stage of the compiler is a list of checks whose every entry has a diagnostic, so the first that fails has one (`FirstTells`). A configuration in which none fails has a catalog with positive, bounded sizes and the sampling and origin its protocol wants, which is all that dialer, State and Runtime ask for. |
| `RecordsFit` | `FitsInv`: `ConstructionInv` for the mapper, `CursorInv` for the record, and no results before the exporter is ready. The values of a mapped record have the lengths their descriptors allow, so the mapper's byte count is the body the wire sums up (`MappingIsBody`, `SetIsBody`), and its packet is the wire's (`PacketOfRecord`). The mapper gives up at the first field that overruns; alignment is monotone in the length (`AlignedMonotone`), so the whole record would not have fitted either (`BindingExplained`, `LargeUnfit`). Compiled shapes have distinct families (`CompiledFamilies`), so the packer finds the shape that the mapper chose. |

Every invariant and every action property that a run checks is a theorem.

Sizes are sums over fields, and datagrams are concatenations over fields and records.
The library's induction theorems take a predicate as a parameter, which the provers
cannot instantiate. `WireSize_proofs`, the lemmas on sums, concatenations, images and
picked members that `DataPacket_proofs` and `Pipeline_proofs` rest on, uses the set of
numbers that satisfy the predicate instead: were it not all numbers, its complement
would have a least element (`WFMin`), which the induction step excludes. From this
follow that recursive functions over the numbers unwind (`Iteration`, `Unwinding`) and
what sums and concatenations are.

`PacketAssumption` states what `NewShape` and `NewState` check: fields of positive or
variable length, variable ones for IPFIX only, budgets within the sixteen bits of a
length, and at least one record to a packet. `ScenariosAssumption` says what decoding
leaves: the lists of a request and of a configuration are finite, attribute lengths and
the optional lengths of custom entries are not negative, a Boolean member has one of its
three values, and the host is of one of the kinds the parser tells apart.
`ContractAssumption` and `MapperAssumption` order the integer limits, which are smaller
in the runs than in the code; `CompilerAssumption` says that the largest datagram is within
sixteen bits.

Only model-checked: the liveness properties (`CallReturns`, `Drains`, `WakeNotLost`,
`CancelInterrupts`), since fairness is outside the prover's reach.

## 6. What is not modelled

- The bytes of headers, templates and single values, which `DataPacket` treats as
  opaque; template sets are only a size.
- The strict decoding of configuration members (`config_decode.go`, the JSON
  decoders of `mapping/config.go`), the syntax of hostnames and endpoints, and the
  wording of diagnostics.
- The catalog fingerprint, and the recovery from a lookup callback that panics.
- The Collector's helper around Start, Shutdown, queue and retry (external), and the
  counters of the telemetry, which change no modelled state.
- Test beds and interoperability tools (`src/integration`, more than a quarter of the Go
  code that is not a test): harnesses around external processes.

## 7. Behaviours worth knowing

- `RefreshDue` called while a data packet is pending sets its mark, and a later
  failed Encode or Abort restores the earlier one. The mark is lost until the
  next call; the Runtime calls both under the permit, so it does not happen there.
- `Restart`, `AbortBootstrap` and `BeginData` are used only by tests; the model
  keeps them. Restart resets the reserved wall clock, so header time may go back
  from one epoch to the next.
- An invalid write result is treated as "nothing handed off". An internal error
  of Pack is permanent even with records not yet sent.
- Several checks can never fail: the ledger's refusals (`LedgerAccepts`), the
  internal error after `openData`'s loop, a second `ErrRefreshRequired` at one
  clock reading, token checks behind the maintenance gate.
- A second Shutdown caller waits until the first has closed the sockets. A failed
  Pack sends no refresh wake; the refresh waits for the timer.
- A candidate socket seen by Shutdown is closed both by it and by its owner; the
  second close is harmless. The starting goroutine may still be about to launch
  the DNS worker when the drain is reported, but it then launches nothing.

## 8. Plan

Done, in this order: State, ledger and contract, Packer, Runtime, Resolver, UDP
writer, sizes and datagrams; first theorems on four of them; then the uptime
gauges, and configuration, compiler, normalization, mapping and adapter as one
pipeline.

Then the safety properties of State, gauges, Resolver, Runtime and Packer as theorems,
in this order, with the Packer shown to implement State; then the datagram, the
adapter's cursor and returned subset, and the compiler's diagnostics and the
mapper's sizes.

Last the requests of the Packer under the export contract. Left: the lookups of the
adapter inside a Packer run (the two are composed only through the results a record can
have), and the bytes of headers and templates.
