------------------------------- MODULE Pipeline -------------------------------
(***************************************************************************)
(* One exporter from its configuration to the answer of one ConsumeLogs:   *)
(* the checks and constructors of newRuntime (config.go), then the         *)
(* adapter (logs_exporter.go) that has every record normalized, mapped and *)
(* packed, serves the custom lookups through a cursor of its own and       *)
(* returns the records worth a retry.                                      *)
(*                                                                         *)
(* A request is a sequence of resources [id, attrs, scopes], a scope is    *)
(* [id, attrs, records], a record [id, body, attrs].  An attribute value   *)
(* is [type, n, text, backing, below]: backing is the memory of octets and *)
(* how often it was copied, below is what a map or a slice holds, nodes    *)
(* [type, backing] by their path.  The packets are those of Packer; here   *)
(* the valid records are confirmed, then ambiguous, then unsent, split     *)
(* anywhere.                                                               *)
(***************************************************************************)
EXTENDS Configuration, Normalize

CONSTANT Scenarios      \* the pairs of a public configuration and a request

IsSequence(s) == s \in Seq(Range(s))

Containers == {"map", "slice"}

\* The nodes that the stack of detachValuesBytes comes to below a container.
Reached(below) == {p \in DOMAIN below : \A n \in 1 .. Len(p) - 1 : below[SubSeq(p, 1, n)].type \in Containers}

\* A decoded map of attributes: texts and octets have a length, only containers hold values, and
\* nothing was copied yet.
IsMap(attrs) ==
  \A key \in DOMAIN attrs : LET v == attrs[key] IN
    /\ v.n \in Int /\ (v.type \in {"str", "bytes"} => v.n \in Nat)
    /\ v.backing.copies = 0 /\ \A p \in DOMAIN v.below : v.below[p].backing.copies = 0
    /\ DOMAIN v.below = IF v.type \in Containers THEN Reached(v.below) ELSE {}

\* The identities stand for the places in the hierarchy, so that envelopes are told apart by them.
IsScope(scope) ==
  /\ IsSequence(scope.records) /\ IsMap(scope.attrs)
  /\ \A k \in DOMAIN scope.records : scope.records[k].id # "none" /\ IsMap(scope.records[k].attrs)

IsResource(resource) ==
  /\ IsSequence(resource.scopes) /\ IsMap(resource.attrs)
  /\ \A j \in DOMAIN resource.scopes : IsScope(resource.scopes[j])
  /\ \A j, k \in DOMAIN resource.scopes : resource.scopes[j].id = resource.scopes[k].id => j = k

IsRequest(logs) ==
  /\ IsSequence(logs)
  /\ \A i \in DOMAIN logs : IsResource(logs[i])
  /\ \A i, j \in DOMAIN logs : logs[i].id = logs[j].id => i = j

\* A decoded configuration: its lists are lists, its numbers are numbers, and lengths
\* are not negative.
IsConfig(p) ==
  /\ IsSequence(p.fields.list) /\ IsSequence(p.custom.list)
  /\ IsSequence(p.identifiers.list) /\ IsSequence(p.versions.list)
  /\ p.host \in HostKinds /\ p.sampling \in Int /\ p.origin \in Int /\ p.dnsStale \in Int
  /\ \A i \in DOMAIN p.custom.list : LET e == p.custom.list[i] IN
       e.fixed \in Nat \cup {Absent} /\ e.max \in Nat \cup {Absent} /\ e.variable \in {"absent", "false", "true"}

ASSUME ScenariosAssumption == \A s \in Scenarios : IsRequest(s.request) /\ IsConfig(s.config)

VARIABLES
  config,      \* the public configuration
  request,     \* plog.Logs
  phase,       \* how far the exporter is
  refusal,     \* the constructor that refused, and with which diagnostic
  mapper,      \* the compiled mapping
  cursor,      \* logCursor
  results,     \* per ordinal: what became of the record
  classes,     \* Classification of every ordinal
  subset       \* returnedSubset

vars == <<config, request, phase, refusal, mapper, cursor, results, classes, subset>>

NoRefusal == [stage |-> "none", diagnostic |-> "none"]
NoMapper  == [protocol |-> "none"]
NewCursor == [resource |-> 1, scope |-> 1, record |-> 1, ordinal |-> 0]

Init ==
  /\ \E s \in Scenarios : config = s.config /\ request = s.request
  /\ phase = "config" /\ refusal = NoRefusal /\ mapper = NoMapper /\ cursor = NewCursor
  /\ results = <<>> /\ classes = <<>> /\ subset = <<>>

-----------------------------------------------------------------------------
(* Construction.                                                           *)

Advance(ok, next, stage, diagnostic) ==
  /\ phase'   = IF ok THEN next ELSE "refused"
  /\ refusal' = IF ok THEN NoRefusal ELSE [stage |-> stage, diagnostic |-> diagnostic]
  /\ UNCHANGED <<config, request, cursor, results, classes, subset>>

CheckConfig ==
  /\ phase = "config"
  /\ Advance(~First(ConfigChecks(config)).bad, "compile", "config", "named")
  /\ UNCHANGED mapper

CompileMapping ==
  /\ phase = "compile"
  /\ LET c     == MappingConfig(config)
         error == CompileError(c)
     IN  /\ Advance(~error.bad, "resolver", "compile", Projected(error, config.protocol))
         /\ mapper' = IF error.bad THEN NoMapper ELSE CompiledMapper(c)

BuildResolver == phase = "resolver" /\ Advance(NewResolverOK(config), "dialer", "resolver", "generic") /\ UNCHANGED mapper

BuildDialer ==
  phase = "dialer" /\ Advance(NewCandidateDialerOK(config, mapper), "runtime", "dialer", "generic") /\ UNCHANGED mapper

BuildRuntime == phase = "runtime" /\ Advance(NewRuntimeOK(config, mapper), "ready", "runtime", "generic") /\ UNCHANGED mapper

-----------------------------------------------------------------------------
(* The records of a request, and the cursor of the lookups.                *)

\* normalizeAdmittedIndexed: the records in the order they get their ordinals.
ResourceRecords(resource) == FlattenSeq([j \in DOMAIN resource.scopes |-> resource.scopes[j].records])
Enumerated(logs) == FlattenSeq([i \in DOMAIN logs |-> ResourceRecords(logs[i])])

\* Mutant of NextScope: the record index is carried into the next scope.
NextScopeCarrying(c) == [c EXCEPT !.scope = @ + 1]

\* logCursor.at, its innermost reset.
NextScope(c) == [c EXCEPT !.scope = @ + 1, !.record = 1]

NoRecord == [id |-> "none", body |-> "empty", attrs |-> <<>>]

\* The loops of logCursor.at have a record to look at.
AtRecord(logs, c) ==
  /\ c.resource <= Len(logs) /\ c.scope <= Len(logs[c.resource].scopes)
  /\ c.record <= Len(logs[c.resource].scopes[c.scope].records)

Stops(logs, c, want) ==
  want < c.ordinal \/ c.resource > Len(logs) \/ (AtRecord(logs, c) /\ c.ordinal = want)

\* One turn of the loops: to the next record, scope or resource.
Turn(logs, c) ==
  IF AtRecord(logs, c) THEN [c EXCEPT !.record = @ + 1, !.ordinal = @ + 1]
  ELSE IF c.scope <= Len(logs[c.resource].scopes) THEN NextScope(c)
  ELSE [c EXCEPT !.resource = @ + 1, !.scope = 1]

\* As many turns as there are resources, scopes and records take a cursor past the end.
Turns(logs) == Len(logs) + Sum([i \in DOMAIN logs |-> Len(logs[i].scopes)]) + Len(Enumerated(logs))

\* logCursor.at: the cursor where it stops and the record there, if any.
CursorAt(logs, c, want) ==
  LET walk[n \in 0 .. Turns(logs)] ==
        IF n = 0 THEN c ELSE LET d == walk[n - 1] IN IF Stops(logs, d, want) THEN d ELSE Turn(logs, d)
      last == walk[Turns(logs)]
  IN  [cursor |-> last,
       found  |-> IF AtRecord(logs, last) /\ last.ordinal = want
                  THEN logs[last.resource].scopes[last.scope].records[last.record] ELSE NoRecord]

\* The lookup of pushLogs: only integers, strings and octets are answers.
LookupKind(type) ==
  CASE type = "int" -> "int" [] type = "str" -> "string" [] type = "bytes" -> "bytes" [] OTHER -> "none"

Answers(record) ==
  [key \in {k \in DOMAIN record.attrs : LookupKind(record.attrs[k].type) # "none"} |->
     Value(LookupKind(record.attrs[key].type), record.attrs[key].n, record.attrs[key].text)]

-----------------------------------------------------------------------------
(* One record: Packer.consume up to the packet.                            *)

\* Packer.shapeIndex: 0 when no shape has the family of the mapped record.
ShapeIndex(m, family) ==
  LET fit == {i \in DOMAIN m.shapes : m.shapes[i].family = family} IN IF fit = {} THEN 0 ELSE CHOOSE i \in fit : TRUE

\* Packer.sampling: v5 has fourteen bits for the rate.
SamplingOK(m, record) == m.protocol # "v5" \/ (Has(record, "flow.sampling_rate") /\ Lookup(record, "flow.sampling_rate").n <= 16383)

\* Packer.minimumDataPacketFits.
MinimumDataPacketFits(m, shape, record) ==
  LET size == WireRecordSize(shape, record)
      set  == DataSetSize(shape, size, 1)
  IN  size \notin {Invalid, Bounds} /\ set # Bounds /\ PacketLength(m.protocol, 0, set) <= m.maxDatagram

\* classifyNormalizeError and classifyMappingError: the reason a rejected record is counted under.
RejectionLabel ==
  "unsupported_body" :> "unsupported_body" @@ "missing_required" :> "missing_field" @@ "missing_field" :> "missing_field"
  @@ "invalid_type" :> "invalid_type" @@ "invalid_value" :> "invalid_value" @@ "value_invalid" :> "invalid_value"
  @@ "map_miss" :> "map_miss" @@ "family_mismatch" :> "family_mismatch" @@ "protocol_mismatch" :> "protocol_mismatch"
  @@ "time_invalid" :> "time_invalid" @@ "custom_missing" :> "custom_unavailable" @@ "custom_invalid" :> "custom_invalid"
  @@ "record_invalid" :> "record_invalid" @@ "budget_exceeded" :> "record_too_large"

NoMapping == [ok |-> FALSE, reason |-> "", family |-> "", values |-> <<>>, bytes |-> 0, losses |-> <<0, 0>>, looked |-> FALSE]

Result(stage, label, mapped, found) == [stage |-> stage, label |-> label, mapped |-> mapped, found |-> found]

\* The verdict on a record that was mapped.
Verdict(m, record, mapped, found) ==
  LET index == ShapeIndex(m, mapped.family)
      wired == [family |-> mapped.family, values |-> mapped.values]
  IN  IF index = 0 THEN Result("shape", "family_mismatch", mapped, found)
      ELSE IF ~SamplingOK(m, record) THEN Result("sampling", "invalid_value", mapped, found)
      ELSE IF ~MinimumDataPacketFits(m, m.shapes[index], wired) THEN Result("packet", "record_too_large", mapped, found)
      ELSE Result("valid", "", mapped, found)

\* The cursor moves only when a custom field was looked up.
AcceptMapped(record, at, mapped) ==
  LET found == IF mapped.looked THEN at.found.id ELSE "none" IN
  /\ cursor'  = IF mapped.looked THEN at.cursor ELSE cursor
  /\ results' = Append(results, IF mapped.ok THEN Verdict(mapper, record, mapped, found)
                                ELSE Result("mapping", RejectionLabel[mapped.reason], mapped, found))

ConsumeRecord ==
  /\ phase = "ready" /\ Len(results) < Len(Enumerated(request))
  /\ LET ordinal == Len(results)
         source  == Enumerated(request)[ordinal + 1]
         at      == CursorAt(request, cursor, ordinal)
     IN  \E error \in NormalizeErrors(source) :
           IF error # ""
           THEN results' = Append(results, Result("normalize", RejectionLabel[error], NoMapping, "none")) /\ UNCHANGED cursor
           ELSE LET record == Normalized(source) IN
                AcceptMapped(record, at, MapResult(mapper, record, Answers(at.found)))
  /\ UNCHANGED <<config, request, phase, refusal, mapper, classes, subset>>

-----------------------------------------------------------------------------
(* The answer: returnedSubset.                                             *)

ToReturn == {"ambiguous", "unsent"}

\* The classification when the first confirmed valid records were confirmed and the ones up to handed were handed over.
Classified(confirmed, handed) ==
  [n \in DOMAIN results |->
     LET rank == Cardinality({i \in 1 .. n : results[i].stage = "valid"}) IN
     IF results[n].stage # "valid" THEN "rejected"
     ELSE IF rank <= confirmed THEN "confirmed" ELSE IF rank <= handed THEN "ambiguous" ELSE "unsent"]

\* MoveTo and CopyTo: the same octets in memory of their own.
Copied(memory) == [name |-> memory.name, copies |-> memory.copies + 1]
Own(node) == IF node.type = "bytes" THEN Copied(node.backing) ELSE node.backing

\* Mutant of Detached: containers are left alone.
DetachedShallow(v) == [type |-> v.type, n |-> v.n, text |-> v.text, backing |-> Own(v), below |-> v.below]

\* detachValuesBytes: every octet leaf of a value gets memory of its own.
Detached(v) ==
  LET owned == IF v.type \in Containers THEN Reached(v.below) ELSE {} IN
  [type |-> v.type, n |-> v.n, text |-> v.text, backing |-> Own(v),
   below |-> [p \in DOMAIN v.below |->
                IF p \in owned THEN [type |-> v.below[p].type, backing |-> Own(v.below[p])] ELSE v.below[p]]]

DetachMap(attrs) == [key \in DOMAIN attrs |-> Detached(attrs[key])]

\* The number of records before record k of scope j of resource i.
OrdinalOf(logs, i, j, k) ==
  Sum([h \in 1 .. i - 1 |-> Len(ResourceRecords(logs[h]))])
  + Sum([h \in 1 .. j - 1 |-> Len(logs[i].scopes[h].records)]) + k - 1

\* returnedSubset: an envelope is copied once, at its first record to return.
ReturnedRecord(record) == [id |-> record.id, body |-> record.body, attrs |-> DetachMap(record.attrs)]

ReturnedRecords(logs, class, i, j) ==
  LET all == logs[i].scopes[j].records IN
  FlattenSeq([k \in DOMAIN all |->
    IF class[OrdinalOf(logs, i, j, k) + 1] \in ToReturn THEN <<ReturnedRecord(all[k])>> ELSE <<>>])

ReturnedScopes(logs, class, i) ==
  FlattenSeq([j \in DOMAIN logs[i].scopes |->
    LET records == ReturnedRecords(logs, class, i, j) IN
    IF records = <<>> THEN <<>>
    ELSE <<[id |-> logs[i].scopes[j].id, attrs |-> DetachMap(logs[i].scopes[j].attrs), records |-> records]>>])

ReturnedSubset(logs, class) ==
  FlattenSeq([i \in DOMAIN logs |->
    LET scopes == ReturnedScopes(logs, class, i) IN
    IF scopes = <<>> THEN <<>>
    ELSE <<[id |-> logs[i].id, attrs |-> DetachMap(logs[i].attrs), scopes |-> scopes]>>])

\* pushLogs after Pack: nothing is returned unless a record is worth a retry.
ReturnAnswer ==
  /\ phase = "ready" /\ Len(results) = Len(Enumerated(request))
  /\ LET valid == Cardinality({n \in DOMAIN results : results[n].stage = "valid"}) IN
     \E confirmed \in 0 .. valid : \E handed \in confirmed .. valid :
       /\ classes' = Classified(confirmed, handed)
       /\ subset'  = IF confirmed = valid THEN <<>> ELSE ReturnedSubset(request, Classified(confirmed, handed))
  /\ phase' = "answered"
  /\ UNCHANGED <<config, request, refusal, mapper, cursor, results>>

Next ==
  \/ CheckConfig \/ CompileMapping \/ BuildResolver \/ BuildDialer \/ BuildRuntime
  \/ ConsumeRecord \/ ReturnAnswer

Spec == Init /\ [][Next]_vars

-----------------------------------------------------------------------------
(* Properties.                                                             *)

\* Compile and the constructors after it check the same limits with code of their own; were they
\* to disagree, a user would get "invalid configuration" with no rule to act on.  Only a host that
\* NewResolver refuses may end that way: whatever compiles is accepted by NewCandidateDialer,
\* NewState and NewRuntime, and every error of Compile has a diagnostic.
OnlyEndpointIsGeneric ==
  refusal.diagnostic = "generic" => refusal.stage = "resolver" /\ config.host \in {"zoned", "badname"}

\* The size of a result on the wire, from the lengths of its values.
WirePacket(m, mapped) ==
  LET index   == ShapeIndex(m, mapped.family)
      shape   == m.shapes[index]
      lengths == [i \in DOMAIN shape.fields |-> FieldLength(shape.fields[i], mapped.values[i])]
  IN  IF \E i \in DOMAIN lengths : lengths[i] \in {Invalid, Bounds} THEN Bounds
      ELSE LET set == DataSetSize(shape, Sum(lengths), 1) IN
           IF set = Bounds THEN Bounds ELSE PacketLength(m.protocol, 0, set)

\* The mapper's byte budget and the wire's size arithmetic are separate code.  A record that the
\* mapper accepts is accepted by its shape with the size the mapper counted and fits a datagram
\* alone, so the packer never has to invalidate it for its size; one that the mapper refuses for
\* its size would indeed not have fitted.
MappedFits ==
  \A n \in DOMAIN results :
    LET mapped == results[n].mapped IN
    /\ results[n].stage \notin {"shape", "packet"} /\ mapped.reason # "record_invalid"
    /\ mapped.ok =>
         /\ WireRecordSize(mapper.shapes[ShapeIndex(mapper, mapped.family)],
                           [family |-> mapped.family, values |-> mapped.values]) = mapped.bytes
         /\ WirePacket(mapper, mapped) \in 0 .. mapper.maxDatagram
    /\ mapped.reason = "budget_exceeded" => WirePacket(mapper, mapped) \notin 0 .. mapper.maxDatagram

\* The normalizer counts the records on its own and the lookup walks the request with a cursor
\* that moves only when it is asked: the custom values of a record come from that record, whatever
\* records and empty scopes were passed over before.
SameRecord ==
  \A n \in DOMAIN results : results[n].found \in {"none", Enumerated(request)[n].id}
                            /\ (results[n].mapped.looked => results[n].found # "none")

\* The records of a request with their envelopes.
ScopeRows(resource, scope) == [k \in DOMAIN scope.records |-> <<resource.id, scope.id, scope.records[k].id>>]
ResourceRows(resource) == FlattenSeq([j \in DOMAIN resource.scopes |-> ScopeRows(resource, resource.scopes[j])])
Rows(logs) == FlattenSeq([i \in DOMAIN logs |-> ResourceRows(logs[i])])

\* The memory of the octets in a value.
Backings(v) ==
  {x.backing : x \in {y \in {v} \cup Range(v.below) : y.type = "bytes"}}

MapBackings(attrs) == UNION {Backings(attrs[key]) : key \in DOMAIN attrs}

RequestBackings(logs) ==
  UNION {MapBackings(logs[i].attrs) \cup
         UNION {MapBackings(logs[i].scopes[j].attrs) \cup
                UNION {MapBackings(logs[i].scopes[j].records[k].attrs) : k \in DOMAIN logs[i].scopes[j].records}
                : j \in DOMAIN logs[i].scopes} : i \in DOMAIN logs}

\* What a retry gets is exactly the ambiguous and unsent records, in order and under their own
\* resource and scope, every envelope once, and shares no octets with the request it outlives.
SubsetIsLedger ==
  phase = "answered" =>
    LET rows == Rows(request) IN
    /\ Rows(subset) = FlattenSeq([n \in DOMAIN rows |-> IF classes[n] \in ToReturn THEN <<rows[n]>> ELSE <<>>])
    /\ \A i, j \in DOMAIN subset : subset[i].id = subset[j].id => i = j
    /\ \A i \in DOMAIN subset : \A j, k \in DOMAIN subset[i].scopes :
         subset[i].scopes[j].id = subset[i].scopes[k].id => j = k
    /\ RequestBackings(subset) \cap RequestBackings(request) = {}
=============================================================================
