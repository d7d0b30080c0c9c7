-------------------------------- MODULE Mapper --------------------------------
(***************************************************************************)
(* The per-record mapping (internal/mapping/runtime.go): a normalized      *)
(* record [family, values] and the record's own attributes become the      *)
(* values of one shape, or a reason why not.                               *)
(*                                                                         *)
(* attrs is what the exporter's lookup answers: a function from attribute  *)
(* keys to integer, string and octet values, other types being absent.     *)
(* Times are scaled like the other wide integers: Milli stands for the     *)
(* nanoseconds of a millisecond, MaxIPFIXNanos for the last IPFIX instant. *)
(***************************************************************************)
EXTENDS Compiler

CONSTANTS
  Milli,          \* nanoseconds of a millisecond
  MaxIPFIXNanos   \* last Unix time that dateTimeNanoseconds can carry

ASSUME MapperAssumption == Milli \in Nat \ {0} /\ MaxIPFIXNanos \in Nat /\ Milli * (Max32 + 1) < MaxIPFIXNanos /\ MaxIPFIXNanos < Max63

NoValue == Value("none", 0, "")

Has(record, field) == field \in DOMAIN record.values
Lookup(record, field) == IF Has(record, field) THEN record.values[field] ELSE NoValue

Token(map, token) == IF token \in DOMAIN map THEN map[token] ELSE Absent
Transport(m, record) == Token(m.transport, Lookup(record, "network.transport").text)
Version(m, record)   == Token(m.network, Lookup(record, "network.type").text)

-----------------------------------------------------------------------------
(* valueFor: why a value cannot be taken, and the value.                   *)

\* Limits tighter than those of the normalizer.
MappedLimit(field, family) ==
  CASE field = "flow.fragment_offset"                             -> 8191
    [] field \in Flow({"src_net", "dst_net"})                     -> IF family = "ipv4" THEN 32 ELSE 128
    [] field \in Flow({"src_vlan", "dst_vlan", "vlan_id"})        -> 4095
    [] field = "flow.ipv6_flow_label"                             -> 1048575
    [] field = "flow.observation_point_id"                        -> Max32
    [] OTHER                                                      -> Max63

\* validateMappedTime: IPFIX bounds the instant, the others the uptime in whole milliseconds.
TimeFits(m, d, n) ==
  IF d.protocol = "ipfix" THEN d.encoding = "milliseconds" \/ n <= MaxIPFIXNanos
  ELSE /\ m.origin # Absent /\ n >= m.origin
       /\ (n - m.origin) % Milli = 0 /\ (n - m.origin) \div Milli <= Max32

ICMPTypeCodeChecks(m, record) ==
  <<Check(record.family # "ipv4", "family_mismatch", ""),
    Check(~Has(record, "flow.icmp_type") \/ ~Has(record, "flow.icmp_code"), "missing_field", ""),
    Check(~Has(record, "network.transport"), "protocol_mismatch", ""),
    Check(Transport(m, record) = Absent, "map_miss", ""),
    Check(Transport(m, record) # 1, "protocol_mismatch", "")>>

CanonicalChecks(m, d, record) ==
  LET f     == d.field
      n     == Lookup(record, f).n
      icmp  == f \in Flow({"icmp_type", "icmp_code"})
      flags == f = "flow.ip_flags"
      four  == record.family = "ipv4"
  IN  <<Check(icmp /\ ~Has(record, "network.transport"), "protocol_mismatch", ""),
        Check(icmp /\ Transport(m, record) = Absent, "map_miss", ""),
        Check(icmp /\ Transport(m, record) # (IF four THEN 1 ELSE 58), "protocol_mismatch", ""),
        Check(~Has(record, f), "missing_field", ""),
        Check(f = "network.transport" /\ Transport(m, record) = Absent, "map_miss", ""),
        Check(f = "network.type" /\ Version(m, record) = Absent, "map_miss", ""),
        Check(f = "network.type" /\ Version(m, record) # NetworkVersions[record.family], "family_mismatch", ""),
        Check(flags /\ Lookup(record, "flow.type").text # "ipfix", "protocol_mismatch", ""),
        Check(flags /\ n > (IF four THEN 3 ELSE 1), "value_invalid", ""),
        Check(n > MappedLimit(f, record.family), "value_invalid", ""),
        Check(f \in AbsoluteTimes /\ ~TimeFits(m, d, n), "time_invalid", "")>>

CanonicalValue(m, d, record) ==
  LET f == d.field
      v == Lookup(record, f)
  IN  CASE f = ICMPTypeCode                                  ->
             Value("uint", Lookup(record, "flow.icmp_type").n * 256 + Lookup(record, "flow.icmp_code").n, "")
        [] f = "network.transport"                           -> Value("uint", Transport(m, record), "")
        [] f = "network.type"                                -> Value("uint", Version(m, record), "")
        [] f = "flow.ip_flags"                               -> Value("uint", v.n * 32, "")
        [] f = "flow.ipv6_flow_label" /\ d.protocol = "v9"   -> Value("bytes", 3, "")
        [] OTHER                                             -> v

\* normalizeCustomValue: text that parses as an address or a MAC becomes one.
AddressTexts == {"ip4", "ip6", "ip4in6"}

CustomCheckList(d, v) ==
  LET text     == v.kind = "string"
      kind     == IF d.encoding = "string" THEN "string" ELSE "bytes"
      elastic  == d.encoding \in Elastic
  IN  <<Check(v.kind = "none", "custom_missing", ""),
        Check(d.encoding = "ipv4_address" /\ ~(text /\ v.n <= 15 /\ v.text \in AddressTexts), "custom_invalid", ""),
        Check(d.encoding = "ipv6_address" /\ ~(text /\ v.n <= 39 /\ v.text \in AddressTexts), "custom_invalid", ""),
        Check(d.encoding = "ipv4_address" /\ v.text # "ip4", "family_mismatch", ""),
        Check(d.encoding = "ipv6_address" /\ v.text = "ip4", "family_mismatch", ""),
        Check(d.encoding = "mac_address" /\ ~(text /\ v.n <= 17 /\ v.text = "mac"), "custom_invalid", ""),
        Check(elastic /\ (v.kind # kind \/ v.text = "not_utf8"), "custom_invalid", ""),
        Check(elastic /\ d.variable /\ v.n > d.maxLength, "budget_exceeded", ""),
        Check(elastic /\ ~d.variable /\ v.n # d.length, "custom_invalid", ""),
        Check(d.encoding \in Unsigned /\ v.kind \notin {"uint", "int"}, "custom_invalid", ""),
        Check(d.encoding \in Signed /\ v.kind # "int", "custom_invalid", "")>>

CustomValue(d, v) ==
  CASE d.encoding \in {"ipv4_address", "ipv6_address"} -> Value("ip", 0, v.text)
    [] d.encoding = "mac_address"                      -> Value("mac", 0, "")
    [] OTHER                                           -> v

-----------------------------------------------------------------------------
(* mapResult.                                                              *)

Answer(attrs, source) == IF source \in DOMAIN attrs THEN attrs[source] ELSE NoValue

BoundValue(m, d, record, attrs) ==
  IF d.constant THEN Value("uint", 0, "")
  ELSE IF d.custom THEN CustomValue(d, Answer(attrs, d.source)) ELSE CanonicalValue(m, d, record)

ValueChecks(m, d, record, attrs) ==
  IF d.constant THEN <<>>
  ELSE IF d.custom THEN CustomCheckList(d, Answer(attrs, d.source))
  ELSE IF d.field = ICMPTypeCode THEN ICMPTypeCodeChecks(m, record) ELSE CanonicalChecks(m, d, record)

\* The shape of a record: the only one, or the one of its family.
ShapeOf(m, family) == IF Len(m.shapes) = 2 /\ family = "ipv6" THEN 2 ELSE 1

\* validateCanonicalAddressFamilies: the endpoints are of the record's family.
EndpointsAgree(record) ==
  /\ \A f \in {"source.address", "destination.address"} :
       Has(record, f) => ValueOKForFamily(Lookup(record, f), record.family) /\ Lookup(record, f).kind = "ip"
  /\ \A f \in Flow({"next_hop", "bgp_next_hop"}) : Has(record, f) => Lookup(record, f).kind = "ip"

\* The check of one binding after its value: its length, the record so far, the packet so far.
LengthChecks(m, shape, i, lengths) ==
  LET bytes == Sum(SubSeq(lengths, 1, i)) IN
  <<Check(lengths[i] = Invalid, IF shape.fields[i].custom THEN "custom_invalid" ELSE "value_invalid", ""),
    Check(lengths[i] = Bounds, "budget_exceeded", ""),
    Check(bytes > Max16, "budget_exceeded", ""),
    Check(MappingDataBytesForMinimum(m.protocol, bytes, RecordLength(shape)) > m.maxDatagram, "budget_exceeded", "")>>

Losses(m, shapeIndex) ==
  <<Cardinality({j \in DOMAIN m.classes[shapeIndex] : m.classes[shapeIndex][j] \in LossyClasses}),
    Cardinality({j \in DOMAIN m.shapes[shapeIndex].fields : CanonicalSourceLoss(m.protocol, m.shapes[shapeIndex].fields[j].field)})>>

Reversed(fields, values) ==
  \E i, j \in DOMAIN fields : fields[i].field = "flow.start" /\ fields[j].field = "flow.end" /\ values[i].n > values[j].n

BindingErrors(m, shape, record, attrs, lengths) ==
  [i \in DOMAIN lengths |-> First(ValueChecks(m, shape.fields[i], record, attrs) \o LengthChecks(m, shape, i, lengths))]

\* mapResult after its loop: stop is the binding that failed, or 0.
MapReason(shape, early, values, errors, stop) ==
  IF early THEN "family_mismatch"
  ELSE IF stop # 0 THEN errors[stop].code
  ELSE IF Reversed(shape.fields, values) THEN "time_invalid"
  ELSE IF WireRecordOK(shape.family, values) THEN "" ELSE "record_invalid"

\* looked tells whether the exporter's lookup was asked before the call returned.
Mapped(m, index, early, values, lengths, stop, reason) ==
  LET shape == m.shapes[index] IN
  [ok |-> reason = "", reason |-> reason, family |-> shape.family, values |-> values,
   bytes |-> IF reason = "" THEN Sum(lengths) ELSE 0, losses |-> Losses(m, index),
   looked |-> ~early /\ \E i \in DOMAIN lengths : shape.fields[i].custom /\ (stop = 0 \/ i <= stop)]

MapResult(m, record, attrs) ==
  LET index   == ShapeOf(m, record.family)
      shape   == m.shapes[index]
      early   == (~m.agnostic /\ shape.family # record.family) \/ ~EndpointsAgree(record)
      values  == [i \in DOMAIN shape.fields |-> BoundValue(m, shape.fields[i], record, attrs)]
      lengths == [i \in DOMAIN shape.fields |-> FieldLength(shape.fields[i], values[i])]
      errors  == BindingErrors(m, shape, record, attrs, lengths)
      stop    == Failed(errors)
  IN  Mapped(m, index, early, values, lengths, stop, MapReason(shape, early, values, errors, stop))
=============================================================================
