------------------------------ MODULE FieldTable ------------------------------
(***************************************************************************)
(* The field tables of the mapping (internal/mapping/profiles.go) and the  *)
(* built-in shapes of the wire contract (internal/wire/contract.go).       *)
(*                                                                         *)
(* A canonical field is named by its receiver attribute.  Profiles are     *)
(* named by the last part of their identifier.                             *)
(***************************************************************************)
EXTENDS Naturals, Sequences, FiniteSets, SequencesExt, TLC

Families == {"ipv4", "ipv6"}

\* canonicalNames: the 41 receiver attributes in wire order.
CanonicalNames ==
  <<"source.address", "source.port", "destination.address", "destination.port", "network.transport",
    "network.type", "flow.io.bytes", "flow.io.packets", "flow.type", "flow.sequence_num",
    "flow.time_received", "flow.start", "flow.end", "flow.sampling_rate", "flow.sampler_address",
    "flow.tcp_flags", "flow.in_if", "flow.out_if", "flow.ip_tos", "flow.ip_ttl", "flow.ip_flags",
    "flow.fragment_id", "flow.fragment_offset", "flow.ipv6_flow_label", "flow.icmp_type",
    "flow.icmp_code", "flow.src_mac", "flow.dst_mac", "flow.src_vlan", "flow.dst_vlan",
    "flow.vlan_id", "flow.next_hop", "flow.next_hop_as", "flow.src_as", "flow.dst_as",
    "flow.bgp_next_hop", "flow.src_net", "flow.dst_net", "flow.forwarding_status",
    "flow.observation_domain_id", "flow.observation_point_id">>

Canonical == Range(CanonicalNames)

\* The field that v9 makes of two others, and the field of a descriptor that has none.
ICMPTypeCode == "flow.icmp_type_code"
FieldInvalid == ""

\* canonicalField: the names a selection may use and a custom source may not.
Selectable == Canonical \cup {ICMPTypeCode}

AbsoluteTimes == {"flow.time_received", "flow.start", "flow.end"}

\* A sample of the closed vocabulary with the numbers that matter to the mapping.
ProtocolNumbers == "hopopt" :> 0 @@ "icmp" :> 1 @@ "tcp" :> 6 @@ "udp" :> 17 @@ "ipv6-icmp" :> 58
NetworkVersions == "ipv4" :> 4 @@ "ipv6" :> 6

\* validProfile.
ProfileProtocol ==
  [profile \in {"netflow-v5-fixed-v1", "netflow-v9-core-v1", "netflow-v9-timed-v1", "ipfix-core-v1", "ipfix-general-v1"} |->
     CASE profile = "netflow-v5-fixed-v1"                            -> "v5"
       [] profile \in {"netflow-v9-core-v1", "netflow-v9-timed-v1"}  -> "v9"
       [] profile \in {"ipfix-core-v1", "ipfix-general-v1"}          -> "ipfix"]

-----------------------------------------------------------------------------
(* The compatibility matrix.                                               *)

Flow(names) == {"flow." \o n : n \in names}
Endpoints == {"source.address", "source.port", "destination.address", "destination.port"}

\* classFor, one row per protocol; a field in no set has the protocol's default class.
V5Class ==
  [exact        |-> Endpoints \cup Flow({"next_hop", "io.packets", "src_net", "dst_net", "ip_tos"}),
   lossy        |-> Flow({"io.bytes", "in_if", "out_if", "start", "end", "tcp_flags", "src_as", "dst_as"}),
   synthesized  |-> {"network.transport", "flow.sampling_rate"},
   unsupported  |-> Flow({"sampler_address", "next_hop_as"})]

V9Class ==
  [exact        |-> Endpoints \cup Flow({"ip_tos", "src_as", "dst_as", "sampling_rate", "ip_ttl", "src_net",
                      "dst_net", "next_hop", "bgp_next_hop", "src_mac", "dst_mac", "src_vlan", "dst_vlan",
                      "fragment_id", "fragment_offset", "ipv6_flow_label"}),
   lossy        |-> Flow({"io.bytes", "io.packets", "tcp_flags", "in_if", "out_if", "forwarding_status", "vlan_id"}),
   synthesized  |-> {"network.transport", "network.type"} \cup Flow({"start", "end", "icmp_type_code"}),
   inapplicable |-> Flow({"time_received", "ip_flags", "type", "sequence_num", "observation_domain_id",
                      "observation_point_id"})]

IPFIXClass ==
  [exact        |-> Endpoints \cup Flow({"ip_tos", "tcp_flags", "in_if", "out_if", "src_as", "dst_as",
                      "sampling_rate", "ip_ttl", "fragment_id", "fragment_offset", "ipv6_flow_label",
                      "icmp_type", "icmp_code", "src_vlan", "dst_vlan", "vlan_id", "next_hop",
                      "bgp_next_hop", "src_net", "dst_net"}),
   lossy        |-> Flow({"io.bytes", "io.packets", "src_mac", "dst_mac", "forwarding_status",
                      "observation_point_id", "start", "end"}),
   synthesized  |-> {"network.transport", "network.type"} \cup Flow({"time_received", "ip_flags"}),
   inapplicable |-> Flow({"type", "sequence_num", "observation_domain_id"})]

ClassFor(protocol, field) ==
  LET row     == CASE protocol = "v5" -> V5Class [] protocol = "v9" -> V9Class [] protocol = "ipfix" -> IPFIXClass
      default == IF protocol = "v5" THEN "inapplicable" ELSE "unsupported"
      named   == {c \in DOMAIN row : field \in row[c]}
  IN  IF named = {} THEN default ELSE CHOOSE c \in named : TRUE

LossyClasses == {"lossy", "synthesized"}

\* canonicalSourceLoss.
CanonicalSourceLoss(protocol, field) ==
  \/ field \in Flow({"io.bytes", "io.packets"}) /\ protocol \in {"v9", "ipfix"}
  \/ field \in Flow({"observation_point_id", "src_mac", "dst_mac"}) /\ protocol = "ipfix"

\* allowedTarget and isAmbiguous: the targets of a field, and the fields that need one.
Targets(protocol) ==
  CASE protocol = "v9" ->
         "flow.io.bytes" :> {"in_bytes", "out_bytes"} @@ "flow.io.packets" :> {"in_packets", "out_packets"}
    [] protocol = "ipfix" ->
         "flow.io.bytes" :> {"octet_delta_count", "post_octet_delta_count"}
           @@ "flow.io.packets" :> {"packet_delta_count", "post_packet_delta_count"}
           @@ "network.type" :> {"ip_version"} @@ "flow.time_received" :> {"observation_time_nanoseconds"}
           @@ "flow.start" :> {"flow_start_milliseconds"} @@ "flow.end" :> {"flow_end_milliseconds"}
           @@ "flow.src_mac" :> {"source_mac_address", "post_source_mac_address"}
           @@ "flow.dst_mac" :> {"destination_mac_address", "post_destination_mac_address"}

AllowedTarget(protocol, field, target) ==
  field \in DOMAIN Targets(protocol) /\ target \in Targets(protocol)[field]

IsAmbiguous(protocol, field) == field \in DOMAIN Targets(protocol) \ {"flow.start", "flow.end"}

\* familySupport for the protocols with templates: the families a field exists in,
\* and whether its descriptor differs between them.
FamilySupport(protocol, field) ==
  CASE field = "flow.ipv6_flow_label"                                           -> {"ipv6"}
    [] field = "flow.fragment_id"                                               -> IF protocol = "v9" THEN {"ipv4"} ELSE Families
    [] field = ICMPTypeCode                                                     -> IF protocol = "v9" THEN {"ipv4"} ELSE {}
    [] field \in Flow({"icmp_type", "icmp_code"})                               -> IF protocol = "v9" THEN {} ELSE Families
    [] OTHER                                                                    -> Families

FamilyDependent(protocol, field) ==
  \/ field \in {"source.address", "destination.address"} \cup Flow({"next_hop", "bgp_next_hop", "src_net", "dst_net"})
  \/ field \in Flow({"icmp_type", "icmp_code"}) /\ protocol = "ipfix"

-----------------------------------------------------------------------------
(* Descriptors.                                                            *)

Unsigned  == {"unsigned8", "unsigned16", "unsigned32", "unsigned64"}
Signed    == {"signed8", "signed16", "signed32", "signed64"}
Elastic   == {"string", "octet_array"}
Times     == {"nanoseconds", "milliseconds"}

AddressEncoding(family) == IF family = "ipv4" THEN "ipv4_address" ELSE "ipv6_address"

\* DescriptorEncoding.
Encodings == Unsigned \cup Signed \cup Elastic \cup Times \cup {"ipv4_address", "ipv6_address", "mac_address"}

\* naturalEncodingLength: strings and octet arrays have none.
NaturalLength ==
  [e \in Encodings |->
     CASE e \in {"unsigned8", "signed8"}                   -> 1
       [] e \in {"unsigned16", "signed16"}                 -> 2
       [] e \in {"unsigned32", "signed32", "ipv4_address"} -> 4
       [] e \in {"unsigned64", "signed64"} \cup Times      -> 8
       [] e = "ipv6_address"                               -> 16
       [] e = "mac_address"                                -> 6
       [] OTHER                                            -> 0]

\* encodingFromName: what a custom entry may be encoded as.
CustomEncodings == Encodings \ Times

\* v9Identity: element number for IPv4 and IPv6 flows, and encoding.
V9Rows ==
  "flow.io.bytes" :> <<1, 1, "unsigned32">>          @@ "flow.io.packets" :> <<2, 2, "unsigned32">>
  @@ "network.transport" :> <<4, 4, "unsigned8">>    @@ "flow.ip_tos" :> <<5, 5, "unsigned8">>
  @@ "flow.tcp_flags" :> <<6, 6, "unsigned8">>       @@ "source.port" :> <<7, 7, "unsigned16">>
  @@ "source.address" :> <<8, 27, "address">>        @@ "flow.src_net" :> <<9, 29, "unsigned8">>
  @@ "flow.in_if" :> <<10, 10, "unsigned16">>        @@ "destination.port" :> <<11, 11, "unsigned16">>
  @@ "destination.address" :> <<12, 28, "address">>  @@ "flow.dst_net" :> <<13, 30, "unsigned8">>
  @@ "flow.out_if" :> <<14, 14, "unsigned16">>       @@ "flow.next_hop" :> <<15, 62, "address">>
  @@ "flow.src_as" :> <<16, 16, "unsigned32">>       @@ "flow.dst_as" :> <<17, 17, "unsigned32">>
  @@ "flow.bgp_next_hop" :> <<18, 63, "address">>    @@ "flow.end" :> <<21, 21, "unsigned32">>
  @@ "flow.start" :> <<22, 22, "unsigned32">>        @@ "flow.ipv6_flow_label" :> <<31, 31, "octet_array">>
  @@ "flow.icmp_type_code" :> <<32, 32, "unsigned16">> @@ "flow.sampling_rate" :> <<34, 34, "unsigned32">>
  @@ "flow.ip_ttl" :> <<52, 52, "unsigned8">>        @@ "flow.fragment_id" :> <<54, 54, "unsigned32">>
  @@ "flow.src_mac" :> <<56, 56, "mac_address">>     @@ "flow.dst_mac" :> <<57, 57, "mac_address">>
  @@ "flow.src_vlan" :> <<58, 58, "unsigned16">>     @@ "flow.vlan_id" :> <<58, 58, "unsigned16">>
  @@ "flow.dst_vlan" :> <<59, 59, "unsigned16">>     @@ "network.type" :> <<60, 60, "unsigned8">>
  @@ "flow.fragment_offset" :> <<88, 88, "unsigned16">> @@ "flow.forwarding_status" :> <<89, 89, "unsigned8">>

\* ipfixIdentity: wider counters, its own times, flags and ICMP elements, the rest as in v9.
IPFIXRows ==
  "flow.io.bytes" :> <<1, 1, "unsigned64">>          @@ "flow.io.packets" :> <<2, 2, "unsigned64">>
  @@ "flow.tcp_flags" :> <<6, 6, "unsigned16">>      @@ "flow.in_if" :> <<10, 10, "unsigned32">>
  @@ "flow.out_if" :> <<14, 14, "unsigned32">>       @@ "flow.ipv6_flow_label" :> <<31, 31, "unsigned32">>
  @@ "flow.time_received" :> <<325, 325, "nanoseconds">> @@ "flow.start" :> <<156, 156, "nanoseconds">>
  @@ "flow.end" :> <<157, 157, "nanoseconds">>       @@ "flow.ip_flags" :> <<197, 197, "unsigned8">>
  @@ "flow.icmp_type" :> <<176, 178, "unsigned8">>   @@ "flow.icmp_code" :> <<177, 179, "unsigned8">>
  @@ "flow.observation_point_id" :> <<138, 138, "unsigned64">>
  @@ [f \in DOMAIN V9Rows \ {ICMPTypeCode} |-> V9Rows[f]]

\* The targets that name another element than the row of their field.
TargetRows ==
  "out_bytes" :> <<23, "unsigned32">> @@ "out_packets" :> <<24, "unsigned32">>
    @@ "post_octet_delta_count" :> <<23, "unsigned64">> @@ "post_packet_delta_count" :> <<24, "unsigned64">>
    @@ "post_source_mac_address" :> <<81, "mac_address">> @@ "destination_mac_address" :> <<80, "mac_address">>
    @@ "flow_start_milliseconds" :> <<152, "milliseconds">> @@ "flow_end_milliseconds" :> <<153, "milliseconds">>

\* FieldDescriptor; private (v9) and enterprise (IPFIX) are both custom.
PlainDescriptor(protocol, field, id, encoding, length) ==
  [protocol |-> protocol, field |-> field, custom |-> FALSE, constant |-> FALSE, source |-> "", id |-> id,
   pen |-> 0, enterprise |-> FALSE, private |-> FALSE, variable |-> FALSE, length |-> length,
   maxLength |-> 0, encoding |-> encoding]

\* descriptorFor of a field that has a row.
DescriptorFor(protocol, field, target, family) ==
  LET row      == IF protocol = "v9" THEN V9Rows[field] ELSE IPFIXRows[field]
      moved    == target \in DOMAIN TargetRows
      id       == IF moved THEN TargetRows[target][1] ELSE IF family = "ipv4" THEN row[1] ELSE row[2]
      encoding == IF moved THEN TargetRows[target][2]
                  ELSE IF row[3] = "address" THEN AddressEncoding(family) ELSE row[3]
  IN  PlainDescriptor(protocol, field, id, encoding,
                      IF encoding = "octet_array" THEN 3 ELSE NaturalLength[encoding])

HasDescriptor(protocol, field) == field \in DOMAIN (IF protocol = "v9" THEN V9Rows ELSE IPFIXRows)

-----------------------------------------------------------------------------
(* The built-in shapes.                                                    *)

V5Constant(id, encoding) ==
  [PlainDescriptor("v5", FieldInvalid, id, encoding, NaturalLength[encoding]) EXCEPT !.constant = TRUE]

\* builtinV5ExactFields: the element number is the place in the record.
V5Fields ==
  LET order == <<<<"source.address", "ipv4_address">>, <<"destination.address", "ipv4_address">>,
                 <<"flow.next_hop", "ipv4_address">>, <<"flow.in_if", "unsigned16">>, <<"flow.out_if", "unsigned16">>,
                 <<"flow.io.packets", "unsigned32">>, <<"flow.io.bytes", "unsigned32">>,
                 <<"flow.start", "unsigned32">>, <<"flow.end", "unsigned32">>, <<"source.port", "unsigned16">>,
                 <<"destination.port", "unsigned16">>, <<FieldInvalid, "unsigned8">>, <<"flow.tcp_flags", "unsigned8">>,
                 <<"network.transport", "unsigned8">>, <<"flow.ip_tos", "unsigned8">>, <<"flow.src_as", "unsigned16">>,
                 <<"flow.dst_as", "unsigned16">>, <<"flow.src_net", "unsigned8">>, <<"flow.dst_net", "unsigned8">>,
                 <<FieldInvalid, "unsigned16">>>>
  IN  [i \in DOMAIN order |->
        IF order[i][1] = FieldInvalid THEN V5Constant(i, order[i][2])
        ELSE PlainDescriptor("v5", order[i][1], i, order[i][2], NaturalLength[order[i][2]])]

\* The field order v9Fields and ipfixFields share.
CoreOrder ==
  <<"flow.io.bytes", "flow.io.packets", "network.transport", "flow.ip_tos", "flow.tcp_flags", "source.port",
    "source.address", "flow.src_net", "flow.in_if", "destination.port", "destination.address", "flow.dst_net",
    "flow.out_if", "flow.src_as", "flow.dst_as", "flow.sampling_rate", "flow.ip_ttl", "network.type">>
TimedOrder == CoreOrder \o <<"flow.start", "flow.end">>

\* The built-in descriptors agree with the tables of the mapping.
OrderedFields(protocol, order, times, family) ==
  [i \in DOMAIN order |->
     DescriptorFor(protocol, order[i],
       CASE times = "milliseconds" /\ order[i] = "flow.start" -> "flow_start_milliseconds"
         [] times = "milliseconds" /\ order[i] = "flow.end"   -> "flow_end_milliseconds"
         [] OTHER                                             -> "", family)]

\* Two shapes with stated record and template lengths, which NewShape recomputes.
TwoShapes(protocol, order, times, length, templateBytes) ==
  <<[protocol |-> protocol, family |-> "ipv4", id |-> 256, recordLength |-> length, templateBytes |-> templateBytes,
     fields |-> OrderedFields(protocol, order, times, "ipv4")],
    [protocol |-> protocol, family |-> "ipv6", id |-> 257, recordLength |-> length + 24, templateBytes |-> templateBytes,
     fields |-> OrderedFields(protocol, order, times, "ipv6")]>>

\* builtinCatalog.
BuiltinCatalog(profile) ==
  CASE profile = "netflow-v5-fixed-v1" ->
         <<[protocol |-> "v5", family |-> "ipv4", id |-> 1, recordLength |-> 48, templateBytes |-> 0, fields |-> V5Fields]>>
    [] profile = "netflow-v9-core-v1"  -> TwoShapes("v9", CoreOrder, "relative", 43, 80)
    [] profile = "netflow-v9-timed-v1" -> TwoShapes("v9", TimedOrder, "relative", 51, 88)
    [] profile = "ipfix-core-v1"       -> TwoShapes("ipfix", TimedOrder, "nanoseconds", 72, 88)
    [] profile = "ipfix-general-v1"    -> TwoShapes("ipfix", TimedOrder, "milliseconds", 72, 88)
=============================================================================
