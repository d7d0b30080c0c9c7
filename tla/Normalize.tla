------------------------------- MODULE Normalize -------------------------------
(***************************************************************************)
(* Normalization of one log record (internal/normalize/normalize.go).      *)
(*                                                                         *)
(* A pdata record is [body, attrs]: the type of its body and a function    *)
(* from attribute keys to [type, n, text].  Attributes are visited in the  *)
(* order the producer stored them, which the model leaves open: with two   *)
(* bad attributes either may be the one reported.                          *)
(***************************************************************************)
EXTENDS WireContract

\* requiredFields: every canonical field but the two next hops.
RequiredFields == Canonical \ Flow({"next_hop", "bgp_next_hop"})

\* The closed vocabularies, on the members that the mapping tells apart.
FlowTypes         == {"unknown", "sflow_5", "netflow_v5", "netflow_v9", "ipfix"}
NetworkTypes      == {"unknown", "arp", "ipv4", "ipv6"}
NetworkTransports == DOMAIN ProtocolNumbers \cup {"unknown"}

Addresses == {"source.address", "destination.address"} \cup Flow({"sampler_address", "next_hop", "bgp_next_hop"})
MACs      == Flow({"src_mac", "dst_mac"})

\* isStringField.
StringFields == Addresses \cup MACs \cup {"network.transport", "network.type", "flow.type"}

\* maxForField.
MaxForField(field) ==
  CASE field \in {"source.port", "destination.port", "flow.tcp_flags"}                          -> Max16
    [] field \in Flow({"sequence_num", "in_if", "out_if", "ip_flags", "fragment_id", "fragment_offset",
                       "forwarding_status", "observation_domain_id", "observation_point_id",
                       "next_hop_as", "src_as", "dst_as"})                                      -> Max32
    [] field \in Flow({"ip_tos", "ip_ttl", "icmp_type", "icmp_code"})                           -> 255
    [] field = "flow.ipv6_flow_label"                                                           -> 1048575
    [] field \in Flow({"src_vlan", "dst_vlan", "vlan_id"})                                      -> 4095
    [] field \in Flow({"src_net", "dst_net"})                                                   -> 128
    [] OTHER                                                                                    -> Max63

\* The texts a string field accepts: no IPv4-mapped address.
Accepted(field) ==
  CASE field \in Addresses          -> {"ip4", "ip6"}
    [] field \in MACs               -> {"mac"}
    [] field = "network.transport"  -> NetworkTransports
    [] field = "network.type"       -> NetworkTypes
    [] field = "flow.type"          -> FlowTypes

\* normalizeValue.
ValueError(field, a) ==
  IF a.type # (IF field \in StringFields THEN "str" ELSE "int") THEN "invalid_type"
  ELSE IF field \in StringFields THEN (IF a.text \in Accepted(field) THEN "" ELSE "invalid_value")
  ELSE IF a.n \in 0 .. MaxForField(field) THEN "" ELSE "invalid_value"

NormalizedValue(field, a) ==
  CASE field \in Addresses     -> Value("ip", 0, a.text)
    [] field \in MACs          -> Value("mac", 0, "")
    [] field \in StringFields \ (Addresses \cup MACs) -> Value("string", 0, a.text)
    [] field \in AbsoluteTimes -> Value("time", a.n, "")
    [] OTHER                   -> Value("uint", a.n, "")

\* The record normalizeRecord builds when nothing is wrong with it.
Normalized(record) ==
  LET present == DOMAIN record.attrs \cap Canonical
      values  == [f \in present |-> NormalizedValue(f, record.attrs[f])]
  IN  [family |-> IF values["source.address"].text = "ip4" THEN "ipv4" ELSE "ipv6", values |-> values]

\* normalizeRecord: the errors it may report, "" for none.
NormalizeErrors(record) ==
  LET present == DOMAIN record.attrs \cap Canonical
      bad     == {ValueError(f, record.attrs[f]) : f \in present} \ {""}
      result  == Normalized(record)
      tooLong == result.family = "ipv4" /\ \E f \in Flow({"src_net", "dst_net"}) : result.values[f].n > 32
  IN  IF record.body # "empty" THEN {"unsupported_body"}
      ELSE IF bad # {} THEN bad
      ELSE IF ~(RequiredFields \subseteq present) THEN {"missing_required"}
      ELSE IF tooLong \/ ~NewRecordOK(result.family, result.values) THEN {"invalid_value"}
      ELSE {""}
=============================================================================
