------------------------------ MODULE MCPipeline ------------------------------
(***************************************************************************)
(* Configurations and requests for Pipeline: every rule of the public      *)
(* configuration and of the compiler is met on both sides of its limit by  *)
(* changing one member of a good configuration, and the mappings meet      *)
(* records that differ in one attribute, alone and in small hierarchies.   *)
(***************************************************************************)
EXTENDS Pipeline

Listed(list) == [set |-> TRUE, list |-> list]
Pick(canonical) == [canonical |-> canonical, target |-> ""]
Aim(canonical, target) == [canonical |-> canonical, target |-> target]
Entry(token, number) == [token |-> token, number |-> number]

Origin   == 1000
TCP      == Entry("tcp", 6)
ICMP     == Entry("icmp", 1)
ICMPv6   == Entry("ipv6-icmp", 58)
Ids      == Listed(<<TCP, ICMP, ICMPv6>>)
Versions == Listed(<<Entry("ipv4", 4), Entry("ipv6", 6)>>)

Custom(source) ==
  [source |-> source, pen |-> Absent, element |-> Absent, fieldType |-> Absent, encoding |-> "string",
   fixed |-> Absent, variable |-> "absent", max |-> Absent, allowPrivate |-> "absent"]
Private(source, id, encoding, length) ==
  [Custom(source) EXCEPT !.fieldType = id, !.encoding = encoding, !.fixed = length, !.allowPrivate = "true"]
Enterprise(source, element, encoding, length) ==
  [Custom(source) EXCEPT !.pen = 9, !.element = element, !.encoding = encoding, !.fixed = length]
Elastics(source, element, encoding, max) ==
  [Custom(source) EXCEPT !.pen = 9, !.element = element, !.encoding = encoding, !.variable = "true", !.max = max]

-----------------------------------------------------------------------------
(* Configurations.                                                         *)

Good == [DefaultConfig EXCEPT !.port = 2055, !.policy = "encode_and_count", !.identifiers = Ids, !.versions = Versions]

V5Base == [Good EXCEPT !.protocol = "v5", !.engineType = 0, !.engineID = 0, !.origin = Origin, !.profile = "netflow-v5-fixed-v1",
                       !.guarantee = "layer3_total_octets", !.versions = [set |-> FALSE, list |-> <<>>]]
V9Base == [Good EXCEPT !.protocol = "v9", !.source = 1, !.origin = Origin, !.profile = "netflow-v9-timed-v1"]
IPFIXBase == [Good EXCEPT !.protocol = "ipfix", !.domain = 1, !.profile = "ipfix-general-v1"]

Plain(base, list) ==
  [base EXCEPT !.profile = "absent", !.fields = Listed(list), !.identifiers = [set |-> FALSE, list |-> <<>>],
               !.versions = [set |-> FALSE, list |-> <<>>]]

V9Plain == [Plain(V9Base, <<Pick("source.address"), Pick("flow.start"), Aim("flow.io.bytes", "in_bytes")>>) EXCEPT
              !.custom = Listed(<<Private("tag", 256, "string", 4)>>)]
IPFIXPlain == [Plain(IPFIXBase, <<Pick("source.address"), Aim("flow.io.bytes", "octet_delta_count")>>) EXCEPT
                 !.custom = Listed(<<Elastics("tag", 7, "string", 200)>>)]

Bases == {V5Base, V9Base, IPFIXBase, V9Plain, IPFIXPlain}

Many(n) == [i \in 1 .. n |-> Elastics("tag", i, "string", 8)]

\* The values tried for each member.
Members ==
  "queue" :> {TRUE} @@ "retry" :> {TRUE} @@ "schema" :> {FALSE} @@ "port" :> {0} @@ "protocol" :> {"", "v5", "v9", "ipfix"}
  @@ "host" :> HostKinds @@ "source" :> {Absent, 1} @@ "domain" :> {Absent, 1} @@ "engineType" :> {Absent, 1}
  @@ "sampling" :> {0, 3, 4} @@ "origin" :> {Absent, 0, Max63, Max63 + 1}
  @@ "maxDatagram" :> {127, 128, 464, 465, 65508} @@ "pathMTU" :> {0, 511, 512, 65535, 65536}
  @@ "idBase" :> {0, 255, 257, 65534, 65535, 65536} @@ "copies" :> {1, 8, 9} @@ "refresh" :> {29999, 30000, Day, Day + 1}
  @@ "timeout" :> {99, 100, 5001, 30001} @@ "drain" :> {999, 4999, 30000, 30001} @@ "dnsTimeout" :> {99, 100, 5001}
  @@ "dnsRefresh" :> {999, 1000, Day, Day + 1} @@ "dnsStale" :> {5 * Minute, 5 * Minute - 1, 7 * Day, 7 * Day + 1}
  @@ "maxRecords" :> {0, 1, 30, 31, 1024, 1025} @@ "v9Refresh" :> {0, 1, 1000, 1001} @@ "ipfixRefresh" :> {0, 1, 1001}
  @@ "profile" :> DOMAIN ProfileProtocol \cup {"", "absent", "other"} @@ "policy" :> {"absent", "reject", "other"}
  @@ "guarantee" :> {"", "layer3_total_octets"}
  @@ "identifiers" :> {[set |-> FALSE, list |-> <<>>], Listed(<<>>), Listed(<<TCP, TCP>>), Listed(<<Entry("tcp", 17)>>),
                       Listed(<<Entry("other", 6)>>), Listed(<<ICMP>>)}
  @@ "versions" :> {[set |-> FALSE, list |-> <<>>], Listed(<<Entry("ipv4", 4)>>), Listed(<<Entry("ipv4", 4), Entry("ipv4", 4)>>),
                    Listed(<<Entry("ipv6", 6), Entry("ipv4", 6)>>)}

OneMember == UNION {{[b EXCEPT ![k] = v] : b \in Bases, v \in Members[k]} : k \in DOMAIN Members}

\* Every canonical field alone, with each target, and the selections that meet a rule of their own.
TargetNames == UNION {UNION {Targets(p)[f] : f \in DOMAIN Targets(p)} : p \in {"v9", "ipfix"}} \cup {""}
Selections ==
  {[Plain(b, <<Aim(f, t)>>) EXCEPT !.policy = policy, !.identifiers = ids,
       !.versions = IF f = "network.type" THEN Versions ELSE [set |-> FALSE, list |-> <<>>]] :
     b \in {V9Base, IPFIXBase}, f \in Selectable \cup {"other"}, t \in {"", "in_bytes"}, policy \in {"encode_and_count", "reject"},
     ids \in {Ids, [set |-> FALSE, list |-> <<>>]}}
  \cup {Plain(b, <<Aim(f, t)>>) : b \in {V9Base, IPFIXBase}, t \in TargetNames,
          f \in DOMAIN Targets("ipfix")}
  \cup {Plain(b, list) : b \in {V5Base, V9Base, IPFIXBase, [V9Base EXCEPT !.origin = Absent]},
          list \in {<<>>, <<Pick("flow.start"), Pick("flow.start")>>, <<Pick("source.port"), Pick("source.port")>>,
                    <<Pick("flow.ipv6_flow_label"), Pick("flow.fragment_id")>>, <<Pick("flow.src_vlan"), Pick("flow.vlan_id")>>,
                    <<Pick("flow.ipv6_flow_label"), Pick("source.address")>>,
                    [i \in 1 .. 65 |-> Pick("source.port")], [i \in 1 .. 64 |-> Pick("source.port")]}}
  \cup {[Plain(b, <<Pick("flow.icmp_type"), Pick(other)>>) EXCEPT !.identifiers = ids] :
          b \in {IPFIXBase}, other \in {"source.address", "flow.ipv6_flow_label"}, ids \in {Ids, Listed(<<ICMP>>), Listed(<<ICMPv6>>)}}
  \cup {[Plain(V9Base, <<Pick(ICMPTypeCode)>>) EXCEPT !.identifiers = ids] : ids \in {Ids, Listed(<<TCP>>)}}
  \cup {[Plain(b, <<Pick(f)>>) EXCEPT !.idBase = base] : b \in {V9Base, IPFIXBase}, f \in {"source.address", "source.port"},
          base \in {65534, 65535}}

-----------------------------------------------------------------------------
(* Custom entries.                                                         *)

V9Entries ==
  LET e == Private("tag", 256, "string", 4) IN
  {[e EXCEPT !.source = s] : s \in {"", "body.text", LongSource, "flow.start", "other"}} \cup
  {[e EXCEPT !.encoding = n, !.fixed = l] : n \in CustomEncodings \cup {"other", "nanoseconds"}, l \in {Absent, 0, 1, 4, 16}} \cup
  {[e EXCEPT !.fieldType = t] : t \in {Absent, 255, 256, 65535, 65536}} \cup
  {[e EXCEPT !.allowPrivate = a] : a \in {"absent", "false"}} \cup
  {[e EXCEPT !.pen = 9], [e EXCEPT !.element = 1], [e EXCEPT !.variable = "false"], [e EXCEPT !.max = 4]}

IPFIXEntries ==
  LET e == Enterprise("tag", 7, "string", 4) IN
  {[e EXCEPT !.source = s] : s \in {"", "scope", "flow.icmp_type_code"}} \cup
  {[e EXCEPT !.encoding = n, !.fixed = l] : n \in CustomEncodings \cup {"other"}, l \in {Absent, 0, 4, 6, 65535}} \cup
  {[e EXCEPT !.pen = p] : p \in {Absent, 0, 1}} \cup {[e EXCEPT !.element = i] : i \in {Absent, 0, 32767, 32768}} \cup
  {[e EXCEPT !.fieldType = 256], [e EXCEPT !.allowPrivate = "true"], [e EXCEPT !.max = 4]} \cup
  {[Elastics("tag", 7, n, m) EXCEPT !.variable = v, !.fixed = f] :
     n \in {"string", "octet_array", "unsigned8"}, m \in {Absent, 0, 1, 65535, 65536}, v \in {"true", "false"}, f \in {Absent, 4}}

CustomConfigs ==
  {[b EXCEPT !.custom = Listed(<<e>>)] : b \in {V9Base, V9Plain}, e \in V9Entries} \cup
  {[b EXCEPT !.custom = Listed(<<e>>)] : b \in {IPFIXBase, IPFIXPlain}, e \in IPFIXEntries} \cup
  {[b EXCEPT !.custom = Listed(<<>>)] : b \in Bases} \cup
  {[b EXCEPT !.custom = Listed(list)] : b \in {IPFIXBase, IPFIXPlain},
     list \in {Many(32), Many(33), <<Elastics("tag", 7, "string", 8), Elastics("other", 7, "string", 8)>>,
               <<Enterprise("four", 1, "ipv4_address", 4), Enterprise("six", 2, "ipv6_address", 16)>>}} \cup
  {[b EXCEPT !.custom = Listed(<<Private("a", 300, "string", x), Private("b", 301, "string", y)>>)] :
     b \in {V9Base, V9Plain}, x \in {32000, 65000}, y \in {500, 32000}}

\* The budgets of templates and records on both sides of the datagram's size.
BudgetConfigs ==
  {[Plain(IPFIXBase, <<Pick("source.port")>>) EXCEPT !.custom = Listed(Many(n)), !.maxDatagram = size] :
     n \in 10 .. 13, size \in 128 .. 133} \cup
  {[Plain(V9Base, <<Pick("source.port")>>) EXCEPT !.custom = Listed(<<Private("a", 300, "string", n)>>), !.maxDatagram = size] :
     n \in 100 .. 106, size \in 128 .. 131} \cup
  {[Plain(IPFIXBase, [i \in 1 .. n |-> Pick("source.port")]) EXCEPT !.maxDatagram = 128] : n \in 25 .. 27} \cup
  {[V9Base EXCEPT !.maxDatagram = size, !.pathMTU = mtu, !.host = h] : size \in {464, 465, 484, 485}, mtu \in {Absent, 512, 513},
     h \in HostKinds}

-----------------------------------------------------------------------------
(* Requests.                                                               *)

Memory(name)        == [name |-> name, copies |-> 0]
Attr(type, n, text) == [type |-> type, n |-> n, text |-> text, backing |-> Memory("none"), below |-> <<>>]
IntAttr(n)          == Attr("int", n, "")
Text(n, text)       == Attr("str", n, text)
Octets(n, memory)   == [Attr("bytes", n, "") EXCEPT !.backing = Memory(memory)]
Node(type, memory)  == [type |-> type, backing |-> Memory(memory)]
Container(t, below) == [Attr(t, 0, "") EXCEPT !.below = below]

\* A receiver's record: every required attribute, and the next hops.
FullAttrs(ip) ==
  [f \in Canonical |->
     CASE f \in {"source.address", "destination.address"} \cup Flow({"next_hop", "bgp_next_hop", "sampler_address"}) -> Text(9, ip)
       [] f \in Flow({"src_mac", "dst_mac"}) -> Text(17, "mac")
       [] f = "network.transport"            -> Text(3, "tcp")
       [] f = "network.type"                 -> Text(4, IF ip = "ip4" THEN "ipv4" ELSE "ipv6")
       [] f = "flow.type"                    -> Text(5, "ipfix")
       [] f = "flow.start"                   -> IntAttr(Origin + 2 * Milli)
       [] f = "flow.end"                     -> IntAttr(Origin + 4 * Milli)
       [] f = "flow.time_received"           -> IntAttr(Origin + 4 * Milli)
       [] OTHER                              -> IntAttr(1)]

Record(id, attrs) == [id |-> id, body |-> "empty", attrs |-> attrs]
With(attrs, key, value) == [k \in DOMAIN attrs \cup {key} |-> IF k = key THEN value ELSE attrs[k]]
Without(attrs, key) == [k \in DOMAIN attrs \ {key} |-> attrs[k]]

\* The values tried for a canonical attribute.
Alternatives ==
  [f \in Canonical |->
     CASE f \in Flow({"start", "end", "time_received"}) ->
            {IntAttr(Origin), IntAttr(Origin - Milli), IntAttr(Origin + 1), IntAttr(Origin + Milli * Max32),
             IntAttr(Origin + Milli * (Max32 + 1)), IntAttr(MaxIPFIXNanos), IntAttr(MaxIPFIXNanos + 1), IntAttr(Max63)}
       [] f \in {"source.address", "destination.address", "flow.next_hop"} -> {Text(9, t) : t \in AddressTexts \cup {"other"}}
       [] f = "flow.src_mac"                   -> {Text(17, "other"), IntAttr(1)}
       [] f \in {"network.transport", "network.type"} ->
            {Text(4, t) : t \in {"unknown", "udp", "ipv4", "ipv6", "arp", "icmp", "ipv6-icmp"}} \cup {Attr("empty", 0, "")}
       [] f = "flow.type"                      -> {Text(9, "unknown"), Text(9, "other")}
       [] f \in Flow({"src_net", "ip_flags", "fragment_offset", "ipv6_flow_label", "vlan_id", "in_if", "io.bytes",
                      "ip_ttl", "observation_point_id", "sampling_rate", "tcp_flags"}) ->
            {IntAttr(n) : n \in {-1, 0, 3, 4, 32, 33, 128, 129, 255, 256, 4095, 4096, 8191, 8192, 16383, 16384,
                                 65535, 65536, 1048575, 1048576, Max32, Max32 + 1, Max63}}
       [] OTHER                                -> {}]

Variants(ip) ==
  {FullAttrs(ip)} \cup UNION {{With(FullAttrs(ip), f, v) : v \in Alternatives[f]} : f \in Canonical}
  \cup {Without(FullAttrs(ip), f) : f \in {"flow.next_hop", "source.port"}}
  \cup {With(With(FullAttrs(ip), "flow.start", IntAttr(Origin + 8)), "flow.end", IntAttr(Origin + 4)),
        With(With(FullAttrs(ip), "flow.src_net", Text(1, "x")), "source.port", IntAttr(-1))}
  \cup {With(FullAttrs(ip), "network.transport", Text(4, IF ip = "ip4" THEN "icmp" ELSE "ipv6-icmp"))}

Tagged(ip) ==
  {With(FullAttrs(ip), "tag", v) : v \in
     {Text(n, "text") : n \in {0, 1, 4, 82, 83, 84, 85, 86, 87, 88, 89, 90, 98, 99, 100, 101, 102, 103, 104, 105, 106, 107, 108, 109, 110, 200, 201, 254, 255, 256}}
     \cup {Text(9, t) : t \in AddressTexts \cup {"mac", "not_utf8"}} \cup {Text(16, "ip4"), Text(40, "ip6"), Text(18, "mac")}
     \cup {Octets(n, "m1") : n \in {0, 4, 109, 110}} \cup {IntAttr(n) : n \in {-129, -128, -1, 0, 127, 128, 255, 256, 65535, 65536, Max32, Max32 + 1}}
     \cup {Attr("bool", 1, ""), Container("map", <<1>> :> Node("bytes", "m2"))}}

One(attrs) == <<[id |-> "A", attrs |-> <<>>, scopes |-> <<[id |-> "a", attrs |-> <<>>, records |-> <<Record("r1", attrs)>>]>>]>>

\* The mappings a record is tried with.
CanonicalMappings ==
  {V5Base, V9Base, IPFIXBase, [IPFIXBase EXCEPT !.profile = "ipfix-core-v1"]} \cup
  {[Plain(V9Base, <<Pick("source.address"), Pick("flow.next_hop"), Pick(ICMPTypeCode), Pick("flow.fragment_offset")>>) EXCEPT !.identifiers = Ids],
   [Plain(V9Base, <<Pick("flow.ipv6_flow_label"), Pick("flow.src_net"), Pick("flow.vlan_id")>>) EXCEPT !.policy = "encode_and_count"],
   [Plain(IPFIXBase, <<Pick("flow.icmp_type"), Pick("flow.next_hop"), Pick("flow.ip_flags")>>) EXCEPT !.identifiers = Ids],
   Plain(IPFIXBase, <<Pick("source.port"), Aim("flow.time_received", "observation_time_nanoseconds"),
                      Pick("flow.observation_point_id"), Aim("flow.src_mac", "source_mac_address")>>)}

CustomMappings ==
  {[IPFIXPlain EXCEPT !.maxDatagram = n] : n \in {128, 130, 131, 464}} \cup
  {[Plain(IPFIXBase, <<Pick("source.port")>>) EXCEPT !.custom = Listed(<<Elastics("tag", 7, n, 300)>>), !.maxDatagram = m] :
     n \in Elastic, m \in {129, 464}} \cup
  {[Plain(IPFIXBase, <<Pick("flow.ip_ttl")>>) EXCEPT !.custom = Listed(<<Enterprise("tag", 7, n, NaturalLength[n])>>)] :
     n \in CustomEncodings \ Elastic} \cup
  {[Plain(V9Base, <<Pick("flow.ip_ttl")>>) EXCEPT !.custom = Listed(<<Private("tag", 300, n, 4)>>)] : n \in Elastic}

-----------------------------------------------------------------------------
(* Hierarchies of three records: scopes and resources that are empty or    *)
(* hold records nobody looks up.                                           *)

TagOf(n)  == With(FullAttrs("ip4"), "tag", Text(4, n))

Contents ==
  {TagOf("text"), FullAttrs("ip6"), Without(TagOf("text"), "source.port"),
   With(With(TagOf("text"), "blob", Octets(3, "m3")), "tree", Container("map", <<1>> :> Node("slice", "none") @@ <<1, 1>> :> Node("bytes", "m4") @@ <<2>> :> Node("int", "none")))}

Scope(id, records) == [id |-> id, attrs |-> "owner" :> Octets(1, "s_" \o id), records |-> records]
Resource(id, scopes) == [id |-> id, attrs |-> "host" :> Container("slice", <<1>> :> Node("bytes", "r_" \o id)), scopes |-> scopes]

Hierarchies(x, y, z) ==
  LET r1 == Record("r1", x)
      r2 == Record("r2", y)
      r3 == Record("r3", z)
  IN  {<<Resource("A", <<Scope("a", <<r1>>), Scope("b", <<>>), Scope("c", <<r2>>)>>), Resource("B", <<>>), Resource("C", <<Scope("d", <<r3>>)>>)>>,
       <<Resource("A", <<Scope("a", <<r1, r2>>), Scope("b", <<r3>>)>>)>>,
       <<Resource("A", <<Scope("a", <<>>)>>), Resource("B", <<Scope("b", <<r1>>), Scope("c", <<r2, r3>>)>>)>>}

Requests == UNION {Hierarchies(x, y, z) : x \in Contents, y \in Contents, z \in Contents}
            \cup {<<>>, <<Resource("A", <<Scope("a", <<[Record("r1", TagOf("text")) EXCEPT !.body = "str"]>>)>>)>>}

Pairs(configs, requests) == {[config |-> c, request |-> r] : c \in configs, r \in requests}

MCScenarios ==
  Pairs(OneMember \cup Selections \cup CustomConfigs \cup BudgetConfigs, {<<>>})
  \cup Pairs(CanonicalMappings, {One(a) : a \in Variants("ip4") \cup Variants("ip6")})
  \cup Pairs(CustomMappings, {One(a) : a \in Tagged("ip4") \cup Tagged("ip6")})
  \cup Pairs({IPFIXPlain, V9Plain}, Requests)
=============================================================================
