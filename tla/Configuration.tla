---------------------------- MODULE Configuration ----------------------------
(***************************************************************************)
(* The public configuration (config.go, config_diagnostics.go): the checks *)
(* of newRuntime in order, the mapping configuration it derives, and the   *)
(* checks that the later constructors repeat on their own: NewResolver,    *)
(* NewCandidateDialer, NewState and NewRuntime.                            *)
(*                                                                         *)
(* Durations are milliseconds.  An absent pointer is Absent, or "absent"   *)
(* for a string.  The host of the endpoint is one of HostKinds, and port 0 *)
(* stands for an endpoint that has no host and decimal port.               *)
(***************************************************************************)
EXTENDS Mapper

HostKinds == {"literal4", "literal6", "literal4in6", "name", "zoned", "badname"}

Second == 1000
Minute == 60 * Second
Hour   == 60 * Minute
Day    == 24 * Hour

\* createDefaultConfig; protocol, identity, endpoint and mapping have no default.
DefaultConfig ==
  [queue |-> FALSE, retry |-> FALSE, schema |-> TRUE, host |-> "literal4", port |-> 0, protocol |-> "",
   source |-> Absent, domain |-> Absent, engineType |-> Absent, engineID |-> Absent, sampling |-> Absent,
   origin |-> Absent, maxDatagram |-> DefaultDatagram, pathMTU |-> Absent, idBase |-> 256, copies |-> 2,
   refresh |-> 10 * Minute, timeout |-> 5 * Second, drain |-> 5 * Second, dnsTimeout |-> 5 * Second,
   dnsRefresh |-> 5 * Minute, dnsStale |-> Hour, maxRecords |-> Absent, v9Refresh |-> Absent,
   ipfixRefresh |-> Absent, profile |-> "absent", fields |-> [set |-> FALSE, list |-> <<>>], policy |-> "absent",
   guarantee |-> "", custom |-> [set |-> FALSE, list |-> <<>>], identifiers |-> [set |-> FALSE, list |-> <<>>],
   versions |-> [set |-> FALSE, list |-> <<>>]]

Named(bad, rule) == Check(bad, rule, "named")

\* The identity each protocol needs, and no other.
IdentityOK(p) ==
  LET sampled == p.sampling # Absent
      engine  == p.engineType # Absent \/ p.engineID # Absent
  IN  CASE p.protocol = "v5"    -> /\ p.engineType # Absent /\ p.engineID # Absent
                                   /\ p.source = Absent /\ p.domain = Absent /\ p.origin # Absent
        [] p.protocol = "v9"    -> p.source # Absent /\ p.domain = Absent /\ ~engine /\ ~sampled
        [] p.protocol = "ipfix" -> p.domain # Absent /\ p.source = Absent /\ ~engine /\ ~sampled /\ p.origin = Absent
        [] OTHER                -> FALSE

\* newRuntimeWithObserverAndTimer up to the compiler.
ConfigChecks(p) ==
  <<Named(p.queue, "queue"), Named(p.retry, "retry"), Named(~p.schema, "schema"), Named(p.port = 0, "endpoint"),
    Named(p.protocol \notin {"v5", "v9", "ipfix"}, "protocol"),
    Named(~IdentityOK(p), "identity"), Named(p.sampling > 3, "sampling_mode"),
    Named(p.origin > Max63, "uptime_origin"),
    Named(p.maxDatagram \notin MinDatagram .. MaxDatagram, "max_datagram"),
    Named(p.idBase \notin 256 .. Max16, "template_id"), Named(p.copies \notin 2 .. 8, "template_copies"),
    Named(p.refresh \notin 30 * Second .. Day, "template_refresh"),
    Named(p.timeout \notin 100 .. 30 * Second, "timeout"), Named(p.timeout > p.drain, "timeout_drain"),
    Named(p.drain \notin Second .. 30 * Second, "drain"),
    Named(p.dnsTimeout \notin 100 .. 30 * Second, "dns_timeout"), Named(p.dnsTimeout > p.drain, "dns_timeout_drain"),
    Named(p.dnsRefresh \notin Second .. Day, "dns_refresh"), Named(p.dnsStale < p.dnsRefresh, "dns_stale_refresh"),
    Named(p.dnsStale > 7 * Day, "dns_stale"),
    Named(p.maxRecords # Absent /\ p.maxRecords \notin 1 .. (IF p.protocol = "v5" THEN 30 ELSE 1024), "record_limit"),
    Named(p.v9Refresh # Absent /\ (p.protocol # "v9" \/ p.v9Refresh \notin 1 .. 1000), "v9_refresh_packets"),
    Named(p.ipfixRefresh # Absent /\ (p.protocol # "ipfix" \/ p.ipfixRefresh \notin 1 .. 1000), "ipfix_refresh_packets"),
    Named((p.profile = "absent") = ~p.fields.set, "mapping_selector"),
    Named(p.policy = "absent", "mapping_policy_required"),
    Named(p.profile = "", "mapping_selector"), Named(p.fields.set /\ p.fields.list = <<>>, "mapping_selector"),
    Named(p.pathMTU # Absent /\ p.pathMTU \notin 512 .. Max16, "path_mtu")>>

\* The mapping configuration: v5 has no template identifiers.
MappingConfig(p) ==
  [schema |-> p.schema, protocol |-> p.protocol, profile |-> IF p.profile = "absent" THEN "" ELSE p.profile,
   fields |-> p.fields, policy |-> p.policy, guarantee |-> p.guarantee, origin |-> p.origin, custom |-> p.custom,
   identifiers |-> p.identifiers, versions |-> p.versions, idBase |-> IF p.protocol = "v5" THEN 0 ELSE p.idBase,
   maxDatagram |-> p.maxDatagram, pathMTU |-> IF p.pathMTU = Absent THEN 0 ELSE p.pathMTU, host |-> p.host]

\* compilerDiagnosticRule: the pairs of code and path that have a diagnostic of their own.
DiagnosticRules(code) ==
  CASE code = "schema"       -> {"mapping.schema"}
    [] code = "profile"      -> {"mapping.profile"}
    [] code = "policy"       -> {"mapping.loss_policy"}
    [] code = "selector"     -> {"mapping.fields", "mapping.selector", "mapping.fields.canonical", "mapping.fields.target"}
    [] code = "token"        -> {"mapping.protocol_identifiers", "mapping.network_type_versions"}
    [] code = "provenance"   -> {"mapping.input_guarantees.flow_io_bytes", "mapping.protocol_identifiers",
                                 "mapping.network_type_versions", "mapping.uptime_origin"}
    [] code = "unsupported"  -> {"mapping.profile", "mapping.fields"}
    [] code = "inapplicable" -> {"mapping.fields"}
    [] code = "collision"    -> {"mapping.fields", "mapping.custom.source"}
    [] code = "custom"       -> {"mapping.custom", "mapping.custom.source", "mapping.custom.encoding",
                                 "mapping.custom.fixed_length", "mapping.custom.length", "mapping.custom.max_length"}
    [] code = "bounds"       -> {"mapping.custom", "mapping.custom.pen", "mapping.fields", "mapping.shapes", "mapping.template",
                                 "mapping.record", "mapping.catalog", "max_datagram_size", "templates.id_base"}
    [] code = "pmtu"         -> {"path_mtu", "max_datagram_size"}
    [] OTHER                 -> {}

\* projectCompileError and renderDiagnostic: the template allocation rule speaks of v9 and IPFIX only.
Projected(error, protocol) ==
  IF /\ error.path \in DiagnosticRules(error.code)
     /\ error.path = "templates.id_base" => protocol # "v5"
  THEN "named" ELSE "generic"

-----------------------------------------------------------------------------
(* The constructors after the compiler; their errors are all generic.      *)

\* NewResolverWithLookup: a zone is refused, and so is text that is neither address nor hostname.
NewResolverOK(p) == p.host \in HostKinds \ {"zoned", "badname"} /\ p.dnsTimeout \in 100 .. 30 * Second

\* NewCandidateDialer: an IPv4-mapped literal has been unmapped and counts as IPv4.
NewCandidateDialerOK(p, m) ==
  LET mtu     == MappingConfig(p).pathMTU
      reserve == IF p.host \in {"literal4", "literal4in6"} THEN 28 ELSE 48
  IN  /\ p.port # 0 /\ p.maxDatagram \in MinDatagram .. MaxDatagram /\ m.maxDatagram \in MinDatagram .. MaxDatagram
      /\ p.maxDatagram <= m.maxDatagram
      /\ IF mtu = 0 THEN p.maxDatagram <= DefaultDatagram
         ELSE mtu \in 512 .. Max16 /\ p.maxDatagram + reserve <= mtu
      /\ p.timeout \in 100 .. 30 * Second

\* Config.normalized.
StateConfigOK(p) ==
  /\ p.maxDatagram \in MinDatagram .. MaxDatagram
  /\ p.maxRecords \in {Absent} \cup (1 .. (IF p.protocol = "v5" THEN 30 ELSE 1024))
  /\ p.copies \in 2 .. 8 /\ p.refresh \in 30 * Second .. Day
  /\ p.protocol = "v9" => p.v9Refresh \in {Absent} \cup (1 .. 1000)
  /\ p.protocol = "ipfix" => p.ipfixRefresh <= 1000 /\ p.origin = Absent
  /\ p.protocol = "v5" => p.origin # Absent /\ p.sampling <= 3
  /\ p.origin <= Max63

\* validateUptimeOrigin: a shape with relative times needs the origin the mapping was compiled with.
UptimeOriginOK(p, m) ==
  LET timed == \E i \in DOMAIN m.shapes : \E j \in DOMAIN m.shapes[i].fields :
                 m.shapes[i].fields[j].field \in {"flow.start", "flow.end"}
  IN  m.protocol \in {"v5", "v9"} /\ timed => m.origin # Absent /\ p.origin = m.origin

\* NewCatalogFromWire, which validates the compiler's catalog again.
DestinationCatalogOK(m) ==
  /\ CatalogOK(m.protocol, IF m.protocol = "v5" THEN 0 ELSE m.shapes[1].id, m.shapes)
  /\ \A i \in DOMAIN m.shapes :
       IF m.protocol = "v5" THEN m.shapes[i].templateBytes = 0 ELSE m.shapes[i].templateBytes \in 1 .. MaxTemplateBytes

\* NewState.
NewStateOK(p, m) ==
  /\ StateConfigOK(p) /\ p.protocol = m.protocol /\ p.maxDatagram <= m.maxDatagram
  /\ DestinationCatalogOK(m)
  /\ \A i \in DOMAIN m.shapes : CatalogFits(m.shapes[i], p.maxDatagram)
  /\ UptimeOriginOK(p, m)

\* NewRuntime, with NewResolverState.
NewRuntimeOK(p, m) ==
  /\ p.drain \in Second .. 30 * Second /\ p.timeout <= p.drain /\ p.dnsTimeout <= p.drain
  /\ NewStateOK(p, m) /\ p.maxDatagram = m.maxDatagram
  /\ p.dnsRefresh \in Second .. Day /\ p.dnsStale \in p.dnsRefresh .. 7 * Day
=============================================================================
