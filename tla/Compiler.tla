------------------------------- MODULE Compiler -------------------------------
(***************************************************************************)
(* The mapping compiler (internal/mapping/compiler.go): from a mapping     *)
(* configuration to the immutable mapper, or to the first error.           *)
(*                                                                         *)
(* Every stage of Compile is a sequence of checks in the order the code    *)
(* makes them; the first one that fails is the error, a code and a path.   *)
(* An optional number is Absent when it is not set, an optional list is    *)
(* [set, list], an optional Boolean is a string.                           *)
(***************************************************************************)
EXTENDS WireContract

Absent == -1

DefaultDatagram == 464
MinDatagram     == 128
MaxDatagram     == 65507

ASSUME CompilerAssumption == MaxDatagram <= Max16

\* reservedCustomSource, on the names the configurations use, and a name over the key limit.
ReservedSources == {"body", "body.text", "resource", "resource.name", "scope"}
LongSource      == "longer_than_256_bytes"

Check(bad, code, path) == [bad |-> bad, code |-> code, path |-> path]
Passed == Check(FALSE, "", "")

\* The first place that failed, 0 if none did.
Failed(checks) ==
  LET failed == {i \in DOMAIN checks : checks[i].bad} IN
  IF failed = {} THEN 0 ELSE CHOOSE i \in failed : \A j \in failed : i <= j

First(checks) == IF Failed(checks) = 0 THEN Passed ELSE checks[Failed(checks)]

\* A stage is looked at when the one before it passed.
Then(error, next) == IF error.bad THEN error ELSE next

-----------------------------------------------------------------------------
(* Selector, protocol and path.                                            *)

\* validatePMTU: a smaller reserve only for a literal IPv4 endpoint.
PMTUChecks(c) ==
  LET reserve == IF c.host = "literal4" THEN 28 ELSE 48 IN
  <<Check(c.pathMTU = 0 /\ c.maxDatagram > DefaultDatagram, "pmtu", "path_mtu"),
    Check(c.pathMTU # 0 /\ c.pathMTU \notin 512 .. Max16, "pmtu", "path_mtu"),
    Check(c.pathMTU # 0 /\ c.maxDatagram + reserve > c.pathMTU, "pmtu", "max_datagram_size")>>

\* The selector, the protocol and the members that exclude each other; the exporter always states the protocol.
SelectorChecks(c) ==
  LET v5      == c.protocol = "v5"
      known   == c.profile \in DOMAIN ProfileProtocol
      profile == c.profile # ""
      io      == "mapping.input_guarantees.flow_io_bytes"
  IN  <<Check(~c.schema, "schema", "mapping.schema"),
        Check(profile /\ (known => ProfileProtocol[c.profile] # c.protocol), "profile", "mapping.profile"),
        Check(c.protocol \notin {"v5", "v9", "ipfix"}, "invalid_config", "mapping.protocol"),
        Check(c.policy \notin {"encode_and_count", "reject"}, "policy", "mapping.loss_policy"),
        Check(profile /\ c.fields.set, "selector", "mapping.fields"),
        Check(~profile /\ ~c.fields.set, "selector", "mapping.selector"),
        Check(~profile /\ c.fields.list = <<>>, "selector", "mapping.fields"),
        Check(v5 /\ ~profile, "profile", "mapping.profile"),
        Check(~v5 /\ c.guarantee # "", "provenance", io),
        Check(v5 /\ c.custom.set, "custom", "mapping.custom"),
        Check(v5 /\ c.idBase # 0, "bounds", "templates.id_base"),
        Check(c.maxDatagram \notin MinDatagram .. MaxDatagram, "bounds", "max_datagram_size")>>

\* Compile up to the selections.
HeadChecks(c) == SelectorChecks(c) \o PMTUChecks(c) \o <<Check(c.origin > Max63, "bounds", "mapping.uptime_origin")>>

-----------------------------------------------------------------------------
(* Explicit selections and token maps.                                     *)

Selected(c) == {c.fields.list[i].canonical : i \in DOMAIN c.fields.list}

\* compileSelections, one selection.
FieldChecks(c, i) ==
  LET field  == c.fields.list[i].canonical
      target == c.fields.list[i].target
      class  == ClassFor(c.protocol, field)
      timed  == field \in {"flow.start", "flow.end"}
  IN <<Check(field \notin Selectable, "selector", "mapping.fields.canonical"),
       Check(timed /\ \E j \in 1 .. i - 1 : c.fields.list[j].canonical = field, "collision", "mapping.fields"),
       Check(target # "" /\ ~AllowedTarget(c.protocol, field, target), "selector", "mapping.fields.target"),
       Check(target = "" /\ IsAmbiguous(c.protocol, field), "selector", "mapping.fields.target"),
       Check(class = "unsupported", "unsupported", "mapping.fields"),
       Check(class = "inapplicable", "inapplicable", "mapping.fields"),
       Check(c.policy = "reject" /\ class \in LossyClasses, "policy", "mapping.loss_policy"),
       Check(timed /\ c.protocol = "v9" /\ c.origin = Absent, "provenance", "mapping.uptime_origin")>>

\* compileSelections.
SelectionChecks(c) ==
  <<Check(Len(c.fields.list) > MaxFieldsPerShape, "bounds", "mapping.fields")>>
  \o FlattenSeq([i \in DOMAIN c.fields.list |-> FieldChecks(c, i)])

TransportActive(c) ==
  c.profile # "" \/ Selected(c) \cap {"network.transport", ICMPTypeCode, "flow.icmp_type", "flow.icmp_code"} # {}

NetworkActive(c) == IF c.profile # "" THEN c.protocol # "v5" ELSE "network.type" \in Selected(c)

\* The families that every selected field and every custom address allow.
SupportedFamilies(c) ==
  {family \in Families :
     /\ \A field \in Selected(c) : family \in FamilySupport(c.protocol, field)
     /\ \A i \in DOMAIN c.custom.list : AddressFits(c.custom.list[i], family)}

\* The ICMP numbers an explicit mapping needs to tell its ICMP records.
NeededTokens(c) ==
  LET four == IF "ipv4" \in SupportedFamilies(c) THEN {"icmp"} ELSE {}
      six  == IF "ipv6" \in SupportedFamilies(c) THEN {"ipv6-icmp"} ELSE {}
  IN  IF c.profile # "" THEN {}
      ELSE CASE c.protocol = "v9"    -> IF ICMPTypeCode \in Selected(c) THEN four ELSE {}
             [] c.protocol = "ipfix" -> IF Selected(c) \cap {"flow.icmp_type", "flow.icmp_code"} # {} THEN four \cup six ELSE {}

\* The entries of a token list agree with the vocabulary and are distinct.
EntryChecks(entries, vocabulary, path) ==
  [i \in DOMAIN entries |->
     Check(\/ entries[i].token \notin DOMAIN vocabulary
           \/ entries[i].token \in DOMAIN vocabulary /\ vocabulary[entries[i].token] # entries[i].number
           \/ \E j \in 1 .. i - 1 : entries[j].token = entries[i].token \/ entries[j].number = entries[i].number,
           "token", path)]

Tokens(entries) == {entries[i].token : i \in DOMAIN entries}

\* compileTokenMaps.
TokenChecks(c) ==
  LET ids      == "mapping.protocol_identifiers"
      versions == "mapping.network_type_versions"
      idList   == c.identifiers.list
      verList  == c.versions.list
  IN  <<Check(~TransportActive(c) /\ c.identifiers.set, "provenance", ids),
        Check(~NetworkActive(c) /\ c.versions.set, "provenance", versions),
        Check(TransportActive(c) /\ Len(idList) \notin 1 .. 32, "provenance", ids)>>
      \o EntryChecks(idList, ProtocolNumbers, ids) \o
      <<Check(NetworkActive(c) /\ Len(verList) # 2, "provenance", versions)>>
      \o EntryChecks(verList, NetworkVersions, versions) \o
      <<Check(NetworkActive(c) /\ Tokens(verList) # Families, "token", versions),
        Check(NeededTokens(c) \ Tokens(idList) # {}, "token", ids)>>

TokenMap(active, entries) ==
  [t \in (IF active THEN Tokens(entries) ELSE {}) |-> entries[CHOOSE i \in DOMAIN entries : entries[i].token = t].number]

-----------------------------------------------------------------------------
(* Custom entries.                                                         *)

V9CustomChecks(e) ==
  <<Check(\/ e.fieldType \notin 256 .. Max16 \/ e.fixed \in {Absent, 0} \/ e.allowPrivate # "true"
          \/ e.pen # Absent \/ e.element # Absent \/ e.variable # "absent" \/ e.max # Absent,
          "custom", "mapping.custom"),
    Check(e.encoding \in CustomEncodings /\ NaturalLength[e.encoding] \notin {0, e.fixed},
          "custom", "mapping.custom.fixed_length")>>

\* An enterprise element, and nothing that only v9 has.
IsEnterprise(e) == e.pen \notin {Absent, 0} /\ e.element \in 1 .. 32767 /\ e.fieldType = Absent /\ e.allowPrivate = "absent"

IPFIXCustomChecks(e) ==
  LET variable == e.variable # "absent" IN
  <<Check(~IsEnterprise(e), "custom", "mapping.custom"),
    Check(e.fixed # Absent /\ (variable \/ e.max # Absent), "custom", "mapping.custom.length"),
    Check(variable /\ (e.variable = "false" \/ e.max \notin 1 .. Max16 \/ e.encoding \notin Elastic),
          "custom", "mapping.custom.max_length"),
    Check(~variable /\ (e.fixed \in {Absent, 0} \/ e.max # Absent), "custom", "mapping.custom.fixed_length"),
    Check(~variable /\ e.encoding \in CustomEncodings /\ NaturalLength[e.encoding] \notin {0, e.fixed},
          "custom", "mapping.custom.fixed_length")>>

\* compileCustom, one entry.
CustomEntryChecks(c, i) ==
  LET list == c.custom.list
      e    == list[i]
  IN  <<Check(e.source \in {"", LongSource} \cup ReservedSources, "custom", "mapping.custom.source"),
        Check(e.source \in Selectable, "collision", "mapping.custom.source"),
        Check(e.encoding \notin CustomEncodings, "custom", "mapping.custom.encoding")>>
      \o (IF c.protocol = "v9" THEN V9CustomChecks(e) ELSE IPFIXCustomChecks(e)) \o
      <<Check(c.protocol = "ipfix" /\ Cardinality({list[j].pen : j \in 1 .. i}) > MaxPENs,
              "bounds", "mapping.custom.pen")>>

\* compileCustom.
CustomChecks(c) ==
  <<Check(Len(c.custom.list) > MaxCustomMappings, "bounds", "mapping.custom")>>
  \o FlattenSeq([i \in DOMAIN c.custom.list |-> CustomEntryChecks(c, i)])

\* customDescriptor of an entry that compileCustom accepted.
CustomDescriptor(e, protocol) ==
  IF protocol = "v9" THEN PrivateDescriptor(e.source, e.fieldType, e.encoding, e.fixed)
  ELSE IF e.variable = "true" THEN EnterpriseDescriptor(e.source, e.pen, e.element, e.encoding, TRUE, Max16, e.max)
  ELSE EnterpriseDescriptor(e.source, e.pen, e.element, e.encoding, FALSE, e.fixed, 0)

CustomFields(c) == [i \in DOMAIN c.custom.list |-> CustomDescriptor(c.custom.list[i], c.protocol)]

CustomFits(c, family) ==
  \A i \in DOMAIN c.custom.list :
    AddressFits(c.custom.list[i], family) /\ DescriptorOK(CustomDescriptor(c.custom.list[i], c.protocol))

-----------------------------------------------------------------------------
(* Shapes.                                                                 *)

NewShape(protocol, family, id, fields) ==
  LET shape == [protocol |-> protocol, family |-> family, id |-> id, recordLength |-> 0, templateBytes |-> 0, fields |-> fields]
  IN  [shape EXCEPT !.recordLength = RecordLength(shape), !.templateBytes = TemplateBytes(shape)]

\* conversion class of a bound field: constants and custom fields lose nothing.
BindingClass(protocol, d) == IF d.constant \/ d.custom THEN "exact" ELSE ClassFor(protocol, d.field)

\* Compile, the profile's branch: the built-in shapes, extended when there are custom entries.
ProfileShapes(c, builtin) ==
  LET id(i) == IF c.protocol # "v5" /\ c.idBase # 0 THEN c.idBase + i - 1 ELSE builtin[i].id
  IN  [i \in DOMAIN builtin |->
         IF c.custom.list = <<>> THEN [builtin[i] EXCEPT !.id = id(i)]
         ELSE NewShape(c.protocol, builtin[i].family, id(i), builtin[i].fields \o CustomFields(c))]

\* Compile, the profile's branch: one field, one shape, then all of it.
ProfileFieldChecks(c, d) ==
  LET class == BindingClass(c.protocol, d) IN
  <<Check(class \in {"unsupported", "inapplicable"}, "unsupported", "mapping.profile"),
    Check(c.policy = "reject" /\ class \in LossyClasses, "policy", "mapping.loss_policy")>>

ProfileShapeChecks(c, builtin, shapes, i) ==
  LET custom == c.custom.list # <<>> IN
  FlattenSeq([j \in DOMAIN builtin[i].fields |-> ProfileFieldChecks(c, builtin[i].fields[j])]) \o
  <<Check(~CustomFits(c, builtin[i].family), "custom", "mapping.custom"),
    Check(custom /\ shapes[i].recordLength > Max16, "bounds", "mapping.custom"),
    Check(custom /\ shapes[i].templateBytes > MaxTemplateBytes, "bounds", "mapping.custom")>>

ProfileChecks(c, builtin, shapes) ==
  <<Check(c.protocol = "v5" /\ c.guarantee # "layer3_total_octets", "provenance", "mapping.input_guarantees.flow_io_bytes"),
    Check(c.profile \in {"netflow-v5-fixed-v1", "netflow-v9-timed-v1"} /\ c.origin = Absent,
          "provenance", "mapping.uptime_origin")>> \o
  FlattenSeq([i \in DOMAIN builtin |-> ProfileShapeChecks(c, builtin, shapes, i)]) \o
  <<Check(/\ c.protocol # "v5" /\ c.idBase # 0
          /\ (c.idBase < 256 \/ c.idBase + Len(shapes) - 1 > Max16), "bounds", "templates.id_base")>>

\* compileExplicitShapes: a shape for each family if some field differs between them, else one.
Dependent(c) == \E field \in Selected(c) : FamilyDependent(c.protocol, field)

ShapeFamilies(c) ==
  IF SupportedFamilies(c) = Families /\ Dependent(c) THEN <<"ipv4", "ipv6">>
  ELSE IF "ipv4" \in SupportedFamilies(c) THEN <<"ipv4">> ELSE <<"ipv6">>

\* explicitMappingFamilyAgnostic.
FamilyAgnostic(c) == c.profile = "" /\ SupportedFamilies(c) = Families /\ ~Dependent(c)

EffectiveIDBase(c) == IF c.idBase = 0 /\ c.protocol # "v5" THEN 256 ELSE c.idBase

\* The descriptors of the selected fields.
SelectedFields(c, family) ==
  LET list == c.fields.list IN
  [j \in DOMAIN list |-> DescriptorFor(c.protocol, list[j].canonical, list[j].target, family)]

ExplicitShapes(c) ==
  [i \in DOMAIN ShapeFamilies(c) |->
     NewShape(c.protocol, ShapeFamilies(c)[i], EffectiveIDBase(c) + i - 1,
              SelectedFields(c, ShapeFamilies(c)[i]) \o CustomFields(c))]

ExplicitChecks(c) ==
  LET base     == EffectiveIDBase(c)
      families == ShapeFamilies(c)
  IN  <<Check(Len(c.fields.list) + Len(c.custom.list) > MaxFieldsPerShape, "bounds", "mapping.fields"),
        Check(SupportedFamilies(c) = {}, "inapplicable", "mapping.fields"),
        Check(base < 256 \/ base + Len(families) - 1 > Max16, "bounds", "templates.id_base"),
        Check(\E field \in Selected(c) : ~HasDescriptor(c.protocol, field), "unsupported", "mapping.fields"),
        Check(\E i \in DOMAIN families : ~CustomFits(c, families[i]), "custom", "mapping.custom")>>

\* What is left to check of an explicit mapping's shapes once they exist.
ExplicitSizeCheck(shape) ==
  <<Check(shape.recordLength \notin 1 .. Max16, "bounds", "mapping.fields"),
    Check(shape.templateBytes > MaxTemplateBytes, "bounds", "mapping.template")>>

ExplicitSizeChecks(shapes) == FlattenSeq([i \in DOMAIN shapes |-> ExplicitSizeCheck(shapes[i])])

-----------------------------------------------------------------------------
(* Budgets.                                                                *)

\* Mutant of MappingDataBytesForMinimum: the set is not aligned.
MappingDataBytesUnpadded(protocol, length, minimum) ==
  HeaderLength(protocol) + length + (IF protocol = "v5" THEN 0 ELSE SetHeader)

\* mappingDataBytesForMinimum: the packet that carries one record of this length alone.
MappingDataBytesForMinimum(protocol, length, minimum) ==
  LET padding == (4 - ((SetHeader + length) % 4)) % 4 IN
  IF protocol = "v5" THEN HeaderLength(protocol) + length
  ELSE HeaderLength(protocol) + SetHeader + length + (IF padding < minimum THEN padding ELSE 0)

\* Mutant of ShapeBudget: the template alone, without the packet header.
ShapeBudgetHeaderless(shape, maxDatagram) ==
  <<Check(shape.protocol # "v5" /\ shape.templateBytes > maxDatagram, "bounds", "mapping.template"),
    Check(MappingDataBytesForMinimum(shape.protocol, shape.recordLength, shape.recordLength) > maxDatagram,
          "bounds", "mapping.record")>>

\* shapeBudget.
ShapeBudget(shape, maxDatagram) ==
  <<Check(shape.protocol # "v5" /\ HeaderLength(shape.protocol) + shape.templateBytes > maxDatagram,
          "bounds", "mapping.template"),
    Check(MappingDataBytesForMinimum(shape.protocol, shape.recordLength, shape.recordLength) > maxDatagram,
          "bounds", "mapping.record")>>

\* The loop over the shapes, and NewCatalog.
ShapeChecks(c, shape) ==
  <<Check(Len(shape.fields) > MaxFieldsPerShape, "bounds", "mapping.fields"),
    Check(shape.templateBytes > MaxTemplateBytes, "bounds", "mapping.template"),
    Check(shape.recordLength > Max16, "bounds", "mapping.record"),
    Check(~UniqueIdentities(shape.fields), "collision", "mapping.fields")>>
  \o ShapeBudget(shape, c.maxDatagram)

CatalogChecks(c, shapes) ==
  <<Check(Len(shapes) \notin 1 .. MaxShapes, "bounds", "mapping.shapes")>>
  \o FlattenSeq([i \in DOMAIN shapes |-> ShapeChecks(c, shapes[i])]) \o
  <<Check(~CatalogOK(c.protocol, IF c.protocol = "v5" THEN 0 ELSE shapes[1].id, shapes), "bounds", "mapping.catalog")>>

-----------------------------------------------------------------------------
(* Compile.                                                                *)

NewMapper(c, shapes) ==
  [protocol |-> c.protocol, profile |-> c.profile, shapes |-> shapes, agnostic |-> FamilyAgnostic(c),
   classes |-> [i \in DOMAIN shapes |-> [j \in DOMAIN shapes[i].fields |-> BindingClass(c.protocol, shapes[i].fields[j])]],
   transport |-> TokenMap(TransportActive(c), c.identifiers.list), network |-> TokenMap(NetworkActive(c), c.versions.list),
   maxDatagram |-> c.maxDatagram, origin |-> c.origin]

CompiledShapes(c) == IF c.profile = "" THEN ExplicitShapes(c) ELSE ProfileShapes(c, BuiltinCatalog(c.profile))

\* The checks of the shapes; the sizes of explicit shapes are looked at when everything else passed.
ShapeError(c, shapes) ==
  IF c.profile = "" THEN Then(First(ExplicitChecks(c)), First(ExplicitSizeChecks(shapes)))
  ELSE First(ProfileChecks(c, BuiltinCatalog(c.profile), shapes))

\* The stages in the order of Compile.
CompileError(c) ==
  Then(First(HeadChecks(c)),
  Then(IF c.profile = "" THEN First(SelectionChecks(c)) ELSE Passed,
  Then(First(TokenChecks(c) \o CustomChecks(c)),
  Then(ShapeError(c, CompiledShapes(c)),
       First(CatalogChecks(c, CompiledShapes(c)))))))

CompiledMapper(c) == NewMapper(c, CompiledShapes(c))
=============================================================================
