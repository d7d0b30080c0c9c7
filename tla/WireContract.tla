----------------------------- MODULE WireContract -----------------------------
(***************************************************************************)
(* What the wire contract accepts: descriptors, shapes and catalogs        *)
(* (contract.go) and typed values and records (model.go).                  *)
(*                                                                         *)
(* A value is [kind, n, text].  n is its number, or its length in bytes    *)
(* for a string or octets; text is a token, for an address its family.     *)
(* The widest integers are scaled: Max32 stands for 2^32 - 1, Max63 for    *)
(* 2^63 - 1.                                                               *)
(***************************************************************************)
EXTENDS WireSize, FieldTable

CONSTANTS
  Max32,        \* largest uint32
  Max63         \* largest int64

ASSUME ContractAssumption == Max32 \in Nat /\ Max63 \in Nat /\ Max16 < Max32 /\ 1048575 < Max32 /\ Max32 < Max63

Value(kind, n, text) == [kind |-> kind, n |-> n, text |-> text]

MaxShapes         == 16
MaxFieldsPerShape == 64
MaxTemplateBytes  == 4096
MaxCustomMappings == 32
MaxPENs           == 32

\* validateValue: the union is well formed by construction, a time must be an int64.
ValueOK(v) == v.kind = "time" => v.n <= Max63

\* validateValueForFamily.
ValueOKForFamily(v, family) ==
  ValueOK(v) /\ (v.kind = "ip" => v.text \in (IF family = "ipv4" THEN {"ip4"} ELSE {"ip6", "ip4in6"}))

-----------------------------------------------------------------------------
(* Descriptors.                                                            *)

\* FieldDescriptor.Validate: whom the descriptor speaks for.
SourceOK(d) ==
  \/ d.custom /\ d.source \notin Selectable \cup {""} /\ ~d.constant /\ d.field = FieldInvalid
  \/ ~d.custom /\ d.constant /\ d.protocol = "v5" /\ d.field = FieldInvalid /\ d.source = ""
  \/ ~d.custom /\ ~d.constant /\ d.field \in Selectable /\ d.source = ""

V5DescriptorOK(d) ==
  /\ ~d.custom /\ d.id # 0 /\ d.pen = 0 /\ ~d.enterprise /\ ~d.private /\ ~d.variable /\ d.maxLength = 0 /\ d.length \in 1 .. Max16
  /\ d.constant => <<d.id, d.length, d.encoding>> \in {<<12, 1, "unsigned8">>, <<20, 2, "unsigned16">>}

V9DescriptorOK(d) ==
  /\ d.id # 0 /\ d.pen = 0 /\ ~d.enterprise /\ ~d.variable /\ d.maxLength = 0 /\ d.length \in 1 .. Max16
  /\ d.private = d.custom
  /\ IF d.private THEN d.id >= 256 ELSE d.id <= 255

\* Enterprise elements are the custom ones, and absolute milliseconds have elements of their own.
IPFIXIdentityOK(d) ==
  /\ d.id \in 1 .. 32767 /\ ~d.private
  /\ d.enterprise = d.custom /\ (d.pen # 0) = d.enterprise
  /\ ~d.enterprise => (d.id \in {152, 153}) = (d.encoding = "milliseconds")

\* A custom field may have a length of its own in each record.
IPFIXLengthOK(d) ==
  IF d.variable THEN d.custom /\ d.length = Max16 /\ d.maxLength \in 1 .. Max16
  ELSE d.length \in 1 .. Max16 - 1 /\ d.maxLength = 0

IPFIXDescriptorOK(d) == IPFIXIdentityOK(d) /\ IPFIXLengthOK(d)

DescriptorOK(d) ==
  /\ SourceOK(d)
  /\ d.field = ICMPTypeCode => d.protocol = "v9" /\ d.id = 32 /\ d.length = 2 /\ d.encoding = "unsigned16"
  /\ d.encoding \in Encodings
  /\ d.encoding = "nanoseconds" => d.protocol = "ipfix" /\ ~d.custom
  /\ d.encoding = "milliseconds" =>
       /\ d.protocol = "ipfix" /\ ~d.custom /\ d.length = 8
       /\ <<d.field, d.id>> \in {<<"flow.start", 152>>, <<"flow.end", 153>>}
  /\ CASE d.protocol = "v5" -> V5DescriptorOK(d) [] d.protocol = "v9" -> V9DescriptorOK(d)
       [] d.protocol = "ipfix" -> IPFIXDescriptorOK(d)
  /\ d.variable \/ NaturalLength[d.encoding] \in {0, d.length}
  /\ d.custom /\ d.variable => d.encoding \in Elastic

Identity(d) == <<d.id, d.pen>>

\* NewV9PrivateDescriptor and NewIPFIXEnterpriseDescriptor, before their Validate.
PrivateDescriptor(source, id, encoding, length) ==
  [PlainDescriptor("v9", FieldInvalid, id, encoding, length) EXCEPT !.custom = TRUE, !.private = TRUE, !.source = source]

EnterpriseDescriptor(source, pen, id, encoding, variable, length, maxLength) ==
  [PlainDescriptor("ipfix", FieldInvalid, id, encoding, length) EXCEPT
     !.custom = TRUE, !.enterprise = TRUE, !.source = source, !.pen = pen, !.variable = variable, !.maxLength = maxLength]

-----------------------------------------------------------------------------
(* Shapes and catalogs.                                                    *)

IsExactV5Shape(shape) == shape.id = 1 /\ shape.recordLength = 48 /\ shape.fields = V5Fields

AddressFits(d, family) == \A f \in Families : d.encoding = AddressEncoding(f) => family = f

UniqueIdentities(fields) == \A i, j \in DOMAIN fields : Identity(fields[i]) = Identity(fields[j]) => i = j

\* NewShape, and Shape.Validate of what it returned.
ShapeOK(shape) ==
  /\ shape.family \in Families
  /\ shape.protocol = "v5" => shape.family = "ipv4" /\ shape.id = 1 /\ shape.templateBytes = 0 /\ IsExactV5Shape(shape)
  /\ shape.protocol # "v5" => shape.id \in 256 .. Max16 /\ shape.templateBytes \in 1 .. MaxTemplateBytes
  /\ Len(shape.fields) \in 1 .. MaxFieldsPerShape
  /\ shape.templateBytes = TemplateBytes(shape)
  /\ \A i \in DOMAIN shape.fields :
       LET d == shape.fields[i] IN DescriptorOK(d) /\ d.protocol = shape.protocol /\ AddressFits(d, shape.family)
  /\ UniqueIdentities(shape.fields)
  /\ shape.recordLength \in 1 .. Max16 /\ shape.recordLength = RecordLength(shape)

CustomDescriptors(shapes) ==
  {d \in UNION {Range(shapes[i].fields) : i \in DOMAIN shapes} : d.custom}

\* NewCatalog with default limits, and Catalog.Validate, which builds it again.
CatalogOK(protocol, idBase, shapes) ==
  /\ Len(shapes) \in 1 .. MaxShapes /\ (protocol = "v5" => Len(shapes) = 1)
  /\ protocol # "v5" => idBase >= 256 /\ idBase + Len(shapes) - 1 <= Max16
  /\ \A i \in DOMAIN shapes : shapes[i].protocol = protocol /\ ShapeOK(shapes[i])
  /\ \A i, j \in DOMAIN shapes : shapes[i].id = shapes[j].id => i = j
  /\ Cardinality(CustomDescriptors(shapes)) <= MaxCustomMappings
  /\ Cardinality({d.pen : d \in CustomDescriptors(shapes)} \ {0}) <= MaxPENs

-----------------------------------------------------------------------------
(* Values in fields.                                                       *)

\* The largest number of an encoding; 64 bits hold every value of the model.
UnsignedLimit == "unsigned8" :> 255 @@ "unsigned16" :> Max16 @@ "unsigned32" :> Max32 @@ "unsigned64" :> Max63
SignedLimit   == "signed8" :> 127 @@ "signed16" :> 32767 @@ "signed32" :> Max32 \div 2 @@ "signed64" :> Max63

\* FieldDescriptor.ValueLength: the values a field can hold.
Sound(d, v) ==
  /\ ValueOK(v)
  /\ d.field \in AbsoluteTimes => v.kind = "time"
  /\ IF d.constant THEN v.kind = "uint" /\ v.n = 0
     ELSE CASE d.encoding = "string"       -> v.kind = "string" /\ (d.variable \/ v.n = d.length)
            [] d.encoding = "octet_array"  -> v.kind = "bytes" /\ (d.variable \/ v.n = d.length)
            [] d.encoding \in Unsigned     ->
                 \/ d.field \in AbsoluteTimes
                 \/ v.kind \in {"uint", "int"} /\ v.n \in 0 .. UnsignedLimit[d.encoding]
            [] d.encoding \in Signed       ->
                 v.kind = "int" /\ v.n \in -(SignedLimit[d.encoding] + 1) .. SignedLimit[d.encoding]
            [] d.encoding = "ipv4_address" -> v.kind = "ip" /\ v.text = "ip4"
            [] d.encoding = "ipv6_address" -> v.kind = "ip" /\ v.text \in {"ip6", "ip4in6"}
            [] d.encoding = "mac_address"  -> v.kind = "mac"
            [] d.encoding \in Times        -> v.kind = "time"

FieldLength(d, v) == IF Sound(d, v) THEN ValueLength(d, v.n) ELSE Invalid

\* NewRecord: the values of a normalized record; three addresses are not of the flow.
NewRecordOK(family, values) ==
  /\ family \in Families /\ DOMAIN values # {} /\ DOMAIN values \subseteq Canonical
  /\ \A f \in DOMAIN values :
       /\ IF f \in Flow({"sampler_address", "next_hop", "bgp_next_hop"}) THEN ValueOK(values[f])
          ELSE ValueOKForFamily(values[f], family)
       /\ f \in AbsoluteTimes => values[f].kind = "time"

\* NewWireRecord, and WireRecord.Validate.
WireRecordOK(family, values) ==
  /\ family \in Families /\ Len(values) \in 1 .. MaxFieldsPerShape
  /\ \A i \in DOMAIN values : ValueOKForFamily(values[i], family)

\* Shape.RecordSize of a typed record; a record the shape cannot hold is unsound.
WireRecordSize(shape, record) ==
  LET fits == /\ WireRecordOK(record.family, record.values) /\ record.family = shape.family
              /\ Len(record.values) = Len(shape.fields)
              /\ \A i \in DOMAIN shape.fields : Sound(shape.fields[i], record.values[i])
  IN  RecordSize(shape, [status  |-> IF fits THEN "sound" ELSE "unsound",
                         lengths |-> [i \in DOMAIN record.values |-> record.values[i].n]])
=============================================================================
