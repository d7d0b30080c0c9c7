------------------------------- MODULE WireSize -------------------------------
(***************************************************************************)
(* The size arithmetic of the wire contract (internal/wire/contract.go)    *)
(* and of the destination's budgets (catalog.go, state.go).                *)
(*                                                                         *)
(* A shape is a protocol and a sequence of fields.  A record is, for each  *)
(* field, the length of its value, and a status: "unsound" if a value does *)
(* not fit its field, "untimely" if only the protocol writer objects (a    *)
(* time that its header or its encoding cannot carry).  The checked uint64 *)
(* additions of the code cannot fail here: every operand is below 2^17.    *)
(***************************************************************************)
EXTENDS Integers, Sequences, SequencesExt

CONSTANTS
  Max16,      \* 65535: largest message, set and record count
  Escape,     \* 255: shortest variable value with a three-byte length
  MaxV5       \* 30: records of a v5 packet

ASSUME WireAssumption == Max16 \in Nat \ {0} /\ Escape \in Nat \ {0} /\ MaxV5 \in Nat \ {0}

\* Sizes are natural numbers; these are the errors returned in their place.
Invalid == -1
Bounds  == -2

SetHeader == 4

HeaderLength(protocol) == CASE protocol = "v5" -> 24 [] protocol = "v9" -> 20 [] protocol = "ipfix" -> 16

Sum(s) == LET sum[i \in 0 .. Len(s)] == IF i = 0 THEN 0 ELSE sum[i - 1] + s[i] IN sum[Len(s)]

MinimumLength(f) == IF f.variable THEN 1 ELSE f.length

\* Shape.recordLength: the fixed length, or the least one.
RecordLength(shape) == Sum([i \in DOMAIN shape.fields |-> MinimumLength(shape.fields[i])])

HasVariableFields(shape) == \E i \in DOMAIN shape.fields : shape.fields[i].variable

TemplateBytes(shape) ==
  IF shape.protocol = "v5" THEN 0
  ELSE 8 + Sum([i \in DOMAIN shape.fields |-> IF shape.protocol = "ipfix" /\ shape.fields[i].enterprise THEN 8 ELSE 4])

Prefix(n) == IF n >= Escape THEN 3 ELSE 1

\* ValueLength of a sound value of length n.
ValueLength(f, n) ==
  IF ~f.variable THEN f.length
  ELSE IF n > f.maxLength \/ Prefix(n) + n > Max16 THEN Bounds ELSE Prefix(n) + n

\* Shape.RecordSize.
RecordSize(shape, r) ==
  LET lengths == [i \in DOMAIN shape.fields |-> ValueLength(shape.fields[i], r.lengths[i])] IN
  IF r.status = "unsound" THEN Invalid
  ELSE IF \E i \in DOMAIN lengths : lengths[i] = Bounds THEN Bounds ELSE Sum(lengths)

\* Mutant of Padding: sets are always aligned.
PaddingAlways(shape, raw) == (4 - (raw % 4)) % 4

\* Alignment bytes after raw bytes of a set: none that a collector could take for a record.
Padding(shape, raw) ==
  LET candidate == (4 - (raw % 4)) % 4 IN IF candidate < RecordLength(shape) THEN candidate ELSE 0

\* Shape.DataSetSizeForEncoded.
DataSetSize(shape, bytes, count) ==
  LET least  == count * RecordLength(shape)
      raw    == SetHeader + bytes
      length == IF shape.protocol = "v5" THEN bytes ELSE raw + Padding(shape, raw)
  IN  IF count > Max16 \/ bytes < least \/ (~HasVariableFields(shape) /\ bytes # least) THEN Bounds
      ELSE IF count = 0 THEN (IF bytes = 0 THEN 0 ELSE Bounds)
      ELSE IF length > Max16 THEN Bounds ELSE length

PacketLength(protocol, templateBytes, dataBytes) == HeaderLength(protocol) + templateBytes + dataBytes

PayloadOK(length, budget) == budget <= Max16 /\ length <= budget

\* Preflight of a one-shot packet into a buffer of budget bytes: its length, or an error.
Preflight(shape, templates, records, budget) ==
  LET sizes   == [i \in DOMAIN records |-> RecordSize(shape, records[i])]
      errors  == {sizes[i] : i \in DOMAIN sizes} \cap {Invalid, Bounds}
      data    == DataSetSize(shape, Sum(sizes), Len(records))
      message == PacketLength(shape.protocol, templates * TemplateBytes(shape), data)
  IN  IF shape.protocol = "v5" /\ (Len(records) \notin 1 .. MaxV5 \/ templates # 0) THEN Bounds
      ELSE IF errors # {} THEN CHOOSE e \in errors : TRUE
      ELSE IF data = Bounds \/ ~PayloadOK(message, budget) THEN Bounds ELSE message

\* minimumDataPacketBytes, the catalog's own arithmetic.
MinimumDataPacket(shape) ==
  LET header == HeaderLength(shape.protocol)
      raw    == 4 + RecordLength(shape)
      rest   == raw % 4
  IN  IF shape.protocol = "v5" THEN header + RecordLength(shape)
      ELSE header + raw + (IF rest # 0 /\ 4 - rest < RecordLength(shape) THEN 4 - rest ELSE 0)

\* validateCatalogBudget for one shape: NewState refuses a destination without it.
CatalogFits(shape, maxDatagram) ==
  /\ HeaderLength(shape.protocol) + TemplateBytes(shape) <= maxDatagram
  /\ MinimumDataPacket(shape) <= maxDatagram
=============================================================================
