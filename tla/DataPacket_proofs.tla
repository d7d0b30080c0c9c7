--------------------------- MODULE DataPacket_proofs ---------------------------
(***************************************************************************)
(* Proofs about the datagrams and their sizes, for every shape that        *)
(* NewShape accepts, every budget and every sequence of records.  Sizes    *)
(* are sums over the fields and datagrams are concatenations over fields   *)
(* and records; WireSize_proofs has the inductions.                        *)
(***************************************************************************)
EXTENDS DataPacket, WireSize_proofs

-----------------------------------------------------------------------------
(* Buffers.                                                                *)

\* b starts with the bytes s.
StartsWith(b, s) == Len(s) <= Len(b) /\ \A i \in 1 .. Len(s) : b[i] = s[i]

\* Then s is the subsequence of that length.
LEMMA StartIsSubSeq ==
  ASSUME NEW X, NEW b \in Seq(X), NEW s \in Seq(X), StartsWith(b, s)
  PROVE  SubSeq(b, 1, Len(s)) = s
<1>1. Len(s) \in Nat /\ Len(b) \in Nat /\ Len(s) <= Len(b) /\ \A i \in 1 .. Len(s) : b[i] = s[i]
  BY LenProperties DEF StartsWith
<1>2. SubSeq(b, 1, Len(s)) = [i \in 1 .. Len(s) |-> b[i]]
  BY <1>1
<1>3. s = [i \in 1 .. Len(s) |-> s[i]]
  BY LenProperties
<1> QED
  BY <1>1, <1>2, <1>3

\* Bytes written where the start of a buffer ends extend that start, and change
\* neither the buffer's length nor its type.
LEMMA OverwriteExtends ==
  ASSUME NEW X, NEW b \in Seq(X), NEW s \in Seq(X), NEW t \in Seq(X),
         StartsWith(b, s), Len(s) + Len(t) <= Len(b)
  PROVE  /\ Overwrite(b, Len(s), t) \in Seq(X) /\ Len(Overwrite(b, Len(s), t)) = Len(b)
         /\ StartsWith(Overwrite(b, Len(s), t), s \o t)
<1> DEFINE c == Overwrite(b, Len(s), t)
<1>1. /\ Len(s) \in Nat /\ Len(t) \in Nat /\ Len(b) \in Nat /\ DOMAIN b = 1 .. Len(b)
      /\ \A i \in 1 .. Len(b) : b[i] \in X
      /\ \A i \in 1 .. Len(t) : t[i] \in X
  BY LenProperties
<1>2. c = [i \in 1 .. Len(b) |-> IF Len(s) < i /\ i <= Len(s) + Len(t) THEN t[i - Len(s)] ELSE b[i]]
  BY <1>1 DEF Overwrite
<1>3. c \in [1 .. Len(b) -> X]
  <2>1. ASSUME NEW i \in 1 .. Len(b), Len(s) < i, i <= Len(s) + Len(t) PROVE t[i - Len(s)] \in X
    BY <1>1, <2>1
  <2> QED
    BY <1>1, <1>2, <2>1
<1>4. c \in Seq(X) /\ Len(c) = Len(b)
  BY <1>1, <1>3, FunctionIsSequence
<1>5. /\ Len(s \o t) = Len(s) + Len(t)
      /\ \A i \in 1 .. Len(s) + Len(t) : (s \o t)[i] = IF i <= Len(s) THEN s[i] ELSE t[i - Len(s)]
  BY ConcatProperties
<1>6. ASSUME NEW i \in 1 .. Len(s) + Len(t) PROVE c[i] = (s \o t)[i]
  <2>1. i \in 1 .. Len(b)
    BY <1>1
  <2>2. CASE i <= Len(s)
    <3>1. c[i] = b[i] /\ (s \o t)[i] = s[i] /\ i \in 1 .. Len(s)
      BY <1>1, <1>2, <1>5, <2>1, <2>2
    <3> QED
      BY <3>1 DEF StartsWith
  <2>3. CASE ~(i <= Len(s))
    <3>1. Len(s) < i
      BY <1>1, <2>3
    <3> QED
      BY <1>2, <1>5, <2>1, <2>3, <3>1
  <2> QED
    BY <2>2, <2>3
<1> HIDE DEF c
<1>7. StartsWith(c, s \o t)
  BY <1>4, <1>5, <1>6 DEF StartsWith
<1> QED
  BY <1>4, <1>7 DEF c

-----------------------------------------------------------------------------
(* Sizes of records.                                                       *)

\* The fields of a shape that NewShape accepts.
LEMMA FieldsOf ==
  ASSUME NEW s, WellFormed(s)
  PROVE  /\ Len(s.fields) \in Nat \ {0} /\ DOMAIN s.fields = 1 .. Len(s.fields)
         /\ \A i \in 1 .. Len(s.fields) :
              /\ s.fields[i] \in Field
              /\ ~s.fields[i].variable => s.fields[i].length > 0
              /\ s.fields[i].variable => s.protocol = "ipfix"
<1>1. s.fields \in Seq(Field) /\ s.fields # << >>
  BY DEF WellFormed
<1>2. Len(s.fields) \in Nat /\ DOMAIN s.fields = 1 .. Len(s.fields)
      /\ \A i \in 1 .. Len(s.fields) : s.fields[i] \in Field
  BY <1>1, LenProperties
<1>3. Len(s.fields) # 0
  BY <1>1, EmptySeq
<1>4. \A i \in 1 .. Len(s.fields) : IF s.fields[i].variable THEN s.protocol = "ipfix" ELSE s.fields[i].length > 0
  BY <1>2 DEF WellFormed
<1> QED
  BY <1>2, <1>3, <1>4

\* The least lengths of the fields.
Minima(s) == [i \in DOMAIN s.fields |-> MinimumLength(s.fields[i])]

\* They are positive, and so is the least size of a record.
LEMMA LeastRecord ==
  ASSUME NEW s, WellFormed(s)
  PROVE  /\ Minima(s) \in Seq(Nat) /\ Len(Minima(s)) = Len(s.fields)
         /\ \A i \in 1 .. Len(s.fields) : Minima(s)[i] = MinimumLength(s.fields[i]) /\ Minima(s)[i] > 0
         /\ RecordLength(s) = Sum(Minima(s)) /\ RecordLength(s) \in Nat \ {0}
<1> DEFINE n == Len(s.fields)
<1>1. n \in Nat \ {0} /\ DOMAIN s.fields = 1 .. n
  BY FieldsOf
<1>2. ASSUME NEW i \in 1 .. n PROVE MinimumLength(s.fields[i]) \in Nat /\ MinimumLength(s.fields[i]) > 0
  <2>1. s.fields[i] \in Field /\ (~s.fields[i].variable => s.fields[i].length > 0)
    BY FieldsOf
  <2> QED
    BY <2>1 DEF Field, MinimumLength
<1> HIDE DEF n
<1>3. Minima(s) \in [1 .. n -> Nat] /\ \A i \in 1 .. n : Minima(s)[i] = MinimumLength(s.fields[i]) /\ Minima(s)[i] > 0
  BY <1>1, <1>2 DEF Minima
<1>4. Minima(s) \in Seq(Nat) /\ Len(Minima(s)) = n
  BY <1>1, <1>3, FunctionIsSequence
<1>5. RecordLength(s) = Sum(Minima(s))
  BY DEF RecordLength, Minima
<1>6. Sum(Minima(s)) \in Nat
  BY <1>4, SumsDefined
<1>7. Sum(Minima(s)) > 0
  BY <1>1, <1>3, <1>4, SumPositive
<1> QED
  BY <1>3, <1>4, <1>5, <1>6, <1>7 DEF n

\* r has a length for the value of each field of s.
Measured(s, r) == r.lengths \in [DOMAIN s.fields -> Nat]

\* The lengths of r's values on the wire.
ValueLengths(s, r) == [i \in DOMAIN s.fields |-> ValueLength(s.fields[i], r.lengths[i])]

\* A value has at least the least length of its field, and just that in a fixed one.
LEMMA LengthOfValue ==
  ASSUME NEW f \in Field, NEW n \in Nat
  PROVE  \/ ValueLength(f, n) = Bounds /\ f.variable
         \/ /\ ValueLength(f, n) \in Nat /\ MinimumLength(f) <= ValueLength(f, n)
            /\ ~f.variable => ValueLength(f, n) = MinimumLength(f)
            /\ f.variable => ValueLength(f, n) = Prefix(n) + n
  BY WireAssumption DEF Field, ValueLength, MinimumLength, Prefix, Bounds

\* What RecordSize returns: an error, or the sum of the lengths of the values.
\* The sum is never below the least size, and is that size if every field is fixed.
LEMMA SizeOfRecord ==
  ASSUME NEW s, WellFormed(s), NEW r, Measured(s, r)
  PROVE  \/ RecordSize(s, r) \in {Invalid, Bounds}
         \/ /\ RecordSize(s, r) \in Nat /\ RecordLength(s) <= RecordSize(s, r)
            /\ ~HasVariableFields(s) => RecordSize(s, r) = RecordLength(s)
            /\ ValueLengths(s, r) \in Seq(Nat) /\ Len(ValueLengths(s, r)) = Len(s.fields)
            /\ \A i \in 1 .. Len(s.fields) :
                 /\ ValueLengths(s, r)[i] = ValueLength(s.fields[i], r.lengths[i])
                 /\ ValueLength(s.fields[i], r.lengths[i]) \in Nat
            /\ RecordSize(s, r) = Sum(ValueLengths(s, r))
<1> DEFINE n == Len(s.fields)
           v == ValueLengths(s, r)
<1>1. n \in Nat \ {0} /\ DOMAIN s.fields = 1 .. n /\ \A i \in 1 .. n : s.fields[i] \in Field
  BY FieldsOf
<1> HIDE DEF n
<1>2. \A i \in 1 .. n : r.lengths[i] \in Nat
  BY <1>1 DEF Measured
<1>3. DOMAIN v = 1 .. n /\ \A i \in 1 .. n : v[i] = ValueLength(s.fields[i], r.lengths[i])
  BY <1>1 DEF ValueLengths
<1>4. RecordSize(s, r) = IF r.status = "unsound" THEN Invalid
                         ELSE IF \E i \in DOMAIN v : v[i] = Bounds THEN Bounds ELSE Sum(v)
  BY DEF RecordSize, ValueLengths
<1> SUFFICES ASSUME RecordSize(s, r) \notin {Invalid, Bounds}
             PROVE  /\ RecordSize(s, r) \in Nat /\ RecordLength(s) <= RecordSize(s, r)
                    /\ ~HasVariableFields(s) => RecordSize(s, r) = RecordLength(s)
                    /\ v \in Seq(Nat) /\ Len(v) = n
                    /\ \A i \in 1 .. n : v[i] = ValueLength(s.fields[i], r.lengths[i])
                                         /\ ValueLength(s.fields[i], r.lengths[i]) \in Nat
                    /\ RecordSize(s, r) = Sum(v)
  BY DEF n
<1>5. \A i \in 1 .. n : v[i] # Bounds
  BY <1>3, <1>4
<1>6. RecordSize(s, r) = Sum(v)
  BY <1>4
<1> HIDE DEF v
<1>7. ASSUME NEW i \in 1 .. n
      PROVE  /\ v[i] \in Nat /\ MinimumLength(s.fields[i]) <= v[i]
             /\ ~s.fields[i].variable => v[i] = MinimumLength(s.fields[i])
  BY <1>1, <1>2, <1>3, <1>5, LengthOfValue
<1>8. v \in Seq(Nat) /\ Len(v) = n
  <2>1. v \in [1 .. n -> Nat]
    <3>1. v = [i \in DOMAIN s.fields |-> ValueLength(s.fields[i], r.lengths[i])]
      BY DEF v, ValueLengths
    <3> QED
      BY <1>1, <1>3, <1>7, <3>1
  <2> QED
    BY <1>1, <2>1, FunctionIsSequence
<1>9. Sum(v) \in Nat
  BY <1>8, SumsDefined
<1>10. /\ Minima(s) \in Seq(Nat) /\ Len(Minima(s)) = n /\ RecordLength(s) = Sum(Minima(s))
       /\ \A i \in 1 .. n : Minima(s)[i] = MinimumLength(s.fields[i])
  BY LeastRecord DEF n
<1>11. RecordLength(s) <= Sum(v)
  <2>1. \A i \in 1 .. n : Minima(s)[i] <= v[i]
    BY <1>7, <1>10
  <2> QED
    BY <1>8, <1>10, <2>1, SumMonotone
<1>12. ASSUME ~HasVariableFields(s) PROVE Sum(v) = RecordLength(s)
  <2>1. \A i \in 1 .. n : v[i] = Minima(s)[i]
    BY <1>1, <1>7, <1>10, <1>12 DEF HasVariableFields
  <2>2. v = Minima(s)
    BY <1>8, <1>10, <2>1, SeqEqual
  <2> QED
    BY <1>10, <2>2
<1> QED
  BY <1>3, <1>6, <1>7, <1>8, <1>9, <1>11, <1>12

\* The record of empty values has the least size.
LEMMA EmptyRecord ==
  ASSUME NEW s, WellFormed(s), NEW r, r.lengths = [i \in DOMAIN s.fields |-> 0], r.status = "good"
  PROVE  RecordSize(s, r) = RecordLength(s)
<1> DEFINE v == ValueLengths(s, r)
<1>1. DOMAIN s.fields = 1 .. Len(s.fields) /\ \A i \in 1 .. Len(s.fields) : s.fields[i] \in Field
  BY FieldsOf
<1>2. ASSUME NEW i \in DOMAIN s.fields
      PROVE  ValueLength(s.fields[i], r.lengths[i]) = MinimumLength(s.fields[i]) /\ MinimumLength(s.fields[i]) \in Nat
  <2>1. s.fields[i] \in Field /\ r.lengths[i] = 0
    BY <1>1
  <2> QED
    BY <2>1, WireAssumption DEF Field, ValueLength, MinimumLength, Prefix
<1>3. v = Minima(s) /\ \A i \in DOMAIN v : v[i] # Bounds
  BY <1>2 DEF ValueLengths, Minima, Bounds
<1>4. RecordSize(s, r) = IF r.status = "unsound" THEN Invalid
                         ELSE IF \E i \in DOMAIN v : v[i] = Bounds THEN Bounds ELSE Sum(v)
  BY DEF RecordSize, ValueLengths
<1> HIDE DEF v
<1> QED
  BY <1>3, <1>4, LeastRecord

\* Alignment is below four bytes and below any record.
LEMMA PaddingSmall ==
  ASSUME NEW s, WellFormed(s), NEW raw \in Nat
  PROVE  Padding(s, raw) \in 0 .. 3 /\ Padding(s, raw) < RecordLength(s)
<1>1. RecordLength(s) \in Nat \ {0}
  BY LeastRecord
<1>2. (4 - (raw % 4)) % 4 \in 0 .. 3
  OBVIOUS
<1> QED
  BY <1>1, <1>2 DEF Padding

\* What DataSetSizeForEncoded returns for a set that is not empty.
LEMMA SizeOfDataSet ==
  ASSUME NEW s, WellFormed(s), NEW bytes \in Nat, NEW n \in Nat \ {0}, DataSetSize(s, bytes, n) # Bounds
  PROVE  /\ n <= Max16 /\ n * RecordLength(s) <= bytes
         /\ ~HasVariableFields(s) => bytes = n * RecordLength(s)
         /\ DataSetSize(s, bytes, n) = IF s.protocol = "v5" THEN bytes
                                       ELSE SetHeader + bytes + Padding(s, SetHeader + bytes)
         /\ DataSetSize(s, bytes, n) \in Nat /\ DataSetSize(s, bytes, n) <= Max16
<1> DEFINE least == n * RecordLength(s)
           pad == Padding(s, SetHeader + bytes)
<1>1. RecordLength(s) \in Nat
  BY LeastRecord
<1>2. least \in Nat
  BY <1>1
<1>3. SetHeader + bytes \in Nat
  BY DEF SetHeader
<1>4. pad \in Nat
  BY <1>3, PaddingSmall
<1>5. DataSetSize(s, bytes, n) =
        IF n > Max16 \/ bytes < least \/ (~HasVariableFields(s) /\ bytes # least) THEN Bounds
        ELSE IF (IF s.protocol = "v5" THEN bytes ELSE SetHeader + bytes + pad) > Max16 THEN Bounds
        ELSE IF s.protocol = "v5" THEN bytes ELSE SetHeader + bytes + pad
  BY DEF DataSetSize
<1> HIDE DEF least, pad
<1>6. least <= bytes /\ n <= Max16
  BY <1>2, <1>5, WireAssumption
<1> QED
  BY <1>2, <1>4, <1>5, <1>6, WireAssumption DEF least, pad, SetHeader

\* A set that is not refused has that size.
LEMMA DataSetAccepted ==
  ASSUME NEW s, WellFormed(s), NEW size \in Nat, RecordLength(s) <= size,
         ~HasVariableFields(s) => size = RecordLength(s),
         (IF s.protocol = "v5" THEN size ELSE SetHeader + size + Padding(s, SetHeader + size)) <= Max16
  PROVE  DataSetSize(s, size, 1) = IF s.protocol = "v5" THEN size
                                   ELSE SetHeader + size + Padding(s, SetHeader + size)
<1> DEFINE pad == Padding(s, SetHeader + size)
<1>1. RecordLength(s) \in Nat /\ 1 * RecordLength(s) = RecordLength(s)
  BY LeastRecord
<1>2. SetHeader + size \in Nat
  BY DEF SetHeader
<1>3. pad \in Nat
  BY <1>2, PaddingSmall
<1>4. DataSetSize(s, size, 1) =
        IF 1 > Max16 \/ size < RecordLength(s) \/ (~HasVariableFields(s) /\ size # RecordLength(s)) THEN Bounds
        ELSE IF (IF s.protocol = "v5" THEN size ELSE SetHeader + size + pad) > Max16 THEN Bounds
        ELSE IF s.protocol = "v5" THEN size ELSE SetHeader + size + pad
  BY <1>1 DEF DataSetSize
<1> HIDE DEF pad
<1> QED
  BY <1>1, <1>3, <1>4, WireAssumption DEF SetHeader, pad

\* A record that may be added to a set may be alone in one, which is no longer.
LEMMA RoomForOne ==
  ASSUME NEW s, WellFormed(s), NEW size \in Nat, RecordLength(s) <= size,
         ~HasVariableFields(s) => size = RecordLength(s),
         NEW bytes \in Nat, bytes = 0 \/ RecordLength(s) <= bytes, NEW n \in Nat,
         DataSetSize(s, bytes + size, n + 1) # Bounds
  PROVE  /\ DataSetSize(s, size, 1) \in Nat
         /\ DataSetSize(s, size, 1) <= DataSetSize(s, bytes + size, n + 1)
<1> DEFINE one == IF s.protocol = "v5" THEN size ELSE SetHeader + size + Padding(s, SetHeader + size)
           all == DataSetSize(s, bytes + size, n + 1)
<1>1. bytes + size \in Nat /\ n + 1 \in Nat \ {0} /\ SetHeader + size \in Nat /\ SetHeader + (bytes + size) \in Nat
  BY DEF SetHeader
<1>2. /\ all = IF s.protocol = "v5" THEN bytes + size
               ELSE SetHeader + (bytes + size) + Padding(s, SetHeader + (bytes + size))
      /\ all \in Nat /\ all <= Max16
  BY <1>1, SizeOfDataSet
<1> HIDE DEF all
<1>3. /\ Padding(s, SetHeader + size) \in Nat /\ Padding(s, SetHeader + size) < RecordLength(s)
      /\ Padding(s, SetHeader + (bytes + size)) \in Nat /\ RecordLength(s) \in Nat
  <2>1. RecordLength(s) \in Nat
    BY LeastRecord
  <2>2. \A raw \in Nat : Padding(s, raw) \in 0 .. 3 /\ Padding(s, raw) < RecordLength(s)
    BY PaddingSmall
  <2> QED
    BY <1>1, <2>1, <2>2
<1>4. one <= all /\ one \in Nat
  <2>1. CASE bytes = 0
    <3>1. bytes + size = size
      BY <2>1
    <3> QED
      BY <1>2, <1>3, <3>1 DEF SetHeader
  <2>2. CASE RecordLength(s) <= bytes
    BY <1>2, <1>3, <2>2 DEF SetHeader
  <2> QED
    BY <2>1, <2>2
<1>5. one <= Max16
  BY <1>2, <1>4, WireAssumption
<1> HIDE DEF one
<1>6. DataSetSize(s, size, 1) = one
  BY <1>5, DataSetAccepted DEF one
<1> QED
  BY <1>4, <1>6 DEF all

\* Header lengths.
LEMMA HeaderLengths ==
  HeaderLength("v5") = 24 /\ HeaderLength("v9") = 20 /\ HeaderLength("ipfix") = 16
BY DEF HeaderLength

\* Templates have a size.
LEMMA SizeOfTemplate ==
  ASSUME NEW s, WellFormed(s)
  PROVE  TemplateBytes(s) \in Nat
<1> DEFINE n == Len(s.fields)
           v == [i \in DOMAIN s.fields |-> IF s.protocol = "ipfix" /\ s.fields[i].enterprise THEN 8 ELSE 4]
<1>1. n \in Nat \ {0} /\ DOMAIN s.fields = 1 .. n
  BY FieldsOf
<1>2. v \in [1 .. n -> Nat]
  BY <1>1
<1>3. v \in Seq(Nat)
  <2> HIDE DEF v, n
  <2> QED
    BY <1>1, <1>2, FunctionIsSequence
<1>4. Sum(v) \in Nat
  BY <1>3, SumsDefined
<1>5. TemplateBytes(s) = IF s.protocol = "v5" THEN 0 ELSE 8 + Sum(v)
  BY DEF TemplateBytes
<1> HIDE DEF v
<1> QED
  BY <1>4, <1>5

\* The catalog's own arithmetic is that of the contract: a budget it accepts
\* has room for a record of least size.
LEMMA CatalogHoldsRecord ==
  ASSUME NEW s, WellFormed(s), NEW budget \in 0 .. Max16, CatalogFits(s, budget)
  PROVE  /\ DataSetSize(s, RecordLength(s), 1) \in Nat
         /\ PacketLength(s.protocol, 0, DataSetSize(s, RecordLength(s), 1)) <= budget
<1> DEFINE l == RecordLength(s)
           one == IF s.protocol = "v5" THEN l ELSE SetHeader + l + Padding(s, SetHeader + l)
<1>1. l \in Nat \ {0} /\ s.protocol \in {"v5", "v9", "ipfix"}
  BY LeastRecord DEF WellFormed
<1>2. MinimumDataPacket(s) <= budget
  BY DEF CatalogFits
<1>3. MinimumDataPacket(s) = HeaderLength(s.protocol) + one
  <2>1. CASE s.protocol = "v5"
    BY <1>1, <2>1 DEF MinimumDataPacket
  <2>2. CASE s.protocol # "v5"
    <3> DEFINE rest == (4 + l) % 4
               pad == IF rest # 0 /\ 4 - rest < l THEN 4 - rest ELSE 0
               h == HeaderLength(s.protocol)
    <3>1. MinimumDataPacket(s) = h + (4 + l) + pad
      BY <2>2 DEF MinimumDataPacket
    <3>2. rest \in 0 .. 3
      BY <1>1
    <3>3. Padding(s, 4 + l) = IF (4 - rest) % 4 < l THEN (4 - rest) % 4 ELSE 0
      BY DEF Padding
    <3>4. pad \in Nat /\ Padding(s, 4 + l) = pad
      <4> HIDE DEF rest, l
      <4>1. (4 - rest) % 4 = IF rest = 0 THEN 0 ELSE 4 - rest
        BY <3>2
      <4> QED
        BY <1>1, <3>2, <3>3, <4>1
    <3>5. h \in Nat
      BY <1>1, HeaderLengths
    <3> HIDE DEF h, pad, l
    <3> QED
      BY <1>1, <2>2, <3>1, <3>4, <3>5 DEF SetHeader, h
  <2> QED
    BY <2>1, <2>2
<1>4. one \in Nat
  <2>1. SetHeader + l \in Nat
    BY <1>1 DEF SetHeader
  <2>2. Padding(s, SetHeader + l) \in Nat
    BY <2>1, PaddingSmall
  <2> QED
    BY <1>1, <2>1, <2>2
<1> HIDE DEF one, l
<1>5. one <= Max16 /\ HeaderLength(s.protocol) + one <= budget
  BY <1>1, <1>2, <1>3, <1>4, HeaderLengths, WireAssumption
<1>6. DataSetSize(s, l, 1) = one
  <2>1. l <= l /\ l \in Nat
    BY <1>1
  <2> QED
    BY <1>5, <2>1, DataSetAccepted DEF one, l
<1> QED
  BY <1>1, <1>4, <1>5, <1>6, HeaderLengths DEF PacketLength, l

\* And for a template.
LEMMA CatalogHoldsTemplate ==
  ASSUME NEW s, WellFormed(s), s.protocol # "v5", NEW budget \in 0 .. Max16, CatalogFits(s, budget)
  PROVE  Preflight(s, 1, << >>, budget) > 0
<1> DEFINE sizes == [i \in DOMAIN << >> |-> RecordSize(s, << >>[i])]
<1>1. << >> \in Seq(Nat) /\ Len(<< >>) = 0 /\ DOMAIN << >> = {}
  BY EmptySeq
<1>2. sizes = << >> /\ {sizes[i] : i \in DOMAIN sizes} = {}
  BY <1>1
<1>3. Sum(<< >>) = 0
  <2>1. AreSums(Sums(<< >>), << >>) /\ Sum(<< >>) = Sums(<< >>)[Len(<< >>)]
    BY <1>1, SumsDefined
  <2> QED
    BY <1>1, <2>1 DEF AreSums
<1>4. RecordLength(s) \in Nat /\ 0 * RecordLength(s) = 0
  BY LeastRecord
<1>5. DataSetSize(s, 0, 0) = 0
  BY <1>4, WireAssumption DEF DataSetSize
<1>6. HeaderLength(s.protocol) \in {16, 20} /\ TemplateBytes(s) \in Nat /\ 1 * TemplateBytes(s) = TemplateBytes(s)
  BY HeaderLengths, SizeOfTemplate DEF WellFormed
<1>7. PacketLength(s.protocol, 1 * TemplateBytes(s), 0) = HeaderLength(s.protocol) + TemplateBytes(s)
  BY <1>6 DEF PacketLength
<1>8. PayloadOK(HeaderLength(s.protocol) + TemplateBytes(s), budget)
  BY DEF CatalogFits, PayloadOK
<1>9. Preflight(s, 1, << >>, budget) = HeaderLength(s.protocol) + TemplateBytes(s)
  <2>1. Preflight(s, 1, << >>, budget) =
          LET errors == {sizes[i] : i \in DOMAIN sizes} \cap {Invalid, Bounds}
              data == DataSetSize(s, Sum(sizes), Len(<< >>))
              message == PacketLength(s.protocol, 1 * TemplateBytes(s), data)
          IN  IF errors # {} THEN CHOOSE e \in errors : TRUE
              ELSE IF data = Bounds \/ ~PayloadOK(message, budget) THEN Bounds ELSE message
    BY DEF Preflight
  <2>2. {sizes[i] : i \in DOMAIN sizes} \cap {Invalid, Bounds} = {} /\ Sum(sizes) = 0
    BY <1>2, <1>3
  <2> HIDE DEF sizes
  <2> QED
    BY <1>1, <1>5, <1>7, <1>8, <2>1, <2>2 DEF Bounds
<1> QED
  BY <1>6, <1>9

-----------------------------------------------------------------------------
(* Encoded records.                                                        *)

Byte == {"n", "junk", "header", "set", "value", "field"} \X Nat

\* A run of equal bytes.
LEMMA BytesIs ==
  ASSUME NEW X, NEW n \in Nat, NEW b \in X
  PROVE  Bytes(n, b) \in Seq(X) /\ Len(Bytes(n, b)) = n /\ \A i \in 1 .. n : Bytes(n, b)[i] = b
<1>1. Bytes(n, b) \in [1 .. n -> X] /\ \A i \in 1 .. n : Bytes(n, b)[i] = b
  BY DEF Bytes
<1> QED
  BY <1>1, FunctionIsSequence

\* The length of a value, in one byte or three.
LEMMA LengthBytesIs ==
  ASSUME NEW n \in Nat
  PROVE  LengthBytes(n) \in Seq(Byte) /\ Len(LengthBytes(n)) = Prefix(n)
<1>1. Escape \in Nat
  BY WireAssumption
<1>2. n \div 256 \in Nat /\ n % 256 \in Nat
  OBVIOUS
<1>3. <<"n", n>> \in Byte /\ <<"n", Escape>> \in Byte /\ <<"n", n \div 256>> \in Byte /\ <<"n", n % 256>> \in Byte
  BY <1>1, <1>2 DEF Byte
<1>4. ASSUME NEW a \in Byte PROVE <<a>> \in Seq(Byte) /\ Len(<<a>>) = 1
  OBVIOUS
<1>5. ASSUME NEW a \in Byte, NEW b \in Byte, NEW c \in Byte PROVE <<a, b, c>> \in Seq(Byte) /\ Len(<<a, b, c>>) = 3
  OBVIOUS
<1>6. CASE n < Escape
  BY <1>1, <1>3, <1>4, <1>6 DEF LengthBytes, Prefix
<1>7. CASE ~(n < Escape)
  BY <1>1, <1>3, <1>5, <1>7 DEF LengthBytes, Prefix
<1> QED
  BY <1>6, <1>7

\* writeValue writes as many bytes as ValueLength announces.
LEMMA EncodedFieldIs ==
  ASSUME NEW k \in Nat, NEW f \in Field, NEW n \in Nat
  PROVE  /\ EncodedField(k, f, n) \in Seq(Byte)
         /\ ValueLength(f, n) # Bounds => Len(EncodedField(k, f, n)) = ValueLength(f, n)
         /\ f.variable => \A j \in 1 .. Prefix(n) : EncodedField(k, f, n)[j] = LengthBytes(n)[j]
<1>1. CASE ~f.variable
  <2>1. <<"field", k>> \in Byte /\ f.length \in Nat
    BY DEF Byte, Field
  <2>2. Bytes(f.length, <<"field", k>>) \in Seq(Byte) /\ Len(Bytes(f.length, <<"field", k>>)) = f.length
    BY <2>1, BytesIs
  <2> QED
    BY <1>1, <2>2 DEF EncodedField, ValueLength
<1>2. CASE f.variable
  <2> DEFINE a == LengthBytes(n)
             b == Bytes(n, <<"value", k>>)
  <2>1. a \in Seq(Byte) /\ Len(a) = Prefix(n)
    BY LengthBytesIs
  <2>2. <<"value", k>> \in Byte
    BY DEF Byte
  <2>3. b \in Seq(Byte) /\ Len(b) = n
    BY <2>2, BytesIs
  <2>4. EncodedField(k, f, n) = a \o b
    BY <1>2 DEF EncodedField
  <2> HIDE DEF a, b
  <2>5. /\ a \o b \in Seq(Byte) /\ Len(a \o b) = Len(a) + Len(b)
        /\ \A j \in 1 .. Len(a) + Len(b) : (a \o b)[j] = IF j <= Len(a) THEN a[j] ELSE b[j - Len(a)]
    BY <2>1, <2>3, ConcatProperties
  <2>6. Prefix(n) \in Nat
    BY DEF Prefix
  <2>7. ASSUME NEW j \in 1 .. Prefix(n) PROVE (a \o b)[j] = a[j]
    <3>1. j \in 1 .. Len(a) + Len(b) /\ j <= Len(a)
      BY <2>1, <2>3, <2>6
    <3> QED
      BY <2>5, <3>1
  <2>8. ValueLength(f, n) # Bounds => ValueLength(f, n) = Prefix(n) + n
    BY <1>2 DEF ValueLength
  <2> QED
    BY <2>1, <2>3, <2>4, <2>5, <2>7, <2>8 DEF a
<1> QED
  BY <1>1, <1>2

\* The encoded values of the k-th record of a packet.
EncodedFields(s, k, r) == [i \in DOMAIN s.fields |-> EncodedField(k, s.fields[i], r.lengths[i])]

\* Encoded, for shape s.
EncodedOf(s, k, r) == FlattenSeq([i \in DOMAIN s.fields |-> EncodedField(k, s.fields[i], r.lengths[i])])

\* They are sequences of bytes, one for each field.
LEMMA EncodedFieldsIs ==
  ASSUME NEW s, WellFormed(s), NEW r, Measured(s, r), NEW k \in Nat
  PROVE  /\ EncodedFields(s, k, r) \in Seq(Seq(Byte)) /\ Len(EncodedFields(s, k, r)) = Len(s.fields)
         /\ \A i \in 1 .. Len(s.fields) : EncodedFields(s, k, r)[i] = EncodedField(k, s.fields[i], r.lengths[i])
         /\ EncodedOf(s, k, r) = FlattenSeq(EncodedFields(s, k, r))
<1> DEFINE n == Len(s.fields)
           e == EncodedFields(s, k, r)
<1>1. n \in Nat \ {0} /\ DOMAIN s.fields = 1 .. n /\ \A i \in 1 .. n : s.fields[i] \in Field
  BY FieldsOf
<1> HIDE DEF n
<1>2. ASSUME NEW i \in 1 .. n PROVE EncodedField(k, s.fields[i], r.lengths[i]) \in Seq(Byte)
  <2>1. r.lengths[i] \in Nat
    BY <1>1 DEF Measured
  <2> QED
    BY <1>1, <2>1, EncodedFieldIs
<1>3. e \in [1 .. n -> Seq(Byte)] /\ \A i \in 1 .. n : e[i] = EncodedField(k, s.fields[i], r.lengths[i])
  BY <1>1, <1>2 DEF EncodedFields
<1>4. EncodedOf(s, k, r) = FlattenSeq(e)
  BY DEF EncodedOf, EncodedFields
<1> HIDE DEF e
<1>5. e \in Seq(Seq(Byte)) /\ Len(e) = n
  BY <1>1, <1>3, FunctionIsSequence
<1> QED
  BY <1>3, <1>4, <1>5 DEF n, e

\* writeDataRecord writes as many bytes as RecordSize announces.
LEMMA EncodedIs ==
  ASSUME NEW s, WellFormed(s), NEW r, Measured(s, r), NEW k \in Nat
  PROVE  /\ EncodedOf(s, k, r) \in Seq(Byte)
         /\ RecordSize(s, r) \notin {Invalid, Bounds} => Len(EncodedOf(s, k, r)) = RecordSize(s, r)
<1> DEFINE e == EncodedFields(s, k, r)
           n == Len(s.fields)
           v == ValueLengths(s, r)
<1>1. /\ e \in Seq(Seq(Byte)) /\ Len(e) = n
      /\ \A i \in 1 .. n : e[i] = EncodedField(k, s.fields[i], r.lengths[i])
      /\ EncodedOf(s, k, r) = FlattenSeq(e)
  BY EncodedFieldsIs
<1> HIDE DEF e
<1>2. EncodedOf(s, k, r) \in Seq(Byte)
  BY <1>1, FlattenType
<1>3. ASSUME RecordSize(s, r) \notin {Invalid, Bounds} PROVE Len(EncodedOf(s, k, r)) = RecordSize(s, r)
  <2>1. /\ v \in Seq(Nat) /\ Len(v) = n /\ RecordSize(s, r) = Sum(v)
        /\ \A i \in 1 .. n : v[i] = ValueLength(s.fields[i], r.lengths[i])
                             /\ ValueLength(s.fields[i], r.lengths[i]) \in Nat
    BY <1>3, SizeOfRecord
  <2> HIDE DEF v
  <2>2. ASSUME NEW i \in 1 .. n PROVE Len(e[i]) = v[i]
    <3>1. s.fields[i] \in Field /\ r.lengths[i] \in Nat
      BY FieldsOf DEF Measured
    <3>2. ValueLength(s.fields[i], r.lengths[i]) # Bounds
      BY <2>1 DEF Bounds
    <3>3. Len(EncodedField(k, s.fields[i], r.lengths[i])) = ValueLength(s.fields[i], r.lengths[i])
      BY <3>1, <3>2, EncodedFieldIs
    <3> QED
      BY <1>1, <2>1, <3>3
  <2> HIDE DEF n
  <2> QED
    BY <1>1, <2>1, <2>2, FlattenLength
<1> QED
  BY <1>2, <1>3

-----------------------------------------------------------------------------
(* Datagrams, as functions of the shape and the records.                   *)

\* The records of s that meet no error.
RecordsOf(s) ==
  {r \in [lengths : [DOMAIN s.fields -> Lengths], status : {"good", "unsound", "untimely"}] :
     \A i \in DOMAIN s.fields : ~s.fields[i].variable => r.lengths[i] = 0}

Sound(s) == {r \in RecordsOf(s) : RecordSize(s, r) \in Nat}

SizesOf(s, c) == [k \in DOMAIN c |-> RecordSize(s, c[k])]

EncodingsOf(s, c) == [k \in DOMAIN c |-> EncodedOf(s, k, c[k])]

\* Header and set header, and their length.
HeadOf(s) == Bytes(HeaderLength(s.protocol), <<"header", 0>>)
             \o (IF s.protocol = "v5" THEN << >> ELSE Bytes(SetHeader, <<"set", 0>>))

OffsetOf(s) == HeaderLength(s.protocol) + (IF s.protocol = "v5" THEN 0 ELSE SetHeader)

\* A packet with the records c, and with its padding.
StartOf(s, c) == HeadOf(s) \o FlattenSeq(EncodingsOf(s, c))

PaddingOf(s, bytes) == IF s.protocol = "v5" THEN 0 ELSE Padding(s, SetHeader + bytes)

ShotOf(s, c) == StartOf(s, c) \o Bytes(PaddingOf(s, Len(FlattenSeq(EncodingsOf(s, c)))), Zero)

\* Lengths of values are natural numbers.
LEMMA RecordsMeasured ==
  ASSUME NEW s, NEW r \in RecordsOf(s)
  PROVE  Measured(s, r)
BY PacketAssumption DEF RecordsOf, Measured

\* The start of a packet.
LEMMA HeadIs ==
  ASSUME NEW s, WellFormed(s)
  PROVE  HeadOf(s) \in Seq(Byte) /\ Len(HeadOf(s)) = OffsetOf(s) /\ OffsetOf(s) \in Nat
<1> DEFINE h == HeaderLength(s.protocol)
           a == Bytes(h, <<"header", 0>>)
           b == IF s.protocol = "v5" THEN << >> ELSE Bytes(SetHeader, <<"set", 0>>)
<1>1. h \in Nat /\ SetHeader \in Nat
  BY HeaderLengths DEF WellFormed, SetHeader
<1>2. <<"header", 0>> \in Byte /\ <<"set", 0>> \in Byte
  BY DEF Byte
<1> HIDE DEF h
<1>3. a \in Seq(Byte) /\ Len(a) = h
  BY <1>1, <1>2, BytesIs
<1>4. b \in Seq(Byte) /\ Len(b) = IF s.protocol = "v5" THEN 0 ELSE SetHeader
  <2>1. << >> \in Seq(Byte) /\ Len(<< >>) = 0
    BY EmptySeq
  <2>2. Bytes(SetHeader, <<"set", 0>>) \in Seq(Byte) /\ Len(Bytes(SetHeader, <<"set", 0>>)) = SetHeader
    BY <1>1, <1>2, BytesIs
  <2> QED
    BY <2>1, <2>2
<1>5. HeadOf(s) = a \o b
  BY DEF HeadOf, h
<1> HIDE DEF a, b
<1>6. a \o b \in Seq(Byte) /\ Len(a \o b) = Len(a) + Len(b)
  BY <1>3, <1>4, ConcatProperties
<1> QED
  BY <1>1, <1>3, <1>4, <1>5, <1>6 DEF OffsetOf, h

\* Sound records are encoded in as many bytes as their sizes add up to.
LEMMA EncodingsIs ==
  ASSUME NEW s, WellFormed(s), NEW c \in Seq(Sound(s))
  PROVE  /\ EncodingsOf(s, c) \in Seq(Seq(Byte)) /\ Len(EncodingsOf(s, c)) = Len(c)
         /\ SizesOf(s, c) \in Seq(Nat) /\ Len(SizesOf(s, c)) = Len(c) /\ Len(c) \in Nat
         /\ \A k \in 1 .. Len(c) :
              /\ c[k] \in Sound(s) /\ SizesOf(s, c)[k] = RecordSize(s, c[k])
              /\ EncodingsOf(s, c)[k] = EncodedOf(s, k, c[k])
              /\ Len(EncodedOf(s, k, c[k])) = RecordSize(s, c[k])
         /\ FlattenSeq(EncodingsOf(s, c)) \in Seq(Byte)
         /\ Len(FlattenSeq(EncodingsOf(s, c))) = Sum(SizesOf(s, c)) /\ Sum(SizesOf(s, c)) \in Nat
<1> DEFINE n == Len(c)
           e == EncodingsOf(s, c)
           z == SizesOf(s, c)
<1>1. n \in Nat /\ DOMAIN c = 1 .. n /\ \A k \in 1 .. n : c[k] \in Sound(s)
  BY LenProperties
<1>2. ASSUME NEW k \in 1 .. n
      PROVE  /\ RecordSize(s, c[k]) \in Nat /\ EncodedOf(s, k, c[k]) \in Seq(Byte)
             /\ Len(EncodedOf(s, k, c[k])) = RecordSize(s, c[k])
  <2>1. c[k] \in RecordsOf(s) /\ RecordSize(s, c[k]) \in Nat
    BY <1>1 DEF Sound
  <2>2. Measured(s, c[k])
    BY <2>1, RecordsMeasured
  <2>3. RecordSize(s, c[k]) \notin {Invalid, Bounds} /\ k \in Nat
    BY <2>1 DEF Invalid, Bounds
  <2> QED
    BY <2>1, <2>2, <2>3, EncodedIs
<1> HIDE DEF n
<1>3. e \in [1 .. n -> Seq(Byte)] /\ \A k \in 1 .. n : e[k] = EncodedOf(s, k, c[k])
  BY <1>1, <1>2 DEF EncodingsOf
<1>4. z \in [1 .. n -> Nat] /\ \A k \in 1 .. n : z[k] = RecordSize(s, c[k])
  BY <1>1, <1>2 DEF SizesOf
<1> HIDE DEF e, z
<1>5. e \in Seq(Seq(Byte)) /\ Len(e) = n
  BY <1>1, <1>3, FunctionIsSequence
<1>6. z \in Seq(Nat) /\ Len(z) = n
  BY <1>1, <1>4, FunctionIsSequence
<1>7. FlattenSeq(e) \in Seq(Byte)
  BY <1>5, FlattenType
<1>8. Len(FlattenSeq(e)) = Sum(z)
  <2>1. \A k \in 1 .. n : Len(e[k]) = z[k]
    BY <1>2, <1>3, <1>4
  <2> QED
    BY <1>5, <1>6, <2>1, FlattenLength
<1>9. Sum(z) \in Nat
  BY <1>6, SumsDefined
<1> QED
  BY <1>1, <1>2, <1>3, <1>4, <1>5, <1>6, <1>7, <1>8, <1>9 DEF n, e, z

\* The bytes of a packet and the length they have.
LEMMA StartIs ==
  ASSUME NEW s, WellFormed(s), NEW c \in Seq(Sound(s))
  PROVE  StartOf(s, c) \in Seq(Byte) /\ Len(StartOf(s, c)) = OffsetOf(s) + Sum(SizesOf(s, c))
<1> DEFINE h == HeadOf(s)
           f == FlattenSeq(EncodingsOf(s, c))
<1>1. h \in Seq(Byte) /\ Len(h) = OffsetOf(s)
  BY HeadIs
<1>2. f \in Seq(Byte) /\ Len(f) = Sum(SizesOf(s, c))
  BY EncodingsIs
<1>3. StartOf(s, c) = h \o f
  BY DEF StartOf
<1> HIDE DEF h, f
<1>4. h \o f \in Seq(Byte) /\ Len(h \o f) = Len(h) + Len(f)
  BY <1>1, <1>2, ConcatProperties
<1> QED
  BY <1>1, <1>2, <1>3, <1>4

\* And with the padding.
LEMMA ShotIs ==
  ASSUME NEW s, WellFormed(s), NEW c \in Seq(Sound(s))
  PROVE  /\ PaddingOf(s, Sum(SizesOf(s, c))) \in Nat /\ PaddingOf(s, Sum(SizesOf(s, c))) < RecordLength(s)
         /\ ShotOf(s, c) = StartOf(s, c) \o Bytes(PaddingOf(s, Sum(SizesOf(s, c))), Zero)
         /\ Bytes(PaddingOf(s, Sum(SizesOf(s, c))), Zero) \in Seq(Byte)
         /\ Len(Bytes(PaddingOf(s, Sum(SizesOf(s, c))), Zero)) = PaddingOf(s, Sum(SizesOf(s, c)))
         /\ ShotOf(s, c) \in Seq(Byte)
         /\ Len(ShotOf(s, c)) = OffsetOf(s) + Sum(SizesOf(s, c)) + PaddingOf(s, Sum(SizesOf(s, c)))
<1> DEFINE b == Sum(SizesOf(s, c))
           p == PaddingOf(s, b)
           t == StartOf(s, c)
           u == Bytes(p, Zero)
<1>1. b \in Nat /\ Len(FlattenSeq(EncodingsOf(s, c))) = b
  BY EncodingsIs
<1>2. ShotOf(s, c) = t \o u
  BY <1>1 DEF ShotOf
<1>3. t \in Seq(Byte) /\ Len(t) = OffsetOf(s) + b
  BY StartIs
<1> HIDE DEF b
<1>4. p \in Nat /\ p < RecordLength(s)
  <2>1. SetHeader + b \in Nat
    BY <1>1 DEF SetHeader
  <2>2. Padding(s, SetHeader + b) \in Nat /\ Padding(s, SetHeader + b) < RecordLength(s) /\ RecordLength(s) \in Nat \ {0}
    BY <2>1, PaddingSmall, LeastRecord
  <2> QED
    BY <2>2 DEF PaddingOf
<1>5. Zero \in Byte
  BY DEF Zero, Byte
<1> HIDE DEF p, t
<1>6. u \in Seq(Byte) /\ Len(u) = p
  BY <1>4, <1>5, BytesIs
<1> HIDE DEF u
<1>7. t \o u \in Seq(Byte) /\ Len(t \o u) = Len(t) + Len(u)
  BY <1>3, <1>6, ConcatProperties
<1> QED
  BY <1>2, <1>3, <1>4, <1>6, <1>7 DEF b, p, t, u

\* A packet begins with no record.
LEMMA StartEmpty ==
  ASSUME NEW s, WellFormed(s)
  PROVE  << >> \in Seq(Sound(s)) /\ StartOf(s, << >>) = HeadOf(s) /\ Sum(SizesOf(s, << >>)) = 0
<1>1. << >> \in Seq(Sound(s)) /\ << >> \in Seq(Nat) /\ << >> \in Seq(Byte) /\ Len(<< >>) = 0
  BY EmptySeq
<1>2. Len(SizesOf(s, << >>)) = 0 /\ SizesOf(s, << >>) \in Seq(Nat) /\ FlattenSeq(EncodingsOf(s, << >>)) \in Seq(Byte)
      /\ Len(FlattenSeq(EncodingsOf(s, << >>))) = Sum(SizesOf(s, << >>))
  BY <1>1, EncodingsIs
<1> DEFINE z == SizesOf(s, << >>)
<1> HIDE DEF z
<1>3. AreSums(Sums(z), z) /\ Sum(z) = Sums(z)[Len(z)]
  BY <1>2, SumsDefined DEF z
<1>4. Sum(z) = 0
  BY <1>2, <1>3 DEF AreSums, z
<1>5. FlattenSeq(EncodingsOf(s, << >>)) = << >>
  BY <1>2, <1>4, EmptySeq DEF z
<1>6. HeadOf(s) \o << >> = HeadOf(s)
  BY HeadIs, ConcatEmptySeq
<1> QED
  BY <1>1, <1>4, <1>5, <1>6 DEF StartOf, z

\* One more record.
LEMMA StartAppend ==
  ASSUME NEW s, WellFormed(s), NEW c \in Seq(Sound(s)), NEW r \in Sound(s)
  PROVE  /\ Append(c, r) \in Seq(Sound(s)) /\ Len(Append(c, r)) = Len(c) + 1
         /\ Sum(SizesOf(s, Append(c, r))) = Sum(SizesOf(s, c)) + RecordSize(s, r)
         /\ EncodedOf(s, Len(c) + 1, r) \in Seq(Byte)
         /\ Len(EncodedOf(s, Len(c) + 1, r)) = RecordSize(s, r)
         /\ StartOf(s, Append(c, r)) = StartOf(s, c) \o EncodedOf(s, Len(c) + 1, r)
<1> DEFINE d == Append(c, r)
           n == Len(c)
<1>1. d \in Seq(Sound(s)) /\ Len(d) = n + 1 /\ \A k \in 1 .. n : d[k] = c[k]
  BY AppendProperties
<1>2. d[n + 1] = r
  BY AppendProperties
<1> HIDE DEF d
<1>3. /\ EncodingsOf(s, c) \in Seq(Seq(Byte)) /\ Len(EncodingsOf(s, c)) = n
      /\ SizesOf(s, c) \in Seq(Nat) /\ Len(SizesOf(s, c)) = n /\ n \in Nat
      /\ \A k \in 1 .. n : SizesOf(s, c)[k] = RecordSize(s, c[k]) /\ EncodingsOf(s, c)[k] = EncodedOf(s, k, c[k])
      /\ FlattenSeq(EncodingsOf(s, c)) \in Seq(Byte)
  BY EncodingsIs
<1> HIDE DEF n
<1>4. /\ EncodingsOf(s, d) \in Seq(Seq(Byte)) /\ Len(EncodingsOf(s, d)) = n + 1
      /\ SizesOf(s, d) \in Seq(Nat) /\ Len(SizesOf(s, d)) = n + 1
      /\ \A k \in 1 .. n + 1 :
           /\ SizesOf(s, d)[k] = RecordSize(s, d[k]) /\ EncodingsOf(s, d)[k] = EncodedOf(s, k, d[k])
           /\ Len(EncodedOf(s, k, d[k])) = RecordSize(s, d[k])
  BY <1>1, EncodingsIs
<1>5. n + 1 \in 1 .. n + 1 /\ \A k \in 1 .. n : k \in 1 .. n + 1
  BY <1>3
<1>6. /\ SizesOf(s, d)[n + 1] = RecordSize(s, r) /\ EncodingsOf(s, d)[n + 1] = EncodedOf(s, n + 1, r)
      /\ Len(EncodedOf(s, n + 1, r)) = RecordSize(s, r)
  BY <1>2, <1>4, <1>5
<1>7. \A k \in 1 .. n : SizesOf(s, d)[k] = SizesOf(s, c)[k] /\ EncodingsOf(s, d)[k] = EncodingsOf(s, c)[k]
  BY <1>1, <1>3, <1>4, <1>5
<1>8. Sum(SizesOf(s, d)) = Sum(SizesOf(s, c)) + SizesOf(s, d)[n + 1]
  BY <1>3, <1>4, <1>7, SumAppend
<1>9. FlattenSeq(EncodingsOf(s, d)) = FlattenSeq(EncodingsOf(s, c)) \o EncodingsOf(s, d)[n + 1]
  <2> DEFINE x == EncodingsOf(s, c)
             y == EncodingsOf(s, d)
  <2>1. x \in Seq(Seq(Byte)) /\ y \in Seq(Seq(Byte)) /\ Len(x) = n /\ Len(y) = n + 1
    BY <1>3, <1>4
  <2>2. \A k \in 1 .. Len(x) : y[k] = x[k]
    BY <1>7, <2>1
  <2> HIDE DEF x, y
  <2>3. FlattenSeq(y) = FlattenSeq(x) \o y[Len(y)]
    BY <2>1, <2>2, FlattenAppend
  <2> QED
    BY <2>1, <2>3 DEF x, y
<1>10. EncodedOf(s, n + 1, r) \in Seq(Byte)
  BY <1>4, <1>5, <1>6, LenProperties
<1>11. \A x \in Seq(Byte), y \in Seq(Byte), z \in Seq(Byte) : x \o (y \o z) = (x \o y) \o z
  BY ConcatAssociative
<1>12. HeadOf(s) \in Seq(Byte)
  BY HeadIs
<1>13. StartOf(s, d) = StartOf(s, c) \o EncodedOf(s, n + 1, r)
  BY <1>3, <1>6, <1>9, <1>10, <1>11, <1>12 DEF StartOf
<1> QED
  BY <1>1, <1>6, <1>8, <1>10, <1>13 DEF d, n

-----------------------------------------------------------------------------
(* The invariant.                                                          *)

CapOf(s, limit) == IF s.protocol = "v5" /\ limit > MaxV5 THEN MaxV5 ELSE limit

\* State's account of the packet is that of its records.
Accounted ==
  /\ stream.records = Len(content) /\ stream.bytes = Sum(SizesOf(shape, content))
  /\ Len(content) <= CapOf(shape, maxRecords)
  /\ stream.bytes = 0 \/ RecordLength(shape) <= stream.bytes
  /\ stream.records # 0 =>
       /\ DataSetSize(shape, stream.bytes, stream.records) # Bounds
       /\ stream.length = PacketLength(shape.protocol, 0, DataSetSize(shape, stream.bytes, stream.records))
       /\ stream.length <= maxDatagram

\* While the packet is filled, the appender's account is the same, and the
\* buffer starts with the records so far.
Filling ==
  /\ app = [begun |-> TRUE, done |-> FALSE, records |-> stream.records, recordBytes |-> stream.bytes]
  /\ StartsWith(buf, StartOf(shape, content))

\* Then it starts with the whole datagram, and the header tells its lengths.
Finished ==
  /\ stream.records # 0
  /\ StartsWith(buf, ShotOf(shape, content))
  /\ count = IF shape.protocol = "ipfix" THEN stream.length ELSE stream.records
  /\ setLength = IF shape.protocol = "v5" THEN 0 ELSE stream.length - HeaderLength(shape.protocol)

PacketInv ==
  /\ shape \in Shapes /\ maxDatagram \in Budgets /\ maxRecords \in RecordLimits
  /\ CatalogFits(shape, maxDatagram)
  /\ phase \in {"none", "open", "finished"}
  /\ content \in Seq(Sound(shape))
  /\ buf \in Seq(Byte) /\ Len(buf) = maxDatagram
  /\ phase # "none" => Accounted
  /\ phase = "open" => Filling
  /\ phase = "finished" => Finished

\* What the invariant says of the destination.
LEMMA Destination ==
  ASSUME PacketInv
  PROVE  WellFormed(shape) /\ maxDatagram \in 0 .. Max16 /\ maxDatagram \in Nat /\ maxRecords \in Nat \ {0}
<1>1. WellFormed(shape) /\ maxDatagram \in 0 .. Max16 /\ maxRecords \in Nat \ {0}
  BY PacketAssumption DEF PacketInv
<1> QED
  BY <1>1, WireAssumption

\* The operators of the specification, as functions of the shape.
LEMMA OfShape ==
  ASSUME WellFormed(shape)
  PROVE  /\ Records = RecordsOf(shape) /\ RecordCap = CapOf(shape, maxRecords)
         /\ \A k, r : Encoded(k, r) = EncodedOf(shape, k, r)
         /\ Header \o SetHead = HeadOf(shape) /\ DataOffset = OffsetOf(shape)
<1>1. Records = RecordsOf(shape) /\ RecordCap = CapOf(shape, maxRecords)
  BY DEF Records, RecordsOf, RecordCap, CapOf
<1>2. \A k, r : Encoded(k, r) = EncodedOf(shape, k, r)
  BY DEF Encoded, EncodedOf
<1>3. Header \o SetHead = HeadOf(shape)
  BY DEF Header, SetHead, HeadOf
<1>4. DataOffset = OffsetOf(shape)
  <2>1. HeaderLength(shape.protocol) \in Nat /\ SetHeader \in Nat /\ <<"header", 0>> \in Byte /\ <<"set", 0>> \in Byte
    BY HeaderLengths DEF WellFormed, SetHeader, Byte
  <2>2. Len(Header) = HeaderLength(shape.protocol)
    BY <2>1, BytesIs DEF Header
  <2>3. Len(SetHead) = IF shape.protocol = "v5" THEN 0 ELSE SetHeader
    <3>1. Len(Bytes(SetHeader, <<"set", 0>>)) = SetHeader
      BY <2>1, BytesIs
    <3>2. Len(<< >>) = 0
      BY EmptySeq
    <3> QED
      BY <3>1, <3>2 DEF SetHead
  <2> QED
    BY <2>2, <2>3 DEF DataOffset, OffsetOf
<1> QED
  BY <1>1, <1>2, <1>3, <1>4

\* The length of a datagram is that of its parts.
LEMMA LengthOfPacket ==
  ASSUME NEW s, WellFormed(s), NEW bytes \in Nat, NEW n \in Nat \ {0}, DataSetSize(s, bytes, n) # Bounds
  PROVE  /\ PacketLength(s.protocol, 0, DataSetSize(s, bytes, n)) = OffsetOf(s) + bytes + PaddingOf(s, bytes)
         /\ PacketLength(s.protocol, 0, DataSetSize(s, bytes, n)) \in Nat /\ PaddingOf(s, bytes) \in Nat
<1> DEFINE d == DataSetSize(s, bytes, n)
<1>1. /\ d = IF s.protocol = "v5" THEN bytes ELSE SetHeader + bytes + Padding(s, SetHeader + bytes)
      /\ d \in Nat
  BY SizeOfDataSet
<1>2. SetHeader + bytes \in Nat
  BY DEF SetHeader
<1>3. Padding(s, SetHeader + bytes) \in Nat
  BY <1>2, PaddingSmall
<1>4. HeaderLength(s.protocol) \in Nat
  BY HeaderLengths DEF WellFormed
<1> HIDE DEF d
<1> QED
  BY <1>1, <1>3, <1>4 DEF PacketLength, OffsetOf, PaddingOf, SetHeader, d

\* What an account becomes with one more record: an error, or an account that
\* passes every check.
LEMMA ExtendedIs ==
  ASSUME WellFormed(shape), maxDatagram \in Nat, NEW r, Measured(shape, r), NEW n \in Nat, NEW bytes \in Nat
  PROVE  \/ Extended(n, bytes, r) \in {Invalid, Bounds}
         \/ /\ ~(n >= RecordCap) /\ RecordSize(shape, r) \in Nat
            /\ RecordLength(shape) <= RecordSize(shape, r)
            /\ ~HasVariableFields(shape) => RecordSize(shape, r) = RecordLength(shape)
            /\ DataSetSize(shape, bytes + RecordSize(shape, r), n + 1) # Bounds
            /\ Extended(n, bytes, r) =
                 PacketLength(shape.protocol, 0, DataSetSize(shape, bytes + RecordSize(shape, r), n + 1))
            /\ Extended(n, bytes, r) \in Nat /\ Extended(n, bytes, r) <= maxDatagram
<1> DEFINE size == RecordSize(shape, r)
           data == DataSetSize(shape, bytes + size, n + 1)
           length == PacketLength(shape.protocol, 0, data)
<1>1. Extended(n, bytes, r) = IF n >= RecordCap THEN Bounds
                              ELSE IF size \in {Invalid, Bounds} THEN size
                              ELSE IF data = Bounds \/ ~PayloadOK(length, maxDatagram) THEN Bounds ELSE length
  BY DEF Extended
<1>2. \/ size \in {Invalid, Bounds}
      \/ size \in Nat /\ RecordLength(shape) <= size /\ (~HasVariableFields(shape) => size = RecordLength(shape))
  BY SizeOfRecord
<1> SUFFICES ASSUME Extended(n, bytes, r) \notin {Invalid, Bounds}
             PROVE  /\ ~(n >= RecordCap) /\ size \in Nat /\ RecordLength(shape) <= size
                    /\ ~HasVariableFields(shape) => size = RecordLength(shape)
                    /\ data # Bounds /\ Extended(n, bytes, r) = length
                    /\ Extended(n, bytes, r) \in Nat /\ Extended(n, bytes, r) <= maxDatagram
  OBVIOUS
<1> HIDE DEF size
<1>3. ~(n >= RecordCap) /\ size \notin {Invalid, Bounds} /\ data # Bounds /\ PayloadOK(length, maxDatagram)
      /\ Extended(n, bytes, r) = length
  BY <1>1
<1>4. bytes + size \in Nat /\ n + 1 \in Nat \ {0}
  BY <1>2, <1>3
<1>5. length \in Nat
  BY <1>3, <1>4, LengthOfPacket
<1> HIDE DEF data, length
<1> QED
  BY <1>2, <1>3, <1>5 DEF PayloadOK

\* A fresh buffer.
LEMMA JunkIs ==
  ASSUME maxDatagram \in Nat
  PROVE  /\ Bytes(maxDatagram, Junk) \in Seq(Byte) /\ Len(Bytes(maxDatagram, Junk)) = maxDatagram
         /\ Junk \in Byte
<1>1. Junk \in Byte
  BY DEF Junk, Byte
<1> QED
  BY <1>1, BytesIs

\* NewState and NewPacker establish it.
LEMMA InitInv == Init => PacketInv
<1> SUFFICES ASSUME Init PROVE PacketInv
  OBVIOUS
<1>1. maxDatagram \in Nat
  BY PacketAssumption, WireAssumption DEF Init
<1>2. buf = Bytes(maxDatagram, Junk)
  BY DEF Init, Bytes
<1>3. buf \in Seq(Byte) /\ Len(buf) = maxDatagram
  BY <1>1, <1>2, JunkIs
<1>4. << >> \in Seq(Sound(shape))
  BY EmptySeq
<1> QED
  BY <1>3, <1>4 DEF Init, PacketInv

\* A packet begins.
LEMMA BeginInv == PacketInv /\ BeginDataStream => PacketInv'
<1> SUFFICES ASSUME PacketInv, BeginDataStream PROVE PacketInv'
  OBVIOUS
<1>1. WellFormed(shape) /\ maxDatagram \in Nat /\ maxRecords \in Nat \ {0}
  BY Destination
<1>2. HeadOf(shape) \in Seq(Byte) /\ Len(HeadOf(shape)) = OffsetOf(shape) /\ OffsetOf(shape) \in Nat
  BY <1>1, HeadIs
<1>3. OffsetOf(shape) <= maxDatagram
  BY <1>1, OfShape DEF BeginDataStream, PayloadOK
<1> DEFINE b == Bytes(maxDatagram, Junk)
           h == HeadOf(shape)
<1>4. b \in Seq(Byte) /\ Len(b) = maxDatagram
  BY <1>1, JunkIs
<1>5. << >> \in Seq(Byte) /\ Len(<< >>) = 0 /\ << >> \o h = h
  BY <1>2, EmptySeq, ConcatEmptySeq
<1>6. buf' = Overwrite(b, Len(<< >>), h)
  BY <1>1, <1>5, OfShape DEF BeginDataStream
<1> HIDE DEF b, h
<1>7. StartsWith(b, << >>)
  BY <1>1, <1>4, <1>5 DEF StartsWith
<1>8. Len(<< >>) + Len(h) <= Len(b)
  BY <1>2, <1>3, <1>4, <1>5 DEF h
<1>9. buf' \in Seq(Byte) /\ Len(buf') = maxDatagram /\ StartsWith(buf', h)
  BY <1>2, <1>4, <1>5, <1>6, <1>7, <1>8, OverwriteExtends DEF h
<1>10. << >> \in Seq(Sound(shape)) /\ StartOf(shape, << >>) = h /\ Sum(SizesOf(shape, << >>)) = 0
  BY <1>1, StartEmpty DEF h
<1>11. UNCHANGED fixed /\ phase' = "open" /\ content' = << >> /\ stream' = NoStream /\ app' = [NoApp EXCEPT !.begun = TRUE]
  BY DEF BeginDataStream
<1>12. shape' = shape /\ maxDatagram' = maxDatagram /\ maxRecords' = maxRecords
  BY <1>11 DEF fixed
<1>13. 0 <= CapOf(shape, maxRecords)
  BY <1>1, WireAssumption DEF CapOf
<1>14. Accounted'
  BY <1>5, <1>10, <1>11, <1>12, <1>13 DEF Accounted, NoStream
<1>15. Filling'
  BY <1>9, <1>10, <1>11, <1>12 DEF Filling, NoStream, NoApp
<1>16. CatalogFits(shape, maxDatagram)' /\ (content \in Seq(Sound(shape)))'
  BY <1>10, <1>11, <1>12 DEF PacketInv
<1> QED
  BY <1>9, <1>11, <1>12, <1>14, <1>15, <1>16 DEF PacketInv

\* What the accounts and the buffer are while a packet is filled.
LEMMA WhileOpen ==
  ASSUME PacketInv, phase = "open"
  PROVE  /\ stream.records = Len(content) /\ stream.records \in Nat /\ stream.bytes \in Nat
         /\ stream.bytes = Sum(SizesOf(shape, content))
         /\ app.begun /\ ~app.done /\ app.records = stream.records /\ app.recordBytes = stream.bytes
         /\ StartOf(shape, content) \in Seq(Byte)
         /\ Len(StartOf(shape, content)) = OffsetOf(shape) + stream.bytes /\ OffsetOf(shape) \in Nat
         /\ stream.bytes = 0 \/ RecordLength(shape) <= stream.bytes
<1>1. WellFormed(shape) /\ content \in Seq(Sound(shape)) /\ Accounted /\ Filling
  BY Destination DEF PacketInv
<1>2. Len(content) \in Nat /\ Sum(SizesOf(shape, content)) \in Nat
  BY <1>1, EncodingsIs
<1>3. StartOf(shape, content) \in Seq(Byte) /\ Len(StartOf(shape, content)) = OffsetOf(shape) + Sum(SizesOf(shape, content))
  BY <1>1, StartIs
<1>4. OffsetOf(shape) \in Nat
  BY <1>1, HeadIs
<1>5. app.begun /\ ~app.done /\ app.records = stream.records /\ app.recordBytes = stream.bytes
  BY <1>1 DEF Filling
<1> QED
  BY <1>1, <1>2, <1>3, <1>4, <1>5 DEF Accounted

\* What an accepted record does to the account of State.
LEMMA AcceptedRecord ==
  ASSUME PacketInv, phase = "open", NEW r \in Records, AppendOutcome(r) >= 0
  PROVE  /\ r \in Sound(shape) /\ RecordLength(shape) <= RecordSize(shape, r)
         /\ ~HasVariableFields(shape) => RecordSize(shape, r) = RecordLength(shape)
         /\ Len(content) + 1 <= CapOf(shape, maxRecords)
         /\ DataSetSize(shape, stream.bytes + RecordSize(shape, r), stream.records + 1) # Bounds
         /\ AppendOutcome(r) = PacketLength(shape.protocol, 0,
                                 DataSetSize(shape, stream.bytes + RecordSize(shape, r), stream.records + 1))
         /\ AppendOutcome(r) <= maxDatagram
<1>1. WellFormed(shape) /\ maxDatagram \in Nat /\ maxRecords \in Nat \ {0}
  BY Destination
<1>2. r \in RecordsOf(shape) /\ Measured(shape, r)
  BY <1>1, OfShape, RecordsMeasured
<1>3. stream.records = Len(content) /\ stream.records \in Nat /\ stream.bytes \in Nat
  BY WhileOpen
<1> DEFINE length == Extended(stream.records, stream.bytes, r)
<1>4. AppendOutcome(r) = IF length < 0 THEN length ELSE IF AppenderOutcome(r) < 0 THEN AppenderOutcome(r) ELSE length
  BY DEF AppendOutcome
<1>4a. AppenderOutcome(r) \in {Invalid, length}
  BY WhileOpen DEF AppenderOutcome
<1>5. \/ length \in {Invalid, Bounds}
      \/ /\ ~(stream.records >= RecordCap) /\ RecordSize(shape, r) \in Nat
         /\ RecordLength(shape) <= RecordSize(shape, r)
         /\ ~HasVariableFields(shape) => RecordSize(shape, r) = RecordLength(shape)
         /\ DataSetSize(shape, stream.bytes + RecordSize(shape, r), stream.records + 1) # Bounds
         /\ length = PacketLength(shape.protocol, 0,
                       DataSetSize(shape, stream.bytes + RecordSize(shape, r), stream.records + 1))
         /\ length \in Nat /\ length <= maxDatagram
  BY <1>1, <1>2, <1>3, ExtendedIs
<1> HIDE DEF length
<1>6. length \notin {Invalid, Bounds} /\ AppendOutcome(r) = length
  <2>1. CASE length \in {Invalid, Bounds}
    <3>1. length < 0
      BY <2>1 DEF Invalid, Bounds
    <3>2. AppendOutcome(r) = length
      BY <1>4, <3>1
    <3> QED
      BY <2>1, <3>2 DEF Invalid, Bounds
  <2>2. CASE length \notin {Invalid, Bounds}
    <3>1. length \in Nat
      BY <1>5, <2>2
    <3>2. AppendOutcome(r) = IF AppenderOutcome(r) < 0 THEN AppenderOutcome(r) ELSE length
      BY <1>4, <3>1
    <3>3. ~(AppenderOutcome(r) < 0)
      BY <1>4a, <3>1, <3>2 DEF Invalid
    <3> QED
      BY <2>2, <3>2, <3>3
  <2> QED
    BY <2>1, <2>2
<1>7. Len(content) + 1 <= CapOf(shape, maxRecords)
  <2>1. RecordCap = CapOf(shape, maxRecords) /\ RecordCap \in Nat
    BY <1>1, OfShape, WireAssumption DEF CapOf
  <2> QED
    BY <1>3, <1>5, <1>6, <2>1
<1> QED
  BY <1>2, <1>5, <1>6, <1>7 DEF Sound

\* A record is appended.
LEMMA AppendInv == PacketInv /\ (\E r \in Records : AppendRecord(r)) => PacketInv'
<1> SUFFICES ASSUME PacketInv, NEW r \in Records, AppendRecord(r) PROVE PacketInv'
  OBVIOUS
<1> DEFINE size == RecordSize(shape, r)
           e == EncodedOf(shape, Len(content) + 1, r)
           t == StartOf(shape, content)
<1>1. phase = "open" /\ AppendOutcome(r) >= 0 /\ phase' = phase /\ shape' = shape /\ maxDatagram' = maxDatagram
      /\ maxRecords' = maxRecords /\ content' = Append(content, r)
      /\ app' = [app EXCEPT !.records = @ + 1, !.recordBytes = @ + size]
      /\ stream' = [records |-> stream.records + 1, bytes |-> stream.bytes + size, length |-> AppendOutcome(r)]
      /\ buf' = Overwrite(buf, DataOffset + app.recordBytes, Encoded(app.records + 1, r))
  BY DEF AppendRecord, fixed
<1>2. WellFormed(shape) /\ maxDatagram \in Nat /\ maxRecords \in Nat \ {0}
      /\ content \in Seq(Sound(shape)) /\ buf \in Seq(Byte) /\ Len(buf) = maxDatagram
  BY Destination DEF PacketInv
<1>3. /\ stream.records = Len(content) /\ stream.records \in Nat /\ stream.bytes \in Nat
      /\ stream.bytes = Sum(SizesOf(shape, content))
      /\ app.records = stream.records /\ app.recordBytes = stream.bytes
      /\ t \in Seq(Byte) /\ Len(t) = OffsetOf(shape) + stream.bytes /\ OffsetOf(shape) \in Nat
  BY <1>1, WhileOpen
<1>4. /\ r \in Sound(shape) /\ RecordLength(shape) <= size
      /\ Len(content) + 1 <= CapOf(shape, maxRecords)
      /\ DataSetSize(shape, stream.bytes + size, stream.records + 1) # Bounds
      /\ AppendOutcome(r) = PacketLength(shape.protocol, 0, DataSetSize(shape, stream.bytes + size, stream.records + 1))
      /\ AppendOutcome(r) <= maxDatagram
  BY <1>1, AcceptedRecord
<1>5. size \in Nat /\ RecordLength(shape) \in Nat
  BY <1>2, <1>4, LeastRecord DEF Sound
<1>6. /\ Append(content, r) \in Seq(Sound(shape)) /\ Len(Append(content, r)) = Len(content) + 1
      /\ Sum(SizesOf(shape, Append(content, r))) = Sum(SizesOf(shape, content)) + size
      /\ e \in Seq(Byte) /\ Len(e) = size
      /\ StartOf(shape, Append(content, r)) = t \o e
  BY <1>2, <1>4, StartAppend
<1>7. buf' = Overwrite(buf, Len(t), e)
  BY <1>1, <1>2, <1>3, OfShape
<1>8. Len(t) + Len(e) <= Len(buf)
  <2>1. stream.bytes + size \in Nat /\ stream.records + 1 \in Nat \ {0}
    BY <1>3, <1>5
  <2>2. /\ AppendOutcome(r) = OffsetOf(shape) + (stream.bytes + size) + PaddingOf(shape, stream.bytes + size)
        /\ PaddingOf(shape, stream.bytes + size) \in Nat
    BY <1>2, <1>4, <2>1, LengthOfPacket
  <2> HIDE DEF size, e, t
  <2> QED
    BY <1>2, <1>3, <1>4, <1>5, <1>6, <2>2
<1>9. StartsWith(buf, t)
  BY <1>1 DEF PacketInv, Filling
<1> HIDE DEF size, e, t
<1>10. buf' \in Seq(Byte) /\ Len(buf') = maxDatagram /\ StartsWith(buf', t \o e)
  BY <1>2, <1>3, <1>6, <1>7, <1>8, <1>9, OverwriteExtends
<1>11. /\ stream'.records = stream.records + 1 /\ stream'.bytes = stream.bytes + size
       /\ stream'.length = AppendOutcome(r)
  BY <1>1
<1>12. Accounted'
  <2>1. stream'.records = Len(content') /\ stream'.bytes = Sum(SizesOf(shape, content'))
        /\ Len(content') <= CapOf(shape, maxRecords)
    BY <1>1, <1>3, <1>4, <1>6, <1>11
  <2>2. RecordLength(shape) <= stream'.bytes
    BY <1>3, <1>4, <1>5, <1>11
  <2>3. DataSetSize(shape, stream'.bytes, stream'.records) # Bounds
        /\ stream'.length = PacketLength(shape.protocol, 0, DataSetSize(shape, stream'.bytes, stream'.records))
        /\ stream'.length <= maxDatagram
    BY <1>4, <1>11
  <2> QED
    BY <1>1, <2>1, <2>2, <2>3 DEF Accounted
<1>13. Filling'
  <2>1. app = [begun |-> TRUE, done |-> FALSE, records |-> stream.records, recordBytes |-> stream.bytes]
    BY <1>1 DEF PacketInv, Filling
  <2>2. app' = [begun |-> TRUE, done |-> FALSE, records |-> stream.records + 1, recordBytes |-> stream.bytes + size]
    BY <1>1, <2>1
  <2>3. StartsWith(buf', StartOf(shape, content'))
    BY <1>1, <1>6, <1>10
  <2> QED
    BY <1>1, <1>11, <2>2, <2>3 DEF Filling
<1>14. CatalogFits(shape, maxDatagram)' /\ (content \in Seq(Sound(shape)))' /\ (shape \in Shapes)'
       /\ (maxDatagram \in Budgets)' /\ (maxRecords \in RecordLimits)'
  BY <1>1, <1>6 DEF PacketInv
<1> QED
  BY <1>1, <1>10, <1>12, <1>13, <1>14 DEF PacketInv

\* The packet is finished: the padding completes the datagram.
LEMMA FinishInv == PacketInv /\ Finish => PacketInv'
<1> SUFFICES ASSUME PacketInv, Finish PROVE PacketInv'
  OBVIOUS
<1> DEFINE t == StartOf(shape, content)
           bytes == Sum(SizesOf(shape, content))
           p == PaddingOf(shape, bytes)
           u == Bytes(p, Zero)
<1>1. phase = "open" /\ stream.records # 0 /\ FinishLength = stream.length /\ phase' = "finished"
      /\ buf' = PaddedTo(FinishLength) /\ shape' = shape /\ maxDatagram' = maxDatagram /\ maxRecords' = maxRecords
      /\ content' = content /\ stream' = stream
      /\ count' = (IF shape.protocol = "ipfix" THEN FinishLength ELSE app.records)
      /\ setLength' = (IF shape.protocol = "v5" THEN 0 ELSE FinishLength - HeaderLength(shape.protocol))
  BY DEF Finish, fixed
<1>2. WellFormed(shape) /\ maxDatagram \in Nat /\ content \in Seq(Sound(shape)) /\ buf \in Seq(Byte)
      /\ Len(buf) = maxDatagram /\ Accounted
  BY <1>1, Destination DEF PacketInv
<1>3. /\ stream.records \in Nat \ {0} /\ stream.bytes \in Nat /\ stream.bytes = bytes
      /\ app.records = stream.records /\ app.recordBytes = stream.bytes
      /\ t \in Seq(Byte) /\ Len(t) = OffsetOf(shape) + stream.bytes /\ OffsetOf(shape) \in Nat
  BY <1>1, WhileOpen
<1>4. /\ DataSetSize(shape, stream.bytes, stream.records) # Bounds
      /\ stream.length = PacketLength(shape.protocol, 0, DataSetSize(shape, stream.bytes, stream.records))
      /\ stream.length <= maxDatagram
  BY <1>1, <1>2 DEF Accounted
<1>5. stream.length = OffsetOf(shape) + bytes + p /\ p \in Nat
  BY <1>2, <1>3, <1>4, LengthOfPacket
<1>6. u \in Seq(Byte) /\ Len(u) = p /\ ShotOf(shape, content) = t \o u
  BY <1>2, ShotIs
<1>7. buf' = Overwrite(buf, Len(t), u)
  <2>1. DataOffset + app.recordBytes = Len(t)
    BY <1>2, <1>3, OfShape
  <2>2. stream.length - DataOffset - app.recordBytes = p
    <3>1. DataOffset = OffsetOf(shape)
      BY <1>2, OfShape
    <3> HIDE DEF p, bytes, t
    <3> QED
      BY <1>3, <1>5, <3>1
  <2> QED
    BY <1>1, <2>1, <2>2 DEF PaddedTo
<1>8. StartsWith(buf, t)
  BY <1>1 DEF PacketInv, Filling
<1> HIDE DEF t, bytes, p, u
<1>9. Len(t) + Len(u) <= Len(buf)
  BY <1>2, <1>3, <1>4, <1>5, <1>6
<1>10. buf' \in Seq(Byte) /\ Len(buf') = maxDatagram /\ StartsWith(buf', ShotOf(shape, content))
  BY <1>2, <1>3, <1>6, <1>7, <1>8, <1>9, OverwriteExtends
<1>11. Accounted'
  BY <1>1, <1>2 DEF Accounted
<1>12. Finished'
  BY <1>1, <1>3, <1>10 DEF Finished
<1> QED
  BY <1>1, <1>10, <1>11, <1>12 DEF PacketInv

\* The packet is over.
LEMMA ReleaseInv == PacketInv /\ Release => PacketInv'
<1> SUFFICES ASSUME PacketInv, Release PROVE PacketInv'
  OBVIOUS
<1>1. phase' = "none" /\ content' = << >> /\ buf' = Bytes(maxDatagram, Junk)
      /\ shape' = shape /\ maxDatagram' = maxDatagram /\ maxRecords' = maxRecords
  BY DEF Release, fixed
<1>2. maxDatagram \in Nat
  BY Destination
<1>3. buf' \in Seq(Byte) /\ Len(buf') = maxDatagram
  BY <1>1, <1>2, JunkIs
<1>4. << >> \in Seq(Sound(shape))
  BY EmptySeq
<1> QED
  BY <1>1, <1>3, <1>4 DEF PacketInv

\* It holds in every reachable state.
THEOREM PacketInvariant == Spec => []PacketInv
<1>1. Init => PacketInv
  BY InitInv
<1>2. PacketInv /\ [Next]_vars => PacketInv'
  <2> SUFFICES ASSUME PacketInv, [Next]_vars PROVE PacketInv'
    OBVIOUS
  <2>1. CASE UNCHANGED vars
    BY <2>1 DEF vars, PacketInv, Accounted, Filling, Finished
  <2>2. CASE Next
    BY <2>2, BeginInv, AppendInv, FinishInv, ReleaseInv DEF Next
  <2> QED
    BY <2>1, <2>2
<1> QED
  BY <1>1, <1>2, PTL DEF Spec

-----------------------------------------------------------------------------
(* The properties.                                                         *)

\* A record that fits an empty datagram meets no size limit in one.
LEMMA FittingAppends ==
  ASSUME PacketInv, phase = "open", NEW r \in Records, stream.records = 0, MinimumDataPacketFits(r)
  PROVE  AppendOutcome(r) # Bounds
<1> DEFINE size == RecordSize(shape, r)
           data == DataSetSize(shape, size, 1)
           length == PacketLength(shape.protocol, 0, data)
<1>1. WellFormed(shape) /\ maxDatagram \in 0 .. Max16 /\ maxDatagram \in Nat /\ maxRecords \in Nat \ {0}
  BY Destination
<1>2. size \in Nat
  <2>1. Measured(shape, r)
    BY <1>1, OfShape, RecordsMeasured
  <2>2. size \in {Invalid, Bounds} \/ size \in Nat
    BY <1>1, <2>1, SizeOfRecord
  <2>3. size >= 0
    BY DEF MinimumDataPacketFits
  <2> QED
    BY <2>2, <2>3 DEF Invalid, Bounds
<1>3. data # Bounds /\ length <= maxDatagram
  <2>1. data >= 0 /\ length <= maxDatagram
    BY DEF MinimumDataPacketFits
  <2> QED
    BY <2>1 DEF Bounds
<1>4. /\ stream.bytes = 0 /\ app.begun /\ ~app.done /\ app.records = 0 /\ app.recordBytes = 0
  <2>1. /\ stream.records = Len(content) /\ stream.bytes = Sum(SizesOf(shape, content)) /\ app.begun /\ ~app.done
        /\ app.records = stream.records /\ app.recordBytes = stream.bytes
    BY WhileOpen
  <2>2. content = << >>
    BY <2>1, EmptySeq DEF PacketInv
  <2> QED
    BY <1>1, <2>1, <2>2, StartEmpty
<1>5. ~(0 >= RecordCap)
  BY <1>1, WireAssumption DEF RecordCap
<1>6. Extended(0, 0, r) = length
  <2>1. 0 + size = size /\ 0 + 1 = 1
    BY <1>2
  <2>2. size \notin {Invalid, Bounds}
    BY <1>2 DEF Invalid, Bounds
  <2>3. PayloadOK(length, maxDatagram)
    BY <1>1, <1>3, WireAssumption DEF PayloadOK
  <2> QED
    BY <1>3, <1>5, <2>1, <2>2, <2>3 DEF Extended
<1>7. length \in Nat
  BY <1>1, <1>2, <1>3, LengthOfPacket
<1>8. AppenderOutcome(r) \in {Invalid, length}
  BY <1>4, <1>6 DEF AppenderOutcome
<1>9. AppendOutcome(r) \in {Invalid, length}
  <2>1. Extended(stream.records, stream.bytes, r) = length
    BY <1>4, <1>6
  <2> HIDE DEF length
  <2> QED
    BY <1>7, <1>8, <2>1 DEF AppendOutcome, Invalid
<1> QED
  BY <1>7, <1>9 DEF Invalid, Bounds

\* A record that fits no empty datagram is never appended.
LEMMA UnfittingRefused ==
  ASSUME PacketInv, phase = "open", NEW r \in Records, ~MinimumDataPacketFits(r)
  PROVE  AppendOutcome(r) < 0
<1> DEFINE size == RecordSize(shape, r)
           one == DataSetSize(shape, size, 1)
           all == DataSetSize(shape, stream.bytes + size, stream.records + 1)
<1>1. WellFormed(shape) /\ maxDatagram \in Nat
  BY Destination
<1>2. AppendOutcome(r) \in Int
  <2>1. stream.records \in Nat /\ stream.bytes \in Nat /\ app.records = stream.records /\ app.recordBytes = stream.bytes
    BY WhileOpen
  <2>2. Measured(shape, r)
    BY <1>1, OfShape, RecordsMeasured
  <2>3. Extended(stream.records, stream.bytes, r) \in {Invalid, Bounds} \/ Extended(stream.records, stream.bytes, r) \in Nat
    BY <1>1, <2>1, <2>2, ExtendedIs
  <2>4. Extended(stream.records, stream.bytes, r) \in Int
    BY <2>3 DEF Invalid, Bounds
  <2>5. AppenderOutcome(r) \in Int
    BY <2>1, <2>4 DEF AppenderOutcome, Invalid
  <2> QED
    BY <2>4, <2>5 DEF AppendOutcome
<1> SUFFICES ASSUME AppendOutcome(r) >= 0 PROVE MinimumDataPacketFits(r)
  BY <1>2
<1>3. /\ r \in Sound(shape) /\ RecordLength(shape) <= size
      /\ ~HasVariableFields(shape) => size = RecordLength(shape)
      /\ all # Bounds /\ AppendOutcome(r) = PacketLength(shape.protocol, 0, all)
      /\ AppendOutcome(r) <= maxDatagram
  BY AcceptedRecord
<1>4. size \in Nat
  BY <1>3 DEF Sound
<1>5. stream.records \in Nat /\ stream.bytes \in Nat /\ (stream.bytes = 0 \/ RecordLength(shape) <= stream.bytes)
  BY WhileOpen
<1> HIDE DEF size
<1>6. one \in Nat /\ one <= all
  BY <1>1, <1>3, <1>4, <1>5, RoomForOne
<1>7. all \in Nat
  <2>1. stream.bytes + size \in Nat /\ stream.records + 1 \in Nat \ {0}
    BY <1>4, <1>5
  <2> QED
    BY <1>1, <1>3, <2>1, SizeOfDataSet
<1>8. HeaderLength(shape.protocol) \in Nat
  BY <1>1, HeaderLengths DEF WellFormed
<1> HIDE DEF one, all
<1>9. PacketLength(shape.protocol, 0, one) <= maxDatagram
  BY <1>1, <1>3, <1>6, <1>7, <1>8 DEF PacketLength
<1> QED
  BY <1>4, <1>6, <1>9 DEF MinimumDataPacketFits, size, one

\* The Packer's test of a record against an empty datagram agrees with what
\* State and the appender do, and the construction of a destination leaves room
\* for every template and for a least record.
THEOREM FitsMeansAppendsHolds == Spec => []FitsMeansAppends
<1>1. PacketInv => FitsMeansAppends
  <2> SUFFICES ASSUME PacketInv PROVE FitsMeansAppends
    OBVIOUS
  <2>1. WellFormed(shape) /\ maxDatagram \in 0 .. Max16 /\ CatalogFits(shape, maxDatagram)
    BY Destination DEF PacketInv
  <2>2. ASSUME phase = "open", NEW r \in Records
        PROVE  /\ stream.records = 0 /\ MinimumDataPacketFits(r) => AppendOutcome(r) # Bounds
               /\ ~MinimumDataPacketFits(r) => AppendOutcome(r) < 0
    BY <2>2, FittingAppends, UnfittingRefused
  <2>3. shape.protocol # "v5" => Preflight(shape, 1, << >>, maxDatagram) > 0
    BY <2>1, CatalogHoldsTemplate
  <2>4. MinimumDataPacketFits([lengths |-> [i \in DOMAIN shape.fields |-> 0], status |-> "good"])
    <3> DEFINE r == [lengths |-> [i \in DOMAIN shape.fields |-> 0], status |-> "good"]
    <3>1. r.lengths = [i \in DOMAIN shape.fields |-> 0] /\ r.status = "good"
      OBVIOUS
    <3> HIDE DEF r
    <3>2. RecordSize(shape, r) = RecordLength(shape)
      BY <2>1, <3>1, EmptyRecord
    <3>3. /\ DataSetSize(shape, RecordLength(shape), 1) \in Nat /\ RecordLength(shape) \in Nat
          /\ PacketLength(shape.protocol, 0, DataSetSize(shape, RecordLength(shape), 1)) <= maxDatagram
      BY <2>1, CatalogHoldsRecord, LeastRecord
    <3>4. MinimumDataPacketFits(r)
      BY <3>2, <3>3 DEF MinimumDataPacketFits
    <3> QED
      BY <3>4 DEF r
  <2> QED
    BY <2>2, <2>3, <2>4 DEF FitsMeansAppends
<1> QED
  BY <1>1, PacketInvariant, PTL

\* The one-shot writer's preflight arrives at the length State recorded.
LEMMA PreflightIs ==
  ASSUME PacketInv, phase = "finished"
  PROVE  Preflight(shape, 0, content, maxDatagram) = stream.length
<1> DEFINE z == SizesOf(shape, content)
           errors == {z[i] : i \in DOMAIN z} \cap {Invalid, Bounds}
           data == DataSetSize(shape, Sum(z), Len(content))
           message == PacketLength(shape.protocol, 0 * TemplateBytes(shape), data)
<1>1. WellFormed(shape) /\ maxDatagram \in 0 .. Max16 /\ maxDatagram \in Nat /\ maxRecords \in Nat \ {0}
      /\ content \in Seq(Sound(shape)) /\ Accounted /\ stream.records # 0
  BY Destination DEF PacketInv, Finished
<1>2. /\ Len(content) \in Nat /\ Len(z) = Len(content) /\ z \in Seq(Nat)
  BY <1>1, EncodingsIs
<1>3. stream.records = Len(content) /\ stream.bytes = Sum(z) /\ Len(content) <= CapOf(shape, maxRecords)
      /\ data # Bounds /\ stream.length = PacketLength(shape.protocol, 0, data) /\ stream.length <= maxDatagram
  BY <1>1 DEF Accounted
<1>4. errors = {}
  <2> HIDE DEF z
  <2>1. \A i \in DOMAIN z : z[i] \in Nat
    BY <1>2, LenProperties
  <2> QED
    BY <2>1 DEF Invalid, Bounds
<1>5. 0 * TemplateBytes(shape) = 0
  BY <1>1, SizeOfTemplate
<1>6. shape.protocol = "v5" => Len(content) \in 1 .. MaxV5
  BY <1>1, <1>2, <1>3, WireAssumption DEF CapOf
<1>7. PayloadOK(message, maxDatagram)
  BY <1>1, <1>3, <1>5, WireAssumption DEF PayloadOK
<1>8. Preflight(shape, 0, content, maxDatagram) =
        IF shape.protocol = "v5" /\ (Len(content) \notin 1 .. MaxV5 \/ 0 # 0) THEN Bounds
        ELSE IF errors # {} THEN CHOOSE e \in errors : TRUE
        ELSE IF data = Bounds \/ ~PayloadOK(message, maxDatagram) THEN Bounds ELSE message
  BY DEF Preflight, SizesOf
<1> HIDE DEF errors, data, message
<1>9. Preflight(shape, 0, content, maxDatagram) = message
  BY <1>3, <1>4, <1>6, <1>7, <1>8
<1> QED
  BY <1>3, <1>5, <1>9 DEF message

\* The finished buffer starts with the one-shot writer's datagram, of the
\* length State recorded.
LEMMA FinishedIs ==
  ASSUME PacketInv, phase = "finished"
  PROVE  /\ ShotOf(shape, content) \in Seq(Byte) /\ Len(ShotOf(shape, content)) = stream.length
         /\ SubSeq(buf, 1, stream.length) = ShotOf(shape, content)
         /\ OneShot(content) = ShotOf(shape, content)
<1>1. WellFormed(shape) /\ content \in Seq(Sound(shape)) /\ Accounted /\ Finished /\ buf \in Seq(Byte)
  BY Destination DEF PacketInv
<1>2. /\ ShotOf(shape, content) \in Seq(Byte)
      /\ Len(ShotOf(shape, content)) =
           OffsetOf(shape) + Sum(SizesOf(shape, content)) + PaddingOf(shape, Sum(SizesOf(shape, content)))
  BY <1>1, ShotIs
<1>3. Len(content) \in Nat /\ Sum(SizesOf(shape, content)) \in Nat
  BY <1>1, EncodingsIs
<1>4. Len(ShotOf(shape, content)) = stream.length
  BY <1>1, <1>2, <1>3, LengthOfPacket DEF Accounted, Finished
<1>5. SubSeq(buf, 1, Len(ShotOf(shape, content))) = ShotOf(shape, content)
  BY <1>1, <1>2, StartIsSubSeq DEF Finished
<1>6. OneShot(content) = ShotOf(shape, content)
  BY DEF OneShot, ShotOf, StartOf, HeadOf, EncodingsOf, Encoded, EncodedOf, Header, SetHead, PaddingOf
<1> QED
  BY <1>2, <1>4, <1>5, <1>6

\* Filling in place makes the datagram of the one-shot writer, and the accounts
\* of State and of the appender never part.
THEOREM MatchesOneShotHolds == Spec => []MatchesOneShot
<1>1. PacketInv => MatchesOneShot
  <2> SUFFICES ASSUME PacketInv PROVE MatchesOneShot
    OBVIOUS
  <2>1. ASSUME phase = "open"
        PROVE  /\ app.records = stream.records /\ app.recordBytes = stream.bytes
               /\ stream.records # 0 => FinishLength = stream.length
    <3>1. app.records = stream.records /\ app.recordBytes = stream.bytes
      BY <2>1, WhileOpen
    <3>2. Accounted
      BY <2>1 DEF PacketInv
    <3> QED
      BY <3>1, <3>2 DEF Accounted, FinishLength
  <2>2. ASSUME phase = "finished"
        PROVE  /\ Preflight(shape, 0, content, maxDatagram) = stream.length
               /\ SubSeq(buf, 1, stream.length) = OneShot(content)
    BY <2>2, PreflightIs, FinishedIs
  <2> QED
    BY <2>1, <2>2 DEF MatchesOneShot
<1> QED
  BY <1>1, PacketInvariant, PTL

-----------------------------------------------------------------------------
(* The collector.                                                          *)

\* f is defined at o by f at the larger number next[o], unless o is in stop.
Unwinds(f, n, V, stop, base, next, step) ==
  f \in [0 .. n -> V] /\ \A o \in 0 .. n : f[o] = IF o \in stop THEN base[o] ELSE step[o][f[next[o]]]

\* There is such a function.
LEMMA Unwinding ==
  ASSUME NEW n \in Nat, NEW V, NEW stop, NEW base \in [0 .. n -> V], NEW next, NEW step,
         \A o \in 0 .. n : o \notin stop => next[o] \in o + 1 .. n,
         \A o \in 0 .. n : o \notin stop => step[o] \in [V -> V]
  PROVE  \E f : Unwinds(f, n, V, stop, base, next, step)
<1> DEFINE Value(f, o) == IF o \in stop THEN base[o] ELSE step[o][f[next[o]]]
           Partial(f, m) == f \in [m .. n -> V] /\ \A o \in m .. n : f[o] = Value(f, o)
           T == {m \in 0 .. n : \E f : Partial(f, m)}
<1>1. n \in T
  <2> DEFINE f == [o \in n .. n |-> base[n]]
  <2>1. n \in stop
    <3> SUFFICES ASSUME n \notin stop PROVE FALSE
      OBVIOUS
    <3>1. n \in 0 .. n
      OBVIOUS
    <3>2. next[n] \in n + 1 .. n
      BY <3>1
    <3> QED
      BY <3>2
  <2>2. n \in 0 .. n /\ base[n] \in V
    OBVIOUS
  <2>3. f \in [n .. n -> V]
    BY <2>2
  <2>4. ASSUME NEW o \in n .. n PROVE f[o] = Value(f, o)
    <3>1. o = n
      OBVIOUS
    <3> QED
      BY <2>1, <3>1
  <2>5. Partial(f, n)
    BY <2>3, <2>4
  <2> HIDE DEF f, Partial
  <2> QED
    BY <2>2, <2>5
<1>2. ASSUME NEW m \in 0 .. n - 1, m + 1 \in T PROVE m \in T
  <2>1. PICK f : Partial(f, m + 1)
    BY <1>2
  <2>2. f \in [m + 1 .. n -> V] /\ \A o \in m + 1 .. n : f[o] = Value(f, o)
    BY <2>1
  <2> HIDE DEF Value
  <2> DEFINE g == [o \in m .. n |-> IF o = m THEN Value(f, m) ELSE f[o]]
  <2>3. m \in 0 .. n /\ \A o \in m .. n : o # m => o \in m + 1 .. n
    OBVIOUS
  <2>4. Value(f, m) \in V
    <3>1. CASE m \in stop
      BY <2>3, <3>1 DEF Value
    <3>2. CASE m \notin stop
      <4>1. next[m] \in m + 1 .. n /\ step[m] \in [V -> V]
        BY <2>3, <3>2
      <4>2. f[next[m]] \in V
        BY <2>2, <4>1
      <4> QED
        BY <3>2, <4>1, <4>2 DEF Value
    <3> QED
      BY <3>1, <3>2
  <2>5. g \in [m .. n -> V]
    BY <2>2, <2>3, <2>4
  <2>6. ASSUME NEW o \in m .. n PROVE g[o] = Value(g, o)
    <3>1. o \in 0 .. n
      OBVIOUS
    <3>2. Value(g, o) = Value(f, o)
      <4>1. CASE o \in stop
        BY <4>1 DEF Value
      <4>2. CASE o \notin stop
        <5>1. next[o] \in o + 1 .. n
          BY <3>1, <4>2
        <5>2. next[o] \in m .. n /\ next[o] # m
          BY <5>1
        <5>3. g[next[o]] = f[next[o]]
          BY <5>2
        <5> HIDE DEF g
        <5> QED
          BY <5>3 DEF Value
      <4> QED
        BY <4>1, <4>2
    <3>3. CASE o = m
      BY <3>2, <3>3
    <3>4. CASE o # m
      <4>1. g[o] = f[o] /\ o \in m + 1 .. n
        BY <2>3, <3>4
      <4>2. f[o] = Value(f, o)
        BY <2>2, <4>1
      <4> HIDE DEF g
      <4> QED
        BY <3>2, <4>1, <4>2
    <3> QED
      BY <3>3, <3>4
  <2>7. Partial(g, m)
    BY <2>5, <2>6
  <2> HIDE DEF g, Partial
  <2> QED
    BY <2>3, <2>7
<1>3. \A m \in 0 .. n : m \in T
  <2> HIDE DEF T
  <2> QED
    BY <1>1, <1>2, DownwardInduction
<1>4. 0 \in T
  BY <1>3
<1>5. PICK f : Partial(f, 0)
  BY <1>4
<1>6. Unwinds(f, n, V, stop, base, next, step)
  BY <1>5 DEF Unwinds
<1> QED
  BY <1>6

\* The end of a field is after its start.
LEMMA EndOfFieldIs ==
  ASSUME NEW d \in Seq(Byte), NEW f \in Field, ~f.variable => f.length > 0, NEW at \in Nat
  PROVE  EndOfField(d, f, at) \in Nat /\ at < EndOfField(d, f, at)
<1>1. Len(d) \in Nat /\ \A i \in 1 .. Len(d) : d[i] \in Byte
  BY LenProperties
<1>2. ASSUME NEW i \in 1 .. Len(d) PROVE d[i][2] \in Nat
  BY <1>1 DEF Byte
<1>3. CASE ~f.variable
  BY <1>3 DEF EndOfField, Field
<1>4. CASE f.variable
  <2>1. CASE at + 3 <= Len(d) /\ d[at + 1][2] = Escape
    <3>1. at + 2 \in 1 .. Len(d) /\ at + 3 \in 1 .. Len(d)
      BY <1>1, <2>1
    <3>2. d[at + 2][2] \in Nat /\ d[at + 3][2] \in Nat
      BY <1>2, <3>1
    <3>3. EndOfField(d, f, at) = at + 3 + d[at + 2][2] * 256 + d[at + 3][2]
      BY <1>4, <2>1 DEF EndOfField
    <3> QED
      BY <3>2, <3>3
  <2>2. CASE ~(at + 3 <= Len(d) /\ d[at + 1][2] = Escape)
    <3>1. EndOfField(d, f, at) = IF at < Len(d) THEN at + 1 + d[at + 1][2] ELSE at + 1
      BY <1>4, <2>2 DEF EndOfField
    <3>2. at < Len(d) => at + 1 \in 1 .. Len(d)
      BY <1>1
    <3>3. at < Len(d) => d[at + 1][2] \in Nat
      BY <1>2, <3>2
    <3> QED
      BY <3>1, <3>3
  <2> QED
    BY <2>1, <2>2
<1> QED
  BY <1>3, <1>4

\* The collector finds the end of a value that writeValue wrote at offset at.
LEMMA FieldReadsBack ==
  ASSUME NEW d \in Seq(Byte), NEW f \in Field, NEW n \in Nat, NEW k \in Nat, ValueLength(f, n) # Bounds,
         NEW at \in Nat, at + Len(EncodedField(k, f, n)) <= Len(d),
         \A j \in 1 .. Len(EncodedField(k, f, n)) : d[at + j] = EncodedField(k, f, n)[j]
  PROVE  EndOfField(d, f, at) = at + ValueLength(f, n)
<1> DEFINE e == EncodedField(k, f, n)
<1>1. /\ Len(e) = ValueLength(f, n)
      /\ f.variable => \A j \in 1 .. Prefix(n) : e[j] = LengthBytes(n)[j]
  BY EncodedFieldIs
<1>2. /\ ~f.variable => ValueLength(f, n) = f.length
      /\ f.variable => ValueLength(f, n) = Prefix(n) + n
  BY DEF ValueLength
<1>3. Len(d) \in Nat /\ Escape \in Nat \ {0}
  BY LenProperties, WireAssumption
<1>4. at + Len(e) <= Len(d) /\ \A j \in 1 .. Len(e) : d[at + j] = e[j]
  OBVIOUS
<1> HIDE DEF e
<1>5. CASE ~f.variable
  BY <1>2, <1>5 DEF EndOfField
<1>6. CASE f.variable /\ n < Escape
  <2>1. Prefix(n) = 1 /\ LengthBytes(n) = << <<"n", n>> >>
    BY <1>3, <1>6 DEF Prefix, LengthBytes
  <2>2. Len(e) = 1 + n /\ 1 \in 1 .. Prefix(n) /\ 1 \in 1 .. Len(e)
    BY <1>1, <1>2, <1>6, <2>1
  <2>3. d[at + 1] = <<"n", n>>
    BY <1>1, <1>4, <1>6, <2>1, <2>2
  <2>4. d[at + 1][2] = n /\ n # Escape
    BY <1>3, <1>6, <2>3
  <2>5. at < Len(d)
    BY <1>3, <1>4, <2>2
  <2>6. EndOfField(d, f, at) = at + 1 + n
    BY <1>6, <2>4, <2>5 DEF EndOfField
  <2> QED
    BY <1>2, <1>6, <2>1, <2>6
<1>7. CASE f.variable /\ ~(n < Escape)
  <2>1. Prefix(n) = 3 /\ LengthBytes(n) = << <<"n", Escape>>, <<"n", n \div 256>>, <<"n", n % 256>> >>
    BY <1>3, <1>7 DEF Prefix, LengthBytes
  <2>2. Len(e) = 3 + n /\ \A j \in 1 .. 3 : j \in 1 .. Prefix(n) /\ j \in 1 .. Len(e)
    BY <1>1, <1>2, <1>7, <2>1
  <2>3. \A j \in 1 .. 3 : d[at + j] = LengthBytes(n)[j]
    BY <1>1, <1>4, <1>7, <2>2
  <2>4. d[at + 1] = LengthBytes(n)[1] /\ d[at + 2] = LengthBytes(n)[2] /\ d[at + 3] = LengthBytes(n)[3]
    BY <2>3
  <2>5. d[at + 1][2] = Escape /\ d[at + 2][2] = n \div 256 /\ d[at + 3][2] = n % 256
    BY <2>1, <2>4
  <2>6. at + 3 <= Len(d)
    BY <1>3, <1>4, <2>2
  <2>7. EndOfField(d, f, at) = at + 3 + (n \div 256) * 256 + (n % 256)
    BY <1>7, <2>5, <2>6 DEF EndOfField
  <2>8. (n \div 256) * 256 + (n % 256) = n /\ n \div 256 \in Nat /\ n % 256 \in Nat
    OBVIOUS
  <2>9. \A q \in Nat, m \in Nat : q * 256 + m = n => at + 3 + q * 256 + m = at + (3 + n)
    OBVIOUS
  <2> QED
    BY <1>2, <1>7, <2>1, <2>7, <2>8, <2>9
<1> QED
  BY <1>5, <1>6, <1>7

\* The ends of the fields of a record at offset o, as EndOfRecord computes them.
Ends(s, d, o) ==
  CHOOSE f : f = [i \in 0 .. Len(s.fields) |-> IF i = 0 THEN o ELSE EndOfField(d, s.fields[i], f[i - 1])]

EndOf(s, d, o) == Ends(s, d, o)[Len(s.fields)]

AreEnds(f, s, d, o) ==
  /\ f \in [0 .. Len(s.fields) -> Nat] /\ f[0] = o
  /\ \A i \in 1 .. Len(s.fields) : f[i] = EndOfField(d, s.fields[i], f[i - 1])

\* They exist and grow.
LEMMA EndsDefined ==
  ASSUME NEW s, WellFormed(s), NEW d \in Seq(Byte), NEW o \in Nat
  PROVE  AreEnds(Ends(s, d, o), s, d, o) /\ EndOf(s, d, o) \in Nat /\ o < EndOf(s, d, o)
<1> DEFINE n == Len(s.fields)
           Eq(f) == f = [i \in 0 .. n |-> IF i = 0 THEN o ELSE EndOfField(d, s.fields[i], f[i - 1])]
           step == [i \in 1 .. n |-> [v \in Nat |-> EndOfField(d, s.fields[i], v)]]
<1>1. n \in Nat \ {0} /\ \A i \in 1 .. n : s.fields[i] \in Field /\ (~s.fields[i].variable => s.fields[i].length > 0)
  BY FieldsOf
<1> HIDE DEF n
<1>2. ASSUME NEW i \in 1 .. n, NEW v \in Nat
      PROVE  EndOfField(d, s.fields[i], v) \in Nat /\ v < EndOfField(d, s.fields[i], v)
  BY <1>1, EndOfFieldIs
<1>3. step \in [1 .. n -> [Nat -> Nat]]
  BY <1>2
<1>4. PICK f : Iterates(f, n, Nat, o, step)
  <2> HIDE DEF step
  <2> QED
    BY <1>1, <1>3, Iteration
<1>5. Eq(f)
  <2>1. f \in [0 .. n -> Nat] /\ f[0] = o /\ \A i \in 1 .. n : f[i] = step[i][f[i - 1]]
    BY <1>4 DEF Iterates
  <2>2. ASSUME NEW i \in 1 .. n PROVE f[i] = EndOfField(d, s.fields[i], f[i - 1])
    <3>1. i - 1 \in 0 .. n /\ f[i - 1] \in Nat
      BY <1>1, <2>1
    <3>2. step[i][f[i - 1]] = EndOfField(d, s.fields[i], f[i - 1])
      BY <3>1
    <3> QED
      BY <2>1, <3>2
  <2>3. \A i \in 0 .. n : f[i] = IF i = 0 THEN o ELSE EndOfField(d, s.fields[i], f[i - 1])
    BY <1>1, <2>1, <2>2
  <2> QED
    BY <2>1, <2>3
<1> DEFINE g == Ends(s, d, o)
<1>6. Eq(g)
  BY <1>5 DEF Ends, n
<1> HIDE DEF g
<1>7. g[0] = o /\ \A i \in 1 .. n : g[i] = EndOfField(d, s.fields[i], g[i - 1])
  BY <1>1, <1>6
<1> DEFINE T == {i \in 0 .. n : g[i] \in Nat /\ o + i <= g[i]}
<1>8. 0 \in T
  BY <1>1, <1>7
<1>9. ASSUME NEW i \in 0 .. n - 1, i \in T PROVE i + 1 \in T
  <2>1. i + 1 \in 1 .. n /\ (i + 1) - 1 = i /\ i + 1 \in 0 .. n
    BY <1>1
  <2>2. g[i] \in Nat /\ o + i <= g[i]
    BY <1>9
  <2>3. g[i + 1] = EndOfField(d, s.fields[i + 1], g[i])
    BY <1>7, <2>1
  <2>4. g[i + 1] \in Nat /\ g[i] < g[i + 1]
    BY <1>2, <2>1, <2>2, <2>3
  <2> QED
    BY <2>1, <2>2, <2>4
<1>10. \A i \in 0 .. n : i \in T
  <2> HIDE DEF T
  <2> QED
    BY <1>1, <1>8, <1>9, Induction
<1>11. g \in [0 .. n -> Nat]
  BY <1>6, <1>10
<1>12. n \in 0 .. n
  BY <1>1
<1>13. g[n] \in Nat /\ o + n <= g[n]
  BY <1>10, <1>12
<1>14. o < g[n]
  BY <1>1, <1>13
<1> QED
  BY <1>7, <1>11, <1>13, <1>14 DEF g, n, AreEnds, EndOf

\* d has the bytes e at offset o.
HasAt(d, o, e) == o + Len(e) <= Len(d) /\ \A j \in 1 .. Len(e) : d[o + j] = e[j]

\* The collector finds the end of a record that writeDataRecord wrote at offset o.
LEMMA RecordReadsBack ==
  ASSUME NEW s, WellFormed(s), NEW r \in Sound(s), NEW k \in Nat, NEW d \in Seq(Byte), NEW o \in Nat,
         HasAt(d, o, EncodedOf(s, k, r))
  PROVE  EndOf(s, d, o) = o + Len(EncodedOf(s, k, r))
<1> DEFINE n == Len(s.fields)
           e == EncodedOf(s, k, r)
           ee == EncodedFields(s, k, r)
           v == ValueLengths(s, r)
           L == Sums(v)
           g == Ends(s, d, o)
<1>1. Measured(s, r) /\ RecordSize(s, r) \in Nat /\ RecordSize(s, r) \notin {Invalid, Bounds}
  BY RecordsMeasured DEF Sound, Invalid, Bounds
<1>2. /\ v \in Seq(Nat) /\ Len(v) = n
      /\ \A i \in 1 .. n : v[i] = ValueLength(s.fields[i], r.lengths[i])
                           /\ ValueLength(s.fields[i], r.lengths[i]) \in Nat
  BY <1>1, SizeOfRecord
<1>3. /\ ee \in Seq(Seq(Byte)) /\ Len(ee) = n /\ e = FlattenSeq(ee)
      /\ \A i \in 1 .. n : ee[i] = EncodedField(k, s.fields[i], r.lengths[i])
  BY <1>1, EncodedFieldsIs
<1>4. n \in Nat \ {0} /\ \A i \in 1 .. n : s.fields[i] \in Field /\ r.lengths[i] \in Nat
  BY <1>1, FieldsOf DEF Measured
<1>5. AreSums(L, v)
  BY <1>2, SumsDefined
<1>6. g[0] = o /\ \A i \in 1 .. n : g[i] = EndOfField(d, s.fields[i], g[i - 1])
  BY EndsDefined DEF AreEnds
<1>7. EndOf(s, d, o) = g[n]
  BY DEF EndOf
<1>8. o + Len(e) <= Len(d) /\ Len(d) \in Nat /\ \A j \in 1 .. Len(e) : d[o + j] = e[j]
  BY LenProperties DEF HasAt
<1> HIDE DEF n, e, ee, v, L, g
<1>9. ASSUME NEW i \in 1 .. n
      PROVE  ValueLength(s.fields[i], r.lengths[i]) # Bounds /\ Len(ee[i]) = v[i] /\ v[i] \in Nat
  <2>1. ValueLength(s.fields[i], r.lengths[i]) # Bounds
    BY <1>2 DEF Bounds
  <2>2. Len(EncodedField(k, s.fields[i], r.lengths[i])) = ValueLength(s.fields[i], r.lengths[i])
    BY <1>4, <2>1, EncodedFieldIs
  <2> QED
    BY <1>2, <1>3, <2>1, <2>2
<1>10. L \in [0 .. n -> Nat] /\ L[0] = 0 /\ \A i \in 1 .. n : L[i] = L[i - 1] + v[i]
  BY <1>2, <1>5 DEF AreSums
<1>11. AreLengths(L, ee)
  BY <1>3, <1>9, <1>10 DEF AreLengths
<1>12. Placed(e, ee, L, n)
  <2>1. PICK f : AreFlats(f, ee, Byte) /\ FlattenSeq(ee) = f[Len(ee)]
    BY <1>3, FlattenDefined
  <2>2. n \in 0 .. Len(ee)
    BY <1>3, <1>4
  <2>3. Placed(f[n], ee, L, n)
    BY <1>3, <1>11, <2>1, <2>2, FlattenPositions
  <2> QED
    BY <1>3, <2>1, <2>3
<1>13. /\ Len(e) = L[n]
       /\ \A i \in 1 .. n : L[i] <= L[n] /\ \A j \in 1 .. Len(ee[i]) : e[L[i - 1] + j] = ee[i][j]
  BY <1>12 DEF Placed
<1> DEFINE T == {i \in 0 .. n : g[i] = o + L[i]}
<1>14. 0 \in T
  BY <1>4, <1>6, <1>10
<1>15. ASSUME NEW i \in 0 .. n - 1, i \in T PROVE i + 1 \in T
  <2> DEFINE m == i + 1
             x == ee[m]
             f == s.fields[m]
             l == r.lengths[m]
             at == o + L[i]
  <2>1. m \in 1 .. n /\ m - 1 = i /\ m \in 0 .. n /\ i \in 0 .. n
    BY <1>4
  <2>2. L[i] \in Nat /\ L[m] \in Nat /\ L[m] = L[i] + v[m] /\ v[m] \in Nat /\ L[m] <= L[n] /\ L[n] \in Nat
    <3>1. n \in 0 .. n
      BY <1>4
    <3> QED
      BY <1>9, <1>10, <1>13, <2>1, <3>1
  <2>3. x = EncodedField(k, f, l) /\ Len(x) = v[m] /\ ValueLength(f, l) = v[m] /\ ValueLength(f, l) # Bounds
        /\ f \in Field /\ l \in Nat
    BY <1>2, <1>3, <1>4, <1>9, <2>1
  <2>4. g[m] = EndOfField(d, f, at)
    BY <1>6, <1>15, <2>1
  <2> HIDE DEF m, x, f, l
  <2>5. at \in Nat /\ at + Len(x) <= Len(d)
    <3>1. Len(e) = L[n] /\ o + Len(e) <= Len(d) /\ Len(d) \in Nat
      BY <1>8, <1>13
    <3>2. Len(x) = v[m]
      BY <2>3
    <3> QED
      BY <2>2, <3>1, <3>2
  <2>6. ASSUME NEW j \in 1 .. Len(x) PROVE d[at + j] = x[j]
    <3>1. e[L[i] + j] = x[j]
      BY <1>13, <2>1 DEF x
    <3>2. L[i] + j \in 1 .. Len(e)
      BY <1>13, <2>2, <2>3
    <3>3. d[o + (L[i] + j)] = e[L[i] + j]
      BY <1>8, <3>2
    <3>4. o + (L[i] + j) = at + j
      BY <2>2, <2>3
    <3> QED
      BY <3>1, <3>3, <3>4
  <2> HIDE DEF at
  <2>7. EndOfField(d, f, at) = at + ValueLength(f, l)
    BY <2>3, <2>5, <2>6, FieldReadsBack
  <2>8. g[m] = o + L[m]
    BY <2>2, <2>3, <2>4, <2>7 DEF at
  <2> QED
    BY <2>1, <2>8 DEF m
<1>16. \A i \in 0 .. n : i \in T
  <2> HIDE DEF T
  <2> QED
    BY <1>4, <1>14, <1>15, Induction
<1>17. n \in 0 .. n
  BY <1>4
<1>18. g[n] = o + L[n]
  BY <1>16, <1>17
<1> QED
  BY <1>7, <1>13, <1>18 DEF e

\* What the collector reads from each offset on.
Reads(s, d) ==
  CHOOSE f : f = [o \in 0 .. Len(d) |->
    IF Len(d) - o < RecordLength(s) THEN << >>
    ELSE IF EndOf(s, d, o) > Len(d) THEN << << >> >>
    ELSE <<SubSeq(d, o + 1, EndOf(s, d, o))>> \o f[EndOf(s, d, o)]]

AreReads(f, s, d) ==
  \A o \in 0 .. Len(d) :
    f[o] = IF Len(d) - o < RecordLength(s) THEN << >>
           ELSE IF EndOf(s, d, o) > Len(d) THEN << << >> >>
           ELSE <<SubSeq(d, o + 1, EndOf(s, d, o))>> \o f[EndOf(s, d, o)]

\* It is well defined: every record ends after its start.
LEMMA ReadsDefined ==
  ASSUME NEW s, WellFormed(s), NEW d \in Seq(Byte)
  PROVE  AreReads(Reads(s, d), s, d)
<1> DEFINE n == Len(d)
           V == Seq(Seq(Byte))
           end == [o \in 0 .. n |-> EndOf(s, d, o)]
           stop == {o \in 0 .. n : n - o < RecordLength(s) \/ EndOf(s, d, o) > n}
           base == [o \in 0 .. n |-> IF n - o < RecordLength(s) THEN << >> ELSE << << >> >>]
           step == [o \in 0 .. n |-> [v \in V |-> <<SubSeq(d, o + 1, EndOf(s, d, o))>> \o v]]
<1>1. n \in Nat
  BY LenProperties
<1> HIDE DEF n
<1>2. \A o \in 0 .. n : EndOf(s, d, o) \in Nat /\ o < EndOf(s, d, o)
  <2>1. ASSUME NEW o \in 0 .. n PROVE EndOf(s, d, o) \in Nat /\ o < EndOf(s, d, o)
    <3>1. o \in Nat
      BY <1>1
    <3> QED
      BY <3>1, EndsDefined
  <2> QED
    BY <2>1
<1>3. base \in [0 .. n -> V]
  <2>1. << >> \in Seq(Seq(Byte)) /\ << >> \in Seq(Byte)
    BY EmptySeq
  <2>2. << << >> >> \in Seq(Seq(Byte))
    BY <2>1
  <2> QED
    BY <2>1, <2>2
<1>4. ASSUME NEW o \in 0 .. n, o \notin stop
      PROVE  end[o] \in o + 1 .. n
  BY <1>1, <1>2, <1>4
<1>5. ASSUME NEW o \in 0 .. n, o \notin stop
      PROVE  step[o] \in [V -> V]
  <2>1. EndOf(s, d, o) \in o + 1 .. n
    BY <1>4, <1>5
  <2>2. SubSeq(d, o + 1, EndOf(s, d, o)) \in Seq(Byte)
    <3> DEFINE x == EndOf(s, d, o)
    <3> HIDE DEF x
    <3>1. x \in o + 1 .. n
      BY <2>1 DEF x
    <3>2. \A i \in o + 1 .. x : i \in 1 .. Len(d)
      BY <1>1, <3>1 DEF n
    <3>3. \A i \in o + 1 .. x : d[i] \in Byte
      BY <3>2, LenProperties
    <3>4. SubSeq(d, o + 1, x) \in Seq(Byte)
      BY <1>1, <3>1, <3>3
    <3> QED
      BY <3>4 DEF x
  <2>3. <<SubSeq(d, o + 1, EndOf(s, d, o))>> \in Seq(Seq(Byte))
    BY <2>2
  <2>4. \A v \in V : <<SubSeq(d, o + 1, EndOf(s, d, o))>> \o v \in V
    BY <2>3, ConcatProperties
  <2> QED
    BY <2>4
<1>6. PICK f : Unwinds(f, n, V, stop, base, end, step)
  <2>1. (\A o \in 0 .. n : o \notin stop => end[o] \in o + 1 .. n)
        /\ (\A o \in 0 .. n : o \notin stop => step[o] \in [V -> V])
    BY <1>4, <1>5
  <2> HIDE DEF stop, base, end, step, V
  <2> QED
    BY <1>1, <1>3, <2>1, Unwinding
<1> DEFINE Value(g, o) == IF n - o < RecordLength(s) THEN << >>
                          ELSE IF EndOf(s, d, o) > n THEN << << >> >>
                          ELSE <<SubSeq(d, o + 1, EndOf(s, d, o))>> \o g[EndOf(s, d, o)]
<1>7. f \in [0 .. n -> V] /\ \A o \in 0 .. n : f[o] = IF o \in stop THEN base[o] ELSE step[o][f[end[o]]]
  BY <1>6 DEF Unwinds
<1>8. ASSUME NEW o \in 0 .. n PROVE f[o] = Value(f, o)
  <2>1. CASE o \in stop
    <3>1. f[o] = base[o]
      BY <1>7, <2>1
    <3>2. n - o < RecordLength(s) \/ EndOf(s, d, o) > n
      BY <2>1
    <3> QED
      BY <3>1, <3>2
  <2>2. CASE o \notin stop
    <3>1. f[o] = step[o][f[end[o]]] /\ end[o] = EndOf(s, d, o)
      BY <1>7, <2>2
    <3>2. end[o] \in 0 .. n
      BY <1>1, <1>4, <2>2
    <3>3. f[end[o]] \in V
      <4> HIDE DEF end, stop, base, step
      <4> QED
        BY <1>7, <3>2
    <3>4. step[o][f[end[o]]] = <<SubSeq(d, o + 1, EndOf(s, d, o))>> \o f[end[o]]
      <4> HIDE DEF end, stop, base, V
      <4> QED
        BY <3>3
    <3>5. ~(n - o < RecordLength(s)) /\ ~(EndOf(s, d, o) > n)
      BY <2>2
    <3> HIDE DEF end, stop, base, step
    <3> QED
      BY <3>1, <3>4, <3>5
  <2> QED
    BY <2>1, <2>2
<1> HIDE DEF stop, base, end, step, Value
<1>9. f = [o \in 0 .. n |-> Value(f, o)]
  BY <1>7, <1>8
<1> DEFINE g == Reads(s, d)
<1>10. g = [o \in 0 .. n |-> Value(g, o)]
  BY <1>9 DEF Reads, Value, n
<1> HIDE DEF g
<1>11. \A o \in 0 .. n : g[o] = Value(g, o)
  BY <1>10
<1> QED
  BY <1>11 DEF AreReads, Value, g, n

\* The members of e after the k-th.
After(e, k) == [i \in 1 .. Len(e) - k |-> e[k + i]]

\* What is left after the k-th member is the next and what is left after that.
LEMMA AfterNext ==
  ASSUME NEW X, NEW e \in Seq(X), NEW k \in 0 .. Len(e) - 1
  PROVE  After(e, k) = <<e[k + 1]>> \o After(e, k + 1)
<1> DEFINE n == Len(e)
           a == After(e, k + 1)
           b == After(e, k)
<1>1. n \in Nat /\ (\A i \in 1 .. n : e[i] \in X) /\ k \in Nat /\ k + 1 <= n
  BY LenProperties
<1>2. k + 1 \in 1 .. n /\ n - k \in Nat /\ n - (k + 1) \in Nat /\ 1 + (n - (k + 1)) = n - k
  BY <1>1
<1>3. ASSUME NEW i \in 1 .. n - (k + 1) PROVE (k + 1) + i \in 1 .. n
  BY <1>1
<1>4. a \in [1 .. n - (k + 1) -> X] /\ \A i \in 1 .. n - (k + 1) : a[i] = e[(k + 1) + i]
  BY <1>1, <1>3 DEF After
<1>5. ASSUME NEW i \in 1 .. n - k PROVE k + i \in 1 .. n
  BY <1>1
<1>6. b \in [1 .. n - k -> X] /\ \A i \in 1 .. n - k : b[i] = e[k + i]
  BY <1>1, <1>5 DEF After
<1> HIDE DEF n, a, b
<1>7. a \in Seq(X) /\ Len(a) = n - (k + 1)
  BY <1>2, <1>4, FunctionIsSequence
<1>8. b \in Seq(X) /\ Len(b) = n - k
  BY <1>2, <1>6, FunctionIsSequence
<1> DEFINE h == <<e[k + 1]>>
<1>9. h \in Seq(X) /\ Len(h) = 1 /\ h[1] = e[k + 1]
  BY <1>1, <1>2
<1> HIDE DEF h
<1>10. /\ h \o a \in Seq(X) /\ Len(h \o a) = n - k
       /\ \A i \in 1 .. n - k : (h \o a)[i] = IF i <= 1 THEN h[i] ELSE a[i - 1]
  <2>1. /\ h \o a \in Seq(X) /\ Len(h \o a) = Len(h) + Len(a)
        /\ \A i \in 1 .. Len(h) + Len(a) : (h \o a)[i] = IF i <= Len(h) THEN h[i] ELSE a[i - Len(h)]
    BY <1>7, <1>9, ConcatProperties
  <2>2. Len(h) = 1 /\ Len(h) + Len(a) = n - k
    BY <1>2, <1>7, <1>9
  <2> QED
    BY <2>1, <2>2
<1>11. ASSUME NEW i \in 1 .. n - k PROVE b[i] = (h \o a)[i]
  <2>1. CASE i = 1
    BY <1>6, <1>9, <1>10, <2>1
  <2>2. CASE i # 1
    <3>1. i - 1 \in 1 .. n - (k + 1) /\ (k + 1) + (i - 1) = k + i /\ ~(i <= 1)
      BY <1>1, <1>2, <2>2
    <3>2. a[i - 1] = e[k + i]
      BY <1>4, <3>1
    <3> QED
      BY <1>6, <1>10, <3>1, <3>2
  <2> QED
    BY <2>1, <2>2
<1>12. b = h \o a
  BY <1>8, <1>10, <1>11, SeqEqual
<1> QED
  BY <1>12 DEF a, b, h

\* The collector reads the encoded records out of a payload that holds them and
\* fewer bytes of padding than a record can have.
LEMMA PayloadReadsBack ==
  ASSUME NEW s, WellFormed(s), NEW c \in Seq(Sound(s)), NEW p \in Seq(Byte), Len(p) < RecordLength(s)
  PROVE  Reads(s, FlattenSeq(EncodingsOf(s, c)) \o p)[0] = EncodingsOf(s, c)
<1> DEFINE e == EncodingsOf(s, c)
           n == Len(c)
           z == SizesOf(s, c)
           L == Sums(z)
           F == FlattenSeq(e)
           d == F \o p
           R == Reads(s, d)
<1>1. /\ e \in Seq(Seq(Byte)) /\ Len(e) = n /\ z \in Seq(Nat) /\ Len(z) = n /\ n \in Nat
      /\ \A k \in 1 .. n : /\ c[k] \in Sound(s) /\ z[k] = RecordSize(s, c[k]) /\ e[k] = EncodedOf(s, k, c[k])
                           /\ Len(EncodedOf(s, k, c[k])) = RecordSize(s, c[k])
      /\ F \in Seq(Byte) /\ Len(F) = Sum(z) /\ Sum(z) \in Nat
  BY EncodingsIs
<1>2. AreSums(L, z) /\ Sum(z) = L[Len(z)]
  BY <1>1, SumsDefined
<1>3. /\ d \in Seq(Byte) /\ Len(d) = Len(F) + Len(p) /\ Len(p) \in Nat
      /\ \A i \in 1 .. Len(F) + Len(p) : d[i] = IF i <= Len(F) THEN F[i] ELSE p[i - Len(F)]
  <2> HIDE DEF F
  <2>1. F \in Seq(Byte)
    BY <1>1
  <2> QED
    BY <2>1, ConcatProperties, LenProperties
<1> HIDE DEF d
<1>4. AreReads(R, s, d)
  BY <1>3, ReadsDefined
<1> HIDE DEF e, n, z, L, R
<1>5. L \in [0 .. n -> Nat] /\ L[0] = 0 /\ \A i \in 1 .. n : L[i] = L[i - 1] + z[i]
  BY <1>1, <1>2 DEF AreSums
<1>6. \A k \in 1 .. n : Len(e[k]) = z[k]
  BY <1>1
<1>7. Placed(F, e, L, n)
  <2>1. PICK f : AreFlats(f, e, Byte) /\ FlattenSeq(e) = f[Len(e)]
    BY <1>1, FlattenDefined
  <2>2. n \in 0 .. Len(e)
    BY <1>1
  <2>3. AreLengths(L, e)
    BY <1>1, <1>5, <1>6 DEF AreLengths
  <2>4. Placed(f[n], e, L, n)
    BY <1>1, <2>1, <2>2, <2>3, FlattenPositions
  <2> QED
    BY <1>1, <2>1, <2>4
<1> HIDE DEF F
<1>8. /\ Len(F) = L[n] /\ Len(F) \in Nat
      /\ \A i \in 1 .. n : L[i] <= L[n] /\ \A j \in 1 .. Len(e[i]) : F[L[i - 1] + j] = e[i][j]
  BY <1>1, <1>7 DEF Placed
<1>9. RecordLength(s) \in Nat \ {0}
  BY LeastRecord
<1> DEFINE T == {k \in 0 .. n : R[L[k]] = After(e, k)}
<1>10. n \in T
  <2>1. L[n] \in 0 .. Len(d) /\ Len(d) - L[n] < RecordLength(s)
    BY <1>3, <1>8, <1>9
  <2>2. R[L[n]] = << >>
    BY <1>4, <2>1 DEF AreReads
  <2>3. After(e, n) = << >>
    <3>1. 1 .. Len(e) - n = {}
      BY <1>1
    <3> QED
      BY <3>1 DEF After
  <2>4. n \in 0 .. n
    BY <1>1
  <2> QED
    BY <2>2, <2>3, <2>4
<1>11. ASSUME NEW k \in 0 .. n - 1, k + 1 \in T PROVE k \in T
  <2> DEFINE m == k + 1
             x == e[m]
             o == L[k]
  <2>1. m \in 1 .. n /\ m - 1 = k /\ k \in 0 .. n /\ m \in Nat /\ m \in 0 .. n
    BY <1>1
  <2>2. o \in Nat /\ L[m] \in Nat /\ L[m] = o + z[m] /\ L[m] <= Len(F) /\ Len(x) = z[m]
    BY <1>5, <1>6, <1>8, <2>1
  <2>3. c[m] \in Sound(s) /\ x = EncodedOf(s, m, c[m]) /\ z[m] = RecordSize(s, c[m])
    BY <1>1, <2>1
  <2>4. z[m] \in Nat /\ RecordLength(s) <= z[m]
    <3>1. Measured(s, c[m]) /\ RecordSize(s, c[m]) \in Nat
      BY <2>3, RecordsMeasured DEF Sound
    <3>2. RecordLength(s) <= RecordSize(s, c[m])
      BY <3>1, SizeOfRecord DEF Invalid, Bounds
    <3> QED
      BY <2>3, <3>1, <3>2
  <2>5. R[L[m]] = After(e, m)
    BY <1>11
  <2>6. \A j \in 1 .. Len(x) : F[o + j] = x[j]
    BY <1>8, <2>1
  <2> HIDE DEF m, x, o
  <2>7. o + Len(x) <= Len(d)
    BY <1>3, <1>8, <2>2
  <2>8. ASSUME NEW j \in 1 .. Len(x) PROVE d[o + j] = x[j]
    <3>1. o + j \in 1 .. Len(F) + Len(p) /\ o + j <= Len(F)
      BY <1>3, <1>8, <2>2, <2>4
    <3>2. d[o + j] = F[o + j]
      BY <1>3, <3>1
    <3> QED
      BY <2>6, <3>2
  <2>9. EndOf(s, d, o) = o + Len(x)
    <3>1. HasAt(d, o, x)
      BY <2>7, <2>8 DEF HasAt
    <3>2. c[m] \in Sound(s) /\ m \in Nat /\ d \in Seq(Byte) /\ o \in Nat
      BY <1>3, <2>1, <2>2, <2>3
    <3>3. HasAt(d, o, EncodedOf(s, m, c[m]))
      BY <2>3, <3>1
    <3>4. EndOf(s, d, o) = o + Len(EncodedOf(s, m, c[m]))
      BY <3>2, <3>3, RecordReadsBack
    <3> QED
      BY <2>3, <3>4
  <2>10. EndOf(s, d, o) = L[m]
    BY <2>2, <2>9
  <2>11. SubSeq(d, o + 1, L[m]) = x
    <3>1. x \in Seq(Byte) /\ x = [j \in 1 .. Len(x) |-> x[j]]
      <4>1. x \in Seq(Byte)
        BY <1>1, <2>1, LenProperties DEF x
      <4> QED
        BY <4>1, LenProperties
    <3>2. L[m] = o + Len(x) /\ Len(x) \in Nat
      BY <2>2, <2>4
    <3>3. SubSeq(d, o + 1, o + Len(x)) = [j \in 1 .. Len(x) |-> d[o + j]]
      <4>1. ASSUME NEW l \in Nat, o + l <= Len(d) PROVE SubSeq(d, o + 1, o + l) = [j \in 1 .. l |-> d[o + j]]
        <5>1. (o + l) - (o + 1) + 1 = l /\ o + 1 \in Nat /\ o + l \in Nat
          BY <2>2
        <5>2. SubSeq(d, o + 1, o + l) = [j \in 1 .. ((o + l) - (o + 1) + 1) |-> d[(o + 1) + j - 1]]
          BY <2>2
        <5>3. \A j \in 1 .. l : (o + 1) + j - 1 = o + j
          BY <2>2
        <5> QED
          BY <5>1, <5>2, <5>3
      <4> QED
        BY <2>7, <3>2, <4>1
    <3> QED
      BY <2>8, <3>1, <3>2, <3>3
  <2>12. o \in 0 .. Len(d) /\ ~(Len(d) - o < RecordLength(s)) /\ ~(L[m] > Len(d))
    BY <1>3, <1>8, <1>9, <2>2, <2>4, <2>7
  <2>13. R[o] = <<x>> \o After(e, m)
    BY <1>4, <2>5, <2>10, <2>11, <2>12 DEF AreReads
  <2>14. After(e, k) = <<x>> \o After(e, m)
    <3>1. k \in 0 .. Len(e) - 1
      BY <1>1
    <3> QED
      BY <1>1, <3>1, AfterNext DEF m, x
  <2> QED
    BY <2>1, <2>13, <2>14 DEF o
<1>12. \A k \in 0 .. n : k \in T
  <2> HIDE DEF T
  <2> QED
    BY <1>1, <1>10, <1>11, DownwardInduction
<1>13. 0 \in 0 .. n
  BY <1>1
<1>14. R[0] = After(e, 0)
  BY <1>5, <1>12, <1>13
<1>15. After(e, 0) = e
  <2>1. e = [i \in 1 .. n |-> e[i]]
    BY <1>1, LenProperties
  <2>2. After(e, 0) = [i \in 1 .. n |-> e[0 + i]]
    BY <1>1 DEF After
  <2>3. \A i \in 1 .. n : 0 + i = i
    OBVIOUS
  <2> QED
    BY <2>1, <2>2, <2>3
<1> QED
  BY <1>14, <1>15 DEF R, d, F, e

\* What follows the first part of a start.
LEMMA RestOfStart ==
  ASSUME NEW X, NEW b \in Seq(X), NEW h \in Seq(X), NEW f \in Seq(X), NEW p \in Seq(X),
         StartsWith(b, (h \o f) \o p)
  PROVE  SubSeq(b, Len(h) + 1, Len(h) + Len(f) + Len(p)) = f \o p
<1> DEFINE w == f \o p
           m == Len(h)
           l == Len(w)
<1>1. (h \o f) \o p = h \o w
  BY ConcatAssociative
<1>2. w \in Seq(X) /\ Len(w) = Len(f) + Len(p) /\ Len(f) \in Nat /\ Len(p) \in Nat
  BY ConcatProperties, LenProperties
<1> HIDE DEF w
<1>3. m \in Nat /\ l \in Nat /\ Len(b) \in Nat
  BY <1>2, LenProperties
<1>4. /\ Len(h \o w) = m + l
      /\ \A i \in 1 .. m + l : (h \o w)[i] = IF i <= m THEN h[i] ELSE w[i - m]
  <2>1. w \in Seq(X)
    BY <1>2
  <2> QED
    BY <2>1, ConcatProperties
<1>5. m + l <= Len(b) /\ \A i \in 1 .. m + l : b[i] = (h \o w)[i]
  BY <1>1, <1>4 DEF StartsWith
<1>6. w = [j \in 1 .. l |-> w[j]]
  BY <1>2, LenProperties
<1> HIDE DEF m, l
<1>7. ASSUME NEW j \in 1 .. l PROVE b[m + j] = w[j]
  <2>1. m + j \in 1 .. m + l /\ ~(m + j <= m) /\ (m + j) - m = j
    BY <1>3
  <2> QED
    BY <1>4, <1>5, <2>1
<1>8. SubSeq(b, m + 1, m + l) = [j \in 1 .. l |-> b[m + j]]
  <2>1. (m + l) - (m + 1) + 1 = l
    BY <1>3
  <2>2. SubSeq(b, m + 1, m + l) = [j \in 1 .. ((m + l) - (m + 1) + 1) |-> b[(m + 1) + j - 1]]
    BY <1>3
  <2>3. \A j \in 1 .. l : (m + 1) + j - 1 = m + j
    BY <1>3
  <2> QED
    BY <2>1, <2>2, <2>3
<1>9. SubSeq(b, m + 1, m + l) = w
  BY <1>6, <1>7, <1>8
<1>10. m + Len(f) + Len(p) = m + l
  BY <1>2, <1>3 DEF l
<1> QED
  BY <1>9, <1>10 DEF m, w

\* The lengths in the header and the set header delimit the records and the padding.
LEMMA PayloadIs ==
  ASSUME PacketInv, phase = "finished"
  PROVE  Payload = FlattenSeq(EncodingsOf(shape, content))
                     \o Bytes(PaddingOf(shape, Sum(SizesOf(shape, content))), Zero)
<1> DEFINE h == HeadOf(shape)
           f == FlattenSeq(EncodingsOf(shape, content))
           bytes == Sum(SizesOf(shape, content))
           p == Bytes(PaddingOf(shape, bytes), Zero)
           end == OffsetOf(shape) + bytes + PaddingOf(shape, bytes)
<1>1. WellFormed(shape) /\ content \in Seq(Sound(shape)) /\ Accounted /\ Finished /\ buf \in Seq(Byte)
  BY Destination DEF PacketInv
<1>2. h \in Seq(Byte) /\ Len(h) = OffsetOf(shape) /\ OffsetOf(shape) \in Nat
  BY <1>1, HeadIs
<1>3. f \in Seq(Byte) /\ Len(f) = bytes /\ bytes \in Nat /\ Len(content) \in Nat
  BY <1>1, EncodingsIs
<1>4. p \in Seq(Byte) /\ Len(p) = PaddingOf(shape, bytes) /\ PaddingOf(shape, bytes) \in Nat
      /\ ShotOf(shape, content) = StartOf(shape, content) \o p
  BY <1>1, ShotIs
<1>5. StartsWith(buf, (h \o f) \o p)
  BY <1>1, <1>4 DEF Finished, StartOf
<1>6. SubSeq(buf, OffsetOf(shape) + 1, end) = f \o p
  <2> HIDE DEF h, f, p, bytes
  <2>1. SubSeq(buf, Len(h) + 1, Len(h) + Len(f) + Len(p)) = f \o p
    <3>1. buf \in Seq(Byte) /\ h \in Seq(Byte) /\ f \in Seq(Byte) /\ p \in Seq(Byte)
      BY <1>1, <1>2, <1>3, <1>4
    <3> QED
      BY <1>5, <3>1, RestOfStart
  <2> QED
    BY <1>2, <1>3, <1>4, <2>1
<1>7. /\ stream.records = Len(content) /\ stream.records # 0 /\ stream.bytes = bytes
      /\ DataSetSize(shape, bytes, stream.records) # Bounds
      /\ stream.length = PacketLength(shape.protocol, 0, DataSetSize(shape, bytes, stream.records))
  BY <1>1 DEF Accounted, Finished
<1>8. stream.length = end /\ stream.length \in Nat
  BY <1>1, <1>3, <1>7, LengthOfPacket
<1>9. DataOffset = OffsetOf(shape) /\ shape.protocol \in {"v5", "v9", "ipfix"}
  BY <1>1, OfShape DEF WellFormed
<1>10. CASE shape.protocol = "v5"
  <2>1. ~HasVariableFields(shape)
    BY <1>1, <1>10, FieldsOf DEF HasVariableFields
  <2>2. bytes = stream.records * RecordLength(shape)
    BY <1>1, <1>3, <1>7, <2>1, SizeOfDataSet
  <2>3. count = stream.records
    BY <1>1, <1>10 DEF Finished
  <2>4. PaddingOf(shape, bytes) = 0
    BY <1>10 DEF PaddingOf
  <2> HIDE DEF bytes
  <2>5. end = DataOffset + count * RecordLength(shape)
    BY <1>2, <1>3, <1>9, <2>2, <2>3, <2>4
  <2>6. Payload = SubSeq(buf, DataOffset + 1, DataOffset + count * RecordLength(shape))
    BY <1>10 DEF Payload
  <2> HIDE DEF f, p, end
  <2> QED
    BY <1>6, <1>9, <2>5, <2>6 DEF f, p, bytes
<1>11. CASE shape.protocol = "v9"
  <2>1. setLength = stream.length - HeaderLength("v9")
    BY <1>1, <1>11 DEF Finished
  <2>2. HeaderLength("v9") + setLength = stream.length
    BY <1>8, <2>1, HeaderLengths
  <2>3. Payload = SubSeq(buf, DataOffset + 1, HeaderLength("v9") + setLength)
    BY <1>11 DEF Payload
  <2> HIDE DEF f, p, end, bytes
  <2> QED
    BY <1>6, <1>8, <1>9, <2>2, <2>3 DEF f, p, bytes
<1>12. CASE shape.protocol = "ipfix"
  <2>1. count = stream.length
    BY <1>1, <1>12 DEF Finished
  <2>2. Payload = SubSeq(buf, DataOffset + 1, count)
    BY <1>12 DEF Payload
  <2> HIDE DEF f, p, end, bytes
  <2> QED
    BY <1>6, <1>8, <1>9, <2>1, <2>2 DEF f, p, bytes
<1> QED
  BY <1>9, <1>10, <1>11, <1>12

\* Collected is what Reads gives from the first offset on.
LEMMA CollectedIs ==
  ASSUME NEW d
  PROVE  Collected(d) = Reads(shape, d)[0]
BY DEF Collected, Reads, EndOfRecord, EndOf, Ends

\* A collector that knows the template reads back exactly the records appended,
\* in order, from the bytes that the datagram's own lengths delimit.
THEOREM CollectorReadsBackHolds == Spec => []CollectorReadsBack
<1>1. PacketInv => CollectorReadsBack
  <2> SUFFICES ASSUME PacketInv, phase = "finished"
               PROVE  /\ Collected(Payload) = [k \in DOMAIN content |-> Encoded(k, content[k])]
                      /\ shape.protocol = "ipfix" => count = HeaderLength("ipfix") + setLength
    BY DEF CollectorReadsBack
  <2> DEFINE f == FlattenSeq(EncodingsOf(shape, content))
             p == Bytes(PaddingOf(shape, Sum(SizesOf(shape, content))), Zero)
  <2>1. WellFormed(shape) /\ content \in Seq(Sound(shape)) /\ Accounted /\ Finished
    BY Destination DEF PacketInv
  <2>2. p \in Seq(Byte) /\ Len(p) < RecordLength(shape)
    BY <2>1, ShotIs
  <2>3. Payload = f \o p
    BY PayloadIs
  <2>4. Reads(shape, f \o p)[0] = EncodingsOf(shape, content)
    <3> HIDE DEF p
    <3> QED
      BY <2>1, <2>2, PayloadReadsBack
  <2>5. Collected(Payload) = Reads(shape, Payload)[0]
    BY CollectedIs
  <2>6. EncodingsOf(shape, content) = [k \in DOMAIN content |-> Encoded(k, content[k])]
    BY DEF EncodingsOf, Encoded, EncodedOf
  <2>7. ASSUME shape.protocol = "ipfix" PROVE count = HeaderLength("ipfix") + setLength
    <3>1. stream.length \in Nat
      <4>1. Len(content) \in Nat /\ Sum(SizesOf(shape, content)) \in Nat
        BY <2>1, EncodingsIs
      <4> QED
        BY <2>1, <4>1, LengthOfPacket DEF Accounted, Finished
    <3> QED
      BY <2>1, <2>7, <3>1, HeaderLengths DEF Finished
  <2> HIDE DEF f, p
  <2> QED
    BY <2>3, <2>4, <2>5, <2>6, <2>7
<1> QED
  BY <1>1, PacketInvariant, PTL
=============================================================================
