------------------------------ MODULE DataPacket ------------------------------
(***************************************************************************)
(* One data datagram at a time, filled in place: Packet.Append and Finish  *)
(* (destination/write.go) over the protocol appenders                      *)
(* (wire/netflow5, netflow9 and ipfix: stream.go, writer.go).  State and   *)
(* appender each keep their own account of the packet; the Packer decides  *)
(* from a third computation whether a record fits an empty datagram.       *)
(*                                                                         *)
(* The datagram is a sequence of bytes <<kind, value>>.  Numbers that a    *)
(* collector interprets are <<"n", v>>; other bytes only tell what they    *)
(* belong to.  Whatever an earlier datagram left in the reused buffer is   *)
(* the byte Junk.  An operation that fails leaves everything as it was and *)
(* is no step, except the failures of Finish, which release the packet.    *)
(***************************************************************************)
EXTENDS WireSize

CONSTANTS
  Shapes,        \* shapes a destination may be compiled for
  Budgets,       \* max_datagram_size values
  RecordLimits,  \* max_records_per_message values
  Lengths        \* lengths of variable values

Field == [variable : BOOLEAN, length : Nat, maxLength : Nat, enterprise : BOOLEAN]

\* NewShape and FieldDescriptor.Validate: there are fields, none is empty, and
\* only IPFIX has variable ones.
WellFormed(s) ==
  /\ s.protocol \in {"v5", "v9", "ipfix"} /\ s.fields \in Seq(Field) /\ s.fields # << >>
  /\ \A i \in DOMAIN s.fields : IF s.fields[i].variable THEN s.protocol = "ipfix" ELSE s.fields[i].length > 0

\* The largest budget, 65507, is below Max16 (state.go:20); a packet may always
\* have a record (state.go:25).
ASSUME PacketAssumption ==
  /\ \A s \in Shapes : WellFormed(s)
  /\ Budgets \subseteq 0 .. Max16 /\ RecordLimits \subseteq Nat \ {0} /\ Lengths \subseteq Nat

Junk == <<"junk", 0>>
Zero == <<"n", 0>>

VARIABLES
  shape, maxDatagram, maxRecords,   \* the destination, fixed
  phase,      \* "none", "open" or "finished": the pending packet
  buf,        \* Packer.datagram
  count,      \* header bytes 2..3: count, or message length for IPFIX
  setLength,  \* length in the set header
  app,        \* dataPacketAppender: begun, done, records, recordBytes
  stream,     \* streamPacketState: records, bytes, and datagramLength
  content     \* history: the records appended

vars == <<shape, maxDatagram, maxRecords, phase, buf, count, setLength, app, stream, content>>

fixed == <<shape, maxDatagram, maxRecords>>

NoApp    == [begun |-> FALSE, done |-> FALSE, records |-> 0, recordBytes |-> 0]
NoStream == [records |-> 0, bytes |-> 0, length |-> 0]

Records ==
  {r \in [lengths : [DOMAIN shape.fields -> Lengths], status : {"good", "unsound", "untimely"}] :
     \A i \in DOMAIN shape.fields : ~shape.fields[i].variable => r.lengths[i] = 0}

\* NewState and NewPacker: the budget holds every template and a least record.
Init ==
  /\ shape \in Shapes /\ maxDatagram \in Budgets /\ maxRecords \in RecordLimits
  /\ CatalogFits(shape, maxDatagram) /\ (shape.protocol = "v5" => maxRecords <= MaxV5)
  /\ phase = "none" /\ buf = [i \in 1 .. maxDatagram |-> Junk]
  /\ count = 0 /\ setLength = 0 /\ app = NoApp /\ stream = NoStream /\ content = << >>

-----------------------------------------------------------------------------
(* Bytes.                                                                  *)

Bytes(n, b) == [i \in 1 .. n |-> b]

\* Bytes of buffer b replaced from offset on by s.
Overwrite(b, offset, s) ==
  [i \in DOMAIN b |-> IF offset < i /\ i <= offset + Len(s) THEN s[i - offset] ELSE b[i]]

Header == Bytes(HeaderLength(shape.protocol), <<"header", 0>>)

\* The four bytes of a set header; v5 has none.
SetHead == IF shape.protocol = "v5" THEN << >> ELSE Bytes(SetHeader, <<"set", 0>>)

DataOffset == Len(Header) + Len(SetHead)

\* writeVariable: one byte, or the escape and two bytes.
LengthBytes(n) == IF n < Escape THEN << <<"n", n>> >>
                  ELSE << <<"n", Escape>>, <<"n", n \div 256>>, <<"n", n % 256>> >>

\* The value of length n in field f of the k-th record of a packet.
EncodedField(k, f, n) ==
  IF f.variable THEN LengthBytes(n) \o Bytes(n, <<"value", k>>) ELSE Bytes(f.length, <<"field", k>>)

\* writeDataRecord for the k-th record of a packet.
Encoded(k, r) ==
  FlattenSeq([i \in DOMAIN shape.fields |-> EncodedField(k, shape.fields[i], r.lengths[i])])

-----------------------------------------------------------------------------
(* Begin, Append, Finish.                                                  *)

\* dataPacketAppender.Begin under BeginDataStream: header and set header, counts open.
BeginDataStream ==
  /\ phase = "none"
  /\ PayloadOK(DataOffset, maxDatagram)
  /\ phase' = "open"
  /\ buf' = Overwrite(Bytes(maxDatagram, Junk), 0, Header \o SetHead)
  /\ count' = 0 /\ setLength' = 0
  /\ app' = [NoApp EXCEPT !.begun = TRUE]
  /\ stream' = NoStream /\ content' = << >>
  /\ UNCHANGED fixed

RecordCap == IF shape.protocol = "v5" /\ maxRecords > MaxV5 THEN MaxV5 ELSE maxRecords

\* What the account (records, bytes) becomes with r: the datagram's length, or an error.
Extended(records, bytes, r) ==
  LET size == RecordSize(shape, r)
      data == DataSetSize(shape, bytes + size, records + 1)
      length == PacketLength(shape.protocol, 0, data)
  IN  IF records >= RecordCap THEN Bounds
      ELSE IF size \in {Invalid, Bounds} THEN size
      ELSE IF data = Bounds \/ ~PayloadOK(length, maxDatagram) THEN Bounds ELSE length

\* dataPacketAppender.Append: its own account, and the record's times.
AppenderOutcome(r) ==
  LET length == Extended(app.records, app.recordBytes, r) IN
  IF ~app.begun \/ app.done THEN Invalid
  ELSE IF r.status = "untimely" /\ app.records < RecordCap /\ RecordSize(shape, r) # Bounds THEN Invalid
  ELSE length

\* Packet.Append: State's account first, then the appender.
AppendOutcome(r) ==
  LET length == Extended(stream.records, stream.bytes, r) IN
  IF length < 0 THEN length
  ELSE IF AppenderOutcome(r) < 0 THEN AppenderOutcome(r) ELSE length

AppendRecord(r) ==
  LET size == RecordSize(shape, r) IN
  /\ phase = "open" /\ AppendOutcome(r) >= 0
  /\ buf' = Overwrite(buf, DataOffset + app.recordBytes, Encoded(app.records + 1, r))
  /\ app' = [app EXCEPT !.records = @ + 1, !.recordBytes = @ + size]
  /\ stream' = [records |-> stream.records + 1, bytes |-> stream.bytes + size, length |-> AppendOutcome(r)]
  /\ content' = Append(content, r)
  /\ UNCHANGED <<fixed, phase, count, setLength>>

\* The length the appender's Finish arrives at.
FinishLength == PacketLength(shape.protocol, 0, DataSetSize(shape, app.recordBytes, app.records))

\* Mutant of PaddedTo: the alignment bytes keep what an earlier datagram left there.
PaddedWithJunk(n) == buf

\* Padding is zeroed up to the datagram's end.
PaddedTo(n) == Overwrite(buf, DataOffset + app.recordBytes, Bytes(n - DataOffset - app.recordBytes, Zero))

\* Packet.Finish: the appender patches counts and padding and is reset at once.
Finish ==
  /\ phase = "open" /\ stream.records # 0
  /\ FinishLength = stream.length
  /\ phase' = "finished"
  /\ buf' = PaddedTo(FinishLength)
  /\ count' = IF shape.protocol = "ipfix" THEN FinishLength ELSE app.records
  /\ setLength' = IF shape.protocol = "v5" THEN 0 ELSE FinishLength - HeaderLength(shape.protocol)
  /\ app' = NoApp
  /\ UNCHANGED <<fixed, stream, content>>

\* The packet is over: Commit of a finished one, Abort, or Finish of an empty one.
Release ==
  /\ phase # "none"
  /\ phase' = "none" /\ app' = NoApp /\ stream' = NoStream /\ content' = << >>
  /\ buf' = Bytes(maxDatagram, Junk) /\ count' = 0 /\ setLength' = 0
  /\ UNCHANGED fixed

Next == BeginDataStream \/ (\E r \in Records : AppendRecord(r)) \/ Finish \/ Release

Spec == Init /\ [][Next]_vars

-----------------------------------------------------------------------------
(* The Packer's test, the one-shot writer, and the collector.              *)

\* Mutant of MinimumDataPacketFits: alignment is forgotten.
FitsUnpadded(r) ==
  LET size == RecordSize(shape, r) IN
  size >= 0 /\ HeaderLength(shape.protocol) + Len(SetHead) + size <= maxDatagram

\* Packer.minimumDataPacketFits.
MinimumDataPacketFits(r) ==
  LET size == RecordSize(shape, r)
      data == DataSetSize(shape, size, 1)
  IN  size >= 0 /\ data >= 0 /\ PacketLength(shape.protocol, 0, data) <= maxDatagram

\* Writer.Write of data records: header, set header, records, padding.
OneShot(records) ==
  LET encoded == FlattenSeq([k \in DOMAIN records |-> Encoded(k, records[k])])
      padding == IF shape.protocol = "v5" THEN 0 ELSE Padding(shape, SetHeader + Len(encoded))
  IN  Header \o SetHead \o encoded \o Bytes(padding, Zero)

\* A collector finds the end of field f at offset at of bytes d.
EndOfField(d, f, at) ==
  IF ~f.variable THEN at + f.length
  ELSE IF at + 3 <= Len(d) /\ d[at + 1][2] = Escape THEN at + 3 + d[at + 2][2] * 256 + d[at + 3][2]
  ELSE IF at < Len(d) THEN at + 1 + d[at + 1][2] ELSE at + 1

\* It knows the template, and so the end of the record at offset o.
EndOfRecord(d, o) ==
  LET end[i \in 0 .. Len(shape.fields)] == IF i = 0 THEN o ELSE EndOfField(d, shape.fields[i], end[i - 1])
  IN  end[Len(shape.fields)]

\* It reads records while one could still follow; bytes short of that are padding.
Collected(d) ==
  LET read[o \in 0 .. Len(d)] ==
        IF Len(d) - o < RecordLength(shape) THEN << >>
        ELSE LET e == EndOfRecord(d, o)
             IN  IF e > Len(d) THEN << << >> >> ELSE <<SubSeq(d, o + 1, e)>> \o read[e]
  IN  read[0]

\* The part of the finished datagram that holds records, as its own lengths delimit it.
Payload ==
  CASE shape.protocol = "v5"    -> SubSeq(buf, DataOffset + 1, DataOffset + count * RecordLength(shape))
    [] shape.protocol = "v9"    -> SubSeq(buf, DataOffset + 1, HeaderLength("v9") + setLength)
    [] shape.protocol = "ipfix" -> SubSeq(buf, DataOffset + 1, count)

-----------------------------------------------------------------------------
(* Properties.                                                             *)

\* A collector reads back exactly the records appended, in order: alignment
\* bytes are never taken for a record, variable lengths are unambiguous, and
\* nothing of an earlier datagram shows.
CollectorReadsBack ==
  phase = "finished" =>
    /\ Collected(Payload) = [k \in DOMAIN content |-> Encoded(k, content[k])]
    /\ shape.protocol = "ipfix" => count = HeaderLength("ipfix") + setLength

\* Filling in place yields the datagram the one-shot writer would have made of
\* the same records, of the length State recorded for the write; State's and
\* the appender's accounts never part, so Finish cannot fail on a length.
MatchesOneShot ==
  /\ phase = "open" =>
       /\ app.records = stream.records /\ app.recordBytes = stream.bytes
       /\ stream.records # 0 => FinishLength = stream.length
  /\ phase = "finished" =>
       /\ Preflight(shape, 0, content, maxDatagram) = stream.length
       /\ SubSeq(buf, 1, stream.length) = OneShot(content)

\* A record the Packer finds to fit an empty datagram meets no size limit when
\* it is appended to one, one it rejects as too large is never appended, and
\* the budgets checked at construction leave room for every template and for a
\* record of least size.
FitsMeansAppends ==
  /\ phase = "open" => \A r \in Records :
       /\ stream.records = 0 /\ MinimumDataPacketFits(r) => AppendOutcome(r) # Bounds
       /\ ~MinimumDataPacketFits(r) => AppendOutcome(r) < 0
  /\ shape.protocol # "v5" => Preflight(shape, 1, << >>, maxDatagram) > 0
  /\ MinimumDataPacketFits([lengths |-> [i \in DOMAIN shape.fields |-> 0], status |-> "good"])
=============================================================================
