----------------------------- MODULE MCDataPacket -----------------------------
(* Shapes on both sides of the padding rule, with real header sizes.  The *)
(* limits are scaled down together so that a few records reach them all:  *)
(* 168 bytes hold three v5 records, and a value of 3 bytes is "long".     *)
EXTENDS DataPacket

Fixed(n) == [variable |-> FALSE, length |-> n, maxLength |-> 0, enterprise |-> FALSE]
Custom(max) == [variable |-> TRUE, length |-> 0, maxLength |-> max, enterprise |-> TRUE]

Shape(protocol, fields) == [protocol |-> protocol, fields |-> fields]

\* Least records of one to six bytes; variable fields alone, last, first and paired.
MCShapes ==
  {Shape("v5", <<Fixed(48)>>)}
  \cup {Shape("v9", <<Fixed(n)>>) : n \in 1 .. 6}
  \cup {Shape("ipfix", fs) : fs \in {<<Fixed(3)>>, <<Custom(3)>>, <<Fixed(1), Custom(16)>>,
                                     <<Custom(3), Fixed(2)>>, <<Custom(3), Custom(16)>>}}

MCBudgets == 24 .. 45 \cup {72, 119, 120, 168}
MCRecordLimits == {2, 3}
MCLengths == {0, 2, 3, 15, 16, 17}
=============================================================================
