---------------------------- MODULE MCFTDIShift ----------------------------
(* With 30 bytes of commands a round ends after two bytes without TMS, or   *)
(* after one with TMS; every kind of command follows every other, within a  *)
(* round and from a round to the next.                                      *)
EXTENDS FTDIShift

SmallLengths == {0, 5, 8, 21, 33, 40}
Positions == 0..39

AllZeros == [i \in Positions |-> 0]
LastByte == [i \in Positions |-> IF i = 32 THEN 1 ELSE 0]       \* TMS at the end
SecondByte == [i \in Positions |-> IF i = 12 THEN 1 ELSE 0]
Padding == [i \in Positions |-> IF i \in {7, 23} THEN 1 ELSE 0]  \* TMS past 5 or 21 bits
Uneven == [i \in Positions |-> IF i % 7 \in {0, 2, 3} THEN 1 ELSE 0]

SomeVectors == {AllZeros, LastByte, SecondByte, Padding, Uneven}
=============================================================================
