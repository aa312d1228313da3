----------------------------- MODULE MCAXIShift -----------------------------
(* Lengths on both sides of the byte and word boundaries, and vectors that  *)
(* repeat or differ from word to word, so that a register is sometimes      *)
(* rewritten and sometimes not.                                             *)
EXTENDS AXIShift

SmallLengths == {0, 17, 24, 32, 33, 65}
Positions == 0..71

AllOnes == [i \in Positions |-> 1]
ByWord == [i \in Positions |-> (i \div 32) % 2]                 \* changes with the word
Uneven == [i \in Positions |-> IF i % 7 \in {0, 2, 3} THEN 1 ELSE 0]

SomeVectors == {AllOnes, ByWord, Uneven}
=============================================================================
