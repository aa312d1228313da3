----------------------------- MODULE MCIOServer -----------------------------
(* Instances of IOServer for TLC: clients as model values, small request    *)
(* sets over the boundaries of the length check (VectorLength is 2 bytes,   *)
(* so a shift of 8 bits just fits and one of 9 bits does not).              *)
EXTENDS IOServer, TLC

CONSTANTS ann, bob, cal

GetInfo == [op |-> "ge", nbits |-> 0]
SetTck == [op |-> "se", nbits |-> 0]
MemRead == [op |-> "mr", nbits |-> 0]
ShiftOf(n) == [op |-> "sh", nbits |-> n]

AllRequests == {GetInfo, MemRead} \cup {ShiftOf(n) : n \in {0, 8, 9}}
QueriesAndShifts == {SetTck, ShiftOf(8)}
Queries == {GetInfo}

TwoClients == {ann, bob}
ThreeClients == {ann, bob, cal}
JustAnn == {ann}
Nobody == {}

SwapClients == Permutations(Client)
=============================================================================
