---------------------------- MODULE MCTapDriver ----------------------------
(* Targets of the device list and beside it: one with a revision, sampled   *)
(* in time at the second delay only; one with an instruction register of    *)
(* eight bits; one that no list names; and one whose noise is the IDCODE of *)
(* another device.                                                         *)
EXTENDS TapDriver

WordOf(n) == [i \in 1..32 |-> IF i = 32 THEN 0 ELSE (n \div 2^(i - 1)) % 2]
Opcode(n, length) == [i \in 1..length |-> WordOf(n)[i]]

Device(id, length, opcode, clear, noise) ==
    [idcode |-> WordOf(id), irlen |-> length, idcmd |-> Opcode(opcode, length),
     other |-> <<1, 0, 1>>, clear |-> clear, noise |-> noise]

XC7A35T == Device(\h1362D093, 6, 9, {1}, {WordOf(\h7FFFFFFF), WordOf(0)})
XC9536XL == Device(\h29602093, 8, 254, {0}, {})
Unlisted == Device(\h0BA00477, 4, 14, {0, 1}, {})
Misread == Device(\h0362D093, 6, 9, {0}, {WordOf(\h09602093)})

AllTargets == {XC7A35T, XC9536XL, Unlisted, Misread}
JustXC9536XL == {XC9536XL}

Comment == [form |-> "comment"]
Line(id, length, opcode) ==
    [form |-> "device", idcode |-> WordOf(id), irlen |-> length, idcmd |-> WordOf(opcode)]
DeviceList == <<Comment, Line(\h0362D093, 6, 9), Line(\h09602093, 8, 254)>>
ShortList == {<<Line(\h0362D093, 6, 9)>>}

Lengths == {0, 3}

Words == {<<WordOf(\h5A5A1234)>>, <<WordOf(\h00000001), WordOf(\h7FFF0000)>>}
OneWord == {<<WordOf(\h5A5A1234)>>}
=============================================================================
