----------------------------- MODULE FTDIShift -----------------------------
(***************************************************************************)
(* FTDIDevice::shift() of src/src/ftdidevice.cpp, which compiles the       *)
(* vectors to MPSSE commands, round by round, as many as two buffers take, *)
(* and unpacks the answers by a list of descriptors.  A byte without TMS   *)
(* goes to a command that clocks whole bytes, the last bits without TMS to *)
(* one that clocks bits, and a byte with TMS to a command for each bit.    *)
(*                                                                         *)
(* A command is a record: how many bits its length field makes the chip    *)
(* clock, the level it writes to TMS if it does, and the bits for TDI.     *)
(* The chip is not under src/: it is what the driver takes it to be.       *)
(* Samples enter a byte at the top, and a byte is returned after 8 samples *)
(* and at the end of a command.  The driver sends a byte without TMS by a  *)
(* command that does not write TMS, so it takes the pin to be low then.    *)
(* With TmsHeld the chip keeps the level of the last command that wrote it *)
(* instead.                                                                *)
(***************************************************************************)
EXTENDS Integers, Sequences, SequencesExt

CONSTANTS
    Lengths,    \* values of nbits
    Vectors,    \* contents of a vector: functions from bit positions
    MaxData,    \* MAX_DATA (4096)
    TmsHeld     \* whether the chip keeps the level of TMS between commands

Bit == {0, 1}
Byte == [0..7 -> Bit]

NBytes(n) == (n + 7) \div 8
BitsOf(n) == 0..(8 * NBytes(n) - 1)     \* the bits of a vector, padding included

ASSUME LengthsAssumption == Lengths \subseteq Nat
ASSUME VectorsAssumption ==
    \A n \in Lengths : \A v \in Vectors : \A i \in BitsOf(n) : i \in DOMAIN v /\ v[i] \in Bit
ASSUME TmsHeldAssumption == TmsHeld \in BOOLEAN
ASSUME MaxDataAssumption == MaxData \in Nat /\ MaxData > 25

VARIABLES
    pc,         \* "idle", "round", "build", "read", "unpack"
    nbits,      \* the argument
    tms, tdi,   \* the two halves of buffer
    result,     \* the result buffer
    left, curByte, bitPos,
    (* the round *)
    cmd,        \* ftdi_cmd: the commands built
    wrPtr,      \* the bytes they take
    rdLen,      \* the bytes they return
    desc,       \* ftdi_desc: what was asked of the chip, and is not unpacked
    building,   \* in_cmd_building: a byte command has no length yet
    curLen,     \* its length
    (* the chip *)
    queue,      \* commands to execute
    clocked,    \* bits of the first one that were clocked
    pin,        \* the level of TMS
    reg,        \* the byte being sampled
    res,        \* bytes returned, and not unpacked
    (* the target, and a history *)
    tap,        \* what the target answers on TDO in this call
    wire        \* the TCK cycles of the call

argVars == <<nbits, tms, tdi, tap>>
roundVars == <<cmd, wrPtr, rdLen, desc, building, curLen>>
chipVars == <<queue, clocked, pin, reg, res, wire>>
vars == <<pc, argVars, result, left, curByte, bitPos, roundVars, chipVars>>

Command == [bits : Nat, tms : SUBSET Bit, tdi : Seq(Bit)]
Descriptor == [oper : {"byte", "bit", "tms"}, len : Nat]

TypeOK ==
    /\ pc \in {"idle", "round", "build", "read", "unpack"}
    /\ nbits \in Nat
    /\ tms \in [BitsOf(nbits) -> Bit] /\ tdi \in [BitsOf(nbits) -> Bit]
    /\ tap \in [BitsOf(nbits) -> Bit] /\ result \in [BitsOf(nbits) -> Bit]
    /\ left \in 0..nbits /\ curByte \in 0..NBytes(nbits) /\ bitPos \in 0..nbits
    /\ cmd \in Seq(Command) /\ desc \in Seq(Descriptor)
    /\ wrPtr \in Nat /\ rdLen \in Nat
    /\ building \in BOOLEAN /\ curLen \in Nat
    /\ queue \in Seq(Command) /\ clocked \in Nat /\ pin \in Bit
    /\ reg \in Byte /\ res \in Seq(Byte)
    /\ wire \in Seq([tms : Bit, tdi : Bit, tdo : Bit])

NoBits == [i \in BitsOf(0) |-> 0]

Init ==
    /\ pc = "idle" /\ nbits = 0
    /\ tms = NoBits /\ tdi = NoBits /\ tap = NoBits /\ result = NoBits
    /\ left = 0 /\ curByte = 0 /\ bitPos = 0
    /\ cmd = <<>> /\ wrPtr = 0 /\ rdLen = 0 /\ desc = <<>>
    /\ building = FALSE /\ curLen = 0
    /\ queue = <<>> /\ clocked = 0 /\ pin = 0 /\ reg = [i \in 0..7 |-> 0]
    /\ res = <<>> /\ wire = <<>>

-----------------------------------------------------------------------------
(* The driver builds the commands of a round.                              *)

Cut(v, n) == [i \in BitsOf(n) |-> v[i]]

Call ==
    /\ pc = "idle"
    /\ \E n \in Lengths, t, d, a \in Vectors :
         /\ nbits' = n
         /\ tms' = Cut(t, n) /\ tdi' = Cut(d, n) /\ tap' = Cut(a, n)
         /\ result' = [i \in BitsOf(n) |-> 0]
         /\ left' = n
    /\ curByte' = 0 /\ bitPos' = 0
    /\ wire' = <<>>
    /\ pc' = "round"
    /\ UNCHANGED <<roundVars, queue, clocked, pin, reg, res>>

StartRound ==
    /\ pc = "round" /\ left # 0
    /\ cmd' = <<>> /\ wrPtr' = 0 /\ rdLen' = 0 /\ desc' = <<>>
    /\ building' = FALSE /\ curLen' = 0
    /\ pc' = "build"
    /\ UNCHANGED <<argVars, result, left, curByte, bitPos, chipVars>>

Return ==
    /\ pc = "round" /\ left = 0
    /\ pc' = "idle"
    /\ UNCHANGED <<argVars, result, left, curByte, bitPos, roundVars, chipVars>>

(* One more iteration surely fits: 9 descriptors and 24 bytes. *)
RoomShort ==                    \* fault: room for the bytes of a byte command only
    pc = "build" /\ Len(desc) < MaxData - 8 /\ wrPtr < MaxData - 8 /\ left > 0
Room ==
    pc = "build" /\ Len(desc) < MaxData - 8 /\ wrPtr < MaxData - 25 /\ left > 0

NoTms == \A k \in 0..7 : tms[8 * curByte + k] = 0

(* The first n bits for TDI of the current byte. *)
Tdi(n) == [k \in 1..n |-> tdi[8 * curByte + k - 1]]

(* A byte command that was being built gets its length and its descriptor. *)
Commands == IF building THEN [cmd EXCEPT ![Len(cmd)].bits = 8 * (curLen + 1)] ELSE cmd
Descriptors == IF building THEN Append(desc, [oper |-> "byte", len |-> curLen]) ELSE desc

AddByte ==
    /\ Room /\ left > 7 /\ NoTms
    /\ cmd' = IF building
              THEN [cmd EXCEPT ![Len(cmd)].tdi = @ \o Tdi(8)]
              ELSE Append(cmd, [bits |-> 0, tms |-> {}, tdi |-> Tdi(8)])
    /\ wrPtr' = wrPtr + (IF building THEN 1 ELSE 4)
    /\ rdLen' = rdLen + 1
    /\ curLen' = IF building THEN curLen + 1 ELSE 0
    /\ building' = TRUE
    /\ curByte' = curByte + 1 /\ left' = left - 8
    /\ UNCHANGED <<pc, argVars, result, bitPos, desc, chipVars>>

AddBitsTwice ==                 \* fault: counts a byte for TDI and one for TDO
    /\ Room /\ left <= 7 /\ NoTms
    /\ cmd' = Append(Commands, [bits |-> left, tms |-> {}, tdi |-> Tdi(left)])
    /\ desc' = Append(Descriptors, [oper |-> "bit", len |-> left - 1])
    /\ wrPtr' = wrPtr + 3 /\ rdLen' = rdLen + 2
    /\ building' = FALSE
    /\ curByte' = curByte + 1 /\ left' = 0
    /\ UNCHANGED <<pc, argVars, result, bitPos, curLen, chipVars>>

AddBits ==
    /\ Room /\ left <= 7 /\ NoTms
    /\ cmd' = Append(Commands, [bits |-> left, tms |-> {}, tdi |-> Tdi(left)])
    /\ desc' = Append(Descriptors, [oper |-> "bit", len |-> left - 1])
    /\ wrPtr' = wrPtr + 3 /\ rdLen' = rdLen + 1
    /\ building' = FALSE
    /\ curByte' = curByte + 1 /\ left' = 0
    /\ UNCHANGED <<pc, argVars, result, bitPos, curLen, chipVars>>

(* How many commands a byte with TMS becomes. *)
TmsCountFull == 8               \* fault: no break in the last byte
TmsCount == IF left < 8 THEN left ELSE 8

AddTms ==
    /\ Room /\ ~NoTms
    /\ cmd' = Commands \o [k \in 1..TmsCount |->
                [bits |-> 1, tms |-> {tms[8 * curByte + k - 1]}, tdi |-> <<Tdi(8)[k]>>]]
    /\ desc' = Descriptors \o [k \in 1..TmsCount |-> [oper |-> "tms", len |-> 0]]
    /\ wrPtr' = wrPtr + 3 * TmsCount /\ rdLen' = rdLen + TmsCount
    /\ building' = FALSE
    /\ curByte' = curByte + 1 /\ left' = left - TmsCount
    /\ UNCHANGED <<pc, argVars, result, bitPos, curLen, chipVars>>

Send ==
    /\ pc = "build" /\ ~Room
    /\ queue' = queue \o Commands
    /\ cmd' = <<>> /\ desc' = Descriptors /\ building' = FALSE
    /\ pc' = "read"
    /\ UNCHANGED <<argVars, result, left, curByte, bitPos, wrPtr, rdLen, curLen,
                   clocked, pin, reg, res, wire>>

-----------------------------------------------------------------------------
(* The chip.                                                               *)

ChipClock ==
    /\ queue # <<>> /\ clocked < Head(queue).bits
    /\ LET c == Head(queue)
           last == clocked + 1 = c.bits
           b == tap[Len(wire)]
           level == IF c.tms = {} THEN pin ELSE CHOOSE t \in c.tms : TRUE
       IN  /\ wire' = Append(wire, [tms |-> level, tdi |-> c.tdi[clocked + 1], tdo |-> b])
           /\ pin' = IF TmsHeld THEN level ELSE 0
           /\ reg' = [i \in 0..7 |-> IF i = 7 THEN b ELSE reg[i + 1]]
           /\ res' = IF last \/ clocked % 8 = 7 THEN Append(res, reg') ELSE res
           /\ IF last THEN queue' = Tail(queue) /\ clocked' = 0
                      ELSE clocked' = clocked + 1 /\ UNCHANGED queue
    /\ UNCHANGED <<pc, argVars, result, left, curByte, bitPos, roundVars>>

-----------------------------------------------------------------------------
(* The driver reads and unpacks the answers of the round.                  *)

(* readBytes() returns with all it was asked for. *)
ReadAnswers ==
    /\ pc = "read" /\ Len(res) >= rdLen
    /\ pc' = "unpack"
    /\ UNCHANGED <<argVars, result, left, curByte, bitPos, roundVars, chipVars>>

(* The samples a descriptor stands for, and where in its bytes they are:   *)
(* less than 8 of them are at the top of a byte.                           *)
Samples(d) == IF d.oper = "byte" THEN 8 * (d.len + 1) ELSE d.len + 1
LowestSampleZero(d) == IF d.oper = "tms" THEN 7 ELSE 0      \* fault: bits are at the bottom
LowestSample(d) == IF d.oper = "byte" THEN 0 ELSE 7 - d.len

Unpack ==
    /\ pc = "unpack" /\ desc # <<>>
    /\ LET d == Head(desc)
           n == Samples(d)
           Sample(k) == res[k \div 8 + 1][LowestSample(d) + (k % 8)]
       IN  /\ result' = [i \in BitsOf(nbits) |->
                IF i \in bitPos..(bitPos + n - 1) /\ Sample(i - bitPos) = 1 THEN 1 ELSE result[i]]
           /\ bitPos' = bitPos + n
           /\ res' = SubSeq(res, NBytes(n) + 1, Len(res))
    /\ desc' = Tail(desc)
    /\ pc' = IF Len(desc) = 1 THEN "round" ELSE "unpack"
    /\ UNCHANGED <<argVars, left, curByte, cmd, wrPtr, rdLen, building, curLen,
                   queue, clocked, pin, reg, wire>>

-----------------------------------------------------------------------------

Driver ==
    \/ StartRound \/ Return \/ AddByte \/ AddBits \/ AddTms \/ Send
    \/ ReadAnswers \/ Unpack

Next == Call \/ Driver \/ ChipClock

Spec == Init /\ [][Next]_vars

(* The driver's thread runs, once it has been called, and the chip too.    *)
FairSpec == Spec /\ WF_vars(Driver) /\ WF_vars(ChipClock)

-----------------------------------------------------------------------------
(* The three arrays of MAX_DATA elements of a round are never overrun: what *)
(* an iteration may add is no more than the room the loop condition leaves  *)
(* for it (lines 210 to 212 and 228 to 230).                                *)
BuffersFit == wrPtr <= MaxData /\ rdLen <= MaxData /\ Len(desc) <= MaxData

(* A call ends: the chip returns as many bytes as the driver waits for, in  *)
(* each round (lines 218 to 329, and readBytes).                            *)
CallReturns == pc # "idle" ~> pc = "idle"

(* FTDIShift implements JtagShift: whatever the mix of commands and however *)
(* the rounds cut it, the first nbits bits reach the wire in order, and     *)
(* the result is what was sampled with each (all of shift()), with a chip   *)
(* that takes TMS low again after each command that wrote it.               *)
Contract == INSTANCE JtagShift WITH
    busy <- pc # "idle",
    tms <- [k \in 1..nbits |-> tms[k - 1]],
    tdi <- [k \in 1..nbits |-> tdi[k - 1]],
    result <- IF pc = "idle" THEN [k \in 1..nbits |-> result[k - 1]] ELSE <<>>

ImplementsShift == Contract!Spec
=============================================================================
