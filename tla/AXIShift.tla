------------------------------ MODULE AXIShift ------------------------------
(***************************************************************************)
(* AXIDevice::shift() of src/src/axidevice.cpp, which feeds the vectors to *)
(* the AXI4-JTAG core one 32-bit word at a time through the registers of   *)
(* jtag_t, beside the core itself, which runs on its own while ctrl is 1.  *)
(*                                                                         *)
(* A word is a function from bit positions, bit 0 leaving first.  The core *)
(* is not under src/: it is what the driver takes it to be.  It clocks     *)
(* length bits, keeps its TMS and TDI registers, shifts the TDO samples in *)
(* at the top, and clears ctrl when it is done.                            *)
(***************************************************************************)
EXTENDS Integers, Sequences, SequencesExt

CONSTANTS
    Lengths,    \* values of nbits
    Vectors,    \* contents of a vector: functions from bit positions
    Old         \* a bit of the result buffer that the call has not written

WordPos == 0..31
Bit == {0, 1}
Word == [WordPos -> Bit]
ZeroWord == [i \in WordPos |-> 0]

NBytes(n) == (n + 7) \div 8
BitsOf(n) == 0..(8 * NBytes(n) - 1)     \* the bits of a vector, padding included

ASSUME LengthsAssumption == Lengths \subseteq Nat
ASSUME VectorsAssumption ==
    \A n \in Lengths : \A v \in Vectors : \A i \in BitsOf(n) : i \in DOMAIN v /\ v[i] \in Bit
ASSUME OldAssumption == Old \notin Bit

VARIABLES
    pc,         \* "idle", "loop", "wait"
    nbits,      \* the argument
    tms, tdi,   \* the two halves of buffer
    result,     \* the result buffer
    bitsLeft, bytesLeft,
    pos,        \* where the pointers tms, tdi and tdo are, in bits
    lastTms, lastTdi,
    reg,        \* the registers of the core
    clk,        \* the core: bits of the word it has clocked
    tap,        \* what the target answers on TDO in this call
    wire        \* history: the TCK cycles of the call

argVars == <<nbits, tms, tdi>>
vars == <<pc, argVars, result, bitsLeft, bytesLeft, pos, lastTms, lastTdi, reg, clk, tap, wire>>

TypeOK ==
    /\ pc \in {"idle", "loop", "wait"}
    /\ nbits \in Nat
    /\ tms \in [BitsOf(nbits) -> Bit] /\ tdi \in [BitsOf(nbits) -> Bit]
    /\ tap \in [BitsOf(nbits) -> Bit]
    /\ result \in [BitsOf(nbits) -> Bit \cup {Old}]
    /\ bitsLeft \in Int /\ bytesLeft \in Int /\ pos \in Nat
    /\ lastTms \in Word /\ lastTdi \in Word
    /\ reg \in [length : 1..32, tms : Word, tdi : Word, tdo : Word, ctrl : {0, 1}]
    /\ clk \in 0..32
    /\ wire \in Seq([tms : Bit, tdi : Bit, tdo : Bit])

Init ==
    /\ pc = "idle" /\ nbits = 0
    /\ tms = [i \in BitsOf(0) |-> 0] /\ tdi = [i \in BitsOf(0) |-> 0]
    /\ tap = [i \in BitsOf(0) |-> 0] /\ result = [i \in BitsOf(0) |-> Old]
    /\ bitsLeft = 0 /\ bytesLeft = 0 /\ pos = 0
    /\ lastTms = ZeroWord /\ lastTdi = ZeroWord
    /\ reg = [length |-> 32, tms |-> ZeroWord, tdi |-> ZeroWord, tdo |-> ZeroWord, ctrl |-> 0]
    /\ clk = 0 /\ wire = <<>>

-----------------------------------------------------------------------------
(* The driver.                                                             *)

Cut(v, n) == [i \in BitsOf(n) |-> v[i]]

Call ==
    /\ pc = "idle"
    /\ \E n \in Lengths, t, d, a \in Vectors :
         /\ nbits' = n
         /\ tms' = Cut(t, n) /\ tdi' = Cut(d, n) /\ tap' = Cut(a, n)
         /\ result' = [i \in BitsOf(n) |-> Old]
         /\ bitsLeft' = n /\ bytesLeft' = NBytes(n) /\ pos' = 0
    /\ lastTms' = ZeroWord /\ lastTdi' = ZeroWord
    /\ reg' = [reg EXCEPT !.tms = ZeroWord, !.tdi = ZeroWord, !.length = 32]
    /\ wire' = <<>>
    /\ pc' = "loop"
    /\ UNCHANGED clk

Partial == bitsLeft < 32        \* the last word, of less than 32 bits

(* *tms or *tdi: the word under the pointer; of a partial one, only the    *)
(* bytes that are left.                                                    *)
FetchUnaligned(v) ==            \* fault: one byte too few of a partial word
    [i \in WordPos |-> IF Partial /\ i >= 8 * (bytesLeft - 1) THEN 0 ELSE v[pos + i]]
Fetch(v) ==
    [i \in WordPos |-> IF Partial /\ i >= 8 * bytesLeft THEN 0 ELSE v[pos + i]]

StartWordLong ==                \* fault: length is written for a whole word too
    /\ pc = "loop" /\ bitsLeft > 0
    /\ LET t == Fetch(tms)
           d == Fetch(tdi)
       IN  /\ reg' = [reg EXCEPT !.length = bitsLeft, !.tms = t, !.tdi = d, !.ctrl = 1]
           /\ lastTms' = t /\ lastTdi' = d
    /\ clk' = 0
    /\ pc' = "wait"
    /\ UNCHANGED <<argVars, result, bitsLeft, bytesLeft, pos, tap, wire>>

(* A register is written only if its word changed since the last one. *)
StartWord ==
    /\ pc = "loop" /\ bitsLeft > 0
    /\ LET t == Fetch(tms)
           d == Fetch(tdi)
       IN  /\ reg' = [reg EXCEPT
                        !.length = IF Partial THEN bitsLeft ELSE @,
                        !.tms = IF t # lastTms THEN t ELSE @,
                        !.tdi = IF d # lastTdi THEN d ELSE @,
                        !.ctrl = 1]
           /\ lastTms' = t /\ lastTdi' = d
    /\ clk' = 0
    /\ pc' = "wait"
    /\ UNCHANGED <<argVars, result, bitsLeft, bytesLeft, pos, tap, wire>>

(* tdoVal >> (32 - bitsLeft) brings the samples of a partial word down.    *)
Aligned(w) ==
    IF Partial
    THEN [i \in WordPos |-> IF i < bitsLeft THEN w[i + 32 - bitsLeft] ELSE 0]
    ELSE w

(* How much of the result the word is copied to, in bits. *)
Stored == IF Partial THEN 8 * bytesLeft ELSE 32

(* The busy-wait on ctrl ends, and the samples of the word are stored.     *)
ReadWordEarly ==                \* fault: no wait
    /\ pc = "wait"
    /\ LET w == Aligned(reg.tdo) IN
       result' = [i \in BitsOf(nbits) |->
                    IF i \in pos..(pos + Stored - 1) THEN w[i - pos] ELSE result[i]]
    /\ bytesLeft' = bytesLeft - 4 /\ bitsLeft' = bitsLeft - 32 /\ pos' = pos + 32
    /\ pc' = "loop"
    /\ UNCHANGED <<argVars, lastTms, lastTdi, reg, clk, tap, wire>>

ReadWord ==
    /\ pc = "wait" /\ reg.ctrl = 0
    /\ LET w == Aligned(reg.tdo) IN
       result' = [i \in BitsOf(nbits) |->
                    IF i \in pos..(pos + Stored - 1) THEN w[i - pos] ELSE result[i]]
    /\ bytesLeft' = bytesLeft - 4 /\ bitsLeft' = bitsLeft - 32 /\ pos' = pos + 32
    /\ pc' = "loop"
    /\ UNCHANGED <<argVars, lastTms, lastTdi, reg, clk, tap, wire>>

ReturnNever ==                  \* fault: waits for bitsLeft = 0
    /\ pc = "loop" /\ bitsLeft <= 0
    /\ pc' = IF bitsLeft = 0 THEN "idle" ELSE pc
    /\ UNCHANGED <<argVars, result, bitsLeft, bytesLeft, pos, lastTms, lastTdi, reg, clk, tap, wire>>

Return ==
    /\ pc = "loop" /\ bitsLeft <= 0
    /\ pc' = "idle"
    /\ UNCHANGED <<argVars, result, bitsLeft, bytesLeft, pos, lastTms, lastTdi, reg, clk, tap, wire>>

Driver == Call \/ StartWord \/ ReadWord \/ Return

-----------------------------------------------------------------------------
(* The core.                                                               *)

(* One TCK cycle: the sample enters the TDO register at the top. *)
CoreClock ==
    /\ reg.ctrl = 1 /\ clk < reg.length
    /\ LET b == tap[Len(wire)] IN
         /\ wire' = Append(wire, [tms |-> reg.tms[clk], tdi |-> reg.tdi[clk], tdo |-> b])
         /\ reg' = [reg EXCEPT !.tdo = [i \in WordPos |-> IF i = 31 THEN b ELSE @[i + 1]]]
    /\ clk' = clk + 1
    /\ UNCHANGED <<pc, argVars, result, bitsLeft, bytesLeft, pos, lastTms, lastTdi, tap>>

CoreDone ==
    /\ reg.ctrl = 1 /\ clk = reg.length
    /\ reg' = [reg EXCEPT !.ctrl = 0]
    /\ UNCHANGED <<pc, argVars, result, bitsLeft, bytesLeft, pos, lastTms, lastTdi, clk, tap, wire>>

Core == CoreClock \/ CoreDone

Next == Driver \/ Core

Spec == Init /\ [][Next]_vars

(* The driver's thread runs, once it has been called, and the core too.    *)
FairSpec == Spec /\ WF_vars(StartWord \/ ReadWord \/ Return) /\ WF_vars(Core)

-----------------------------------------------------------------------------
(* The registers the core reads do not change under it, although the       *)
(* driver and the core run at the same time (lines 123 to 137).            *)
CoreUndisturbed ==
    [][reg.ctrl = 1 => reg'.length = reg.length /\ reg'.tms = reg.tms /\ reg'.tdi = reg.tdi]_vars

(* A call ends, whatever the length (the two loops, lines 108 and 137).    *)
CallReturns == pc # "idle" ~> pc = "idle"

(* AXIShift implements JtagShift: word after word, the first nbits bits of *)
(* the buffer and no padding reach the wire, in order, and the result is   *)
(* what was sampled with each, also when nbits is not a multiple of 8 or   *)
(* of 32 and when a register is not rewritten (lines 100 to 165).          *)
Contract == INSTANCE JtagShift WITH
    busy <- pc # "idle",
    tms <- [k \in 1..nbits |-> tms[k - 1]],
    tdi <- [k \in 1..nbits |-> tdi[k - 1]],
    result <- IF pc = "idle" THEN [k \in 1..nbits |-> result[k - 1]] ELSE <<>>

ImplementsShift == Contract!Spec
=============================================================================
