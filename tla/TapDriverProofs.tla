-------------------------- MODULE TapDriverProofs --------------------------
(***************************************************************************)
(* Proofs about TapDriver, for every target and every list of devices: the *)
(* controller that the sequences leave, the driver's image of it, and, in  *)
(* the second part, what the sequences read.                               *)
(***************************************************************************)
EXTENDS TapDriver, TLAPS, SequenceTheorems, WellFoundedInduction

-----------------------------------------------------------------------------
(* The vectors.                                                            *)

IsVector(v, n) ==
    /\ v.tms \in Seq(Bit) /\ v.tdi \in Seq(Bit)
    /\ Len(v.tms) = n /\ Len(v.tdi) = n

LEMMA ShortVectors ==
    /\ IsVector(TestLogicReset, 5) /\ \A i \in 1..5 : TestLogicReset.tms[i] = 1
    /\ IsVector(RunTestIdle, 1) /\ RunTestIdle.tms = <<0>>
    /\ IsVector(ToShiftIR, 4) /\ ToShiftIR.tms = <<1, 1, 0, 0>>
    /\ IsVector(UpdateIRVector, 2) /\ UpdateIRVector.tms = <<1, 0>>
    /\ IsVector(ToShiftDR, 3) /\ ToShiftDR.tms = <<1, 0, 0>>
<1>1. /\ IsVector(TestLogicReset, 5) /\ \A i \in 1..5 : TestLogicReset.tms[i] = 1
  BY DEF IsVector, TestLogicReset, Vector, Zeros, Ones, Bit
<1>2. /\ IsVector(RunTestIdle, 1) /\ RunTestIdle.tms = <<0>>
  BY DEF IsVector, RunTestIdle, Vector, Bit
<1>3. /\ IsVector(ToShiftIR, 4) /\ ToShiftIR.tms = <<1, 1, 0, 0>>
  BY DEF IsVector, ToShiftIR, Vector, Zeros, Bit
<1>4. /\ IsVector(UpdateIRVector, 2) /\ UpdateIRVector.tms = <<1, 0>>
  BY DEF IsVector, UpdateIRVector, Vector, Zeros, Bit
<1>5. /\ IsVector(ToShiftDR, 3) /\ ToShiftDR.tms = <<1, 0, 0>>
  BY DEF IsVector, ToShiftDR, Vector, Zeros, Bit
<1> QED
  BY <1>1, <1>2, <1>3, <1>4, <1>5

LEMMA ScanVectorFacts ==
    /\ IsVector(ScanVector, 41)
    /\ \A i \in 1..41 : ScanVector.tms[i] = IF i <= 5 \/ i = 7 THEN 1 ELSE 0
  BY DEF IsVector, ScanVector, Vector, Bit

LEMMA ReadVectorFacts ==
    /\ IsVector(ReadIdCode, 32)
    /\ \A i \in 1..32 : ReadIdCode.tms[i] = IF i = 32 THEN 1 ELSE 0
  BY DEF IsVector, ReadIdCode, Vector, Leaving, Zeros, Bit

LEMMA InstructionVectorFacts ==
    ASSUME irlen \in 0..32, NEW bits \in Word
    PROVE  /\ IsVector(LoadIR(bits), irlen)
           /\ \A i \in 1..irlen : LoadIR(bits).tms[i] = IF i = irlen THEN 1 ELSE 0
           /\ \A i \in 1..irlen : LoadIR(bits).tdi[i] = bits[i]
<1>1. irlen \in Nat /\ \A i \in 1..irlen : bits[i] \in Bit
  BY DEF Word
<1> QED
  BY <1>1 DEF IsVector, LoadIR, Leaving, Vector, Bit

LEMMA BypassWord == BypassInstruction \in Word /\ \A i \in 1..6 : BypassInstruction[i] = 1
  BY DEF BypassInstruction, Word, Bit

LEMMA EchoFacts ==
    ASSUME sent \in Seq(Word)
    PROVE  /\ IsVector(Echo, 32 * Len(sent) + 1)
           /\ \A i \in 1..32 * Len(sent) + 1 : Echo.tms[i] = 0
           /\ \A i \in 1..32 * Len(sent) :
                Echo.tdi[i] = sent[(i - 1) \div 32 + 1][((i - 1) % 32) + 1]
<1> DEFINE n == 32 * Len(sent)
<1>1. n \in Nat
  OBVIOUS
<1>2. ASSUME NEW i \in 1..n
      PROVE  sent[(i - 1) \div 32 + 1][((i - 1) % 32) + 1] \in Bit
  <2>1. (i - 1) \div 32 + 1 \in 1..Len(sent) /\ ((i - 1) % 32) + 1 \in 1..32
    OBVIOUS
  <2>2. sent[(i - 1) \div 32 + 1] \in Word
    BY <2>1
  <2> QED
    BY <2>1, <2>2 DEF Word
<1>3. SentBits \in Seq(Bit) /\ Len(SentBits) = n
  BY <1>1, <1>2 DEF SentBits
<1>4. /\ Append(SentBits, 0) \in Seq(Bit) /\ Len(Append(SentBits, 0)) = n + 1
      /\ \A i \in 1..n : Append(SentBits, 0)[i] = SentBits[i]
  BY <1>1, <1>3 DEF Bit
<1>5. \A i \in 1..n : SentBits[i] = sent[(i - 1) \div 32 + 1][((i - 1) % 32) + 1]
  BY DEF SentBits
<1>6. /\ Zeros(n + 1) \in Seq(Bit) /\ Len(Zeros(n + 1)) = n + 1
      /\ \A i \in 1..n + 1 : Zeros(n + 1)[i] = 0
  BY <1>1 DEF Zeros, Bit
<1> QED
  BY <1>4, <1>5, <1>6 DEF IsVector, Echo, Vector

-----------------------------------------------------------------------------
(* The calls of a function.                                                *)

Bits == IF op = "probeIdCode" THEN idcmd ELSE BypassInstruction
FinalVector == IF op = "probeIdCode" THEN ReadIdCode ELSE Echo

(* What is needed of the variables for the vectors to be well formed. *)
Wired ==
    /\ irlen \in 0..32 /\ idcmd \in Word /\ sent \in Seq(Word)
    /\ op \in {"scanChain", "probeIdCode", "probeBypass"}

LEMMA ScanCalls ==
    ASSUME op = "scanChain"
    PROVE  DOMAIN Calls = {1} /\ Len(Calls) = 1 /\ Calls[1] = ScanVector
<1>1. Calls = <<ScanVector>>
  BY DEF Calls
<1> QED
  BY <1>1

LEMMA Appended ==
    ASSUME NEW a, NEW b, NEW c, NEW d, NEW e, NEW f, NEW g
    PROVE  LET s == Append(<<a, b, c, d, e, f>>, g)
           IN  /\ DOMAIN s = 1..7 /\ Len(s) = 7
               /\ s[1] = a /\ s[2] = b /\ s[3] = c /\ s[4] = d /\ s[5] = e /\ s[6] = f /\ s[7] = g
  OBVIOUS

LEMMA ProbeCalls ==
    ASSUME op \in {"probeIdCode", "probeBypass"}
    PROVE  /\ DOMAIN Calls = 1..7 /\ Len(Calls) = 7
           /\ Calls[1] = TestLogicReset /\ Calls[2] = RunTestIdle /\ Calls[3] = ToShiftIR
           /\ Calls[4] = LoadIR(Bits) /\ Calls[5] = UpdateIRVector /\ Calls[6] = ToShiftDR
           /\ Calls[7] = FinalVector
<1> DEFINE v == LoadIR(Bits)
<1>1. Calls = Append(Select(Bits), FinalVector)
  BY DEF Calls, Bits, FinalVector
<1>2. Select(Bits) = <<TestLogicReset, RunTestIdle, ToShiftIR, v, UpdateIRVector, ToShiftDR>>
  BY DEF Select
<1> HIDE DEF v
<1>3. /\ DOMAIN Calls = 1..7 /\ Len(Calls) = 7
      /\ Calls[1] = TestLogicReset /\ Calls[2] = RunTestIdle /\ Calls[3] = ToShiftIR
      /\ Calls[4] = v /\ Calls[5] = UpdateIRVector /\ Calls[6] = ToShiftDR
      /\ Calls[7] = FinalVector
  BY <1>1, <1>2, Appended
<1> QED
  BY <1>3 DEF v

LEMMA VectorFacts ==
    ASSUME Wired, NEW c \in DOMAIN Calls
    PROVE  \E n \in Nat : IsVector(Calls[c], n)
<1>1. CASE op = "scanChain"
  BY <1>1, ScanCalls, ScanVectorFacts
<1>2. CASE op \in {"probeIdCode", "probeBypass"}
  <2>1. Bits \in Word
    BY BypassWord DEF Bits, Wired
  <2>2. IsVector(LoadIR(Bits), irlen) /\ irlen \in Nat
    BY <2>1, InstructionVectorFacts DEF Wired
  <2>3. \E n \in Nat : IsVector(FinalVector, n)
    <3>1. 32 \in Nat /\ 32 * Len(sent) + 1 \in Nat /\ sent \in Seq(Word)
      BY DEF Wired
    <3>2. CASE op = "probeIdCode"
      BY <3>1, <3>2, ReadVectorFacts DEF FinalVector
    <3>3. CASE op # "probeIdCode"
      BY <3>1, <3>3, EchoFacts DEF FinalVector
    <3> QED
      BY <3>2, <3>3
  <2>4. c \in {1, 2, 3, 4, 5, 6, 7}
    BY <1>2, ProbeCalls
  <2>5. CASE c \in {1, 2, 3, 5, 6}
    BY <1>2, <2>5, ProbeCalls, ShortVectors
  <2>6. CASE c = 4
    BY <1>2, <2>2, <2>6, ProbeCalls
  <2>7. CASE c = 7
    BY <1>2, <2>3, <2>7, ProbeCalls
  <2> QED
    BY <2>4, <2>5, <2>6, <2>7
<1> QED
  BY <1>1, <1>2 DEF Wired

-----------------------------------------------------------------------------
(* The target.                                                             *)

TapOK(t) ==
    /\ t.state \in TapState
    /\ t.inst \in [1..target.irlen -> Bit] /\ t.ir \in [1..target.irlen -> Bit]
    /\ t.dr \in Seq(Bit) /\ t.dr # <<>>

(* One bit through a register. *)
LEMMA Shifted ==
    ASSUME NEW s \in Seq(Bit), s # <<>>, NEW b \in Bit
    PROVE  /\ Append(Tail(s), b) \in Seq(Bit) /\ Append(Tail(s), b) # <<>>
           /\ Len(Append(Tail(s), b)) = Len(s)
           /\ \A i \in 1..Len(s) :
                Append(Tail(s), b)[i] = IF i = Len(s) THEN b ELSE s[i + 1]
           /\ Head(s) = s[1] /\ Head(s) \in Bit
<1>1. Len(s) \in Nat \ {0}
  OBVIOUS
<1>2. /\ Tail(s) \in Seq(Bit) /\ Len(Tail(s)) = Len(s) - 1
      /\ \A i \in 1..Len(s) - 1 : Tail(s)[i] = s[i + 1]
  BY <1>1
<1>3. /\ Append(Tail(s), b) \in Seq(Bit) /\ Len(Append(Tail(s), b)) = Len(Tail(s)) + 1
      /\ \A i \in 1..Len(Tail(s)) : Append(Tail(s), b)[i] = Tail(s)[i]
      /\ Append(Tail(s), b)[Len(Tail(s)) + 1] = b
  <2> DEFINE u == Tail(s)
  <2>1. u \in Seq(Bit)
    BY <1>2
  <2> HIDE DEF u
  <2>2. /\ Append(u, b) \in Seq(Bit) /\ Len(Append(u, b)) = Len(u) + 1
        /\ \A i \in 1..Len(u) : Append(u, b)[i] = u[i]
        /\ Append(u, b)[Len(u) + 1] = b
    BY <2>1
  <2> QED BY <2>2 DEF u
<1>4. Append(Tail(s), b) # <<>>
  BY <1>1, <1>2, <1>3
<1>5. \A i \in 1..Len(s) : Append(Tail(s), b)[i] = IF i = Len(s) THEN b ELSE s[i + 1]
  <2> DEFINE u == Tail(s)
             w == Append(u, b)
  <2>1. /\ Len(u) = Len(s) - 1 /\ \A i \in 1..Len(s) - 1 : u[i] = s[i + 1]
        /\ \A i \in 1..Len(u) : w[i] = u[i]
        /\ w[Len(u) + 1] = b
    BY <1>2, <1>3
  <2> HIDE DEF u, w
  <2>2. \A i \in 1..Len(s) : w[i] = IF i = Len(s) THEN b ELSE s[i + 1]
    BY <1>1, <2>1
  <2> QED
    BY <2>2 DEF w, u
<1>6. Head(s) = s[1] /\ s[1] \in Bit
  BY <1>1
<1>7. Len(Append(Tail(s), b)) = Len(s)
  BY <1>1, <1>2, <1>3
<1> QED
  BY <1>3, <1>4, <1>5, <1>6, <1>7, Zenon

LEMMA Register ==
    ASSUME NEW n \in Nat \ {0}, NEW r \in [1..n -> Bit]
    PROVE  r \in Seq(Bit) /\ Len(r) = n /\ r # <<>>
  OBVIOUS

LEMMA ShiftedRegister ==
    ASSUME NEW n \in Nat \ {0}, NEW r \in [1..n -> Bit], NEW b \in Bit
    PROVE  /\ Append(Tail(r), b) \in [1..n -> Bit]
           /\ \A i \in 1..n : Append(Tail(r), b)[i] = IF i = n THEN b ELSE r[i + 1]
<1>1. r \in Seq(Bit) /\ Len(r) = n /\ r # <<>>
  BY Register
<1>2. /\ Append(Tail(r), b) \in Seq(Bit) /\ Len(Append(Tail(r), b)) = n
      /\ \A i \in 1..n : Append(Tail(r), b)[i] = IF i = n THEN b ELSE r[i + 1]
  BY <1>1, Shifted
<1>3. Append(Tail(r), b) \in [1..n -> Bit]
  BY <1>2, LenProperties
<1> QED
  BY <1>2, <1>3

LEMMA Target ==
    ASSUME target \in Targets
    PROVE  /\ target.irlen \in Nat \ {0, 1}
           /\ IdCode(target) \in [1..target.irlen -> Bit]
           /\ Bypass(target) \in [1..target.irlen -> Bit]
           /\ IdCode(target) # Bypass(target)
           /\ CapturedIR(target) \in [1..target.irlen -> Bit]
           /\ target.idcode \in Word /\ target.noise \subseteq Word
           /\ target.other \in Seq(Bit) /\ target.other # <<>>
<1>1. /\ target.irlen \in Nat \ {0, 1} /\ target.idcmd \in [1..target.irlen -> Bit]
      /\ target.idcmd # Ones(target.irlen)
      /\ target.idcode \in Word /\ target.noise \subseteq Word
      /\ target.other \in Seq(Bit) /\ target.other # <<>>
  BY TargetsAssumption
<1> QED
  BY <1>1 DEF IdCode, Bypass, CapturedIR, Ones, Bit

LEMMA CapturedFacts ==
    ASSUME target \in Targets, NEW inst
    PROVE  /\ CapturedDR(target, inst) \in Seq(Bit) /\ CapturedDR(target, inst) # <<>>
           /\ CapturedDR(target, Bypass(target)) = <<0>>
           /\ CapturedDR(target, IdCode(target)) = target.idcode
           /\ target.idcode \in Seq(Bit) /\ Len(target.idcode) = 32
<1>1. /\ target.idcode \in Seq(Bit) /\ Len(target.idcode) = 32 /\ target.idcode # <<>>
  <2>1. target.idcode \in [1..32 -> Bit] /\ 32 \in Nat \ {0}
    BY Target DEF Word
  <2> QED
    BY <2>1, Register
<1>2. <<0>> \in Seq(Bit) /\ <<0>> # <<>>
  BY DEF Bit
<1> QED
  BY <1>1, <1>2, Target DEF CapturedDR

LEMMA Moves ==
    /\ NextState("Reset", 0) = "Idle" /\ NextState("Reset", 1) = "Reset"
    /\ NextState("Idle", 0) = "Idle" /\ NextState("Idle", 1) = "SelectDR"
    /\ NextState("SelectDR", 0) = "CaptureDR" /\ NextState("SelectDR", 1) = "SelectIR"
    /\ NextState("CaptureDR", 0) = "ShiftDR" /\ NextState("CaptureDR", 1) = "Exit1DR"
    /\ NextState("ShiftDR", 0) = "ShiftDR" /\ NextState("ShiftDR", 1) = "Exit1DR"
    /\ NextState("Exit1DR", 0) = "PauseDR" /\ NextState("Exit1DR", 1) = "UpdateDR"
    /\ NextState("PauseDR", 0) = "PauseDR" /\ NextState("PauseDR", 1) = "Exit2DR"
    /\ NextState("Exit2DR", 0) = "ShiftDR" /\ NextState("Exit2DR", 1) = "UpdateDR"
    /\ NextState("UpdateDR", 0) = "Idle" /\ NextState("UpdateDR", 1) = "SelectDR"
    /\ NextState("SelectIR", 0) = "CaptureIR" /\ NextState("SelectIR", 1) = "Reset"
    /\ NextState("CaptureIR", 0) = "ShiftIR" /\ NextState("CaptureIR", 1) = "Exit1IR"
    /\ NextState("ShiftIR", 0) = "ShiftIR" /\ NextState("ShiftIR", 1) = "Exit1IR"
    /\ NextState("Exit1IR", 0) = "PauseIR" /\ NextState("Exit1IR", 1) = "UpdateIR"
    /\ NextState("PauseIR", 0) = "PauseIR" /\ NextState("PauseIR", 1) = "Exit2IR"
    /\ NextState("Exit2IR", 0) = "ShiftIR" /\ NextState("Exit2IR", 1) = "UpdateIR"
    /\ NextState("UpdateIR", 0) = "Idle" /\ NextState("UpdateIR", 1) = "SelectDR"
  BY DEF NextState, Transitions

LEMMA NextStateTyped == \A s \in TapState, b \in Bit : NextState(s, b) \in TapState
  BY Moves DEF TapState, Bit

LEMMA ClockedTyped ==
    ASSUME target \in Targets, TapOK(tap), NEW tms \in Bit, NEW tdi \in Bit
    PROVE  TapOK(Clocked(target, tap, tms, tdi)) /\ Tdo(tap) \in Bit
<1> DEFINE t == Clocked(target, tap, tms, tdi)
<1>1. t.state \in TapState
  BY NextStateTyped DEF Clocked, TapOK
<1>2. t.inst \in [1..target.irlen -> Bit]
  BY Target DEF Clocked, TapOK
<1>3. t.ir \in [1..target.irlen -> Bit]
  <2>1. Append(Tail(tap.ir), tdi) \in [1..target.irlen -> Bit]
    BY Target, ShiftedRegister DEF TapOK
  <2> QED
    BY <2>1, Target DEF Clocked, TapOK
<1>4. t.dr \in Seq(Bit) /\ t.dr # <<>>
  <2>1. Append(Tail(tap.dr), tdi) \in Seq(Bit) /\ Append(Tail(tap.dr), tdi) # <<>>
    BY Shifted DEF TapOK
  <2>2. /\ CapturedDR(target, tap.inst) \in Seq(Bit)
        /\ CapturedDR(target, tap.inst) # <<>>
    BY CapturedFacts
  <2> QED
    BY <2>1, <2>2 DEF Clocked, TapOK
<1>5. Tdo(tap) \in Bit
  <2>1. Head(tap.dr) \in Bit
    BY Shifted DEF TapOK, Bit
  <2>2. tap.ir \in Seq(Bit) /\ tap.ir # <<>>
    BY Target, Register DEF TapOK
  <2>3. Head(tap.ir) \in Bit
    BY <2>2, Shifted DEF Bit
  <2> QED
    BY <2>1, <2>3 DEF Tdo, Bit
<1> QED
  BY <1>1, <1>2, <1>3, <1>4, <1>5 DEF TapOK

-----------------------------------------------------------------------------
(* The device list.                                                        *)

Less == {ss \in Nat \X Nat : ss[1] < ss[2]}

LEMMA LeastElement ==
    ASSUME NEW S, S \subseteq Nat, S # {}
    PROVE  Min(S) \in S
<1>1. IsWellFoundedOn(Less, Nat)
  BY NatLessThanWellFounded DEF OpToRel, Less
<1>2. PICK x \in S : \A y \in S : <<y, x>> \notin Less
  BY <1>1, WFMin
<1>3. \A y \in S : x =< y
  <2> SUFFICES ASSUME NEW y \in S PROVE x =< y
    OBVIOUS
  <2>1. x \in Nat /\ y \in Nat /\ <<y, x>> \notin Less
    BY <1>2
  <2>2. ~(y < x)
    BY <2>1 DEF Less
  <2> QED
    BY <2>1, <2>2
<1>4. \E z \in S : \A y \in S : z =< y
  BY <1>3
<1> QED
  BY <1>4, Zenon DEF Min

LEMMA Lookups ==
    ASSUME db \in Seq(Entry), NEW id
    PROVE  IdToIRLength(db, id) \in 0..32 /\ IdToIDCmd(db, id) \in Word
<1> DEFINE I == {i \in 1..Len(db) : db[i].idcode = Masked(id)}
<1>1. NoDevice.irlen \in 0..32 /\ NoDevice.idcmd \in Word
  BY DEF NoDevice, Word, Bit
<1>2. CASE I = {}
  <2>1. FindDevice(db, id) = NoDevice
    BY <1>2 DEF FindDevice, SelectInSeq
  <2> QED
    BY <1>1, <2>1 DEF IdToIRLength, IdToIDCmd
<1>3. CASE I # {}
  <2>1. I \subseteq 1..Len(db) /\ I \subseteq Nat
    OBVIOUS
  <2>2. FindDevice(db, id) = IF Min(I) = 0 THEN NoDevice ELSE db[Min(I)]
    BY <1>3 DEF FindDevice, SelectInSeq
  <2> HIDE DEF I
  <2>3. Min(I) \in 1..Len(db)
    BY <1>3, <2>1, LeastElement
  <2>4. db[Min(I)] \in Entry
    BY <2>3
  <2> QED
    <3>1. FindDevice(db, id) = db[Min(I)]
      BY <2>2, <2>3
    <3>2. db[Min(I)].irlen \in 0..32 /\ db[Min(I)].idcmd \in Word
      BY <2>4 DEF Entry
    <3> QED
      BY <3>1, <3>2 DEF IdToIRLength, IdToIDCmd
<1> QED
  BY <1>2, <1>3

-----------------------------------------------------------------------------
(* Types, and where detection and the probes are in the program.           *)

Control ==
    /\ db \in Seq(Entry)
    /\ pc \in {"clock", "scan", "lookup", "ready"} <=> op = "scanChain"
    /\ pc = "lookup" => bit = 41
    /\ pc = "answered" => call = 7 /\ bit = Len(Vec.tms)

Typed == TypeOK /\ Control

LEMMA TypedTap == TypeOK => TapOK(tap) /\ Wired
  BY DEF TypeOK, TapOK, Wired

LEMMA TypedVec ==
    ASSUME TypeOK
    PROVE  /\ Len(Vec.tms) \in Nat /\ Len(Vec.tdi) = Len(Vec.tms)
           /\ \A i \in 1..Len(Vec.tms) : Vec.tms[i] \in Bit /\ Vec.tdi[i] \in Bit
<1>1. PICK n \in Nat : IsVector(Vec, n)
  BY TypedTap, VectorFacts DEF TypeOK, Vec
<1> QED
  BY <1>1 DEF IsVector

LEMMA SameCalls ==
    ASSUME UNCHANGED <<op, irlen, idcmd, sent>>
    PROVE  Calls' = Calls
  BY DEF Calls, Select, LoadIR, Echo, SentBits

LEMMA ScanBegins ==
    ASSUME Begins("scanChain", <<>>)
    PROVE  /\ call' \in DOMAIN Calls' /\ bit' \in 0..Len(Vec'.tms)
           /\ sent' \in Seq(Word) /\ result' \in Seq(Bit) /\ Len(result') = bit'
<1>1. call' = 1 /\ bit' = 0 /\ Calls' = <<ScanVector>> /\ result' = <<>> /\ sent' = <<>>
  BY DEF Begins, Calls
<1>2. Vec' = ScanVector
  BY <1>1 DEF Vec
<1> QED
  BY <1>1, <1>2, ScanVectorFacts DEF IsVector

LEMMA ProbeBegins ==
    ASSUME NEW o \in {"probeIdCode", "probeBypass"}, NEW d \in Seq(Word), Begins(o, d)
    PROVE  /\ call' \in DOMAIN Calls' /\ bit' \in 0..Len(Vec'.tms)
           /\ sent' \in Seq(Word) /\ result' \in Seq(Bit) /\ Len(result') = bit'
<1>1. call' = 1 /\ bit' = 0 /\ op' = o /\ result' = <<>> /\ sent' = d
  BY DEF Begins
<1> DEFINE v == LoadIR(Bits)'
           w == FinalVector'
<1>2. Calls' = Append(<<TestLogicReset, RunTestIdle, ToShiftIR, v, UpdateIRVector, ToShiftDR>>, w)
  BY <1>1 DEF Calls, Select, Bits, FinalVector
<1> HIDE DEF v, w
<1>3. DOMAIN Calls' = 1..7 /\ Calls'[1] = TestLogicReset
  BY <1>2, Appended
<1>4. Vec' = TestLogicReset
  BY <1>1, <1>3 DEF Vec
<1> QED
  BY <1>1, <1>3, <1>4, ShortVectors DEF IsVector

LEMMA ScannedWord ==
    ASSUME TypeOK, bit = 41
    PROVE  Scanned \in Word /\ \A i \in 1..32 : Scanned[i] = result[i + 9]
<1>1. \A i \in 10..41 : result[i] \in Bit
  <2>1. result \in Seq(Bit) /\ Len(result) = bit
    BY DEF TypeOK
  <2>2. result \in [1..41 -> Bit]
    BY <2>1, LenProperties
  <2> QED
    BY <2>2
<1>2. /\ Scanned \in Seq(Bit) /\ Len(Scanned) = 32
      /\ \A i \in 1..32 : Scanned[i] = result[10 + i - 1]
  BY <1>1, SubSeqProperties DEF Scanned
<1>3. Scanned \in [1..32 -> Bit]
  BY <1>2, LenProperties
<1> QED
  BY <1>2, <1>3 DEF Word

LEMMA InitTyped == Init => Typed
<1> SUFFICES ASSUME Init PROVE Typed
  OBVIOUS
<1>1. target \in Targets /\ db \in Seq(Entry)
  BY ListsAssumption DEF Init
<1>2. TapOK(tap)
  <2>1. Zeros(target.irlen) \in [1..target.irlen -> Bit]
    BY DEF Zeros, Bit
  <2> QED
    BY <1>1, <2>1, Target DEF Init, TapOK
<1>3. Zeros(32) \in Word
  BY DEF Zeros, Word, Bit
<1>4. irlen \in 0..32
  BY UninitAssumption DEF Init
<1>5. call \in DOMAIN Calls /\ bit \in 0..Len(Vec.tms) /\ result \in Seq(Bit) /\ Len(result) = bit
  <2>1. op = "scanChain" /\ call = 1 /\ bit = 0 /\ result = <<>>
    BY DEF Init
  <2>2. Vec = ScanVector /\ call \in DOMAIN Calls
    BY <2>1, ScanCalls DEF Vec
  <2> QED
    BY <2>1, <2>2, ScanVectorFacts DEF IsVector
<1>6. /\ pc = "clock" /\ op = "scanChain" /\ driver \in {"AXI", "FTDI"} /\ delay = 0
      /\ idcode \in Word /\ idcmd \in Word /\ sent = <<>> /\ detected = FALSE /\ own = FALSE
  BY <1>3 DEF Init
<1>7. delay \in 0..NDelays - 1 /\ sent \in Seq(Word)
  BY <1>6, DelaysAssumption
<1>8. TypeOK
  BY <1>1, <1>2, <1>4, <1>5, <1>6, <1>7 DEF TypeOK, TapOK
<1> QED
  BY <1>1, <1>6, <1>8 DEF Typed, Control

LEMMA SetClockTyped == Typed /\ SetClock => Typed'
<1> SUFFICES ASSUME Typed, SetClock PROVE Typed'
  OBVIOUS
<1>1. Begins("scanChain", <<>>) /\ op' = "scanChain" /\ pc' = "scan"
  BY DEF SetClock, Begins
<1>2. UNCHANGED <<target, tap, db, driver, delay, deviceVars, own>>
  BY DEF SetClock
<1> QED
  BY <1>1, <1>2, ScanBegins DEF Typed, TypeOK, Control, deviceVars

LEMMA ClockTyped == Typed /\ Clock => Typed'
<1> SUFFICES ASSUME Typed, Clock PROVE Typed'
  OBVIOUS
<1>1. /\ pc \in {"scan", "probe"} /\ bit < Len(Vec.tms)
      /\ tap' = Clocked(target, tap, Vec.tms[bit + 1], Vec.tdi[bit + 1])
      /\ result' = Append(result, Tdo(tap)) /\ bit' = bit + 1
      /\ own' = (own \/ tap'.state = "Reset")
      /\ UNCHANGED <<target, db, pc, driver, delay, deviceVars, op, call, sent>>
  BY DEF Clock
<1>2. /\ Len(Vec.tms) \in Nat /\ bit \in Nat
      /\ Vec.tms[bit + 1] \in Bit /\ Vec.tdi[bit + 1] \in Bit
  BY <1>1, TypedVec DEF Typed, TypeOK
<1>3. TapOK(tap)' /\ Tdo(tap) \in Bit
  BY <1>1, <1>2, ClockedTyped, TypedTap DEF Typed, TypeOK, TapOK
<1>4. Calls' = Calls /\ Vec' = Vec
  BY <1>1, SameCalls DEF deviceVars, Vec
<1>5. result' \in Seq(Bit) /\ Len(result') = bit'
  BY <1>1, <1>2, <1>3 DEF Typed, TypeOK
<1>6. call' \in DOMAIN Calls' /\ bit' \in 0..Len(Vec'.tms)
  BY <1>1, <1>2, <1>4 DEF Typed, TypeOK
<1>7. TypeOK'
  BY <1>1, <1>3, <1>5, <1>6 DEF Typed, TypeOK, TapOK, deviceVars
<1>8. Control'
  BY <1>1 DEF Typed, Control, TypeOK
<1> QED
  BY <1>7, <1>8 DEF Typed

LEMMA NextCallTyped == Typed /\ NextCall => Typed'
<1> SUFFICES ASSUME Typed, NextCall PROVE Typed'
  OBVIOUS
<1>1. /\ pc \in {"scan", "probe"} /\ call < Len(Calls)
      /\ call' = call + 1 /\ bit' = 0 /\ result' = <<>>
      /\ UNCHANGED <<target, tap, db, pc, driver, delay, deviceVars, op, sent, own>>
  BY DEF NextCall
<1>2. Calls' = Calls
  BY <1>1, SameCalls DEF deviceVars
<1>3. call' \in DOMAIN Calls
  <2>1. CASE op = "scanChain"
    <3>1. call = 1 /\ Len(Calls) = 1
      BY <2>1, ScanCalls DEF Typed, TypeOK
    <3> QED
      BY <1>1, <3>1
  <2>2. CASE op # "scanChain"
    BY <1>1, <2>2, ProbeCalls DEF Typed, TypeOK
  <2> QED
    BY <2>1, <2>2
<1>4. Len(Vec'.tms) \in Nat
  <2>1. Vec' = Calls[call']
    BY <1>2 DEF Vec
  <2>2. PICK n \in Nat : IsVector(Calls[call'], n)
    BY <1>3, VectorFacts, TypedTap DEF Typed
  <2> QED
    BY <2>1, <2>2 DEF IsVector
<1>5. TypeOK'
  BY <1>1, <1>2, <1>3, <1>4 DEF Typed, TypeOK, deviceVars
<1>6. Control'
  BY <1>1 DEF Typed, Control, TypeOK
<1> QED
  BY <1>5, <1>6 DEF Typed

LEMMA ReturnsTyped == Typed /\ Returns => Typed'
<1> SUFFICES ASSUME Typed, Returns PROVE Typed'
  OBVIOUS
<1>1. /\ pc \in {"scan", "probe"} /\ bit = Len(Vec.tms) /\ call = Len(Calls)
      /\ pc' = IF pc = "scan" THEN "lookup" ELSE "answered"
      /\ UNCHANGED <<target, tap, db, driver, delay, deviceVars, callVars, own>>
  BY DEF Returns
<1>2. Calls' = Calls /\ Vec' = Vec
  BY <1>1, SameCalls DEF deviceVars, callVars, Vec
<1>3. TypeOK'
  BY <1>1, <1>2 DEF Typed, TypeOK, deviceVars, callVars
<1>4. CASE pc = "scan"
  <2>1. op = "scanChain" /\ Vec = ScanVector
    BY <1>1, <1>4, ScanCalls DEF Typed, Control, Vec
  <2> QED
    BY <1>1, <1>3, <1>4, <2>1, ScanVectorFacts DEF Typed, Control, callVars, IsVector
<1>5. CASE pc = "probe"
  <2>1. op # "scanChain" /\ call = 7
    BY <1>1, <1>5, ProbeCalls DEF Typed, Control, TypeOK
  <2> QED
    BY <1>1, <1>2, <1>3, <1>5, <2>1 DEF Typed, Control, callVars
<1> QED
  BY <1>1, <1>4, <1>5

LEMMA LookupTyped == Typed /\ Lookup => Typed'
<1> SUFFICES ASSUME Typed, Lookup PROVE Typed'
  OBVIOUS
<1>1. /\ pc = "lookup"
      /\ UNCHANGED <<target, tap, db, driver, callVars, own>>
  BY DEF Lookup
<1>2. PICK id \in IF delay \in target.clear THEN {Scanned} ELSE target.noise \cup {Scanned} :
        IF FindDevice(db, id) = NoDevice
        THEN UNCHANGED deviceVars
        ELSE /\ idcode' = id /\ detected' = TRUE
             /\ irlen' = IdToIRLength(db, id) /\ idcmd' = IdToIDCmd(db, id)
  BY DEF Lookup
<1>3. id \in Word
  BY <1>1, <1>2, ScannedWord, Target DEF Typed, TypeOK, Control
<1>4. idcode' \in Word /\ irlen' \in 0..32 /\ idcmd' \in Word /\ detected' \in BOOLEAN
  <2>1. CASE FindDevice(db, id) = NoDevice
    BY <1>2, <2>1 DEF Typed, TypeOK, deviceVars
  <2>2. CASE FindDevice(db, id) # NoDevice
    BY <1>2, <1>3, <2>2, Lookups DEF Typed, Control
  <2> QED
    BY <2>1, <2>2
<1>5. op = "scanChain" /\ op' = op
  BY <1>1 DEF Typed, Control, callVars
<1>6. Calls' = Calls /\ Vec' = Vec
  BY <1>1, <1>5 DEF Calls, Vec, callVars
<1>7. delay' \in 0..NDelays - 1 /\ pc' \in {"clock", "ready"}
  BY DelaysAssumption DEF Lookup, MoreDelays, Typed, TypeOK
<1>8. TypeOK'
  BY <1>1, <1>4, <1>6, <1>7 DEF Typed, TypeOK, callVars
<1> QED
  BY <1>1, <1>5, <1>7, <1>8 DEF Typed, Control

LEMMA ProbeTyped == Typed /\ Probe => Typed'
<1> SUFFICES ASSUME Typed, Probe PROVE Typed'
  OBVIOUS
<1>1. pc' = "probe" /\ UNCHANGED <<target, tap, db, driver, delay, deviceVars, own>>
  BY DEF Probe
<1>2. PICK o \in {"probeIdCode", "probeBypass"}, d \in Seq(Word) : Begins(o, d)
  <2>1. CASE Begins("probeIdCode", <<>>)
    <3>1. <<>> \in Seq(Word)
      OBVIOUS
    <3> QED
      BY <2>1, <3>1
  <2>2. CASE \E d \in Data : Begins("probeBypass", d)
    BY <2>2, DataAssumption
  <2> QED
    BY <2>1, <2>2 DEF Probe
<1>3. op' = o
  BY <1>2 DEF Begins
<1>4. TypeOK'
  BY <1>1, <1>2, <1>3, ProbeBegins DEF Typed, TypeOK, deviceVars
<1> QED
  BY <1>1, <1>3, <1>4 DEF Typed, Control

LEMMA KillTyped == Typed /\ Kill => Typed'
<1> SUFFICES ASSUME Typed, Kill PROVE Typed'
  OBVIOUS
<1>1. /\ pc' = "clock" /\ delay' = 0 /\ Begins("scanChain", <<>>) /\ op' = "scanChain"
      /\ idcode' = Zeros(32) /\ irlen' \in Uninit /\ idcmd' = Zeros(32) /\ detected' = FALSE
      /\ own' = FALSE /\ UNCHANGED <<target, tap, db, driver>>
  BY DEF Kill, Begins
<1>2. Zeros(32) \in Word
  BY DEF Zeros, Word, Bit
<1>3. irlen' \in 0..32 /\ delay' \in 0..NDelays - 1
  BY <1>1, UninitAssumption, DelaysAssumption
<1>4. TypeOK'
  BY <1>1, <1>2, <1>3, ScanBegins DEF Typed, TypeOK
<1> QED
  BY <1>1, <1>4 DEF Typed, Control

LEMMA StutterTyped == Typed /\ UNCHANGED vars => Typed'
  BY SameCalls DEF Typed, TypeOK, Control, vars, deviceVars, callVars, Vec

LEMMA NextTyped == Typed /\ [Next]_vars => Typed'
  BY SetClockTyped, ClockTyped, NextCallTyped, ReturnsTyped, LookupTyped, ProbeTyped, KillTyped,
     StutterTyped DEF Next

(* The driver's variables keep their types: what is sent and read are      *)
(* bits, no call is clocked past its vector, and the instruction registers *)
(* of the target keep their length (xvcdriver.cpp, and detect() of both    *)
(* drivers).                                                               *)
THEOREM TypeCorrect == Spec => []TypeOK
<1>1. Init => Typed
  BY InitTyped
<1>2. Typed /\ [Next]_vars => Typed'
  BY NextTyped
<1>3. Typed => TypeOK
  BY DEF Typed
<1> QED
  BY <1>1, <1>2, <1>3, PTL DEF Spec

-----------------------------------------------------------------------------
(* Where the target is, cycle by cycle.                                    *)

(* After b cycles with TMS high, from anywhere. *)
Settled(b) ==
    CASE b = 0 -> TapState
      [] b = 1 -> {"Reset", "SelectDR", "SelectIR", "Exit1DR", "UpdateDR", "Exit2DR",
                   "Exit1IR", "UpdateIR", "Exit2IR"}
      [] b = 2 -> {"Reset", "SelectDR", "SelectIR", "UpdateDR", "UpdateIR"}
      [] b = 3 -> {"Reset", "SelectDR", "SelectIR"}
      [] b = 4 -> {"Reset", "SelectIR"}
      [] b = 5 -> {"Reset"}

ScanPlace ==
    /\ bit <= 5 => tap.state \in Settled(bit)
    /\ bit = 6 => tap.state = "Idle"
    /\ bit = 7 => tap.state = "SelectDR"
    /\ bit = 8 => tap.state = "CaptureDR"
    /\ bit > 8 => tap.state = "ShiftDR"

ProbePlace ==
    /\ call = 1 => tap.state \in Settled(bit)
    /\ call = 2 => tap.state = <<"Reset", "Idle">>[bit + 1]
    /\ call = 3 => tap.state = <<"Idle", "SelectDR", "SelectIR", "CaptureIR", "ShiftIR">>[bit + 1]
    /\ call = 4 => tap.state = IF bit = irlen THEN "Exit1IR" ELSE "ShiftIR"
    /\ call = 5 => tap.state = <<"Exit1IR", "UpdateIR", "Idle">>[bit + 1]
    /\ call = 6 => tap.state = <<"Idle", "SelectDR", "CaptureDR", "ShiftDR">>[bit + 1]
    /\ call = 7 => tap.state = IF op = "probeIdCode" /\ bit = 32 THEN "Exit1DR" ELSE "ShiftDR"

Place ==
    /\ pc \in {"scan", "lookup"} => ScanPlace
    /\ pc \in {"probe", "answered"} /\ irlen > 0 => ProbePlace

LEMMA Settles ==
    ASSUME NEW b \in 0..4, NEW s \in Settled(b)
    PROVE  NextState(s, 1) \in Settled(b + 1)
<1>1. CASE b = 0
  BY <1>1, Moves DEF Settled, TapState
<1>2. CASE b = 1
  BY <1>2, Moves DEF Settled
<1>3. CASE b = 2
  BY <1>3, Moves DEF Settled
<1>4. CASE b = 3
  BY <1>4, Moves DEF Settled
<1>5. CASE b = 4
  BY <1>5, Moves DEF Settled
<1> QED
  BY <1>1, <1>2, <1>3, <1>4, <1>5

(* The vector of the running call. *)
LEMMA ScanVec == Typed /\ op = "scanChain" => call = 1 /\ Len(Calls) = 1 /\ Vec = ScanVector
  BY ScanCalls DEF Typed, TypeOK, Vec

LEMMA ProbeVec ==
    ASSUME Typed, op # "scanChain"
    PROVE  /\ call \in 1..7 /\ Len(Calls) = 7
           /\ call = 1 => Vec = TestLogicReset /\ Len(Vec.tms) = 5
           /\ call = 2 => Vec = RunTestIdle /\ Len(Vec.tms) = 1
           /\ call = 3 => Vec = ToShiftIR /\ Len(Vec.tms) = 4
           /\ call = 4 => Vec = LoadIR(Bits) /\ Len(Vec.tms) = irlen
           /\ call = 5 => Vec = UpdateIRVector /\ Len(Vec.tms) = 2
           /\ call = 6 => Vec = ToShiftDR /\ Len(Vec.tms) = 3
           /\ call = 7 => Vec = FinalVector
           /\ call = 7 /\ op = "probeIdCode" => Vec = ReadIdCode /\ Len(Vec.tms) = 32
           /\ call = 7 /\ op = "probeBypass" => Vec = Echo /\ Len(Vec.tms) = 32 * Len(sent) + 1
<1>1. op \in {"probeIdCode", "probeBypass"} /\ irlen \in 0..32 /\ sent \in Seq(Word) /\ idcmd \in Word
  BY DEF Typed, TypeOK
<1>2. call \in 1..7 /\ Len(Calls) = 7
  BY <1>1, ProbeCalls DEF Typed, TypeOK
<1>3. /\ call = 1 => Vec = TestLogicReset
      /\ call = 2 => Vec = RunTestIdle
      /\ call = 3 => Vec = ToShiftIR
      /\ call = 4 => Vec = LoadIR(Bits)
      /\ call = 5 => Vec = UpdateIRVector
      /\ call = 6 => Vec = ToShiftDR
      /\ call = 7 => Vec = FinalVector
  BY <1>1, ProbeCalls DEF Vec
<1>4. IsVector(LoadIR(Bits), irlen)
  BY <1>1, BypassWord, InstructionVectorFacts DEF Bits
<1>5. IsVector(ReadIdCode, 32) /\ IsVector(Echo, 32 * Len(sent) + 1)
  BY <1>1, ReadVectorFacts, EchoFacts
<1>6. /\ op = "probeIdCode" => FinalVector = ReadIdCode
      /\ op = "probeBypass" => FinalVector = Echo
  BY DEF FinalVector
<1> QED
  BY <1>2, <1>3, <1>4, <1>5, <1>6, ShortVectors DEF IsVector

LEMMA Clocks ==
    ASSUME Typed, Clock
    PROVE  /\ pc \in {"scan", "probe"} /\ bit \in Nat /\ bit < Len(Vec.tms)
           /\ Len(Vec.tms) \in Nat
           /\ tap' = Clocked(target, tap, Vec.tms[bit + 1], Vec.tdi[bit + 1])
           /\ tap'.state = NextState(tap.state, Vec.tms[bit + 1])
           /\ result' = Append(result, Tdo(tap)) /\ bit' = bit + 1
           /\ Vec.tms[bit + 1] \in Bit /\ Vec.tdi[bit + 1] \in Bit
           /\ UNCHANGED <<target, pc, op, call, sent, irlen, idcmd>>
<1>1. /\ pc \in {"scan", "probe"} /\ bit < Len(Vec.tms)
      /\ tap' = Clocked(target, tap, Vec.tms[bit + 1], Vec.tdi[bit + 1])
      /\ result' = Append(result, Tdo(tap)) /\ bit' = bit + 1
      /\ UNCHANGED <<target, pc, op, call, sent, irlen, idcmd>>
  BY DEF Clock, deviceVars
<1>2. /\ Len(Vec.tms) \in Nat /\ bit \in Nat
      /\ Vec.tms[bit + 1] \in Bit /\ Vec.tdi[bit + 1] \in Bit
  BY <1>1, TypedVec DEF Typed, TypeOK
<1>3. Clocked(target, tap, Vec.tms[bit + 1], Vec.tdi[bit + 1]).state =
        NextState(tap.state, Vec.tms[bit + 1])
  BY DEF Clocked
<1> QED
  BY <1>1, <1>2, <1>3

LEMMA ScanClockPlace ==
    ASSUME Typed, Clock, pc = "scan", ScanPlace
    PROVE  ScanPlace'
<1>1. Vec = ScanVector /\ bit \in 0..40 /\ bit' = bit + 1
  <2>1. op = "scanChain"
    BY DEF Typed, Control
  <2>2. Vec = ScanVector /\ Len(Vec.tms) = 41
    BY <2>1, ScanVec, ScanVectorFacts DEF IsVector
  <2>3. bit \in Nat /\ bit < Len(Vec.tms) /\ bit' = bit + 1
    BY Clocks, Zenon
  <2> QED
    BY <2>2, <2>3
<1>2. tap'.state = NextState(tap.state, IF bit <= 4 \/ bit = 6 THEN 1 ELSE 0)
  <2>1. bit + 1 \in 1..41
    BY <1>1
  <2>2. Vec.tms[bit + 1] = IF bit + 1 <= 5 \/ bit + 1 = 7 THEN 1 ELSE 0
    BY <1>1, <2>1, ScanVectorFacts
  <2> QED
    BY <1>1, <2>2, Clocks
<1>3. CASE bit <= 4
  <2>1. tap'.state \in Settled(bit + 1)
    BY <1>1, <1>2, <1>3, Settles DEF ScanPlace
  <2> QED
    BY <1>1, <1>3, <2>1 DEF ScanPlace
<1>4. CASE bit = 5
  <2>1. tap.state = "Reset"
    BY <1>4 DEF ScanPlace, Settled
  <2> QED
    BY <1>1, <1>2, <1>4, <2>1, Moves DEF ScanPlace
<1>5. CASE bit > 5
  BY <1>1, <1>2, <1>5, Moves DEF ScanPlace
<1> QED
  BY <1>1, <1>3, <1>4, <1>5

LEMMA ProbeClockPlace ==
    ASSUME Typed, Clock, pc = "probe", irlen > 0, ProbePlace
    PROVE  ProbePlace'
<1>1. /\ op # "scanChain" /\ call \in 1..7 /\ irlen \in 1..32 /\ bit \in Nat
      /\ op \in {"probeIdCode", "probeBypass"} /\ sent \in Seq(Word) /\ idcmd \in Word
  BY ProbeVec, Clocks DEF Typed, TypeOK, Control
<1>2. /\ bit < Len(Vec.tms) /\ bit' = bit + 1
      /\ tap'.state = NextState(tap.state, Vec.tms[bit + 1])
      /\ UNCHANGED <<call, op, irlen>>
  BY Clocks
<1>3. CASE call = 1
  <2>1. bit \in 0..4 /\ Vec.tms[bit + 1] = 1
    <3>1. Vec = TestLogicReset /\ Len(Vec.tms) = 5
      BY <1>1, <1>3, ProbeVec
    <3>2. bit \in 0..4 /\ bit + 1 \in 1..5
      BY <1>1, <1>2, <3>1
    <3> QED
      BY <3>1, <3>2, ShortVectors
  <2>2. tap'.state \in Settled(bit + 1)
    BY <1>2, <1>3, <2>1, Settles DEF ProbePlace
  <2> QED
    BY <1>2, <1>3, <2>2 DEF ProbePlace
<1>4. CASE call = 2
  <2>1. bit = 0 /\ Vec.tms[1] = 0
    BY <1>1, <1>2, <1>4, ProbeVec, ShortVectors
  <2> QED
    BY <1>2, <1>4, <2>1, Moves DEF ProbePlace
<1>5. CASE call = 3
  <2>1. bit \in {0, 1, 2, 3} /\ Vec.tms = <<1, 1, 0, 0>>
    BY <1>1, <1>2, <1>5, ProbeVec, ShortVectors
  <2> QED
    BY <1>2, <1>5, <2>1, Moves DEF ProbePlace
<1>6. CASE call = 4
  <2>1. /\ bit \in 0..irlen - 1
        /\ Vec.tms[bit + 1] = IF bit + 1 = irlen THEN 1 ELSE 0
    <3>1. Bits \in Word
      BY <1>1, BypassWord DEF Bits
    <3>2. Vec = LoadIR(Bits) /\ Len(Vec.tms) = irlen
      BY <1>1, <1>6, ProbeVec
    <3>3. \A i \in 1..irlen : LoadIR(Bits).tms[i] = IF i = irlen THEN 1 ELSE 0
      BY <1>1, <3>1, InstructionVectorFacts
    <3>4. bit + 1 \in 1..irlen
      BY <1>1, <1>2, <3>2
    <3> QED
      BY <1>1, <3>2, <3>3, <3>4
  <2>2. tap.state = "ShiftIR"
    BY <1>1, <1>6, <2>1 DEF ProbePlace
  <2>3. tap'.state = IF bit' = irlen THEN "Exit1IR" ELSE "ShiftIR"
    BY <1>2, <2>1, <2>2, Moves
  <2> QED
    BY <1>2, <1>6, <2>3 DEF ProbePlace
<1>7. CASE call = 5
  <2>1. bit \in {0, 1} /\ Vec.tms = <<1, 0>>
    BY <1>1, <1>2, <1>7, ProbeVec, ShortVectors
  <2> QED
    BY <1>2, <1>7, <2>1, Moves DEF ProbePlace
<1>8. CASE call = 6
  <2>1. bit \in {0, 1, 2} /\ Vec.tms = <<1, 0, 0>>
    BY <1>1, <1>2, <1>8, ProbeVec, ShortVectors
  <2> QED
    BY <1>2, <1>8, <2>1, Moves DEF ProbePlace
<1>9. CASE call = 7 /\ op = "probeIdCode"
  <2>1. bit \in 0..31 /\ Vec.tms[bit + 1] = IF bit + 1 = 32 THEN 1 ELSE 0
    <3>1. Vec = ReadIdCode /\ Len(Vec.tms) = 32
      BY <1>1, <1>9, ProbeVec
    <3>2. bit \in 0..31 /\ bit + 1 \in 1..32
      BY <1>1, <1>2, <3>1
    <3> QED
      BY <3>1, <3>2, ReadVectorFacts
  <2> QED
    BY <1>2, <1>9, <2>1, Moves DEF ProbePlace
<1>10. CASE call = 7 /\ op = "probeBypass"
  <2>1. Vec = Echo /\ bit + 1 \in 1..32 * Len(sent) + 1
    BY <1>1, <1>2, <1>10, ProbeVec
  <2>2. Vec.tms[bit + 1] = 0
    BY <1>1, <2>1, EchoFacts
  <2> QED
    BY <1>2, <1>10, <2>2, Moves DEF ProbePlace
<1> QED
  BY <1>1, <1>3, <1>4, <1>5, <1>6, <1>7, <1>8, <1>9, <1>10

LEMMA NextCallPlace ==
    ASSUME Typed, NextCall, Place
    PROVE  Place'
<1>1. /\ pc \in {"scan", "probe"} /\ bit = Len(Vec.tms) /\ call < Len(Calls)
      /\ call' = call + 1 /\ bit' = 0
      /\ UNCHANGED <<tap, pc, irlen, op, sent>>
  BY DEF NextCall, deviceVars
<1>2. pc = "probe" /\ op # "scanChain"
  <2>1. CASE op = "scanChain"
    <3>1. call = 1 /\ Len(Calls) = 1
      BY <2>1, ScanVec
    <3> QED
      BY <1>1, <3>1
  <2> QED
    BY <1>1, <2>1 DEF Typed, Control
<1>3. CASE irlen > 0
  <2>1. ProbePlace
    BY <1>2, <1>3 DEF Place
  <2>2. call \in 1..6
    <3>1. call \in 1..7 /\ Len(Calls) = 7
      BY <1>2, ProbeVec
    <3> QED
      BY <1>1, <3>1
  <2>3. CASE call = 1
    <3>1. bit = 5
      BY <1>1, <1>2, <2>3, ProbeVec
    <3>2. tap.state = "Reset"
      BY <2>1, <2>3, <3>1 DEF ProbePlace, Settled
    <3> QED
      BY <1>1, <1>2, <2>3, <3>2 DEF Place, ProbePlace
  <2>4. CASE call = 2
    <3>1. bit = 1
      BY <1>1, <1>2, <2>4, ProbeVec
    <3> QED
      BY <1>1, <1>2, <2>1, <2>4, <3>1 DEF Place, ProbePlace
  <2>5. CASE call = 3
    <3>1. bit = 4
      BY <1>1, <1>2, <2>5, ProbeVec
    <3> QED
      BY <1>1, <1>2, <1>3, <2>1, <2>5, <3>1 DEF Place, ProbePlace
  <2>6. CASE call = 4
    <3>1. bit = irlen
      BY <1>1, <1>2, <2>6, ProbeVec
    <3> QED
      BY <1>1, <1>2, <2>1, <2>6, <3>1 DEF Place, ProbePlace
  <2>7. CASE call = 5
    <3>1. bit = 2
      BY <1>1, <1>2, <2>7, ProbeVec
    <3> QED
      BY <1>1, <1>2, <2>1, <2>7, <3>1 DEF Place, ProbePlace
  <2>8. CASE call = 6
    <3>1. bit = 3
      BY <1>1, <1>2, <2>8, ProbeVec
    <3> QED
      BY <1>1, <1>2, <2>1, <2>8, <3>1 DEF Place, ProbePlace
  <2> QED
    BY <2>2, <2>3, <2>4, <2>5, <2>6, <2>7, <2>8
<1>4. CASE ~(irlen > 0)
  BY <1>1, <1>2, <1>4 DEF Place
<1> QED
  BY <1>3, <1>4

LEMMA NextPlace == Typed /\ Place /\ [Next]_vars => Place'
<1> SUFFICES ASSUME Typed, Place, [Next]_vars PROVE Place'
  OBVIOUS
<1>1. tap'.state \in TapState
  <2>1. Typed'
    BY NextTyped
  <2> QED
    BY <2>1 DEF Typed, TypeOK
<1>2. CASE SetClock
  <2>1. pc' = "scan" /\ bit' = 0
    BY <1>2 DEF SetClock, Begins
  <2> QED
    BY <1>1, <2>1 DEF Place, ScanPlace, Settled
<1>3. CASE Clock
  <2>1. UNCHANGED <<pc, irlen>> /\ pc \in {"scan", "probe"}
    BY <1>3, Clocks
  <2>2. CASE pc = "scan"
    BY <1>3, <2>1, <2>2, ScanClockPlace DEF Place
  <2>3. CASE pc = "probe"
    BY <1>3, <2>1, <2>3, ProbeClockPlace DEF Place
  <2> QED
    BY <2>1, <2>2, <2>3
<1>4. CASE NextCall
  BY <1>4, NextCallPlace
<1>5. CASE Returns
  <2>1. /\ pc \in {"scan", "probe"} /\ pc' = IF pc = "scan" THEN "lookup" ELSE "answered"
        /\ UNCHANGED <<tap, call, bit, op, irlen>>
    BY <1>5 DEF Returns, callVars, deviceVars
  <2> QED
    BY <2>1 DEF Place, ScanPlace, ProbePlace
<1>6. CASE Lookup
  <2>1. pc' \in {"clock", "ready"}
    BY <1>6 DEF Lookup
  <2> QED
    BY <2>1 DEF Place
<1>7. CASE Probe
  <2>1. pc' = "probe" /\ call' = 1 /\ bit' = 0
    BY <1>7 DEF Probe, Begins
  <2> QED
    BY <1>1, <2>1 DEF Place, ProbePlace, Settled
<1>8. CASE Kill
  BY <1>8 DEF Kill, Place
<1>9. CASE UNCHANGED vars
  BY <1>9 DEF Place, ScanPlace, ProbePlace, vars, callVars, deviceVars
<1> QED
  BY <1>2, <1>3, <1>4, <1>5, <1>6, <1>7, <1>8, <1>9 DEF Next

LEMMA PlaceInPlace == Typed /\ Place => InPlace
<1> SUFFICES ASSUME Typed, Place, pc = "probe", bit = 0, irlen > 0
             PROVE  tap.state \in Route[call]
  BY DEF InPlace
<1>1. ProbePlace /\ tap.state \in TapState /\ op # "scanChain" /\ irlen \in 1..32
  BY DEF Place, Typed, TypeOK, Control
<1>2. call \in 1..7
  BY <1>1, ProbeVec
<1> QED
  BY <1>1, <1>2 DEF ProbePlace, Route

(* Each call of shift() that selects an instruction, loads it and shifts   *)
(* data through it finds the target in the state its comment names, for    *)
(* every target, every length of instructions from 1 to 32, and wherever   *)
(* others left the target (xvcdriver.cpp, lines 19 to 56 and 102 to 137).         *)
THEOREM AlwaysInPlace == Spec => []InPlace
<1>1. Init => Typed /\ Place
  BY InitTyped DEF Init, Place
<1>2. Typed /\ Place /\ [Next]_vars => (Typed /\ Place)'
  BY NextTyped, NextPlace
<1>3. Typed /\ Place => InPlace
  BY PlaceInPlace
<1> QED
  BY <1>1, <1>2, <1>3, PTL DEF Spec

-----------------------------------------------------------------------------
(***************************************************************************)
(* Proofs about what the sequences of XVCDriver read and leave behind, and *)
(* about what detection makes of it, for every target and every list of    *)
(* devices.                                                                *)
(***************************************************************************)

(* The sequence knows what it needs. *)
Trusted == Knows /\ (op = "probeBypass" => SixOnesBypass)

(* The instruction a probe is to select. *)
Chosen == IF op = "probeIdCode" THEN IdCode(target) ELSE Bypass(target)

(* A register r of the IDCODE, k bits of which went out. *)
Leaves(r, k) == Len(r) = 32 /\ \A i \in 1..32 : i + k <= 32 => r[i] = target.idcode[i + k]

(* scanChain(): a reset selects the IDCODE, and the bits come in order.    *)
ScanContent ==
    /\ bit >= 5 => tap.inst = IdCode(target)
    /\ bit >= 9 => Leaves(tap.dr, bit - 9)
    /\ \A i \in 10..bit : result[i] = target.idcode[i - 9]

(* A probe: the instruction goes in, is updated, captures its register,    *)
(* and the register comes out.                                             *)
LoadsIR == \A j \in 1..irlen : j > irlen - bit => tap.ir[j] = Chosen[j - irlen + bit]

ReadsWord ==
    /\ Leaves(tap.dr, bit)
    /\ \A i \in 1..bit : result[i] = target.idcode[i]

EchoesWords ==
    /\ Len(tap.dr) = 1 /\ tap.dr[1] = IF bit = 0 THEN 0 ELSE Echo.tdi[bit]
    /\ \A i \in 2..bit : result[i] = Echo.tdi[i - 1]

ProbeContent ==
    /\ call = 4 => LoadsIR
    /\ call = 5 => IF bit = 0 THEN tap.ir = Chosen ELSE tap.inst = Chosen
    /\ call = 6 => /\ tap.inst = Chosen
                   /\ bit = 3 => tap.dr = CapturedDR(target, Chosen)
    /\ call = 7 => /\ tap.inst = Chosen
                   /\ IF op = "probeIdCode" THEN ReadsWord ELSE EchoesWords

Content ==
    /\ pc \in {"scan", "lookup"} => ScanContent
    /\ pc \in {"probe", "answered"} /\ Trusted => ProbeContent

(* After b cycles with TMS high, from where a scan or a probe ends. *)
OwnSettled(b) ==
    CASE b = 0 -> {"Reset", "ShiftDR", "Exit1DR"}
      [] b = 1 -> {"Reset", "Exit1DR", "UpdateDR"}
      [] b = 2 -> {"Reset", "UpdateDR", "SelectDR"}
      [] b = 3 -> {"Reset", "SelectDR", "SelectIR"}
      [] b = 4 -> {"Reset", "SelectIR"}
      [] b = 5 -> {"Reset"}

(* While nobody else moves the target, no register is updated by accident. *)
Safe == op = "scanChain" \/ (Knows /\ SixOnesBypass)
OwnInv ==
    own /\ Safe =>
        /\ Harmless(tap.inst)
        /\ pc \in {"clock", "ready", "answered"} => tap.state \in {"ShiftDR", "Exit1DR"}
        /\ pc = "scan" /\ bit <= 5 => tap.state \in OwnSettled(bit)
        /\ pc = "probe" /\ call = 1 => tap.state \in OwnSettled(bit)

(* What detection has concluded so far. *)
Quiet == \A w \in target.noise : ~Listed(w)
Tried == IF pc \in {"clock", "scan", "lookup"} THEN 0..delay - 1 ELSE 0..delay
Detection ==
    /\ pc \in {"ready", "probe", "answered"} => ~MoreDelays
    /\ driver = "FTDI" => delay = 0
    /\ Quiet =>
         /\ Listed(target.idcode) /\ Tried \cap target.clear # {} => detected
         /\ detected => /\ idcode = target.idcode
                        /\ \E d \in ToSet(db) : Names(d, idcode) /\ irlen = d.irlen /\ idcmd = d.idcmd

AnswerInv == Typed /\ Place /\ Content /\ OwnInv /\ Detection
-----------------------------------------------------------------------------
(* A cycle of TCK, register by register.                                   *)

LEMMA ClockedRegisters ==
  ASSUME Typed, Clock
  PROVE  /\ tap'.inst = IF tap'.state = "Reset" THEN IdCode(target)
                        ELSE IF tap'.state = "UpdateIR" THEN tap.ir ELSE tap.inst
         /\ tap.state = "ShiftIR" => tap'.ir = Append(Tail(tap.ir), Vec.tdi[bit + 1])
         /\ tap.state \notin {"CaptureIR", "ShiftIR"} => tap'.ir = tap.ir
         /\ tap.state = "CaptureDR" => tap'.dr = CapturedDR(target, tap.inst)
         /\ tap.state = "ShiftDR" => tap'.dr = Append(Tail(tap.dr), Vec.tdi[bit + 1])
         /\ \A i \in 1..bit : result'[i] = result[i]
         /\ tap.state = "ShiftDR" => result'[bit + 1] = tap.dr[1]
         /\ tap.dr \in Seq(Bit) /\ tap.dr # <<>>
<1>1. /\ tap' = Clocked(target, tap, Vec.tms[bit + 1], Vec.tdi[bit + 1])
      /\ tap'.state = NextState(tap.state, Vec.tms[bit + 1])
      /\ result' = Append(result, Tdo(tap))
  BY Clocks
<1>2. result \in Seq(Bit) /\ Len(result) = bit /\ tap.dr \in Seq(Bit) /\ tap.dr # <<>>
  BY DEF Typed, TypeOK
<1>3. /\ \A i \in 1..bit : result'[i] = result[i]
      /\ result'[bit + 1] = Tdo(tap)
  <2>1. Tdo(tap) \in Bit
    BY ClockedTyped, TypedTap, Clocks DEF Typed, TypeOK
  <2> DEFINE b == Tdo(tap)
  <2> HIDE DEF b
  <2>2. /\ \A i \in 1..bit : Append(result, b)[i] = result[i]
        /\ Append(result, b)[bit + 1] = b
    BY <1>2, <2>1, AppendProperties DEF b
  <2> QED
    BY <1>1, <2>2 DEF b
<1>4. tap.state = "ShiftDR" => Tdo(tap) = tap.dr[1]
  <2>1. Head(tap.dr) = tap.dr[1]
    BY <1>2
  <2> QED
    BY <2>1 DEF Tdo
<1> QED
  BY <1>1, <1>2, <1>3, <1>4 DEF Clocked

(* One bit of the IDCODE leaves. *)
LEMMA LeavesBit ==
  ASSUME NEW r \in Seq(Bit), r # <<>>, NEW k \in 0..31, NEW b \in Bit, Leaves(r, k)
  PROVE  Leaves(Append(Tail(r), b), k + 1) /\ r[1] = target.idcode[k + 1]
<1>1. Len(r) = 32 /\ \A i \in 1..32 : i + k <= 32 => r[i] = target.idcode[i + k]
  BY DEF Leaves
<1> DEFINE w == Append(Tail(r), b)
<1>2. Len(w) = Len(r) /\ \A i \in 1..Len(r) : w[i] = IF i = Len(r) THEN b ELSE r[i + 1]
  BY Shifted
<1> HIDE DEF w
<1>3. ASSUME NEW i \in 1..32, i + (k + 1) <= 32 PROVE w[i] = target.idcode[i + (k + 1)]
  <2>1. i # 32 /\ i + 1 \in 1..32 /\ (i + 1) + k <= 32 /\ (i + 1) + k = i + (k + 1)
    BY <1>3
  <2>2. w[i] = r[i + 1]
    BY <1>1, <1>2, <2>1
  <2> QED
    BY <1>1, <2>1, <2>2
<1>4. r[1] = target.idcode[k + 1]
  <2>1. 1 \in 1..32 /\ 1 + k <= 32 /\ 1 + k = k + 1
    OBVIOUS
  <2> QED
    BY <1>1, <2>1
<1>5. Leaves(w, k + 1)
  BY <1>1, <1>2, <1>3 DEF Leaves
<1> QED
  BY <1>4, <1>5 DEF w

(* All of it is there when it is captured. *)
LEMMA AllOfIt ==
  ASSUME target \in Targets
  PROVE  Leaves(CapturedDR(target, IdCode(target)), 0)
<1>1. CapturedDR(target, IdCode(target)) = target.idcode /\ Len(target.idcode) = 32
  BY CapturedFacts
<1> QED
  BY <1>1 DEF Leaves

-----------------------------------------------------------------------------
(* What is read.                                                           *)

LEMMA ScanClockContent ==
  ASSUME Typed, Clock, pc = "scan", ScanPlace, ScanContent
  PROVE  ScanContent'
<1>1. ScanPlace'
  BY ScanClockPlace
<1>2. Vec = ScanVector /\ bit \in 0..40 /\ bit' = bit + 1 /\ target' = target
  <2>1. op = "scanChain"
    BY DEF Typed, Control
  <2>2. Vec = ScanVector /\ Len(Vec.tms) = 41
    BY <2>1, ScanVec, ScanVectorFacts DEF IsVector
  <2>3. bit \in Nat /\ bit < Len(Vec.tms) /\ bit' = bit + 1 /\ target' = target
    BY Clocks, Zenon
  <2> QED
    BY <2>2, <2>3
<1>3. target \in Targets /\ Vec.tdi[bit + 1] \in Bit
  BY Clocks DEF Typed, TypeOK
<1>4. bit' >= 5 => tap'.inst = IdCode(target)
  <2>1. CASE bit = 4
    <3>1. tap'.state = "Reset"
      BY <1>1, <1>2, <2>1 DEF ScanPlace, Settled
    <3> QED
      BY <3>1, ClockedRegisters
  <2>2. CASE bit >= 5
    <3>1. tap'.state \notin {"Reset", "UpdateIR"}
      BY <1>1, <1>2, <2>2 DEF ScanPlace
    <3> QED
      BY <1>2, <2>2, <3>1, ClockedRegisters DEF ScanContent
  <2> QED
    BY <1>2, <2>1, <2>2
<1>5. ASSUME bit' >= 9 PROVE Leaves(tap'.dr, bit' - 9)
  <2>1. CASE bit = 8
    <3>1. tap.state = "CaptureDR" /\ tap.inst = IdCode(target)
      BY <2>1 DEF ScanPlace, ScanContent
    <3>2. tap'.dr = CapturedDR(target, IdCode(target))
      BY <3>1, ClockedRegisters
    <3> QED
      BY <1>2, <1>3, <2>1, <3>2, AllOfIt
  <2>2. CASE bit >= 9
    <3>1. tap.state = "ShiftDR" /\ Leaves(tap.dr, bit - 9)
      BY <1>2, <2>2 DEF ScanPlace, ScanContent
    <3>2. tap'.dr = Append(Tail(tap.dr), Vec.tdi[bit + 1]) /\ tap.dr \in Seq(Bit) /\ tap.dr # <<>>
      BY <3>1, ClockedRegisters
    <3>3. bit - 9 \in 0..31 /\ bit' - 9 = (bit - 9) + 1
      BY <1>2, <2>2
    <3> QED
      BY <1>3, <3>1, <3>2, <3>3, LeavesBit
  <2> QED
    BY <1>2, <1>5, <2>1, <2>2
<1>6. ASSUME NEW i \in 10..bit' PROVE result'[i] = target.idcode[i - 9]
  <2>1. CASE i <= bit
    <3>1. i \in 1..bit /\ i \in 10..bit
      BY <1>2, <2>1
    <3> QED
      BY <3>1, ClockedRegisters DEF ScanContent
  <2>2. CASE i = bit + 1
    <3>1. bit >= 9 /\ bit - 9 \in 0..31 /\ i - 9 = (bit - 9) + 1
      BY <1>2, <2>2
    <3>2. tap.state = "ShiftDR" /\ Leaves(tap.dr, bit - 9)
      BY <1>2, <3>1 DEF ScanPlace, ScanContent
    <3>3. result'[i] = tap.dr[1] /\ tap.dr \in Seq(Bit) /\ tap.dr # <<>>
      BY <2>2, <3>2, ClockedRegisters
    <3> QED
      BY <1>3, <3>1, <3>2, <3>3, LeavesBit
  <2> QED
    BY <1>2, <2>1, <2>2
<1> QED
  BY <1>2, <1>4, <1>5, <1>6 DEF ScanContent, Leaves

(* The vector that loads an instruction holds the one the probe needs. *)
LEMMA ChosenFacts ==
  ASSUME Typed, Trusted, op # "scanChain"
  PROVE  /\ irlen = target.irlen /\ irlen \in 2..32
         /\ Chosen \in [1..irlen -> Bit] /\ IdCode(target) # Bypass(target)
         /\ \A i \in 1..irlen : LoadIR(Bits).tdi[i] = Chosen[i]
<1>1. /\ irlen = target.irlen /\ target \in Targets /\ irlen \in 0..32 /\ idcmd \in Word
      /\ op \in {"probeIdCode", "probeBypass"}
  BY DEF Typed, TypeOK, Trusted, Knows
<1>2. irlen \in 2..32 /\ Chosen \in [1..irlen -> Bit] /\ IdCode(target) # Bypass(target)
  BY <1>1, Target DEF Chosen
<1>3. Bits \in Word
  BY <1>1, BypassWord DEF Bits
<1>4. \A i \in 1..irlen : LoadIR(Bits).tdi[i] = Bits[i]
  BY <1>1, <1>3, InstructionVectorFacts
<1>5. ASSUME NEW i \in 1..irlen PROVE Bits[i] = Chosen[i]
  <2>1. CASE op = "probeIdCode"
    BY <1>1, <2>1 DEF Bits, Chosen, Trusted, Knows, IdCode
  <2>2. CASE op = "probeBypass"
    <3>1. i \in 1..6
      BY <1>1, <1>2, <2>2 DEF Trusted, SixOnesBypass
    <3>2. BypassInstruction[i] = 1
      BY <3>1, BypassWord
    <3> QED
      BY <1>1, <2>2, <3>2 DEF Bits, Chosen, Bypass, Ones
  <2> QED
    BY <1>1, <2>1, <2>2
<1> QED
  BY <1>1, <1>2, <1>4, <1>5

(* The bits of the instruction arrive behind each other. *)
LEMMA ArrivesBit ==
  ASSUME NEW n \in Nat \ {0}, NEW r \in [1..n -> Bit], NEW c, NEW k \in 0..n - 1, NEW b \in Bit,
         b = c[k + 1], \A j \in 1..n : j > n - k => r[j] = c[j - n + k]
  PROVE  \A j \in 1..n : j > n - (k + 1) => Append(Tail(r), b)[j] = c[j - n + (k + 1)]
<1> DEFINE w == Append(Tail(r), b)
<1>1. \A i \in 1..n : w[i] = IF i = n THEN b ELSE r[i + 1]
  BY ShiftedRegister
<1> HIDE DEF w
<1>2. ASSUME NEW j \in 1..n, j > n - (k + 1) PROVE w[j] = c[j - n + (k + 1)]
  <2>1. CASE j = n
    <3>1. j - n + (k + 1) = k + 1
      BY <2>1
    <3> QED
      BY <1>1, <2>1, <3>1
  <2>2. CASE j # n
    <3>1. j + 1 \in 1..n /\ j + 1 > n - k /\ (j + 1) - n + k = j - n + (k + 1)
      BY <1>2, <2>2
    <3>2. w[j] = r[j + 1]
      BY <1>1, <2>2
    <3>3. r[j + 1] = c[(j + 1) - n + k]
      BY <3>1
    <3> QED
      BY <3>1, <3>2, <3>3
  <2> QED
    BY <2>1, <2>2
<1> QED
  BY <1>2 DEF w

(* All of them have. *)
LEMMA Loaded ==
  ASSUME Typed, Trusted, op # "scanChain", LoadsIR, bit = irlen
  PROVE  tap.ir = Chosen
<1>1. irlen = target.irlen /\ irlen \in 2..32 /\ Chosen \in [1..irlen -> Bit]
  BY ChosenFacts
<1>2. tap.ir \in [1..irlen -> Bit]
  BY <1>1 DEF Typed, TypeOK
<1>3. ASSUME NEW j \in 1..irlen PROVE tap.ir[j] = Chosen[j]
  <2>1. j > irlen - bit /\ j - irlen + bit = j
    BY <1>1
  <2> QED
    BY <2>1 DEF LoadsIR
<1> QED
  BY <1>1, <1>2, <1>3

(* A cycle of a probe: the instruction goes in bit by bit, takes effect,   *)
(* and stays.                                                              *)
LEMMA ProbeClockContent ==
  ASSUME Typed, Clock, pc = "probe", Trusted, ProbePlace, ProbeContent
  PROVE  ProbeContent'
<1>1. /\ op # "scanChain" /\ op \in {"probeIdCode", "probeBypass"} /\ call \in 1..7
      /\ bit \in Nat /\ bit < Len(Vec.tms) /\ bit' = bit + 1
      /\ UNCHANGED <<op, call, irlen, target, sent>> /\ Vec.tdi[bit + 1] \in Bit
      /\ target \in Targets /\ sent \in Seq(Word)
  BY ProbeVec, Clocks DEF Typed, TypeOK, Control
<1>11. /\ call = 5 => bit < 2
       /\ call = 6 => bit < 3
       /\ call = 7 /\ op = "probeIdCode" => bit < 32
  <2>1. op # "scanChain" /\ bit < Len(Vec.tms)
    BY <1>1
  <2> QED
    BY <2>1, ProbeVec
<1>12. bit \in Nat /\ op \in {"probeIdCode", "probeBypass"}
  BY <1>1
<1>13. /\ call = 5 => bit = 0 \/ bit = 1
       /\ call = 6 => bit = 0 \/ bit = 1 \/ bit = 2
       /\ call = 7 /\ op = "probeIdCode" => bit \in 0..31 /\ bit # 32
  BY <1>11, <1>12
<1>2. irlen = target.irlen /\ irlen \in 2..32 /\ Chosen' = Chosen
  BY <1>1, ChosenFacts DEF Chosen
<1>3. ProbePlace'
  BY <1>2, ProbeClockPlace
<1>4. CASE call \in {1, 2, 3}
  BY <1>1, <1>4 DEF ProbeContent
<1>5. CASE call = 4
  <2>1. bit \in 0..irlen - 1 /\ Vec = LoadIR(Bits)
    BY <1>1, <1>2, <1>5, ProbeVec
  <2>2. tap.state = "ShiftIR" /\ LoadsIR
    BY <1>2, <1>5, <2>1 DEF ProbePlace, ProbeContent
  <2>3. tap'.ir = Append(Tail(tap.ir), Vec.tdi[bit + 1])
    BY <2>2, ClockedRegisters
  <2>4. Vec.tdi[bit + 1] = Chosen[bit + 1]
    <3>1. bit + 1 \in 1..irlen
      BY <1>2, <2>1
    <3> QED
      BY <1>1, <2>1, <3>1, ChosenFacts
  <2>5. tap.ir \in [1..irlen -> Bit] /\ irlen \in Nat \ {0}
    <3>1. tap.ir \in [1..target.irlen -> Bit]
      BY DEF Typed, TypeOK
    <3>2. irlen = target.irlen
      BY <1>2
    <3>3. irlen \in Nat \ {0}
      BY <1>2
    <3> QED
      BY <3>1, <3>2, <3>3, Zenon
  <2>6. \A j \in 1..irlen : j > irlen - (bit + 1) => tap'.ir[j] = Chosen[j - irlen + (bit + 1)]
    <3>1. \A j \in 1..irlen : j > irlen - bit => tap.ir[j] = Chosen[j - irlen + bit]
      BY <2>2 DEF LoadsIR
    <3> DEFINE C == Chosen
               r == tap.ir
               b == Vec.tdi[bit + 1]
    <3>4. bit + 1 \in 1..irlen
      BY <1>2, <2>1
    <3>5. Chosen[bit + 1] \in Bit
      BY <1>1, <3>4, ChosenFacts
    <3>6. r \in [1..irlen -> Bit]
      BY <2>5
    <3>7. b \in Bit /\ b = C[bit + 1]
      BY <2>4, <3>5
    <3>8. \A j \in 1..irlen : j > irlen - bit => r[j] = C[j - irlen + bit]
      BY <3>1
    <3> HIDE DEF C, r, b
    <3>3. \A j \in 1..irlen : j > irlen - (bit + 1) => Append(Tail(r), b)[j] = C[j - irlen + (bit + 1)]
      BY <2>1, <2>5, <3>6, <3>7, <3>8, ArrivesBit
    <3> QED
      BY <2>3, <3>3 DEF C, r, b
  <2>7. LoadsIR'
    BY <1>1, <1>2, <2>6 DEF LoadsIR
  <2> QED
    BY <1>1, <1>5, <2>7 DEF ProbeContent
<1>6. CASE call = 5
  <2>1. bit \in {0, 1}
    BY <1>13, <1>6
  <2>2. CASE bit = 0
    <3>1. tap'.state = "UpdateIR" /\ tap.ir = Chosen
      BY <1>1, <1>3, <1>6, <2>2 DEF ProbePlace, ProbeContent
    <3> QED
      BY <1>1, <1>2, <1>6, <2>2, <3>1, ClockedRegisters DEF ProbeContent
  <2>3. CASE bit = 1
    <3>1. tap'.state = "Idle" /\ tap.inst = Chosen
      BY <1>1, <1>3, <1>6, <2>3 DEF ProbePlace, ProbeContent
    <3> QED
      BY <1>1, <1>2, <1>6, <2>3, <3>1, ClockedRegisters DEF ProbeContent
  <2> QED
    BY <2>1, <2>2, <2>3
<1>7. CASE call = 6
  <2>1. bit \in {0, 1, 2}
    BY <1>13, <1>7
  <2>2. tap'.state \notin {"Reset", "UpdateIR"} /\ tap.inst = Chosen
    BY <1>1, <1>3, <1>7, <2>1 DEF ProbePlace, ProbeContent
  <2>3. tap'.inst = Chosen
    BY <2>2, ClockedRegisters
  <2>4. bit = 2 => tap'.dr = CapturedDR(target, Chosen)
    <3> SUFFICES ASSUME bit = 2 PROVE tap'.dr = CapturedDR(target, Chosen)
      OBVIOUS
    <3>1. tap.state = "CaptureDR"
      BY <1>7 DEF ProbePlace
    <3> QED
      BY <2>2, <3>1, ClockedRegisters
  <2> QED
    BY <1>1, <1>2, <1>7, <2>1, <2>3, <2>4 DEF ProbeContent
<1>8. CASE call = 7
  <2>1. tap'.state \notin {"Reset", "UpdateIR"} /\ tap.inst = Chosen
    BY <1>1, <1>3, <1>8 DEF ProbePlace, ProbeContent
  <2>2. tap'.inst = Chosen
    BY <2>1, ClockedRegisters
  <2>3. tap.state = "ShiftDR"
    BY <1>13, <1>8 DEF ProbePlace
  <2>4. /\ tap'.dr = Append(Tail(tap.dr), Vec.tdi[bit + 1]) /\ tap.dr \in Seq(Bit) /\ tap.dr # <<>>
        /\ result'[bit + 1] = tap.dr[1]
    BY <2>3, ClockedRegisters
  <2>5. CASE op = "probeIdCode"
    <3>1. bit \in 0..31 /\ ReadsWord
      BY <1>13, <1>8, <2>5 DEF ProbeContent
    <3>2. Leaves(tap'.dr, bit + 1) /\ tap.dr[1] = target.idcode[bit + 1]
      BY <1>1, <2>4, <3>1, LeavesBit DEF ReadsWord
    <3>3. ASSUME NEW i \in 1..bit' PROVE result'[i] = target.idcode[i]
      <4>1. CASE i = bit + 1
        BY <2>4, <3>2, <4>1
      <4>2. CASE i # bit + 1
        <5>1. i \in 1..bit
          BY <1>1, <4>2
        <5> QED
          BY <3>1, <5>1, ClockedRegisters DEF ReadsWord
      <4> QED
        BY <4>1, <4>2
    <3>4. ReadsWord'
      BY <1>1, <3>2, <3>3 DEF ReadsWord, Leaves
    <3> QED
      BY <1>1, <1>2, <1>8, <2>2, <2>5, <3>4 DEF ProbeContent
  <2>6. CASE op = "probeBypass"
    <3>1. EchoesWords /\ Vec = Echo
      BY <1>1, <1>8, <2>6, ProbeVec DEF ProbeContent
    <3>2. Len(tap'.dr) = 1 /\ tap'.dr[1] = Echo.tdi[bit + 1]
      <4>1. Len(tap.dr) = 1 /\ 1 \in 1..Len(tap.dr)
        BY <3>1 DEF EchoesWords
      <4>2. /\ Len(tap'.dr) = Len(tap.dr)
            /\ \A i \in 1..Len(tap.dr) :
                 tap'.dr[i] = IF i = Len(tap.dr) THEN Vec.tdi[bit + 1] ELSE tap.dr[i + 1]
        BY <1>1, <2>4, Shifted
      <4> QED
        BY <3>1, <4>1, <4>2
    <3>3. ASSUME NEW i \in 2..bit' PROVE result'[i] = Echo.tdi[i - 1]
      <4>1. CASE i = bit + 1
        <5>1. bit # 0 /\ i - 1 = bit
          BY <1>1, <4>1
        <5>2. tap.dr[1] = Echo.tdi[bit]
          BY <3>1, <5>1 DEF EchoesWords
        <5> QED
          BY <2>4, <4>1, <5>1, <5>2
      <4>2. CASE i # bit + 1
        <5>1. i \in 2..bit /\ i \in 1..bit
          BY <1>1, <4>2
        <5> QED
          BY <3>1, <5>1, ClockedRegisters DEF EchoesWords
      <4> QED
        BY <4>1, <4>2
    <3>4. Echo' = Echo /\ bit' # 0 /\ bit' = bit + 1
      BY <1>1 DEF Echo, SentBits
    <3>5. EchoesWords'
      BY <3>2, <3>3, <3>4 DEF EchoesWords
    <3> QED
      BY <1>1, <1>2, <1>8, <2>2, <2>6, <3>5 DEF ProbeContent
  <2> QED
    BY <1>1, <2>5, <2>6
<1> QED
  BY <1>1, <1>4, <1>5, <1>6, <1>7, <1>8

(* Between two calls nothing moves. *)
LEMMA NextCallContent ==
  ASSUME Typed, NextCall, Place, Content
  PROVE  Content'
<1>1. /\ pc \in {"scan", "probe"} /\ bit = Len(Vec.tms) /\ call < Len(Calls)
      /\ call' = call + 1 /\ bit' = 0 /\ result' = <<>>
      /\ UNCHANGED <<target, tap, pc, irlen, idcmd, op, sent>>
  BY DEF NextCall, deviceVars
<1>2. pc = "probe" /\ op # "scanChain" /\ op \in {"probeIdCode", "probeBypass"}
  <2>1. CASE op = "scanChain"
    <3>1. call = 1 /\ Len(Calls) = 1
      BY <2>1, ScanVec
    <3> QED
      BY <1>1, <3>1
  <2> QED
    BY <1>1, <2>1 DEF Typed, TypeOK, Control
<1> SUFFICES ASSUME Trusted' PROVE ProbeContent'
  BY <1>1, <1>2 DEF Content
<1>3. Trusted /\ Chosen' = Chosen /\ target \in Targets
  BY <1>1 DEF Trusted, Knows, SixOnesBypass, Chosen, Typed, TypeOK
<1>4. ProbeContent /\ irlen = target.irlen /\ irlen \in 2..32 /\ IdCode(target) # Bypass(target)
  BY <1>2, <1>3, ChosenFacts DEF Content
<1>5. call \in 1..6
  <2>1. call \in 1..7 /\ Len(Calls) = 7
    BY <1>2, ProbeVec
  <2> QED
    BY <1>1, <2>1
<1>6. CASE call \in {1, 2}
  BY <1>1, <1>6 DEF ProbeContent
<1>7. CASE call = 3
  BY <1>1, <1>4, <1>7 DEF ProbeContent, LoadsIR
<1>8. CASE call = 4
  <2>1. bit = irlen /\ LoadsIR
    BY <1>1, <1>2, <1>4, <1>8, ProbeVec DEF ProbeContent
  <2>2. tap.ir = Chosen
    BY <1>2, <1>3, <2>1, Loaded
  <2> QED
    BY <1>1, <1>3, <1>8, <2>2 DEF ProbeContent
<1>9. CASE call = 5
  <2>1. bit = 2
    BY <1>1, <1>2, <1>9, ProbeVec
  <2> QED
    BY <1>1, <1>3, <1>4, <1>9, <2>1 DEF ProbeContent
<1>10. CASE call = 6
  <2>1. bit = 3
    BY <1>1, <1>2, <1>10, ProbeVec
  <2>2. tap.inst = Chosen /\ tap.dr = CapturedDR(target, Chosen)
    BY <1>4, <1>10, <2>1 DEF ProbeContent
  <2>3. CASE op = "probeIdCode"
    <3>1. Leaves(tap.dr, 0)
      BY <1>3, <2>2, <2>3, AllOfIt DEF Chosen
    <3>2. ReadsWord'
      BY <1>1, <3>1 DEF ReadsWord, Leaves
    <3> QED
      BY <1>1, <1>3, <1>10, <2>2, <2>3, <3>2 DEF ProbeContent
  <2>4. CASE op = "probeBypass"
    <3>1. tap.dr = <<0>>
      BY <1>3, <2>2, <2>4, CapturedFacts DEF Chosen
    <3>2. EchoesWords'
      BY <1>1, <3>1 DEF EchoesWords
    <3> QED
      BY <1>1, <1>3, <1>10, <2>2, <2>4, <3>2 DEF ProbeContent
  <2> QED
    BY <1>2, <2>3, <2>4
<1> QED
  BY <1>5, <1>6, <1>7, <1>8, <1>9, <1>10

LEMMA NextContent == Typed /\ Place /\ Content /\ [Next]_vars => Content'
<1> SUFFICES ASSUME Typed, Place, Content, [Next]_vars PROVE Content'
  OBVIOUS
<1>1. CASE SetClock
  <2>1. pc' = "scan" /\ bit' = 0
    BY <1>1 DEF SetClock, Begins
  <2> QED
    BY <2>1 DEF Content, ScanContent
<1>2. CASE Clock
  <2>1. UNCHANGED <<pc, irlen, idcmd, target, op>> /\ pc \in {"scan", "probe"}
    BY <1>2, Clocks
  <2>2. CASE pc = "scan"
    BY <1>2, <2>1, <2>2, ScanClockContent DEF Content, Place
  <2>3. CASE pc = "probe"
    <3> SUFFICES ASSUME Trusted' PROVE ProbeContent'
      BY <2>1, <2>3 DEF Content
    <3>1. Trusted
      BY <2>1 DEF Trusted, Knows, SixOnesBypass
    <3>2. op # "scanChain"
      BY <2>3 DEF Typed, Control
    <3>3. irlen \in 2..32
      BY <3>1, <3>2, ChosenFacts
    <3>4. irlen > 0
      BY <3>3
    <3> QED
      BY <1>2, <2>3, <3>1, <3>4, ProbeClockContent DEF Content, Place
  <2> QED
    BY <2>1, <2>2, <2>3
<1>3. CASE NextCall
  BY <1>3, NextCallContent
<1>4. CASE Returns
  <2>1. /\ pc \in {"scan", "probe"} /\ pc' = IF pc = "scan" THEN "lookup" ELSE "answered"
        /\ UNCHANGED <<target, tap, call, bit, op, sent, result, irlen, idcmd>>
    BY <1>4 DEF Returns, callVars, deviceVars
  <2>2. CASE pc = "scan"
    BY <2>1, <2>2 DEF Content, ScanContent, Leaves
  <2>3. CASE pc = "probe"
    BY <2>1, <2>3 DEF Content, ProbeContent, Trusted, Knows, SixOnesBypass, Chosen, LoadsIR,
                      ReadsWord, EchoesWords, Leaves, Echo, SentBits
  <2> QED
    BY <2>1, <2>2, <2>3
<1>5. CASE Lookup
  BY <1>5 DEF Lookup, Content
<1>6. CASE Probe
  <2>1. pc' = "probe" /\ call' = 1
    BY <1>6 DEF Probe, Begins
  <2> QED
    BY <2>1 DEF Content, ProbeContent
<1>7. CASE Kill
  BY <1>7 DEF Kill, Content
<1>8. CASE UNCHANGED vars
  BY <1>8 DEF Content, ScanContent, ProbeContent, Trusted, Knows, SixOnesBypass, Chosen, LoadsIR,
              ReadsWord, EchoesWords, Leaves, Echo, SentBits, vars, callVars, deviceVars
<1> QED
  BY <1>1, <1>2, <1>3, <1>4, <1>5, <1>6, <1>7, <1>8 DEF Next

(* What is read is what there is to read. *)
LEMMA ScannedIdCode ==
  ASSUME Typed, Content, pc = "lookup"
  PROVE  Scanned = target.idcode
<1>1. bit = 41 /\ ScanContent /\ TypeOK /\ target \in Targets
  BY DEF Typed, Control, TypeOK, Content
<1>2. Scanned \in Word /\ \A i \in 1..32 : Scanned[i] = result[i + 9]
  BY <1>1, ScannedWord
<1>3. target.idcode \in Word
  BY <1>1, Target
<1>4. ASSUME NEW i \in 1..32 PROVE Scanned[i] = target.idcode[i]
  <2>1. i + 9 \in 10..bit /\ (i + 9) - 9 = i
    BY <1>1
  <2>2. result[i + 9] = target.idcode[(i + 9) - 9]
    BY <1>1, <2>1 DEF ScanContent
  <2> QED
    BY <1>2, <2>1, <2>2
<1> QED
  BY <1>2, <1>3, <1>4 DEF Word

LEMMA ReadIsIdCode ==
  ASSUME Typed, Content, pc = "answered", op = "probeIdCode", Knows
  PROVE  Read = target.idcode
<1>1. call = 7 /\ bit = Len(Vec.tms) /\ target \in Targets
  BY DEF Typed, Control, TypeOK
<1>2. bit = 32
  BY <1>1, ProbeVec
<1>3. ReadsWord
  BY <1>1 DEF Content, Trusted, ProbeContent
<1>4. result \in Seq(Bit) /\ Len(result) = 32
  BY <1>2 DEF Typed, TypeOK
<1>5. \A i \in 1..32 : result[i] \in Bit
  BY <1>4, ElementOfSeq
<1>6. /\ Read \in Seq(Bit) /\ Len(Read) = 32
      /\ \A i \in 1..32 : Read[i] = result[1 + i - 1]
  BY <1>5, SubSeqProperties DEF Read
<1>7. Read \in [1..32 -> Bit]
  BY <1>6, LenProperties
<1>8. target.idcode \in [1..32 -> Bit]
  BY <1>1, Target DEF Word
<1>9. ASSUME NEW i \in 1..32 PROVE Read[i] = target.idcode[i]
  <2>1. i \in 1..bit /\ 1 + i - 1 = i
    BY <1>2
  <2> QED
    BY <1>3, <1>6, <2>1 DEF ReadsWord
<1> QED
  BY <1>7, <1>8, <1>9

LEMMA SameWord ==
  ASSUME NEW a \in [1..32 -> Bit], NEW b \in [1..32 -> Bit], \A i \in 1..32 : a[i] = b[i]
  PROVE  a = b
OBVIOUS

LEMMA EchoedIsSent ==
  ASSUME Typed, Content, pc = "answered", op = "probeBypass", Knows, SixOnesBypass
  PROVE  Echoed = sent
<1> DEFINE n == Len(sent)
<1>1. call = 7 /\ bit = Len(Vec.tms) /\ sent \in Seq(Word) /\ n \in Nat
  BY DEF Typed, Control, TypeOK
<1>2. bit = 32 * n + 1
  BY <1>1, ProbeVec
<1>3. EchoesWords
  BY <1>1 DEF Content, Trusted, ProbeContent
<1>4. result \in Seq(Bit) /\ Len(result) = 32 * n + 1
  BY <1>2 DEF Typed, TypeOK
<1>5. DOMAIN sent = 1..n
  BY <1>1, LenProperties
<1>6. ASSUME NEW w \in 1..n
      PROVE  SubSeq(result, 32 * w - 30, 32 * w + 1) = sent[w]
  <2> DEFINE m == 32 * w - 30
             s == SubSeq(result, m, 32 * w + 1)
  <2>1. /\ m \in 1..32 * n + 1 /\ 32 * w + 1 \in 1..32 * n + 1
        /\ m <= (32 * w + 1) + 1 /\ (32 * w + 1) - m + 1 = 32
    BY <1>1
  <2>2. \A i \in m..32 * w + 1 : result[i] \in Bit
    <3> SUFFICES ASSUME NEW i \in m..32 * w + 1 PROVE result[i] \in Bit
      OBVIOUS
    <3>1. i \in 1..Len(result)
      BY <1>1, <1>4, <2>1
    <3> QED
      BY <1>4, <3>1, ElementOfSeq
  <2>3. s \in Seq(Bit) /\ Len(s) = 32 /\ \A i \in 1..32 : s[i] = result[m + i - 1]
    <3> HIDE DEF m
    <3>1. m \in Int /\ 32 * w + 1 \in Int
      BY <2>1
    <3> QED
      BY <2>1, <2>2, <3>1, SubSeqProperties
  <2>4. s \in [1..32 -> Bit]
    BY <2>3, LenProperties
  <2>5. sent[w] \in [1..32 -> Bit]
    <3>1. sent[w] \in Word
      BY <1>1, ElementOfSeq
    <3> QED
      BY <3>1 DEF Word
  <2>6. ASSUME NEW i \in 1..32 PROVE s[i] = sent[w][i]
    <3> DEFINE k == 32 * w - 32 + i
    <3>1. m + i - 1 = k + 1 /\ k + 1 \in 2..bit /\ (k + 1) - 1 = k /\ k \in 1..32 * n
      BY <1>1, <1>2
    <3>2. (k - 1) \div 32 + 1 = w /\ ((k - 1) % 32) + 1 = i
      BY <1>1
    <3> HIDE DEF k, m
    <3>3. result[k + 1] = Echo.tdi[k]
      BY <1>3, <3>1 DEF EchoesWords
    <3>4. Echo.tdi[k] = sent[(k - 1) \div 32 + 1][((k - 1) % 32) + 1]
      BY <1>1, <3>1, EchoFacts
    <3>5. s[i] = result[k + 1]
      BY <2>3, <3>1
    <3> QED
      BY <3>2, <3>3, <3>4, <3>5
  <2>7. s = sent[w]
    <3> DEFINE u == sent[w]
    <3>1. u \in [1..32 -> Bit] /\ \A i \in 1..32 : s[i] = u[i]
      BY <2>5, <2>6
    <3> HIDE DEF s, u
    <3>2. s = u
      BY <2>4, <3>1, SameWord
    <3> QED
      BY <3>2 DEF u
  <2> QED
    BY <2>7 DEF s
<1>7. Echoed = [w \in 1..n |-> sent[w]]
  BY <1>5, <1>6 DEF Echoed
<1>8. sent = [w \in 1..n |-> sent[w]]
  BY <1>1, <1>5
<1> QED
  BY <1>7, <1>8

(* From whatever state the target was left in, a scan and a probe read     *)
(* what they are for: the IDCODE of any target, and any words through its  *)
(* BYPASS register (scanChain(), probeIdCode(), both probeBypass()).       *)
THEOREM AnswersAlwaysTrue == Spec => []AnswersTrue
<1>1. Init => Typed /\ Place /\ Content
  BY InitTyped DEF Init, Place, Content
<1>2. Typed /\ Place /\ Content /\ [Next]_vars => (Typed /\ Place /\ Content)'
  BY NextTyped, NextPlace, NextContent
<1>3. Typed /\ Place /\ Content => AnswersTrue
  BY ScannedIdCode, ReadIsIdCode, EchoedIsSent DEF AnswersTrue
<1> QED
  BY <1>1, <1>2, <1>3, PTL DEF Spec

-----------------------------------------------------------------------------
(* What is left behind.                                                    *)

LEMMA OwnSettles ==
  ASSUME NEW b \in 0..4, NEW s \in OwnSettled(b)
  PROVE  NextState(s, 1) \in OwnSettled(b + 1)
<1>1. CASE b = 0
  BY <1>1, Moves DEF OwnSettled
<1>2. CASE b = 1
  BY <1>2, Moves DEF OwnSettled
<1>3. CASE b = 2
  BY <1>3, Moves DEF OwnSettled
<1>4. CASE b = 3
  BY <1>4, Moves DEF OwnSettled
<1>5. CASE b = 4
  BY <1>5, Moves DEF OwnSettled
<1> QED
  BY <1>1, <1>2, <1>3, <1>4, <1>5

(* An update is of IDCODE or BYPASS, and leaves one of them. *)
LEMMA ClockOwn ==
  ASSUME Typed, Place, Content, OwnInv, Clock
  PROVE  /\ OwnInv'
         /\ own /\ Safe =>
              /\ tap.state # "UpdateIR" /\ tap'.state = "UpdateIR" => Harmless(tap.ir)
              /\ tap.state # "UpdateDR" /\ tap'.state = "UpdateDR" => Harmless(tap.inst)
<1>1. /\ pc \in {"scan", "probe"} /\ bit \in Nat /\ bit' = bit + 1
      /\ UNCHANGED <<pc, op, call, irlen, idcmd, target>>
      /\ tap'.state = NextState(tap.state, Vec.tms[bit + 1])
      /\ bit < Len(Vec.tms) /\ Len(Vec.tms) \in Nat
  BY Clocks
<1>2. own' = (own \/ tap'.state = "Reset") /\ own \in BOOLEAN
  BY DEF Clock, Typed, TypeOK
<1>3. Safe' = Safe /\ \A x : Harmless(x)' <=> Harmless(x)
  BY <1>1 DEF Safe, Knows, SixOnesBypass, Harmless
<1>4. Harmless(IdCode(target)) /\ Harmless(Chosen)
  BY DEF Harmless, Chosen
<1>5. SUFFICES ASSUME Safe
      PROVE  /\ own => /\ tap'.state = "UpdateIR" => tap.state # "UpdateIR" /\ Harmless(tap.ir)
                       /\ Harmless(tap.inst)
             /\ own /\ pc = "scan" /\ bit' <= 5 => tap'.state \in OwnSettled(bit')
             /\ own /\ pc = "probe" /\ call = 1 => tap'.state \in OwnSettled(bit')
             /\ tap'.state = "Reset" /\ pc = "probe" /\ call = 1 => tap'.state \in OwnSettled(bit')
             /\ tap'.state = "Reset" /\ pc = "scan" /\ bit' <= 5 => tap'.state \in OwnSettled(bit')
  <2>1. ASSUME Safe, own' PROVE Harmless(tap'.inst)
    BY <1>2, <1>4, <1>5, <2>1, ClockedRegisters
  <2>2. ASSUME Safe, own'
        PROVE  /\ pc' = "scan" /\ bit' <= 5 => tap'.state \in OwnSettled(bit')
               /\ pc' = "probe" /\ call' = 1 => tap'.state \in OwnSettled(bit')
    BY <1>1, <1>2, <1>5, <2>2
  <2>3. OwnInv'
    BY <1>1, <1>3, <2>1, <2>2 DEF OwnInv, OwnSettled
  <2> QED
    BY <1>5, <2>3
<1>6. \A b \in 0..5 : "Reset" \in OwnSettled(b)
  BY DEF OwnSettled
<1>7. own => Harmless(tap.inst)
  BY <1>5 DEF OwnInv
<1>8. CASE pc = "scan"
  <2>1. op = "scanChain"
    BY <1>8 DEF Typed, Control
  <2>2. Vec = ScanVector /\ bit \in 0..40
    <3>1. Vec = ScanVector /\ Len(Vec.tms) = 41
      BY <2>1, ScanVec, ScanVectorFacts DEF IsVector
    <3> QED
      BY <1>1, <3>1
  <2>3. ScanPlace'
    BY <1>8, ScanClockPlace DEF Place
  <2>4. CASE bit \in 0..4
    <3>1. Vec.tms[bit + 1] = 1
      <4>1. bit + 1 \in 1..41 /\ bit + 1 <= 5
        BY <2>4
      <4> QED
        BY <2>2, <4>1, ScanVectorFacts
    <3>2. own => tap.state \in OwnSettled(bit)
      BY <1>5, <1>8, <2>4 DEF OwnInv
    <3>3. own => tap'.state \in OwnSettled(bit + 1)
      BY <1>1, <2>4, <3>1, <3>2, OwnSettles
    <3>4. own => tap'.state # "UpdateIR"
      BY <2>4, <3>3 DEF OwnSettled
    <3>5. bit + 1 \in 0..5
      BY <2>4
    <3> QED
      BY <1>1, <1>6, <1>7, <1>8, <3>3, <3>4, <3>5
  <2>5. CASE bit > 4
    <3>1. bit' \in 5..41
      <4>1. bit' = bit + 1
        BY <1>1
      <4> QED
        BY <2>2, <2>5, <4>1
    <3>2. bit' # 5
      <4>1. bit' = bit + 1
        BY <1>1
      <4> QED
        BY <2>2, <2>5, <4>1
    <3>3. bit' \in 6..41
      BY <3>1, <3>2
    <3>4. tap'.state # "UpdateIR"
      BY <2>3, <3>3 DEF ScanPlace
    <3> QED
      BY <1>7, <1>8, <3>3, <3>4
  <2> QED
    BY <2>2, <2>4, <2>5
<1>9. CASE pc = "probe"
  <2>1. op # "scanChain" /\ Trusted
    BY <1>5, <1>9 DEF Typed, Control, Safe, Trusted
  <2>2. irlen > 0
    <3>1. irlen \in 2..32
      BY <2>1, ChosenFacts
    <3> QED
      BY <3>1
  <2>3. ProbePlace /\ ProbePlace' /\ ProbeContent
    BY <1>9, <2>1, <2>2, ProbeClockPlace DEF Place, Content
  <2>4. call \in 1..7
    BY <2>1, ProbeVec
  <2>5. CASE call = 1
    <3>1. bit \in 0..4 /\ Vec.tms[bit + 1] = 1
      <4>1. Vec = TestLogicReset /\ Len(Vec.tms) = 5
        BY <2>1, <2>5, ProbeVec
      <4>2. bit \in 0..4 /\ bit + 1 \in 1..5
        BY <1>1, <4>1
      <4> QED
        BY <4>1, <4>2, ShortVectors
    <3>2. own => tap.state \in OwnSettled(bit)
      BY <1>5, <1>9, <2>5 DEF OwnInv
    <3>3. own => tap'.state \in OwnSettled(bit + 1)
      BY <1>1, <3>1, <3>2, OwnSettles
    <3>4. own => tap'.state # "UpdateIR"
      BY <3>1, <3>3 DEF OwnSettled
    <3>5. bit + 1 \in 0..5
      BY <3>1
    <3> QED
      BY <1>1, <1>6, <1>7, <1>9, <3>3, <3>4, <3>5
  <2>6. CASE call = 5
    <3>1. bit = 0 \/ bit = 1
      <4>1. Len(Vec.tms) = 2
        BY <2>1, <2>6, ProbeVec
      <4> QED
        BY <1>1, <4>1
    <3>2. CASE bit = 0
      <4>1. tap.ir = Chosen /\ tap.state = "Exit1IR"
        BY <2>3, <2>6, <3>2 DEF ProbePlace, ProbeContent
      <4> QED
        BY <1>4, <1>7, <1>9, <2>6, <4>1
    <3>3. CASE bit = 1
      <4>1. tap'.state = "Idle"
        BY <1>1, <2>3, <2>6, <3>3 DEF ProbePlace
      <4> QED
        BY <1>7, <1>9, <2>6, <4>1
    <3> QED
      BY <3>1, <3>2, <3>3
  <2>7. CASE call \in {2, 3, 4, 6, 7}
    <3>1. tap'.state # "UpdateIR"
      <4>1. call = 2 => bit = 0
        <5>1. call = 2 => Len(Vec.tms) = 1
          BY <2>1, ProbeVec
        <5> QED
          BY <1>1, <5>1
      <4>2. call = 3 => bit = 0 \/ bit = 1 \/ bit = 2 \/ bit = 3
        <5>1. call = 3 => Len(Vec.tms) = 4
          BY <2>1, ProbeVec
        <5> QED
          BY <1>1, <5>1
      <4>3. call = 6 => bit = 0 \/ bit = 1 \/ bit = 2
        <5>1. call = 6 => Len(Vec.tms) = 3
          BY <2>1, ProbeVec
        <5> QED
          BY <1>1, <5>1
      <4> QED
        BY <1>1, <2>3, <2>7, <4>1, <4>2, <4>3 DEF ProbePlace
    <3> QED
      BY <1>7, <1>9, <2>7, <3>1
  <2> QED
    BY <2>4, <2>5, <2>6, <2>7
<1> QED
  BY <1>1, <1>8, <1>9

(* Whoever begins finds the target where a scan or a probe leaves it. *)
LEMMA BeginsOwn ==
  ASSUME OwnInv, Typed, Typed', pc \in {"clock", "ready", "answered"},
         pc' = "scan" => pc = "clock", pc' \in {"scan", "probe"}, call' = 1, bit' = 0,
         UNCHANGED <<tap, own, target, irlen, idcmd>>
  PROVE  OwnInv'
<1>1. Safe' => Safe
  BY DEF Safe, Knows, SixOnesBypass, Typed, Control
<1>2. own /\ Safe => Harmless(tap.inst) /\ tap.state \in {"ShiftDR", "Exit1DR"}
  BY DEF OwnInv
<1>3. own' /\ Safe' => Harmless(tap.inst)' /\ tap'.state \in OwnSettled(0)
  BY <1>1, <1>2 DEF Harmless, OwnSettled
<1> QED
  BY <1>3 DEF OwnInv

LEMMA NextOwn == Typed /\ Place /\ Content /\ OwnInv /\ [Next]_vars => OwnInv'
<1> SUFFICES ASSUME Typed, Place, Content, OwnInv, [Next]_vars PROVE OwnInv'
  OBVIOUS
<1>1. CASE SetClock
  <2>1. /\ pc = "clock" /\ pc' = "scan" /\ call' = 1 /\ bit' = 0
        /\ UNCHANGED <<tap, own, target, irlen, idcmd>>
    BY <1>1 DEF SetClock, Begins, deviceVars
  <2> QED
    BY <2>1, NextTyped, BeginsOwn
<1>2. CASE Clock
  BY <1>2, ClockOwn
<1>3. CASE NextCall
  <2>1. /\ pc \in {"scan", "probe"} /\ call' = call + 1 /\ call < Len(Calls)
        /\ UNCHANGED <<pc, tap, own, target, irlen, idcmd, op>>
    BY <1>3 DEF NextCall, deviceVars
  <2>2. pc = "probe" /\ call \in 1..7
    <3>1. ASSUME op = "scanChain" PROVE ~(call < Len(Calls))
      <4>1. call = 1 /\ Len(Calls) = 1
        BY <3>1, ScanVec
      <4> QED
        BY <4>1
    <3>2. pc = "scan" => op = "scanChain"
      BY DEF Typed, Control
    <3>3. pc = "probe"
      BY <2>1, <3>1, <3>2, Zenon
    <3>4. op # "scanChain"
      BY <3>3 DEF Typed, Control
    <3> QED
      BY <3>3, <3>4, ProbeVec
  <2>3. call' # 1
    BY <2>1, <2>2
  <2> QED
    BY <2>1, <2>2, <2>3 DEF OwnInv, Safe, Knows, SixOnesBypass, Harmless
<1>4. CASE Returns
  <2>1. /\ pc \in {"scan", "probe"} /\ pc' = IF pc = "scan" THEN "lookup" ELSE "answered"
        /\ call = Len(Calls)
        /\ UNCHANGED <<tap, own, target, irlen, idcmd, op>>
    BY <1>4 DEF Returns, callVars, deviceVars
  <2>2. Safe' = Safe /\ (Harmless(tap.inst)' <=> Harmless(tap.inst))
    BY <2>1 DEF Safe, Knows, SixOnesBypass, Harmless
  <2>3. CASE pc = "scan"
    BY <2>1, <2>2, <2>3 DEF OwnInv
  <2>4. CASE pc = "probe"
    <3>1. op # "scanChain"
      BY <2>4 DEF Typed, Control
    <3>2. call = 7
      BY <2>1, <3>1, ProbeCalls DEF Typed, TypeOK
    <3>3. Safe => irlen > 0
      <4> SUFFICES ASSUME Safe PROVE irlen > 0
        OBVIOUS
      <4>1. Trusted
        BY <3>1 DEF Safe, Trusted
      <4>2. irlen \in 2..32
        BY <3>1, <4>1, ChosenFacts
      <4> QED
        BY <4>2
    <3>4. Safe => tap.state \in {"ShiftDR", "Exit1DR"}
      BY <2>4, <3>2, <3>3 DEF Place, ProbePlace
    <3> QED
      BY <2>1, <2>2, <2>4, <3>4 DEF OwnInv
  <2> QED
    BY <2>1, <2>3, <2>4
<1>5. CASE Lookup
  <2>1. /\ pc = "lookup" /\ pc' \in {"clock", "ready"}
        /\ UNCHANGED <<tap, own, target, op>>
    BY <1>5 DEF Lookup, callVars
  <2>2. Safe /\ bit = 41
    BY <2>1 DEF Safe, Typed, Control
  <2>3. ScanPlace
    BY <2>1 DEF Place
  <2>4. tap.state = "ShiftDR"
    BY <2>2, <2>3 DEF ScanPlace
  <2>5. own => Harmless(tap.inst)
    BY <2>2 DEF OwnInv
  <2> QED
    BY <2>1, <2>4, <2>5 DEF OwnInv, Harmless
<1>6. CASE Probe
  <2>1. /\ pc \in {"ready", "answered"} /\ pc' = "probe" /\ call' = 1 /\ bit' = 0
        /\ UNCHANGED <<tap, own, target, irlen, idcmd>>
    BY <1>6 DEF Probe, Begins, deviceVars
  <2> QED
    BY <2>1, NextTyped, BeginsOwn
<1>7. CASE Kill
  BY <1>7 DEF Kill, OwnInv
<1>8. CASE UNCHANGED vars
  BY <1>8 DEF OwnInv, Safe, Knows, SixOnesBypass, Harmless, vars, deviceVars, callVars
<1> QED
  BY <1>1, <1>2, <1>3, <1>4, <1>5, <1>6, <1>7, <1>8 DEF Next

(* From its first reset on, and as long as nobody else moves it, the       *)
(* target takes over no instruction but IDCODE and BYPASS and updates the  *)
(* register of no other, whichever scans and probes follow one another     *)
(* (lines 87, 121, 160 and 201 of xvcdriver.cpp).                          *)
THEOREM UpdatesAlwaysHarmless == Spec => HarmlessUpdates
<1> DEFINE Harm ==
      own /\ own' /\ (op = "scanChain" \/ (Knows /\ SixOnesBypass)) =>
        /\ tap.state # "UpdateIR" /\ tap'.state = "UpdateIR" => Harmless(tap.ir)
        /\ tap.state # "UpdateDR" /\ tap'.state = "UpdateDR" => Harmless(tap.inst)
       I == Typed /\ Place /\ Content /\ OwnInv
<1>1. Init => I
  BY InitTyped DEF Init, Place, Content, OwnInv
<1>2. I /\ [Next]_vars => I'
  BY NextTyped, NextPlace, NextContent, NextOwn
<1>3. I /\ [Next]_vars => [Harm]_vars
  <2> SUFFICES ASSUME I, [Next]_vars PROVE Harm \/ UNCHANGED vars
    OBVIOUS
  <2>1. CASE Clock
    BY <2>1, ClockOwn DEF Safe
  <2>2. CASE SetClock \/ NextCall \/ Returns \/ Lookup \/ Probe \/ Kill
    <3>1. tap' = tap
      BY <2>2 DEF SetClock, NextCall, Returns, Lookup, Probe, Kill
    <3> QED
      BY <3>1
  <2> QED
    BY <2>1, <2>2 DEF Next
<1> HIDE DEF I
<1> QED
  BY <1>1, <1>2, <1>3, PTL DEF Spec, HarmlessUpdates

-----------------------------------------------------------------------------
(* What detection concludes.                                               *)

(* Comparing with what is left of an IDCODE compares 28 bits. *)
LEMMA NamesMasked ==
  ASSUME NEW d \in Entry, NEW id \in Word
  PROVE  Names(d, id) <=> d.idcode = Masked(id)
<1> DEFINE m == Masked(id)
<1>1. \A i \in 1..28 : id[i] \in Bit
  BY DEF Word
<1>2. m \in Seq(Bit) /\ Len(m) = 28 /\ \A i \in 1..28 : m[i] = id[1 + i - 1]
  BY <1>1, SubSeqProperties DEF Masked
<1>3. m \in [1..28 -> Bit]
  BY <1>2, LenProperties
<1>4. \A i \in 1..28 : m[i] = id[i]
  <2> SUFFICES ASSUME NEW i \in 1..28 PROVE m[i] = id[i]
    OBVIOUS
  <2>1. 1 + i - 1 = i
    OBVIOUS
  <2> QED
    BY <1>2, <2>1
<1>5. d.idcode \in [1..28 -> Bit]
  BY DEF Entry
<1> DEFINE c == d.idcode
<1> HIDE DEF m, c
<1>6. (\A i \in 1..28 : c[i] = m[i]) <=> c = m
  BY <1>3, <1>5 DEF c
<1>7. Names(d, id) <=> \A i \in 1..28 : c[i] = m[i]
  BY <1>4 DEF Names, c
<1> QED
  BY <1>6, <1>7 DEF m, c

(* A lookup finds a line exactly when there is one, and takes the rest     *)
(* from it.                                                                *)
LEMMA Found ==
  ASSUME db \in Seq(Entry), NEW id \in Word
  PROVE  /\ FindDevice(db, id) # NoDevice <=> Listed(id)
         /\ Listed(id) => \E d \in ToSet(db) :
              Names(d, id) /\ IdToIRLength(db, id) = d.irlen /\ IdToIDCmd(db, id) = d.idcmd
<1> DEFINE I == {i \in 1..Len(db) : db[i].idcode = Masked(id)}
<1>1. DOMAIN db = 1..Len(db) /\ \A i \in 1..Len(db) : db[i] \in Entry
  BY LenProperties, ElementOfSeq
<1>2. ToSet(db) = {db[i] : i \in 1..Len(db)}
  BY <1>1 DEF ToSet
<1>3. \A i \in 1..Len(db) : i \in I <=> Names(db[i], id)
  BY <1>1, NamesMasked
<1>4. CASE I = {}
  <2>1. FindDevice(db, id) = NoDevice
    BY <1>4 DEF FindDevice, SelectInSeq
  <2>2. ~Listed(id)
    BY <1>2, <1>3, <1>4 DEF Listed
  <2> QED
    BY <2>1, <2>2
<1>5. CASE I # {}
  <2>1. I \subseteq 1..Len(db) /\ I \subseteq Nat
    OBVIOUS
  <2>2. FindDevice(db, id) = IF Min(I) = 0 THEN NoDevice ELSE db[Min(I)]
    BY <1>5 DEF FindDevice, SelectInSeq
  <2> HIDE DEF I
  <2>3. PICK k \in I : k = Min(I)
    BY <1>5, <2>1, LeastElement
  <2>4. k \in 1..Len(db) /\ FindDevice(db, id) = db[k]
    BY <2>1, <2>2, <2>3
  <2>5. db[k] \in ToSet(db) /\ db[k] \in Entry /\ Names(db[k], id)
    BY <1>1, <1>2, <1>3, <2>3, <2>4
  <2>6. db[k] # NoDevice
    <3>1. DOMAIN (db[k].idcode) = 1..28
      BY <2>5 DEF Entry
    <3>2. DOMAIN (NoDevice.idcode) = {}
      BY DEF NoDevice
    <3>3. 1 \in 1..28
      OBVIOUS
    <3> QED
      BY <3>1, <3>2, <3>3
  <2>7. IdToIRLength(db, id) = db[k].irlen /\ IdToIDCmd(db, id) = db[k].idcmd
    BY <2>4 DEF IdToIRLength, IdToIDCmd
  <2> QED
    BY <2>4, <2>5, <2>6, <2>7 DEF Listed
<1> QED
  BY <1>4, <1>5

(* What the driver knows is what the list says of the target. *)
Right ==
  detected => /\ idcode = target.idcode
              /\ \E d \in ToSet(db) : Names(d, idcode) /\ irlen = d.irlen /\ idcmd = d.idcmd

LEMMA LookupDetection ==
  ASSUME Typed, Content, Detection, Lookup
  PROVE  Detection'
<1>1. /\ pc = "lookup" /\ UNCHANGED <<target, db, driver>>
  BY DEF Lookup
<1>2. PICK id \in IF delay \in target.clear THEN {Scanned} ELSE target.noise \cup {Scanned} :
        IF FindDevice(db, id) = NoDevice
        THEN UNCHANGED deviceVars
        ELSE /\ idcode' = id /\ detected' = TRUE
             /\ irlen' = IdToIRLength(db, id) /\ idcmd' = IdToIDCmd(db, id)
  BY DEF Lookup
<1>3. Scanned = target.idcode /\ db \in Seq(Entry) /\ delay \in 0..NDelays - 1
  BY <1>1, ScannedIdCode DEF Typed, TypeOK, Control
<1>4. target.idcode \in Word /\ target.noise \subseteq Word
  BY TargetsAssumption DEF Typed, TypeOK
<1>5. id \in Word
  BY <1>2, <1>3, <1>4
<1>6. ASSUME Quiet PROVE Listed(id) => id = target.idcode
  BY <1>2, <1>3, <1>6 DEF Quiet
<1>7. ASSUME Quiet PROVE Right' /\ (detected => detected')
  <2>1. Right
    BY <1>7 DEF Detection, Right
  <2>2. CASE Listed(id)
    <3>1. PICK d \in ToSet(db) :
            Names(d, id) /\ IdToIRLength(db, id) = d.irlen /\ IdToIDCmd(db, id) = d.idcmd
      BY <1>3, <1>5, <2>2, Found
    <3>2. /\ idcode' = id /\ detected' = TRUE
          /\ irlen' = IdToIRLength(db, id) /\ idcmd' = IdToIDCmd(db, id)
      BY <1>2, <1>3, <1>5, <2>2, Found
    <3>3. id = target.idcode
      BY <1>6, <1>7, <2>2
    <3>4. Names(d, idcode') /\ irlen' = d.irlen /\ idcmd' = d.idcmd
      BY <3>1, <3>2
    <3> QED
      BY <1>1, <3>2, <3>3, <3>4 DEF Right, Names
  <2>3. CASE ~Listed(id)
    <3>1. UNCHANGED <<idcode, irlen, idcmd, detected>>
      BY <1>2, <1>3, <1>5, <2>3, Found DEF deviceVars
    <3> QED
      BY <1>1, <2>1, <3>1 DEF Right, Names
  <2> QED
    BY <2>2, <2>3
<1>8. ASSUME Listed(target.idcode), delay \in target.clear PROVE detected'
  <2>1. id = target.idcode
    BY <1>2, <1>3, <1>8
  <2> QED
    BY <1>2, <1>3, <1>5, <1>8, <2>1, Found
<1>9. /\ Tried' = Tried \cup {delay}
      /\ pc' \in {"ready", "probe", "answered"} => ~MoreDelays'
      /\ driver' = "FTDI" => delay' = 0
  <2>1. CASE MoreDelays
    <3>1. delay' = delay + 1 /\ pc' = "clock" /\ driver = "AXI"
      BY <2>1 DEF Lookup, MoreDelays
    <3>2. 0..delay' - 1 = (0..delay - 1) \cup {delay}
      BY <1>3, <3>1
    <3> QED
      BY <1>1, <3>1, <3>2 DEF Tried
  <2>2. CASE ~MoreDelays
    <3>1. delay' = delay /\ pc' = "ready"
      BY <2>2 DEF Lookup
    <3>2. 0..delay = (0..delay - 1) \cup {delay}
      BY <1>3
    <3> QED
      BY <1>1, <2>2, <3>1, <3>2 DEF Tried, MoreDelays, Detection
  <2> QED
    BY <2>1, <2>2
<1>10. ASSUME Quiet, Listed(target.idcode), Tried' \cap target.clear # {} PROVE detected'
  <2>1. CASE delay \in target.clear
    BY <1>8, <1>10, <2>1
  <2>2. CASE delay \notin target.clear
    <3>1. Tried \cap target.clear # {}
      BY <1>9, <1>10, <2>2
    <3> QED
      BY <1>7, <1>10, <3>1 DEF Detection
  <2> QED
    BY <2>1, <2>2
<1>11. (Quiet' <=> Quiet) /\ (Listed(target.idcode)' <=> Listed(target.idcode))
  BY <1>1 DEF Quiet, Listed, Names
<1> QED
  BY <1>1, <1>7, <1>9, <1>10, <1>11 DEF Detection, Right

LEMMA KeepsDetection ==
  ASSUME Detection, UNCHANGED <<target, db, driver, delay, deviceVars>>, Tried' = Tried,
         pc' \in {"ready", "probe", "answered"} => pc \in {"ready", "probe", "answered"}
  PROVE  Detection'
<1> QED
  BY DEF Detection, Quiet, Listed, Names, MoreDelays, deviceVars

LEMMA NextDetection == Typed /\ Content /\ Detection /\ [Next]_vars => Detection'
<1> SUFFICES ASSUME Typed, Content, Detection, [Next]_vars PROVE Detection'
  OBVIOUS
<1>1. CASE SetClock
  BY <1>1, KeepsDetection DEF SetClock, Tried
<1>2. CASE Clock
  BY <1>2, KeepsDetection DEF Clock, Tried
<1>3. CASE NextCall
  BY <1>3, KeepsDetection DEF NextCall, Tried
<1>4. CASE Returns
  BY <1>4, KeepsDetection DEF Returns, Tried
<1>5. CASE Lookup
  BY <1>5, LookupDetection
<1>6. CASE Probe
  BY <1>6, KeepsDetection DEF Probe, Tried
<1>7. CASE Kill
  <2>1. pc' = "clock" /\ delay' = 0 /\ detected' = FALSE
    BY <1>7 DEF Kill
  <2>2. 0..0 - 1 = {}
    OBVIOUS
  <2>3. Tried' = {}
    BY <2>1, <2>2 DEF Tried
  <2> QED
    BY <2>1, <2>3 DEF Detection
<1>8. CASE UNCHANGED vars
  BY <1>8, KeepsDetection DEF vars, Tried
<1> QED
  BY <1>1, <1>2, <1>3, <1>4, <1>5, <1>6, <1>7, <1>8 DEF Next

(* When the sweep is over, every delay was tried. *)
LEMMA DetectionSuffices ==
  ASSUME Typed, Detection
  PROVE  DetectsTarget
<1> SUFFICES ASSUME pc \in {"ready", "probe", "answered"}, Quiet
             PROVE  /\ Readable /\ Listed(target.idcode) => detected
                    /\ Right
  BY DEF DetectsTarget, Quiet, Right
<1>1. Right
  BY DEF Detection, Right
<1>2. Tried = 0..delay /\ ~MoreDelays /\ delay \in 0..NDelays - 1 /\ NDelays \in Nat
  BY DelaysAssumption DEF Tried, Detection, Typed, TypeOK
<1>3. target.clear \subseteq 0..NDelays - 1
  BY TargetsAssumption DEF Typed, TypeOK
<1>4. ASSUME Readable, Listed(target.idcode) PROVE detected
  <2>1. CASE driver = "AXI"
    <3>1. target.clear # {}
      BY <1>4, <2>1 DEF Readable
    <3>2. delay = NDelays - 1
      BY <1>2, <2>1 DEF MoreDelays
    <3>3. Tried \cap target.clear # {}
      BY <1>2, <1>3, <3>1, <3>2
    <3> QED
      BY <1>4, <3>3 DEF Detection
  <2>2. CASE driver # "AXI"
    <3>1. 0 \in target.clear /\ 0 \in Tried
      BY <1>2, <1>4, <2>2 DEF Readable
    <3> QED
      BY <1>4, <3>1 DEF Detection
  <2> QED
    BY <2>1, <2>2
<1> QED
  BY <1>1, <1>4

(* A target that is in the list and in time at a delay of the sweep is     *)
(* found, and what is then known of it is its own IDCODE and what a line   *)
(* of the list for it says, for every list, every target and every number  *)
(* of delays (detect() of both drivers, and devicedb.cpp).                 *)
THEOREM AlwaysDetectsTarget == Spec => []DetectsTarget
<1> DEFINE I == Typed /\ Place /\ Content /\ Detection
<1>1. Init => I
  <2> SUFFICES ASSUME Init PROVE I
    OBVIOUS
  <2>1. Typed
    BY InitTyped
  <2>2. pc = "clock" /\ delay = 0 /\ detected = FALSE
    BY DEF Init
  <2>3. 0..0 - 1 = {}
    OBVIOUS
  <2>4. Tried = {}
    BY <2>2, <2>3 DEF Tried
  <2> QED
    BY <2>1, <2>2, <2>4 DEF Place, Content, Detection
<1>2. I /\ [Next]_vars => I'
  BY NextTyped, NextPlace, NextContent, NextDetection
<1>3. I => DetectsTarget
  BY DetectionSuffices
<1> HIDE DEF I
<1> QED
  BY <1>1, <1>2, <1>3, PTL DEF Spec
=============================================================================
