--------------------------- MODULE AXIShiftProofs ---------------------------
(***************************************************************************)
(* Proofs about AXIShift, for calls of any length and content: its types,  *)
(* that the driver leaves the registers of a running core alone, and that  *)
(* it keeps the promise of shift(), module JtagShift.                      *)
(***************************************************************************)
EXTENDS AXIShift, SequenceTheorems, TLAPS

(* Where the call is: how far the pointers are, what is left, and how many *)
(* cycles of TCK there were.                                               *)
ProgressInv ==
    /\ bitsLeft = nbits - pos
    /\ 8 * bytesLeft = 8 * NBytes(nbits) - pos
    /\ reg.ctrl = 1 => pc = "wait"
    /\ pc = "idle" => bitsLeft <= 0
    /\ pc = "loop" /\ bitsLeft > 0 => Len(wire) = pos
    /\ pc # "wait" /\ bitsLeft <= 0 => Len(wire) = nbits
    /\ pc = "wait" =>
         /\ bitsLeft > 0 /\ Len(wire) = pos + clk
         /\ clk <= reg.length /\ (reg.ctrl = 0 => clk = reg.length)

(* What the registers of the core hold: what the driver wrote last, the    *)
(* word under the pointers while the core runs, and the samples it took.   *)
RegisterInv ==
    /\ reg.tms = lastTms /\ reg.tdi = lastTdi
    /\ pc = "loop" /\ bitsLeft > 0 => reg.length = 32
    /\ pc = "wait" =>
         /\ reg.length = IF Partial THEN bitsLeft ELSE 32
         /\ reg.tms = Fetch(tms) /\ reg.tdi = Fetch(tdi)
         /\ \A j \in 0..clk - 1 : reg.tdo[32 - clk + j] = tap[pos + j]

(* What went over the wire, and what of it is in the result. *)
DataInv ==
    /\ \A k \in 1..Len(wire) :
         wire[k] = [tms |-> tms[k - 1], tdi |-> tdi[k - 1], tdo |-> tap[k - 1]]
    /\ \A i \in 0..nbits - 1 : i < pos => result[i] = tap[i]

Inv == TypeOK /\ ProgressInv /\ RegisterInv /\ DataInv

-----------------------------------------------------------------------------

(* A vector of n bits has at least n, and less than a byte more. *)
LEMMA Padding ==
  ASSUME NEW n \in Nat
  PROVE  NBytes(n) \in Nat /\ n <= 8 * NBytes(n) /\ 8 * NBytes(n) < n + 8
  BY DEF NBytes

LEMMA BitPositions ==
  ASSUME NEW n \in Nat
  PROVE  /\ BitsOf(n) \subseteq Nat
         /\ \A i \in Nat : i < 8 * NBytes(n) => i \in BitsOf(n)
         /\ \A i \in Nat : i < n => i \in BitsOf(n)
<1>1. NBytes(n) \in Nat /\ n <= 8 * NBytes(n)
  BY Padding
<1>2. BitsOf(n) \subseteq Nat /\ \A i \in Nat : i < 8 * NBytes(n) => i \in BitsOf(n)
  BY <1>1 DEF BitsOf
<1> QED
  BY <1>1, <1>2

LEMMA CutType ==
  ASSUME NEW n \in Lengths, NEW v \in Vectors
  PROVE  Cut(v, n) \in [BitsOf(n) -> Bit]
  BY VectorsAssumption DEF Cut

(* The word under the pointers: of what is left, the bits of the vector. *)
LEMMA Fetched ==
  ASSUME Inv, pc \in {"loop", "wait"}, bitsLeft > 0, NEW v \in [BitsOf(nbits) -> Bit]
  PROVE  /\ Fetch(v) \in Word
         /\ \A i \in WordPos : i < bitsLeft => Fetch(v)[i] = v[pos + i]
<1>1. /\ nbits \in Nat /\ pos \in Nat /\ bitsLeft \in Int /\ bytesLeft \in Int
      /\ bitsLeft = nbits - pos /\ 8 * bytesLeft = 8 * NBytes(nbits) - pos
  BY DEF Inv, TypeOK, ProgressInv
<1>2. NBytes(nbits) \in Nat /\ nbits <= 8 * NBytes(nbits)
  BY <1>1, Padding
<1>3. ASSUME NEW i \in WordPos, ~(Partial /\ i >= 8 * bytesLeft)
      PROVE  v[pos + i] \in Bit
  <2>1. i \in Nat /\ i < 32
    BY DEF WordPos
  <2>2. pos + i \in Nat /\ pos + i < 8 * NBytes(nbits)
    BY <1>1, <1>2, <1>3, <2>1 DEF Partial
  <2>3. pos + i \in BitsOf(nbits)
    BY <1>1, <2>2, BitPositions
  <2> QED
    BY <2>3
<1>4. Fetch(v) \in Word
  BY <1>3 DEF Fetch, Word, Bit
<1>5. ASSUME NEW i \in WordPos, i < bitsLeft
      PROVE  Fetch(v)[i] = v[pos + i]
  <2>1. ~(Partial /\ i >= 8 * bytesLeft)
    BY <1>1, <1>2, <1>5 DEF WordPos
  <2> QED
    BY <2>1 DEF Fetch
<1> QED
  BY <1>4, <1>5

-----------------------------------------------------------------------------
(* The steps of the driver.                                                *)

(* Before the first call. *)
LEMMA InitInv == Init => Inv
<1> SUFFICES ASSUME Init PROVE Inv
  OBVIOUS
<1> USE DEF Init
<1>1. TypeOK
  <2>1. ZeroWord \in Word
    BY DEF ZeroWord, Word, Bit
  <2> QED
    BY <2>1 DEF TypeOK, Bit
<1>2. ProgressInv
  <2>1. NBytes(0) = 0
    BY DEF NBytes
  <2> QED
    BY <2>1 DEF ProgressInv
<1>3. RegisterInv
  BY DEF RegisterInv
<1>4. DataInv
  BY DEF DataInv
<1> QED
  BY <1>1, <1>2, <1>3, <1>4 DEF Inv

(* A call begins while the core stands still. *)
LEMMA CallInv == Inv /\ Call => Inv'
<1> SUFFICES ASSUME Inv, Call PROVE Inv'
  OBVIOUS
<1>1. PICK n \in Lengths, t \in Vectors, d \in Vectors, a \in Vectors :
        /\ nbits' = n
        /\ tms' = Cut(t, n) /\ tdi' = Cut(d, n) /\ tap' = Cut(a, n)
        /\ result' = [i \in BitsOf(n) |-> Old]
        /\ bitsLeft' = n /\ bytesLeft' = NBytes(n) /\ pos' = 0
  BY DEF Call
<1>2. /\ pc = "idle" /\ pc' = "loop" /\ wire' = <<>> /\ clk' = clk
      /\ lastTms' = ZeroWord /\ lastTdi' = ZeroWord
      /\ reg' = [reg EXCEPT !.tms = ZeroWord, !.tdi = ZeroWord, !.length = 32]
  BY DEF Call
<1>3. n \in Nat /\ NBytes(n) \in Nat /\ ZeroWord \in Word
  BY LengthsAssumption, Padding DEF ZeroWord, Word, Bit
<1>4. /\ reg'.tms = ZeroWord /\ reg'.tdi = ZeroWord /\ reg'.length = 32 /\ reg'.ctrl = 0
      /\ reg' \in [length : 1..32, tms : Word, tdi : Word, tdo : Word, ctrl : {0, 1}]
  <2>1. reg \in [length : 1..32, tms : Word, tdi : Word, tdo : Word, ctrl : {0, 1}]
    BY DEF Inv, TypeOK
  <2>2. reg.ctrl = 0
    BY <1>2, <2>1 DEF Inv, ProgressInv
  <2>3. reg' = [reg EXCEPT !.tms = ZeroWord, !.tdi = ZeroWord, !.length = 32]
    BY <1>2
  <2>4. ZeroWord \in Word
    BY <1>3
  <2>5. 32 \in 1..32
    OBVIOUS
  <2>6. reg' \in [length : 1..32, tms : Word, tdi : Word, tdo : Word, ctrl : {0, 1}]
    BY <2>1, <2>3, <2>4, <2>5
  <2> QED
    BY <2>1, <2>2, <2>3, <2>6
<1>5. tms' \in [BitsOf(n) -> Bit] /\ tdi' \in [BitsOf(n) -> Bit] /\ tap' \in [BitsOf(n) -> Bit]
  BY <1>1, CutType
<1>6. TypeOK'
  BY <1>1, <1>2, <1>3, <1>4, <1>5 DEF Inv, TypeOK
<1>7. ProgressInv'
  BY <1>1, <1>2, <1>3, <1>4 DEF ProgressInv
<1>8. RegisterInv' /\ DataInv'
  BY <1>1, <1>2, <1>4 DEF RegisterInv, DataInv
<1> QED
  BY <1>6, <1>7, <1>8 DEF Inv

(* The core is started with the word under the pointers, whether or not    *)
(* its registers are written again.                                        *)
LEMMA StartWordInv == Inv /\ StartWord => Inv'
<1> SUFFICES ASSUME Inv, StartWord PROVE Inv'
  OBVIOUS
<1>1. /\ pc = "loop" /\ bitsLeft > 0 /\ pc' = "wait" /\ clk' = 0
      /\ UNCHANGED <<argVars, result, bitsLeft, bytesLeft, pos, tap, wire>>
  BY DEF StartWord
<1>2. UNCHANGED <<nbits, tms, tdi>>
  BY <1>1 DEF argVars
<1>3. Fetch(tms) \in Word /\ Fetch(tdi) \in Word
  BY <1>1, Fetched DEF Inv, TypeOK
<1>4. Fetch(tms)' = Fetch(tms) /\ Fetch(tdi)' = Fetch(tdi) /\ Partial' = Partial
  BY <1>1, <1>2 DEF Fetch, Partial
<1>5. bitsLeft \in Int /\ (Partial => bitsLeft \in 1..32)
  BY <1>1 DEF Partial, Inv, TypeOK
<1>6. /\ lastTms' = Fetch(tms) /\ lastTdi' = Fetch(tdi)
      /\ reg' = [reg EXCEPT
                   !.length = IF Partial THEN bitsLeft ELSE @,
                   !.tms = IF Fetch(tms) # lastTms THEN Fetch(tms) ELSE @,
                   !.tdi = IF Fetch(tdi) # lastTdi THEN Fetch(tdi) ELSE @,
                   !.ctrl = 1]
  BY DEF StartWord
<1>7. reg.tms = lastTms /\ reg.tdi = lastTdi /\ reg.length = 32
      /\ reg \in [length : 1..32, tms : Word, tdi : Word, tdo : Word, ctrl : {0, 1}]
  BY <1>1 DEF Inv, RegisterInv, TypeOK
<1>8. /\ reg'.tms = Fetch(tms) /\ reg'.tdi = Fetch(tdi) /\ reg'.ctrl = 1
      /\ reg'.length = IF Partial THEN bitsLeft ELSE 32
      /\ reg' \in [length : 1..32, tms : Word, tdi : Word, tdo : Word, ctrl : {0, 1}]
  BY <1>3, <1>5, <1>6, <1>7
<1>9. TypeOK'
  BY <1>1, <1>2, <1>3, <1>6, <1>8 DEF Inv, TypeOK
<1>10. ProgressInv'
  BY <1>1, <1>2, <1>5, <1>8, <1>9 DEF Inv, ProgressInv, TypeOK
<1>11. RegisterInv'
  BY <1>1, <1>4, <1>6, <1>8 DEF RegisterInv
<1>12. DataInv'
  BY <1>1, <1>2 DEF Inv, DataInv
<1> QED
  BY <1>9, <1>10, <1>11, <1>12 DEF Inv

(* The core is done: its samples are those of the word, at their place. *)
LEMMA ReadWordInv == Inv /\ ReadWord => Inv'
<1> SUFFICES ASSUME Inv, ReadWord PROVE Inv'
  OBVIOUS
<1> DEFINE w == Aligned(reg.tdo)
<1>1. /\ pc = "wait" /\ reg.ctrl = 0 /\ pc' = "loop"
      /\ bytesLeft' = bytesLeft - 4 /\ bitsLeft' = bitsLeft - 32 /\ pos' = pos + 32
      /\ UNCHANGED <<argVars, lastTms, lastTdi, reg, clk, tap, wire>>
      /\ result' = [i \in BitsOf(nbits) |->
                      IF i \in pos..(pos + Stored - 1) THEN w[i - pos] ELSE result[i]]
  BY DEF ReadWord
<1>2. UNCHANGED <<nbits, tms, tdi>>
  BY <1>1 DEF argVars
<1>3. /\ nbits \in Nat /\ pos \in Nat /\ bitsLeft \in Int /\ bytesLeft \in Int /\ bitsLeft > 0
      /\ bitsLeft = nbits - pos /\ 8 * bytesLeft = 8 * NBytes(nbits) - pos
      /\ Len(wire) = pos + clk /\ clk = reg.length /\ clk \in 0..32
      /\ reg.length = IF Partial THEN bitsLeft ELSE 32
  BY <1>1 DEF Inv, TypeOK, ProgressInv, RegisterInv
<1>4. NBytes(nbits) \in Nat /\ nbits <= 8 * NBytes(nbits) /\ 8 * NBytes(nbits) < nbits + 8
  BY <1>3, Padding
<1>5. reg.tdo \in Word /\ (Partial <=> bitsLeft < 32)
  BY DEF Inv, TypeOK, Partial
<1>6. w \in Word
  <2>1. CASE Partial
    <3>1. \A i \in WordPos : i < bitsLeft => i + 32 - bitsLeft \in WordPos
      BY <1>3, <1>5, <2>1 DEF WordPos
    <3>2. w = [i \in WordPos |-> IF i < bitsLeft THEN reg.tdo[i + 32 - bitsLeft] ELSE 0]
      BY <2>1 DEF Aligned
    <3> HIDE DEF w
    <3> QED
      BY <1>5, <3>1, <3>2 DEF Word, Bit
  <2>2. CASE ~Partial
    BY <1>5, <2>2 DEF Aligned
  <2> QED
    BY <2>1, <2>2
<1>7. ASSUME NEW j \in 0..clk - 1 PROVE w[j] = tap[pos + j] /\ j \in WordPos
  <2>1. \A i \in 0..clk - 1 : reg.tdo[32 - clk + i] = tap[pos + i]
    BY <1>1 DEF Inv, RegisterInv
  <2>2. j \in WordPos /\ reg.tdo[32 - clk + j] = tap[pos + j]
    BY <1>3, <2>1 DEF WordPos
  <2>3. CASE Partial
    <3>1. clk = bitsLeft /\ j < bitsLeft /\ j + 32 - bitsLeft = 32 - clk + j
      BY <1>3, <2>3
    <3> QED
      BY <2>2, <2>3, <3>1 DEF Aligned
  <2>4. CASE ~Partial
    <3>1. clk = 32 /\ 32 - clk + j = j
      BY <1>3, <2>4
    <3> QED
      BY <2>2, <2>4, <3>1 DEF Aligned
  <2> QED
    BY <2>2, <2>3, <2>4
<1> HIDE DEF w
<1>8. Stored \in Int /\ Stored >= clk /\ Stored <= 32
  BY <1>3, <1>4, <1>5 DEF Stored
<1>9. result' \in [BitsOf(nbits) -> Bit \cup {Old}]
  <2>1. ASSUME NEW i \in BitsOf(nbits), i \in pos..(pos + Stored - 1) PROVE w[i - pos] \in Bit
    <3>1. i - pos \in WordPos
      BY <1>3, <1>8, <2>1, BitPositions DEF WordPos
    <3> QED
      BY <1>6, <3>1 DEF Word
  <2> QED
    BY <1>1, <2>1 DEF Inv, TypeOK
<1>10. TypeOK'
  BY <1>1, <1>2, <1>3, <1>9 DEF Inv, TypeOK
<1>11. ProgressInv'
  <2>1. /\ bitsLeft' > 0 => Len(wire) = pos'
        /\ bitsLeft' <= 0 => Len(wire) = nbits
    <3>1. CASE bitsLeft < 32
      BY <1>1, <1>3, <1>5, <3>1
    <3>2. CASE bitsLeft >= 32
      BY <1>1, <1>3, <1>5, <3>2
    <3> QED
      BY <1>3, <3>1, <3>2
  <2>2. bitsLeft' = nbits - pos' /\ 8 * bytesLeft' = 8 * NBytes(nbits) - pos'
    BY <1>1, <1>3, <1>4
  <2>3. pc' = "loop" /\ reg' = reg /\ reg.ctrl = 0 /\ wire' = wire /\ nbits' = nbits
    BY <1>1, <1>2
  <2> QED
    BY <2>1, <2>2, <2>3 DEF ProgressInv
<1>12. RegisterInv'
  BY <1>1, <1>3, <1>5 DEF Inv, RegisterInv
<1>13. ASSUME NEW i \in 0..nbits - 1, i < pos + 32 PROVE result'[i] = tap[i]
  <2>1. i \in Nat /\ i \in BitsOf(nbits)
    BY <1>3, BitPositions
  <2>2. CASE i < pos
    BY <1>1, <1>3, <2>1, <2>2 DEF Inv, DataInv
  <2>3. CASE i >= pos
    <3>1. i - pos \in 0..clk - 1 /\ i \in pos..(pos + Stored - 1)
      BY <1>3, <1>5, <1>8, <1>13, <2>1, <2>3
    <3>2. w[i - pos] = tap[pos + (i - pos)]
      BY <1>7, <3>1
    <3>3. pos + (i - pos) = i
      BY <1>3, <2>1
    <3> QED
      BY <1>1, <2>1, <3>1, <3>2, <3>3
  <2> QED
    BY <1>3, <2>1, <2>2, <2>3
<1>14. DataInv'
  BY <1>1, <1>2, <1>13 DEF Inv, DataInv
<1> QED
  BY <1>10, <1>11, <1>12, <1>14 DEF Inv

LEMMA ReturnInv == Inv /\ Return => Inv'
<1> SUFFICES ASSUME Inv, Return PROVE Inv'
  OBVIOUS
<1>1. /\ pc = "loop" /\ bitsLeft <= 0 /\ pc' = "idle"
      /\ UNCHANGED <<nbits, tms, tdi, result, bitsLeft, bytesLeft, pos, lastTms, lastTdi,
                     reg, clk, tap, wire>>
  BY DEF Return, argVars
<1>2. TypeOK' /\ DataInv'
  BY <1>1 DEF Inv, TypeOK, DataInv
<1>3. ProgressInv'
  BY <1>1 DEF Inv, TypeOK, ProgressInv
<1>4. RegisterInv'
  BY <1>1 DEF Inv, RegisterInv
<1> QED
  BY <1>2, <1>3, <1>4 DEF Inv

-----------------------------------------------------------------------------
(* The steps of the core.                                                  *)

(* The bit of the vector that a cycle of TCK is for. *)
LEMMA Clocked ==
  ASSUME Inv, CoreClock
  PROVE  /\ pc = "wait" /\ Len(wire) = pos + clk /\ Len(wire) \in 0..nbits - 1
         /\ clk \in WordPos /\ Len(wire) \in BitsOf(nbits)
         /\ reg.tms[clk] = tms[Len(wire)] /\ reg.tdi[clk] = tdi[Len(wire)]
<1>1. reg.ctrl = 1 /\ clk < reg.length
  BY DEF CoreClock
<1>2. /\ pc = "wait" /\ bitsLeft > 0 /\ Len(wire) = pos + clk /\ bitsLeft = nbits - pos
      /\ reg.length = (IF Partial THEN bitsLeft ELSE 32) /\ reg.length \in 1..32
      /\ clk \in 0..32 /\ nbits \in Nat /\ pos \in Nat /\ bitsLeft \in Int
      /\ reg.tms = Fetch(tms) /\ reg.tdi = Fetch(tdi)
  BY <1>1 DEF Inv, TypeOK, ProgressInv, RegisterInv
<1>3. clk \in WordPos /\ clk < bitsLeft
  BY <1>1, <1>2 DEF Partial, WordPos
<1>4. Fetch(tms)[clk] = tms[pos + clk] /\ Fetch(tdi)[clk] = tdi[pos + clk]
  BY <1>2, <1>3, Fetched DEF Inv, TypeOK
<1>5. Len(wire) \in 0..nbits - 1
  BY <1>2, <1>3
<1>6. Len(wire) \in BitsOf(nbits)
  BY <1>2, <1>5, BitPositions
<1> QED
  BY <1>2, <1>3, <1>4, <1>5, <1>6

LEMMA CoreClockInv == Inv /\ CoreClock => Inv'
<1> SUFFICES ASSUME Inv, CoreClock PROVE Inv'
  OBVIOUS
<1> DEFINE b == tap[Len(wire)]
           c == [tms |-> reg.tms[clk], tdi |-> reg.tdi[clk], tdo |-> b]
<1>1. /\ reg.ctrl = 1 /\ clk < reg.length /\ clk' = clk + 1
      /\ wire' = Append(wire, c)
      /\ UNCHANGED <<pc, nbits, tms, tdi, result, bitsLeft, bytesLeft, pos, lastTms, lastTdi, tap>>
  BY DEF CoreClock, argVars
<1>0. reg' = [reg EXCEPT !.tdo = [i \in WordPos |-> IF i = 31 THEN b ELSE reg.tdo[i + 1]]]
  BY DEF CoreClock
<1>2. /\ pc = "wait" /\ Len(wire) = pos + clk /\ Len(wire) \in 0..nbits - 1
      /\ clk \in WordPos /\ Len(wire) \in BitsOf(nbits)
      /\ reg.tms[clk] = tms[Len(wire)] /\ reg.tdi[clk] = tdi[Len(wire)]
  BY Clocked
<1>3. /\ b \in Bit /\ tms[Len(wire)] \in Bit /\ tdi[Len(wire)] \in Bit
      /\ c = [tms |-> tms[Len(wire)], tdi |-> tdi[Len(wire)], tdo |-> b]
  BY <1>2 DEF Inv, TypeOK
<1> HIDE DEF b, c
<1>4. /\ wire \in Seq([tms : Bit, tdi : Bit, tdo : Bit]) /\ nbits \in Nat /\ pos \in Nat
      /\ reg \in [length : 1..32, tms : Word, tdi : Word, tdo : Word, ctrl : {0, 1}]
      /\ clk \in 0..32
  BY DEF Inv, TypeOK
<1>5. c \in [tms : Bit, tdi : Bit, tdo : Bit]
  BY <1>3
<1>6. wire' \in Seq([tms : Bit, tdi : Bit, tdo : Bit]) /\ Len(wire') = Len(wire) + 1
  BY <1>1, <1>4, <1>5
<1>7. ASSUME NEW k \in 1..Len(wire')
      PROVE  wire'[k] = [tms |-> tms[k - 1], tdi |-> tdi[k - 1], tdo |-> tap[k - 1]]
  <2>1. CASE k = Len(wire) + 1
    <3>1. wire'[k] = c /\ k - 1 = Len(wire)
      BY <1>1, <1>2, <1>4, <2>1
    <3> QED
      BY <1>3, <3>1 DEF b
  <2>2. CASE k # Len(wire) + 1
    <3>1. k \in 1..Len(wire)
      BY <1>2, <1>6, <2>2
    <3>2. wire'[k] = wire[k]
      BY <1>1, <1>4, <3>1
    <3> QED
      BY <3>1, <3>2 DEF Inv, DataInv
  <2> QED
    BY <2>1, <2>2
<1>8. \A i \in WordPos : reg'.tdo[i] = IF i = 31 THEN b ELSE reg.tdo[i + 1]
  BY <1>0, <1>4
<1>9. reg' \in [length : 1..32, tms : Word, tdi : Word, tdo : Word, ctrl : {0, 1}]
  <2>1. [i \in WordPos |-> IF i = 31 THEN b ELSE reg.tdo[i + 1]] \in Word
    <3>1. \A i \in WordPos : i # 31 => i + 1 \in WordPos
      BY DEF WordPos
    <3>2. reg.tdo \in Word
      BY <1>4
    <3> QED
      BY <1>3, <3>1, <3>2 DEF Word
  <2> QED
    BY <1>0, <1>4, <2>1
<1>10. reg'.length = reg.length /\ reg'.tms = reg.tms /\ reg'.tdi = reg.tdi /\ reg'.ctrl = 1
  <2>1. reg.ctrl = 1
    BY <1>1
  <2> QED
    BY <1>0, <1>4, <2>1
<1>11. clk' \in 0..32 /\ clk' <= reg.length
  <2>1. reg.length \in 1..32 /\ clk \in 0..32
    BY <1>4
  <2>2. clk < reg.length /\ clk' = clk + 1
    BY <1>1
  <2> QED
    BY <2>1, <2>2
<1>12. TypeOK'
  BY <1>1, <1>6, <1>9, <1>11 DEF Inv, TypeOK
<1>13. ProgressInv'
  <2>1. bitsLeft = nbits - pos /\ 8 * bytesLeft = 8 * NBytes(nbits) - pos /\ bitsLeft > 0
    BY <1>2 DEF Inv, ProgressInv
  <2>2. clk' = clk + 1 /\ UNCHANGED <<pc, nbits, bitsLeft, bytesLeft, pos>>
    BY <1>1
  <2>3. clk \in Int /\ pos \in Int
    BY <1>4
  <2>4. Len(wire') = pos' + clk'
    BY <1>2, <1>6, <2>2, <2>3
  <2> QED
    BY <1>2, <1>10, <1>11, <2>1, <2>2, <2>3, <2>4 DEF ProgressInv
<1>14. ASSUME NEW j \in 0..clk' - 1 PROVE reg'.tdo[32 - clk' + j] = tap[pos + j]
  <2>1. j \in Nat /\ j <= clk /\ 32 - clk' + j = 31 - clk + j /\ 31 - clk + j \in WordPos
    <3>1. clk' = clk + 1
      BY <1>1
    <3>2. clk \in 0..31
      BY <1>2 DEF WordPos
    <3> QED
      BY <3>1, <3>2 DEF WordPos
  <2>2. CASE j = clk
    <3>1. 31 - clk + j = 31 /\ pos + j = Len(wire) /\ 31 \in WordPos
      BY <1>2, <1>4, <2>2 DEF WordPos
    <3> QED
      BY <1>8, <2>1, <3>1 DEF b
  <2>3. CASE j # clk
    <3>1. j \in 0..clk - 1 /\ 31 - clk + j # 31 /\ 31 - clk + j + 1 = 32 - clk + j
      BY <1>4, <2>1, <2>3
    <3>2. reg'.tdo[31 - clk + j] = reg.tdo[32 - clk + j]
      BY <1>8, <2>1, <3>1
    <3> QED
      BY <1>2, <2>1, <3>1, <3>2 DEF Inv, RegisterInv
  <2> QED
    BY <2>2, <2>3
<1>15. RegisterInv'
  <2>1. Fetch(tms)' = Fetch(tms) /\ Fetch(tdi)' = Fetch(tdi) /\ Partial' = Partial
    BY <1>1 DEF Fetch, Partial
  <2> QED
    BY <1>1, <1>2, <1>10, <1>14, <2>1 DEF Inv, RegisterInv
<1>16. DataInv'
  BY <1>1, <1>7 DEF Inv, DataInv
<1> QED
  BY <1>12, <1>13, <1>15, <1>16 DEF Inv

LEMMA CoreDoneInv == Inv /\ CoreDone => Inv'
<1> SUFFICES ASSUME Inv, CoreDone PROVE Inv'
  OBVIOUS
<1>1. /\ reg.ctrl = 1 /\ clk = reg.length /\ reg' = [reg EXCEPT !.ctrl = 0]
      /\ UNCHANGED <<pc, nbits, tms, tdi, result, bitsLeft, bytesLeft, pos, lastTms, lastTdi,
                     clk, tap, wire>>
  BY DEF CoreDone, argVars
<1>2. reg \in [length : 1..32, tms : Word, tdi : Word, tdo : Word, ctrl : {0, 1}]
  BY DEF Inv, TypeOK
<1>3. /\ reg' \in [length : 1..32, tms : Word, tdi : Word, tdo : Word, ctrl : {0, 1}]
      /\ reg'.length = reg.length /\ reg'.tms = reg.tms /\ reg'.tdi = reg.tdi
      /\ reg'.tdo = reg.tdo /\ reg'.ctrl = 0
  BY <1>1, <1>2
<1>4. TypeOK'
  BY <1>1, <1>3 DEF Inv, TypeOK
<1>5. ProgressInv'
  BY <1>1, <1>3 DEF Inv, ProgressInv
<1>6. RegisterInv'
  <2>1. Fetch(tms)' = Fetch(tms) /\ Fetch(tdi)' = Fetch(tdi) /\ Partial' = Partial
    BY <1>1 DEF Fetch, Partial
  <2> QED
    BY <1>1, <1>3, <2>1 DEF Inv, RegisterInv
<1>7. DataInv'
  BY <1>1 DEF Inv, DataInv
<1> QED
  BY <1>4, <1>5, <1>6, <1>7 DEF Inv

-----------------------------------------------------------------------------

(* Every step keeps the invariant. *)
LEMMA NextInv == Inv /\ [Next]_vars => Inv'
<1> SUFFICES ASSUME Inv, [Next]_vars PROVE Inv'
  OBVIOUS
<1>1. CASE UNCHANGED vars
  BY <1>1 DEF vars, argVars, Inv, TypeOK, ProgressInv, RegisterInv, DataInv, Fetch, Partial
<1>2. CASE Driver
  BY <1>2, CallInv, StartWordInv, ReadWordInv, ReturnInv DEF Driver
<1>3. CASE Core
  BY <1>3, CoreClockInv, CoreDoneInv DEF Core
<1> QED
  BY <1>1, <1>2, <1>3 DEF Next

(* The inductive invariant: types, the progress of the words and of the    *)
(* core's bits, the registers, and the data (AXIDevice::shift()). *)
THEOREM Invariance == Spec => []Inv
  BY InitInv, NextInv, PTL DEF Spec

(* The variables of the call and the registers of the core keep their      *)
(* types, for vectors of any length (AXIDevice::shift).                    *)
THEOREM TypeCorrect == Spec => []TypeOK
<1>1. Inv => TypeOK
  BY DEF Inv
<1> QED
  BY <1>1, Invariance, PTL

(* The registers the core reads do not change under it, for vectors of any *)
(* length and content (lines 123 to 137).                                  *)
THEOREM CoreIsUndisturbed == Spec => CoreUndisturbed
<1> DEFINE Kept == reg'.length = reg.length /\ reg'.tms = reg.tms /\ reg'.tdi = reg.tdi
<1>1. Inv /\ [Next]_vars => (reg.ctrl = 1 => Kept)
  <2> SUFFICES ASSUME Inv, [Next]_vars, reg.ctrl = 1 PROVE Kept
    OBVIOUS
  <2>1. pc = "wait" /\ reg \in [length : 1..32, tms : Word, tdi : Word, tdo : Word, ctrl : {0, 1}]
    BY DEF Inv, TypeOK, ProgressInv
  <2>2. CASE UNCHANGED vars
    BY <2>2 DEF vars
  <2>3. CASE Driver
    BY <2>1, <2>3 DEF Driver, Call, StartWord, ReadWord, Return
  <2>4. CASE Core
    BY <2>1, <2>4 DEF Core, CoreClock, CoreDone
  <2> QED
    BY <2>2, <2>3, <2>4 DEF Next
<1>2. Inv /\ [Next]_vars => [reg.ctrl = 1 => Kept]_vars
  BY <1>1
<1> QED
  BY <1>2, Invariance, PTL DEF Spec, CoreUndisturbed
-----------------------------------------------------------------------------
(* The promise of shift(): each step of the driver and of the core is a    *)
(* step of JtagShift, or one that it does not see.                         *)

LEMMA VectorIsSeq ==
  ASSUME NEW S, NEW n \in Nat, NEW v \in [1..n -> S]
  PROVE  v \in Seq(S) /\ Len(v) = n
  BY LenProperties, SeqDef

(* The bits of the call, in the order the contract counts them in. *)
LEMMA Counted ==
  ASSUME NEW n \in Nat, NEW S, NEW v \in [BitsOf(n) -> S]
  PROVE  /\ [k \in 1..n |-> v[k - 1]] \in Seq(S)
         /\ Len([k \in 1..n |-> v[k - 1]]) = n
<1>1. ASSUME NEW k \in 1..n PROVE v[k - 1] \in S
  <2>1. k - 1 \in Nat /\ k - 1 < n
    OBVIOUS
  <2>2. k - 1 \in BitsOf(n)
    BY <2>1, BitPositions
  <2> QED
    BY <2>2
<1>2. [k \in 1..n |-> v[k - 1]] \in [1..n -> S]
  BY <1>1
<1> QED
  BY <1>2, VectorIsSeq

LEMMA InitImplements == Init => Contract!Init
<1> SUFFICES ASSUME Init PROVE Contract!Init
  OBVIOUS
<1>1. nbits = 0 /\ pc = "idle" /\ wire = <<>>
  BY DEF Init
<1>2. [k \in 1..nbits |-> tms[k - 1]] = <<>> /\ [k \in 1..nbits |-> tdi[k - 1]] = <<>>
      /\ [k \in 1..nbits |-> result[k - 1]] = <<>>
  BY <1>1
<1> QED
  BY <1>1, <1>2 DEF Contract!Init

LEMMA CallImplements == Inv /\ Inv' /\ Call => Contract!Call
<1> SUFFICES ASSUME Inv, Inv', Call PROVE Contract!Call
  OBVIOUS
<1>1. pc = "idle" /\ pc' = "loop" /\ wire' = <<>>
  BY DEF Call
<1>2. nbits' \in Nat /\ tms' \in [BitsOf(nbits') -> Bit] /\ tdi' \in [BitsOf(nbits') -> Bit]
  BY DEF Inv, TypeOK
<1> DEFINE s == [k \in 1..nbits' |-> tms'[k - 1]]
           d == [k \in 1..nbits' |-> tdi'[k - 1]]
<1>3. s \in Seq(Bit) /\ d \in Seq(Bit) /\ Len(s) = Len(d)
  BY <1>2, Counted
<1> QED
  BY <1>1, <1>3 DEF Contract!Call, Contract!Bit, Bit

LEMMA UnseenSteps == Inv /\ (StartWord \/ ReadWord \/ CoreDone) => UNCHANGED Contract!vars
<1> SUFFICES ASSUME Inv, StartWord \/ ReadWord \/ CoreDone PROVE UNCHANGED Contract!vars
  OBVIOUS
<1>1. pc # "idle" /\ pc' # "idle"
  BY DEF StartWord, ReadWord, CoreDone, Inv, ProgressInv
<1>2. UNCHANGED <<nbits, tms, tdi, wire>>
  BY DEF StartWord, ReadWord, CoreDone, argVars
<1> QED
  BY <1>1, <1>2 DEF Contract!vars

LEMMA ClockImplements == Inv /\ CoreClock => Contract!Clock
<1> SUFFICES ASSUME Inv, CoreClock PROVE Contract!Clock
  OBVIOUS
<1> DEFINE n == Len(wire)
           s == [k \in 1..nbits |-> tms[k - 1]]
           d == [k \in 1..nbits |-> tdi[k - 1]]
<1>1. /\ pc = "wait" /\ n \in 0..nbits - 1 /\ n \in BitsOf(nbits)
      /\ reg.tms[clk] = tms[n] /\ reg.tdi[clk] = tdi[n]
  BY Clocked
<1>2. /\ nbits \in Nat /\ tms \in [BitsOf(nbits) -> Bit] /\ tdi \in [BitsOf(nbits) -> Bit]
      /\ tap[n] \in Bit
  BY <1>1 DEF Inv, TypeOK
<1>3. UNCHANGED <<pc, nbits, tms, tdi>>
      /\ wire' = Append(wire, [tms |-> reg.tms[clk], tdi |-> reg.tdi[clk], tdo |-> tap[n]])
  BY DEF CoreClock, argVars
<1>4. Len(s) = nbits
  BY <1>2, Counted
<1>5. n + 1 \in 1..nbits /\ (n + 1) - 1 = n
  BY <1>1, <1>2
<1>6. s[n + 1] = tms[n] /\ d[n + 1] = tdi[n]
  BY <1>5
<1>7. wire' = Append(wire, [tms |-> s[n + 1], tdi |-> d[n + 1], tdo |-> tap[n]])
  BY <1>1, <1>3, <1>6
<1>8. n < Len(s)
  BY <1>1, <1>2, <1>4
<1>9. pc # "idle" /\ pc' # "idle"
  BY <1>1, <1>3
<1>10. s' = s /\ d' = d
  BY <1>3
<1> QED
  BY <1>2, <1>7, <1>8, <1>9, <1>10 DEF Contract!Clock, Contract!Bit, Bit

LEMMA ReturnImplements == Inv /\ Return => Contract!Return
<1> SUFFICES ASSUME Inv, Return PROVE Contract!Return
  OBVIOUS
<1> DEFINE s == [k \in 1..nbits |-> tms[k - 1]]
           d == [k \in 1..nbits |-> tdi[k - 1]]
           r == [k \in 1..nbits |-> result[k - 1]]
<1>1. pc = "loop" /\ bitsLeft <= 0 /\ pc' = "idle" /\ UNCHANGED <<nbits, tms, tdi, result, wire>>
  BY DEF Return, argVars
<1>2. /\ nbits \in Nat /\ pos \in Nat /\ bitsLeft \in Int /\ bitsLeft = nbits - pos
      /\ tms \in [BitsOf(nbits) -> Bit] /\ Len(wire) = nbits
  BY <1>1 DEF Inv, TypeOK, ProgressInv
<1>3. Len(s) = nbits
  BY <1>2, Counted
<1>4. ASSUME NEW k \in 1..nbits PROVE result[k - 1] = wire[k].tdo
  <2>1. k - 1 \in 0..nbits - 1 /\ k - 1 < pos /\ k \in 1..Len(wire)
    BY <1>1, <1>2
  <2>2. result[k - 1] = tap[k - 1]
    BY <2>1 DEF Inv, DataInv
  <2>3. wire[k] = [tms |-> tms[k - 1], tdi |-> tdi[k - 1], tdo |-> tap[k - 1]]
    BY <2>1 DEF Inv, DataInv
  <2> QED
    BY <2>2, <2>3
<1>5. r = [k \in 1..Len(s) |-> wire[k].tdo]
  BY <1>3, <1>4
<1>6. s' = s /\ d' = d /\ r' = r
  BY <1>1
<1> QED
  BY <1>1, <1>2, <1>3, <1>5, <1>6 DEF Contract!Return

(* AXIDevice::shift keeps the promise of XVCDriver::shift for vectors of   *)
(* any length and content: the bits on the wire and the result it returns  *)
(* are those JtagShift allows (lines 100 to 165).                          *)
THEOREM Implementation == Spec => ImplementsShift
<1>1. Inv /\ Inv' /\ [Next]_vars => [Contract!Next]_Contract!vars
  <2> SUFFICES ASSUME Inv, Inv', [Next]_vars PROVE [Contract!Next]_Contract!vars
    OBVIOUS
  <2>1. CASE UNCHANGED vars
    BY <2>1 DEF vars, argVars, Contract!vars
  <2>2. CASE Call
    BY <2>2, CallImplements DEF Contract!Next
  <2>3. CASE Return
    BY <2>3, ReturnImplements DEF Contract!Next
  <2>4. CASE CoreClock
    BY <2>4, ClockImplements DEF Contract!Next
  <2>5. CASE StartWord \/ ReadWord \/ CoreDone
    BY <2>5, UnseenSteps
  <2> QED
    BY <2>1, <2>2, <2>3, <2>4, <2>5 DEF Next, Driver, Core
<1> QED
  BY <1>1, InitImplements, Invariance, PTL DEF Spec, Contract!Spec, ImplementsShift
=============================================================================
