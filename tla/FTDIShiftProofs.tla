-------------------------- MODULE FTDIShiftProofs --------------------------
(***************************************************************************)
(* Theorems about FTDIShift, for vectors of every length and content and   *)
(* for every MAX_DATA above 25: no round overruns the buffers of           *)
(* FTDIDevice::shift(), its variables keep their types, and, over a chip   *)
(* that takes TMS low again, it keeps the promise of JtagShift.            *)
(*                                                                         *)
(* The last two follow the bits through a round.  Two functions lay out    *)
(* its descriptors: the first bit of each in the vectors, and the bytes    *)
(* that come back before its own.  The commands built, then the commands   *)
(* left to execute and the bytes that are back, agree with that layout.    *)
(***************************************************************************)
EXTENDS FTDIShift, SequenceTheorems, TLAPS

BufferTypes ==
    /\ left \in Nat /\ wrPtr \in Nat /\ rdLen \in Nat
    /\ curLen \in Nat
    /\ desc \in Seq(Descriptor)

(* Each byte asked for took at least a byte of command, the last iteration *)
(* left two bytes free, and a byte command that is being built has a       *)
(* descriptor to come.                                                     *)
RoundFits ==
    /\ rdLen <= wrPtr /\ wrPtr <= MaxData - 2
    /\ Len(desc) <= MaxData
    /\ building => Len(desc) < MaxData

BufferInv == BufferTypes /\ RoundFits

-----------------------------------------------------------------------------

(* A byte command that is completed adds one descriptor (lines 259 to 267). *)
LEMMA DescriptorsFit ==
    ASSUME BufferTypes
    PROVE  /\ Descriptors \in Seq(Descriptor)
           /\ Len(Descriptors) = Len(desc) + (IF building THEN 1 ELSE 0)
  <1> DEFINE d == [oper |-> "byte", len |-> curLen]
  <1>1. d \in Descriptor
    BY DEF BufferTypes, Descriptor
  <1>2. CASE building
    <2>1. Descriptors = Append(desc, d)
      BY <1>2 DEF Descriptors
    <2> HIDE DEF d
    <2> QED BY <1>1, <1>2, <2>1 DEF BufferTypes
  <1>3. CASE ~building
    <2>1. Descriptors = desc
      BY <1>3 DEF Descriptors
    <2> QED BY <1>3, <2>1 DEF BufferTypes
  <1> QED BY <1>2, <1>3

(* A byte with TMS becomes one to eight commands (lines 286 to 304). *)
LEMMA TmsCountRange ==
    ASSUME left \in Nat, left > 0
    PROVE  TmsCount \in 1..8 /\ TmsCount <= left
  BY DEF TmsCount

(* A call that has not started has empty buffers. *)
LEMMA InitFits == Init => BufferInv
  <1> SUFFICES ASSUME Init PROVE BufferInv
    OBVIOUS
  <1>1. desc = <<>> /\ wrPtr = 0 /\ rdLen = 0 /\ left = 0 /\ curLen = 0 /\ ~building
    BY DEF Init
  <1>2. desc \in Seq(Descriptor) /\ Len(desc) = 0
    BY <1>1
  <1> QED BY <1>1, <1>2, MaxDataAssumption DEF BufferInv, BufferTypes, RoundFits

(* The bytes without TMS (lines 235 to 253). *)
LEMMA AddByteFits == BufferInv /\ AddByte => BufferInv'
  <1> SUFFICES ASSUME BufferInv, AddByte PROVE BufferInv'
    OBVIOUS
  <1>1. BufferTypes /\ left > 7 /\ Len(desc) < MaxData - 8 /\ wrPtr < MaxData - 25
    BY DEF BufferInv, AddByte, Room
  <1>2. rdLen <= wrPtr
    BY DEF BufferInv, RoundFits
  <1>3. desc' = desc /\ left' = left - 8 /\ rdLen' = rdLen + 1
    BY DEF AddByte
  <1>4. wrPtr' = wrPtr + 1 \/ wrPtr' = wrPtr + 4
    BY DEF AddByte
  <1>5. curLen' = curLen + 1 \/ curLen' = 0
    BY DEF AddByte
  <1>6. BufferTypes'
    BY <1>1, <1>3, <1>4, <1>5 DEF BufferTypes
  <1>7. Len(desc) \in Nat
    BY <1>1 DEF BufferTypes
  <1>8. rdLen' <= wrPtr' /\ wrPtr' <= MaxData - 2 /\ Len(desc') < MaxData
    BY <1>1, <1>2, <1>3, <1>4, <1>7, MaxDataAssumption DEF BufferTypes
  <1>9. Len(desc') <= MaxData
    BY <1>3, <1>7, <1>8, MaxDataAssumption
  <1> QED BY <1>6, <1>8, <1>9 DEF BufferInv, RoundFits

(* The last bits without TMS (lines 269 to 281). *)
LEMMA AddBitsFits == BufferInv /\ AddBits => BufferInv'
  <1> SUFFICES ASSUME BufferInv, AddBits PROVE BufferInv'
    OBVIOUS
  <1> DEFINE d == [oper |-> "bit", len |-> left - 1]
  <1>1. BufferTypes /\ left > 0 /\ Len(desc) < MaxData - 8 /\ wrPtr < MaxData - 25
    BY DEF BufferInv, AddBits, Room
  <1>2. d \in Descriptor
    BY <1>1 DEF BufferTypes, Descriptor
  <1>3. desc' = Append(Descriptors, d)
    BY DEF AddBits
  <1>4. desc' \in Seq(Descriptor) /\ Len(desc') <= Len(desc) + 2
    BY <1>1, <1>2, <1>3, DescriptorsFit DEF BufferTypes
  <1>5. BufferTypes'
    BY <1>1, <1>4 DEF AddBits, BufferTypes
  <1>6. RoundFits'
    BY <1>1, <1>4, MaxDataAssumption DEF AddBits, BufferInv, BufferTypes, RoundFits
  <1> QED BY <1>5, <1>6 DEF BufferInv

(* A byte with TMS: at most 24 bytes and 9 descriptors (lines 283 to 307). *)
LEMMA AddTmsFits == BufferInv /\ AddTms => BufferInv'
  <1> SUFFICES ASSUME BufferInv, AddTms PROVE BufferInv'
    OBVIOUS
  <1> DEFINE ds == [k \in 1..TmsCount |-> [oper |-> "tms", len |-> 0]]
  <1>1. BufferTypes /\ left > 0 /\ Len(desc) < MaxData - 8 /\ wrPtr < MaxData - 25
    BY DEF BufferInv, AddTms, Room
  <1>2. TmsCount \in 1..8 /\ TmsCount <= left
    BY <1>1, TmsCountRange DEF BufferTypes
  <1>3. ds \in Seq(Descriptor) /\ Len(ds) = TmsCount
    BY <1>2 DEF Descriptor
  <1>4. desc' = Descriptors \o ds
    BY DEF AddTms
  <1>5. desc' \in Seq(Descriptor) /\ Len(desc') <= Len(desc) + 9
    <2> HIDE DEF ds
    <2> QED BY <1>1, <1>2, <1>3, <1>4, DescriptorsFit DEF BufferTypes
  <1>6. wrPtr' = wrPtr + 3 * TmsCount /\ rdLen' = rdLen + TmsCount /\ left' = left - TmsCount
    BY DEF AddTms
  <1>7. BufferTypes'
    BY <1>1, <1>2, <1>5, <1>6 DEF AddTms, BufferTypes
  <1>8. RoundFits'
    BY <1>1, <1>2, <1>5, <1>6, MaxDataAssumption DEF AddTms, BufferInv, BufferTypes, RoundFits
  <1> QED BY <1>7, <1>8 DEF BufferInv

(* The end of a round completes what is being built (lines 313 to 326). *)
LEMMA SendFits == BufferInv /\ Send => BufferInv'
  <1> SUFFICES ASSUME BufferInv, Send PROVE BufferInv'
    OBVIOUS
  <1>1. desc' \in Seq(Descriptor) /\ Len(desc') = Len(desc) + (IF building THEN 1 ELSE 0)
    BY DescriptorsFit DEF BufferInv, Send
  <1>2. wrPtr' = wrPtr /\ rdLen' = rdLen /\ left' = left /\ curLen' = curLen
    BY DEF Send
  <1>3. ~building'
    BY DEF Send
  <1>4. BufferTypes'
    BY <1>1, <1>2 DEF BufferInv, BufferTypes
  <1>5. Len(desc') <= MaxData
    <2>1. Len(desc) \in Nat
      BY DEF BufferInv, BufferTypes
    <2>2. CASE building
      BY <1>1, <2>1, <2>2, MaxDataAssumption DEF BufferInv, RoundFits
    <2>3. CASE ~building
      BY <1>1, <2>1, <2>3 DEF BufferInv, RoundFits
    <2> QED BY <2>2, <2>3
  <1>6. rdLen' <= wrPtr' /\ wrPtr' <= MaxData - 2
    BY <1>2 DEF BufferInv, RoundFits
  <1> QED BY <1>3, <1>4, <1>5, <1>6 DEF BufferInv, RoundFits

(* Unpacking takes descriptors off (lines 335 to 368). *)
LEMMA UnpackFits == BufferInv /\ Unpack => BufferInv'
  <1> SUFFICES ASSUME BufferInv, Unpack PROVE BufferInv'
    OBVIOUS
  <1>1. desc' = Tail(desc) /\ desc # <<>>
    BY DEF Unpack
  <1>2. desc' \in Seq(Descriptor) /\ Len(desc') = Len(desc) - 1
    BY <1>1 DEF BufferInv, BufferTypes
  <1>3. wrPtr' = wrPtr /\ rdLen' = rdLen /\ left' = left /\ curLen' = curLen
    BY DEF Unpack
  <1>4. building' = building
    BY DEF Unpack
  <1>5. BufferTypes'
    BY <1>2, <1>3 DEF BufferInv, BufferTypes
  <1>6. rdLen' <= wrPtr' /\ wrPtr' <= MaxData - 2
    BY <1>3 DEF BufferInv, RoundFits
  <1>7. Len(desc) \in Nat /\ Len(desc) <= MaxData
    BY DEF BufferInv, BufferTypes, RoundFits
  <1>8. Len(desc') < MaxData /\ Len(desc') <= MaxData
    BY <1>2, <1>7, MaxDataAssumption
  <1> QED BY <1>5, <1>6, <1>8 DEF BufferInv, RoundFits

(* All the steps of a call and of the chip. *)
LEMMA StepFits == BufferInv /\ [Next]_vars => BufferInv'
  <1> SUFFICES ASSUME BufferInv, [Next]_vars PROVE BufferInv'
    OBVIOUS
  <1> USE DEF BufferInv, BufferTypes, RoundFits
  <1>1. CASE Call
    BY <1>1, LengthsAssumption DEF Call, roundVars
  <1>2. CASE StartRound
    BY <1>2, MaxDataAssumption DEF StartRound
  <1>3. CASE Return
    BY <1>3 DEF Return, roundVars
  <1>4. CASE AddByte
    BY <1>4, AddByteFits
  <1>5. CASE AddBits
    BY <1>5, AddBitsFits
  <1>6. CASE AddTms
    BY <1>6, AddTmsFits
  <1>7. CASE Send
    BY <1>7, SendFits
  <1>8. CASE ReadAnswers
    BY <1>8 DEF ReadAnswers, roundVars
  <1>9. CASE Unpack
    BY <1>9, UnpackFits
  <1>10. CASE ChipClock
    BY <1>10 DEF ChipClock, roundVars
  <1>11. CASE UNCHANGED vars
    BY <1>11 DEF vars, roundVars
  <1> QED
    BY <1>1, <1>2, <1>3, <1>4, <1>5, <1>6, <1>7, <1>8, <1>9, <1>10, <1>11 DEF Next, Driver

-----------------------------------------------------------------------------

(* The room the loop condition leaves is enough, in every round of every   *)
(* call (lines 210 to 212 and 228 to 230).                                 *)
THEOREM BuffersAlwaysFit == Spec => []BuffersFit
  <1>1. BufferInv => BuffersFit
    BY MaxDataAssumption DEF BufferInv, BufferTypes, RoundFits, BuffersFit
  <1> QED
    BY <1>1, InitFits, StepFits, PTL DEF Spec
-----------------------------------------------------------------------------
(* What the chip is sent, and what comes back.                             *)

(* A descriptor of fewer than 8 samples, unless it is of bytes. *)
Whole(d) == d \in Descriptor /\ (d.oper # "byte" => d.len <= 7)

(* What the descriptors ds stand for: f[i] is the first bit of the i-th in *)
(* the vectors, g[i] the bytes that come back before it.                   *)
Lay(f, g, ds) ==
    /\ f \in [1..Len(ds) + 1 -> Nat] /\ g \in [1..Len(ds) + 1 -> Nat]
    /\ g[1] = 0
    /\ \A i \in 1..Len(ds) :
         Whole(ds[i]) /\ f[i + 1] = f[i] + Samples(ds[i]) /\ g[i + 1] = g[i] + NBytes(Samples(ds[i]))
    /\ \A i, j \in 1..Len(ds) + 1 : i <= j => f[i] <= f[j] /\ g[i] <= g[j]

(* The command c sends the bits from a on, and returns what d says. *)
Fits(tm, td, c, d, a) ==
    /\ c \in Command /\ c.bits = Samples(d) /\ Len(c.tdi) = c.bits
    /\ \A k \in 1..c.bits : c.tdi[k] = td[a + k - 1]
    /\ \/ c.tms = {} /\ \A k \in 1..c.bits : tm[a + k - 1] = 0
       \/ c.bits = 1 /\ c.tms = {tm[a]}

(* The commands cs send the bits from a to b and return r bytes. *)
Plan(tm, td, cs, ds, a, b, r) ==
    /\ Len(cs) = Len(ds)
    /\ \E f, g \in [1..Len(ds) + 1 -> Nat] :
         /\ Lay(f, g, ds) /\ f[1] = a /\ f[Len(ds) + 1] = b /\ g[Len(ds) + 1] = r
         /\ \A i \in 1..Len(ds) : Fits(tm, td, cs[i], ds[i], f[i])

(* A byte command that is being built has the n bits from a on. *)
Begun(tm, td, c, n, a) ==
    /\ c \in Command /\ c.tms = {} /\ Len(c.tdi) = n
    /\ \A k \in 1..n : c.tdi[k] = td[a + k - 1] /\ tm[a + k - 1] = 0

(* The bytes rs hold what the target tp answered from bit a on to d, whose *)
(* bytes are those after the first r.                                      *)
Returned(tp, rs, d, a, r) ==
    \A k \in 0..Samples(d) - 1 : rs[r + k \div 8 + 1][LowestSample(d) + (k % 8)] = tp[a + k]

(* The bytes of the command that is executed that are back. *)
Returning(tp, rs, n, a, r) ==
    \A k \in 0..8 * (n \div 8) - 1 : rs[r + k \div 8 + 1][k % 8] = tp[a + k]

(* The chip has executed all but the commands cs, and n bits of the first. *)
Reading(tm, td, tp, f, g, cs, ds, n, w, rs) ==
    LET m == Len(ds) - Len(cs) IN
    /\ Len(cs) <= Len(ds)
    /\ \A j \in 1..Len(cs) : Fits(tm, td, cs[j], ds[m + j], f[m + j])
    /\ w = f[m + 1] + n /\ Len(rs) = g[m + 1] + n \div 8
    /\ IF cs = <<>> THEN n = 0 ELSE n < cs[1].bits
    /\ \A i \in 1..m : Returned(tp, rs, ds[i], f[i], g[i])
    /\ Returning(tp, rs, n, f[m + 1], g[m + 1])

(* The descriptors ds are those of the bits from a to b and of r bytes.    *)
UnderWay(tm, td, tp, cs, ds, a, b, r, n, w, rs) ==
    \E f, g \in [1..Len(ds) + 1 -> Nat] :
        /\ Lay(f, g, ds) /\ f[1] = a /\ f[Len(ds) + 1] = b /\ g[Len(ds) + 1] = r
        /\ Reading(tm, td, tp, f, g, cs, ds, n, w, rs)

(* All of them are answered. *)
Answered(tp, ds, a, b, rs) ==
    \E f, g \in [1..Len(ds) + 1 -> Nat] :
        /\ Lay(f, g, ds) /\ f[1] = a /\ f[Len(ds) + 1] = b /\ g[Len(ds) + 1] = Len(rs)
        /\ \A i \in 1..Len(ds) : Returned(tp, rs, ds[i], f[i], g[i])

BuildInv ==
    pc = "build" =>
        IF building
        THEN LET n == curLen + 1 IN
             /\ cmd # <<>> /\ Begun(tms, tdi, Last(cmd), 8 * n, nbits - left - 8 * n)
             /\ Plan(tms, tdi, Front(cmd), desc, bitPos, nbits - left - 8 * n, rdLen - n)
        ELSE Plan(tms, tdi, cmd, desc, bitPos, nbits - left, rdLen)

ReadInv ==
    pc = "read" =>
        UnderWay(tms, tdi, tap, queue, desc, bitPos, nbits - left, rdLen, clocked, Len(wire), res)

UnpackInv ==
    pc = "unpack" =>
        /\ queue = <<>> /\ clocked = 0 /\ Len(wire) = nbits - left
        /\ Answered(tap, desc, bitPos, nbits - left, res)

(* Between the phases of a round nothing is under way, and whole bytes are *)
(* built until the last one.                                               *)
PlaceInv ==
    /\ pc \in {"idle", "round"} => desc = <<>> /\ bitPos = nbits - left
    /\ pc = "idle" => left = 0
    /\ pc \in {"idle", "round", "build"} =>
         queue = <<>> /\ clocked = 0 /\ res = <<>> /\ Len(wire) = bitPos
    /\ pc # "build" => cmd = <<>> /\ ~building
    /\ left > 0 => nbits - left = 8 * curByte

(* What was sampled: on the wire, in the register, in the result. *)
SampleInv ==
    /\ \A k \in 1..Len(wire) : wire[k].tdo = tap[k - 1]
    /\ \A j \in 0..7 : j < Len(wire) => reg[7 - j] = tap[Len(wire) - 1 - j]
    /\ \A i \in BitsOf(nbits) : result[i] = IF i < bitPos THEN tap[i] ELSE 0
    /\ TmsHeld = FALSE => pin = 0

Inv == TypeOK /\ PlaceInv /\ BuildInv /\ ReadInv /\ UnpackInv /\ SampleInv

-----------------------------------------------------------------------------

(* A descriptor stands for a sample at least, and a byte for each 8. *)
LEMMA SamplesOf ==
  ASSUME NEW d, Whole(d)
  PROVE  /\ Samples(d) \in Nat \ {0} /\ NBytes(Samples(d)) \in Nat \ {0}
         /\ d.len \in Nat /\ LowestSample(d) \in 0..7
         /\ d.oper = "byte" => /\ Samples(d) = 8 * (d.len + 1) /\ NBytes(Samples(d)) = d.len + 1
                               /\ LowestSample(d) = 0
         /\ d.oper # "byte" => /\ Samples(d) = d.len + 1 /\ NBytes(Samples(d)) = 1
                               /\ d.len <= 7 /\ LowestSample(d) = 7 - d.len
  <1>1. d.len \in Nat /\ (d.oper # "byte" => d.len <= 7)
    BY DEF Whole, Descriptor
  <1> DEFINE n == d.len
  <1>2. CASE d.oper = "byte"
    <2>1. Samples(d) = 8 * (n + 1) /\ LowestSample(d) = 0
      BY <1>2 DEF Samples, LowestSample
    <2> HIDE DEF n
    <2>2. n \in Nat
      BY <1>1 DEF n
    <2>3. NBytes(8 * (n + 1)) = n + 1
      BY <2>2 DEF NBytes
    <2> QED
      BY <1>2, <2>1, <2>2, <2>3 DEF n
  <1>3. CASE d.oper # "byte"
    <2>1. Samples(d) = n + 1 /\ LowestSample(d) = 7 - n
      BY <1>3 DEF Samples, LowestSample
    <2>2. n \in Nat /\ n <= 7
      BY <1>1, <1>3
    <2> HIDE DEF n
    <2>3. NBytes(n + 1) = 1
      BY <2>2 DEF NBytes
    <2> QED
      BY <1>3, <2>1, <2>2, <2>3 DEF n
  <1> QED
    BY <1>2, <1>3

(* What is planned goes forward in the vectors. *)
LEMMA PlanRange ==
  ASSUME NEW tm, NEW td, NEW cs, NEW ds \in Seq(Descriptor), NEW a, NEW b, NEW r,
         Plan(tm, td, cs, ds, a, b, r)
  PROVE  a \in Nat /\ b \in Nat /\ r \in Nat /\ a <= b /\ Len(cs) = Len(ds)
  <1> DEFINE n == Len(ds)
  <1>1. PICK f \in [1..n + 1 -> Nat], g \in [1..n + 1 -> Nat] :
          /\ Lay(f, g, ds) /\ f[1] = a /\ f[n + 1] = b /\ g[n + 1] = r
    BY DEF Plan
  <1>2. n \in Nat /\ 1 \in 1..n + 1 /\ n + 1 \in 1..n + 1 /\ 1 <= n + 1
    OBVIOUS
  <1>3. f[1] <= f[n + 1]
    BY <1>1, <1>2 DEF Lay
  <1> QED
    BY <1>1, <1>2, <1>3 DEF Plan

(* A round begins with no command. *)
LEMMA PlanEmpty ==
  ASSUME NEW tm, NEW td, NEW a \in Nat
  PROVE  Plan(tm, td, <<>>, <<>>, a, a, 0)
  <1> DEFINE f == [i \in 1..1 |-> a]
             g == [i \in 1..1 |-> 0]
             e == <<>>
  <1>1. Len(e) = 0
    OBVIOUS
  <1> HIDE DEF e
  <1>2. f \in [1..Len(e) + 1 -> Nat] /\ g \in [1..Len(e) + 1 -> Nat]
    BY <1>1
  <1>3. f[1] = a /\ f[Len(e) + 1] = a /\ g[1] = 0 /\ g[Len(e) + 1] = 0
    BY <1>1
  <1>4. Lay(f, g, e)
    <2>1. ASSUME NEW i \in 1..Len(e) + 1, NEW j \in 1..Len(e) + 1 PROVE f[i] <= f[j] /\ g[i] <= g[j]
      BY <1>1
    <2>2. 1..Len(e) = {}
      BY <1>1
    <2> HIDE DEF f, g
    <2> QED
      BY <1>2, <1>3, <2>1, <2>2 DEF Lay
  <1>5. \A i \in 1..Len(e) : Fits(tm, td, e[i], e[i], f[i])
    BY <1>1
  <1> HIDE DEF f, g
  <1>6. Plan(tm, td, e, e, a, a, 0)
    BY <1>2, <1>3, <1>4, <1>5 DEF Plan
  <1> QED
    BY <1>6 DEF e

(* One command that was added. *)
LEMMA PlanOne ==
  ASSUME NEW tm, NEW td, NEW c, NEW d, NEW a \in Nat, Whole(d), Fits(tm, td, c, d, a)
  PROVE  Plan(tm, td, <<c>>, <<d>>, a, a + Samples(d), NBytes(Samples(d)))
  <1> DEFINE n == Samples(d)
             y == NBytes(n)
             cs == <<c>>
             ds == <<d>>
             f == [i \in 1..2 |-> IF i = 1 THEN a ELSE a + n]
             g == [i \in 1..2 |-> IF i = 1 THEN 0 ELSE y]
  <1>1. Len(cs) = 1 /\ Len(ds) = 1 /\ cs[1] = c /\ ds[1] = d
    OBVIOUS
  <1>2. n \in Nat /\ y \in Nat
    BY SamplesOf
  <1>3. ds[1] = d /\ Samples(ds[1]) = n /\ NBytes(Samples(ds[1])) = y
    BY <1>1
  <1> HIDE DEF n, y, cs, ds
  <1>4. f \in [1..Len(ds) + 1 -> Nat] /\ g \in [1..Len(ds) + 1 -> Nat]
    BY <1>1, <1>2
  <1>5. f[1] = a /\ f[1 + 1] = a + n /\ g[1] = 0 /\ g[1 + 1] = y
    OBVIOUS
  <1>6. ASSUME NEW i \in 1..Len(ds) + 1, NEW j \in 1..Len(ds) + 1, i <= j
        PROVE  f[i] <= f[j] /\ g[i] <= g[j]
    <2>1. i \in 1..2 /\ j \in 1..2
      BY <1>1
    <2> QED
      BY <1>2, <1>6, <2>1
  <1> HIDE DEF f, g
  <1>7. ASSUME NEW i \in 1..Len(ds)
        PROVE  i = 1
    BY <1>1
  <1>8. Lay(f, g, ds)
    <2>1. \A i \in 1..Len(ds) :
            Whole(ds[i]) /\ f[i + 1] = f[i] + Samples(ds[i]) /\ g[i + 1] = g[i] + NBytes(Samples(ds[i]))
      BY <1>2, <1>3, <1>5, <1>7
    <2> QED
      BY <1>4, <1>5, <1>6, <2>1 DEF Lay
  <1>9. \A i \in 1..Len(ds) : Fits(tm, td, cs[i], ds[i], f[i])
    BY <1>1, <1>5, <1>7
  <1>10. Plan(tm, td, cs, ds, a, a + n, y)
    BY <1>1, <1>4, <1>5, <1>8, <1>9 DEF Plan
  <1> QED
    BY <1>10 DEF n, y, cs, ds

(* As many commands of one bit as there are in ds. *)
LEMMA PlanBits ==
  ASSUME NEW tm, NEW td, NEW cs \in Seq(Command), NEW ds \in Seq(Descriptor), NEW a \in Nat,
         Len(cs) = Len(ds),
         \A i \in 1..Len(ds) : ds[i].oper = "tms" /\ ds[i].len = 0 /\ Fits(tm, td, cs[i], ds[i], a + i - 1)
  PROVE  Plan(tm, td, cs, ds, a, a + Len(ds), Len(ds))
  <1> DEFINE n == Len(ds)
             f == [i \in 1..n + 1 |-> a + i - 1]
             g == [i \in 1..n + 1 |-> i - 1]
  <1>1. n \in Nat
    OBVIOUS
  <1>2. f \in [1..n + 1 -> Nat] /\ g \in [1..n + 1 -> Nat]
    BY <1>1
  <1>3. f[1] = a /\ f[n + 1] = a + n /\ g[1] = 0 /\ g[n + 1] = n
    BY <1>1
  <1>4. \A i, j \in 1..n + 1 : i <= j => f[i] <= f[j] /\ g[i] <= g[j]
    BY <1>1
  <1>5. \A i \in 1..n : f[i] = a + i - 1 /\ f[i + 1] = f[i] + 1 /\ g[i + 1] = g[i] + 1
    BY <1>1
  <1> HIDE DEF f, g
  <1>6. ASSUME NEW i \in 1..n
        PROVE  Whole(ds[i]) /\ Samples(ds[i]) = 1 /\ NBytes(Samples(ds[i])) = 1
    <2>1. ds[i] \in Descriptor /\ ds[i].oper = "tms" /\ ds[i].len = 0
      BY <1>6
    <2>2. Whole(ds[i])
      BY <2>1 DEF Whole
    <2> QED
      BY <2>1, <2>2, SamplesOf
  <1>7. Lay(f, g, ds)
    BY <1>2, <1>3, <1>4, <1>5, <1>6 DEF Lay
  <1>8. \A i \in 1..n : Fits(tm, td, cs[i], ds[i], f[i])
    BY <1>5
  <1> QED
    BY <1>2, <1>3, <1>7, <1>8 DEF Plan

(* Two lists of commands, one after the other. *)
LEMMA PlanConcat ==
  ASSUME NEW tm, NEW td, NEW cs1 \in Seq(Command), NEW cs2 \in Seq(Command),
         NEW ds1 \in Seq(Descriptor), NEW ds2 \in Seq(Descriptor),
         NEW a, NEW b, NEW c, NEW r1, NEW r2,
         Plan(tm, td, cs1, ds1, a, b, r1), Plan(tm, td, cs2, ds2, b, c, r2)
  PROVE  Plan(tm, td, cs1 \o cs2, ds1 \o ds2, a, c, r1 + r2)
  <1> DEFINE n1 == Len(ds1)
             n2 == Len(ds2)
             n == n1 + n2
             cs == cs1 \o cs2
             ds == ds1 \o ds2
  <1>1. Len(cs1) = n1 /\ Len(cs2) = n2
    BY DEF Plan
  <1>2. PICK f1 \in [1..n1 + 1 -> Nat], g1 \in [1..n1 + 1 -> Nat] :
          /\ Lay(f1, g1, ds1) /\ f1[1] = a /\ f1[n1 + 1] = b /\ g1[n1 + 1] = r1
          /\ \A i \in 1..n1 : Fits(tm, td, cs1[i], ds1[i], f1[i])
    BY DEF Plan
  <1>3. PICK f2 \in [1..n2 + 1 -> Nat], g2 \in [1..n2 + 1 -> Nat] :
          /\ Lay(f2, g2, ds2) /\ f2[1] = b /\ f2[n2 + 1] = c /\ g2[n2 + 1] = r2
          /\ \A i \in 1..n2 : Fits(tm, td, cs2[i], ds2[i], f2[i])
    BY DEF Plan
  <1>4. /\ cs \in Seq(Command) /\ Len(cs) = n
        /\ \A i \in 1..n : cs[i] = IF i <= n1 THEN cs1[i] ELSE cs2[i - n1]
    <2> HIDE DEF n1, n2
    <2>1. /\ cs \in Seq(Command) /\ Len(cs) = Len(cs1) + Len(cs2)
          /\ \A i \in 1..Len(cs1) + Len(cs2) :
               cs[i] = IF i <= Len(cs1) THEN cs1[i] ELSE cs2[i - Len(cs1)]
      BY ConcatProperties
    <2> HIDE DEF cs
    <2> QED
      BY <1>1, <2>1
  <1>5. /\ ds \in Seq(Descriptor) /\ Len(ds) = n
        /\ \A i \in 1..n : ds[i] = IF i <= n1 THEN ds1[i] ELSE ds2[i - n1]
    BY ConcatProperties
  <1>6. n1 \in Nat /\ n2 \in Nat
    OBVIOUS
  <1> HIDE DEF cs, ds, n1, n2
  <1> DEFINE f == [i \in 1..n + 1 |-> IF i <= n1 THEN f1[i] ELSE f2[i - n1]]
             g == [i \in 1..n + 1 |-> IF i <= n1 THEN g1[i] ELSE r1 + g2[i - n1]]
  <1>7. r1 \in Nat /\ b \in Nat
    BY <1>2, <1>6
  <1>8. \A i \in 1..n1 + 1 : f1[i] \in Nat /\ g1[i] \in Nat /\ f1[i] <= b /\ g1[i] <= r1
    <2> SUFFICES ASSUME NEW i \in 1..n1 + 1
                 PROVE  f1[i] \in Nat /\ g1[i] \in Nat /\ f1[i] <= b /\ g1[i] <= r1
      OBVIOUS
    <2>1. n1 + 1 \in 1..n1 + 1 /\ i <= n1 + 1
      BY <1>6
    <2>2. f1[i] <= f1[n1 + 1] /\ g1[i] <= g1[n1 + 1]
      BY <1>2, <2>1 DEF Lay, n1
    <2> QED
      BY <1>2, <2>1, <2>2
  <1>9. \A i \in 1..n2 + 1 : f2[i] \in Nat /\ g2[i] \in Nat /\ b <= f2[i]
    <2> SUFFICES ASSUME NEW i \in 1..n2 + 1
                 PROVE  f2[i] \in Nat /\ g2[i] \in Nat /\ b <= f2[i]
      OBVIOUS
    <2>1. 1 \in 1..n2 + 1 /\ 1 <= i
      BY <1>6
    <2>2. f2[1] <= f2[i]
      BY <1>3, <2>1 DEF Lay, n2
    <2> QED
      BY <1>3, <2>1, <2>2
  <1>10. /\ \A i \in 1..n1 : f[i] = f1[i] /\ g[i] = g1[i]
         /\ \A i \in n1 + 1..n + 1 : f[i] = f2[i - n1] /\ g[i] = r1 + g2[i - n1] /\ i - n1 \in 1..n2 + 1
    BY <1>6
  <1>11. f \in [1..n + 1 -> Nat] /\ g \in [1..n + 1 -> Nat]
    <2> SUFFICES ASSUME NEW i \in 1..n + 1
                 PROVE  /\ (IF i <= n1 THEN f1[i] ELSE f2[i - n1]) \in Nat
                        /\ (IF i <= n1 THEN g1[i] ELSE r1 + g2[i - n1]) \in Nat
      OBVIOUS
    <2>1. CASE i <= n1
      BY <1>6, <1>8, <2>1
    <2>2. CASE ~(i <= n1)
      <3>1. i - n1 \in 1..n2 + 1
        BY <1>6, <2>2
      <3> QED
        BY <1>7, <1>9, <2>2, <3>1
    <2> QED
      BY <2>1, <2>2
  <1> HIDE DEF f, g
  <1>12. f1[n1 + 1] = b /\ f2[1] = b /\ g2[1] = 0
    BY <1>2, <1>3 DEF Lay
  <1>13. f[n1 + 1] = b /\ g[n1 + 1] = r1
    <2>1. n1 + 1 \in n1 + 1..n + 1 /\ (n1 + 1) - n1 = 1
      BY <1>6
    <2> QED
      BY <1>7, <1>10, <1>12, <2>1
  <1>14. f[1] = a /\ g[1] = 0
    <2>1. CASE n1 = 0
      BY <1>2, <1>13, <2>1 DEF Lay
    <2>2. CASE n1 # 0
      <3>1. 1 \in 1..n1
        BY <1>6, <2>2
      <3> QED
        BY <1>2, <1>10, <3>1 DEF Lay
    <2> QED
      BY <2>1, <2>2
  <1>15. f[n + 1] = c /\ g[n + 1] = r1 + r2
    <2>1. n + 1 \in n1 + 1..n + 1 /\ (n + 1) - n1 = n2 + 1
      BY <1>6
    <2> QED
      BY <1>3, <1>10, <2>1
  <1>16. ASSUME NEW i \in 1..n
         PROVE  /\ Whole(ds[i]) /\ f[i + 1] = f[i] + Samples(ds[i])
                /\ g[i + 1] = g[i] + NBytes(Samples(ds[i]))
                /\ Fits(tm, td, cs[i], ds[i], f[i])
    <2>1. CASE i <= n1
      <3>1. i \in 1..n1 /\ i + 1 \in 1..n1 + 1
        BY <1>6, <2>1
      <3>2. ds[i] = ds1[i] /\ cs[i] = cs1[i] /\ f[i] = f1[i] /\ g[i] = g1[i]
        BY <1>4, <1>5, <1>10, <2>1, <3>1
      <3>3. f[i + 1] = f1[i + 1] /\ g[i + 1] = g1[i + 1]
        <4>1. CASE i = n1
          BY <1>2, <1>13, <4>1
        <4>2. CASE i # n1
          <5>1. i + 1 \in 1..n1
            BY <1>6, <3>1, <4>2
          <5> QED
            BY <1>10, <5>1
        <4> QED
          BY <4>1, <4>2
      <3>4. Whole(ds1[i]) /\ f1[i + 1] = f1[i] + Samples(ds1[i])
            /\ g1[i + 1] = g1[i] + NBytes(Samples(ds1[i]))
        BY <1>2, <3>1 DEF Lay, n1
      <3>5. Fits(tm, td, cs1[i], ds1[i], f1[i])
        BY <1>2, <3>1
      <3> QED
        BY <3>2, <3>3, <3>4, <3>5
    <2>2. CASE ~(i <= n1)
      <3> DEFINE k == i - n1
      <3>1. k \in 1..n2 /\ i \in n1 + 1..n + 1 /\ i + 1 \in n1 + 1..n + 1 /\ (i + 1) - n1 = k + 1
            /\ k + 1 \in 1..n2 + 1 /\ k \in 1..n2 + 1
        BY <1>6, <2>2
      <3>2. ds[i] = ds2[k] /\ cs[i] = cs2[k]
        BY <1>4, <1>5, <2>2
      <3>3. f[i] = f2[k] /\ g[i] = r1 + g2[k] /\ f[i + 1] = f2[k + 1] /\ g[i + 1] = r1 + g2[k + 1]
        BY <1>10, <3>1
      <3> HIDE DEF k
      <3>4. Whole(ds2[k]) /\ f2[k + 1] = f2[k] + Samples(ds2[k])
            /\ g2[k + 1] = g2[k] + NBytes(Samples(ds2[k]))
        BY <1>3, <3>1 DEF Lay, n2
      <3>5. Fits(tm, td, cs2[k], ds2[k], f2[k])
        BY <1>3, <3>1
      <3>6. NBytes(Samples(ds2[k])) \in Nat /\ g2[k] \in Nat
        BY <1>9, <3>1, <3>4, SamplesOf
      <3>7. g[i + 1] = g[i] + NBytes(Samples(ds2[k]))
        BY <1>7, <3>3, <3>4, <3>6
      <3> QED
        BY <3>2, <3>3, <3>4, <3>5, <3>7
    <2> QED
      BY <2>1, <2>2
  <1>17. ASSUME NEW i \in 1..n + 1, NEW j \in 1..n + 1, i <= j
         PROVE  f[i] <= f[j] /\ g[i] <= g[j]
    <2>1. CASE j <= n1
      <3>1. i \in 1..n1 /\ j \in 1..n1 /\ i \in 1..n1 + 1 /\ j \in 1..n1 + 1
        BY <1>6, <1>17, <2>1
      <3>2. f1[i] <= f1[j] /\ g1[i] <= g1[j]
        BY <1>2, <1>17, <3>1 DEF Lay, n1
      <3> QED
        BY <1>10, <3>1, <3>2
    <2>2. CASE i <= n1 /\ ~(j <= n1)
      <3>1. i \in 1..n1 /\ i \in 1..n1 + 1 /\ j \in n1 + 1..n + 1
        BY <1>6, <2>2
      <3>2. f[i] = f1[i] /\ g[i] = g1[i] /\ f[j] = f2[j - n1] /\ g[j] = r1 + g2[j - n1]
            /\ j - n1 \in 1..n2 + 1
        BY <1>10, <3>1
      <3>3. f1[i] \in Nat /\ g1[i] \in Nat /\ f1[i] <= b /\ g1[i] <= r1
        BY <1>8, <3>1
      <3>4. f2[j - n1] \in Nat /\ g2[j - n1] \in Nat /\ b <= f2[j - n1]
        BY <1>9, <3>2
      <3> QED
        BY <1>7, <3>2, <3>3, <3>4
    <2>3. CASE ~(i <= n1)
      <3> DEFINE k == i - n1
                 l == j - n1
      <3>1. i \in n1 + 1..n + 1 /\ j \in n1 + 1..n + 1 /\ k <= l
        BY <1>6, <1>17, <2>3
      <3>2. f[i] = f2[k] /\ g[i] = r1 + g2[k] /\ f[j] = f2[l] /\ g[j] = r1 + g2[l]
            /\ k \in 1..n2 + 1 /\ l \in 1..n2 + 1
        BY <1>10, <3>1
      <3> HIDE DEF k, l
      <3>3. f2[k] <= f2[l] /\ g2[k] <= g2[l]
        BY <1>3, <3>1, <3>2 DEF Lay, n2
      <3>4. g2[k] \in Nat /\ g2[l] \in Nat
        BY <1>9, <3>2
      <3> QED
        BY <1>7, <3>2, <3>3, <3>4
    <2> QED
      BY <1>6, <2>1, <2>2, <2>3
  <1>18. Lay(f, g, ds)
    BY <1>5, <1>11, <1>14, <1>16, <1>17 DEF Lay
  <1>19. Plan(tm, td, cs, ds, a, c, r1 + r2)
    BY <1>4, <1>5, <1>11, <1>14, <1>15, <1>16, <1>18 DEF Plan
  <1> QED
    BY <1>19 DEF cs, ds

(* A sequence whose last element is replaced, or added. *)
LEMMA LastReplaced ==
  ASSUME NEW S, NEW s \in Seq(S), s # <<>>, NEW x \in S,
         NEW t, t = [s EXCEPT ![Len(s)] = x]
  PROVE  /\ Front(s) \in Seq(S) /\ s[Len(s)] \in S
         /\ t \in Seq(S) /\ t # <<>> /\ t = Front(s) \o <<x>>
         /\ Front(t) = Front(s)
  <1> DEFINE n == Len(s)
             u == <<x>>
  <1>1. n \in Nat /\ n # 0 /\ n \in 1..n /\ DOMAIN s = 1..n
    OBVIOUS
  <1>2. t \in Seq(S) /\ Len(t) = n /\ \A j \in 1..n : t[j] = IF j = n THEN x ELSE s[j]
    BY <1>1, ExceptSeq
  <1>3. u \in Seq(S) /\ Len(u) = 1 /\ u[1] = x
    OBVIOUS
  <1> HIDE DEF n, u
  <1>4. n = Len(s) /\ \A j \in 1..n : s[j] \in S
    BY <1>1 DEF n
  <1>5. /\ Front(s) \in Seq(S) /\ Len(Front(s)) = n - 1
        /\ \A j \in 1..n - 1 : Front(s)[j] = s[j]
    <2>1. \A j \in 1..n - 1 : s[j] \in S
      BY <1>1, <1>4
    <2>2. /\ SubSeq(s, 1, n - 1) \in Seq(S)
          /\ Len(SubSeq(s, 1, n - 1)) = IF 1 <= n - 1 THEN (n - 1) - 1 + 1 ELSE 0
          /\ \A j \in 1..(n - 1) - 1 + 1 : SubSeq(s, 1, n - 1)[j] = s[1 + j - 1]
      BY <1>1, <2>1, SubSeqProperties
    <2>3. Front(s) = SubSeq(s, 1, n - 1)
      BY <1>4 DEF Front
    <2> HIDE DEF Front
    <2> QED
      BY <1>1, <2>2, <2>3
  <1>6. /\ Front(t) \in Seq(S) /\ Len(Front(t)) = n - 1
        /\ \A j \in 1..n - 1 : Front(t)[j] = t[j]
    <2>1. \A j \in 1..n - 1 : t[j] \in S
      BY <1>1, <1>2
    <2>2. /\ SubSeq(t, 1, n - 1) \in Seq(S)
          /\ Len(SubSeq(t, 1, n - 1)) = IF 1 <= n - 1 THEN (n - 1) - 1 + 1 ELSE 0
          /\ \A j \in 1..(n - 1) - 1 + 1 : SubSeq(t, 1, n - 1)[j] = t[1 + j - 1]
      BY <1>1, <2>1, SubSeqProperties
    <2>3. Front(t) = SubSeq(t, 1, n - 1)
      BY <1>2 DEF Front
    <2> HIDE DEF Front
    <2>4. (n - 1) - 1 + 1 = n - 1 /\ (~(1 <= n - 1) => n - 1 = 0)
      BY <1>1
    <2>5. \A j \in 1..n - 1 : 1 + j - 1 = j
      OBVIOUS
    <2> QED
      BY <2>2, <2>3, <2>4, <2>5
  <1>7. Front(t) = Front(s)
    <2>1. \A j \in 1..n - 1 : t[j] = s[j]
      BY <1>1, <1>2
    <2> QED
      BY <1>5, <1>6, <2>1, SeqEqual
  <1>8. t = Front(s) \o u
    <2> DEFINE v == Front(s) \o u
    <2>1. /\ v \in Seq(S) /\ Len(v) = Len(Front(s)) + Len(u)
          /\ \A j \in 1..Len(Front(s)) + Len(u) :
               v[j] = IF j <= Len(Front(s)) THEN Front(s)[j] ELSE u[j - Len(Front(s))]
      BY <1>3, <1>5, ConcatProperties
    <2> HIDE DEF v
    <2>2. Len(v) = n /\ \A j \in 1..n : v[j] = IF j <= n - 1 THEN Front(s)[j] ELSE u[j - (n - 1)]
      BY <1>1, <1>3, <1>5, <2>1
    <2>3. ASSUME NEW j \in 1..n PROVE v[j] = t[j]
      <3>1. CASE j = n
        BY <1>1, <1>2, <1>3, <2>2, <3>1
      <3>2. CASE j # n
        <4>1. j \in 1..n - 1 /\ j <= n - 1
          BY <1>1, <3>2
        <4> QED
          BY <1>2, <1>5, <2>2, <3>2, <4>1
      <3> QED
        BY <3>1, <3>2
    <2>4. v = t
      BY <1>2, <2>1, <2>2, <2>3, SeqEqual
    <2> QED
      BY <2>4 DEF v
  <1>9. t # <<>>
    BY <1>1, <1>2
  <1>10. s[n] \in S
    BY <1>1, <1>4
  <1> QED
    BY <1>2, <1>5, <1>7, <1>8, <1>9, <1>10 DEF n, u

(* A sequence with an element added at its end. *)
LEMMA LastAdded ==
  ASSUME NEW S, NEW s \in Seq(S), NEW x \in S, NEW t, t = Append(s, x)
  PROVE  t \in Seq(S) /\ t # <<>> /\ Front(t) = s /\ Last(t) = x
  <1> DEFINE n == Len(s)
  <1>1. n \in Nat
    OBVIOUS
  <1>2. t \in Seq(S) /\ Len(t) = n + 1 /\ t[n + 1] = x /\ \A j \in 1..n : t[j] = s[j]
    BY AppendProperties
  <1>3. /\ Front(t) \in Seq(S) /\ Len(Front(t)) = n /\ \A j \in 1..n : Front(t)[j] = t[j]
    <2>1. \A j \in 1..n : t[j] \in S
      BY <1>2
    <2>2. /\ SubSeq(t, 1, n) \in Seq(S)
          /\ Len(SubSeq(t, 1, n)) = IF 1 <= n THEN n - 1 + 1 ELSE 0
          /\ \A j \in 1..n - 1 + 1 : SubSeq(t, 1, n)[j] = t[1 + j - 1]
      BY <1>1, <2>1, SubSeqProperties
    <2>3. Len(t) - 1 = n
      BY <1>1, <1>2
    <2>4. Front(t) = SubSeq(t, 1, n)
      BY <2>3 DEF Front
    <2> HIDE DEF Front, n
    <2>5. n - 1 + 1 = n /\ (~(1 <= n) => n = 0)
      BY <1>1
    <2>6. \A j \in 1..n : 1 + j - 1 = j
      OBVIOUS
    <2> QED
      BY <2>2, <2>4, <2>5, <2>6
  <1>4. Front(t) = s
    <2>1. Len(Front(t)) = Len(s) /\ \A j \in 1..Len(Front(t)) : Front(t)[j] = s[j]
      BY <1>2, <1>3
    <2> QED
      BY <1>3, <2>1, SeqEqual
  <1>5. Last(t) = x /\ t # <<>>
    BY <1>1, <1>2 DEF Last
  <1> QED
    BY <1>2, <1>4, <1>5

-----------------------------------------------------------------------------
(* The commands of a round.                                                *)

(* The bits of a vector fill whole bytes (NBytes). *)
LEMMA Padding ==
  ASSUME NEW n \in Nat
  PROVE  /\ NBytes(n) \in Nat /\ n <= 8 * NBytes(n)
         /\ BitsOf(n) \subseteq Nat
         /\ \A i \in Nat : i < 8 * NBytes(n) => i \in BitsOf(n)
  <1>1. NBytes(n) \in Nat /\ n <= 8 * NBytes(n)
    BY DEF NBytes
  <1> QED
    BY <1>1 DEF BitsOf

(* The vectors have all 8 bits of the current byte. *)
LEMMA CurrentByte ==
  ASSUME TypeOK, PlaceInv, left > 0
  PROVE  /\ curByte \in Nat /\ left \in Nat /\ nbits \in Nat /\ nbits = 8 * curByte + left
         /\ curByte + 1 \in 0..NBytes(nbits)
         /\ \A k \in 0..7 : tms[8 * curByte + k] \in Bit /\ tdi[8 * curByte + k] \in Bit
  <1>1. /\ curByte \in 0..NBytes(nbits) /\ left \in 0..nbits /\ nbits \in Nat
        /\ nbits - left = 8 * curByte
        /\ tms \in [BitsOf(nbits) -> Bit] /\ tdi \in [BitsOf(nbits) -> Bit]
    BY DEF TypeOK, PlaceInv
  <1>2. NBytes(nbits) \in Nat /\ nbits <= 8 * NBytes(nbits)
    BY <1>1, Padding
  <1>3. curByte \in Nat /\ left \in Nat /\ nbits = 8 * curByte + left /\ curByte < NBytes(nbits)
    BY <1>1, <1>2
  <1>4. ASSUME NEW k \in 0..7 PROVE 8 * curByte + k \in BitsOf(nbits)
    <2>1. 8 * curByte + k \in Nat /\ 8 * curByte + k < 8 * NBytes(nbits)
      BY <1>2, <1>3
    <2> QED
      BY <1>1, <2>1, Padding
  <1> QED
    BY <1>1, <1>2, <1>3, <1>4

(* The bits of the current byte that a command sends on TDI. *)
LEMMA TdiBits ==
  ASSUME TypeOK, PlaceInv, left > 0, NEW n \in 1..8
  PROVE  /\ Tdi(n) \in Seq(Bit) /\ Len(Tdi(n)) = n
         /\ \A k \in 1..n : Tdi(n)[k] = tdi[8 * curByte + k - 1]
  <1>1. ASSUME NEW k \in 1..n
        PROVE  tdi[8 * curByte + k - 1] \in Bit /\ k - 1 \in 0..7
    <2>1. k - 1 \in 0..7 /\ curByte \in Nat /\ 8 * curByte + (k - 1) = 8 * curByte + k - 1
      BY CurrentByte
    <2> QED
      BY <2>1, CurrentByte
  <1>2. Tdi(n) \in [1..n -> Bit]
    BY <1>1 DEF Tdi
  <1>3. Tdi(n) \in Seq(Bit) /\ Len(Tdi(n)) = n
    BY <1>2
  <1> QED
    BY <1>3 DEF Tdi

(* The commands as they are sent, with the one that is being built. *)
LEMMA Completed ==
  ASSUME TypeOK, BuildInv, pc = "build"
  PROVE  /\ Commands \in Seq(Command) /\ Descriptors \in Seq(Descriptor)
         /\ Plan(tms, tdi, Commands, Descriptors, bitPos, nbits - left, rdLen)
  <1>1. /\ cmd \in Seq(Command) /\ desc \in Seq(Descriptor) /\ curLen \in Nat
        /\ nbits \in Nat /\ left \in Nat /\ rdLen \in Nat
    BY DEF TypeOK
  <1>2. CASE ~building
    <2>1. Commands = cmd /\ Descriptors = desc
      BY <1>2 DEF Commands, Descriptors
    <2> QED
      BY <1>1, <1>2, <2>1 DEF BuildInv
  <1>3. CASE building
    <2> DEFINE n == curLen + 1
               a == nbits - left - 8 * n
               l == Last(cmd)
               c == [cmd[Len(cmd)] EXCEPT !.bits = 8 * n]
               d == [oper |-> "byte", len |-> curLen]
    <2>1. /\ cmd # <<>> /\ Begun(tms, tdi, l, 8 * n, a)
          /\ Plan(tms, tdi, Front(cmd), desc, bitPos, a, rdLen - n)
      BY <1>3 DEF BuildInv
    <2>2. cmd[Len(cmd)] = l /\ l \in Command /\ l.tms = {} /\ Len(l.tdi) = 8 * n
          /\ \A k \in 1..8 * n : l.tdi[k] = tdi[a + k - 1] /\ tms[a + k - 1] = 0
      BY <2>1 DEF Begun, Last
    <2>3. n \in Nat /\ 8 * n \in Nat
      BY <1>1
    <2>4. c \in Command /\ c.bits = 8 * n /\ c.tms = l.tms /\ c.tdi = l.tdi
      <3> DEFINE x == cmd[Len(cmd)]
      <3>1. x \in Command /\ x = l
        BY <2>2
      <3>2. c = [x EXCEPT !.bits = 8 * n]
        OBVIOUS
      <3> HIDE DEF c, x, l, n
      <3>3. x.tms \in SUBSET Bit /\ x.tdi \in Seq(Bit)
        BY <3>1 DEF Command
      <3>4. c = [bits |-> 8 * n, tms |-> x.tms, tdi |-> x.tdi]
        BY <3>1, <3>2 DEF Command
      <3> QED
        BY <2>3, <3>1, <3>3, <3>4 DEF Command
    <2>5. Commands = [cmd EXCEPT ![Len(cmd)] = c]
      BY <1>3 DEF Commands
    <2>6. Descriptors = Append(desc, d)
      BY <1>3 DEF Descriptors
    <2>7. Whole(d) /\ d \in Descriptor /\ d.oper = "byte" /\ d.len = curLen
      BY <1>1 DEF Whole, Descriptor
    <2>8. Samples(d) = 8 * n /\ NBytes(Samples(d)) = n
      BY <2>7, SamplesOf
    <2> HIDE DEF c, d, l, n
    <2>9. Fits(tms, tdi, c, d, a)
      BY <2>2, <2>4, <2>8 DEF Fits
    <2>10. a \in Nat
      BY <1>1, <2>1, PlanRange
    <2>11. Plan(tms, tdi, <<c>>, <<d>>, a, a + 8 * n, n)
      BY <2>7, <2>8, <2>9, <2>10, PlanOne
    <2>12. /\ Front(cmd) \in Seq(Command) /\ Commands \in Seq(Command)
           /\ Commands = Front(cmd) \o <<c>>
      BY <1>1, <2>1, <2>4, <2>5, LastReplaced
    <2>13. Descriptors \in Seq(Descriptor) /\ Descriptors = desc \o <<d>>
      BY <1>1, <2>6, <2>7, AppendProperties, AppendIsConcat
    <2>14. <<c>> \in Seq(Command) /\ <<d>> \in Seq(Descriptor)
      BY <2>4, <2>7
    <2>15. a + 8 * n = nbits - left /\ rdLen - n + n = rdLen
      BY <1>1, <2>3 DEF n
    <2> HIDE DEF a
    <2>16. Plan(tms, tdi, Front(cmd) \o <<c>>, desc \o <<d>>, bitPos, a + 8 * n, rdLen - n + n)
      BY <1>1, <2>1, <2>11, <2>12, <2>14, PlanConcat
    <2> QED
      BY <2>12, <2>13, <2>15, <2>16
  <1> QED
    BY <1>2, <1>3

(* The commands that are added to what is there. *)
LEMMA PlanGrows ==
  ASSUME TypeOK, BuildInv, pc = "build",
         NEW cs \in Seq(Command), NEW ds \in Seq(Descriptor), NEW n, NEW r,
         Plan(tms, tdi, cs, ds, nbits - left, nbits - left + n, r)
  PROVE  /\ Commands \o cs \in Seq(Command) /\ Descriptors \o ds \in Seq(Descriptor)
         /\ Plan(tms, tdi, Commands \o cs, Descriptors \o ds, bitPos, nbits - left + n, rdLen + r)
  <1>1. /\ Commands \in Seq(Command) /\ Descriptors \in Seq(Descriptor)
        /\ Plan(tms, tdi, Commands, Descriptors, bitPos, nbits - left, rdLen)
    BY Completed
  <1> QED
    BY <1>1, PlanConcat, ConcatProperties

(* A step of a round that is being built leaves the call and the chip alone. *)
Apart ==
    /\ pc = "build" /\ pc' = "build" /\ left \in Nat /\ left' \in Nat /\ left > 0
    /\ UNCHANGED <<nbits, tms, tdi, tap, result, bitPos, queue, clocked, pin, reg, res, wire>>

(* What is built does not touch what was sampled. *)
LEMMA ApartKeeps ==
  ASSUME Inv, Apart, left' < left
  PROVE  /\ ReadInv' /\ UnpackInv' /\ SampleInv'
         /\ (left' > 0 => nbits - left' = 8 * curByte') => PlaceInv'
  <1>1. /\ pc = "build" /\ pc' = "build"
        /\ UNCHANGED <<nbits, tms, tdi, tap, result, bitPos, queue, clocked, pin, reg, res, wire>>
    BY DEF Apart
  <1>2. ReadInv' /\ UnpackInv'
    BY <1>1 DEF ReadInv, UnpackInv
  <1>3. SampleInv'
    BY <1>1 DEF Inv, SampleInv
  <1>4. PlaceInv' <=> (left' > 0 => nbits' - left' = 8 * curByte')
    <2>1. queue = <<>> /\ clocked = 0 /\ res = <<>> /\ Len(wire) = bitPos
      BY <1>1 DEF Inv, PlaceInv
    <2> QED
      BY <1>1, <2>1 DEF PlaceInv
  <1> QED
    BY <1>1, <1>2, <1>3, <1>4

(* The types of what a step of building changes. *)
LEMMA ApartTypes ==
  ASSUME Inv, Apart, left' < left,
         cmd' \in Seq(Command), desc' \in Seq(Descriptor), wrPtr' \in Nat, rdLen' \in Nat,
         building' \in BOOLEAN, curLen' \in Nat, curByte' = curByte + 1
  PROVE  TypeOK'
  <1>1. /\ pc' = "build"
        /\ UNCHANGED <<nbits, tms, tdi, tap, result, bitPos, queue, clocked, pin, reg, res, wire>>
    BY DEF Apart
  <1>2. left' \in 0..nbits
    BY DEF Inv, TypeOK, Apart
  <1>3. curByte' \in 0..NBytes(nbits)
    BY CurrentByte DEF Inv, Apart
  <1> QED
    BY <1>1, <1>2, <1>3 DEF Inv, TypeOK

(* A byte without TMS (lines 235 to 253). *)
LEMMA AddByteKeeps == Inv /\ AddByte => Inv'
  <1> SUFFICES ASSUME Inv, AddByte PROVE Inv'
    OBVIOUS
  <1> DEFINE t == Tdi(8)
  <1>1. /\ cmd \in Seq(Command) /\ desc \in Seq(Descriptor) /\ curLen \in Nat
        /\ nbits \in Nat /\ left \in Nat /\ rdLen \in Nat /\ wrPtr \in Nat /\ building \in BOOLEAN
    BY DEF Inv, TypeOK
  <1>2. /\ pc = "build" /\ left > 7 /\ NoTms
        /\ rdLen' = rdLen + 1 /\ building' = TRUE /\ curByte' = curByte + 1 /\ left' = left - 8
        /\ desc' = desc
        /\ UNCHANGED <<pc, nbits, tms, tdi, tap, result, bitPos, queue, clocked, pin, reg, res, wire>>
    BY DEF AddByte, Room, argVars, chipVars
  <1>3. Apart /\ left' < left
    BY <1>1, <1>2 DEF Apart
  <1>4. /\ curByte \in Nat /\ nbits = 8 * curByte + left
        /\ t \in Seq(Bit) /\ Len(t) = 8 /\ \A k \in 1..8 : t[k] = tdi[8 * curByte + k - 1]
    BY <1>1, <1>2, CurrentByte, TdiBits DEF Inv
  <1>5. \A k \in 1..8 : tms[8 * curByte + k - 1] = 0
    <2> SUFFICES ASSUME NEW k \in 1..8 PROVE tms[8 * curByte + k - 1] = 0
      OBVIOUS
    <2>1. k - 1 \in 0..7 /\ 8 * curByte + (k - 1) = 8 * curByte + k - 1
      BY <1>4
    <2>2. \A j \in 0..7 : tms[8 * curByte + j] = 0
      BY <1>2 DEF NoTms
    <2>3. tms[8 * curByte + (k - 1)] = 0
      BY <2>1, <2>2
    <2> QED
      BY <2>1, <2>3
  <1>6. nbits - left' = 8 * curByte'
    BY <1>1, <1>2, <1>4
  <1>7. curLen' = (IF building THEN curLen + 1 ELSE 0) /\ curLen' \in Nat
        /\ wrPtr' = wrPtr + (IF building THEN 1 ELSE 4) /\ wrPtr' \in Nat
    BY <1>1 DEF AddByte
  <1> HIDE DEF t
  <1>8. CASE building
    <2> DEFINE n == curLen + 1
               a == nbits - left - 8 * n
               l == Last(cmd)
               e == l.tdi \o t
               c == [cmd[Len(cmd)] EXCEPT !.tdi = @ \o t]
    <2>1. /\ cmd # <<>> /\ Begun(tms, tdi, l, 8 * n, a)
          /\ Plan(tms, tdi, Front(cmd), desc, bitPos, a, rdLen - n)
      BY <1>2, <1>8 DEF Inv, BuildInv
    <2>2. l = cmd[Len(cmd)] /\ l \in Command /\ l.tms = {} /\ Len(l.tdi) = 8 * n
          /\ \A k \in 1..8 * n : l.tdi[k] = tdi[a + k - 1] /\ tms[a + k - 1] = 0
      BY <2>1 DEF Begun, Last
    <2>3. cmd' = [cmd EXCEPT ![Len(cmd)] = c]
      BY <1>8 DEF AddByte, t
    <2>4. n \in Nat /\ a \in Nat /\ a = 8 * curByte - 8 * n
      BY <1>1, <1>4, <2>1, PlanRange
    <2>5. curLen' + 1 = n + 1 /\ nbits' - left' - 8 * (n + 1) = a /\ rdLen' - (n + 1) = rdLen - n
      BY <1>1, <1>2, <1>7, <1>8
    <2>6. c = [bits |-> l.bits, tms |-> {}, tdi |-> e] /\ l.bits \in Nat /\ l.tdi \in Seq(Bit)
      <3> DEFINE x == cmd[Len(cmd)]
      <3>1. x \in Command /\ x = l /\ c = [x EXCEPT !.tdi = @ \o t]
        BY <2>2
      <3>2. x.tms = {} /\ x.bits \in Nat /\ x.tdi \in Seq(Bit)
        BY <2>2, <3>1 DEF Command
      <3> HIDE DEF c, x, l, n, a
      <3> QED
        BY <3>1, <3>2 DEF Command
    <2> HIDE DEF a, l, e, c, n
    <2>7. /\ e \in Seq(Bit) /\ Len(e) = 8 * n + 8
          /\ \A k \in 1..8 * n + 8 : e[k] = IF k <= 8 * n THEN l.tdi[k] ELSE t[k - 8 * n]
      <3>1. /\ e \in Seq(Bit) /\ Len(e) = Len(l.tdi) + Len(t)
            /\ \A k \in 1..Len(l.tdi) + Len(t) :
                 e[k] = IF k <= Len(l.tdi) THEN l.tdi[k] ELSE t[k - Len(l.tdi)]
        BY <1>4, <2>6, ConcatProperties DEF e
      <3> QED
        BY <1>4, <2>2, <3>1
    <2>8. ASSUME NEW k \in 1..8 * (n + 1)
          PROVE  e[k] = tdi[a + k - 1] /\ tms[a + k - 1] = 0
      <3>1. k \in 1..8 * n + 8
        BY <2>4
      <3>2. CASE k <= 8 * n
        <4>1. k \in 1..8 * n
          BY <2>4, <3>1, <3>2
        <4> QED
          BY <2>2, <2>7, <3>1, <3>2, <4>1
      <3>3. CASE ~(k <= 8 * n)
        <4> DEFINE j == k - 8 * n
        <4>1. j \in 1..8 /\ a + k - 1 = 8 * curByte + j - 1
          BY <1>4, <2>4, <3>1, <3>3
        <4>2. e[k] = t[j]
          BY <2>7, <3>1, <3>3
        <4> HIDE DEF j
        <4>3. t[j] = tdi[8 * curByte + j - 1] /\ tms[8 * curByte + j - 1] = 0
          BY <1>4, <1>5, <4>1
        <4> QED
          BY <4>1, <4>2, <4>3
      <3> QED
        BY <3>2, <3>3
    <2>9. c \in Command /\ c.tms = {} /\ c.tdi = e
      BY <2>6, <2>7 DEF Command
    <2>10. Len(c.tdi) = 8 * (n + 1)
      BY <2>4, <2>7, <2>9
    <2>11. cmd' \in Seq(Command) /\ cmd' # <<>> /\ Front(cmd') = Front(cmd) /\ Last(cmd') = c
      <3>1. cmd \in Seq(Command) /\ cmd # <<>> /\ c \in Command
        BY <1>1, <2>1, <2>9
      <3>2. cmd' \in Seq(Command) /\ cmd' # <<>> /\ Front(cmd') = Front(cmd)
        BY <2>3, <3>1, LastReplaced
      <3>3. Len(cmd) \in 1..Len(cmd) /\ Len(cmd') = Len(cmd)
        BY <2>3, <3>1
      <3>4. cmd'[Len(cmd)] = c
        BY <2>3, <3>1, <3>3
      <3> QED
        BY <3>2, <3>3, <3>4 DEF Last
    <2>12. Begun(tms', tdi', Last(cmd'), 8 * (n + 1), a)
      BY <1>2, <2>8, <2>9, <2>10, <2>11 DEF Begun
    <2>13. BuildInv'
      BY <1>2, <2>1, <2>5, <2>11, <2>12 DEF BuildInv
    <2> QED
      BY <1>1, <1>2, <1>3, <1>6, <1>7, <2>11, <2>13, ApartKeeps, ApartTypes DEF Inv
  <1>9. CASE ~building
    <2> DEFINE c == [bits |-> 0, tms |-> {}, tdi |-> t]
               a == nbits - left
    <2>1. Plan(tms, tdi, cmd, desc, bitPos, a, rdLen)
      BY <1>2, <1>9 DEF Inv, BuildInv
    <2>2. cmd' = Append(cmd, c)
      BY <1>9 DEF AddByte, t
    <2>3. c \in Command /\ c.tms = {} /\ c.tdi = t
      BY <1>4 DEF Command
    <2>4. a = 8 * curByte /\ nbits' - left' - 8 * 1 = a /\ rdLen' - 1 = rdLen /\ curLen' + 1 = 1
      <3>1. curLen' = 0
        BY <1>7, <1>9
      <3>2. a = 8 * curByte /\ nbits - (left - 8) - 8 * 1 = a /\ (rdLen + 1) - 1 = rdLen
        BY <1>1, <1>4
      <3> QED
        BY <1>2, <3>1, <3>2
    <2> HIDE DEF a, c
    <2>5. cmd' \in Seq(Command) /\ cmd' # <<>> /\ Front(cmd') = cmd /\ Last(cmd') = c
      BY <1>1, <2>2, <2>3, LastAdded
    <2>6. Begun(tms', tdi', Last(cmd'), 8 * 1, a)
      <3>1. \A k \in 1..8 : c.tdi[k] = tdi[a + k - 1] /\ tms[a + k - 1] = 0
        BY <1>4, <1>5, <2>3, <2>4
      <3>2. 8 * 1 = 8 /\ Len(c.tdi) = 8
        BY <1>4, <2>3
      <3> QED
        BY <1>2, <2>3, <2>5, <3>1, <3>2 DEF Begun
    <2>7. BuildInv'
      BY <1>2, <2>1, <2>4, <2>5, <2>6 DEF BuildInv
    <2> QED
      BY <1>1, <1>2, <1>3, <1>6, <1>7, <2>5, <2>7, ApartKeeps, ApartTypes DEF Inv
  <1> QED
    BY <1>8, <1>9

(* The last bits without TMS (lines 269 to 281). *)
LEMMA AddBitsKeeps == Inv /\ AddBits => Inv'
  <1> SUFFICES ASSUME Inv, AddBits PROVE Inv'
    OBVIOUS
  <1> DEFINE t == Tdi(left)
             c == [bits |-> left, tms |-> {}, tdi |-> t]
             d == [oper |-> "bit", len |-> left - 1]
             a == nbits - left
  <1>1. nbits \in Nat /\ left \in Nat /\ rdLen \in Nat /\ wrPtr \in Nat /\ curLen \in Nat
    BY DEF Inv, TypeOK
  <1>2. /\ pc = "build" /\ left > 0 /\ left <= 7 /\ NoTms
        /\ cmd' = Append(Commands, c) /\ desc' = Append(Descriptors, d)
        /\ wrPtr' = wrPtr + 3 /\ rdLen' = rdLen + 1 /\ building' = FALSE
        /\ curByte' = curByte + 1 /\ left' = 0 /\ curLen' = curLen
        /\ UNCHANGED <<pc, nbits, tms, tdi, tap, result, bitPos, queue, clocked, pin, reg, res, wire>>
    BY DEF AddBits, Room, argVars, chipVars
  <1>3. Apart /\ left' < left
    BY <1>1, <1>2 DEF Apart
  <1>4. left \in 1..8
    BY <1>1, <1>2
  <1>5. /\ curByte \in Nat /\ nbits = 8 * curByte + left
        /\ t \in Seq(Bit) /\ Len(t) = left /\ \A k \in 1..left : t[k] = tdi[8 * curByte + k - 1]
    BY <1>1, <1>2, <1>4, CurrentByte, TdiBits DEF Inv
  <1>6. \A k \in 1..left : tms[8 * curByte + k - 1] = 0
    <2> SUFFICES ASSUME NEW k \in 1..left PROVE tms[8 * curByte + k - 1] = 0
      OBVIOUS
    <2>1. k - 1 \in 0..7 /\ 8 * curByte + (k - 1) = 8 * curByte + k - 1
      BY <1>4, <1>5
    <2>2. \A j \in 0..7 : tms[8 * curByte + j] = 0
      BY <1>2 DEF NoTms
    <2>3. tms[8 * curByte + (k - 1)] = 0
      BY <2>1, <2>2
    <2> QED
      BY <2>1, <2>3
  <1>7. /\ Whole(d) /\ d \in Descriptor /\ d.oper = "bit" /\ d.len = left - 1
    BY <1>1, <1>2 DEF Whole, Descriptor
  <1>8. Samples(d) = left /\ NBytes(Samples(d)) = 1
    <2>1. Samples(d) = d.len + 1 /\ NBytes(Samples(d)) = 1 /\ (left - 1) + 1 = left
      BY <1>1, <1>7, SamplesOf
    <2> QED
      BY <1>7, <2>1
  <1>9. c \in Command /\ c.bits = left /\ c.tms = {} /\ c.tdi = t
    BY <1>1, <1>5 DEF Command
  <1>10. a \in Nat /\ a = 8 * curByte
    BY <1>5
  <1> HIDE DEF t, c, d, a
  <1>11. Fits(tms, tdi, c, d, a)
    BY <1>5, <1>6, <1>8, <1>9, <1>10 DEF Fits
  <1>12. Plan(tms, tdi, <<c>>, <<d>>, a, a + left, 1)
    BY <1>7, <1>8, <1>10, <1>11, PlanOne
  <1>13. <<c>> \in Seq(Command) /\ <<d>> \in Seq(Descriptor)
    BY <1>7, <1>9
  <1>14. /\ Commands \in Seq(Command) /\ Descriptors \in Seq(Descriptor)
         /\ Commands \o <<c>> \in Seq(Command) /\ Descriptors \o <<d>> \in Seq(Descriptor)
         /\ Plan(tms, tdi, Commands \o <<c>>, Descriptors \o <<d>>, bitPos, a + left, rdLen + 1)
    BY <1>2, <1>12, <1>13, PlanGrows, Completed DEF Inv, a
  <1>15. cmd' = Commands \o <<c>> /\ desc' = Descriptors \o <<d>>
    BY <1>2, <1>7, <1>9, <1>14, AppendIsConcat
  <1>16. a + left = nbits' - left'
    BY <1>1, <1>2 DEF a
  <1>17. BuildInv'
    BY <1>2, <1>14, <1>15, <1>16 DEF BuildInv
  <1>18. cmd' \in Seq(Command) /\ desc' \in Seq(Descriptor)
    BY <1>14, <1>15
  <1>19. wrPtr' \in Nat /\ rdLen' \in Nat /\ ~(left' > 0)
    BY <1>1, <1>2
  <1>20. TypeOK'
    BY <1>1, <1>2, <1>3, <1>18, <1>19, ApartTypes
  <1> QED
    BY <1>3, <1>17, <1>19, <1>20, ApartKeeps DEF Inv

(* A byte with TMS, bit by bit (lines 283 to 307). *)
LEMMA AddTmsKeeps == Inv /\ AddTms => Inv'
  <1> SUFFICES ASSUME Inv, AddTms PROVE Inv'
    OBVIOUS
  <1> DEFINE n == TmsCount
             t == Tdi(8)
             a == nbits - left
             cs == [k \in 1..n |-> [bits |-> 1, tms |-> {tms[8 * curByte + k - 1]}, tdi |-> <<t[k]>>]]
             ds == [k \in 1..n |-> [oper |-> "tms", len |-> 0]]
  <1>1. nbits \in Nat /\ left \in Nat /\ rdLen \in Nat /\ wrPtr \in Nat /\ curLen \in Nat
    BY DEF Inv, TypeOK
  <1>2. /\ pc = "build" /\ left > 0
        /\ cmd' = Commands \o cs /\ desc' = Descriptors \o ds
        /\ wrPtr' = wrPtr + 3 * n /\ rdLen' = rdLen + n /\ building' = FALSE
        /\ curByte' = curByte + 1 /\ left' = left - n /\ curLen' = curLen
        /\ UNCHANGED <<pc, nbits, tms, tdi, tap, result, bitPos, queue, clocked, pin, reg, res, wire>>
    BY DEF AddTms, Room, argVars, chipVars
  <1>3. n \in 1..8 /\ n <= left /\ (n # left => n = 8)
    BY <1>1, <1>2 DEF TmsCount
  <1>4. /\ curByte \in Nat /\ nbits = 8 * curByte + left
        /\ \A k \in 0..7 : tms[8 * curByte + k] \in Bit /\ tdi[8 * curByte + k] \in Bit
    BY <1>1, <1>2, CurrentByte DEF Inv
  <1>5. t \in Seq(Bit) /\ Len(t) = 8 /\ \A k \in 1..8 : t[k] = tdi[8 * curByte + k - 1]
    BY <1>1, <1>2, TdiBits DEF Inv
  <1> HIDE DEF n, t
  <1>6. ASSUME NEW k \in 1..n
        PROVE  /\ cs[k] \in Command /\ cs[k].bits = 1 /\ cs[k].tms = {tms[8 * curByte + k - 1]}
               /\ Len(cs[k].tdi) = 1 /\ cs[k].tdi[1] = tdi[8 * curByte + k - 1]
    <2> DEFINE x == tms[8 * curByte + k - 1]
               y == t[k]
               z == <<y>>
    <2>1. k \in 1..8 /\ k - 1 \in 0..7 /\ 8 * curByte + (k - 1) = 8 * curByte + k - 1
      BY <1>3, <1>4
    <2>2. x \in Bit
      BY <1>4, <2>1
    <2>3. y \in Bit /\ y = tdi[8 * curByte + k - 1]
      <3>1. t[k] = tdi[8 * curByte + k - 1]
        BY <1>5, <2>1
      <3>2. tdi[8 * curByte + k - 1] \in Bit
        BY <1>4, <2>1
      <3> QED
        BY <3>1, <3>2
    <2>4. cs[k] = [bits |-> 1, tms |-> {x}, tdi |-> z]
      OBVIOUS
    <2> HIDE DEF x, y, cs
    <2>5. z \in Seq(Bit) /\ Len(z) = 1 /\ z[1] = y
      BY <2>3
    <2> HIDE DEF z
    <2>6. cs[k] \in Command /\ cs[k].bits = 1 /\ cs[k].tms = {x} /\ cs[k].tdi = z
      BY <2>2, <2>4, <2>5 DEF Command
    <2> QED
      BY <2>3, <2>5, <2>6 DEF x
  <1>7. cs \in Seq(Command) /\ Len(cs) = n
    <2>1. n \in Nat /\ DOMAIN cs = 1..n
      BY <1>3
    <2>2. cs = [k \in 1..n |-> cs[k]]
      OBVIOUS
    <2> HIDE DEF cs
    <2>3. cs \in [1..n -> Command]
      BY <1>6, <2>2
    <2> QED
      BY <2>1, <2>3
  <1>8. /\ ds \in Seq(Descriptor) /\ Len(ds) = n
        /\ \A k \in 1..n : ds[k] \in Descriptor /\ ds[k].oper = "tms" /\ ds[k].len = 0
    BY <1>3 DEF Descriptor
  <1>9. a \in Nat /\ a = 8 * curByte
    BY <1>1, <1>4
  <1> HIDE DEF a, cs, ds
  <1>10. ASSUME NEW k \in 1..n
         PROVE  Fits(tms, tdi, cs[k], ds[k], a + k - 1)
    <2> DEFINE c == cs[k]
               d == ds[k]
               x == tms[a + k - 1]
    <2>1. /\ c \in Command /\ c.bits = 1 /\ c.tms = {x}
          /\ Len(c.tdi) = 1 /\ c.tdi[1] = tdi[a + k - 1]
      BY <1>6, <1>9
    <2>2. Whole(d) /\ d.oper = "tms" /\ d.len = 0
      BY <1>8 DEF Whole
    <2> HIDE DEF c, d
    <2>3. Samples(d) = 1
      BY <2>2, SamplesOf
    <2>4. a + k - 1 \in Nat /\ (a + k - 1) + 1 - 1 = a + k - 1
      BY <1>9
    <2>5. \A j \in 1..1 : c.tdi[j] = tdi[(a + k - 1) + j - 1]
      BY <2>1, <2>4
    <2>6. Fits(tms, tdi, c, d, a + k - 1)
      BY <2>1, <2>3, <2>5 DEF Fits
    <2> QED
      BY <2>6 DEF c, d
  <1>11. Plan(tms, tdi, cs, ds, a, a + n, n)
    <2>1. \A k \in 1..Len(ds) :
            ds[k].oper = "tms" /\ ds[k].len = 0 /\ Fits(tms, tdi, cs[k], ds[k], a + k - 1)
      BY <1>8, <1>10
    <2>2. Plan(tms, tdi, cs, ds, a, a + Len(ds), Len(ds))
      BY <1>7, <1>8, <1>9, <2>1, PlanBits
    <2> QED
      BY <1>8, <2>2
  <1>12. /\ cmd' \in Seq(Command) /\ desc' \in Seq(Descriptor)
         /\ Plan(tms, tdi, cmd', desc', bitPos, a + n, rdLen + n)
    BY <1>2, <1>7, <1>8, <1>11, PlanGrows DEF Inv, a
  <1>13. a + n = nbits' - left' /\ left' \in Nat /\ left' < left
         /\ (left' > 0 => nbits - left' = 8 * curByte')
    <2>1. nbits - left + n = nbits - (left - n) /\ left - n \in Nat /\ left - n < left
      BY <1>1, <1>3
    <2>2. left - n > 0 => nbits - (left - n) = 8 * (curByte + 1)
      BY <1>1, <1>3, <1>4
    <2> QED
      BY <1>2, <2>1, <2>2 DEF a
  <1>14. Apart
    BY <1>1, <1>2, <1>13 DEF Apart
  <1>15. BuildInv'
    BY <1>2, <1>12, <1>13 DEF BuildInv
  <1>16. wrPtr' \in Nat /\ rdLen' \in Nat
    BY <1>1, <1>2, <1>3
  <1>17. TypeOK'
    BY <1>1, <1>2, <1>12, <1>13, <1>14, <1>16, ApartTypes
  <1> QED
    BY <1>13, <1>14, <1>15, <1>17, ApartKeeps DEF Inv

(* Nothing of the commands is executed when they are sent. *)
LEMMA PlanSent ==
  ASSUME NEW tm, NEW td, NEW tp, NEW cs \in Seq(Command), NEW ds \in Seq(Descriptor),
         NEW a, NEW b, NEW r, Plan(tm, td, cs, ds, a, b, r)
  PROVE  UnderWay(tm, td, tp, cs, ds, a, b, r, 0, a, <<>>)
  <1> DEFINE n == Len(ds)
             e == <<>>
  <1>1. PICK f \in [1..n + 1 -> Nat], g \in [1..n + 1 -> Nat] :
          /\ Lay(f, g, ds) /\ f[1] = a /\ f[n + 1] = b /\ g[n + 1] = r
          /\ \A i \in 1..n : Fits(tm, td, cs[i], ds[i], f[i])
    BY DEF Plan
  <1>2. Len(cs) = n /\ n \in Nat /\ n - Len(cs) = 0 /\ 1 \in 1..n + 1
    BY DEF Plan
  <1>3. Len(e) = 0
    OBVIOUS
  <1>4. f[1] \in Nat /\ g[1] = 0
    BY <1>1, <1>2 DEF Lay
  <1> HIDE DEF n, e
  <1>5. \A j \in 1..Len(cs) : Fits(tm, td, cs[j], ds[0 + j], f[0 + j])
    BY <1>1, <1>2
  <1>6. a = f[0 + 1] + 0 /\ Len(e) = g[0 + 1] + 0 \div 8
    BY <1>1, <1>3, <1>4
  <1>7. IF cs = <<>> THEN 0 = 0 ELSE 0 < cs[1].bits
    <2> SUFFICES ASSUME cs # <<>> PROVE 0 < cs[1].bits
      OBVIOUS
    <2>1. 1 \in 1..n
      BY <1>2
    <2>2. Fits(tm, td, cs[1], ds[1], f[1]) /\ Whole(ds[1])
      BY <1>1, <2>1 DEF Lay, n
    <2>3. cs[1].bits = Samples(ds[1])
      BY <2>2 DEF Fits
    <2> DEFINE x == Samples(ds[1])
    <2>4. x \in Nat /\ x # 0
      BY <2>2, SamplesOf
    <2> HIDE DEF x
    <2>5. 0 < x
      BY <2>4
    <2> QED
      BY <2>3, <2>5 DEF x
  <1>8. \A i \in 1..0 : Returned(tp, e, ds[i], f[i], g[i])
    OBVIOUS
  <1>9. Returning(tp, e, 0, f[0 + 1], g[0 + 1])
    <2>1. 8 * (0 \div 8) - 1 = -1
      OBVIOUS
    <2> QED
      BY <2>1 DEF Returning
  <1>10. n - Len(cs) = 0 /\ Len(cs) <= n
    BY <1>2
  <1>11. Reading(tm, td, tp, f, g, cs, ds, 0, a, e)
    BY <1>5, <1>6, <1>7, <1>8, <1>9, <1>10 DEF Reading, n
  <1> QED
    BY <1>1, <1>11 DEF n, e, UnderWay

(* The commands are handed over to the chip (lines 313 to 326). *)
LEMMA SendKeeps == Inv /\ Send => Inv'
  <1> SUFFICES ASSUME Inv, Send PROVE Inv'
    OBVIOUS
  <1>1. /\ pc = "build" /\ pc' = "read"
        /\ queue' = queue \o Commands /\ cmd' = <<>> /\ desc' = Descriptors /\ building' = FALSE
        /\ UNCHANGED <<nbits, tms, tdi, tap, result, left, curByte, bitPos, wrPtr, rdLen, curLen,
                       clocked, pin, reg, res, wire>>
    BY DEF Send, argVars
  <1>2. queue = <<>> /\ clocked = 0 /\ res = <<>> /\ Len(wire) = bitPos
    BY <1>1 DEF Inv, PlaceInv
  <1>3. /\ Commands \in Seq(Command) /\ Descriptors \in Seq(Descriptor)
        /\ Plan(tms, tdi, Commands, Descriptors, bitPos, nbits - left, rdLen)
    BY <1>1, Completed DEF Inv
  <1>4. queue' = Commands
    BY <1>1, <1>2, <1>3
  <1>5. TypeOK'
    <2>1. queue' \in Seq(Command) /\ desc' \in Seq(Descriptor)
      BY <1>1, <1>3, <1>4
    <2>2. cmd' \in Seq(Command)
      BY <1>1
    <2>3. building' \in BOOLEAN /\ pc' \in {"idle", "round", "build", "read", "unpack"}
      BY <1>1
    <2> QED
      BY <1>1, <2>1, <2>2, <2>3 DEF Inv, TypeOK
  <1>6. PlaceInv'
    BY <1>1 DEF Inv, PlaceInv
  <1>7. BuildInv' /\ UnpackInv'
    BY <1>1 DEF BuildInv, UnpackInv
  <1>8. ReadInv'
    <2>1. UnderWay(tms, tdi, tap, Commands, Descriptors, bitPos, nbits - left, rdLen, 0, bitPos, <<>>)
      BY <1>3, PlanSent
    <2>2. UnderWay(tms, tdi, tap, queue', desc', bitPos, nbits - left, rdLen, clocked', Len(wire'), res')
      BY <1>1, <1>2, <1>4, <2>1
    <2> QED
      BY <1>1, <2>2 DEF ReadInv
  <1>9. SampleInv'
    BY <1>1 DEF Inv, SampleInv
  <1> QED
    BY <1>5, <1>6, <1>7, <1>8, <1>9 DEF Inv

(* A round begins with nothing (lines 218 to 226). *)
LEMMA StartRoundKeeps == Inv /\ StartRound => Inv'
  <1> SUFFICES ASSUME Inv, StartRound PROVE Inv'
    OBVIOUS
  <1>1. /\ pc = "round" /\ left # 0 /\ pc' = "build"
        /\ cmd' = <<>> /\ wrPtr' = 0 /\ rdLen' = 0 /\ desc' = <<>>
        /\ building' = FALSE /\ curLen' = 0
        /\ UNCHANGED <<nbits, tms, tdi, tap, result, left, curByte, bitPos,
                       queue, clocked, pin, reg, res, wire>>
    BY DEF StartRound, argVars, chipVars
  <1>2. bitPos = nbits - left /\ bitPos \in Nat
    BY <1>1 DEF Inv, PlaceInv, TypeOK
  <1>3. TypeOK'
    <2>1. cmd' \in Seq(Command) /\ desc' \in Seq(Descriptor) /\ wrPtr' \in Nat /\ rdLen' \in Nat
          /\ curLen' \in Nat
      BY <1>1
    <2>2. building' \in BOOLEAN /\ pc' \in {"idle", "round", "build", "read", "unpack"}
      BY <1>1
    <2> QED
      BY <1>1, <2>1, <2>2 DEF Inv, TypeOK
  <1>4. PlaceInv'
    BY <1>1 DEF Inv, PlaceInv
  <1>5. ReadInv' /\ UnpackInv'
    BY <1>1 DEF ReadInv, UnpackInv
  <1>6. BuildInv'
    <2>1. Plan(tms, tdi, <<>>, <<>>, bitPos, bitPos, 0)
      BY <1>2, PlanEmpty
    <2>2. Plan(tms', tdi', cmd', desc', bitPos', nbits' - left', rdLen')
      BY <1>1, <1>2, <2>1
    <2> QED
      BY <1>1, <2>2 DEF BuildInv
  <1>7. SampleInv'
    BY <1>1 DEF Inv, SampleInv
  <1> QED
    BY <1>3, <1>4, <1>5, <1>6, <1>7 DEF Inv

(* shift() returns between two rounds. *)
LEMMA ReturnKeeps == Inv /\ Return => Inv'
  <1> SUFFICES ASSUME Inv, Return PROVE Inv'
    OBVIOUS
  <1>1. /\ pc = "round" /\ left = 0 /\ pc' = "idle"
        /\ UNCHANGED <<nbits, tms, tdi, tap, result, left, curByte, bitPos, cmd, wrPtr, rdLen, desc,
                       building, curLen, queue, clocked, pin, reg, res, wire>>
    BY DEF Return, argVars, chipVars, roundVars
  <1>2. TypeOK'
    BY <1>1 DEF Inv, TypeOK
  <1>3. PlaceInv'
    BY <1>1 DEF Inv, PlaceInv
  <1>4. BuildInv' /\ ReadInv' /\ UnpackInv'
    BY <1>1 DEF BuildInv, ReadInv, UnpackInv
  <1>5. SampleInv'
    BY <1>1 DEF Inv, SampleInv
  <1> QED
    BY <1>2, <1>3, <1>4, <1>5 DEF Inv

(* The vectors of a call, cut to its length. *)
LEMMA CutType ==
  ASSUME NEW n \in Lengths, NEW v \in Vectors
  PROVE  Cut(v, n) \in [BitsOf(n) -> Bit]
  BY VectorsAssumption DEF Cut

(* A call begins with a result of zeros (lines 190 to 206). *)
LEMMA CallKeeps == Inv /\ Call => Inv'
  <1> SUFFICES ASSUME Inv, Call PROVE Inv'
    OBVIOUS
  <1>1. PICK n \in Lengths, t \in Vectors, d \in Vectors, a \in Vectors :
          /\ nbits' = n
          /\ tms' = Cut(t, n) /\ tdi' = Cut(d, n) /\ tap' = Cut(a, n)
          /\ result' = [i \in BitsOf(n) |-> 0]
          /\ left' = n
    BY DEF Call
  <1>2. /\ pc = "idle" /\ pc' = "round" /\ curByte' = 0 /\ bitPos' = 0 /\ wire' = <<>>
        /\ UNCHANGED <<cmd, wrPtr, rdLen, desc, building, curLen, queue, clocked, pin, reg, res>>
    BY DEF Call, roundVars
  <1>3. n \in Nat /\ NBytes(n) \in Nat
    BY LengthsAssumption, Padding
  <1>4. TypeOK'
    <2>1. tms' \in [BitsOf(n) -> Bit] /\ tdi' \in [BitsOf(n) -> Bit] /\ tap' \in [BitsOf(n) -> Bit]
      BY <1>1, CutType
    <2>2. result' \in [BitsOf(n) -> Bit]
      BY <1>1 DEF Bit
    <2>3. left' \in 0..nbits' /\ curByte' \in 0..NBytes(nbits') /\ bitPos' \in 0..nbits'
          /\ nbits' \in Nat
      BY <1>1, <1>2, <1>3
    <2>4. wire' \in Seq([tms : Bit, tdi : Bit, tdo : Bit])
      BY <1>2
    <2> QED
      BY <1>1, <1>2, <2>1, <2>2, <2>3, <2>4 DEF Inv, TypeOK
  <1>5. PlaceInv'
    BY <1>1, <1>2, <1>3 DEF Inv, PlaceInv
  <1>6. BuildInv' /\ ReadInv' /\ UnpackInv'
    BY <1>2 DEF BuildInv, ReadInv, UnpackInv
  <1>7. SampleInv'
    <2>1. \A i \in BitsOf(n) : result'[i] = 0 /\ ~(i < 0)
      BY <1>1, <1>3, Padding
    <2>2. Len(wire') = 0 /\ (TmsHeld = FALSE => pin' = 0)
      BY <1>2 DEF Inv, SampleInv
    <2> QED
      BY <1>1, <1>2, <2>1, <2>2 DEF SampleInv
  <1> QED
    BY <1>4, <1>5, <1>6, <1>7 DEF Inv

(* Nothing is built, sent or sampled at the start. *)
LEMMA InitInv == Init => Inv
  <1> SUFFICES ASSUME Init PROVE Inv
    OBVIOUS
  <1>1. /\ pc = "idle" /\ nbits = 0 /\ left = 0 /\ curByte = 0 /\ bitPos = 0
        /\ tms = NoBits /\ tdi = NoBits /\ tap = NoBits /\ result = NoBits
        /\ cmd = <<>> /\ wrPtr = 0 /\ rdLen = 0 /\ desc = <<>> /\ building = FALSE /\ curLen = 0
        /\ queue = <<>> /\ clocked = 0 /\ pin = 0 /\ reg = [i \in 0..7 |-> 0]
        /\ res = <<>> /\ wire = <<>>
    BY DEF Init
  <1>2. NBytes(0) = 0 /\ NoBits \in [BitsOf(0) -> Bit]
    BY DEF NBytes, NoBits, Bit
  <1>3. TypeOK
    <2>1. reg \in Byte /\ pin \in Bit
      BY <1>1 DEF Byte, Bit
    <2>2. /\ cmd \in Seq(Command) /\ desc \in Seq(Descriptor) /\ queue \in Seq(Command)
          /\ res \in Seq(Byte) /\ wire \in Seq([tms : Bit, tdi : Bit, tdo : Bit])
      BY <1>1
    <2>3. building \in BOOLEAN /\ pc \in {"idle", "round", "build", "read", "unpack"}
      BY <1>1
    <2>4. /\ tms \in [BitsOf(nbits) -> Bit] /\ tdi \in [BitsOf(nbits) -> Bit]
          /\ tap \in [BitsOf(nbits) -> Bit] /\ result \in [BitsOf(nbits) -> Bit]
      BY <1>1, <1>2
    <2>5. /\ nbits \in Nat /\ left \in 0..nbits /\ bitPos \in 0..nbits
          /\ curByte \in 0..NBytes(nbits) /\ wrPtr \in Nat /\ rdLen \in Nat /\ curLen \in Nat
          /\ clocked \in Nat
      BY <1>1, <1>2
    <2> QED
      BY <2>1, <2>2, <2>3, <2>4, <2>5 DEF TypeOK
  <1>4. PlaceInv /\ BuildInv /\ ReadInv /\ UnpackInv
    BY <1>1 DEF PlaceInv, BuildInv, ReadInv, UnpackInv
  <1>5. SampleInv
    <2>1. BitsOf(0) = {}
      BY <1>2 DEF BitsOf
    <2> QED
      BY <1>1, <2>1 DEF SampleInv
  <1> QED
    BY <1>3, <1>4, <1>5 DEF Inv

-----------------------------------------------------------------------------
(* The answers of a round.                                                 *)

(* The layout begins and ends where the round does. *)
LEMMA LayRange ==
  ASSUME NEW ds \in Seq(Descriptor), NEW f, NEW g, Lay(f, g, ds), NEW i \in 1..Len(ds) + 1
  PROVE  /\ f[i] \in Nat /\ g[i] \in Nat /\ g[1] = 0
         /\ f[1] <= f[i] /\ f[i] <= f[Len(ds) + 1] /\ g[i] <= g[Len(ds) + 1]
         /\ f[1] \in Nat /\ f[Len(ds) + 1] \in Nat /\ g[Len(ds) + 1] \in Nat
  <1> DEFINE n == Len(ds)
  <1>1. n \in Nat /\ 1 \in 1..n + 1 /\ n + 1 \in 1..n + 1 /\ 1 <= i /\ i <= n + 1
    OBVIOUS
  <1>2. /\ f \in [1..n + 1 -> Nat] /\ g \in [1..n + 1 -> Nat] /\ g[1] = 0
        /\ \A k, j \in 1..n + 1 : k <= j => f[k] <= f[j] /\ g[k] <= g[j]
    BY DEF Lay
  <1> HIDE DEF n
  <1>3. f[1] <= f[i] /\ f[i] <= f[n + 1] /\ g[i] <= g[n + 1]
    BY <1>1, <1>2 DEF n
  <1> QED
    BY <1>1, <1>2, <1>3 DEF n

(* A descriptor is followed by what its samples take. *)
LEMMA LayNext ==
  ASSUME NEW ds \in Seq(Descriptor), NEW f, NEW g, Lay(f, g, ds), NEW i \in 1..Len(ds)
  PROVE  /\ f[i] \in Nat /\ g[i] \in Nat /\ i \in 1..Len(ds) + 1 /\ i + 1 \in 1..Len(ds) + 1
         /\ Whole(ds[i]) /\ Samples(ds[i]) \in Nat \ {0} /\ NBytes(Samples(ds[i])) \in Nat \ {0}
         /\ f[i + 1] = f[i] + Samples(ds[i]) /\ g[i + 1] = g[i] + NBytes(Samples(ds[i]))
  <1>1. i \in 1..Len(ds) + 1 /\ i + 1 \in 1..Len(ds) + 1
    OBVIOUS
  <1>2. f[i] \in Nat /\ g[i] \in Nat
    BY <1>1 DEF Lay
  <1>3. /\ Whole(ds[i])
        /\ f[i + 1] = f[i] + Samples(ds[i]) /\ g[i + 1] = g[i] + NBytes(Samples(ds[i]))
    BY DEF Lay
  <1>4. Samples(ds[i]) \in Nat \ {0} /\ NBytes(Samples(ds[i])) \in Nat \ {0}
    BY <1>3, SamplesOf
  <1> QED
    BY <1>1, <1>2, <1>3, <1>4

(* Fewer samples take no more bytes. *)
LEMMA FewerBytes ==
  ASSUME NEW k \in Nat, NEW n \in Nat, k < n
  PROVE  k \div 8 \in Nat /\ k \div 8 < NBytes(n) /\ k % 8 \in 0..7 /\ k = 8 * (k \div 8) + (k % 8)
  <1>1. k \div 8 \in Nat /\ k % 8 \in 0..7 /\ k = 8 * (k \div 8) + (k % 8)
    OBVIOUS
  <1> DEFINE q == k \div 8
             m == n + 7
             z == m \div 8
  <1>2. q \in Nat /\ 8 * q <= k
    BY <1>1
  <1>3. m \in Nat
    OBVIOUS
  <1>4. z \in Nat /\ m < 8 * z + 8
    <2> HIDE DEF m
    <2> QED
      BY <1>3
  <1>5. q < z
    <2>1. m = n + 7
      OBVIOUS
    <2> HIDE DEF q, z, m
    <2> QED
      BY <1>2, <1>4, <2>1
  <1> QED
    BY <1>1, <1>5 DEF NBytes

(* As many bytes as were asked for are back when everything was executed,  *)
(* and only then.                                                          *)
LEMMA AllAnswered ==
  ASSUME NEW tm, NEW td, NEW tp, NEW cs \in Seq(Command), NEW ds \in Seq(Descriptor),
         NEW a, NEW b, NEW r, NEW n \in Nat, NEW w, NEW rs,
         UnderWay(tm, td, tp, cs, ds, a, b, r, n, w, rs), Len(rs) >= r
  PROVE  cs = <<>> /\ n = 0 /\ w = b /\ Answered(tp, ds, a, b, rs)
  <1> DEFINE p == Len(ds)
             q == Len(cs)
             m == p - q
  <1>1. PICK f \in [1..p + 1 -> Nat], g \in [1..p + 1 -> Nat] :
          /\ Lay(f, g, ds) /\ f[1] = a /\ f[p + 1] = b /\ g[p + 1] = r
          /\ Reading(tm, td, tp, f, g, cs, ds, n, w, rs)
    BY DEF UnderWay
  <1>2. /\ q <= p
        /\ \A j \in 1..q : Fits(tm, td, cs[j], ds[m + j], f[m + j])
        /\ w = f[m + 1] + n /\ Len(rs) = g[m + 1] + n \div 8
        /\ IF cs = <<>> THEN n = 0 ELSE n < cs[1].bits
        /\ \A i \in 1..m : Returned(tp, rs, ds[i], f[i], g[i])
    BY <1>1 DEF Reading
  <1>3. p \in Nat /\ q \in Nat /\ m \in Nat /\ m + 1 \in 1..p + 1
    BY <1>2
  <1>4. cs = <<>>
    <2> SUFFICES ASSUME cs # <<>> PROVE FALSE
      OBVIOUS
    <2>1. 1 \in 1..q /\ m + 1 \in 1..p
      BY <1>2, <1>3
    <2> DEFINE d == ds[m + 1]
               x == Samples(d)
               y == NBytes(x)
    <2>2. x \in Nat \ {0} /\ y \in Nat \ {0} /\ g[m + 1] \in Nat /\ g[(m + 1) + 1] = g[m + 1] + y
          /\ (m + 1) + 1 \in 1..p + 1
      BY <1>1, <2>1, LayNext
    <2>3. g[(m + 1) + 1] <= r /\ r \in Nat
      BY <1>1, <2>2, LayRange
    <2>4. n < x
      <3>1. Fits(tm, td, cs[1], ds[m + 1], f[m + 1])
        BY <1>2, <2>1
      <3>2. cs[1].bits = x
        BY <3>1 DEF Fits
      <3> QED
        BY <1>2, <3>2
    <2>5. n \div 8 \in Nat /\ n \div 8 < y
      <3> HIDE DEF x
      <3> QED
        BY <2>2, <2>4, FewerBytes
    <2> HIDE DEF x, y, d, m
    <2> QED
      BY <1>2, <2>2, <2>3, <2>5
  <1>5. q = 0 /\ m = p /\ n = 0
    BY <1>2, <1>3, <1>4
  <1>6. g[p + 1] \in Nat /\ f[p + 1] \in Nat
    BY <1>1, <1>3
  <1>7. w = b /\ Len(rs) = g[p + 1]
    BY <1>1, <1>2, <1>5, <1>6
  <1>8. Answered(tp, ds, a, b, rs)
    BY <1>1, <1>2, <1>5, <1>7 DEF Answered
  <1> QED
    BY <1>4, <1>5, <1>7, <1>8

(* The driver has all the answers it waits for (lines 328 to 333). *)
LEMMA ReadAnswersKeeps == Inv /\ ReadAnswers => Inv'
  <1> SUFFICES ASSUME Inv, ReadAnswers PROVE Inv'
    OBVIOUS
  <1>1. /\ pc = "read" /\ Len(res) >= rdLen /\ pc' = "unpack"
        /\ UNCHANGED <<nbits, tms, tdi, tap, result, left, curByte, bitPos, cmd, wrPtr, rdLen, desc,
                       building, curLen, queue, clocked, pin, reg, res, wire>>
    BY DEF ReadAnswers, argVars, chipVars, roundVars
  <1>2. TypeOK'
    BY <1>1 DEF Inv, TypeOK
  <1>3. PlaceInv'
    BY <1>1 DEF Inv, PlaceInv
  <1>4. BuildInv' /\ ReadInv'
    BY <1>1 DEF BuildInv, ReadInv
  <1>5. UnpackInv'
    <2>1. UnderWay(tms, tdi, tap, queue, desc, bitPos, nbits - left, rdLen, clocked, Len(wire), res)
      BY <1>1 DEF Inv, ReadInv
    <2>2. queue \in Seq(Command) /\ desc \in Seq(Descriptor) /\ clocked \in Nat
      BY DEF Inv, TypeOK
    <2>3. queue = <<>> /\ clocked = 0 /\ Len(wire) = nbits - left
          /\ Answered(tap, desc, bitPos, nbits - left, res)
      BY <1>1, <2>1, <2>2, AllAnswered
    <2> QED
      BY <1>1, <2>3 DEF UnpackInv
  <1>6. SampleInv'
    BY <1>1 DEF Inv, SampleInv
  <1> QED
    BY <1>2, <1>3, <1>4, <1>5, <1>6 DEF Inv

(* What is left of a sequence without its first y elements. *)
Rest(s, y, t) == t = SubSeq(s, y + 1, Len(s))

LEMMA Behind ==
  ASSUME NEW S, NEW s \in Seq(S), NEW y \in Nat, y <= Len(s),
         NEW t, Rest(s, y, t)
  PROVE  /\ t \in Seq(S) /\ Len(t) = Len(s) - y
         /\ \A i \in 1..Len(s) - y : t[i] = s[y + i]
  <1> DEFINE l == Len(s)
             m == y + 1
  <1>1. \A i \in m..l : s[i] \in S
    OBVIOUS
  <1>2. m \in Int /\ l \in Int /\ t = SubSeq(s, m, l) /\ y \in Nat /\ l \in Nat /\ y <= l
    BY DEF Rest
  <1>3. m = y + 1
    OBVIOUS
  <1> HIDE DEF m, l
  <1>4. /\ SubSeq(s, m, l) \in Seq(S)
        /\ Len(SubSeq(s, m, l)) = IF m <= l THEN l - m + 1 ELSE 0
        /\ \A i \in 1..l - m + 1 : SubSeq(s, m, l)[i] = s[m + i - 1]
    BY <1>1, <1>2, SubSeqProperties
  <1>5. Len(t) = l - y
    BY <1>2, <1>3, <1>4
  <1>6. ASSUME NEW i \in 1..l - y PROVE t[i] = s[y + i]
    <2>1. i \in 1..l - m + 1 /\ m + i - 1 = y + i
      BY <1>2, <1>3
    <2> QED
      BY <1>2, <1>4, <2>1
  <1> QED
    BY <1>2, <1>4, <1>5, <1>6 DEF l

(* The first descriptor, and the answers that are left behind it. *)
LEMMA Unpacked ==
  ASSUME NEW tp, NEW ds \in Seq(Descriptor), ds # <<>>, NEW a, NEW b, NEW rs \in Seq(Byte),
         Answered(tp, ds, a, b, rs),
         NEW d, d = ds[1], NEW n, n = Samples(d), NEW rest, Rest(rs, NBytes(n), rest)
  PROVE  /\ Whole(d) /\ n \in Nat \ {0} /\ a \in Nat /\ b \in Nat /\ a + n <= b
         /\ rest \in Seq(Byte)
         /\ Answered(tp, Tail(ds), a + n, b, rest)
         /\ Returned(tp, rs, d, a, 0)
         /\ Len(ds) = 1 => rest = <<>> /\ a + n = b
  <1> DEFINE p == Len(ds)
             y == NBytes(n)
             l == Len(rs)
             es == Tail(ds)
  <1>1. PICK f \in [1..p + 1 -> Nat], g \in [1..p + 1 -> Nat] :
          /\ Lay(f, g, ds) /\ f[1] = a /\ f[p + 1] = b /\ g[p + 1] = l
          /\ \A i \in 1..p : Returned(tp, rs, ds[i], f[i], g[i])
    BY DEF Answered
  <1>2. p \in Nat \ {0} /\ 1 \in 1..p /\ 2 \in 1..p + 1 /\ l \in Nat
    OBVIOUS
  <1>18. ASSUME NEW j \in 1..Len(ds)
         PROVE  /\ Whole(ds[j]) /\ Samples(ds[j]) \in Nat \ {0}
                /\ NBytes(Samples(ds[j])) \in Nat \ {0} /\ f[j] \in Nat /\ g[j] \in Nat
                /\ f[j + 1] = f[j] + Samples(ds[j]) /\ g[j + 1] = g[j] + NBytes(Samples(ds[j]))
    <2>1. Lay(f, g, ds)
      BY <1>1
    <2> QED
      BY <2>1, LayNext
  <1>3. /\ Whole(d) /\ n \in Nat \ {0} /\ y \in Nat \ {0} /\ a \in Nat
        /\ f[2] = a + n /\ g[2] = y /\ g[1] = 0
    <2>1. /\ Whole(ds[1]) /\ Samples(ds[1]) \in Nat \ {0} /\ NBytes(Samples(ds[1])) \in Nat \ {0}
          /\ f[1] \in Nat
          /\ f[1 + 1] = f[1] + Samples(ds[1]) /\ g[1 + 1] = g[1] + NBytes(Samples(ds[1]))
      BY <1>1, <1>2, LayNext
    <2>2. g[1] = 0
      BY <1>1 DEF Lay
    <2> QED
      BY <1>1, <2>1, <2>2
  <1>4. f[2] <= b /\ g[2] <= l /\ b \in Nat
    BY <1>1, <1>2, LayRange
  <1>5. /\ es \in Seq(Descriptor) /\ Len(es) = p - 1 /\ \A i \in 1..p - 1 : es[i] = ds[i + 1]
    BY <1>2, HeadTailProperties
  <1> HIDE DEF y, es, p
  <1>6. /\ rest \in Seq(Byte) /\ Len(rest) = l - y
        /\ \A i \in 1..l - y : rest[i] = rs[y + i]
    <2>1. y \in Nat /\ y <= Len(rs)
      BY <1>1, <1>3, <1>4
    <2>2. Rest(rs, y, rest)
      BY DEF y
    <2> HIDE DEF l
    <2>3. /\ rest \in Seq(Byte) /\ Len(rest) = Len(rs) - y
          /\ \A i \in 1..Len(rs) - y : rest[i] = rs[y + i]
      BY <2>1, <2>2, Behind
    <2> QED
      BY <2>3 DEF l
  <1> HIDE DEF l
  <1> DEFINE F == [i \in 1..Len(es) + 1 |-> f[i + 1]]
             G == [i \in 1..Len(es) + 1 |-> g[i + 1] - y]
  <1>7. \A i \in 1..p : f[i + 1] \in Nat /\ g[i + 1] \in Nat /\ y <= g[i + 1] /\ g[i + 1] <= l
    <2> SUFFICES ASSUME NEW i \in 1..p
                 PROVE  f[i + 1] \in Nat /\ g[i + 1] \in Nat /\ y <= g[i + 1] /\ g[i + 1] <= l
      OBVIOUS
    <2>1. i + 1 \in 1..p + 1 /\ 2 <= i + 1
      BY <1>2
    <2>2. g[2] <= g[i + 1]
      BY <1>1, <1>2, <2>1 DEF Lay, p
    <2>3. f[i + 1] \in Nat /\ g[i + 1] \in Nat /\ g[i + 1] <= g[p + 1]
      BY <1>1, <2>1, LayRange DEF p
    <2> QED
      BY <1>1, <1>3, <2>2, <2>3
  <1>8. F \in [1..Len(es) + 1 -> Nat] /\ G \in [1..Len(es) + 1 -> Nat]
    <2>1. Len(es) + 1 = p
      BY <1>2, <1>5
    <2>2. \A i \in 1..Len(es) + 1 : f[i + 1] \in Nat
      BY <1>7, <2>1
    <2>3. \A i \in 1..Len(es) + 1 : g[i + 1] - y \in Nat
      <3> SUFFICES ASSUME NEW i \in 1..p PROVE g[i + 1] - y \in Nat
        BY <2>1
      <3>1. g[i + 1] \in Nat /\ y <= g[i + 1] /\ y \in Nat
        BY <1>3, <1>7
      <3> QED
        BY <3>1
    <2> QED
      BY <2>2, <2>3
  <1>9. \A i \in 1..p : F[i] = f[i + 1] /\ G[i] = g[i + 1] - y
    BY <1>2, <1>5
  <1> HIDE DEF F, G
  <1>10. 1 \in 1..p /\ p \in 1..p /\ Len(es) + 1 = p
    BY <1>2, <1>5
  <1>11. G[1] = 0 /\ F[1] = a + n /\ F[Len(es) + 1] = b /\ G[Len(es) + 1] = Len(rest)
    <2>1. G[1] = g[2] - y /\ F[1] = f[2] /\ F[p] = f[p + 1] /\ G[p] = g[p + 1] - y
      <3>1. F[1] = f[1 + 1] /\ G[1] = g[1 + 1] - y
        BY <1>9, <1>10
      <3>2. F[p] = f[p + 1] /\ G[p] = g[p + 1] - y
        BY <1>9, <1>10
      <3> QED
        BY <3>1, <3>2
    <2>2. G[1] = 0
      BY <1>3, <2>1
    <2>3. F[1] = a + n
      BY <1>3, <2>1
    <2>4. F[Len(es) + 1] = b /\ G[Len(es) + 1] = Len(rest)
      BY <1>1, <1>6, <1>10, <2>1
    <2> QED
      BY <2>2, <2>3, <2>4
  <1>12. ASSUME NEW i \in 1..Len(es)
         PROVE  /\ Whole(es[i]) /\ F[i + 1] = F[i] + Samples(es[i])
                /\ G[i + 1] = G[i] + NBytes(Samples(es[i]))
                /\ Returned(tp, rest, es[i], F[i], G[i])
    <2> DEFINE j == i + 1
               e == es[i]
               x == Samples(e)
               z == NBytes(x)
    <2>1. i \in 1..p /\ j \in 1..p /\ i \in 1..p - 1
      BY <1>2, <1>5
    <2>2. e = ds[j]
      BY <1>5, <2>1
    <2>3. /\ Whole(e) /\ x \in Nat \ {0} /\ z \in Nat \ {0} /\ f[j] \in Nat /\ g[j] \in Nat
          /\ f[j + 1] = f[j] + x /\ g[j + 1] = g[j] + z
      <3> HIDE DEF j
      <3>1. /\ Whole(ds[j]) /\ Samples(ds[j]) \in Nat \ {0} /\ NBytes(Samples(ds[j])) \in Nat \ {0}
            /\ f[j] \in Nat /\ g[j] \in Nat
            /\ f[j + 1] = f[j] + Samples(ds[j]) /\ g[j + 1] = g[j] + NBytes(Samples(ds[j]))
        BY <1>18, <2>1 DEF p
      <3> QED
        BY <2>2, <3>1
    <2>4. F[i] = f[j] /\ G[i] = g[j] - y /\ F[i + 1] = f[j + 1] /\ G[i + 1] = g[j + 1] - y
          /\ y <= g[j] /\ g[j + 1] <= l
      BY <1>7, <1>9, <2>1
    <2>5. Returned(tp, rs, e, f[j], g[j])
      BY <1>1, <2>1, <2>2
    <2> HIDE DEF e, j, z
    <2>6. Returned(tp, rest, e, F[i], G[i])
      <3> SUFFICES ASSUME NEW k \in 0..x - 1
                   PROVE  rest[G[i] + k \div 8 + 1][LowestSample(e) + (k % 8)] = tp[F[i] + k]
        BY DEF Returned
      <3> HIDE DEF x
      <3> DEFINE v == k \div 8
                 o == LowestSample(e) + (k % 8)
      <3>1. v \in Nat /\ v < z
        <4>1. x \in Nat /\ k \in Nat /\ k < x
          BY <2>3
        <4>2. v \in Nat /\ v < NBytes(x)
          BY <4>1, FewerBytes
        <4> QED
          BY <4>2 DEF z
      <3>2. rs[g[j] + v + 1][o] = tp[f[j] + k]
        BY <2>5 DEF Returned, x
      <3> HIDE DEF v, o
      <3>3. G[i] + v + 1 \in 1..l - y /\ y + (G[i] + v + 1) = g[j] + v + 1
        <4> DEFINE u == g[j]
                   t == g[j + 1]
        <4>1. u \in Nat /\ z \in Nat /\ t = u + z /\ y \in Nat /\ y <= u /\ t <= l /\ G[i] = u - y
          BY <1>3, <2>3, <2>4
        <4>2. l \in Nat
          BY <1>2
        <4> HIDE DEF u, t
        <4>3. G[i] + v + 1 \in 1..l - y /\ y + (G[i] + v + 1) = u + v + 1
          BY <3>1, <4>1, <4>2
        <4> QED
          BY <4>3 DEF u
      <3>4. rest[G[i] + v + 1] = rs[g[j] + v + 1]
        BY <1>6, <3>3
      <3>5. rest[G[i] + v + 1][o] = tp[F[i] + k]
        BY <2>4, <3>2, <3>4
      <3> QED
        BY <3>5 DEF v, o
    <2>7. G[i + 1] = G[i] + z
      BY <1>3, <2>3, <2>4
    <2> QED
      BY <2>3, <2>4, <2>6, <2>7 DEF e, z
  <1>13. ASSUME NEW i \in 1..Len(es) + 1, NEW j \in 1..Len(es) + 1, i <= j
         PROVE  F[i] <= F[j] /\ G[i] <= G[j]
    <2>1. i \in 1..p /\ j \in 1..p /\ i + 1 \in 1..p + 1 /\ j + 1 \in 1..p + 1 /\ i + 1 <= j + 1
      BY <1>2, <1>10, <1>13
    <2>2. f[i + 1] <= f[j + 1] /\ g[i + 1] <= g[j + 1]
      BY <1>1, <2>1 DEF Lay, p
    <2> QED
      BY <1>3, <1>7, <1>9, <2>1, <2>2
  <1>14. Lay(F, G, es)
    BY <1>8, <1>11, <1>12, <1>13 DEF Lay
  <1>15. Answered(tp, es, a + n, b, rest)
    BY <1>8, <1>11, <1>12, <1>14 DEF Answered
  <1>16. Returned(tp, rs, d, a, 0)
    BY <1>1, <1>2, <1>3 DEF p
  <1>17. ASSUME p = 1 PROVE rest = <<>> /\ a + n = b
    <2>1. Len(es) + 1 = 1
      BY <1>10, <1>17
    <2>2. Len(rest) = 0 /\ a + n = b
      BY <1>11, <2>1
    <2> QED
      BY <1>6, <2>2
  <1> QED
    BY <1>3, <1>4, <1>6, <1>15, <1>16, <1>17 DEF es, p

(* A descriptor is unpacked (lines 335 to 368). *)
LEMMA UnpackKeeps == Inv /\ Unpack => Inv'
  <1> SUFFICES ASSUME Inv, Unpack PROVE Inv'
    OBVIOUS
  <1> DEFINE d == Head(desc)
             n == Samples(d)
             rest == SubSeq(res, NBytes(n) + 1, Len(res))
             Sample(k) == res[k \div 8 + 1][LowestSample(d) + (k % 8)]
  <1>1. /\ pc = "unpack" /\ desc # <<>>
        /\ result' = [i \in BitsOf(nbits) |->
              IF i \in bitPos..(bitPos + n - 1) /\ Sample(i - bitPos) = 1 THEN 1 ELSE result[i]]
        /\ bitPos' = bitPos + n /\ res' = rest /\ desc' = Tail(desc)
        /\ pc' = IF Len(desc) = 1 THEN "round" ELSE "unpack"
        /\ UNCHANGED <<nbits, tms, tdi, tap, left, curByte, cmd, wrPtr, rdLen, building, curLen,
                       queue, clocked, pin, reg, wire>>
    BY DEF Unpack, argVars
  <1>2. /\ desc \in Seq(Descriptor) /\ res \in Seq(Byte) /\ nbits \in Nat /\ left \in 0..nbits
        /\ result \in [BitsOf(nbits) -> Bit] /\ tap \in [BitsOf(nbits) -> Bit]
    BY DEF Inv, TypeOK
  <1>3. /\ queue = <<>> /\ clocked = 0 /\ Len(wire) = nbits - left
        /\ Answered(tap, desc, bitPos, nbits - left, res)
    BY <1>1 DEF Inv, UnpackInv
  <1>4. d = desc[1]
    BY <1>1, <1>2
  <1>5. /\ Whole(d) /\ n \in Nat \ {0} /\ bitPos \in Nat /\ bitPos + n <= nbits - left
        /\ rest \in Seq(Byte)
        /\ Answered(tap, Tail(desc), bitPos + n, nbits - left, rest)
        /\ Returned(tap, res, d, bitPos, 0)
        /\ Len(desc) = 1 => rest = <<>> /\ bitPos + n = nbits - left
    <2> DEFINE b == nbits - left
    <2>1. n = Samples(d) /\ Rest(res, NBytes(n), rest)
      BY DEF n, rest, Rest
    <2>2. Answered(tap, desc, bitPos, b, res)
      BY <1>3
    <2> HIDE DEF b, d, n, rest
    <2>3. /\ Whole(d) /\ n \in Nat \ {0} /\ bitPos \in Nat /\ bitPos + n <= b
          /\ rest \in Seq(Byte)
          /\ Answered(tap, Tail(desc), bitPos + n, b, rest)
          /\ Returned(tap, res, d, bitPos, 0)
          /\ Len(desc) = 1 => rest = <<>> /\ bitPos + n = b
      <3>1. desc \in Seq(Descriptor) /\ res \in Seq(Byte) /\ d = desc[1] /\ desc # <<>>
        BY <1>1, <1>2, <1>4
      <3> QED
        BY <2>1, <2>2, <3>1, Unpacked
    <2> QED
      BY <2>3 DEF b
  <1>6. ASSUME NEW i \in bitPos..(bitPos + n - 1) PROVE Sample(i - bitPos) = tap[i]
    <2> DEFINE k == i - bitPos
    <2>1. k \in 0..n - 1 /\ bitPos + k = i
      <3> HIDE DEF n
      <3> QED
        BY <1>5, <1>6
    <2> HIDE DEF k
    <2>2. res[0 + k \div 8 + 1][LowestSample(d) + (k % 8)] = tap[bitPos + k]
      BY <1>5, <2>1 DEF Returned
    <2>3. k \div 8 \in Int
      BY <2>1
    <2>4. 0 + k \div 8 + 1 = k \div 8 + 1
      BY <2>3
    <2>5. Sample(k) = tap[i]
      BY <2>1, <2>2, <2>4
    <2> QED
      BY <2>5 DEF k
  <1> HIDE DEF d, n, rest, Sample
  <1>7. \A i \in BitsOf(nbits) : result'[i] = IF i < bitPos' THEN tap[i] ELSE 0
    <2> SUFFICES ASSUME NEW i \in BitsOf(nbits)
                 PROVE  result'[i] = IF i < bitPos' THEN tap[i] ELSE 0
      OBVIOUS
    <2>1. i \in Nat
      BY <1>2, Padding
    <2>2. result[i] = (IF i < bitPos THEN tap[i] ELSE 0) /\ tap[i] \in Bit
      BY <1>2 DEF Inv, SampleInv
    <2>3. CASE i \in bitPos..(bitPos + n - 1)
      <3>1. Sample(i - bitPos) = tap[i] /\ ~(i < bitPos) /\ i < bitPos'
        BY <1>1, <1>5, <1>6, <2>1, <2>3
      <3>2. result[i] = 0
        BY <2>2, <3>1
      <3>3. result'[i] = IF tap[i] = 1 THEN 1 ELSE 0
        BY <1>1, <2>3, <3>1, <3>2
      <3> QED
        BY <2>2, <3>1, <3>3 DEF Bit
    <2>4. CASE ~(i \in bitPos..(bitPos + n - 1))
      <3>1. result'[i] = result[i]
        BY <1>1, <2>4
      <3>2. i < bitPos <=> i < bitPos'
        BY <1>1, <1>5, <2>1, <2>4
      <3> QED
        BY <2>2, <3>1, <3>2
    <2> QED
      BY <2>3, <2>4
  <1>8. TypeOK'
    <2>1. result' \in [BitsOf(nbits) -> Bit]
      <3>1. 1 \in Bit
        BY DEF Bit
      <3> QED
        BY <1>1, <1>2, <3>1
    <2>2. bitPos' \in 0..nbits
      BY <1>1, <1>2, <1>5
    <2>3. res' \in Seq(Byte)
      BY <1>1, <1>5
    <2>4. desc' \in Seq(Descriptor)
      BY <1>1, <1>2
    <2>5. pc' \in {"idle", "round", "build", "read", "unpack"}
      BY <1>1
    <2> QED
      BY <1>1, <2>1, <2>2, <2>3, <2>4, <2>5 DEF Inv, TypeOK
  <1>9. ASSUME Len(desc) = 1 PROVE PlaceInv' /\ UnpackInv'
    <2>1. desc' = <<>> /\ res' = <<>> /\ bitPos' = nbits - left /\ pc' = "round"
      BY <1>1, <1>2, <1>5, <1>9
    <2>2. pc' # "idle" /\ pc' # "build" /\ pc' # "unpack"
      BY <2>1
    <2>3. /\ desc' = <<>> /\ bitPos' = nbits' - left' /\ queue' = <<>> /\ clocked' = 0
          /\ Len(wire') = bitPos'
      BY <1>1, <1>3, <2>1
    <2>4. cmd' = <<>> /\ ~building' /\ (left' > 0 => nbits' - left' = 8 * curByte')
      BY <1>1 DEF Inv, PlaceInv
    <2>5. PlaceInv'
      BY <2>1, <2>2, <2>3, <2>4 DEF PlaceInv
    <2>6. UnpackInv'
      BY <2>2 DEF UnpackInv
    <2> QED
      BY <2>5, <2>6
  <1>10. ASSUME Len(desc) # 1 PROVE PlaceInv' /\ UnpackInv'
    <2>1. pc' = "unpack"
      BY <1>1, <1>10
    <2>2. pc' \notin {"idle", "round", "build"}
      BY <2>1
    <2>3. cmd' = <<>> /\ ~building' /\ (left' > 0 => nbits' - left' = 8 * curByte')
      BY <1>1 DEF Inv, PlaceInv
    <2>4. PlaceInv'
      BY <2>2, <2>3 DEF PlaceInv
    <2>5. /\ queue' = <<>> /\ clocked' = 0 /\ Len(wire') = nbits' - left'
          /\ Answered(tap', desc', bitPos', nbits' - left', res')
      BY <1>1, <1>3, <1>5
    <2>6. UnpackInv'
      BY <2>5 DEF UnpackInv
    <2> QED
      BY <2>4, <2>6
  <1>11. BuildInv' /\ ReadInv'
    BY <1>1 DEF BuildInv, ReadInv
  <1>12. SampleInv'
    BY <1>1, <1>7 DEF Inv, SampleInv
  <1> QED
    BY <1>8, <1>9, <1>10, <1>11, <1>12 DEF Inv

-----------------------------------------------------------------------------
(* The chip clocks a bit.                                                  *)

(* The byte x holds at the top the last samples of those up to bit i. *)
Sampled(tp, x, i) == \A j \in 0..7 : j <= i => x[7 - j] = tp[i - j]

(* A position in bytes, and in its byte. *)
LEMMA Division ==
  ASSUME NEW k \in Nat
  PROVE  k \div 8 \in Nat /\ k % 8 \in 0..7 /\ k = 8 * (k \div 8) + (k % 8)
  OBVIOUS

(* One byte more, and those before it as they were. *)
More(s, x, t) == t = Append(s, x)

LEMMA Appended ==
  ASSUME NEW S, NEW s \in Seq(S), NEW x \in S, NEW t, More(s, x, t)
  PROVE  /\ t \in Seq(S) /\ Len(t) = Len(s) + 1 /\ t[Len(s) + 1] = x
         /\ \A i \in 1..Len(s) : t[i] = s[i]
  BY DEF More

(* A byte that is back stays where it is when another one comes. *)
LEMMA ReturnedMore ==
  ASSUME NEW tp, NEW rs \in Seq(Byte), NEW x \in Byte, NEW d, Whole(d), NEW a, NEW r \in Nat,
         Returned(tp, rs, d, a, r), r + NBytes(Samples(d)) <= Len(rs),
         NEW t, More(rs, x, t)
  PROVE  Returned(tp, t, d, a, r)
  <1> DEFINE n == Samples(d)
             y == NBytes(n)
             l == Len(rs)
  <1>1. \A i \in 1..l : t[i] = rs[i]
    BY Appended
  <1>2. n \in Nat /\ y \in Nat /\ l \in Nat /\ r + y <= l
    BY SamplesOf
  <1> SUFFICES ASSUME NEW k \in 0..n - 1
               PROVE  t[r + k \div 8 + 1][LowestSample(d) + (k % 8)] = tp[a + k]
    BY DEF Returned
  <1>3. rs[r + k \div 8 + 1][LowestSample(d) + (k % 8)] = tp[a + k]
    BY DEF Returned
  <1> HIDE DEF n
  <1>4. k \in Nat /\ k < n
    BY <1>2
  <1> DEFINE v == k \div 8
  <1>5. v \in Nat /\ v < NBytes(n)
    BY <1>2, <1>4, FewerBytes
  <1>6. v < y
    BY <1>5
  <1> HIDE DEF v, y, l
  <1>7. r + v + 1 \in 1..l
    BY <1>2, <1>5, <1>6
  <1>8. t[r + v + 1] = rs[r + v + 1]
    BY <1>1, <1>7
  <1> QED
    BY <1>3, <1>8 DEF v

(* The bytes rs are those before the command, and those of its first n bits. *)
Back(tp, rs, n, a, r) == Returning(tp, rs, n, a, r) /\ Len(rs) = r + n \div 8

(* The samples of a command come back as they are clocked, 8 in a byte. *)
LEMMA ReturningNext ==
  ASSUME NEW tp, NEW rs \in Seq(Byte), NEW x \in Byte, NEW n \in Nat, NEW a \in Nat, NEW r \in Nat,
         Back(tp, rs, n, a, r), NEW w, w = a + n, Sampled(tp, x, w), NEW i, i = n + 1,
         NEW t, t = IF n % 8 = 7 THEN Append(rs, x) ELSE rs
  PROVE  Back(tp, t, i, a, r) /\ t \in Seq(Byte)
  <1> DEFINE u == n \div 8
             o == n % 8
             z == (n + 1) \div 8
             l == Len(rs)
  <1>0. \A j \in 0..7 : j <= a + n => x[7 - j] = tp[(a + n) - j]
    BY DEF Sampled
  <1>1. u \in Nat /\ o \in 0..7 /\ n = 8 * u + o /\ l = r + u /\ l \in Nat
    BY Division DEF Back
  <1>2. z = IF o = 7 THEN u + 1 ELSE u
    OBVIOUS
  <1>3. t \in Seq(Byte) /\ \A j \in 1..l : t[j] = rs[j]
    <2>1. CASE o = 7
      <3>1. More(rs, x, t)
        BY <2>1 DEF More
      <3> QED
        BY <3>1, Appended
    <2>2. CASE o # 7
      BY <2>2
    <2> QED
      BY <2>1, <2>2
  <1>4. Len(t) = r + z /\ (o = 7 => t[l + 1] = x)
    <2>1. CASE o = 7
      <3>1. More(rs, x, t)
        BY <2>1 DEF More
      <3>2. Len(t) = l + 1 /\ t[l + 1] = x
        BY <3>1, Appended
      <3> QED
        BY <1>1, <1>2, <2>1, <3>2
    <2>2. CASE o # 7
      BY <1>1, <1>2, <2>2
    <2> QED
      BY <2>1, <2>2
  <1>5. ASSUME NEW k \in 0..8 * z - 1 PROVE t[r + k \div 8 + 1][k % 8] = tp[a + k]
    <2> DEFINE v == k \div 8
               e == k % 8
    <2> HIDE DEF z
    <2>1. k \in Nat /\ v \in Nat /\ e \in 0..7 /\ k = 8 * v + e /\ k < 8 * z /\ z \in Nat
      <3>1. z \in Nat
        BY <1>1, <1>2
      <3>2. k \in Nat /\ k < 8 * z
        BY <3>1
      <3> QED
        BY <3>1, <3>2, Division
    <2>2. CASE k < 8 * u
      <3>1. k \in 0..8 * (n \div 8) - 1
        BY <1>1, <2>1, <2>2
      <3>2. rs[r + v + 1][e] = tp[a + k]
        BY <3>1 DEF Returning, Back
      <3> HIDE DEF u, o, l, v, e
      <3>3. r + v + 1 \in 1..l
        BY <1>1, <2>1, <2>2
      <3>4. t[r + v + 1] = rs[r + v + 1]
        BY <1>3, <3>3
      <3> QED
        BY <3>2, <3>4 DEF v, e
    <2>3. CASE ~(k < 8 * u)
      <3> HIDE DEF u, o, l, v, e
      <3>1. o = 7 /\ v = u /\ r + v + 1 = l + 1
        BY <1>1, <1>2, <2>1, <2>3
      <3>2. t[r + v + 1] = x
        BY <1>4, <3>1
      <3> DEFINE j == 7 - e
      <3>3. j \in 0..7 /\ j <= a + n /\ 7 - j = e /\ (a + n) - j = a + k
        BY <1>1, <2>1, <3>1
      <3> HIDE DEF j
      <3>4. x[7 - j] = tp[(a + n) - j]
        BY <1>0, <3>3
      <3> QED
        BY <3>2, <3>3, <3>4 DEF v, e
    <2> QED
      BY <2>2, <2>3
  <1> QED
    BY <1>3, <1>4, <1>5 DEF Returning, Back

(* With the last sample of a command the byte that is being sampled comes *)
(* back, whether it is full or not.                                       *)
LEMMA ReturnedLast ==
  ASSUME NEW tp, NEW rs \in Seq(Byte), NEW x \in Byte, NEW n \in Nat, NEW a \in Nat, NEW r \in Nat,
         Back(tp, rs, n, a, r), NEW w, w = a + n, Sampled(tp, x, w), NEW i, i = n + 1,
         NEW d, Whole(d), Samples(d) = i,
         NEW t, More(rs, x, t)
  PROVE  Returned(tp, t, d, a, r) /\ Len(t) = r + NBytes(i) /\ t \in Seq(Byte)
  <1> DEFINE u == n \div 8
             o == n % 8
             l == Len(rs)
             low == LowestSample(d)
  <1>0. \A j \in 0..7 : j <= a + n => x[7 - j] = tp[(a + n) - j]
    BY DEF Sampled
  <1>1. u \in Nat /\ o \in 0..7 /\ n = 8 * u + o /\ l = r + u /\ l \in Nat
    BY Division DEF Back
  <1>2. t \in Seq(Byte) /\ Len(t) = l + 1 /\ t[l + 1] = x /\ \A j \in 1..l : t[j] = rs[j]
    BY Appended
  <1>3. NBytes(n + 1) = u + 1
    BY DEF NBytes
  <1>4. \/ low = 0 /\ o = 7
        \/ low = 7 - n /\ u = 0
    <2> DEFINE m == d.len
    <2>1. m \in Nat
      BY SamplesOf
    <2>2. CASE d.oper = "byte"
      <3>1. low = 0 /\ n + 1 = 8 * (m + 1)
        BY <2>2, SamplesOf
      <3> HIDE DEF m, low
      <3>2. o = 7
        BY <2>1, <3>1
      <3> QED
        BY <3>1, <3>2
    <2>3. CASE d.oper # "byte"
      <3>1. n + 1 = m + 1 /\ m <= 7 /\ low = 7 - m
        BY <2>3, SamplesOf
      <3> HIDE DEF m, low
      <3>2. n = m /\ u = 0
        BY <2>1, <3>1
      <3> QED
        BY <3>1, <3>2
    <2> QED
      BY <2>2, <2>3
  <1>5. ASSUME NEW k \in 0..n PROVE t[r + k \div 8 + 1][low + (k % 8)] = tp[a + k]
    <2> DEFINE v == k \div 8
               e == k % 8
    <2>1. k \in Nat /\ v \in Nat /\ e \in 0..7 /\ k = 8 * v + e /\ k <= n
      BY Division
    <2> HIDE DEF low
    <2>2. CASE k < 8 * u
      <3>1. k \in 0..8 * (n \div 8) - 1
        BY <1>1, <2>1, <2>2
      <3>2. rs[r + v + 1][e] = tp[a + k]
        BY <3>1 DEF Returning, Back
      <3> HIDE DEF u, o, l, v, e
      <3>3. r + v + 1 \in 1..l
        BY <1>1, <2>1, <2>2
      <3>4. t[r + v + 1] = rs[r + v + 1]
        BY <1>2, <3>3
      <3>5. low + e = e
        BY <1>1, <1>4, <2>1, <2>2
      <3> QED
        BY <3>2, <3>4, <3>5 DEF v, e
    <2>3. CASE ~(k < 8 * u)
      <3> HIDE DEF u, o, l, v, e
      <3>1. v = u /\ r + v + 1 = l + 1
        BY <1>1, <2>1, <2>3
      <3>2. t[r + v + 1] = x
        BY <1>2, <3>1
      <3> DEFINE j == n - k
      <3>3. j \in 0..7 /\ j <= a + n /\ 7 - j = low + e /\ (a + n) - j = a + k
        BY <1>1, <1>4, <2>1, <3>1
      <3> HIDE DEF j
      <3>4. x[7 - j] = tp[(a + n) - j]
        BY <1>0, <3>3
      <3> QED
        BY <3>2, <3>3, <3>4 DEF v, e
    <2> QED
      BY <2>2, <2>3
  <1>6. Returned(tp, t, d, a, r)
    <2>1. \A k \in 0..(n + 1) - 1 : k \in 0..n
      OBVIOUS
    <2> QED
      BY <1>5, <2>1 DEF Returned
  <1> QED
    BY <1>1, <1>2, <1>3, <1>6

(* Where the chip is: the bit n of the command c is bit w of the vectors,  *)
(* before the end b of the round.                                          *)
OnBit(tm, td, c, n, w, b) ==
    /\ c \in Command /\ c.bits \in Nat /\ n < c.bits /\ w \in Nat /\ b \in Nat /\ w < b
    /\ Len(c.tdi) = c.bits /\ c.tdi[n + 1] = td[w]
    /\ (c.tms = {} /\ tm[w] = 0) \/ c.tms = {tm[w]}

LEMMA AtBit ==
  ASSUME NEW tm, NEW td, NEW tp, NEW cs \in Seq(Command), NEW ds \in Seq(Descriptor), cs # <<>>,
         NEW a, NEW b, NEW r, NEW n \in Nat, NEW w, NEW rs,
         UnderWay(tm, td, tp, cs, ds, a, b, r, n, w, rs),
         NEW c, c = cs[1]
  PROVE  OnBit(tm, td, c, n, w, b)
  <1> DEFINE p == Len(ds)
             q == Len(cs)
             m == p - q
  <1>1. PICK f \in [1..p + 1 -> Nat], g \in [1..p + 1 -> Nat] :
          /\ Lay(f, g, ds) /\ f[1] = a /\ f[p + 1] = b /\ g[p + 1] = r
          /\ Reading(tm, td, tp, f, g, cs, ds, n, w, rs)
    BY DEF UnderWay
  <1>2. /\ q <= p
        /\ \A j \in 1..q : Fits(tm, td, cs[j], ds[m + j], f[m + j])
        /\ w = f[m + 1] + n
        /\ IF cs = <<>> THEN n = 0 ELSE n < cs[1].bits
    BY <1>1 DEF Reading
  <1>3. 1 \in 1..q /\ m + 1 \in 1..p
    BY <1>2
  <1> DEFINE d == ds[m + 1]
             x == Samples(d)
             k == f[m + 1]
  <1>4. x \in Nat \ {0} /\ k \in Nat /\ f[(m + 1) + 1] = k + x /\ (m + 1) + 1 \in 1..p + 1
    BY <1>1, <1>3, LayNext
  <1>5. f[(m + 1) + 1] <= b /\ b \in Nat
    BY <1>1, <1>4, LayRange
  <1>6. Fits(tm, td, c, d, k)
    BY <1>2, <1>3
  <1>7. n < c.bits
    BY <1>2
  <1> HIDE DEF d, x, k, m, p, q
  <1>8. c \in Command /\ c.bits = Samples(d) /\ Len(c.tdi) = c.bits
    BY <1>6 DEF Fits
  <1>9. c.bits = x /\ w = k + n
    BY <1>2, <1>8 DEF x, k
  <1> DEFINE z == c.bits
             i == n + 1
  <1>10. w \in Nat /\ b \in Nat /\ w < b /\ z \in Nat /\ n < z /\ i \in 1..z /\ k + i - 1 = w
    <2>1. z = x
      BY <1>9
    <2> HIDE DEF z
    <2>2. n < z
      BY <1>7 DEF z
    <2> QED
      BY <1>4, <1>5, <1>9, <2>1, <2>2
  <1>11. \A j \in 1..z : c.tdi[j] = td[k + j - 1]
    BY <1>6 DEF Fits
  <1>12. c.tdi[i] = td[w]
    <2> HIDE DEF i, z
    <2>1. c.tdi[i] = td[k + i - 1]
      BY <1>10, <1>11
    <2> QED
      BY <1>10, <2>1
  <1>13. (c.tms = {} /\ tm[w] = 0) \/ c.tms = {tm[w]}
    <2>1. CASE c.tms = {} /\ \A j \in 1..z : tm[k + j - 1] = 0
      <3> HIDE DEF i, z
      <3>1. tm[k + i - 1] = 0
        BY <1>10, <2>1
      <3> QED
        BY <1>10, <2>1, <3>1
    <2>2. CASE z = 1 /\ c.tms = {tm[k]}
      <3>1. z = 1
        BY <2>2
      <3> HIDE DEF z
      <3>2. n = 0
        BY <1>10, <3>1
      <3>3. w = k
        BY <1>4, <1>9, <3>2
      <3> QED
        BY <2>2, <3>3
    <2> QED
      BY <1>6, <2>1, <2>2 DEF Fits
  <1> QED
    BY <1>8, <1>10, <1>12, <1>13 DEF OnBit

(* A bit that is not the last of its command. *)
LEMMA BitClocked ==
  ASSUME NEW tm, NEW td, NEW tp, NEW cs \in Seq(Command), NEW ds \in Seq(Descriptor), cs # <<>>,
         NEW a, NEW b, NEW r, NEW n \in Nat, NEW w, NEW rs \in Seq(Byte), NEW x \in Byte,
         UnderWay(tm, td, tp, cs, ds, a, b, r, n, w, rs), n + 1 # cs[1].bits, Sampled(tp, x, w),
         NEW t, t = IF n % 8 = 7 THEN Append(rs, x) ELSE rs
  PROVE  UnderWay(tm, td, tp, cs, ds, a, b, r, n + 1, w + 1, t) /\ t \in Seq(Byte)
  <1> DEFINE p == Len(ds)
             q == Len(cs)
             m == p - q
  <1>1. PICK f \in [1..p + 1 -> Nat], g \in [1..p + 1 -> Nat] :
          /\ Lay(f, g, ds) /\ f[1] = a /\ f[p + 1] = b /\ g[p + 1] = r
          /\ Reading(tm, td, tp, f, g, cs, ds, n, w, rs)
    BY DEF UnderWay
  <1>2. /\ q <= p
        /\ \A j \in 1..q : Fits(tm, td, cs[j], ds[m + j], f[m + j])
        /\ w = f[m + 1] + n /\ Len(rs) = g[m + 1] + n \div 8
        /\ IF cs = <<>> THEN n = 0 ELSE n < cs[1].bits
        /\ \A i \in 1..m : Returned(tp, rs, ds[i], f[i], g[i])
        /\ Returning(tp, rs, n, f[m + 1], g[m + 1])
    BY <1>1 DEF Reading
  <1>3. p \in Nat /\ q \in Nat \ {0} /\ m \in Nat /\ m + 1 \in 1..p + 1
    BY <1>2
  <1> DEFINE k == f[m + 1]
             y == g[m + 1]
  <1>4. k \in Nat /\ y \in Nat
    BY <1>3
  <1>5. n + 1 < cs[1].bits
    <2> DEFINE z == cs[1].bits
    <2>1. z \in Nat
      BY AtBit DEF OnBit
    <2>2. n < z /\ n + 1 # z
      BY <1>2
    <2> HIDE DEF z
    <2>3. n + 1 < z
      BY <2>1, <2>2
    <2> QED
      BY <2>3 DEF z
  <1>6. Returning(tp, rs, n, k, y) /\ Len(rs) = y + n \div 8 /\ w = k + n
    BY <1>2
  <1> HIDE DEF k, y
  <1>7. Returning(tp, t, n + 1, k, y) /\ Len(t) = y + (n + 1) \div 8 /\ t \in Seq(Byte)
    <2> DEFINE i == n + 1
    <2>1. Back(tp, rs, n, k, y) /\ w = k + n /\ i = n + 1
      BY <1>6 DEF Back
    <2> HIDE DEF i
    <2>2. Back(tp, t, i, k, y) /\ t \in Seq(Byte)
      BY <1>4, <2>1, ReturningNext
    <2> QED
      BY <2>1, <2>2 DEF Back
  <1>8. w + 1 = k + (n + 1)
    BY <1>4, <1>6
  <1>9. ASSUME NEW i \in 1..m PROVE Returned(tp, t, ds[i], f[i], g[i])
    <2>1. Returned(tp, rs, ds[i], f[i], g[i])
      BY <1>2
    <2>2. i \in 1..Len(ds) /\ i + 1 \in 1..p + 1 /\ i + 1 <= m + 1
      BY <1>3
    <2>3. /\ Whole(ds[i]) /\ g[i] \in Nat /\ g[i + 1] = g[i] + NBytes(Samples(ds[i]))
      BY <1>1, <2>2, LayNext
    <2>4. g[i + 1] <= y
      BY <1>1, <1>3, <2>2 DEF Lay, y
    <2> DEFINE e == ds[i]
               u == g[i]
               v == f[i]
               s == NBytes(Samples(e))
    <2>5. u + s <= Len(rs)
      <3>1. n \div 8 \in Nat /\ y \in Nat /\ u + s <= y
        BY <1>4, <2>3, <2>4
      <3>2. s \in Nat /\ u \in Nat
        BY <2>3, SamplesOf
      <3> HIDE DEF s, u
      <3> QED
        BY <1>6, <3>1, <3>2
    <2>6. Returned(tp, rs, e, v, u) /\ Whole(e) /\ u \in Nat /\ u + NBytes(Samples(e)) <= Len(rs)
      BY <2>1, <2>3, <2>5
    <2> HIDE DEF e, u, v, s
    <2>7. CASE n % 8 = 7
      <3>1. More(rs, x, t)
        BY <2>7 DEF More
      <3>2. Returned(tp, t, e, v, u)
        BY <2>6, <3>1, ReturnedMore
      <3> QED
        BY <3>2 DEF e, u, v
    <2>8. CASE n % 8 # 7
      BY <2>1, <2>8
    <2> QED
      BY <2>7, <2>8
  <1>10. Reading(tm, td, tp, f, g, cs, ds, n + 1, w + 1, t)
    BY <1>2, <1>5, <1>7, <1>8, <1>9 DEF Reading, k, y
  <1> QED
    BY <1>1, <1>7, <1>10 DEF UnderWay

(* At the beginning of a command none of its bytes is back. *)
LEMMA NoneBack ==
  ASSUME NEW tp, NEW rs, NEW a, NEW r
  PROVE  Returning(tp, rs, 0, a, r)
  <1>1. 8 * (0 \div 8) - 1 = -1
    OBVIOUS
  <1>2. 0..8 * (0 \div 8) - 1 = {}
    BY <1>1
  <1> QED
    BY <1>2 DEF Returning

(* The first of the commands cs clocks i bits. *)
Clocks(cs, i) == cs[1].bits = i

(* The last bit of a command. *)
LEMMA CommandExecuted ==
  ASSUME NEW tm, NEW td, NEW tp, NEW cs \in Seq(Command), NEW ds \in Seq(Descriptor), cs # <<>>,
         NEW a, NEW b, NEW r, NEW n \in Nat, NEW w, NEW rs \in Seq(Byte), NEW x \in Byte,
         UnderWay(tm, td, tp, cs, ds, a, b, r, n, w, rs), Clocks(cs, n + 1), Sampled(tp, x, w),
         NEW t, More(rs, x, t)
  PROVE  UnderWay(tm, td, tp, Tail(cs), ds, a, b, r, 0, w + 1, t) /\ t \in Seq(Byte)
  <1> DEFINE p == Len(ds)
             q == Len(cs)
             m == p - q
             es == Tail(cs)
  <1>1. PICK f \in [1..p + 1 -> Nat], g \in [1..p + 1 -> Nat] :
          /\ Lay(f, g, ds) /\ f[1] = a /\ f[p + 1] = b /\ g[p + 1] = r
          /\ Reading(tm, td, tp, f, g, cs, ds, n, w, rs)
    BY DEF UnderWay
  <1>2. /\ q <= p
        /\ \A j \in 1..q : Fits(tm, td, cs[j], ds[m + j], f[m + j])
        /\ w = f[m + 1] + n /\ Len(rs) = g[m + 1] + n \div 8
        /\ \A i \in 1..m : Returned(tp, rs, ds[i], f[i], g[i])
        /\ Returning(tp, rs, n, f[m + 1], g[m + 1])
    BY <1>1 DEF Reading
  <1>3. p \in Nat /\ q \in Nat \ {0} /\ m \in Nat /\ m + 1 \in 1..p + 1 /\ m + 1 \in 1..p
    BY <1>2
  <1>4. es \in Seq(Command) /\ Len(es) = q - 1 /\ \A i \in 1..q - 1 : es[i] = cs[i + 1]
    BY <1>3, HeadTailProperties
  <1> DEFINE i1 == m + 1
             d == ds[i1]
             k == f[i1]
             y == g[i1]
  <1>5. /\ Whole(d) /\ k \in Nat /\ y \in Nat
        /\ f[i1 + 1] = k + Samples(d) /\ g[i1 + 1] = y + NBytes(Samples(d))
    <2>1. i1 \in 1..Len(ds) /\ Lay(f, g, ds)
      BY <1>1, <1>3
    <2> HIDE DEF i1
    <2> QED
      BY <2>1, LayNext
  <1>6. Fits(tm, td, cs[1], d, k)
    <2>1. 1 \in 1..q
      BY <1>3
    <2> QED
      BY <1>2, <2>1
  <1>7. Returning(tp, rs, n, k, y) /\ Len(rs) = y + n \div 8 /\ w = k + n
    BY <1>2
  <1>8. Samples(d) = n + 1
    BY <1>6 DEF Fits, Clocks
  <1>9. i1 = m + 1 /\ i1 - 1 = m
    BY <1>3
  <1> HIDE DEF d, k, y, es
  <1>10. Returned(tp, t, d, k, y) /\ Len(t) = y + NBytes(n + 1) /\ t \in Seq(Byte)
    <2> DEFINE i == n + 1
    <2>1. Back(tp, rs, n, k, y) /\ w = k + n /\ i = n + 1 /\ Samples(d) = i
      BY <1>7, <1>8 DEF Back
    <2> HIDE DEF i
    <2>2. Returned(tp, t, d, k, y) /\ Len(t) = y + NBytes(i) /\ t \in Seq(Byte)
      <3>1. Whole(d) /\ k \in Nat /\ y \in Nat
        BY <1>5
      <3> QED
        BY <2>1, <3>1, ReturnedLast
    <2> QED
      BY <2>1, <2>2
  <1>11. w + 1 = f[i1 + 1] /\ Len(t) = g[i1 + 1]
    BY <1>5, <1>7, <1>8, <1>10
  <1>12. ASSUME NEW i \in 1..m PROVE Returned(tp, t, ds[i], f[i], g[i])
    <2>1. Returned(tp, rs, ds[i], f[i], g[i])
      BY <1>2
    <2>2. i \in 1..Len(ds) /\ i + 1 \in 1..p + 1 /\ i + 1 <= m + 1
      BY <1>3
    <2>3. /\ Whole(ds[i]) /\ g[i] \in Nat /\ g[i + 1] = g[i] + NBytes(Samples(ds[i]))
      BY <1>1, <2>2, LayNext
    <2>4. g[i + 1] <= y
      BY <1>1, <1>3, <2>2 DEF Lay, y
    <2> DEFINE e == ds[i]
               u == g[i]
               v == f[i]
               s == NBytes(Samples(e))
    <2>5. u + s <= Len(rs)
      <3>1. n \div 8 \in Nat /\ y \in Nat /\ u + s <= y
        BY <1>5, <2>3, <2>4
      <3>2. s \in Nat /\ u \in Nat
        BY <2>3, SamplesOf
      <3> HIDE DEF s, u
      <3> QED
        BY <1>7, <3>1, <3>2
    <2>6. Returned(tp, rs, e, v, u) /\ Whole(e) /\ u \in Nat /\ u + NBytes(Samples(e)) <= Len(rs)
      BY <2>1, <2>3, <2>5
    <2> HIDE DEF e, u, v, s
    <2>7. Returned(tp, t, e, v, u)
      BY <2>6, ReturnedMore
    <2> QED
      BY <2>7 DEF e, u, v
  <1>13. ASSUME NEW i \in 1..i1 PROVE Returned(tp, t, ds[i], f[i], g[i])
    <2>1. CASE i = i1
      BY <1>10, <2>1 DEF d, k, y
    <2>2. CASE i # i1
      <3>1. i \in 1..m
        BY <1>3, <1>9, <2>2
      <3> QED
        BY <1>12, <3>1
    <2> QED
      BY <2>1, <2>2
  <1>14. ASSUME NEW j \in 1..Len(es) PROVE Fits(tm, td, es[j], ds[i1 + j], f[i1 + j])
    <2>1. j + 1 \in 1..q /\ m + (j + 1) = i1 + j /\ es[j] = cs[j + 1]
      <3>1. j \in 1..q - 1
        BY <1>4
      <3>2. es[j] = cs[j + 1]
        BY <1>4, <3>1
      <3>3. q \in Nat \ {0} /\ m \in Nat /\ i1 = m + 1
        BY <1>3
      <3> HIDE DEF q, m, i1
      <3>4. j + 1 \in 1..q
        BY <3>1, <3>3
      <3>5. m + (j + 1) = i1 + j
        BY <3>1, <3>3
      <3> QED
        BY <3>2, <3>4, <3>5
    <2>2. Fits(tm, td, cs[j + 1], ds[m + (j + 1)], f[m + (j + 1)])
      BY <1>2, <2>1
    <2> QED
      BY <2>1, <2>2
  <1>15. p - Len(es) = i1 /\ Len(es) <= p
    BY <1>2, <1>3, <1>4
  <1>16. es # <<>> => 0 < es[1].bits
    <2> SUFFICES ASSUME es # <<>> PROVE 0 < es[1].bits
      OBVIOUS
    <2>1. 1 \in 1..Len(es) /\ i1 + 1 \in 1..p
      BY <1>3, <1>4, <1>15
    <2>2. Fits(tm, td, es[1], ds[i1 + 1], f[i1 + 1])
      BY <1>14, <2>1
    <2> DEFINE e == ds[i1 + 1]
               z == Samples(e)
    <2>3. z \in Nat \ {0}
      BY <1>1, <2>1, LayNext
    <2>4. es[1].bits = z
      BY <2>2 DEF Fits
    <2> HIDE DEF z
    <2> QED
      BY <2>3, <2>4
  <1>17. Returning(tp, t, 0, f[i1 + 1], g[i1 + 1])
    <2> DEFINE k2 == f[i1 + 1]
               y2 == g[i1 + 1]
    <2> HIDE DEF k2, y2, i1
    <2>1. Returning(tp, t, 0, k2, y2)
      BY NoneBack
    <2> QED
      BY <2>1 DEF k2, y2
  <1>18. f[i1 + 1] \in Nat /\ g[i1 + 1] \in Nat
    <2>1. i1 + 1 \in 1..p + 1
      BY <1>3
    <2> HIDE DEF i1, p
    <2> QED
      BY <2>1
  <1> HIDE DEF i1, m, p, q
  <1>19. Reading(tm, td, tp, f, g, es, ds, 0, w + 1, t)
    <2>1. Len(ds) - Len(es) = i1 /\ Len(es) <= Len(ds)
      BY <1>15 DEF p
    <2>2. w + 1 = f[i1 + 1] + 0 /\ Len(t) = g[i1 + 1] + 0 \div 8
      BY <1>11, <1>18
    <2>3. IF es = <<>> THEN 0 = 0 ELSE 0 < es[1].bits
      BY <1>16
    <2> QED
      BY <1>13, <1>14, <1>17, <2>1, <2>2, <2>3 DEF Reading
  <1> QED
    BY <1>1, <1>10, <1>19 DEF UnderWay, es, p

(* A bit is clocked (the chip). *)
LEMMA ChipClockKeeps == Inv /\ ChipClock => Inv'
  <1> SUFFICES ASSUME Inv, ChipClock PROVE Inv'
    OBVIOUS
  <1> DEFINE c == queue[1]
             n == clocked
             w == Len(wire)
             b == tap[w]
             level == IF c.tms = {} THEN pin ELSE CHOOSE t \in c.tms : TRUE
             e == [tms |-> level, tdi |-> c.tdi[n + 1], tdo |-> b]
             x == [i \in 0..7 |-> IF i = 7 THEN b ELSE reg[i + 1]]
             last == n + 1 = c.bits
  <1>1. /\ queue \in Seq(Command) /\ clocked \in Nat /\ res \in Seq(Byte) /\ nbits \in Nat
        /\ left \in 0..nbits /\ desc \in Seq(Descriptor) /\ reg \in Byte /\ pin \in Bit
        /\ wire \in Seq([tms : Bit, tdi : Bit, tdo : Bit])
        /\ tms \in [BitsOf(nbits) -> Bit] /\ tdi \in [BitsOf(nbits) -> Bit]
        /\ tap \in [BitsOf(nbits) -> Bit]
    BY DEF Inv, TypeOK
  <1>2. queue # <<>> /\ Head(queue) = c
    BY <1>1 DEF ChipClock
  <1>3. /\ wire' = Append(wire, e) /\ pin' = (IF TmsHeld THEN level ELSE 0) /\ reg' = x
        /\ res' = IF last \/ n % 8 = 7 THEN Append(res, x) ELSE res
        /\ queue' = IF last THEN Tail(queue) ELSE queue
        /\ clocked' = IF last THEN 0 ELSE n + 1
    <2> DEFINE h == Head(queue)
               lev == IF h.tms = {} THEN pin ELSE CHOOSE t \in h.tms : TRUE
    <2>1. /\ wire' = Append(wire, [tms |-> lev, tdi |-> h.tdi[clocked + 1], tdo |-> tap[Len(wire)]])
          /\ pin' = (IF TmsHeld THEN lev ELSE 0)
      BY DEF ChipClock
    <2>2. reg' = x
      BY DEF ChipClock
    <2>3. res' = IF clocked + 1 = h.bits \/ clocked % 8 = 7 THEN Append(res, reg') ELSE res
      BY DEF ChipClock
    <2>4. /\ queue' = IF clocked + 1 = h.bits THEN Tail(queue) ELSE queue
          /\ clocked' = IF clocked + 1 = h.bits THEN 0 ELSE clocked + 1
      BY DEF ChipClock
    <2>5. h = c
      BY <1>2
    <2> HIDE DEF h, c, x
    <2>6. wire' = Append(wire, e) /\ pin' = (IF TmsHeld THEN level ELSE 0)
      BY <2>1, <2>5
    <2>7. res' = IF last \/ n % 8 = 7 THEN Append(res, x) ELSE res
      BY <2>2, <2>3, <2>5
    <2>8. queue' = (IF last THEN Tail(queue) ELSE queue) /\ clocked' = IF last THEN 0 ELSE n + 1
      BY <2>4, <2>5
    <2> QED
      BY <2>2, <2>6, <2>7, <2>8
  <1>4. UNCHANGED <<pc, nbits, tms, tdi, tap, result, left, curByte, bitPos, cmd, wrPtr, rdLen, desc,
                    building, curLen>>
    BY DEF ChipClock, argVars, roundVars
  <1>5. pc = "read"
    <2>1. pc \notin {"idle", "round", "build"}
      BY <1>2 DEF Inv, PlaceInv
    <2>2. pc # "unpack"
      BY <1>2 DEF Inv, UnpackInv
    <2> QED
      BY <2>1, <2>2 DEF Inv, TypeOK
  <1> DEFINE z == nbits - left
  <1>6. UnderWay(tms, tdi, tap, queue, desc, bitPos, z, rdLen, n, w, res)
    BY <1>5 DEF Inv, ReadInv
  <1>7. w \in Nat /\ z \in Nat /\ z <= nbits
    BY <1>1
  <1> HIDE DEF z, w, n, c
  <1>8. n \in Nat
    BY <1>1 DEF n
  <1>9. /\ c \in Command /\ c.bits \in Nat /\ n < c.bits /\ w < z
        /\ Len(c.tdi) = c.bits /\ c.tdi[n + 1] = tdi[w]
        /\ (c.tms = {} /\ tms[w] = 0) \/ c.tms = {tms[w]}
    <2>1. queue \in Seq(Command) /\ desc \in Seq(Descriptor) /\ queue # <<>> /\ c = queue[1]
      BY <1>1, <1>2 DEF c
    <2> HIDE DEF level, e, x, last, b
    <2>2. OnBit(tms, tdi, c, n, w, z)
      BY <1>6, <1>8, <2>1, AtBit
    <2> QED
      BY <2>2 DEF OnBit
  <1>10. w \in BitsOf(nbits)
    BY <1>1, <1>7, <1>9, Padding
  <1>11. b \in Bit /\ tdi[w] \in Bit /\ tms[w] \in Bit
    BY <1>1, <1>10
  <1>12. level \in Bit
    <2>1. c.tms = {} => level = pin
      OBVIOUS
    <2>2. c.tms = {tms[w]} => level = tms[w]
      OBVIOUS
    <2> QED
      BY <1>1, <1>9, <1>11, <2>1, <2>2
  <1> DEFINE d == c.tdi[n + 1]
  <1>13. d \in Bit
    BY <1>9, <1>11
  <1> HIDE DEF b, level, d
  <1>14. e = [tms |-> level, tdi |-> d, tdo |-> b] /\ e.tdo = b
    BY DEF d
  <1>15. e \in [tms : Bit, tdi : Bit, tdo : Bit]
    BY <1>11, <1>12, <1>13, <1>14
  <1> HIDE DEF e
  <1>16. /\ wire' \in Seq([tms : Bit, tdi : Bit, tdo : Bit])
         /\ Len(wire') = w + 1 /\ wire'[w + 1] = e
         /\ \A i \in 1..w : wire'[i] = wire[i]
    BY <1>1, <1>3, <1>15 DEF w
  <1>17. x \in Byte
    <2>1. \A i \in 0..7 : i # 7 => reg[i + 1] \in Bit
      BY <1>1 DEF Byte
    <2> QED
      BY <1>11, <2>1 DEF Byte
  <1>18. Sampled(tap, x, w)
    <2> SUFFICES ASSUME NEW j \in 0..7, j <= w PROVE x[7 - j] = tap[w - j]
      BY DEF Sampled
    <2>1. CASE j = 0
      BY <1>7, <2>1 DEF b
    <2>2. CASE j # 0
      <3> DEFINE i == j - 1
      <3>1. i \in 0..7 /\ i < w /\ 7 - j \in 0..7 /\ 7 - j # 7 /\ 7 - j + 1 = 7 - i
            /\ (w - 1) - i = w - j
        BY <1>7, <2>2
      <3>2. \A k \in 0..7 : k < w => reg[7 - k] = tap[(w - 1) - k]
        BY DEF Inv, SampleInv, w
      <3> HIDE DEF i
      <3>3. reg[7 - i] = tap[(w - 1) - i]
        BY <3>1, <3>2
      <3>4. x[7 - j] = reg[7 - j + 1]
        BY <3>1
      <3> QED
        BY <3>1, <3>3, <3>4
    <2> QED
      BY <2>1, <2>2
  <1> HIDE DEF x, last
  <1>19. /\ UnderWay(tms, tdi, tap, queue', desc, bitPos, z, rdLen, clocked', w + 1, res')
         /\ res' \in Seq(Byte) /\ queue' \in Seq(Command) /\ clocked' \in Nat
    <2>1. CASE last
      <3>1. More(res, x, res') /\ queue' = Tail(queue) /\ clocked' = 0
        BY <1>3, <2>1 DEF More
      <3>2. Clocks(queue, n + 1)
        BY <2>1 DEF last, Clocks, c
      <3>3. /\ UnderWay(tms, tdi, tap, Tail(queue), desc, bitPos, z, rdLen, 0, w + 1, res')
            /\ res' \in Seq(Byte)
        BY <1>1, <1>2, <1>6, <1>8, <1>17, <1>18, <3>1, <3>2, CommandExecuted
      <3>4. Tail(queue) \in Seq(Command)
        BY <1>1, <1>2
      <3> QED
        BY <3>1, <3>3, <3>4
    <2>2. CASE ~last
      <3>1. queue' = queue /\ clocked' = n + 1 /\ res' = IF n % 8 = 7 THEN Append(res, x) ELSE res
        BY <1>3, <2>2
      <3>2. n + 1 # queue[1].bits
        BY <2>2 DEF last, c
      <3>3. /\ UnderWay(tms, tdi, tap, queue, desc, bitPos, z, rdLen, n + 1, w + 1, res')
            /\ res' \in Seq(Byte)
        BY <1>1, <1>2, <1>6, <1>8, <1>17, <1>18, <3>1, <3>2, BitClocked
      <3> QED
        BY <1>1, <1>8, <3>1, <3>3
    <2> QED
      BY <2>1, <2>2
  <1>20. TypeOK'
    <2>1. pin' \in Bit /\ reg' \in Byte
      BY <1>3, <1>12, <1>17 DEF Bit
    <2> QED
      BY <1>4, <1>16, <1>19, <2>1 DEF Inv, TypeOK
  <1>21. PlaceInv'
    BY <1>4, <1>5 DEF Inv, PlaceInv
  <1>22. BuildInv' /\ UnpackInv'
    BY <1>4, <1>5 DEF BuildInv, UnpackInv
  <1>23. ReadInv'
    BY <1>4, <1>16, <1>19 DEF ReadInv, z
  <1>24. SampleInv'
    <2>1. ASSUME NEW k \in 1..Len(wire') PROVE wire'[k].tdo = tap[k - 1]
      <3>1. CASE k = w + 1
        <4>1. k - 1 = w
          BY <1>7, <3>1
        <4> QED
          BY <1>14, <1>16, <3>1, <4>1 DEF b
      <3>2. CASE k # w + 1
        <4>1. k \in 1..Len(wire)
          BY <1>7, <1>16, <3>2 DEF w
        <4>2. wire[k].tdo = tap[k - 1]
          BY <4>1 DEF Inv, SampleInv
        <4> QED
          BY <1>16, <4>1, <4>2 DEF w
      <3> QED
        BY <3>1, <3>2
    <2>2. ASSUME NEW j \in 0..7, j < Len(wire') PROVE reg'[7 - j] = tap[Len(wire') - 1 - j]
      <3>1. j <= w /\ Len(wire') - 1 - j = w - j
        BY <1>7, <1>16, <2>2
      <3>2. x[7 - j] = tap[w - j]
        BY <1>18, <3>1 DEF Sampled
      <3> QED
        BY <1>3, <3>1, <3>2
    <2>3. TmsHeld = FALSE => pin' = 0
      BY <1>3
    <2>4. \A i \in BitsOf(nbits) : result[i] = IF i < bitPos THEN tap[i] ELSE 0
      BY DEF Inv, SampleInv
    <2> QED
      BY <1>4, <2>1, <2>2, <2>3, <2>4 DEF SampleInv
  <1> QED
    BY <1>20, <1>21, <1>22, <1>23, <1>24 DEF Inv

-----------------------------------------------------------------------------

(* Every step of the driver and of the chip keeps the invariant. *)
LEMMA StepKeeps == Inv /\ [Next]_vars => Inv'
  <1> SUFFICES ASSUME Inv, [Next]_vars PROVE Inv'
    OBVIOUS
  <1>1. CASE UNCHANGED vars
    <2>1. UNCHANGED <<pc, nbits, tms, tdi, tap, result, left, curByte, bitPos, cmd, wrPtr, rdLen,
                      desc, building, curLen, queue, clocked, pin, reg, res, wire>>
      BY <1>1 DEF vars, argVars, roundVars, chipVars
    <2> QED
      BY <2>1 DEF Inv, TypeOK, PlaceInv, BuildInv, ReadInv, UnpackInv, SampleInv
  <1>2. CASE Call
    BY <1>2, CallKeeps
  <1>3. CASE Driver
    BY <1>3, StartRoundKeeps, ReturnKeeps, AddByteKeeps, AddBitsKeeps, AddTmsKeeps, SendKeeps,
       ReadAnswersKeeps, UnpackKeeps DEF Driver
  <1>4. CASE ChipClock
    BY <1>4, ChipClockKeeps
  <1> QED
    BY <1>1, <1>2, <1>3, <1>4 DEF Next

(* The invariant holds in every state. *)
LEMMA Invariance == Spec => []Inv
  BY InitInv, StepKeeps, PTL DEF Spec

(* The variables of shift() and of the chip keep their types, for vectors  *)
(* of any length and buffers of any size (lines 195 to 381).               *)
THEOREM TypeCorrect == Spec => []TypeOK
  <1>1. Inv => TypeOK
    BY DEF Inv
  <1> QED
    BY <1>1, Invariance, PTL
-----------------------------------------------------------------------------
(* The promise of shift(): each step of the driver and of the chip is a    *)
(* step of JtagShift, or one that it does not see.                         *)

(* A function on the first n positions is a sequence. *)
LEMMA VectorIsSeq ==
  ASSUME NEW S, NEW n \in Nat, NEW v \in [1..n -> S]
  PROVE  v \in Seq(S) /\ Len(v) = n
  BY LenProperties, SeqDef

(* The bits of the call, in the order the contract counts them in. *)
LEMMA Counted ==
  ASSUME NEW n \in Nat, NEW S, NEW v \in [BitsOf(n) -> S]
  PROVE  /\ [k \in 1..n |-> v[k - 1]] \in Seq(S)
         /\ Len([k \in 1..n |-> v[k - 1]]) = n
  <1>1. ASSUME NEW k \in 1..n PROVE v[k - 1] \in S
    <2>1. k - 1 \in Nat /\ k - 1 < n
      OBVIOUS
    <2>2. k - 1 \in BitsOf(n)
      BY <2>1, Padding
    <2> QED
      BY <2>2
  <1>2. [k \in 1..n |-> v[k - 1]] \in [1..n -> S]
    BY <1>1
  <1> QED
    BY <1>2, VectorIsSeq

(* No call was made. *)
LEMMA InitImplements == Init => Contract!Init
  <1> SUFFICES ASSUME Init PROVE Contract!Init
    OBVIOUS
  <1>1. nbits = 0 /\ pc = "idle" /\ wire = <<>>
    BY DEF Init
  <1>2. [k \in 1..nbits |-> tms[k - 1]] = <<>> /\ [k \in 1..nbits |-> tdi[k - 1]] = <<>>
        /\ [k \in 1..nbits |-> result[k - 1]] = <<>>
    BY <1>1
  <1> QED
    BY <1>1, <1>2 DEF Contract!Init

(* A call hands over two vectors of the same length. *)
LEMMA CallImplements == Inv /\ Inv' /\ Call => Contract!Call
  <1> SUFFICES ASSUME Inv, Inv', Call PROVE Contract!Call
    OBVIOUS
  <1>1. pc = "idle" /\ pc' = "round" /\ wire' = <<>>
    BY DEF Call
  <1>2. nbits' \in Nat /\ tms' \in [BitsOf(nbits') -> Bit] /\ tdi' \in [BitsOf(nbits') -> Bit]
    BY DEF Inv, TypeOK
  <1> DEFINE s == [k \in 1..nbits' |-> tms'[k - 1]]
             d == [k \in 1..nbits' |-> tdi'[k - 1]]
  <1>3. s \in Seq(Bit) /\ d \in Seq(Bit) /\ Len(s) = Len(d)
    BY <1>2, Counted
  <1> QED
    BY <1>1, <1>3 DEF Contract!Call, Contract!Bit, Bit

(* Building, sending, reading and unpacking show nothing on the wire. *)
LEMMA UnseenSteps ==
  ASSUME Inv, StartRound \/ AddByte \/ AddBits \/ AddTms \/ Send \/ ReadAnswers \/ Unpack
  PROVE  UNCHANGED Contract!vars
  <1>1. pc # "idle" /\ pc' # "idle" /\ UNCHANGED <<nbits, tms, tdi, wire>>
    <2>1. CASE StartRound
      BY <2>1 DEF StartRound, argVars, chipVars
    <2>2. CASE AddByte
      BY <2>2 DEF AddByte, Room, argVars, chipVars
    <2>3. CASE AddBits
      BY <2>3 DEF AddBits, Room, argVars, chipVars
    <2>4. CASE AddTms
      BY <2>4 DEF AddTms, Room, argVars, chipVars
    <2>5. CASE Send
      BY <2>5 DEF Send, argVars
    <2>6. CASE ReadAnswers
      BY <2>6 DEF ReadAnswers, argVars, chipVars
    <2>7. CASE Unpack
      BY <2>7 DEF Unpack, argVars
    <2> QED
      BY <2>1, <2>2, <2>3, <2>4, <2>5, <2>6, <2>7
  <1> QED
    BY <1>1 DEF Contract!vars

(* The chip takes TMS to the level of the vector: where the command does  *)
(* not write it, the vector has it low.                                   *)
LEMMA ClockImplements ==
  ASSUME Inv, Inv', ChipClock, TmsHeld = FALSE
  PROVE  Contract!Clock
  <1> DEFINE c == queue[1]
             w == Len(wire)
             level == IF c.tms = {} THEN pin ELSE CHOOSE t \in c.tms : TRUE
             s == [k \in 1..nbits |-> tms[k - 1]]
             d == [k \in 1..nbits |-> tdi[k - 1]]
             z == nbits - left
  <1>1. /\ queue \in Seq(Command) /\ desc \in Seq(Descriptor) /\ clocked \in Nat /\ nbits \in Nat
        /\ left \in 0..nbits /\ tms \in [BitsOf(nbits) -> Bit] /\ tap \in [BitsOf(nbits) -> Bit]
    BY DEF Inv, TypeOK
  <1>2. queue # <<>> /\ Head(queue) = c
    BY <1>1 DEF ChipClock
  <1>3. UNCHANGED <<pc, nbits, tms, tdi>>
        /\ wire' = Append(wire, [tms |-> level, tdi |-> c.tdi[clocked + 1], tdo |-> tap[w]])
    <2> DEFINE h == Head(queue)
               lev == IF h.tms = {} THEN pin ELSE CHOOSE t \in h.tms : TRUE
    <2>1. wire' = Append(wire, [tms |-> lev, tdi |-> h.tdi[clocked + 1], tdo |-> tap[w]])
      BY DEF ChipClock
    <2>2. UNCHANGED <<pc, nbits, tms, tdi>>
      BY DEF ChipClock, argVars
    <2>3. h = c
      BY <1>2
    <2> HIDE DEF h, c
    <2> QED
      BY <2>1, <2>2, <2>3
  <1>4. pc = "read"
    <2>1. pc \notin {"idle", "round", "build"}
      BY <1>2 DEF Inv, PlaceInv
    <2>2. pc # "unpack"
      BY <1>2 DEF Inv, UnpackInv
    <2> QED
      BY <2>1, <2>2 DEF Inv, TypeOK
  <1>5. OnBit(tms, tdi, c, clocked, w, z)
    <2>1. UnderWay(tms, tdi, tap, queue, desc, bitPos, z, rdLen, clocked, w, res)
      BY <1>4 DEF Inv, ReadInv
    <2>2. c = queue[1]
      OBVIOUS
    <2> HIDE DEF z, w, c
    <2> QED
      BY <1>1, <1>2, <2>1, <2>2, AtBit
  <1>6. pin = 0
    BY DEF Inv, SampleInv
  <1> HIDE DEF c, w
  <1>7. /\ w \in Nat /\ w < z /\ c.tdi[clocked + 1] = tdi[w]
        /\ (c.tms = {} /\ tms[w] = 0) \/ c.tms = {tms[w]}
    BY <1>5 DEF OnBit
  <1>8. level = tms[w]
    <2>1. c.tms = {} => level = pin
      OBVIOUS
    <2>2. c.tms = {tms[w]} => level = tms[w]
      OBVIOUS
    <2> QED
      BY <1>6, <1>7, <2>1, <2>2
  <1> HIDE DEF level
  <1>9. w < nbits /\ w + 1 \in 1..nbits /\ (w + 1) - 1 = w
    BY <1>1, <1>7
  <1>10. tap[w] \in Bit
    <2>1. w \in BitsOf(nbits)
      BY <1>1, <1>7, <1>9, Padding
    <2> HIDE DEF level, s, d, z
    <2> QED
      BY <1>1, <2>1
  <1>11. Len(s) = nbits
    BY <1>1, Counted
  <1>12. s[w + 1] = tms[w] /\ d[w + 1] = tdi[w]
    BY <1>9
  <1>13. s' = s /\ d' = d
    BY <1>3
  <1> HIDE DEF s, d
  <1>14. wire' = Append(wire, [tms |-> s[w + 1], tdi |-> d[w + 1], tdo |-> tap[w]])
    BY <1>3, <1>7, <1>8, <1>12
  <1>15. w < Len(s)
    BY <1>9, <1>11
  <1>16. pc # "idle" /\ pc' # "idle"
    BY <1>3, <1>4
  <1> QED
    BY <1>10, <1>13, <1>14, <1>15, <1>16 DEF Contract!Clock, Contract!Bit, Bit, s, d, w

(* What is returned is what was sampled on the wire. *)
LEMMA ReturnImplements == Inv /\ Return => Contract!Return
  <1> SUFFICES ASSUME Inv, Return PROVE Contract!Return
    OBVIOUS
  <1> DEFINE s == [k \in 1..nbits |-> tms[k - 1]]
             d == [k \in 1..nbits |-> tdi[k - 1]]
             r == [k \in 1..nbits |-> result[k - 1]]
  <1>1. /\ pc = "round" /\ left = 0 /\ pc' = "idle"
        /\ UNCHANGED <<nbits, tms, tdi, result, wire>>
    BY DEF Return, argVars, chipVars
  <1>2. /\ nbits \in Nat /\ tms \in [BitsOf(nbits) -> Bit] /\ Len(wire) = nbits /\ bitPos = nbits
    BY <1>1 DEF Inv, TypeOK, PlaceInv
  <1>3. Len(s) = nbits
    BY <1>2, Counted
  <1>4. ASSUME NEW k \in 1..nbits PROVE result[k - 1] = wire[k].tdo
    <2>1. k - 1 \in Nat /\ k - 1 < nbits /\ k \in 1..Len(wire)
      BY <1>2
    <2>2. k - 1 \in BitsOf(nbits)
      BY <1>2, <2>1, Padding
    <2>3. result[k - 1] = tap[k - 1]
      BY <1>2, <2>1, <2>2 DEF Inv, SampleInv
    <2>4. wire[k].tdo = tap[k - 1]
      BY <2>1 DEF Inv, SampleInv
    <2> QED
      BY <2>3, <2>4
  <1>5. r = [k \in 1..Len(s) |-> wire[k].tdo]
    BY <1>3, <1>4
  <1>6. s' = s /\ d' = d /\ r' = r
    BY <1>1
  <1> QED
    BY <1>1, <1>2, <1>3, <1>5, <1>6 DEF Contract!Return

(* FTDIDevice::shift keeps the promise of XVCDriver::shift for vectors of  *)
(* any length and content and buffers of any size, over a chip that takes  *)
(* TMS low again after a command that wrote it (lines 195 to 381).         *)
THEOREM Implementation ==
  ASSUME TmsHeld = FALSE
  PROVE  Spec => ImplementsShift
  <1>1. ASSUME Inv, Inv', [Next]_vars PROVE [Contract!Next]_Contract!vars
    <2>1. CASE UNCHANGED vars
      BY <2>1 DEF vars, argVars, chipVars, Contract!vars
    <2>2. CASE Call
      BY <1>1, <2>2, CallImplements DEF Contract!Next
    <2>3. CASE Return
      BY <1>1, <2>3, ReturnImplements DEF Contract!Next
    <2>4. CASE ChipClock
      BY <1>1, <2>4, ClockImplements DEF Contract!Next
    <2>5. CASE StartRound \/ AddByte \/ AddBits \/ AddTms \/ Send \/ ReadAnswers \/ Unpack
      BY <1>1, <2>5, UnseenSteps
    <2> QED
      BY <1>1, <2>1, <2>2, <2>3, <2>4, <2>5 DEF Next, Driver
  <1> QED
    BY <1>1, InitImplements, Invariance, PTL DEF Spec, ImplementsShift, Contract!Spec
=============================================================================
