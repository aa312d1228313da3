------------------------ MODULE AXICalibratorProofs ------------------------
(***************************************************************************)
(* Proofs about AXICalibrator::start(), for every number of divisors and   *)
(* delays, every hysteresis, and whatever the probes return.               *)
(***************************************************************************)
EXTENDS AXICalibrator, SetupProofs

SettingOf(item) == [div |-> item.div, del |-> item.del]

(* What the properties say of an item, of the delays measured, ey, and of  *)
(* the hysteresis, hy.                                                     *)
Near(ey, item) == {item.del, item.del + 1} \cap ey[item.div] # {}
Window(ey, item) ==
    \E first \in ey[item.div] :
        LET last == first + item.valid - 1 IN
        /\ first <= last /\ first..last \subseteq ey[item.div]
        /\ item.del = (first + last) \div 2

Sound(hy, ey, item) ==
    /\ item \in [id : Int, div : 0..MaxDiv, del : 0..(MaxDelay - 1), freq : Nat, valid : 0..(MaxDelay + 1)]
    /\ item.freq = Frequency(item.div)
    /\ Near(ey, item)
    /\ hy = 0 => Window(ey, item)

(* The window that is open holds what was measured, but for its first      *)
(* point with hysteresis; before it opens, h counts the last successes.    *)
Open ==
    /\ maxDelay = cdel - 1 /\ maxDelay \in 0..MaxDelay - 1 /\ minDelay \in -1..maxDelay
    /\ hyst = 0 => minDelay \in eye[cdiv]
    /\ minDelay + 1..maxDelay \subseteq eye[cdiv] /\ maxDelay \in eye[cdiv]
    /\ validPoints = maxDelay - minDelay + 1

SweepInv ==
    pc \in {"probe", "swept"} =>
        /\ h <= cdel
        /\ record => Open
        /\ ~record => minDelay = -1 /\ maxDelay = -1 /\ validPoints = 0
        /\ pc = "probe" /\ minDelay = -1 => cdel - h..cdel - 1 \subseteq eye[cdiv]

(* The items are in the order of their divisors, those of the sweep are    *)
(* numbered by their place.                                                *)
ItemsInv ==
    /\ \A i \in 1..Len(setup) : Sound(hyst, eye, setup[i])
    /\ \A i, j \in 1..Len(setup) : i < j => setup[i].div < setup[j].div
    /\ Len(setup) <= MaxDiv + 1
    /\ pc \in {"probe", "swept"} =>
         /\ numEntry <= Len(setup) /\ Len(setup) <= cdiv
         /\ \A i \in 1..Len(setup) : setup[i].div < cdiv
    /\ pc \in {"probe", "swept", "item", "pattern"} => \A i \in 1..Len(setup) : setup[i].id = i - 1

(* The items that failed are the first ones, and the next one is the one   *)
(* that passed, or is tried.                                               *)
Failed == Len(badList)
HardInv ==
    /\ pc \in {"probe", "swept"} => index = 0 /\ ~goodItem /\ badList = <<>>
    /\ pc = "item" => index = IF goodItem THEN Failed + 1 ELSE Failed
    /\ pc = "pattern" => goodItem /\ index = Failed
    /\ pc = "done" => badList = <<>>
    /\ Failed <= Len(setup)
    /\ pc \in {"delete", "done"} /\ ~goodItem => Failed = Len(setup)
    /\ goodItem => Failed < Len(setup) /\ dev = SettingOf(setup[Failed + 1])
    /\ \A k \in 1..Failed : badList[k] = setup[k].id

CalibInv == TypeOK /\ SweepInv /\ ItemsInv /\ HardInv
-----------------------------------------------------------------------------
(* Arithmetic.                                                             *)

LEMMA HalfIs ==
  ASSUME NEW n \in Int, n >= -1
  PROVE  Half(n) = IF n = -1 THEN 0 ELSE n \div 2
<1>1. CASE n = -1
  <2>1. Half(n) = -(1 \div 2) /\ 1 \div 2 = 0
    BY <1>1 DEF Half
  <2> QED
    BY <1>1, <2>1
<1>2. CASE n # -1
  <2>1. ~(n < 0)
    BY <1>2
  <2> QED
    BY <1>2, <2>1 DEF Half
<1> QED
  BY <1>1, <1>2

(* A greater divisor is no faster. *)
LEMMA FrequencyFalls ==
  ASSUME NEW x \in Nat, NEW y \in Nat, x <= y
  PROVE  Frequency(x) \in Nat /\ Frequency(y) <= Frequency(x)
<1> DEFINE a == 100000000
           b == (x + 1) * 2
           c == (y + 1) * 2
<1>1. a \in Nat /\ b \in Nat \ {0} /\ c \in Nat /\ b <= c
  BY SMT
<1>2. Frequency(x) = a \div b /\ Frequency(y) = a \div c
  BY SMT DEF Frequency
<1> HIDE DEF a, b, c
<1>3. a \div b \in Nat /\ a \div c <= a \div b
  BY <1>1, Quotients
<1> QED
  BY <1>2, <1>3
-----------------------------------------------------------------------------
(* The sweep.                                                              *)

(* Nothing else of the state changes what is said of an item. *)
LEMMA SoundKept ==
  ASSUME NEW hy, NEW ey, NEW ez, NEW item, Sound(hy, ey, item), ez[item.div] = ey[item.div]
  PROVE  Sound(hy, ez, item)
BY DEF Sound, Near, Window

LEMMA ItemsSound ==
  ASSUME TypeOK, ItemsInv, UNCHANGED <<setup, hyst>>,
         \A d \in 0..MaxDiv : d # cdiv => eye'[d] = eye[d],
         \A i \in 1..Len(setup) : setup[i].div # cdiv
  PROVE  \A i \in 1..Len(setup') : Sound(hyst', eye', setup'[i])
<1> SUFFICES ASSUME NEW i \in 1..Len(setup) PROVE Sound(hyst, eye', setup[i])
  OBVIOUS
<1>1. Sound(hyst, eye, setup[i])
  BY DEF ItemsInv
<1>2. setup[i].div \in 0..MaxDiv
  BY <1>1 DEF Sound
<1>3. eye'[setup[i].div] = eye[setup[i].div]
  BY <1>2
<1> QED
  BY <1>1, <1>3, SoundKept

(* What a success does to the window. *)
LEMMA ProbeOkWindow ==
  ASSUME TypeOK, SweepInv, ProbeOk
  PROVE  /\ SweepInv'
         /\ minDelay' \in -1..(MaxDelay - 1) /\ maxDelay' \in -1..(MaxDelay - 1)
         /\ validPoints' \in 0..(MaxDelay + 1) /\ h' \in 0..MaxDelay /\ record' \in BOOLEAN
<1> DEFINE E == eye[cdiv]
           opens == minDelay = -1 /\ h + 1 >= hyst
           points == IF opens THEN hyst ELSE validPoints
<1>1. /\ pc = "probe" /\ cdel \in Nat /\ cdel < MaxDelay /\ MaxDelay \in Nat \ {0}
      /\ h \in 0..MaxDelay /\ h <= cdel /\ hyst \in Nat
      /\ minDelay \in -1..MaxDelay - 1 /\ maxDelay \in -1..MaxDelay - 1
      /\ validPoints \in 0..MaxDelay + 1 /\ record \in BOOLEAN
  BY SweepAssumption, OptionAssumption DEF ProbeOk, Swept, TypeOK, SweepInv
<1>2. /\ pc' = pc /\ cdel' = cdel + 1 /\ cdiv' = cdiv /\ hyst' = hyst
      /\ h' = IF minDelay = -1 THEN h + 1 ELSE h
      /\ minDelay' = IF opens THEN cdel - hyst ELSE minDelay
      /\ record' = (record \/ opens)
      /\ maxDelay' = IF record' THEN cdel ELSE maxDelay
      /\ validPoints' = IF record' THEN points + 1 ELSE points
  BY DEF ProbeOk, argVars
<1>3. eye'[cdiv] = E \cup {cdel} /\ E \subseteq 0..MaxDelay - 1
  BY DEF ProbeOk, TypeOK
<1>4. /\ record => Open
      /\ ~record => minDelay = -1 /\ maxDelay = -1 /\ validPoints = 0
      /\ minDelay = -1 => cdel - h..cdel - 1 \subseteq E
  BY <1>1 DEF SweepInv
<1> HIDE DEF E
<1>5. CASE opens
  <2>1. /\ minDelay' = cdel - hyst /\ record' = TRUE /\ maxDelay' = cdel
        /\ validPoints' = hyst + 1 /\ h' = h + 1
    BY <1>2, <1>5
  <2>2. cdel - hyst \in -1..cdel
    BY <1>1, <1>5
  <2>3. (cdel - hyst) + 1..cdel \subseteq E \cup {cdel}
    <3>1. ASSUME NEW x \in (cdel - hyst) + 1..cdel PROVE x \in E \cup {cdel}
      <4>1. x = cdel \/ x \in cdel - h..cdel - 1
        BY <1>1, <1>5, <2>2
      <4> QED
        BY <1>4, <1>5, <4>1
    <3> QED
      BY <3>1
  <2>4. minDelay' = -1 => (cdel + 1) - (h + 1)..(cdel + 1) - 1 \subseteq E \cup {cdel}
    <3>1. ASSUME NEW x \in (cdel + 1) - (h + 1)..(cdel + 1) - 1 PROVE x \in E \cup {cdel}
      <4>1. x = cdel \/ x \in cdel - h..cdel - 1
        BY <1>1
      <4> QED
        BY <1>4, <1>5, <4>1
    <3> QED
      BY <3>1
  <2>5. hyst = 0 => cdel - hyst = cdel
    BY <1>1
  <2>6. Open'
    <3>1. validPoints' = maxDelay' - minDelay' + 1
      BY <1>1, <2>1
    <3>2. maxDelay' = cdel' - 1 /\ maxDelay' \in 0..MaxDelay - 1
      BY <1>1, <1>2, <2>1
    <3>3. minDelay' \in -1..maxDelay'
      BY <2>1, <2>2
    <3>4. hyst' = 0 => minDelay' \in eye'[cdiv']
      BY <1>2, <1>3, <2>1, <2>5
    <3>5. minDelay' + 1..maxDelay' \subseteq eye'[cdiv'] /\ maxDelay' \in eye'[cdiv']
      BY <1>2, <1>3, <2>1, <2>3
    <3> QED
      BY <3>1, <3>2, <3>3, <3>4, <3>5 DEF Open
  <2>7. SweepInv'
    <3>1. h' <= cdel'
      BY <1>1, <1>2, <2>1
    <3>2. minDelay' = -1 => cdel' - h'..cdel' - 1 \subseteq eye'[cdiv']
      BY <1>2, <1>3, <2>1, <2>4
    <3> QED
      BY <2>1, <2>6, <3>1, <3>2 DEF SweepInv
  <2>8. /\ minDelay' \in -1..(MaxDelay - 1) /\ maxDelay' \in -1..(MaxDelay - 1)
        /\ validPoints' \in 0..(MaxDelay + 1) /\ h' \in 0..MaxDelay /\ record' \in BOOLEAN
    BY <1>1, <2>1, <2>2
  <2> QED
    BY <2>7, <2>8
<1>6. CASE ~opens /\ record
  <2>1. /\ minDelay' = minDelay /\ record' = TRUE /\ maxDelay' = cdel
        /\ validPoints' = validPoints + 1 /\ h' = IF minDelay = -1 THEN h + 1 ELSE h
    BY <1>2, <1>6
  <2>2. /\ maxDelay = cdel - 1 /\ minDelay \in -1..maxDelay /\ (hyst = 0 => minDelay \in E)
        /\ minDelay + 1..maxDelay \subseteq E /\ validPoints = maxDelay - minDelay + 1
    BY <1>4, <1>6 DEF Open, E
  <2>3. minDelay + 1..cdel \subseteq E \cup {cdel}
    <3>1. ASSUME NEW x \in minDelay + 1..cdel PROVE x \in E \cup {cdel}
      <4>1. x = cdel \/ x \in minDelay + 1..maxDelay
        BY <1>1, <2>2
      <4> QED
        BY <2>2, <4>1
    <3> QED
      BY <3>1
  <2>4. minDelay = -1 => (cdel + 1) - (h + 1)..(cdel + 1) - 1 \subseteq E \cup {cdel}
    <3>1. ASSUME minDelay = -1, NEW x \in (cdel + 1) - (h + 1)..(cdel + 1) - 1
          PROVE  x \in E \cup {cdel}
      <4>1. x = cdel \/ x \in cdel - h..cdel - 1
        BY <1>1
      <4> QED
        BY <1>4, <3>1, <4>1
    <3> QED
      BY <3>1
  <2>6. Open'
    <3>1. validPoints' = maxDelay' - minDelay' + 1
      BY <1>1, <2>1, <2>2
    <3>2. maxDelay' = cdel' - 1 /\ maxDelay' \in 0..MaxDelay - 1
      BY <1>1, <1>2, <2>1
    <3>3. minDelay' \in -1..maxDelay'
      BY <1>1, <2>1, <2>2
    <3>4. hyst' = 0 => minDelay' \in eye'[cdiv']
      BY <1>2, <1>3, <2>1, <2>2
    <3>5. minDelay' + 1..maxDelay' \subseteq eye'[cdiv'] /\ maxDelay' \in eye'[cdiv']
      BY <1>2, <1>3, <2>1, <2>3
    <3> QED
      BY <3>1, <3>2, <3>3, <3>4, <3>5 DEF Open
  <2>7. SweepInv'
    <3>1. h' <= cdel'
      BY <1>1, <1>2, <2>1
    <3>2. minDelay' = -1 => cdel' - h'..cdel' - 1 \subseteq eye'[cdiv']
      BY <1>2, <1>3, <2>1, <2>4
    <3> QED
      BY <2>1, <2>6, <3>1, <3>2 DEF SweepInv
  <2>8. /\ minDelay' \in -1..(MaxDelay - 1) /\ maxDelay' \in -1..(MaxDelay - 1)
        /\ validPoints' \in 0..(MaxDelay + 1) /\ h' \in 0..MaxDelay /\ record' \in BOOLEAN
    BY <1>1, <2>1, <2>2
  <2> QED
    BY <2>7, <2>8
<1>7. CASE ~opens /\ ~record
  <2>1. /\ minDelay' = -1 /\ record' = FALSE /\ maxDelay' = -1
        /\ validPoints' = 0 /\ h' = h + 1
    BY <1>2, <1>4, <1>7
  <2>4. (cdel + 1) - (h + 1)..(cdel + 1) - 1 \subseteq E \cup {cdel}
    <3>1. ASSUME NEW x \in (cdel + 1) - (h + 1)..(cdel + 1) - 1 PROVE x \in E \cup {cdel}
      <4>1. x = cdel \/ x \in cdel - h..cdel - 1
        BY <1>1
      <4> QED
        BY <1>4, <1>7, <4>1
    <3> QED
      BY <3>1
  <2>7. SweepInv'
    <3>1. h' <= cdel'
      BY <1>1, <1>2, <2>1
    <3>2. minDelay' = -1 => cdel' - h'..cdel' - 1 \subseteq eye'[cdiv']
      BY <1>2, <1>3, <2>1, <2>4
    <3> QED
      BY <2>1, <3>1, <3>2 DEF SweepInv
  <2>8. /\ minDelay' \in -1..(MaxDelay - 1) /\ maxDelay' \in -1..(MaxDelay - 1)
        /\ validPoints' \in 0..(MaxDelay + 1) /\ h' \in 0..MaxDelay /\ record' \in BOOLEAN
    <3>1. h + 1 \in 0..MaxDelay /\ -1 \in -1..(MaxDelay - 1) /\ 0 \in 0..(MaxDelay + 1)
      BY <1>1
    <3> QED
      BY <2>1, <3>1
  <2> QED
    BY <2>7, <2>8
<1> QED
  BY <1>1, <1>5, <1>6, <1>7

LEMMA ProbeOkKeeps == CalibInv /\ ProbeOk => CalibInv'
<1> SUFFICES ASSUME CalibInv, ProbeOk PROVE CalibInv'
  OBVIOUS
<1>1. /\ pc = "probe" /\ cdel \in Nat /\ cdel < MaxDelay
      /\ dev' = [div |-> cdiv, del |-> cdel]
      /\ eye' = [eye EXCEPT ![cdiv] = @ \cup {cdel}] /\ cdel' = cdel + 1
      /\ UNCHANGED <<hyst, calibSize, pc, cdiv, numEntry, index, goodItem, badList, pattern, setup>>
  <2>1. cdel \in Nat /\ MaxDelay \in Nat
    BY SweepAssumption DEF CalibInv, TypeOK
  <2> QED
    BY <2>1 DEF ProbeOk, Swept, argVars, itemVars
<1>2. /\ SweepInv'
      /\ minDelay' \in -1..(MaxDelay - 1) /\ maxDelay' \in -1..(MaxDelay - 1)
      /\ validPoints' \in 0..(MaxDelay + 1) /\ h' \in 0..MaxDelay /\ record' \in BOOLEAN
  BY ProbeOkWindow DEF CalibInv
<1>3. TypeOK'
  <2>1. cdel \in 0..MaxDelay - 1 /\ cdel + 1 \in Nat
    BY <1>1, SweepAssumption
  <2>2. dev' \in [div : 0..MaxDiv, del : 0..(MaxDelay - 1)] /\ cdel' \in Nat
    BY <1>1, <2>1 DEF CalibInv, TypeOK
  <2>3. eye' \in [0..MaxDiv -> SUBSET (0..(MaxDelay - 1))]
    BY <1>1, <2>1 DEF CalibInv, TypeOK
  <2> QED
    BY <1>1, <1>2, <2>2, <2>3 DEF CalibInv, TypeOK
<1>4. ItemsInv'
  <2>1. \A d \in 0..MaxDiv : d # cdiv => eye'[d] = eye[d]
    BY <1>1 DEF CalibInv, TypeOK
  <2>2. \A i \in 1..Len(setup) : setup[i].div # cdiv
    <3>1. \A i \in 1..Len(setup) : setup[i].div < cdiv
      BY <1>1 DEF CalibInv, ItemsInv
    <3>2. cdiv \in Nat
      BY SweepAssumption DEF CalibInv, TypeOK
    <3> QED
      BY <3>1, <3>2
  <2>3. \A i \in 1..Len(setup') : Sound(hyst', eye', setup'[i])
    BY <1>1, <2>1, <2>2, ItemsSound DEF CalibInv
  <2> QED
    BY <1>1, <2>3 DEF CalibInv, ItemsInv
<1>5. HardInv'
  BY <1>1 DEF CalibInv, HardInv, Failed
<1> QED
  BY <1>2, <1>3, <1>4, <1>5 DEF CalibInv

LEMMA ProbeFailsKeeps == CalibInv /\ ProbeFails => CalibInv'
<1> SUFFICES ASSUME CalibInv, ProbeFails PROVE CalibInv'
  OBVIOUS
<1>1. /\ pc = "probe" /\ cdel \in Nat /\ cdel < MaxDelay /\ h' = 0
      /\ dev' = [div |-> cdiv, del |-> cdel]
      /\ IF record THEN pc' = "swept" /\ cdel' = cdel ELSE cdel' = cdel + 1 /\ pc' = pc
      /\ UNCHANGED <<hyst, calibSize, cdiv, minDelay, maxDelay, validPoints, record, numEntry, eye,
                     index, goodItem, badList, pattern, setup>>
  <2>1. cdel \in Nat /\ MaxDelay \in Nat
    BY SweepAssumption DEF CalibInv, TypeOK
  <2> QED
    BY <2>1 DEF ProbeFails, Swept, argVars, itemVars
<1>2. pc' \in {"probe", "swept"} /\ cdel' \in Nat /\ 0 <= cdel' /\ record \in BOOLEAN
  BY <1>1 DEF CalibInv, TypeOK
<1>3. TypeOK'
  <2>1. cdel \in 0..MaxDelay - 1 /\ 0 \in 0..MaxDelay
    BY <1>1, SweepAssumption
  <2>2. dev' \in [div : 0..MaxDiv, del : 0..(MaxDelay - 1)]
    BY <1>1, <2>1 DEF CalibInv, TypeOK
  <2>3. index' \in 0..Len(setup')
    BY <1>1 DEF CalibInv, TypeOK
  <2> QED
    BY <1>1, <1>2, <2>1, <2>2, <2>3 DEF CalibInv, TypeOK
<1>4. SweepInv'
  <2>1. CASE record
    BY <1>1, <1>2, <2>1 DEF CalibInv, SweepInv, Open
  <2>2. CASE ~record
    <3>1. cdel' - h'..cdel' - 1 = {}
      <4>1. h' = 0 /\ cdel' \in Nat
        BY <1>1, <1>2
      <4> DEFINE x == cdel'
      <4> HIDE DEF x
      <4>2. x \in Nat => x - 0..x - 1 = {}
        OBVIOUS
      <4> QED
        BY <4>1, <4>2 DEF x
    <3>2. minDelay = -1 /\ maxDelay = -1 /\ validPoints = 0
      BY <1>1, <2>2 DEF CalibInv, SweepInv
    <3> QED
      BY <1>1, <1>2, <2>2, <3>1, <3>2 DEF SweepInv
  <2> QED
    BY <1>2, <2>1, <2>2
<1>5. ItemsInv'
  BY <1>1, <1>2 DEF CalibInv, ItemsInv
<1>6. HardInv'
  BY <1>1, <1>2 DEF CalibInv, HardInv, Failed
<1> QED
  BY <1>3, <1>4, <1>5, <1>6 DEF CalibInv

LEMMA SweepEndsKeeps == CalibInv /\ SweepEnds => CalibInv'
<1> SUFFICES ASSUME CalibInv, SweepEnds PROVE CalibInv'
  OBVIOUS
<1>1. /\ pc = "probe" /\ pc' = "swept"
      /\ UNCHANGED <<argVars, sweepVars, itemVars, setup, dev>>
  BY DEF SweepEnds
<1>2. TypeOK'
  BY <1>1 DEF CalibInv, TypeOK, argVars, sweepVars, itemVars
<1>3. SweepInv'
  BY <1>1 DEF CalibInv, SweepInv, Open, argVars, sweepVars
<1>4. ItemsInv'
  BY <1>1 DEF CalibInv, ItemsInv, argVars, sweepVars
<1>5. HardInv'
  BY <1>1 DEF CalibInv, HardInv, Failed, itemVars
<1> QED
  BY <1>2, <1>3, <1>4, <1>5 DEF CalibInv

(* The centre of a window lies in it, or one step below it. *)
LEMMA Centre ==
  ASSUME NEW mn \in Int, NEW mx \in Nat, NEW m \in Nat, mx < m, mn \in -1..mx,
         NEW E, mx \in E, mn + 1..mx \subseteq E
  PROVE  LET del == Half(mx + mn) IN del \in 0..m - 1 /\ {del, del + 1} \cap E # {}
<1> DEFINE del == Half(mx + mn)
<1>1. del = IF mx + mn = -1 THEN 0 ELSE (mx + mn) \div 2
  BY HalfIs
<1>2. CASE mx + mn = -1
  <2>1. mx = 0 /\ del = 0
    BY <1>1, <1>2
  <2> QED
    BY <2>1
<1>3. CASE mx + mn # -1 /\ mn = mx
  <2>1. del = mx
    BY <1>1, <1>3
  <2> QED
    BY <2>1
<1>4. CASE mx + mn # -1 /\ mn # mx
  <2>1. del = (mx + mn) \div 2 /\ mx + mn >= 0 /\ mn < mx
    BY <1>1, <1>4
  <2> HIDE DEF del
  <2>3. \A t \in Nat : t \div 2 \in Nat /\ 2 * (t \div 2) <= t /\ t <= 2 * (t \div 2) + 1
    OBVIOUS
  <2>4. del \in Nat /\ 2 * del <= mx + mn /\ mx + mn <= 2 * del + 1
    BY <2>1, <2>3
  <2>2. del \in 0..mx - 1 /\ del + 1 \in mn + 1..mx
    <3>1. mn < mx
      BY <2>1
    <3>2. del <= mx - 1 /\ mn <= del
      BY <2>4, <3>1
    <3> QED
      BY <2>4, <3>2
  <2>5. del \in 0..m - 1 /\ {del, del + 1} \cap E # {}
    BY <2>2
  <2> QED
    BY <2>5 DEF del
<1> QED
  BY <1>2, <1>3, <1>4

LEMMA NewItemSound ==
  ASSUME CalibInv, pc = "swept", Accepted
  PROVE  /\ Sound(hyst, eye, NewItem) /\ NewItem \in Item
         /\ NewItem.div = cdiv /\ NewItem.id = Len(setup)
<1> DEFINE E == eye[cdiv]
           del == Half(maxDelay + minDelay)
<1>1. /\ Open /\ cdiv \in 0..MaxDiv /\ cdiv \in Nat /\ MaxDelay \in Nat \ {0} /\ MaxDiv \in Nat
      /\ E \subseteq 0..MaxDelay - 1 /\ minDelay \in Int /\ maxDelay \in Nat
      /\ validPoints \in 0..(MaxDelay + 1)
      /\ Len(setup) \in Nat /\ Len(setup) <= cdiv
  BY SweepAssumption DEF CalibInv, SweepInv, ItemsInv, TypeOK, Accepted, Open
<1>2. /\ maxDelay < MaxDelay /\ minDelay \in -1..maxDelay /\ maxDelay \in E
      /\ minDelay + 1..maxDelay \subseteq E /\ (hyst = 0 => minDelay \in E)
      /\ validPoints = maxDelay - minDelay + 1
  BY <1>1 DEF Open
<1> HIDE DEF E
<1>3. del \in 0..MaxDelay - 1 /\ {del, del + 1} \cap E # {}
  BY <1>1, <1>2, Centre
<1>4. ASSUME hyst = 0
      PROVE  /\ minDelay <= maxDelay /\ minDelay..maxDelay \subseteq E
             /\ minDelay + validPoints - 1 = maxDelay
             /\ del = (minDelay + maxDelay) \div 2
  <2>1. minDelay \in E /\ minDelay \in Nat
    BY <1>1, <1>2, <1>4
  <2>2. ASSUME NEW x \in minDelay..maxDelay PROVE x \in E
    <3>1. x = minDelay \/ x \in minDelay + 1..maxDelay
      BY <1>1
    <3> QED
      BY <1>2, <2>1, <3>1
  <2>3. del = (maxDelay + minDelay) \div 2
    BY <1>1, <2>1, HalfIs
  <2> QED
    BY <1>1, <1>2, <2>1, <2>2, <2>3
<1>5. Frequency(cdiv) \in Nat
  BY <1>1, FrequencyFalls
<1> HIDE DEF del
<1>6. /\ NewItem.id = Len(setup) /\ NewItem.div = cdiv /\ NewItem.del = del
      /\ NewItem.freq = Frequency(cdiv) /\ NewItem.valid = validPoints
      /\ NewItem = [id |-> Len(setup), div |-> cdiv, del |-> del, freq |-> Frequency(cdiv), valid |-> validPoints]
  BY DEF NewItem, del
<1>7. Len(setup) \in 0..MaxDiv
  BY <1>1
<1>8. NewItem \in Item
  BY <1>1, <1>3, <1>5, <1>6, <1>7 DEF Item
<1>9. Near(eye, NewItem)
  BY <1>3, <1>6 DEF Near, E
<1>10. hyst = 0 => Window(eye, NewItem)
  BY <1>1, <1>2, <1>4, <1>6 DEF Window, E
<1>11. Sound(hyst, eye, NewItem)
  BY <1>6, <1>7, <1>8, <1>9, <1>10 DEF Sound, Item
<1> QED
  BY <1>6, <1>8, <1>11

(* The list after a divisor: its item is the last one. *)
LEMMA NextDivisorItems ==
  ASSUME CalibInv, NextDivisor
  PROVE  /\ setup' \in Seq(Item) /\ Len(setup') <= cdiv + 1
         /\ eye' \in [0..MaxDiv -> SUBSET (0..(MaxDelay - 1))]
         /\ numEntry' \in 0..MaxDiv + 1 /\ numEntry' <= Len(setup')
         /\ \A i \in 1..Len(setup') :
              /\ Sound(hyst, eye', setup'[i]) /\ setup'[i].div < cdiv + 1
              /\ setup'[i].id = i - 1
         /\ \A i, j \in 1..Len(setup') : i < j => setup'[i].div < setup'[j].div
<1> DEFINE n == Len(setup)
<1>1. /\ pc = "swept" /\ cdiv \in 0..MaxDiv /\ cdiv \in Nat /\ MaxDiv \in Nat /\ n \in Nat /\ n <= cdiv
      /\ setup \in Seq(Item) /\ numEntry \in Nat /\ numEntry <= n
      /\ \A i \in 1..n : setup[i].div < cdiv
      /\ \A i \in 1..n : setup[i].id = i - 1
      /\ \A i, j \in 1..n : i < j => setup[i].div < setup[j].div
      /\ eye \in [0..MaxDiv -> SUBSET (0..(MaxDelay - 1))]
  BY SweepAssumption, LenProperties DEF NextDivisor, CalibInv, TypeOK, ItemsInv
<1>2. /\ setup' = IF Accepted THEN Append(setup, NewItem) ELSE setup
      /\ numEntry' = IF Accepted /\ calibSize > 0 THEN numEntry + 1 ELSE numEntry
      /\ eye' = IF Accepted THEN eye ELSE [eye EXCEPT ![cdiv] = {}]
      /\ hyst' = hyst
  BY DEF NextDivisor, AddItem, argVars
<1>3. ASSUME NEW i \in 1..n PROVE setup[i].div \in Nat /\ Sound(hyst, eye, setup[i]) /\ setup[i].div \in 0..MaxDiv
  <2>1. Sound(hyst, eye, setup[i])
    BY DEF CalibInv, ItemsInv
  <2>2. setup[i].div \in 0..MaxDiv
    BY <2>1 DEF Sound
  <2> QED
    BY <2>1, <2>2
<1>4. CASE Accepted
  <2>1. PICK it : it = NewItem
    OBVIOUS
  <2>2. Sound(hyst, eye, it) /\ it \in Item /\ it.div = cdiv /\ it.id = n
    BY <1>1, <1>4, <2>1, NewItemSound
  <2>3. setup' = Append(setup, it)
    BY <1>2, <1>4, <2>1
  <2>4. /\ setup' \in Seq(Item) /\ Len(setup') = n + 1 /\ setup'[n + 1] = it
        /\ \A i \in 1..n : setup'[i] = setup[i]
    BY <1>1, <2>2, <2>3, AppendProperties
  <2>5. eye' = eye /\ numEntry' \in {numEntry, numEntry + 1}
    BY <1>2, <1>4
  <2>6. ASSUME NEW i \in 1..n + 1
        PROVE  /\ Sound(hyst, eye', setup'[i]) /\ setup'[i].div < cdiv + 1
               /\ setup'[i].id = i - 1
    <3>1. CASE i = n + 1
      <4>1. setup'[i] = it /\ Sound(hyst, eye', it)
        BY <2>2, <2>4, <2>5, <3>1
      <4>2. cdiv < cdiv + 1 /\ n = i - 1
        BY <1>1, <3>1
      <4>3. it.div < cdiv + 1 /\ it.id = i - 1
        BY <2>2, <4>2
      <4> QED
        BY <4>1, <4>3
    <3>2. CASE i # n + 1
      <4>0. n \in Nat
        BY <1>1
      <4>1. i \in 1..n
        <5> HIDE DEF n
        <5> QED
          BY <3>2, <4>0
      <4>2. setup'[i] = setup[i] /\ setup[i].div \in Nat /\ setup[i].div < cdiv /\ setup[i].id = i - 1
        BY <1>1, <1>3, <2>4, <4>1
      <4>3. Sound(hyst, eye', setup'[i])
        BY <1>3, <2>5, <4>1, <4>2
      <4> QED
        BY <1>1, <4>2, <4>3
    <3> QED
      BY <3>1, <3>2
  <2>7. ASSUME NEW i \in 1..n + 1, NEW j \in 1..n + 1, i < j PROVE setup'[i].div < setup'[j].div
    <3>1. i \in 1..n /\ setup'[i] = setup[i]
      BY <1>1, <2>4, <2>7
    <3>2. CASE j = n + 1
      <4>1. setup'[j].div = cdiv
        BY <2>2, <2>4, <3>2
      <4>2. setup[i].div < cdiv
        BY <1>1, <3>1
      <4> QED
        BY <3>1, <4>1, <4>2
    <3>3. CASE j # n + 1
      <4>1. j \in 1..n /\ setup'[j] = setup[j]
        BY <1>1, <2>4, <3>3
      <4>2. setup[i].div < setup[j].div
        BY <1>1, <2>7, <3>1, <4>1
      <4> QED
        BY <3>1, <4>1, <4>2
    <3> QED
      BY <3>2, <3>3
  <2>8. Len(setup') <= cdiv + 1 /\ numEntry' \in 0..MaxDiv + 1 /\ numEntry' <= Len(setup')
    BY <1>1, <2>4, <2>5
  <2> QED
    BY <1>1, <2>4, <2>5, <2>6, <2>7, <2>8
<1>5. CASE ~Accepted
  <2>1. setup' = setup /\ numEntry' = numEntry /\ eye' = [eye EXCEPT ![cdiv] = {}]
    BY <1>2, <1>5
  <2>2. ASSUME NEW i \in 1..n
        PROVE  /\ Sound(hyst, eye', setup'[i]) /\ setup'[i].div < cdiv + 1
               /\ setup'[i].id = i - 1
    <3>1. setup[i].div < cdiv /\ setup[i].div \in Nat /\ setup[i].div \in 0..MaxDiv
      BY <1>1, <1>3
    <3>2. setup[i].div # cdiv
      BY <1>1, <3>1
    <3>3. eye'[setup[i].div] = eye[setup[i].div]
      BY <1>1, <2>1, <3>1, <3>2
    <3>4. Sound(hyst, eye', setup[i])
      BY <1>3, <3>3, SoundKept
    <3>5. setup[i].div < cdiv + 1
      BY <1>1, <3>1
    <3> QED
      BY <1>1, <2>1, <3>4, <3>5
  <2>3. eye' \in [0..MaxDiv -> SUBSET (0..(MaxDelay - 1))]
    BY <1>1, <2>1
  <2>4. Len(setup') <= cdiv + 1 /\ numEntry' \in 0..MaxDiv + 1 /\ numEntry' <= Len(setup')
    BY <1>1, <2>1
  <2> QED
    BY <1>1, <2>1, <2>2, <2>3, <2>4
<1> QED
  BY <1>4, <1>5

LEMMA NextDivisorKeeps == CalibInv /\ NextDivisor => CalibInv'
<1> SUFFICES ASSUME CalibInv, NextDivisor PROVE CalibInv'
  OBVIOUS
<1>1. /\ pc = "swept" /\ cdiv \in 0..MaxDiv /\ MaxDiv \in Nat /\ MaxDelay \in Nat \ {0}
      /\ UNCHANGED <<hyst, calibSize, index, goodItem, badList, pattern>>
  BY SweepAssumption DEF NextDivisor, argVars, itemVars, CalibInv, TypeOK
<1>2. /\ setup' \in Seq(Item) /\ Len(setup') <= cdiv + 1
      /\ eye' \in [0..MaxDiv -> SUBSET (0..(MaxDelay - 1))]
      /\ numEntry' \in 0..MaxDiv + 1 /\ numEntry' <= Len(setup')
      /\ \A i \in 1..Len(setup') :
           /\ Sound(hyst, eye', setup'[i]) /\ setup'[i].div < cdiv + 1
           /\ setup'[i].id = i - 1
      /\ \A i, j \in 1..Len(setup') : i < j => setup'[i].div < setup'[j].div
  BY NextDivisorItems
<1>3. Len(setup') \in Nat
  BY <1>2, LenProperties
<1>4. index = 0 /\ ~goodItem /\ badList = <<>> /\ Len(badList) = 0
  BY <1>1 DEF CalibInv, HardInv
<1>5. HardInv' /\ index' \in 0..Len(setup')
  <2>1. pc' \in {"probe", "item"}
    BY DEF NextDivisor
  <2>2. Failed' = 0 /\ index' = 0 /\ ~goodItem' /\ badList' = <<>>
    BY <1>1, <1>4 DEF Failed
  <2> QED
    BY <1>3, <2>1, <2>2 DEF HardInv
<1>6. CASE pc' = "item"
  <2>1. UNCHANGED <<cdiv, cdel, minDelay, maxDelay, validPoints, h, record, dev>>
    BY <1>6 DEF NextDivisor
  <2>2. TypeOK'
    BY <1>1, <1>2, <1>5, <1>6, <2>1 DEF CalibInv, TypeOK
  <2>3. ItemsInv'
    <3>1. Len(setup') <= MaxDiv + 1
      BY <1>1, <1>2, <1>3
    <3> QED
      BY <1>1, <1>2, <1>6, <3>1 DEF ItemsInv
  <2>4. SweepInv'
    BY <1>6 DEF SweepInv
  <2> QED
    BY <1>5, <2>2, <2>3, <2>4 DEF CalibInv
<1>7. CASE pc' = "probe"
  <2>1. /\ cdiv # MaxDiv
        /\ cdiv' = cdiv + 1 /\ cdel' = (cdiv + 1) \div 2
        /\ minDelay' = -1 /\ maxDelay' = -1 /\ validPoints' = 0
        /\ h' = 0 /\ record' = FALSE
        /\ dev' = [dev EXCEPT !.div = cdiv + 1]
    BY <1>7 DEF NextDivisor
  <2>2. cdiv + 1 \in 0..MaxDiv /\ cdiv + 1 \in Nat /\ (cdiv + 1) \div 2 \in Nat
    BY <1>1, <2>1
  <2>3. TypeOK'
    <3>1. dev' \in [div : 0..MaxDiv, del : 0..(MaxDelay - 1)]
      BY <1>1, <2>1, <2>2 DEF CalibInv, TypeOK
    <3>2. /\ minDelay' \in -1..(MaxDelay - 1) /\ maxDelay' \in -1..(MaxDelay - 1)
          /\ validPoints' \in 0..(MaxDelay + 1) /\ h' \in 0..MaxDelay /\ record' \in BOOLEAN
      <4>1. MaxDelay \in Nat \ {0}
        BY <1>1
      <4>2. -1 \in -1..(MaxDelay - 1) /\ 0 \in 0..(MaxDelay + 1) /\ 0 \in 0..MaxDelay
        BY <4>1
      <4> QED
        BY <2>1, <4>2
    <3>3. cdiv' \in 0..MaxDiv /\ cdel' \in Nat
      BY <2>1, <2>2
    <3> QED
      BY <1>1, <1>2, <1>5, <1>7, <3>1, <3>2, <3>3 DEF CalibInv, TypeOK
  <2>4. ItemsInv'
    <3>1. Len(setup') <= MaxDiv + 1
      BY <1>1, <1>2, <1>3
    <3> QED
      BY <1>1, <1>2, <2>1, <3>1 DEF ItemsInv
  <2>5. SweepInv'
    <3>1. \A x \in Nat : x - 0..x - 1 = {} /\ 0 <= x
      OBVIOUS
    <3>2. cdel' \in Nat
      BY <2>1, <2>2
    <3>3. cdel' - 0..cdel' - 1 = {} /\ 0 <= cdel'
      BY <3>1, <3>2
    <3> QED
      BY <2>1, <3>3 DEF SweepInv
  <2> QED
    BY <1>5, <2>3, <2>4, <2>5 DEF CalibInv
<1> QED
  BY <1>6, <1>7 DEF NextDivisor

-----------------------------------------------------------------------------
(* The patterns.                                                           *)

(* What an action that leaves the sweep alone must still show. *)
LEMMA PhaseTwo ==
  ASSUME CalibInv, pc \in {"item", "pattern"}, pc' \in {"item", "pattern", "delete"},
         UNCHANGED <<argVars, sweepVars, setup>>,
         index' \in 0..Len(setup) \/ pc' = "delete", goodItem' \in BOOLEAN,
         badList' \in Seq(0..MaxDiv), pattern' \in Patterns,
         dev' \in [div : 0..MaxDiv, del : 0..(MaxDelay - 1)]
  PROVE  TypeOK' /\ SweepInv' /\ ItemsInv'
<1>1. TypeOK'
  BY DEF CalibInv, TypeOK, argVars, sweepVars
<1>2. SweepInv'
  BY DEF SweepInv
<1>3. ItemsInv'
  BY DEF CalibInv, ItemsInv, argVars, sweepVars
<1> QED
  BY <1>1, <1>2, <1>3

LEMMA Phase2Types ==
  ASSUME CalibInv
  PROVE  /\ Len(setup) \in Nat /\ Failed \in Nat /\ goodItem \in BOOLEAN
         /\ badList \in Seq(0..MaxDiv) /\ setup \in Seq(Item) /\ pattern \in Patterns
         /\ dev \in [div : 0..MaxDiv, del : 0..(MaxDelay - 1)]
         /\ \A i \in 1..Len(setup) : setup[i] \in Item /\ Sound(hyst, eye, setup[i])
<1>1. setup \in Seq(Item) /\ badList \in Seq(0..MaxDiv)
  BY DEF CalibInv, TypeOK
<1>2. Len(setup) \in Nat /\ Failed \in Nat /\ \A i \in 1..Len(setup) : setup[i] \in Item
  BY <1>1, LenProperties, ElementOfSeq DEF Failed
<1> QED
  BY <1>1, <1>2 DEF CalibInv, TypeOK, ItemsInv

LEMMA TryItemKeeps == CalibInv /\ TryItem => CalibInv'
<1> SUFFICES ASSUME CalibInv, TryItem PROVE CalibInv'
  OBVIOUS
<1>1. /\ pc = "item" /\ index < Len(setup) /\ ~goodItem
      /\ goodItem' = TRUE /\ pattern' = 1 /\ pc' = "pattern"
      /\ dev' = SettingOf(setup[index + 1])
      /\ UNCHANGED <<argVars, sweepVars, index, badList, setup>>
  BY DEF TryItem, SettingOf
<1>2. index = Failed
  BY <1>1 DEF CalibInv, HardInv
<1>3. Len(setup) \in Nat /\ index \in Nat
  BY <1>2, Phase2Types
<1>4. index + 1 \in 1..Len(setup) /\ index \in 0..Len(setup)
  BY <1>1, <1>3
<1>5. dev' \in [div : 0..MaxDiv, del : 0..(MaxDelay - 1)]
  <2>1. setup[index + 1] \in Item
    BY <1>4, Phase2Types
  <2> QED
    BY <1>1, <2>1 DEF Item, SettingOf
<1>6. TypeOK' /\ SweepInv' /\ ItemsInv'
  <2>1. 1 \in Patterns
    BY DEF Patterns
  <2> QED
    BY <1>1, <1>4, <1>5, <2>1, Phase2Types, PhaseTwo
<1>7. HardInv'
  <2>1. Failed' = Failed /\ Failed' < Len(setup') /\ dev' = SettingOf(setup'[Failed' + 1])
    BY <1>1, <1>2 DEF Failed
  <2> QED
    BY <1>1, <1>2, <2>1 DEF CalibInv, HardInv
<1> QED
  BY <1>6, <1>7 DEF CalibInv

LEMMA StopTryingKeeps == CalibInv /\ StopTrying => CalibInv'
<1> SUFFICES ASSUME CalibInv, StopTrying PROVE CalibInv'
  OBVIOUS
<1>1. /\ pc = "item" /\ (index >= Len(setup) \/ goodItem) /\ pc' = "delete"
      /\ UNCHANGED <<argVars, sweepVars, index, goodItem, badList, pattern, setup, dev>>
  BY DEF StopTrying, itemVars
<1>2. TypeOK' /\ SweepInv' /\ ItemsInv'
  BY <1>1, Phase2Types, PhaseTwo
<1>3. ~goodItem => Failed = Len(setup)
  <2>1. ASSUME ~goodItem PROVE Failed = Len(setup)
    <3>1. index = Failed /\ Failed <= Len(setup)
      BY <1>1, <2>1 DEF CalibInv, HardInv
    <3>2. Failed \in Nat /\ Len(setup) \in Nat
      BY Phase2Types
    <3>3. Failed >= Len(setup)
      BY <1>1, <2>1, <3>1
    <3> QED
      BY <3>1, <3>2, <3>3
  <2> QED
    BY <2>1
<1>4. HardInv'
  <2>1. Failed' = Failed
    BY <1>1 DEF Failed
  <2> QED
    BY <1>1, <1>3, <2>1 DEF CalibInv, HardInv
<1> QED
  BY <1>2, <1>4 DEF CalibInv

LEMMA PatternHoldsKeeps == CalibInv /\ PatternHolds => CalibInv'
<1> SUFFICES ASSUME CalibInv, PatternHolds PROVE CalibInv'
  OBVIOUS
<1>1. /\ pc = "pattern"
      /\ UNCHANGED <<argVars, sweepVars, goodItem, badList, setup, dev>>
      /\ \/ pattern < 3 /\ pattern' = pattern + 1 /\ pc' = pc /\ index' = index
         \/ pc' = "item" /\ index' = index + 1 /\ pattern' = pattern
  BY DEF PatternHolds
<1>2. goodItem /\ index = Failed /\ Failed < Len(setup)
  BY <1>1 DEF CalibInv, HardInv
<1>3. index \in Nat /\ index + 1 \in 0..Len(setup) /\ index \in 0..Len(setup)
  BY <1>2, Phase2Types
<1>4. pattern' \in Patterns
  <2>1. pattern \in Patterns
    BY Phase2Types
  <2> QED
    BY <1>1, <2>1 DEF Patterns
<1>5. TypeOK' /\ SweepInv' /\ ItemsInv'
  <2>1. index' \in 0..Len(setup) /\ pc' \in {"item", "pattern", "delete"}
    BY <1>1, <1>3
  <2> QED
    BY <1>1, <1>4, <2>1, Phase2Types, PhaseTwo
<1>6. HardInv'
  <2>1. Failed' = Failed
    BY <1>1 DEF Failed
  <2> QED
    BY <1>1, <1>2, <2>1 DEF CalibInv, HardInv
<1> QED
  BY <1>5, <1>6 DEF CalibInv

LEMMA PatternFailsKeeps == CalibInv /\ PatternFails => CalibInv'
<1> SUFFICES ASSUME CalibInv, PatternFails PROVE CalibInv'
  OBVIOUS
<1> DEFINE id == setup[index + 1].id
           n == Failed
<1>1. /\ pc = "pattern" /\ badList' = Append(badList, id)
      /\ goodItem' = FALSE /\ pc' = "item" /\ index' = index + 1
      /\ UNCHANGED <<argVars, sweepVars, pattern, setup, dev>>
  BY DEF PatternFails
<1>2. goodItem /\ index = n /\ n < Len(setup)
  BY <1>1 DEF CalibInv, HardInv
<1>3. n \in Nat /\ n + 1 \in 1..Len(setup) /\ n + 1 \in 0..Len(setup) /\ n + 1 <= Len(setup)
  BY <1>2, Phase2Types
<1>4. id \in 0..MaxDiv
  <2>1. setup[n + 1] \in Item
    BY <1>3, Phase2Types
  <2> QED
    BY <1>2, <2>1 DEF Item
<1>5. /\ badList' \in Seq(0..MaxDiv) /\ Len(badList') = n + 1
      /\ badList'[n + 1] = setup[n + 1].id /\ \A k \in 1..n : badList'[k] = badList[k]
  <2>1. badList \in Seq(0..MaxDiv) /\ n = Len(badList)
    BY Phase2Types DEF Failed
  <2> HIDE DEF id
  <2>2. /\ badList' \in Seq(0..MaxDiv) /\ Len(badList') = n + 1
        /\ badList'[n + 1] = id /\ \A k \in 1..n : badList'[k] = badList[k]
    <3> HIDE DEF n
    <3> QED
      BY <1>1, <1>4, <2>1, AppendProperties
  <2>3. id = setup[n + 1].id
    BY <1>2 DEF id
  <2> QED
    BY <2>2, <2>3
<1>6. TypeOK' /\ SweepInv' /\ ItemsInv'
  <2>1. index' \in 0..Len(setup)
    BY <1>1, <1>2, <1>3
  <2> QED
    BY <1>1, <1>5, <2>1, Phase2Types, PhaseTwo
<1>7. HardInv'
  <2>1. Failed' = n + 1
    BY <1>5 DEF Failed
  <2>2. ASSUME NEW k \in 1..n + 1 PROVE badList'[k] = setup[k].id
    <3>1. CASE k = n + 1
      BY <1>5, <3>1
    <3>2. CASE k # n + 1
      <4>1. k \in 1..n
        BY <1>3, <3>2
      <4>2. badList[k] = setup[k].id
        BY <4>1 DEF CalibInv, HardInv
      <4> QED
        BY <1>5, <4>1, <4>2
    <3> QED
      BY <3>1, <3>2
  <2> HIDE DEF n
  <2>3. Failed' <= Len(setup') /\ index' = Failed'
    BY <1>1, <1>2, <1>3, <2>1
  <2>4. \A k \in 1..Failed' : badList'[k] = setup'[k].id
    BY <1>1, <2>1, <2>2
  <2> QED
    BY <1>1, <2>3, <2>4 DEF HardInv
<1> QED
  BY <1>6, <1>7 DEF CalibInv

-----------------------------------------------------------------------------
(* The failed items go, and the rest is renumbered.                        *)

LEMMA DeleteFailedKeeps == CalibInv /\ DeleteFailed => CalibInv'
<1> SUFFICES ASSUME CalibInv, DeleteFailed PROVE CalibInv'
  OBVIOUS
<1> DEFINE n == Len(setup)
           m == Len(badList)
<1>1. /\ pc = "delete" /\ badList # <<>> /\ badList' = Tail(badList)
      /\ setup' = DelItemById(setup, Head(badList))
      /\ UNCHANGED <<argVars, pc, sweepVars, index, goodItem, pattern, dev>>
  BY DEF DeleteFailed
<1>2. badList \in Seq(0..MaxDiv) /\ setup \in Seq(Item) /\ n \in Nat /\ m \in Nat
  BY Phase2Types DEF Failed
<1>3. m \in Nat \ {0} /\ m <= n
  BY <1>1, <1>2, EmptySeq DEF CalibInv, HardInv, Failed
<1>4. setup # <<>> /\ setup[1].id = Head(badList)
  <2>1. Head(badList) = badList[1]
    BY <1>1, <1>2, HeadTailProperties
  <2>2. 1 \in 1..m
    BY <1>3
  <2>3. badList[1] = setup[1].id
    BY <2>2 DEF CalibInv, HardInv, Failed
  <2>4. n # 0
    BY <1>3
  <2> QED
    BY <2>1, <2>3, <2>4
<1>5. setup' = Tail(setup)
  <2> DEFINE id == Head(badList)
  <2>1. setup[1].id = id
    BY <1>4
  <2> HIDE DEF id
  <2>2. DelItemById(setup, id) = Tail(setup)
    BY <1>2, <1>4, <2>1, DelFirst
  <2> QED
    BY <1>1, <2>2 DEF id
<1>6. /\ setup' \in Seq(Item) /\ Len(setup') = n - 1
      /\ \A i \in 1..n - 1 : setup'[i] = setup[i + 1]
  BY <1>2, <1>4, <1>5, HeadTailProperties
<1>7. /\ badList' \in Seq(0..MaxDiv) /\ Len(badList') = m - 1
      /\ \A i \in 1..m - 1 : badList'[i] = badList[i + 1]
  BY <1>1, <1>2, HeadTailProperties
<1>8. TypeOK'
  BY <1>1, <1>6, <1>7 DEF CalibInv, TypeOK, argVars, sweepVars
<1>9. SweepInv'
  BY <1>1 DEF SweepInv
<1>10. ItemsInv'
  <2>1. ASSUME NEW i \in 1..n - 1 PROVE Sound(hyst', eye', setup'[i])
    <3>1. i + 1 \in 1..n
      BY <1>2
    <3>2. Sound(hyst, eye, setup[i + 1])
      BY <3>1, Phase2Types
    <3> QED
      BY <1>1, <1>6, <3>2 DEF argVars, sweepVars
  <2>2. ASSUME NEW i \in 1..n - 1, NEW j \in 1..n - 1, i < j
        PROVE  setup'[i].div < setup'[j].div
    <3>1. i + 1 \in 1..n /\ j + 1 \in 1..n /\ i + 1 < j + 1
      BY <1>2, <2>2
    <3>2. setup[i + 1].div < setup[j + 1].div
      BY <3>1 DEF CalibInv, ItemsInv
    <3> QED
      BY <1>6, <3>2
  <2>3. n - 1 <= MaxDiv + 1
    <3>1. n <= MaxDiv + 1 /\ MaxDiv \in Nat
      BY SweepAssumption DEF CalibInv, ItemsInv
    <3> QED
      BY <1>2, <3>1
  <2> QED
    BY <1>1, <1>6, <2>1, <2>2, <2>3 DEF ItemsInv
<1>11. HardInv'
  <2>1. Failed' = m - 1 /\ Failed' <= Len(setup')
    BY <1>2, <1>3, <1>6, <1>7 DEF Failed
  <2>2. ~goodItem => m = n
    BY <1>1 DEF CalibInv, HardInv, Failed
  <2>3. goodItem => m < n /\ dev = SettingOf(setup[m + 1])
    BY DEF CalibInv, HardInv, Failed
  <2>4. ~goodItem' => Failed' = Len(setup')
    BY <1>1, <1>6, <2>1, <2>2
  <2>5. goodItem' => Failed' < Len(setup') /\ dev' = SettingOf(setup'[Failed' + 1])
    <3>1. ASSUME goodItem PROVE m - 1 < n - 1 /\ setup'[m] = setup[m + 1] /\ (m - 1) + 1 = m
      <4>1. m \in 1..n - 1
        BY <1>2, <1>3, <2>3, <3>1
      <4> QED
        BY <1>2, <1>3, <1>6, <2>3, <3>1, <4>1
    <3> HIDE DEF m, n
    <3> QED
      BY <1>1, <1>6, <2>1, <2>3, <3>1
  <2>6. ASSUME NEW k \in 1..m - 1 PROVE badList'[k] = setup'[k].id
    <3>1. k \in 1..n - 1 /\ k + 1 \in 1..m
      BY <1>2, <1>3
    <3>2. badList[k + 1] = setup[k + 1].id
      BY <3>1 DEF CalibInv, HardInv, Failed
    <3> QED
      BY <1>6, <1>7, <3>1, <3>2
  <2> HIDE DEF m, n
  <2>7. \A k \in 1..Failed' : badList'[k] = setup'[k].id
    BY <2>1, <2>6
  <2> QED
    BY <1>1, <2>1, <2>4, <2>5, <2>7 DEF HardInv
<1> QED
  BY <1>8, <1>9, <1>10, <1>11 DEF CalibInv

LEMMA FinishKeeps == CalibInv /\ Finish => CalibInv'
<1> SUFFICES ASSUME CalibInv, Finish PROVE CalibInv'
  OBVIOUS
<1> DEFINE n == Len(setup)
<1>1. /\ pc = "delete" /\ badList = <<>> /\ setup' = Finalize(setup) /\ pc' = "done"
      /\ UNCHANGED <<argVars, sweepVars, index, goodItem, badList, pattern, dev>>
  BY DEF Finish, itemVars
<1>2. setup \in Seq(Item) /\ n \in Nat /\ DOMAIN setup = 1..n
  BY Phase2Types, LenProperties
<1>3. n <= MaxDiv + 1 /\ MaxDiv \in Nat
  BY SweepAssumption DEF CalibInv, ItemsInv
<1>4. setup' = [i \in 1..n |-> [setup[i] EXCEPT !.id = n - i]]
  BY <1>1, <1>2 DEF Finalize
<1>5. ASSUME NEW i \in 1..n
      PROVE  /\ setup'[i] \in Item
             /\ setup'[i].div = setup[i].div /\ setup'[i].del = setup[i].del
             /\ setup'[i].freq = setup[i].freq /\ setup'[i].valid = setup[i].valid
             /\ setup'[i] \in [id : Int, div : 0..MaxDiv, del : 0..(MaxDelay - 1),
                               freq : Nat, valid : 0..(MaxDelay + 1)]
  <2>1. setup[i] \in Item
    BY Phase2Types
  <2>2. n - i \in 0..MaxDiv /\ n - i \in Int
    BY <1>2, <1>3
  <2>3. setup'[i] = [setup[i] EXCEPT !.id = n - i]
    BY <1>4
  <2> HIDE DEF n
  <2> QED
    BY <2>1, <2>2, <2>3 DEF Item
<1>6. setup' \in Seq(Item) /\ Len(setup') = n
  <2>1. setup' \in [1..n -> Item]
    BY <1>4, <1>5
  <2> HIDE DEF n
  <2> QED
    BY <1>2, <2>1, SeqDef, LenProperties
<1>7. TypeOK'
  BY <1>1, <1>6 DEF CalibInv, TypeOK, argVars, sweepVars
<1>8. SweepInv'
  BY <1>1 DEF SweepInv
<1>9. ItemsInv'
  <2>1. ASSUME NEW i \in 1..n PROVE Sound(hyst', eye', setup'[i])
    <3>1. Sound(hyst, eye, setup[i])
      BY Phase2Types
    <3>2. hyst' = hyst /\ eye' = eye
      BY <1>1 DEF argVars, sweepVars
    <3>3. Near(eye, setup'[i])
      BY <1>5, <3>1 DEF Sound, Near
    <3>4. hyst = 0 => Window(eye, setup'[i])
      BY <1>5, <3>1 DEF Sound, Window
    <3>5. setup'[i].freq = Frequency(setup'[i].div)
      BY <1>5, <3>1 DEF Sound
    <3>6. Sound(hyst, eye, setup'[i])
      BY <1>5, <3>3, <3>4, <3>5 DEF Sound
    <3> QED
      BY <3>2, <3>6
  <2>2. ASSUME NEW i \in 1..n, NEW j \in 1..n, i < j
        PROVE  setup'[i].div < setup'[j].div
    <3>1. setup[i].div < setup[j].div
      BY <2>2 DEF CalibInv, ItemsInv
    <3> QED
      BY <1>5, <3>1
  <2> HIDE DEF n
  <2> QED
    BY <1>1, <1>3, <1>6, <2>1, <2>2 DEF ItemsInv
<1>10. HardInv'
  <2>1. Failed' = Failed /\ Failed = 0
    BY <1>1 DEF Failed
  <2>2. goodItem => 0 < n /\ dev = SettingOf(setup[0 + 1])
    BY <2>1 DEF CalibInv, HardInv
  <2>3. ~goodItem => 0 = n
    BY <1>1, <2>1 DEF CalibInv, HardInv
  <2>4. goodItem => SettingOf(setup'[0 + 1]) = SettingOf(setup[0 + 1])
    <3>1. ASSUME goodItem PROVE 0 + 1 \in 1..n
      BY <1>2, <2>2, <3>1
    <3> QED
      BY <1>5, <3>1 DEF SettingOf
  <2>5. 0 <= n
    BY <1>2
  <2>6. \A k \in 1..0 : badList'[k] = setup'[k].id
    OBVIOUS
  <2> HIDE DEF n
  <2> QED
    BY <1>1, <1>6, <2>1, <2>2, <2>3, <2>4, <2>5, <2>6 DEF HardInv
<1> QED
  BY <1>7, <1>8, <1>9, <1>10 DEF CalibInv

LEMMA CalibInit == Init => CalibInv
<1> SUFFICES ASSUME Init PROVE CalibInv
  OBVIOUS
<1>1. Len(setup) = 0 /\ Failed = 0 /\ setup \in Seq(Item) /\ badList \in Seq(0..MaxDiv)
  BY EmptySeq DEF Init, Failed
<1>2. /\ MaxDiv \in Nat /\ MaxDelay \in Nat \ {0}
      /\ 0 \in 0..MaxDiv /\ 0 \in 0..MaxDiv + 1 /\ -1 \in -1..(MaxDelay - 1)
      /\ 0 \in 0..(MaxDelay + 1) /\ 0 \in 0..MaxDelay /\ MaxDelay - 1 \in 0..(MaxDelay - 1)
      /\ 1 \in Patterns /\ 0 \in 0..0 /\ 0 - 0..0 - 1 = {} /\ 0 <= MaxDiv + 1
  BY SweepAssumption DEF Patterns
<1>3. TypeOK
  BY <1>1, <1>2 DEF Init, TypeOK
<1>4. SweepInv
  BY <1>2 DEF Init, SweepInv
<1>5. ItemsInv
  BY <1>1, <1>2 DEF Init, ItemsInv
<1>6. HardInv
  BY <1>1 DEF Init, HardInv
<1> QED
  BY <1>3, <1>4, <1>5, <1>6 DEF CalibInv

LEMMA Stutter == CalibInv /\ UNCHANGED vars => CalibInv'
<1> SUFFICES ASSUME CalibInv, UNCHANGED vars PROVE CalibInv'
  OBVIOUS
<1>1. UNCHANGED <<hyst, calibSize, pc, cdiv, cdel, minDelay, maxDelay, validPoints, h, record,
                  numEntry, eye, index, goodItem, badList, pattern, setup, dev>>
  BY DEF vars, argVars, sweepVars, itemVars
<1>2. TypeOK' /\ SweepInv'
  BY <1>1 DEF CalibInv, TypeOK, SweepInv, Open
<1>3. ItemsInv' /\ HardInv'
  BY <1>1 DEF CalibInv, ItemsInv, HardInv, Failed
<1> QED
  BY <1>2, <1>3 DEF CalibInv

(* The invariant the theorems below follow from. *)
THEOREM Invariance == Spec => []CalibInv
<1>1. CalibInv /\ [Next]_vars => CalibInv'
  BY ProbeOkKeeps, ProbeFailsKeeps, SweepEndsKeeps, NextDivisorKeeps, TryItemKeeps,
     PatternHoldsKeeps, PatternFailsKeeps, StopTryingKeeps, DeleteFailedKeeps, FinishKeeps,
     Stutter DEF Next
<1> QED
  BY <1>1, CalibInit, PTL DEF Spec
-----------------------------------------------------------------------------
(* What the properties need of the list.                                   *)

LEMMA ListFacts ==
  ASSUME CalibInv
  PROVE  /\ Len(setup) \in Nat /\ DOMAIN setup = 1..Len(setup) /\ Listing(setup, Len(setup))
         /\ \A i \in 1..Len(setup) : Sound(hyst, eye, setup[i])
<1>1. Len(setup) \in Nat /\ DOMAIN setup = 1..Len(setup)
  <2>1. setup \in Seq(Item)
    BY Phase2Types
  <2> QED
    BY <2>1, LenProperties
<1>2. \A i \in 1..Len(setup) : Sound(hyst, eye, setup[i]) /\ setup[i].freq \in Nat
  <2>1. \A i \in 1..Len(setup) : setup[i] \in Item /\ Sound(hyst, eye, setup[i])
    BY Phase2Types
  <2> QED
    BY <2>1 DEF Item
<1> QED
  BY <1>1, <1>2 DEF Listing

(* The first item is the fastest, and it is the one the choice falls on.   *)
LEMMA FirstIsFastest ==
  ASSUME CalibInv, setup # <<>>
  PROVE  ItemByMaxFrequency(setup) = setup[1]
<1> DEFINE n == Len(setup)
           d == [j \in 1..n |-> -setup[j].freq]
<1>1. n \in Nat \ {0} /\ 1 \in 1..n /\ Listing(setup, n)
  <2>1. n # 0
    BY Phase2Types, EmptySeq
  <2>2. n \in Nat /\ Listing(setup, n)
    BY ListFacts
  <2> HIDE DEF n
  <2> QED
    BY <2>1, <2>2
<1>2. d \in [1..n -> Int]
  <2>1. \A j \in 1..n : setup[j].freq \in Nat
    BY <1>1 DEF Listing
  <2>2. \A j \in 1..n : -setup[j].freq \in Int
    BY <2>1
  <2> HIDE DEF n
  <2> QED
    BY <2>2
<1>3. PICK i : Best(d, 1..n, i) /\ ItemByMaxFrequency(setup) = setup[i]
  <2> HIDE DEF n
  <2> QED
    BY <1>1, ItemByMaxFrequencyIs
<1>4. ASSUME NEW j \in 1..n PROVE d[1] <= d[j]
  <2>1. setup[1].div \in Nat /\ setup[j].div \in Nat
        /\ setup[1].freq = Frequency(setup[1].div) /\ setup[j].freq = Frequency(setup[j].div)
    <3>1. Sound(hyst, eye, setup[1]) /\ Sound(hyst, eye, setup[j])
      BY <1>1, ListFacts
    <3>2. MaxDiv \in Nat
      BY SweepAssumption
    <3> QED
      BY <3>1, <3>2 DEF Sound
  <2>2. setup[1].div <= setup[j].div
    <3>1. CASE j = 1
      BY <2>1, <3>1
    <3>2. CASE j # 1
      <4>1. j \in 1..n /\ 1 < j
        BY <1>1, <3>2
      <4>2. setup[1].div < setup[j].div
        BY <1>1, <4>1 DEF CalibInv, ItemsInv
      <4> QED
        BY <2>1, <4>2
    <3> QED
      BY <3>1, <3>2
  <2> DEFINE x == setup[1].div
             y == setup[j].div
  <2>3. x \in Nat /\ y \in Nat /\ x <= y /\ setup[1].freq = Frequency(x) /\ setup[j].freq = Frequency(y)
    BY <2>1, <2>2
  <2> HIDE DEF x, y
  <2>4. Frequency(x) \in Nat /\ Frequency(y) \in Nat /\ Frequency(y) <= Frequency(x)
    BY <2>3, FrequencyFalls
  <2>5. d[1] = -Frequency(x) /\ d[j] = -Frequency(y)
    BY <1>1, <2>3
  <2> HIDE DEF d
  <2> QED
    BY <2>4, <2>5
<1>5. Best(d, 1..n, 1)
  <2>1. \A j \in 1..n : ~(j < 1)
    BY <1>1
  <2> HIDE DEF d
  <2> QED
    BY <1>1, <1>4, <2>1 DEF Best
<1>6. i = 1
  <2> HIDE DEF n, d
  <2> QED
    BY <1>1, <1>2, <1>3, <1>5, BestUnique
<1> QED
  BY <1>3, <1>6

(* The variables keep their types, for every number of divisors and delays *)
(* (all of AXICalibrator::start()).                                        *)
THEOREM TypeCorrect == Spec => []TypeOK
<1>1. CalibInv => TypeOK
  BY DEF CalibInv
<1> QED
  BY <1>1, Invariance, PTL

(* Without hysteresis every item stands for a window of delays that were   *)
(* all measured valid, at its centre (lines 63 to 108).                    *)
THEOREM WindowsMeasured == Spec => []WindowMeasured
<1>1. CalibInv => WindowMeasured
  <2> SUFFICES ASSUME CalibInv, hyst = 0, NEW i \in DOMAIN setup
               PROVE  \E first \in eye[setup[i].div] :
                        LET last == first + setup[i].valid - 1 IN
                        /\ first <= last /\ Measured(setup[i].div, first, last)
                        /\ setup[i].del = (first + last) \div 2
    BY DEF WindowMeasured
  <2>1. Sound(hyst, eye, setup[i])
    BY ListFacts
  <2>2. Window(eye, setup[i])
    BY <2>1 DEF Sound
  <2> QED
    BY <2>2 DEF Window, Measured
<1> QED
  BY <1>1, Invariance, PTL

(* With any hysteresis that is not negative the delay of an item is a      *)
(* delay that was measured valid or one step below one (line 74).          *)
THEOREM DelaysNearWindow == Spec => []DelayNearWindow
<1>1. CalibInv => DelayNearWindow
  BY ListFacts DEF DelayNearWindow, Sound, Near
<1> QED
  BY <1>1, Invariance, PTL

(* The item a server takes by default is the one that passed the patterns, *)
(* and the device is left with its setting (lines 153 to 207).             *)
THEOREM DefaultAlwaysHardened == Spec => []DefaultHardened
<1>1. CalibInv => DefaultHardened
  <2> SUFFICES ASSUME CalibInv, pc = "done", setup # <<>>
               PROVE  LET item == ItemByMaxFrequency(setup) IN
                      goodItem /\ dev = [div |-> item.div, del |-> item.del]
    BY DEF DefaultHardened
  <2>1. ItemByMaxFrequency(setup) = setup[1]
    BY FirstIsFastest
  <2>2. Failed = 0 /\ Len(setup) # 0
    BY Phase2Types, EmptySeq DEF CalibInv, HardInv, Failed
  <2>3. goodItem
    BY <2>2 DEF CalibInv, HardInv
  <2>4. dev = SettingOf(setup[1])
    BY <2>2, <2>3 DEF CalibInv, HardInv
  <2> QED
    BY <2>1, <2>3, <2>4 DEF SettingOf
<1> QED
  BY <1>1, Invariance, PTL

(* A saved calibration loads as one that selects the same items, by id, by *)
(* frequency and by default (saveFile, loadFile and the selections).       *)
THEOREM SelectionAlwaysSurvives == Spec => []SelectionSurvivesFile
<1>1. CalibInv => SelectionSurvivesFile
  <2> SUFFICES ASSUME CalibInv PROVE SelectionSurvivesFile
    OBVIOUS
  <2> DEFINE loaded == LoadFile(SaveFile(setup))
  <2>1. setup \in Seq(Item) /\ Listing(setup, Len(setup))
    BY Phase2Types, ListFacts
  <2>2. loaded = LoadFile(SaveFile(setup))
    OBVIOUS
  <2> HIDE DEF loaded
  <2>3. /\ \A id : ItemById(loaded, id) = ItemById(setup, id)
        /\ \A f \in Int : ItemByFrequency(loaded, f) = ItemByFrequency(setup, f)
        /\ ItemByMaxFrequency(loaded) = ItemByMaxFrequency(setup)
    BY <2>1, <2>2, LoadedSelects
  <2>4. \A f \in AskedFreqs : f \in Int
    BY OptionAssumption
  <2> QED
    BY <2>2, <2>3, <2>4 DEF SelectionSurvivesFile
<1> QED
  BY <1>1, Invariance, PTL

(* The item chosen for a frequency is a closest one (lines 134 to 164).    *)
THEOREM ClosestAlwaysChosen == Spec => []ClosestChosen
<1>1. CalibInv => ClosestChosen
  <2> SUFFICES ASSUME CalibInv, NEW f \in AskedFreqs, NEW i \in DOMAIN setup
               PROVE  Dist(f, ItemByFrequency(setup, f).freq) <= Dist(f, setup[i].freq)
    BY DEF ClosestChosen
  <2> DEFINE n == Len(setup)
             d == [j \in 1..n |-> Dist(f, setup[j].freq)]
  <2>1. f \in Int
    BY OptionAssumption
  <2>2. i \in 1..n /\ n \in Nat \ {0} /\ Listing(setup, n)
    BY ListFacts
  <2>3. PICK k : Best(d, 1..n, k) /\ ItemByFrequency(setup, f) = setup[k]
    <3> HIDE DEF n
    <3> QED
      BY <2>1, <2>2, ItemByFrequencyIs
  <2>4. k \in 1..n /\ d[k] <= d[i]
    <3> HIDE DEF d
    <3> QED
      BY <2>2, <2>3 DEF Best
  <2>5. d[k] = Dist(f, setup[k].freq) /\ d[i] = Dist(f, setup[i].freq)
    BY <2>2, <2>4
  <2> QED
    BY <2>3, <2>4, <2>5
<1> QED
  BY <1>1, Invariance, PTL
=============================================================================
