------------------------ MODULE FTDICalibratorProofs ------------------------
(***************************************************************************)
(* Proofs about FTDICalibrator::start(), for every range of frequencies,   *)
(* every number of probes, and whatever the probes return.                 *)
(*                                                                         *)
(* The types hold for all that main() lets through.  What is said of the   *)
(* items holds in the range the divider of the chip has without the        *)
(* division by five, and with at least one probe: main() checks neither    *)
(* (the README tells what happens outside).                                *)
(***************************************************************************)
EXTENDS FTDICalibrator, SetupProofs

ClockRange == \A r \in Ranges : 458 <= r.min /\ r.max <= 30000000

(* The types, and that there is room for the items still to come. *)
TypeInv ==
    /\ TypeOK
    /\ pc \in {"set", "probe"} => cdiv >= MinVal
    /\ pc = "probe" => cdiv # -1
    /\ Len(setup) <= 2 * (MaxVal - cdiv) + tdoSampling
    /\ \A i \in 1..Len(setup) : setup[i].freq = FrequencyByDivisor(FALSE, setup[i].div)

(* The setting of the chip without the division by five, and whether a     *)
(* sweep at the divisor c and the edge t is past it.                       *)
At(div, pedge) == [div5 |-> FALSE, div |-> div, pedge |-> pedge]
Past(c, t, div, pedge) == div > c \/ (div = c /\ ~pedge /\ t = 1)

(* good is defined for the settings that are past, and for the one that is *)
(* probed once a probe of it matched.                                      *)
ProbedInv ==
    /\ pc # "crashed"
    /\ pc = "done" => cdiv = MinVal - 1 /\ tdoSampling = 0
    /\ pc = "probe" => chip = At(cdiv, tdoSampling = 1)
    /\ pc = "probe" /\ match > 0 => chip \in DOMAIN good /\ good[chip] = match
    /\ \A s \in DOMAIN good :
         /\ s.div5 = FALSE /\ s.div \in MinVal..MaxVal
         /\ Past(cdiv, tdoSampling, s.div, s.pedge) \/ (pc = "probe" /\ s = chip /\ match > 0)
    /\ \A d \in MinVal..MaxVal, e \in BOOLEAN :
         Past(cdiv, tdoSampling, d, e) => At(d, e) \in DOMAIN good

(* The items are the settings that are past and passed, in the order of    *)
(* the sweep.                                                              *)
Earlier(a, b) == a.div > b.div \/ (a.div = b.div /\ ~a.pedge /\ b.pedge)
Kept(gd, item) == LET s == At(item.div, item.pedge) IN s \in DOMAIN gd /\ gd[s] = Loop

ListInv(gd, c, t, list) ==
    /\ \A i \in 1..Len(list) : Kept(gd, list[i]) /\ Past(c, t, list[i].div, list[i].pedge)
    /\ \A s \in DOMAIN gd : Past(c, t, s.div, s.pedge) /\ gd[s] = Loop =>
         \E i \in 1..Len(list) : s = At(list[i].div, list[i].pedge)
    /\ \A i, j \in 1..Len(list) : i < j => Earlier(list[i], list[j])

ItemsInv ==
    /\ ListInv(good, cdiv, tdoSampling, setup)
    /\ pc = "done" => \A i \in 1..Len(setup) : setup[i].id = Len(setup) - i

SweepInv == TypeInv /\ ProbedInv /\ ItemsInv
-----------------------------------------------------------------------------
(* Frequencies and divisors.                                               *)

LEMMA Bounds ==
  ASSUME range \in Ranges
  PROVE  MinVal \in Int /\ MaxVal \in Int
<1>1. range.min \in Int /\ range.max \in Int
  BY RangesAssumption
<1> QED
  BY <1>1, DivisorIs DEF MinVal, MaxVal

LEMMA SettingIs == Setting = [div5 : BOOLEAN, div : 0..MaxWord, pedge : BOOLEAN]
BY DEF Setting, MaxWord

LEMMA InClockRange ==
  ASSUME range \in Ranges, ClockRange
  PROVE  /\ 0 <= MinVal /\ MinVal <= MaxVal /\ MaxVal <= MaxWord
         /\ ~Dies
         /\ \A d \in MinVal..MaxVal : DivisorWord(d) = d
<1> DEFINE a == 60000000
           b == 2 * range.min
           c == 2 * range.max
           e == 916
<1>1. a \in Nat /\ b \in Nat /\ c \in Nat \ {0} /\ e <= b /\ b <= c /\ c <= a /\ e \in Nat \ {0} /\ a \in Nat \ {0}
  BY SMT, RangesAssumption DEF ClockRange
<1>2. Twice(range.min) = b /\ Twice(range.max) = c
  <2>1. /\ range.min \in Int /\ 0 < range.min /\ range.min <= 30000000
        /\ range.max \in Int /\ 0 < range.max /\ range.max <= 30000000
    BY SMT, RangesAssumption DEF ClockRange
  <2> QED
    BY SMT, <2>1, TwiceIs
<1>3. MinVal = Quotient(a, c) - 1 /\ MaxVal = Quotient(a, b) - 1
  BY SMT, <1>2 DEF MinVal, MaxVal, DivisorByFrequency, Base
<1>4. (a \div e) - 1 <= MaxWord /\ MaxWord \in Nat /\ a \div a = 1
  BY SMT DEF MaxWord
<1> HIDE DEF a, b, c, e
<1>5. b \in Nat \ {0} /\ b \in Int /\ b > 0 /\ c \in Int /\ c > 0 /\ c \in Nat
  BY <1>1
<1>6. Quotient(a, b) = a \div b /\ Quotient(a, c) = a \div c
  BY <1>1, <1>5, QuotientIs
<1>7. a \div b <= a \div e /\ a \div e \in Nat
  BY <1>1, <1>5, Quotients
<1>8. a \div b \in Nat /\ a \div c <= a \div b
  BY <1>1, <1>5, Quotients
<1>9. a \div a <= a \div c /\ a \div c \in Nat
  <2>1. c <= c
    BY <1>5
  <2> QED
    BY <1>1, <1>5, <2>1, Quotients
<1>10. 0 <= MinVal /\ MinVal <= MaxVal /\ MaxVal <= MaxWord
  BY <1>3, <1>4, <1>6, <1>7, <1>8, <1>9
<1>11. ASSUME NEW d \in MinVal..MaxVal PROVE DivisorWord(d) = d
  <2>1. d \in 0..MaxWord
    BY <1>4, <1>10, Bounds
  <2> QED
    BY <2>1, WordIs
<1>12. ~Dies
  BY <1>2, <1>5 DEF Dies
<1> QED
  BY <1>10, <1>11, <1>12

-----------------------------------------------------------------------------
(* The types.                                                              *)

LEMMA Types ==
  ASSUME TypeInv
  PROVE  /\ range \in Ranges /\ pc \in {"set", "probe", "done", "crashed"}
         /\ MinVal \in Int /\ MaxVal \in Int
         /\ cdiv \in Int /\ cdiv <= MaxVal
         /\ tdoSampling \in {0, 1} /\ match \in Nat /\ Loop \in Nat /\ match <= Loop
         /\ setup \in Seq(Item) /\ Len(setup) \in Nat /\ DOMAIN setup = 1..Len(setup)
         /\ chip \in Setting
         /\ \A s \in DOMAIN good : s \in Setting /\ good[s] \in 0..Loop
         /\ \A i \in 1..Len(setup) : setup[i] \in Item
<1>1. /\ range \in Ranges /\ pc \in {"set", "probe", "done", "crashed"}
      /\ cdiv = MaxVal \/ cdiv \in (MinVal - 1)..MaxVal
      /\ tdoSampling \in 0..1 /\ match \in 0..Loop
      /\ setup \in Seq(Item) /\ chip \in Setting
      /\ \A s \in DOMAIN good : s \in Setting /\ good[s] \in 0..Loop
  BY DEF TypeInv, TypeOK
<1>2. MinVal \in Int /\ MaxVal \in Int
  BY <1>1, Bounds
<1>3. Len(setup) \in Nat /\ DOMAIN setup = 1..Len(setup) /\ \A i \in 1..Len(setup) : setup[i] \in Item
  BY <1>1, LenProperties, ElementOfSeq
<1>4. cdiv \in Int /\ cdiv <= MaxVal /\ tdoSampling \in {0, 1}
  <2>1. (cdiv = MaxVal \/ cdiv \in (MinVal - 1)..MaxVal) /\ tdoSampling \in 0..1
    BY <1>1
  <2> QED
    BY <1>2, <2>1
<1>5. match \in Nat /\ Loop \in Nat /\ match <= Loop
  BY <1>1, LoopAssumption
<1> QED
  BY <1>1, <1>2, <1>3, <1>4, <1>5

LEMMA ChipSet ==
  ASSUME NEW c \in Setting, NEW e \in BOOLEAN, NEW d \in Int
  PROVE  /\ SetClockDiv([c EXCEPT !.pedge = e], FALSE, d) \in Setting
         /\ SetClockDiv([c EXCEPT !.pedge = e], FALSE, d) = At(DivisorWord(d), e)
<1> DEFINE f == [c EXCEPT !.pedge = e]
           w == DivisorWord(d)
<1>1. w \in 0..MaxWord
  BY WordIs
<1>2. f \in Setting /\ f.pedge = e
  BY SettingIs
<1>3. SetClockDiv(f, FALSE, d) = [f EXCEPT !.div5 = FALSE, !.div = w]
  BY DEF SetClockDiv
<1> HIDE DEF f, w
<1>4. SetClockDiv(f, FALSE, d) = At(w, e)
  BY <1>1, <1>2, <1>3, SettingIs, Registers DEF At
<1>5. At(w, e) \in Setting
  BY <1>1, SettingIs DEF At
<1> QED
  BY <1>4, <1>5 DEF f, w

LEMMA FinalizeTypes ==
  ASSUME range \in Ranges, NEW list \in Seq(Item),
         Len(list) <= 2 * (MaxVal - MinVal + 1), NEW final, final = FTDIFinalize(list)
  PROVE  /\ final \in Seq(Item) /\ Len(final) = Len(list)
         /\ \A i \in 1..Len(list) :
              /\ final[i].id = Len(list) - i
              /\ final[i].div = list[i].div /\ final[i].pedge = list[i].pedge
              /\ final[i].freq = list[i].freq
<1> DEFINE n == Len(list)
<1>1. n \in Nat /\ DOMAIN list = 1..n /\ \A i \in 1..n : list[i] \in Item
  BY LenProperties, ElementOfSeq
<1>2. final = [i \in 1..n |-> [list[i] EXCEPT !.id = n - i]]
  BY <1>1 DEF FTDIFinalize, Finalize
<1>3. ASSUME NEW i \in 1..n
      PROVE  /\ final[i] \in Item /\ final[i].id = n - i
             /\ final[i].div = list[i].div /\ final[i].pedge = list[i].pedge
             /\ final[i].freq = list[i].freq
  <2>1. list[i] \in Item
    BY <1>1
  <2>2. n - i \in 0..(2 * (MaxVal - MinVal + 1))
    <3> HIDE DEF n
    <3>1. n <= 2 * (MaxVal - MinVal + 1)
      BY DEF n
    <3> QED
      BY <1>1, <3>1, Bounds
  <2>3. final[i] = [list[i] EXCEPT !.id = n - i]
    BY <1>2
  <2> HIDE DEF n
  <2> QED
    BY <2>1, <2>2, <2>3 DEF Item
<1>4. final \in [1..n -> Item]
  BY <1>2, <1>3
<1> HIDE DEF n
<1>5. final \in Seq(Item) /\ Len(final) = n
  BY <1>1, <1>4, SeqDef, LenProperties
<1> QED
  BY <1>3, <1>5 DEF n

(* The divisor and the edge after a setting. *)
LEMMA NextIs ==
  ASSUME TypeInv, pc = "probe", NEW list, NextSetting(list)
  PROVE  /\ cdiv >= MinVal
         /\ \/ tdoSampling = 0 /\ tdoSampling' = 1 /\ cdiv' = cdiv
            \/ tdoSampling = 1 /\ tdoSampling' = 0 /\ cdiv' = cdiv - 1
         /\ cdiv' \in Int /\ MinVal - 1 <= cdiv' /\ cdiv' <= MaxVal
         /\ \/ cdiv' >= MinVal /\ pc' = "set" /\ setup' = list
            \/ /\ cdiv' = MinVal - 1 /\ tdoSampling' = 0 /\ pc' = "done"
               /\ setup' = FTDIFinalize(list)
<1>1. /\ MinVal \in Int /\ MaxVal \in Int /\ cdiv \in Int /\ cdiv <= MaxVal
      /\ tdoSampling \in {0, 1} /\ cdiv >= MinVal
  <2>1. cdiv >= MinVal
    BY DEF TypeInv
  <2> QED
    BY <2>1, Types
<1>2. /\ tdoSampling' = 1 - tdoSampling
      /\ cdiv' = IF tdoSampling = 0 THEN cdiv ELSE cdiv - 1
      /\ \/ cdiv' >= MinVal /\ pc' = "set" /\ setup' = list
         \/ ~(cdiv' >= MinVal) /\ pc' = "done" /\ setup' = FTDIFinalize(list)
  BY DEF NextSetting
<1>3. \/ tdoSampling = 0 /\ tdoSampling' = 1 /\ cdiv' = cdiv
      \/ tdoSampling = 1 /\ tdoSampling' = 0 /\ cdiv' = cdiv - 1
  BY <1>1, <1>2
<1>4. cdiv' \in Int /\ MinVal - 1 <= cdiv' /\ cdiv' <= MaxVal
  BY <1>1, <1>3
<1>5. ~(cdiv' >= MinVal) => cdiv' = MinVal - 1 /\ tdoSampling' = 0
  BY <1>1, <1>3
<1> QED
  BY <1>1, <1>2, <1>3, <1>4, <1>5

LEMMA NextTypes ==
  ASSUME TypeInv, pc = "probe", NEW list \in Seq(Item), NextSetting(list),
         Len(list) <= 2 * (MaxVal - cdiv) + tdoSampling + 1,
         \A i \in 1..Len(list) : list[i].freq = FrequencyByDivisor(FALSE, list[i].div),
         UNCHANGED <<range, match, chip>>,
         \A s \in DOMAIN good' : s \in Setting /\ good'[s] \in 0..Loop
  PROVE  TypeInv' /\ Len(setup') = Len(list)
<1> DEFINE n == Len(list)
           room == 2 * (MaxVal - cdiv) + tdoSampling
<1>1. n \in Nat /\ n <= room + 1
  BY LenProperties
<1>2. room \in Int /\ 2 * (MaxVal - cdiv') + tdoSampling' = room + 1
  <2>1. /\ MaxVal \in Int /\ cdiv \in Int
        /\ \/ tdoSampling = 0 /\ tdoSampling' = 1 /\ cdiv' = cdiv
           \/ tdoSampling = 1 /\ tdoSampling' = 0 /\ cdiv' = cdiv - 1
    BY NextIs, Types
  <2> QED
    BY <2>1
<1>3. pc' = "done" => n <= 2 * (MaxVal - MinVal + 1)
  <2>1. /\ MaxVal \in Int /\ MinVal \in Int
        /\ (pc' = "done" => cdiv' = MinVal - 1 /\ tdoSampling' = 0)
    BY NextIs, Types
  <2>2. n <= 2 * (MaxVal - cdiv') + tdoSampling'
    BY <1>1, <1>2
  <2> HIDE DEF n, room
  <2> QED
    BY <1>1, <2>1, <2>2
<1>4. /\ setup' \in Seq(Item) /\ Len(setup') = n
      /\ \A i \in 1..n : setup'[i].freq = FrequencyByDivisor(FALSE, setup'[i].div)
  <2>1. CASE pc' = "set"
    <3>1. setup' = list
      BY <2>1, NextIs
    <3> QED
      BY <3>1
  <2>2. CASE pc' = "done"
    <3>1. setup' = FTDIFinalize(list) /\ n <= 2 * (MaxVal - MinVal + 1) /\ range \in Ranges
      BY <1>3, <2>2, NextIs, Types
    <3>2. /\ setup' \in Seq(Item) /\ Len(setup') = n
          /\ \A i \in 1..n : setup'[i].freq = list[i].freq /\ setup'[i].div = list[i].div
      BY <3>1, FinalizeTypes
    <3> QED
      BY <3>2
  <2> QED
    BY <2>1, <2>2, NextIs
<1>5. MinVal' = MinVal /\ MaxVal' = MaxVal /\ Item' = Item
  BY DEF MinVal, MaxVal, Item
<1>6. cdiv' \in (MinVal - 1)..MaxVal /\ tdoSampling' \in 0..1
  <2>1. /\ MaxVal \in Int /\ MinVal \in Int /\ tdoSampling' \in {0, 1}
        /\ cdiv' \in Int /\ MinVal - 1 <= cdiv' /\ cdiv' <= MaxVal
    BY NextIs, Types
  <2> QED
    BY <2>1
<1>7. pc' \in {"set", "done"} /\ (pc' = "set" => cdiv' >= MinVal)
  BY NextIs
<1>8. TypeOK'
  <2>1. match \in 0..Loop
    BY DEF TypeInv, TypeOK
  <2> QED
    BY <1>4, <1>5, <1>6, <1>7, <2>1, Types DEF TypeOK
<1>9. Len(setup') <= 2 * (MaxVal' - cdiv') + tdoSampling'
  <2> HIDE DEF n, room
  <2> QED
    BY <1>1, <1>2, <1>4, <1>5
<1> QED
  BY <1>4, <1>5, <1>7, <1>8, <1>9 DEF TypeInv

(* What Keep adds to the list. *)
NewItem == [id |-> Len(setup) + 1, div |-> cdiv, pedge |-> (tdoSampling = 1),
            freq |-> FrequencyByDivisor(FALSE, cdiv)]

LEMMA KeepList ==
  ASSUME TypeInv, Keep
  PROVE  /\ pc = "probe" /\ match = Loop /\ NextSetting(Append(setup, NewItem))
         /\ UNCHANGED <<range, match, chip, good>>
         /\ NewItem \in Item /\ NewItem.div = cdiv /\ NewItem.pedge = (tdoSampling = 1)
         /\ NewItem.freq = FrequencyByDivisor(FALSE, cdiv)
         /\ Len(setup) <= 2 * (MaxVal - cdiv) + tdoSampling
<1>1. /\ pc = "probe" /\ match = Loop /\ NextSetting(Append(setup, NewItem))
      /\ UNCHANGED <<range, match, chip, good>>
  BY DEF Keep, FTDIAddItem, AddItem, NewItem
<1>2. /\ Len(setup) \in Nat /\ MaxVal \in Int /\ MinVal \in Int /\ tdoSampling \in {0, 1}
      /\ cdiv \in Int /\ cdiv >= MinVal /\ cdiv # -1 /\ cdiv <= MaxVal
      /\ Len(setup) <= 2 * (MaxVal - cdiv) + tdoSampling
  BY <1>1, Types DEF TypeInv
<1>3. Len(setup) + 1 \in 0..(2 * (MaxVal - MinVal + 1)) /\ cdiv \in MinVal..MaxVal
  BY <1>2
<1>4. FrequencyByDivisor(FALSE, cdiv) \in Int
  BY <1>2, FrequencyIs
<1>5. NewItem \in Item
  BY <1>3, <1>4 DEF NewItem, Item
<1> QED
  BY <1>1, <1>2, <1>5 DEF NewItem

LEMMA TypeInit == Init => TypeInv
<1> SUFFICES ASSUME Init PROVE TypeInv
  OBVIOUS
<1>1. /\ range \in Ranges /\ cdiv = MaxVal /\ tdoSampling = 0 /\ match = 0
      /\ \/ pc = "set" /\ MaxVal >= MinVal
         \/ pc \in {"done", "crashed"}
      /\ setup = <<>>
      /\ good = [s \in {} |-> 0]
  BY DEF Init
<1>2. MinVal \in Int /\ MaxVal \in Int
  BY <1>1, Bounds
<1>3. 0 <= 2 * (MaxVal - MaxVal) + 0
  BY <1>2
<1>4. 0 \in 0..Loop /\ 0 \in 0..1
  BY LoopAssumption
<1>5. chip \in Setting
  <2>1. DivisorWord(MaxWord) \in 0..MaxWord
    BY WordIs
  <2> DEFINE c == [div5 |-> FALSE, div |-> 0, pedge |-> FALSE]
             w == DivisorWord(MaxWord)
  <2>2. chip = [c EXCEPT !.div5 = TRUE, !.div = w]
    BY DEF Init, Detected, SetClockDiv, MaxWord
  <2>3. c \in Setting /\ c.pedge = FALSE
    BY SettingIs, WordIs
  <2> HIDE DEF c, w
  <2>4. chip = [div5 |-> TRUE, div |-> w, pedge |-> FALSE]
    BY <2>1, <2>2, <2>3, SettingIs, Registers DEF w
  <2> QED
    BY <2>1, <2>4, SettingIs DEF w
<1>6. setup \in Seq(Item) /\ Len(setup) = 0
  BY <1>1, EmptySeq
<1>7. TypeOK
  BY <1>1, <1>3, <1>4, <1>5, <1>6 DEF TypeOK
<1> QED
  BY <1>1, <1>3, <1>6, <1>7 DEF TypeInv

LEMMA SetClockTypes == TypeInv /\ SetClock => TypeInv'
<1> SUFFICES ASSUME TypeInv, SetClock PROVE TypeInv'
  OBVIOUS
<1>1. /\ pc = "set" /\ match' = 0 /\ pc' = (IF cdiv = -1 THEN "crashed" ELSE "probe")
      /\ chip' = SetClockDiv([chip EXCEPT !.pedge = (tdoSampling = 1)], FALSE, cdiv)
      /\ UNCHANGED <<range, cdiv, tdoSampling, setup, good>>
  BY DEF SetClock
<1>2. chip' \in Setting /\ 0 \in 0..Loop
  <2>1. chip \in Setting /\ cdiv \in Int /\ (tdoSampling = 1) \in BOOLEAN
    BY Types
  <2>2. chip' \in Setting
    BY <1>1, <2>1, ChipSet
  <2> QED
    BY <2>2, LoopAssumption
<1>3. MinVal' = MinVal /\ MaxVal' = MaxVal /\ Item' = Item
  BY <1>1 DEF MinVal, MaxVal, Item
<1>4. pc' \in {"probe", "crashed"} /\ (pc' = "probe" => cdiv # -1)
  BY <1>1
<1>5. TypeOK'
  BY <1>1, <1>2, <1>3, <1>4 DEF TypeInv, TypeOK
<1> QED
  BY <1>1, <1>3, <1>4, <1>5 DEF TypeInv

LEMMA MatchesTypes == TypeInv /\ ProbeMatches => TypeInv'
<1> SUFFICES ASSUME TypeInv, ProbeMatches PROVE TypeInv'
  OBVIOUS
<1>1. /\ pc = "probe" /\ match < Loop /\ match' = match + 1
      /\ good' = [s \in DOMAIN good \cup {chip} |-> IF s = chip THEN match' ELSE good[s]]
      /\ UNCHANGED <<range, pc, cdiv, tdoSampling, setup, chip>>
  BY DEF ProbeMatches
<1>2. match' \in 0..Loop
  BY <1>1, Types
<1>3. \A s \in DOMAIN good' : s \in Setting /\ good'[s] \in 0..Loop
  BY <1>1, <1>2, Types
<1>4. MinVal' = MinVal /\ MaxVal' = MaxVal /\ Item' = Item
  BY <1>1 DEF MinVal, MaxVal, Item
<1>5. TypeOK'
  BY <1>1, <1>2, <1>3, <1>4 DEF TypeInv, TypeOK
<1> QED
  BY <1>1, <1>4, <1>5 DEF TypeInv

LEMMA DiffersTypes == TypeInv /\ ProbeDiffers => TypeInv' /\ Len(setup') = Len(setup)
<1> SUFFICES ASSUME TypeInv, ProbeDiffers PROVE TypeInv' /\ Len(setup') = Len(setup)
  OBVIOUS
<1>1. /\ pc = "probe" /\ match < Loop /\ NextSetting(setup)
      /\ good' = [s \in DOMAIN good \cup {chip} |-> IF s = chip THEN 0 ELSE good[s]]
      /\ UNCHANGED <<range, match, chip>>
  BY DEF ProbeDiffers
<1>2. \A s \in DOMAIN good' : s \in Setting /\ good'[s] \in 0..Loop
  <2>1. 0 \in 0..Loop
    BY LoopAssumption
  <2> QED
    BY <1>1, <2>1, Types
<1>3. Len(setup) <= 2 * (MaxVal - cdiv) + tdoSampling + 1
  <2>1. Len(setup) <= 2 * (MaxVal - cdiv) + tdoSampling
    BY DEF TypeInv
  <2> QED
    BY <2>1, Types
<1>4. \A i \in 1..Len(setup) : setup[i].freq = FrequencyByDivisor(FALSE, setup[i].div)
  BY DEF TypeInv
<1> QED
  BY <1>1, <1>2, <1>3, <1>4, Types, NextTypes

LEMMA KeepTypes == TypeInv /\ Keep => TypeInv' /\ Len(setup') = Len(setup) + 1
<1> SUFFICES ASSUME TypeInv, Keep PROVE TypeInv' /\ Len(setup') = Len(setup) + 1
  OBVIOUS
<1>1. PICK it : it = NewItem
  OBVIOUS
<1>2. /\ pc = "probe" /\ NextSetting(Append(setup, it))
      /\ UNCHANGED <<range, match, chip, good>>
      /\ it \in Item /\ it.div = cdiv /\ it.freq = FrequencyByDivisor(FALSE, cdiv)
      /\ Len(setup) <= 2 * (MaxVal - cdiv) + tdoSampling
  BY <1>1, KeepList
<1> DEFINE n == Len(setup)
           list == Append(setup, it)
<1>3. /\ list \in Seq(Item) /\ Len(list) = n + 1 /\ list[n + 1] = it
      /\ \A i \in 1..n : list[i] = setup[i]
  BY <1>2, Types, AppendProperties
<1>4. NextSetting(list)
  BY <1>2
<1> HIDE DEF list
<1>5. \A i \in 1..Len(list) : list[i].freq = FrequencyByDivisor(FALSE, list[i].div)
  <2> SUFFICES ASSUME NEW i \in 1..n + 1 PROVE list[i].freq = FrequencyByDivisor(FALSE, list[i].div)
    BY <1>3
  <2>1. CASE i = n + 1
    BY <1>2, <1>3, <2>1
  <2>2. CASE i # n + 1
    <3>1. i \in 1..n
      <4>1. n \in Nat
        BY Types
      <4> HIDE DEF n
      <4> QED
        BY <2>2, <4>1
    <3>2. setup[i].freq = FrequencyByDivisor(FALSE, setup[i].div)
      BY <3>1 DEF TypeInv
    <3> QED
      BY <1>3, <3>1, <3>2
  <2> QED
    BY <2>1, <2>2
<1>6. Len(list) <= 2 * (MaxVal - cdiv) + tdoSampling + 1
  <2>1. MaxVal \in Int /\ cdiv \in Int /\ tdoSampling \in Int /\ n \in Nat
    BY Types
  <2> HIDE DEF n
  <2>2. n <= 2 * (MaxVal - cdiv) + tdoSampling
    BY <1>2 DEF n
  <2> QED
    BY <1>3, <2>1, <2>2
<1>7. \A s \in DOMAIN good' : s \in Setting /\ good'[s] \in 0..Loop
  BY <1>2, Types
<1> QED
  BY <1>2, <1>3, <1>4, <1>5, <1>6, <1>7, NextTypes

LEMMA TypeStutter == TypeInv /\ UNCHANGED vars => TypeInv'
BY DEF vars, TypeInv, TypeOK, MinVal, MaxVal, Item

(* The variables keep their types whatever main() lets through, also where *)
(* the sweep ends in a division by zero (all of FTDICalibrator::start()).  *)
THEOREM TypeCorrect == Spec => []TypeOK
<1>1. TypeInv /\ [Next]_vars => TypeInv'
  BY SetClockTypes, MatchesTypes, DiffersTypes, KeepTypes, TypeStutter DEF Next
<1>2. TypeInv => TypeOK
  BY DEF TypeInv
<1> QED
  BY <1>1, <1>2, TypeInit, PTL DEF Spec
-----------------------------------------------------------------------------
(* The settings probed.                                                    *)

LEMMA AtSame ==
  ASSUME NEW d, NEW e, NEW x, NEW y, At(d, e) = At(x, y)
  PROVE  d = x /\ e = y
<1>1. At(d, e).div = d /\ At(d, e).pedge = e /\ At(x, y).div = x /\ At(x, y).pedge = y
  BY DEF At
<1> QED
  BY <1>1

LEMMA AtFields == \A d, e : At(d, e).div = d /\ At(d, e).pedge = e /\ At(d, e).div5 = FALSE
BY DEF At

LEMMA AtAll ==
  ASSUME NEW s \in Setting, s.div5 = FALSE
  PROVE  s = At(s.div, s.pedge) /\ s.pedge \in BOOLEAN
BY SettingIs DEF At

(* The setting that is probed is not past. *)
LEMMA NotPast ==
  ASSUME TypeInv, ProbedInv, pc = "probe", NEW s,
         Past(cdiv, tdoSampling, s.div, s.pedge)
  PROVE  s # chip
<1> SUFFICES ASSUME s = chip PROVE FALSE
  OBVIOUS
<1>1. s.div = cdiv /\ s.pedge = (tdoSampling = 1)
  BY AtFields DEF ProbedInv
<1>2. ~(cdiv > cdiv)
  BY Types
<1> QED
  BY <1>1, <1>2 DEF Past

(* A step of the sweep passes the setting that was probed, and no other. *)
LEMMA PastNext ==
  ASSUME TypeInv, pc = "probe", NEW list, NextSetting(list), NEW d \in Int, NEW e \in BOOLEAN
  PROVE  Past(cdiv', tdoSampling', d, e)
           <=> Past(cdiv, tdoSampling, d, e) \/ (d = cdiv /\ e = (tdoSampling = 1))
<1>1. cdiv \in Int
  BY Types
<1>2. CASE tdoSampling = 0
  <2>1. tdoSampling' = 1 /\ cdiv' = cdiv
    BY <1>2, NextIs
  <2>2. (tdoSampling = 1) = FALSE
    BY <1>2
  <2> QED
    BY <1>2, <2>1, <2>2 DEF Past
<1>3. CASE tdoSampling = 1
  <2>1. tdoSampling' = 0 /\ cdiv' = cdiv - 1
    BY <1>3, NextIs
  <2>2. (tdoSampling = 1) = TRUE
    BY <1>3
  <2>3. d > cdiv - 1 <=> d > cdiv \/ d = cdiv
    BY <1>1
  <2>4. Past(cdiv', tdoSampling', d, e) <=> d > cdiv - 1
    BY <2>1 DEF Past
  <2>5. Past(cdiv, tdoSampling, d, e) <=> d > cdiv \/ (d = cdiv /\ ~e)
    BY <1>3 DEF Past
  <2> QED
    BY <2>2, <2>3, <2>4, <2>5
<1> QED
  BY <1>2, <1>3, Types

LEMMA NextProbed ==
  ASSUME TypeInv, ProbedInv, pc = "probe", NEW list, NextSetting(list),
         UNCHANGED <<range, match, chip>>, DOMAIN good' = DOMAIN good \cup {chip}
  PROVE  ProbedInv'
<1>1. MinVal' = MinVal /\ MaxVal' = MaxVal
  BY DEF MinVal, MaxVal
<1>2. pc' \in {"set", "done"} /\ (pc' = "done" => cdiv' = MinVal - 1 /\ tdoSampling' = 0)
  BY NextIs
<1>3. chip = At(cdiv, tdoSampling = 1) /\ cdiv \in MinVal..MaxVal /\ cdiv \in Int
  <2>1. cdiv >= MinVal
    BY DEF TypeInv
  <2>2. cdiv \in MinVal..MaxVal /\ cdiv \in Int
    BY <2>1, Types
  <2> QED
    BY <2>2 DEF ProbedInv
<1>4. ASSUME NEW s \in DOMAIN good'
      PROVE  /\ s.div5 = FALSE /\ s.div \in MinVal..MaxVal
             /\ Past(cdiv', tdoSampling', s.div, s.pedge)
  <2>1. CASE s = chip
    <3>1. s.div5 = FALSE /\ s.div = cdiv /\ s.pedge = (tdoSampling = 1)
      BY <1>3, <2>1, AtFields
    <3>2. Past(cdiv', tdoSampling', cdiv, tdoSampling = 1)
      BY <1>3, PastNext
    <3> QED
      BY <1>3, <3>1, <3>2
  <2>2. CASE s # chip
    <3>1. s \in DOMAIN good
      BY <2>2
    <3>2. s.div5 = FALSE /\ s.div \in MinVal..MaxVal /\ Past(cdiv, tdoSampling, s.div, s.pedge)
      BY <2>2, <3>1 DEF ProbedInv
    <3>3. s.pedge \in BOOLEAN /\ s.div \in Int
      <4>1. s \in Setting
        BY <3>1, Types
      <4>2. s.pedge \in BOOLEAN
        BY <3>2, <4>1, AtAll
      <4>3. s.div \in Int
        BY <3>2
      <4> QED
        BY <4>2, <4>3
    <3>4. Past(cdiv', tdoSampling', s.div, s.pedge)
      BY <3>2, <3>3, PastNext
    <3> QED
      BY <3>2, <3>4
  <2> QED
    BY <2>1, <2>2
<1>5. ASSUME NEW d \in MinVal..MaxVal, NEW e \in BOOLEAN, Past(cdiv', tdoSampling', d, e)
      PROVE  At(d, e) \in DOMAIN good'
  <2>1. d \in Int
    BY Types
  <2>2. Past(cdiv, tdoSampling, d, e) \/ (d = cdiv /\ e = (tdoSampling = 1))
    BY <1>5, <2>1, PastNext
  <2>3. CASE Past(cdiv, tdoSampling, d, e)
    BY <2>3 DEF ProbedInv
  <2>4. CASE d = cdiv /\ e = (tdoSampling = 1)
    BY <1>3, <2>4
  <2> QED
    BY <2>2, <2>3, <2>4
<1> QED
  BY <1>1, <1>2, <1>4, <1>5 DEF ProbedInv

(* What is said of a list says nothing of its ids. *)
LEMMA ListRenumbered ==
  ASSUME NEW gd, NEW c, NEW t, NEW a, NEW b, ListInv(gd, c, t, a), Len(b) = Len(a),
         \A i \in 1..Len(a) : b[i].div = a[i].div /\ b[i].pedge = a[i].pedge
  PROVE  ListInv(gd, c, t, b)
<1>1. ASSUME NEW i \in 1..Len(b) PROVE Kept(gd, b[i]) /\ Past(c, t, b[i].div, b[i].pedge)
  <2>1. Kept(gd, a[i]) /\ Past(c, t, a[i].div, a[i].pedge)
    BY DEF ListInv
  <2> QED
    BY <2>1 DEF Kept
<1>2. ASSUME NEW s \in DOMAIN gd, Past(c, t, s.div, s.pedge), gd[s] = Loop
      PROVE  \E i \in 1..Len(b) : s = At(b[i].div, b[i].pedge)
  <2>1. PICK i \in 1..Len(a) : s = At(a[i].div, a[i].pedge)
    BY <1>2 DEF ListInv
  <2> QED
    BY <2>1
<1>3. ASSUME NEW i \in 1..Len(b), NEW j \in 1..Len(b), i < j PROVE Earlier(b[i], b[j])
  <2>1. Earlier(a[i], a[j])
    BY <1>3 DEF ListInv
  <2> QED
    BY <2>1 DEF Earlier
<1> QED
  BY <1>1, <1>2, <1>3 DEF ListInv

LEMMA NextItems ==
  ASSUME TypeInv, TypeInv', pc = "probe", NEW list \in Seq(Item), NextSetting(list),
         Len(setup') = Len(list), UNCHANGED range,
         ListInv(good', cdiv', tdoSampling', list)
  PROVE  ItemsInv'
<1>1. CASE pc' = "set"
  <2>1. setup' = list
    BY <1>1, NextIs
  <2> QED
    BY <1>1, <2>1 DEF ItemsInv
<1>2. CASE pc' = "done"
  <2>1. setup' = FTDIFinalize(list) /\ range \in Ranges
    BY <1>2, NextIs, Types
  <2>2. Len(list) <= 2 * (MaxVal - MinVal + 1)
    <3>1. /\ MaxVal \in Int /\ MinVal \in Int /\ cdiv' = MinVal - 1 /\ tdoSampling' = 0
          /\ MaxVal' = MaxVal
      BY <1>2, NextIs, Types DEF MaxVal
    <3>2. Len(list) <= 2 * (MaxVal' - cdiv') + tdoSampling' /\ Len(list) \in Nat
      BY LenProperties DEF TypeInv
    <3> QED
      BY <3>1, <3>2
  <2>3. \A i \in 1..Len(list) :
          /\ setup'[i].id = Len(list) - i
          /\ setup'[i].div = list[i].div /\ setup'[i].pedge = list[i].pedge
    BY <2>1, <2>2, FinalizeTypes
  <2>4. ListInv(good', cdiv', tdoSampling', setup')
    BY <2>3, ListRenumbered
  <2> QED
    BY <2>3, <2>4 DEF ItemsInv
<1> QED
  BY <1>1, <1>2, NextIs
-----------------------------------------------------------------------------
(* The steps.                                                              *)

LEMMA SetClockKeeps == ClockRange /\ SweepInv /\ SetClock => SweepInv'
<1> SUFFICES ASSUME ClockRange, SweepInv, SetClock PROVE SweepInv'
  OBVIOUS
<1>1. /\ pc = "set" /\ match' = 0 /\ pc' = (IF cdiv = -1 THEN "crashed" ELSE "probe")
      /\ chip' = SetClockDiv([chip EXCEPT !.pedge = (tdoSampling = 1)], FALSE, cdiv)
      /\ UNCHANGED <<range, cdiv, tdoSampling, setup, good>>
  BY DEF SetClock
<1>2. TypeInv /\ TypeInv'
  BY SetClockTypes DEF SweepInv
<1>3. cdiv \in MinVal..MaxVal /\ 0 <= MinVal /\ MinVal \in Int
  <2>1. cdiv >= MinVal /\ range \in Ranges
    BY <1>1, <1>2, Types DEF TypeInv
  <2>2. cdiv \in Int /\ cdiv <= MaxVal /\ MinVal \in Int /\ MaxVal \in Int
    BY <1>2, Types
  <2> QED
    BY <2>1, <2>2, InClockRange
<1>4. pc' = "probe"
  <2>1. cdiv # -1
    BY <1>3
  <2> QED
    BY <1>1, <2>1
<1>5. chip' = At(cdiv, tdoSampling = 1)
  <2>1. DivisorWord(cdiv) = cdiv
    BY <1>2, <1>3, InClockRange, Types
  <2>2. chip \in Setting /\ (tdoSampling = 1) \in BOOLEAN /\ cdiv \in Int
    BY <1>2, Types
  <2> QED
    BY <1>1, <2>1, <2>2, ChipSet
<1>6. MinVal' = MinVal /\ MaxVal' = MaxVal
  BY <1>1 DEF MinVal, MaxVal
<1>7. ProbedInv'
  <2>1. \A s \in DOMAIN good :
          s.div5 = FALSE /\ s.div \in MinVal..MaxVal /\ Past(cdiv, tdoSampling, s.div, s.pedge)
    BY <1>1 DEF SweepInv, ProbedInv
  <2>2. \A d \in MinVal..MaxVal, e \in BOOLEAN :
          Past(cdiv, tdoSampling, d, e) => At(d, e) \in DOMAIN good
    BY DEF SweepInv, ProbedInv
  <2>3. ~(match' > 0)
    BY <1>1
  <2> QED
    BY <1>1, <1>4, <1>5, <1>6, <2>1, <2>2, <2>3 DEF ProbedInv
<1>8. ItemsInv'
  BY <1>1, <1>4 DEF SweepInv, ItemsInv
<1> QED
  BY <1>2, <1>7, <1>8 DEF SweepInv

(* A probe changes nothing of what is said of the items kept. *)
LEMMA ListKept ==
  ASSUME SweepInv, pc = "probe",
         DOMAIN good' = DOMAIN good \cup {chip},
         \A s \in DOMAIN good : s # chip => good'[s] = good[s]
  PROVE  ListInv(good', cdiv, tdoSampling, setup)
<1>1. TypeInv /\ ProbedInv /\ ListInv(good, cdiv, tdoSampling, setup)
  BY DEF SweepInv, ItemsInv
<1>2. ASSUME NEW i \in 1..Len(setup)
      PROVE  Kept(good', setup[i]) /\ Past(cdiv, tdoSampling, setup[i].div, setup[i].pedge)
  <2>1. Kept(good, setup[i]) /\ Past(cdiv, tdoSampling, setup[i].div, setup[i].pedge)
    BY <1>1 DEF ListInv
  <2> DEFINE s == At(setup[i].div, setup[i].pedge)
  <2>2. s \in DOMAIN good /\ good[s] = Loop
    BY <2>1 DEF Kept
  <2>3. s.div = setup[i].div /\ s.pedge = setup[i].pedge
    BY AtFields
  <2> HIDE DEF s
  <2>4. s # chip
    BY <1>1, <2>1, <2>3, NotPast
  <2>5. s \in DOMAIN good' /\ good'[s] = Loop
    BY <2>2, <2>4
  <2> QED
    BY <2>1, <2>5 DEF Kept, s
<1>3. ASSUME NEW s \in DOMAIN good', Past(cdiv, tdoSampling, s.div, s.pedge), good'[s] = Loop
      PROVE  \E i \in 1..Len(setup) : s = At(setup[i].div, setup[i].pedge)
  <2>1. s # chip
    BY <1>1, <1>3, NotPast
  <2>2. s \in DOMAIN good /\ good[s] = Loop
    BY <1>3, <2>1
  <2> QED
    BY <1>1, <1>3, <2>2 DEF ListInv
<1>4. \A i, j \in 1..Len(setup) : i < j => Earlier(setup[i], setup[j])
  BY <1>1 DEF ListInv
<1> QED
  BY <1>2, <1>3, <1>4 DEF ListInv

LEMMA MatchesKeeps == SweepInv /\ ProbeMatches => SweepInv'
<1> SUFFICES ASSUME SweepInv, ProbeMatches PROVE SweepInv'
  OBVIOUS
<1>1. /\ pc = "probe" /\ match < Loop /\ match' = match + 1
      /\ good' = [s \in DOMAIN good \cup {chip} |-> IF s = chip THEN match' ELSE good[s]]
      /\ UNCHANGED <<range, pc, cdiv, tdoSampling, setup, chip>>
  BY DEF ProbeMatches
<1>2. TypeInv /\ TypeInv' /\ ProbedInv
  BY MatchesTypes DEF SweepInv
<1>3. /\ DOMAIN good' = DOMAIN good \cup {chip} /\ good'[chip] = match'
      /\ \A s \in DOMAIN good : s # chip => good'[s] = good[s]
  BY <1>1
<1>4. MinVal' = MinVal /\ MaxVal' = MaxVal
  BY <1>1 DEF MinVal, MaxVal
<1>5. match' > 0
  BY <1>1, <1>2, Types
<1>6. chip = At(cdiv, tdoSampling = 1) /\ cdiv \in MinVal..MaxVal
  <2>1. cdiv >= MinVal
    BY <1>1, <1>2 DEF TypeInv
  <2>2. cdiv \in MinVal..MaxVal
    BY <1>2, <2>1, Types
  <2> QED
    BY <1>1, <1>2, <2>2 DEF ProbedInv
<1>7. ASSUME NEW s \in DOMAIN good'
      PROVE  /\ s.div5 = FALSE /\ s.div \in MinVal..MaxVal
             /\ Past(cdiv, tdoSampling, s.div, s.pedge) \/ s = chip
  <2>1. CASE s = chip
    BY <1>6, <2>1, AtFields
  <2>2. CASE s # chip
    BY <1>2, <1>3, <2>2 DEF ProbedInv
  <2> QED
    BY <2>1, <2>2
<1>8. \A d \in MinVal..MaxVal, e \in BOOLEAN :
        Past(cdiv, tdoSampling, d, e) => At(d, e) \in DOMAIN good'
  BY <1>2, <1>3 DEF ProbedInv
<1>9. ProbedInv'
  <2>1. chip \in DOMAIN good'
    BY <1>3
  <2> HIDE <1>1
  <2>2. pc = "probe" /\ UNCHANGED <<pc, cdiv, tdoSampling, chip>>
    BY <1>1
  <2> QED
    BY <1>3, <1>4, <1>5, <1>6, <1>7, <1>8, <2>1, <2>2 DEF ProbedInv
<1>10. ItemsInv'
  <2>1. ListInv(good', cdiv, tdoSampling, setup)
    BY <1>1, <1>3, ListKept
  <2> QED
    BY <1>1, <2>1 DEF ItemsInv
<1> QED
  BY <1>2, <1>9, <1>10 DEF SweepInv

(* The list with the setting that was probed, if it passed, is the list of *)
(* the next setting.                                                       *)
LEMMA DiffersKeeps == SweepInv /\ ProbeDiffers => SweepInv'
<1> SUFFICES ASSUME SweepInv, ProbeDiffers PROVE SweepInv'
  OBVIOUS
<1>1. /\ pc = "probe" /\ match < Loop /\ NextSetting(setup)
      /\ good' = [s \in DOMAIN good \cup {chip} |-> IF s = chip THEN 0 ELSE good[s]]
      /\ UNCHANGED <<range, match, chip>>
  BY DEF ProbeDiffers
<1>2. TypeInv /\ TypeInv' /\ ProbedInv /\ Len(setup') = Len(setup)
  BY DiffersTypes DEF SweepInv
<1>3. /\ DOMAIN good' = DOMAIN good \cup {chip} /\ good'[chip] = 0
      /\ \A s \in DOMAIN good : s # chip => good'[s] = good[s]
  BY <1>1
<1>4. Loop # 0
  BY <1>1, <1>2, Types
<1>5. ProbedInv'
  BY <1>1, <1>2, <1>3, NextProbed
<1>6. ListInv(good', cdiv, tdoSampling, setup)
  BY <1>1, <1>3, ListKept
<1>7. ListInv(good', cdiv', tdoSampling', setup)
  <2>1. ASSUME NEW i \in 1..Len(setup)
        PROVE  /\ Kept(good', setup[i])
               /\ Past(cdiv', tdoSampling', setup[i].div, setup[i].pedge)
    <3>1. Kept(good', setup[i]) /\ Past(cdiv, tdoSampling, setup[i].div, setup[i].pedge)
      BY <1>6 DEF ListInv
    <3>2. setup[i].div \in Int /\ setup[i].pedge \in BOOLEAN
      <4>1. setup[i] \in Item
        BY <1>2, Types
      <4>2. setup[i].div \in MinVal..MaxVal /\ setup[i].pedge \in BOOLEAN
        BY <4>1 DEF Item
      <4> QED
        BY <4>2
    <3>3. Past(cdiv', tdoSampling', setup[i].div, setup[i].pedge)
      <4> DEFINE d == setup[i].div
                 e == setup[i].pedge
      <4>1. d \in Int /\ e \in BOOLEAN /\ Past(cdiv, tdoSampling, d, e)
        BY <3>1, <3>2
      <4> HIDE DEF d, e
      <4>2. Past(cdiv', tdoSampling', d, e)
        BY <1>1, <1>2, <4>1, PastNext
      <4> QED
        BY <4>2 DEF d, e
    <3> QED
      BY <3>1, <3>3
  <2>2. ASSUME NEW s \in DOMAIN good', Past(cdiv', tdoSampling', s.div, s.pedge), good'[s] = Loop
        PROVE  \E i \in 1..Len(setup) : s = At(setup[i].div, setup[i].pedge)
    <3>1. s # chip /\ s \in DOMAIN good
      BY <1>3, <1>4, <2>2
    <3>2. Past(cdiv, tdoSampling, s.div, s.pedge)
      BY <1>1, <1>2, <3>1 DEF ProbedInv
    <3> QED
      BY <1>6, <2>2, <3>2 DEF ListInv
  <2>3. \A i, j \in 1..Len(setup) : i < j => Earlier(setup[i], setup[j])
    BY <1>6 DEF ListInv
  <2> QED
    BY <2>1, <2>2, <2>3 DEF ListInv
<1>8. ItemsInv'
  <2>1. setup \in Seq(Item)
    BY <1>2, Types
  <2> QED
    BY <1>1, <1>2, <1>7, <2>1, NextItems
<1> QED
  BY <1>2, <1>5, <1>8 DEF SweepInv

LEMMA KeepKeeps == Loop # 0 /\ SweepInv /\ Keep => SweepInv'
<1> SUFFICES ASSUME Loop # 0, SweepInv, Keep PROVE SweepInv'
  OBVIOUS
<1>1. PICK it : it = NewItem
  OBVIOUS
<1> DEFINE n == Len(setup)
           list == Append(setup, it)
<1>2. /\ pc = "probe" /\ match = Loop /\ NextSetting(list)
      /\ UNCHANGED <<range, match, chip, good>>
      /\ it \in Item /\ it.div = cdiv /\ it.pedge = (tdoSampling = 1)
  BY <1>1, KeepList DEF SweepInv
<1>3. TypeInv /\ TypeInv' /\ ProbedInv /\ Len(setup') = n + 1
  BY KeepTypes DEF SweepInv
<1>4. /\ list \in Seq(Item) /\ Len(list) = n + 1 /\ list[n + 1] = it
      /\ \A i \in 1..n : list[i] = setup[i]
  BY <1>2, <1>3, Types, AppendProperties
<1> HIDE DEF list
<1>5. chip = At(it.div, it.pedge) /\ chip \in DOMAIN good /\ good[chip] = Loop
  <2>1. match > 0
    BY <1>2, <1>3, Types
  <2>2. chip = At(cdiv, tdoSampling = 1) /\ chip \in DOMAIN good /\ good[chip] = match
    BY <1>2, <1>3, <2>1 DEF ProbedInv
  <2> QED
    BY <1>2, <2>2
<1>6. ProbedInv'
  <2>1. DOMAIN good' = DOMAIN good \cup {chip}
    BY <1>2, <1>5
  <2> QED
    BY <1>2, <1>3, <2>1, NextProbed
<1>7. n \in Nat /\ ListInv(good, cdiv, tdoSampling, setup)
  BY <1>3, Types DEF SweepInv, ItemsInv
<1>8. ASSUME NEW i \in 1..n + 1, i # n + 1 PROVE i \in 1..n /\ list[i] = setup[i]
  <2>1. i \in 1..n
    <3>1. n \in Nat
      BY <1>7
    <3> HIDE DEF n
    <3> QED
      BY <1>8, <3>1
  <2> QED
    BY <1>4, <2>1
<1>9. ASSUME NEW i \in 1..n
      PROVE  /\ Kept(good, setup[i]) /\ Past(cdiv, tdoSampling, setup[i].div, setup[i].pedge)
             /\ setup[i].div \in Int /\ setup[i].pedge \in BOOLEAN
  <2>1. Kept(good, setup[i]) /\ Past(cdiv, tdoSampling, setup[i].div, setup[i].pedge)
    BY <1>7 DEF ListInv
  <2>2. setup[i] \in Item
    BY <1>3, Types
  <2>3. setup[i].div \in MinVal..MaxVal /\ setup[i].pedge \in BOOLEAN
    BY <2>2 DEF Item
  <2>4. setup[i].div \in Int
    BY <2>3
  <2> QED
    BY <2>1, <2>3, <2>4
<1>10. ASSUME NEW d \in Int, NEW e \in BOOLEAN
       PROVE  Past(cdiv', tdoSampling', d, e)
                <=> Past(cdiv, tdoSampling, d, e) \/ (d = cdiv /\ e = (tdoSampling = 1))
  BY <1>2, <1>3, PastNext
<1>11. ListInv(good, cdiv', tdoSampling', list)
  <2>1. ASSUME NEW i \in 1..n + 1
        PROVE  /\ Kept(good, list[i])
               /\ Past(cdiv', tdoSampling', list[i].div, list[i].pedge)
    <3>1. CASE i = n + 1
      <4>1. Kept(good, it)
        BY <1>5 DEF Kept
      <4>2. cdiv \in Int /\ (tdoSampling = 1) \in BOOLEAN
        BY <1>3, Types
      <4>3. Past(cdiv', tdoSampling', cdiv, tdoSampling = 1)
        BY <1>10, <4>2
      <4> QED
        BY <1>2, <1>4, <3>1, <4>1, <4>3
    <3>2. CASE i # n + 1
      <4>1. i \in 1..n /\ list[i] = setup[i]
        BY <1>8, <3>2
      <4> QED
        BY <1>9, <1>10, <4>1
    <3> QED
      BY <3>1, <3>2
  <2>2. ASSUME NEW s \in DOMAIN good, Past(cdiv', tdoSampling', s.div, s.pedge), good[s] = Loop
        PROVE  \E i \in 1..n + 1 : s = At(list[i].div, list[i].pedge)
    <3>1. CASE s = chip
      <4>1. n + 1 \in 1..n + 1
        BY <1>7
      <4> QED
        BY <1>4, <1>5, <3>1, <4>1
    <3>2. CASE s # chip
      <4>1. Past(cdiv, tdoSampling, s.div, s.pedge)
        BY <1>3, <3>2 DEF ProbedInv
      <4>2. PICK i \in 1..n : s = At(setup[i].div, setup[i].pedge)
        BY <1>7, <2>2, <4>1 DEF ListInv
      <4>3. i \in 1..n + 1 /\ list[i] = setup[i]
        BY <1>4, <1>7
      <4> QED
        BY <4>2, <4>3
    <3> QED
      BY <3>1, <3>2
  <2>3. ASSUME NEW i \in 1..n + 1, NEW j \in 1..n + 1, i < j PROVE Earlier(list[i], list[j])
    <3>1. i # n + 1
      BY <1>7, <2>3
    <3>2. i \in 1..n /\ list[i] = setup[i]
      BY <1>8, <3>1
    <3>3. CASE j = n + 1
      <4>1. Past(cdiv, tdoSampling, setup[i].div, setup[i].pedge)
        BY <1>9, <3>2
      <4> QED
        BY <1>2, <1>4, <3>2, <3>3, <4>1 DEF Past, Earlier
    <3>4. CASE j # n + 1
      <4>1. j \in 1..n /\ list[j] = setup[j]
        BY <1>8, <3>4
      <4> QED
        BY <1>7, <2>3, <3>2, <4>1 DEF ListInv
    <3> QED
      BY <3>3, <3>4
  <2> HIDE DEF n
  <2> QED
    BY <1>4, <2>1, <2>2, <2>3 DEF ListInv
<1>12. ItemsInv'
  BY <1>2, <1>3, <1>4, <1>11, NextItems
<1> QED
  BY <1>3, <1>6, <1>12 DEF SweepInv

LEMMA SweepInit == ClockRange /\ Init => SweepInv
<1> SUFFICES ASSUME ClockRange, Init PROVE SweepInv
  OBVIOUS
<1>1. TypeInv
  BY TypeInit
<1>2. /\ pc = "set" /\ cdiv = MaxVal /\ tdoSampling = 0 /\ setup = <<>> /\ Len(setup) = 0
      /\ DOMAIN good = {}
  <2>1. range \in Ranges
    BY DEF Init
  <2>2. ~Dies /\ MinVal \in Int /\ MaxVal \in Int /\ MaxVal >= MinVal
    BY <2>1, Bounds, InClockRange
  <2> QED
    BY <2>2 DEF Init
<1>3. \A d \in MinVal..MaxVal : ~(d > MaxVal)
  BY <1>1, Types
<1>4. ProbedInv
  BY <1>2, <1>3 DEF ProbedInv, Past
<1>5. ItemsInv
  BY <1>2 DEF ItemsInv, ListInv
<1> QED
  BY <1>1, <1>4, <1>5 DEF SweepInv

LEMMA SweepStutter == SweepInv /\ UNCHANGED vars => SweepInv'
<1> SUFFICES ASSUME SweepInv, UNCHANGED vars PROVE SweepInv'
  OBVIOUS
<1>1. TypeInv'
  BY TypeStutter DEF SweepInv
<1>2. ProbedInv'
  BY DEF SweepInv, ProbedInv, vars, MinVal, MaxVal
<1>3. ItemsInv'
  BY DEF SweepInv, ItemsInv, vars
<1> QED
  BY <1>1, <1>2, <1>3 DEF SweepInv

(* The invariant of the sweep. *)
THEOREM Invariance ==
  ASSUME ClockRange, Loop # 0
  PROVE  Spec => []SweepInv
<1>1. SweepInv /\ [Next]_vars => SweepInv'
  BY SetClockKeeps, MatchesKeeps, DiffersKeeps, KeepKeeps, SweepStutter DEF Next
<1> QED
  BY <1>1, SweepInit, PTL DEF Spec
-----------------------------------------------------------------------------
(* What the properties say of the items.                                   *)

LEMMA AppliedIs ==
  ASSUME TypeInv, ClockRange, NEW item \in Item
  PROVE  /\ Applied(item) = At(item.div, item.pedge)
         /\ item.div \in Nat /\ item.pedge \in BOOLEAN
<1>1. item.div \in MinVal..MaxVal /\ item.pedge \in BOOLEAN
  BY DEF Item
<1>2. DivisorWord(item.div) = item.div /\ 0 <= MinVal /\ MinVal \in Int
  BY <1>1, InClockRange, Types
<1>3. item.div \in Nat /\ item.div \in Int
  BY <1>1, <1>2
<1>4. chip \in Setting
  BY Types
<1> DEFINE d == item.div
           e == item.pedge
<1>5. d \in Int /\ e \in BOOLEAN /\ DivisorWord(d) = d
  BY <1>1, <1>2, <1>3
<1>6. Applied(item) = SetClockDiv([chip EXCEPT !.pedge = e], FALSE, d)
  BY DEF Applied
<1> HIDE DEF d, e
<1>7. Applied(item) = At(d, e)
  BY <1>4, <1>5, <1>6, ChipSet
<1> QED
  BY <1>1, <1>3, <1>7 DEF d, e

LEMMA ItemFacts ==
  ASSUME ClockRange, SweepInv, NEW i \in DOMAIN setup
  PROVE  /\ Applied(setup[i]) = At(setup[i].div, setup[i].pedge)
         /\ LET s == Applied(setup[i]) IN
            s.div5 = FALSE /\ s.div = setup[i].div /\ s.pedge = setup[i].pedge
         /\ Applied(setup[i]) \in DOMAIN good /\ good[Applied(setup[i])] = Loop
         /\ setup[i].freq = FrequencyByDivisor(FALSE, setup[i].div)
         /\ setup[i].pedge \in BOOLEAN /\ setup[i].div \in Nat /\ setup[i].freq \in Nat
<1>1. TypeInv
  BY DEF SweepInv
<1>2. i \in 1..Len(setup) /\ setup[i] \in Item
  BY <1>1, Types
<1>3. Applied(setup[i]) = At(setup[i].div, setup[i].pedge)
      /\ setup[i].pedge \in BOOLEAN /\ setup[i].div \in Nat
  BY <1>1, <1>2, AppliedIs
<1>6. setup[i].freq = FrequencyByDivisor(FALSE, setup[i].div) /\ setup[i].freq \in Nat
  <2>1. setup[i].freq = FrequencyByDivisor(FALSE, setup[i].div)
    BY <1>1, <1>2 DEF TypeInv
  <2> DEFINE d == setup[i].div
  <2>2. d \in Nat /\ d \in Int
    BY <1>3
  <2> HIDE DEF d
  <2>3. FrequencyByDivisor(FALSE, d) \in Nat
    BY <2>2, FrequencyIs
  <2> QED
    BY <2>1, <2>3 DEF d
<1>4. Kept(good, setup[i])
  BY <1>2 DEF SweepInv, ItemsInv, ListInv
<1>5. LET s == Applied(setup[i]) IN
      s.div5 = FALSE /\ s.div = setup[i].div /\ s.pedge = setup[i].pedge
  <2> DEFINE d == setup[i].div
             e == setup[i].pedge
  <2>1. Applied(setup[i]) = At(d, e)
    BY <1>3
  <2> HIDE DEF d, e
  <2>2. At(d, e).div5 = FALSE /\ At(d, e).div = d /\ At(d, e).pedge = e
    BY AtFields
  <2> QED
    BY <2>1, <2>2 DEF d, e
<1> QED
  BY <1>2, <1>3, <1>4, <1>5, <1>6 DEF Kept

(* At the setting of an item the last Loop probes all matched (lines 42 to *)
(* 69).                                                                    *)
THEOREM ItemsAlwaysProbed ==
  ASSUME ClockRange, Loop # 0
  PROVE  Spec => []ItemsProbed
<1>1. SweepInv => ItemsProbed
  BY ItemFacts DEF ItemsProbed
<1> QED
  BY <1>1, Invariance, PTL

(* The frequency of an item is the one the chip runs at (lines 43, 44).    *)
THEOREM FrequencyAlwaysRecorded ==
  ASSUME ClockRange, Loop # 0
  PROVE  Spec => []RecordedFrequency
<1>1. SweepInv => RecordedFrequency
  BY ItemFacts DEF RecordedFrequency
<1> QED
  BY <1>1, Invariance, PTL

(* When the sweep is done every setting of the range was probed.           *)
LEMMA AllProbed ==
  ASSUME ClockRange, SweepInv, pc = "done", NEW d \in MinVal..MaxVal, NEW e \in BOOLEAN
  PROVE  [div5 |-> FALSE, div |-> DivisorWord(d), pedge |-> e] \in DOMAIN good
<1>1. cdiv = MinVal - 1 /\ tdoSampling = 0 /\ MinVal \in Int /\ range \in Ranges
  BY Types DEF SweepInv, ProbedInv
<1>2. d > cdiv
  BY <1>1
<1>3. At(d, e) \in DOMAIN good
  BY <1>2 DEF SweepInv, ProbedInv, Past
<1>4. DivisorWord(d) = d
  BY <1>1, InClockRange
<1> QED
  BY <1>3, <1>4 DEF At

(* The settings that passed are those of the items.                        *)
LEMMA PassedAreItems ==
  ASSUME ClockRange, SweepInv, pc = "done"
  PROVE  /\ {s \in DOMAIN good : good[s] = Loop} = {Applied(setup[i]) : i \in DOMAIN setup}
         /\ \A s \in DOMAIN good : good[s] = Loop =>
              \E i \in DOMAIN setup : s = Applied(setup[i])
<1>1. DOMAIN setup = 1..Len(setup)
  BY Types DEF SweepInv
<1>2. ASSUME NEW s \in DOMAIN good, good[s] = Loop
      PROVE  \E i \in DOMAIN setup : s = Applied(setup[i])
  <2>1. Past(cdiv, tdoSampling, s.div, s.pedge)
    BY <1>2 DEF SweepInv, ProbedInv
  <2>2. PICK i \in 1..Len(setup) : s = At(setup[i].div, setup[i].pedge)
    BY <1>2, <2>1 DEF SweepInv, ItemsInv, ListInv
  <2> QED
    BY <1>1, <2>2, ItemFacts
<1>3. \A i \in DOMAIN setup :
        Applied(setup[i]) \in DOMAIN good /\ good[Applied(setup[i])] = Loop
  BY ItemFacts
<1> QED
  BY <1>2, <1>3

(* The item of maximum frequency: no setting that passed is faster, and of *)
(* its divisor the negative edge goes first.                               *)
LEMMA FastestIsBest ==
  ASSUME ClockRange, SweepInv, setup # <<>>,
         NEW item, item = FTDIItemByMaxFrequency(setup)
  PROVE  \E k \in DOMAIN setup :
           /\ item = setup[k]
           /\ \A i \in DOMAIN setup :
                /\ setup[i].freq <= setup[k].freq
                /\ setup[k].pedge /\ setup[k].div = setup[i].div => setup[i].pedge
<1> DEFINE n == Len(setup)
           d == [j \in 1..n |-> -setup[j].freq]
<1>1. n \in Nat \ {0} /\ DOMAIN setup = 1..n /\ setup \in Seq(Item)
  <2>1. n \in Nat /\ DOMAIN setup = 1..n /\ setup \in Seq(Item)
    BY Types DEF SweepInv
  <2>2. n # 0
    BY <2>1, EmptySeq
  <2> HIDE DEF n
  <2> QED
    BY <2>1, <2>2
<1>2. \A j \in 1..n : setup[j].freq \in Nat
  BY <1>1, ItemFacts
<1>3. Listing(setup, n)
  BY <1>1, <1>2 DEF Listing
<1>4. PICK k : Best(d, 1..n, k) /\ item = setup[k]
  <2> HIDE DEF n
  <2> QED
    BY <1>1, <1>3, ItemByMaxFrequencyIs DEF FTDIItemByMaxFrequency
<1>5. k \in 1..n
  BY <1>4 DEF Best
<1>6. ASSUME NEW i \in 1..n
      PROVE  setup[i].freq <= setup[k].freq /\ (i < k => setup[k].freq # setup[i].freq)
  <2>1. d[k] <= d[i] /\ (i < k => d[k] < d[i])
    <3> HIDE DEF d
    <3> QED
      BY <1>4 DEF Best
  <2>2. d[k] = -setup[k].freq /\ d[i] = -setup[i].freq
    BY <1>5
  <2>3. setup[k].freq \in Nat /\ setup[i].freq \in Nat
    BY <1>2, <1>5
  <2> HIDE DEF d
  <2> QED
    BY <2>1, <2>2, <2>3
<1>7. ASSUME NEW i \in 1..n, setup[k].pedge, setup[k].div = setup[i].div, ~setup[i].pedge
      PROVE  FALSE
  <2>1. /\ setup[i].freq = FrequencyByDivisor(FALSE, setup[i].div)
        /\ setup[k].freq = FrequencyByDivisor(FALSE, setup[k].div)
        /\ setup[i].div \in Nat
    BY <1>1, <1>5, ItemFacts
  <2>2. ~(i < k)
    BY <1>6, <1>7, <2>1
  <2>3. i # k
    BY <1>7
  <2>4. k < i
    <3>1. n \in Nat
      BY <1>1
    <3> HIDE DEF n
    <3> QED
      BY <1>5, <2>2, <2>3
  <2>5. Earlier(setup[k], setup[i])
    BY <1>5, <2>4 DEF SweepInv, ItemsInv, ListInv
  <2>6. ~(setup[k].div > setup[i].div)
    BY <1>7, <2>1
  <2> QED
    BY <1>7, <2>5, <2>6 DEF Earlier
<1> QED
  BY <1>1, <1>4, <1>5, <1>6, <1>7

(* Every setting of the range was probed, the items are exactly those that *)
(* passed, the default is a fastest of them, on the negative edge where it *)
(* can be, and a file keeps every item under its id (lines 31 to 80).      *)
THEOREM NothingEverMissed ==
  ASSUME ClockRange, Loop # 0
  PROVE  Spec => []NothingMissed
<1>1. SweepInv => NothingMissed
  <2> SUFFICES ASSUME SweepInv, pc = "done" PROVE NothingMissed
    BY DEF NothingMissed
  <2> DEFINE loaded == FTDILoadFile(FTDISaveFile(setup))
             passed == {s \in DOMAIN good : good[s] = Loop}
             n == Len(setup)
  <2>1. n \in Nat /\ DOMAIN setup = 1..n /\ setup \in Seq(Item)
    BY Types DEF SweepInv
  <2>2. Listing(setup, n)
    BY <2>1, ItemFacts DEF Listing
  <2>3. /\ \A id : ItemById(loaded, id) = ItemById(setup, id)
        /\ ItemByMaxFrequency(loaded) = ItemByMaxFrequency(setup)
    <3>1. loaded = LoadFile(SaveFile(setup))
      BY DEF FTDILoadFile, FTDISaveFile
    <3> HIDE DEF loaded
    <3> QED
      BY <2>1, <2>2, <3>1, LoadedSelects
  <2>4. \A d \in MinVal..MaxVal, e \in BOOLEAN :
          [div5 |-> FALSE, div |-> DivisorWord(d), pedge |-> e] \in DOMAIN good
    BY AllProbed
  <2>5. passed = {Applied(setup[i]) : i \in DOMAIN setup}
    BY PassedAreItems
  <2>6. ASSUME setup # <<>>
        PROVE  LET best == Applied(FTDIItemByMaxFrequency(loaded)) IN
               /\ best \in passed
               /\ \A s \in passed :
                    /\ FrequencyByDivisor(s.div5, s.div) <= FrequencyByDivisor(best.div5, best.div)
                    /\ best.pedge /\ best.div = s.div => s.pedge
    <3>1. PICK item : item = FTDIItemByMaxFrequency(setup)
      OBVIOUS
    <3>2. FTDIItemByMaxFrequency(loaded) = item
      BY <2>3, <3>1 DEF FTDIItemByMaxFrequency
    <3>3. PICK k \in DOMAIN setup :
            /\ item = setup[k]
            /\ \A i \in DOMAIN setup :
                 /\ setup[i].freq <= setup[k].freq
                 /\ setup[k].pedge /\ setup[k].div = setup[i].div => setup[i].pedge
      BY <2>6, <3>1, FastestIsBest
    <3> DEFINE best == Applied(item)
    <3>4. /\ best \in passed /\ best.div5 = FALSE
          /\ best.div = setup[k].div /\ best.pedge = setup[k].pedge
          /\ setup[k].freq = FrequencyByDivisor(FALSE, setup[k].div)
      <4>1. best = Applied(setup[k])
        BY <3>3
      <4> HIDE DEF best
      <4> QED
        BY <4>1, ItemFacts
    <3>5. ASSUME NEW s \in passed
          PROVE  /\ FrequencyByDivisor(s.div5, s.div) <= FrequencyByDivisor(best.div5, best.div)
                 /\ best.pedge /\ best.div = s.div => s.pedge
      <4>1. PICK i \in DOMAIN setup : s = Applied(setup[i])
        BY PassedAreItems
      <4>2. /\ s.div5 = FALSE /\ s.div = setup[i].div /\ s.pedge = setup[i].pedge
            /\ setup[i].freq = FrequencyByDivisor(FALSE, setup[i].div)
        BY <4>1, ItemFacts
      <4> HIDE DEF best, passed
      <4> QED
        BY <3>3, <3>4, <4>2
    <3> QED
      BY <3>2, <3>4, <3>5
  <2>7. ASSUME NEW i \in DOMAIN setup PROVE FTDIItemById(loaded, n - i) = setup[i]
    <3>1. \A j \in 1..n : setup[j].id = n - j
      BY DEF SweepInv, ItemsInv
    <3> DEFINE id == n - i
    <3>2. setup[i].id = id /\ i \in 1..n
      BY <2>1, <3>1
    <3> HIDE DEF id, n
    <3>3. PICK k \in 1..i : setup[k].id = id /\ ItemById(setup, id) = setup[k]
      BY <2>1, <3>2, ItemByIdIs DEF n
    <3>4. k \in 1..n
      BY <2>1, <3>2
    <3>5. n - k = n - i
      BY <3>1, <3>3, <3>4 DEF id
    <3>6. k = i
      BY <2>1, <3>2, <3>4, <3>5
    <3> QED
      BY <2>3, <3>3, <3>6 DEF FTDIItemById, id
  <2> QED
    BY <2>4, <2>5, <2>6, <2>7 DEF NothingMissed
<1> QED
  BY <1>1, Invariance, PTL
=============================================================================
