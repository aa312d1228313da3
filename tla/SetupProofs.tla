---------------------------- MODULE SetupProofs ----------------------------
(***************************************************************************)
(* What the loops of AXISetup and FTDISetup over their lists compute, for  *)
(* every list: the choice of an item, and what a saved list loads as.      *)
(*                                                                         *)
(* The loops are folds, which the library defines by recursive functions   *)
(* that are CHOSEN.  For each of them the proof gives a function that      *)
(* satisfies the recursion, so that the chosen one does, and follows the   *)
(* chosen one up to the least place where it could go wrong.               *)
(***************************************************************************)
EXTENDS AXISetup, FTDIClock, SequenceTheorems, WellFoundedInduction, TLAPS

Less == {ss \in Nat \X Nat : ss[1] < ss[2]}

(* A set of natural numbers has a least one. *)
LEMMA LeastOf ==
  ASSUME NEW S, S \subseteq Nat, S # {}
  PROVE  \E x \in S : \A y \in S : x <= y
<1>1. IsWellFoundedOn(Less, Nat)
  BY NatLessThanWellFounded DEF OpToRel, Less
<1>2. PICK x \in S : \A y \in S : <<y, x>> \notin Less
  BY <1>1, WFMin
<1>3. \A y \in S : x <= y
  <2> SUFFICES ASSUME NEW y \in S PROVE x <= y
    OBVIOUS
  <2>1. x \in Nat /\ y \in Nat /\ <<y, x>> \notin Less
    BY <1>2
  <2>2. ~(y < x)
    BY <2>1 DEF Less
  <2> QED
    BY <2>1, <2>2
<1> QED
  BY <1>3

LEMMA MinOf ==
  ASSUME NEW S, S \subseteq Nat, S # {}
  PROVE  Min(S) \in S /\ \A y \in S : Min(S) <= y
<1>1. \E x \in S : \A y \in S : x <= y
  BY LeastOf
<1> QED
  BY <1>1, Zenon DEF Min

(* What holds of 0, and of the next number whenever it holds of one, holds *)
(* up to n: good is the set of numbers it holds of.                        *)
LEMMA UpTo ==
  ASSUME NEW n \in Nat, NEW good, 0 \in good, \A k \in 0..n - 1 : k \in good => k + 1 \in good
  PROVE  n \in good
<1> DEFINE S == {k \in 0..n : k \notin good}
<1> SUFFICES ASSUME n \notin good PROVE FALSE
  OBVIOUS
<1>1. S \subseteq Nat /\ n \in S
  OBVIOUS
<1>2. PICK x \in S : \A y \in S : x <= y
  BY <1>1, LeastOf
<1>3. x \in 0..n /\ x \notin good
  BY <1>2
<1>4. x # 0
  BY <1>3
<1>5. x - 1 \in 0..n - 1 /\ ~(x <= x - 1) /\ x - 1 \in 0..n /\ (x - 1) + 1 = x
  BY <1>3, <1>4
<1>6. x - 1 \in good
  BY <1>2, <1>5
<1>7. x \in good
  BY <1>5, <1>6
<1> QED
  BY <1>3, <1>7

(* More to divide by, less comes out. *)
LEMMA Quotients ==
  ASSUME NEW a \in Nat, NEW b \in Nat \ {0}, NEW c \in Nat, b <= c
  PROVE  a \div b \in Nat /\ a \div c <= a \div b
<1> DEFINE p == a \div b
           q == a \div c
<1>1. p \in Nat /\ a < b * p + b
  OBVIOUS
<1>2. q \in Nat /\ c * q <= a
  OBVIOUS
<1> HIDE DEF p, q
<1>3. b * q <= c * q
  BY <1>2
<1>4. b * q < b * (p + 1)
  BY <1>1, <1>2, <1>3
<1>5. q < p + 1
  BY <1>1, <1>2, <1>4
<1> QED
  BY <1>1, <1>2, <1>5 DEF p, q

(* The quotients and the doubles of C. *)
LEMMA QuotientIs ==
  ASSUME NEW n \in Nat, NEW d \in Int
  PROVE  /\ Quotient(n, d) \in Int
         /\ d > 0 => Quotient(n, d) = n \div d /\ Quotient(n, d) \in Nat
<1>1. CASE d > 0
  <2>1. d \in Nat \ {0} /\ d \in Nat /\ d <= d
    BY <1>1
  <2>2. n \div d \in Nat
    BY <2>1, Quotients
  <2>3. Quotient(n, d) = n \div d
    BY <1>1 DEF Quotient
  <2> QED
    BY <2>2, <2>3
<1>2. CASE d < 0
  <2> DEFINE e == -d
  <2>1. e \in Nat \ {0} /\ e \in Nat /\ e <= e
    BY <1>2
  <2>2. Quotient(n, d) = -(n \div e)
    BY <1>2 DEF Quotient
  <2> HIDE DEF e
  <2>3. n \div e \in Nat
    BY <2>1, Quotients
  <2> QED
    BY <1>2, <2>2, <2>3
<1>3. CASE d = 0
  BY <1>3 DEF Quotient
<1> QED
  BY <1>1, <1>2, <1>3

LEMMA TwiceIs ==
  ASSUME NEW freq \in Int
  PROVE  /\ Twice(freq) \in Int
         /\ 0 < freq /\ freq <= 30000000 => Twice(freq) = 2 * freq
BY SMT DEF Twice

LEMMA DivisorIs ==
  ASSUME NEW div5 \in BOOLEAN, NEW freq \in Int
  PROVE  DivisorByFrequency(div5, freq) \in Int
<1> DEFINE a == Base(div5)
           b == Twice(freq)
<1>1. a \in Nat
  BY SMT DEF Base
<1>2. b \in Int
  BY TwiceIs
<1>3. DivisorByFrequency(div5, freq) = Quotient(a, b) - 1
  BY DEF DivisorByFrequency
<1> HIDE DEF a, b
<1> QED
  BY <1>1, <1>2, <1>3, QuotientIs

(* With a divisor of 0 or above the frequency is not negative. *)
LEMMA FrequencyIs ==
  ASSUME NEW div5 \in BOOLEAN, NEW d \in Int
  PROVE  /\ FrequencyByDivisor(div5, d) \in Int
         /\ d \in Nat => FrequencyByDivisor(div5, d) \in Nat
<1> DEFINE a == Base(div5)
           b == (1 + d) * 2
<1>1. a \in Nat
  BY SMT DEF Base
<1>2. b \in Int /\ (d \in Nat => b > 0)
  OBVIOUS
<1>3. FrequencyByDivisor(div5, d) = Quotient(a, b)
  BY DEF FrequencyByDivisor
<1> HIDE DEF a, b
<1> QED
  BY <1>1, <1>2, <1>3, QuotientIs

-----------------------------------------------------------------------------
(* The clock registers of the FTDI device. *)

(* The divisor word of the chip. *)
MaxWord == 65535

LEMMA WordIs ==
  /\ MaxWord \in Nat
  /\ \A d \in Int : DivisorWord(d) \in 0..MaxWord
  /\ \A d \in 0..MaxWord : DivisorWord(d) = d
<1>1. MaxWord \in Nat /\ MaxWord + 1 = 65536
  BY SMT DEF MaxWord
<1>2. \A d \in Int : DivisorWord(d) = d % (MaxWord + 1)
  BY SMT, <1>1 DEF DivisorWord
<1>3. MaxWord \in Nat
  BY <1>1
<1>4. \A d \in Int : DivisorWord(d) \in 0..MaxWord /\ (d \in 0..MaxWord => DivisorWord(d) = d)
  BY <1>2, <1>3
<1> QED
  BY <1>3, <1>4

(* Registers are set to registers. *)
LEMMA Registers ==
  ASSUME NEW c \in [div5 : BOOLEAN, div : 0..MaxWord, pedge : BOOLEAN],
         NEW x \in BOOLEAN, NEW y \in 0..MaxWord
  PROVE  [c EXCEPT !.div5 = x, !.div = y] = [div5 |-> x, div |-> y, pedge |-> c.pedge]
<1> DEFINE S == [div5 : BOOLEAN, div : 0..MaxWord, pedge : BOOLEAN]
           g == [c EXCEPT !.div5 = x, !.div = y]
<1>1. g \in S /\ g.div5 = x /\ g.div = y /\ g.pedge = c.pedge
  OBVIOUS
<1>2. g = [div5 |-> g.div5, div |-> g.div, pedge |-> g.pedge]
  <2> HIDE DEF g
  <2> QED
    BY <1>1
<1> HIDE DEF g
<1>3. g = [div5 |-> x, div |-> y, pedge |-> c.pedge]
  BY <1>1, <1>2
<1> QED
  BY <1>3 DEF g

-----------------------------------------------------------------------------
(* The first of the best: d is what the loop compares.                     *)

Best(d, T, i) == i \in T /\ \A j \in T : d[i] <= d[j] /\ (j < i => d[i] < d[j])

LEMMA BestUnique ==
  ASSUME NEW n \in Nat, NEW d \in [1..n -> Int], NEW T, T \subseteq 1..n,
         NEW i, NEW j, Best(d, T, i), Best(d, T, j)
  PROVE  i = j
<1>1. i \in 1..n /\ j \in 1..n /\ d[i] \in Int /\ d[j] \in Int
  BY DEF Best
<1>2. d[i] <= d[j] /\ d[j] <= d[i] /\ (j < i => d[i] < d[j]) /\ (i < j => d[j] < d[i])
  BY DEF Best
<1> QED
  BY <1>1, <1>2

(* One more element, above all others. *)
LEMMA BestExtends ==
  ASSUME NEW n \in Nat, NEW d \in [1..n -> Int], NEW T, T \subseteq 1..n,
         NEW x \in 1..n, \A j \in T : j <= x, NEW i, Best(d, T, i)
  PROVE  Best(d, T \cup {x}, IF d[i] > d[x] THEN x ELSE i)
<1>1. i \in T /\ i \in 1..n /\ i <= x /\ d[i] \in Int /\ d[x] \in Int
  BY DEF Best
<1>2. CASE d[i] > d[x]
  <2>1. ASSUME NEW j \in T \cup {x} PROVE d[x] <= d[j] /\ (j < x => d[x] < d[j])
    <3>1. CASE j = x
      BY <1>1, <3>1
    <3>2. CASE j \in T
      <4>1. d[i] <= d[j] /\ d[j] \in Int
        BY <3>2 DEF Best
      <4> QED
        BY <1>1, <1>2, <4>1
    <3> QED
      BY <3>1, <3>2
  <2> QED
    BY <1>2, <2>1 DEF Best
<1>3. CASE ~(d[i] > d[x])
  <2>1. ASSUME NEW j \in T \cup {x} PROVE d[i] <= d[j] /\ (j < i => d[i] < d[j])
    <3>1. CASE j = x
      BY <1>1, <1>3, <3>1
    <3>2. CASE j \in T
      BY <3>2 DEF Best
    <3> QED
      BY <3>1, <3>2
  <2> QED
    BY <1>1, <1>3, <2>1 DEF Best
<1> QED
  BY <1>2, <1>3

LEMMA BestExists ==
  ASSUME NEW n \in Nat, NEW d \in [1..n -> Int], NEW T, T \subseteq 1..n, T # {}
  PROVE  \E i : Best(d, T, i)
<1> DEFINE good == {k \in Nat : T \cap 1..k = {} \/ \E i : Best(d, T \cap 1..k, i)}
<1>1. 0 \in good
  OBVIOUS
<1>2. ASSUME NEW k \in 0..n - 1, k \in good PROVE k + 1 \in good
  <2>1. k + 1 \in Nat /\ k + 1 \in 1..n
    OBVIOUS
  <2>2. CASE k + 1 \notin T
    <3>1. T \cap 1..(k + 1) = T \cap 1..k
      BY <2>1, <2>2
    <3> QED
      BY <1>2, <2>1, <3>1
  <2>3. CASE k + 1 \in T
    <3> DEFINE U == T \cap 1..k
    <3>1. T \cap 1..(k + 1) = U \cup {k + 1} /\ U \subseteq 1..n /\ \A j \in U : j <= k + 1
      BY <2>1, <2>3
    <3>2. CASE U = {}
      <4>1. d[k + 1] \in Int
        BY <2>1
      <4>2. Best(d, {k + 1}, k + 1)
        BY <2>1, <4>1 DEF Best
      <4>3. U \cup {k + 1} = {k + 1}
        BY <3>2
      <4> QED
        BY <2>1, <3>1, <4>2, <4>3
    <3>3. CASE U # {}
      <4>1. PICK i : Best(d, U, i)
        BY <1>2, <3>3
      <4> HIDE DEF U
      <4>2. \E x : Best(d, U \cup {k + 1}, x)
        BY <2>1, <3>1, <4>1, BestExtends
      <4> QED
        BY <2>1, <3>1, <4>2
    <3> QED
      BY <3>2, <3>3
  <2> QED
    BY <2>2, <2>3
<1>3. n \in good
  <2> HIDE DEF good
  <2> QED
    BY <1>1, <1>2, UpTo
<1>4. T \cap 1..n = T
  OBVIOUS
<1> QED
  BY <1>3, <1>4

LEMMA MaxOf ==
  ASSUME NEW n \in Nat, NEW s, s \subseteq 1..n, s # {}
  PROVE  Max(s) \in s /\ \A j \in s : Max(s) >= j
<1> DEFINE d == [i \in 1..n |-> -i]
<1>1. d \in [1..n -> Int]
  OBVIOUS
<1>2. PICK i : Best(d, s, i)
  BY <1>1, BestExists
<1>3. i \in s /\ \A j \in s : i >= j
  <2>1. i \in s /\ \A j \in s : d[i] <= d[j]
    BY <1>2 DEF Best
  <2>2. ASSUME NEW j \in s PROVE i >= j
    <3>1. i \in 1..n /\ j \in 1..n /\ d[i] = -i /\ d[j] = -j
      BY <2>1
    <3>2. d[i] <= d[j]
      BY <2>1
    <3> QED
      BY <3>1, <3>2
  <2> QED
    BY <2>1, <2>2
<1>4. \E x \in s : \A j \in s : x >= j
  BY <1>3
<1> QED
  BY <1>4, Zenon DEF Max

LEMMA MaxUpTo ==
  ASSUME NEW k \in Nat \ {0}
  PROVE  Max(1..k) = k /\ (1..k) \ {k} = 1..(k - 1)
<1>1. k \in 1..k /\ 1..k \subseteq 1..k /\ 1..k # {} /\ k \in Nat
  OBVIOUS
<1>2. Max(1..k) \in 1..k /\ \A j \in 1..k : Max(1..k) >= j
  BY <1>1, MaxOf
<1> QED
  BY <1>1, <1>2

(* The recursion the loop is has a solution: of each set of positions, and *)
(* position 1, the first of the best.                                      *)
LEMMA LoopExists ==
  ASSUME NEW n \in Nat \ {0}, NEW d \in [1..n -> Int]
  PROVE  \E f \in [SUBSET (1..n) -> 1..n] : \A s \in SUBSET (1..n) :
           f[s] = IF s = {} THEN 1
                  ELSE IF d[f[s \ {Max(s)}]] > d[Max(s)] THEN Max(s) ELSE f[s \ {Max(s)}]
<1> DEFINE F(s) == CHOOSE i : Best(d, s \cup {1}, i)
           f == [s \in SUBSET (1..n) |-> F(s)]
<1>1. 1 \in 1..n /\ n \in Nat
  OBVIOUS
<1>2. ASSUME NEW s \in SUBSET (1..n) PROVE Best(d, s \cup {1}, f[s])
  <2>1. s \cup {1} \subseteq 1..n /\ s \cup {1} # {}
    BY <1>1
  <2>2. \E i : Best(d, s \cup {1}, i)
    <3> DEFINE T == s \cup {1}
    <3> HIDE DEF T
    <3>1. \E i : Best(d, T, i)
      BY <1>1, <2>1, BestExists DEF T
    <3> QED
      BY <3>1 DEF T
  <2>3. Best(d, s \cup {1}, F(s))
    BY <2>2, Zenon
  <2> QED
    BY <2>3
<1>3. ASSUME NEW s \in SUBSET (1..n) PROVE f[s] \in 1..n
  <2>1. f[s] \in s \cup {1}
    BY <1>2 DEF Best
  <2> QED
    BY <1>1, <2>1
<1>4. f \in [SUBSET (1..n) -> 1..n]
  BY <1>3
<1> HIDE DEF F, f
<1>5. f[{}] = 1
  BY <1>2 DEF Best
<1>6. ASSUME NEW s \in SUBSET (1..n), s # {}
      PROVE  f[s] = IF d[f[s \ {Max(s)}]] > d[Max(s)] THEN Max(s) ELSE f[s \ {Max(s)}]
  <2> DEFINE x == Max(s)
             r == s \ {x}
             T == r \cup {1}
             i == f[r]
             k == IF d[i] > d[x] THEN x ELSE i
  <2>1. x \in s /\ \A j \in s : x >= j
    BY <1>1, <1>6, MaxOf
  <2> HIDE DEF x
  <2>2. x \in 1..n /\ r \in SUBSET (1..n) /\ T \subseteq 1..n /\ \A j \in T : j <= x
    BY <1>1, <2>1
  <2>3. Best(d, T, i)
    BY <1>2, <2>2
  <2>4. T \cup {x} = s \cup {1}
    BY <2>1
  <2> HIDE DEF r, i, T
  <2>5. Best(d, T \cup {x}, k)
    BY <1>1, <2>2, <2>3, BestExtends
  <2>6. Best(d, T \cup {x}, f[s])
    BY <1>2, <2>4
  <2>7. T \cup {x} \subseteq 1..n
    BY <2>2
  <2> DEFINE U == T \cup {x}
             a == f[s]
  <2> HIDE DEF U, a, k
  <2>8. a = k
    BY <1>1, <2>5, <2>6, <2>7, BestUnique DEF U, a
  <2> QED
    BY <2>8 DEF a, k, i, r, x
<1>7. \A s \in SUBSET (1..n) :
           f[s] = IF s = {} THEN 1
                  ELSE IF d[f[s \ {Max(s)}]] > d[Max(s)] THEN Max(s) ELSE f[s \ {Max(s)}]
  BY <1>5, <1>6
<1> QED
  BY <1>4, <1>7

(* Whatever satisfies it ends at the first of the best. *)
LEMMA LoopEnds ==
  ASSUME NEW n \in Nat \ {0}, NEW d \in [1..n -> Int], NEW it,
         it[{}] = 1,
         \A k \in 1..n : it[1..(k - 1)] \in 1..n =>
            it[1..k] = IF d[it[1..(k - 1)]] > d[k] THEN k ELSE it[1..(k - 1)]
  PROVE  Best(d, 1..n, it[1..n])
<1> DEFINE good == {k \in Nat : k = 0 \/ Best(d, 1..k, it[1..k])}
<1>1. 0 \in good /\ n \in Nat
  OBVIOUS
<1>2. ASSUME NEW k \in 0..n - 1, k \in good PROVE k + 1 \in good
  <2>1. k + 1 \in 1..n /\ k + 1 \in Nat /\ (k + 1) - 1 = k
    OBVIOUS
  <2>5. it[1..k] \in 1..n
    <3>1. CASE k = 0
      <4>1. 1..k = {}
        BY <3>1
      <4> QED
        BY <4>1
    <3>2. CASE k # 0
      <4>1. it[1..k] \in 1..k
        BY <1>2, <3>2 DEF Best
      <4> QED
        BY <4>1
    <3> QED
      BY <3>1, <3>2
  <2>2. it[1..(k + 1)] = IF d[it[1..k]] > d[k + 1] THEN k + 1 ELSE it[1..k]
    BY <2>1, <2>5
  <2>3. CASE k = 0
    <3>1. 1..k = {} /\ k + 1 = 1 /\ 1..(k + 1) = {1}
      BY <2>3
    <3>2. it[1..(k + 1)] = 1
      BY <2>2, <3>1
    <3>3. d[1] \in Int
      BY <2>1, <2>3
    <3>4. Best(d, {1}, 1)
      BY <3>3 DEF Best
    <3>5. Best(d, 1..(k + 1), it[1..(k + 1)])
      BY <3>1, <3>2, <3>4
    <3> QED
      BY <2>1, <3>5
  <2>4. CASE k # 0
    <3> DEFINE i == it[1..k]
               x == k + 1
               T == 1..k
    <3>1. Best(d, T, i)
      BY <1>2, <2>4
    <3>2. T \subseteq 1..n /\ x \in 1..n /\ (\A j \in T : j <= x) /\ T \cup {x} = 1..(k + 1)
      BY <2>1
    <3>3. it[1..(k + 1)] = IF d[i] > d[x] THEN x ELSE i
      BY <2>2
    <3> HIDE DEF i, x, T
    <3>4. Best(d, T \cup {x}, IF d[i] > d[x] THEN x ELSE i)
      BY <1>1, <3>1, <3>2, BestExtends
    <3>5. Best(d, 1..(k + 1), it[1..(k + 1)])
      BY <3>2, <3>3, <3>4
    <3> QED
      BY <2>1, <3>5
  <2> QED
    BY <2>3, <2>4
<1>3. n \in good
  <2> HIDE DEF good
  <2> QED
    BY <1>1, <1>2, UpTo
<1> QED
  BY <1>3
-----------------------------------------------------------------------------
(* The choice of an item.                                                  *)

(* A list of items with frequencies, of n items. *)
Listing(list, n) == /\ DOMAIN list = 1..n /\ Len(list) = n
                    /\ \A i \in 1..n : list[i].freq \in Nat

Positions(list) == [i \in DOMAIN list |-> i]

(* How the loop of ItemByFrequency() gets to its result, and that of       *)
(* ItemByMaxFrequency(): the fold of each, written out.                    *)
ClosestLoop(list, freq, it) ==
  it = [s \in SUBSET DOMAIN Positions(list) |->
          IF s = {} THEN 1
          ELSE LET x == Max(s) IN
               IF Dist(freq, list[it[s \ {x}]].freq) > Dist(freq, list[Positions(list)[x]].freq)
               THEN Positions(list)[x] ELSE it[s \ {x}]]
FastestLoop(list, it) ==
  it = [s \in SUBSET DOMAIN Positions(list) |->
          IF s = {} THEN 1
          ELSE LET x == Max(s) IN
               IF list[Positions(list)[x]].freq > list[it[s \ {x}]].freq
               THEN Positions(list)[x] ELSE it[s \ {x}]]

LEMMA ClosestIsLoop ==
  ASSUME NEW list, NEW freq, list # <<>>
  PROVE  ItemByFrequency(list, freq)
           = list[(CHOOSE it : ClosestLoop(list, freq, it))[DOMAIN Positions(list)]]
BY DEF ItemByFrequency, FoldLeftDomain, FoldLeft, MapThenFoldSet, ClosestLoop, Positions

LEMMA FastestIsLoop ==
  ASSUME NEW list, list # <<>>
  PROVE  ItemByMaxFrequency(list)
           = list[(CHOOSE it : FastestLoop(list, it))[DOMAIN Positions(list)]]
BY DEF ItemByMaxFrequency, FoldLeftDomain, FoldLeft, MapThenFoldSet, FastestLoop, Positions

LEMMA PositionsOf ==
  ASSUME NEW n \in Nat, NEW list, Listing(list, n)
  PROVE  DOMAIN Positions(list) = 1..n /\ \A i \in 1..n : Positions(list)[i] = i
BY DEF Positions, Listing

(* The first of the items closest to the frequency. *)
LEMMA ItemByFrequencyIs ==
  ASSUME NEW n \in Nat \ {0}, NEW list, Listing(list, n), NEW freq \in Int
  PROVE  \E i : /\ Best([j \in 1..n |-> Dist(freq, list[j].freq)], 1..n, i)
                /\ ItemByFrequency(list, freq) = list[i]
<1> DEFINE d == [j \in 1..n |-> Dist(freq, list[j].freq)]
<1>1. d \in [1..n -> Int] /\ \A j \in 1..n : d[j] = Dist(freq, list[j].freq)
  BY DEF Listing, Dist
<1>2. DOMAIN Positions(list) = 1..n /\ \A i \in 1..n : Positions(list)[i] = i
  BY PositionsOf
<1> HIDE DEF d
<1>3. \E it : ClosestLoop(list, freq, it)
  <2>1. PICK f \in [SUBSET (1..n) -> 1..n] : \A s \in SUBSET (1..n) :
           f[s] = IF s = {} THEN 1
                  ELSE IF d[f[s \ {Max(s)}]] > d[Max(s)] THEN Max(s) ELSE f[s \ {Max(s)}]
    BY <1>1, LoopExists
  <2>2. ASSUME NEW s \in SUBSET (1..n)
        PROVE  f[s] = IF s = {} THEN 1
                      ELSE LET x == Max(s) IN
                           IF Dist(freq, list[f[s \ {x}]].freq) > Dist(freq, list[Positions(list)[x]].freq)
                           THEN Positions(list)[x] ELSE f[s \ {x}]
    <3>1. CASE s = {}
      BY <2>1, <3>1
    <3>2. CASE s # {}
      <4> DEFINE x == Max(s)
      <4>1. x \in s
        BY <3>2, MaxOf
      <4> HIDE DEF x
      <4>2. x \in 1..n /\ f[s \ {x}] \in 1..n
        BY <2>1, <4>1
      <4>3. /\ d[x] = Dist(freq, list[Positions(list)[x]].freq) /\ Positions(list)[x] = x
            /\ d[f[s \ {x}]] = Dist(freq, list[f[s \ {x}]].freq)
        BY <1>1, <1>2, <4>2
      <4>4. f[s] = IF d[f[s \ {x}]] > d[x] THEN x ELSE f[s \ {x}]
        BY <2>1, <3>2 DEF x
      <4> QED
        BY <3>2, <4>3, <4>4 DEF x
    <3> QED
      BY <3>1, <3>2
  <2>3. ClosestLoop(list, freq, f)
    BY <1>2, <2>2 DEF ClosestLoop
  <2> QED
    BY <2>3
<1>4. PICK it : it = CHOOSE j : ClosestLoop(list, freq, j)
  OBVIOUS
<1>5. ClosestLoop(list, freq, it)
  BY <1>3, <1>4
<1>6. it[{}] = 1
  BY <1>5 DEF ClosestLoop
<1>7. ASSUME NEW k \in 1..n, it[1..(k - 1)] \in 1..n
      PROVE  it[1..k] = IF d[it[1..(k - 1)]] > d[k] THEN k ELSE it[1..(k - 1)]
  <2>1. Max(1..k) = k /\ (1..k) \ {k} = 1..(k - 1)
    BY MaxUpTo
  <2>2. 1..k \in SUBSET (1..n) /\ 1..k # {}
    OBVIOUS
  <2> DEFINE s == 1..k
  <2> HIDE DEF s
  <2>3. it[s] = IF Dist(freq, list[it[s \ {Max(s)}]].freq) > Dist(freq, list[Positions(list)[Max(s)]].freq)
                THEN Positions(list)[Max(s)] ELSE it[s \ {Max(s)}]
    BY <1>2, <1>5, <2>2 DEF ClosestLoop, s
  <2>4. Max(s) = k /\ s \ {Max(s)} = 1..(k - 1) /\ Positions(list)[k] = k
    BY <1>2, <2>1 DEF s
  <2>5. it[s] = IF Dist(freq, list[it[1..(k - 1)]].freq) > Dist(freq, list[k].freq)
                THEN k ELSE it[1..(k - 1)]
    BY <2>3, <2>4
  <2> QED
    BY <1>1, <1>7, <2>5 DEF s
<1>8. Best(d, 1..n, it[1..n])
  BY <1>1, <1>6, <1>7, LoopEnds
<1>9. list # <<>>
  BY DEF Listing
<1>10. ItemByFrequency(list, freq) = list[it[1..n]]
  BY <1>2, <1>4, <1>9, ClosestIsLoop
<1> QED
  BY <1>8, <1>10 DEF d

(* The first of the items of the highest frequency. *)
LEMMA ItemByMaxFrequencyIs ==
  ASSUME NEW n \in Nat \ {0}, NEW list, Listing(list, n)
  PROVE  \E i : /\ Best([j \in 1..n |-> -list[j].freq], 1..n, i)
                /\ ItemByMaxFrequency(list) = list[i]
<1> DEFINE d == [j \in 1..n |-> -list[j].freq]
<1>0. ASSUME NEW i \in 1..n, NEW j \in 1..n
      PROVE  -list[i].freq > -list[j].freq <=> list[j].freq > list[i].freq
  <2>1. list[i].freq \in Nat /\ list[j].freq \in Nat
    BY DEF Listing
  <2> QED
    BY <2>1
<1>1. d \in [1..n -> Int] /\ \A j \in 1..n : d[j] = -list[j].freq
  BY DEF Listing
<1>2. DOMAIN Positions(list) = 1..n /\ \A i \in 1..n : Positions(list)[i] = i
  BY PositionsOf
<1> HIDE DEF d
<1>3. \E it : FastestLoop(list, it)
  <2>1. PICK f \in [SUBSET (1..n) -> 1..n] : \A s \in SUBSET (1..n) :
           f[s] = IF s = {} THEN 1
                  ELSE IF d[f[s \ {Max(s)}]] > d[Max(s)] THEN Max(s) ELSE f[s \ {Max(s)}]
    BY <1>1, LoopExists
  <2>2. ASSUME NEW s \in SUBSET (1..n)
        PROVE  f[s] = IF s = {} THEN 1
                      ELSE LET x == Max(s) IN
                           IF list[Positions(list)[x]].freq > list[f[s \ {x}]].freq
                           THEN Positions(list)[x] ELSE f[s \ {x}]
    <3>1. CASE s = {}
      BY <2>1, <3>1
    <3>2. CASE s # {}
      <4> DEFINE x == Max(s)
      <4>1. x \in s
        BY <3>2, MaxOf
      <4> HIDE DEF x
      <4>2. x \in 1..n /\ f[s \ {x}] \in 1..n
        BY <2>1, <4>1
      <4>3. /\ d[x] = -list[Positions(list)[x]].freq /\ Positions(list)[x] = x
            /\ d[f[s \ {x}]] = -list[f[s \ {x}]].freq
        BY <1>1, <1>2, <4>2
      <4>4. f[s] = IF d[f[s \ {x}]] > d[x] THEN x ELSE f[s \ {x}]
        BY <2>1, <3>2 DEF x
      <4>5. d[f[s \ {x}]] > d[x] <=> list[Positions(list)[x]].freq > list[f[s \ {x}]].freq
        BY <1>0, <4>2, <4>3
      <4> QED
        BY <3>2, <4>3, <4>4, <4>5, Zenon DEF x
    <3> QED
      BY <3>1, <3>2
  <2>3. FastestLoop(list, f)
    BY <1>2, <2>2 DEF FastestLoop
  <2> QED
    BY <2>3
<1>4. PICK it : it = CHOOSE j : FastestLoop(list, j)
  OBVIOUS
<1>5. FastestLoop(list, it)
  BY <1>3, <1>4
<1>6. it[{}] = 1
  BY <1>5 DEF FastestLoop
<1>7. ASSUME NEW k \in 1..n, it[1..(k - 1)] \in 1..n
      PROVE  it[1..k] = IF d[it[1..(k - 1)]] > d[k] THEN k ELSE it[1..(k - 1)]
  <2>1. Max(1..k) = k /\ (1..k) \ {k} = 1..(k - 1)
    BY MaxUpTo
  <2>2. 1..k \in SUBSET (1..n) /\ 1..k # {}
    OBVIOUS
  <2> DEFINE s == 1..k
  <2> HIDE DEF s
  <2>3. it[s] = IF list[Positions(list)[Max(s)]].freq > list[it[s \ {Max(s)}]].freq
                THEN Positions(list)[Max(s)] ELSE it[s \ {Max(s)}]
    BY <1>2, <1>5, <2>2 DEF FastestLoop, s
  <2>4. Max(s) = k /\ s \ {Max(s)} = 1..(k - 1) /\ Positions(list)[k] = k
    BY <1>2, <2>1 DEF s
  <2>5. it[s] = IF list[k].freq > list[it[1..(k - 1)]].freq
                THEN k ELSE it[1..(k - 1)]
    BY <2>3, <2>4
  <2>6. d[it[1..(k - 1)]] > d[k] <=> list[k].freq > list[it[1..(k - 1)]].freq
    BY <1>0, <1>1, <1>7
  <2> QED
    BY <2>5, <2>6, Zenon DEF s
<1>8. Best(d, 1..n, it[1..n])
  BY <1>1, <1>6, <1>7, LoopEnds
<1>9. list # <<>>
  BY DEF Listing
<1>10. ItemByMaxFrequency(list) = list[it[1..n]]
  BY <1>2, <1>4, <1>9, FastestIsLoop
<1> QED
  BY <1>8, <1>10 DEF d
-----------------------------------------------------------------------------
(* The file.                                                               *)

FlattenLoop(seqs, it) ==
  it = [i \in 1..Len(seqs) |-> IF i = 1 THEN seqs[i] ELSE it[i - 1] \o seqs[i]]

LEMMA FlattenIsLoop ==
  ASSUME NEW seqs, Len(seqs) # 0
  PROVE  FlattenSeq(seqs) = (CHOOSE it : FlattenLoop(seqs, it))[Len(seqs)]
BY DEF FlattenSeq, FlattenLoop

(* If a function solves the recursion, flattening takes its last value. *)
LEMMA FlattenIs ==
  ASSUME NEW n \in Nat \ {0}, NEW seqs, Len(seqs) = n, NEW f, DOMAIN f = 1..n,
         f = [i \in 1..n |-> f[i]],
         f[1] = seqs[1], \A i \in 2..n : f[i] = f[i - 1] \o seqs[i]
  PROVE  FlattenSeq(seqs) = f[n]
<1>1. FlattenLoop(seqs, f)
  <2>1. ASSUME NEW i \in 1..n PROVE f[i] = IF i = 1 THEN seqs[i] ELSE f[i - 1] \o seqs[i]
    <3>1. i # 1 => i \in 2..n
      OBVIOUS
    <3> QED
      BY <3>1
  <2> QED
    BY <2>1 DEF FlattenLoop
<1>2. PICK it : it = CHOOSE j : FlattenLoop(seqs, j)
  OBVIOUS
<1>3. FlattenLoop(seqs, it)
  BY <1>1, <1>2
<1> DEFINE good == {k \in Nat : k = 0 \/ it[k] = f[k]}
<1>4. 0 \in good /\ n \in Nat
  OBVIOUS
<1>5. ASSUME NEW k \in 0..n - 1, k \in good PROVE k + 1 \in good
  <2>1. k + 1 \in 1..n /\ k + 1 \in Nat /\ (k + 1) - 1 = k
    OBVIOUS
  <2>2. it[k + 1] = IF k + 1 = 1 THEN seqs[k + 1] ELSE it[k] \o seqs[k + 1]
    BY <1>3, <2>1 DEF FlattenLoop
  <2>3. CASE k = 0
    BY <2>1, <2>2, <2>3
  <2>4. CASE k # 0
    <3>1. k + 1 \in 2..n /\ k + 1 # 1 /\ it[k] = f[k]
      BY <1>5, <2>1, <2>4
    <3>2. f[k + 1] = f[k] \o seqs[k + 1]
      BY <2>1, <3>1
    <3> QED
      BY <2>1, <2>2, <3>1, <3>2
  <2> QED
    BY <2>3, <2>4
<1>6. n \in good
  <2> HIDE DEF good
  <2> QED
    BY <1>4, <1>5, UpTo
<1>7. FlattenSeq(seqs) = it[n]
  BY <1>2, FlattenIsLoop
<1> QED
  BY <1>6, <1>7

(* A saved list loads as itself, and its last item once more. *)
LEMMA LoadedFile ==
  ASSUME NEW X, NEW list \in Seq(X)
  PROVE  LoadFile(SaveFile(list)) = IF list = <<>> THEN <<>> ELSE Append(list, list[Len(list)])
<1> DEFINE n == Len(list)
           file == SaveFile(list)
           seqs == Append(file, Last(file))
<1>1. n \in Nat /\ DOMAIN list = 1..n /\ \A i \in 1..n : list[i] \in X
  BY LenProperties, ElementOfSeq
<1> DEFINE lines == [i \in 1..n |-> <<list[i]>>]
<1>2. lines \in Seq(Seq(X)) /\ Len(lines) = n
  BY <1>1
<1>3. <<Comment>> \in Seq(Seq(X)) /\ Len(<<Comment>>) = 1 /\ <<Comment>>[1] = <<>>
  BY DEF Comment
<1>4. /\ file \in Seq(Seq(X)) /\ Len(file) = n + 1
      /\ file[1] = <<>> /\ \A i \in 2..n + 1 : file[i] = <<list[i - 1]>>
  <2>1. file = <<Comment>> \o lines
    BY <1>1 DEF SaveFile
  <2> DEFINE c == <<Comment>>
  <2>2. /\ c \o lines \in Seq(Seq(X)) /\ Len(c \o lines) = Len(c) + Len(lines)
        /\ \A i \in 1..Len(c) + Len(lines) : (c \o lines)[i] =
             IF i <= Len(c) THEN c[i] ELSE lines[i - Len(c)]
    <3> HIDE DEF c, lines
    <3> QED
      BY <1>2, <1>3, ConcatProperties DEF c
  <2> HIDE DEF file, c
  <2>3. ASSUME NEW i \in 2..n + 1 PROVE file[i] = <<list[i - 1]>>
    <3>1. i \in 1..1 + n /\ ~(i <= 1) /\ i - 1 \in 1..n
      BY <1>1
    <3>2. lines[i - 1] = <<list[i - 1]>>
      BY <3>1
    <3> HIDE DEF lines
    <3> QED
      BY <1>2, <1>3, <2>1, <2>2, <3>1, <3>2 DEF c
  <2>4. file[1] = <<>>
    <3>1. 1 \in 1..1 + n
      BY <1>1
    <3> HIDE DEF lines
    <3> QED
      BY <1>2, <1>3, <2>1, <2>2, <3>1 DEF c
  <2>5. Len(file) = n + 1 /\ file \in Seq(Seq(X))
    <3> HIDE DEF lines
    <3> QED
      BY <1>1, <1>2, <1>3, <2>1, <2>2 DEF c
  <2> QED
    BY <2>3, <2>4, <2>5
<1> HIDE DEF file, lines
<1>5. Last(file) = file[n + 1] /\ file[n + 1] \in Seq(X)
  BY <1>1, <1>4 DEF Last
<1>6. /\ Len(seqs) = n + 2 /\ seqs[n + 2] = file[n + 1]
      /\ \A i \in 1..n + 1 : seqs[i] = file[i]
  BY <1>1, <1>4, <1>5, AppendProperties
<1>7. LoadFile(file) = FlattenSeq(seqs)
  BY DEF LoadFile
<1> HIDE DEF seqs
<1> DEFINE part(i) == SubSeq(list, 1, i)
           all == list \o seqs[n + 2]
           f == [i \in 1..n + 2 |-> IF i <= n + 1 THEN part(i - 1) ELSE all]
<1>8. part(0) = <<>> /\ part(n) = list
  <2>1. list = SubSeq(list, 1, Len(list))
    BY SubSeqFull
  <2> QED
    BY <2>1
<1>9. ASSUME NEW i \in 2..n + 1 PROVE part(i - 1) = part(i - 2) \o <<list[i - 1]>>
  <2>1. 1 \in 1..n /\ i - 1 \in 1..n /\ (i - 1) - 1 = i - 2
    BY <1>1
  <2> DEFINE k == i - 1
  <2> HIDE DEF k
  <2>2. SubSeq(list, 1, k) = SubSeq(list, 1, k - 1) \o <<list[k]>>
    BY <2>1, SubSeqRecursiveSecond DEF k
  <2> QED
    BY <2>1, <2>2 DEF k
<1> HIDE DEF part, all
<1>10. DOMAIN f = 1..n + 2 /\ f = [i \in 1..n + 2 |-> f[i]]
  OBVIOUS
<1>11. f[1] = seqs[1]
  <2>1. 1 \in 1..n + 2 /\ 1 \in 1..n + 1 /\ 1 <= n + 1 /\ 1 - 1 = 0
    BY <1>1
  <2> QED
    BY <1>4, <1>6, <1>8, <2>1
<1>12. ASSUME NEW i \in 2..n + 2 PROVE f[i] = f[i - 1] \o seqs[i]
  <2>1. i \in 1..n + 2 /\ i - 1 \in 1..n + 2 /\ i - 1 <= n + 1 /\ (i - 1) - 1 = i - 2
    BY <1>1
  <2>2. f[i - 1] = part(i - 2)
    BY <2>1
  <2>3. CASE i <= n + 1
    <3>1. i \in 2..n + 1 /\ i \in 1..n + 1
      BY <1>1, <2>3
    <3>2. f[i] = part(i - 1) /\ seqs[i] = <<list[i - 1]>>
      BY <1>4, <1>6, <2>1, <2>3, <3>1
    <3> QED
      BY <1>9, <2>2, <3>1, <3>2
  <2>4. CASE ~(i <= n + 1)
    <3>1. i = n + 2 /\ i - 2 = n
      BY <1>1, <2>4
    <3>2. f[i] = all
      BY <2>1, <2>4
    <3>3. f[i - 1] = list
      BY <1>8, <2>2, <3>1
    <3> QED
      BY <3>1, <3>2, <3>3 DEF all
  <2> QED
    BY <2>3, <2>4
<1>13. FlattenSeq(seqs) = f[n + 2]
  <2>1. n + 2 \in Nat \ {0}
    BY <1>1
  <2> HIDE DEF f
  <2> QED
    BY <1>6, <1>10, <1>11, <1>12, <2>1, FlattenIs
<1>14. f[n + 2] = all
  <2>1. n + 2 \in 1..n + 2 /\ ~(n + 2 <= n + 1)
    BY <1>1
  <2> QED
    BY <2>1
<1>15. all = IF list = <<>> THEN <<>> ELSE Append(list, list[n])
  <2>1. CASE n = 0
    <3>1. list = <<>> /\ seqs[n + 2] = <<>>
      BY <1>1, <1>4, <1>6, <2>1
    <3> QED
      BY <3>1 DEF all
  <2>2. CASE n # 0
    <3>1. n + 1 \in 2..n + 1 /\ (n + 1) - 1 = n /\ n \in 1..n /\ list # <<>>
      BY <1>1, <2>2
    <3>2. seqs[n + 2] = <<list[n]>> /\ list[n] \in X
      BY <1>1, <1>4, <1>6, <3>1
    <3> QED
      BY <3>1, <3>2, AppendIsConcat DEF all
  <2> QED
    BY <2>1, <2>2
<1> QED
  BY <1>7, <1>13, <1>14, <1>15 DEF file
-----------------------------------------------------------------------------
(* Selection by id, deletion, and what they make of a loaded list.         *)

(* The first item with the id. *)
LEMMA ItemByIdIs ==
  ASSUME NEW n \in Nat, NEW list, DOMAIN list = 1..n, Len(list) = n,
         NEW id, NEW i \in 1..n, list[i].id = id
  PROVE  \E k \in 1..i : /\ list[k].id = id /\ \A j \in 1..k - 1 : list[j].id # id
                         /\ ItemById(list, id) = list[k]
<1> DEFINE S == {j \in 1..Len(list) : list[j].id = id}
<1>1. S \subseteq Nat /\ i \in S /\ S # {}
  OBVIOUS
<1>2. ItemById(list, id) = list[Min(S)]
  BY <1>1 DEF ItemById, SelectInSeq
<1>3. Min(S) \in S /\ \A y \in S : Min(S) <= y
  <2> HIDE DEF S
  <2> QED
    BY <1>1, MinOf
<1>4. PICK k \in S : k = Min(S) /\ \A y \in S : k <= y
  BY <1>3
<1>5. k \in 1..i /\ k \in 1..n /\ list[k].id = id
  BY <1>1, <1>4
<1>6. ASSUME NEW j \in 1..k - 1 PROVE list[j].id # id
  <2>1. j \in 1..Len(list) /\ ~(k <= j)
    BY <1>5
  <2>2. j \notin S
    BY <1>4, <2>1
  <2> QED
    BY <2>1, <2>2
<1> QED
  BY <1>2, <1>4, <1>5, <1>6

(* An item that has the id and comes first is the one that goes. *)
LEMMA DelFirst ==
  ASSUME NEW X, NEW list \in Seq(X), list # <<>>, NEW id, list[1].id = id
  PROVE  DelItemById(list, id) = Tail(list)
<1> DEFINE S == {j \in 1..Len(list) : list[j].id = id}
<1>1. Len(list) \in Nat \ {0} /\ 1 \in S /\ S \subseteq Nat /\ S # {}
  <2>1. Len(list) \in Nat \ {0}
    BY EmptySeq, LenProperties
  <2> QED
    BY <2>1
<1>2. DelItemById(list, id) = RemoveAt(list, Min(S))
  BY <1>1 DEF DelItemById, RemoveFirstMatch, SelectInSeq
<1>3. Min(S) = 1
  <2>1. \A y \in S : 1 <= y
    BY <1>1
  <2> HIDE DEF S
  <2>2. Min(S) \in S /\ Min(S) <= 1
    BY <1>1, MinOf
  <2>3. PICK k \in S : k = Min(S) /\ k <= 1
    BY <2>2
  <2>4. k \in Nat /\ 1 <= k
    BY <1>1, <2>1
  <2> QED
    BY <2>3, <2>4
<1>4. SubSeq(list, 1, 1 - 1) = <<>>
  BY SubSeqEmpty
<1>5. SubSeq(list, 1 + 1, Len(list)) = Tail(list) /\ Tail(list) \in Seq(X)
  BY TailIsSubSeq, HeadTailProperties
<1>6. <<>> \o Tail(list) = Tail(list)
  BY <1>5, ConcatEmptySeq
<1> QED
  BY <1>2, <1>3, <1>4, <1>5, <1>6 DEF RemoveAt

(* Repeating the last item changes nothing of what is best. *)
LEMMA BestRepeated ==
  ASSUME NEW n \in Nat \ {0}, NEW d \in [1..n -> Int], NEW e \in [1..n + 1 -> Int],
         \A k \in 1..n : e[k] = d[k], e[n + 1] = d[n],
         NEW i, Best(d, 1..n, i), NEW j, Best(e, 1..n + 1, j)
  PROVE  i = j
<1>1. i \in 1..n /\ i \in 1..n + 1 /\ d[i] = e[i] /\ e[i] \in Int /\ n + 1 \in Nat /\ n \in 1..n
  BY DEF Best
<1>2. ASSUME NEW k \in 1..n + 1 PROVE e[i] <= e[k] /\ (k < i => e[i] < e[k])
  <2>1. CASE k = n + 1
    <3>1. d[i] <= d[n] /\ ~(k < i)
      BY <1>1, <2>1 DEF Best
    <3> QED
      BY <1>1, <2>1, <3>1
  <2>2. CASE k \in 1..n
    <3>1. d[i] <= d[k] /\ (k < i => d[i] < d[k])
      BY <2>2 DEF Best
    <3> QED
      BY <1>1, <2>2, <3>1
  <2> QED
    BY <2>1, <2>2
<1>3. Best(e, 1..n + 1, i)
  BY <1>1, <1>2 DEF Best
<1> DEFINE T == 1..n + 1
           m == n + 1
<1>4. T \subseteq 1..m /\ m \in Nat /\ e \in [1..m -> Int] /\ Best(e, T, i) /\ Best(e, T, j)
  BY <1>1, <1>3
<1> HIDE DEF T, m
<1> QED
  BY <1>4, BestUnique

(* A list that is saved and loaded answers as it did before. *)
LEMMA LoadedSelects ==
  ASSUME NEW X, NEW list \in Seq(X), Listing(list, Len(list)), NEW loaded,
         loaded = LoadFile(SaveFile(list))
  PROVE  /\ \A id : ItemById(loaded, id) = ItemById(list, id)
         /\ \A freq \in Int : ItemByFrequency(loaded, freq) = ItemByFrequency(list, freq)
         /\ ItemByMaxFrequency(loaded) = ItemByMaxFrequency(list)
<1> DEFINE n == Len(list)
<1>1. n \in Nat /\ DOMAIN list = 1..n /\ \A i \in 1..n : list[i] \in X
  BY LenProperties, ElementOfSeq
<1>2. CASE list = <<>>
  <2>1. loaded = list
    BY <1>2, LoadedFile
  <2> QED
    BY <2>1
<1>3. CASE list # <<>>
  <2>1. n # 0 /\ n \in 1..n
    BY <1>1, <1>3
  <2>2. loaded = Append(list, list[n])
    BY <1>3, LoadedFile
  <2> DEFINE m == n + 1
  <2>3. /\ DOMAIN loaded = 1..m /\ Len(loaded) = m
        /\ loaded[m] = list[n] /\ \A i \in 1..n : loaded[i] = list[i]
    <3> DEFINE last == list[n]
    <3>1. last \in X /\ loaded = Append(list, last)
      BY <1>1, <2>1, <2>2
    <3> HIDE DEF last
    <3>2. /\ loaded \in Seq(X) /\ Len(loaded) = n + 1 /\ loaded[n + 1] = last
          /\ \A i \in 1..n : loaded[i] = list[i]
      BY <1>1, <3>1, AppendProperties
    <3>3. DOMAIN loaded = 1..(n + 1)
      BY <3>2, LenProperties
    <3> QED
      BY <3>2, <3>3 DEF last
  <2>4. m \in Nat /\ m \in Nat \ {0} /\ n \in Nat \ {0} /\ m \notin 1..n /\ 1..m = 1..n \cup {m}
    BY <1>1, <2>1
  <2>5. Listing(loaded, m) /\ Listing(list, n)
    <3>1. Listing(list, n)
      OBVIOUS
    <3>2. ASSUME NEW i \in 1..m PROVE loaded[i].freq \in Nat
      <4>1. CASE i = m
        BY <2>1, <2>3, <3>1, <4>1 DEF Listing
      <4>2. CASE i \in 1..n
        BY <2>3, <3>1, <4>2 DEF Listing
      <4> QED
        BY <2>4, <4>1, <4>2
    <3> QED
      BY <2>3, <3>1, <3>2 DEF Listing
  <2>6. ASSUME NEW id PROVE ItemById(loaded, id) = ItemById(list, id)
    <3>1. CASE \E i \in 1..n : list[i].id = id
      <4>1. PICK i \in 1..n : list[i].id = id
        BY <3>1
      <4>2. PICK k \in 1..i : /\ list[k].id = id /\ \A j \in 1..k - 1 : list[j].id # id
                              /\ ItemById(list, id) = list[k]
        BY <1>1, <4>1, ItemByIdIs
      <4>3. i \in 1..m /\ loaded[i].id = id
        BY <1>1, <2>3, <4>1
      <4>4. PICK l \in 1..i : /\ loaded[l].id = id /\ \A j \in 1..l - 1 : loaded[j].id # id
                              /\ ItemById(loaded, id) = loaded[l]
        <5> HIDE DEF m
        <5> QED
          BY <2>3, <2>4, <4>3, ItemByIdIs
      <4>5. k \in 1..n /\ l \in 1..n /\ k \in Nat /\ l \in Nat
        BY <1>1
      <4>6. list[l].id = id /\ loaded[k].id = id
        BY <2>3, <4>2, <4>4, <4>5
      <4>7. l \notin 1..k - 1 /\ k \notin 1..l - 1
        BY <4>2, <4>4, <4>6
      <4>8. k = l
        BY <4>5, <4>7
      <4> QED
        BY <2>3, <4>2, <4>4, <4>5, <4>8
    <3>2. CASE ~ \E i \in 1..n : list[i].id = id
      <4>1. ~ \E i \in 1..m : loaded[i].id = id
        BY <2>1, <2>3, <2>4, <3>2
      <4> QED
        BY <1>1, <2>3, <3>2, <4>1 DEF ItemById
    <3> QED
      BY <3>1, <3>2
  <2>7. ASSUME NEW freq \in Int
        PROVE  ItemByFrequency(loaded, freq) = ItemByFrequency(list, freq)
    <3> DEFINE d == [j \in 1..n |-> Dist(freq, list[j].freq)]
               e == [j \in 1..m |-> Dist(freq, loaded[j].freq)]
    <3>1. d \in [1..n -> Int] /\ e \in [1..m -> Int]
      BY <2>5 DEF Listing, Dist
    <3>2. (\A k \in 1..n : e[k] = d[k]) /\ e[m] = d[n]
      BY <2>1, <2>3, <2>4
    <3> HIDE DEF d, e
    <3>3. PICK i : Best(d, 1..n, i) /\ ItemByFrequency(list, freq) = list[i]
      BY <2>4, <2>5, ItemByFrequencyIs DEF d
    <3>4. PICK j : Best(e, 1..m, j) /\ ItemByFrequency(loaded, freq) = loaded[j]
      <4> HIDE DEF m
      <4>0. m \in Nat \ {0} /\ Listing(loaded, m)
        BY <2>4, <2>5
      <4>1. \E j : /\ Best([k \in 1..m |-> Dist(freq, loaded[k].freq)], 1..m, j)
                   /\ ItemByFrequency(loaded, freq) = loaded[j]
        BY <4>0, ItemByFrequencyIs
      <4> QED
        BY <4>1 DEF e
    <3>5. i = j
      BY <2>4, <3>1, <3>2, <3>3, <3>4, BestRepeated
    <3>6. i \in 1..n
      BY <3>3 DEF Best
    <3> QED
      BY <2>3, <3>3, <3>4, <3>5, <3>6
  <2>8. ItemByMaxFrequency(loaded) = ItemByMaxFrequency(list)
    <3> DEFINE d == [j \in 1..n |-> -list[j].freq]
               e == [j \in 1..m |-> -loaded[j].freq]
    <3>1. d \in [1..n -> Int] /\ e \in [1..m -> Int]
      BY <2>5 DEF Listing
    <3>2. (\A k \in 1..n : e[k] = d[k]) /\ e[m] = d[n]
      BY <2>1, <2>3, <2>4
    <3> HIDE DEF d, e
    <3>3. PICK i : Best(d, 1..n, i) /\ ItemByMaxFrequency(list) = list[i]
      BY <2>4, <2>5, ItemByMaxFrequencyIs DEF d
    <3>4. PICK j : Best(e, 1..m, j) /\ ItemByMaxFrequency(loaded) = loaded[j]
      <4> HIDE DEF m
      <4> QED
        BY <2>4, <2>5, ItemByMaxFrequencyIs DEF e
    <3>5. i = j
      BY <2>4, <3>1, <3>2, <3>3, <3>4, BestRepeated
    <3>6. i \in 1..n
      BY <3>3 DEF Best
    <3> QED
      BY <2>3, <3>3, <3>4, <3>5, <3>6
  <2> QED
    BY <2>6, <2>7, <2>8
<1> QED
  BY <1>2, <1>3
=============================================================================
