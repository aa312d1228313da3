-------------------------- MODULE XVCServerProofs --------------------------
(***************************************************************************)
(* Proofs about XVCServer, for every set of command lines and every set of *)
(* calibrations of the drivers' types, and any number of runs and kills:   *)
(* the registers stay in range, a server that was to calibrate or to load  *)
(* runs at a calibrated setting, and a restart serves what was saved.      *)
(***************************************************************************)
EXTENDS XVCServer, SetupProofs

Kind(d) == IF d = "AXI" THEN AXIItems ELSE FTDIItems

(* A list of driver d whose settings some calibration in m found good. *)
Good(d, l, m) == l \in Seq(Kind(d)) /\ \A i \in DOMAIN l : Setting(d, l[i]) \in m[d]

(* The list a file with these lines was saved from. *)
ListIn(lines) == [i \in 1..Len(lines) - 1 |-> lines[i + 1][1]]

(* A file, however early its save was cut off, is the whole file of some   *)
(* good list.                                                              *)
FileGood(f, m) ==
    f.lines # <<>> =>
        /\ f.driver \in Driver
        /\ Good(f.driver, ListIn(f.lines), m)
        /\ f.lines = SaveFile(ListIn(f.lines))

(* After a save that ended well the file is that of the saved list. *)
SavedGood(s, f, m) ==
    s.driver # "none" =>
        /\ s.driver \in Driver /\ f.driver = s.driver
        /\ Good(s.driver, s.list, m)
        /\ f.lines = SaveFile(s.list)

(* What is left of a cleared list was an item of it. *)
LeftGood(d, x, m) == x # NoItem => x \in Kind(d) /\ Setting(d, x) \in m[d]

(* While a save is going on the file is the beginning of what it will be. *)
Saving(d, l, f, s) ==
    /\ f.driver = d /\ s = Unsaved
    /\ Len(f.lines) \in 0..Len(SaveFile(l))
    /\ f.lines = [i \in 1..Len(f.lines) |-> SaveFile(l)[i]]

Shape ==
    /\ disk = [driver |-> disk.driver, lines |-> disk.lines]
    /\ DOMAIN made = Driver

(* The place in main(): what options brought it there, and which list it   *)
(* has.                                                                    *)
PlaceInv ==
    /\ pc \notin {"off", "driver"} => opts.driver \in Driver /\ LeftGood(opts.driver, slack, made)
    /\ pc \in {"driver", "calibrate"} => list = <<>> /\ slack = NoItem
    /\ pc \in {"save", "saving", "quick", "load"} => Good(opts.driver, list, made)
    /\ pc = "choose" => IF opts.load THEN list = Loaded(opts.driver, disk)
                        ELSE Good(opts.driver, list, made)
    /\ pc \in {"load", "choose"} => ~Quick /\ (opts.runCalib \/ opts.load)
    /\ pc = "saving" => Saving(opts.driver, list, disk, saved)

FilesInv == FileGood(disk, made) /\ SavedGood(saved, disk, made)

Inv == TypeOK /\ Shape /\ PlaceInv /\ FilesInv /\ ServesCalibrated /\ RestartServesSame

-----------------------------------------------------------------------------
(* The file of a list.                                                     *)

LEMMA FileIs ==
  ASSUME NEW X, NEW l \in Seq(X)
  PROVE  /\ Len(l) \in Nat
         /\ SaveFile(l) = [i \in 1..Len(l) + 1 |-> IF i = 1 THEN Comment ELSE <<l[i - 1]>>]
         /\ Len(SaveFile(l)) = Len(l) + 1
<1> DEFINE n == Len(l)
           tail == [i \in 1..n |-> <<l[i]>>]
<1>1. n \in Nat /\ DOMAIN l = 1..n
  BY LenProperties
<1>2. tail \in Seq(Seq(X)) /\ Len(tail) = n /\ <<Comment>> \in Seq(Seq(X)) /\ Len(<<Comment>>) = 1
  <2>1. Comment \in Seq(X)
    BY EmptySeq DEF Comment
  <2>2. \A i \in 1..n : l[i] \in X
    BY <1>1, ElementOfSeq
  <2>3. \A i \in 1..n : <<l[i]>> \in Seq(X)
    BY <2>2
  <2>4. tail \in [1..n -> Seq(X)]
    BY <2>3
  <2>5. tail \in Seq(Seq(X))
    BY <1>1, <2>4, SeqDef
  <2>6. Len(tail) = n
    BY <1>1, <2>4, <2>5, LenProperties
  <2> QED
    BY <2>1, <2>5, <2>6
<1> HIDE DEF n
<1>3. SaveFile(l) = <<Comment>> \o tail
  BY <1>1 DEF SaveFile
<1>4. \A i \in 1..n : tail[i] = <<l[i]>>
  OBVIOUS
<1> HIDE DEF tail
<1>5. /\ <<Comment>> \o tail \in Seq(Seq(X))
      /\ Len(<<Comment>> \o tail) = n + 1
      /\ \A i \in 1..n + 1 : (<<Comment>> \o tail)[i] = IF i = 1 THEN Comment ELSE tail[i - 1]
  BY <1>1, <1>2, ConcatProperties
<1>6. DOMAIN (<<Comment>> \o tail) = 1..n + 1
  BY <1>1, <1>5, LenProperties
<1>7. <<Comment>> \o tail = [i \in 1..n + 1 |-> (<<Comment>> \o tail)[i]]
  BY <1>5, <1>6
<1>8. \A i \in 1..n + 1 : (<<Comment>> \o tail)[i] = IF i = 1 THEN Comment ELSE <<l[i - 1]>>
  <2> DEFINE c == <<Comment>> \o tail
  <2>1. \A i \in 1..n + 1 : c[i] = IF i = 1 THEN Comment ELSE tail[i - 1]
    BY <1>5
  <2> HIDE DEF c
  <2>2. \A i \in 1..n + 1 : i # 1 => i - 1 \in 1..n
    BY <1>1
  <2>3. \A i \in 1..n + 1 : c[i] = IF i = 1 THEN Comment ELSE <<l[i - 1]>>
    BY <1>4, <2>1, <2>2
  <2> QED
    BY <2>3 DEF c
<1>9. SaveFile(l) = [i \in 1..n + 1 |-> IF i = 1 THEN Comment ELSE <<l[i - 1]>>]
  BY <1>3, <1>7, <1>8
<1> QED
  BY <1>1, <1>3, <1>5, <1>9 DEF n

LEMMA ListInFile ==
  ASSUME NEW X, NEW l \in Seq(X)
  PROVE  ListIn(SaveFile(l)) = l /\ SaveFile(l) # <<>>
<1> DEFINE n == Len(l)
<1>1. n \in Nat /\ l = [i \in 1..n |-> l[i]]
  BY LenProperties
<1>2. /\ SaveFile(l) = [i \in 1..n + 1 |-> IF i = 1 THEN Comment ELSE <<l[i - 1]>>]
      /\ Len(SaveFile(l)) = n + 1
  BY FileIs
<1> HIDE DEF n
<1>3. ASSUME NEW i \in 1..n PROVE SaveFile(l)[i + 1][1] = l[i]
  <2>1. i + 1 \in 1..n + 1 /\ i + 1 # 1 /\ (i + 1) - 1 = i
    BY <1>1
  <2>2. SaveFile(l)[i + 1] = <<l[(i + 1) - 1]>>
    BY <1>2, <2>1, Zenon
  <2> QED
    BY <2>1, <2>2
<1>4. Len(SaveFile(l)) - 1 = n
  BY <1>1, <1>2
<1>5. ListIn(SaveFile(l)) = [i \in 1..n |-> SaveFile(l)[i + 1][1]]
  BY <1>4 DEF ListIn
<1>6. SaveFile(l) # <<>>
  BY <1>1, <1>2, EmptySeq
<1> QED
  BY <1>1, <1>3, <1>5, <1>6

(* The beginning of a file is the file of the beginning of the list. *)
LEMMA FileCut ==
  ASSUME NEW X, NEW l \in Seq(X), NEW k \in 0..Len(l)
  PROVE  /\ SubSeq(l, 1, k) \in Seq(X)
         /\ DOMAIN SubSeq(l, 1, k) = 1..k /\ 1..k \subseteq DOMAIN l
         /\ \A i \in 1..k : SubSeq(l, 1, k)[i] = l[i]
         /\ [i \in 1..k + 1 |-> SaveFile(l)[i]] = SaveFile(SubSeq(l, 1, k))
<1> DEFINE n == Len(l)
           s == SubSeq(l, 1, k)
<1>1. n \in Nat /\ DOMAIN l = 1..n /\ k \in Nat /\ k <= n
  BY LenProperties
<1>2. s = [i \in 1..k |-> l[i]]
  <2>1. s = [i \in 1..(k - 1) + 1 |-> l[(i + 1) - 1]]
    BY <1>1
  <2>2. (k - 1) + 1 = k /\ \A i \in 1..k : (i + 1) - 1 = i
    BY <1>1
  <2> QED
    BY <2>1, <2>2
<1> HIDE DEF s
<1>3. \A i \in 1..k : i \in 1..n /\ l[i] \in X
  BY <1>1, ElementOfSeq
<1>4. s \in [1..k -> X]
  BY <1>2, <1>3
<1>5. s \in Seq(X)
  BY <1>1, <1>4, SeqDef
<1>6. Len(s) = k
  BY <1>1, <1>4, <1>5, LenProperties
<1>7. /\ SaveFile(l) = [i \in 1..n + 1 |-> IF i = 1 THEN Comment ELSE <<l[i - 1]>>]
      /\ SaveFile(s) = [i \in 1..k + 1 |-> IF i = 1 THEN Comment ELSE <<s[i - 1]>>]
  BY <1>5, <1>6, FileIs
<1> HIDE DEF n
<1>8. ASSUME NEW i \in 1..k + 1
      PROVE  SaveFile(l)[i] = IF i = 1 THEN Comment ELSE <<s[i - 1]>>
  <2>1. i \in 1..n + 1 /\ (i # 1 => i - 1 \in 1..k)
    BY <1>1
  <2>2. SaveFile(l)[i] = IF i = 1 THEN Comment ELSE <<l[i - 1]>>
    BY <1>7, <2>1, Zenon
  <2>3. i # 1 => s[i - 1] = l[i - 1]
    BY <1>2, <2>1
  <2> QED
    BY <2>2, <2>3
<1>9. [i \in 1..k + 1 |-> SaveFile(l)[i]] = SaveFile(s)
  BY <1>7, <1>8
<1>10. \A i \in 1..k : s[i] = l[i]
  BY <1>2
<1>11. DOMAIN s = 1..k /\ 1..k \subseteq DOMAIN l
  BY <1>1, <1>2, <1>3
<1> QED
  BY <1>5, <1>9, <1>10, <1>11 DEF s

-----------------------------------------------------------------------------
(* The registers an item stands for.                                       *)

Regs(d) == IF d = "AXI" THEN Core ELSE Chip

LEMMA ChipIs == Chip = [div5 : BOOLEAN, div : 0..MaxWord, pedge : BOOLEAN]
BY DEF Chip, MaxWord

LEMMA FTDIItemsAre ==
  FTDIItems = [id : Nat, div : 0..MaxWord, pedge : BOOLEAN, freq : Nat]
BY DEF FTDIItems, MaxWord

LEMMA KindIs ==
  ASSUME NEW d \in Driver, NEW x \in Kind(d)
  PROVE  /\ x.id \in Nat /\ x.freq \in Nat /\ x # NoItem
         /\ Setting(d, x) \in Regs(d)
         /\ d # "AXI" => d = "FTDI" /\ x \in FTDIItems /\ Setting(d, x) \in Chip
<1>1. CASE d = "AXI"
  <2>1. x \in AXIItems
    BY <1>1 DEF Kind
  <2>2. x.id \in Nat /\ x.freq \in Nat /\ x.div \in 0..MaxClockDiv /\ x.del \in 0..MaxClockDelay
    BY <2>1 DEF AXIItems
  <2>3. Setting(d, x) = [div |-> x.div, del |-> x.del]
    BY <1>1 DEF Setting
  <2>4. x # NoItem
    BY <2>2 DEF NoItem
  <2>5. Setting(d, x) \in Core
    BY <2>2, <2>3 DEF Core
  <2> QED
    BY <1>1, <2>2, <2>4, <2>5 DEF Regs
<1>2. CASE d = "FTDI"
  <2>1. x \in FTDIItems
    BY <1>2 DEF Kind
  <2>2. x.id \in Nat /\ x.freq \in Nat /\ x.div \in 0..MaxWord /\ x.pedge \in BOOLEAN
    BY <2>1, FTDIItemsAre
  <2>3. Setting(d, x) = [div5 |-> FALSE, div |-> x.div, pedge |-> x.pedge]
    BY <1>2 DEF Setting
  <2>4. x # NoItem
    BY <2>2 DEF NoItem
  <2>5. Setting(d, x) \in Chip
    BY <2>2, <2>3, ChipIs
  <2> QED
    BY <1>2, <2>1, <2>2, <2>4, <2>5 DEF Regs
<1> QED
  BY <1>1, <1>2 DEF Driver

(* An item that is applied is what the registers hold then. *)
LEMMA AppliedIs ==
  ASSUME opts.driver \in Driver, NEW x \in Kind(opts.driver),
         IF opts.driver = "AXI" THEN InRange(dev) ELSE dev \in Chip
  PROVE  Applied(x) = Setting(opts.driver, x)
<1>1. CASE opts.driver = "AXI"
  <2>1. x.div \in 0..MaxClockDiv /\ x.del \in 0..MaxClockDelay
    BY <1>1 DEF AXIItems, Kind
  <2>2. x.div # -1 /\ x.div <= MaxClockDiv /\ x.del # -1 /\ x.del <= MaxClockDelay
    BY <2>1 DEF MaxClockDiv, MaxClockDelay
  <2>3. Applied(x) = SetCore(dev, x.div, x.del)
    BY <1>1 DEF Applied
  <2>4. SetCore(dev, x.div, x.del) = [div |-> x.div, del |-> x.del]
    BY <2>2, Zenon DEF SetCore
  <2> QED
    BY <1>1, <2>3, <2>4 DEF Setting
<1>2. CASE opts.driver # "AXI"
  <2>1. dev \in Chip /\ x \in FTDIItems
    BY <1>2, KindIs
  <2>2. x.div \in 0..MaxWord /\ x.pedge \in BOOLEAN
    BY <2>1, FTDIItemsAre
  <2> DEFINE c == [dev EXCEPT !.pedge = x.pedge]
             e == x.pedge
             w == x.div
  <2>3. c \in [div5 : BOOLEAN, div : 0..MaxWord, pedge : BOOLEAN] /\ c.pedge = e
    BY <2>1, <2>2, ChipIs
  <2>4. DivisorWord(w) = w
    BY <2>2, WordIs
  <2>5. Applied(x) = SetClockDiv(c, FALSE, w)
    BY <1>2 DEF Applied
  <2>6. SetClockDiv(c, FALSE, w) = [c EXCEPT !.div5 = FALSE, !.div = w]
    BY <2>4 DEF SetClockDiv
  <2>7. w \in 0..MaxWord /\ Setting(opts.driver, x) = [div5 |-> FALSE, div |-> w, pedge |-> e]
    BY <1>2, <2>2 DEF Setting
  <2> HIDE DEF c, e, w
  <2>8. [c EXCEPT !.div5 = FALSE, !.div = w] = [div5 |-> FALSE, div |-> w, pedge |-> c.pedge]
    BY <2>3, <2>7, Registers
  <2> QED
    BY <2>3, <2>5, <2>6, <2>7, <2>8
<1> QED
  BY <1>1, <1>2

-----------------------------------------------------------------------------
(* Lists.                                                                  *)

LEMMA KindList ==
  ASSUME NEW d \in Driver, NEW l \in Seq(Kind(d))
  PROVE  /\ Listing(l, Len(l)) /\ Len(l) \in Nat /\ DOMAIN l = 1..Len(l)
         /\ \A i \in DOMAIN l : l[i] \in Kind(d)
         /\ l # <<>> => Len(l) # 0
<1>1. Len(l) \in Nat /\ DOMAIN l = 1..Len(l) /\ \A i \in 1..Len(l) : l[i] \in Kind(d)
  BY LenProperties, ElementOfSeq
<1>2. \A i \in 1..Len(l) : l[i].freq \in Nat
  <2> TAKE i \in 1..Len(l)
  <2> DEFINE x == l[i]
  <2>1. x \in Kind(d)
    BY <1>1
  <2> HIDE DEF x
  <2>2. x.freq \in Nat
    BY <2>1, KindIs
  <2> QED
    BY <2>2 DEF x
<1>3. l # <<>> => Len(l) # 0
  BY EmptySeq
<1> QED
  BY <1>1, <1>2, <1>3 DEF Listing

LEMMA GoodStays ==
  ASSUME NEW d, NEW l, NEW m, Good(d, l, m), NEW n, m[d] \subseteq n[d]
  PROVE  Good(d, l, n)
BY DEF Good

(* A file of a good list of the driver loads as one. *)
LEMMA LoadedGood ==
  ASSUME NEW d \in Driver, NEW l, NEW m, Good(d, l, m), NEW r, r = LoadFile(SaveFile(l))
  PROVE  Good(d, r, m) /\ (l # <<>> => r # <<>>)
<1>1. l \in Seq(Kind(d)) /\ \A i \in DOMAIN l : Setting(d, l[i]) \in m[d]
  BY DEF Good
<1>2. r = IF l = <<>> THEN <<>> ELSE Append(l, l[Len(l)])
  BY <1>1, LoadedFile
<1>3. CASE l = <<>>
  BY <1>2, <1>3
<1>4. CASE l # <<>>
  <2> DEFINE n == Len(l)
             x == l[n]
  <2>1. n \in Nat /\ n # 0 /\ n \in DOMAIN l /\ DOMAIN l = 1..n
    BY <1>1, <1>4, KindList
  <2>2. x \in Kind(d) /\ Setting(d, x) \in m[d] /\ r = Append(l, x)
    BY <1>1, <1>2, <1>4, <2>1, KindList
  <2> HIDE DEF x
  <2>3. /\ Append(l, x) \in Seq(Kind(d)) /\ Len(Append(l, x)) = n + 1
        /\ \A i \in 1..n : Append(l, x)[i] = l[i]
        /\ Append(l, x)[n + 1] = x
    BY <1>1, <2>2, AppendProperties
  <2> HIDE DEF n
  <2>4. DOMAIN r = 1..n + 1 /\ r # <<>>
    BY <2>1, <2>2, <2>3, LenProperties, EmptySeq
  <2>5. ASSUME NEW i \in 1..n + 1 PROVE Setting(d, r[i]) \in m[d]
    <3>1. CASE i \in 1..n
      BY <1>1, <2>1, <2>2, <2>3, <3>1
    <3>2. CASE i = n + 1
      BY <2>2, <2>3, <3>2
    <3> QED
      BY <2>1, <3>1, <3>2
  <2> QED
    BY <2>2, <2>3, <2>4, <2>5 DEF Good
<1> QED
  BY <1>3, <1>4

(* Without an id the answer is an item of the list. *)
LEMMA AskedIs ==
  ASSUME opts \in Options, opts.driver \in Driver, NEW l \in Seq(Kind(opts.driver)), l # <<>>
  PROVE  (Asked(l) = NoItem /\ opts.id # -1) \/ \E i \in DOMAIN l : Asked(l) = l[i]
<1> DEFINE n == Len(l)
<1>1. n \in Nat \ {0} /\ DOMAIN l = 1..n /\ Len(l) = n /\ Listing(l, n)
  BY KindList
<1>2. opts.id \in Int /\ opts.freq \in Int
  BY OptionsAssumption
<1> HIDE DEF n
<1>3. CASE opts.id # -1
  <2>1. Asked(l) = ItemById(l, opts.id)
    BY <1>3 DEF Asked, ById, FTDIItemById
  <2>2. CASE \E i \in 1..n : l[i].id = opts.id
    <3>1. PICK i \in 1..n : l[i].id = opts.id
      BY <2>2
    <3> DEFINE id == opts.id
    <3>2. l[i].id = id
      BY <3>1
    <3> HIDE DEF id
    <3>3. \E k \in 1..i : ItemById(l, id) = l[k]
      BY <1>1, <3>2, ItemByIdIs
    <3>4. PICK k \in 1..i : ItemById(l, id) = l[k]
      BY <3>3
    <3>5. k \in 1..n
      BY <1>1
    <3> QED
      BY <1>1, <2>1, <3>4, <3>5 DEF id
  <2>3. CASE ~\E i \in 1..n : l[i].id = opts.id
    <3>1. ItemById(l, opts.id) = NoItem
      BY <1>1, <2>3 DEF ItemById
    <3> QED
      BY <1>3, <2>1, <3>1
  <2> QED
    BY <2>2, <2>3
<1>4. CASE opts.id = -1 /\ opts.freq # -1
  <2> DEFINE freq == opts.freq
  <2>1. Asked(l) = ItemByFrequency(l, freq)
    BY <1>4 DEF Asked, FTDIItemByFrequency
  <2>2. freq \in Int
    BY <1>2
  <2> HIDE DEF freq
  <2>3. PICK i : /\ Best([j \in 1..n |-> Dist(freq, l[j].freq)], 1..n, i)
                 /\ ItemByFrequency(l, freq) = l[i]
    BY <1>1, <2>2, ItemByFrequencyIs
  <2>4. i \in 1..n
    BY <2>3 DEF Best
  <2> QED
    BY <1>1, <2>1, <2>3, <2>4
<1>5. CASE opts.id = -1 /\ opts.freq = -1
  <2>1. Asked(l) = ItemByMaxFrequency(l)
    BY <1>5 DEF Asked, FTDIItemByMaxFrequency
  <2>2. PICK i : /\ Best([j \in 1..n |-> -l[j].freq], 1..n, i)
                 /\ ItemByMaxFrequency(l) = l[i]
    BY <1>1, ItemByMaxFrequencyIs
  <2>3. i \in 1..n
    BY <2>2 DEF Best
  <2> QED
    BY <1>1, <2>1, <2>2, <2>3
<1> QED
  BY <1>2, <1>3, <1>4, <1>5

(* The options ask the loaded list for what they ask the saved one for. *)
LEMMA SameAnswer ==
  ASSUME opts \in Options, opts.driver \in Driver, NEW l \in Seq(Kind(opts.driver)),
         NEW r, r = LoadFile(SaveFile(l))
  PROVE  Asked(r) = Asked(l)
<1>1. opts.freq \in Int
  BY OptionsAssumption
<1>2. Listing(l, Len(l))
  BY KindList
<1>3. /\ \A id : ItemById(r, id) = ItemById(l, id)
      /\ \A freq \in Int : ItemByFrequency(r, freq) = ItemByFrequency(l, freq)
      /\ ItemByMaxFrequency(r) = ItemByMaxFrequency(l)
  BY <1>2, LoadedSelects
<1>4. /\ ItemById(r, opts.id) = ItemById(l, opts.id)
      /\ ItemByFrequency(r, opts.freq) = ItemByFrequency(l, opts.freq)
  BY <1>1, <1>3
<1> QED
  BY <1>3, <1>4 DEF Asked, ById, FTDIItemById, FTDIItemByFrequency, FTDIItemByMaxFrequency

(* What main() loads has the types of its driver, and is good if the file  *)
(* is the driver's.                                                        *)
LEMMA LoadedKind ==
  ASSUME NEW d \in Driver, NEW f, NEW m, FileGood(f, m)
  PROVE  /\ Loaded(d, f) \in Seq(Kind(d))
         /\ f.driver = d => Good(d, Loaded(d, f), m)
<1>1. CASE f.lines = <<>>
  <2>1. Loaded(d, f) = <<>>
    BY <1>1 DEF Loaded
  <2> QED
    BY <2>1 DEF Good
<1>2. CASE f.lines # <<>>
  <2> DEFINE l == ListIn(f.lines)
             r == LoadFile(f.lines)
  <2>1. f.driver \in Driver /\ Good(f.driver, l, m) /\ f.lines = SaveFile(l)
    BY <1>2 DEF FileGood
  <2>2. r = LoadFile(SaveFile(l))
    BY <2>1
  <2> HIDE DEF l, r
  <2>3. Good(f.driver, r, m)
    BY <2>1, <2>2, LoadedGood
  <2>4. CASE f.driver = d
    <3>1. Loaded(d, f) = r
      BY <1>2, <2>4 DEF Loaded, FTDILoadFile, r
    <3> QED
      BY <2>3, <2>4, <3>1 DEF Good
  <2>5. CASE f.driver # d /\ d = "AXI"
    <3>1. /\ f.lines = <<>> \/ (d = "AXI" /\ f.driver # d)
          /\ ~(f.lines # <<>> /\ f.driver = d)
      BY <2>5
    <3>2. Loaded(d, f) = <<>>
      BY <3>1, Zenon DEF Loaded
    <3>3. <<>> \in Seq(Kind(d))
      OBVIOUS
    <3> QED
      BY <2>5, <3>2, <3>3
  <2>6. CASE f.driver # d /\ d = "FTDI"
    <3> DEFINE item(i) == [id |-> r[i].id, div |-> r[i].div,
                           pedge |-> r[i].del # 0, freq |-> r[i].freq]
               s == [i \in DOMAIN r |-> item(i)]
    <3>1. Loaded(d, f) = s
      BY <1>2, <2>6 DEF Loaded, FTDILoadFile, r
    <3>2. r \in Seq(Kind("AXI")) /\ "AXI" \in Driver
      BY <2>1, <2>3, <2>6 DEF Good, Driver
    <3>3. Len(r) \in Nat /\ DOMAIN r = 1..Len(r) /\ \A i \in DOMAIN r : r[i] \in Kind("AXI")
      BY <3>2, KindList
    <3>4. ASSUME NEW i \in 1..Len(r) PROVE item(i) \in FTDIItems
      <4> DEFINE x == r[i]
      <4>1. x \in AXIItems
        BY <3>3 DEF Kind
      <4> HIDE DEF x
      <4>2. x.id \in Nat /\ x.freq \in Nat /\ x.div \in 0..MaxClockDiv
        BY <4>1 DEF AXIItems
      <4>3. x.div \in 0..MaxWord
        <5>1. MaxClockDiv <= MaxWord /\ MaxClockDiv \in Nat
          BY SMT DEF MaxClockDiv, MaxWord
        <5> QED
          BY <4>2, <5>1, WordIs
      <4>4. [id |-> x.id, div |-> x.div, pedge |-> x.del # 0, freq |-> x.freq] \in FTDIItems
        BY <4>2, <4>3, FTDIItemsAre
      <4> QED
        BY <4>4 DEF x
    <3> HIDE DEF item
    <3>5. s \in [1..Len(r) -> FTDIItems]
      BY <3>3, <3>4
    <3> HIDE DEF s
    <3>6. s \in Seq(Kind(d))
      BY <2>6, <3>3, <3>5, SeqDef DEF Kind
    <3> QED
      BY <2>6, <3>1, <3>6
  <2> QED
    BY <2>4, <2>5, <2>6 DEF Driver
<1> QED
  BY <1>1, <1>2

-----------------------------------------------------------------------------
(* The steps.                                                              *)

LEMMA NotServing ==
  ASSUME pc' # "serving"
  PROVE  ServesCalibrated' /\ RestartServesSame'
BY DEF ServesCalibrated, RestartServesSame, ServesItem

LEMMA FilesStay ==
  ASSUME FilesInv, UNCHANGED <<disk, saved>>, \A d \in Driver : made[d] \subseteq made'[d]
  PROVE  FilesInv'
<1>1. FileGood(disk, made')
  <2> SUFFICES ASSUME disk.lines # <<>>
               PROVE  /\ disk.driver \in Driver
                      /\ Good(disk.driver, ListIn(disk.lines), made')
                      /\ disk.lines = SaveFile(ListIn(disk.lines))
    BY DEF FileGood
  <2>1. /\ disk.driver \in Driver
        /\ Good(disk.driver, ListIn(disk.lines), made)
        /\ disk.lines = SaveFile(ListIn(disk.lines))
    BY DEF FilesInv, FileGood
  <2>2. made[disk.driver] \subseteq made'[disk.driver]
    BY <2>1
  <2>3. Good(disk.driver, ListIn(disk.lines), made')
    BY <2>1, <2>2, GoodStays
  <2> QED
    BY <2>1, <2>3
<1>2. SavedGood(saved, disk, made')
  <2> SUFFICES ASSUME saved.driver # "none"
               PROVE  /\ saved.driver \in Driver /\ disk.driver = saved.driver
                      /\ Good(saved.driver, saved.list, made')
                      /\ disk.lines = SaveFile(saved.list)
    BY DEF SavedGood
  <2>1. /\ saved.driver \in Driver /\ disk.driver = saved.driver
        /\ Good(saved.driver, saved.list, made)
        /\ disk.lines = SaveFile(saved.list)
    BY DEF FilesInv, SavedGood
  <2>2. made[saved.driver] \subseteq made'[saved.driver]
    BY <2>1
  <2>3. Good(saved.driver, saved.list, made')
    BY <2>1, <2>2, GoodStays
  <2> QED
    BY <2>1, <2>3
<1> QED
  BY <1>1, <1>2 DEF FilesInv

LEMMA FilesUnchanged ==
  ASSUME FilesInv, UNCHANGED <<disk, saved, made>>
  PROVE  FilesInv'
BY FilesStay

LEMMA InitInv == Init => Inv
<1> SUFFICES ASSUME Init PROVE Inv
  OBVIOUS
<1>1. TypeOK
  BY BoundAssumption DEF Init, TypeOK, NoFile, Unsaved, Driver
<1>2. Shape
  BY DEF Init, Shape, NoFile
<1>3. PlaceInv
  BY DEF Init, PlaceInv
<1>4. FilesInv
  BY DEF Init, FilesInv, FileGood, SavedGood, NoFile, Unsaved
<1>5. ServesCalibrated /\ RestartServesSame
  BY DEF Init, ServesCalibrated, RestartServesSame, ServesItem
<1> QED
  BY <1>1, <1>2, <1>3, <1>4, <1>5 DEF Inv

LEMMA StartStep ==
  ASSUME Inv, Start
  PROVE  Inv'
<1>1. TypeOK'
  BY BoundAssumption DEF Inv, Start, TypeOK
<1>2. Shape'
  BY DEF Inv, Start, Shape
<1>3. PlaceInv'
  BY DEF Start, PlaceInv
<1>4. FilesInv'
  BY FilesUnchanged DEF Inv, Start
<1>5. ServesCalibrated' /\ RestartServesSame'
  BY NotServing DEF Start
<1> QED
  BY <1>1, <1>2, <1>3, <1>4, <1>5 DEF Inv

LEMMA ConnectStep ==
  ASSUME Inv, Connect
  PROVE  Inv'
<1>1. /\ pc' \in {"off", "calibrate"} /\ opts' = opts /\ list = <<>> /\ slack = NoItem
      /\ UNCHANGED <<opts, list, slack, disk, runs, made, saved>>
  BY DEF Inv, PlaceInv, Connect
<1>2. TypeOK'
  <2>1. ASSUME pc' = "calibrate"
        PROVE  opts.driver \in Driver /\ IF opts.driver = "AXI" THEN InRange(dev') ELSE dev' \in Chip
    <3>1. /\ opts.driver \in Driver
          /\ dev' = IF opts.driver = "AXI"
                    THEN [div |-> MaxClockDiv, del |-> MaxClockDelay - 1]
                    ELSE Detected([div5 |-> FALSE, div |-> 299, pedge |-> FALSE])
      BY <2>1 DEF Connect
    <3>2. InRange([div |-> MaxClockDiv, del |-> MaxClockDelay - 1])
      BY SMT DEF InRange, MaxClockDiv, MaxClockDelay
    <3>3. Detected([div5 |-> FALSE, div |-> 299, pedge |-> FALSE]) \in Chip
      <4> DEFINE c == [div5 |-> FALSE, div |-> 299, pedge |-> FALSE]
                 w == DivisorWord(MaxWord)
      <4>1. c \in [div5 : BOOLEAN, div : 0..MaxWord, pedge : BOOLEAN] /\ c.pedge = FALSE
        BY SMT DEF MaxWord
      <4>2. Detected(c) = [c EXCEPT !.div5 = TRUE, !.div = w]
        BY DEF Detected, SetClockDiv, MaxWord
      <4>3. w \in 0..MaxWord
        BY WordIs
      <4> HIDE DEF c, w
      <4>4. Detected(c) = [div5 |-> TRUE, div |-> w, pedge |-> FALSE]
        BY <4>1, <4>2, <4>3, Registers
      <4>5. Detected(c) \in Chip
        BY <4>3, <4>4, ChipIs
      <4> QED
        BY <4>5 DEF c
    <3> QED
      BY <3>1, <3>2, <3>3
  <2> QED
    BY <1>1, <2>1 DEF Inv, TypeOK
<1>3. Shape'
  BY <1>1 DEF Inv, Shape
<1>4. PlaceInv'
  <2>1. pc' = "calibrate" => opts.driver \in Driver
    BY DEF Connect
  <2> QED
    BY <1>1, <2>1 DEF PlaceInv, LeftGood
<1>5. FilesInv'
  BY <1>1, FilesUnchanged DEF Inv
<1>6. ServesCalibrated' /\ RestartServesSame'
  BY <1>1, NotServing
<1> QED
  BY <1>2, <1>3, <1>4, <1>5, <1>6 DEF Inv

LEMMA SkipStep ==
  ASSUME Inv, SkipCalibration
  PROVE  Inv'
<1>1. /\ pc = "calibrate" /\ pc' = "quick" /\ opts.driver \in Driver
      /\ UNCHANGED <<opts, list, slack, dev, disk, runs, made, saved>>
      /\ list = <<>> /\ slack = NoItem
  BY DEF Inv, PlaceInv, SkipCalibration
<1>2. TypeOK'
  BY <1>1 DEF Inv, TypeOK
<1>3. Shape'
  BY <1>1 DEF Inv, Shape
<1>4. PlaceInv'
  <2>1. Good(opts.driver, list, made) /\ LeftGood(opts.driver, slack, made)
    BY <1>1 DEF Good, LeftGood
  <2> QED
    BY <1>1, <2>1 DEF PlaceInv
<1>5. FilesInv'
  BY <1>1, FilesUnchanged DEF Inv
<1>6. ServesCalibrated' /\ RestartServesSame'
  BY <1>1, NotServing
<1> QED
  BY <1>2, <1>3, <1>4, <1>5, <1>6 DEF Inv

LEMMA KillStep ==
  ASSUME Inv, Kill
  PROVE  Inv'
<1>1. /\ pc' = "off" /\ UNCHANGED <<opts, list, slack, dev, disk, runs, made, saved>>
  BY DEF Kill
<1>2. TypeOK' /\ Shape'
  BY <1>1 DEF Inv, TypeOK, Shape
<1>3. PlaceInv'
  BY <1>1 DEF PlaceInv
<1>4. FilesInv'
  BY <1>1, FilesUnchanged DEF Inv
<1>5. ServesCalibrated' /\ RestartServesSame'
  BY <1>1, NotServing
<1> QED
  BY <1>2, <1>3, <1>4, <1>5 DEF Inv

(* What a calibration finds is good from then on. *)
LEMMA CalibrateStep ==
  ASSUME Inv, Calibrate
  PROVE  Inv'
<1> DEFINE d == opts.driver
<1>1. /\ pc = "calibrate" /\ d \in Driver /\ opts' = opts /\ list = <<>> /\ slack = NoItem
      /\ UNCHANGED <<opts, disk, runs, saved>>
  BY DEF Inv, PlaceInv, Calibrate
<1>2. CASE d = "FTDI" /\ ~opts.sweepOk
  <2>1. pc' = "off" /\ UNCHANGED <<list, slack, dev, made>>
    BY <1>2 DEF Calibrate
  <2>2. TypeOK' /\ Shape'
    BY <1>1, <2>1 DEF Inv, TypeOK, Shape
  <2>3. PlaceInv'
    BY <2>1 DEF PlaceInv
  <2>4. FilesInv'
    BY <1>1, <2>1, FilesUnchanged DEF Inv
  <2> QED
    BY <2>1, <2>2, <2>3, <2>4, NotServing DEF Inv
<1>3. CASE ~(d = "FTDI" /\ ~opts.sweepOk)
  <2>1. PICK c \in Calibrations[d] :
          /\ list' = c.list /\ dev' = c.dev
          /\ slack' = IF c.list = <<>> THEN NoItem ELSE c.list[1]
          /\ made' = [made EXCEPT ![d] = @ \cup {Setting(d, c.list[i]) : i \in DOMAIN c.list}]
          /\ pc' = IF opts.save THEN "save" ELSE "quick"
    BY <1>3 DEF Calibrate
  <2> DEFINE l == c.list
             found == {Setting(d, l[i]) : i \in DOMAIN l}
  <2>2. l \in Seq(Kind(d)) /\ c.dev \in Regs(d)
    BY <1>1, CalibrationsAssumption DEF Driver, Kind, Regs
  <2>3. /\ Len(l) \in Nat /\ DOMAIN l = 1..Len(l) /\ (l # <<>> => Len(l) # 0)
        /\ \A i \in DOMAIN l : l[i] \in Kind(d)
    BY <1>1, <2>2, KindList
  <2>4. found \subseteq Regs(d)
    <3>1. ASSUME NEW i \in DOMAIN l PROVE Setting(d, l[i]) \in Regs(d)
      BY <1>1, <2>3, KindIs
    <3> QED
      BY <3>1
  <2>5. /\ list' = l /\ slack' = IF l = <<>> THEN NoItem ELSE l[1]
        /\ pc' \in {"save", "quick"} /\ dev' \in Regs(d)
        /\ made' = [made EXCEPT ![d] = @ \cup found]
    BY <2>1, <2>2
  <2>6. \A i \in DOMAIN l : Setting(d, l[i]) \in found
    OBVIOUS
  <2> HIDE DEF l, found
  <2>7. /\ DOMAIN made' = Driver
        /\ made'[d] = made[d] \cup found
        /\ \A e \in Driver : e # d => made'[e] = made[e]
    BY <1>1, <2>5 DEF Inv, Shape
  <2>8. Good(d, l, made')
    BY <2>2, <2>6, <2>7 DEF Good
  <2>9. LeftGood(d, slack', made')
    <3>1. CASE l = <<>>
      BY <2>5, <3>1 DEF LeftGood
    <3>2. CASE l # <<>>
      <4>1. 1 \in DOMAIN l
        BY <2>3, <3>2
      <4>2. l[1] \in Kind(d) /\ Setting(d, l[1]) \in found
        BY <2>3, <2>6, <4>1
      <4>3. slack' = l[1]
        BY <2>5, <3>2
      <4> QED
        BY <2>7, <4>2, <4>3 DEF LeftGood
    <3> QED
      BY <3>1, <3>2
  <2>10. TypeOK'
    <3>1. made'["AXI"] \subseteq Core /\ made'["FTDI"] \subseteq Chip
      BY <1>1, <2>4, <2>7 DEF Inv, TypeOK, Regs, Driver
    <3>2. IF d = "AXI" THEN InRange(dev') ELSE dev' \in Chip
      <4>1. ASSUME NEW r \in Core PROVE InRange(r)
        <5>1. MaxClockDiv \in Nat /\ MaxClockDelay \in Nat
          BY SMT DEF MaxClockDiv, MaxClockDelay
        <5> QED
          BY <5>1 DEF Core, InRange
      <4> QED
        BY <2>5, <4>1 DEF Regs
    <3> QED
      BY <1>1, <2>5, <3>1, <3>2 DEF Inv, TypeOK
  <2>11. Shape'
    BY <1>1, <2>7 DEF Inv, Shape
  <2>12. PlaceInv'
    BY <1>1, <2>5, <2>8, <2>9 DEF PlaceInv
  <2>13. FilesInv'
    <3>1. \A e \in Driver : made[e] \subseteq made'[e]
      BY <2>7
    <3> QED
      BY <1>1, <3>1, FilesStay DEF Inv
  <2>14. ServesCalibrated' /\ RestartServesSame'
    BY <2>5, NotServing
  <2> QED
    BY <2>10, <2>11, <2>12, <2>13, <2>14 DEF Inv
<1> QED
  BY <1>2, <1>3

LEMMA SaveFailsStep ==
  ASSUME Inv, SaveFails
  PROVE  Inv'
<1>1. /\ pc = "save" /\ pc' \in {"quick", "off"}
      /\ UNCHANGED <<opts, list, slack, dev, disk, runs, made, saved>>
  BY DEF SaveFails, Saved
<1>2. TypeOK' /\ Shape'
  BY <1>1 DEF Inv, TypeOK, Shape
<1>3. PlaceInv'
  BY <1>1 DEF Inv, PlaceInv
<1>4. FilesInv'
  BY <1>1, FilesUnchanged DEF Inv
<1>5. ServesCalibrated' /\ RestartServesSame'
  BY <1>1, NotServing
<1> QED
  BY <1>2, <1>3, <1>4, <1>5 DEF Inv

(* A file that was just opened is empty. *)
LEMMA SaveOpensStep ==
  ASSUME Inv, SaveOpens
  PROVE  Inv'
<1>1. /\ pc = "save" /\ pc' = "saving" /\ opts.driver \in Driver
      /\ disk' = [driver |-> opts.driver, lines |-> <<>>] /\ saved' = Unsaved
      /\ UNCHANGED <<opts, list, slack, dev, runs, made>>
      /\ Good(opts.driver, list, made)
  BY DEF Inv, PlaceInv, SaveOpens
<1>2. disk'.driver = opts.driver /\ disk'.lines = <<>> /\ saved'.driver = "none"
  BY <1>1 DEF Unsaved
<1>3. TypeOK'
  BY <1>1, <1>2 DEF Inv, TypeOK
<1>4. Shape'
  BY <1>1, <1>2 DEF Inv, Shape
<1>5. Saving(opts.driver, list, disk', saved')
  <2>1. list \in Seq(Kind(opts.driver))
    BY <1>1 DEF Good
  <2>2. Len(list) \in Nat /\ Len(SaveFile(list)) = Len(list) + 1
    BY <2>1, FileIs
  <2>3. Len(disk'.lines) = 0 /\ 0 \in 0..Len(SaveFile(list))
    BY <1>2, <2>2
  <2>4. <<>> = [i \in 1..0 |-> SaveFile(list)[i]]
    OBVIOUS
  <2> QED
    BY <1>1, <1>2, <2>3, <2>4 DEF Saving
<1>6. PlaceInv'
  BY <1>1, <1>5 DEF Inv, PlaceInv
<1>7. FilesInv'
  BY <1>2 DEF FilesInv, FileGood, SavedGood
<1>8. ServesCalibrated' /\ RestartServesSame'
  BY <1>1, NotServing
<1> QED
  BY <1>3, <1>4, <1>6, <1>7, <1>8 DEF Inv

(* One more value after the first k of F. *)
LEMMA OneMore ==
  ASSUME NEW F, NEW k \in Nat, NEW s, s = [i \in 1..k |-> F[i]]
  PROVE  Append(s, F[k + 1]) = [i \in 1..k + 1 |-> F[i]] /\ Len(Append(s, F[k + 1])) = k + 1
<1> DEFINE X == {F[i] : i \in 1..k + 1}
           x == F[k + 1]
           a == Append(s, x)
<1>1. \A i \in 1..k : F[i] \in X
  OBVIOUS
<1>2. x \in X
  BY k + 1 \in 1..k + 1
<1> HIDE DEF X, x
<1>3. s \in [1..k -> X] /\ s \in Seq(X)
  <2>1. s \in [1..k -> X]
    BY <1>1
  <2> QED
    BY <2>1, SeqDef
<1>4. Len(s) = k
  BY <1>3, LenProperties
<1>5. a \in Seq(X) /\ Len(a) = k + 1 /\ a[k + 1] = x /\ \A i \in 1..k : a[i] = s[i]
  BY <1>2, <1>3, <1>4, AppendProperties
<1> HIDE DEF a
<1>6. a = [i \in 1..k + 1 |-> a[i]]
  BY <1>5, LenProperties
<1>7. ASSUME NEW i \in 1..k + 1 PROVE a[i] = F[i]
  <2>1. CASE i = k + 1
    BY <1>5, <2>1 DEF x
  <2>2. CASE i \in 1..k
    BY <1>5, <2>2
  <2> QED
    BY <2>1, <2>2
<1> QED
  BY <1>5, <1>6, <1>7 DEF a, x

LEMMA SaveLineStep ==
  ASSUME Inv, SaveLine
  PROVE  Inv'
<1> DEFINE d == opts.driver
           F == SaveFile(list)
           k == Written
<1>1. /\ pc = "saving" /\ pc' = pc /\ UNCHANGED <<pc, opts, list, slack, dev, runs, made, saved>>
      /\ d \in Driver /\ Good(d, list, made) /\ Saving(d, list, disk, saved) /\ Shape
  BY DEF Inv, PlaceInv, SaveLine
<1>2. FileOf = F
  BY DEF FileOf, FTDISaveFile
<1>3. k < Len(F) /\ disk' = [disk EXCEPT !.lines = Append(@, F[k + 1])]
  BY <1>2 DEF SaveLine
<1>4. /\ disk.driver = d /\ saved = Unsaved /\ k \in 0..Len(F)
      /\ disk.lines = [i \in 1..k |-> F[i]]
  BY <1>1 DEF Saving, Written
<1>5. list \in Seq(Kind(d)) /\ Len(list) \in Nat /\ Len(F) = Len(list) + 1
  <2>1. list \in Seq(Kind(d))
    BY <1>1 DEF Good
  <2> QED
    BY <2>1, FileIs
<1>6. disk' = [driver |-> d, lines |-> Append(disk.lines, F[k + 1])]
  BY <1>1, <1>3, <1>4 DEF Shape
<1> HIDE DEF F, k, d
<1>7. k \in Nat /\ k \in 0..Len(list) /\ k + 1 \in 0..Len(F)
  BY <1>3, <1>4, <1>5
<1>8. /\ disk'.driver = d /\ Len(disk'.lines) = k + 1
      /\ disk'.lines = [i \in 1..k + 1 |-> F[i]]
  <2> DEFINE s == disk.lines
  <2>1. s = [i \in 1..k |-> F[i]] /\ disk' = [driver |-> d, lines |-> Append(s, F[k + 1])]
    BY <1>4, <1>6
  <2> HIDE DEF s
  <2>2. Append(s, F[k + 1]) = [i \in 1..k + 1 |-> F[i]] /\ Len(Append(s, F[k + 1])) = k + 1
    BY <1>7, <2>1, OneMore
  <2>3. disk'.driver = d /\ disk'.lines = Append(s, F[k + 1])
    BY <2>1
  <2> QED
    BY <2>2, <2>3
<1>9. TypeOK' /\ Shape'
  <2>1. disk'.driver \in Driver /\ disk' = [driver |-> disk'.driver, lines |-> disk'.lines]
    BY <1>1, <1>6, <1>8
  <2> QED
    BY <1>1, <2>1 DEF Inv, TypeOK, Shape
<1>10. Saving(d, list, disk', saved')
  BY <1>1, <1>4, <1>7, <1>8 DEF Saving, F
<1>11. PlaceInv'
  BY <1>1, <1>10 DEF Inv, PlaceInv, d
<1>12. FileGood(disk', made')
  <2> DEFINE l == SubSeq(list, 1, k)
             lines == disk'.lines
  <2>1. /\ l \in Seq(Kind(d)) /\ DOMAIN l = 1..k /\ 1..k \subseteq DOMAIN list
        /\ \A i \in 1..k : l[i] = list[i]
        /\ [i \in 1..k + 1 |-> F[i]] = SaveFile(l)
    BY <1>5, <1>7, FileCut DEF F
  <2>2. lines = SaveFile(l)
    BY <1>8, <2>1
  <2> HIDE DEF l
  <2>3. ListIn(SaveFile(l)) = l
    BY <2>1, ListInFile
  <2>4. Good(d, l, made')
    BY <1>1, <2>1 DEF Good
  <2> HIDE DEF lines
  <2>5. ListIn(lines) = l
    BY <2>2, <2>3
  <2>6. Good(d, ListIn(lines), made') /\ lines = SaveFile(ListIn(lines))
    BY <2>2, <2>4, <2>5
  <2> QED
    BY <1>1, <1>8, <2>6 DEF FileGood, lines
<1>13. FilesInv'
  BY <1>1, <1>4, <1>12 DEF FilesInv, SavedGood, Unsaved
<1>14. ServesCalibrated' /\ RestartServesSame'
  BY <1>1, NotServing
<1> QED
  BY <1>9, <1>11, <1>13, <1>14 DEF Inv

(* All lines were written: the file is that of the list. *)
LEMMA SaveClosesStep ==
  ASSUME Inv, SaveCloses
  PROVE  Inv'
<1> DEFINE d == opts.driver
           F == SaveFile(list)
<1>1. /\ pc = "saving" /\ pc' \in {"quick", "off"}
      /\ UNCHANGED <<opts, list, slack, dev, disk, runs, made>>
      /\ d \in Driver /\ Good(d, list, made) /\ Saving(d, list, disk, saved) /\ Shape
  BY DEF Inv, PlaceInv, SaveCloses, Saved
<1>2. FileOf = F
  BY DEF FileOf, FTDISaveFile
<1>3. Shape'
  BY <1>1 DEF Shape
<1>4. PlaceInv'
  BY <1>1 DEF Inv, PlaceInv
<1>5. ServesCalibrated' /\ RestartServesSame'
  BY <1>1, NotServing
<1>6. CASE Written = Len(FileOf) /\ saved' = [driver |-> d, list |-> list]
  <2>1. saved'.driver = d /\ saved'.list = list
    BY <1>6
  <2>2. TypeOK'
    BY <1>1, <2>1 DEF Inv, TypeOK
  <2>3. disk.driver = d /\ disk.lines = [i \in 1..Len(F) |-> F[i]]
    BY <1>1, <1>2, <1>6 DEF Saving, Written
  <2>4. F = [i \in 1..Len(F) |-> F[i]]
    <3>1. list \in Seq(Kind(d))
      BY <1>1 DEF Good
    <3>2. /\ F = [i \in 1..Len(list) + 1 |-> IF i = 1 THEN Comment ELSE <<list[i - 1]>>]
          /\ Len(F) = Len(list) + 1
      BY <3>1, FileIs
    <3> DEFINE n == Len(list) + 1
    <3>3. DOMAIN F = 1..n /\ Len(F) = n /\ F = [i \in DOMAIN F |-> F[i]]
      BY <3>2, Zenon
    <3> HIDE DEF F, n
    <3> QED
      BY <3>3
  <2>5. FileGood(disk', made')
    BY <1>1 DEF Inv, FilesInv
  <2>6. SavedGood(saved', disk', made')
    BY <1>1, <2>1, <2>3, <2>4 DEF SavedGood
  <2> QED
    BY <1>3, <1>4, <1>5, <2>2, <2>5, <2>6 DEF Inv, FilesInv
<1>7. CASE UNCHANGED saved
  <2>1. TypeOK'
    BY <1>1, <1>7 DEF Inv, TypeOK
  <2>2. FilesInv'
    BY <1>1, <1>7, FilesUnchanged DEF Inv
  <2> QED
    BY <1>3, <1>4, <1>5, <2>1, <2>2 DEF Inv
<1> QED
  BY <1>6, <1>7 DEF SaveCloses

LEMMA SetCoreInRange ==
  ASSUME NEW core, InRange(core), NEW x \in Int, NEW y \in Int
  PROVE  InRange(SetCore(core, x, y))
BY DEF InRange, SetCore

LEMMA FrequencySet ==
  ASSUME NEW c \in Chip, NEW freq \in Int
  PROVE  SetClockFrequency(c, freq) \in Chip
<1>1. DivisorByFrequency(TRUE, freq) \in Int /\ DivisorByFrequency(FALSE, freq) \in Int
  BY DivisorIs
<1> DEFINE inOn == 92 <= freq /\ freq <= 6000000
           inOff == 458 <= freq /\ freq <= 30000000
           on == IF inOn THEN DivisorByFrequency(TRUE, freq) ELSE 0
           off == IF inOff THEN DivisorByFrequency(FALSE, freq) ELSE 0
           close == Gap(freq, FrequencyByDivisor(TRUE, on))
                      <= Gap(freq, FrequencyByDivisor(FALSE, off))
           w == DivisorWord(IF close THEN on ELSE off)
<1>2. on \in Int /\ off \in Int
  <2> HIDE DEF inOn, inOff
  <2>1. on \in Int
    <3>1. CASE inOn
      <4>1. on = DivisorByFrequency(TRUE, freq)
        BY <3>1, Zenon
      <4> QED
        BY <1>1, <4>1, Zenon
    <3>2. CASE ~inOn
      <4>1. on = 0 /\ 0 \in Int
        BY <3>2
      <4> QED
        BY <4>1
    <3> QED
      BY <3>1, <3>2
  <2>2. off \in Int
    <3>1. CASE inOff
      <4>1. off = DivisorByFrequency(FALSE, freq)
        BY <3>1, Zenon
      <4> QED
        BY <1>1, <4>1, Zenon
    <3>2. CASE ~inOff
      <4>1. off = 0 /\ 0 \in Int
        BY <3>2
      <4> QED
        BY <4>1
    <3> QED
      BY <3>1, <3>2
  <2> QED
    BY <2>1, <2>2
<1>3. SetClockFrequency(c, freq) = [c EXCEPT !.div5 = close, !.div = w]
  BY SMT DEF SetClockFrequency, SetClockDiv
<1> HIDE DEF inOn, inOff, on, off
<1>4. w \in 0..MaxWord /\ close \in BOOLEAN
  <2>1. (IF close THEN on ELSE off) \in Int
    BY <1>2
  <2>2. w \in 0..MaxWord
    BY <2>1, WordIs
  <2>3. close \in BOOLEAN
    OBVIOUS
  <2> QED
    BY <2>2, <2>3
<1> HIDE DEF close, w
<1>5. c \in [div5 : BOOLEAN, div : 0..MaxWord, pedge : BOOLEAN] /\ c.pedge \in BOOLEAN
  BY ChipIs
<1>6. SetClockFrequency(c, freq) = [div5 |-> close, div |-> w, pedge |-> c.pedge]
  BY <1>3, <1>4, <1>5, Registers
<1> QED
  BY <1>4, <1>5, <1>6, ChipIs

LEMMA SetChipInRange ==
  ASSUME NEW c \in Chip, NEW freq \in Int, NEW edge \in BOOLEAN
  PROVE  SetChip(c, freq, edge) \in Chip
<1> DEFINE e == IF freq = -1 THEN c ELSE SetClockFrequency(c, freq)
<1>1. e \in Chip
  BY FrequencySet
<1>2. SetChip(c, freq, edge) = [e EXCEPT !.pedge = e.pedge \/ edge]
  BY DEF SetChip
<1> HIDE DEF e
<1>3. [e EXCEPT !.pedge = e.pedge \/ edge] \in Chip
  <2>1. (e.pedge \/ edge) \in BOOLEAN
    OBVIOUS
  <2> DEFINE b == e.pedge \/ edge
  <2>2. b \in BOOLEAN
    BY <2>1
  <2> HIDE DEF b
  <2>3. [e EXCEPT !.pedge = b] \in Chip
    BY <1>1, <2>2, ChipIs
  <2> QED
    BY <2>3 DEF b
<1> QED
  BY <1>2, <1>3

LEMMA QuickStep ==
  ASSUME Inv, QuickSetup
  PROVE  Inv'
<1>1. /\ pc = "quick" /\ opts.driver \in Driver /\ opts \in Options
      /\ dev' = IF opts.driver = "AXI" THEN SetCore(dev, opts.cdiv, opts.cdel)
                ELSE SetChip(dev, opts.cfreq, opts.pedge)
      /\ pc' = IF ~Quick /\ (opts.runCalib \/ opts.load) THEN "load" ELSE "serving"
      /\ UNCHANGED <<opts, list, slack, disk, runs, made, saved>>
      /\ IF opts.driver = "AXI" THEN InRange(dev) ELSE dev \in Chip
      /\ Good(opts.driver, list, made)
  BY DEF Inv, PlaceInv, QuickSetup, TypeOK
<1>2. /\ opts.cdiv \in Int /\ opts.cdel \in Int /\ opts.cfreq \in Int /\ opts.pedge \in BOOLEAN
  BY <1>1, OptionsAssumption
<1>3. IF opts.driver = "AXI" THEN InRange(dev') ELSE dev' \in Chip
  <2>1. CASE opts.driver = "AXI"
    <3>1. InRange(SetCore(dev, opts.cdiv, opts.cdel))
      BY <1>1, <1>2, <2>1, SetCoreInRange
    <3> QED
      BY <1>1, <2>1, <3>1
  <2>2. CASE opts.driver # "AXI"
    <3>1. SetChip(dev, opts.cfreq, opts.pedge) \in Chip
      BY <1>1, <1>2, <2>2, SetChipInRange
    <3> QED
      BY <1>1, <2>2, <3>1
  <2> QED
    BY <2>1, <2>2
<1>4. TypeOK'
  BY <1>1, <1>3 DEF Inv, TypeOK
<1>5. Shape'
  BY <1>1 DEF Inv, Shape
<1>6. Quick' = Quick
  BY <1>1 DEF Quick
<1>7. PlaceInv'
  BY <1>1, <1>6 DEF Inv, PlaceInv
<1>8. FilesInv'
  BY <1>1, FilesUnchanged DEF Inv
<1>9. ~ServesItem'
  BY <1>1, <1>6 DEF ServesItem
<1> QED
  BY <1>4, <1>5, <1>7, <1>8, <1>9 DEF Inv, ServesCalibrated, RestartServesSame

LEMMA LoadStep ==
  ASSUME Inv, Load
  PROVE  Inv'
<1>1. /\ pc = "load" /\ pc' \in {"off", "choose"} /\ opts.driver \in Driver
      /\ pc' = "choose" => list' = IF opts.load THEN Loaded(opts.driver, disk) ELSE list
      /\ UNCHANGED <<opts, slack, dev, disk, runs, made, saved>>
      /\ Good(opts.driver, list, made) /\ LeftGood(opts.driver, slack, made)
      /\ ~Quick /\ (opts.runCalib \/ opts.load)
  BY DEF Inv, PlaceInv, Load
<1>2. TypeOK' /\ Shape'
  BY <1>1 DEF Inv, TypeOK, Shape
<1>3. Quick' = Quick
  BY <1>1 DEF Quick
<1>4. PlaceInv'
  BY <1>1, <1>3 DEF PlaceInv
<1>5. FilesInv'
  BY <1>1, FilesUnchanged DEF Inv
<1>6. ServesCalibrated' /\ RestartServesSame'
  BY <1>1, NotServing
<1> QED
  BY <1>2, <1>4, <1>5, <1>6 DEF Inv

(* The list main() chooses from. *)
LEMMA ListToChoose ==
  ASSUME Inv, pc = "choose"
  PROVE  /\ list \in Seq(Kind(opts.driver))
         /\ (opts.load => disk.driver = opts.driver) => Good(opts.driver, list, made)
         /\ opts.load /\ saved.driver = opts.driver =>
              /\ saved.list \in Seq(Kind(opts.driver))
              /\ list = LoadFile(SaveFile(saved.list))
<1> DEFINE d == opts.driver
<1>1. d \in Driver /\ FileGood(disk, made) /\ SavedGood(saved, disk, made)
  BY DEF Inv, PlaceInv, FilesInv
<1>2. CASE opts.load
  <2>1. list = Loaded(d, disk)
    BY <1>2 DEF Inv, PlaceInv
  <2>2. list \in Seq(Kind(d)) /\ (disk.driver = d => Good(d, list, made))
    BY <1>1, <2>1, LoadedKind
  <2>3. ASSUME saved.driver = d
        PROVE  saved.list \in Seq(Kind(d)) /\ list = LoadFile(SaveFile(saved.list))
    <3>1. disk.driver = d /\ disk.lines = SaveFile(saved.list) /\ Good(d, saved.list, made)
      BY <1>1, <2>3 DEF SavedGood, Driver
    <3>2. saved.list \in Seq(Kind(d))
      BY <3>1 DEF Good
    <3>3. disk.lines # <<>>
      BY <3>1, <3>2, ListInFile
    <3>4. Loaded(d, disk) = LoadFile(disk.lines)
      <4>1. ~(disk.lines = <<>> \/ (d = "AXI" /\ disk.driver # d))
        BY <3>1, <3>3
      <4> QED
        BY <3>1, <3>3, <4>1 DEF Loaded, FTDILoadFile
    <3> QED
      BY <2>1, <3>1, <3>2, <3>4
  <2> QED
    BY <1>2, <2>2, <2>3
<1>3. CASE ~opts.load
  <2>1. Good(d, list, made)
    BY <1>3 DEF Inv, PlaceInv
  <2> QED
    BY <1>3, <2>1 DEF Good
<1> QED
  BY <1>2, <1>3

LEMMA ChooseStep ==
  ASSUME Inv, Choose
  PROVE  Inv'
<1> DEFINE d == opts.driver
           a == Asked(list)
<1>1. /\ pc = "choose" /\ list # <<>> /\ pc' = "serving" /\ d \in Driver /\ opts \in Options
      /\ dev' = IF a = NoItem THEN dev ELSE Applied(a)
      /\ UNCHANGED <<opts, list, slack, disk, runs, made, saved>>
      /\ IF d = "AXI" THEN InRange(dev) ELSE dev \in Chip
      /\ list \in Seq(Kind(d))
  BY ListToChoose DEF Inv, PlaceInv, Choose, TypeOK
<1>2. \A i \in DOMAIN list : list[i] \in Kind(d)
  BY <1>1, KindList
<1>3. a # NoItem => \E i \in DOMAIN list : a = list[i]
  BY <1>1, AskedIs
<1>4. ASSUME a # NoItem PROVE a \in Kind(d) /\ dev' = Setting(d, a) /\ Setting(d, a) \in Regs(d)
  <2>1. a \in Kind(d)
    BY <1>2, <1>3, <1>4
  <2> HIDE DEF a
  <2>2. Applied(a) = Setting(d, a)
    BY <1>1, <2>1, AppliedIs
  <2>3. Setting(d, a) \in Regs(d)
    BY <1>1, <2>1, KindIs
  <2> QED
    BY <1>1, <1>4, <2>1, <2>2, <2>3
<1>5. IF d = "AXI" THEN InRange(dev') ELSE dev' \in Chip
  <2>1. ASSUME NEW r \in Core PROVE InRange(r)
    <3>1. MaxClockDiv \in Nat /\ MaxClockDelay \in Nat
      BY SMT DEF MaxClockDiv, MaxClockDelay
    <3> QED
      BY <3>1 DEF Core, InRange
  <2> HIDE DEF a
  <2> QED
    BY <1>1, <1>4, <2>1 DEF Regs
<1>6. TypeOK'
  BY <1>1, <1>5 DEF Inv, TypeOK
<1>7. Shape'
  BY <1>1 DEF Inv, Shape
<1>8. PlaceInv'
  BY <1>1 DEF Inv, PlaceInv
<1>9. FilesInv'
  BY <1>1, FilesUnchanged DEF Inv
<1>10. ServesCalibrated'
  <2> SUFFICES ASSUME opts.id = -1, opts.load => disk.driver = opts.driver
               PROVE  dev' \in made[d]
    BY <1>1 DEF ServesCalibrated
  <2>1. PICK i \in DOMAIN list : a = list[i]
    BY <1>1, AskedIs
  <2>2. Good(d, list, made)
    BY <1>1, ListToChoose
  <2>3. a # NoItem
    <3> DEFINE x == list[i]
    <3>1. x \in Kind(d)
      BY <1>2
    <3> HIDE DEF x
    <3>2. x # NoItem
      BY <1>1, <3>1, KindIs
    <3> QED
      BY <2>1, <3>2 DEF x
  <2>4. Setting(d, a) \in made[d]
    BY <2>1, <2>2 DEF Good
  <2> QED
    BY <1>4, <2>3, <2>4
<1>11. RestartServesSame'
  <2>1. (Asked(saved.list))' = Asked(saved.list)
    BY <1>1 DEF Asked, ById
  <2> SUFFICES ASSUME opts.load, saved.driver = opts.driver, Asked(saved.list) # NoItem
               PROVE  dev' = Setting(d, Asked(saved.list))
    BY <1>1, <2>1 DEF RestartServesSame
  <2>2. saved.list \in Seq(Kind(d)) /\ list = LoadFile(SaveFile(saved.list))
    BY <1>1, ListToChoose
  <2>3. a = Asked(saved.list)
    <3> DEFINE l == saved.list
    <3>1. l \in Seq(Kind(d)) /\ list = LoadFile(SaveFile(l))
      BY <2>2
    <3> HIDE DEF l
    <3>2. Asked(list) = Asked(l)
      BY <1>1, <3>1, SameAnswer
    <3> QED
      BY <3>2 DEF l
  <2> QED
    BY <1>4, <2>3
<1> QED
  BY <1>6, <1>7, <1>8, <1>9, <1>10, <1>11 DEF Inv

(* A list that was cleared is still one of a calibration of this run. *)
LEMMA ChooseNothingStep ==
  ASSUME Inv, ChooseNothing
  PROVE  Inv'
<1> DEFINE d == opts.driver
<1>1. /\ pc = "choose" /\ list = <<>> /\ d \in Driver /\ opts \in Options
      /\ UNCHANGED <<opts, list, slack, disk, runs, made, saved>>
      /\ IF d = "AXI" THEN InRange(dev) ELSE dev \in Chip
      /\ LeftGood(d, slack, made)
  BY DEF Inv, PlaceInv, ChooseNothing, TypeOK
<1>2. Shape'
  BY <1>1 DEF Inv, Shape
<1>3. FilesInv'
  BY <1>1, FilesUnchanged DEF Inv
<1>4. CASE pc' = "off" /\ UNCHANGED dev
  <2>1. TypeOK' /\ PlaceInv'
    BY <1>1, <1>4 DEF Inv, TypeOK, PlaceInv
  <2> QED
    BY <1>2, <1>3, <1>4, <2>1, NotServing DEF Inv
<1>5. CASE /\ d = "FTDI" /\ slack # NoItem
           /\ dev' = IF opts.id # -1 THEN dev ELSE Applied(slack)
           /\ pc' = "serving"
  <2>1. slack \in Kind(d) /\ Setting(d, slack) \in made[d]
    BY <1>1, <1>5 DEF LeftGood
  <2>2. Applied(slack) = Setting(d, slack) /\ Setting(d, slack) \in Chip
    BY <1>1, <1>5, <2>1, AppliedIs, KindIs
  <2>3. dev' \in Chip /\ (opts.id = -1 => dev' \in made[d])
    BY <1>1, <1>5, <2>1, <2>2
  <2>4. TypeOK'
    BY <1>1, <1>5, <2>3 DEF Inv, TypeOK
  <2>5. PlaceInv'
    BY <1>1, <1>5 DEF Inv, PlaceInv
  <2>6. ServesCalibrated'
    BY <1>1, <2>3 DEF ServesCalibrated
  <2>7. RestartServesSame'
    <3>1. ASSUME opts.load, saved.driver = opts.driver, saved.list # <<>> PROVE FALSE
      <4> DEFINE l == saved.list
      <4>1. l \in Seq(Kind(d)) /\ <<>> = LoadFile(SaveFile(l))
        BY <1>1, <3>1, ListToChoose
      <4> HIDE DEF l
      <4>2. l = <<>>
        <5>1. SUFFICES ASSUME l # <<>> PROVE FALSE
          OBVIOUS
        <5>2. <<>> = Append(l, l[Len(l)])
          BY <4>1, <5>1, LoadedFile
        <5> DEFINE x == l[Len(l)]
        <5>3. x \in Kind(d)
          BY <1>1, <4>1, <5>1, KindList
        <5> HIDE DEF x
        <5>4. Append(l, x) # <<>>
          BY <4>1, <5>3, AppendProperties
        <5> QED
          BY <5>2, <5>4 DEF x
      <4> QED
        BY <3>1, <4>2 DEF l
    <3> QED
      BY <1>1, <3>1 DEF RestartServesSame
  <2> QED
    BY <1>2, <1>3, <2>4, <2>5, <2>6, <2>7 DEF Inv
<1> QED
  BY <1>4, <1>5 DEF ChooseNothing

-----------------------------------------------------------------------------

LEMMA NextInv == Inv /\ [Next]_vars => Inv'
<1> SUFFICES ASSUME Inv, [Next]_vars PROVE Inv'
  OBVIOUS
<1>1. CASE UNCHANGED vars
  <2>1. UNCHANGED <<pc, opts, list, slack, dev, disk, runs, made, saved>>
    BY <1>1 DEF vars
  <2>2. TypeOK' /\ Shape' /\ PlaceInv' /\ FilesInv'
    <3>1. TypeOK' /\ Shape'
      BY <2>1 DEF Inv, TypeOK, Shape
    <3>2. Quick' = Quick
      BY <2>1 DEF Quick
    <3>3. PlaceInv'
      BY <2>1, <3>2 DEF Inv, PlaceInv
    <3> QED
      BY <2>1, <3>1, <3>3, FilesUnchanged DEF Inv
  <2>3. ServesItem' = ServesItem
    BY <2>1 DEF ServesItem, Quick
  <2>4. ServesCalibrated'
    BY <2>1, <2>3 DEF Inv, ServesCalibrated
  <2>5. (Asked(saved.list))' = Asked(saved.list)
    BY <2>1 DEF Asked, ById
  <2>6. RestartServesSame'
    BY <2>1, <2>3, <2>5 DEF Inv, RestartServesSame
  <2> QED
    BY <2>2, <2>4, <2>6 DEF Inv
<1>2. CASE Next
  BY <1>2, StartStep, ConnectStep, CalibrateStep, SkipStep, SaveFailsStep, SaveOpensStep,
     SaveLineStep, SaveClosesStep, QuickStep, LoadStep, ChooseStep, ChooseNothingStep, KillStep
     DEF Next
<1> QED
  BY <1>1, <1>2

(* The invariant of main() and its file, run after run. *)
THEOREM Invariance == Spec => []Inv
BY InitInv, NextInv, PTL DEF Spec

(* The registers of the device stay in the range its driver keeps to       *)
(* (setClockDiv(), setClockDelay() and the MPSSE's divisor word).          *)
THEOREM TypeCorrect == Spec => []TypeOK
<1>1. Inv => TypeOK
  BY DEF Inv
<1> QED
  BY <1>1, Invariance, PTL

(* A server that was told to calibrate, or to load a file its own driver   *)
(* wrote, runs at a setting some calibration of its driver found good,     *)
(* whatever runs and kills came before; not one told an id, or to set the  *)
(* clock by hand (main(), saveFile() and loadFile()).                      *)
THEOREM AlwaysServesCalibrated == Spec => []ServesCalibrated
<1>1. Inv => ServesCalibrated
  BY DEF Inv
<1> QED
  BY <1>1, Invariance, PTL

(* A process that loads a save that ended well serves with the item the    *)
(* saving one would have chosen (saveFile(), loadFile(), lines 213 to 295).*)
THEOREM RestartAlwaysServesSame == Spec => []RestartServesSame
<1>1. Inv => RestartServesSame
  BY DEF Inv
<1> QED
  BY <1>1, Invariance, PTL
=============================================================================
