--------------------------- MODULE FTDICalibrator ---------------------------
(***************************************************************************)
(* FTDICalibrator::start() of src/src/ftdicalibrator.cpp: from the slowest *)
(* divisor to the fastest, and for both edges TDO can be sampled on, an    *)
(* item is kept if the IDCODE of the target reads right Loop times in a    *)
(* row.  The cable and the target are the environment: a probe matches or  *)
(* it does not.                                                            *)
(***************************************************************************)
EXTENDS FTDISetup, FTDIClock, Sequences

CONSTANTS
    Ranges,             \* values of minfreq and maxfreq: records [min, max]
    Loop                \* loop

(* What main() lets through (xvcserver.cpp, lines 151 to 158): any two     *)
(* ints in order, zero and negative ones too.                              *)
ASSUME RangesAssumption == \A r \in Ranges : r.min \in Int /\ r.max \in Int /\ r.min <= r.max
ASSUME LoopAssumption == Loop \in Nat

VARIABLES
    range,          \* minfreq and maxfreq
    pc,             \* "set", "probe", "done", "crashed"
    cdiv, tdoSampling,
    match,          \* i of the probe loop, and match
    setup,          \* calibList of the FTDISetup
    chip,           \* the registers of the FTDI chip
    good            \* history: good[s], probes that matched in a row at setting s

vars == <<range, pc, cdiv, tdoSampling, match, setup, chip, good>>

MinVal == DivisorByFrequency(FALSE, range.max)
MaxVal == DivisorByFrequency(FALSE, range.min)

Setting == [div5 : BOOLEAN, div : 0..65535, pedge : BOOLEAN]
Item == [id : 0..(2 * (MaxVal - MinVal + 1)), div : MinVal..MaxVal, pedge : BOOLEAN, freq : Int]

TypeOK ==
    /\ range \in Ranges
    /\ pc \in {"set", "probe", "done", "crashed"}
    /\ cdiv = MaxVal \/ cdiv \in (MinVal - 1)..MaxVal
    /\ tdoSampling \in 0..1
    /\ match \in 0..Loop
    /\ setup \in Seq(Item)
    /\ chip \in Setting
    /\ \A s \in DOMAIN good : s \in Setting /\ good[s] \in 0..Loop

(* A frequency whose double is 0 is divided by (lines 28 and 29); and the  *)
(* sweep of a range from a negative frequency to a positive one is empty.  *)
Dies == Twice(range.max) = 0 \/ Twice(range.min) = 0

Init ==
    /\ range \in Ranges
    /\ pc = IF Dies THEN "crashed" ELSE IF MaxVal >= MinVal THEN "set" ELSE "done"
    /\ cdiv = MaxVal /\ tdoSampling = 0 /\ match = 0
    /\ setup = <<>>
    /\ chip = Detected([div5 |-> FALSE, div |-> 0, pedge |-> FALSE])
    /\ good = [s \in {} |-> 0]

SetClockStale ==                \* fault: the edge of the second pass is not set
    /\ pc = "set"
    /\ chip' = SetClockDiv([chip EXCEPT !.pedge = (tdoSampling = 1 /\ cdiv # MinVal)], FALSE, cdiv)
    /\ match' = 0
    /\ pc' = "probe"
    /\ UNCHANGED <<range, cdiv, tdoSampling, setup, good>>

(* The frequency of the divisor is worked out too: of divisor -1, to which *)
(* a maxfreq above 30 MHz leads, it is a division by zero.                 *)
SetClock ==
    /\ pc = "set"
    /\ chip' = SetClockDiv([chip EXCEPT !.pedge = (tdoSampling = 1)], FALSE, cdiv)
    /\ match' = 0
    /\ pc' = IF cdiv = -1 THEN "crashed" ELSE "probe"
    /\ UNCHANGED <<range, cdiv, tdoSampling, setup, good>>

ProbeMatchesOver ==             \* fault: i <= loop
    /\ pc = "probe" /\ match <= Loop
    /\ match' = match + 1
    /\ good' = [s \in DOMAIN good \cup {chip} |-> IF s = chip THEN match' ELSE good[s]]
    /\ UNCHANGED <<range, pc, cdiv, tdoSampling, setup, chip>>

ProbeMatches ==
    /\ pc = "probe" /\ match < Loop
    /\ match' = match + 1
    /\ good' = [s \in DOMAIN good \cup {chip} |-> IF s = chip THEN match' ELSE good[s]]
    /\ UNCHANGED <<range, pc, cdiv, tdoSampling, setup, chip>>

(* On to the other edge, then to the next divisor; after the last one, the *)
(* items of list get their final ids.                                      *)
NextSettingDown(list) ==        \* fault: cdiv > minVal
    /\ tdoSampling' = 1 - tdoSampling
    /\ cdiv' = IF tdoSampling = 0 THEN cdiv ELSE cdiv - 1
    /\ IF cdiv' > MinVal
       THEN pc' = "set" /\ setup' = list
       ELSE pc' = "done" /\ setup' = FTDIFinalize(list)

NextSettingStuck(list) ==       \* fault: no cdiv--
    /\ tdoSampling' = 1 - tdoSampling
    /\ pc' = "set" /\ setup' = list
    /\ UNCHANGED cdiv

NextSetting(list) ==
    /\ tdoSampling' = 1 - tdoSampling
    /\ cdiv' = IF tdoSampling = 0 THEN cdiv ELSE cdiv - 1
    /\ IF cdiv' >= MinVal
       THEN pc' = "set" /\ setup' = list
       ELSE pc' = "done" /\ setup' = FTDIFinalize(list)

ProbeDiffers ==
    /\ pc = "probe" /\ match < Loop
    /\ good' = [s \in DOMAIN good \cup {chip} |-> IF s = chip THEN 0 ELSE good[s]]
    /\ NextSetting(setup)
    /\ UNCHANGED <<range, match, chip>>

Keep ==
    /\ pc = "probe" /\ match = Loop
    /\ NextSetting(FTDIAddItem(setup,
         [id |-> Len(setup) + 1, div |-> cdiv, pedge |-> (tdoSampling = 1),
          freq |-> FrequencyByDivisor(FALSE, cdiv)]))
    /\ UNCHANGED <<range, match, chip, good>>

Next == SetClock \/ ProbeMatches \/ ProbeDiffers \/ Keep

Spec == Init /\ [][Next]_vars
FairSpec == Spec /\ WF_vars(Next)

-----------------------------------------------------------------------------

(* What the chip is set to when an item is chosen (xvcserver.cpp, 290). *)
Applied(item) == SetClockDiv([chip EXCEPT !.pedge = item.pedge], FALSE, item.div)

(* At the setting an item stands for, the last Loop probes all matched     *)
(* (lines 42 to 69).                                                       *)
ItemsProbed ==
    \A i \in DOMAIN setup :
        LET s == Applied(setup[i]) IN s \in DOMAIN good /\ good[s] = Loop

(* The frequency of an item is the one the chip runs at, with the 16 bits  *)
(* of divisor it has (lines 43, 44 and setClockDiv).                       *)
RecordedFrequency ==
    \A i \in DOMAIN setup :
        LET s == Applied(setup[i]) IN setup[i].freq = FrequencyByDivisor(s.div5, s.div)

(* maxfreq is the "max clock frequency for calibration" (README.md, 45).   *)
WithinMaxFreq == \A i \in DOMAIN setup : setup[i].freq <= range.max

(* When the calibration is done, every setting of the range was probed and *)
(* those whose probes all matched, and no others, are items; the default   *)
(* is one of the fastest, by whole Hz, on the negative edge if that one    *)
(* does; and an item can be had by its id after a save and a load (lines   *)
(* 31 to 80, ftdisetup).                                                   *)
NothingMissed ==
    pc = "done" =>
        LET loaded == FTDILoadFile(FTDISaveFile(setup))
            passed == {s \in DOMAIN good : good[s] = Loop}
        IN  /\ \A d \in MinVal..MaxVal, e \in BOOLEAN :
                 [div5 |-> FALSE, div |-> DivisorWord(d), pedge |-> e] \in DOMAIN good
            /\ passed = {Applied(setup[i]) : i \in DOMAIN setup}
            /\ setup # <<>> =>
                 LET best == Applied(FTDIItemByMaxFrequency(loaded)) IN
                 /\ best \in passed
                 /\ \A s \in passed :
                      /\ FrequencyByDivisor(s.div5, s.div) <= FrequencyByDivisor(best.div5, best.div)
                      /\ best.pedge /\ best.div = s.div => s.pedge
            /\ \A i \in DOMAIN setup : FTDIItemById(loaded, Len(setup) - i) = setup[i]

(* The calibration ends, whatever the probes return (the loops, 31 to 78), *)
(* or divides by zero: it never sweeps on for ever.                        *)
CalibrationEnds == <>(pc \in {"done", "crashed"})
=============================================================================
