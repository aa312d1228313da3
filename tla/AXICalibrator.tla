--------------------------- MODULE AXICalibrator ---------------------------
(***************************************************************************)
(* AXICalibrator::start() of src/src/axicalibrator.cpp.  For each clock    *)
(* divisor, phase 1 sweeps the delay between the clock and the sampling of *)
(* TDO, and keeps the centre of the first window of delays at which a      *)
(* value comes back through the target's BYPASS register.  Phase 2 tries   *)
(* the items found on harder patterns, fastest first, until one passes.    *)
(*                                                                         *)
(* The cable and the target are the environment: a probe succeeds or not.  *)
(***************************************************************************)
EXTENDS AXISetup, FiniteSets

CONSTANTS
    MaxDiv,         \* MAX_CLOCK_DIV (255)
    MaxDelay,       \* MAX_CLOCK_DELAY (1024): delays are below it
    Hysts,          \* values of hyst
    CalibSizes,     \* values of calibSize
    AskedFreqs      \* frequencies a user asks for

ASSUME SweepAssumption == MaxDiv \in Nat /\ MaxDelay \in Nat \ {0}
ASSUME OptionAssumption ==
    Hysts \subseteq Nat /\ CalibSizes \subseteq Nat /\ AskedFreqs \subseteq Nat

Patterns == 1..3        \* walking zero, growing zero, walking one

VARIABLES
    hyst,           \* successes in a row that open a window
    calibSize,      \* items to find in quick mode, or 0
    pc,             \* "probe", "swept", "item", "pattern", "delete", "done"
    cdiv, cdel,     \* the point of the sweep
    minDelay, maxDelay, validPoints, h, record,
    numEntry,
    setup,          \* calibList of the AXISetup
    index, goodItem, badList,
    pattern,        \* the pattern phase 2 is at
    dev,            \* the clock registers of the device
    eye             \* history: eye[d], the delays that succeeded at divisor d, if it is kept

sweepVars == <<cdiv, cdel, minDelay, maxDelay, validPoints, h, record, numEntry, eye>>
itemVars == <<index, goodItem, badList, pattern>>
argVars == <<hyst, calibSize>>
vars == <<argVars, pc, sweepVars, itemVars, setup, dev>>

Item == [id : 0..MaxDiv, div : 0..MaxDiv, del : 0..(MaxDelay - 1),
         freq : Nat, valid : 0..(MaxDelay + 1)]

TypeOK ==
    /\ hyst \in Hysts /\ calibSize \in CalibSizes
    /\ pc \in {"probe", "swept", "item", "pattern", "delete", "done"}
    /\ cdiv \in 0..MaxDiv /\ cdel \in Nat
    /\ minDelay \in -1..(MaxDelay - 1) /\ maxDelay \in -1..(MaxDelay - 1)
    /\ validPoints \in 0..(MaxDelay + 1)
    /\ h \in 0..MaxDelay /\ record \in BOOLEAN
    /\ numEntry \in 0..(MaxDiv + 1)
    /\ setup \in Seq(Item)
    /\ index \in 0..Len(setup) \/ pc \in {"delete", "done"}
    /\ goodItem \in BOOLEAN /\ badList \in Seq(0..MaxDiv) /\ pattern \in Patterns
    /\ dev \in [div : 0..MaxDiv, del : 0..(MaxDelay - 1)]
    /\ eye \in [0..MaxDiv -> SUBSET (0..(MaxDelay - 1))]

-----------------------------------------------------------------------------
(* Phase 1.                                                                *)

Frequency(div) == 100000000 \div ((div + 1) * 2)

Half(n) == IF n < 0 THEN -((-n) \div 2) ELSE n \div 2      \* n / 2 of C

SweptLate == cdel > MaxDelay    \* fault: cdel <= MAX_CLOCK_DELAY
Swept == cdel >= MaxDelay

ProbeOk ==
    /\ pc = "probe" /\ ~Swept
    /\ LET opens == minDelay = -1 /\ h + 1 >= hyst
           points == IF opens THEN hyst ELSE validPoints
       IN  /\ h' = IF minDelay = -1 THEN h + 1 ELSE h
           /\ minDelay' = IF opens THEN cdel - hyst ELSE minDelay
           /\ record' = (record \/ opens)
           /\ maxDelay' = IF record' THEN cdel ELSE maxDelay
           /\ validPoints' = IF record' THEN points + 1 ELSE points
    /\ dev' = [div |-> cdiv, del |-> cdel]
    /\ eye' = [eye EXCEPT ![cdiv] = @ \cup {cdel}]
    /\ cdel' = cdel + 1
    /\ UNCHANGED <<argVars, pc, cdiv, numEntry, itemVars, setup>>

ProbeFailsOn ==                 \* fault: no break
    /\ pc = "probe" /\ ~Swept
    /\ h' = 0
    /\ dev' = [div |-> cdiv, del |-> cdel]
    /\ cdel' = cdel + 1
    /\ UNCHANGED <<argVars, pc, cdiv, minDelay, maxDelay, validPoints, record,
                   numEntry, eye, itemVars, setup>>

(* The first failure after the window opened closes it. *)
ProbeFails ==
    /\ pc = "probe" /\ ~Swept
    /\ h' = 0
    /\ dev' = [div |-> cdiv, del |-> cdel]
    /\ IF record
       THEN pc' = "swept" /\ UNCHANGED cdel
       ELSE cdel' = cdel + 1 /\ UNCHANGED pc
    /\ UNCHANGED <<argVars, cdiv, minDelay, maxDelay, validPoints, record,
                   numEntry, eye, itemVars, setup>>

SweepEnds ==
    /\ pc = "probe" /\ Swept
    /\ pc' = "swept"
    /\ UNCHANGED <<argVars, sweepVars, itemVars, setup, dev>>

(* The window is wide enough for the divisor. *)
Accepted == record /\ validPoints >= cdiv \div 2

NewItemUnparenthesised ==       \* fault: maxDelay + minDelay / 2
    [id |-> Len(setup), div |-> cdiv, del |-> maxDelay + Half(minDelay),
     freq |-> Frequency(cdiv), valid |-> validPoints]

NewItem ==
    [id |-> Len(setup), div |-> cdiv, del |-> Half(maxDelay + minDelay),
     freq |-> Frequency(cdiv), valid |-> validPoints]

(* On to the next divisor, or to phase 2: after the last divisor, or with  *)
(* the items quick mode asks for.                                          *)
NextDivisor ==
    /\ pc = "swept"
    /\ setup' = IF Accepted THEN AddItem(setup, NewItem) ELSE setup
    /\ numEntry' = IF Accepted /\ calibSize > 0 THEN numEntry + 1 ELSE numEntry
    /\ IF cdiv = MaxDiv \/ (Accepted /\ calibSize > 0 /\ numEntry' = calibSize)
       THEN /\ pc' = "item"
            /\ UNCHANGED <<cdiv, cdel, minDelay, maxDelay, validPoints, h, record, dev>>
       ELSE /\ pc' = "probe"
            /\ cdiv' = cdiv + 1 /\ cdel' = (cdiv + 1) \div 2
            /\ minDelay' = -1 /\ maxDelay' = -1 /\ validPoints' = 0
            /\ h' = 0 /\ record' = FALSE
            /\ dev' = [dev EXCEPT !.div = cdiv + 1]
    /\ eye' = IF Accepted THEN eye ELSE [eye EXCEPT ![cdiv] = {}]
    /\ UNCHANGED <<argVars, itemVars>>

-----------------------------------------------------------------------------
(* Phase 2.                                                                *)

TryItem ==
    /\ pc = "item" /\ index < Len(setup) /\ ~goodItem
    /\ goodItem' = TRUE
    /\ LET item == setup[index + 1] IN dev' = [div |-> item.div, del |-> item.del]
    /\ pattern' = 1
    /\ pc' = "pattern"
    /\ UNCHANGED <<argVars, sweepVars, index, badList, setup>>

(* An item passed, or none is left. *)
StopTrying ==
    /\ pc = "item" /\ (index >= Len(setup) \/ goodItem)
    /\ pc' = "delete"
    /\ UNCHANGED <<argVars, sweepVars, itemVars, setup, dev>>

(* The 100 passes of a pattern come back as they were sent. *)
PatternHolds ==
    /\ pc = "pattern"
    /\ IF pattern < 3
       THEN pattern' = pattern + 1 /\ UNCHANGED <<argVars, pc, index>>
       ELSE pc' = "item" /\ index' = index + 1 /\ UNCHANGED pattern
    /\ UNCHANGED <<argVars, sweepVars, goodItem, badList, setup, dev>>

PatternFailsRetried ==          \* fault: the item is tried again
    /\ pc = "pattern"
    /\ goodItem' = FALSE
    /\ pc' = "item"
    /\ UNCHANGED <<argVars, sweepVars, index, badList, pattern, setup, dev>>

(* One of them does not: the other patterns are skipped. *)
PatternFails ==
    /\ pc = "pattern"
    /\ badList' = Append(badList, setup[index + 1].id)
    /\ goodItem' = FALSE
    /\ pc' = "item" /\ index' = index + 1
    /\ UNCHANGED <<argVars, sweepVars, pattern, setup, dev>>

DeleteFailedRenumbered ==       \* fault: renumbers as it deletes
    /\ pc = "delete" /\ badList # <<>>
    /\ setup' = Finalize(DelItemById(setup, Head(badList)))
    /\ badList' = Tail(badList)
    /\ UNCHANGED <<argVars, pc, sweepVars, index, goodItem, pattern, dev>>

(* The failed items are deleted, in the order they failed. *)
DeleteFailed ==
    /\ pc = "delete" /\ badList # <<>>
    /\ setup' = DelItemById(setup, Head(badList))
    /\ badList' = Tail(badList)
    /\ UNCHANGED <<argVars, pc, sweepVars, index, goodItem, pattern, dev>>

Finish ==
    /\ pc = "delete" /\ badList = <<>>
    /\ setup' = Finalize(setup)
    /\ pc' = "done"
    /\ UNCHANGED <<argVars, sweepVars, itemVars, dev>>

-----------------------------------------------------------------------------

Init ==
    /\ hyst \in Hysts /\ calibSize \in CalibSizes
    /\ pc = "probe"
    /\ cdiv = 0 /\ cdel = 0
    /\ minDelay = -1 /\ maxDelay = -1 /\ validPoints = 0 /\ h = 0 /\ record = FALSE
    /\ numEntry = 0
    /\ setup = <<>>
    /\ index = 0 /\ goodItem = FALSE /\ badList = <<>> /\ pattern = 1
    /\ dev = [div |-> 0, del |-> MaxDelay - 1]     \* the delay detect() ended with
    /\ eye = [d \in 0..MaxDiv |-> {}]

Next ==
    \/ ProbeOk \/ ProbeFails \/ SweepEnds \/ NextDivisor
    \/ TryItem \/ PatternHolds \/ PatternFails
    \/ StopTrying \/ DeleteFailed \/ Finish

Spec == Init /\ [][Next]_vars
FairSpec == Spec /\ WF_vars(Next)

-----------------------------------------------------------------------------
(* The points first..last of the sweep at divisor d all succeeded. *)
Measured(d, first, last) == first..last \subseteq eye[d]

(* Every item stands for a window of the delays that were measured valid,  *)
(* without a hole: it has as many points as the item says, and the item's  *)
(* delay is its centre (lines 63 to 108, without hysteresis).              *)
WindowMeasured ==
    hyst = 0 =>
        \A i \in DOMAIN setup :
            LET item == setup[i] IN
            \E first \in eye[item.div] :
                LET last == first + item.valid - 1 IN
                /\ first <= last /\ Measured(item.div, first, last)
                /\ item.del = (first + last) \div 2

(* With hysteresis the delay is still at most one step below a delay that  *)
(* was measured valid (line 74 opens the window one step early).           *)
DelayNearWindow ==
    \A i \in DOMAIN setup :
        LET item == setup[i] IN {item.del, item.del + 1} \cap eye[item.div] # {}

(* The number of points of an item is a number of "consecutive valid       *)
(* measurements", as the comment of line 26 has it.                        *)
ValidPointsConsecutive ==
    \A i \in DOMAIN setup :
        LET item == setup[i] IN
        \E first \in eye[item.div] : Measured(item.div, first, first + item.valid - 1)

(* What the server runs at by default after a calibration, the item of     *)
(* maximum frequency, is the item that passed every pattern of phase 2,    *)
(* whatever was deleted and renumbered; and the device is left with it     *)
(* (lines 153 to 207, and ItemByMaxFrequency).                             *)
DefaultHardened ==
    pc = "done" /\ setup # <<>> =>
        LET item == ItemByMaxFrequency(setup) IN
        goodItem /\ dev = [div |-> item.div, del |-> item.del]

(* A user who saves the calibration and loads it later gets the same item  *)
(* by id, by frequency and by default, although the loaded list ends with  *)
(* its last item twice (loadFile, lines 47 to 70).                         *)
SelectionSurvivesFile ==
    pc = "done" =>
        LET loaded == LoadFile(SaveFile(setup)) IN
        /\ \A id \in 0..MaxDiv : ItemById(loaded, id) = ItemById(setup, id)
        /\ \A f \in AskedFreqs : ItemByFrequency(loaded, f) = ItemByFrequency(setup, f)
        /\ ItemByMaxFrequency(loaded) = ItemByMaxFrequency(setup)

(* The item chosen for a frequency is the closest there is (lines 134 to   *)
(* 164 against the definition of closest).                                 *)
ClosestChosen ==
    pc = "done" =>
        \A f \in AskedFreqs : \A i \in DOMAIN setup :
            Dist(f, ItemByFrequency(setup, f).freq) <= Dist(f, setup[i].freq)

(* The calibration ends, whatever comes back (all the loops of start()).   *)
CalibrationEnds == <>(pc = "done")
=============================================================================
