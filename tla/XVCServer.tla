----------------------------- MODULE XVCServer -----------------------------
(***************************************************************************)
(* main() of src/src/xvcserver.cpp, run after run: a process finds its     *)
(* device, calibrates it, saves the calibration, loads one, chooses an     *)
(* item and serves, as its options say, and may be killed at any point.    *)
(* The calibration file and the registers of the device outlive it.        *)
(*                                                                         *)
(* One file is used for -s and -l.  A line of it is written whole or not   *)
(* at all.  What a calibration yields is taken from its own modules.       *)
(***************************************************************************)
EXTENDS AXISetup, FTDISetup, FTDIClock

CONSTANTS
    Options,        \* the command lines users give
    Calibrations,   \* Calibrations[driver]: results, [list, dev]
    MaxRuns,        \* bound: processes started
    DiskMayFail     \* whether the file system may refuse to open or write

Driver == {"AXI", "FTDI"}
MaxClockDiv == 255
MaxClockDelay == 1024

Chip == [div5 : BOOLEAN, div : 0..65535, pedge : BOOLEAN]
Core == [div : 0..MaxClockDiv, del : 0..MaxClockDelay]

AXIItems == [id : Nat, div : 0..MaxClockDiv, del : 0..MaxClockDelay, freq : Nat, valid : Nat]
FTDIItems == [id : Nat, div : 0..65535, pedge : BOOLEAN, freq : Nat]

ASSUME OptionsAssumption ==
    \A o \in Options :
        /\ o.driver \in STRING
        /\ {o.scan, o.runCalib, o.save, o.load, o.pedge, o.sweepOk} \subseteq BOOLEAN
        /\ {o.cdiv, o.cdel, o.cfreq, o.id, o.freq} \subseteq Int
ASSUME BoundAssumption == MaxRuns \in Nat /\ DiskMayFail \in BOOLEAN

(* What an item of each driver stands for. *)
Setting(driver, item) ==
    IF driver = "AXI" THEN [div |-> item.div, del |-> item.del]
    ELSE [div5 |-> FALSE, div |-> item.div, pedge |-> item.pedge]

(* A calibration of the AXI device leaves it with its first item, if it    *)
(* has one; the FTDI device is left where the sweep ended.  The types of   *)
(* the items are those of the calibrators, for FTDI in the ranges whose    *)
(* divisors have 16 bits (ClockRange): what main() lets through beyond     *)
(* them is in FTDICalibrator and not here.                                 *)
ASSUME CalibrationsAssumption ==
    /\ \A c \in Calibrations["AXI"] :
         /\ c.list \in Seq(AXIItems) /\ c.dev \in Core
         /\ c.list # <<>> => c.dev = Setting("AXI", c.list[1])
    /\ \A c \in Calibrations["FTDI"] : c.list \in Seq(FTDIItems) /\ c.dev \in Chip

VARIABLES
    pc,         \* "off": no process; else where main() is
    opts,
    list,       \* calibList of the AXISetup or of the FTDISetup
    slack,      \* what the storage of calibList begins with once it is cleared
    dev,        \* the clock registers of the device
    disk,       \* the calibration file: who wrote it, and its lines
    runs,
    (* histories *)
    made,       \* made[d]: settings of the items calibrations of d found
    saved       \* the list and driver of the file, if its save ended well

vars == <<pc, opts, list, slack, dev, disk, runs, made, saved>>

NoFile == [driver |-> "none", lines |-> <<>>]
Unsaved == [driver |-> "none", list |-> <<>>]

Init ==
    /\ pc = "off" /\ opts \in Options
    /\ list = <<>> /\ slack = NoItem
    /\ dev = [div |-> 0, del |-> 0]
    /\ disk = NoFile /\ runs = 0
    /\ made = [d \in Driver |-> {}] /\ saved = Unsaved

-----------------------------------------------------------------------------

Start ==
    /\ pc = "off" /\ runs < MaxRuns
    /\ opts' \in Options
    /\ list' = <<>> /\ slack' = NoItem
    /\ runs' = runs + 1
    /\ pc' = "driver"
    /\ UNCHANGED <<dev, disk, made, saved>>

(* The driver's constructor, which sets the device to its slowest clock to *)
(* detect the target, or throws; or there is no such driver.               *)
Connect ==
    /\ pc = "driver"
    /\ \/ /\ opts.driver \in Driver
          /\ dev' = IF opts.driver = "AXI"
                    THEN [div |-> MaxClockDiv, del |-> MaxClockDelay - 1]
                    ELSE Detected([div5 |-> FALSE, div |-> 299, pedge |-> FALSE])
          /\ pc' = IF opts.scan THEN "off" ELSE "calibrate"
       \/ pc' = "off" /\ UNCHANGED dev
    /\ UNCHANGED <<opts, list, slack, disk, runs, made, saved>>

WantsCalibration == opts.runCalib \/ opts.save

(* sweepOk: minfreq <= maxfreq and loop >= 0, which only FTDI asks for. *)
Calibrate ==
    /\ pc = "calibrate" /\ WantsCalibration
    /\ IF opts.driver = "FTDI" /\ ~opts.sweepOk
       THEN pc' = "off" /\ UNCHANGED <<list, slack, dev, made>>
       ELSE \E c \in Calibrations[opts.driver] :
              /\ list' = c.list /\ dev' = c.dev
              /\ slack' = IF c.list = <<>> THEN NoItem ELSE c.list[1]
              /\ made' = [made EXCEPT ![opts.driver] =
                            @ \cup {Setting(opts.driver, c.list[i]) : i \in DOMAIN c.list}]
              /\ pc' = IF opts.save THEN "save" ELSE "quick"
    /\ UNCHANGED <<opts, disk, runs, saved>>

SkipCalibration ==
    /\ pc = "calibrate" /\ ~WantsCalibration
    /\ pc' = "quick"
    /\ UNCHANGED <<opts, list, slack, dev, disk, runs, made, saved>>

-----------------------------------------------------------------------------
(* saveFile(), whose result main() does not look at: it says that the data *)
(* is saved and goes on, whether or not it is.                             *)

Saved == pc' = IF opts.runCalib THEN "quick" ELSE "off"

SaveFails ==
    /\ pc = "save" /\ DiskMayFail
    /\ Saved
    /\ UNCHANGED <<opts, list, slack, dev, disk, runs, made, saved>>

SaveOpens ==
    /\ pc = "save"
    /\ disk' = [driver |-> opts.driver, lines |-> <<>>]
    /\ saved' = Unsaved
    /\ pc' = "saving"
    /\ UNCHANGED <<opts, list, slack, dev, runs, made>>

FileOf == IF opts.driver = "AXI" THEN SaveFile(list) ELSE FTDISaveFile(list)
Written == Len(disk.lines)

SaveLine ==
    /\ pc = "saving" /\ Written < Len(FileOf)
    /\ disk' = [disk EXCEPT !.lines = Append(@, FileOf[Written + 1])]
    /\ UNCHANGED <<pc, opts, list, slack, dev, runs, made, saved>>

SaveCloses ==
    /\ pc = "saving"
    /\ \/ Written = Len(FileOf) /\ saved' = [driver |-> opts.driver, list |-> list]
       \/ Written < Len(FileOf) /\ DiskMayFail /\ UNCHANGED saved
    /\ Saved
    /\ UNCHANGED <<opts, list, slack, dev, disk, runs, made>>

-----------------------------------------------------------------------------
(* The options that set the clock by hand, each for one driver only.       *)

Quick ==
    CASE opts.driver = "AXI" -> opts.cdiv # -1 \/ opts.cdel # -1
      [] opts.driver = "FTDI" -> opts.cfreq # -1 \/ opts.pedge

SetCoreUnchecked(core, div, del) ==     \* fault: no range
    [div |-> IF div # -1 THEN div ELSE core.div, del |-> IF del # -1 THEN del ELSE core.del]

(* setClockDiv() and setClockDelay() of AXIDevice refuse what is too large. *)
SetCore(core, div, del) ==
    [div |-> IF div # -1 /\ div <= MaxClockDiv THEN div ELSE core.div,
     del |-> IF del # -1 /\ del <= MaxClockDelay THEN del ELSE core.del]

SetChip(chip, cfreq, pedge) ==
    LET clocked == IF cfreq = -1 THEN chip ELSE SetClockFrequency(chip, cfreq)
    IN  [clocked EXCEPT !.pedge = @ \/ pedge]

QuickSetup ==
    /\ pc = "quick"
    /\ dev' = IF opts.driver = "AXI" THEN SetCore(dev, opts.cdiv, opts.cdel)
              ELSE SetChip(dev, opts.cfreq, opts.pedge)
    /\ pc' = IF ~Quick /\ (opts.runCalib \/ opts.load) THEN "load" ELSE "serving"
    /\ UNCHANGED <<opts, list, slack, disk, runs, made, saved>>

-----------------------------------------------------------------------------

(* What the loader of a driver makes of a file: a line of the other driver *)
(* has too few fields for AXI, and for FTDI its third is the edge.         *)
Loaded(driver, file) ==
    CASE file.lines = <<>> \/ (driver = "AXI" /\ file.driver # driver) -> <<>>
      [] file.lines # <<>> /\ file.driver = driver ->
            IF driver = "AXI" THEN LoadFile(file.lines) ELSE FTDILoadFile(file.lines)
      [] OTHER ->
            LET l == FTDILoadFile(file.lines) IN
            [i \in DOMAIN l |-> [id |-> l[i].id, div |-> l[i].div,
                                 pedge |-> l[i].del # 0, freq |-> l[i].freq]]

LoadStale ==                    \* fault: no clear()
    /\ pc = "load"
    /\ IF opts.load /\ disk = NoFile
       THEN pc' = "off" /\ UNCHANGED list
       ELSE /\ list' = IF opts.load THEN list \o Loaded(opts.driver, disk) ELSE list
            /\ pc' = "choose"
    /\ UNCHANGED <<opts, slack, dev, disk, runs, made, saved>>

Load ==
    /\ pc = "load"
    /\ IF opts.load /\ disk = NoFile
       THEN pc' = "off" /\ UNCHANGED list
       ELSE /\ list' = IF opts.load THEN Loaded(opts.driver, disk) ELSE list
            /\ pc' = "choose"
    /\ UNCHANGED <<opts, slack, dev, disk, runs, made, saved>>

ById(driver, items, id) == IF driver = "AXI" THEN ItemById(items, id) ELSE FTDIItemById(items, id)

(* The item of the list that the options ask for. *)
Asked(items) ==
    LET axi == opts.driver = "AXI" IN
    CASE opts.id # -1 -> ById(opts.driver, items, opts.id)
      [] opts.id = -1 /\ opts.freq # -1 ->
            IF axi THEN ItemByFrequency(items, opts.freq) ELSE FTDIItemByFrequency(items, opts.freq)
      [] OTHER ->
            IF axi THEN ItemByMaxFrequency(items) ELSE FTDIItemByMaxFrequency(items)

(* setClockDelay(), setClockDiv() and setTDOPosSampling() with an item.    *)
Applied(item) ==
    IF opts.driver = "AXI" THEN SetCore(dev, item.div, item.del)
    ELSE SetClockDiv([dev EXCEPT !.pedge = item.pedge], FALSE, item.div)

ChooseUnchecked ==              \* fault: an empty list is not noticed
    /\ pc = "choose"
    /\ pc' = "serving"
    /\ dev' = IF opts.driver = "FTDI" \/ Asked(list) = NoItem THEN dev ELSE Applied(Asked(list))
    /\ UNCHANGED <<opts, list, slack, disk, runs, made, saved>>

(* An id that is not in the list leaves the device as it is. *)
Choose ==
    /\ pc = "choose" /\ list # <<>>
    /\ dev' = IF Asked(list) = NoItem THEN dev ELSE Applied(Asked(list))
    /\ pc' = "serving"
    /\ UNCHANGED <<opts, list, slack, disk, runs, made, saved>>

(* An empty list ends the process.  The FTDI one is not asked whether it   *)
(* is empty: it answers with the start of its storage, which is no address *)
(* if it never held an item, and else, undefined, an item of a calibration *)
(* that was cleared.                                                       *)
ChooseNothing ==
    /\ pc = "choose" /\ list = <<>>
    /\ \/ pc' = "off" /\ UNCHANGED dev
       \/ /\ opts.driver = "FTDI" /\ slack # NoItem
          /\ dev' = IF opts.id # -1 THEN dev ELSE Applied(slack)
          /\ pc' = "serving"
    /\ UNCHANGED <<opts, list, slack, disk, runs, made, saved>>

(* The process is killed, or start() returns. *)
Kill ==
    /\ pc # "off"
    /\ pc' = "off"
    /\ UNCHANGED <<opts, list, slack, dev, disk, runs, made, saved>>

Next ==
    \/ Start \/ Connect \/ Calibrate \/ SkipCalibration
    \/ SaveFails \/ SaveOpens \/ SaveLine \/ SaveCloses
    \/ QuickSetup \/ Load \/ Choose \/ ChooseNothing \/ Kill

Spec == Init /\ [][Next]_vars

-----------------------------------------------------------------------------

(* The options may be negative: only what is too large is refused. *)
InRange(core) ==
    /\ core \in [div : Int, del : Int]
    /\ core.div <= MaxClockDiv /\ core.del <= MaxClockDelay

TypeOK ==
    /\ pc \in {"off", "driver", "calibrate", "save", "saving", "quick", "load", "choose", "serving"}
    /\ opts \in Options
    /\ pc \notin {"off", "driver"} => IF opts.driver = "AXI" THEN InRange(dev) ELSE dev \in Chip
    /\ disk.driver \in Driver \cup {"none"} /\ saved.driver \in Driver \cup {"none"}
    /\ runs \in 0..MaxRuns
    /\ made["AXI"] \subseteq Core /\ made["FTDI"] \subseteq Chip

(* The process serves with an item of a calibration, by frequency. *)
ServesItem == pc = "serving" /\ ~Quick /\ (opts.runCalib \/ opts.load)

(* A server that was told to calibrate or to load runs at a setting that   *)
(* some calibration of its driver found good, whichever run that was, how  *)
(* far its save came, and what the device was left with (lines 124 to 295  *)
(* and both setup classes).                                                *)
ServesCalibrated ==
    ServesItem /\ opts.id = -1 /\ (opts.load => disk.driver = opts.driver) =>
        dev \in made[opts.driver]

(* A process that loads what another saved, however many runs and kills    *)
(* later, serves with the item that one would have chosen from its own     *)
(* list, if the save ended well (saveFile, loadFile, lines 213 to 295).    *)
RestartServesSame ==
    ServesItem /\ opts.load /\ saved.driver = opts.driver /\ saved.list # <<>> =>
        LET item == Asked(saved.list) IN
        item # NoItem => dev = Setting(opts.driver, item)
=============================================================================
