----------------------------- MODULE TapDriver -----------------------------
(***************************************************************************)
(* The JTAG sequences of XVCDriver, src/src/xvcdriver.cpp, on a target,    *)
(* and the detection that the constructors of the two drivers make with    *)
(* them, detect() of axidevice.cpp and of ftdidevice.cpp.                  *)
(*                                                                         *)
(* A sequence is a list of calls of shift(), each with the bits of TMS and *)
(* TDI it clocks; one step is one cycle of TCK, which is what shift()      *)
(* promises (JtagShift).  Nobody knows in which state a client or a killed *)
(* process left the target.                                                *)
(***************************************************************************)
EXTENDS Tap, DeviceDB

CONSTANTS
    Targets,    \* what may be on the cable: a device, with
                \*   clear: the delays at which TDO is sampled in time
                \*   noise: the words a scan may yield at the others
    Files,      \* device lists that may be found, sequences of lines
    BuiltIn,    \* fb_string of devices.h
    Uninit,     \* irlen before it is assigned
    Data,       \* what is sent through the BYPASS register: sequences of words
    NDelays     \* MAX_CLOCK_DELAY (1024)

Word == [1..32 -> Bit]

ASSUME TargetsAssumption ==
    \A t \in Targets :
        /\ t.irlen \in Nat \ {0, 1} /\ t.idcmd \in [1..t.irlen -> Bit]
        /\ t.idcmd # Ones(t.irlen)
        /\ t.idcode \in Word /\ t.noise \subseteq Word
        /\ t.other \in Seq(Bit) /\ t.other # <<>>
        /\ t.clear \subseteq 0..NDelays - 1
(* A line of a list: irlen fits a word of TMS, as it does for every device *)
(* of the list compiled in but the two "Unknown" ones.                     *)
Entry == [idcode : [1..28 -> Bit], irlen : 0..32, idcmd : Word]
ASSUME ListsAssumption == \A lines \in Files \cup {BuiltIn} : Load(lines) \in Seq(Entry)
ASSUME UninitAssumption == Uninit \subseteq 0..32
ASSUME DataAssumption == \A d \in Data : d \in Seq(Word)
ASSUME DelaysAssumption == NDelays \in Nat \ {0}

VARIABLES
    target, tap,        \* the device on the cable, and the state of its port
    db,                 \* devDB of detect()
    pc,                 \* "clock", "scan", "lookup", "ready", "probe", "answered"
    driver,             \* "AXI", which sweeps the delay, or "FTDI"
    delay,
    idcode, irlen, idcmd, detected,
    op,                 \* the member function that is running, or ran last
    call,               \* the call of shift() it is at
    bit,                \* the bits of the call that were clocked
    sent,               \* the argument of probeBypass()
    result,             \* the result of the call, as far as it is sampled
    own                 \* history: the target was reset since others moved it

deviceVars == <<idcode, irlen, idcmd, detected>>
callVars == <<op, call, bit, sent, result>>
vars == <<target, tap, db, pc, driver, delay, deviceVars, callVars, own>>

-----------------------------------------------------------------------------
(* The vectors.                                                            *)

Vector(tms, tdi) == [tms |-> tms, tdi |-> tdi]

TestLogicResetShort == Vector(Ones(4), Zeros(4))        \* fault: a cycle less
TestLogicReset == Vector(Ones(5), Zeros(5))
RunTestIdle == Vector(<<0>>, <<0>>)
ToShiftIR == Vector(<<1, 1, 0, 0>>, Zeros(4))
UpdateIRVector == Vector(<<1, 0>>, Zeros(2))
ToShiftDR == Vector(<<1, 0, 0>>, Zeros(3))

(* The last bit leaves Shift-IR, or Shift-DR. *)
Leaving(n) == [i \in 1..n |-> IF i = n THEN 1 ELSE 0]
LoadIR(bits) == Vector(Leaving(irlen), [i \in 1..irlen |-> bits[i]])

(* 0x3F, whatever the length. *)
BypassInstruction == [i \in 1..32 |-> IF i <= 6 THEN 1 ELSE 0]

(* scanChain(): reset, then Shift-DR under the instruction a reset selects. *)
ScanVector ==
    Vector([i \in 1..41 |-> IF i \in 1..5 \cup {7} THEN 1 ELSE 0],
           [i \in 1..41 |-> IF i > 9 THEN 1 ELSE 0])

ReadIdCode == Vector(Leaving(32), Zeros(32))

(* One bit more than the words, for the bit of the register.  The byte     *)
(* 0x80 that is to leave Shift-DR lies past it.                            *)
SentBits == [i \in 1..32 * Len(sent) |-> sent[(i - 1) \div 32 + 1][((i - 1) % 32) + 1]]
Echo == Vector(Zeros(32 * Len(sent) + 1), Append(SentBits, 0))

Select(bits) ==
    <<TestLogicReset, RunTestIdle, ToShiftIR, LoadIR(bits), UpdateIRVector, ToShiftDR>>

Calls ==
    CASE op = "scanChain" -> <<ScanVector>>
      [] op = "probeIdCode" -> Append(Select(idcmd), ReadIdCode)
      [] op = "probeBypass" -> Append(Select(BypassInstruction), Echo)

(* What the functions return, from the result of their last call. *)
ScannedEarly == SubSeq(result, 9, 40)           \* fault: shifted by a bit less
Scanned == SubSeq(result, 10, 41)
Read == SubSeq(result, 1, 32)
Echoed == [w \in DOMAIN sent |-> SubSeq(result, 32 * w - 30, 32 * w + 1)]

-----------------------------------------------------------------------------

Init ==
    /\ target \in Targets
    /\ tap \in [state : TapState, inst : {IdCode(target), Bypass(target), Zeros(target.irlen)},
                ir : {CapturedIR(target)}, dr : {target.other}]
    /\ db \in {Load(lines) : lines \in Files \cup {BuiltIn}}
    /\ pc = "clock"
    /\ driver \in {"AXI", "FTDI"} /\ delay = 0
    /\ idcode = Zeros(32) /\ irlen \in Uninit /\ idcmd = Zeros(32) /\ detected = FALSE
    /\ op = "scanChain" /\ call = 1 /\ bit = 0 /\ sent = <<>> /\ result = <<>>
    /\ own = FALSE

(* A function begins. *)
Begins(o, data) ==
    /\ op' = o /\ sent' = data
    /\ call' = 1 /\ bit' = 0 /\ result' = <<>>

(* detect() sets the slowest clock and, in the sweep of AXI, a delay. *)
SetClock ==
    /\ pc = "clock"
    /\ Begins("scanChain", <<>>)
    /\ pc' = "scan"
    /\ UNCHANGED <<target, tap, db, driver, delay, deviceVars, own>>

Vec == Calls[call]

Clock ==
    /\ pc \in {"scan", "probe"} /\ bit < Len(Vec.tms)
    /\ LET tms == Vec.tms[bit + 1]
           tdi == Vec.tdi[bit + 1]
       IN  tap' = Clocked(target, tap, tms, tdi)
    /\ result' = Append(result, Tdo(tap))
    /\ bit' = bit + 1
    /\ own' = (own \/ tap'.state = "Reset")
    /\ UNCHANGED <<target, db, pc, driver, delay, deviceVars, op, call, sent>>

NextCall ==
    /\ pc \in {"scan", "probe"} /\ bit = Len(Vec.tms) /\ call < Len(Calls)
    /\ call' = call + 1 /\ bit' = 0 /\ result' = <<>>
    /\ UNCHANGED <<target, tap, db, pc, driver, delay, deviceVars, op, sent, own>>

Returns ==
    /\ pc \in {"scan", "probe"} /\ bit = Len(Vec.tms) /\ call = Len(Calls)
    /\ pc' = IF pc = "scan" THEN "lookup" ELSE "answered"
    /\ UNCHANGED <<target, tap, db, driver, delay, deviceVars, callVars, own>>

MoreDelaysPast == driver = "AXI" /\ delay < NDelays       \* fault: one delay more
MoreDelays == driver = "AXI" /\ delay + 1 < NDelays

(* The rest of detect() for one scan.  The sweep goes on after a success,  *)
(* and the last one counts.                                                *)
Lookup ==
    /\ pc = "lookup"
    /\ \E id \in IF delay \in target.clear THEN {Scanned} ELSE target.noise \cup {Scanned} :
         IF FindDevice(db, id) = NoDevice
         THEN UNCHANGED deviceVars
         ELSE /\ idcode' = id /\ detected' = TRUE
              /\ irlen' = IdToIRLength(db, id) /\ idcmd' = IdToIDCmd(db, id)
    /\ IF MoreDelays
       THEN delay' = delay + 1 /\ pc' = "clock"
       ELSE pc' = "ready" /\ UNCHANGED delay
    /\ UNCHANGED <<target, tap, db, driver, callVars, own>>

(* The calibrators probe, whether or not a target was detected. *)
Probe ==
    /\ pc \in {"ready", "answered"}
    /\ \/ Begins("probeIdCode", <<>>)
       \/ \E d \in Data : Begins("probeBypass", d)
    /\ pc' = "probe"
    /\ UNCHANGED <<target, tap, db, driver, delay, deviceVars, own>>

(* The process is killed, wherever it is, and another one starts. *)
Kill ==
    /\ pc' = "clock" /\ delay' = 0
    /\ idcode' = Zeros(32) /\ irlen' \in Uninit /\ idcmd' = Zeros(32) /\ detected' = FALSE
    /\ Begins("scanChain", <<>>)
    /\ own' = FALSE
    /\ UNCHANGED <<target, tap, db, driver>>

Next == SetClock \/ Clock \/ NextCall \/ Returns \/ Lookup \/ Probe \/ Kill

Spec == Init /\ [][Next]_vars

-----------------------------------------------------------------------------

TypeOK ==
    /\ target \in Targets
    /\ tap.state \in TapState
    /\ tap.inst \in [1..target.irlen -> Bit] /\ tap.ir \in [1..target.irlen -> Bit]
    /\ tap.dr \in Seq(Bit) /\ tap.dr # <<>>
    /\ pc \in {"clock", "scan", "lookup", "ready", "probe", "answered"}
    /\ driver \in {"AXI", "FTDI"} /\ delay \in 0..NDelays - 1
    /\ idcode \in Word /\ idcmd \in Word /\ irlen \in 0..32 /\ detected \in BOOLEAN
    /\ op \in {"scanChain", "probeIdCode", "probeBypass"} /\ sent \in Seq(Word)
    /\ call \in DOMAIN Calls /\ bit \in 0..Len(Vec.tms)
    /\ result \in Seq(Bit) /\ Len(result) = bit
    /\ own \in BOOLEAN

(* The driver knows of the target what its sequences need. *)
Knows == irlen = target.irlen /\ \A i \in 1..irlen : idcmd[i] = target.idcmd[i]

(* No instruction of the target has the six ones of BypassInstruction but   *)
(* BYPASS itself.                                                          *)
SixOnesBypass == target.irlen <= 6

(* From whatever state a client or a killed process left the target in, in *)
(* the middle of a shift or under any instruction, a scan reads the IDCODE;*)
(* and each probe reads the IDCODE, or the words that were sent, whatever  *)
(* probe was before it (scanChain, probeIdCode and both probeBypass).      *)
AnswersTrue ==
    /\ pc = "lookup" => Scanned = target.idcode
    /\ pc = "answered" /\ op = "probeIdCode" /\ Knows => Read = target.idcode
    /\ pc = "answered" /\ op = "probeBypass" /\ Knows /\ SixOnesBypass => Echoed = sent

(* The states a sequence has to be in when a call begins. *)
Route == <<TapState, {"Reset"}, {"Idle"}, {"ShiftIR"}, {"Exit1IR"}, {"Idle"}, {"ShiftDR"}>>

(* Each call of a sequence of calls finds the target in the state that the *)
(* comments name (lines 19 to 56 and 102 to 137), when the length of the   *)
(* instruction is any that detection may have found.                       *)
InPlace == pc = "probe" /\ bit = 0 /\ irlen > 0 => tap.state \in Route[call]

(* What the driver leaves behind harms nothing: from its first reset on,   *)
(* the target never takes over an instruction other than IDCODE and        *)
(* BYPASS, or what was shifted into a register of another, although a      *)
(* probe ends in Shift-DR and the next begins with a reset from there      *)
(* (lines 87, 121, 160 and 201).                                           *)
Harmless(inst) == inst \in {IdCode(target), Bypass(target)}
HarmlessUpdates ==
    [][own /\ own' /\ (op = "scanChain" \/ (Knows /\ SixOnesBypass)) =>
        /\ tap.state # "UpdateIR" /\ tap'.state = "UpdateIR" => Harmless(tap.ir)
        /\ tap.state # "UpdateDR" /\ tap'.state = "UpdateDR" => Harmless(tap.inst)]_vars

(* Detection finds a target that the list names, whatever its revision, if *)
(* its line is in time at a delay of the sweep; and it takes the revision  *)
(* from the target, the rest from a line for it, although the sweep goes   *)
(* on: as long as what is read at the wrong delays is in no list (detect() *)
(* of both drivers, and devicedb.cpp).                                     *)
Names(entry, word) == \A i \in 1..28 : entry.idcode[i] = word[i]
Listed(word) == \E d \in ToSet(db) : Names(d, word)
Readable == IF driver = "AXI" THEN target.clear # {} ELSE 0 \in target.clear
DetectsTarget ==
    pc \in {"ready", "probe", "answered"} /\ (\A w \in target.noise : ~Listed(w)) =>
        /\ Readable /\ Listed(target.idcode) => detected
        /\ detected =>
             /\ idcode = target.idcode
             /\ \E d \in ToSet(db) : Names(d, idcode) /\ irlen = d.irlen /\ idcmd = d.idcmd

(* The instruction probeBypass() selects is the one of all ones: "irlen    *)
(* bits set to 1" (line 120).                                              *)
BypassIsAllOnes ==
    pc = "answered" /\ op = "probeBypass" /\ Knows => tap.inst = Bypass(target)
=============================================================================
