-------------------------------- MODULE Tap --------------------------------
(***************************************************************************)
(* The target of the cable: the test access port of one device, as IEEE    *)
(* 1149.1 has it.  It is not under src/: the comments of xvcdriver.cpp     *)
(* name its states.  Words and registers are sequences of bits, the one    *)
(* next to TDO first.                                                      *)
(*                                                                         *)
(* A device is a record: the IDCODE, the length of the instruction         *)
(* register, the instruction that selects the IDCODE, and what is captured *)
(* under instructions that are neither that nor BYPASS.                    *)
(***************************************************************************)
EXTENDS Integers, Sequences

Bit == {0, 1}

Zeros(n) == [i \in 1..n |-> 0]
Ones(n) == [i \in 1..n |-> 1]

TapState == {"Reset", "Idle",
    "SelectDR", "CaptureDR", "ShiftDR", "Exit1DR", "PauseDR", "Exit2DR", "UpdateDR",
    "SelectIR", "CaptureIR", "ShiftIR", "Exit1IR", "PauseIR", "Exit2IR", "UpdateIR"}

(* Where TMS = 0 and TMS = 1 lead. *)
Transitions == [
    Reset     |-> <<"Idle", "Reset">>,
    Idle      |-> <<"Idle", "SelectDR">>,
    SelectDR  |-> <<"CaptureDR", "SelectIR">>,
    CaptureDR |-> <<"ShiftDR", "Exit1DR">>,
    ShiftDR   |-> <<"ShiftDR", "Exit1DR">>,
    Exit1DR   |-> <<"PauseDR", "UpdateDR">>,
    PauseDR   |-> <<"PauseDR", "Exit2DR">>,
    Exit2DR   |-> <<"ShiftDR", "UpdateDR">>,
    UpdateDR  |-> <<"Idle", "SelectDR">>,
    SelectIR  |-> <<"CaptureIR", "Reset">>,
    CaptureIR |-> <<"ShiftIR", "Exit1IR">>,
    ShiftIR   |-> <<"ShiftIR", "Exit1IR">>,
    Exit1IR   |-> <<"PauseIR", "UpdateIR">>,
    PauseIR   |-> <<"PauseIR", "Exit2IR">>,
    Exit2IR   |-> <<"ShiftIR", "UpdateIR">>,
    UpdateIR  |-> <<"Idle", "SelectDR">>]

NextState(s, tms) == Transitions[s][tms + 1]

(* The instructions the standard names, for a device. *)
Bypass(device) == Ones(device.irlen)
IdCode(device) == device.idcmd

(* What Capture-DR loads into the register an instruction selects. *)
CapturedDR(device, inst) ==
    CASE inst = Bypass(device) -> <<0>>
      [] inst = IdCode(device) /\ inst # Bypass(device) -> device.idcode
      [] OTHER -> device.other

CapturedIR(device) == [i \in 1..device.irlen |-> IF i = 1 THEN 1 ELSE 0]

(* A cycle of TCK: a register is captured or shifted as the state left     *)
(* says, and an instruction takes effect as the state is entered.          *)
Clocked(device, tap, tms, tdi) ==
    LET next == NextState(tap.state, tms) IN
    [state |-> next,
     inst |-> CASE next = "Reset" -> IdCode(device)
                [] next = "UpdateIR" -> tap.ir
                [] OTHER -> tap.inst,
     ir |-> CASE tap.state = "CaptureIR" -> CapturedIR(device)
              [] tap.state = "ShiftIR" -> Append(Tail(tap.ir), tdi)
              [] OTHER -> tap.ir,
     dr |-> CASE tap.state = "CaptureDR" -> CapturedDR(device, tap.inst)
              [] tap.state = "ShiftDR" -> Append(Tail(tap.dr), tdi)
              [] OTHER -> tap.dr]

(* TDO in that cycle; it floats, and is pulled up, unless a register is    *)
(* shifted.                                                                *)
Tdo(tap) ==
    CASE tap.state = "ShiftDR" -> Head(tap.dr)
      [] tap.state = "ShiftIR" -> Head(tap.ir)
      [] OTHER -> 1
=============================================================================
