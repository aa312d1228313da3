------------------------------ MODULE DeviceDB ------------------------------
(***************************************************************************)
(* src/src/devicedb.cpp: the table of known devices, read line by line     *)
(* from a file or, if there is none, from a list compiled in.  Words are   *)
(* sequences of 32 bits, the least significant first.                      *)
(***************************************************************************)
EXTENDS Integers, Sequences, SequencesExt

(* What the lookups make of an unknown device. *)
NoDevice == [idcode |-> <<>>, irlen |-> 0, idcmd |-> [i \in 1..32 |-> 0]]

(* Comparing leaves out the revision, the upper four bits. *)
Masked(idcode) == SubSeq(idcode, 1, 28)

(* A line is a comment, blank, not understood, or names a device. *)
ParseLine(db, line) ==
    IF line.form = "device"
    THEN Append(db, [idcode |-> Masked(line.idcode), irlen |-> line.irlen, idcmd |-> line.idcmd])
    ELSE db

Load(lines) == FoldLeft(ParseLine, <<>>, lines)

(* Fault: the IDCODE looked up keeps its revision. *)
FindExactDevice(db, idcode) ==
    LET i == SelectInSeq(db, LAMBDA d : d.idcode \o <<0, 0, 0, 0>> = idcode) IN
    IF i = 0 THEN NoDevice ELSE db[i]

(* The first device of the table with that IDCODE. *)
FindDevice(db, idcode) ==
    LET i == SelectInSeq(db, LAMBDA d : d.idcode = Masked(idcode)) IN
    IF i = 0 THEN NoDevice ELSE db[i]

IdToIRLength(db, idcode) == FindDevice(db, idcode).irlen
IdToIDCmd(db, idcode) == FindDevice(db, idcode).idcmd
=============================================================================
