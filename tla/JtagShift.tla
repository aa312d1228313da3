----------------------------- MODULE JtagShift -----------------------------
(***************************************************************************)
(* What XVCDriver::shift() promises, whatever the cable: it clocks the     *)
(* first nbits bits of the two vectors out on TMS and TDI, in order and    *)
(* once each, and returns the bits sampled on TDO, in the same order.  The *)
(* server, the TAP sequences of XVCDriver and the calibrators rely on this *)
(* and on nothing else.                                                    *)
(***************************************************************************)
EXTENDS Naturals, Sequences

Bit == {0, 1}

VARIABLES
    busy,       \* a call is in progress
    tms, tdi,   \* the vectors of the call
    wire,       \* the TCK cycles of the call: what was driven and sampled
    result      \* the vector the last call returned

vars == <<busy, tms, tdi, wire, result>>

Init ==
    /\ busy = FALSE
    /\ tms = <<>> /\ tdi = <<>> /\ wire = <<>> /\ result = <<>>

Call ==
    /\ ~busy
    /\ busy' = TRUE
    /\ tms' \in Seq(Bit) /\ tdi' \in Seq(Bit) /\ Len(tms') = Len(tdi')
    /\ wire' = <<>> /\ result' = <<>>

Clock ==
    /\ busy /\ Len(wire) < Len(tms)
    /\ \E b \in Bit :
         LET k == Len(wire) + 1 IN
         wire' = Append(wire, [tms |-> tms[k], tdi |-> tdi[k], tdo |-> b])
    /\ UNCHANGED <<busy, tms, tdi, result>>

Return ==
    /\ busy /\ Len(wire) = Len(tms)
    /\ busy' = FALSE
    /\ result' = [k \in 1..Len(tms) |-> wire[k].tdo]
    /\ UNCHANGED <<tms, tdi, wire>>

Next == Call \/ Clock \/ Return

Spec == Init /\ [][Next]_vars
=============================================================================
