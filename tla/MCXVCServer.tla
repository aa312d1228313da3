---------------------------- MODULE MCXVCServer ----------------------------
EXTENDS XVCServer

Default ==
    [driver |-> "AXI", scan |-> FALSE, runCalib |-> FALSE, save |-> FALSE, load |-> FALSE,
     cdiv |-> -1, cdel |-> -1, cfreq |-> -1, pedge |-> FALSE, id |-> -1, freq |-> -1,
     sweepOk |-> TRUE]

(* Every way to calibrate, save, load and choose, for both drivers.         *)
Setups ==
    {[Default EXCEPT !.driver = d, !.runCalib = r, !.save = s, !.load = l, !.id = i, !.freq = f] :
        d \in Driver, r, s, l \in BOOLEAN, i \in {-1, 0, 7}, f \in {-1, 21000000}}

(* The options that set the clock by hand, that stop early, or are wrong.   *)
Others ==
    {[Default EXCEPT !.cdiv = 5, !.runCalib = TRUE], [Default EXCEPT !.cdel = 1500],
     [Default EXCEPT !.cdiv = -5, !.cdel = 1024],
     [Default EXCEPT !.cfreq = 7000000, !.load = TRUE], [Default EXCEPT !.scan = TRUE],
     [Default EXCEPT !.driver = "FTDI", !.cfreq = 7000000], [Default EXCEPT !.driver = "USB"],
     [Default EXCEPT !.driver = "FTDI", !.pedge = TRUE, !.load = TRUE],
     [Default EXCEPT !.driver = "FTDI", !.sweepOk = FALSE, !.runCalib = TRUE]}

AllOptions == Setups \cup Others

AXIItem(id, div, del) ==
    [id |-> id, div |-> div, del |-> del, freq |-> 100000000 \div ((div + 1) * 2), valid |-> 9]
FTDIItem(id, div, pedge) ==
    [id |-> id, div |-> div, pedge |-> pedge, freq |-> FrequencyByDivisor(FALSE, div)]

(* No item, one item, and lists whose frequencies fall (AXI) or rise.       *)
Results ==
    [AXI |-> {[list |-> <<>>, dev |-> [div |-> 255, del |-> 1023]],
              [list |-> <<AXIItem(1, 0, 3), AXIItem(0, 2, 4)>>, dev |-> [div |-> 0, del |-> 3]],
              [list |-> <<AXIItem(0, 4, 7)>>, dev |-> [div |-> 4, del |-> 7]]},
     FTDI |-> {[list |-> <<>>, dev |-> [div5 |-> FALSE, div |-> 0, pedge |-> TRUE]],
               [list |-> <<FTDIItem(0, 3, TRUE)>>, dev |-> [div5 |-> FALSE, div |-> 0, pedge |-> TRUE]],
               [list |-> <<FTDIItem(2, 2, FALSE), FTDIItem(1, 1, FALSE), FTDIItem(0, 1, TRUE)>>,
                dev |-> [div5 |-> FALSE, div |-> 0, pedge |-> TRUE]]}]
=============================================================================
