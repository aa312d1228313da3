-------------------------- MODULE MCFTDICalibrator --------------------------
(* Five divisors (30 to 6 MHz); two divisors near 100 kHz, which take two   *)
(* bytes; one divisor; four divisors of 3 kHz, three of which are the same  *)
(* frequency in whole Hz; and what main() lets through besides: 0, a range  *)
(* without divisors, one that ends above 30 MHz, and one whose end, doubled *)
(* in 32 bits, is negative, so that the sweep goes on to divisor -1.        *)
(* Between has ends that are not frequencies of the chip (20 MHz is between *)
(* 30 and 15).                                                              *)
EXTENDS FTDICalibrator

SomeRanges ==
    {[min |-> 6000000, max |-> 30000000], [min |-> 100000, max |-> 100300],
     [min |-> 30000000, max |-> 30000000], [min |-> 2999, max |-> 3000],
     [min |-> 0, max |-> 30000000], [min |-> -1000, max |-> 1000],
     [min |-> 15000000, max |-> 40000000], [min |-> 20000000, max |-> 2147483647]}
Between == {[min |-> 10000000, max |-> 20000000]}
=============================================================================
