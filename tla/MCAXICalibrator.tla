-------------------------- MODULE MCAXICalibrator --------------------------
(* Five divisors reach the first one, 4, whose window must have more than   *)
(* one point; the frequencies asked for are on both sides of and between    *)
(* those of the divisors (50, 25, 16.7, 12.5 and 10 MHz).                   *)
EXTENDS AXICalibrator

SomeHysts == {0, 2}
OneHyst == {1}
SomeSizes == {0, 2}
FullSize == {0}
SomeFreqs == {0, 14000000, 26000000, 60000000}
=============================================================================
