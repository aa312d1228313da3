----------------------------- MODULE FTDIClock -----------------------------
(***************************************************************************)
(* The clock of FTDIDevice, src/src/ftdidevice.cpp: frequencies, divisors  *)
(* and the divisor word of the MPSSE.  The registers of the chip that main *)
(* and the calibrator set are a record [div5, div, pedge].                 *)
(***************************************************************************)
EXTENDS Integers

Base(div5) == IF div5 THEN 12000000 ELSE 60000000

(* C divides towards zero.  By zero it does not: that ends the program, as *)
(* the modules that may come to it say.                                    *)
Quotient(n, d) ==
    CASE d > 0 -> n \div d
      [] d < 0 -> -(n \div (-d))
      [] OTHER -> 0

(* 2 * freq in the 32 bits of an int, where too large a frequency wraps.   *)
Twice(freq) ==
    2 * (CASE freq >= 1073741824 -> freq - 1073741824 - 1073741824
           [] freq < -1073741824 -> freq + 1073741824 + 1073741824
           [] OTHER -> freq)

DivisorByFrequency(div5, freq) == Quotient(Base(div5), Twice(freq)) - 1
FrequencyByDivisor(div5, div) == Quotient(Base(div5), (1 + div) * 2)

(* The two bytes of the divisor that go to the chip. *)
DivisorWordLow(value) == value % 256    \* fault: the low byte only
DivisorWord(value) == value % 65536

SetClockDiv(chip, div5, value) == [chip EXCEPT !.div5 = div5, !.div = DivisorWord(value)]

Gap(x, y) == IF x > y THEN x - y ELSE y - x

(* A frequency out of the range of a divider counts as its divisor 0.      *)
SetClockFrequency(chip, freq) ==
    LET inOn == 92 <= freq /\ freq <= 6000000           \* 91.55 Hz, 6 MHz
        inOff == 458 <= freq /\ freq <= 30000000        \* 457.76 Hz, 30 MHz
        on == IF inOn THEN DivisorByFrequency(TRUE, freq) ELSE 0
        off == IF inOff THEN DivisorByFrequency(FALSE, freq) ELSE 0
        onCloser == Gap(freq, FrequencyByDivisor(TRUE, on))
                        <= Gap(freq, FrequencyByDivisor(FALSE, off))
    IN  SetClockDiv(chip, onCloser, IF onCloser THEN on ELSE off)

(* detect() leaves the slowest clock there is. *)
Detected(chip) == SetClockDiv(chip, TRUE, 65535)
=============================================================================
