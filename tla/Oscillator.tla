----------------------------- MODULE Oscillator -----------------------------
(***************************************************************************)
(* The tuning of the internal oscillator against the bus's frames          *)
(* (src/v-usb/libs-device/osctune.h): at every start of frame the receiver *)
(* compares how far timer 0 has come since the one before with the 200     *)
(* counts a millisecond should take, modulo 256, and moves OSCCAL a step.  *)
(***************************************************************************)
EXTENDS Integers

EXPECTED_TIMER0_INCREMENT == 200
TOLERATED_DEVIATION == 1
InitialOSCCAL == 226

\* The sign of a comparison's result, in eight bits.
Minus(a, b) == (a - b) % 256 >= 128

\* Slip: an increment too low by more than the tolerance passes for too high.
StepUnsigned(deviation) ==
    IF deviation > TOLERATED_DEVIATION THEN -1 ELSE 0

\* Which way OSCCAL goes, by the deviation in eight bits.
Step(deviation) ==
    CASE ~Minus(deviation, TOLERATED_DEVIATION + 1) -> -1
      [] Minus(deviation, TOLERATED_DEVIATION + 1) /\ Minus(deviation, 256 - TOLERATED_DEVIATION) -> 1
      [] OTHER -> 0

tuneOsccal(OSCCAL, counts) == (OSCCAL + Step((counts - EXPECTED_TIMER0_INCREMENT) % 256)) % 256

\* The counts of a frame: the more the higher OSCCAL.  A chip is given by the
\* counts with the initial OSCCAL and the hundredths of a count per step.
Counts(chip, OSCCAL) == chip.initial + ((OSCCAL - InitialOSCCAL) * chip.perStep) \div 100

=============================================================================
