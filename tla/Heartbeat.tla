----------------------------- MODULE Heartbeat -----------------------------
(***************************************************************************)
(* The debug LED (main.cpp:923-958): every round of the loop compares the  *)
(* frame counter with the quarter of a second it is waiting for, and the   *)
(* fourth one toggles the LED; the loop also lights it when the bus comes  *)
(* up and puts it out when it goes down.                                   *)
(***************************************************************************)
EXTENDS Integers

CONSTANTS
    ByteValues,     \* the counters count modulo this (256)
    QuarterFrames   \* frames a quarter of a second is taken to have (250)

ASSUME HeartbeatAssumption ==
    /\ ByteValues \in Nat \ 0..4
    /\ QuarterFrames \in 1..(ByteValues - 1)

\* "since" is the frames since the LED was last toggled and "missed" how many
\* of these the loop has not seen; neither is the program's.
InitialLed ==
    [usbSofCount |-> 0, lastQuarterSofCount |-> 0, quarterSecondCount |-> 0,
     lastLedToggleQuarterSecondCount |-> 0, lit |-> FALSE, since |-> 0, missed |-> 0]

NextFrame(led) ==
    [led EXCEPT !.usbSofCount = (led.usbSofCount + 1) % ByteValues, !.since = led.since + 1]

\* The loop is held up for a frame.
MissFrame(led) == [NextFrame(led) EXCEPT !.missed = led.missed + 1]

\* Slip: the LED's quarter is not noted.
KeepToggleCount(led) == [led EXCEPT !.lit = ~led.lit, !.since = 0, !.missed = 0]

Toggle(led) ==
    [led EXCEPT !.lit = ~led.lit, !.since = 0, !.missed = 0,
                !.lastLedToggleQuarterSecondCount = led.quarterSecondCount]

CountQuarter(led) ==
    IF (led.usbSofCount - led.lastQuarterSofCount) % ByteValues = QuarterFrames
    THEN [led EXCEPT !.quarterSecondCount = (led.quarterSecondCount + 1) % ByteValues,
                     !.lastQuarterSofCount = led.usbSofCount]
    ELSE led

ledHeartbeat(led) ==
    LET counted == CountQuarter(led)
    IN  IF (counted.quarterSecondCount - counted.lastLedToggleQuarterSecondCount) % ByteValues = 4
        THEN Toggle(counted) ELSE counted

\* The bus comes up, or goes down.
SwitchLed(led, up) == [led EXCEPT !.lit = up]

=============================================================================
