---------------------------- MODULE Conversions ----------------------------
(***************************************************************************)
(* The adapter's computations: a controller's state, rumble data, printed  *)
(* text and flash reads each as one step from an input, and, frame by      *)
(* frame, the tuning of the oscillator and the blinking of the LED.  They  *)
(* share nothing with one another.                                         *)
(***************************************************************************)
EXTENDS ControllerState, RumbleState, PackedText, SpiFlash, Oscillator, Heartbeat

CONSTANTS
    Reports,    \* Dual Shock reports
    RumbleData, \* pairs of rumble data, left and right
    Strings,    \* strings to print
    Numbers,    \* words to print
    Reads,      \* addresses and lengths of flash reads
    Chips,      \* oscillators
    Settling,   \* bound: frames a clock needs at most to be in tune
    MaxMissed   \* bound: frames the loop misses between two blinks

Byte == 0..255
Word == 0..65535

\* Addresses have sixteen bits and lengths eight (main.cpp:578-589).
ASSUME ConversionsAssumption ==
    /\ Reports \subseteq [buttons : Byte \X Byte, leftStick : Byte \X Byte,
                          rightStick : Byte \X Byte]
    /\ RumbleData \subseteq (Byte \X Byte \X Byte \X Byte) \X (Byte \X Byte \X Byte \X Byte)
    /\ Reads \subseteq Word \X Byte
    /\ Settling \in Nat
    /\ MaxMissed \in Nat

VARIABLES kind, input, done, output
vars == <<kind, input, done, output>>

Clock(OSCCAL, undisturbed) == [OSCCAL |-> OSCCAL, undisturbed |-> undisturbed]

Init ==
    /\ done = FALSE
    /\ \/ kind = "state" /\ input \in Reports /\ output = 0
       \/ kind = "rumble" /\ input \in RumbleData /\ output = 0
       \/ kind = "string" /\ input \in Strings /\ output = 0
       \/ kind = "number" /\ input \in Numbers /\ output = 0
       \/ kind = "read" /\ input \in Reads /\ output = 0
       \/ kind = "clock" /\ input \in Chips /\ output = Clock(InitialOSCCAL, 0)
       \/ kind = "led" /\ input = 0 /\ output = InitialLed

Compute(what, result) ==
    /\ kind = what
    /\ ~done
    /\ done' = TRUE
    /\ output' = result
    /\ UNCHANGED <<kind, input>>

ConvertState == Compute("state", convertDualShockToSwitch(input))
DecodeRumble == Compute("rumble", MotorAmplitudes(input[1], input[2]))
PrintString == Compute("string", serialPrintStr6(Packed(6, input)))
PrintNumber == Compute("number",
    [hex |-> serialPrintHex16(input), dec |-> serialPrintDec(input % 256),
     lines |-> serialPrintBuffer([i \in 1..((input % 16) + 1) |-> input \div 256])])
ReadFlash == Compute("read", spiMemoryRead(input[1], input[2]))

\* A frame; the timer's phase makes for a count more or less.
Frame ==
    /\ kind = "clock"
    /\ \E phase \in 0..1 :
           output' = Clock(tuneOsccal(output.OSCCAL, Counts(input, output.OSCCAL) + phase),
                           IF output.undisturbed < Settling
                           THEN output.undisturbed + 1 ELSE output.undisturbed)
    /\ UNCHANGED <<kind, input, done>>

\* Starts of frame went missing, or the bus was suspended: the timer has come
\* any way.  Not again until the clock is in tune.
LongFrame ==
    /\ kind = "clock"
    /\ output.undisturbed = Settling
    /\ \E counts \in 0..255 : output' = Clock(tuneOsccal(output.OSCCAL, counts), Settling - 2)
    /\ UNCHANGED <<kind, input, done>>

\* A frame in which the loop goes round, or does not; the bus may go down or
\* come up, with the counters as they are.
Blink ==
    /\ kind = "led"
    /\ \/ output' = ledHeartbeat(NextFrame(output))
       \/ output.missed < MaxMissed /\ output' = MissFrame(output)
       \/ \E up \in BOOLEAN : output' = SwitchLed(output, up)
    /\ UNCHANGED <<kind, input, done>>

Next == ConvertState \/ DecodeRumble \/ PrintString \/ PrintNumber \/ ReadFlash \/ Frame \/ LongFrame \/ Blink

Spec == Init /\ [][Next]_vars

-----------------------------------------------------------------------------
(* Properties.                                                             *)

\* The two bit insertions, and the two conversions of units that overlap in a
\* byte, do what the source's comment says they stand for: each Dual Shock
\* button alone presses its counterpart, no other bit is set, and each stick
\* reads to scale, up being up (main.cpp:281-368).
StateConverted ==
    kind = "state" /\ done =>
        /\ ButtonsWith(SwitchButtons, output.buttons, 1)
               = {Counterpart[b] : b \in ButtonsWith(DualShockButtons, input.buttons, 0)}
        /\ \A stick \in {"leftStick", "rightStick"} :
               LET at == Position(output[stick])
               IN  ToScale(at[1], input[stick][1]) /\ ToScale(at[2], 255 - input[stick][2])

\* Rumble data whose amplitudes are all zero leaves the motors still, in every
\* layout and whatever frequencies it holds; data of one side never keeps the
\* other side's channels from being felt (rumble.cpp:75-150, 253-373).
RumbleFelt ==
    kind = "rumble" /\ done =>
        /\ IsNeutral(input[1]) /\ IsNeutral(input[2]) => output = [low |-> 0, high |-> 0]
        /\ \A side \in 1..2 : /\ output.low >= decodeSwitchRumbleState(input[side]).low
                              /\ output.high >= decodeSwitchRumbleState(input[side]).high

\* What is printed reads as what was to be printed: a packed string comes out
\* in capitals, cut at the first semicolon; numbers come out in their base and
\* without a leading zero; a buffer in lines of at most eight bytes
\* (packedStrings.h:15-60, packedStrings.cpp:14-37, serial.cpp:59-123).
PrintedReadsBack ==
    done =>
        /\ kind = "string" =>
               /\ output = Readable(input)
               /\ \A i \in DOMAIN input : str7CharAtIndex(Packed(7, input), i - 1) = input[i]
        /\ kind = "number" =>
               /\ NumberOf(16, output.hex) = input /\ Len(output.hex) = 4
               /\ NumberOf(10, output.dec) = input % 256
               /\ output.dec[1] = 48 => Len(output.dec) = 1
               /\ Last(output.lines) = Newline
               /\ Len(SelectSeq(output.lines, LAMBDA ch : ch = Newline)) = ((input % 16) + 8) \div 8

\* A flash read returns the image's bytes from that address on, or nothing,
\* and never a byte that the image has not; and it returns them whenever they
\* lie in one segment, or in the user area short of its last byte.  A range
\* that runs past the last address is left out: its end comes round to a low
\* address and passes for the end of the first segment (spiMemory.cpp:122-151).
ReadsAgreeWithImage ==
    kind = "read" /\ done =>
        LET bytes == [n \in 1..input[2] |-> Image(input[1] + n - 1)]
        IN  /\ input[1] + input[2] < 65536 => output \in {bytes, Failed}
            /\ output # Failed => \A n \in 1..input[2] : output[n][1] # "nothing"
            /\ /\ Cardinality({bytes[n][1] : n \in 1..input[2]}) = 1
               /\ bytes[1][1] # "nothing"
               /\ input[1] + input[2] # EepromEnd
               => output = bytes

Deviation(chip, OSCCAL) == Counts(chip, OSCCAL) - EXPECTED_TIMER0_INCREMENT

\* Where a frame leaves OSCCAL alone, or comes back to with the next: the
\* phase of the timer is worth one count.
InTune(chip, OSCCAL) == Deviation(chip, OSCCAL) \in -2..1

\* An oscillator that the tuning can bring to the bus's rate: a step is worth
\* three counts at most, the deviation at first fits in eight signed bits, some
\* value short of OSCCAL's ends is in tune and no further from the first than
\* there are frames to settle in.
Tunable(chip) ==
    /\ chip.initial \in Int
    /\ chip.perStep \in 1..300
    /\ Deviation(chip, InitialOSCCAL) \in -126..128
    /\ ~InTune(chip, 0) /\ ~InTune(chip, 255)
    /\ \E tuned \in 1..254 : /\ InTune(chip, tuned)
                             /\ InitialOSCCAL - tuned <= Settling
                             /\ tuned - InitialOSCCAL <= Settling

\* In tune after the settling time, and within two frames again after a gap
\* in the frames: a misread frame costs at most a step (osctune.h:54-85).
ClockInTune ==
    kind = "clock" /\ output.undisturbed = Settling => InTune(input, output.OSCCAL)

\* The LED is toggled every four quarters of a second.  The equality can be
\* missed, which costs one turn of the frame counter for each frame that the
\* loop does not see, and no more (main.cpp:931-938).
LedBlinks ==
    kind = "led" => output.since <= 4 * QuarterFrames + ByteValues * output.missed

=============================================================================
