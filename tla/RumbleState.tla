---------------------------- MODULE RumbleState ----------------------------
(***************************************************************************)
(* The strengths of the motors out of a Switch's rumble data: four bytes   *)
(* per side in one of several layouts (src/src/rumble.cpp), the higher of  *)
(* several amplitudes per motor (main.cpp:598-618, 804-823).  Frequencies  *)
(* are not decoded (RUMBLE_INCLUDE_FREQUENCY is 0).                        *)
(***************************************************************************)
EXTENDS Integers, Sequences, FiniteSetsExt

BitOf(encoded, n) == (encoded[(n \div 8) + 1] \div 2^(n % 8)) % 2

\* The layouts, by the two high bits of the last byte and, for one value of
\* these, the two low bits of the first.
rumbleStateType(encoded) ==
    LET high == encoded[4] \div 64  low == encoded[1] % 4
    IN  CASE high \in {0, 2} -> "X0"
          [] high = 1 /\ low = 0 -> "0100"
          [] high = 1 /\ low = 1 -> "0101"
          [] high = 1 /\ low = 2 -> "0110"
          [] high = 3 -> "11"
          [] OTHER -> "unrecognized"

\* Slip: the bytes are taken in reverse order, but not the bits in them.
FlippedBytesOnly(encoded, n) == BitOf(encoded, 8 * (3 - (n \div 8)) + (n % 8))

\* Bit n of the data once its bytes and the bits in each are reversed.
Flipped(encoded, n) == BitOf(encoded, 31 - n)

\* A field of the flipped data, from its first bit on.
Field(encoded, first, width) ==
    LET part(k) == IF k < width THEN Flipped(encoded, first + k) * 2^k ELSE 0
    IN  part(0) + part(1) + part(2) + part(3) + part(4) + part(5) + part(6)

\* amplitude_lut, with zeros for what its initialiser leaves out.
amplitude_lut == <<0, 255, 181, 130, 92, 67, 47, 32, 24, 16, 12, 9, 0, 0, 0, 0>>

amplitudeFrom7BitAmplitude(value) == (value * 2) % 256

Still == [low |-> 0, high |-> 0, pulse1 |-> 0, pulse2 |-> 0, pulse3 |-> 0, pulse4 |-> 0]

\* A switch, which turns the wave off, and the four bits of the amplitude.
On(encoded, first) == Field(encoded, first, 1) = 0
Amplitude(encoded, first) == amplitude_lut[Field(encoded, first + 1, 4) + 1]
Wave(encoded, first) == IF On(encoded, first) THEN Amplitude(encoded, first) ELSE 0
Pulse(encoded) == amplitudeFrom7BitAmplitude(Field(encoded, 2, 7))

\* In every layout the fields follow the two bits of the type without gaps.
\* One of the channels only, by a select bit, and of its seven frequency bits
\* the structure holds four.
X0SingleWaveWithResonance(encoded) ==
    LET selects(channel) == Field(encoded, 24, 1) = channel /\ Field(encoded, 25, 4) # 0
    IN  [Still EXCEPT !.high = IF selects(1) THEN Wave(encoded, 19) ELSE 0,
                      !.low = IF selects(0) THEN Wave(encoded, 14) ELSE 0,
                      !.pulse1 = Wave(encoded, 9),
                      !.pulse2 = Pulse(encoded)]

DualWave(encoded) ==
    [Still EXCEPT !.high = amplitudeFrom7BitAmplitude(Field(encoded, 16, 7)),
                  !.low = Pulse(encoded)]

DualResonanceWith3Pulse(encoded) ==
    [Still EXCEPT !.high = Wave(encoded, 24), !.low = Wave(encoded, 19),
                  !.pulse1 = Wave(encoded, 14), !.pulse2 = Wave(encoded, 9),
                  !.pulse3 = Pulse(encoded)]

\* Without a high channel the first pulse takes its place.  The second and
\* the third pulse's switches both let the fourth one's amplitude through.
DualResonanceWith4Pulse(encoded) ==
    [Still EXCEPT !.high = IF On(encoded, 27) THEN Amplitude(encoded, 27) ELSE Wave(encoded, 17),
                  !.low = Wave(encoded, 22),
                  !.pulse1 = IF On(encoded, 27) THEN Wave(encoded, 17) ELSE 0,
                  !.pulse3 = IF On(encoded, 12) \/ On(encoded, 7) THEN Amplitude(encoded, 2) ELSE 0,
                  !.pulse4 = Wave(encoded, 2)]

decodeSwitchRumbleState(encoded) ==
    CASE rumbleStateType(encoded) = "X0" -> X0SingleWaveWithResonance(encoded)
      [] rumbleStateType(encoded) = "0100" -> DualWave(encoded)
      [] rumbleStateType(encoded) = "0110" -> DualResonanceWith3Pulse(encoded)
      [] rumbleStateType(encoded) = "11" -> DualResonanceWith4Pulse(encoded)
      [] OTHER -> Still

\* The pulses that both motors follow; the fourth one is not among them.
Pulses(left, right) ==
    {left.pulse1, left.pulse2, left.pulse3, right.pulse1, right.pulse2, right.pulse3}

\* sLowRumbleAmplitude and sHighRumbleAmplitude.
MotorAmplitudes(leftBytes, rightBytes) ==
    LET left == decodeSwitchRumbleState(leftBytes)
        right == decodeSwitchRumbleState(rightBytes)
    IN  [low |-> Max({left.low, right.low} \cup Pulses(left, right)),
         high |-> Max({left.high, right.high} \cup Pulses(left, right))]

-----------------------------------------------------------------------------

\* The bits of the data, as received, in which a layout has amplitudes.
AmplitudeBits(type) ==
    CASE type = "X0" -> 8..11 \cup 13..16 \cup 18..21 \cup 23..29
      [] type = "0100" -> 9..15 \cup 23..29
      [] type = "0110" -> 3..6 \cup 8..11 \cup 13..16 \cup 18..21 \cup 23..29
      [] type = "11" -> 0..3 \cup 5..8 \cup 10..13 \cup 15..18 \cup 20..23 \cup 25..28
      [] OTHER -> {}

IsNeutral(bytes) == \A n \in AmplitudeBits(rumbleStateType(bytes)) : BitOf(bytes, n) = 0

=============================================================================
