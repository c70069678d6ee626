-------------------------- MODULE ControllerState --------------------------
(***************************************************************************)
(* A Dual Shock's report turned into the controller state a Switch expects *)
(* (convertDualShockToSwitch in src/src/main.cpp, descriptors.h): records  *)
(* of bytes, the buttons by their bits.                                    *)
(***************************************************************************)
EXTENDS Integers, Sequences

Bit(byte, n) == (byte \div 2^n) % 2

\* The bits of buttons1 and buttons2 in a Dual Shock's report, from bit 0 on;
\* there, 0 means pressed.
DualShockButtons == <<
    <<"select", "l3", "r3", "start", "up", "right", "down", "left">>,
    <<"l2", "r2", "l1", "r1", "triangle", "circle", "cross", "square">> >>

\* The bits of buttons1 to buttons3 in a Switch's report, from bit 0 on.
SwitchButtons == <<
    <<"y", "x", "b", "a", "rightSR", "rightSL", "r", "zr">>,
    <<"minus", "plus", "rStick", "lStick", "home", "capture", "unused", "grip">>,
    <<"down", "up", "right", "left", "leftSR", "leftSL", "l", "zl">> >>

\* The buttons whose bit is value, in the bytes given.
ButtonsWith(names, bytes, value) ==
    { names[at[1]][at[2] + 1] :
          at \in {x \in (DOMAIN names) \X (0..7) : Bit(bytes[x[1]], x[2]) = value} }

-----------------------------------------------------------------------------

eightBitToTwelveBit(eightBit) == (eightBit * 4095) \div 255

\* The compiler's bit insertion: per bit of the result, from bit 7 down, the
\* bit of bits it is taken from, or 15 for the one of val.
insert_bits(map, bits, val) ==
    LET bit(n) == 2^n * (IF map[8 - n] = 15 THEN Bit(val, n) ELSE Bit(bits, map[8 - n]))
    IN  bit(0) + bit(1) + bit(2) + bit(3) + bit(4) + bit(5) + bit(6) + bit(7)

\* Slip: the middle byte's halves are swapped.
PackedStickSwapped(x12, y12) == << x12 % 256, (y12 % 16) + ((x12 \div 256) * 16), y12 \div 16 >>

\* Two values of twelve bits in three bytes.
PackedStick(x12, y12) == << x12 % 256, ((y12 * 16) % 256) + (x12 \div 256), y12 \div 16 >>

Stick(x, y) == PackedStick(eightBitToTwelveBit(x), eightBitToTwelveBit(255 - y))

convertDualShockToSwitch(report) ==
    LET buttons1 == 255 - report.buttons[1]
        buttons2 == 255 - report.buttons[2]
    IN  [connectionInfo |-> 1, batteryLevel |-> 8,
         buttons |->
             << insert_bits(<<1, 3, 15, 15, 5, 6, 4, 7>>, buttons2, 0),
                insert_bits(<<15, 15, 15, 15, 1, 2, 3, 0>>, buttons1, 0),
                insert_bits(<<15, 15, 15, 15, 7, 5, 4, 6>>, buttons1,
                            insert_bits(<<0, 2, 15, 15, 15, 15, 15, 15>>, buttons2, 0)) >>,
         leftStick |-> Stick(report.leftStick[1], report.leftStick[2]),
         rightStick |-> Stick(report.rightStick[1], report.rightStick[2])]

-----------------------------------------------------------------------------
(* What it should do: a button for a button, as the source's comment lists *)
(* them, and each stick's position to scale.                               *)

Counterpart ==
    [square |-> "y", triangle |-> "x", cross |-> "b", circle |-> "a", r1 |-> "r", r2 |-> "zr",
     select |-> "minus", start |-> "plus", r3 |-> "rStick", l3 |-> "lStick",
     down |-> "down", up |-> "up", right |-> "right", left |-> "left", l1 |-> "l", l2 |-> "zl"]

\* The two twelve-bit values AB CD EF stands for: DAB and EFC.
Position(stick) == << stick[1] + 256 * (stick[2] % 16), (stick[2] \div 16) + 16 * stick[3] >>

\* Nearest below, out of 4095, to value out of 255.
ToScale(twelveBit, value) == 255 * twelveBit \in (4095 * value - 254)..(4095 * value)

=============================================================================
