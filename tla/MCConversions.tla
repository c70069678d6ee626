--------------------------- MODULE MCConversions ---------------------------
(* The conversions with inputs that meet every branch and boundary.        *)
EXTENDS Conversions

Bytes == 0..255
SingleBits == {0, 255} \cup {2^n : n \in 0..7} \cup {255 - 2^n : n \in 0..7}
Centre == <<128, 128>>

Report(buttons, left, right) == [buttons |-> buttons, leftStick |-> left, rightStick |-> right]

\* Every byte of each button byte against single bits of the other; every
\* position of each axis.
MCReports ==
    {Report(<<a, b>>, Centre, Centre) : a \in Bytes, b \in SingleBits}
    \cup {Report(<<b, a>>, Centre, Centre) : a \in Bytes, b \in SingleBits}
    \cup {Report(<<255, 255>>, <<a, b>>, <<b, a>>) : a \in Bytes, b \in {0, 127, 128, 255}}

\* All five layouts and the unknown one; amplitudes, switches and frequencies
\* zero, one, small, large.
Rumbles == {0, 1, 2, 8, 64, 82, 255} \X {0, 1, 64, 255} \X {0, 64, 129} \X {0, 64, 82, 128, 192, 195, 255}
MCRumbleData == Rumbles \X { <<0, 1, 64, 64>>, <<2, 0, 64, 64>>, <<255, 255, 255, 255>> }

\* A small and a capital letter, a digit, the signs with a meaning of their
\* own and one outside the set, up to five of them.
Signs == {97, 90, 48, Newline, Pipe, Exclamation, Semicolon, 126}
MCStrings == UNION {[1..n -> Signs] : n \in 0..4} \cup [1..6 -> {97, 93}]

MCNumbers == {n * 255 : n \in 0..257}

\* Around every boundary of the image, and at the last addresses.
Boundaries == {s.address : s \in {spiMemory[i] : i \in DOMAIN spiMemory}}
              \cup {s.address + s.length : s \in {spiMemory[i] : i \in DOMAIN spiMemory}}
              \cup {EepromBegin, EepromEnd, \h6050, \h6086}
MCReads == {b + d : b \in Boundaries, d \in -2..2} \X (1..26) \cup {65533} \X (1..5)

\* Too slow, too fast and in between at first.
MCChips == {[initial |-> i, perStep |-> s] : i \in {190, 199, 203, 215}, s \in {70, 110, 200}}

\* They are what the theorem about the tuning asks for.
ASSUME ChipsTunable == \A chip \in MCChips : Tunable(chip)

=============================================================================
