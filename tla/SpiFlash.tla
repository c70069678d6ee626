------------------------------ MODULE SpiFlash ------------------------------
(***************************************************************************)
(* The parts of a Pro Controller's SPI flash that the adapter imitates     *)
(* (spiMemoryRead in src/src/spiMemory.cpp): five segments in program      *)
(* memory and the user calibration data, which is in the EEPROM.  A byte   *)
(* is named by the segment it is in and its place there.                   *)
(***************************************************************************)
EXTENDS Integers, Sequences

\* In the order in which they are searched; the last two adjoin.
spiMemory == <<
    [name |-> "x6000", address |-> \h6000, length |-> 16],
    [name |-> "x6020", address |-> \h6020, length |-> 6 + 6 + 6 + 6],
    [name |-> "x603d", address |-> \h603d, length |-> 9 + 9 + 1 + 12 + 1],
    [name |-> "x6080", address |-> \h6080, length |-> 6 + 3 + 3 + 12],
    [name |-> "x6098", address |-> \h6098, length |-> 3 + 3 + 12] >>

EepromBegin == \h8010
EepromEnd == \h804c

Failed == <<>>

\* Slip: the segment's first address is not compared.
EndsBefore(segment, address, after) == segment.address + segment.length >= after

Holds(segment, address, after) ==
    segment.address <= address /\ segment.address + segment.length >= after

\* The bytes read, or nothing when the range is not found; the end of the
\* range is computed in sixteen bits.  It must stay below EepromEnd.
spiMemoryRead(address, length) ==
    LET after == (address + length) % 65536
        found == {i \in DOMAIN spiMemory : Holds(spiMemory[i], address, after)}
    IN  IF found # {}
        THEN LET segment == spiMemory[CHOOSE i \in found : \A j \in found : i <= j]
             IN  [n \in 1..length |-> <<segment.name, address - segment.address + n - 1>>]
        ELSE IF address >= EepromBegin /\ after < EepromEnd
        THEN [n \in 1..length |-> <<"eeprom", address - EepromBegin + n - 1>>]
        ELSE Failed

-----------------------------------------------------------------------------

\* What is at an address: the image the reads should agree with.
Image(address) ==
    LET in == {i \in DOMAIN spiMemory :
                  address \in spiMemory[i].address..(spiMemory[i].address + spiMemory[i].length - 1)}
    IN  IF in # {} THEN LET i == CHOOSE i \in in : TRUE
                        IN  <<spiMemory[i].name, address - spiMemory[i].address>>
        ELSE IF address \in EepromBegin..(EepromEnd - 1) THEN <<"eeprom", address - EepromBegin>>
        ELSE <<"nothing", 0>>

=============================================================================
