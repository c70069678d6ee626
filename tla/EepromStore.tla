----------------------------- MODULE EepromStore -----------------------------
(***************************************************************************)
(* The user calibration data in the EEPROM: prepareEEPROM (main.cpp) which *)
(* clears the EEPROM at the first start of the program, and spiMemoryWrite *)
(* (spiMemory.cpp), which the Switch's SPI writes end in.  Bytes are       *)
(* written one after the other, some milliseconds each, and the power may  *)
(* go between any two: the adapter is powered by the USB cable.            *)
(* The range check of a write computes the write's end in sixteen bits,    *)
(* and the EEPROM has fewer address lines than the addresses have bits.    *)
(***************************************************************************)
EXTENDS Integers

CONSTANTS
    E2END,          \* the last address
    UserBytes,      \* user calibration data is kept below this address
    AddressValues,  \* how many addresses the Switch's writes have (65536)
    UserBase,       \* the one of them that the user data begins at (0x8010)
    Lengths,        \* lengths of writes
    Data,           \* contents the Switch writes
    MaxWrites,      \* bound: SPI writes
    MaxPowerLosses  \* bound: power losses

ASSUME EepromAssumption ==
    /\ E2END \in Nat \ 0..2
    /\ UserBytes \in 1..(E2END - 2)
    /\ AddressValues \in Nat \ {0}
    /\ UserBase \in Nat
    /\ Lengths \subseteq Nat
    /\ Data \cap {"stale", "none"} = {}
    /\ MaxWrites \in Nat
    /\ MaxPowerLosses \in Nat

VARIABLES
    eeprom,     \* per address: what is there, "stale" if left by another program
    pc,         \* "off", "clear", "magic", "run" or "write"
    cursor,     \* the byte to be written next; of a write, counted from its start
    write,      \* the SPI write in progress
    acked,      \* per user byte: the contents an accepted write was answered for
    marred,     \* has a write broken the magic number?
    writes,
    losses

eepromVars == <<eeprom, pc, cursor, write, acked, marred, writes, losses>>

Addresses == 0..E2END
UserArea == 0..(UserBytes - 1)

\* A word pointer to E2END less one word: the magic number's low byte.
lastInt16 == E2END - 2
MagicBytes == {lastInt16, lastInt16 + 1}

HasMagic(contents) == \A a \in MagicBytes : contents[a] = "magic"

EepromInit ==
    /\ eeprom \in [Addresses -> {"stale", "magic"}]
    /\ \A a \in Addresses \ MagicBytes : eeprom[a] = "stale"
    /\ ~HasMagic(eeprom)
    /\ pc = "off"
    /\ cursor = 0
    /\ write = [address |-> UserBase, length |-> 0, data |-> "ff"]
    /\ acked = [a \in UserArea |-> "none"]
    /\ marred = FALSE
    /\ writes = 0
    /\ losses = 0

Store(address, value) == eeprom' = [eeprom EXCEPT ![address] = value]

\* Slip: a half of the magic number will do.
NeedsClearingUnlessHalf == \A a \in MagicBytes : eeprom[a] # "magic"

NeedsClearing == ~HasMagic(eeprom)

\* What was answered for is given up for lost if a write broke the number.
Forgotten ==
    /\ acked' = IF marred THEN [a \in UserArea |-> "none"] ELSE acked
    /\ marred' = FALSE

PowerUp ==
    /\ pc = "off"
    /\ IF NeedsClearing THEN pc' = "clear" /\ cursor' = 0 /\ Forgotten
                        ELSE pc' = "run" /\ UNCHANGED <<cursor, acked, marred>>
    /\ UNCHANGED <<eeprom, write, writes, losses>>

\* Words from 0 upwards, while they begin before lastInt16: the last one
\* takes in the low byte of the magic number if lastInt16 is odd.
ClearEnd == IF lastInt16 % 2 = 1 THEN lastInt16 ELSE lastInt16 - 1

ClearByte ==
    /\ pc = "clear"
    /\ Store(cursor, "ff")
    /\ IF cursor = ClearEnd
       THEN pc' = "magic" /\ cursor' = lastInt16
       ELSE cursor' = cursor + 1 /\ UNCHANGED pc
    /\ UNCHANGED <<write, acked, marred, writes, losses>>

MagicByte ==
    /\ pc = "magic"
    /\ Store(cursor, "magic")
    /\ IF cursor = lastInt16 + 1
       THEN pc' = "run" /\ UNCHANGED cursor
       ELSE cursor' = cursor + 1 /\ UNCHANGED pc
    /\ UNCHANGED <<write, acked, marred, writes, losses>>

-----------------------------------------------------------------------------
(* Writes: an address, a length, and data that is one value throughout.    *)

\* Where the i-th byte lands: the EEPROM has no more address lines.
Cell(w, i) == (w.address - UserBase + i) % (E2END + 1)

Cells(w) == {Cell(w, i) : i \in 0..(w.length - 1)}

\* The user bytes that the Switch means by the addresses it writes to.
Meant(w) == {a \in UserArea : UserBase + a \in w.address..(w.address + w.length - 1)}

\* Slip: the bytes count as stored when the write begins.
AckedAtOnce(w) ==
    acked' = [a \in UserArea |-> IF a \in Meant(w) THEN w.data ELSE acked[a]]

\* From here on the Switch cannot tell what these bytes hold.
Disturbed(w) ==
    acked' = [a \in UserArea |-> IF a \in Cells(w) THEN "none" ELSE acked[a]]

\* The address after the last byte must lie below the range's end.  It has
\* sixteen bits: that of a write past the last address is a low one.
InRange(w) ==
    /\ w.address >= UserBase
    /\ (w.address + w.length) % AddressValues < UserBase + UserBytes

Acknowledged(w) ==
    acked' = [a \in UserArea |-> IF a \in Meant(w) THEN w.data ELSE acked[a]]

SpiWriteBegins(w) ==
    /\ InRange(w)
    /\ w.length > 0
    /\ write' = w
    /\ cursor' = 0
    /\ pc' = "write"
    /\ Disturbed(w)

\* Nothing is written.  The Switch gets the same reply: spiMemoryWrite's
\* result is not looked at.
SpiWriteStoresNothing(w) ==
    /\ ~InRange(w) \/ w.length = 0
    /\ UNCHANGED <<write, cursor, pc, acked>>

SpiWrite(w) ==
    /\ pc = "run"
    /\ writes < MaxWrites
    /\ writes' = writes + 1
    /\ SpiWriteBegins(w) \/ SpiWriteStoresNothing(w)
    /\ UNCHANGED <<eeprom, marred, losses>>

\* The reply is prepared when the last byte has been written.
WriteByte ==
    /\ pc = "write"
    /\ Store(Cell(write, cursor), write.data)
    /\ marred' = ~HasMagic(eeprom')
    /\ IF cursor = write.length - 1
       THEN /\ pc' = "run"
            /\ Acknowledged(write)
            /\ UNCHANGED cursor
       ELSE /\ cursor' = cursor + 1
            /\ UNCHANGED <<pc, acked>>
    /\ UNCHANGED <<write, writes, losses>>

PowerLoss ==
    /\ pc # "off"
    /\ losses < MaxPowerLosses
    /\ losses' = losses + 1
    /\ pc' = "off"
    /\ UNCHANGED <<eeprom, cursor, write, acked, marred, writes>>

Program ==
    \/ PowerUp \/ ClearByte \/ MagicByte \/ WriteByte

EepromNext ==
    \/ Program
    \/ \E address \in 0..(AddressValues - 1), length \in Lengths, data \in Data :
           SpiWrite([address |-> address, length |-> length, data |-> data])
    \/ PowerLoss

EepromSpec == EepromInit /\ [][EepromNext]_eepromVars

-----------------------------------------------------------------------------
(* Properties.                                                             *)

\* The Switch never reads what another program left in the EEPROM, at
\* whatever moment of clearing it the power was lost.
NothingStale ==
    pc \in {"run", "write"} => \A a \in UserArea : eeprom[a] # "stale"

\* Data of a write that passes the range check stays stored once the write is
\* answered, over power losses, restarts and other writes: "We store this in
\* the ATmega's EEPROM" (spiMemory.cpp:155-164).  It ends when the Switch begins
\* a write that lands there, meant for this byte or for an address past the
\* last one, and when such a write has broken the magic number and the program
\* starts again.
AckedIsStored ==
    \A a \in UserArea : acked[a] # "none" => eeprom[a] = acked[a]

=============================================================================
