----------------------------- MODULE SerialRing -----------------------------
(***************************************************************************)
(* The serial output (src/src/serial.cpp): a ring of characters that       *)
(* serialPrint fills and serialPoll empties into the UART's data register. *)
(* Nothing checks whether the ring is full.  A print that waits polls      *)
(* until the ring is empty before it adds its character.  A character is   *)
(* its number in the order of printing.                                    *)
(***************************************************************************)
EXTENDS Integers

CONSTANTS
    sSerialOutputBufferLength   \* 128

VARIABLES
    sSerialOutputBuffer,        \* a character number, 0 at first
    sSerialOutputBufferStart,
    sSerialOutputBufferEnd,
    waiting,                    \* a print that waits is in its loop
    printed,                    \* characters added to the ring
    dataRegister,               \* the character in the UART's data register, 0
                                \* when it is empty (UDRE is set)
    written                     \* the last character written to it

Slots == 0..(sSerialOutputBufferLength - 1)

Init ==
    /\ sSerialOutputBuffer = [s \in Slots |-> 0]
    /\ sSerialOutputBufferStart = 0
    /\ sSerialOutputBufferEnd = 0
    /\ waiting = FALSE
    /\ printed = 0
    /\ dataRegister = 0
    /\ written = 0

Empty == sSerialOutputBufferStart = sSerialOutputBufferEnd

\* Indexes are eight bits wide; 128 divides 256.
NextSlot(slot) == ((slot + 1) % 256) % sSerialOutputBufferLength

\* Slip: the test of UDRE is the wrong way round.
RegisterBusy == dataRegister # 0

RegisterFree == dataRegister = 0

OldestSlot == sSerialOutputBufferStart

serialPoll ==
    /\ ~Empty
    /\ RegisterFree
    /\ dataRegister' = sSerialOutputBuffer[OldestSlot]
    /\ written' = dataRegister'
    /\ sSerialOutputBufferStart' = NextSlot(sSerialOutputBufferStart)
    /\ UNCHANGED <<sSerialOutputBuffer, sSerialOutputBufferEnd, waiting, printed>>

AddCharacter ==
    /\ printed' = printed + 1
    /\ sSerialOutputBuffer' =
           [sSerialOutputBuffer EXCEPT ![sSerialOutputBufferEnd] = printed + 1]
    /\ sSerialOutputBufferEnd' = NextSlot(sSerialOutputBufferEnd)
    /\ UNCHANGED <<sSerialOutputBufferStart, dataRegister, written>>

serialPrint ==
    /\ ~waiting
    /\ AddCharacter
    /\ UNCHANGED waiting

\* Slip: a print that waits does not wait.
WaitIsOver == TRUE

Drained == Empty

serialPrintWaits ==
    /\ ~waiting
    /\ waiting' = TRUE
    /\ UNCHANGED <<sSerialOutputBuffer, sSerialOutputBufferStart,
                   sSerialOutputBufferEnd, printed, dataRegister, written>>

serialPrintReturns ==
    /\ waiting
    /\ Drained
    /\ AddCharacter
    /\ waiting' = FALSE

\* The UART moves the character on to its shift register.
UartTakes ==
    /\ dataRegister # 0
    /\ dataRegister' = 0
    /\ UNCHANGED <<sSerialOutputBuffer, sSerialOutputBufferStart,
                   sSerialOutputBufferEnd, waiting, printed, written>>

=============================================================================
