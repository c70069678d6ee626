---------------------------- MODULE UsbEndpoint ----------------------------
(***************************************************************************)
(* Endpoint 1 of the USB driver, in both directions (src/v-usb/usbdrv).    *)
(* The receiver's interrupt routine and the main loop share usbRxBuf,      *)
(* usbRxLen and usbTxStatus1 without a lock: the main loop never disables  *)
(* interrupts, so the routine may run between any two of its byte copies.  *)
(* A transaction on the bus is one step of the routine; a copy by the main *)
(* loop is one step per cell, a packet being Cells cells with the packet's *)
(* number in each.  Number 0 is what a buffer holds at first.              *)
(*                                                                         *)
(* The host retries an OUT packet until it sees the ACK; tokens, packets   *)
(* and handshakes may be lost, MaxErrors of them.                          *)
(***************************************************************************)
EXTENDS Integers

CONSTANTS
    Cells,          \* pieces in which the main loop copies a packet
    MaxOut,         \* bound: OUT packets the host sends, numbered from 1
    ZeroLength,     \* the numbers of those that carry no data
    MaxIn,          \* bound: packets given to usbSetInterrupt, numbered from 1
    MaxErrors       \* bound: losses on the bus

ASSUME EndpointAssumption ==
    /\ Cells \in Nat \ {0}
    /\ MaxOut \in Nat
    /\ ZeroLength \subseteq 1..MaxOut
    /\ MaxIn \in Nat
    /\ MaxErrors \in Nat

VARIABLES
    usbRxBuf,           \* two halves, each a packet's cells
    usbInputBufOffset,  \* the half the receiver writes to
    usbRxLen,           \* 0 when the other half is free, 1 when it holds data
    usbCurrentTok,      \* "out" after an OUT token for endpoint 1, else "none"
    usbTxLen1,          \* "NAK" or "data"
    txCells,            \* usbTxStatus1.buffer, the data
    txToken,            \* usbTxStatus1.buffer[0], DATA0 or DATA1
    pc,                 \* where the main loop is in usbPoll or usbSetInterrupt
    cell,               \* the next cell it copies
    half,               \* the half usbProcessRx was called with
    wasEmpty,           \* what usbGenericSetInterrupt saw in usbTxStatus1.len
    data,               \* the cells read so far by usbFunctionWriteOut
    handled,            \* the cells it saw last, complete
    sentIn,             \* packets given to usbSetInterrupt
    stage,              \* "idle", or "data" after the host sent an OUT token
    acked,              \* OUT packets the host knows to be accepted
    inToken,            \* the token the host expects next
    got,                \* the cells of the last IN packet the host accepted
    errors

rxVars == <<usbRxBuf, usbInputBufOffset, usbRxLen, usbCurrentTok>>
txVars == <<usbTxLen1, txCells, txToken>>
mainVars == <<pc, cell, half, wasEmpty, data, handled, sentIn>>
hostVars == <<stage, acked, inToken, got, errors>>
vars == <<rxVars, txVars, mainVars, hostVars>>

Packet(n) == [c \in 1..Cells |-> n]
Whole(cells) == \E n \in 0..(MaxOut + MaxIn) : cells = Packet(n)

Init ==
    /\ usbRxBuf = [h \in 0..1 |-> Packet(0)]
    /\ usbInputBufOffset = 0
    /\ usbRxLen = 0
    /\ usbCurrentTok = "none"
    /\ usbTxLen1 = "NAK"
    /\ txCells = Packet(0)
    /\ txToken = 1            \* USB_INITIAL_DATATOKEN: the first packet is DATA0
    /\ pc = "poll"
    /\ cell = 1
    /\ half = 0
    /\ wasEmpty = TRUE
    /\ data = Packet(0)
    /\ handled = Packet(0)
    /\ sentIn = 0
    /\ stage = "idle"
    /\ acked = 0
    /\ inToken = 0
    /\ got = Packet(0)
    /\ errors = 0

-----------------------------------------------------------------------------
(* Bus transactions: the host's half and the interrupt routine's answer.   *)

Fail ==
    /\ errors < MaxErrors
    /\ errors' = errors + 1

\* The OUT token arrives; or it is damaged and clears the current token; or
\* it is not noticed at all.
OutToken ==
    /\ stage = "idle"
    /\ acked < MaxOut
    /\ stage' = "data"
    /\ \/ usbCurrentTok' = "out" /\ UNCHANGED errors
       \/ usbCurrentTok' \in {"none", usbCurrentTok} /\ Fail
    /\ UNCHANGED <<usbRxBuf, usbInputBufOffset, usbRxLen, txVars, mainVars,
                   acked, inToken, got>>

\* The receiver stores the bytes before it knows whether it wants them.
Received ==
    IF acked + 1 \in ZeroLength
    THEN usbRxBuf
    ELSE [usbRxBuf EXCEPT ![usbInputBufOffset] = Packet(acked + 1)]

\* The handshake reaches the host, or it is lost and the host tries again.
Ack == \/ acked' = acked + 1 /\ UNCHANGED errors
       \/ acked' = acked /\ Fail

\* Slip: a packet is taken although the one before it is being processed.
RxAlwaysFree == usbRxLen \in 0..1

RxFree == usbRxLen = 0

\* Data after no token of ours is ignored; the host times out.
DataIgnored ==
    /\ usbCurrentTok = "none"
    /\ UNCHANGED <<usbInputBufOffset, usbRxLen, acked, errors>>

\* The packet before it is still being processed.
DataRefused ==
    /\ usbCurrentTok # "none"
    /\ ~RxFree
    /\ UNCHANGED <<usbInputBufOffset, usbRxLen, acked, errors>>

\* Packets without data are taken for a control transfer's status stage.
ZeroLengthAcked ==
    /\ usbCurrentTok # "none"
    /\ RxFree
    /\ acked + 1 \in ZeroLength
    /\ Ack
    /\ UNCHANGED <<usbInputBufOffset, usbRxLen>>

\* The packet is stored: the length is set and the halves are swapped.
Stored ==
    /\ usbRxLen' = 1
    /\ usbInputBufOffset' = 1 - usbInputBufOffset

DataAcked ==
    /\ usbCurrentTok # "none"
    /\ RxFree
    /\ acked + 1 \notin ZeroLength
    /\ Stored
    /\ Ack

OutData ==
    /\ stage = "data"
    /\ stage' = "idle"
    /\ usbRxBuf' = Received
    /\ DataIgnored \/ DataRefused \/ ZeroLengthAcked \/ DataAcked
    /\ UNCHANGED <<usbCurrentTok, txVars, mainVars, inToken, got>>

\* Slip: the length is left set, so that the packet is sent again.
KeepLength == UNCHANGED usbTxLen1

\* The length becomes NAK as the packet is sent, before any handshake.
ReleaseTx == usbTxLen1' = "NAK"

\* An IN token is answered with NAK while received data is unprocessed or
\* there is nothing to send.  The host drops a packet whose token it does not
\* expect, taking it for a repetition.
HostIn ==
    /\ stage = "idle"
    /\ usbRxLen = 0
    /\ usbTxLen1 = "data"
    /\ ReleaseTx
    /\ \/ /\ got' = IF txToken = inToken THEN txCells ELSE got
          /\ inToken' = IF txToken = inToken THEN 1 - inToken ELSE inToken
          /\ UNCHANGED errors
       \/ /\ UNCHANGED <<got, inToken>>
          /\ Fail
    /\ UNCHANGED <<rxVars, txCells, txToken, mainVars, stage, acked>>

-----------------------------------------------------------------------------
(* The main loop: usbPoll, then perhaps usbSetInterrupt.                   *)

UsbPoll ==
    /\ pc = "poll"
    /\ IF usbRxLen # 0
       THEN pc' = "process" /\ cell' = 1 /\ half' = 1 - usbInputBufOffset
       ELSE pc' = "transmit" /\ UNCHANGED <<cell, half>>
    /\ UNCHANGED <<rxVars, txVars, wasEmpty, data, handled, sentIn, hostVars>>

\* usbFunctionWriteOut copies the packet out of its half of usbRxBuf.
ProcessCell ==
    /\ pc = "process"
    /\ data' = [data EXCEPT ![cell] = usbRxBuf[half][cell]]
    /\ IF cell = Cells
       THEN pc' = "release" /\ handled' = data' /\ UNCHANGED cell
       ELSE cell' = cell + 1 /\ UNCHANGED <<pc, handled>>
    /\ UNCHANGED <<rxVars, txVars, half, wasEmpty, sentIn, hostVars>>

\* Slip: the buffer is not given back.
KeepRx == UNCHANGED usbRxLen

FreeRx == usbRxLen' = 0

ReleaseRx ==
    /\ pc = "release"
    /\ FreeRx
    /\ pc' = "transmit"
    /\ UNCHANGED <<usbRxBuf, usbInputBufOffset, usbCurrentTok, txVars, cell, half,
                   wasEmpty, data, handled, sentIn, hostVars>>

usbInterruptIsReady == usbTxLen1 = "NAK"

\* The loop calls usbSetInterrupt only when the driver is ready for it.
\* usbGenericSetInterrupt first looks at the length.
SetInterrupt ==
    /\ pc = "transmit"
    /\ usbInterruptIsReady
    /\ sentIn < MaxIn
    /\ sentIn' = sentIn + 1
    /\ wasEmpty' = (usbTxLen1 = "NAK")
    /\ pc' = "token"
    /\ UNCHANGED <<rxVars, txVars, cell, half, data, handled, hostVars>>

NothingToSend ==
    /\ pc = "transmit"
    /\ pc' = "poll"
    /\ UNCHANGED <<rxVars, txVars, cell, half, wasEmpty, data, handled, sentIn, hostVars>>

\* Toggle the token of a new packet, or withdraw the one being replaced.
SetToken ==
    /\ pc = "token"
    /\ IF wasEmpty
       THEN txToken' = 1 - txToken /\ UNCHANGED usbTxLen1
       ELSE usbTxLen1' = "NAK" /\ UNCHANGED txToken
    /\ pc' = "copy"
    /\ cell' = 1
    /\ UNCHANGED <<rxVars, txCells, half, wasEmpty, data, handled, sentIn, hostVars>>

\* Slip: the length is set before the bytes are copied.
CopyCellArmed ==
    /\ txCells' = [txCells EXCEPT ![cell] = sentIn]
    /\ usbTxLen1' = "data"

\* A byte is copied while the length keeps the routine from sending.
CopyToTx ==
    /\ txCells' = [txCells EXCEPT ![cell] = sentIn]
    /\ UNCHANGED usbTxLen1

CopyCell ==
    /\ pc = "copy"
    /\ CopyToTx
    /\ IF cell = Cells
       THEN pc' = "arm" /\ UNCHANGED cell
       ELSE cell' = cell + 1 /\ UNCHANGED pc
    /\ UNCHANGED <<rxVars, txToken, half, wasEmpty, data, handled, sentIn, hostVars>>

SetLength ==
    /\ pc = "arm"
    /\ usbTxLen1' = "data"
    /\ pc' = "poll"
    /\ UNCHANGED <<rxVars, txCells, txToken, cell, half, wasEmpty, data, handled,
                   sentIn, hostVars>>

-----------------------------------------------------------------------------
Main == \/ UsbPoll \/ ProcessCell \/ ReleaseRx
        \/ SetInterrupt \/ NothingToSend \/ SetToken \/ CopyCell \/ SetLength

Next == Main \/ OutToken \/ OutData \/ HostIn

Spec == Init /\ [][Next]_vars

\* The main loop keeps running, the host retries what was refused and keeps
\* polling for IN packets, and the loop takes the chance to send when it is
\* offered again and again.
FairSpec ==
    /\ Spec
    /\ WF_vars(Main)
    /\ SF_vars(SetInterrupt)
    /\ WF_vars(OutToken)
    /\ WF_vars(OutData)
    /\ SF_vars(HostIn)

-----------------------------------------------------------------------------
(* Properties.                                                             *)

\* No packet is torn: what usbFunctionWriteOut reads from usbRxBuf, while the
\* receiver may be storing the next packet, is one packet; what the host reads
\* from endpoint 1, while the loop may be filling the buffer, is one packet.
NoTornPacket == Whole(handled) /\ Whole(got)

\* Every OUT packet the host offers is accepted in the end.
EveryOutAccepted == \A n \in 1..MaxOut : (acked = n - 1) ~> (acked >= n)

\* Each direction is a channel for one packet at a time, exact until the
\* first loss.  After one, the handler may see a packet again (the driver
\* filters no duplicates) but never skips one, and the host may miss packets
\* of the adapter but never sees them torn, repeated or out of order.
OutChannel == INSTANCE PacketChannel WITH
    Packets <- 1..MaxOut,
    Empty <- 0,
    Repeats <- TRUE,
    Loses <- FALSE,
    slot <- IF usbRxLen # 0 /\ pc # "release"
            THEN usbRxBuf[1 - usbInputBufOffset][1] ELSE 0,
    put <- IF usbRxLen # 0 THEN usbRxBuf[1 - usbInputBufOffset][1] ELSE handled[1],
    got <- handled[1],
    disturbed <- errors > 0

InChannel == INSTANCE PacketChannel WITH
    Packets <- 1..MaxIn,
    Empty <- 0,
    Repeats <- FALSE,
    Loses <- TRUE,
    slot <- IF usbTxLen1 = "data" THEN txCells[1] ELSE 0,
    put <- IF usbTxLen1 = "data" \/ pc \notin {"token", "copy", "arm"}
           THEN sentIn ELSE sentIn - 1,
    got <- got[1],
    disturbed <- errors > 0

OutIsChannel == OutChannel!ChannelSpec
InIsChannel == InChannel!ChannelSpec

=============================================================================
