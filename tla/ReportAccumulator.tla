------------------------- MODULE ReportAccumulator -------------------------
(***************************************************************************)
(* How usbFunctionWriteOutOrAbandon puts output reports together from the  *)
(* packets of OUT endpoint 1 (main.cpp:619-676), and how a cleared         *)
(* endpoint halt makes it abandon the report it is accumulating.  The host *)
(* cuts a report into packets of eight bytes, the last one shorter; a      *)
(* report whose length is a multiple of eight, short of the maximum, ends  *)
(* with a packet without data.  Such a packet stays in the driver.         *)
(*                                                                         *)
(* Nothing but a cleared halt resets the handler.  The Switch may also     *)
(* break a report off without one, by a reset or a suspension of the bus,  *)
(* and may repeat a packet whose acknowledgement was lost, which the       *)
(* driver passes on again (see UsbEndpoint).                               *)
(*                                                                         *)
(* A packet's contents are abstracted to the report it is cut from and its *)
(* place in it.                                                            *)
(***************************************************************************)
EXTENDS Integers, Sequences

CONSTANTS
    Lengths,        \* lengths of the reports the host sends
    MaxReports,     \* bound: reports it sends, numbered from 1
    MaxAbandons,    \* bound: transfers it gives up half way
    MaxDisturbances \* bound: reports broken off, packets repeated

sReportSize == 64
PacketSize == 8

ASSUME AccumulatorAssumption ==
    /\ Lengths \subseteq 1..sReportSize
    /\ MaxReports \in Nat
    /\ MaxAbandons \in Nat
    /\ MaxDisturbances \in Nat

VARIABLES
    accumulatedReportBytes,
    reportAccumulationBuffer,   \* the packets in it, by slot of eight bytes
    reportId,                   \* the report whose first byte it was taken from
    reportIn,                   \* the packets of the last report dispatched
    reportLength,               \* its length
    dispatchedId,               \* the identifier it was dispatched by
    sent,                       \* the report the host is sending, or has sent
    length,                     \* its length
    offset,                     \* bytes of it sent so far
    ended,                      \* the host has sent all of it
    halted,                     \* the host has stopped in the middle of it
    abandons,
    disturbances,
    settled,                    \* the host's packets and the handler are in step
    intact,                     \* so they were when the host began the report,
                                \* and have been since
    trusted                     \* they were when the handler dispatched last

handlerVars == <<accumulatedReportBytes, reportAccumulationBuffer, reportId,
                 reportIn, reportLength, dispatchedId>>
hostVars == <<sent, length, offset, ended, halted, abandons>>
stepVars == <<disturbances, settled, intact, trusted>>
vars == <<handlerVars, hostVars, stepVars>>

Slots == 0..(sReportSize \div PacketSize - 1)
NoPacket == [report |-> 0, at |-> 0]

Init ==
    /\ accumulatedReportBytes = 0
    /\ reportAccumulationBuffer = [s \in Slots |-> NoPacket]
    /\ reportId = 0
    /\ reportIn = <<>>
    /\ reportLength = 0
    /\ dispatchedId = 0
    /\ sent = 0
    /\ length = 0
    /\ offset = 0
    /\ ended = TRUE
    /\ halted = FALSE
    /\ abandons = 0
    /\ disturbances = 0
    /\ settled = TRUE
    /\ intact = TRUE
    /\ trusted = TRUE

-----------------------------------------------------------------------------
(* The handler.                                                            *)

\* Slip: the buffer's last byte does not end a report.
CompleteShortOnly(len, total) == len # PacketSize

ReportComplete(len, total) == len # PacketSize \/ total = sReportSize

\* The buffer with the packet copied in behind what is there.
Accumulated(packet) ==
    [reportAccumulationBuffer EXCEPT ![accumulatedReportBytes \div PacketSize] = packet]

\* The first bytes of the buffer, as the packets they hold.
Contents(buffer, bytes) ==
    [i \in 1..((bytes + PacketSize - 1) \div PacketSize) |-> buffer[i - 1]]

\* The identifier is the first byte of the first packet.
TakeReportId(packet) ==
    reportId' = IF accumulatedReportBytes = 0 THEN packet.report ELSE reportId

Dispatch(contents, total) ==
    /\ reportIn' = contents
    /\ reportLength' = total
    /\ dispatchedId' = reportId'

\* Slip: the count is kept after a report is dispatched.
KeepCount(total) == accumulatedReportBytes' = total

\* The handler is ready for another report.
ResetCount(total) == accumulatedReportBytes' = 0

\* A report of one packet is used where it lies.
WriteOutSingle(packet, len) ==
    /\ accumulatedReportBytes = 0
    /\ ReportComplete(len, len)
    /\ Dispatch(<<packet>>, len)
    /\ ResetCount(len)
    /\ UNCHANGED reportAccumulationBuffer

WriteOutLast(packet, len) ==
    LET total == accumulatedReportBytes + len
    IN  /\ accumulatedReportBytes # 0
        /\ ReportComplete(len, total)
        /\ reportAccumulationBuffer' = Accumulated(packet)
        /\ Dispatch(Contents(Accumulated(packet), total), total)
        /\ ResetCount(total)

WriteOutMore(packet, len) ==
    LET total == accumulatedReportBytes + len
    IN  /\ ~ReportComplete(len, total)
        /\ reportAccumulationBuffer' = Accumulated(packet)
        /\ accumulatedReportBytes' = total
        /\ UNCHANGED <<reportIn, reportLength, dispatchedId>>

\* The driver passes on packets that carry data.
WriteOut(packet, len) ==
    /\ len > 0
    /\ TakeReportId(packet)
    /\ WriteOutSingle(packet, len) \/ WriteOutLast(packet, len) \/ WriteOutMore(packet, len)

\* The driver acknowledges a packet without data and drops it.
DropEmpty(len) ==
    /\ len = 0
    /\ UNCHANGED handlerVars

\* Slip: the abandoned bytes are kept.
KeepBytes == UNCHANGED accumulatedReportBytes

AbandonBytes == accumulatedReportBytes' = 0

Abandon ==
    /\ AbandonBytes
    /\ UNCHANGED <<reportAccumulationBuffer, reportId, reportIn, reportLength,
                   dispatchedId>>

-----------------------------------------------------------------------------
(* The host.                                                               *)

BeginReport(len) ==
    /\ ended
    /\ ~halted
    /\ sent < MaxReports
    /\ sent' = sent + 1
    /\ length' = len
    /\ offset' = 0
    /\ ended' = FALSE
    /\ intact' = settled
    /\ UNCHANGED <<handlerVars, halted, abandons, disturbances, settled, trusted>>

\* A short packet brings the handler back in step.  One without data puts it
\* out of step: it goes on waiting for the end.
Settles(len) == settled' = CASE len \in 1..(PacketSize - 1) -> TRUE
                             [] len = 0 -> settled /\ accumulatedReportBytes = 0
                             [] OTHER -> settled

\* Whether what is dispatched now can be trusted.
Trusts(inStep) ==
    trusted' = IF reportIn' # reportIn \/ dispatchedId' # dispatchedId THEN inStep ELSE trusted

\* The next packet of the report; one that is short, or that fills the
\* maximum size, is the last.
SendPacket ==
    LET rest == length - offset
        len == IF rest < PacketSize THEN rest ELSE PacketSize
        packet == [report |-> sent, at |-> offset \div PacketSize]
    IN  /\ ~ended
        /\ ~halted
        /\ WriteOut(packet, len) \/ DropEmpty(len)
        /\ offset' = offset + len
        /\ ended' = (len < PacketSize \/ offset + len = sReportSize)
        /\ Settles(len)
        /\ Trusts(settled)
        /\ intact' = (intact /\ len # 0)
        /\ UNCHANGED <<sent, length, halted, abandons, disturbances>>

\* A transfer fails half way: the host stops, and clears the halt feature of
\* the endpoint before it sends again.
HaltTransfer ==
    /\ ~ended
    /\ ~halted
    /\ abandons < MaxAbandons
    /\ halted' = TRUE
    /\ abandons' = abandons + 1
    /\ intact' = FALSE
    /\ UNCHANGED <<handlerVars, sent, length, offset, ended, disturbances, settled, trusted>>

ClearHalt ==
    /\ halted
    /\ Abandon
    /\ halted' = FALSE
    /\ ended' = TRUE
    /\ settled' = TRUE
    /\ UNCHANGED <<sent, length, offset, abandons, disturbances, intact, trusted>>

Disturb ==
    /\ ~halted
    /\ disturbances < MaxDisturbances
    /\ disturbances' = disturbances + 1
    /\ intact' = FALSE

\* The bus is reset or suspended in the middle of a report, and the host
\* begins another afterwards.  The bytes that came stay (main.cpp:623).
BreakOff ==
    /\ Disturb
    /\ ~ended
    /\ ended' = TRUE
    /\ settled' = (settled /\ accumulatedReportBytes = 0)
    /\ UNCHANGED <<handlerVars, sent, length, offset, halted, abandons, trusted>>

\* The packet sent last, once more, unless it was one without data.
RepeatPacket ==
    LET at == (offset - 1) \div PacketSize
        len == offset - PacketSize * at
    IN  /\ Disturb
        /\ offset > 0
        /\ ended /\ offset = length /\ len = PacketSize => offset = sReportSize
        /\ WriteOut([report |-> sent, at |-> at], len)
        /\ settled' = (len < PacketSize)
        /\ Trusts(FALSE)
        /\ UNCHANGED hostVars

Done == ended /\ ~halted /\ sent = MaxReports /\ UNCHANGED vars

Next ==
    \/ \E len \in Lengths : BeginReport(len)
    \/ SendPacket
    \/ HaltTransfer
    \/ ClearHalt
    \/ BreakOff
    \/ RepeatPacket
    \/ Done

Spec == Init /\ [][Next]_vars

-----------------------------------------------------------------------------
(* Properties.                                                             *)

\* There is always room for one more packet: whatever packets the host sends,
\* memcpy stays within reportAccumulationBuffer (main.cpp:661).
RoomForPacket ==
    /\ accumulatedReportBytes % PacketSize = 0
    /\ accumulatedReportBytes + PacketSize <= sReportSize

PacketsOf(report, len) ==
    [i \in 1..((len + PacketSize - 1) \div PacketSize) |-> [report |-> report, at |-> i - 1]]

\* A dispatched report is one report of the host, all of it and nothing else,
\* dispatched by its own identifier; also after transfers were given up.  A
\* report broken off, or ended by a packet without data, or with a packet
\* repeated, spoils what is dispatched up to the next short packet and
\* nothing after it (main.cpp:623-668).
DispatchedWhole ==
    trusted /\ reportIn # <<>> => reportIn = PacketsOf(dispatchedId, reportLength)

\* When the host has sent all of a report, the handler has dispatched it and
\* waits for another: a short packet or the maximum size ends a transfer
\* (main.cpp:644-645).  A packet without data, which is short too, does not.
EndOfTransferSeen ==
    ended /\ intact /\ sent > 0 =>
        dispatchedId = sent /\ reportLength = length /\ accumulatedReportBytes = 0

=============================================================================
