--------------------------- MODULE ReportPipeline ---------------------------
(***************************************************************************)
(* The path of a report through the adapter (src/src/main.cpp): the main   *)
(* loop polls the USB driver, which may hand it one output report of the   *)
(* Switch; the handler prepares a reply in one of two report buffers; the  *)
(* loop later transmits the prepared report, or a fresh input report, in   *)
(* packets of eight bytes through interrupt endpoint 1.  The environment   *)
(* is the Switch, which sends output reports, takes packets, and suspends  *)
(* and resumes the bus.                                                    *)
(*                                                                         *)
(* The contents of a buffer are abstracted to three regions, each of them  *)
(* identified by what was last written there:                              *)
(*    head  bytes 0..1     report ID and timer, or command echo            *)
(*    body  bytes 2..12    the input sub-report, or a regular payload      *)
(*    tail  bytes 13..63   acknowledge, subcommand and UART payload        *)
(* Packets and complete output reports travel whole here; UsbEndpoint and  *)
(* ReportAccumulator model how the driver and the accumulation make them.  *)
(***************************************************************************)
EXTENDS Integers

CONSTANTS
    Ops,            \* the operations the Switch uses, a subset of AllOps
    MaxCommands,    \* bound: output reports the Switch sends
    MaxSuspends,    \* bound: times the Switch suspends the bus
    SpiReadLength,  \* the length an SPI read asks for; a long one, one byte more
    HostWaits       \* whether the Switch waits for a reply before it asks again

(***************************************************************************)
(* Output reports, named for what the handler does with them.              *)
(***************************************************************************)
RegularOps == {"macInfo", "handshake"}         \* 80 01; 80 02 and 80 03
UartOps == {"ack", "deviceInfo", "nfcConfig", "spiRead", "spiReadLong", "spiWrite",
            "rumbleOn", "rumbleOff", "badUart"}
AnsweredOps == RegularOps \cup UartOps \cup {"zero"}
AllOps == AnsweredOps \cup {"stopInput", "startInput", "badRegular", "rumble",
                            "shortRumble", "badSpiRead", "badId"}

ASSUME ConstantsAssumption ==
    /\ Ops \subseteq AllOps
    /\ MaxCommands \in Nat
    /\ MaxSuspends \in Nat
    /\ SpiReadLength \in 0..254  \* reads of 60 bytes and more succeed by wrapping
    /\ HostWaits \in BOOLEAN

sReportSize == 64
SwitchReportSize == 11
PacketSize == 8

(***************************************************************************)
(* A tag names what a region holds: the command (with its number) it is    *)
(* the answer to, a periodic input report, or nothing yet.                 *)
(***************************************************************************)
Tag == [op : AllOps \cup {"input", "blank", "none"}, n : 0..MaxCommands]
NoTag == [op |-> "none", n |-> 0]
BlankTag == [op |-> "blank", n |-> 0]
InputTag == [op |-> "input", n |-> 0]

\* What the body region holds: a payload, or the controller's state written
\* while the report `tag' was in the buffer.
Body == [input : BOOLEAN, tag : Tag]
Payload(tag) == [input |-> FALSE, tag |-> tag]
InputFor(tag) == [input |-> TRUE, tag |-> tag]

Index == 0..1

VARIABLES
    sReports,                     \* per buffer: its three regions
    sReportsInputReportPosition,  \* per buffer: where the input goes, 0 = nowhere
    sReportLengths,               \* per buffer: length of the prepared report
    sCurrentReport,               \* the buffer the next report is prepared in
    sReportPending,               \* a report is prepared and not yet picked up
    sInputReportsSuspended,       \* the Switch asked for no periodic reports
    sRumbleEnabled,
    transmitting,                 \* transmitPacket's statics, one record
    sUsbSuspended,                \* loop's view of the bus
    pc,                           \* where the main loop is
    halted,                       \* why haltStr6 was entered, "no", or "overrun"
    rxReport,                     \* the output report waiting in the driver
    txPacket,                     \* the packet waiting in endpoint 1
    newSof,                       \* usbSofCount moved since loop last read it
    busActive,                    \* the Switch is driving the bus
    suspends,                     \* how often it stopped doing so
    sent,                         \* output reports sent so far
    awaiting,                     \* the command whose reply is outstanding
    abandoned,                    \* commands it no longer awaits the reply to
    hostReport,                   \* the transfer the Switch is assembling
    received                      \* the last complete report it assembled

bufferVars == <<sReports, sReportsInputReportPosition, sReportLengths,
                sCurrentReport, sReportPending>>
modeVars == <<sInputReportsSuspended, sRumbleEnabled>>
hostVars == <<busActive, suspends, sent, awaiting, abandoned, hostReport, received>>
vars == <<bufferVars, modeVars, transmitting, sUsbSuspended, pc, halted,
          rxReport, txPacket, newSof, hostVars>>

-----------------------------------------------------------------------------
(* Packets, and reports as the Switch assembles them.                      *)

Overlaps(at, size, first, last) == at <= last /\ first < at + size

Covered(value, at, size, first, last) ==
    IF Overlaps(at, size, first, last) THEN {value} ELSE {}

\* The bytes [at, at + size) of a buffer, as usbSetInterrupt copies them.
PacketOf(report, at, size) ==
    [at   |-> at,
     size |-> size,
     head |-> Covered(report.head, at, size, 0, 1),
     body |-> Covered(report.body, at, size, 2, 12),
     tail |-> Covered(report.tail, at, size, 13, 63)]

NoPacket == [at |-> 0, size |-> -1, head |-> {}, body |-> {}, tail |-> {}]

EmptyReport == [length |-> 0, head |-> {}, body |-> {}, tail |-> {}]

Extend(report, packet) ==
    [length |-> report.length + packet.size,
     head   |-> report.head \cup packet.head,
     body   |-> report.body \cup packet.body,
     tail   |-> report.tail \cup packet.tail]

-----------------------------------------------------------------------------
(* Lengths of the reports the adapter prepares.                            *)

InputReportLength == 2 + SwitchReportSize

RegularReplyLength(op) == IF op = "macInfo" THEN 10 ELSE 2

\* Lengths as they are before they are taken to eight bits.
UartPayloadLength(op) ==
    CASE op = "deviceInfo" -> 12
      [] op = "nfcConfig" -> 8
      [] op = "spiRead" -> SpiReadLength + 5
      [] op = "spiReadLong" -> SpiReadLength + 1 + 5
      [] OTHER -> 1

UartReplyLength(op) == 2 + SwitchReportSize + 2 + UartPayloadLength(op)

\* The SPI reply is put together in a buffer whose length has eight bits.
PayloadOverruns(op) == UartPayloadLength(op) >= 256

\* Slip: the check against sReportSize is missing.
FitsUnchecked(length) == length >= 0

\* reportLength has eight bits.
FitsReport(length) == length % 256 <= sReportSize

\* The check lets the payload be copied, and it is copied within the buffer.
CopiedWithin(op) == FitsReport(UartReplyLength(op)) /\ UartReplyLength(op) <= sReportSize

ReplyLength(op) ==
    CASE op \in RegularOps -> RegularReplyLength(op)
      [] op \in UartOps -> UartReplyLength(op)
      [] OTHER -> InputReportLength

-----------------------------------------------------------------------------
Init ==
    /\ sReports = [b \in Index |-> [head |-> BlankTag,
                                    body |-> Payload(BlankTag),
                                    tail |-> BlankTag]]
    /\ sReportsInputReportPosition = [b \in Index |-> 0]
    /\ sReportLengths = [b \in Index |-> 0]
    /\ sCurrentReport = 0
    /\ sReportPending = FALSE
    /\ sInputReportsSuspended = FALSE
    /\ sRumbleEnabled = FALSE
    /\ transmitting = [active |-> FALSE, index |-> 0, length |-> 0,
                       position |-> 0, cursor |-> 0]
    /\ sUsbSuspended = TRUE
    /\ pc = "poll"
    /\ halted = "no"
    /\ rxReport = NoTag
    /\ txPacket = NoPacket
    /\ newSof = TRUE          \* lastSofCount starts at 0xff, usbSofCount at 0
    /\ busActive = TRUE
    /\ suspends = 0
    /\ sent = 0
    /\ awaiting = NoTag
    /\ abandoned = {}
    /\ hostReport = EmptyReport
    /\ received = EmptyReport

-----------------------------------------------------------------------------
(* Preparing reports.  Each operator sets the buffer variables; a halt     *)
(* leaves the program in haltStr6's endless loop.  A copy that runs past   *)
(* its buffer is the end of the model: what the program does from there    *)
(* depends on what lay behind the buffer, and nothing is said of it.       *)

HaltReasons == {"no", "Report Clash", "Report Too Big", "Bad UART subcommand",
                "Bad rumble length", "badRegular", "badSpiRead", "badId", "overrun"}

Halt(reason) == halted' = reason

\* The buffer contents after prepareInputReport: it writes the head only.
WithInputHead(tag) == [sReports EXCEPT ![sCurrentReport].head = tag]

PrepareInputReport(tag) ==
    /\ sReports' = WithInputHead(tag)
    /\ sReportsInputReportPosition' =
           [sReportsInputReportPosition EXCEPT ![sCurrentReport] = 2]
    /\ sReportLengths' = [sReportLengths EXCEPT ![sCurrentReport] = InputReportLength]
    /\ sReportPending' = TRUE
    /\ UNCHANGED <<sCurrentReport, halted>>

\* A regular reply leaves the buffer's input position as it finds it.
PrepareRegularReply(tag) ==
    /\ ~sReportPending
    /\ sReports' = [sReports EXCEPT
           ![sCurrentReport].head = tag,
           ![sCurrentReport].body =
               IF RegularReplyLength(tag.op) > 2 THEN Payload(tag) ELSE @]
    /\ sReportLengths' =
           [sReportLengths EXCEPT ![sCurrentReport] = RegularReplyLength(tag.op)]
    /\ sReportPending' = TRUE
    /\ UNCHANGED <<sReportsInputReportPosition, sCurrentReport, halted>>

PrepareUartReply(tag) ==
    /\ ~sReportPending
    /\ sReportsInputReportPosition' =
           [sReportsInputReportPosition EXCEPT ![sCurrentReport] = 2]
    /\ IF CopiedWithin(tag.op)
       THEN /\ sReports' = [sReports EXCEPT ![sCurrentReport].head = tag,
                                            ![sCurrentReport].tail = tag]
            /\ sReportLengths' =
                   [sReportLengths EXCEPT ![sCurrentReport] = UartReplyLength(tag.op)]
            /\ sReportPending' = TRUE
            /\ IF tag.op = "badUart" THEN Halt("Bad UART subcommand")
                                     ELSE UNCHANGED halted
       ELSE /\ sReports' = [sReports EXCEPT ![sCurrentReport].head = tag]
            /\ Halt(IF FitsReport(UartReplyLength(tag.op)) THEN "overrun"
                                                          ELSE "Report Too Big")
            /\ UNCHANGED <<sReportLengths, sReportPending>>
    /\ UNCHANGED sCurrentReport

ReportClash ==
    /\ sReportPending
    /\ Halt("Report Clash")
    /\ UNCHANGED bufferVars

-----------------------------------------------------------------------------
(* The dispatch of usbFunctionWriteOutOrAbandon, one action per outcome.   *)
(* A halting handler never returns, so the driver's buffer stays occupied. *)
(* Rumble amplitudes and the command history touch no variable of this     *)
(* module and are left to their own modules.                               *)

Handled ==
    /\ halted' = "no"
    /\ rxReport' = NoTag
    /\ pc' = "body"

Stuck ==
    /\ halted' # "no"
    /\ UNCHANGED <<rxReport, pc>>

HandleStopInput(tag) ==
    /\ tag.op = "stopInput"
    /\ sInputReportsSuspended' = TRUE
    /\ UNCHANGED <<bufferVars, sRumbleEnabled, halted>>

HandleStartInput(tag) ==
    /\ tag.op = "startInput"
    /\ sInputReportsSuspended' = FALSE
    /\ UNCHANGED <<bufferVars, sRumbleEnabled, halted>>

HandleRegular(tag) ==
    /\ tag.op \in RegularOps
    /\ PrepareRegularReply(tag) \/ ReportClash
    /\ UNCHANGED modeVars

\* The vibration switch is set before the reply is prepared; the other UART
\* requests leave the modes alone.  A UART report is longer than ten bytes,
\* so the rumble decoder it falls through to never halts.
HandleUart(tag) ==
    /\ tag.op \in UartOps
    /\ sRumbleEnabled' = CASE tag.op = "rumbleOn" -> TRUE
                           [] tag.op = "rumbleOff" -> FALSE
                           [] OTHER -> sRumbleEnabled
    /\ IF PayloadOverruns(tag.op)
       THEN Halt("overrun") /\ UNCHANGED bufferVars
       ELSE PrepareUartReply(tag) \/ ReportClash
    /\ UNCHANGED sInputReportsSuspended

HandleRumble(tag) ==
    /\ tag.op \in {"rumble", "shortRumble"}
    /\ IF sRumbleEnabled /\ tag.op = "shortRumble"
       THEN Halt("Bad rumble length")
       ELSE UNCHANGED halted
    /\ UNCHANGED <<bufferVars, modeVars>>

\* An input report is prepared whatever is pending, suspended or not.
HandleZero(tag) ==
    /\ tag.op = "zero"
    /\ PrepareInputReport(tag)
    /\ UNCHANGED modeVars

HandleBad(tag) ==
    /\ tag.op \in {"badRegular", "badSpiRead", "badId"}
    /\ Halt(tag.op)
    /\ UNCHANGED <<bufferVars, modeVars>>

HandleOutputReport ==
    /\ pc = "poll"
    /\ halted = "no"
    /\ rxReport # NoTag
    /\ \/ HandleStopInput(rxReport)
       \/ HandleStartInput(rxReport)
       \/ HandleRegular(rxReport)
       \/ HandleUart(rxReport)
       \/ HandleRumble(rxReport)
       \/ HandleZero(rxReport)
       \/ HandleBad(rxReport)
    /\ Handled \/ Stuck
    /\ UNCHANGED <<transmitting, sUsbSuspended, txPacket, newSof, hostVars>>

NothingReceived ==
    /\ pc = "poll"
    /\ halted = "no"
    /\ rxReport = NoTag
    /\ pc' = "body"
    /\ UNCHANGED <<bufferVars, modeVars, transmitting, sUsbSuspended, halted,
                   rxReport, txPacket, newSof, hostVars>>

-----------------------------------------------------------------------------
(* transmitPacket.                                                         *)

\* Slip: a report without an input position gets one at its first byte.
FillsAnyReport(t, next) == t.cursor <= t.position /\ t.position < next

\* The input sub-report starts in the packet that ends before next.
FillsInput(t, next) ==
    /\ t.position # 0
    /\ t.cursor <= t.position
    /\ t.position < next

\* Slips: the report ends with its last byte, or with a short packet only.
EndsWithLastByte(t, size, next) == next = t.length
EndsShortOnly(t, size, next) == size < PacketSize

EndsReport(t, size, next) == size < PacketSize \/ next = sReportSize

\* Fill in the input sub-report if it starts in this packet, hand the packet
\* to the driver, and forget the report's length and position at its end.
SendPacket(t, reports, positions, lengths) ==
    LET remaining == t.length - t.cursor
        size == IF remaining <= PacketSize THEN remaining ELSE PacketSize
        next == t.cursor + size
        filled == IF FillsInput(t, next)
                  THEN [reports EXCEPT ![t.index].body = InputFor(reports[t.index].head)]
                  ELSE reports
        ends == EndsReport(t, size, next)
    IN  /\ sReports' = filled
        /\ txPacket' = PacketOf(filled[t.index], t.cursor, size)
        /\ transmitting' = [t EXCEPT !.cursor = next, !.active = ~ends]
        /\ sReportsInputReportPosition' =
               IF ends THEN [positions EXCEPT ![t.index] = 0] ELSE positions
        /\ sReportLengths' =
               IF ends THEN [lengths EXCEPT ![t.index] = 0] ELSE lengths

\* Slip: the cursor keeps its value from the report before.
PickedUpKeepingCursor(positions, lengths) ==
    [active   |-> TRUE,
     index    |-> sCurrentReport,
     length   |-> lengths[sCurrentReport],
     position |-> positions[sCurrentReport],
     cursor   |-> transmitting.cursor]

\* The statics as they are set when the current buffer is picked up.
PickedUp(positions, lengths) ==
    [active   |-> TRUE,
     index    |-> sCurrentReport,
     length   |-> lengths[sCurrentReport],
     position |-> positions[sCurrentReport],
     cursor   |-> 0]

\* Slip: replies go on being prepared in the buffer that is transmitted.
ClearWithoutSwap ==
    /\ sReportPending' = FALSE
    /\ UNCHANGED sCurrentReport

SwapBuffers ==
    /\ sCurrentReport' = (sCurrentReport + 1) % 2
    /\ sReportPending' = FALSE

ContinueReport ==
    /\ transmitting.active
    /\ SendPacket(transmitting, sReports, sReportsInputReportPosition, sReportLengths)
    /\ UNCHANGED <<sCurrentReport, sReportPending>>

StartPendingReport ==
    /\ ~transmitting.active
    /\ sReportPending
    /\ SendPacket(PickedUp(sReportsInputReportPosition, sReportLengths),
                  sReports, sReportsInputReportPosition, sReportLengths)
    /\ SwapBuffers

PeriodicReportWanted == ~sReportPending /\ ~sInputReportsSuspended

StartInputReport ==
    /\ ~transmitting.active
    /\ PeriodicReportWanted
    /\ LET positions == [sReportsInputReportPosition EXCEPT ![sCurrentReport] = 2]
           lengths == [sReportLengths EXCEPT ![sCurrentReport] = InputReportLength]
       IN  SendPacket(PickedUp(positions, lengths), WithInputHead(InputTag),
                      positions, lengths)
    /\ SwapBuffers

-----------------------------------------------------------------------------
(* The rest of loop, after usbPoll: a start of frame wakes the loop up,    *)
(* 4 ms without one put it to sleep.                                       *)

LoopBody ==
    /\ pc = "body"
    /\ halted = "no"
    /\ pc' = "poll"
    /\ newSof' = FALSE
    /\ UNCHANGED <<modeVars, halted, rxReport, hostVars>>

Awake ==
    /\ newSof \/ ~sUsbSuspended
    /\ sUsbSuspended' = FALSE

\* The endpoint is free and this frame is the one a packet is due in.
Transmit ==
    /\ LoopBody
    /\ Awake
    /\ txPacket = NoPacket
    /\ ContinueReport \/ StartPendingReport \/ StartInputReport

\* The endpoint is busy, the packet is due in a later frame, or there is
\* nothing to send.  LoopTiming models which frame it is.
NothingDue ==
    /\ LoopBody
    /\ Awake
    /\ UNCHANGED <<bufferVars, transmitting, txPacket>>

\* Slip: the prepared report survives the suspension.
KeepPendingReport == UNCHANGED sReportPending

ClearPendingReport == sReportPending' = FALSE

Sleep ==
    /\ LoopBody
    /\ ~newSof
    /\ sUsbSuspended \/ ~busActive
    /\ sUsbSuspended' = TRUE
    /\ ClearPendingReport
    /\ UNCHANGED <<sReports, sReportsInputReportPosition, sReportLengths,
                   sCurrentReport, transmitting, txPacket>>

-----------------------------------------------------------------------------
(* The Switch and the bus.                                                 *)

deviceVars == <<bufferVars, modeVars, transmitting, sUsbSuspended, pc, halted>>

StartOfFrame ==
    /\ busActive
    /\ ~newSof
    /\ newSof' = TRUE
    /\ UNCHANGED <<deviceVars, rxReport, txPacket, hostVars>>

HostSend(op) ==
    LET tag == [op |-> op, n |-> sent + 1]
    IN  /\ busActive
        /\ sent < MaxCommands
        /\ rxReport = NoTag
        /\ HostWaits /\ op \in AnsweredOps => awaiting = NoTag
        /\ sent' = sent + 1
        /\ rxReport' = tag
        /\ awaiting' = IF op \in AnsweredOps THEN tag ELSE awaiting
        /\ UNCHANGED <<deviceVars, txPacket, newSof, busActive, suspends, abandoned,
                       hostReport, received>>

\* The Switch polls endpoint 1; a short packet or the 64th byte ends the
\* transfer.  The reply it awaits is recognised by the head.
HostTakePacket ==
    LET report == Extend(hostReport, txPacket)
        complete == txPacket.size < PacketSize \/ report.length = sReportSize
    IN  /\ busActive
        /\ txPacket # NoPacket
        /\ txPacket' = NoPacket
        /\ hostReport' = IF complete THEN EmptyReport ELSE report
        /\ received' = IF complete THEN report ELSE received
        /\ awaiting' = IF complete /\ report.head = {awaiting} THEN NoTag ELSE awaiting
        /\ abandoned' = IF complete THEN abandoned \ report.head ELSE abandoned
        /\ UNCHANGED <<deviceVars, rxReport, newSof, busActive, suspends, sent>>

\* A Switch that suspends the bus waits no longer for the reply it was waiting
\* for.  A reply that was in transmission already may still come.
HostSuspend ==
    /\ busActive
    /\ suspends < MaxSuspends
    /\ busActive' = FALSE
    /\ suspends' = suspends + 1
    /\ awaiting' = NoTag
    /\ abandoned' = abandoned \cup ({awaiting} \ {NoTag})
    /\ UNCHANGED <<deviceVars, rxReport, txPacket, newSof, sent, hostReport, received>>

\* Resume signalling lasts 20 ms: by then the loop has noticed the silence,
\* handled what was left in the driver and been round to its end once more.
HostResume ==
    /\ ~busActive
    /\ sUsbSuspended
    /\ rxReport = NoTag
    /\ pc = "poll"
    /\ busActive' = TRUE
    /\ newSof' = TRUE
    /\ UNCHANGED <<deviceVars, rxReport, txPacket, suspends, sent, awaiting,
                   abandoned, hostReport, received>>

-----------------------------------------------------------------------------
Loop == HandleOutputReport \/ NothingReceived \/ Transmit \/ NothingDue \/ Sleep

Host ==
    \/ \E op \in Ops : HostSend(op)
    \/ HostTakePacket
    \/ HostSuspend
    \/ HostResume

Next == Loop \/ StartOfFrame \/ Host

Spec == Init /\ [][Next]_vars

\* The loop never blocks, frames keep coming while the bus is driven, the
\* Switch keeps polling endpoint 1, and a frame in which a packet is due comes
\* again and again, as does a look at the timer that finds the bus silent for
\* more than 4 ms (LoopTiming).  Nothing makes the Switch send or suspend.
Fairness ==
    /\ WF_vars(Loop)
    /\ SF_vars(Transmit)
    /\ SF_vars(Sleep)
    /\ WF_vars(StartOfFrame)
    /\ WF_vars(HostTakePacket)
    /\ SF_vars(HostResume)

FairSpec == Spec /\ Fairness

-----------------------------------------------------------------------------
(* Properties.                                                             *)

PacketType ==
    [at : 0..sReportSize, size : -1..PacketSize,
     head : SUBSET Tag, body : SUBSET Body, tail : SUBSET Tag]

ReportType ==
    [length : Int, head : SUBSET Tag, body : SUBSET Body, tail : SUBSET Tag]

\* Every variable holds a value the program can give it: the two buffers'
\* statics of main.cpp, transmitPacket's statics, and the two ends of the bus.
TypeOK ==
    /\ sReports \in [Index -> [head : Tag, body : Body, tail : Tag]]
    /\ sReportsInputReportPosition \in [Index -> {0, 2}]
    /\ sReportLengths \in [Index -> 0..sReportSize]
    /\ sCurrentReport \in Index
    /\ sReportPending \in BOOLEAN
    /\ sInputReportsSuspended \in BOOLEAN
    /\ sRumbleEnabled \in BOOLEAN
    /\ transmitting \in [active : BOOLEAN, index : Index, length : 0..sReportSize,
                         position : {0, 2}, cursor : 0..sReportSize]
    /\ sUsbSuspended \in BOOLEAN
    /\ pc \in {"poll", "body"}
    /\ halted \in HaltReasons
    /\ rxReport \in Tag
    /\ txPacket \in PacketType
    /\ newSof \in BOOLEAN
    /\ busActive \in BOOLEAN
    /\ suspends \in 0..MaxSuspends
    /\ sent \in 0..MaxCommands
    /\ awaiting \in Tag
    /\ abandoned \subseteq Tag
    /\ hostReport \in ReportType
    /\ received \in ReportType

\* A complete report, as the Switch should assemble it: one command's head,
\* payload and acknowledgement, and controller state read while that very
\* report was being transmitted.
CompleteReport(tag) ==
    [length |-> ReplyLength(tag.op),
     head   |-> {tag},
     body   |-> CASE tag.op = "handshake" -> {}
                  [] tag.op = "macInfo" -> {Payload(tag)}
                  [] OTHER -> {InputFor(tag)},
     tail   |-> IF tag.op \in UartOps THEN {tag} ELSE {}]

\* A Switch that waits for each reply never drives the adapter into haltStr6:
\* no prepared report is found where a reply is to be prepared ("Report
\* Clash", main.cpp:518 and 536), and no reply outgrows its buffer.
NeverHalts == halted = "no"

\* No reply is copied past the end of its report, nor put together past the end
\* of its own buffer: the check of its length ("Report Too Big", main.cpp:557)
\* comes before the copy.  True while the length it sees is that of the bytes
\* copied, which lengths that wrap are not (reads of 236 bytes and more).
RepliesWithinBuffers == halted # "overrun"

\* The report being transmitted is not in the buffer replies are prepared in
\* (main.cpp:989), so a command that arrives meanwhile cannot disturb it.
TransmittedBufferIsPrivate ==
    transmitting.active => transmitting.index # sCurrentReport

\* While a report is being transmitted, nothing but the filling in of its
\* input sub-report changes its buffer, length or input position.
TransmittedReportUntouched ==
    [][transmitting.active /\ transmitting'.active =>
          LET b == transmitting.index
          IN  /\ transmitting'.index = b
              /\ sReports'[b].head = sReports[b].head
              /\ sReports'[b].tail = sReports[b].tail
              /\ sReports'[b].body # sReports[b].body
                     => transmitting'.cursor # transmitting.cursor
              /\ sReportLengths'[b] = sReportLengths[b]
              /\ sReportsInputReportPosition'[b] = sReportsInputReportPosition[b]]_vars

\* transmitPacket never reads outside the report it picked up: the cursor
\* stays on a packet boundary within the report, so the remaining length does
\* not wrap around below zero and no packet runs past the 64-byte buffer.
CursorWithinReport ==
    /\ transmitting.active =>
           /\ transmitting.cursor <= transmitting.length
           /\ transmitting.cursor < sReportSize
           /\ transmitting.cursor % PacketSize = 0
    /\ txPacket.at + txPacket.size <= sReportSize

\* The packet in the endpoint is the next one of the transfer the Switch is
\* assembling: packets of two reports are never mixed, none is sent twice,
\* and every report ends in a way that the Switch recognises.
PacketsInOrder ==
    /\ txPacket # NoPacket => txPacket.at = hostReport.length
    /\ txPacket = NoPacket /\ transmitting.active
           => transmitting.cursor = hostReport.length
    /\ txPacket = NoPacket /\ ~transmitting.active => hostReport = EmptyReport

\* Every report the Switch receives is a complete report of one kind, with
\* fresh controller state where it should have some, even when the Switch
\* sends commands without waiting for replies.
ReceivedIntact ==
    received # EmptyReport =>
        \E tag \in received.head : received = CompleteReport(tag)

\* The pipeline implements the reply service: each command the Switch waits
\* on is answered by its own complete reply, once and eventually.
Service == INSTANCE ReplyService WITH
    Requests <- [op : AnsweredOps, n : 1..MaxCommands],
    None <- NoTag,
    Reply <- CompleteReport,
    InputReport <- CompleteReport(InputTag),
    NoReport <- EmptyReport,
    asked <- awaiting,
    forgotten <- abandoned,
    got <- received

ImplementsReplyService == Service!ServiceSpec

\* The reply to 80 01 carries the MAC address in its last six bytes
\* (main.cpp:694): what the Switch receives under its head is its payload.
MacReplyIntact ==
    \A tag \in received.head :
        tag.op = "macInfo" => received.body = {Payload(tag)}

=============================================================================
