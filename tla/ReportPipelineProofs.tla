------------------------ MODULE ReportPipelineProofs ------------------------
(***************************************************************************)
(* Theorems about ReportPipeline, for every set of operations, any number  *)
(* of commands and suspensions, any length of SPI reads, and a Switch that *)
(* waits for its replies or not.                                           *)
(***************************************************************************)
EXTENDS ReportPipeline, TLAPS

\* The type invariant is not inductive alone: that a packet's end stays
\* within the buffer needs the cursor to stay within the report.
PipelineInv ==
    /\ TypeOK
    /\ CursorWithinReport
    /\ TransmittedBufferIsPrivate

\* The lengths replies are prepared with fit the buffer, where the copy does;
\* and so does a copy that the check lets pass, unless the length of the
\* payload or of the reply has wrapped.
LEMMA ReplyLengths ==
    ASSUME NEW op \in UartOps
    PROVE  /\ UartReplyLength(op) \in 16..275
           /\ CopiedWithin(op) => UartReplyLength(op) \in 0..sReportSize
           /\ UartReplyLength(op) < 256 =>
                  /\ ~PayloadOverruns(op)
                  /\ FitsReport(UartReplyLength(op)) => CopiedWithin(op)
           /\ RegularReplyLength(op) \in 0..sReportSize
           /\ InputReportLength \in 0..sReportSize
<1>1. UartPayloadLength(op) \in 1..260
  BY ConstantsAssumption DEF ConstantsAssumption, UartPayloadLength
<1>2. /\ UartReplyLength(op) \in 16..275
      /\ UartReplyLength(op) = 15 + UartPayloadLength(op)
  BY <1>1 DEF UartReplyLength, SwitchReportSize
<1>3. UartReplyLength(op) < 256 => UartReplyLength(op) % 256 = UartReplyLength(op)
  BY <1>2
<1>4. CopiedWithin(op) => UartReplyLength(op) \in 0..sReportSize
  BY <1>2 DEF CopiedWithin, sReportSize
<1>5. ASSUME UartReplyLength(op) < 256
      PROVE  /\ ~PayloadOverruns(op)
             /\ FitsReport(UartReplyLength(op)) => CopiedWithin(op)
  BY <1>1, <1>2, <1>3, <1>5 DEF PayloadOverruns, FitsReport, CopiedWithin, sReportSize
<1>. QED
  BY <1>2, <1>4, <1>5 DEF RegularReplyLength, InputReportLength, SwitchReportSize, sReportSize

\* The tags that are written into buffers are tags.
LEMMA TagTypes ==
    /\ NoTag \in Tag
    /\ BlankTag \in Tag
    /\ InputTag \in Tag
    /\ \A tag \in Tag : Payload(tag) \in Body /\ InputFor(tag) \in Body
BY ConstantsAssumption
   DEF ConstantsAssumption, NoTag, BlankTag, InputTag, Tag, Payload, InputFor, Body

\* The empty packet and the empty report, as Init sets them, are typed.
LEMMA EmptyTypes ==
    /\ NoPacket \in PacketType
    /\ EmptyReport \in ReportType
BY DEF NoPacket, PacketType, EmptyReport, ReportType, sReportSize, PacketSize

\* The regions of a packet are typed by the buffer it is copied from.
LEMMA PacketTypes ==
    ASSUME NEW report \in [head : Tag, body : Body, tail : Tag],
           NEW at \in 0..sReportSize, NEW size \in 0..PacketSize
    PROVE  PacketOf(report, at, size) \in PacketType
<1>1. \A value, first, last : Covered(value, at, size, first, last) \subseteq {value}
  BY DEF Covered
<1>2. /\ Covered(report.head, at, size, 0, 1) \in SUBSET Tag
      /\ Covered(report.body, at, size, 2, 12) \in SUBSET Body
      /\ Covered(report.tail, at, size, 13, 63) \in SUBSET Tag
  BY DEF Covered
<1>. QED
  BY <1>2 DEF PacketOf, PacketType, PacketSize

\* The statics of main.cpp start out within the invariant.
LEMMA InitInv == Init => PipelineInv
<1>. SUFFICES ASSUME Init PROVE PipelineInv
  OBVIOUS
<1>1. TypeOK
  <2>1. sReports \in [Index -> [head : Tag, body : Body, tail : Tag]]
    BY TagTypes DEF Init
  <2>2. /\ sReportsInputReportPosition \in [Index -> {0, 2}]
        /\ sReportLengths \in [Index -> 0..sReportSize]
    BY DEF Init, sReportSize
  <2>3. transmitting \in [active : BOOLEAN, index : Index, length : 0..sReportSize,
                          position : {0, 2}, cursor : 0..sReportSize]
    BY DEF Init, Index, sReportSize
  <2>4. suspends \in 0..MaxSuspends /\ sent \in 0..MaxCommands
    BY ConstantsAssumption DEF Init, ConstantsAssumption
  <2>. QED
    BY <2>1, <2>2, <2>3, <2>4, TagTypes, EmptyTypes DEF Init, TypeOK, Index, HaltReasons
<1>2. CursorWithinReport /\ TransmittedBufferIsPrivate
  BY DEF Init, CursorWithinReport, TransmittedBufferIsPrivate, NoPacket, sReportSize
<1>. QED
  BY <1>1, <1>2 DEF PipelineInv

\* Sending a packet of a report within its buffer keeps the cursor in place.
LEMMA SendPacketInv ==
    ASSUME NEW t \in [active : BOOLEAN, index : Index, length : 0..sReportSize,
                      position : {0, 2}, cursor : 0..sReportSize],
           t.active, t.cursor <= t.length, t.cursor < sReportSize,
           t.cursor % PacketSize = 0,
           NEW reports \in [Index -> [head : Tag, body : Body, tail : Tag]],
           NEW positions \in [Index -> {0, 2}],
           NEW lengths \in [Index -> 0..sReportSize],
           SendPacket(t, reports, positions, lengths)
    PROVE  /\ sReports' \in [Index -> [head : Tag, body : Body, tail : Tag]]
           /\ sReportsInputReportPosition' \in [Index -> {0, 2}]
           /\ sReportLengths' \in [Index -> 0..sReportSize]
           /\ txPacket' \in PacketType
           /\ transmitting' \in [active : BOOLEAN, index : Index,
                                 length : 0..sReportSize,
                                 position : {0, 2}, cursor : 0..sReportSize]
           /\ transmitting'.index = t.index
           /\ CursorWithinReport'
<1>. DEFINE remaining == t.length - t.cursor
            size == IF remaining <= PacketSize THEN remaining ELSE PacketSize
            next == t.cursor + size
            filled == IF FillsInput(t, next)
                      THEN [reports EXCEPT ![t.index].body =
                                InputFor(reports[t.index].head)]
                      ELSE reports
            ends == EndsReport(t, size, next)
<1>1. /\ sReports' = filled
      /\ txPacket' = PacketOf(filled[t.index], t.cursor, size)
      /\ transmitting' = [t EXCEPT !.cursor = next, !.active = ~ends]
      /\ sReportsInputReportPosition' =
             IF ends THEN [positions EXCEPT ![t.index] = 0] ELSE positions
      /\ sReportLengths' = IF ends THEN [lengths EXCEPT ![t.index] = 0] ELSE lengths
  BY Zenon DEF SendPacket
<1>2. /\ size \in 0..PacketSize
      /\ next \in 0..sReportSize
      /\ next <= t.length
      /\ ~ends => next < sReportSize /\ next % PacketSize = 0
  BY DEF PacketSize, sReportSize, EndsReport
<1>3. filled \in [Index -> [head : Tag, body : Body, tail : Tag]]
  <2>. DEFINE report == reports[t.index]
  <2>1. report \in [head : Tag, body : Body, tail : Tag]
    OBVIOUS
  <2>2. InputFor(report.head) \in Body
    BY <2>1, TagTypes
  <2>3. [report EXCEPT !.body = InputFor(report.head)]
            \in [head : Tag, body : Body, tail : Tag]
    BY <2>1, <2>2
  <2>. QED
    BY <2>3
<1>4. txPacket' \in PacketType
  <2>. HIDE DEF size, next, filled, ends
  <2>. QED
    BY <1>1, <1>2, <1>3, PacketTypes
<1>5. transmitting' \in [active : BOOLEAN, index : Index, length : 0..sReportSize,
                         position : {0, 2}, cursor : 0..sReportSize]
  <2>1. ends \in BOOLEAN
    BY DEF EndsReport
  <2>. HIDE DEF size, next, ends
  <2>. QED
    BY <1>1, <1>2, <2>1
<1>6. sReportsInputReportPosition' \in [Index -> {0, 2}]
      /\ sReportLengths' \in [Index -> 0..sReportSize]
  <2>. HIDE DEF ends
  <2>. QED
    BY <1>1 DEF sReportSize
<1>7. CursorWithinReport'
  <2>1. /\ transmitting'.cursor = next
        /\ transmitting'.length = t.length
        /\ transmitting'.active => ~ends
    <3>. HIDE DEF next, ends
    <3>. QED
      BY <1>1
  <2>2. txPacket'.at = t.cursor /\ txPacket'.size = size
    <3>. HIDE DEF size, filled
    <3>. QED
      BY <1>1 DEF PacketOf
  <2>. HIDE DEF ends
  <2>. QED
    BY <1>2, <2>1, <2>2 DEF CursorWithinReport, sReportSize, PacketSize
<1>8. transmitting'.index = t.index
  <2>. HIDE DEF next, ends
  <2>. QED
    BY <1>1
<1>. QED
  BY <1>1, <1>3, <1>4, <1>5, <1>6, <1>7, <1>8

-----------------------------------------------------------------------------
(* Each step of Next keeps the invariant.                                  *)

\* Preparing a reply, or finding that it cannot be prepared, leaves the
\* buffers typed and does not move the current one.
LEMMA PrepareTypes ==
    ASSUME TypeOK, NEW tag \in Tag,
           \/ PrepareInputReport(tag)
           \/ tag.op \in RegularOps /\ PrepareRegularReply(tag)
           \/ tag.op \in UartOps /\ PrepareUartReply(tag)
           \/ ReportClash
    PROVE  /\ sReports' \in [Index -> [head : Tag, body : Body, tail : Tag]]
           /\ sReportsInputReportPosition' \in [Index -> {0, 2}]
           /\ sReportLengths' \in [Index -> 0..sReportSize]
           /\ sReportPending' \in BOOLEAN
           /\ halted' \in HaltReasons
           /\ sCurrentReport' = sCurrentReport
<1>. USE DEF TypeOK
<1>0. DEFINE report == sReports[sCurrentReport]
<1>a. /\ report \in [head : Tag, body : Body, tail : Tag]
      /\ Payload(tag) \in Body
  BY TagTypes
<1>1. CASE PrepareInputReport(tag)
  <2>1. [report EXCEPT !.head = tag] \in [head : Tag, body : Body, tail : Tag]
    BY <1>a
  <2>2. sReports' \in [Index -> [head : Tag, body : Body, tail : Tag]]
    BY <1>1, <2>1 DEF PrepareInputReport, WithInputHead
  <2>3. InputReportLength \in 0..sReportSize
    BY DEF InputReportLength, SwitchReportSize, sReportSize
  <2>. QED
    BY <1>1, <2>2, <2>3 DEF PrepareInputReport
<1>2. CASE tag.op \in RegularOps /\ PrepareRegularReply(tag)
  <2>1. \A body \in Body : [[report EXCEPT !.head = tag] EXCEPT !.body = body]
            \in [head : Tag, body : Body, tail : Tag]
    BY <1>a
  <2>2. sReports' \in [Index -> [head : Tag, body : Body, tail : Tag]]
    BY <1>2, <1>a, <2>1 DEF PrepareRegularReply
  <2>3. RegularReplyLength(tag.op) \in 0..sReportSize
    BY DEF RegularReplyLength, sReportSize
  <2>. QED
    BY <1>2, <2>2, <2>3 DEF PrepareRegularReply
<1>3. CASE tag.op \in UartOps /\ PrepareUartReply(tag)
  <2>1. /\ [report EXCEPT !.head = tag] \in [head : Tag, body : Body, tail : Tag]
        /\ [[report EXCEPT !.head = tag] EXCEPT !.tail = tag]
               \in [head : Tag, body : Body, tail : Tag]
    BY <1>a
  <2>2. sReports' \in [Index -> [head : Tag, body : Body, tail : Tag]]
    BY <1>3, <2>1 DEF PrepareUartReply
  <2>3. CopiedWithin(tag.op) => UartReplyLength(tag.op) \in 0..sReportSize
    BY <1>3, ReplyLengths
  <2>. QED
    BY <1>3, <2>2, <2>3 DEF PrepareUartReply, Halt, HaltReasons
<1>4. CASE ReportClash
  BY <1>4 DEF ReportClash, bufferVars, Halt, HaltReasons
<1>. QED
  BY <1>1, <1>2, <1>3, <1>4

\* usbFunctionWriteOutOrAbandon keeps the invariant, whatever it is handed:
\* it prepares in the current buffer and leaves transmitPacket's statics alone.
LEMMA HandleOutputReportInv ==
    ASSUME PipelineInv, HandleOutputReport PROVE PipelineInv'
<1>. USE DEF PipelineInv
<1>1. rxReport \in Tag
  BY DEF TypeOK
<1>2. /\ sReports' \in [Index -> [head : Tag, body : Body, tail : Tag]]
      /\ sReportsInputReportPosition' \in [Index -> {0, 2}]
      /\ sReportLengths' \in [Index -> 0..sReportSize]
      /\ sReportPending' \in BOOLEAN
      /\ halted' \in HaltReasons
      /\ sCurrentReport' = sCurrentReport
  <2>1. CASE \/ HandleStopInput(rxReport) \/ HandleStartInput(rxReport)
             \/ HandleRumble(rxReport) \/ HandleBad(rxReport)
    BY <2>1 DEF HandleStopInput, HandleStartInput, HandleRumble, HandleBad,
                bufferVars, Halt, HaltReasons, TypeOK
  <2>2. CASE HandleRegular(rxReport) \/ HandleUart(rxReport) \/ HandleZero(rxReport)
    <3>1. CASE HandleUart(rxReport) /\ PayloadOverruns(rxReport.op)
      BY <3>1 DEF HandleUart, bufferVars, Halt, HaltReasons, TypeOK
    <3>2. CASE \/ HandleRegular(rxReport) \/ HandleZero(rxReport)
               \/ HandleUart(rxReport) /\ ~PayloadOverruns(rxReport.op)
      BY <1>1, <3>2, PrepareTypes DEF HandleRegular, HandleUart, HandleZero
    <3>. QED
      BY <2>2, <3>1, <3>2
  <2>. QED
    BY <2>1, <2>2 DEF HandleOutputReport
<1>3. sInputReportsSuspended' \in BOOLEAN /\ sRumbleEnabled' \in BOOLEAN
  BY DEF HandleOutputReport, HandleStopInput, HandleStartInput, HandleRegular,
         HandleUart, HandleRumble, HandleZero, HandleBad, modeVars, TypeOK
<1>4. rxReport' \in Tag /\ pc' \in {"poll", "body"}
  BY TagTypes DEF HandleOutputReport, Handled, Stuck, TypeOK
<1>5. UNCHANGED <<transmitting, sUsbSuspended, txPacket, newSof, hostVars>>
  BY DEF HandleOutputReport
<1>6. TypeOK'
  BY <1>2, <1>3, <1>4, <1>5 DEF TypeOK, hostVars
<1>. QED
  BY <1>2, <1>5, <1>6 DEF CursorWithinReport, TransmittedBufferIsPrivate

\* Picking up a report and sending its first packet: the current buffer is
\* now the other one.
LEMMA StartReportInv ==
    ASSUME TypeOK,
           NEW reports \in [Index -> [head : Tag, body : Body, tail : Tag]],
           NEW positions \in [Index -> {0, 2}],
           NEW lengths \in [Index -> 0..sReportSize],
           SendPacket(PickedUp(positions, lengths), reports, positions, lengths),
           SwapBuffers
    PROVE  /\ sReports' \in [Index -> [head : Tag, body : Body, tail : Tag]]
           /\ sReportsInputReportPosition' \in [Index -> {0, 2}]
           /\ sReportLengths' \in [Index -> 0..sReportSize]
           /\ txPacket' \in PacketType
           /\ transmitting' \in [active : BOOLEAN, index : Index,
                                 length : 0..sReportSize,
                                 position : {0, 2}, cursor : 0..sReportSize]
           /\ sReportPending' \in BOOLEAN
           /\ sCurrentReport' \in Index
           /\ CursorWithinReport'
           /\ TransmittedBufferIsPrivate'
           /\ transmitting'.index = sCurrentReport
<1>. DEFINE t == PickedUp(positions, lengths)
<1>1. /\ t \in [active : BOOLEAN, index : Index, length : 0..sReportSize,
                position : {0, 2}, cursor : 0..sReportSize]
      /\ t.active
      /\ t.index = sCurrentReport
      /\ t.cursor = 0
      /\ t.length \in 0..sReportSize
  BY DEF PickedUp, TypeOK, sReportSize
<1>2. t.cursor <= t.length /\ t.cursor < sReportSize /\ t.cursor % PacketSize = 0
  BY <1>1 DEF sReportSize, PacketSize
<1>3. /\ sCurrentReport' \in Index
      /\ sCurrentReport' # sCurrentReport
      /\ sReportPending' \in BOOLEAN
  <2>1. sCurrentReport' = (sCurrentReport + 1) % 2 /\ sReportPending' = FALSE
    BY DEF SwapBuffers
  <2>2. sCurrentReport = 0 \/ sCurrentReport = 1
    BY DEF TypeOK, Index
  <2>3. (0 + 1) % 2 = 1 /\ (1 + 1) % 2 = 0
    OBVIOUS
  <2>4. \/ sCurrentReport = 0 /\ sCurrentReport' = 1
        \/ sCurrentReport = 1 /\ sCurrentReport' = 0
    BY <2>1, <2>2, <2>3
  <2>5. sCurrentReport' \in Index /\ sCurrentReport' # sCurrentReport
    BY <2>4 DEF Index
  <2>6. sReportPending' \in BOOLEAN
    BY <2>1, Zenon
  <2>. QED
    BY <2>5, <2>6
<1>5. SendPacket(t, reports, positions, lengths)
  OBVIOUS
<1>. HIDE DEF t
<1>4. /\ transmitting'.index = sCurrentReport
      /\ sReports' \in [Index -> [head : Tag, body : Body, tail : Tag]]
      /\ sReportsInputReportPosition' \in [Index -> {0, 2}]
      /\ sReportLengths' \in [Index -> 0..sReportSize]
      /\ txPacket' \in PacketType
      /\ transmitting' \in [active : BOOLEAN, index : Index,
                            length : 0..sReportSize,
                            position : {0, 2}, cursor : 0..sReportSize]
      /\ CursorWithinReport'
  BY <1>1, <1>2, <1>5, SendPacketInv
<1>. QED
  BY <1>3, <1>4 DEF TransmittedBufferIsPrivate

\* transmitPacket keeps the invariant, in each of its three cases.
LEMMA TransmitInv ==
    ASSUME PipelineInv, Transmit PROVE PipelineInv'
<1>. USE DEF PipelineInv
<1>. DEFINE Typed ==
              /\ sReports' \in [Index -> [head : Tag, body : Body, tail : Tag]]
              /\ sReportsInputReportPosition' \in [Index -> {0, 2}]
              /\ sReportLengths' \in [Index -> 0..sReportSize]
              /\ txPacket' \in PacketType
              /\ transmitting' \in [active : BOOLEAN, index : Index,
                                    length : 0..sReportSize,
                                    position : {0, 2}, cursor : 0..sReportSize]
              /\ sReportPending' \in BOOLEAN
              /\ sCurrentReport' \in Index
              /\ CursorWithinReport'
              /\ TransmittedBufferIsPrivate'
<1>1. Typed
  <2>1. CASE ContinueReport
    <3>1. transmitting'.index = transmitting.index
          /\ SendPacket(transmitting, sReports, sReportsInputReportPosition,
                        sReportLengths)
      BY <2>1, SendPacketInv DEF ContinueReport, CursorWithinReport, TypeOK
    <3>. QED
      BY <2>1, <3>1, SendPacketInv
         DEF ContinueReport, CursorWithinReport, TransmittedBufferIsPrivate, TypeOK
  <2>3. CASE StartPendingReport
    BY <2>3, StartReportInv DEF StartPendingReport, TypeOK
  <2>4. CASE StartInputReport
    <3>. DEFINE positions == [sReportsInputReportPosition EXCEPT ![sCurrentReport] = 2]
                lengths == [sReportLengths EXCEPT ![sCurrentReport] = InputReportLength]
    <3>1. /\ SendPacket(PickedUp(positions, lengths), WithInputHead(InputTag),
                        positions, lengths)
          /\ SwapBuffers
      BY <2>4 DEF StartInputReport
    <3>2. /\ positions \in [Index -> {0, 2}]
          /\ lengths \in [Index -> 0..sReportSize]
      BY DEF TypeOK, InputReportLength, SwitchReportSize, sReportSize
    <3>3. WithInputHead(InputTag) \in [Index -> [head : Tag, body : Body, tail : Tag]]
      <4>. DEFINE report == sReports[sCurrentReport]
      <4>1. [report EXCEPT !.head = InputTag] \in [head : Tag, body : Body, tail : Tag]
        BY TagTypes DEF TypeOK
      <4>. QED
        BY <4>1 DEF WithInputHead, TypeOK
    <3>. HIDE DEF positions, lengths
    <3>. QED
      BY <3>1, <3>2, <3>3, StartReportInv
  <2>. QED
    BY <2>1, <2>3, <2>4 DEF Transmit
<1>2. /\ pc' = "poll"
      /\ newSof' = FALSE
      /\ sUsbSuspended' = FALSE
      /\ UNCHANGED <<modeVars, halted, rxReport, hostVars>>
  BY DEF Transmit, LoopBody, Awake
<1>3. TypeOK'
  BY <1>1, <1>2 DEF TypeOK, modeVars, hostVars
<1>. QED
  BY <1>1, <1>3


\* So does everything the Switch does.
LEMMA HostInv ==
    ASSUME PipelineInv, Host PROVE PipelineInv'
<1>. USE DEF PipelineInv
<1>1. ASSUME NEW op \in Ops, HostSend(op) PROVE PipelineInv'
  <2>1. [op |-> op, n |-> sent + 1] \in Tag /\ sent + 1 \in 0..MaxCommands
    BY <1>1, ConstantsAssumption DEF HostSend, ConstantsAssumption, Tag, TypeOK
  <2>2. rxReport' \in Tag /\ sent' \in 0..MaxCommands /\ awaiting' \in Tag
    BY <1>1, <2>1 DEF HostSend, TypeOK
  <2>3. UNCHANGED <<deviceVars, txPacket, newSof, busActive, suspends, abandoned,
                    hostReport, received>>
    BY <1>1 DEF HostSend
  <2>. QED
    BY <2>2, <2>3 DEF deviceVars, bufferVars, modeVars, TypeOK, CursorWithinReport,
                      TransmittedBufferIsPrivate
<1>2. CASE HostTakePacket
  <2>1. Extend(hostReport, txPacket) \in ReportType
    <3>1. /\ hostReport.length \in Int
          /\ txPacket.size \in Int
          /\ hostReport.head \subseteq Tag /\ txPacket.head \subseteq Tag
          /\ hostReport.body \subseteq Body /\ txPacket.body \subseteq Body
          /\ hostReport.tail \subseteq Tag /\ txPacket.tail \subseteq Tag
      BY DEF TypeOK, ReportType, PacketType, PacketSize
    <3>. QED
      BY <3>1 DEF Extend, ReportType
  <2>2. /\ txPacket' = NoPacket
        /\ hostReport' \in ReportType
        /\ received' \in ReportType
        /\ awaiting' \in Tag
        /\ abandoned' \subseteq Tag
    BY <1>2, <2>1, TagTypes, EmptyTypes DEF HostTakePacket, TypeOK
  <2>3. UNCHANGED <<deviceVars, rxReport, newSof, busActive, suspends, sent>>
    BY <1>2 DEF HostTakePacket
  <2>4. TypeOK'
    BY <2>2, <2>3, EmptyTypes DEF deviceVars, bufferVars, modeVars, TypeOK
  <2>5. txPacket'.at + txPacket'.size <= sReportSize
    BY <2>2 DEF NoPacket, sReportSize
  <2>. QED
    BY <2>3, <2>4, <2>5 DEF deviceVars, bufferVars, CursorWithinReport,
                            TransmittedBufferIsPrivate
<1>3. CASE HostSuspend
  <2>1. suspends' \in 0..MaxSuspends
    BY <1>3, ConstantsAssumption DEF HostSuspend, ConstantsAssumption, TypeOK
  <2>. QED
    BY <1>3, <2>1, TagTypes
       DEF HostSuspend, deviceVars, bufferVars, modeVars, TypeOK,
           CursorWithinReport, TransmittedBufferIsPrivate
<1>4. CASE HostResume
  BY <1>4 DEF HostResume, deviceVars, bufferVars, modeVars, TypeOK,
              CursorWithinReport, TransmittedBufferIsPrivate
<1>. QED
  BY <1>1, <1>2, <1>3, <1>4 DEF Host

\* The invariant is inductive: every step of the loop, of the bus and of the
\* Switch keeps it.
LEMMA NextInv == PipelineInv /\ [Next]_vars => PipelineInv'
<1>. SUFFICES ASSUME PipelineInv, [Next]_vars PROVE PipelineInv'
  OBVIOUS
<1>. USE DEF PipelineInv
<1>1. CASE HandleOutputReport
  BY <1>1, HandleOutputReportInv
<1>2. CASE NothingReceived
  BY <1>2 DEF NothingReceived, bufferVars, modeVars, hostVars, TypeOK,
              CursorWithinReport, TransmittedBufferIsPrivate
<1>3. CASE Transmit
  BY <1>3, TransmitInv
<1>4. CASE NothingDue
  BY <1>4 DEF NothingDue, LoopBody, Awake, bufferVars, modeVars, hostVars, TypeOK,
              CursorWithinReport, TransmittedBufferIsPrivate
<1>5. CASE Sleep
  BY <1>5 DEF Sleep, LoopBody, ClearPendingReport, modeVars, hostVars, TypeOK,
              CursorWithinReport, TransmittedBufferIsPrivate
<1>6. CASE StartOfFrame
  BY <1>6 DEF StartOfFrame, deviceVars, bufferVars, modeVars, hostVars, TypeOK,
              CursorWithinReport, TransmittedBufferIsPrivate
<1>7. CASE Host
  BY <1>7, HostInv
<1>8. CASE UNCHANGED vars
  BY <1>8 DEF vars, bufferVars, modeVars, hostVars, TypeOK,
              CursorWithinReport, TransmittedBufferIsPrivate
<1>. QED
  BY <1>1, <1>2, <1>3, <1>4, <1>5, <1>6, <1>7, <1>8 DEF Next, Loop

\* The inductive invariant holds throughout: types, the cursor's bounds and
\* the privacy of the buffer in transmission (transmitPacket), together.
THEOREM Invariance == Spec => []PipelineInv
<1>. QED
  BY InitInv, NextInv, PTL DEF Spec

\* The output report in the driver is one the Switch uses.
LEMMA OpsUsed == Spec => [](rxReport = NoTag \/ rxReport.op \in Ops)
<1>1. Init => rxReport = NoTag \/ rxReport.op \in Ops
  BY DEF Init
<1>2. /\ rxReport = NoTag \/ rxReport.op \in Ops
      /\ [Next]_vars
      => (rxReport = NoTag \/ rxReport.op \in Ops)'
  <2>. SUFFICES ASSUME rxReport = NoTag \/ rxReport.op \in Ops, [Next]_vars
                PROVE  (rxReport = NoTag \/ rxReport.op \in Ops)'
    OBVIOUS
  <2>1. CASE HandleOutputReport
    BY <2>1 DEF HandleOutputReport, Handled, Stuck
  <2>2. ASSUME NEW op \in Ops, HostSend(op) PROVE (rxReport = NoTag \/ rxReport.op \in Ops)'
    BY <2>2 DEF HostSend
  <2>3. CASE UNCHANGED rxReport
    BY <2>3
  <2>. QED
    BY <2>1, <2>2, <2>3
       DEF Next, Loop, Host, NothingReceived, Transmit, NothingDue, Sleep, LoopBody,
           StartOfFrame, HostTakePacket, HostSuspend, HostResume, vars
<1>. QED
  BY <1>1, <1>2, PTL DEF Spec

\* No length that the Switch asks for wraps: reportLength's eight bits hold it.
LengthsHeld == \A op \in Ops \cap UartOps : UartReplyLength(op) < 256

\* The check of a reply's length (main.cpp:557) keeps every copy within its
\* report, and the SPI payload is within its own buffer (579-597), for every
\* length but those that wrap the eight bits of the sum: 236 bytes and more.
\* Of these it is false, and they are read: section 4 of the README.
THEOREM RepliesFit == LengthsHeld => (Spec => []RepliesWithinBuffers)
<1>. SUFFICES ASSUME LengthsHeld PROVE Spec => []RepliesWithinBuffers
  OBVIOUS
<1>1. Init => RepliesWithinBuffers
  BY DEF Init, RepliesWithinBuffers
<1>2. /\ rxReport = NoTag \/ rxReport.op \in Ops
      /\ RepliesWithinBuffers
      /\ [Next]_vars
      => RepliesWithinBuffers'
  <2>. SUFFICES ASSUME rxReport = NoTag \/ rxReport.op \in Ops,
                       RepliesWithinBuffers, [Next]_vars
                PROVE  RepliesWithinBuffers'
    OBVIOUS
  <2>1. CASE HandleOutputReport
    <3>1. rxReport.op \in Ops
      BY <2>1 DEF HandleOutputReport
    <3>2. CASE HandleUart(rxReport)
      <4>1. rxReport.op \in UartOps /\ UartReplyLength(rxReport.op) < 256
        BY <3>1, <3>2 DEF HandleUart, LengthsHeld
      <4>2. /\ ~PayloadOverruns(rxReport.op)
            /\ FitsReport(UartReplyLength(rxReport.op)) => CopiedWithin(rxReport.op)
        BY <4>1, ReplyLengths
      <4>. QED
        BY <3>2, <4>2
           DEF HandleUart, PrepareUartReply, ReportClash, Halt, RepliesWithinBuffers
    <3>3. CASE HandleRegular(rxReport) \/ HandleZero(rxReport)
      BY <3>3 DEF HandleRegular, HandleZero, PrepareRegularReply, PrepareInputReport,
                  ReportClash, Halt, RepliesWithinBuffers
    <3>4. CASE HandleRumble(rxReport) \/ HandleBad(rxReport)
      BY <3>4 DEF HandleRumble, HandleBad, Halt, RepliesWithinBuffers
    <3>5. CASE HandleStopInput(rxReport) \/ HandleStartInput(rxReport)
      BY <3>5 DEF HandleStopInput, HandleStartInput, RepliesWithinBuffers
    <3>. QED
      BY <2>1, <3>2, <3>3, <3>4, <3>5 DEF HandleOutputReport
  <2>2. CASE NothingReceived \/ NothingDue \/ Sleep \/ Transmit
    BY <2>2 DEF NothingReceived, NothingDue, Sleep, Transmit, LoopBody, RepliesWithinBuffers
  <2>3. CASE StartOfFrame \/ Host \/ UNCHANGED vars
    BY <2>3 DEF StartOfFrame, Host, HostSend, HostTakePacket, HostSuspend, HostResume,
                deviceVars, vars, RepliesWithinBuffers
  <2>. QED
    BY <2>1, <2>2, <2>3 DEF Next, Loop
<1>. QED
  BY <1>1, <1>2, OpsUsed, PTL DEF Spec

\* transmitPacket's cursor arithmetic stays within the 64-byte buffer.
THEOREM CursorSafe == Spec => []CursorWithinReport
<1>. QED
  BY Invariance, PTL DEF PipelineInv

\* Replies are never prepared in the buffer that is being transmitted.
THEOREM BufferPrivacy == Spec => []TransmittedBufferIsPrivate
<1>. QED
  BY Invariance, PTL DEF PipelineInv

-----------------------------------------------------------------------------
(* What happens to the report in transmission.                             *)

Untouched(b) ==
    /\ transmitting'.index = b
    /\ sReports'[b].head = sReports[b].head
    /\ sReports'[b].tail = sReports[b].tail
    /\ sReports'[b].body # sReports[b].body
           => transmitting'.cursor # transmitting.cursor
    /\ sReportLengths'[b] = sReportLengths[b]
    /\ sReportsInputReportPosition'[b] = sReportsInputReportPosition[b]

\* A handler writes to no buffer but the current one.
LEMMA HandlerWritesCurrent ==
    ASSUME TypeOK, HandleOutputReport,
           NEW b \in Index, b # sCurrentReport
    PROVE  /\ sReports'[b] = sReports[b]
           /\ sReportLengths'[b] = sReportLengths[b]
           /\ sReportsInputReportPosition'[b] = sReportsInputReportPosition[b]
<1>. USE DEF TypeOK
<1>1. CASE UNCHANGED bufferVars
  BY <1>1 DEF bufferVars
<1>2. CASE PrepareInputReport(rxReport)
  BY <1>2 DEF PrepareInputReport, WithInputHead
<1>3. CASE PrepareRegularReply(rxReport)
  BY <1>3 DEF PrepareRegularReply
<1>4. CASE PrepareUartReply(rxReport)
  BY <1>4 DEF PrepareUartReply
<1>5. \/ UNCHANGED bufferVars \/ PrepareInputReport(rxReport)
      \/ PrepareRegularReply(rxReport) \/ PrepareUartReply(rxReport)
  BY DEF HandleOutputReport, HandleStopInput, HandleStartInput, HandleRegular,
         HandleUart, HandleRumble, HandleZero, HandleBad, ReportClash
<1>. QED
  BY <1>1, <1>2, <1>3, <1>4, <1>5

\* The next packet of a report that does not end with it.
LEMMA ContinueUntouched ==
    ASSUME PipelineInv, ContinueReport, transmitting'.active
    PROVE  Untouched(transmitting.index)
<1>. DEFINE t == transmitting
            remaining == t.length - t.cursor
            size == IF remaining <= PacketSize THEN remaining ELSE PacketSize
            next == t.cursor + size
            filled == IF FillsInput(t, next)
                      THEN [sReports EXCEPT ![t.index].body =
                                InputFor(sReports[t.index].head)]
                      ELSE sReports
            ends == EndsReport(t, size, next)
<1>1. /\ sReports' = filled
      /\ transmitting' = [t EXCEPT !.cursor = next, !.active = ~ends]
      /\ sReportsInputReportPosition' =
             IF ends THEN [sReportsInputReportPosition EXCEPT ![t.index] = 0]
                     ELSE sReportsInputReportPosition
      /\ sReportLengths' = IF ends THEN [sReportLengths EXCEPT ![t.index] = 0]
                                   ELSE sReportLengths
  BY Zenon DEF ContinueReport, SendPacket
<1>2. /\ t \in [active : BOOLEAN, index : Index, length : 0..sReportSize,
                position : {0, 2}, cursor : 0..sReportSize]
      /\ sReports \in [Index -> [head : Tag, body : Body, tail : Tag]]
  BY DEF PipelineInv, TypeOK
<1>3. /\ transmitting'.index = t.index
      /\ transmitting'.cursor = next
      /\ ~ends
  <2>. HIDE DEF next, ends
  <2>. QED
    BY <1>1, <1>2
<1>4. /\ sReports'[t.index].head = sReports[t.index].head
      /\ sReports'[t.index].tail = sReports[t.index].tail
      /\ ~FillsInput(t, next) => sReports'[t.index].body = sReports[t.index].body
  <2>. HIDE DEF next
  <2>. QED
    BY <1>1, <1>2
<1>5. FillsInput(t, next) => next # t.cursor
  BY <1>2 DEF FillsInput, sReportSize, PacketSize
<1>. QED
  BY <1>1, <1>3, <1>4, <1>5 DEF Untouched

\* The buffer, length and input position of the report in transmission are
\* changed by nothing but the filling in of its input sub-report.
THEOREM InFlightUntouched == Spec => TransmittedReportUntouched
<1>1. ASSUME PipelineInv, [Next]_vars, transmitting.active, transmitting'.active
      PROVE  Untouched(transmitting.index)
  <2>. USE <1>1
  <2>1. transmitting.index \in Index /\ transmitting.index # sCurrentReport
    BY DEF PipelineInv, TypeOK, TransmittedBufferIsPrivate
  <2>2. CASE HandleOutputReport
    <3>1. UNCHANGED transmitting
      BY <2>2 DEF HandleOutputReport
    <3>. QED
      BY <2>1, <2>2, <3>1, HandlerWritesCurrent DEF PipelineInv, Untouched
  <2>3. CASE Transmit
    <3>1. ContinueReport
      BY <2>3 DEF Transmit, StartPendingReport, StartInputReport
    <3>. QED
      BY <3>1, ContinueUntouched
  <2>4. ASSUME UNCHANGED <<sReports, sReportsInputReportPosition, sReportLengths,
                           transmitting>>
        PROVE  Untouched(transmitting.index)
    BY <2>4 DEF Untouched
  <2>5. CASE NothingReceived \/ NothingDue \/ Sleep \/ StartOfFrame \/ Host
             \/ UNCHANGED vars
    BY <2>4, <2>5 DEF NothingReceived, NothingDue, Sleep, StartOfFrame, Host,
       HostSend, HostTakePacket, HostSuspend, HostResume, deviceVars, bufferVars, vars
  <2>. QED
    BY <2>2, <2>3, <2>5 DEF Next, Loop
<1>2. PipelineInv /\ [Next]_vars =>
          [transmitting.active /\ transmitting'.active =>
               LET b == transmitting.index
               IN  /\ transmitting'.index = b
                   /\ sReports'[b].head = sReports[b].head
                   /\ sReports'[b].tail = sReports[b].tail
                   /\ sReports'[b].body # sReports[b].body
                          => transmitting'.cursor # transmitting.cursor
                   /\ sReportLengths'[b] = sReportLengths[b]
                   /\ sReportsInputReportPosition'[b]
                          = sReportsInputReportPosition[b]]_vars
  BY <1>1 DEF Untouched
<1>. QED
  BY <1>2, Invariance, PTL DEF Spec, TransmittedReportUntouched

-----------------------------------------------------------------------------
(* Packets in order.                                                       *)
\* The endpoint's packet continues what the Switch is assembling, and
\* transmitPacket goes on after it exactly if the Switch does.
OrderInv ==
    /\ txPacket # NoPacket =>
           /\ txPacket.at = hostReport.length
           /\ txPacket.size \in 0..PacketSize
           /\ transmitting.active <=>
                  txPacket.size = PacketSize /\ txPacket.at + txPacket.size # sReportSize
           /\ transmitting.active => transmitting.cursor = txPacket.at + txPacket.size
    /\ txPacket = NoPacket =>
           IF transmitting.active THEN transmitting.cursor = hostReport.length
                                  ELSE hostReport = EmptyReport

\* Whether a packet ends its report, as SendPacket and the Switch decide it.
LEMMA SendPacketOrder ==
    ASSUME NEW t \in [active : BOOLEAN, index : Index, length : 0..sReportSize,
                      position : {0, 2}, cursor : 0..sReportSize],
           t.cursor <= t.length, t.cursor = hostReport.length,
           NEW reports, NEW positions, NEW lengths,
           SendPacket(t, reports, positions, lengths),
           UNCHANGED hostReport
    PROVE  OrderInv' /\ txPacket' # NoPacket
<1>. DEFINE remaining == t.length - t.cursor
            size == IF remaining <= PacketSize THEN remaining ELSE PacketSize
            next == t.cursor + size
            filled == IF FillsInput(t, next)
                      THEN [reports EXCEPT ![t.index].body =
                                InputFor(reports[t.index].head)]
                      ELSE reports
            ends == EndsReport(t, size, next)
<1>1. /\ txPacket' = PacketOf(filled[t.index], t.cursor, size)
      /\ transmitting' = [t EXCEPT !.cursor = next, !.active = ~ends]
  BY Zenon DEF SendPacket
<1>2. size \in 0..PacketSize
  BY DEF PacketSize, sReportSize
<1>3. ~ends <=> size = PacketSize /\ next # sReportSize
  BY <1>2 DEF EndsReport, PacketSize, sReportSize
<1>. HIDE DEF ends, filled, size
<1>4. txPacket'.at = t.cursor /\ txPacket'.size = size
  BY <1>1 DEF PacketOf
<1>5. transmitting'.cursor = next /\ (transmitting'.active <=> ~ends)
  <2>. HIDE DEF next
  <2>. QED
    BY <1>1
<1>6. txPacket' # NoPacket
  BY <1>2, <1>4 DEF NoPacket, PacketSize
<1>. QED
  BY <1>2, <1>3, <1>4, <1>5, <1>6 DEF OrderInv

\* Each step of Next keeps the packets in order.
LEMMA OrderInvNext == PipelineInv /\ OrderInv /\ [Next]_vars => OrderInv'
<1>. SUFFICES ASSUME PipelineInv, OrderInv, [Next]_vars PROVE OrderInv'
  OBVIOUS
<1>0. transmitting \in [active : BOOLEAN, index : Index, length : 0..sReportSize,
                        position : {0, 2}, cursor : 0..sReportSize]
  BY DEF PipelineInv, TypeOK
<1>1. CASE Transmit
  <2>1. txPacket = NoPacket /\ UNCHANGED hostReport
    BY <1>1 DEF Transmit, LoopBody, hostVars
  <2>2. CASE ContinueReport
    <3>1. transmitting.cursor = hostReport.length /\ transmitting.cursor <= transmitting.length
      BY <2>1, <2>2 DEF ContinueReport, OrderInv, PipelineInv, CursorWithinReport
    <3>. QED
      BY <1>0, <2>1, <2>2, <3>1, SendPacketOrder DEF ContinueReport
  <2>3. ASSUME ~transmitting.active, NEW reports, NEW positions \in [Index -> {0, 2}],
               NEW lengths \in [Index -> 0..sReportSize],
               SendPacket(PickedUp(positions, lengths), reports, positions, lengths)
        PROVE  OrderInv'
    <3>. DEFINE t == PickedUp(positions, lengths)
    <3>1. /\ t \in [active : BOOLEAN, index : Index, length : 0..sReportSize,
                    position : {0, 2}, cursor : 0..sReportSize]
          /\ t.cursor = 0 /\ t.length \in 0..sReportSize
      BY DEF PickedUp, PipelineInv, TypeOK, sReportSize
    <3>2. t.cursor <= t.length /\ t.cursor = hostReport.length
      BY <2>1, <2>3, <3>1 DEF OrderInv, EmptyReport, sReportSize
    <3>3. SendPacket(t, reports, positions, lengths)
      BY <2>3
    <3>. HIDE DEF t
    <3>. QED
      BY <2>1, <3>1, <3>2, <3>3, SendPacketOrder
  <2>4. CASE StartPendingReport
    BY <2>3, <2>4 DEF StartPendingReport, PipelineInv, TypeOK
  <2>5. CASE StartInputReport
    <3>. DEFINE positions == [sReportsInputReportPosition EXCEPT ![sCurrentReport] = 2]
                lengths == [sReportLengths EXCEPT ![sCurrentReport] = InputReportLength]
    <3>1. /\ SendPacket(PickedUp(positions, lengths), WithInputHead(InputTag),
                        positions, lengths)
          /\ ~transmitting.active
      BY <2>5 DEF StartInputReport
    <3>2. positions \in [Index -> {0, 2}] /\ lengths \in [Index -> 0..sReportSize]
      BY DEF PipelineInv, TypeOK, InputReportLength, SwitchReportSize, sReportSize
    <3>. HIDE DEF positions, lengths
    <3>. QED
      BY <2>3, <3>1, <3>2
  <2>. QED
    BY <1>1, <2>2, <2>4, <2>5 DEF Transmit
<1>2. CASE HostTakePacket
  <2>. DEFINE complete == txPacket.size < PacketSize
                              \/ hostReport.length + txPacket.size = sReportSize
  <2>1. /\ txPacket # NoPacket /\ txPacket' = NoPacket /\ UNCHANGED transmitting
        /\ hostReport' = IF complete THEN EmptyReport ELSE Extend(hostReport, txPacket)
    BY <1>2 DEF HostTakePacket, Extend, deviceVars
  <2>2. /\ txPacket.at = hostReport.length
        /\ txPacket.size \in 0..PacketSize
        /\ transmitting.active <=>
               txPacket.size = PacketSize /\ txPacket.at + txPacket.size # sReportSize
        /\ transmitting.active => transmitting.cursor = txPacket.at + txPacket.size
    BY <2>1 DEF OrderInv
  <2>3. complete <=> ~transmitting.active
    BY <2>2 DEF PacketSize
  <2>4. CASE transmitting.active
    BY <2>1, <2>2, <2>3, <2>4 DEF OrderInv, Extend
  <2>5. CASE ~transmitting.active
    BY <2>1, <2>3, <2>5 DEF OrderInv
  <2>. QED
    BY <2>4, <2>5
<1>3. ASSUME UNCHANGED <<txPacket, transmitting, hostReport>> PROVE OrderInv'
  BY <1>3 DEF OrderInv
<1>4. CASE HandleOutputReport \/ NothingReceived \/ NothingDue \/ Sleep \/ StartOfFrame
  BY <1>3, <1>4 DEF HandleOutputReport, NothingReceived, NothingDue, Sleep, StartOfFrame,
                    LoopBody, deviceVars, hostVars
<1>5. CASE (\E op \in Ops : HostSend(op)) \/ HostSuspend \/ HostResume \/ UNCHANGED vars
  BY <1>3, <1>5 DEF HostSend, HostSuspend, HostResume, deviceVars, vars, hostVars
<1>. QED
  BY <1>1, <1>2, <1>4, <1>5 DEF Next, Loop, Host

\* Nothing is in the endpoint at first.
LEMMA OrderInvInit == Init => OrderInv
BY DEF Init, OrderInv

\* Packets of two reports are never mixed, none is sent twice, and every
\* report ends in a way the Switch recognises, whatever is sent and however
\* often the bus is suspended (transmitPacket, main.cpp:960).
THEOREM InOrder == Spec => []PacketsInOrder
<1>1. OrderInv => PacketsInOrder
  BY DEF OrderInv, PacketsInOrder
<1>. QED
  BY <1>1, Invariance, OrderInvInit, OrderInvNext, PTL DEF Spec

-----------------------------------------------------------------------------
(* Reports received intact.                                                *)

\* The first n bytes of a buffer.
Prefix(report, n) ==
    [length |-> n,
     head   |-> Covered(report.head, 0, n, 0, 1),
     body   |-> Covered(report.body, 0, n, 2, 12),
     tail   |-> Covered(report.tail, 0, n, 13, 63)]

\* What the Switch has when it has taken the packet in the endpoint as well.
Assembled == IF txPacket = NoPacket THEN hostReport ELSE Extend(hostReport, txPacket)

\* Either the input sub-report will be filled in, or the payload stands.
BodyReady(report, position) ==
    IF report.head.op \in RegularOps
    THEN report.head.op = "macInfo" => position = 0 /\ report.body = Payload(report.head)
    ELSE position = 2

\* A report of the right length, with the acknowledgement it should have.
LengthAndTail(report, length) ==
    /\ length = ReplyLength(report.head.op)
    /\ report.head.op \in UartOps => report.tail = report.head

PreparedInv ==
    sReportPending =>
        /\ LengthAndTail(sReports[sCurrentReport], sReportLengths[sCurrentReport])
        /\ BodyReady(sReports[sCurrentReport], sReportsInputReportPosition[sCurrentReport])

\* After its first packet a report's body is what it will be.
TransmittedInv ==
    transmitting.active =>
        LET report == sReports[transmitting.index]
        IN  /\ LengthAndTail(report, transmitting.length)
            /\ transmitting.cursor >= PacketSize
            /\ CompleteReport(report.head).body = {report.body}
            /\ Assembled = Prefix(report, transmitting.cursor)

\* The last packet of a report completes it.
DeliveredInv ==
    txPacket # NoPacket /\ ~transmitting.active =>
        \E tag \in Tag : Assembled = CompleteReport(tag)

\* On a bus that is never suspended no prepared report is dropped, and so a
\* buffer that is neither prepared nor transmitted has no input position.
UnusedInv ==
    MaxSuspends = 0 =>
        /\ busActive
        /\ sUsbSuspended => newSof
        /\ halted = "no" =>
               \A b \in Index :
                   \/ sReportsInputReportPosition[b] = 0
                   \/ b = sCurrentReport /\ sReportPending
                   \/ b = transmitting.index /\ transmitting.active

IntactInv ==
    /\ rxReport # NoTag => rxReport.op \in Ops
    /\ PreparedInv
    /\ TransmittedInv
    /\ DeliveredInv
    /\ UnusedInv
    /\ ReceivedIntact

\* What a complete report is, by the kind of its operation.
LEMMA Completes ==
    ASSUME NEW tag \in Tag
    PROVE  /\ tag.op = "handshake" =>
                  ReplyLength(tag.op) = 2 /\ CompleteReport(tag).body = {}
           /\ tag.op = "macInfo" =>
                  ReplyLength(tag.op) = 10 /\ CompleteReport(tag).body = {Payload(tag)}
           /\ tag.op \in UartOps => ReplyLength(tag.op) \in 16..275
           /\ tag.op \notin UartOps \cup RegularOps => ReplyLength(tag.op) = 13
           /\ tag.op \notin RegularOps => CompleteReport(tag).body = {InputFor(tag)}
           /\ CompleteReport(tag).length = ReplyLength(tag.op)
           /\ CompleteReport(tag).head = {tag}
           /\ CompleteReport(tag).tail = IF tag.op \in UartOps THEN {tag} ELSE {}
<1>1. tag.op \in UartOps => ReplyLength(tag.op) \in 16..275
  <2>1. tag.op \in UartOps => UartReplyLength(tag.op) \in 16..275
    BY ReplyLengths
  <2>. QED
    BY <2>1 DEF ReplyLength, RegularOps, UartOps
<1>2. tag.op = "handshake" => ReplyLength(tag.op) = 2 /\ CompleteReport(tag).body = {}
  BY DEF ReplyLength, RegularReplyLength, CompleteReport, RegularOps, UartOps
<1>3. tag.op = "macInfo" =>
          ReplyLength(tag.op) = 10 /\ CompleteReport(tag).body = {Payload(tag)}
  BY DEF ReplyLength, RegularReplyLength, CompleteReport, RegularOps, UartOps
<1>4. tag.op \notin UartOps \cup RegularOps => ReplyLength(tag.op) = 13
  BY DEF ReplyLength, InputReportLength, SwitchReportSize
<1>5. tag.op \notin RegularOps => CompleteReport(tag).body = {InputFor(tag)}
  BY DEF CompleteReport, RegularOps
<1>6. /\ CompleteReport(tag).length = ReplyLength(tag.op)
      /\ CompleteReport(tag).head = {tag}
      /\ CompleteReport(tag).tail = IF tag.op \in UartOps THEN {tag} ELSE {}
  BY DEF CompleteReport
<1>. QED
  BY <1>1, <1>2, <1>3, <1>4, <1>5, <1>6

\* A packet that follows the first n bytes makes them the first n + size.
LEMMA PrefixGrows ==
    ASSUME NEW report, NEW n \in Nat, NEW size \in Nat
    PROVE  Extend(Prefix(report, n), PacketOf(report, n, size)) = Prefix(report, n + size)
<1>1. ASSUME NEW value, NEW first \in Nat, NEW last \in Nat, first <= last
      PROVE  Covered(value, 0, n, first, last) \cup Covered(value, n, size, first, last)
                 = Covered(value, 0, n + size, first, last)
  <2>1. Overlaps(0, n + size, first, last)
            <=> Overlaps(0, n, first, last) \/ Overlaps(n, size, first, last)
    BY <1>1 DEF Overlaps
  <2>. QED
    BY <2>1 DEF Covered
<1>2. /\ Covered(report.head, 0, n, 0, 1) \cup Covered(report.head, n, size, 0, 1)
             = Covered(report.head, 0, n + size, 0, 1)
      /\ Covered(report.body, 0, n, 2, 12) \cup Covered(report.body, n, size, 2, 12)
             = Covered(report.body, 0, n + size, 2, 12)
      /\ Covered(report.tail, 0, n, 13, 63) \cup Covered(report.tail, n, size, 13, 63)
             = Covered(report.tail, 0, n + size, 13, 63)
  BY <1>1
<1>. QED
  BY <1>2 DEF Extend, Prefix, PacketOf

\* Before its first byte there is nothing of a report.
LEMMA PrefixEmpty == \A report : Prefix(report, 0) = EmptyReport
BY DEF Prefix, EmptyReport, Covered, Overlaps

\* All bytes of a report that is as it should be are a complete report.
LEMMA PrefixComplete ==
    ASSUME NEW report \in [head : Tag, body : Body, tail : Tag],
           NEW length \in 0..sReportSize, LengthAndTail(report, length),
           report.head.op # "handshake" => CompleteReport(report.head).body = {report.body}
    PROVE  Prefix(report, length) = CompleteReport(report.head)
<1>. DEFINE tag == report.head
<1>0. tag \in Tag /\ length = ReplyLength(tag.op)
  BY DEF LengthAndTail
<1>1. /\ Prefix(report, length) = [length |-> Prefix(report, length).length,
                                   head |-> Prefix(report, length).head,
                                   body |-> Prefix(report, length).body,
                                   tail |-> Prefix(report, length).tail]
      /\ CompleteReport(tag) = [length |-> CompleteReport(tag).length,
                                head |-> CompleteReport(tag).head,
                                body |-> CompleteReport(tag).body,
                                tail |-> CompleteReport(tag).tail]
  BY DEF Prefix, CompleteReport
<1>2. length \in {2, 10, 13} \cup 16..275
  BY <1>0, Completes DEF RegularOps
<1>3. Prefix(report, length).head = {tag}
  BY <1>2 DEF Prefix, Covered, Overlaps
<1>4. Prefix(report, length).body = CompleteReport(tag).body
  <2>1. CASE tag.op = "handshake"
    <3>1. length = 2 /\ CompleteReport(tag).body = {}
      BY <1>0, <2>1, Completes
    <3>2. Prefix(report, length).body = {}
      BY <3>1 DEF Prefix, Covered, Overlaps
    <3>. QED
      BY <3>1, <3>2
  <2>2. CASE tag.op # "handshake"
    <3>1. length > 2
      <4>1. length = 10 \/ length = 13 \/ length \in 16..275
        BY <1>0, <2>2, Completes DEF RegularOps
      <4>. QED
        BY <4>1
    <3>2. Prefix(report, length).body = {report.body}
      BY <1>2, <3>1 DEF Prefix, Covered, Overlaps
    <3>. QED
      BY <2>2, <3>2
  <2>. QED
    BY <2>1, <2>2
<1>5. Prefix(report, length).tail = CompleteReport(tag).tail
  <2>1. CASE tag.op \in UartOps
    <3>1. length \in 16..275
      BY <1>0, <2>1, Completes
    <3>2. Prefix(report, length).tail = {report.tail}
      BY <3>1 DEF Prefix, Covered, Overlaps
    <3>. QED
      BY <1>0, <2>1, <3>2, Completes DEF LengthAndTail
  <2>2. CASE tag.op \notin UartOps
    <3>1. length \in {2, 10, 13}
      BY <1>0, <2>2, Completes DEF RegularOps
    <3>2. Prefix(report, length).tail = {}
      BY <3>1 DEF Prefix, Covered, Overlaps
    <3>. QED
      BY <1>0, <2>2, <3>2, Completes
  <2>. QED
    BY <2>1, <2>2
<1>6. Prefix(report, length).length = CompleteReport(tag).length
  BY <1>0, Completes DEF Prefix
<1>7. CompleteReport(tag).head = {tag}
  BY <1>0, Completes
<1>. QED
  BY <1>1, <1>3, <1>4, <1>5, <1>6, <1>7

\* Sending a packet of a report that is as it should be: the input sub-report
\* is filled in with the first packet or not at all, and what the Switch has
\* then is the report up to the cursor, or all of it.
LEMMA SendPacketContent ==
    ASSUME NEW t \in [active : BOOLEAN, index : Index, length : 0..sReportSize,
                      position : {0, 2}, cursor : 0..sReportSize],
           t.cursor <= t.length, t.cursor % PacketSize = 0,
           NEW reports \in [Index -> [head : Tag, body : Body, tail : Tag]],
           NEW positions \in [Index -> {0, 2}], NEW lengths,
           SendPacket(t, reports, positions, lengths),
           txPacket' # NoPacket, UNCHANGED hostReport,
           hostReport = Prefix(reports[t.index], t.cursor),
           LengthAndTail(reports[t.index], t.length),
           IF t.cursor = 0
           THEN BodyReady(reports[t.index], t.position)
           ELSE CompleteReport(reports[t.index].head).body = {reports[t.index].body}
    PROVE  /\ TransmittedInv'
           /\ DeliveredInv'
           /\ \A b \in Index : sReportsInputReportPosition'[b] =
                  IF b = t.index /\ ~transmitting'.active THEN 0 ELSE positions[b]
           /\ transmitting'.index = t.index
<1>. DEFINE remaining == t.length - t.cursor
            size == IF remaining <= PacketSize THEN remaining ELSE PacketSize
            next == t.cursor + size
            report == reports[t.index]
            filled == IF FillsInput(t, next)
                      THEN [reports EXCEPT ![t.index].body = InputFor(report.head)]
                      ELSE reports
            ends == EndsReport(t, size, next)
            copied == filled[t.index]
<1>1. /\ sReports' = filled
      /\ txPacket' = PacketOf(copied, t.cursor, size)
      /\ transmitting' = [t EXCEPT !.cursor = next, !.active = ~ends]
      /\ sReportsInputReportPosition' =
             IF ends THEN [positions EXCEPT ![t.index] = 0] ELSE positions
  BY Zenon DEF SendPacket
<1>2. /\ size \in 0..PacketSize
      /\ next \in Nat
      /\ ~ends => size = PacketSize /\ next >= PacketSize
      /\ ends => next = t.length
      /\ t.cursor # 0 => t.cursor >= PacketSize /\ ~FillsInput(t, next)
      /\ t.cursor = 0 /\ t.length >= PacketSize => size = PacketSize /\ next = PacketSize
  BY DEF PacketSize, sReportSize, EndsReport, FillsInput
<1>3. report \in [head : Tag, body : Body, tail : Tag] /\ t.index \in Index
  OBVIOUS
<1>4. copied = IF FillsInput(t, next) THEN [report EXCEPT !.body = InputFor(report.head)]
                                      ELSE report
  <2>. HIDE DEF next
  <2>. QED
    BY <1>3
<1>5. /\ copied \in [head : Tag, body : Body, tail : Tag]
      /\ copied.head = report.head /\ copied.tail = report.tail
  <2>1. InputFor(report.head) \in Body
    BY <1>3, TagTypes
  <2>. HIDE DEF next, report, copied
  <2>. QED
    BY <1>3, <1>4, <2>1
<1>6. copied.head.op # "handshake" => CompleteReport(copied.head).body = {copied.body}
  <2>1. CASE t.cursor = 0 /\ report.head.op \in RegularOps
    <3>1. report.head.op = "macInfo" =>
              t.position = 0 /\ CompleteReport(report.head).body = {report.body}
      BY <2>1, <1>3, Completes DEF BodyReady
    <3>2. t.position = 0 => copied = report
      BY <1>4 DEF FillsInput
    <3>3. report.head.op = "macInfo" \/ report.head.op = "handshake"
      BY <2>1 DEF RegularOps
    <3>. HIDE DEF copied, report
    <3>. QED
      BY <1>5, <3>1, <3>2, <3>3
  <2>2. CASE t.cursor = 0 /\ report.head.op \notin RegularOps
    <3>1. t.position = 2 /\ t.length = ReplyLength(report.head.op)
      BY <2>2 DEF BodyReady, LengthAndTail
    <3>2. t.length >= 13
      <4>1. t.length = 13 \/ t.length \in 16..275
        BY <1>3, <2>2, <3>1, Completes
      <4>. QED
        BY <4>1
    <3>3. FillsInput(t, next)
      BY <1>2, <2>2, <3>1, <3>2 DEF FillsInput, PacketSize
    <3>4. copied.body = InputFor(report.head)
      <4>. HIDE DEF next, report, copied
      <4>. QED
        BY <1>3, <1>4, <3>3
    <3>5. CompleteReport(report.head).body = {InputFor(report.head)}
      BY <1>3, <2>2, Completes
    <3>. QED
      BY <1>5, <3>4, <3>5
  <2>3. CASE t.cursor # 0
    <3>1. copied = report
      BY <1>2, <1>4, <2>3
    <3>. QED
      BY <2>3, <3>1
  <2>. QED
    BY <2>1, <2>2, <2>3
<1>7. hostReport = Prefix(copied, t.cursor)
  <2>1. CASE t.cursor = 0
    BY <2>1, PrefixEmpty
  <2>2. CASE t.cursor # 0
    BY <1>2, <1>4, <2>2
  <2>. QED
    BY <2>1, <2>2
<1>8. Assembled' = Prefix(copied, next)
  <2>1. Assembled' = Extend(hostReport, PacketOf(copied, t.cursor, size))
    BY <1>1 DEF Assembled
  <2>2. t.cursor \in Nat /\ size \in Nat
    BY <1>2 DEF PacketSize, sReportSize
  <2>. HIDE DEF copied, size
  <2>. QED
    BY <1>7, <2>1, <2>2, PrefixGrows
<1>9. LengthAndTail(copied, t.length)
  BY <1>5 DEF LengthAndTail
<1>10. /\ transmitting'.index = t.index /\ transmitting'.length = t.length
       /\ transmitting'.cursor = next /\ (transmitting'.active <=> ~ends)
  <2>. HIDE DEF next, ends
  <2>. QED
    BY <1>1
<1>11. TransmittedInv'
  <2>1. SUFFICES ASSUME ~ends PROVE TransmittedInv'
    BY <1>10 DEF TransmittedInv
  <2>2. copied.head.op # "handshake"
    <3>1. t.length >= PacketSize
      BY <1>2, <2>1 DEF PacketSize
    <3>2. t.length = ReplyLength(copied.head.op)
      BY <1>9 DEF LengthAndTail
    <3>3. copied.head \in Tag
      BY <1>5
    <3>. HIDE DEF copied
    <3>4. copied.head.op = "handshake" => ReplyLength(copied.head.op) = 2
      BY <3>3, Completes
    <3>. QED
      BY <3>1, <3>2, <3>4 DEF PacketSize
  <2>3. sReports'[transmitting'.index] = copied
    BY <1>1, <1>10
  <2>. HIDE DEF copied, next, ends
  <2>. QED
    BY <1>2, <1>6, <1>8, <1>9, <1>10, <2>1, <2>2, <2>3 DEF TransmittedInv
<1>12. DeliveredInv'
  <2>1. SUFFICES ASSUME ends PROVE DeliveredInv'
    BY <1>10 DEF DeliveredInv
  <2>2. Assembled' = CompleteReport(copied.head)
    <3>. HIDE DEF copied, next, ends
    <3>. QED
      BY <1>2, <1>5, <1>6, <1>8, <1>9, <2>1, PrefixComplete
  <2>. QED
    BY <1>5, <2>2 DEF DeliveredInv
<1>13. \A b \in Index : sReportsInputReportPosition'[b] =
           IF b = t.index /\ ~transmitting'.active THEN 0 ELSE positions[b]
  <2>. HIDE DEF ends
  <2>. QED
    BY <1>1, <1>10
<1>. QED
  BY <1>10, <1>11, <1>12, <1>13

\* The only reply that a suspension can spoil is the one to 80 01.
NothingSpoiled == "macInfo" \in Ops => MaxSuspends = 0

\* What the handler leaves in the current buffer.
LEMMA HandlerPrepares ==
    ASSUME NothingSpoiled, PipelineInv, IntactInv, HandleOutputReport
    PROVE  PreparedInv' /\ UnusedInv'
<1>. USE DEF PipelineInv
<1>0. /\ UNCHANGED <<transmitting, busActive, sUsbSuspended, newSof>> /\ halted = "no"
      /\ rxReport \in Tag /\ rxReport.op \in Ops
      /\ sCurrentReport \in Index
  BY DEF HandleOutputReport, hostVars, IntactInv, TypeOK
<1>1. CASE UNCHANGED bufferVars
  <2>1. PreparedInv'
    BY <1>1 DEF bufferVars, IntactInv, PreparedInv, LengthAndTail, BodyReady
  <2>2. UnusedInv'
    BY <1>0, <1>1 DEF bufferVars, IntactInv, UnusedInv
  <2>. QED
    BY <2>1, <2>2
<1>2. ASSUME sReportPending', UNCHANGED sCurrentReport,
             \A b \in Index : b # sCurrentReport =>
                 sReportsInputReportPosition'[b] = sReportsInputReportPosition[b]
      PROVE  UnusedInv'
  <2>1. MaxSuspends = 0 => busActive' /\ (sUsbSuspended' => newSof')
    BY <1>0 DEF IntactInv, UnusedInv
  <2>2. ASSUME MaxSuspends = 0, NEW b \in Index
        PROVE  \/ sReportsInputReportPosition'[b] = 0
               \/ b = sCurrentReport' /\ sReportPending'
               \/ b = transmitting'.index /\ transmitting'.active
    BY <1>0, <1>2, <2>2 DEF IntactInv, UnusedInv
  <2>. QED
    BY <2>1, <2>2 DEF UnusedInv
<1>3. CASE rxReport.op = "zero" /\ PrepareInputReport(rxReport)
  <2>1. /\ sReports'[sCurrentReport].head = rxReport
        /\ sReportLengths'[sCurrentReport] = 13
        /\ sReportsInputReportPosition'[sCurrentReport] = 2
        /\ UNCHANGED sCurrentReport /\ sReportPending'
        /\ \A b \in Index : b # sCurrentReport =>
               sReportsInputReportPosition'[b] = sReportsInputReportPosition[b]
    BY <1>0, <1>3 DEF PrepareInputReport, WithInputHead, InputReportLength, SwitchReportSize,
                      TypeOK
  <2>2. PreparedInv'
    <3>1. rxReport.op \notin UartOps \cup RegularOps
      BY <1>3 DEF UartOps, RegularOps
    <3>2. ReplyLength(rxReport.op) = 13
      BY <1>0, <3>1, Completes
    <3>. QED
      BY <2>1, <3>1, <3>2 DEF PreparedInv, LengthAndTail, BodyReady
  <2>. QED
    BY <1>2, <2>1, <2>2
<1>4. CASE rxReport.op \in RegularOps /\ PrepareRegularReply(rxReport)
  <2>1. /\ sReports'[sCurrentReport].head = rxReport
        /\ rxReport.op = "macInfo" => sReports'[sCurrentReport].body = Payload(rxReport)
    <3>. DEFINE report == sReports[sCurrentReport]
                body == IF RegularReplyLength(rxReport.op) > 2 THEN Payload(rxReport)
                                                               ELSE report.body
    <3>1. report \in [head : Tag, body : Body, tail : Tag]
      BY <1>0 DEF TypeOK
    <3>2. sReports'[sCurrentReport] = [[report EXCEPT !.head = rxReport] EXCEPT !.body = body]
      BY <1>0, <1>4 DEF PrepareRegularReply, TypeOK
    <3>3. rxReport.op = "macInfo" => body = Payload(rxReport)
      BY DEF RegularReplyLength
    <3>. HIDE DEF report, body
    <3>. QED
      BY <3>1, <3>2, <3>3
  <2>2. /\ sReportLengths'[sCurrentReport] = RegularReplyLength(rxReport.op)
        /\ UNCHANGED <<sCurrentReport, sReportsInputReportPosition>>
        /\ ~sReportPending /\ sReportPending'
    BY <1>0, <1>4 DEF PrepareRegularReply, TypeOK
  <2>3. rxReport.op = "macInfo" => sReportsInputReportPosition[sCurrentReport] = 0
    BY <1>0, <2>2 DEF NothingSpoiled, IntactInv, UnusedInv, TransmittedBufferIsPrivate
  <2>4. rxReport.op \notin UartOps /\ ReplyLength(rxReport.op) = RegularReplyLength(rxReport.op)
    BY <1>4 DEF UartOps, RegularOps, ReplyLength
  <2>5. PreparedInv'
    BY <1>4, <2>1, <2>2, <2>3, <2>4 DEF PreparedInv, LengthAndTail, BodyReady
  <2>. QED
    BY <1>2, <2>2, <2>5
<1>5. CASE rxReport.op \in UartOps /\ PrepareUartReply(rxReport)
  <2>1. CASE CopiedWithin(rxReport.op)
    <3>1. /\ sReportLengths'[sCurrentReport] = UartReplyLength(rxReport.op)
          /\ sReportsInputReportPosition'[sCurrentReport] = 2
          /\ UNCHANGED sCurrentReport /\ sReportPending'
          /\ \A b \in Index : b # sCurrentReport =>
                 sReportsInputReportPosition'[b] = sReportsInputReportPosition[b]
      BY <1>0, <1>5, <2>1 DEF PrepareUartReply, TypeOK
    <3>2. sReports'[sCurrentReport].head = rxReport /\ sReports'[sCurrentReport].tail = rxReport
      <4>. DEFINE report == sReports[sCurrentReport]
      <4>1. report \in [head : Tag, body : Body, tail : Tag]
        BY <1>0 DEF TypeOK
      <4>2. sReports'[sCurrentReport]
                = [[report EXCEPT !.head = rxReport] EXCEPT !.tail = rxReport]
        BY <1>0, <1>5, <2>1 DEF PrepareUartReply, TypeOK
      <4>. HIDE DEF report
      <4>. QED
        BY <4>1, <4>2
    <3>3. /\ rxReport.op \notin RegularOps
          /\ ReplyLength(rxReport.op) = UartReplyLength(rxReport.op)
      BY <1>5 DEF UartOps, RegularOps, ReplyLength
    <3>4. PreparedInv'
      BY <3>1, <3>2, <3>3 DEF PreparedInv, LengthAndTail, BodyReady
    <3>. QED
      BY <1>2, <3>1, <3>4
  <2>2. CASE ~CopiedWithin(rxReport.op)
    <3>1. ~sReportPending' /\ halted' # "no"
      BY <1>5, <2>2 DEF PrepareUartReply, Halt
    <3>2. PreparedInv'
      BY <3>1 DEF PreparedInv
    <3>3. UnusedInv'
      BY <1>0, <3>1 DEF IntactInv, UnusedInv
    <3>. QED
      BY <3>2, <3>3
  <2>. QED
    BY <2>1, <2>2
<1>6. \/ UNCHANGED bufferVars
      \/ rxReport.op = "zero" /\ PrepareInputReport(rxReport)
      \/ rxReport.op \in RegularOps /\ PrepareRegularReply(rxReport)
      \/ rxReport.op \in UartOps /\ PrepareUartReply(rxReport)
  BY DEF HandleOutputReport, HandleStopInput, HandleStartInput, HandleRegular,
         HandleUart, HandleRumble, HandleZero, HandleBad, ReportClash
<1>. QED
  BY <1>1, <1>3, <1>4, <1>5, <1>6

\* A reply that is prepared does not touch the report in transmission.
LEMMA HandlerIntact ==
    ASSUME NothingSpoiled, PipelineInv, IntactInv, HandleOutputReport
    PROVE  IntactInv'
<1>1. /\ UNCHANGED <<transmitting, txPacket, hostReport, received>>
      /\ rxReport' = NoTag \/ rxReport' = rxReport
  BY DEF HandleOutputReport, Handled, Stuck, hostVars
<1>2. Assembled' = Assembled
  BY <1>1 DEF Assembled
<1>3. transmitting.active => sReports'[transmitting.index] = sReports[transmitting.index]
  BY HandlerWritesCurrent DEF PipelineInv, TypeOK, TransmittedBufferIsPrivate
<1>4. TransmittedInv' /\ DeliveredInv'
  BY <1>1, <1>2, <1>3 DEF IntactInv, TransmittedInv, DeliveredInv
<1>5. ReceivedIntact'
  BY <1>1 DEF IntactInv, ReceivedIntact
<1>. QED
  BY <1>1, <1>4, <1>5, HandlerPrepares DEF IntactInv

\* Sending a packet changes no buffer but the one it is copied from.
LEMMA SendPacketOthers ==
    ASSUME NEW t \in [active : BOOLEAN, index : Index, length : 0..sReportSize,
                      position : {0, 2}, cursor : 0..sReportSize],
           NEW reports \in [Index -> [head : Tag, body : Body, tail : Tag]],
           NEW positions \in [Index -> {0, 2}],
           NEW lengths \in [Index -> 0..sReportSize],
           SendPacket(t, reports, positions, lengths),
           NEW b \in Index, b # t.index
    PROVE  /\ sReports'[b] = reports[b]
           /\ sReportLengths'[b] = lengths[b]
           /\ sReportsInputReportPosition'[b] = positions[b]
<1>. DEFINE remaining == t.length - t.cursor
            size == IF remaining <= PacketSize THEN remaining ELSE PacketSize
            next == t.cursor + size
            filled == IF FillsInput(t, next)
                      THEN [reports EXCEPT ![t.index].body =
                                InputFor(reports[t.index].head)]
                      ELSE reports
            ends == EndsReport(t, size, next)
<1>1. /\ sReports' = filled
      /\ sReportsInputReportPosition' =
             IF ends THEN [positions EXCEPT ![t.index] = 0] ELSE positions
      /\ sReportLengths' = IF ends THEN [lengths EXCEPT ![t.index] = 0] ELSE lengths
  BY Zenon DEF SendPacket
<1>2. filled[b] = reports[b]
  <2>. HIDE DEF next
  <2>. QED
    OBVIOUS
<1>. HIDE DEF filled, ends
<1>. QED
  BY <1>1, <1>2

\* Picking up a report that is ready for it.
LEMMA StartIntact ==
    ASSUME PipelineInv, OrderInv, IntactInv, ~transmitting.active, txPacket = NoPacket,
           UNCHANGED <<hostReport, busActive, received, rxReport, halted>>,
           sUsbSuspended' = FALSE, halted = "no",
           NEW reports \in [Index -> [head : Tag, body : Body, tail : Tag]],
           NEW positions \in [Index -> {0, 2}],
           NEW lengths \in [Index -> 0..sReportSize],
           \A b \in Index : b # sCurrentReport =>
               positions[b] = sReportsInputReportPosition[b],
           LengthAndTail(reports[sCurrentReport], lengths[sCurrentReport]),
           BodyReady(reports[sCurrentReport], positions[sCurrentReport]),
           SendPacket(PickedUp(positions, lengths), reports, positions, lengths),
           SwapBuffers
    PROVE  IntactInv'
<1>. DEFINE t == PickedUp(positions, lengths)
<1>1. /\ t \in [active : BOOLEAN, index : Index, length : 0..sReportSize,
                position : {0, 2}, cursor : 0..sReportSize]
      /\ t.index = sCurrentReport /\ t.cursor = 0 /\ t.length = lengths[sCurrentReport]
      /\ t.length \in 0..sReportSize
      /\ t.position = positions[sCurrentReport]
  BY DEF PickedUp, PipelineInv, TypeOK, sReportSize
<1>2. SendPacket(t, reports, positions, lengths)
  OBVIOUS
<1>. HIDE DEF t
<1>3. t.cursor <= t.length /\ t.cursor % PacketSize = 0
  BY <1>1 DEF sReportSize, PacketSize
<1>4. hostReport = EmptyReport /\ t.cursor = hostReport.length
  BY <1>1 DEF OrderInv, EmptyReport
<1>5. hostReport = Prefix(reports[t.index], t.cursor)
  BY <1>1, <1>4, PrefixEmpty
<1>6. txPacket' # NoPacket
  BY <1>1, <1>2, <1>3, <1>4, SendPacketOrder
<1>7. /\ TransmittedInv'
      /\ DeliveredInv'
      /\ \A b \in Index : sReportsInputReportPosition'[b] =
             IF b = t.index /\ ~transmitting'.active THEN 0 ELSE positions[b]
      /\ transmitting'.index = t.index
  BY <1>1, <1>2, <1>3, <1>5, <1>6, SendPacketContent
<1>8. PreparedInv'
  BY DEF SwapBuffers, PreparedInv
<1>9. UnusedInv'
  <2>1. MaxSuspends = 0 => busActive' /\ ~sUsbSuspended'
    BY DEF IntactInv, UnusedInv
  <2>2. ASSUME MaxSuspends = 0, NEW b \in Index
        PROVE  \/ sReportsInputReportPosition'[b] = 0
               \/ b = transmitting'.index /\ transmitting'.active
    <3>1. CASE b = sCurrentReport
      BY <1>1, <1>7, <3>1
    <3>2. CASE b # sCurrentReport
      BY <1>1, <1>7, <2>2, <3>2 DEF IntactInv, UnusedInv
    <3>. QED
      BY <3>1, <3>2
  <2>. QED
    BY <2>1, <2>2 DEF UnusedInv
<1>. QED
  BY <1>7, <1>8, <1>9 DEF IntactInv, ReceivedIntact

\* transmitPacket, in its three cases.
LEMMA TransmitIntact ==
    ASSUME PipelineInv, OrderInv, IntactInv, Transmit PROVE IntactInv'
<1>1. /\ txPacket = NoPacket /\ halted = "no" /\ sUsbSuspended' = FALSE
      /\ UNCHANGED <<hostReport, busActive, received, rxReport, halted>>
  BY DEF Transmit, LoopBody, Awake, hostVars
<1>2. /\ sReports \in [Index -> [head : Tag, body : Body, tail : Tag]]
      /\ sReportsInputReportPosition \in [Index -> {0, 2}]
      /\ sReportLengths \in [Index -> 0..sReportSize]
      /\ sCurrentReport \in Index
      /\ transmitting \in [active : BOOLEAN, index : Index, length : 0..sReportSize,
                           position : {0, 2}, cursor : 0..sReportSize]
  BY DEF PipelineInv, TypeOK
<1>3. CASE ContinueReport
  <2>. DEFINE t == transmitting
  <2>1. /\ t.active /\ UNCHANGED <<sCurrentReport, sReportPending>>
        /\ SendPacket(t, sReports, sReportsInputReportPosition, sReportLengths)
    BY <1>3 DEF ContinueReport
  <2>2. /\ t.cursor <= t.length /\ t.cursor % PacketSize = 0
        /\ t.index # sCurrentReport /\ t.cursor # 0
        /\ LengthAndTail(sReports[t.index], t.length)
        /\ CompleteReport(sReports[t.index].head).body = {sReports[t.index].body}
        /\ hostReport = Prefix(sReports[t.index], t.cursor)
    BY <1>1, <2>1 DEF PipelineInv, CursorWithinReport, TransmittedBufferIsPrivate,
                      IntactInv, TransmittedInv, Assembled, PacketSize
  <2>3. txPacket' # NoPacket
    <3>1. t.cursor = hostReport.length
      BY <1>1, <2>1 DEF OrderInv
    <3>. QED
      BY <1>1, <1>2, <2>1, <2>2, <3>1, SendPacketOrder
  <2>4. /\ TransmittedInv'
        /\ DeliveredInv'
        /\ \A b \in Index : sReportsInputReportPosition'[b] =
               IF b = t.index /\ ~transmitting'.active THEN 0
               ELSE sReportsInputReportPosition[b]
        /\ transmitting'.index = t.index
    BY <1>1, <1>2, <2>1, <2>2, <2>3, SendPacketContent
  <2>5. /\ sReports'[sCurrentReport] = sReports[sCurrentReport]
        /\ sReportLengths'[sCurrentReport] = sReportLengths[sCurrentReport]
        /\ sReportsInputReportPosition'[sCurrentReport]
               = sReportsInputReportPosition[sCurrentReport]
    <3>1. sCurrentReport \in Index /\ sCurrentReport # t.index
      BY <1>2, <2>2
    <3>2. \A b \in Index : b # t.index =>
              /\ sReports'[b] = sReports[b]
              /\ sReportLengths'[b] = sReportLengths[b]
              /\ sReportsInputReportPosition'[b] = sReportsInputReportPosition[b]
      BY <1>2, <2>1, SendPacketOthers
    <3>. QED
      BY <3>1, <3>2
  <2>6. PreparedInv'
    BY <2>1, <2>5 DEF IntactInv, PreparedInv
  <2>7. UnusedInv'
    <3>1. MaxSuspends = 0 => busActive' /\ ~sUsbSuspended'
      BY <1>1 DEF IntactInv, UnusedInv
    <3>2. ASSUME MaxSuspends = 0, NEW b \in Index
          PROVE  \/ sReportsInputReportPosition'[b] = 0
                 \/ b = sCurrentReport' /\ sReportPending'
                 \/ b = transmitting'.index /\ transmitting'.active
      <4>1. CASE b = t.index
        BY <2>4, <4>1
      <4>2. CASE b # t.index
        BY <1>1, <2>1, <2>4, <3>2, <4>2 DEF IntactInv, UnusedInv
      <4>. QED
        BY <4>1, <4>2
    <3>. QED
      BY <3>1, <3>2 DEF UnusedInv
  <2>. QED
    BY <1>1, <2>4, <2>6, <2>7 DEF IntactInv, ReceivedIntact
<1>4. CASE StartPendingReport
  <2>1. /\ LengthAndTail(sReports[sCurrentReport], sReportLengths[sCurrentReport])
        /\ BodyReady(sReports[sCurrentReport], sReportsInputReportPosition[sCurrentReport])
    BY <1>4 DEF StartPendingReport, IntactInv, PreparedInv
  <2>. QED
    BY <1>1, <1>2, <1>4, <2>1, StartIntact DEF StartPendingReport
<1>5. CASE StartInputReport
  <2>. DEFINE positions == [sReportsInputReportPosition EXCEPT ![sCurrentReport] = 2]
              lengths == [sReportLengths EXCEPT ![sCurrentReport] = InputReportLength]
              reports == WithInputHead(InputTag)
  <2>1. /\ SendPacket(PickedUp(positions, lengths), reports, positions, lengths)
        /\ ~transmitting.active /\ SwapBuffers
    BY <1>5 DEF StartInputReport
  <2>2. /\ positions \in [Index -> {0, 2}] /\ lengths \in [Index -> 0..sReportSize]
        /\ positions[sCurrentReport] = 2 /\ lengths[sCurrentReport] = 13
        /\ \A b \in Index : b # sCurrentReport =>
               positions[b] = sReportsInputReportPosition[b]
    BY <1>2 DEF InputReportLength, SwitchReportSize, sReportSize
  <2>3. /\ reports \in [Index -> [head : Tag, body : Body, tail : Tag]]
        /\ reports[sCurrentReport].head = InputTag
    <3>. DEFINE report == sReports[sCurrentReport]
    <3>1. [report EXCEPT !.head = InputTag] \in [head : Tag, body : Body, tail : Tag]
      BY <1>2, TagTypes
    <3>. QED
      BY <1>2, <3>1 DEF WithInputHead
  <2>4. /\ InputTag.op \notin UartOps \cup RegularOps
        /\ ReplyLength(InputTag.op) = 13
    BY DEF InputTag, UartOps, RegularOps, ReplyLength, InputReportLength, SwitchReportSize
  <2>5. /\ LengthAndTail(reports[sCurrentReport], lengths[sCurrentReport])
        /\ BodyReady(reports[sCurrentReport], positions[sCurrentReport])
    BY <2>2, <2>3, <2>4 DEF LengthAndTail, BodyReady
  <2>. HIDE DEF positions, lengths, reports
  <2>. QED
    BY <1>1, <2>1, <2>2, <2>3, <2>5, StartIntact
<1>. QED
  BY <1>3, <1>4, <1>5 DEF Transmit

\* The Switch takes a transfer to be complete when its last packet is sent.
LEMMA LastPacket ==
    ASSUME OrderInv, txPacket # NoPacket
    PROVE  (txPacket.size < PacketSize \/ Extend(hostReport, txPacket).length = sReportSize)
               <=> ~transmitting.active
<1>1. Extend(hostReport, txPacket).length = hostReport.length + txPacket.size
  BY DEF Extend
<1>2. /\ txPacket.at = hostReport.length /\ txPacket.size \in 0..PacketSize
      /\ transmitting.active <=>
             txPacket.size = PacketSize /\ txPacket.at + txPacket.size # sReportSize
  BY DEF OrderInv
<1>. QED
  BY <1>1, <1>2 DEF PacketSize

\* A transfer that the Switch takes to be complete is a complete report.
LEMMA TakeIntact ==
    ASSUME PipelineInv, OrderInv, IntactInv, HostTakePacket PROVE IntactInv'
<1>. DEFINE complete == txPacket.size < PacketSize \/ Assembled.length = sReportSize
<1>1. /\ txPacket # NoPacket /\ txPacket' = NoPacket
      /\ Assembled = Extend(hostReport, txPacket)
      /\ hostReport' = IF complete THEN EmptyReport ELSE Assembled
      /\ received' = IF complete THEN Assembled ELSE received
      /\ UNCHANGED <<deviceVars, rxReport, newSof, busActive>>
  BY DEF HostTakePacket, Assembled
<1>2. complete <=> ~transmitting.active
  BY <1>1, LastPacket
<1>3. PreparedInv' /\ UnusedInv'
  BY <1>1 DEF deviceVars, bufferVars, IntactInv, PreparedInv, UnusedInv
<1>4. TransmittedInv'
  <2>1. transmitting.active => Assembled' = Assembled
    BY <1>1, <1>2 DEF Assembled
  <2>. QED
    BY <1>1, <2>1 DEF deviceVars, bufferVars, IntactInv, TransmittedInv
<1>5. DeliveredInv'
  BY <1>1 DEF DeliveredInv
<1>6. ReceivedIntact'
  <2>1. CASE complete
    <3>1. PICK tag \in Tag : Assembled = CompleteReport(tag)
      BY <1>1, <1>2, <2>1 DEF IntactInv, DeliveredInv
    <3>2. received' = CompleteReport(tag) /\ tag \in received'.head
      BY <1>1, <2>1, <3>1, Completes
    <3>. QED
      BY <3>2 DEF ReceivedIntact
  <2>2. CASE ~complete
    BY <1>1, <2>2 DEF IntactInv, ReceivedIntact
  <2>. QED
    BY <2>1, <2>2
<1>. QED
  BY <1>1, <1>3, <1>4, <1>5, <1>6 DEF IntactInv

\* Every step keeps the reports intact.
LEMMA IntactInvNext ==
    ASSUME NothingSpoiled
    PROVE  PipelineInv /\ OrderInv /\ IntactInv /\ [Next]_vars => IntactInv'
<1>. SUFFICES ASSUME PipelineInv, OrderInv, IntactInv, [Next]_vars PROVE IntactInv'
  OBVIOUS
<1>1. CASE HandleOutputReport
  BY <1>1, HandlerIntact
<1>2. CASE Transmit
  BY <1>2, TransmitIntact
<1>3. CASE HostTakePacket
  BY <1>3, TakeIntact
<1>4. ASSUME UNCHANGED <<bufferVars, transmitting, txPacket, hostReport, received, halted>>,
             rxReport' = NoTag \/ rxReport'.op \in Ops, UnusedInv'
      PROVE  IntactInv'
  BY <1>4 DEF bufferVars, IntactInv, PreparedInv, TransmittedInv, DeliveredInv, Assembled,
              ReceivedIntact
<1>5. CASE NothingReceived \/ NothingDue \/ StartOfFrame \/ UNCHANGED vars
  <2>1. UNCHANGED <<bufferVars, transmitting, txPacket, hostReport, received, rxReport, halted,
                    busActive>>
        /\ (sUsbSuspended' = FALSE \/ newSof' = TRUE \/ UNCHANGED <<sUsbSuspended, newSof>>)
    BY <1>5 DEF NothingReceived, NothingDue, StartOfFrame, LoopBody, Awake, deviceVars, hostVars,
                vars
  <2>2. UnusedInv'
    BY <2>1 DEF IntactInv, UnusedInv, bufferVars
  <2>. QED
    BY <1>4, <2>1, <2>2 DEF IntactInv
<1>6. CASE Sleep
  <2>1. /\ UNCHANGED <<sReports, sReportsInputReportPosition, sReportLengths, sCurrentReport,
                       transmitting, txPacket, hostReport, received, rxReport>>
        /\ ~sReportPending' /\ ~newSof /\ (sUsbSuspended \/ ~busActive)
    BY <1>6 DEF Sleep, LoopBody, ClearPendingReport, hostVars
  <2>2. PreparedInv' /\ UnusedInv'
    BY <2>1 DEF PreparedInv, IntactInv, UnusedInv
  <2>. QED
    BY <2>1, <2>2 DEF IntactInv, TransmittedInv, DeliveredInv, Assembled, ReceivedIntact
<1>7. CASE \E op \in Ops : HostSend(op)
  <2>1. /\ UNCHANGED <<deviceVars, txPacket, newSof, busActive, hostReport, received>>
        /\ rxReport'.op \in Ops
    BY <1>7 DEF HostSend
  <2>2. UnusedInv'
    BY <2>1 DEF deviceVars, bufferVars, IntactInv, UnusedInv
  <2>. QED
    BY <1>4, <2>1, <2>2 DEF deviceVars
<1>8. CASE HostSuspend \/ HostResume
  <2>1. UNCHANGED <<deviceVars, txPacket, hostReport, received, rxReport>>
    BY <1>8 DEF HostSuspend, HostResume
  <2>2. MaxSuspends # 0
    <3>1. suspends \in 0..MaxSuspends
      BY DEF PipelineInv, TypeOK
    <3>. QED
      BY <1>8, <3>1 DEF HostSuspend, HostResume, IntactInv, UnusedInv
  <2>3. UnusedInv'
    BY <2>2 DEF UnusedInv
  <2>. QED
    BY <1>4, <2>1, <2>3 DEF deviceVars, IntactInv
<1>. QED
  BY <1>1, <1>2, <1>3, <1>5, <1>6, <1>7, <1>8 DEF Next, Loop, Host

\* No report is prepared, in transmission or received at first.
LEMMA IntactInvInit == Init => IntactInv
BY DEF Init, IntactInv, PreparedInv, TransmittedInv, DeliveredInv, UnusedInv, ReceivedIntact,
       Assembled

\* Every report the Switch receives is one complete report, with controller
\* state read for it where it should have some, whatever it sends without
\* waiting; if it asks for the MAC address, on a bus that is not suspended:
\* that is the reply a suspension spoils (prepareRegularReplyReport_P).
THEOREM Intact == NothingSpoiled => (Spec => []ReceivedIntact)
<1>. SUFFICES ASSUME NothingSpoiled PROVE Spec => []ReceivedIntact
  OBVIOUS
<1>1. PipelineInv /\ OrderInv /\ IntactInv /\ [Next]_vars => IntactInv'
  BY IntactInvNext
<1>2. IntactInv => ReceivedIntact
  BY DEF IntactInv
<1>. QED
  BY <1>1, <1>2, Invariance, OrderInvInit, OrderInvNext, IntactInvInit, PTL DEF Spec

-----------------------------------------------------------------------------
(* A Switch that waits for its replies.                                    *)

\* The commands whose replies are on their way to the Switch.
Outgoing ==
    hostReport.head \cup txPacket.head
        \cup (IF transmitting.active THEN {sReports[transmitting.index].head} ELSE {})

Pending == sReports[sCurrentReport].head

Asked == rxReport.op \in AnsweredOps

\* Commands are numbered in the order they are sent, and the reply to an
\* earlier one leaves first.
NumberInv ==
    /\ rxReport # NoTag => rxReport.op \in Ops /\ rxReport.n = sent /\ sent > 0
    /\ sReportPending => Pending.n \in 1..sent
    /\ \A tag \in Outgoing :
           /\ tag.n <= sent
           /\ sReportPending => tag.n < Pending.n
           /\ rxReport # NoTag => tag.n < rxReport.n

\* A handler that is given a command finds no report prepared, and the loop
\* has not been left by a suspension with one.
ClashInv ==
    /\ halted # "no" => rxReport # NoTag
    /\ halted = "no" =>
           /\ sUsbSuspended /\ pc = "poll" => ~sReportPending
           /\ Asked => ~sReportPending
           /\ sReportPending /\ rxReport # NoTag => Pending.n < rxReport.n

\* On an active bus the Switch awaits what is prepared or to be prepared.
AwaitInv ==
    /\ busActive /\ sReportPending => awaiting = Pending
    /\ busActive /\ Asked => awaiting = rxReport

WaitingInv == NumberInv /\ ClashInv /\ AwaitInv

\* Tags and numbers have their types.
LEMMA NumberTypes ==
    ASSUME PipelineInv
    PROVE  /\ Outgoing \subseteq Tag /\ Pending \in Tag /\ rxReport \in Tag /\ awaiting \in Tag
           /\ abandoned \subseteq Tag
           /\ sent \in Nat /\ \A tag \in Tag : tag.n \in Nat
           /\ NoTag.n = 0 /\ InputTag.n = 0 /\ NoTag # InputTag /\ NoTag.op \notin AnsweredOps
<1>1. /\ sReports \in [Index -> [head : Tag, body : Body, tail : Tag]]
      /\ sCurrentReport \in Index /\ transmitting.index \in Index
      /\ hostReport.head \subseteq Tag /\ txPacket.head \subseteq Tag
      /\ rxReport \in Tag /\ awaiting \in Tag /\ abandoned \subseteq Tag
      /\ sent \in 0..MaxCommands
  BY DEF PipelineInv, TypeOK, ReportType, PacketType
<1>2. Outgoing \subseteq Tag /\ Pending \in Tag
  BY <1>1 DEF Outgoing, Pending
<1>3. sent \in Nat /\ \A tag \in Tag : tag.n \in Nat
  BY <1>1, ConstantsAssumption DEF ConstantsAssumption, Tag
<1>4. /\ NoTag.n = 0 /\ InputTag.n = 0 /\ NoTag # InputTag
      /\ NoTag.op \notin AnsweredOps
  BY DEF NoTag, InputTag, AnsweredOps, RegularOps, UartOps
<1>. QED
  BY <1>1, <1>2, <1>3, <1>4

\* What a handler does to the prepared report.
LEMMA HandlerOutcome ==
    ASSUME PipelineInv, HandleOutputReport
    PROVE  /\ \/ UNCHANGED <<sReportPending, Pending>>
              \/ ~sReportPending'
              \/ sReportPending' /\ Pending' = rxReport /\ Asked
           /\ Outgoing' = Outgoing
           /\ \/ halted' = "no" /\ rxReport' = NoTag /\ pc' = "body"
              \/ halted' # "no" /\ rxReport' = rxReport
           /\ UNCHANGED <<busActive, sent, awaiting, abandoned>>
           /\ rxReport # NoTag
<1>. DEFINE Outcome == \/ UNCHANGED <<sReportPending, Pending>>
                       \/ ~sReportPending'
                       \/ sReportPending' /\ Pending' = rxReport /\ Asked
<1>1. /\ sReports \in [Index -> [head : Tag, body : Body, tail : Tag]]
      /\ sCurrentReport \in Index
  BY DEF PipelineInv, TypeOK
<1>2. ASSUME UNCHANGED bufferVars PROVE Outcome
  BY <1>2 DEF bufferVars, Pending
<1>3. ASSUME rxReport.op = "zero", PrepareInputReport(rxReport) PROVE Outcome
  BY <1>1, <1>3 DEF PrepareInputReport, WithInputHead, Pending, Asked, AnsweredOps
<1>4. ASSUME rxReport.op \in RegularOps, PrepareRegularReply(rxReport) PROVE Outcome
  <2>. DEFINE report == sReports[sCurrentReport]
              body == IF RegularReplyLength(rxReport.op) > 2 THEN Payload(rxReport)
                                                             ELSE report.body
  <2>1. sReports'[sCurrentReport] = [[report EXCEPT !.head = rxReport] EXCEPT !.body = body]
    BY <1>1, <1>4 DEF PrepareRegularReply
  <2>2. report \in [head : Tag, body : Body, tail : Tag]
    BY <1>1
  <2>3. sReports'[sCurrentReport].head = rxReport
    <3>. HIDE DEF report, body
    <3>. QED
      BY <2>1, <2>2
  <2>. QED
    BY <1>4, <2>3 DEF PrepareRegularReply, Pending, Asked, AnsweredOps
<1>5. ASSUME rxReport.op \in UartOps, PrepareUartReply(rxReport) PROVE Outcome
  <2>1. CASE ~CopiedWithin(rxReport.op)
    BY <1>5, <2>1 DEF PrepareUartReply
  <2>2. CASE CopiedWithin(rxReport.op)
    <3>. DEFINE report == sReports[sCurrentReport]
    <3>1. sReports'[sCurrentReport]
              = [[report EXCEPT !.head = rxReport] EXCEPT !.tail = rxReport]
      BY <1>1, <1>5, <2>2 DEF PrepareUartReply
    <3>2. report \in [head : Tag, body : Body, tail : Tag]
      BY <1>1
    <3>3. sReports'[sCurrentReport].head = rxReport
      <4>. HIDE DEF report
      <4>. QED
        BY <3>1, <3>2
    <3>. QED
      BY <1>5, <2>2, <3>3 DEF PrepareUartReply, Pending, Asked, AnsweredOps
  <2>. QED
    BY <2>1, <2>2
<1>6. \/ UNCHANGED bufferVars
      \/ rxReport.op = "zero" /\ PrepareInputReport(rxReport)
      \/ rxReport.op \in RegularOps /\ PrepareRegularReply(rxReport)
      \/ rxReport.op \in UartOps /\ PrepareUartReply(rxReport)
  BY DEF HandleOutputReport, HandleStopInput, HandleStartInput, HandleRegular,
         HandleUart, HandleRumble, HandleZero, HandleBad, ReportClash
<1>7. Outgoing' = Outgoing
  <2>1. UNCHANGED <<transmitting, txPacket, hostReport>>
    BY DEF HandleOutputReport, hostVars
  <2>2. transmitting.active => sReports'[transmitting.index] = sReports[transmitting.index]
    BY HandlerWritesCurrent DEF PipelineInv, TypeOK, TransmittedBufferIsPrivate
  <2>. QED
    BY <2>1, <2>2 DEF Outgoing
<1>8. /\ \/ halted' = "no" /\ rxReport' = NoTag /\ pc' = "body"
         \/ halted' # "no" /\ rxReport' = rxReport
      /\ UNCHANGED <<busActive, sent, awaiting, abandoned>>
      /\ rxReport # NoTag
  BY DEF HandleOutputReport, Handled, Stuck, hostVars
<1>. QED
  BY <1>2, <1>3, <1>4, <1>5, <1>6, <1>7, <1>8

\* A packet carries no head but that of its buffer.
LEMMA SendPacketHead ==
    ASSUME NEW t \in [active : BOOLEAN, index : Index, length : 0..sReportSize,
                      position : {0, 2}, cursor : 0..sReportSize],
           NEW reports \in [Index -> [head : Tag, body : Body, tail : Tag]],
           NEW positions, NEW lengths,
           SendPacket(t, reports, positions, lengths)
    PROVE  /\ txPacket'.head \subseteq {reports[t.index].head}
           /\ sReports'[t.index].head = reports[t.index].head
           /\ transmitting'.index = t.index
<1>. DEFINE remaining == t.length - t.cursor
            size == IF remaining <= PacketSize THEN remaining ELSE PacketSize
            next == t.cursor + size
            filled == IF FillsInput(t, next)
                      THEN [reports EXCEPT ![t.index].body =
                                InputFor(reports[t.index].head)]
                      ELSE reports
            ends == EndsReport(t, size, next)
<1>1. /\ sReports' = filled
      /\ txPacket' = PacketOf(filled[t.index], t.cursor, size)
      /\ transmitting' = [t EXCEPT !.cursor = next, !.active = ~ends]
  BY Zenon DEF SendPacket
<1>2. filled[t.index].head = reports[t.index].head
  <2>. HIDE DEF next
  <2>. QED
    OBVIOUS
<1>3. transmitting'.index = t.index
  <2>. HIDE DEF next, ends
  <2>. QED
    BY <1>1
<1>. HIDE DEF filled, size
<1>. QED
  BY <1>1, <1>2, <1>3 DEF PacketOf, Covered

\* transmitPacket goes on with a report, or picks up the prepared one or a
\* fresh input report.
LEMMA TransmitOutcome ==
    ASSUME PipelineInv, OrderInv, Transmit
    PROVE  /\ \/ Outgoing' \subseteq Outgoing /\ UNCHANGED <<sReportPending, Pending>>
              \/ ~sReportPending' /\ sReportPending /\ Outgoing' \subseteq {Pending}
              \/ ~sReportPending' /\ Outgoing' \subseteq {InputTag}
           /\ ~sUsbSuspended' /\ halted = "no"
           /\ UNCHANGED <<halted, rxReport, busActive, sent, awaiting, abandoned, received>>
<1>1. /\ ~sUsbSuspended' /\ txPacket = NoPacket /\ halted = "no"
      /\ UNCHANGED <<halted, rxReport, busActive, sent, awaiting, abandoned, hostReport, received>>
  BY DEF Transmit, LoopBody, Awake, hostVars
<1>2. /\ sReports \in [Index -> [head : Tag, body : Body, tail : Tag]]
      /\ sReportsInputReportPosition \in [Index -> {0, 2}]
      /\ sReportLengths \in [Index -> 0..sReportSize]
      /\ sCurrentReport \in Index
      /\ transmitting \in [active : BOOLEAN, index : Index, length : 0..sReportSize,
                           position : {0, 2}, cursor : 0..sReportSize]
  BY DEF PipelineInv, TypeOK
<1>3. CASE ContinueReport
  <2>1. /\ transmitting.active /\ UNCHANGED <<sCurrentReport, sReportPending>>
        /\ SendPacket(transmitting, sReports, sReportsInputReportPosition, sReportLengths)
    BY <1>3 DEF ContinueReport
  <2>2. /\ txPacket'.head \subseteq {sReports[transmitting.index].head}
        /\ sReports'[transmitting.index].head = sReports[transmitting.index].head
        /\ transmitting'.index = transmitting.index
    BY <1>2, <2>1, SendPacketHead
  <2>3. \A b \in Index : b # transmitting.index => sReports'[b] = sReports[b]
    BY <1>2, <2>1, SendPacketOthers
  <2>4. Pending' = Pending
    BY <1>2, <2>1, <2>3 DEF Pending, PipelineInv, TransmittedBufferIsPrivate
  <2>5. Outgoing' \subseteq Outgoing
    BY <1>1, <2>1, <2>2 DEF Outgoing
  <2>. QED
    BY <1>1, <2>1, <2>4, <2>5
<1>4. ASSUME ~transmitting.active,
             NEW reports \in [Index -> [head : Tag, body : Body, tail : Tag]],
             NEW positions \in [Index -> {0, 2}],
             NEW lengths \in [Index -> 0..sReportSize],
             SendPacket(PickedUp(positions, lengths), reports, positions, lengths)
      PROVE  Outgoing' \subseteq {reports[sCurrentReport].head}
  <2>. DEFINE t == PickedUp(positions, lengths)
  <2>1. /\ t \in [active : BOOLEAN, index : Index, length : 0..sReportSize,
                  position : {0, 2}, cursor : 0..sReportSize]
        /\ t.index = sCurrentReport
    BY <1>2 DEF PickedUp, sReportSize
  <2>2. SendPacket(t, reports, positions, lengths)
    BY <1>4
  <2>. HIDE DEF t
  <2>3. /\ txPacket'.head \subseteq {reports[sCurrentReport].head}
        /\ sReports'[sCurrentReport].head = reports[sCurrentReport].head
        /\ transmitting'.index = sCurrentReport
    BY <2>1, <2>2, SendPacketHead
  <2>4. hostReport'.head = {}
    BY <1>1, <1>4 DEF OrderInv, EmptyReport
  <2>. QED
    BY <2>3, <2>4 DEF Outgoing
<1>5. CASE StartPendingReport
  <2>1. /\ ~transmitting.active /\ sReportPending /\ ~sReportPending'
        /\ SendPacket(PickedUp(sReportsInputReportPosition, sReportLengths), sReports,
                      sReportsInputReportPosition, sReportLengths)
    BY <1>5 DEF StartPendingReport, SwapBuffers
  <2>2. Outgoing' \subseteq {Pending}
    BY <1>2, <1>4, <2>1 DEF Pending
  <2>. QED
    BY <1>1, <2>1, <2>2
<1>6. CASE StartInputReport
  <2>. DEFINE positions == [sReportsInputReportPosition EXCEPT ![sCurrentReport] = 2]
              lengths == [sReportLengths EXCEPT ![sCurrentReport] = InputReportLength]
              reports == WithInputHead(InputTag)
  <2>1. /\ SendPacket(PickedUp(positions, lengths), reports, positions, lengths)
        /\ ~transmitting.active /\ ~sReportPending'
    BY <1>6 DEF StartInputReport, SwapBuffers
  <2>2. positions \in [Index -> {0, 2}] /\ lengths \in [Index -> 0..sReportSize]
    BY <1>2 DEF InputReportLength, SwitchReportSize, sReportSize
  <2>3. /\ reports \in [Index -> [head : Tag, body : Body, tail : Tag]]
        /\ reports[sCurrentReport].head = InputTag
    <3>. DEFINE report == sReports[sCurrentReport]
    <3>1. [report EXCEPT !.head = InputTag] \in [head : Tag, body : Body, tail : Tag]
      BY <1>2, TagTypes
    <3>. QED
      BY <1>2, <3>1 DEF WithInputHead
  <2>. HIDE DEF positions, lengths, reports
  <2>4. Outgoing' \subseteq {InputTag}
    BY <1>4, <2>1, <2>2, <2>3
  <2>. QED
    BY <1>1, <2>1, <2>4
<1>. QED
  BY <1>3, <1>5, <1>6 DEF Transmit

\* What the Switch takes no longer waits to be taken.
LEMMA TakeOutcome ==
    ASSUME HostTakePacket
    PROVE  /\ Outgoing' \subseteq Outgoing
           /\ \/ UNCHANGED awaiting
              \/ awaiting' = NoTag /\ awaiting \in Outgoing
           /\ UNCHANGED <<deviceVars, rxReport, busActive, sent, Pending>>
<1>1. /\ busActive /\ txPacket' = NoPacket
      /\ \/ hostReport' = EmptyReport
         \/ hostReport' = Extend(hostReport, txPacket)
      /\ \/ UNCHANGED awaiting
         \/ awaiting' = NoTag /\ Extend(hostReport, txPacket).head = {awaiting}
      /\ UNCHANGED <<deviceVars, rxReport, busActive, sent>>
  BY DEF HostTakePacket
<1>2. Extend(hostReport, txPacket).head = hostReport.head \cup txPacket.head
  BY DEF Extend
<1>3. UNCHANGED <<transmitting, sReports, sCurrentReport>>
  BY <1>1 DEF deviceVars, bufferVars
<1>4. hostReport'.head \subseteq hostReport.head \cup txPacket.head /\ txPacket'.head = {}
  BY <1>1, <1>2 DEF EmptyReport, NoPacket
<1>. QED
  BY <1>1, <1>2, <1>3, <1>4 DEF Outgoing, Pending

\* Nothing is prepared, asked or on its way at first.
LEMMA WaitingInvInit == Init => WaitingInv
BY DEF Init, WaitingInv, NumberInv, ClashInv, AwaitInv, Outgoing, Pending, Asked, NoTag,
       AnsweredOps, RegularOps, UartOps, EmptyReport, NoPacket

\* A handler keeps the commands in order.
LEMMA HandlerWaits ==
    ASSUME PipelineInv, WaitingInv, HandleOutputReport PROVE WaitingInv'
<1>1. /\ \/ UNCHANGED <<sReportPending, Pending>>
         \/ ~sReportPending'
         \/ sReportPending' /\ Pending' = rxReport /\ Asked
      /\ Outgoing' = Outgoing
      /\ \/ halted' = "no" /\ rxReport' = NoTag /\ pc' = "body"
         \/ halted' # "no" /\ rxReport' = rxReport
      /\ UNCHANGED <<busActive, sent, awaiting, abandoned>>
      /\ rxReport # NoTag
  BY HandlerOutcome
<1>2. /\ Outgoing \subseteq Tag /\ Pending \in Tag /\ rxReport \in Tag
      /\ sent \in Nat /\ \A tag \in Tag : tag.n \in Nat
      /\ NoTag.op \notin AnsweredOps
  BY NumberTypes
<1>3. rxReport.n = sent /\ sent > 0 /\ rxReport.op \in Ops
  BY <1>1 DEF WaitingInv, NumberInv
<1>4. NumberInv'
  <2>1. rxReport' # NoTag => rxReport' = rxReport
    BY <1>1
  <2>2. sReportPending' => \/ sReportPending /\ Pending' = Pending
                           \/ Pending' = rxReport
    BY <1>1
  <2>3. sReportPending' => Pending'.n \in 1..sent
    BY <1>2, <1>3, <2>2 DEF WaitingInv, NumberInv
  <2>4. ASSUME NEW tag \in Outgoing, sReportPending' PROVE tag.n < Pending'.n
    BY <1>1, <1>2, <2>2, <2>4 DEF WaitingInv, NumberInv
  <2>. QED
    BY <1>1, <1>3, <2>1, <2>3, <2>4 DEF WaitingInv, NumberInv
<1>5. ClashInv'
  BY <1>1, <1>2 DEF ClashInv, Asked
<1>6. AwaitInv'
  <2>1. busActive /\ sReportPending' => awaiting = Pending'
    BY <1>1 DEF WaitingInv, AwaitInv
  <2>2. Asked' => Asked /\ rxReport' = rxReport
    BY <1>1, <1>2 DEF Asked
  <2>. QED
    BY <1>1, <2>1, <2>2 DEF WaitingInv, AwaitInv
<1>. QED
  BY <1>4, <1>5, <1>6 DEF WaitingInv

\* transmitPacket keeps the commands in order.
LEMMA TransmitWaits ==
    ASSUME PipelineInv, OrderInv, WaitingInv, Transmit PROVE WaitingInv'
<1>1. /\ \/ Outgoing' \subseteq Outgoing /\ UNCHANGED <<sReportPending, Pending>>
         \/ ~sReportPending' /\ sReportPending /\ Outgoing' \subseteq {Pending}
         \/ ~sReportPending' /\ Outgoing' \subseteq {InputTag}
      /\ ~sUsbSuspended' /\ halted = "no"
      /\ UNCHANGED <<halted, rxReport, busActive, sent, awaiting, abandoned>>
  BY TransmitOutcome
<1>2. /\ Outgoing \subseteq Tag /\ Pending \in Tag /\ rxReport \in Tag
      /\ sent \in Nat /\ \A tag \in Tag : tag.n \in Nat
      /\ InputTag.n = 0
  BY NumberTypes
<1>3. sReportPending' => sReportPending /\ Pending' = Pending /\ Outgoing' \subseteq Outgoing
  BY <1>1
<1>4. NumberInv'
  <2>1. ASSUME NEW tag \in Outgoing'
        PROVE  tag.n <= sent /\ (rxReport # NoTag => tag.n < rxReport.n)
    <3>1. CASE tag \in Outgoing
      BY <3>1 DEF WaitingInv, NumberInv
    <3>2. CASE sReportPending /\ tag = Pending
      BY <1>1, <1>2, <3>2 DEF WaitingInv, NumberInv, ClashInv
    <3>3. CASE tag = InputTag
      BY <1>2, <3>3 DEF WaitingInv, NumberInv
    <3>. QED
      BY <1>1, <2>1, <3>1, <3>2, <3>3
  <2>. QED
    BY <1>1, <1>3, <2>1 DEF WaitingInv, NumberInv
<1>5. ClashInv'
  BY <1>1, <1>3 DEF WaitingInv, ClashInv, Asked
<1>6. AwaitInv'
  BY <1>1, <1>3 DEF WaitingInv, AwaitInv, Asked
<1>. QED
  BY <1>4, <1>5, <1>6 DEF WaitingInv

\* A Switch that waits keeps the commands in order.
LEMMA SendWaits ==
    ASSUME HostWaits, PipelineInv, WaitingInv, NEW op \in Ops, HostSend(op) PROVE WaitingInv'
<1>. DEFINE tag == [op |-> op, n |-> sent + 1]
<1>1. /\ busActive /\ rxReport = NoTag /\ sent' = sent + 1 /\ rxReport' = tag
      /\ op \in AnsweredOps => awaiting = NoTag /\ awaiting' = tag
      /\ op \notin AnsweredOps => awaiting' = awaiting
      /\ UNCHANGED <<deviceVars, txPacket, busActive, hostReport>>
  BY DEF HostSend
<1>2. UNCHANGED <<sReports, sCurrentReport, sReportPending, transmitting, sUsbSuspended, pc,
                  halted>>
  BY <1>1 DEF deviceVars, bufferVars
<1>3. Outgoing' = Outgoing /\ Pending' = Pending /\ (Asked' <=> op \in AnsweredOps)
  BY <1>1, <1>2 DEF Outgoing, Pending, Asked
<1>4. /\ Outgoing \subseteq Tag /\ Pending \in Tag
      /\ sent \in Nat /\ \A t \in Tag : t.n \in Nat
      /\ NoTag.n = 0
  BY NumberTypes
<1>5. tag.n = sent + 1 /\ tag.op = op
  OBVIOUS
<1>6. sReportPending => awaiting = Pending /\ Pending.n \in 1..sent /\ Pending # NoTag
  BY <1>1, <1>4 DEF WaitingInv, AwaitInv, NumberInv
<1>. HIDE DEF tag
<1>7. NumberInv'
  <2>1. ASSUME NEW t \in Outgoing PROVE t.n <= sent /\ t.n \in Nat
    BY <1>4, <2>1 DEF WaitingInv, NumberInv
  <2>2. ASSUME NEW t \in Outgoing
        PROVE  t.n <= sent' /\ t.n < rxReport'.n /\ (sReportPending' => t.n < Pending'.n)
    BY <1>1, <1>2, <1>3, <1>4, <1>5, <2>1 DEF WaitingInv, NumberInv
  <2>3. rxReport'.op \in Ops /\ rxReport'.n = sent' /\ sent' > 0
    BY <1>1, <1>4, <1>5
  <2>4. sReportPending' => Pending'.n \in 1..sent'
    BY <1>1, <1>2, <1>3, <1>4, <1>6
  <2>. QED
    BY <1>3, <2>2, <2>3, <2>4 DEF NumberInv
<1>8. ClashInv'
  <2>1. halted = "no"
    BY <1>1 DEF WaitingInv, ClashInv
  <2>2. Asked' => ~sReportPending'
    BY <1>1, <1>2, <1>3, <1>6
  <2>3. sReportPending' => Pending'.n < rxReport'.n
    BY <1>1, <1>2, <1>3, <1>4, <1>5, <1>6
  <2>. QED
    BY <1>2, <2>1, <2>2, <2>3 DEF WaitingInv, ClashInv
<1>9. AwaitInv'
  BY <1>1, <1>2, <1>3, <1>6 DEF AwaitInv
<1>. QED
  BY <1>7, <1>8, <1>9 DEF WaitingInv

\* Every step of a Switch that waits and of the adapter keeps the commands in
\* order.
LEMMA WaitingInvNext ==
    ASSUME HostWaits
    PROVE  PipelineInv /\ OrderInv /\ WaitingInv /\ [Next]_vars => WaitingInv'
<1>. SUFFICES ASSUME PipelineInv, OrderInv, WaitingInv, [Next]_vars PROVE WaitingInv'
  OBVIOUS
<1>1. CASE HandleOutputReport
  BY <1>1, HandlerWaits
<1>2. CASE Transmit
  BY <1>2, TransmitWaits
<1>3. CASE \E op \in Ops : HostSend(op)
  BY <1>3, SendWaits
<1>4. ASSUME UNCHANGED <<sReports, sCurrentReport, sReportPending, transmitting, txPacket,
                         hostReport, rxReport, halted, sent, busActive, awaiting>>,
             sUsbSuspended' /\ pc' = "poll" => sUsbSuspended /\ pc = "poll"
      PROVE  WaitingInv'
  <2>1. Outgoing' = Outgoing /\ Pending' = Pending /\ Asked' = Asked
    BY <1>4 DEF Outgoing, Pending, Asked
  <2>. QED
    BY <1>4, <2>1 DEF WaitingInv, NumberInv, ClashInv, AwaitInv
<1>5. CASE NothingReceived \/ NothingDue \/ StartOfFrame \/ UNCHANGED vars
  <2>1. UNCHANGED <<sReports, sCurrentReport, sReportPending, transmitting, txPacket,
                    hostReport, rxReport, halted, sent, busActive, awaiting>>
    BY <1>5 DEF NothingReceived, NothingDue, StartOfFrame, LoopBody, deviceVars, bufferVars,
                hostVars, vars
  <2>2. sUsbSuspended' /\ pc' = "poll" => sUsbSuspended /\ pc = "poll"
    BY <1>5 DEF NothingReceived, NothingDue, StartOfFrame, Awake, deviceVars, vars
  <2>. QED
    BY <1>4, <2>1, <2>2
<1>6. CASE Sleep
  <2>1. /\ UNCHANGED <<sReports, sCurrentReport, transmitting, txPacket, hostReport, rxReport,
                       halted, sent, busActive, awaiting>>
        /\ ~sReportPending'
    BY <1>6 DEF Sleep, LoopBody, ClearPendingReport, hostVars
  <2>2. Outgoing' = Outgoing /\ Asked' = Asked
    BY <2>1 DEF Outgoing, Asked
  <2>. QED
    BY <2>1, <2>2 DEF WaitingInv, NumberInv, ClashInv, AwaitInv
<1>7. CASE HostTakePacket
  <2>1. /\ Outgoing' \subseteq Outgoing
        /\ \/ UNCHANGED awaiting
           \/ awaiting' = NoTag /\ awaiting \in Outgoing
        /\ UNCHANGED <<deviceVars, rxReport, busActive, sent, Pending>>
    BY <1>7, TakeOutcome
  <2>2. UNCHANGED <<sReportPending, sUsbSuspended, pc, halted, Asked>>
    BY <2>1 DEF deviceVars, bufferVars, Asked
  <2>3. awaiting \in Outgoing => ~sReportPending /\ ~Asked
    <3>1. /\ Outgoing \subseteq Tag /\ \A tag \in Tag : tag.n \in Nat
          /\ NoTag.op \notin AnsweredOps
      BY NumberTypes
    <3>. QED
      BY <1>7, <2>1, <3>1 DEF WaitingInv, NumberInv, AwaitInv, Asked, HostTakePacket
  <2>4. NumberInv'
    BY <2>1, <2>2 DEF WaitingInv, NumberInv
  <2>5. ClashInv'
    BY <2>1, <2>2 DEF WaitingInv, ClashInv
  <2>6. AwaitInv'
    BY <2>1, <2>2, <2>3 DEF WaitingInv, AwaitInv
  <2>. QED
    BY <2>4, <2>5, <2>6 DEF WaitingInv
<1>8. CASE HostSuspend \/ HostResume
  <2>1. /\ UNCHANGED <<deviceVars, rxReport, txPacket, sent, hostReport>>
        /\ busActive' =>
               rxReport = NoTag /\ sUsbSuspended /\ pc = "poll"
    BY <1>8 DEF HostSuspend, HostResume
  <2>2. UNCHANGED <<sReports, sCurrentReport, sReportPending, transmitting, sUsbSuspended, pc,
                    halted>>
    BY <2>1 DEF deviceVars, bufferVars
  <2>3. Outgoing' = Outgoing /\ Pending' = Pending /\ Asked' = Asked
    BY <2>1, <2>2 DEF Outgoing, Pending, Asked
  <2>4. busActive' => ~sReportPending /\ ~Asked
    BY <2>1, NumberTypes DEF WaitingInv, ClashInv, Asked
  <2>. QED
    BY <2>1, <2>2, <2>3, <2>4 DEF WaitingInv, NumberInv, ClashInv, AwaitInv
<1>. QED
  BY <1>1, <1>2, <1>3, <1>5, <1>6, <1>7, <1>8 DEF Next, Loop, Host

\* The operations that neither halt by themselves nor have too long a reply.
Harmless ==
    /\ Ops \cap {"badUart", "badRegular", "badSpiRead", "badId", "shortRumble"} = {}
    /\ \A op \in Ops \cap UartOps : UartReplyLength(op) <= sReportSize

\* However many commands the Switch sends, if it waits for each reply before
\* it asks again and asks for nothing the adapter halts at, the adapter never
\* enters haltStr6: no reply is prepared over a prepared one (main.cpp:518
\* and 536).
THEOREM NeverStops == HostWaits /\ Harmless => (Spec => []NeverHalts)
<1>. SUFFICES ASSUME HostWaits, Harmless PROVE Spec => []NeverHalts
  OBVIOUS
<1>1. PipelineInv /\ OrderInv /\ WaitingInv /\ [Next]_vars => WaitingInv'
  BY WaitingInvNext
<1>2. Init => NeverHalts
  BY DEF Init, NeverHalts
<1>3. WaitingInv /\ NeverHalts /\ [Next]_vars => NeverHalts'
  <2>. SUFFICES ASSUME WaitingInv, NeverHalts, [Next]_vars PROVE NeverHalts'
    OBVIOUS
  <2>1. CASE HandleOutputReport
    <3>1. /\ rxReport.op \in Ops
          /\ Asked => ~sReportPending
      BY <2>1 DEF WaitingInv, NumberInv, ClashInv, NeverHalts, HandleOutputReport
    <3>2. /\ rxReport.op \notin {"badUart", "badRegular", "badSpiRead", "badId", "shortRumble"}
          /\ rxReport.op \in UartOps => /\ CopiedWithin(rxReport.op)
                                        /\ ~PayloadOverruns(rxReport.op)
      <4>1. rxReport.op \in UartOps => UartReplyLength(rxReport.op) <= sReportSize
        BY <3>1 DEF Harmless
      <4>. QED
        BY <3>1, <4>1, ReplyLengths DEF Harmless, CopiedWithin, FitsReport, sReportSize
    <3>3. ~ReportClash \/ ~Asked
      BY <3>1 DEF ReportClash
    <3>4. UNCHANGED halted
      <4>1. CASE HandleRegular(rxReport)
        BY <3>3, <4>1 DEF HandleRegular, PrepareRegularReply, Asked, AnsweredOps
      <4>2. CASE HandleUart(rxReport)
        BY <3>2, <3>3, <4>2 DEF HandleUart, PrepareUartReply, Asked, AnsweredOps
      <4>3. CASE HandleRumble(rxReport)
        BY <3>2, <4>3 DEF HandleRumble
      <4>4. CASE HandleZero(rxReport)
        BY <4>4 DEF HandleZero, PrepareInputReport
      <4>5. CASE HandleStopInput(rxReport) \/ HandleStartInput(rxReport)
        BY <4>5 DEF HandleStopInput, HandleStartInput
      <4>6. ~HandleBad(rxReport)
        BY <3>2 DEF HandleBad
      <4>. QED
        BY <2>1, <4>1, <4>2, <4>3, <4>4, <4>5, <4>6 DEF HandleOutputReport
    <3>. QED
      BY <3>4 DEF NeverHalts
  <2>2. CASE NothingReceived \/ NothingDue \/ Sleep \/ Transmit
    BY <2>2 DEF NothingReceived, NothingDue, Sleep, Transmit, LoopBody, NeverHalts
  <2>3. CASE StartOfFrame \/ Host \/ UNCHANGED vars
    BY <2>3 DEF StartOfFrame, Host, HostSend, HostTakePacket, HostSuspend, HostResume, deviceVars,
                vars, NeverHalts
  <2>. QED
    BY <2>1, <2>2, <2>3 DEF Next, Loop
<1>. QED
  BY <1>1, <1>2, <1>3, Invariance, OrderInvInit, OrderInvNext, WaitingInvInit, PTL DEF Spec

-----------------------------------------------------------------------------
(* A Switch that waits is served.                                          *)

Request == [op : AnsweredOps, n : 1..MaxCommands]

\* What the Switch gets is the reply it awaits, one it has given up, or a
\* periodic input report.
Expected(tag) ==
    /\ tag # NoTag
    /\ tag = InputTag \/ tag = awaiting \/ tag \in abandoned

ExpectedInv ==
    /\ awaiting # NoTag => awaiting \in Request /\ awaiting.n <= sent
    /\ \A tag \in abandoned : tag \in Request /\ tag.n <= sent
    /\ awaiting \notin abandoned
    /\ \A tag \in Outgoing : Expected(tag)
    /\ sReportPending => Expected(Pending)
    /\ Asked => Expected(rxReport)

\* Nothing is expected and nothing given up at first.
LEMMA ExpectedInvInit == Init => ExpectedInv
BY DEF Init, ExpectedInv, Outgoing, Asked, NoTag, AnsweredOps, RegularOps, UartOps, EmptyReport,
       NoPacket

\* The adapter gives the Switch nothing that it does not expect.
LEMMA LoopExpected ==
    ASSUME PipelineInv, OrderInv, WaitingInv, ExpectedInv, Loop \/ StartOfFrame
    PROVE  ExpectedInv' /\ UNCHANGED Service!serviceVars
<1>1. ASSUME UNCHANGED <<awaiting, abandoned, sent>>,
             \A tag \in Outgoing' : tag \in Outgoing \/ tag = InputTag
                                        \/ (sReportPending /\ tag = Pending),
             sReportPending' => \/ sReportPending /\ Pending' = Pending
                                \/ Asked /\ Pending' = rxReport,
             Asked' => Asked /\ rxReport' = rxReport
      PROVE  ExpectedInv'
  <2>1. \A tag : Expected(tag)' <=> Expected(tag)
    BY <1>1 DEF Expected
  <2>2. Expected(InputTag)
    BY NumberTypes DEF Expected
  <2>3. \A tag \in Outgoing' : Expected(tag)
    BY <1>1, <2>2 DEF ExpectedInv
  <2>4. /\ sReportPending' => Expected(Pending')
        /\ Asked' => Expected(rxReport')
    BY <1>1 DEF ExpectedInv
  <2>5. /\ \A tag \in Outgoing' : Expected(tag)'
        /\ sReportPending' => Expected(Pending)'
        /\ Asked' => Expected(rxReport)'
    BY <1>1, <2>3, <2>4 DEF Expected
  <2>. QED
    BY <1>1, <2>5 DEF ExpectedInv
<1>2. CASE HandleOutputReport
  <2>1. /\ \/ UNCHANGED <<sReportPending, Pending>>
           \/ ~sReportPending'
           \/ sReportPending' /\ Pending' = rxReport /\ Asked
        /\ Outgoing' = Outgoing
        /\ \/ halted' = "no" /\ rxReport' = NoTag /\ pc' = "body"
           \/ halted' # "no" /\ rxReport' = rxReport
        /\ UNCHANGED <<busActive, sent, awaiting, abandoned>>
    BY <1>2, HandlerOutcome
  <2>2. Asked' => Asked /\ rxReport' = rxReport
    BY <2>1, NumberTypes DEF Asked
  <2>3. UNCHANGED received
    BY <1>2 DEF HandleOutputReport, hostVars
  <2>. QED
    BY <1>1, <2>1, <2>2, <2>3 DEF Service!serviceVars
<1>3. CASE Transmit
  <2>1. /\ \/ Outgoing' \subseteq Outgoing /\ UNCHANGED <<sReportPending, Pending>>
           \/ ~sReportPending' /\ sReportPending /\ Outgoing' \subseteq {Pending}
           \/ ~sReportPending' /\ Outgoing' \subseteq {InputTag}
        /\ UNCHANGED <<halted, rxReport, busActive, sent, awaiting, abandoned, received>>
    BY <1>3, TransmitOutcome
  <2>2. Asked' = Asked
    BY <2>1 DEF Asked
  <2>. QED
    BY <1>1, <2>1, <2>2 DEF Service!serviceVars
<1>4. CASE NothingReceived \/ NothingDue \/ StartOfFrame \/ Sleep
  <2>1. /\ UNCHANGED <<sReports, sCurrentReport, transmitting, txPacket, hostReport, rxReport,
                       sent, awaiting, abandoned, received>>
        /\ sReportPending' => sReportPending
    BY <1>4 DEF NothingReceived, NothingDue, StartOfFrame, Sleep, ClearPendingReport, LoopBody,
                deviceVars, bufferVars, hostVars
  <2>2. Outgoing' = Outgoing /\ Pending' = Pending /\ Asked' = Asked
    BY <2>1 DEF Outgoing, Pending, Asked
  <2>. QED
    BY <1>1, <2>1, <2>2 DEF Service!serviceVars
<1>. QED
  BY <1>2, <1>3, <1>4 DEF Loop

\* A Switch that sends a command asks for its reply, if it has one.
LEMMA SendExpected ==
    ASSUME HostWaits, PipelineInv, WaitingInv, ExpectedInv, NEW op \in Ops, HostSend(op)
    PROVE  ExpectedInv' /\ [Service!ServiceNext]_(Service!serviceVars)
<1>. DEFINE tag == [op |-> op, n |-> sent + 1]
<1>1. /\ busActive /\ rxReport = NoTag /\ sent' = sent + 1 /\ rxReport' = tag
      /\ sent < MaxCommands
      /\ op \in AnsweredOps => awaiting = NoTag /\ awaiting' = tag
      /\ op \notin AnsweredOps => awaiting' = awaiting
      /\ UNCHANGED <<deviceVars, txPacket, busActive, hostReport, received, abandoned>>
  BY DEF HostSend
<1>2. UNCHANGED <<sReports, sCurrentReport, sReportPending, transmitting>>
  BY <1>1 DEF deviceVars, bufferVars
<1>3. Outgoing' = Outgoing /\ Pending' = Pending /\ (Asked' <=> op \in AnsweredOps)
  BY <1>1, <1>2 DEF Outgoing, Pending, Asked
<1>4. sent \in Nat /\ MaxCommands \in Nat
  BY NumberTypes, ConstantsAssumption DEF ConstantsAssumption
<1>5. /\ tag.n = sent + 1
      /\ op \in AnsweredOps => tag \in Request
      /\ tag # NoTag
  BY <1>1, <1>4 DEF Request, NoTag
<1>. HIDE DEF tag
<1>6. \A t \in Request : t.n \in Nat
  BY <1>4 DEF Request
<1>7. \A t : Expected(t) => t # NoTag /\ (t = InputTag \/ t = awaiting' \/ t \in abandoned')
  BY <1>1 DEF Expected
<1>8. \A t \in abandoned : t \in Request /\ t.n <= sent /\ t # tag
  BY <1>4, <1>5 DEF ExpectedInv
<1>9. /\ awaiting' # NoTag => awaiting' \in Request /\ awaiting'.n <= sent'
      /\ awaiting' \notin abandoned'
      /\ \A t \in abandoned' : t \in Request /\ t.n <= sent'
  <2>1. CASE op \in AnsweredOps
    BY <1>1, <1>4, <1>5, <1>6, <1>8, <2>1
  <2>2. CASE op \notin AnsweredOps
    BY <1>1, <1>4, <1>6, <1>8, <2>2 DEF ExpectedInv
  <2>. QED
    BY <2>1, <2>2
<1>10. /\ \A t \in Outgoing' : Expected(t)'
       /\ sReportPending' => Expected(Pending)'
       /\ Asked' => Expected(rxReport)'
  BY <1>1, <1>2, <1>3, <1>5, <1>7 DEF ExpectedInv, Expected
<1>11. [Service!ServiceNext]_(Service!serviceVars)
  <2>1. CASE op \in AnsweredOps
    BY <1>1, <1>5, <2>1 DEF Service!ServiceNext, Service!Ask, Request
  <2>2. CASE op \notin AnsweredOps
    BY <1>1, <2>2 DEF Service!serviceVars
  <2>. QED
    BY <2>1, <2>2
<1>. QED
  BY <1>9, <1>10, <1>11 DEF ExpectedInv

\* A Switch that takes a report has its answer, an input report, or the reply
\* to a command it has given up.
LEMMA TakeExpected ==
    ASSUME PipelineInv, OrderInv, IntactInv, WaitingInv, ExpectedInv, HostTakePacket
    PROVE  ExpectedInv' /\ [Service!ServiceNext]_(Service!serviceVars)
<1>. DEFINE report == Extend(hostReport, txPacket)
            complete == txPacket.size < PacketSize \/ report.length = sReportSize
<1>1. /\ busActive /\ txPacket # NoPacket /\ txPacket' = NoPacket
      /\ hostReport' = IF complete THEN EmptyReport ELSE report
      /\ received' = IF complete THEN report ELSE received
      /\ awaiting' = IF complete /\ report.head = {awaiting} THEN NoTag ELSE awaiting
      /\ abandoned' = IF complete THEN abandoned \ report.head ELSE abandoned
      /\ UNCHANGED <<deviceVars, rxReport, sent>>
  BY DEF HostTakePacket
<1>2. complete <=> ~transmitting.active
  BY <1>1, LastPacket
<1>3. UNCHANGED <<sReports, sCurrentReport, sReportPending, transmitting>>
  BY <1>1 DEF deviceVars, bufferVars
<1>4. Pending' = Pending /\ Asked' = Asked
  BY <1>1, <1>3 DEF Pending, Asked
<1>. HIDE DEF complete
<1>5. CASE ~complete
  <2>1. UNCHANGED <<awaiting, abandoned, received>>
    BY <1>1, <1>5
  <2>2. Outgoing' \subseteq Outgoing
    BY TakeOutcome
  <2>3. ExpectedInv'
    BY <1>1, <1>3, <1>4, <2>1, <2>2 DEF ExpectedInv, Expected
  <2>. QED
    BY <2>1, <2>3 DEF Service!serviceVars
<1>6. CASE complete
  <2>1. PICK tag \in Tag : report = CompleteReport(tag)
    BY <1>1, <1>2, <1>6 DEF IntactInv, DeliveredInv, Assembled
  <2>2. report.head = {tag} /\ report.head = hostReport.head \cup txPacket.head
    BY <2>1, Completes DEF Extend
  <2>3. tag \in Outgoing
    BY <2>2 DEF Outgoing
  <2>4. Outgoing' = {}
    BY <1>1, <1>2, <1>3, <1>6 DEF Outgoing, EmptyReport, NoPacket
  <2>5. Expected(tag) /\ tag # NoTag
    BY <2>3 DEF ExpectedInv, Expected
  <2>6. /\ received' = CompleteReport(tag)
        /\ awaiting' = IF tag = awaiting THEN NoTag ELSE awaiting
        /\ abandoned' = abandoned \ {tag}
    BY <1>1, <1>6, <2>1, <2>2
  <2>7. /\ sReportPending => Pending # tag
        /\ Asked => rxReport # tag
    <3>1. /\ Pending \in Tag /\ rxReport \in Tag /\ \A t \in Tag : t.n \in Nat
          /\ NoTag.op \notin AnsweredOps
      BY NumberTypes
    <3>. QED
      BY <2>3, <3>1 DEF WaitingInv, NumberInv, Asked
  <2>8. \A t : t # tag /\ Expected(t) =>
            t # NoTag /\ (t = InputTag \/ t = awaiting' \/ t \in abandoned')
    BY <2>6 DEF Expected
  <2>9. ExpectedInv'
    <3>1. /\ awaiting' # NoTag => awaiting' \in Request /\ awaiting'.n <= sent
          /\ awaiting' \notin abandoned'
          /\ \A t \in abandoned' : t \in Request /\ t.n <= sent
      <4>1. NoTag \notin abandoned
        <5>1. MaxCommands \in Nat /\ NoTag.n = 0
          BY NumberTypes, ConstantsAssumption DEF ConstantsAssumption
        <5>. QED
          BY <5>1 DEF ExpectedInv, Request
      <4>. QED
        BY <2>6, <4>1 DEF ExpectedInv
    <3>2. /\ sReportPending' => Expected(Pending)'
          /\ Asked' => Expected(rxReport)'
      BY <1>1, <1>3, <1>4, <2>7, <2>8 DEF ExpectedInv, Expected
    <3>. QED
      BY <1>1, <2>4, <3>1, <3>2 DEF ExpectedInv
  <2>10. Service!ServiceNext
    <3>1. CASE tag = awaiting
      <4>1. UNCHANGED abandoned
        BY <2>6, <3>1 DEF ExpectedInv
      <4>. QED
        BY <2>5, <2>6, <3>1, <4>1 DEF Service!ServiceNext, Service!Answer
    <3>2. CASE tag # awaiting /\ tag \in abandoned
      <4>1. tag \in Request
        BY <3>2 DEF ExpectedInv
      <4>2. Service!AnswerLate(tag)
        BY <2>6, <3>2 DEF Service!AnswerLate
      <4>. QED
        BY <4>1, <4>2 DEF Service!ServiceNext, Request
    <3>3. CASE tag # awaiting /\ tag \notin abandoned
      <4>1. tag = InputTag
        BY <2>5, <3>3 DEF Expected
      <4>2. UNCHANGED <<awaiting, abandoned>>
        BY <2>6, <3>3
      <4>. QED
        BY <2>6, <4>1, <4>2 DEF Service!ServiceNext, Service!Volunteer
    <3>. QED
      BY <3>1, <3>2, <3>3
  <2>. QED
    BY <2>9, <2>10
<1>. QED
  BY <1>5, <1>6

\* A Switch that suspends the bus gives up what it awaits.
LEMMA SuspendExpected ==
    ASSUME PipelineInv, WaitingInv, ExpectedInv, HostSuspend \/ HostResume
    PROVE  ExpectedInv' /\ [Service!ServiceNext]_(Service!serviceVars)
<1>1. UNCHANGED <<deviceVars, rxReport, txPacket, sent, hostReport, received>>
  BY DEF HostSuspend, HostResume
<1>2. UNCHANGED <<sReports, sCurrentReport, sReportPending, transmitting>>
  BY <1>1 DEF deviceVars, bufferVars
<1>3. Outgoing' = Outgoing /\ Pending' = Pending /\ Asked' = Asked
  BY <1>1, <1>2 DEF Outgoing, Pending, Asked
<1>4. CASE UNCHANGED <<awaiting, abandoned>>
  <2>1. ExpectedInv'
    BY <1>1, <1>2, <1>3, <1>4 DEF ExpectedInv, Expected
  <2>. QED
    BY <1>1, <1>4, <2>1 DEF Service!serviceVars
<1>5. CASE awaiting' = NoTag /\ abandoned' = abandoned \cup ({awaiting} \ {NoTag})
  <2>1. CASE awaiting = NoTag
    BY <1>4, <1>5, <2>1
  <2>2. CASE awaiting # NoTag
    <3>1. abandoned' = abandoned \cup {awaiting}
      BY <1>5, <2>2
    <3>2. NoTag \notin abandoned'
      <4>1. MaxCommands \in Nat /\ NoTag.n = 0
        BY NumberTypes, ConstantsAssumption DEF ConstantsAssumption
      <4>. QED
        BY <2>2, <3>1, <4>1 DEF ExpectedInv, Request
    <3>3. ExpectedInv'
      BY <1>1, <1>2, <1>3, <1>5, <2>2, <3>1, <3>2 DEF ExpectedInv, Expected
    <3>4. Service!GiveUp
      BY <1>1, <1>5, <2>2, <3>1 DEF Service!GiveUp
    <3>. QED
      BY <3>3, <3>4 DEF Service!ServiceNext
  <2>. QED
    BY <2>1, <2>2
<1>. QED
  BY <1>4, <1>5 DEF HostSuspend, HostResume

\* Every step is a step of the service, or none.
LEMMA ExpectedInvNext ==
    ASSUME HostWaits
    PROVE  PipelineInv /\ OrderInv /\ IntactInv /\ WaitingInv /\ ExpectedInv /\ [Next]_vars
               => ExpectedInv' /\ [Service!ServiceNext]_(Service!serviceVars)
<1>. SUFFICES ASSUME PipelineInv, OrderInv, IntactInv, WaitingInv, ExpectedInv, [Next]_vars
              PROVE  ExpectedInv' /\ [Service!ServiceNext]_(Service!serviceVars)
  OBVIOUS
<1>1. CASE Loop \/ StartOfFrame
  BY <1>1, LoopExpected
<1>2. CASE \E op \in Ops : HostSend(op)
  BY <1>2, SendExpected
<1>3. CASE HostTakePacket
  BY <1>3, TakeExpected
<1>4. CASE HostSuspend \/ HostResume
  BY <1>4, SuspendExpected
<1>5. CASE UNCHANGED vars
  <2>1. UNCHANGED <<sReports, sCurrentReport, sReportPending, transmitting, txPacket, hostReport,
                    rxReport, sent, awaiting, abandoned, received>>
    BY <1>5 DEF vars, bufferVars, hostVars
  <2>2. Outgoing' = Outgoing /\ Pending' = Pending /\ Asked' = Asked
    BY <2>1 DEF Outgoing, Pending, Asked
  <2>3. ExpectedInv'
    BY <2>1, <2>2 DEF ExpectedInv, Expected
  <2>. QED
    BY <2>1, <2>3 DEF Service!serviceVars
<1>. QED
  BY <1>1, <1>2, <1>3, <1>4, <1>5 DEF Next, Host

\* The pipeline implements the reply service but for its liveness: the Switch
\* gets the complete reply to what it awaits, a complete input report, or the
\* complete reply to a command it has given up, each reply once, and nothing
\* else.
THEOREM Serves ==
    HostWaits /\ NothingSpoiled =>
        (Spec => Service!ServiceInit /\ [][Service!ServiceNext]_(Service!serviceVars))
<1>. SUFFICES ASSUME HostWaits, NothingSpoiled
              PROVE  Spec => /\ Service!ServiceInit
                             /\ [][Service!ServiceNext]_(Service!serviceVars)
  OBVIOUS
<1>1. Init => Service!ServiceInit
  BY DEF Init, Service!ServiceInit
<1>2. PipelineInv /\ OrderInv /\ IntactInv /\ [Next]_vars => IntactInv'
  BY IntactInvNext
<1>3. PipelineInv /\ OrderInv /\ WaitingInv /\ [Next]_vars => WaitingInv'
  BY WaitingInvNext
<1>4. PipelineInv /\ OrderInv /\ IntactInv /\ WaitingInv /\ ExpectedInv /\ [Next]_vars
          => ExpectedInv' /\ [Service!ServiceNext]_(Service!serviceVars)
  BY ExpectedInvNext
<1>. QED
  BY <1>1, <1>2, <1>3, <1>4, Invariance, OrderInvInit, OrderInvNext, IntactInvInit,
     WaitingInvInit, ExpectedInvInit, PTL DEF Spec

=============================================================================
