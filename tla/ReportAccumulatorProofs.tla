---------------------- MODULE ReportAccumulatorProofs ----------------------
(***************************************************************************)
(* The accumulation buffer never overflows, whatever lengths the host's    *)
(* reports have, wherever it gives them up and whatever it repeats; and    *)
(* what is dispatched in step with the host is what the host sent.         *)
(***************************************************************************)
EXTENDS ReportAccumulator, TLAPS

\* The count leaves room for a packet, and the host's place is within its
\* report, so that a packet has at most eight bytes and no fewer than none.
CountInv ==
    /\ accumulatedReportBytes \in 0..sReportSize
    /\ RoomForPacket
    /\ length \in 0..sReportSize
    /\ offset \in 0..length

\* One packet of at most eight bytes, the full ones counted, the short ones
\* ending the report.
LEMMA WriteOutCount ==
    ASSUME accumulatedReportBytes \in 0..sReportSize, RoomForPacket,
           NEW packet, NEW len \in 0..PacketSize,
           WriteOut(packet, len) \/ DropEmpty(len)
    PROVE  accumulatedReportBytes' \in 0..sReportSize /\ RoomForPacket'
<1>1. CASE WriteOutSingle(packet, len)
  BY <1>1 DEF WriteOutSingle, ResetCount, RoomForPacket, sReportSize, PacketSize
<1>2. CASE WriteOutLast(packet, len)
  BY <1>2 DEF WriteOutLast, ResetCount, RoomForPacket, sReportSize, PacketSize
<1>3. CASE WriteOutMore(packet, len)
  <2>1. /\ len = PacketSize
        /\ accumulatedReportBytes + len # sReportSize
        /\ accumulatedReportBytes' = accumulatedReportBytes + len
    BY <1>3 DEF WriteOutMore, ReportComplete
  <2>. QED
    BY <2>1 DEF RoomForPacket, sReportSize, PacketSize
<1>4. CASE UNCHANGED accumulatedReportBytes
  BY <1>4 DEF RoomForPacket
<1>. QED
  BY <1>1, <1>2, <1>3, <1>4 DEF WriteOut, DropEmpty, handlerVars

\* Nothing is accumulated at first.
LEMMA CountInvInit == Init => CountInv
BY DEF Init, CountInv, RoomForPacket, sReportSize, PacketSize

\* Packets, empty packets and abandoned reports keep the count on a packet
\* boundary below the size of the buffer.
LEMMA CountInvNext == CountInv /\ [Next]_vars => CountInv'
<1>. SUFFICES ASSUME CountInv, [Next]_vars PROVE CountInv'
  OBVIOUS
<1>1. ASSUME NEW len \in Lengths, BeginReport(len) PROVE CountInv'
  BY <1>1, AccumulatorAssumption
     DEF BeginReport, handlerVars, CountInv, RoomForPacket, AccumulatorAssumption,
         sReportSize
<1>2. CASE SendPacket
  <2>. DEFINE rest == length - offset
              len == IF rest < PacketSize THEN rest ELSE PacketSize
              packet == [report |-> sent, at |-> offset \div PacketSize]
  <2>1. /\ WriteOut(packet, len) \/ DropEmpty(len)
        /\ offset' = offset + len
        /\ length' = length
    BY <1>2 DEF SendPacket
  <2>2. len \in 0..PacketSize /\ offset + len \in 0..length
    BY DEF CountInv, sReportSize, PacketSize
  <2>. HIDE DEF len, packet
  <2>3. accumulatedReportBytes' \in 0..sReportSize /\ RoomForPacket'
    BY <2>1, <2>2, WriteOutCount DEF CountInv
  <2>. QED
    BY <2>1, <2>2, <2>3 DEF CountInv
<1>3. CASE HaltTransfer
  BY <1>3 DEF HaltTransfer, handlerVars, CountInv, RoomForPacket
<1>4. CASE ClearHalt
  BY <1>4 DEF ClearHalt, Abandon, AbandonBytes, CountInv, RoomForPacket, sReportSize,
              PacketSize
<1>5. CASE BreakOff
  BY <1>5 DEF BreakOff, handlerVars, CountInv, RoomForPacket
<1>6. CASE RepeatPacket
  <2>. DEFINE at == (offset - 1) \div PacketSize
              len == offset - PacketSize * at
              packet == [report |-> sent, at |-> at]
  <2>1. /\ WriteOut(packet, len)
        /\ offset > 0
        /\ UNCHANGED <<length, offset>>
    BY <1>6 DEF RepeatPacket, hostVars
  <2>2. len \in 0..PacketSize
    BY <2>1 DEF CountInv, sReportSize, PacketSize
  <2>. HIDE DEF len, packet
  <2>3. accumulatedReportBytes' \in 0..sReportSize /\ RoomForPacket'
    BY <2>1, <2>2, WriteOutCount DEF CountInv
  <2>. QED
    BY <2>1, <2>3 DEF CountInv
<1>7. CASE Done \/ UNCHANGED vars
  BY <1>7 DEF Done, vars, handlerVars, hostVars, CountInv, RoomForPacket
<1>. QED
  BY <1>1, <1>2, <1>3, <1>4, <1>5, <1>6, <1>7 DEF Next

\* There is always room for one more packet in reportAccumulationBuffer, for
\* reports of every length, with empty packets, transfers given up or broken
\* off and packets repeated.
THEOREM AlwaysRoom == Spec => []RoomForPacket
<1>1. CountInv => RoomForPacket
  BY DEF CountInv
<1>. QED
  BY <1>1, CountInvInit, CountInvNext, PTL DEF Spec

-----------------------------------------------------------------------------
(* What is dispatched.                                                     *)

\* The packets of a report of that many bytes.
PacketCount(bytes) == (bytes + PacketSize - 1) \div PacketSize

StateTypes ==
    /\ reportAccumulationBuffer = [s \in Slots |-> reportAccumulationBuffer[s]]
    /\ sent \in Nat
    /\ ended \in BOOLEAN /\ halted \in BOOLEAN
    /\ settled \in BOOLEAN /\ intact \in BOOLEAN /\ trusted \in BOOLEAN

\* While host and handler are in step the buffer holds the packets of the
\* report the host is sending, as many as it has sent, and between reports
\* none.
InStep ==
    /\ ~ended => offset % PacketSize = 0
    /\ settled /\ ended => accumulatedReportBytes = 0
    /\ settled /\ ~ended =>
           /\ accumulatedReportBytes = offset
           /\ accumulatedReportBytes # 0 => reportId = sent
           /\ \A s \in Slots : s < accumulatedReportBytes \div PacketSize =>
                  reportAccumulationBuffer[s] = [report |-> sent, at |-> s]
    /\ intact /\ ~ended => settled
    /\ halted => ~ended /\ ~intact

\* The length a report was dispatched with and its packets agree, even when
\* they are not one report's.
LengthAgrees == reportIn # <<>> => DOMAIN reportIn = 1..PacketCount(reportLength)

DispatchInv ==
    CountInv /\ StateTypes /\ InStep /\ LengthAgrees /\ DispatchedWhole /\ EndOfTransferSeen

\* A packet that completes a report dispatches what is accumulated and itself
\* behind it; another one is put behind what is accumulated.
LEMMA WriteOutEffect ==
    ASSUME CountInv, StateTypes, NEW packet, NEW len \in 0..PacketSize, WriteOut(packet, len)
    PROVE  /\ len > 0
           /\ reportId' = IF accumulatedReportBytes = 0 THEN packet.report ELSE reportId
           /\ \/ /\ ReportComplete(len, accumulatedReportBytes + len)
                 /\ accumulatedReportBytes' = 0
                 /\ reportLength' = accumulatedReportBytes + len
                 /\ dispatchedId' = reportId'
                 /\ reportIn' = [i \in 1..PacketCount(accumulatedReportBytes + len) |->
                                     IF i - 1 = accumulatedReportBytes \div PacketSize
                                     THEN packet ELSE reportAccumulationBuffer[i - 1]]
                 /\ reportAccumulationBuffer' = [s \in Slots |-> reportAccumulationBuffer'[s]]
              \/ /\ ~ReportComplete(len, accumulatedReportBytes + len)
                 /\ accumulatedReportBytes' = accumulatedReportBytes + PacketSize
                 /\ reportAccumulationBuffer' =
                        [s \in Slots |-> IF s = accumulatedReportBytes \div PacketSize
                                         THEN packet ELSE reportAccumulationBuffer[s]]
                 /\ UNCHANGED <<reportIn, reportLength, dispatchedId>>
<1>. DEFINE A == accumulatedReportBytes
            slot == A \div PacketSize
<1>1. /\ A \in 0..56 /\ A % 8 = 0 /\ slot \in Slots /\ Slots = 0..7
      /\ slot = A \div 8 /\ A = 8 * slot
  BY DEF CountInv, RoomForPacket, Slots, sReportSize, PacketSize
<1>2. Accumulated(packet) = [s \in Slots |-> IF s = slot THEN packet
                                             ELSE reportAccumulationBuffer[s]]
  BY <1>1 DEF Accumulated, StateTypes
<1>3. len > 0 /\ reportId' = IF A = 0 THEN packet.report ELSE reportId
  BY DEF WriteOut, TakeReportId
<1>4. CASE WriteOutSingle(packet, len)
  <2>1. A = 0 /\ ReportComplete(len, A + len) /\ len \in 1..7
    BY <1>3, <1>4 DEF WriteOutSingle, ReportComplete, sReportSize, PacketSize
  <2>2. PacketCount(A + len) = 1 /\ slot = 0
    BY <1>1, <2>1 DEF PacketCount, PacketSize
  <2>3. <<packet>> = [i \in 1..1 |-> IF i - 1 = 0 THEN packet
                                     ELSE reportAccumulationBuffer[i - 1]]
    OBVIOUS
  <2>4. /\ reportIn' = <<packet>> /\ reportLength' = A + len /\ dispatchedId' = reportId'
        /\ accumulatedReportBytes' = 0
        /\ reportAccumulationBuffer' = [s \in Slots |-> reportAccumulationBuffer'[s]]
    BY <1>4, <2>1 DEF WriteOutSingle, Dispatch, ResetCount, StateTypes
  <2>. QED
    BY <1>3, <2>1, <2>2, <2>3, <2>4
<1>5. CASE WriteOutLast(packet, len)
  <2>1. /\ ReportComplete(len, A + len) /\ reportLength' = A + len
        /\ dispatchedId' = reportId' /\ accumulatedReportBytes' = 0
        /\ reportAccumulationBuffer' = Accumulated(packet)
        /\ reportIn' = Contents(Accumulated(packet), A + len)
    BY <1>5 DEF WriteOutLast, Dispatch, ResetCount
  <2>2. A + len \in 1..64 /\ PacketCount(A + len) \in 1..8
    BY <1>1, <1>3 DEF PacketCount, PacketSize
  <2>3. reportIn' = [i \in 1..PacketCount(A + len) |->
                         IF i - 1 = slot THEN packet ELSE reportAccumulationBuffer[i - 1]]
    BY <1>1, <1>2, <2>1, <2>2 DEF Contents, PacketCount
  <2>. QED
    BY <1>2, <1>3, <2>1, <2>3
<1>6. CASE WriteOutMore(packet, len)
  <2>1. /\ ~ReportComplete(len, A + len) /\ accumulatedReportBytes' = A + len
        /\ reportAccumulationBuffer' = Accumulated(packet)
        /\ UNCHANGED <<reportIn, reportLength, dispatchedId>>
    BY <1>6 DEF WriteOutMore
  <2>2. len = PacketSize
    BY <2>1 DEF ReportComplete
  <2>. QED
    BY <1>2, <1>3, <2>1, <2>2
<1>. QED
  BY <1>4, <1>5, <1>6 DEF WriteOut

\* Whatever is dispatched, its length and its packets agree; what is not
\* trusted any more, or is the same packets again, is whole if it was.
LEMMA StaysWhole ==
    ASSUME CountInv, StateTypes, LengthAgrees, DispatchedWhole,
           NEW packet, NEW len \in 0..PacketSize, WriteOut(packet, len), Trusts(FALSE)
    PROVE  LengthAgrees' /\ DispatchedWhole'
<1>1. CASE UNCHANGED <<reportIn, reportLength, dispatchedId>>
  BY <1>1 DEF LengthAgrees, DispatchedWhole, Trusts
<1>2. CASE reportIn' = [i \in 1..PacketCount(accumulatedReportBytes + len) |->
                            IF i - 1 = accumulatedReportBytes \div PacketSize
                            THEN packet ELSE reportAccumulationBuffer[i - 1]]
           /\ reportLength' = accumulatedReportBytes + len
  <2>1. LengthAgrees' /\ DOMAIN reportIn' = 1..PacketCount(reportLength')
    BY <1>2 DEF LengthAgrees
  <2>2. ASSUME trusted', reportIn' # <<>> PROVE reportIn' = PacketsOf(dispatchedId', reportLength')
    <3>1. reportIn' = reportIn /\ dispatchedId' = dispatchedId /\ trusted
      BY <2>2 DEF Trusts
    <3>2. /\ reportIn = PacketsOf(dispatchedId, reportLength)
          /\ 1..PacketCount(reportLength) = 1..PacketCount(reportLength')
      BY <2>1, <2>2, <3>1 DEF DispatchedWhole, LengthAgrees
    <3>. QED
      BY <3>1, <3>2 DEF PacketsOf, PacketCount
  <2>. QED
    BY <2>1, <2>2 DEF DispatchedWhole
<1>. QED
  BY <1>1, <1>2, WriteOutEffect

\* What is dispatched in step is the report the host is sending.
LEMMA DispatchesSent ==
    ASSUME DispatchInv, settled, ~ended,
           NEW packet, packet = [report |-> sent, at |-> offset \div PacketSize],
           NEW len \in 0..PacketSize, WriteOut(packet, len), Trusts(settled)
    PROVE  /\ LengthAgrees' /\ DispatchedWhole'
           /\ reportId' = sent
           /\ ReportComplete(len, offset + len) =>
                  dispatchedId' = sent /\ reportLength' = offset + len
<1>1. /\ accumulatedReportBytes = offset /\ offset \in 0..56 /\ offset % 8 = 0
      /\ offset # 0 => reportId = sent
      /\ \A s \in Slots : s < offset \div 8 =>
             reportAccumulationBuffer[s] = [report |-> sent, at |-> s]
      /\ CountInv /\ StateTypes
  BY DEF DispatchInv, InStep, CountInv, RoomForPacket, sReportSize, PacketSize
<1>2. reportId' = sent
  BY <1>1, WriteOutEffect
<1>3. CASE ~ReportComplete(len, offset + len)
  <2>1. UNCHANGED <<reportIn, reportLength, dispatchedId>>
    BY <1>1, <1>3, WriteOutEffect
  <2>2. trusted' = trusted
    BY <2>1 DEF Trusts
  <2>. QED
    BY <1>2, <1>3, <2>1, <2>2 DEF DispatchInv, LengthAgrees, DispatchedWhole
<1>4. CASE ReportComplete(len, offset + len)
  <2>1. /\ dispatchedId' = sent /\ reportLength' = offset + len
        /\ reportIn' = [i \in 1..PacketCount(offset + len) |->
                            IF i - 1 = offset \div PacketSize
                            THEN packet ELSE reportAccumulationBuffer[i - 1]]
    BY <1>1, <1>2, <1>4, WriteOutEffect
  <2>2. PacketCount(offset + len) = offset \div 8 + 1
    <3>1. len \in 1..8
      BY <1>1, WriteOutEffect DEF PacketSize
    <3>2. PICK k \in Nat : offset = 8 * k /\ k = offset \div 8
      BY <1>1
    <3>. QED
      BY <3>1, <3>2 DEF PacketCount, PacketSize
  <2>3. \A i \in 1..PacketCount(offset + len) :
            i - 1 \in Slots /\ (i - 1 = offset \div 8 \/ i - 1 < offset \div 8)
    BY <1>1, <2>2 DEF Slots, sReportSize, PacketSize
  <2>4. reportIn' = [i \in 1..PacketCount(offset + len) |-> [report |-> sent, at |-> i - 1]]
    BY <1>1, <2>1, <2>3 DEF PacketSize
  <2>5. reportIn' = PacketsOf(dispatchedId', reportLength')
    BY <2>1, <2>4 DEF PacketsOf, PacketCount
  <2>. QED
    BY <1>2, <2>1, <2>5 DEF LengthAgrees, DispatchedWhole
<1>. QED
  BY <1>2, <1>3, <1>4

\* The handler and the host begin in step, with nothing dispatched.
LEMMA DispatchInvInit == Init => DispatchInv
<1>. SUFFICES ASSUME Init PROVE DispatchInv
  OBVIOUS
<1>1. CountInv
  BY CountInvInit
<1>2. StateTypes /\ InStep
  BY DEF Init, StateTypes, InStep, PacketSize
<1>3. LengthAgrees /\ DispatchedWhole /\ EndOfTransferSeen
  BY DEF Init, LengthAgrees, DispatchedWhole, EndOfTransferSeen
<1>. QED
  BY <1>1, <1>2, <1>3 DEF DispatchInv

\* Reports, halts, broken off reports and repeated packets keep what is
\* dispatched in step with the host wherever the host can tell.
LEMMA DispatchInvNext == DispatchInv /\ [Next]_vars => DispatchInv'
<1>. SUFFICES ASSUME DispatchInv, [Next]_vars PROVE DispatchInv'
  OBVIOUS
<1>. DispatchInv /\ CountInv'
  BY CountInvNext DEF DispatchInv
<1>1. ASSUME NEW len \in Lengths, BeginReport(len) PROVE DispatchInv'
  <2>1. /\ UNCHANGED handlerVars /\ UNCHANGED <<halted, settled, trusted>>
        /\ ended /\ ~halted
        /\ offset' = 0 /\ ~ended' /\ intact' = settled /\ sent' = sent + 1
        /\ ended' \in BOOLEAN
    BY <1>1 DEF BeginReport
  <2>2. StateTypes'
    BY <2>1 DEF DispatchInv, StateTypes, handlerVars
  <2>3. InStep'
    BY <2>1 DEF DispatchInv, InStep, StateTypes, CountInv, handlerVars, PacketSize, Slots,
                sReportSize
  <2>4. LengthAgrees' /\ DispatchedWhole' /\ EndOfTransferSeen'
    BY <2>1 DEF DispatchInv, LengthAgrees, DispatchedWhole, EndOfTransferSeen, handlerVars
  <2>. QED
    BY <2>2, <2>3, <2>4 DEF DispatchInv
<1>2. CASE SendPacket
  <2>. DEFINE rest == length - offset
              len == IF rest < PacketSize THEN rest ELSE PacketSize
              packet == [report |-> sent, at |-> offset \div PacketSize]
  <2>1. /\ ~ended /\ ~halted
        /\ WriteOut(packet, len) \/ DropEmpty(len)
        /\ offset' = offset + len
        /\ ended' = (len < PacketSize \/ offset + len = sReportSize)
        /\ Settles(len) /\ Trusts(settled)
        /\ intact' = (intact /\ len # 0)
        /\ UNCHANGED <<sent, length, halted>>
    BY <1>2 DEF SendPacket
  <2>2. /\ length \in 0..sReportSize /\ offset \in 0..length /\ offset % PacketSize = 0
    BY <2>1 DEF DispatchInv, CountInv, InStep
  <2>3. /\ len \in 0..PacketSize /\ offset + len \in 0..length
        /\ len < PacketSize => offset + len = length
    BY <2>2 DEF sReportSize, PacketSize
  <2>. HIDE DEF len, packet, rest
  <2>4. CASE DropEmpty(len)
    <3>1. /\ len = 0 /\ UNCHANGED handlerVars /\ ended' = TRUE /\ intact' = FALSE
          /\ settled' = (settled /\ accumulatedReportBytes = 0)
      <4>1. len = 0 /\ UNCHANGED handlerVars
        BY <2>4 DEF DropEmpty
      <4>2. settled' = (settled /\ accumulatedReportBytes = 0)
        BY <4>1, <2>1 DEF Settles, PacketSize
      <4>3. len < PacketSize /\ ~(len # 0)
        BY <4>1 DEF PacketSize
      <4>. QED
        BY <4>1, <4>2, <4>3, <2>1, Zenon
    <3>2. UNCHANGED trusted
      BY <2>1, <3>1 DEF Trusts, handlerVars
    <3>3. StateTypes'
      BY <2>1, <3>1, <3>2 DEF DispatchInv, StateTypes, handlerVars
    <3>4. InStep'
      BY <2>1, <3>1 DEF DispatchInv, InStep, handlerVars
    <3>5. LengthAgrees' /\ DispatchedWhole' /\ EndOfTransferSeen'
      BY <3>1, <3>2 DEF DispatchInv, LengthAgrees, DispatchedWhole, EndOfTransferSeen,
                        handlerVars
    <3>. QED
      BY <3>3, <3>4, <3>5 DEF DispatchInv
  <2>5. CASE WriteOut(packet, len)
    <3>1. len \in 1..8 /\ (len # 8 => settled' = TRUE) /\ (len = 8 => settled' = settled)
          /\ intact' = intact
      <4>1. len > 0
        BY <2>5 DEF WriteOut
      <4>2. len \in 1..8 /\ (len = 8 <=> ~(len \in 1..(PacketSize - 1))) /\ len # 0
        BY <2>3, <4>1 DEF PacketSize
      <4>3. intact' = intact
        BY <2>1, <4>1 DEF DispatchInv, StateTypes
      <4>4. CASE len = 8
        <5>1. ~(len \in 1..(PacketSize - 1)) /\ len # 0
          BY <4>2, <4>4
        <5>2. settled' = settled
          BY <2>1, <5>1 DEF Settles
        <5>. QED
          BY <4>2, <4>4, <5>2, <4>3
      <4>5. CASE len # 8
        <5>1. len \in 1..(PacketSize - 1)
          BY <4>2, <4>5
        <5>2. settled' = TRUE
          BY <2>1, <4>2, <5>1 DEF Settles
        <5>. QED
          BY <4>2, <4>5, <5>2, <4>3
      <4>. QED
        BY <4>4, <4>5
    <3>2. StateTypes'
      BY <2>1, <2>2, <2>3, <2>5, <3>1, WriteOutEffect DEF DispatchInv, StateTypes, Trusts
    <3>3. LengthAgrees' /\ DispatchedWhole'
      <4>1. CASE settled
        BY <4>1, <2>1, <2>2, <2>3, <2>5, DispatchesSent DEF packet
      <4>2. CASE ~settled
        <5>1. Trusts(FALSE)
          BY <4>2, <2>1 DEF DispatchInv, StateTypes, Trusts
        <5>. QED
          BY <5>1, <2>2, <2>3, <2>5, StaysWhole DEF DispatchInv
      <4>. QED
        BY <4>1, <4>2
    <3>4. settled => reportId' = sent
      BY <2>1, <2>2, <2>3, <2>5, DispatchesSent DEF packet
    <3>5. InStep'
      <4>1. CASE len # 8
        <5>1. len < PacketSize /\ len # PacketSize
          BY <4>1, <3>1 DEF PacketSize
        <5>2. ended'
          BY <5>1, <2>1, Zenon
        <5>3. accumulatedReportBytes' = 0
          BY <5>1, <2>3, <2>5, WriteOutEffect DEF DispatchInv, ReportComplete
        <5>. QED
          BY <5>2, <5>3, <2>1 DEF DispatchInv, InStep
      <4>2. CASE len = 8 /\ ~settled
        <5>1. ~settled' /\ ~intact' /\ offset' = offset + 8 /\ ~halted'
          BY <4>2, <2>1, <3>1 DEF DispatchInv, InStep
        <5>2. offset' % PacketSize = 0
          BY <2>2, <5>1 DEF sReportSize, PacketSize
        <5>. QED
          BY <5>1, <5>2 DEF InStep
      <4>3. CASE len = 8 /\ settled
        <5>1. /\ accumulatedReportBytes = offset /\ offset' = offset + 8 /\ ~halted'
              /\ ended' = (offset + 8 = 64)
              /\ settled'
              /\ \A s \in Slots : s < accumulatedReportBytes \div PacketSize =>
                     reportAccumulationBuffer[s] = [report |-> sent, at |-> s]
          BY <4>3, <2>1, <3>1 DEF DispatchInv, InStep, sReportSize, PacketSize
        <5>2. offset' % PacketSize = 0 /\ (offset + 8) \div PacketSize = offset \div PacketSize + 1
              /\ offset \div PacketSize \in Nat
          BY <2>2, <5>1 DEF sReportSize, PacketSize
        <5>3. CASE offset + 8 = 64
          <6>1. accumulatedReportBytes' = 0
            BY <4>3, <5>1, <5>3, <2>3, <2>5, WriteOutEffect
               DEF DispatchInv, ReportComplete, sReportSize, PacketSize
          <6>. QED
            BY <5>1, <5>2, <5>3, <6>1 DEF InStep
        <5>4. CASE offset + 8 # 64
          <6>1. /\ accumulatedReportBytes' = offset + 8
                /\ reportAccumulationBuffer' =
                       [s \in Slots |-> IF s = offset \div PacketSize
                                        THEN packet ELSE reportAccumulationBuffer[s]]
            BY <4>3, <5>1, <5>4, <2>3, <2>5, WriteOutEffect
               DEF DispatchInv, ReportComplete, sReportSize, PacketSize
          <6>2. ~ended'
            BY <5>1, <5>4
          <6>3. \A s \in Slots : s < (offset + 8) \div PacketSize =>
                    reportAccumulationBuffer'[s] = [report |-> sent', at |-> s]
            <7>. TAKE s \in Slots
            <7>. HAVE s < (offset + 8) \div PacketSize
            <7>1. s = offset \div PacketSize \/ s < offset \div PacketSize
              BY <5>2 DEF Slots
            <7>. QED
              BY <7>1, <5>1, <6>1, <2>1 DEF packet
          <6>. QED
            BY <4>3, <5>1, <5>2, <6>1, <6>2, <6>3, <3>4, <2>1 DEF InStep
        <5>. QED
          BY <5>3, <5>4
      <4>. QED
        BY <4>1, <4>2, <4>3 DEF DispatchInv, StateTypes
    <3>6. EndOfTransferSeen'
      <4>. SUFFICES ASSUME ended', intact'
                    PROVE  /\ dispatchedId' = sent' /\ reportLength' = length'
                           /\ accumulatedReportBytes' = 0
        BY DEF EndOfTransferSeen
      <4>1. settled /\ accumulatedReportBytes = offset
        BY <2>1, <3>1 DEF DispatchInv, InStep
      <4>2. ReportComplete(len, offset + len) /\ offset + len = length
        <5>1. len < PacketSize \/ offset + len = sReportSize
          BY <2>1
        <5>. QED
          BY <5>1, <2>2, <2>3, <3>1 DEF ReportComplete, sReportSize, PacketSize
      <4>3. dispatchedId' = sent /\ reportLength' = length
        BY <4>1, <4>2, <2>1, <2>3, <2>5, DispatchesSent DEF packet
      <4>4. accumulatedReportBytes' = 0
        BY <4>1, <4>2, <2>3, <2>5, WriteOutEffect DEF DispatchInv
      <4>. QED
        BY <4>3, <4>4, <2>1
    <3>. QED
      BY <3>2, <3>3, <3>5, <3>6 DEF DispatchInv
  <2>. QED
    BY <2>1, <2>4, <2>5
<1>3. CASE HaltTransfer
  <2>1. /\ ~ended /\ halted' = TRUE /\ intact' = FALSE
        /\ UNCHANGED <<handlerVars, sent, length, offset, ended, settled, trusted>>
    BY <1>3 DEF HaltTransfer
  <2>2. StateTypes' /\ InStep'
    BY <2>1 DEF DispatchInv, StateTypes, InStep, handlerVars
  <2>. QED
    BY <2>1, <2>2 DEF DispatchInv, LengthAgrees, DispatchedWhole, EndOfTransferSeen,
                      handlerVars
<1>4. CASE ClearHalt
  <2>1. /\ halted /\ ~intact /\ ended' = TRUE /\ halted' = FALSE /\ settled' = TRUE
        /\ accumulatedReportBytes' = 0
        /\ UNCHANGED <<reportAccumulationBuffer, reportIn, reportLength, dispatchedId,
                       sent, intact, trusted>>
    BY <1>4 DEF ClearHalt, Abandon, AbandonBytes, DispatchInv, InStep
  <2>2. StateTypes' /\ InStep'
    BY <2>1 DEF DispatchInv, StateTypes, InStep
  <2>. QED
    BY <2>1, <2>2 DEF DispatchInv, LengthAgrees, DispatchedWhole, EndOfTransferSeen
<1>5. CASE BreakOff
  <2>1. /\ ~ended /\ ~halted /\ ended' = TRUE /\ intact' = FALSE
        /\ settled' = (settled /\ accumulatedReportBytes = 0)
        /\ UNCHANGED <<handlerVars, sent, length, offset, halted, trusted>>
    BY <1>5 DEF BreakOff, Disturb
  <2>2. StateTypes' /\ InStep'
    BY <2>1 DEF DispatchInv, StateTypes, InStep, handlerVars
  <2>. QED
    BY <2>1, <2>2 DEF DispatchInv, LengthAgrees, DispatchedWhole, EndOfTransferSeen,
                      handlerVars
<1>6. CASE RepeatPacket
  <2>. DEFINE at == (offset - 1) \div PacketSize
              len == offset - PacketSize * at
              packet == [report |-> sent, at |-> at]
  <2>1. /\ WriteOut(packet, len) /\ Trusts(FALSE)
        /\ offset > 0 /\ ~halted /\ intact' = FALSE
        /\ settled' = (len < PacketSize)
        /\ UNCHANGED <<sent, length, offset, ended, halted>>
    BY <1>6 DEF RepeatPacket, Disturb, hostVars
  <2>2. len \in 0..PacketSize /\ (offset % PacketSize # 0 \/ len = PacketSize)
    BY <2>1 DEF DispatchInv, CountInv, sReportSize, PacketSize
  <2>. HIDE DEF at, len, packet
  <2>3. StateTypes'
    <3>1. settled' \in BOOLEAN
      <4>1. settled' = (len < PacketSize)
        BY <2>1
      <4>2. (len < PacketSize) \in BOOLEAN
        OBVIOUS
      <4>. QED
        BY <4>1, <4>2, Zenon
    <3>2. trusted' \in BOOLEAN
      BY <2>1 DEF DispatchInv, StateTypes, Trusts
    <3>3. reportAccumulationBuffer' = [s \in Slots |-> reportAccumulationBuffer'[s]]
      BY <2>1, <2>2, WriteOutEffect DEF DispatchInv
    <3>. QED
      BY <2>1, <3>1, <3>2, <3>3 DEF DispatchInv, StateTypes
  <2>4. LengthAgrees' /\ DispatchedWhole'
    BY <2>1, <2>2, StaysWhole DEF DispatchInv
  <2>5. settled' => ended' /\ accumulatedReportBytes' = 0
    <3>. SUFFICES ASSUME settled' PROVE ended' /\ accumulatedReportBytes' = 0
      OBVIOUS
    <3>1. len < PacketSize
      BY <2>1, Zenon
    <3>2. len # PacketSize
      BY <3>1, <2>2 DEF PacketSize
    <3>3. ended
      BY <3>2, <2>2 DEF DispatchInv, InStep, StateTypes
    <3>4. accumulatedReportBytes' = 0
      BY <3>2, <2>1, <2>2, WriteOutEffect DEF DispatchInv, ReportComplete
    <3>. QED
      BY <3>3, <3>4, <2>1
  <2>6. InStep'
    BY <2>1, <2>5 DEF DispatchInv, InStep
  <2>. QED
    BY <2>1, <2>3, <2>4, <2>6 DEF DispatchInv, EndOfTransferSeen
<1>7. CASE Done \/ UNCHANGED vars
  BY <1>7 DEF Done, vars, handlerVars, hostVars, stepVars, DispatchInv, StateTypes, InStep,
              LengthAgrees, DispatchedWhole, EndOfTransferSeen
<1>. QED
  BY <1>1, <1>2, <1>3, <1>4, <1>5, <1>6, <1>7 DEF Next

\* A report the handler dispatches in step with the host is one report of the
\* host, whole, under its own identifier: for reports of every length, and
\* however many are given up, broken off or repeated in between.
THEOREM DispatchesWhole == Spec => []DispatchedWhole
<1>1. DispatchInv => DispatchedWhole
  BY DEF DispatchInv
<1>. QED
  BY <1>1, DispatchInvInit, DispatchInvNext, PTL DEF Spec

\* A report sent in step and to its end has been dispatched when its last
\* packet is acknowledged.
THEOREM EndSeen == Spec => []EndOfTransferSeen
<1>1. DispatchInv => EndOfTransferSeen
  BY DEF DispatchInv
<1>. QED
  BY <1>1, DispatchInvInit, DispatchInvNext, PTL DEF Spec

=============================================================================
