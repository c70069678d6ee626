------------------------- MODULE UsbEndpointProofs -------------------------
(***************************************************************************)
(* Endpoint 1 without a lock: no packet is torn, in either direction, for  *)
(* packets of any number of pieces and any losses; and each direction      *)
(* takes the steps of a channel for one packet at a time.                  *)
(***************************************************************************)
EXTENDS UsbEndpoint, TLAPS

\* The half of the buffer with the packet that is, or is to be, processed.
Processed == usbRxBuf[1 - usbInputBufOffset]

\* The receiver writes to one half while the main loop copies from the other:
\* the halves are not swapped before the loop has given its half back.
RxInv ==
    /\ usbInputBufOffset \in 0..1 /\ usbRxLen \in 0..1
    /\ usbRxBuf \in [0..1 -> [1..Cells -> 0..MaxOut]]
    /\ \A h \in 0..1 : usbRxBuf[h] = Packet(usbRxBuf[h][1])
    /\ pc \in {"poll", "process", "release", "transmit", "token", "copy", "arm"}
    /\ pc \in {"process", "release"} => usbRxLen = 1 /\ half = 1 - usbInputBufOffset
    /\ data = [c \in 1..Cells |-> data[c]]
    /\ pc = "process" =>
           cell \in 1..Cells /\ \A c \in 1..(cell - 1) : data[c] = usbRxBuf[half][c]
    /\ handled = Packet(handled[1]) /\ handled[1] \in 0..MaxOut
    /\ pc = "release" => handled = Processed

\* The main loop writes to the buffer while the length is NAK, and the
\* routine sends it while the main loop is elsewhere.
TxInv ==
    /\ usbTxLen1 \in {"NAK", "data"}
    /\ sentIn \in 0..MaxIn
    /\ txCells = [c \in 1..Cells |-> txCells[c]]
    /\ usbTxLen1 = "data" => txCells = Packet(sentIn)
    /\ pc \in {"token", "copy", "arm"} => usbTxLen1 = "NAK" /\ sentIn # 0
    /\ pc = "token" => wasEmpty
    /\ usbTxLen1 = "data" => sentIn # 0
    /\ pc = "copy" => cell \in 1..Cells /\ \A c \in 1..(cell - 1) : txCells[c] = sentIn
    /\ pc = "arm" => txCells = Packet(sentIn)
    /\ got = Packet(got[1]) /\ got[1] \in 0..MaxIn

\* A packet the host knows nothing of is one whose acknowledgement was lost.
NotAhead(n) == n <= acked \/ (n = acked + 1 /\ errors > 0)

OrderInv ==
    /\ errors \in Nat /\ acked \in 0..MaxOut /\ stage \in {"idle", "data"}
    /\ stage = "data" => acked < MaxOut
    /\ usbRxLen = 1 => Processed[1] # 0 /\ NotAhead(Processed[1])
    /\ NotAhead(handled[1])

\* Until something is lost, the next packet has the token the host expects.
TokenInv ==
    /\ txToken \in 0..1 /\ inToken \in 0..1
    /\ errors = 0 => txToken = IF usbTxLen1 = "data" \/ pc \in {"copy", "arm"}
                               THEN inToken ELSE 1 - inToken

EndpointInv == RxInv /\ TxInv /\ OrderInv /\ TokenInv

-----------------------------------------------------------------------------
\* A packet has at least one piece, and all of its pieces are alike.
LEMMA PacketCells ==
    /\ Cells \in Nat \ {0} /\ MaxOut \in Nat /\ MaxIn \in Nat
    /\ \A n : Packet(n) = [c \in 1..Cells |-> n] /\ Packet(n)[1] = n
    /\ \A n \in 0..MaxOut : Packet(n) \in [1..Cells -> 0..MaxOut]
BY EndpointAssumption DEF EndpointAssumption, Packet

\* Empty buffers, and the host expecting DATA0.
LEMMA EndpointInvInit == Init => EndpointInv
<1>. SUFFICES ASSUME Init PROVE EndpointInv
  OBVIOUS
<1>1. RxInv
  BY PacketCells DEF Init, RxInv
<1>2. TxInv
  BY PacketCells DEF Init, TxInv
<1>3. OrderInv /\ TokenInv
  BY PacketCells DEF Init, OrderInv, TokenInv, NotAhead
<1>. QED
  BY <1>1, <1>2, <1>3 DEF EndpointInv

\* The receiver's routine and the steps of the main loop, in any order, leave
\* each other's half alone.
LEMMA RxInvNext == EndpointInv /\ [Next]_vars => RxInv'
<1>. SUFFICES ASSUME EndpointInv, [Next]_vars PROVE RxInv'
  OBVIOUS
<1>. USE PacketCells DEF EndpointInv
<1>1. CASE OutData
  <2>1. /\ acked + 1 \in 0..MaxOut /\ stage = "data"
        /\ UNCHANGED mainVars
        /\ usbRxBuf' = usbRxBuf \/ usbRxBuf' = [usbRxBuf EXCEPT ![usbInputBufOffset] = Packet(acked + 1)]
    BY <1>1 DEF OutData, Received, OrderInv
  <2>2. /\ usbRxBuf' \in [0..1 -> [1..Cells -> 0..MaxOut]]
        /\ \A h \in 0..1 : usbRxBuf'[h] = Packet(usbRxBuf'[h][1])
        /\ \A h \in 0..1 : h # usbInputBufOffset => usbRxBuf'[h] = usbRxBuf[h]
    BY <2>1 DEF RxInv
  <2>3. \/ UNCHANGED <<usbInputBufOffset, usbRxLen>>
        \/ usbRxLen = 0 /\ usbRxLen' = 1 /\ usbInputBufOffset' = 1 - usbInputBufOffset
    BY <1>1 DEF OutData, DataIgnored, DataRefused, ZeroLengthAcked, DataAcked, Stored, RxFree
  <2>4. CASE UNCHANGED <<usbInputBufOffset, usbRxLen>>
    <3>1. Processed' = Processed
      BY <2>2, <2>4 DEF RxInv, Processed
    <3>2. pc = "process" => usbRxBuf'[half] = usbRxBuf[half]
      BY <2>2 DEF RxInv
    <3>. QED
      BY <2>1, <2>2, <2>4, <3>1, <3>2 DEF RxInv, mainVars
  <2>5. CASE usbRxLen = 0 /\ usbRxLen' = 1 /\ usbInputBufOffset' = 1 - usbInputBufOffset
    <3>1. ~(pc \in {"process", "release"}) /\ pc # "process" /\ pc # "release"
      BY <2>5 DEF RxInv
    <3>. QED
      BY <2>1, <2>2, <2>5, <3>1 DEF RxInv, mainVars
  <2>. QED
    BY <2>3, <2>4, <2>5
<1>2. CASE UsbPoll
  BY <1>2 DEF UsbPoll, rxVars, RxInv, Processed
<1>3. CASE ProcessCell
  <2>1. /\ pc = "process" /\ cell \in 1..Cells /\ half = 1 - usbInputBufOffset
        /\ half \in 0..1
        /\ data' = [data EXCEPT ![cell] = usbRxBuf[half][cell]]
        /\ data = [c \in 1..Cells |-> data[c]]
        /\ \A c \in 1..(cell - 1) : data[c] = usbRxBuf[half][c]
        /\ UNCHANGED <<rxVars, half>>
    <3>1. /\ pc = "process" /\ data' = [data EXCEPT ![cell] = usbRxBuf[half][cell]]
          /\ UNCHANGED <<rxVars, half>>
      BY <1>3 DEF ProcessCell
    <3>2. /\ cell \in 1..Cells /\ half = 1 - usbInputBufOffset
          /\ data = [c \in 1..Cells |-> data[c]]
          /\ \A c \in 1..(cell - 1) : data[c] = usbRxBuf[half][c]
      BY <3>1 DEF RxInv
    <3>3. half \in 0..1
      BY <3>2 DEF RxInv
    <3>. QED
      BY <3>1, <3>2, <3>3
  <2>2. /\ data' = [c \in 1..Cells |-> data'[c]]
        /\ \A c \in 1..cell : data'[c] = usbRxBuf[half][c]
    <3>1. data' = [c \in 1..Cells |-> IF c = cell THEN usbRxBuf[half][cell] ELSE data[c]]
      BY <2>1
    <3>2. \A c \in 1..cell : c \in 1..Cells /\ (c = cell \/ c \in 1..(cell - 1))
      BY <2>1
    <3>. QED
      BY <2>1, <3>1, <3>2
  <2>3. CASE cell = Cells
    <3>1. data' = usbRxBuf[half]
      BY <2>1, <2>2, <2>3 DEF RxInv
    <3>2. pc' = "release" /\ handled' = Processed
      BY <1>3, <2>1, <2>3, <3>1 DEF ProcessCell, Processed
    <3>3. Processed = Packet(Processed[1]) /\ Processed[1] \in 0..MaxOut
      BY <2>1 DEF RxInv, Processed
    <3>. QED
      BY <2>1, <2>2, <3>2, <3>3 DEF RxInv, rxVars, Processed
  <2>4. CASE cell # Cells
    <3>1. cell' = cell + 1 /\ pc' = "process" /\ handled' = handled
      BY <1>3, <2>1, <2>4 DEF ProcessCell
    <3>2. cell' \in 1..Cells /\ 1..(cell' - 1) = 1..cell
      BY <2>1, <2>4, <3>1
    <3>. QED
      BY <2>1, <2>2, <3>1, <3>2 DEF RxInv, rxVars
  <2>. QED
    BY <2>3, <2>4
<1>4. CASE ReleaseRx
  BY <1>4 DEF ReleaseRx, FreeRx, RxInv
<1>5. CASE SetInterrupt \/ NothingToSend \/ SetToken \/ CopyCell \/ SetLength
  BY <1>5 DEF SetInterrupt, NothingToSend, SetToken, CopyCell, SetLength, rxVars, RxInv
<1>6. CASE OutToken \/ HostIn \/ UNCHANGED vars
  BY <1>6 DEF OutToken, HostIn, vars, rxVars, mainVars, RxInv, Processed
<1>. QED
  BY <1>1, <1>2, <1>3, <1>4, <1>5, <1>6 DEF Next, Main

\* The routine sends only what the main loop has finished.
LEMMA TxInvNext == EndpointInv /\ [Next]_vars => TxInv'
<1>. SUFFICES ASSUME EndpointInv, [Next]_vars PROVE TxInv'
  OBVIOUS
<1>. USE PacketCells DEF EndpointInv
<1>1. CASE HostIn
  <2>1. /\ usbTxLen1 = "data" /\ usbTxLen1' = "NAK"
        /\ UNCHANGED <<txCells, mainVars>>
        /\ got' = got \/ got' = txCells
    BY <1>1 DEF HostIn, ReleaseTx
  <2>2. /\ txCells = Packet(sentIn) /\ sentIn \in 0..MaxIn
        /\ ~(pc \in {"token", "copy", "arm"})
    BY <2>1 DEF TxInv
  <2>3. got' = Packet(got'[1]) /\ got'[1] \in 0..MaxIn
    BY <2>1, <2>2 DEF TxInv
  <2>. QED
    BY <2>1, <2>2, <2>3 DEF TxInv, mainVars
<1>2. CASE SetInterrupt
  <2>1. /\ usbTxLen1 = "NAK" /\ sentIn < MaxIn /\ sentIn' = sentIn + 1
        /\ wasEmpty' = (usbTxLen1 = "NAK") /\ pc' = "token"
        /\ UNCHANGED <<txVars, cell, hostVars>>
    BY <1>2 DEF SetInterrupt, usbInterruptIsReady
  <2>2. sentIn' \in 0..MaxIn /\ sentIn' # 0
    BY <2>1 DEF TxInv
  <2>3. wasEmpty'
    BY <2>1, Zenon
  <2>. QED
    BY <2>1, <2>2, <2>3 DEF txVars, hostVars, TxInv
<1>3. CASE SetToken
  BY <1>3 DEF SetToken, TxInv, hostVars
<1>4. CASE CopyCell
  <2>1. /\ pc = "copy" /\ cell \in 1..Cells /\ usbTxLen1 = "NAK"
        /\ txCells' = [txCells EXCEPT ![cell] = sentIn]
        /\ txCells = [c \in 1..Cells |-> txCells[c]]
        /\ \A c \in 1..(cell - 1) : txCells[c] = sentIn
        /\ UNCHANGED <<usbTxLen1, sentIn, got>>
        /\ sentIn # 0
    BY <1>4 DEF CopyCell, CopyToTx, TxInv, hostVars
  <2>2. /\ txCells' = [c \in 1..Cells |-> txCells'[c]]
        /\ \A c \in 1..cell : txCells'[c] = sentIn
    <3>1. txCells' = [c \in 1..Cells |-> IF c = cell THEN sentIn ELSE txCells[c]]
      BY <2>1
    <3>2. \A c \in 1..cell : c \in 1..Cells /\ (c = cell \/ c \in 1..(cell - 1))
      BY <2>1
    <3>. QED
      BY <2>1, <3>1, <3>2
  <2>3. CASE cell = Cells
    <3>1. txCells' = Packet(sentIn) /\ pc' = "arm"
      BY <1>4, <2>1, <2>2, <2>3 DEF CopyCell
    <3>. QED
      BY <2>1, <2>2, <3>1 DEF TxInv
  <2>4. CASE cell # Cells
    BY <1>4, <2>1, <2>2, <2>4 DEF CopyCell, TxInv
  <2>. QED
    BY <2>3, <2>4
<1>5. CASE SetLength
  BY <1>5 DEF SetLength, TxInv, hostVars
<1>6. CASE UsbPoll \/ ProcessCell \/ ReleaseRx \/ NothingToSend
  BY <1>6 DEF UsbPoll, ProcessCell, ReleaseRx, NothingToSend, txVars, hostVars, TxInv
<1>7. CASE OutToken \/ OutData \/ UNCHANGED vars
  BY <1>7 DEF OutToken, OutData, vars, txVars, mainVars, hostVars, TxInv
<1>. QED
  BY <1>1, <1>2, <1>3, <1>4, <1>5, <1>6, <1>7 DEF Next, Main

\* The routine stores the packet after the last one the host knows accepted,
\* and the loop handles what is stored.
LEMMA OrderInvNext == EndpointInv /\ [Next]_vars => OrderInv'
<1>. SUFFICES ASSUME EndpointInv, [Next]_vars PROVE OrderInv'
  OBVIOUS
<1>. USE DEF EndpointInv
<1>1. CASE OutToken
  BY <1>1, PacketCells DEF OutToken, Fail, mainVars, OrderInv, Processed, NotAhead
<1>2. CASE OutData
  <2>1. /\ stage = "data" /\ stage' = "idle" /\ UNCHANGED mainVars
        /\ acked \in 0..MaxOut /\ acked < MaxOut /\ errors \in Nat /\ acked \in Nat
        /\ handled[1] \in Nat
    BY <1>2, EndpointAssumption DEF EndpointAssumption, OutData, OrderInv, RxInv
  <2>2. CASE UNCHANGED <<usbInputBufOffset, usbRxLen, acked, errors>>
    <3>1. Processed' = Processed
      BY <1>2, <2>2 DEF OutData, Received, RxInv, Processed
    <3>. QED
      BY <2>1, <2>2, <3>1 DEF OrderInv, NotAhead, mainVars
  <2>3. CASE Ack /\ usbRxLen = 0
    <3>1. /\ \/ acked' = acked + 1 /\ errors' = errors
             \/ acked' = acked /\ errors' = errors + 1
          /\ acked' \in 0..MaxOut /\ errors' \in Nat
      BY <2>1, <2>3, PacketCells DEF Ack, Fail
    <3>2. acked + 1 <= acked' \/ (acked + 1 = acked' + 1 /\ errors' > 0)
      <4>1. CASE acked' = acked + 1
        BY <2>1, <4>1
      <4>2. CASE acked' = acked /\ errors' = errors + 1
        BY <2>1, <4>2
      <4>. QED
        BY <3>1, <4>1, <4>2
    <3>3. handled[1] <= acked \/ (handled[1] = acked + 1 /\ errors > 0) =>
              handled[1] <= acked' \/ (handled[1] = acked' + 1 /\ errors' > 0)
      BY <2>1, <3>1
    <3>4. NotAhead(handled[1])'
      BY <2>1, <3>3 DEF OrderInv, NotAhead, mainVars
    <3>5. usbRxLen' = 1 => Processed'[1] = acked + 1
      BY <1>2, <2>1, <2>3, PacketCells
         DEF OutData, Received, DataIgnored, DataRefused, ZeroLengthAcked, DataAcked, Stored,
             RxInv, Processed
    <3>. QED
      BY <2>1, <3>1, <3>2, <3>4, <3>5 DEF OrderInv, NotAhead
  <2>. QED
    BY <1>2, <2>2, <2>3
       DEF OutData, DataIgnored, DataRefused, ZeroLengthAcked, DataAcked, RxFree
<1>3. CASE HostIn
  BY <1>3 DEF HostIn, Fail, rxVars, mainVars, OrderInv, Processed, NotAhead
<1>4. CASE ProcessCell
  <2>1. UNCHANGED <<rxVars, hostVars>> /\ usbRxLen = 1
    BY <1>4 DEF ProcessCell, RxInv
  <2>2. handled' = handled \/ handled'[1] = Processed[1]
    <3>1. CASE cell = Cells
      <4>1. pc' = "release"
        BY <1>4, <3>1 DEF ProcessCell
      <4>2. handled' = Processed'
        BY <4>1, RxInvNext DEF RxInv
      <4>. QED
        BY <2>1, <4>2 DEF rxVars, Processed
    <3>2. CASE cell # Cells
      BY <1>4, <3>2 DEF ProcessCell
    <3>. QED
      BY <3>1, <3>2
  <2>. QED
    BY <2>1, <2>2 DEF rxVars, hostVars, OrderInv, Processed, NotAhead
<1>5. CASE ReleaseRx
  BY <1>5 DEF ReleaseRx, FreeRx, hostVars, OrderInv, NotAhead
<1>6. CASE \/ UsbPoll \/ SetInterrupt \/ NothingToSend \/ SetToken \/ CopyCell \/ SetLength
           \/ UNCHANGED vars
  BY <1>6 DEF UsbPoll, SetInterrupt, NothingToSend, SetToken, CopyCell, SetLength, vars,
              rxVars, hostVars, mainVars, OrderInv, Processed, NotAhead
<1>. QED
  BY <1>1, <1>2, <1>3, <1>4, <1>5, <1>6 DEF Next, Main

\* The token is toggled once for every packet that is sent.
LEMMA TokenInvNext == EndpointInv /\ [Next]_vars => TokenInv'
<1>. SUFFICES ASSUME EndpointInv, [Next]_vars PROVE TokenInv'
  OBVIOUS
<1>. USE DEF EndpointInv
<1>1. CASE OutToken \/ OutData
  BY <1>1 DEF OutToken, OutData, DataIgnored, DataRefused, ZeroLengthAcked, DataAcked, Ack,
              Fail, txVars, mainVars, TokenInv, OrderInv
<1>2. CASE HostIn
  <2>1. /\ usbTxLen1 = "data" /\ usbTxLen1' = "NAK" /\ UNCHANGED <<txToken, pc>>
        /\ ~(pc \in {"copy", "arm"})
    BY <1>2 DEF HostIn, ReleaseTx, mainVars, TxInv
  <2>2. \/ errors' = errors /\ inToken' = IF txToken = inToken THEN 1 - inToken ELSE inToken
        \/ errors' = errors + 1 /\ inToken' = inToken
    BY <1>2 DEF HostIn, Fail
  <2>. QED
    BY <2>1, <2>2 DEF TokenInv, OrderInv
<1>3. CASE SetToken
  BY <1>3 DEF SetToken, hostVars, TxInv, TokenInv
<1>4. CASE CopyCell
  BY <1>4 DEF CopyCell, CopyToTx, hostVars, TokenInv
<1>5. CASE SetLength
  BY <1>5 DEF SetLength, hostVars, TokenInv
<1>6. CASE UsbPoll \/ ProcessCell \/ ReleaseRx \/ SetInterrupt \/ NothingToSend \/ UNCHANGED vars
  BY <1>6 DEF UsbPoll, ProcessCell, ReleaseRx, SetInterrupt, NothingToSend, vars, txVars,
              hostVars, mainVars, TokenInv
<1>. QED
  BY <1>1, <1>2, <1>3, <1>4, <1>5, <1>6 DEF Next, Main

\* Together, for every execution.
THEOREM EndpointConsistent == Spec => []EndpointInv
<1>1. EndpointInv /\ [Next]_vars => EndpointInv'
  BY RxInvNext, TxInvNext, OrderInvNext, TokenInvNext DEF EndpointInv
<1>. QED
  BY <1>1, EndpointInvInit, PTL DEF Spec

\* What usbFunctionWriteOut reads and what the host reads is one packet, for
\* packets of any size and every interleaving of the routine and the loop.
THEOREM NeverTorn == Spec => []NoTornPacket
<1>1. EndpointInv => NoTornPacket
  <2>. SUFFICES ASSUME EndpointInv PROVE Whole(handled) /\ Whole(got)
    BY DEF NoTornPacket
  <2>1. handled = Packet(handled[1]) /\ handled[1] \in 0..MaxOut
    BY DEF EndpointInv, RxInv
  <2>2. got = Packet(got[1]) /\ got[1] \in 0..MaxIn
    BY DEF EndpointInv, TxInv
  <2>3. handled[1] \in 0..(MaxOut + MaxIn) /\ got[1] \in 0..(MaxOut + MaxIn)
    BY <2>1, <2>2, EndpointAssumption DEF EndpointAssumption
  <2>. QED
    BY <2>1, <2>2, <2>3 DEF Whole
<1>. QED
  BY <1>1, EndpointConsistent, PTL

-----------------------------------------------------------------------------
(* Each direction takes the steps of a channel.                            *)

\* Nothing is lost, or one thing more.
LEMMA Disturbs ==
    ASSUME EndpointInv, [Next]_vars
    PROVE  /\ errors' = errors \/ (errors' = errors + 1 /\ (errors' > 0) = TRUE)
           /\ (errors' > 0) = TRUE \/ (errors' > 0) = (errors > 0)
<1>1. errors' = errors \/ errors' = errors + 1
  BY DEF Next, Main, UsbPoll, ProcessCell, ReleaseRx, SetInterrupt, NothingToSend, SetToken,
         CopyCell, SetLength, OutToken, OutData, DataIgnored, DataRefused, ZeroLengthAcked,
         DataAcked, Ack, HostIn, Fail, vars, hostVars
<1>2. errors \in Nat
  BY DEF EndpointInv, OrderInv
<1>. QED
  BY <1>1, <1>2

\* The channels are empty at first.
LEMMA ChannelsInit == Init => OutChannel!ChannelInit /\ InChannel!ChannelInit
BY PacketCells DEF Init, OutChannel!ChannelInit, InChannel!ChannelInit

\* What the OUT channel holds and what was put in last.
OutSlot == IF usbRxLen # 0 /\ pc # "release" THEN Processed[1] ELSE 0
OutPut == IF usbRxLen # 0 THEN Processed[1] ELSE handled[1]

\* Storing a packet puts it in, copying its last piece takes it out.
LEMMA OutStep ==
    EndpointInv /\ [Next]_vars => [OutChannel!ChannelNext]_(OutChannel!channelVars)
<1>. SUFFICES ASSUME EndpointInv, [Next]_vars
              PROVE  [OutChannel!ChannelNext]_(OutChannel!channelVars)
  OBVIOUS
<1>0. /\ OutChannel!channelVars = <<OutSlot, OutPut, handled[1], errors > 0>>
      /\ OutChannel!Disturb
      /\ EndpointInv'
  BY Disturbs, RxInvNext, TxInvNext, OrderInvNext, TokenInvNext
     DEF OutChannel!channelVars, OutChannel!Disturb, OutSlot, OutPut, Processed, EndpointInv
<1>1. ASSUME UNCHANGED <<OutSlot, OutPut, handled[1]>>
      PROVE  [OutChannel!ChannelNext]_(OutChannel!channelVars)
  BY <1>0, <1>1 DEF OutChannel!ChannelNext, OutChannel!Lose, OutSlot, OutPut, Processed
<1>2. CASE OutData
  <2>1. UNCHANGED mainVars /\ stage = "data"
    BY <1>2 DEF OutData
  <2>2. CASE UNCHANGED <<usbInputBufOffset, usbRxLen>>
    <3>1. Processed' = Processed
      BY <1>2, <2>2 DEF OutData, Received, EndpointInv, RxInv, Processed
    <3>. QED
      BY <1>1, <2>1, <2>2, <3>1 DEF mainVars, OutSlot, OutPut
  <2>3. CASE DataAcked
    <3>1. /\ usbRxLen = 0 /\ usbRxLen' = 1
          /\ usbInputBufOffset' = 1 - usbInputBufOffset
          /\ usbRxBuf' = [usbRxBuf EXCEPT ![usbInputBufOffset] = Packet(acked + 1)]
      BY <1>2, <2>3 DEF OutData, DataAcked, RxFree, Stored, Received
    <3>2. Processed'[1] = acked + 1 /\ acked + 1 \in 1..MaxOut
      BY <2>1, <3>1, PacketCells DEF EndpointInv, RxInv, OrderInv, Processed
    <3>3. pc # "release"
      BY <3>1 DEF EndpointInv, RxInv
    <3>4. /\ OutSlot = 0 /\ OutPut = handled[1] /\ OutSlot' = acked + 1 /\ OutPut' = acked + 1
          /\ handled' = handled
      BY <2>1, <3>1, <3>2, <3>3 DEF mainVars, OutSlot, OutPut
    <3>5. acked + 1 > handled[1] \/ (errors > 0 /\ acked + 1 = handled[1])
      BY <3>2, PacketCells DEF EndpointInv, RxInv, OrderInv, NotAhead
    <3>6. OutChannel!Put(acked + 1)
      BY <1>0, <3>4, <3>5 DEF OutChannel!Put, OutSlot, OutPut, Processed
    <3>. QED
      BY <3>2, <3>6 DEF OutChannel!ChannelNext
  <2>. QED
    BY <1>2, <2>2, <2>3 DEF OutData, DataIgnored, DataRefused, ZeroLengthAcked
<1>3. CASE ProcessCell
  <2>1. /\ pc = "process" /\ usbRxLen = 1 /\ UNCHANGED rxVars
    BY <1>3 DEF ProcessCell, EndpointInv, RxInv
  <2>2. CASE cell = Cells
    <3>1. pc' = "release"
      BY <1>3, <2>2 DEF ProcessCell
    <3>2. handled' = Processed' /\ Processed' = Processed
      BY <1>0, <2>1, <3>1 DEF EndpointInv, RxInv, rxVars, Processed
    <3>3. /\ OutSlot = Processed[1] /\ OutPut = Processed[1]
          /\ OutSlot' = 0 /\ OutPut' = Processed[1]
          /\ Processed[1] # 0 /\ handled'[1] = Processed[1]
      BY <2>1, <3>1, <3>2 DEF OutSlot, OutPut, rxVars, EndpointInv, OrderInv
    <3>4. OutChannel!Take
      BY <1>0, <3>3 DEF OutChannel!Take, OutSlot, OutPut, Processed
    <3>. QED
      BY <3>4 DEF OutChannel!ChannelNext
  <2>3. CASE cell # Cells
    BY <1>1, <1>3, <2>1, <2>3 DEF ProcessCell, rxVars, OutSlot, OutPut, Processed
  <2>. QED
    BY <2>2, <2>3
<1>4. CASE ReleaseRx
  BY <1>1, <1>4 DEF ReleaseRx, FreeRx, OutSlot, OutPut, EndpointInv, RxInv, Processed
<1>5. CASE UsbPoll \/ SetInterrupt \/ NothingToSend \/ SetToken \/ CopyCell \/ SetLength
  BY <1>1, <1>5 DEF UsbPoll, SetInterrupt, NothingToSend, SetToken, CopyCell, SetLength,
                    rxVars, OutSlot, OutPut, Processed
<1>6. CASE OutToken \/ HostIn \/ UNCHANGED vars
  BY <1>1, <1>6 DEF OutToken, HostIn, vars, rxVars, mainVars, OutSlot, OutPut, Processed
<1>. QED
  BY <1>2, <1>3, <1>4, <1>5, <1>6 DEF Next, Main

\* What the IN channel holds and what was put in last.
InSlot == IF usbTxLen1 = "data" THEN txCells[1] ELSE 0
InPut == IF usbTxLen1 = "data" \/ pc \notin {"token", "copy", "arm"} THEN sentIn ELSE sentIn - 1

\* Setting the length puts a packet in; sending it takes it out.
LEMMA InStep ==
    EndpointInv /\ [Next]_vars => [InChannel!ChannelNext]_(InChannel!channelVars)
<1>. SUFFICES ASSUME EndpointInv, [Next]_vars
              PROVE  [InChannel!ChannelNext]_(InChannel!channelVars)
  OBVIOUS
<1>0. /\ InChannel!channelVars = <<InSlot, InPut, got[1], errors > 0>>
      /\ InChannel!Disturb
  BY Disturbs DEF InChannel!channelVars, InChannel!Disturb, InSlot, InPut
<1>1. ASSUME UNCHANGED <<InSlot, InPut, got[1]>>
      PROVE  [InChannel!ChannelNext]_(InChannel!channelVars)
  BY <1>0, <1>1 DEF InChannel!ChannelNext, InChannel!Lose, InSlot, InPut
<1>2. CASE HostIn
  <2>1. /\ usbTxLen1 = "data" /\ usbTxLen1' = "NAK" /\ UNCHANGED <<txCells, sentIn, pc>>
        /\ ~(pc \in {"token", "copy", "arm"}) /\ txCells = Packet(sentIn) /\ sentIn # 0
    BY <1>2 DEF HostIn, ReleaseTx, mainVars, EndpointInv, TxInv
  <2>2. InSlot = sentIn /\ InSlot' = 0 /\ InPut = sentIn /\ InPut' = sentIn
    BY <2>1, PacketCells DEF InSlot, InPut
  <2>3. got'[1] = sentIn \/ (errors' > 0 /\ UNCHANGED got[1])
    <3>1. CASE txToken = inToken /\ got' = txCells
      BY <2>1, <3>1, PacketCells
    <3>2. CASE got' = got /\ errors' = errors + 1
      BY <3>2 DEF EndpointInv, OrderInv
    <3>3. CASE txToken # inToken /\ got' = got
      <4>1. errors # 0
        BY <2>1, <3>3 DEF EndpointInv, TokenInv
      <4>2. errors \in Nat /\ (errors' = errors \/ errors' = errors + 1)
        BY Disturbs DEF EndpointInv, OrderInv
      <4>3. errors' > 0
        BY <4>1, <4>2
      <4>. QED
        BY <3>3, <4>3
    <3>. QED
      BY <1>2, <3>1, <3>2, <3>3 DEF HostIn, Fail
  <2>4. InChannel!Take
    BY <1>0, <2>1, <2>2, <2>3 DEF InChannel!Take, InSlot, InPut
  <2>. QED
    BY <2>4 DEF InChannel!ChannelNext
<1>3. CASE SetLength
  <2>1. /\ pc = "arm" /\ usbTxLen1 = "NAK" /\ usbTxLen1' = "data"
        /\ UNCHANGED <<txCells, sentIn, got>>
        /\ txCells = Packet(sentIn) /\ sentIn \in 1..MaxIn
    BY <1>3, PacketCells DEF SetLength, hostVars, EndpointInv, TxInv
  <2>2. InSlot = 0 /\ InSlot' = sentIn /\ InPut = sentIn - 1 /\ InPut' = sentIn
    BY <2>1, PacketCells DEF InSlot, InPut
  <2>3. sentIn > sentIn - 1
    BY <2>1
  <2>4. InChannel!Put(sentIn)
    BY <1>0, <2>1, <2>2, <2>3 DEF InChannel!Put, InSlot, InPut
  <2>. QED
    BY <2>1, <2>4 DEF InChannel!ChannelNext
<1>4. CASE SetInterrupt
  <2>1. /\ usbTxLen1 = "NAK" /\ UNCHANGED <<usbTxLen1, got>>
        /\ pc = "transmit" /\ pc' = "token" /\ sentIn' = sentIn + 1 /\ sentIn \in Int
    BY <1>4, PacketCells DEF SetInterrupt, usbInterruptIsReady, txVars, hostVars, EndpointInv, TxInv
  <2>. QED
    BY <1>1, <2>1 DEF InSlot, InPut
<1>5. CASE SetToken
  BY <1>1, <1>5 DEF SetToken, hostVars, EndpointInv, TxInv, InSlot, InPut
<1>6. CASE CopyCell
  <2>1. /\ usbTxLen1 = "NAK" /\ UNCHANGED <<usbTxLen1, sentIn, got>>
        /\ pc = "copy" /\ pc' \in {"copy", "arm"}
    BY <1>6 DEF CopyCell, CopyToTx, hostVars, EndpointInv, TxInv
  <2>. QED
    BY <1>1, <2>1 DEF InSlot, InPut
<1>7. CASE UsbPoll \/ ProcessCell \/ ReleaseRx \/ NothingToSend
  BY <1>1, <1>7 DEF UsbPoll, ProcessCell, ReleaseRx, NothingToSend, txVars, hostVars,
                    InSlot, InPut
<1>8. CASE OutToken \/ OutData \/ UNCHANGED vars
  BY <1>1, <1>8 DEF OutToken, OutData, vars, txVars, mainVars, hostVars, InSlot, InPut
<1>. QED
  BY <1>2, <1>3, <1>4, <1>5, <1>6, <1>7, <1>8 DEF Next, Main

\* The safety of OutIsChannel: to the handler, endpoint 1 is a place for one
\* packet, exact until the first loss and without gaps after it.
THEOREM OutStepsAreChannelSteps ==
    Spec => OutChannel!ChannelInit /\ [][OutChannel!ChannelNext]_(OutChannel!channelVars)
BY ChannelsInit, OutStep, EndpointConsistent, PTL DEF Spec

\* The safety of InIsChannel: to the host, endpoint 1 is a place for one
\* packet, exact until the first loss and never repeating one.
THEOREM InStepsAreChannelSteps ==
    Spec => InChannel!ChannelInit /\ [][InChannel!ChannelNext]_(InChannel!channelVars)
BY ChannelsInit, InStep, EndpointConsistent, PTL DEF Spec

=============================================================================
