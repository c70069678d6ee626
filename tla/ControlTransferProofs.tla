----------------------- MODULE ControlTransferProofs -----------------------
(***************************************************************************)
(* Theorems about ControlTransfer, for any set of requests, any number of  *)
(* losses and of transfers given up, and resets of any length that is long *)
(* enough.                                                                 *)
(***************************************************************************)
EXTENDS ControlTransfer, SequenceTheorems, TLAPS

\* A SETUP packet has been stored and usbProcessRx is not done with it.
Unanswered == usbRxLen # 0 /\ usbRxToken = "SETUP" /\ pc # "free"

SetsAddress(r) == IsStandard(r) /\ r.bRequest = USBRQ_SET_ADDRESS

\* usbProcessRx keeps the receive buffer, and leaves nothing to be sent when
\* it has begun.
ProcessingInv ==
    /\ pc \in {"setup", "answer"} => Unanswered
    /\ pc = "free" => usbRxLen # 0
    /\ pc = "answer" => txToken = 0 /\ usbTxLen = "NAK"

\* A request that was stored before a reset is answered before usbPoll has
\* seen the reset a second time; then nothing sets an address any more.
ResetInv ==
    /\ polls \in Nat
    /\ stage # "reset" => polls = 0
    /\ stage = "reset" =>
           /\ address = 0
           /\ polls <= ResetPolls
           /\ Unanswered => polls = 0 \/ (polls = 1 /\ pc \in {"poll", "setup", "answer"})
           /\ polls >= 2 => usbDeviceAddr = 0 /\ usbNewDeviceAddr = 0

\* The host is making the request that is to set an address.
Addressing == stage \in {"setup", "in"} /\ SetsAddress(request)

\* The address is noted, and the first block is the one the host expects.
Noted ==
    /\ usbNewDeviceAddr = request.wValue[1]
    /\ txToken = IF usbTxLen = "NAK" /\ pc # "arm" THEN 0 ELSE 1

\* SET_ADDRESS is stored by none but the transfer that makes it.  The device
\* listens to the address the host uses and has noted no other, except for
\* that of such a transfer; and a lost block leaves it with the new one.
AddressInv ==
    stage # "reset" =>
        /\ Unanswered /\ SetsAddress(rq) => Addressing /\ rq = request
        /\ ~Addressing => usbDeviceAddr = address /\ usbNewDeviceAddr = address
        /\ Addressing =>
               IF lost
               THEN /\ stage = "in"
                    /\ usbNewDeviceAddr = request.wValue[1]
                    /\ usbDeviceAddr = request.wValue[1]
               ELSE /\ usbDeviceAddr = address
                    /\ usbNewDeviceAddr \in {address, request.wValue[1]}
        /\ stage = "setup" => expected = 1 /\ ~lost
        /\ Addressing /\ stage = "in" /\ ~lost /\ address # request.wValue[1] =>
               /\ expected = 1
               /\ IF Unanswered THEN rq = request ELSE Noted

ControlInv == ProcessingInv /\ ResetInv /\ AddressInv

\* At first the bus is being reset, and nothing has been received.
LEMMA ControlInvInit == Init => ControlInv
BY ControlAssumption
   DEF Init, ControlInv, ProcessingInv, ResetInv, AddressInv, Unanswered, ControlAssumption

\* A request is unanswered until usbProcessRx is done with it.
LEMMA UnansweredSteps ==
    ASSUME ProcessingInv
    PROVE  /\ Main => (Unanswered' => Unanswered)
           /\ FreeRx \/ BuildTxBlock \/ ArmTx \/ NothingToTransmit \/ CheckLine
                  => (Unanswered' <=> Unanswered)
           /\ Answer => ~Unanswered'
           /\ OutReport => ~Unanswered /\ ~Unanswered'
           /\ Setup => ~Unanswered /\ Unanswered' /\ rq' = request
           /\ EndReset \/ ResetBus \/ BeginTransfer \/ In \/ StatusOut \/ GiveUp
                  => (Unanswered' <=> Unanswered)
           /\ In \/ StatusOut => ~Unanswered
<1>1. Main => (Unanswered' => Unanswered)
  BY DEF Main, Poll, BeginSetup, Answer, FreeRx, BuildTxBlock, ArmTx, NothingToTransmit, CheckLine,
         rxVars, Unanswered, ProcessingInv
<1>2. FreeRx \/ BuildTxBlock \/ ArmTx \/ NothingToTransmit \/ CheckLine
          => (Unanswered' <=> Unanswered)
  BY DEF FreeRx, BuildTxBlock, ArmTx, NothingToTransmit, CheckLine, rxVars, Unanswered,
         ProcessingInv
<1>3. Answer => ~Unanswered'
  BY DEF Answer, Unanswered
<1>4. OutReport => ~Unanswered /\ ~Unanswered'
  BY DEF OutReport, Store, Unanswered
<1>5. Setup => ~Unanswered /\ Unanswered' /\ rq' = request
  BY DEF Setup, Store, Unanswered, ProcessingInv
<1>6. EndReset \/ ResetBus \/ BeginTransfer \/ In \/ StatusOut \/ GiveUp
          => (Unanswered' <=> Unanswered)
  BY DEF EndReset, ResetBus, BeginTransfer, In, StatusOut, GiveUp, rxVars, Unanswered
<1>7. In \/ StatusOut => ~Unanswered
  BY DEF In, StatusOut, MaySend, Unanswered
<1>. QED
  BY <1>1, <1>2, <1>3, <1>4, <1>5, <1>6, <1>7

\* What usbProcessRx relies on is kept.
LEMMA ProcessingInvNext == ProcessingInv /\ [Next]_vars => ProcessingInv'
<1>. SUFFICES ASSUME ProcessingInv, [Next]_vars PROVE ProcessingInv'
  OBVIOUS
<1>1. CASE Poll \/ BeginSetup \/ Answer \/ FreeRx
  BY <1>1 DEF Poll, BeginSetup, Answer, FreeRx, rxVars, txVars, ProcessingInv, Unanswered
<1>2. CASE BuildTxBlock \/ ArmTx \/ NothingToTransmit \/ CheckLine
  BY <1>2 DEF BuildTxBlock, ArmTx, NothingToTransmit, CheckLine, ProcessingInv
<1>3. CASE Setup \/ OutReport
  BY <1>3 DEF Setup, OutReport, Store, txVars, ProcessingInv, Unanswered
<1>4. CASE EndReset \/ ResetBus \/ BeginTransfer \/ StatusOut \/ GiveUp \/ UNCHANGED vars
  BY <1>4 DEF EndReset, ResetBus, BeginTransfer, StatusOut, GiveUp, vars, rxVars, txVars,
              ProcessingInv, Unanswered
<1>5. CASE In
  BY <1>5 DEF In, MaySend, rxVars, ProcessingInv, Unanswered
<1>. QED
  BY <1>1, <1>2, <1>3, <1>4, <1>5 DEF Next, Main, Host

\* A reset that usbPoll sees twice leaves no address behind.
LEMMA ResetInvNext ==
    ASSUME ResetPolls >= 2, ProcessingInv, ResetInv, [Next]_vars PROVE ResetInv'
<1>0. ResetPolls \in Nat /\ polls \in Nat
  BY ControlAssumption DEF ControlAssumption, ResetInv
<1>1. CASE Poll
  <2>1. UNCHANGED <<polls, stage, address, usbDeviceAddr, usbNewDeviceAddr, usbRxLen, usbRxToken>>
        /\ pc = "poll"
        /\ (Unanswered' => Unanswered /\ pc' = "setup")
    BY <1>1 DEF Poll, rxVars, addressVars, hostVars, Unanswered
  <2>. QED
    BY <2>1 DEF ResetInv
<1>2. CASE BeginSetup
  <2>1. UNCHANGED <<polls, stage, address, usbDeviceAddr, usbNewDeviceAddr>>
        /\ (Unanswered' => Unanswered) /\ pc' = "answer"
    BY <1>2 DEF BeginSetup, rxVars, addressVars, hostVars, Unanswered
  <2>2. Unanswered /\ pc = "setup"
    BY <1>2 DEF BeginSetup, ProcessingInv
  <2>. QED
    BY <2>1, <2>2 DEF ResetInv
<1>3. CASE Answer
  <2>1. UNCHANGED <<polls, stage, address>> /\ ~Unanswered'
    BY <1>3 DEF Answer, hostVars, Unanswered
  <2>2. stage = "reset" => polls = 0 \/ polls = 1
    BY <1>3 DEF Answer, ProcessingInv, ResetInv
  <2>. QED
    BY <2>1, <2>2 DEF ResetInv
<1>4. CASE FreeRx \/ BuildTxBlock \/ ArmTx \/ NothingToTransmit
  <2>1. UNCHANGED <<polls, stage, address, usbDeviceAddr, usbNewDeviceAddr>>
        /\ pc \notin {"poll", "setup", "answer"}
    BY <1>4 DEF FreeRx, BuildTxBlock, ArmTx, NothingToTransmit, addressVars, hostVars
  <2>2. Unanswered' => Unanswered
    BY <1>4, UnansweredSteps
  <2>. QED
    BY <2>1, <2>2 DEF ResetInv
<1>5. CASE CheckLine
  <2>1. UNCHANGED <<stage, address>> /\ pc = "line" /\ pc' = "poll"
    BY <1>5 DEF CheckLine
  <2>2. Unanswered' => Unanswered
    BY <1>5, UnansweredSteps DEF Main
  <2>3. CASE stage = "reset"
    <3>1. /\ usbDeviceAddr' = 0 /\ usbNewDeviceAddr' = 0
          /\ polls' = IF polls < ResetPolls THEN polls + 1 ELSE polls
      BY <1>5, <2>3 DEF CheckLine, ClearAddresses
    <3>2. PICK n \in Nat : polls' = n /\ n = IF polls < ResetPolls THEN polls + 1 ELSE polls
      BY <1>0, <3>1
    <3>3. n <= ResetPolls /\ (polls = 0 => n = 1)
      BY <1>0, <2>3, <3>2 DEF ResetInv
    <3>4. Unanswered => polls = 0
      BY <2>1, <2>3 DEF ResetInv
    <3>. QED
      BY <2>1, <2>2, <2>3, <3>1, <3>2, <3>3, <3>4 DEF ResetInv
  <2>4. CASE stage # "reset"
    BY <1>5, <2>1, <2>4 DEF CheckLine, ResetInv
  <2>. QED
    BY <2>3, <2>4
<1>6. CASE EndReset \/ ResetBus
  <2>1. polls' = 0
    BY <1>6 DEF EndReset, ResetBus, ResetInv
  <2>2. stage' = "reset" => address' = 0
    BY <1>6 DEF EndReset, ResetBus
  <2>. QED
    BY <1>0, <2>1, <2>2 DEF ResetInv
<1>7. CASE GiveUp
  <2>1. polls = 0 /\ polls' = 0 /\ (stage' = "reset" => address' = 0)
    BY <1>7 DEF GiveUp, ResetInv
  <2>. QED
    BY <1>0, <2>1 DEF ResetInv
<1>8. CASE BeginTransfer \/ Setup \/ OutReport \/ In \/ StatusOut
  <2>1. polls' = 0
    BY <1>8 DEF BeginTransfer, Setup, OutReport, In, StatusOut, hostVars, ResetInv
  <2>2. stage' # "reset"
    BY <1>8 DEF BeginTransfer, Setup, OutReport, In, TakeBlock, LoseBlock, StatusOut, hostVars
  <2>. QED
    BY <2>1, <2>2 DEF ResetInv
<1>9. CASE UNCHANGED vars
  <2>1. UNCHANGED <<polls, stage, address, usbDeviceAddr, usbNewDeviceAddr, pc, Unanswered>>
    BY <1>9 DEF vars, rxVars, addressVars, hostVars, Unanswered
  <2>. QED
    BY <2>1 DEF ResetInv
<1>. QED
  BY <1>1, <1>2, <1>3, <1>4, <1>5, <1>6, <1>7, <1>8, <1>9 DEF Next, Main, Host

\* A step that leaves the host's side of a transfer alone.
LEMMA MainAddress ==
    ASSUME ProcessingInv, AddressInv, Main PROVE AddressInv'
<1>. SUFFICES ASSUME stage # "reset" PROVE AddressInv'
  BY DEF Main, Poll, BeginSetup, Answer, FreeRx, BuildTxBlock, ArmTx, NothingToTransmit, CheckLine,
         hostVars, AddressInv
<1>1. UNCHANGED <<rq, stage, request, address, expected, lost, usbDeviceAddr>>
  BY DEF Main, Poll, BeginSetup, Answer, NoteAddress, FreeRx, BuildTxBlock, ArmTx,
         NothingToTransmit, CheckLine, rxVars, addressVars, hostVars
<1>2. Addressing' = Addressing /\ (Unanswered' => Unanswered)
  BY <1>1, UnansweredSteps DEF Addressing
<1>3. \/ UNCHANGED usbNewDeviceAddr
      \/ usbNewDeviceAddr' = request.wValue[1] /\ Addressing
  <2>1. CASE Answer /\ SetsAddress(rq)
    BY <2>1 DEF Answer, NoteAddress, Sets, SetsAddress, ProcessingInv, AddressInv
  <2>2. CASE Answer /\ ~SetsAddress(rq)
    BY <2>2 DEF Answer, NoteAddress, Sets, SetsAddress
  <2>3. CASE ~Answer
    BY <2>3 DEF Main, Poll, BeginSetup, FreeRx, BuildTxBlock, ArmTx, NothingToTransmit, CheckLine,
                addressVars
  <2>. QED
    BY <2>1, <2>2, <2>3
<1>4. ASSUME Addressing, stage = "in", ~lost, address # request.wValue[1]
      PROVE  IF Unanswered' THEN rq' = request' ELSE Noted'
  <2>1. CASE Unanswered'
    BY <1>1, <1>2, <1>4, <2>1 DEF AddressInv
  <2>2. CASE ~Unanswered' /\ Unanswered
    <3>1. Answer
      BY <2>2, UnansweredSteps DEF Main, Poll, BeginSetup, rxVars, Unanswered
    <3>2. rq = request /\ SetsAddress(rq)
      BY <1>4, <2>2 DEF AddressInv, Addressing
    <3>3. usbNewDeviceAddr' = request.wValue[1]
      BY <3>1, <3>2 DEF Answer, NoteAddress, Sets, SetsAddress
    <3>4. txToken' = 0 /\ usbTxLen' = "NAK" /\ pc' = "free"
      BY <3>1 DEF Answer, txVars, ProcessingInv
    <3>. QED
      BY <1>1, <2>2, <3>3, <3>4 DEF Noted
  <2>3. CASE ~Unanswered' /\ ~Unanswered
    <3>1. Noted
      BY <1>4, <2>3 DEF AddressInv
    <3>2. usbNewDeviceAddr' = request'.wValue[1]
      BY <1>1, <1>3, <3>1 DEF Noted
    <3>3. txToken' = IF usbTxLen' = "NAK" /\ pc' # "arm" THEN 0 ELSE 1
      <4>1. CASE BuildTxBlock
        BY <3>1, <4>1 DEF Noted, BuildTxBlock
      <4>2. CASE ArmTx
        BY <3>1, <4>2 DEF Noted, ArmTx
      <4>3. CASE Poll \/ FreeRx \/ NothingToTransmit \/ CheckLine
        BY <3>1, <4>3 DEF Noted, Poll, FreeRx, NothingToTransmit, CheckLine, txVars
      <4>4. ~BeginSetup /\ ~Answer
        BY <2>3 DEF BeginSetup, Answer, ProcessingInv
      <4>. QED
        BY <4>1, <4>2, <4>3, <4>4 DEF Main
    <3>. QED
      BY <2>3, <3>2, <3>3 DEF Noted
  <2>. QED
    BY <2>1, <2>2, <2>3
<1>5. Unanswered' /\ SetsAddress(rq)' => Addressing' /\ rq' = request'
  BY <1>1, <1>2 DEF AddressInv, SetsAddress
<1>6. ~Addressing' => usbDeviceAddr' = address' /\ usbNewDeviceAddr' = address'
  BY <1>1, <1>2, <1>3 DEF AddressInv
<1>7. Addressing' =>
          IF lost'
          THEN /\ stage' = "in"
               /\ usbNewDeviceAddr' = request'.wValue[1]
               /\ usbDeviceAddr' = request'.wValue[1]
          ELSE /\ usbDeviceAddr' = address'
               /\ usbNewDeviceAddr' \in {address', request'.wValue[1]}
  <2>1. CASE lost
    BY <1>1, <1>2, <1>3, <2>1 DEF AddressInv
  <2>2. CASE ~lost
    BY <1>1, <1>2, <1>3, <2>2 DEF AddressInv
  <2>. QED
    BY <2>1, <2>2
<1>8. stage' = "setup" => expected' = 1 /\ ~lost'
  BY <1>1 DEF AddressInv
<1>9. Addressing' /\ stage' = "in" /\ ~lost' /\ address' # request'.wValue[1] =>
          /\ expected' = 1
          /\ IF Unanswered' THEN rq' = request' ELSE Noted'
  BY <1>1, <1>2, <1>4 DEF AddressInv
<1>. QED
  BY <1>5, <1>6, <1>7, <1>8, <1>9 DEF AddressInv

\* The host begins a transfer, or its SETUP packet is stored.
LEMMA SetupAddress ==
    ASSUME ProcessingInv, AddressInv, BeginTransfer \/ Setup PROVE AddressInv'
<1>1. CASE BeginTransfer
  <2>1. /\ usbDeviceAddr = address /\ usbNewDeviceAddr = address
        /\ stage = "idle" /\ stage' = "setup" /\ expected' = 1 /\ ~lost'
        /\ UNCHANGED <<rq, usbDeviceAddr, usbNewDeviceAddr, address>>
    BY <1>1 DEF BeginTransfer, rxVars, addressVars, AddressInv, Addressing
  <2>2. Unanswered' => ~SetsAddress(rq)
    BY <1>1, <2>1, UnansweredSteps DEF AddressInv, Addressing
  <2>. QED
    BY <2>1, <2>2 DEF AddressInv, SetsAddress
<1>2. CASE Setup
  <2>1. /\ UNCHANGED <<usbDeviceAddr, usbNewDeviceAddr, request, address, expected, lost>>
        /\ stage = "setup" /\ stage' \in {"setup", "in"}
        /\ Unanswered' /\ rq' = request /\ expected = 1 /\ ~lost
    BY <1>2, UnansweredSteps DEF Setup, addressVars, AddressInv
  <2>2. Addressing' = Addressing
    BY <2>1 DEF Addressing
  <2>. QED
    BY <2>1, <2>2 DEF AddressInv, SetsAddress, Addressing
<1>. QED
  BY <1>1, <1>2

\* With the block the new address becomes valid.
LEMMA InAddress ==
    ASSUME ProcessingInv, AddressInv, In PROVE AddressInv'
<1>1. /\ stage = "in" /\ usbDeviceAddr = address /\ ~Unanswered /\ ~Unanswered'
      /\ usbTxLen # "NAK" /\ usbDeviceAddr' = usbNewDeviceAddr
      /\ UNCHANGED <<rq, request, usbNewDeviceAddr, txToken>>
  BY UnansweredSteps DEF In, Addressed, MaySend, rxVars
<1>2. stage' \in {"in", "idle", "status"}
  BY <1>1 DEF In, TakeBlock, LoseBlock
<1>3. CASE ~SetsAddress(request)
  <2>1. ~Addressing /\ ~Addressing'
    BY <1>1, <1>3 DEF Addressing, SetsAddress
  <2>2. UNCHANGED address
    BY <1>1, <1>3 DEF In, TakeBlock, LoseBlock, SetsAddress
  <2>. QED
    BY <1>1, <1>2, <2>1, <2>2 DEF AddressInv
<1>4. CASE SetsAddress(request)
  <2>1. Addressing /\ usbNewDeviceAddr = request.wValue[1]
    <3>1. Addressing
      BY <1>1, <1>4 DEF Addressing
    <3>. QED
      BY <1>1, <3>1 DEF AddressInv, Noted
  <2>2. address' = request.wValue[1] \/ lost'
    <3>1. CASE address = request.wValue[1]
      BY <1>1, <1>4, <3>1 DEF In, TakeBlock, LoseBlock
    <3>2. CASE lost
      BY <3>2 DEF In, TakeBlock, LoseBlock
    <3>3. CASE ~lost /\ address # request.wValue[1]
      <4>1. txToken = 1 /\ expected = 1
        BY <1>1, <2>1, <3>3 DEF AddressInv, Noted
      <4>. QED
        BY <1>4, <4>1 DEF In, TakeBlock, LoseBlock, SetsAddress
    <3>. QED
      BY <3>1, <3>2, <3>3
  <2>3. lost' => stage' = "in" \/ address' = request.wValue[1]
    BY <1>1, <1>4 DEF In, TakeBlock, LoseBlock, SetsAddress
  <2>4. /\ usbDeviceAddr' = request'.wValue[1] /\ usbNewDeviceAddr' = request'.wValue[1]
        /\ lost' \/ address' = request'.wValue[1]
    BY <1>1, <2>1, <2>2
  <2>5. Addressing' <=> stage' = "in"
    BY <1>1, <1>2, <1>4 DEF Addressing, SetsAddress
  <2>. QED
    BY <1>1, <1>2, <2>3, <2>4, <2>5 DEF AddressInv
<1>. QED
  BY <1>3, <1>4

\* Every step keeps the addresses in step.
LEMMA AddressInvNext ==
    ASSUME ResetPolls >= 2, ProcessingInv, ResetInv, AddressInv, [Next]_vars PROVE AddressInv'
<1>1. CASE Main
  BY <1>1, MainAddress
<1>2. CASE BeginTransfer \/ Setup
  BY <1>2, SetupAddress
<1>3. CASE In
  BY <1>3, InAddress
<1>4. CASE EndReset
  <2>1. /\ usbDeviceAddr' = 0 /\ usbNewDeviceAddr' = 0 /\ address' = 0 /\ stage' = "idle"
        /\ ~Unanswered
    <3>1. polls >= 2 /\ polls # 0 /\ polls # 1
      BY <1>4, ControlAssumption DEF EndReset, ControlAssumption
    <3>. QED
      BY <1>4, <3>1 DEF EndReset, addressVars, ResetInv
  <2>2. ~Unanswered'
    BY <1>4, <2>1, UnansweredSteps
  <2>. QED
    BY <2>1, <2>2 DEF AddressInv, Addressing
<1>5. CASE ResetBus
  BY <1>5 DEF ResetBus, AddressInv
<1>6. CASE OutReport
  <2>1. /\ UNCHANGED <<rq, stage, request, address, expected, lost, usbDeviceAddr,
                       usbNewDeviceAddr, txToken, usbTxLen, pc>>
        /\ ~Unanswered /\ ~Unanswered'
    BY <1>6, UnansweredSteps DEF OutReport, hostVars, addressVars, txVars
  <2>2. Addressing' = Addressing /\ Noted' = Noted
    BY <2>1 DEF Addressing, Noted
  <2>. QED
    BY <2>1, <2>2 DEF AddressInv
<1>7. CASE StatusOut
  <2>1. /\ UNCHANGED <<rq, request, address, expected, lost, usbDeviceAddr, usbNewDeviceAddr>>
        /\ stage = "status" /\ stage' = "idle" /\ ~Unanswered /\ ~Unanswered'
    BY <1>7, UnansweredSteps DEF StatusOut, addressVars, rxVars
  <2>. QED
    BY <2>1 DEF AddressInv, Addressing
<1>8. CASE GiveUp
  <2>1. UNCHANGED <<rq, request, expected, lost, usbDeviceAddr, usbNewDeviceAddr>>
        /\ (Unanswered' <=> Unanswered)
    BY <1>8, UnansweredSteps DEF GiveUp, addressVars, rxVars
  <2>2. CASE request.bRequest = USBRQ_SET_ADDRESS
    BY <1>8, <2>2 DEF GiveUp, AddressInv
  <2>3. CASE request.bRequest # USBRQ_SET_ADDRESS
    <3>1. ~Addressing /\ ~Addressing' /\ stage # "reset" /\ stage' = "idle" /\ UNCHANGED address
      BY <1>8, <2>1, <2>3 DEF GiveUp, Addressing, SetsAddress
    <3>. QED
      BY <2>1, <3>1 DEF AddressInv, SetsAddress
  <2>. QED
    BY <2>2, <2>3
<1>9. CASE UNCHANGED vars
  <2>1. UNCHANGED <<rq, stage, request, address, expected, lost, usbDeviceAddr, usbNewDeviceAddr,
                    txToken, usbTxLen, pc, Unanswered>>
    BY <1>9 DEF vars, rxVars, txVars, addressVars, hostVars, Unanswered
  <2>2. Addressing' = Addressing /\ Noted' = Noted
    BY <2>1 DEF Addressing, Noted
  <2>. QED
    BY <2>1, <2>2 DEF AddressInv, SetsAddress
<1>. QED
  BY <1>1, <1>2, <1>3, <1>4, <1>5, <1>6, <1>7, <1>8, <1>9 DEF Next, Host

\* The invariant above holds throughout, if usbPoll sees each reset twice: a
\* request stored before may be answered after the first time, and sets the
\* address anew.
THEOREM AddressesConsistent == ResetPolls >= 2 => (Spec => []ControlInv)
<1>. SUFFICES ASSUME ResetPolls >= 2 PROVE Spec => []ControlInv
  OBVIOUS
<1>1. ControlInv /\ [Next]_vars => ControlInv'
  BY ProcessingInvNext, ResetInvNext, AddressInvNext DEF ControlInv
<1>. QED
  BY <1>1, ControlInvInit, PTL DEF Spec

\* The device listens to the address the host uses, whatever requests are
\* made, lost, given up and reset: SET_ADDRESS takes effect with its status
\* stage, and none takes effect after a reset (usbdrv.c:394-395, 600-607).
THEOREM InStep == ResetPolls >= 2 => (Spec => []AddressInStep)
<1>. SUFFICES ASSUME ResetPolls >= 2 PROVE Spec => []AddressInStep
  OBVIOUS
<1>1. ControlInv => AddressInStep
  BY DEF ControlInv, AddressInv, AddressInStep
<1>. QED
  BY <1>1, AddressesConsistent, PTL

-----------------------------------------------------------------------------
(* Replies received exactly.                                               *)

Byte == 0..255

\* A part of a sequence, its elements and length.
LEMMA SubSeqTypes ==
    ASSUME NEW S, NEW s \in Seq(S), NEW m \in Nat, NEW n \in Nat, m >= 1, n <= Len(s)
    PROVE  SubSeq(s, m, n) \in Seq(S) /\ Len(SubSeq(s, m, n)) = IF m <= n THEN n - m + 1 ELSE 0
BY SubSeqProperties, ElementOfSeq

\* A part of n bytes.
LEMMA PartTypes ==
    ASSUME NEW s \in Seq(Byte), NEW a \in Nat, NEW n \in Nat, a + n <= Len(s)
    PROVE  SubSeq(s, a + 1, a + n) \in Seq(Byte) /\ Len(SubSeq(s, a + 1, a + n)) = n
<1>. DEFINE m == a + 1
            k == a + n
<1>1. m \in Nat /\ k \in Nat /\ m >= 1 /\ k <= Len(s)
  OBVIOUS
<1>2. (IF m <= k THEN k - m + 1 ELSE 0) = n
  OBVIOUS
<1>. HIDE DEF m, k
<1>3. SubSeq(s, m, k) \in Seq(Byte) /\ Len(SubSeq(s, m, k)) = n
  BY <1>1, <1>2, SubSeqTypes
<1>. QED
  BY <1>3 DEF m, k

\* The first bytes of a part.
LEMMA Cut ==
    ASSUME NEW s \in Seq(Byte), NEW a \in Nat, NEW n \in Nat, NEW m \in 0..n, a + n <= Len(s)
    PROVE  SubSeq(SubSeq(s, a + 1, a + n), 1, m) = SubSeq(s, a + 1, a + m)
<1>1. CASE m = 0
  BY <1>1, SubSeqEmpty
<1>2. CASE m > 0
  BY <1>2, SubSeqOfSubSeq, LenProperties
<1>. QED
  BY <1>1, <1>2

\* A part in two parts.
LEMMA Split ==
    ASSUME NEW s \in Seq(Byte), NEW a \in Nat, NEW n \in Nat, NEW m \in 0..n, a + n <= Len(s)
    PROVE  SubSeq(s, a + 1, a + m) \o SubSeq(s, (a + m) + 1, a + n) = SubSeq(s, a + 1, a + n)
BY ConcatAdjacentSubSeq, LenProperties

\* What a sequence begins with is a prefix of it.
LEMMA PrefixOfConcat ==
    ASSUME NEW s \in Seq(Byte), NEW t \in Seq(Byte)
    PROVE  IsPrefix(s, s \o t)
<1>1. Len(s \o t) = Len(s) + Len(t) /\ Len(s) \in Nat /\ Len(t) \in Nat
  BY ConcatProperties, LenProperties
<1>2. SubSeq(s \o t, 1, Len(s)) = s
  <2>1. CASE s = <<>>
    BY <2>1, SubSeqEmpty
  <2>2. CASE s # <<>>
    BY <1>1, <2>2, SubSeqOfConcat1, SubSeqFull, EmptySeq
  <2>. QED
    BY <2>1, <2>2
<1>. QED
  BY <1>1, <1>2, SubSeqFull DEF IsPrefix

\* The descriptors, and how long they are.
LEMMA DescriptorBytes ==
    /\ usbDescriptorDevice \in Seq(Byte) /\ Len(usbDescriptorDevice) = 18
    /\ usbDescriptorConfiguration \in Seq(Byte) /\ Len(usbDescriptorConfiguration) = 41
    /\ usbDescriptorHidReport \in Seq(Byte) /\ Len(usbDescriptorHidReport) = 203
    /\ \A of \in {"language", "vendor", "product", "serial"} :
           usbDescriptorString[of] \in Seq(Byte) /\ Len(usbDescriptorString[of]) \in 0..38
<1>1. usbDescriptorDevice \in Seq(Byte) /\ Len(usbDescriptorDevice) = 18
  BY DEF usbDescriptorDevice, USB_CFG_VENDOR_ID, USB_CFG_DEVICE_ID, USB_CFG_DEVICE_VERSION,
         USBDESCR_DEVICE, Byte
<1>2. usbDescriptorConfiguration \in Seq(Byte) /\ Len(usbDescriptorConfiguration) = 41
  BY DEF usbDescriptorConfiguration, usbDescriptorHid, Endpoint, USBDESCR_CONFIG, USBDESCR_INTERFACE, USBDESCR_HID,
         USBDESCR_HID_REPORT, USBDESCR_ENDPOINT, USB_CFG_DESCR_PROPS_CONFIGURATION,
         USB_CFG_MAX_BUS_POWER, USB_CFG_INTERFACE_CLASS, USB_CFG_HID_REPORT_DESCRIPTOR_LENGTH, Byte
<1>3. ASSUME NEW length \in 0..18
      PROVE  /\ StringDescriptor(length) \in Seq(Byte)
             /\ Len(StringDescriptor(length)) \in 0..38
  <2>. DEFINE header == <<2 * length + 2, USBDESCR_STRING>>
              characters == [i \in 1..(2 * length) |-> IF i % 2 = 1 THEN 63 ELSE 0]
  <2>1. header \in Seq(Byte) /\ Len(header) = 2
    BY DEF USBDESCR_STRING, Byte
  <2>2. characters \in Seq(Byte) /\ Len(characters) = 2 * length
    BY DEF Byte
  <2>3. StringDescriptor(length) = header \o characters
    BY DEF StringDescriptor
  <2>. HIDE DEF header, characters
  <2>4. /\ StringDescriptor(length) \in Seq(Byte)
        /\ Len(StringDescriptor(length)) = Len(header) + Len(characters)
    BY <2>1, <2>2, <2>3, ConcatProperties
  <2>. QED
    BY <2>1, <2>2, <2>4
<1>4. ASSUME NEW of \in {"language", "vendor", "product", "serial"}
      PROVE  usbDescriptorString[of] \in Seq(Byte) /\ Len(usbDescriptorString[of]) \in 0..38
  <2>1. CASE of = "language"
    BY <2>1 DEF usbDescriptorString, USBDESCR_STRING, Byte
  <2>2. CASE of # "language"
    <3>1. \E length \in 0..18 : usbDescriptorString[of] = StringDescriptor(length)
      BY <2>2 DEF usbDescriptorString, USB_CFG_VENDOR_NAME_LEN, USB_CFG_DEVICE_NAME_LEN,
                  USB_CFG_SERIAL_NUMBER_LEN
    <3>. QED
      BY <1>3, <3>1
  <2>. QED
    BY <2>1, <2>2
<1>. QED
  BY <1>1, <1>2, <1>4, DescriptorsCounted DEF DescriptorsCounted, Byte

\* The memory replies are read from.
LEMMA ReplyBytes ==
    /\ Bytes("device") = usbDescriptorDevice
    /\ Bytes("configuration") = usbDescriptorConfiguration
    /\ Bytes("report") = usbDescriptorHidReport
    /\ \A of \in {"language", "vendor", "product", "serial"} : Bytes(of) = usbDescriptorString[of]
    /\ Bytes("value") = <<usbConfiguration>>
    /\ Bytes("reply") = <<0, 0>>
    /\ Bytes("none") = <<>>
<1>1. DOMAIN usbDescriptorString = {"language", "vendor", "product", "serial"}
  BY DEF usbDescriptorString
<1>. QED
  BY <1>1 DEF Bytes

\* A message of n bytes, from ptr on.
InMemory(ptr, n) ==
    /\ Bytes(ptr[1]) \in Seq(Byte)
    /\ ptr[2] \in Nat
    /\ ptr[2] + n <= Len(Bytes(ptr[1]))

Message(ptr, n) == SubSeq(Bytes(ptr[1]), ptr[2] + 1, ptr[2] + n)

\* The descriptor a request for one is answered with.
LEMMA DescriptorReply ==
    ASSUME NEW r \in Requests, usbConfiguration \in Byte, IsStandard(r),
           r.bRequest = USBRQ_GET_DESCRIPTOR
    PROVE  /\ DescriptorLength(r) \in 0..203
           /\ InMemory(Descriptor(r), DescriptorLength(r))
           /\ Message(Descriptor(r), DescriptorLength(r)) = Wanted(r)
           /\ Descriptor(r)[1] = "none" => DescriptorLength(r) = 0
<1>0. r.wValue[1] \in Byte /\ r.wValue[2] \in Byte
  BY RequestsAssumption DEF RequestsAssumption, Byte
<1>. DEFINE ptr == Descriptor(r)
            bytes == Bytes(ptr[1])
            length == DescriptorLength(r)
<1>. SUFFICES /\ bytes \in Seq(Byte) /\ ptr[2] \in Nat /\ length \in 0..203
              /\ ptr[2] + length <= Len(bytes)
              /\ SubSeq(bytes, ptr[2] + 1, ptr[2] + length) = Wanted(r)
              /\ ptr[1] = "none" => length = 0
  BY DEF InMemory, Message
<1>1. CASE r.wValue[2] \notin {USBDESCR_CONFIG, USBDESCR_HID, USBDESCR_HID_REPORT}
  <2>1. PICK of \in {"device", "language", "vendor", "product", "serial", "none"} :
            ptr = <<of, 0>>
    <3>1. CASE r.wValue[2] = USBDESCR_STRING /\ r.wValue[1] < 4
      <4>1. ptr = <<<<"language", "vendor", "product", "serial">>[r.wValue[1] + 1], 0>>
        BY <1>1, <3>1 DEF Descriptor, USBDESCR_DEVICE, USBDESCR_STRING, USBDESCR_CONFIG,
                          USBDESCR_HID, USBDESCR_HID_REPORT
      <4>2. r.wValue[1] \in {0, 1, 2, 3}
        BY <1>0, <3>1 DEF Byte
      <4>3. <<"language", "vendor", "product", "serial">>[r.wValue[1] + 1]
                \in {"language", "vendor", "product", "serial"}
        BY <4>2
      <4>. QED
        BY <4>1, <4>3
    <3>2. CASE ~(r.wValue[2] = USBDESCR_STRING /\ r.wValue[1] < 4)
      BY <1>1, <3>2 DEF Descriptor, USBDESCR_CONFIG, USBDESCR_HID, USBDESCR_HID_REPORT
    <3>. QED
      BY <3>1, <3>2
  <2>2. bytes = Bytes(of) /\ length = Len(Bytes(of)) /\ Wanted(r) = Bytes(of)
    BY <1>1, <2>1 DEF DescriptorLength, Wanted, USBDESCR_HID, USBRQ_GET_DESCRIPTOR,
                      USBRQ_GET_STATUS, USBRQ_GET_CONFIGURATION, USBRQ_GET_INTERFACE
  <2>3. /\ Bytes(of) \in Seq(Byte) /\ Len(Bytes(of)) \in 0..203
        /\ of = "none" => Len(Bytes(of)) = 0
    <3>1. CASE of = "device"
      BY <3>1, ReplyBytes, DescriptorBytes
    <3>2. CASE of = "none"
      <4>1. Bytes(of) = <<>>
        BY <3>2, ReplyBytes
      <4>. QED
        BY <4>1
    <3>3. CASE of \in {"language", "vendor", "product", "serial"}
      <4>1. Bytes(of) \in Seq(Byte) /\ Len(Bytes(of)) \in 0..38
        BY <3>3, ReplyBytes, DescriptorBytes
      <4>. QED
        BY <3>3, <4>1
    <3>. QED
      BY <2>1, <3>1, <3>2, <3>3
  <2>4. SubSeq(Bytes(of), 1, Len(Bytes(of))) = Bytes(of)
    BY <2>3, SubSeqFull
  <2>5. ptr[1] = of /\ ptr[2] = 0
    BY <2>1
  <2>. HIDE DEF ptr, bytes, length
  <2>. QED
    <3>1. ptr[1] = "none" => length = 0
      BY <2>2, <2>3, <2>5
    <3>2. length \in 0..203 /\ length = Len(bytes)
      BY <2>2, <2>3
    <3>3. ptr[2] \in Nat /\ ptr[2] + 1 = 1 /\ ptr[2] + length = length
      BY <2>5, <3>2
    <3>4. bytes \in Seq(Byte) /\ SubSeq(bytes, 1, length) = Wanted(r)
      BY <2>2, <2>3, <2>4
    <3>5. SubSeq(bytes, ptr[2] + 1, ptr[2] + length) = Wanted(r)
      BY <3>3, <3>4
    <3>6. ptr[2] + length <= Len(bytes)
      BY <3>2, <3>3
    <3>. QED
      BY <3>1, <3>2, <3>3, <3>4, <3>5, <3>6
<1>2. CASE r.wValue[2] = USBDESCR_CONFIG
  <2>1. ptr = <<"configuration", 0>> /\ length = 41
    BY <1>2 DEF Descriptor, DescriptorLength, USBDESCR_DEVICE, USBDESCR_CONFIG,
                USB_CFG_DESCR_PROPS_CONFIGURATION, USBDESCR_STRING, USBDESCR_HID,
                USBDESCR_HID_REPORT
  <2>2. Wanted(r) = usbDescriptorConfiguration
    BY <1>2, <2>1, ReplyBytes
       DEF Wanted, USBDESCR_HID, USBDESCR_CONFIG, USBRQ_GET_DESCRIPTOR, USBRQ_GET_STATUS,
           USBRQ_GET_CONFIGURATION, USBRQ_GET_INTERFACE
  <2>3. /\ ptr[1] # "none" /\ ptr[2] = 0 /\ bytes = usbDescriptorConfiguration
        /\ SubSeq(bytes, 1, Len(bytes)) = bytes
    BY <2>1, ReplyBytes, DescriptorBytes, SubSeqFull
  <2>. HIDE DEF ptr, bytes, length
  <2>. QED
    BY <2>1, <2>2, <2>3, DescriptorBytes
<1>3. CASE r.wValue[2] = USBDESCR_HID_REPORT
  <2>1. ptr = <<"report", 0>> /\ length = 203
    BY <1>3 DEF Descriptor, DescriptorLength, USBDESCR_DEVICE, USBDESCR_CONFIG,
                USB_CFG_HID_REPORT_DESCRIPTOR_LENGTH, USBDESCR_STRING, USBDESCR_HID,
                USBDESCR_HID_REPORT
  <2>2. Wanted(r) = usbDescriptorHidReport
    BY <1>3, <2>1, ReplyBytes
       DEF Wanted, USBDESCR_HID, USBDESCR_HID_REPORT, USBRQ_GET_DESCRIPTOR, USBRQ_GET_STATUS,
           USBRQ_GET_CONFIGURATION, USBRQ_GET_INTERFACE
  <2>3. /\ ptr[1] # "none" /\ ptr[2] = 0 /\ bytes = usbDescriptorHidReport
        /\ SubSeq(bytes, 1, Len(bytes)) = bytes
    BY <2>1, ReplyBytes, DescriptorBytes, SubSeqFull
  <2>. HIDE DEF ptr, bytes, length
  <2>. QED
    BY <2>1, <2>2, <2>3, DescriptorBytes
<1>4. CASE r.wValue[2] = USBDESCR_HID
  <2>1. ptr = <<"configuration", 18>> /\ length = 9
    BY <1>4 DEF Descriptor, DescriptorLength, USBDESCR_DEVICE, USBDESCR_CONFIG,
                USB_CFG_DESCR_PROPS_HID, USBDESCR_STRING, USBDESCR_HID, USBDESCR_HID_REPORT
  <2>2. Wanted(r) = SubSeq(usbDescriptorConfiguration, 19, 27)
    BY <1>4, DescriptorsCounted
       DEF DescriptorsCounted, Wanted, USBRQ_GET_DESCRIPTOR, USBRQ_GET_STATUS,
           USBRQ_GET_CONFIGURATION, USBRQ_GET_INTERFACE
  <2>3. ptr[1] # "none" /\ ptr[2] = 18 /\ bytes = usbDescriptorConfiguration
    BY <2>1, ReplyBytes
  <2>. HIDE DEF ptr, bytes, length
  <2>. QED
    BY <2>1, <2>2, <2>3, DescriptorBytes
<1>. QED
  BY <1>1, <1>2, <1>3, <1>4

\* Every request is answered with what it asks for.
LEMMA Replies ==
    ASSUME NEW r \in Requests, usbConfiguration \in Byte
    PROVE  /\ ReplyLen(r) \in 0..203
           /\ Wanted(r) \in Seq(Byte) /\ Len(Wanted(r)) = ReplyLen(r)
           /\ IsStandard(r) /\ MessagePtr(r)[1] # "none" =>
                  /\ InMemory(MessagePtr(r), ReplyLen(r))
                  /\ Message(MessagePtr(r), ReplyLen(r)) = Wanted(r)
           /\ ~(IsStandard(r) /\ MessagePtr(r)[1] # "none") => ReplyLen(r) = 0
<1>1. CASE ~IsStandard(r)
  <2>1. ReplyLen(r) = 0 /\ Wanted(r) = <<>>
    BY <1>1 DEF ReplyLen, usbFunctionSetup, Wanted
  <2>. QED
    BY <1>1, <2>1
<1>2. CASE IsStandard(r) /\ r.bRequest = USBRQ_GET_DESCRIPTOR
  <2>1. MessagePtr(r) = Descriptor(r) /\ ReplyLen(r) = DescriptorLength(r)
    BY <1>2 DEF MessagePtr, ReplyLen, USBRQ_GET_DESCRIPTOR, USBRQ_GET_STATUS,
                USBRQ_GET_CONFIGURATION, USBRQ_GET_INTERFACE
  <2>2. /\ ReplyLen(r) \in 0..203
        /\ InMemory(MessagePtr(r), ReplyLen(r))
        /\ Message(MessagePtr(r), ReplyLen(r)) = Wanted(r)
        /\ MessagePtr(r)[1] = "none" => ReplyLen(r) = 0
    BY <1>2, <2>1, DescriptorReply
  <2>3. Wanted(r) \in Seq(Byte) /\ Len(Wanted(r)) = ReplyLen(r)
    <3>1. PICK from \in Nat : from = MessagePtr(r)[2]
      BY <2>2 DEF InMemory
    <3>. DEFINE bytes == Bytes(MessagePtr(r)[1])
    <3>2. /\ bytes \in Seq(Byte) /\ from + ReplyLen(r) <= Len(bytes)
          /\ Wanted(r) = SubSeq(bytes, from + 1, from + ReplyLen(r))
      BY <2>2, <3>1 DEF InMemory, Message
    <3>. HIDE DEF bytes
    <3>3. PICK n \in Nat : n = ReplyLen(r)
      BY <2>2
    <3>4. Wanted(r) = SubSeq(bytes, from + 1, from + n) /\ from + n <= Len(bytes)
      BY <3>2, <3>3
    <3>5. /\ SubSeq(bytes, from + 1, from + n) \in Seq(Byte)
          /\ Len(SubSeq(bytes, from + 1, from + n)) = n
      BY <3>1, <3>2, <3>3, <3>4, PartTypes
    <3>6. Wanted(r) \in Seq(Byte) /\ Len(Wanted(r)) = n
      BY <3>4, <3>5
    <3>. QED
      BY <3>3, <3>6
  <2>. QED
    BY <1>2, <2>2, <2>3
<1>3. ASSUME IsStandard(r), NEW of \in {"reply", "value"}, NEW n \in 0..2,
             MessagePtr(r) = <<of, 0>>, ReplyLen(r) = n,
             Bytes(of) \in Seq(Byte), n <= Len(Bytes(of)), SubSeq(Bytes(of), 1, n) = Wanted(r)
      PROVE  /\ ReplyLen(r) \in 0..203
             /\ Wanted(r) \in Seq(Byte) /\ Len(Wanted(r)) = ReplyLen(r)
             /\ MessagePtr(r)[1] # "none"
             /\ InMemory(MessagePtr(r), ReplyLen(r))
             /\ Message(MessagePtr(r), ReplyLen(r)) = Wanted(r)
  <2>1. InMemory(<<of, 0>>, n) /\ Message(<<of, 0>>, n) = Wanted(r)
    BY <1>3 DEF InMemory, Message
  <2>2. Wanted(r) \in Seq(Byte) /\ Len(Wanted(r)) = n
    BY <1>3, SubSeqTypes
  <2>. QED
    BY <1>3, <2>1, <2>2
<1>4. /\ Bytes("reply") \in Seq(Byte) /\ Len(Bytes("reply")) = 2
      /\ SubSeq(Bytes("reply"), 1, 2) = <<0, 0>>
      /\ Bytes("value") \in Seq(Byte) /\ Len(Bytes("value")) = 1
      /\ SubSeq(Bytes("value"), 1, 1) = <<usbConfiguration>>
  <2>1. <<0, 0>> \in Seq(Byte) /\ Len(<<0, 0>>) = 2
    BY DEF Byte
  <2>2. <<usbConfiguration>> \in Seq(Byte) /\ Len(<<usbConfiguration>>) = 1
    OBVIOUS
  <2>3. SubSeq(<<0, 0>>, 1, 2) = <<0, 0>>
    BY <2>1, SubSeqFull
  <2>4. SubSeq(<<usbConfiguration>>, 1, 1) = <<usbConfiguration>>
    BY <2>2, SubSeqFull
  <2>. QED
    BY <2>1, <2>2, <2>3, <2>4, ReplyBytes
<1>5. /\ SubSeq(Bytes("reply"), 1, 0) = <<>>
      /\ SubSeq(Bytes("reply"), 1, 1) = <<0>>
  <2>1. SubSeq(<<0, 0>>, 1, 1) = <<0>>
    <3>1. <<0, 0>> \in Seq(Nat) /\ Len(<<0, 0>>) = 2 /\ <<0, 0>>[1] = 0 /\ <<0>> \in Seq(Nat)
      OBVIOUS
    <3>2. SubSeq(<<0, 0>>, 1, 1) = <<0>> \o SubSeq(<<0, 0>>, 2, 1)
      BY <3>1, SubSeqRecursiveFirst
    <3>3. SubSeq(<<0, 0>>, 2, 1) = <<>>
      BY SubSeqEmpty
    <3>. QED
      BY <3>1, <3>2, <3>3, ConcatEmptySeq
  <2>. QED
    BY <2>1, ReplyBytes, SubSeqEmpty
<1>6. CASE IsStandard(r) /\ r.bRequest \in {USBRQ_GET_STATUS, USBRQ_GET_CONFIGURATION,
                                            USBRQ_GET_INTERFACE}
  <2>1. PICK of \in {"reply", "value"}, n \in 0..2 :
            /\ MessagePtr(r) = <<of, 0>> /\ ReplyLen(r) = n
            /\ Bytes(of) \in Seq(Byte) /\ n <= Len(Bytes(of))
            /\ SubSeq(Bytes(of), 1, n) = Wanted(r)
    <3>1. CASE r.bRequest = USBRQ_GET_STATUS
      <4>1. MessagePtr(r) = <<"reply", 0>> /\ ReplyLen(r) = 2 /\ Wanted(r) = <<0, 0>>
        BY <1>6, <3>1 DEF MessagePtr, ReplyLen, Wanted, USBRQ_GET_DESCRIPTOR, USBRQ_GET_STATUS,
                         USBRQ_GET_CONFIGURATION, USBRQ_GET_INTERFACE
      <4>. QED
        BY <1>4, <4>1
    <3>2. CASE r.bRequest = USBRQ_GET_CONFIGURATION
      <4>1. MessagePtr(r) = <<"value", 0>> /\ ReplyLen(r) = 1 /\ Wanted(r) = <<usbConfiguration>>
        BY <1>6, <3>2 DEF MessagePtr, ReplyLen, Wanted, USBRQ_GET_DESCRIPTOR, USBRQ_GET_STATUS,
                         USBRQ_GET_CONFIGURATION, USBRQ_GET_INTERFACE
      <4>. QED
        BY <1>4, <4>1
    <3>3. CASE r.bRequest = USBRQ_GET_INTERFACE
      <4>1. MessagePtr(r) = <<"reply", 0>> /\ ReplyLen(r) = 1 /\ Wanted(r) = <<0>>
        BY <1>6, <3>3 DEF MessagePtr, ReplyLen, Wanted, USBRQ_GET_DESCRIPTOR, USBRQ_GET_STATUS,
                         USBRQ_GET_CONFIGURATION, USBRQ_GET_INTERFACE
      <4>. QED
        BY <1>4, <1>5, <4>1
    <3>. QED
      BY <1>6, <3>1, <3>2, <3>3
  <2>. QED
    BY <1>3, <1>6, <2>1
<1>7. CASE IsStandard(r) /\ r.bRequest \notin {USBRQ_GET_DESCRIPTOR, USBRQ_GET_STATUS,
                                               USBRQ_GET_CONFIGURATION, USBRQ_GET_INTERFACE}
  <2>1. MessagePtr(r) = <<"reply", 0>> /\ ReplyLen(r) = 0 /\ Wanted(r) = <<>>
    BY <1>7 DEF MessagePtr, ReplyLen, Wanted
  <2>. QED
    BY <1>3, <1>4, <1>5, <1>7, <2>1
<1>. QED
  BY <1>1, <1>2, <1>6, <1>7

\* As much of it as the host allows.
LEMMA Cutting ==
    ASSUME NEW r \in Requests, usbConfiguration \in Byte
    PROVE  /\ Limited(ReplyLen(r), r) \in 0..ReplyLen(r)
           /\ Asked(r) = SubSeq(Wanted(r), 1, Limited(ReplyLen(r), r))
           /\ Asked(r) \in Seq(Byte)
           /\ Len(Asked(r)) <= r.wLength[1] + 256 * r.wLength[2]
<1>1. ReplyLen(r) \in 0..203 /\ Wanted(r) \in Seq(Byte) /\ Len(Wanted(r)) = ReplyLen(r)
  BY Replies
<1>2. PICK low \in Byte, high \in Byte : r.wLength[1] = low /\ r.wLength[2] = high
  BY RequestsAssumption DEF RequestsAssumption, Byte
<1>3. PICK most \in Nat : most = low + 256 * high
  BY <1>2 DEF Byte
<1>. DEFINE length == IF most < Len(Wanted(r)) THEN most ELSE Len(Wanted(r))
<1>4. Asked(r) = SubSeq(Wanted(r), 1, length)
  BY <1>2, <1>3 DEF Asked
<1>5. Limited(ReplyLen(r), r) = length
  <2>1. CASE high = 0
    BY <1>1, <1>2, <1>3, <2>1 DEF Limited, Byte
  <2>2. CASE high # 0
    <3>1. most >= 256
      BY <1>3, <2>2 DEF Byte
    <3>2. Limited(ReplyLen(r), r) = ReplyLen(r)
      BY <1>2, <2>2 DEF Limited
    <3>3. \A n \in 0..203 : ~(most < n)
      BY <1>3, <3>1
    <3>4. ~(most < Len(Wanted(r)))
      BY <1>1, <3>3
    <3>. QED
      BY <1>1, <3>2, <3>4
  <2>. QED
    BY <2>1, <2>2
<1>6. length \in 0..ReplyLen(r) /\ length <= most
  BY <1>1
<1>. HIDE DEF length
<1>7. Asked(r) \in Seq(Byte) /\ Len(Asked(r)) = length
  BY <1>1, <1>4, <1>6, SubSeqTypes
<1>. QED
  BY <1>2, <1>3, <1>4, <1>5, <1>6, <1>7

\* A block has been built and not been sent.
Present == usbTxLen = "data" \/ pc = "arm"

Waiting == IF Present THEN txData ELSE <<>>

Left == IF usbMsgLen = USB_NO_MSG THEN 0 ELSE usbMsgLen

Rest == Message(usbMsgPtr, Left)

\* What is left of a message lies in the memory it is read from.
MessageInv ==
    /\ request \in Requests /\ rq \in Requests
    /\ usbConfiguration \in Byte
    /\ usbMsgLen \in 0..USB_NO_MSG
    /\ InMemory(usbMsgPtr, Left)
    /\ got \in Seq(Byte) /\ txData \in Seq(Byte)
    /\ usbTxLen \in {"NAK", "data"}
    /\ pc = "arm" => usbTxLen = "NAK"
    /\ txToken \in {0, 1} /\ expected \in {0, 1}

\* What the host has received, what waits to be sent and what is left are the
\* reply, and the next block has the token the host expects.
Sending ==
    /\ (got \o Waiting) \o Rest = Asked(request)
    /\ txToken = IF Present THEN expected ELSE 1 - expected
    /\ Present /\ Len(txData) < 8 => usbMsgLen = USB_NO_MSG

ExactInv ==
    /\ stage \in {"idle", "reset", "setup"} => got = <<>>
    /\ stage = "setup" => expected = 1 /\ ~lost
    /\ stage = "in" /\ Unanswered => rq = request
    /\ stage = "in" /\ ~lost => IF Unanswered THEN got = <<>> /\ expected = 1 ELSE Sending
    /\ stage = "in" /\ ~IsIn(request) =>
           got = <<>> /\ (~Unanswered => Waiting = <<>> /\ Rest = <<>>)
    /\ stage = "status" => ~Unanswered /\ (~lost => got = Asked(request))

\* A standard request that is answered with data has the direction of one.
DirectionsAgree ==
    \A r \in Requests : ~IsIn(r) /\ IsStandard(r) =>
        r.bRequest \notin {USBRQ_GET_STATUS, USBRQ_GET_DESCRIPTOR, USBRQ_GET_CONFIGURATION,
                           USBRQ_GET_INTERFACE}

\* Replies depend on nothing but the configuration.
LEMMA SameReplies ==
    ASSUME UNCHANGED usbConfiguration
    PROVE  /\ \A r : Asked(r)' = Asked(r)
           /\ \A ptr, n : (InMemory(ptr, n)' <=> InMemory(ptr, n))
           /\ \A ptr, n : Message(ptr, n)' = Message(ptr, n)
<1>1. \A of : Bytes(of)' = Bytes(of)
  BY DEF Bytes
<1>2. \A r : Wanted(r)' = Wanted(r)
  BY <1>1 DEF Wanted
<1>3. \A r : Asked(r)' = Asked(r)
  BY <1>2 DEF Asked
<1>4. \A ptr, n : (InMemory(ptr, n)' <=> InMemory(ptr, n))
  BY <1>1 DEF InMemory
<1>5. \A ptr, n : Message(ptr, n)' = Message(ptr, n)
  BY <1>1 DEF Message
<1>. QED
  BY <1>3, <1>4, <1>5

\* At first nothing is left to be sent.
LEMMA ExactInvInit == Init => MessageInv /\ ExactInv
<1>. SUFFICES ASSUME Init PROVE MessageInv /\ ExactInv
  OBVIOUS
<1>1. InMemory(usbMsgPtr, Left)
  <2>1. usbMsgPtr = <<"reply", 0>> /\ Left = 0
    BY DEF Init, Left
  <2>2. <<0, 0>> \in Seq(Byte) /\ Len(<<0, 0>>) = 2
    BY DEF Byte
  <2>3. Bytes("reply") \in Seq(Byte) /\ Len(Bytes("reply")) = 2
    BY <2>2, ReplyBytes
  <2>. QED
    BY <2>1, <2>3 DEF InMemory
<1>2. MessageInv
  BY <1>1 DEF Init, MessageInv, USB_NO_MSG, Byte
<1>3. ExactInv
  BY DEF Init, ExactInv
<1>. QED
  BY <1>2, <1>3

\* What usbProcessRx answers: the reply to the request in usbRxBuf.
LEMMA Answered ==
    ASSUME MessageInv, Answer
    PROVE  /\ usbConfiguration' \in Byte
           /\ usbMsgLen' \in 0..203 /\ Left' = usbMsgLen'
           /\ InMemory(usbMsgPtr, Left)'
           /\ Rest' = Asked(rq)' /\ Rest' \in Seq(Byte)
           /\ ReplyLen(rq) = 0 => Rest' = <<>>
<1>0. rq \in Requests /\ usbConfiguration \in Byte /\ rq.wValue[1] \in Byte
  BY RequestsAssumption DEF MessageInv, RequestsAssumption, Byte
<1>1. usbConfiguration' \in Byte
  BY <1>0 DEF Answer
<1>2. /\ ReplyLen(rq) \in 0..203
      /\ Limited(ReplyLen(rq), rq) \in 0..ReplyLen(rq)
  BY <1>0, Replies, Cutting
<1>3. PICK n \in 0..203 : n = Limited(ReplyLen(rq), rq) /\ n <= ReplyLen(rq)
  BY <1>2
<1>4. usbMsgLen' = n /\ Left' = n
  BY <1>3 DEF Answer, Left, USB_NO_MSG
<1>5. InMemory(usbMsgPtr, n)' /\ Message(usbMsgPtr, n)' = Asked(rq)'
  <2>1. CASE Sets(USBRQ_SET_CONFIGURATION)
    <3>0. ReplyLen(rq) = 0
      BY <2>1 DEF Sets, ReplyLen, USBRQ_SET_CONFIGURATION, USBRQ_GET_DESCRIPTOR,
                  USBRQ_GET_STATUS, USBRQ_GET_CONFIGURATION, USBRQ_GET_INTERFACE
    <3>1. MessagePtr(rq) = <<"reply", 0>> /\ Wanted(rq)' = <<>>
      BY <2>1 DEF Answer, Sets, MessagePtr, Wanted, rxVars, USBRQ_SET_CONFIGURATION,
                  USBRQ_GET_DESCRIPTOR, USBRQ_GET_STATUS, USBRQ_GET_CONFIGURATION,
                  USBRQ_GET_INTERFACE
    <3>2. usbMsgPtr' = <<"reply", 0>>
      BY <2>1, <3>1 DEF Answer, Sets
    <3>3. n = 0
      BY <1>3, <3>0
    <3>4. Bytes("reply")' = <<0, 0>>
      <4>1. "reply" \notin DOMAIN usbDescriptorString
        BY DEF usbDescriptorString
      <4>. QED
        BY <4>1 DEF Bytes
    <3>. HIDE DEF Sets
    <3>5. Message(usbMsgPtr, n)' = <<>>
      BY <3>2, <3>3, <3>4, SubSeqEmpty DEF Message
    <3>6. Asked(rq)' = <<>>
      <4>1. rq'.wLength[1] \in Byte /\ rq'.wLength[2] \in Byte
        BY <1>0, RequestsAssumption DEF Answer, rxVars, RequestsAssumption, Byte
      <4>2. PICK low \in Byte, high \in Byte : rq'.wLength[1] = low /\ rq'.wLength[2] = high
        BY <4>1
      <4>3. PICK most \in Nat : most = low + 256 * high
        BY <4>2 DEF Byte
      <4>4. Asked(rq)' = SubSeq(<<>>, 1, IF most < 0 THEN most ELSE 0)
        BY <3>1, <4>2, <4>3 DEF Asked
      <4>. QED
        BY <4>3, <4>4, SubSeqEmpty
    <3>7. InMemory(usbMsgPtr, n)'
      <4>1. <<0, 0>> \in Seq(Byte) /\ Len(<<0, 0>>) = 2
        BY DEF Byte
      <4>2. usbMsgPtr'[1] = "reply"
        BY <3>2
      <4>3. usbMsgPtr'[2] = 0
        BY <3>2
      <4>4. Bytes(usbMsgPtr[1])' = <<0, 0>>
        BY <3>4, <4>2
      <4>. QED
        BY <3>3, <4>1, <4>3, <4>4 DEF InMemory
    <3>. QED
      BY <3>5, <3>6, <3>7
  <2>2. CASE ~Sets(USBRQ_SET_CONFIGURATION)
    <3>1. UNCHANGED <<usbConfiguration, rq>>
      BY <2>2 DEF Answer, rxVars
    <3>2. InMemory(usbMsgPtr', n) /\ Message(usbMsgPtr', n) = Asked(rq)
      <4>1. Asked(rq) = SubSeq(Wanted(rq), 1, n)
        BY <1>0, <1>3, Cutting
      <4>2. CASE IsStandard(rq) /\ MessagePtr(rq)[1] # "none"
        <5>1. usbMsgPtr' = MessagePtr(rq)
          BY <4>2 DEF Answer
        <5>2. PICK length \in 0..203 : length = ReplyLen(rq) /\ n <= length
          BY <1>2, <1>3
        <5>3. InMemory(MessagePtr(rq), length) /\ Message(MessagePtr(rq), length) = Wanted(rq)
          BY <1>0, <4>2, <5>2, Replies
        <5>4. PICK from \in Nat : from = MessagePtr(rq)[2]
          BY <5>3 DEF InMemory
        <5>. DEFINE bytes == Bytes(MessagePtr(rq)[1])
        <5>5. /\ bytes \in Seq(Byte) /\ from + length <= Len(bytes)
              /\ Wanted(rq) = SubSeq(bytes, from + 1, from + length)
          BY <5>3, <5>4 DEF InMemory, Message
        <5>. HIDE DEF bytes
        <5>6. SubSeq(Wanted(rq), 1, n) = SubSeq(bytes, from + 1, from + n)
          BY <5>2, <5>5, Cut
        <5>7. from + n <= Len(bytes)
          BY <5>2, <5>5, LenProperties
        <5>8. InMemory(MessagePtr(rq), n)
          BY <5>4, <5>5, <5>7 DEF InMemory, bytes
        <5>9. Message(MessagePtr(rq), n) = Asked(rq)
          BY <4>1, <5>4, <5>6 DEF Message, bytes
        <5>. QED
          BY <5>1, <5>8, <5>9
      <4>3. CASE ~(IsStandard(rq) /\ MessagePtr(rq)[1] # "none")
        <5>1. usbMsgPtr' = usbMsgPtr /\ n = 0
          <6>1. ReplyLen(rq) = 0
            BY <1>0, <4>3, Replies
          <6>. QED
            BY <1>3, <4>3, <6>1 DEF Answer
        <5>2. PICK left \in 0..254 : left = Left
          BY DEF MessageInv, Left, USB_NO_MSG
        <5>3. InMemory(usbMsgPtr, 0)
          <6>1. /\ Bytes(usbMsgPtr[1]) \in Seq(Byte) /\ usbMsgPtr[2] \in Nat
                /\ usbMsgPtr[2] + left <= Len(Bytes(usbMsgPtr[1]))
            BY <5>2 DEF MessageInv, InMemory
          <6>2. PICK from \in Nat : from = usbMsgPtr[2]
            BY <6>1
          <6>3. PICK length \in Nat : length = Len(Bytes(usbMsgPtr[1]))
            BY <6>1, LenProperties
          <6>4. from + left <= length
            BY <6>1, <6>2, <6>3
          <6>5. from + 0 <= length
            BY <5>2, <6>2, <6>3, <6>4
          <6>. QED
            BY <6>1, <6>2, <6>3, <6>5 DEF InMemory
        <5>4. Message(usbMsgPtr, 0) = <<>>
          <6>1. PICK from \in Nat : from = usbMsgPtr[2]
            BY <5>3 DEF InMemory
          <6>. QED
            BY <6>1, SubSeqEmpty DEF Message
        <5>5. SubSeq(Wanted(rq), 1, 0) = <<>>
          BY SubSeqEmpty
        <5>. QED
          BY <4>1, <5>1, <5>3, <5>4, <5>5
      <4>. QED
        BY <4>2, <4>3
    <3>3. InMemory(usbMsgPtr, n)'
      BY <3>1, <3>2, SameReplies
    <3>4. Message(usbMsgPtr, n)' = Asked(rq)'
      BY <3>1, <3>2, SameReplies
    <3>. QED
      BY <3>3, <3>4
  <2>. QED
    BY <2>1, <2>2
<1>6. InMemory(usbMsgPtr, Left)'
  BY <1>4, <1>5
<1>7. Rest' = Asked(rq)'
  BY <1>4, <1>5 DEF Rest
<1>8. usbMsgLen' \in 0..203 /\ Left' = usbMsgLen'
  BY <1>3, <1>4
<1>9. PICK from \in Nat : from = usbMsgPtr'[2]
  BY <1>6 DEF InMemory
<1>10. /\ Rest' = SubSeq(Bytes(usbMsgPtr[1])', from + 1, from + n)
       /\ Bytes(usbMsgPtr[1])' \in Seq(Byte) /\ from + n <= Len(Bytes(usbMsgPtr[1])')
  BY <1>4, <1>6, <1>9 DEF InMemory, Rest, Message
<1>11. Rest' \in Seq(Byte)
  <2>1. n \in Nat
    BY <1>3
  <2>. QED
    BY <1>9, <1>10, <2>1, PartTypes
<1>12. ASSUME ReplyLen(rq) = 0 PROVE Rest' = <<>>
  <2>1. n = 0
    BY <1>3, <1>12
  <2>. QED
    BY <1>9, <1>10, <2>1, SubSeqEmpty
<1>. QED
  BY <1>1, <1>6, <1>7, <1>8, <1>11, <1>12

\* A block is the beginning of what is left, and a short one its end.
LEMMA BlockBuilt ==
    ASSUME MessageInv, BuildTxBlock
    PROVE  /\ usbMsgLen' \in 0..USB_NO_MSG
           /\ InMemory(usbMsgPtr, Left)'
           /\ txData' \in Seq(Byte) /\ Rest' \in Seq(Byte)
           /\ txData' \o Rest' = Rest
           /\ Len(txData') < 8 => usbMsgLen' = USB_NO_MSG
<1>. DEFINE bytes == Bytes(usbMsgPtr[1])
<1>1. PICK n \in 0..254 : usbMsgLen = n /\ Left = n
  BY DEF MessageInv, BuildTxBlock, Left, USB_NO_MSG
<1>2. PICK from \in Nat : from = usbMsgPtr[2]
  BY DEF MessageInv, InMemory
<1>3. bytes \in Seq(Byte) /\ from + n <= Len(bytes) /\ Rest = SubSeq(bytes, from + 1, from + n)
  BY <1>1, <1>2 DEF MessageInv, InMemory, Rest, Message
<1>4. PICK m \in 0..8 : m = IF n > 8 THEN 8 ELSE n
  BY <1>1
<1>5. PICK left \in 0..254 : left = IF m < 8 THEN 0 ELSE n - m
  BY <1>1, <1>4
<1>6. (from + m) + left = from + n /\ m \in 0..n /\ left \in 0..n
  BY <1>1, <1>2, <1>4, <1>5
<1>7. /\ txData' = SubSeq(bytes, from + 1, from + m)
      /\ usbMsgPtr' = <<usbMsgPtr[1], from + m>>
      /\ usbMsgLen' = IF m < 8 THEN USB_NO_MSG ELSE n - m
      /\ UNCHANGED usbConfiguration
  BY <1>1, <1>2, <1>4 DEF BuildTxBlock
<1>8. Left' = left
  BY <1>1, <1>4, <1>5, <1>7 DEF Left, USB_NO_MSG
<1>9. usbMsgLen' \in 0..USB_NO_MSG
  BY <1>1, <1>4, <1>7 DEF USB_NO_MSG
<1>10. usbMsgPtr'[1] = usbMsgPtr[1] /\ usbMsgPtr'[2] = from + m
  BY <1>7
<1>11. Bytes(usbMsgPtr[1])' = bytes
  BY <1>7, <1>10 DEF Bytes
<1>. HIDE DEF bytes
<1>12. Rest' = SubSeq(bytes, (from + m) + 1, from + n)
  <2>1. Rest' = SubSeq(bytes, (from + m) + 1, (from + m) + left)
    BY <1>8, <1>10, <1>11 DEF Rest, Message
  <2>. QED
    BY <1>6, <2>1
<1>13. PICK length \in Nat : length = Len(bytes)
  BY <1>3, LenProperties
<1>14. (from + m) + left <= length /\ from + m <= length
  BY <1>1, <1>2, <1>3, <1>4, <1>5, <1>6, <1>13
<1>15. InMemory(usbMsgPtr, Left)'
  <2>1. usbMsgPtr'[2] \in Nat
    BY <1>2, <1>4, <1>10
  <2>2. usbMsgPtr'[2] + Left' <= Len(bytes)
    BY <1>8, <1>10, <1>13, <1>14
  <2>. QED
    BY <1>3, <1>11, <2>1, <2>2 DEF InMemory
<1>16. txData' \in Seq(Byte) /\ Len(txData') = m
  <2>1. m \in Nat /\ from + m <= Len(bytes)
    BY <1>4, <1>13, <1>14
  <2>2. /\ SubSeq(bytes, from + 1, from + m) \in Seq(Byte)
        /\ Len(SubSeq(bytes, from + 1, from + m)) = m
    BY <1>2, <1>3, <2>1, PartTypes
  <2>. QED
    BY <1>7, <2>2
<1>17. Rest' \in Seq(Byte)
  <2>1. PICK start \in Nat : start = from + m
    BY <1>2, <1>4
  <2>2. SubSeq(bytes, start + 1, start + left) \in Seq(Byte)
    BY <1>3, <1>5, <1>13, <1>14, <2>1, PartTypes
  <2>. QED
    BY <1>6, <1>12, <2>1, <2>2
<1>18. txData' \o Rest' = Rest
  <2>1. n \in Nat
    BY <1>1
  <2>2. SubSeq(bytes, from + 1, from + m) \o SubSeq(bytes, (from + m) + 1, from + n) = Rest
    BY <1>2, <1>3, <1>6, <2>1, Split
  <2>. QED
    BY <1>7, <1>12, <2>2
<1>19. Len(txData') < 8 => usbMsgLen' = USB_NO_MSG
  BY <1>7, <1>16
<1>. QED
  BY <1>9, <1>15, <1>16, <1>17, <1>18, <1>19

\* A step that neither answers a request nor builds a block.
LEMMA MessageKept ==
    ASSUME MessageInv, UNCHANGED <<usbMsgPtr, usbMsgLen, usbConfiguration>>
    PROVE  /\ Left' = Left /\ Rest' = Rest
           /\ InMemory(usbMsgPtr, Left)'
           /\ \A r : Asked(r)' = Asked(r)
<1>1. Left' = Left
  BY DEF Left
<1>2. Message(usbMsgPtr, Left)' = Message(usbMsgPtr, Left)
  BY <1>1, SameReplies
<1>3. InMemory(usbMsgPtr, Left)'
  BY <1>1, SameReplies DEF MessageInv
<1>. QED
  BY <1>1, <1>2, <1>3, SameReplies DEF Rest

\* What is left stays in the memory it is read from.
LEMMA MessageInvNext == MessageInv /\ [Next]_vars => MessageInv'
<1>. SUFFICES ASSUME MessageInv, [Next]_vars PROVE MessageInv'
  OBVIOUS
<1>1. CASE Answer
  <2>1. UNCHANGED <<request, rq, got, txData, usbTxLen, txToken, expected>> /\ pc' = "free"
    BY <1>1 DEF Answer, rxVars, txVars, hostVars
  <2>2. usbMsgLen' \in 0..USB_NO_MSG
    BY <1>1, Answered DEF USB_NO_MSG
  <2>. QED
    BY <1>1, <2>1, <2>2, Answered DEF MessageInv
<1>2. CASE BuildTxBlock
  <2>1. /\ UNCHANGED <<request, rq, got, usbTxLen, expected, usbConfiguration>>
        /\ usbTxLen = "NAK" /\ txToken' = 1 - txToken
    BY <1>2 DEF BuildTxBlock, rxVars, hostVars
  <2>2. txToken' \in {0, 1}
    BY <2>1 DEF MessageInv
  <2>. QED
    BY <1>2, <2>1, <2>2, BlockBuilt DEF MessageInv
<1>3. CASE Poll \/ BeginSetup \/ FreeRx \/ ArmTx \/ NothingToTransmit \/ CheckLine
  <2>1. UNCHANGED <<request, rq, got, txData, expected, usbMsgPtr, usbMsgLen, usbConfiguration>>
    BY <1>3 DEF Poll, BeginSetup, FreeRx, ArmTx, NothingToTransmit, CheckLine, rxVars, txVars,
                msgVars, hostVars
  <2>2. /\ usbTxLen' \in {"NAK", "data"}
        /\ txToken' \in {0, 1}
        /\ pc' # "arm"
    BY <1>3 DEF Poll, BeginSetup, FreeRx, ArmTx, NothingToTransmit, CheckLine, txVars, MessageInv
  <2>. QED
    BY <2>1, <2>2, MessageKept DEF MessageInv
<1>4. CASE Host \/ UNCHANGED vars
  <2>1. UNCHANGED <<txToken, txData, pc, usbMsgPtr, usbMsgLen, usbConfiguration>>
    BY <1>4 DEF Host, EndReset, ResetBus, BeginTransfer, Setup, OutReport, In, StatusOut, GiveUp,
                vars, txVars, msgVars
  <2>2. usbTxLen' = "NAK" \/ UNCHANGED usbTxLen
    BY <1>4 DEF Host, EndReset, ResetBus, BeginTransfer, Setup, OutReport, In, StatusOut, GiveUp,
                vars, txVars
  <2>3. request' \in Requests /\ rq' \in Requests
    BY <1>4 DEF Host, EndReset, ResetBus, BeginTransfer, Setup, OutReport, In, StatusOut, GiveUp,
                vars, rxVars, hostVars, MessageInv
  <2>4. got' \in {got, <<>>, got \o txData} /\ expected' \in {expected, 1, 1 - expected}
    <3>1. CASE In
      BY <3>1 DEF In, TakeBlock, LoseBlock
    <3>2. CASE EndReset \/ ResetBus \/ BeginTransfer \/ Setup \/ OutReport \/ StatusOut \/ GiveUp
               \/ UNCHANGED vars
      BY <3>2 DEF EndReset, ResetBus, BeginTransfer, Setup, OutReport, StatusOut, GiveUp, vars,
                  hostVars
    <3>. QED
      BY <1>4, <3>1, <3>2 DEF Host
  <2>5. got' \in Seq(Byte)
    <3>1. got \o txData \in Seq(Byte) /\ <<>> \in Seq(Byte)
      BY ConcatProperties DEF MessageInv
    <3>. QED
      BY <2>4, <3>1 DEF MessageInv
  <2>6. expected' \in {0, 1}
    BY <2>4 DEF MessageInv
  <2>. QED
    BY <2>1, <2>2, <2>3, <2>5, <2>6, MessageKept DEF MessageInv
<1>. QED
  BY <1>1, <1>2, <1>3, <1>4 DEF Next, Main

\* What is left of a message is a sequence of bytes.
LEMMA RestTypes == MessageInv => Rest \in Seq(Byte) /\ Waiting \in Seq(Byte)
<1>. SUFFICES ASSUME MessageInv PROVE Rest \in Seq(Byte) /\ Waiting \in Seq(Byte)
  OBVIOUS
<1>1. PICK n \in 0..254 : Left = n
  BY DEF MessageInv, Left, USB_NO_MSG
<1>2. PICK from \in Nat : from = usbMsgPtr[2]
  BY DEF MessageInv, InMemory
<1>3. /\ Bytes(usbMsgPtr[1]) \in Seq(Byte) /\ from + n <= Len(Bytes(usbMsgPtr[1]))
      /\ Rest = SubSeq(Bytes(usbMsgPtr[1]), from + 1, from + n)
  BY <1>1, <1>2 DEF MessageInv, InMemory, Rest, Message
<1>4. Rest \in Seq(Byte)
  <2>1. n \in Nat
    BY <1>1
  <2>. QED
    BY <1>2, <1>3, <2>1, PartTypes
<1>5. Waiting \in Seq(Byte)
  BY DEF MessageInv, Waiting
<1>. QED
  BY <1>4, <1>5

\* A step of usbPoll that neither answers a request nor builds a block.
LEMMA PollExact ==
    ASSUME ProcessingInv, MessageInv, ExactInv,
           Poll \/ BeginSetup \/ FreeRx \/ ArmTx \/ NothingToTransmit \/ CheckLine
    PROVE  ExactInv'
<1>1. UNCHANGED <<rq, stage, request, got, expected, lost, txData, usbMsgPtr, usbMsgLen,
                  usbConfiguration>>
  BY DEF Poll, BeginSetup, FreeRx, ArmTx, NothingToTransmit, CheckLine, rxVars, txVars,
         msgVars, hostVars
<1>2. /\ Left' = Left /\ Rest' = Rest
      /\ Asked(request)' = Asked(request) /\ IsIn(request)' = IsIn(request)
  BY <1>1, MessageKept DEF IsIn
<1>3. CASE BeginSetup
  <2>1. Unanswered /\ Unanswered'
    BY <1>3 DEF BeginSetup, ProcessingInv, rxVars, Unanswered
  <2>. QED
    BY <1>1, <1>2, <2>1 DEF ExactInv
<1>4. CASE Poll \/ FreeRx \/ ArmTx \/ NothingToTransmit \/ CheckLine
  <2>1. Unanswered' <=> Unanswered
    <3>1. CASE Poll
      BY <3>1 DEF Poll, rxVars, Unanswered
    <3>. QED
      BY <1>4, <3>1, UnansweredSteps
  <2>2. txToken' = txToken /\ Present' = Present
    BY <1>4 DEF Poll, FreeRx, ArmTx, NothingToTransmit, CheckLine, txVars, Present
  <2>3. Waiting' = Waiting /\ Sending' = Sending
    BY <1>1, <1>2, <2>2 DEF Waiting, Sending
  <2>. QED
    BY <1>1, <1>2, <2>1, <2>3 DEF ExactInv
<1>. QED
  BY <1>3, <1>4

\* usbProcessRx answers the request the host is making.
LEMMA AnswerExact ==
    ASSUME DirectionsAgree, ProcessingInv, MessageInv, ExactInv, Answer
    PROVE  ExactInv'
<1>1. UNCHANGED <<rq, stage, request, got, expected, lost>> /\ pc' = "free"
  BY DEF Answer, rxVars, hostVars
<1>2. Unanswered /\ ~Unanswered' /\ txToken' = 0 /\ usbTxLen' = "NAK"
  BY UnansweredSteps DEF Answer, ProcessingInv, txVars
<1>3. ~Present' /\ Waiting' = <<>>
  BY <1>1, <1>2 DEF Present, Waiting
<1>4. Rest' = Asked(rq)' /\ Rest' \in Seq(Byte)
  BY Answered
<1>5. ASSUME stage = "in", ~lost PROVE Sending'
  <2>1. got = <<>> /\ expected = 1 /\ rq = request
    BY <1>2, <1>5 DEF ExactInv
  <2>2. Asked(rq)' = Asked(request)'
    BY <1>1, <2>1
  <2>3. (got' \o Waiting') \o Rest' = Rest'
    BY <1>1, <1>3, <1>4, <2>1, ConcatEmptySeq
  <2>4. txToken' = 1 - expected'
    BY <1>1, <1>2, <2>1
  <2>. QED
    BY <1>3, <1>4, <2>2, <2>3, <2>4 DEF Sending
<1>6. ASSUME stage = "in", ~IsIn(request) PROVE got' = <<>> /\ Waiting' = <<>> /\ Rest' = <<>>
  <2>1. got = <<>> /\ rq = request /\ rq \in Requests
    BY <1>2, <1>6 DEF ExactInv, MessageInv
  <2>2. ReplyLen(rq) = 0
    BY <1>6, <2>1 DEF DirectionsAgree, ReplyLen, usbFunctionSetup
  <2>. QED
    BY <1>1, <1>3, <2>1, <2>2, Answered
<1>7. stage # "status"
  BY <1>2 DEF ExactInv
<1>. QED
  BY <1>1, <1>2, <1>5, <1>6, <1>7 DEF ExactInv, IsIn

\* usbBuildTxBlock takes the block from the beginning of what is left.
LEMMA BlockExact ==
    ASSUME ProcessingInv, MessageInv, ExactInv, BuildTxBlock PROVE ExactInv'
<1>1. /\ UNCHANGED <<rq, stage, request, got, expected, lost, usbTxLen, usbConfiguration>>
      /\ pc = "transmit" /\ pc' = "arm" /\ usbTxLen = "NAK" /\ txToken' = 1 - txToken
  BY DEF BuildTxBlock, rxVars, hostVars
<1>2. ~Present /\ Present' /\ Waiting = <<>> /\ Waiting' = txData'
  BY <1>1 DEF Present, Waiting
<1>3. (Unanswered' <=> Unanswered) /\ Asked(request)' = Asked(request)
  BY <1>1, UnansweredSteps, SameReplies
<1>4. /\ txData' \in Seq(Byte) /\ Rest' \in Seq(Byte) /\ txData' \o Rest' = Rest
      /\ Len(txData') < 8 => usbMsgLen' = USB_NO_MSG
  BY BlockBuilt
<1>5. got \in Seq(Byte) /\ Rest \in Seq(Byte) /\ expected \in {0, 1}
  BY RestTypes DEF MessageInv
<1>6. ASSUME Sending PROVE Sending'
  <2>1. got \o Rest = Asked(request) /\ txToken = 1 - expected
    BY <1>2, <1>5, <1>6, ConcatEmptySeq DEF Sending
  <2>2. (got \o txData') \o Rest' = got \o (txData' \o Rest')
    <3>1. txData' \in Seq(Byte) /\ Rest' \in Seq(Byte) /\ got \in Seq(Byte)
      BY <1>4, <1>5
    <3>. QED
      BY <3>1, ConcatAssociative
  <2>3. (got' \o Waiting') \o Rest' = Asked(request)'
    BY <1>1, <1>2, <1>3, <1>4, <2>1, <2>2
  <2>4. txToken' = expected'
    BY <1>1, <1>5, <2>1
  <2>. QED
    BY <1>2, <1>4, <2>3, <2>4 DEF Sending
<1>7. ASSUME Rest = <<>> PROVE Waiting' = <<>> /\ Rest' = <<>>
  BY <1>2, <1>4, <1>7, ConcatEmptySeq, ConcatProperties, EmptySeq
<1>. QED
  BY <1>1, <1>3, <1>6, <1>7 DEF ExactInv, IsIn

\* The host receives what waits to be sent, or loses it.
LEMMA InExact ==
    ASSUME MessageInv, ExactInv, In PROVE ExactInv'
<1>1. /\ UNCHANGED <<rq, request, txToken, txData, usbMsgPtr, usbMsgLen, usbConfiguration, pc>>
      /\ stage = "in" /\ usbTxLen # "NAK" /\ usbTxLen' = "NAK"
  BY DEF In, MaySend, rxVars, msgVars
<1>2. Present /\ ~Present' /\ Waiting = txData /\ Waiting' = <<>>
  BY <1>1 DEF MessageInv, Present, Waiting
<1>3. /\ Left' = Left /\ Rest' = Rest
      /\ Asked(request)' = Asked(request) /\ IsIn(request)' = IsIn(request)
  BY <1>1, MessageKept DEF IsIn
<1>4. ~Unanswered /\ ~Unanswered'
  BY UnansweredSteps, <1>1 DEF In, MaySend, rxVars, Unanswered
<1>5. /\ got \in Seq(Byte) /\ txData \in Seq(Byte) /\ Rest \in Seq(Byte)
      /\ txToken \in {0, 1} /\ expected \in {0, 1}
  BY RestTypes DEF MessageInv
<1>6. stage' \in {"idle", "in", "status"} /\ (stage' = "idle" => ~IsIn(request))
  BY <1>1 DEF In, TakeBlock, LoseBlock
<1>7. ~IsIn(request) => got = <<>> /\ txData = <<>> /\ Rest = <<>>
  BY <1>1, <1>2, <1>4 DEF ExactInv
<1>8. CASE ~IsIn(request)
  <2>1. got' = <<>>
    <3>1. got \o txData = <<>>
      BY <1>5, <1>7, <1>8, ConcatEmptySeq
    <3>. QED
      BY <1>7, <1>8, <3>1 DEF In, TakeBlock, LoseBlock
  <2>2. stage' # "status"
    BY <1>1, <1>8 DEF In, TakeBlock, LoseBlock
  <2>3. ASSUME stage' = "in", ~lost' PROVE Sending'
    <3>1. ~lost /\ Sending
      BY <1>1, <1>4, <2>3 DEF In, TakeBlock, LoseBlock, ExactInv
    <3>2. txToken = expected
      BY <1>2, <3>1 DEF Sending
    <3>3. stage' = "idle"
      BY <1>8, <2>3, <3>2 DEF In, TakeBlock, LoseBlock
    <3>. QED
      BY <2>3, <3>3
  <2>. QED
    BY <1>2, <1>3, <1>4, <1>6, <1>7, <1>8, <2>1, <2>2, <2>3 DEF ExactInv
<1>9. CASE IsIn(request) /\ lost'
  BY <1>3, <1>4, <1>6, <1>9 DEF ExactInv
<1>10. CASE IsIn(request) /\ ~lost'
  <2>1. ~lost /\ TakeBlock /\ Sending
    BY <1>1, <1>4, <1>10 DEF In, TakeBlock, LoseBlock, ExactInv
  <2>2. (got \o txData) \o Rest = Asked(request) /\ txToken = expected
    BY <1>2, <2>1 DEF Sending
  <2>3. got' = got \o txData /\ expected' = 1 - expected
    BY <2>1, <2>2 DEF TakeBlock
  <2>4. got' \in Seq(Byte)
    BY <1>5, <2>3, ConcatProperties
  <2>5. Sending'
    <3>1. (got' \o Waiting') \o Rest' = Asked(request)'
      BY <1>2, <1>3, <2>2, <2>3, <2>4, ConcatEmptySeq
    <3>2. txToken' = 1 - expected'
      BY <1>1, <1>5, <2>2, <2>3
    <3>. QED
      BY <1>2, <3>1, <3>2 DEF Sending
  <2>6. ASSUME stage' = "status" PROVE got' = Asked(request)'
    <3>1. \/ Len(txData) < 8
          \/ Len(got') >= request.wLength[1] + 256 * request.wLength[2]
      BY <2>1, <2>2, <2>6, <1>1, <1>10 DEF TakeBlock
    <3>2. Rest = <<>>
      <4>1. CASE Len(txData) < 8
        <5>1. usbMsgLen = USB_NO_MSG
          BY <1>2, <2>1, <4>1 DEF Sending
        <5>2. PICK from \in Nat : from = usbMsgPtr[2]
          BY DEF MessageInv, InMemory
        <5>3. Rest = SubSeq(Bytes(usbMsgPtr[1]), from + 1, from + 0)
          BY <5>1, <5>2 DEF Rest, Message, Left
        <5>. QED
          BY <5>2, <5>3, SubSeqEmpty
      <4>2. CASE Len(got') >= request.wLength[1] + 256 * request.wLength[2]
        <5>1. PICK low \in Byte, high \in Byte :
                  request.wLength[1] = low /\ request.wLength[2] = high
          BY RequestsAssumption DEF MessageInv, RequestsAssumption, Byte
        <5>2. PICK most \in Nat : most = low + 256 * high
          BY <5>1 DEF Byte
        <5>3. Len(Asked(request)) <= most /\ most <= Len(got')
          BY <4>2, <5>1, <5>2, Cutting DEF MessageInv
        <5>4. Len(Asked(request)) = Len(got') + Len(Rest)
          BY <1>5, <2>2, <2>3, <2>4, ConcatProperties
        <5>5. PICK m \in Nat, n \in Nat : m = Len(got') /\ n = Len(Rest)
          BY <1>5, <2>4, LenProperties
        <5>6. m + n <= most /\ most <= m
          BY <5>3, <5>4, <5>5
        <5>7. n = 0
          BY <5>2, <5>5, <5>6
        <5>. QED
          BY <1>5, <5>5, <5>7, EmptySeq
      <4>. QED
        BY <3>1, <4>1, <4>2
    <3>. QED
      BY <1>3, <2>2, <2>3, <2>4, <3>2, ConcatEmptySeq
  <2>. QED
    BY <1>3, <1>4, <1>6, <1>10, <2>5, <2>6 DEF ExactInv
<1>. QED
  BY <1>8, <1>9, <1>10

\* Every step keeps what the host has received, what waits and what is left
\* the reply to the request.
LEMMA ExactInvNext ==
    ASSUME DirectionsAgree, ProcessingInv, MessageInv, ExactInv, [Next]_vars PROVE ExactInv'
<1>1. CASE Main
  BY <1>1, PollExact, AnswerExact, BlockExact DEF Main
<1>2. CASE In
  BY <1>2, InExact
<1>3. CASE EndReset \/ ResetBus
  <2>1. UNCHANGED got /\ stage' \in {"idle", "reset"} /\ stage \in {"idle", "reset"}
    BY <1>3 DEF EndReset, ResetBus
  <2>. QED
    BY <2>1 DEF ExactInv
<1>4. CASE BeginTransfer
  BY <1>4 DEF BeginTransfer, ExactInv
<1>5. CASE Setup
  <2>1. /\ UNCHANGED <<request, got, expected, lost>>
        /\ stage = "setup" /\ stage' \in {"setup", "in"}
        /\ Unanswered' /\ rq' = request
    BY <1>5, UnansweredSteps DEF Setup
  <2>. QED
    BY <2>1 DEF ExactInv
<1>6. CASE StatusOut \/ GiveUp
  <2>1. got' = <<>> /\ stage' \in {"idle", "reset"}
    BY <1>6 DEF StatusOut, GiveUp
  <2>. QED
    BY <2>1 DEF ExactInv
<1>7. CASE OutReport \/ UNCHANGED vars
  <2>1. UNCHANGED <<rq, stage, request, got, expected, lost, usbTxLen, txToken, txData, usbMsgPtr,
                    usbMsgLen, usbConfiguration, pc>>
    BY <1>7 DEF OutReport, vars, rxVars, txVars, msgVars, hostVars
  <2>2. Unanswered' <=> Unanswered
    <3>1. CASE OutReport
      BY <3>1, UnansweredSteps
    <3>2. CASE UNCHANGED vars
      BY <3>2 DEF vars, rxVars, Unanswered
    <3>. QED
      BY <1>7, <3>1, <3>2
  <2>3. Rest' = Rest /\ Asked(request)' = Asked(request) /\ IsIn(request)' = IsIn(request)
    BY <2>1, MessageKept DEF IsIn
  <2>4. Waiting' = Waiting /\ Sending' = Sending
    BY <2>1, <2>3 DEF Waiting, Present, Sending
  <2>. QED
    BY <2>1, <2>2, <2>3, <2>4 DEF ExactInv
<1>. QED
  BY <1>1, <1>2, <1>3, <1>4, <1>5, <1>6, <1>7 DEF Next, Host

\* The inductive invariant: while nothing of a transfer is lost, the bytes the
\* host has received, those of the block that waits and those left of the
\* message are the reply, however the request was made again, given up before,
\* or overtaken by a reset (usbdrv.c:427-477, 497-553).
THEOREM RepliesConsistent == DirectionsAgree => (Spec => [](MessageInv /\ ExactInv))
<1>. SUFFICES ASSUME DirectionsAgree PROVE Spec => [](MessageInv /\ ExactInv)
  OBVIOUS
<1>. DEFINE Inv == ProcessingInv /\ MessageInv /\ ExactInv
<1>1. Init => Inv
  BY ControlInvInit, ExactInvInit DEF ControlInv
<1>2. Inv /\ [Next]_vars => Inv'
  BY ProcessingInvNext, MessageInvNext, ExactInvNext
<1>3. Inv => MessageInv /\ ExactInv
  OBVIOUS
<1>. HIDE DEF Inv
<1>. QED
  BY <1>1, <1>2, <1>3, PTL DEF Spec

\* The host receives what it asked for and nothing else, a prefix of it in the
\* data stage and all of it in the status stage, whatever it requests, if a
\* standard request that is answered with data has the direction of one.
THEOREM Exact == DirectionsAgree => (Spec => []ReplyIsExact)
<1>. SUFFICES ASSUME DirectionsAgree PROVE Spec => []ReplyIsExact
  OBVIOUS
<1>1. MessageInv /\ ExactInv => ReplyIsExact
  <2>. SUFFICES ASSUME MessageInv, ExactInv, ~lost, stage \in {"in", "status"}
                PROVE  /\ IsPrefix(got, Asked(request))
                       /\ stage = "status" => got = Asked(request)
    BY DEF ReplyIsExact
  <2>1. /\ got \in Seq(Byte) /\ Waiting \in Seq(Byte) /\ Rest \in Seq(Byte)
        /\ Asked(request) \in Seq(Byte) /\ <<>> \in Seq(Byte)
    BY RestTypes, Cutting DEF MessageInv
  <2>2. CASE stage = "in" /\ Unanswered
    <3>1. got = <<>> /\ <<>> \o Asked(request) = Asked(request)
      BY <2>1, <2>2, ConcatEmptySeq DEF ExactInv
    <3>. QED
      BY <2>1, <2>2, <3>1, PrefixOfConcat
  <2>3. CASE stage = "in" /\ ~Unanswered
    <3>1. got \o (Waiting \o Rest) = Asked(request)
      <4>1. (got \o Waiting) \o Rest = Asked(request)
        BY <2>3 DEF ExactInv, Sending
      <4>2. got \in Seq(Byte) /\ Waiting \in Seq(Byte) /\ Rest \in Seq(Byte)
        BY <2>1
      <4>3. (got \o Waiting) \o Rest = got \o (Waiting \o Rest)
        BY <4>2, ConcatAssociative
      <4>. QED
        BY <4>1, <4>3
    <3>2. Waiting \o Rest \in Seq(Byte)
      BY <2>1, ConcatProperties
    <3>. QED
      BY <2>1, <2>3, <3>1, <3>2, PrefixOfConcat
  <2>4. CASE stage = "status"
    <3>1. got = Asked(request) /\ got \o <<>> = got
      BY <2>1, <2>4, ConcatEmptySeq DEF ExactInv
    <3>. QED
      BY <2>1, <3>1, PrefixOfConcat
  <2>. QED
    BY <2>2, <2>3, <2>4
<1>. QED
  BY <1>1, RepliesConsistent, PTL

=============================================================================
