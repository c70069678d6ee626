-------------------------- MODULE ControlTransfer --------------------------
(***************************************************************************)
(* Endpoint 0: how the driver answers the host's control transfers         *)
(* (src/v-usb/usbdrv/usbdrv.c, asmcommon.inc).  The interrupt routine      *)
(* stores a SETUP packet and sends blocks of up to eight bytes; usbPoll    *)
(* answers the request and builds the blocks.  The two share usbRxLen and  *)
(* usbTxLen without a lock, and the receive buffer is also that of         *)
(* endpoint 1, so that a request may come at any point of usbPoll.         *)
(*                                                                         *)
(* A transaction on the bus is one step (UsbEndpoint takes it apart).      *)
(* The host retries what is refused, drops a packet whose token it does    *)
(* not expect, gives up, and resets the bus.                               *)
(***************************************************************************)
EXTENDS UsbDescriptors

CONSTANTS
    Requests,       \* the requests the host makes, records as usbRequest_t
    ResetPolls,     \* how often, at the least, usbPoll runs during a reset
    MaxErrors       \* bound: losses on the bus and transfers given up

ASSUME ControlAssumption == ResetPolls \in Nat \ {0} /\ MaxErrors \in Nat

ASSUME RequestsAssumption ==
    Requests \subseteq [bmRequestType : 0..255, bRequest : 0..255,
                       wValue : (0..255) \X (0..255), wLength : (0..255) \X (0..255)]

VARIABLES
    usbRxLen,           \* 0, or the length of a packet to be processed
    usbRxToken,         \* "SETUP", or "OUT" for one to endpoint 1
    rq,                 \* the request in usbRxBuf
    usbTxLen,           \* "NAK", or "data" when usbTxBuf is to be sent
    txToken,            \* usbTxBuf[0], DATA0 or DATA1
    txData,             \* usbTxBuf, the data
    usbMsgPtr,          \* what is sent, and from where on
    usbMsgLen,          \* the bytes left, or USB_NO_MSG
    usbDeviceAddr,
    usbNewDeviceAddr,
    usbConfiguration,
    pc,                 \* where usbPoll is
    stage,              \* the host: of the transfer
    request,            \*   the request being made
    address,            \*   the device's address
    expected,           \*   the token of the next packet
    got,                \*   the bytes received so far
    lost,               \*   has a packet of this transfer been lost?
    polls,              \*   how often usbPoll has seen the present reset
    errors

rxVars == <<usbRxLen, usbRxToken, rq>>
txVars == <<usbTxLen, txToken, txData>>
msgVars == <<usbMsgPtr, usbMsgLen>>
addressVars == <<usbDeviceAddr, usbNewDeviceAddr>>
hostVars == <<stage, request, address, expected, got, lost, polls, errors>>
vars == <<rxVars, txVars, msgVars, addressVars, usbConfiguration, pc, hostVars>>

USB_NO_MSG == 255

USBRQ_GET_STATUS == 0
USBRQ_SET_ADDRESS == 5
USBRQ_GET_DESCRIPTOR == 6
USBRQ_GET_CONFIGURATION == 8
USBRQ_SET_CONFIGURATION == 9
USBRQ_GET_INTERFACE == 10

IsIn(r) == r.bmRequestType >= 128
IsStandard(r) == (r.bmRequestType \div 32) % 4 = 0

Init ==
    /\ usbRxLen = 0 /\ usbRxToken = "SETUP" /\ rq \in {r \in Requests : r.bRequest = USBRQ_GET_STATUS}
    /\ usbTxLen = "NAK" /\ txToken = 0 /\ txData = <<>>
    /\ usbMsgPtr = <<"reply", 0>> /\ usbMsgLen = USB_NO_MSG
    /\ usbDeviceAddr = 0 /\ usbNewDeviceAddr = 0 /\ usbConfiguration = 0
    /\ pc = "poll"
    /\ stage = "reset" /\ request = rq /\ address = 0 /\ expected = 1
    /\ got = <<>> /\ lost = FALSE /\ polls = 0 /\ errors = 0

-----------------------------------------------------------------------------
(* The answer to a request: what is sent, and how much of it.              *)

\* usbDriverDescriptor: the descriptor asked for; nothing when unknown.
Descriptor(r) ==
    LET kind == r.wValue[2]  index == r.wValue[1]
    IN  CASE kind = USBDESCR_DEVICE -> <<"device", 0>>
          [] kind = USBDESCR_CONFIG -> <<"configuration", 0>>
          [] kind = USBDESCR_STRING /\ index < 4 ->
                 <<<<"language", "vendor", "product", "serial">>[index + 1], 0>>
          [] kind = USBDESCR_HID -> <<"configuration", 18>>
          [] kind = USBDESCR_HID_REPORT -> <<"report", 0>>
          [] OTHER -> <<"none", 0>>

\* The memory a message is read from.
Bytes(of) ==
    CASE of = "device" -> usbDescriptorDevice
      [] of = "configuration" -> usbDescriptorConfiguration
      [] of = "report" -> usbDescriptorHidReport
      [] of \in DOMAIN usbDescriptorString -> usbDescriptorString[of]
      [] of = "value" -> <<usbConfiguration>>
      [] of = "reply" -> <<0, 0>>
      [] of = "none" -> <<>>

DescriptorLength(r) ==
    CASE r.wValue[2] = USBDESCR_CONFIG -> USB_CFG_DESCR_PROPS_CONFIGURATION
      [] r.wValue[2] = USBDESCR_HID -> USB_CFG_DESCR_PROPS_HID
      [] r.wValue[2] = USBDESCR_HID_REPORT -> USB_CFG_HID_REPORT_DESCRIPTOR_LENGTH
      [] OTHER -> Len(Bytes(Descriptor(r)[1]))

\* usbDriverSetup and usbFunctionSetup: where the reply lies, its length.
MessagePtr(r) ==
    CASE r.bRequest = USBRQ_GET_DESCRIPTOR -> Descriptor(r)
      [] r.bRequest = USBRQ_GET_CONFIGURATION -> <<"value", 0>>
      [] OTHER -> <<"reply", 0>>

\* The program's own answer to requests of a class: none of them is handled.
usbFunctionSetup(r) == 0

ReplyLen(r) ==
    IF ~IsStandard(r) THEN usbFunctionSetup(r) ELSE
    CASE r.bRequest = USBRQ_GET_STATUS -> 2
      [] r.bRequest = USBRQ_GET_DESCRIPTOR -> DescriptorLength(r)
      [] r.bRequest \in {USBRQ_GET_CONFIGURATION, USBRQ_GET_INTERFACE} -> 1
      [] OTHER -> 0

\* No more than the host asked for.
Limited(length, r) ==
    IF r.wLength[2] = 0 /\ length > r.wLength[1] THEN r.wLength[1] ELSE length

-----------------------------------------------------------------------------
(* usbPoll.                                                                *)

Poll ==
    /\ pc = "poll"
    /\ pc' = IF usbRxLen = 0 THEN "transmit" ELSE IF usbRxToken = "SETUP" THEN "setup" ELSE "free"
    /\ UNCHANGED <<rxVars, txVars, msgVars, addressVars, usbConfiguration, hostVars>>

\* The data toggling starts anew and a pending packet is dropped.
BeginSetup ==
    /\ pc = "setup"
    /\ txToken' = 0
    /\ usbTxLen' = "NAK"
    /\ pc' = "answer"
    /\ UNCHANGED <<rxVars, txData, msgVars, addressVars, usbConfiguration, hostVars>>

Sets(bRequest) == IsStandard(rq) /\ rq.bRequest = bRequest

\* Slip: the address changes before the status stage.
SetAddressNow ==
    /\ usbNewDeviceAddr' = IF Sets(USBRQ_SET_ADDRESS) THEN rq.wValue[1] ELSE usbNewDeviceAddr
    /\ usbDeviceAddr' = usbNewDeviceAddr'

\* The address is only noted: the status stage still goes to the old one.
NoteAddress ==
    /\ usbNewDeviceAddr' = IF Sets(USBRQ_SET_ADDRESS) THEN rq.wValue[1] ELSE usbNewDeviceAddr
    /\ UNCHANGED usbDeviceAddr

Answer ==
    /\ pc = "answer"
    /\ NoteAddress
    /\ usbConfiguration' = IF Sets(USBRQ_SET_CONFIGURATION) THEN rq.wValue[1] ELSE usbConfiguration
    /\ usbMsgPtr' = IF IsStandard(rq) /\ MessagePtr(rq)[1] # "none"
                  THEN MessagePtr(rq) ELSE usbMsgPtr
    /\ usbMsgLen' = Limited(ReplyLen(rq), rq)
    /\ pc' = "free"
    /\ UNCHANGED <<rxVars, txVars, hostVars>>

FreeRx ==
    /\ pc = "free"
    /\ usbRxLen' = 0
    /\ pc' = "transmit"
    /\ UNCHANGED <<usbRxToken, rq, txVars, msgVars, addressVars, usbConfiguration, hostVars>>

\* usbBuildTxBlock; the loop copies while usbTxLen keeps the routine away.  A
\* block that is not full ends the message.
BuildTxBlock ==
    /\ pc = "transmit"
    /\ usbTxLen = "NAK"
    /\ usbMsgLen # USB_NO_MSG
    /\ LET length == IF usbMsgLen > 8 THEN 8 ELSE usbMsgLen
           from == usbMsgPtr[2]
       IN  /\ txData' = SubSeq(Bytes(usbMsgPtr[1]), from + 1, from + length)
           /\ usbMsgPtr' = <<usbMsgPtr[1], from + length>>
           /\ usbMsgLen' = IF length < 8 THEN USB_NO_MSG ELSE usbMsgLen - length
    /\ txToken' = 1 - txToken
    /\ pc' = "arm"
    /\ UNCHANGED <<rxVars, usbTxLen, addressVars, usbConfiguration, hostVars>>

ArmTx ==
    /\ pc = "arm"
    /\ usbTxLen' = "data"
    /\ pc' = "line"
    /\ UNCHANGED <<rxVars, txToken, txData, msgVars, addressVars, usbConfiguration, hostVars>>

NothingToTransmit ==
    /\ pc = "transmit"
    /\ usbTxLen # "NAK" \/ usbMsgLen = USB_NO_MSG
    /\ pc' = "line"
    /\ UNCHANGED <<rxVars, txVars, msgVars, addressVars, usbConfiguration, hostVars>>

\* Slip: the address noted last survives the reset.
ClearAddress == usbDeviceAddr' = 0 /\ UNCHANGED usbNewDeviceAddr

ClearAddresses == usbDeviceAddr' = 0 /\ usbNewDeviceAddr' = 0

\* Both data lines are low: the bus is being reset.
CheckLine ==
    /\ pc = "line"
    /\ IF stage = "reset"
       THEN ClearAddresses /\ polls' = IF polls < ResetPolls THEN polls + 1 ELSE polls
       ELSE UNCHANGED <<addressVars, polls>>
    /\ pc' = "poll"
    /\ UNCHANGED <<rxVars, txVars, msgVars, usbConfiguration,
                   stage, request, address, expected, got, lost, errors>>

Main == \/ Poll \/ BeginSetup \/ Answer \/ FreeRx
        \/ BuildTxBlock \/ ArmTx \/ NothingToTransmit \/ CheckLine

-----------------------------------------------------------------------------
(* The host, and the interrupt routine's part in its transactions.         *)

Fail == errors < MaxErrors /\ errors' = errors + 1

Addressed == stage # "reset" /\ usbDeviceAddr = address

\* A reset lasts for ten milliseconds or more: usbPoll sees it repeatedly.
EndReset ==
    /\ stage = "reset"
    /\ polls = ResetPolls
    /\ stage' = "idle"
    /\ polls' = 0
    /\ UNCHANGED <<rxVars, txVars, msgVars, addressVars, usbConfiguration, pc,
                   request, address, expected, got, lost, errors>>

ResetBus ==
    /\ stage = "idle"
    /\ Fail
    /\ stage' = "reset"
    /\ address' = 0
    /\ UNCHANGED <<rxVars, txVars, msgVars, addressVars, usbConfiguration, pc,
                   request, expected, got, lost, polls>>

BeginTransfer ==
    /\ stage = "idle"
    /\ stage' = "setup"
    /\ request' \in Requests
    /\ expected' = 1
    /\ lost' = FALSE
    /\ UNCHANGED <<rxVars, txVars, msgVars, addressVars, usbConfiguration, pc,
                   address, got, polls, errors>>

Store(token, length) == usbRxLen = 0 /\ usbRxLen' = length /\ usbRxToken' = token

\* The packet is stored; its handshake may be lost, and the host tries again.
Setup ==
    /\ stage = "setup"
    /\ Addressed
    /\ Store("SETUP", 8)
    /\ rq' = request
    /\ \/ stage' = "in" /\ UNCHANGED errors
       \/ UNCHANGED stage /\ Fail
    /\ UNCHANGED <<txVars, msgVars, addressVars, usbConfiguration, pc,
                   request, address, expected, got, lost, polls>>

\* A packet for endpoint 1 takes the receive buffer, in whatever stage.
OutReport ==
    /\ stage # "reset"
    /\ Addressed
    /\ Store("OUT", 8)
    /\ UNCHANGED <<rq, txVars, msgVars, addressVars, usbConfiguration, pc, hostVars>>

\* Slip: data is sent although a packet waits to be processed.
MaySendAnyTime == usbTxLen # "NAK"

MaySend == usbRxLen = 0 /\ usbTxLen # "NAK"

\* The host takes a block: a short one, or the last byte asked for, ends the
\* data stage; the block of a transfer without one is its status stage.
TakeBlock ==
    /\ IF txToken = expected
       THEN /\ got' = got \o txData
            /\ expected' = 1 - expected
            /\ stage' = IF ~IsIn(request) THEN "idle"
                        ELSE IF \/ Len(txData) < 8
                                \/ Len(got') >= request.wLength[1] + 256 * request.wLength[2]
                        THEN "status" ELSE "in"
            /\ address' = IF IsStandard(request) /\ request.bRequest = USBRQ_SET_ADDRESS
                          THEN request.wValue[1] ELSE address
       ELSE UNCHANGED <<got, expected, stage, address>>
    /\ UNCHANGED <<lost, errors>>

LoseBlock ==
    /\ lost' = TRUE
    /\ Fail
    /\ UNCHANGED <<got, expected, stage, address>>

\* The driver does not wait for the host's acknowledgement; with the packet
\* the new address becomes valid.
In ==
    /\ stage = "in"
    /\ Addressed
    /\ MaySend
    /\ usbTxLen' = "NAK"
    /\ usbDeviceAddr' = usbNewDeviceAddr
    /\ TakeBlock \/ LoseBlock
    /\ UNCHANGED <<rxVars, txToken, txData, msgVars, usbNewDeviceAddr, usbConfiguration,
                   pc, request, polls>>

\* The empty packet of the status stage is acknowledged and not stored.
StatusOut ==
    /\ stage = "status"
    /\ Addressed
    /\ usbRxLen = 0
    /\ stage' = "idle"
    /\ got' = <<>>
    /\ UNCHANGED <<rxVars, txVars, msgVars, addressVars, usbConfiguration, pc,
                   request, address, expected, lost, polls, errors>>

\* The host gives the transfer up, for a loss or for reasons of its own; when
\* it cannot know the device's address any more, it resets the bus.
GiveUp ==
    /\ stage \in {"setup", "in", "status"}
    /\ \/ lost /\ UNCHANGED errors
       \/ ~lost /\ Fail
    /\ IF request.bRequest = USBRQ_SET_ADDRESS
       THEN stage' = "reset" /\ address' = 0
       ELSE stage' = "idle" /\ UNCHANGED address
    /\ got' = <<>>
    /\ UNCHANGED <<rxVars, txVars, msgVars, addressVars, usbConfiguration, pc,
                   request, expected, lost, polls>>

Host == EndReset \/ ResetBus \/ BeginTransfer \/ Setup \/ OutReport \/ In \/ StatusOut \/ GiveUp

Next == Main \/ Host

Spec == Init /\ [][Next]_vars

\* The main loop keeps running; the host keeps retrying what was refused
\* until the driver has room, gives up after a loss and ends each reset.
FairSpec ==
    /\ Spec
    /\ WF_vars(Main)
    /\ SF_vars(Setup) /\ SF_vars(In) /\ SF_vars(StatusOut)
    /\ WF_vars(lost /\ GiveUp)
    /\ WF_vars(EndReset)

-----------------------------------------------------------------------------
(* Properties.                                                             *)

\* What a request asks for: its descriptor or value.
Wanted(r) ==
    IF ~IsStandard(r) THEN <<>> ELSE
    CASE r.bRequest = USBRQ_GET_DESCRIPTOR /\ r.wValue[2] = USBDESCR_HID ->
             usbDescriptorHid
      [] r.bRequest = USBRQ_GET_DESCRIPTOR /\ r.wValue[2] # USBDESCR_HID ->
             Bytes(Descriptor(r)[1])
      [] r.bRequest = USBRQ_GET_STATUS -> <<0, 0>>
      [] r.bRequest = USBRQ_GET_CONFIGURATION -> <<usbConfiguration>>
      [] r.bRequest = USBRQ_GET_INTERFACE -> <<0>>
      [] OTHER -> <<>>

\* As much of it as wLength allows.
Asked(r) ==
    LET most == r.wLength[1] + 256 * r.wLength[2]
    IN  SubSeq(Wanted(r), 1, IF most < Len(Wanted(r)) THEN most ELSE Len(Wanted(r)))

\* As long as no packet of the transfer is lost, the host receives what it
\* asked for and nothing else, whatever transfer was given up before, whatever
\* reset or report came between: never a block of an earlier reply, none twice,
\* none missing (usbdrv.c:427-477, 497-553; asmcommon.inc:129-146).
ReplyIsExact ==
    ~lost /\ stage \in {"in", "status"} =>
        /\ IsPrefix(got, Asked(request))
        /\ stage = "status" => got = Asked(request)

\* The device listens to the address the host uses, in every transfer without
\* a loss and after every reset: SET_ADDRESS takes effect with its status
\* stage, and none that a reset overtook takes effect after it
\* (usbdrv.c:394-395, 600-607; usbdrvasm128.inc:627-640).
AddressInStep == stage # "reset" /\ ~lost => usbDeviceAddr = address

\* Every transfer comes to an end, although every packet to either endpoint
\* takes the one receive buffer (asmcommon.inc:111-117).
TransferEnds == stage # "idle" ~> stage = "idle"

=============================================================================
