# SwitchDualShockAdapter in TLA+

A verification development kept beside the firmware of the adapter that lets a
PlayStation Dual Shock controller play on a Nintendo Switch: an ATmega (8A or 88P)
that speaks low-speed USB in software (V-USB) to the Switch and a clocked serial
protocol to the controller. Paths below are relative to the repository; `main.cpp`
is `src/src/main.cpp` and `usbdrv` is `src/v-usb/usbdrv` as `PROJECT.json` names them.

## 1. The system

One main loop, no operating system, three sources of interrupts: INT0 (the
USB receiver), INT1 (the Dual Shock's acknowledge line, which sets a flag) and the
timer's overflow, which is counted. The main loop never disables interrupts, so the
receiver's routine runs between any two of its instructions.

```
            OUT packets            usbRxBuf                 output reports
 Switch  ----------------> INT0 ------------> usbPoll ----------------> handler
   ^                       routine                (accumulates)            |
   |  IN packets             |                                             v
   +-------------------------+ <--- usbSetInterrupt <--- transmitPacket <- sReports[2]
                                                               |
                                 dualShockCommand <------------+  input sub-report
                                        |
                                   Dual Shock
```

| component | state | operations | module |
|---|---|---|---|
| report pipeline (main.cpp) | two report buffers with length and input position, `sCurrentReport`, `sReportPending`, `transmitPacket`'s statics, modes | dispatch of an output report, preparation of replies, transmission by packets, suspension, halt | `ReportPipeline` |
| USB driver, endpoint 1 (usbdrv) | `usbRxBuf` (two halves), `usbRxLen`, `usbInputBufOffset`, `usbTxStatus1` | OUT and IN transactions in the interrupt routine; `usbPoll`, `usbSetInterrupt` | `UsbEndpoint` |
| USB driver, endpoint 0, bus reset, address (usbdrv) | `usbTxLen`, `usbTxBuf`, `usbMsgPtr`, `usbMsgLen`, `usbDeviceAddr`, `usbNewDeviceAddr`, `usbConfiguration` | SETUP, blocks of the reply, status stage, reset | `ControlTransfer` |
| descriptors and configuration (descriptors.c, usbconfig.h) | constants | read by GET_DESCRIPTOR | `UsbDescriptors` |
| output report accumulation (main.cpp) | `accumulatedReportBytes`, the accumulation buffer | a packet arrives, the end of a report, abandoning | `ReportAccumulator` |
| Dual Shock link (main.cpp) | two controller reports, the command queue's cursor, the pretended home button | poll, run the analog-mode sequence, recover from failures | `DualShockLink` |
| Dual Shock bus (main.cpp) | the acknowledge flag, `activationCount`, the rumble strengths | one exchange, byte by byte; acknowledge interrupt, time-out | `DualShockBus` |
| loop timing (main.cpp, timer.cpp) | last frame and its time, `sUsbSuspended`, the frame a packet is due in | read clocks, decide, sleep, wake | `LoopTiming` |
| serial output (serial.cpp) | a ring of 128 characters | print, print and wait, poll | `SerialRing`, `HaltReport`, `PackedText` |
| command history (main.cpp) | a ring of 32 entries | record a report, dump all at a halt | `CommandHistory`, `HaltReport` |
| EEPROM store (main.cpp, spiMemory.cpp) | the EEPROM, whose last word is a magic number | clear at the first start, SPI write | `EepromStore` |
| SPI flash image (spiMemory.cpp) | constants, the EEPROM | look-up of an address and a length | `SpiFlash` |
| controller state conversion (main.cpp, descriptors.h) | none | Dual Shock report to Switch controller state | `ControllerState` |
| rumble decoding (rumble.cpp) | none; `sLowRumbleAmplitude`, `sHighRumbleAmplitude` | layouts of rumble data to strengths | `RumbleState` |
| packed strings (packedStrings.*) | none | pack at compile time, read back | `PackedText` |
| oscillator tuning (osctune.h) | `OSCCAL`, the timer at the last frame | a step per frame | `Oscillator` |
| LED heartbeat (main.cpp) | four counters | count quarters of a second, toggle | `Heartbeat` |
| bit-level receiver and transmitter, V-USB's examples and libraries, build files | | | not modelled, see section 7 |

How they interact: `loop` calls `usbPoll`, which answers control requests itself and calls
the handler with a packet of OUT endpoint 1; the handler prepares a reply in
`sReports[sCurrentReport]`; later in the same round `loop` may call `transmitPacket`, which
asks the Dual Shock for its state when the packet it copies includes it, and gives the
packet to the driver. A suspension of the bus is noticed by comparing clocks, drops the
pending report and puts the processor to sleep.

What is hard about it, and which properties are about it:

* the handler and `transmitPacket` share two buffers, and a clash of reports halts the
  adapter for good: `NeverHalts`, `TransmittedReportUntouched`, `ReceivedIntact`;
* suspensions cut reports in two and leave statics behind: `ImplementsReplyService`,
  `MacReplyIntact`;
* the interrupt routine and the loop share packet buffers without a lock, and the bus
  loses packets and handshakes: `NoTornPacket`, `OutIsChannel`, `InIsChannel`,
  `EveryOutAccepted`;
* packets come twice, and reports are broken off: `DispatchedWhole`, `RoomForPacket`;
* a control transfer is given up, and a request, a reset or a report comes while the
  one before is still being answered: `ReplyIsExact`, `AddressInStep`, `TransferEnds`;
* lengths come from the Switch and sums of them wrap: `RepliesWithinBuffers`,
  `ReadsAgreeWithImage`, `AckedIsStored`;
* eight-bit clocks and counts are compared after they have moved on and come round:
  `PacketWithinFrames`, `SuspendedWhenSilent`, `BusStateNoticed`, `HomePressedOnce`,
  `PulsesInTurn`, `ClockInTune`, `LedBlinks`;
* the controller acknowledges late or never, and exchanges fail half way:
  `ExchangeIsWhole`, `ExchangeEnds`, `CommandsInConfigMode`, `ShownIsLastGood`,
  `AnalogInTheEnd`;
* bits are moved about by tables and bit-fields: `StateConverted`, `RumbleFelt`,
  `PrintedReadsBack`;
* the power goes at any moment: `NothingStale`, `AckedIsStored`;
* a halt ends the loop that empties the serial ring: `HaltReportWritten`,
  `HaltReportFinishes`.

`PROJECT.json` lists every hazard at its line.

## 2. Modules

Definitions keep the names of the code. A definition marked "Slip" is a plausible
mistake; putting it in the place of the definition after it makes the property named in
`PROJECT.json` fail, which shows that the property depends on that line of code.

**ReportPipeline** models everything between a complete output report and the packets
of IN endpoint 1. A buffer is abstracted to three regions (bytes 0-1, 2-12, 13-63),
each identified by the command whose answer it holds or by the controller state written
there. `HandleOutputReport` is the whole handler, one disjunct per outcome, including
those that halt and the two that run past a buffer (`"overrun"`: what follows is
undefined, and the model ends there); `Transmit` is one call of `transmitPacket` with its three cases
(`ContinueReport`, `StartPendingReport`, `StartInputReport`), all ending in
`SendPacket`; `NothingDue` and `Sleep` are the other two ways through the loop's body.
The program counter `pc` separates the handler (`usbPoll`) from the rest of the loop
body, because packets, frames and suspensions come in between. The Switch is the
environment: `HostSend`, `HostTakePacket`, `HostSuspend`, `HostResume`.

**ReplyService** is the abstract specification: a command the Switch waits on is answered
by its own complete reply, once. `ReportPipeline!Service` is the refinement mapping.

**UsbEndpoint** models the interrupt routine against the main loop. A transaction is
one step of the routine (interrupts do not nest in it); a copy by the main loop is one
step per cell of a packet, so that the routine runs between any two of them. Tokens,
packets and handshakes may be lost. **PacketChannel** is the abstract specification of
one direction, and what `ReportPipeline` takes the endpoint to be (`rxReport`,
`txPacket`); `OutChannel` and `InChannel` are the mappings.

**ControlTransfer** models endpoint 0. Here a transaction on the bus is one step, and
`usbPoll` is taken apart where it reads or writes what the interrupt routine shares with
it: `usbRxLen` first, then the token and `usbTxLen` (`BeginSetup`), the answer, the
release of the receive buffer, the next block, the test for a reset. `DATA0`/`DATA1` are
kept, since it is by them that the host drops a stale packet. The request's data is read
from **UsbDescriptors**, which has the descriptors byte by byte. A report to endpoint 1 may
take the receive buffer in every stage of a transfer. Packets of IN endpoint 1 are left
out; they set `usbDeviceAddr` as well (usbdrvasm128.inc:632-640), but a host asks for them
only once it has configured the device, after the status stage that sets the address.

**ReportAccumulator** models how the handler puts packets together. The host cuts
reports into packets as USB prescribes; it may give a transfer up and clear the halt, or
break a report off by a reset or suspension, of which the handler learns nothing; and
a packet whose handshake was lost comes twice, as `UsbEndpoint` allows.

**DualShockLink** models `prepareInputSubReportInBuffer` as one step,
`PrepareInputSubReport`, and the controller as far as the code's commands and the modes
it checks tell. An exchange succeeds or fails as a whole.

**DualShockBus** takes that exchange apart: `dualShockCommand` clocks a byte out and in,
stores it, and waits for the flag that the acknowledge interrupt sets at any moment. The
controller is external: it acknowledges soon, late or never, and noise may change the
length it reports. The command polled with carries the motors' strengths (`RumblingPoll`).

**LoopTiming** models `loop`'s comparisons of clocks. `ReadClocks` and `Decide` are
separate steps: frames begin and milliseconds pass between them. `timerMillis` is
rounded down from the timer's overflows, 1.28 ms apart (64 * 256 cycles of 12.8 MHz), so
it stands still or jumps by two at times. `HostResumes` waits until the loop is asleep:
resuming takes a host 20 ms, and the loop goes to sleep within a few.

**SerialRing** and **CommandHistory** are the two components behind a halt,
**HaltReport** composes them: `haltStr6` prints the history with prints that wait, and
`Poll` goes on only inside such a print.

**EepromStore** models `prepareEEPROM` and `spiMemoryWrite` byte by byte, with power losses
in between. A write has an address, a length and contents; its end is computed in as many
bits as an address has, and a byte past the user area lands in the cell that the EEPROM's
fewer address lines select (`Cell`). `acked` is what the Switch may count on, `marred` whether
a write has broken the magic number.

Pure computations are operators, each module with the reference that its property
compares them with: **ControllerState** (the compiler's bit insertion against a table
of buttons; sticks against exact proportions), **RumbleState** (fields of the reversed
data against the bits, as received, that hold amplitudes), **PackedText** (packing
and reading back against the text), **SpiFlash** (the search against the image as one
function of addresses), **Oscillator** and **Heartbeat** (one step per frame).
**Conversions** runs them: one step from an input, or a step per frame.

**MC...** modules give names to the small sets the configurations need.
The theorems are in eight modules of their own. Six are named after the component they
are about: **ReportPipelineProofs**, **UsbEndpointProofs**, **ControlTransferProofs**,
**ReportAccumulatorProofs**, **LoopTimingProofs** and **HaltReportProofs**. Two are about
components that belong together: **DualShockProofs**, the controller's link and its bus,
and **AdapterDataProofs**, the data the adapter keeps and converts (`EepromStore` and
`Conversions`). Each extends two specifications, so that one of the two prefixes its
names: `BusInit`, `BusNext`, `BusSpec` in `DualShockBus`, `EepromInit`, `EepromNext`,
`EepromSpec` in `EepromStore`.

## 3. Runs

| run | question | bounds |
|---|---|---|
| `ReportPipeline_waiting` | a Switch that waits for each reply, and suspends: no halt, refinement of `ReplyService` | 3 commands, 1 suspension, one operation of each shape of reply |
| `ReportPipeline_free` | all 19 operations sent at any moment: replies within buffers, buffers private, packets in order, reports intact | 3 commands, no suspension |
| `ReportPipeline_mac` | finding: a reply with the wrong payload after a suspension | 3 commands, 1 suspension |
| `UsbEndpoint_lossy` | one-packet channels, no torn packets | 5 OUT packets (one empty), 4 IN packets, 3 cells, 3 losses |
| `ControlTransfer_enumeration` | replies exact, address in step, transfers end | the requests of an enumeration and others, 1 loss, reset or transfer given up |
| `ReportAccumulator_packets` | reports put together whole, damage bounded | 3 reports of lengths 2, 8, 10, 16, 49, 63, 64, 1 failed transfer, 2 disturbances |
| `DualShockLink_exchange` | recovery, the home button, analog mode in the end | 2 failures, 2 presses, counter modulo 8 |
| `DualShockBus_exchange` | whole exchanges, their end, the small motor's turn | reports of 4 bytes, lengths of 3 and 5, strengths at the edges of the duty cycle |
| `LoopTiming_clock` | packets in time, suspension noticed and only then | counters modulo 6 and 8, 1 suspension, 1 frame missed |
| `HaltReport_ring` | the halt report is right and comes out | rings of 3, counts modulo 4, 5 reports, 5 characters |
| `EepromStore_power` | power losses anywhere, writes that wrap | 8 bytes, 16 addresses, 3 writes, 3 losses |
| `Conversions_inputs` | the pure computations do what they should; clock and LED | inputs at the edges of fields and segments, see `MCConversions` |

Why the bounds are enough to be of interest. Three commands fill both buffers and the
driver at once, and one more has nowhere to go, as the Switch cannot send while the
driver is busy. The SPI read of 44 bytes fills a report exactly, one more is too long;
the operations include replies shorter than a packet, of a multiple of eight bytes and
of 64. Rings of three entries wrap, run over and are read while wrapped. A
frame counter modulo 8 with a home button of 2 frames wraps as 256 with 64 does.
LoopTiming's millisecond counter must exceed the four of the time-out and what the
loop may lag. Five OUT packets use each half of the buffer more than once. The
requests of `ControlTransfer_enumeration` have replies of no, one, two, eighteen bytes, of
several blocks, cut short by the host, and ending on a block's boundary; a reset lasts
for `ResetPolls` rounds of `usbPoll` at the least, as a reset lasts for 10 ms. One loss, reset or
transfer given up meets every other step of a transfer and of the one after. In
`ReportAccumulator_packets` each kind of disturbance comes at every packet of a report,
twice, with a report before and after. `DualShockBus_exchange` has reports shorter and
longer than the buffer (`toReceiveLength` 4), a wait that wraps at `MicrosModulus` 4 unless
it ends at `AckMicros` 1, and the quotient of a division by zero, `ZeroQuotient`, 16 for
255: larger than every proper duty cycle, which is all that matters. In `EepromStore_power`
the user area begins at address 3 of 16: a write of 5 bytes from 11 or later has an end of 0
to 4 and passes the check. From 11 it lands on all user bytes, from 12 to 15 on some of them
and on one or both bytes of the magic number, and contents may be those of the number. An oscillator
may need `Settling` 40 frames, each a step of `OSCCAL`; `Heartbeat` counts
`QuarterFrames` 14 modulo `ByteValues` 16 for 250 modulo 256. Counters
only properties read (`silence`, `seenCount`) are capped where larger values make no
difference, each cap being a named definition.

Some names of bounds: `MaxCommands`, `MaxSuspends` (ReportPipeline, LoopTiming),
`MaxOut`, `MaxIn`, `MaxErrors` (UsbEndpoint, ControlTransfer), `MaxReports`, `MaxAbandons`,
`MaxDisturbances` (ReportAccumulator), `MaxGap`, `MaxFailures`, `MaxPresses`, `Readings`,
`MaxSeen` (DualShockLink), `MaxSkips`, `MaxLag`, `MaxSilence` (LoopTiming), `MaxPrinted`
(HaltReport), `MaxWrites`, `MaxPowerLosses` (EepromStore), `Settling`, `MaxMissed`
(Conversions).

Deadlock is checked except in `HaltReport` (haltStr6 stops for good, and once its last
character is out nothing moves), `ReportPipeline_free` (commands sent at any moment may
halt the adapter, which is then silent), `EepromStore` (the bounds on writes and losses
end a behaviour) and `Conversions` (a computation is over when it is done).
`ReportAccumulator` has an explicit `Done` step at its bounds.

Fairness, where liveness or refinement needs it:

* ReportPipeline: weak fairness of the loop, which never blocks outside a halt, of
  frames and of the Switch's polls; strong fairness of `Transmit`, `Sleep` and
  `HostResume`: the frame a packet is due in and a look at the timer after four
  milliseconds come again and again, which `LoopTiming` justifies
  (`PacketWithinFrames`, `BusStateNoticed`). Nothing makes the Switch send or suspend.
* UsbEndpoint: the loop runs, the host retries and polls; strong fairness of `HostIn`
  and `SetInterrupt`, which other traffic disables for moments only.
* ControlTransfer: weak fairness of the main loop and of the end of a reset; strong
  fairness of the host's retries (`Setup`, `In`, `StatusOut`), which a waiting report
  disables for moments only; and a host that has lost a packet gives the transfer up.
* DualShockLink: exchanges go on succeeding from some time on.
* DualShockBus: weak fairness of the program, none of the controller.
* LoopTiming: the loop runs, time passes, the host polls.
* HaltReport: the program runs on inside a print that waits, and the UART transmits.

## 4. Findings

**A MAC reply overwritten** (`MacReplyIntact`). A suspension drops the pending report
but leaves its buffer's input position at 2, and `prepareRegularReplyReport_P` does not
set the position: the next reply to `80 01` from that buffer is sent with controller state
over the MAC address.

Seen on the way, modelled as the code does it, and left out of the properties by a
condition that says so:

* The driver acknowledges and drops a packet without data, so a report that ends on a
  packet boundary short of 64 bytes is not dispatched, and the next one is appended to
  it. The reports that the Switch sends in practice have other lengths. Likewise for
  bytes left by a reset or suspension, and packets that come twice: accumulation
  recovers with the first short packet, so with 64-byte reports only it never does
  (`settled`, `trusted` in `ReportAccumulator`).
* The age of a press of the home button is an eight-bit difference looked at only when
  an input report is prepared; with none for 192 frames or more (input reports
  stopped) it comes round and the button is pressed again (`MaxGap`).
* `spiMemoryWrite` refuses a write that takes in 0x804b, the last byte of the user
  area, `spiMemoryRead` does not read it, and the caller acknowledges the write without
  looking (`SpiWriteStoresNothing`): `AckedIsStored` claims nothing of that byte. A read that
  spans the adjoining segments 0x6080 and 0x6098 fails.
* The end of a read is computed in sixteen bits (spiMemory.cpp:124). That of a range which
  runs past the last address comes round to a low one and passes for an end in
  the first segment searched: the read succeeds and copies bytes from beyond that segment.
  `ReadsAgreeWithImage` leaves out what such a read returns.
* Such reads can be as long as 255 bytes. The length of their reply is an eight-bit sum
  (main.cpp:556): for 236 to 250 bytes it comes round to at most 14, passes the test at
  557, and the copy at 561 takes 241 to 255 bytes into a report of 64. From 251 on the sum at
  581 comes round, and the buffer has fewer bytes than its header. `RepliesWithinBuffers` says
  that neither happens. It is true while the lengths do not come round (`LengthsHeld`); with
  `SpiReadLength` 235, the longer of the model's reads being one byte more, it is violated. What
  follows is undefined, so the model stops there (`"overrun"`), and what the other
  properties say of the pipeline they say up to that moment.
* The end of a write has sixteen bits as well (spiMemory.cpp:157). A write past the last address
  passes the check, is acknowledged, and lands where the EEPROM's address lines take it: on
  other user bytes, or on the magic number, whereupon the next start clears everything.
  `EepromStore` does all this; `AckedIsStored` gives up the bytes that such a write lands on,
  and all of them at the clearing that follows a broken number. `NothingStale` holds in
  spite of such writes, also of those whose contents are the magic number's.
* serial.h:13 says a print that waits returns when the character is being output; it
  returns with its character in the ring (serial.cpp:50-56), so the newline that ends a
  halt report stays there. `HaltReportWritten` states what the code does.
* An amplitude below 16 divides by zero (main.cpp:431). The quotient of the library's
  division is 255, so the small motor is on once in 255 polls. Strengths that alternate
  put a pulse off.
* Of the data `X0` the structure holds four of seven frequency bits (rumble.cpp:90). In
  the layout with four pulses the switches of the second and the third both let the
  fourth one's amplitude through (361-366); main.cpp:816-823 looks at the left first
  pulse twice and at no fourth one.
* An exclamation mark in a six-bit string prints as a bar, and a semicolon ends it: they
  stand for others in the packing.
* A bus reset leaves `usbConfiguration` as it is; SET_CONFIGURATION and CLEAR_FEATURE do
  not reset the toggle of endpoint 1; an unknown descriptor is answered by an empty packet
  and not by a STALL; a block of endpoint 0 lost on the bus is not noticed by the device,
  and the host sees the transfer fail.
* main.cpp:103 says the acknowledge interrupt is on the falling edge; `ISC11|ISC10` is
  the rising one. `Acknowledge` does not tell the edges apart.

## 5. What is proved

In eight modules (the list in section 2) every invariant and safety action property that a
run checks is proved for every value of the constants, except `PrintedReadsBack` and the
finding, and so is every step of the refinements. Each theorem
goes the same way: an inductive invariant, which TLC checked on the module's run before,
its lemmas for `Init` and for each action, and the step from it to the property.

**Report pipeline** (`ReportPipelineProofs`), for every set of operations, number of
commands and suspensions and every SPI length (`SpiReadLength` up to 254, for the run reads one
byte more as well).

    PipelineInv == TypeOK /\ CursorWithinReport /\ TransmittedBufferIsPrivate

gives the last two and the action property `TransmittedReportUntouched`. The type of the
cursor rests on the packet boundary: the remaining length is a difference that must
not fall below zero, and a report that is not ended by a short packet must stop at 64.
That replies do not touch a report in transmission rests on privacy, and privacy on the
swap at every pick-up. `ReplyLengths` isolates the arithmetic modulo 256. On it rest:

* `RepliesFit` (`RepliesWithinBuffers`): no reply runs past the buffer it is put together in,
  nor past the report. The hypothesis `LengthsHeld`, that no reply has 256 bytes or more, is
  what the code does not see to (section 4); with it, the test of the sum is the test of
  the bytes copied. The other theorems do without it.

* `InOrder` (`PacketsInOrder`). `OrderInv` adds that `transmitPacket` holds a report
  active exactly if the Switch expects more of it: the two decide by different tests.
* `Intact` (`ReceivedIntact`). `IntactInv` says what is in a buffer while it is prepared,
  transmitted and delivered, and that a buffer that is none of these has no input
  position if the bus is never suspended. The hypothesis `NothingSpoiled` is that the
  MAC address is not asked for on a bus that is suspended: that is the finding.
* `NeverStops` (`NeverHalts`), for a Switch that waits (`HostWaits`) and sends nothing
  that halts the adapter by itself (`Harmless`). `WaitingInv` numbers the commands: what
  is prepared is younger than what is on its way, what is to be prepared younger than
  both, and a command that is answered finds nothing prepared.
* `Serves`, the safety of `ImplementsReplyService`: every step of the pipeline is one of
  `ReplyService` or a stutter. `ExpectedInv` adds that each reply on its way answers the
  request awaited or one given up.

**Endpoint 1** (`UsbEndpointProofs`), for packets of any number of cells and any number
of packets and losses. `EndpointInv` has the hand-over of the buffer halves and of
`usbTxLen1` (`RxInv`, `TxInv`), how far the packets are ahead of the host's knowledge
(`OrderInv`), and the tokens until the first loss (`TokenInv`). It gives `NeverTorn`
(`NoTornPacket`) and the safety of `OutIsChannel` and `InIsChannel`
(`OutStepsAreChannelSteps`, `InStepsAreChannelSteps`).

**Endpoint 0** (`ControlTransferProofs`), for every set of requests, number of losses,
transfers given up and resets.

* `InStep` (`AddressInStep`). `AddressInv` follows the address from the SETUP packet
  through `usbNewDeviceAddr` to the status stage; `ResetInv` says what a reset leaves. The
  hypothesis is `ResetPolls >= 2`. With one poll only it is false, as TLC shows: a
  SET_ADDRESS stored before the reset can be answered just after `usbPoll` has cleared
  the address. A reset of 10 ms gives `usbPoll` many rounds.
* `Exact` (`ReplyIsExact`). `ExactInv` says that what the host has received, the block that
  waits and what is left of the message make up the reply, and that the next token is
  the expected one, but only once the request in the buffer has been answered; before,
  nothing has been received. `MessageInv` keeps what is left inside the memory it is read
  from, for which the lemmas `DescriptorReply` and `Replies` go through all requests.
  The hypothesis `DirectionsAgree` is that the host does not make a standard request that
  is answered with data as one that sends data, as USB prescribes. It holds of
  the run's requests.

**Report accumulation** (`ReportAccumulatorProofs`), for every set of report lengths up to
64. `AlwaysRoom` (`RoomForPacket`) needs `CountInv` only, which does not relate the count to
the host's place: whatever the host has sent before, a packet that is not eight bytes ends
the report, so the count stays a multiple of eight below 64. `DispatchesWhole`
(`DispatchedWhole`) and `EndSeen` (`EndOfTransferSeen`) need that relation while the two are
in step (`InStep`), packet by packet.

**Dual Shock link** (`DualShockProofs`). `AlwaysLastGood` (`ShownIsLastGood`) and
`AlwaysInConfigMode` (`CommandsInConfigMode`) for any number of failures: `SequenceInv` says
in which mode a sequence leaves the controller wherever it is broken off. `HomeOnce`
(`HomePressedOnce`) has the hypothesis `HomeSofs + MaxGap <= SofModulus`, for the frame count
must not come round between two input reports; section 4 says what happens when it does.

**Dual Shock bus** (`DualShockProofs`). `WholeExchange` (`ExchangeIsWhole`) rests on
`ReadyInv`: the flag is not up unless the controller is ready for the next byte, so a late
acknowledge does not pass for that of another byte. `Pulses` (`PulsesInTurn`) relates the
count, which outlives a change of strength, to the polls since the motor was last on.

**Loop timing** (`LoopTimingProofs`), for counters of any width. `InTime`
(`PacketWithinFrames`): each frame that the loop misses moves the packet's frame by two.
`OnlyWhenSilent` (`SuspendedWhenSilent`) has the hypothesis `MaxSkips + 1 < SofModulus`: if
the loop is held up for as many frames as the counter counts (256 in the code), a frame
that began cannot be told from none. TLC shows this for a counter modulo 7.

**Halt report** (`HaltReportProofs`), for rings of any length and any number of reports and
prints before the halt.

* `DumpTold` (`DumpIsHistory`). `HistoryInv` reads the ring of entries backwards from the
  cursor: the slot `i` behind it holds the entry of the latest run but `i`, until
  `haltStr6`, which moves the cursor back as it prints, has passed it. `NewRun` and
  `SameRun` say what a report does to the ring, the oldest slot or the newest changing and
  no other, and `CountedBytes` that counting in two bytes, with a carry by hand, is
  counting modulo 65536.
* `HaltReportLeaves` (`HaltReportWritten`). Before the halt, prints that do not wait may run
  the ring over, and nothing can be said of what is in it. `RingInv` says that the first
  print that waits empties it, whatever was there, and that after each the ring
  holds the last character alone with all before it written. The hypotheses are that the
  history has more than one entry and the ring more than one slot (the code has 32 and 128).
  Both are needed, as TLC shows: with one entry there is no second print to tell that what
  a ring that had run over lost is made up for; and a ring of one slot is empty when it is
  full, so that nothing waits and nothing is written.

**EEPROM** (`AdapterDataProofs`), for every size and number of power losses. `NeverStale`
(`NothingStale`): the magic number is whole only over a user area that holds nothing of
another program's. `AckedStays` (`AckedIsStored`): what is answered for is stored, and the magic number
is whole unless a write has broken it (`HasMagic` or `marred`); a write claims the bytes
it lands on, wherever that is, before it starts. `Landing` says that the bytes a write lands on
include those the Switch means.

**Conversions** (`AdapterDataProofs`). The inputs are all that the types in the code allow:
`ConversionsAssumption` says that reports and rumble data consist of bytes, that addresses
have sixteen bits and lengths eight. A computation takes one step, so the invariants
(`StateInv`, `ReadInv`, `RumbleInv`) only say that the output is the computation's result;
the proofs are in the lemmas about the operators.

* `ConvertsState` (`StateConverted`). `Assembled` gives each bit of the sum of eight shifted
  bits, `Inserted` each bit of a bit insertion; two tables (`SwitchNames`, `DualShockNames`)
  then match bits with buttons. `TwelveBits` takes the two packed twelve-bit positions
  apart again, for every pair of positions.
* `FeelsRumble` (`RumbleFelt`), for all 2^64 rumble data. `SevenBits` shows that an amplitude
  whose bits are zero reads as zero from each place that a layout has for one, `Decoded`
  goes through the layouts, `MotorsFelt` through the choice of the strongest.
* `ReadsRight` (`ReadsAgreeWithImage`), for all addresses and lengths. `SegmentBounds` says
  that the segments do not overlap, `Search` which of them the loop finds, `SegmentAgrees`
  and `UserAreaAgrees` that the image has the same bytes there, `OnePlace` that a range in
  one segment is found. The proof found the reads that come
  round (section 4): the property was false of them, and no input of the run was one.
  The run has some now, and the property says that it leaves them out.
* `KeepsTime` (`ClockInTune`), for every number of frames to settle in and every
  oscillator that is `Tunable`: the counts rise with `OSCCAL`, by three a step at most; the
  deviation at first fits in eight signed bits; the ends of `OSCCAL` are out of tune, for
  `tuneOsccal` does not test for its overflow; and a value in tune is near enough.
  `StepSigned` shows that the two comparisons by the sign of an eight-bit difference tell
  too high, too low and neither apart for deviations from -126 to 128. `ClockInv` says
  that a value in tune is no further away than there are frames left, by `TuneNearer`;
  `TuneKept` that a frame never leaves the range -2..1, and `TuneDisturbed` that a misread
  frame leaves it by a step that the next one takes back. `ChipsTunable` in `MCConversions`
  has TLC evaluate the hypothesis for the run's oscillators.
* `Blinks` (`LedBlinks`), for counters of any width (`HeartbeatAssumption`) and any number of
  frames missed: `LedInv` relates the frames since the last toggle to the quarter counted,
  the frame counter's place in it and the turns lost.

The assumptions are the named `ASSUME`s of the modules; TLC evaluates them in every run.
Two of them are facts: `RequestsAssumption` that requests consist of bytes, and
`DescriptorsCounted` that the report descriptor has 203 bytes and the HID descriptor is
at byte 18 of the configuration, which TLC counts and the proofs cannot, as the report
descriptor is put together by a fold.

Only model-checked:

* liveness, and the fairness conditions of the refinements (`TransferEnds`,
  `EveryOutAccepted`, `AnalogInTheEnd`, `ExchangeEnds`, `BusStateNoticed`,
  `HaltReportFinishes`, and the other half of `OutIsChannel`, `InIsChannel` and
  `ImplementsReplyService`): the provers do not reason about fairness;
* `PrintedReadsBack`: text is packed by sums over its characters, printed and read back by
  folds and recursive functions. What these compute for every text is by induction over
  its length, and the induction theorems have an operator as parameter;
* `MacReplyIntact`, which is false.

## 6. Plan

The plan of the modules, runs and theorems is carried out. What would be next:

1. `PrintedReadsBack`, once a prover is at hand that instantiates the
   induction theorems. Until then a lemma per character of a text of bounded length would
   only repeat what TLC checks.
2. The abstract `ReplyService` over the abstract `PacketChannel`: `ReportPipeline` takes
   the endpoint as a whole packet given and taken, which `OutStepsAreChannelSteps` and
   `InStepsAreChannelSteps` justify one direction at a time; a module that composes the
   two state machines would check the fairness assumptions against each other as well.

A new run replaces one whose question it includes.

## 7. Not modelled

* The bit-level receiver and transmitter (`usbdrvasm.S` and its like): cycle-counted
  assembler, right or wrong by timing on the wire. Its results (tokens, packets,
  frames) are inputs of the models.
* Bytes inside a region, a packet or a string descriptor: the properties do not tell
  them apart.
* What this configuration compiles out: further endpoints, `usbFunctionRead` and
  `usbFunctionWrite`, checks of data toggles, rumble frequencies, the hub and
  measuring variants of the driver.
* `osccal.c`, a search over `OSCCAL` at bus reset, which the adapter replaces by
  `osctune.h`.
* `setup` and `usbInit`: port and interrupt set-up, once, before interrupts are enabled.
* V-USB's examples, tests, host libraries and circuits, and the build files. They are
  vendored and not part of the adapter's program.
