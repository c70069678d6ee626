----------------------------- MODULE LoopTiming -----------------------------
(***************************************************************************)
(* The clockwork of loop (src/src/main.cpp): which frame a packet is       *)
(* prepared in, and when the bus is taken to be suspended.  It compares    *)
(* eight-bit counters that interrupt routines advance while the loop runs. *)
(* A frame lasts a millisecond; the loop goes round many times in a frame, *)
(* except when it is held up (an EEPROM write takes 3.4 ms a byte), which  *)
(* is what MaxSkips allows.                                                *)
(*                                                                         *)
(* There is always something to transmit here; ReportPipeline says what.   *)
(***************************************************************************)
EXTENDS Integers

CONSTANTS
    SofModulus,     \* usbSofCount counts modulo this (256)
    MillisModulus,  \* timerMillis counts modulo this (256)
    MaxSuspends,    \* bound: times the Switch suspends the bus
    MaxSkips        \* bound: frames that pass before the loop has gone round

ASSUME TimingAssumption ==
    /\ SofModulus \in Nat \ 0..3
    /\ MillisModulus \in Nat \ 0..7
    /\ MaxSuspends \in Nat
    /\ MaxSkips \in Nat

SuspendMillis == 4
MaxLag == 2

VARIABLES
    usbSofCount,
    millis,             \* what timerMillis returns
    lag,                \* how far that is behind the time
    sofCountNow,        \* the counters as loop read them in this round
    millisNow,
    lastSofCount,
    lastSofTime,
    sUsbSuspended,
    preparePacketAtSofCount,
    pc,                 \* "sample", "decide", or "asleep"
    ready,              \* usbInterruptIsReady: endpoint 1 has no packet
    busActive,          \* the Switch is driving the bus
    suspends,
    skips,
    seen,               \* the loop read its counter since the last frame
    waited,             \* frames that began while ready and not suspended
    silent,             \* milliseconds since the last frame, when loop read them
    silence             \* milliseconds since the last frame

snapshotVars == <<sofCountNow, millisNow, silent>>
suspendVars == <<lastSofCount, lastSofTime, sUsbSuspended>>
busVars == <<busActive, suspends, skips>>
clockVars == <<usbSofCount, millis, lag, silence>>
vars == <<snapshotVars, suspendVars, preparePacketAtSofCount, pc, ready,
          busVars, clockVars, seen, waited>>

\* Bound of the counters that only the properties read: longer silences are
\* not told apart.
MaxSilence == SuspendMillis

SofBefore(a, b) == (a - b) % SofModulus
MillisBefore(a, b) == (a - b) % MillisModulus

Init ==
    /\ usbSofCount = 0
    /\ millis = 0
    /\ lag = 0
    /\ sofCountNow = 0
    /\ millisNow = 0
    /\ lastSofCount = SofModulus - 1
    /\ lastSofTime = MillisModulus - 1
    /\ sUsbSuspended = TRUE
    /\ preparePacketAtSofCount = 0
    /\ pc = "sample"
    /\ ready = TRUE
    /\ busActive = TRUE
    /\ suspends = 0
    /\ skips = 0
    /\ seen = FALSE
    /\ waited = 0
    /\ silent = 0
    /\ silence = 0

-----------------------------------------------------------------------------
(* One round of the loop, after usbPoll: reading the clocks, the rest.     *)

ReadClocks ==
    /\ pc = "sample"
    /\ pc' = "decide"
    /\ seen' = TRUE
    /\ sofCountNow' = usbSofCount
    /\ millisNow' = millis
    /\ silent' = silence
    /\ UNCHANGED <<suspendVars, preparePacketAtSofCount, ready, busVars,
                   clockVars, waited>>

SofSeen == sofCountNow # lastSofCount

\* Slip: a frame does not restart the time-out.
TimeOutKeepsRunning == lastSofTime

TimeOutStart == IF SofSeen THEN millisNow ELSE lastSofTime

\* Slip: the silence is not noticed.
NeverTimedOut == FALSE

TimedOut == MillisBefore(millisNow, TimeOutStart) > SuspendMillis

\* Slip: a frame does not end the suspension.
StaysSuspended == sUsbSuspended \/ TimedOut

SuspendedNow == (sUsbSuspended /\ ~SofSeen) \/ TimedOut

\* Slip: a preparation that was missed is waited for until the counter has
\* come round.
NeverRescheduled == preparePacketAtSofCount

\* The frame a packet is prepared in: the next one, unless one is scheduled.
PrepareAt ==
    IF SofBefore(preparePacketAtSofCount, sofCountNow) <= 1
    THEN preparePacketAtSofCount
    ELSE (sofCountNow + 1) % SofModulus

Due(frame) == frame = sofCountNow

Bookkeeping ==
    /\ lastSofCount' = sofCountNow
    /\ lastSofTime' = TimeOutStart
    /\ sUsbSuspended' = SuspendedNow

Idle ==
    /\ ~ready
    /\ UNCHANGED <<preparePacketAtSofCount, ready, waited>>

WaitForFrame ==
    /\ ready
    /\ preparePacketAtSofCount' = PrepareAt
    /\ ~Due(PrepareAt)
    /\ UNCHANGED <<ready, waited>>

TransmitPacket ==
    /\ ready
    /\ preparePacketAtSofCount' = PrepareAt
    /\ Due(PrepareAt)
    /\ ready' = FALSE
    /\ waited' = 0

Decide ==
    /\ pc = "decide"
    /\ ~SuspendedNow
    /\ Bookkeeping
    /\ Idle \/ WaitForFrame \/ TransmitPacket
    /\ pc' = "sample"
    /\ UNCHANGED <<snapshotVars, busVars, clockVars, seen>>

\* The clocks as they were read say that the bus is silent: sleep, although
\* a frame may have begun since.
GoToSleep ==
    /\ pc = "decide"
    /\ SuspendedNow
    /\ Bookkeeping
    /\ pc' = "asleep"
    /\ waited' = 0
    /\ UNCHANGED <<snapshotVars, preparePacketAtSofCount, ready, busVars,
                   clockVars, seen>>

-----------------------------------------------------------------------------
(* Time, the Switch, and interrupts.                                       *)

\* A millisecond passes.  The timer fires every 1.28 ms and the result is
\* rounded down, so that timerMillis stands still or advances by two at times
\* and is up to two behind.  A frame that begins raises INT0, which ends the
\* sleep; while the processor sleeps its timer stands still.
Millisecond ==
    LET asleep == pc = "asleep"
    IN  /\ IF asleep \/ seen
           THEN UNCHANGED skips
           ELSE skips < MaxSkips /\ skips' = skips + 1
        /\ seen' = FALSE
        /\ IF asleep
           THEN UNCHANGED <<millis, lag>>
           ELSE /\ lag' \in {lag - 1, lag, lag + 1} \cap 0..MaxLag
                /\ millis' = (millis + 1 + lag - lag') % MillisModulus
        /\ IF busActive
           THEN /\ usbSofCount' = (usbSofCount + 1) % SofModulus
                /\ silence' = 0
                /\ pc' = IF asleep THEN "sample" ELSE pc
                /\ waited' = IF ready /\ ~sUsbSuspended THEN waited + 1 ELSE waited
           ELSE /\ silence' = IF silence < MaxSilence THEN silence + 1 ELSE silence
                /\ UNCHANGED <<usbSofCount, pc, waited>>
        /\ UNCHANGED <<snapshotVars, suspendVars, preparePacketAtSofCount, ready,
                       busActive, suspends>>

\* Traffic that is not a frame, such as the end of resume signalling, wakes
\* the processor up as well.
WakeByTraffic ==
    /\ pc = "asleep"
    /\ busActive
    /\ pc' = "sample"
    /\ UNCHANGED <<snapshotVars, suspendVars, preparePacketAtSofCount,
                   ready, busVars, clockVars, seen, waited>>

HostTakesPacket ==
    /\ busActive
    /\ ~ready
    /\ ready' = TRUE
    /\ UNCHANGED <<snapshotVars, suspendVars, preparePacketAtSofCount, pc,
                   busVars, clockVars, seen, waited>>

HostSuspends ==
    /\ busActive
    /\ suspends < MaxSuspends
    /\ busActive' = FALSE
    /\ suspends' = suspends + 1
    /\ UNCHANGED <<snapshotVars, suspendVars, preparePacketAtSofCount, pc,
                   ready, skips, clockVars, seen, waited>>

HostResumes ==
    /\ ~busActive
    /\ pc = "asleep"
    /\ busActive' = TRUE
    /\ UNCHANGED <<snapshotVars, suspendVars, preparePacketAtSofCount, pc,
                   ready, suspends, skips, clockVars, seen, waited>>

-----------------------------------------------------------------------------
Loop == ReadClocks \/ Decide \/ GoToSleep

Next == Loop \/ Millisecond \/ WakeByTraffic
            \/ HostTakesPacket \/ HostSuspends \/ HostResumes

Spec == Init /\ [][Next]_vars

\* The loop runs, time passes, and the Switch polls endpoint 1.
FairSpec ==
    /\ Spec
    /\ WF_vars(Loop)
    /\ WF_vars(Millisecond)
    /\ WF_vars(HostTakesPacket)

-----------------------------------------------------------------------------
(* Properties.                                                             *)

\* Once endpoint 1 is free a packet is prepared before a fourth frame begins,
\* or two frames later for each frame that the loop was held up.
PacketWithinFrames == waited <= 3 + 2 * skips

\* The bus is taken to be suspended only when no frame has begun for three
\* full milliseconds (main.cpp:1092), as far as loop could know when it read
\* the clocks; never while frames keep coming, unless loop is held up for as
\* many of them as the counter counts.
SuspendedWhenSilent ==
    [][~sUsbSuspended /\ sUsbSuspended' => silent >= 3]_vars

\* A bus that falls silent is noticed, and one that wakes up again too
\* (main.cpp:1077-1096).
BusStateNoticed ==
    /\ ~busActive ~> pc = "asleep"
    /\ busActive ~> (~sUsbSuspended \/ ~busActive)

=============================================================================
