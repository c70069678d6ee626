-------------------------- MODULE LoopTimingProofs --------------------------
(***************************************************************************)
(* The loop's comparisons of wrapping counters: a packet is prepared in    *)
(* time however long the loop is held up, and a bus with frames on it is   *)
(* never taken to be suspended, for counters of any width.                 *)
(***************************************************************************)
EXTENDS LoopTiming, TLAPS

\* The counter that loop read last, and the frames counted since, as far as
\* the counter tells.
LastRead == IF pc = "decide" THEN sofCountNow ELSE lastSofCount
Unread == SofBefore(usbSofCount, LastRead)

ClockInv ==
    /\ usbSofCount \in 0..(SofModulus - 1) /\ sofCountNow \in 0..(SofModulus - 1)
    /\ lastSofCount \in 0..(SofModulus - 1)
    /\ preparePacketAtSofCount \in 0..(SofModulus - 1)
    /\ millis \in 0..(MillisModulus - 1) /\ millisNow \in 0..(MillisModulus - 1)
    /\ lastSofTime \in 0..(MillisModulus - 1)
    /\ lag \in 0..MaxLag
    /\ silence \in 0..MaxSilence /\ silent \in 0..MaxSilence
    /\ skips \in 0..MaxSkips /\ waited \in Nat
    /\ seen \in BOOLEAN /\ ready \in BOOLEAN /\ sUsbSuspended \in BOOLEAN
    /\ pc \in {"sample", "decide", "asleep"}
    /\ pc = "asleep" => sUsbSuspended
    /\ seen => Unread = 0

\* Frames that may have begun before the round that prepares the packet, not
\* counting those that held the loop up.
Allowed ==
    IF pc = "decide" THEN (IF Due(PrepareAt) THEN 2 ELSE 1)
    ELSE IF preparePacketAtSofCount = (lastSofCount + 1) % SofModulus THEN 1 ELSE 0

\* One frame that is unread is no hold-up; each one after it is.
WaitInv ==
    /\ ~ready \/ sUsbSuspended => waited = 0
    /\ waited <= Allowed + 2 * skips + (IF Unread = 1 THEN 1 ELSE 0)

\* The loop is not suspended, or this round finds that it no longer is.
Counting == IF pc = "decide" THEN ~sUsbSuspended \/ SofSeen ELSE ~sUsbSuspended
Start == IF pc = "decide" THEN TimeOutStart ELSE lastSofTime

\* While the bus has been silent for less than three milliseconds the
\* time-out has run for at most two more, those that the timer was behind.
SilenceInv ==
    /\ Counting => Unread <= IF seen THEN 0 ELSE 1 + skips
    /\ Counting /\ Unread = 0 /\ silence <= 2 =>
           MillisBefore(millis, Start) + lag <= silence + MaxLag
    /\ pc = "decide" /\ ~sUsbSuspended /\ ~SofSeen /\ silent <= 2 =>
           MillisBefore(millisNow, lastSofTime) <= silent + MaxLag

-----------------------------------------------------------------------------
\* What a difference of counters is, and that counting one up turns it by one.
LEMMA Wrapping ==
    ASSUME NEW m \in Nat \ {0}, NEW a \in 0..(m - 1), NEW b \in 0..(m - 1)
    PROVE  /\ (a + 1) % m = IF a = m - 1 THEN 0 ELSE a + 1
           /\ (a - b) % m = IF a >= b THEN a - b ELSE a - b + m
           /\ (a - a) % m = 0
<1>1. (a + 1) % m = IF a = m - 1 THEN 0 ELSE a + 1
  OBVIOUS
<1>2. CASE a >= b
  <2>1. a - b \in 0..(m - 1)
    BY <1>2
  <2>2. (a - b) % m = a - b
    BY <2>1
  <2>. QED
    BY <1>1, <1>2, <2>2
<1>3. CASE a < b
  <2>1. a - b + m \in 0..(m - 1)
    BY <1>3
  <2>2. (a - b) % m = a - b + m
    BY <2>1
  <2>. QED
    BY <1>1, <1>3, <2>2
<1>. QED
  BY <1>2, <1>3

\* Time that passes adds to a difference that does not wrap.
LEMMA Elapsing ==
    ASSUME NEW m \in Nat \ {0}, NEW a \in 0..(m - 1), NEW b \in 0..(m - 1),
           NEW d \in Nat, ((a - b) % m) + d < m
    PROVE  /\ (a + d) % m \in 0..(m - 1)
           /\ (((a + d) % m) - b) % m = ((a - b) % m) + d
<1>1. CASE a + d < m
  <2>1. (a + d) % m = a + d
    BY <1>1
  <2>. QED
    BY <2>1, <1>1, Wrapping
<1>2. CASE a + d >= m
  <2>1. a + d - m \in 0..(m - 1)
    BY <1>2, Wrapping
  <2>2. (a + d) % m = a + d - m
    BY <2>1
  <2>. QED
    BY <2>1, <2>2, <1>2, Wrapping
<1>. QED
  BY <1>1, <1>2

\* The frame counter: zero frames apart, one frame apart, and the next frame.
LEMMA Frames ==
    ASSUME NEW a \in 0..(SofModulus - 1), NEW b \in 0..(SofModulus - 1)
    PROVE  /\ SofBefore(a, b) \in 0..(SofModulus - 1)
           /\ SofBefore(a, b) = 0 <=> a = b
           /\ SofBefore(a, b) = 1 <=> a = (b + 1) % SofModulus
           /\ (a + 1) % SofModulus \in 0..(SofModulus - 1)
           /\ SofBefore((a + 1) % SofModulus, b) =
                  IF SofBefore(a, b) = SofModulus - 1 THEN 0 ELSE SofBefore(a, b) + 1
<1>. DEFINE next == (a + 1) % SofModulus
<1>0. SofModulus \in Nat \ 0..3
  BY TimingAssumption DEF TimingAssumption
<1>1. SofBefore(a, b) = IF a >= b THEN a - b ELSE a - b + SofModulus
  BY <1>0, Wrapping DEF SofBefore
<1>2. next = IF a = SofModulus - 1 THEN 0 ELSE a + 1
  BY <1>0, Wrapping
<1>3. (b + 1) % SofModulus = IF b = SofModulus - 1 THEN 0 ELSE b + 1
  BY <1>0, Wrapping
<1>4. next \in 0..(SofModulus - 1)
  BY <1>0, <1>2
<1>5. SofBefore(next, b) = IF next >= b THEN next - b ELSE next - b + SofModulus
  BY <1>0, <1>4, Wrapping DEF SofBefore
<1>6. /\ SofBefore(a, b) \in 0..(SofModulus - 1)
      /\ SofBefore(a, b) = 0 <=> a = b
  BY <1>0, <1>1
<1>7. SofBefore(a, b) = 1 <=> a = (b + 1) % SofModulus
  BY <1>0, <1>1, <1>3
<1>8. SofBefore(next, b) = IF SofBefore(a, b) = SofModulus - 1 THEN 0 ELSE SofBefore(a, b) + 1
  BY <1>0, <1>1, <1>2, <1>5
<1>. QED
  BY <1>4, <1>6, <1>7, <1>8

\* The timer: no time at all, and the time that does not wrap.
LEMMA Millis ==
    ASSUME NEW a \in 0..(MillisModulus - 1), NEW b \in 0..(MillisModulus - 1)
    PROVE  /\ MillisBefore(a, b) \in 0..(MillisModulus - 1)
           /\ MillisBefore(a, a) = 0
           /\ \A d \in Nat : MillisBefore(a, b) + d < MillisModulus =>
                  /\ (a + d) % MillisModulus \in 0..(MillisModulus - 1)
                  /\ MillisBefore((a + d) % MillisModulus, b) = MillisBefore(a, b) + d
<1>1. MillisModulus \in Nat \ {0}
  BY TimingAssumption DEF TimingAssumption
<1>2. /\ MillisBefore(a, b) \in 0..(MillisModulus - 1)
      /\ MillisBefore(a, a) = 0
  BY <1>1, Wrapping DEF MillisBefore
<1>3. ASSUME NEW d \in Nat, MillisBefore(a, b) + d < MillisModulus
      PROVE  /\ (a + d) % MillisModulus \in 0..(MillisModulus - 1)
             /\ MillisBefore((a + d) % MillisModulus, b) = MillisBefore(a, b) + d
  <2>1. ((a - b) % MillisModulus) + d < MillisModulus
    BY <1>3 DEF MillisBefore
  <2>. QED
    BY <1>1, <2>1, Elapsing DEF MillisBefore
<1>. QED
  BY <1>2, <1>3

\* Every combination of counters and flags the loop can be in at first.
LEMMA ClockInvInit == Init => ClockInv
<1>. SUFFICES ASSUME Init PROVE ClockInv
  OBVIOUS
<1>1. /\ SofModulus \in Nat /\ SofModulus > 3
      /\ MillisModulus \in Nat /\ MillisModulus > 7
      /\ MaxSkips \in Nat
  BY TimingAssumption DEF TimingAssumption
<1>2. /\ 0 \in 0..(SofModulus - 1) /\ SofModulus - 1 \in 0..(SofModulus - 1)
      /\ 0 \in 0..(MillisModulus - 1) /\ MillisModulus - 1 \in 0..(MillisModulus - 1)
      /\ 0 \in 0..MaxSkips
  BY <1>1
<1>3. /\ usbSofCount = 0 /\ sofCountNow = 0 /\ lastSofCount = SofModulus - 1
      /\ preparePacketAtSofCount = 0
      /\ millis = 0 /\ millisNow = 0 /\ lastSofTime = MillisModulus - 1
      /\ lag \in 0..MaxLag /\ silence \in 0..MaxSilence /\ silent \in 0..MaxSilence
      /\ skips = 0 /\ waited \in Nat
  BY DEF Init, MaxLag, MaxSilence, SuspendMillis
<1>4. /\ seen = FALSE /\ ready = TRUE /\ sUsbSuspended = TRUE /\ pc = "sample"
  BY DEF Init
<1>. QED
  BY <1>2, <1>3, <1>4 DEF ClockInv

\* The ranges of what the loop computes from its counters.
LEMMA Ranges ==
    ASSUME ClockInv
    PROVE  /\ SofModulus \in Nat /\ SofModulus > 3
           /\ MillisModulus \in Nat /\ MillisModulus > 7
           /\ MaxSkips \in Nat
           /\ PrepareAt \in 0..(SofModulus - 1)
           /\ TimeOutStart \in 0..(MillisModulus - 1)
           /\ LastRead \in 0..(SofModulus - 1)
           /\ Start \in 0..(MillisModulus - 1)
           /\ Unread \in 0..(SofModulus - 1)
           /\ Unread = 0 <=> usbSofCount = LastRead
<1>1. /\ SofModulus \in Nat /\ SofModulus > 3
      /\ MillisModulus \in Nat /\ MillisModulus > 7
      /\ MaxSkips \in Nat
  BY TimingAssumption DEF TimingAssumption
<1>2. PrepareAt \in 0..(SofModulus - 1)
  BY Frames DEF ClockInv, PrepareAt
<1>3. TimeOutStart \in 0..(MillisModulus - 1)
  BY DEF ClockInv, TimeOutStart
<1>4. LastRead \in 0..(SofModulus - 1) /\ Start \in 0..(MillisModulus - 1)
  BY <1>3 DEF ClockInv, LastRead, Start
<1>5. Unread \in 0..(SofModulus - 1) /\ (Unread = 0 <=> usbSofCount = LastRead)
  BY <1>4, Frames DEF ClockInv, Unread
<1>. QED
  BY <1>1, <1>2, <1>3, <1>4, <1>5

\* A round of the loop reads its counters and keeps what it read.
LEMMA RoundKeepsLastRead ==
    ASSUME Decide \/ GoToSleep \/ WakeByTraffic \/ HostTakesPacket \/ HostSuspends
               \/ HostResumes
    PROVE  /\ LastRead' = LastRead /\ Unread' = Unread
           /\ UNCHANGED <<clockVars, snapshotVars, seen, skips>>
<1>1. CASE Decide \/ GoToSleep
  BY <1>1 DEF Decide, GoToSleep, Bookkeeping, LastRead, Unread, SofBefore, clockVars, busVars
<1>2. CASE WakeByTraffic \/ HostTakesPacket \/ HostSuspends \/ HostResumes
  BY <1>2 DEF WakeByTraffic, HostTakesPacket, HostSuspends, HostResumes, LastRead, Unread,
              SofBefore, clockVars, suspendVars, snapshotVars, busVars
<1>. QED
  BY <1>1, <1>2

\* A frame is one more that is unread.
LEMMA FrameBegins ==
    ASSUME ClockInv, Millisecond
    PROVE  /\ LastRead' = LastRead /\ seen' = FALSE
           /\ busActive => Unread' = IF Unread = SofModulus - 1 THEN 0 ELSE Unread + 1
           /\ ~busActive => Unread' = Unread
           /\ pc = "asleep" \/ seen => skips' = skips
           /\ ~(pc = "asleep" \/ seen) => skips' = skips + 1 /\ skips < MaxSkips
           /\ pc' = pc \/ (pc = "asleep" /\ pc' = "sample")
<1>1. /\ seen' = FALSE /\ UNCHANGED <<sofCountNow, lastSofCount>>
      /\ pc' = pc \/ (pc = "asleep" /\ pc' = "sample")
  BY DEF Millisecond, snapshotVars, suspendVars
<1>2. LastRead' = LastRead
  BY <1>1 DEF LastRead
<1>3. /\ pc = "asleep" \/ seen => skips' = skips
      /\ ~(pc = "asleep" \/ seen) => skips' = skips + 1 /\ skips < MaxSkips
  BY DEF Millisecond
<1>4. CASE busActive
  <2>1. usbSofCount' = (usbSofCount + 1) % SofModulus
    BY <1>4 DEF Millisecond
  <2>2. Unread' = IF Unread = SofModulus - 1 THEN 0 ELSE Unread + 1
    <3>1. Unread' = SofBefore((usbSofCount + 1) % SofModulus, LastRead)
      BY <1>2, <2>1 DEF Unread
    <3>2. usbSofCount \in 0..(SofModulus - 1) /\ LastRead \in 0..(SofModulus - 1)
      BY Ranges DEF ClockInv
    <3>. QED
      BY <3>1, <3>2, Frames DEF Unread
  <2>. QED
    BY <1>1, <1>2, <1>3, <1>4, <2>2
<1>5. CASE ~busActive
  BY <1>1, <1>2, <1>3, <1>5 DEF Millisecond, Unread, SofBefore
<1>. QED
  BY <1>4, <1>5

\* Each step of the loop, of time and of the Switch keeps the counters in range.
LEMMA ClockInvNext == ClockInv /\ [Next]_vars => ClockInv'
<1>. SUFFICES ASSUME ClockInv, [Next]_vars PROVE ClockInv'
  OBVIOUS
<1>1. CASE ReadClocks
  <2>1. Unread' = 0
    <3>1. usbSofCount' = usbSofCount /\ LastRead' = usbSofCount
      BY <1>1 DEF ReadClocks, LastRead, clockVars
    <3>. QED
      BY <3>1, Frames DEF Unread, ClockInv
  <2>. QED
    BY <1>1, <2>1 DEF ReadClocks, ClockInv, suspendVars, busVars, clockVars
<1>2. CASE Decide
  <2>1. /\ preparePacketAtSofCount' \in 0..(SofModulus - 1)
        /\ lastSofTime' \in 0..(MillisModulus - 1)
        /\ lastSofCount' \in 0..(SofModulus - 1)
    BY <1>2, Ranges DEF Decide, Bookkeeping, Idle, WaitForFrame, TransmitPacket, ClockInv
  <2>2. /\ ready' \in BOOLEAN /\ waited' \in Nat /\ pc' = "sample"
    <3>1. CASE Idle \/ WaitForFrame
      BY <1>2, <3>1 DEF Decide, Idle, WaitForFrame, ClockInv
    <3>2. CASE TransmitPacket
      BY <1>2, <3>2 DEF Decide, TransmitPacket
    <3>. QED
      BY <1>2, <3>1, <3>2 DEF Decide
  <2>3. sUsbSuspended' = FALSE
    BY <1>2, Zenon DEF Decide, Bookkeeping, SuspendedNow
  <2>4. UNCHANGED <<clockVars, snapshotVars, seen, skips>> /\ Unread' = Unread
    BY <1>2, RoundKeepsLastRead
  <2>. QED
    BY <2>1, <2>2, <2>3, <2>4 DEF ClockInv, clockVars, snapshotVars
<1>3. CASE GoToSleep
  <2>1. /\ lastSofTime' \in 0..(MillisModulus - 1)
        /\ lastSofCount' \in 0..(SofModulus - 1)
        /\ UNCHANGED <<preparePacketAtSofCount, ready>>
        /\ waited' = 0 /\ pc' = "asleep"
    BY <1>3, Ranges DEF GoToSleep, Bookkeeping, ClockInv
  <2>2. sUsbSuspended' = TRUE
    BY <1>3, Zenon DEF GoToSleep, Bookkeeping, SuspendedNow
  <2>3. UNCHANGED <<clockVars, snapshotVars, seen, skips>> /\ Unread' = Unread
    BY <1>3, RoundKeepsLastRead
  <2>. QED
    BY <2>1, <2>2, <2>3 DEF ClockInv, clockVars, snapshotVars
<1>4. CASE Millisecond
  <2>1. usbSofCount' \in 0..(SofModulus - 1)
    <3>1. usbSofCount \in 0..(SofModulus - 1)
      BY DEF ClockInv
    <3>2. usbSofCount' = usbSofCount \/ usbSofCount' = (usbSofCount + 1) % SofModulus
      BY <1>4 DEF Millisecond
    <3>. QED
      BY <3>1, <3>2, Frames
  <2>2. lag' \in 0..MaxLag /\ millis' \in 0..(MillisModulus - 1)
    BY <1>4, Ranges DEF Millisecond, ClockInv, MaxLag
  <2>3. silence' \in 0..MaxSilence /\ waited' \in Nat
    BY <1>4 DEF Millisecond, ClockInv, MaxSilence, SuspendMillis
  <2>4. skips' \in 0..MaxSkips /\ seen' = FALSE /\ pc' \in {"sample", "decide", "asleep"}
        /\ (pc' = "asleep" => pc = "asleep")
    <3>1. skips \in 0..MaxSkips /\ MaxSkips \in Nat /\ pc \in {"sample", "decide", "asleep"}
      BY Ranges DEF ClockInv
    <3>2. skips' = skips \/ (skips' = skips + 1 /\ skips < MaxSkips)
      BY <1>4, FrameBegins
    <3>. QED
      BY <1>4, <3>1, <3>2, FrameBegins
  <2>. QED
    BY <1>4, <2>1, <2>2, <2>3, <2>4 DEF Millisecond, ClockInv, snapshotVars, suspendVars
<1>5. CASE WakeByTraffic \/ HostTakesPacket \/ HostSuspends \/ HostResumes
  <2>1. /\ UNCHANGED <<clockVars, snapshotVars, seen, skips>> /\ Unread' = Unread
    BY <1>5, RoundKeepsLastRead
  <2>2. /\ UNCHANGED <<suspendVars, preparePacketAtSofCount, waited>>
        /\ ready' \in BOOLEAN /\ (pc' = pc \/ pc' = "sample")
    BY <1>5 DEF WakeByTraffic, HostTakesPacket, HostSuspends, HostResumes, ClockInv
  <2>. QED
    BY <2>1, <2>2 DEF ClockInv, clockVars, snapshotVars, suspendVars
<1>6. CASE UNCHANGED vars
  BY <1>6 DEF ClockInv, vars, snapshotVars, suspendVars, busVars, clockVars, Unread, LastRead,
              SofBefore
<1>. QED
  BY <1>1, <1>2, <1>3, <1>4, <1>5, <1>6 DEF Next, Loop

-----------------------------------------------------------------------------
\* Nothing has been waited for when the last packet has just been prepared.
LEMMA NothingWaited ==
    /\ ClockInv /\ waited = 0 => WaitInv
    /\ ClockInv' /\ waited' = 0 => WaitInv'
<1>1. ASSUME ClockInv, waited = 0 PROVE WaitInv
  <2>1. Allowed \in 0..2 /\ skips \in Nat
    BY <1>1, Ranges DEF Allowed, ClockInv
  <2>. QED
    BY <1>1, <2>1 DEF WaitInv
<1>2. ASSUME ClockInv', waited' = 0 PROVE WaitInv'
  <2>1. Allowed' \in 0..2 /\ skips' \in Nat
    BY <1>2, TimingAssumption DEF Allowed, ClockInv, TimingAssumption
  <2>2. PICK a \in 0..2, k \in Nat : Allowed' = a /\ skips' = k
    BY <2>1
  <2>3. 0 <= a + 2 * k + (IF Unread' = 1 THEN 1 ELSE 0)
    OBVIOUS
  <2>. QED
    BY <1>2, <2>2, <2>3 DEF WaitInv
<1>. QED
  BY <1>1, <1>2

\* A packet that is not due in this frame is scheduled for the next one.
LEMMA NextFrame ==
    ASSUME ClockInv, ~Due(PrepareAt)
    PROVE  PrepareAt = (sofCountNow + 1) % SofModulus
<1>. DEFINE since == SofBefore(preparePacketAtSofCount, sofCountNow)
<1>1. /\ since \in 0..(SofModulus - 1) /\ SofModulus \in Nat
      /\ since = 0 <=> preparePacketAtSofCount = sofCountNow
      /\ since = 1 <=> preparePacketAtSofCount = (sofCountNow + 1) % SofModulus
  BY Frames, Ranges DEF ClockInv
<1>2. CASE since <= 1
  BY <1>1, <1>2 DEF PrepareAt, Due
<1>3. CASE ~(since <= 1)
  BY <1>3 DEF PrepareAt
<1>. QED
  BY <1>2, <1>3

\* A round of the loop, a frame or the Switch: only a frame that is read late
\* uses up more than one of those allowed.
LEMMA WaitInvNext == ClockInv /\ WaitInv /\ [Next]_vars => WaitInv'
<1>. SUFFICES ASSUME ClockInv, WaitInv, [Next]_vars PROVE WaitInv'
  OBVIOUS
<1>0. ClockInv' /\ skips \in Nat /\ waited \in Nat
  BY ClockInvNext, Ranges DEF ClockInv
<1>1. CASE ReadClocks
  <2>1. /\ pc = "sample" /\ pc' = "decide" /\ sofCountNow' = usbSofCount
        /\ UNCHANGED <<preparePacketAtSofCount, usbSofCount, ready, sUsbSuspended, waited, skips>>
    BY <1>1 DEF ReadClocks, suspendVars, busVars, clockVars
  <2>2. Unread' = 0 \/ Unread' # 1
    <3>1. LastRead' = usbSofCount'
      BY <2>1 DEF LastRead
    <3>. QED
      BY <1>0, <3>1, Frames DEF Unread, ClockInv
  <2>3. Unread = 1 <=> usbSofCount = (lastSofCount + 1) % SofModulus
    BY <2>1, Frames DEF Unread, LastRead, ClockInv
  <2>4. preparePacketAtSofCount = usbSofCount => Due(PrepareAt)'
    <3>1. SUFFICES ASSUME preparePacketAtSofCount = usbSofCount PROVE Due(PrepareAt)'
      OBVIOUS
    <3>2. SofBefore(preparePacketAtSofCount, usbSofCount) = 0
      BY <3>1, Frames DEF ClockInv
    <3>. QED
      BY <2>1, <3>1, <3>2 DEF Due, PrepareAt
  <2>5. Allowed = IF preparePacketAtSofCount = (lastSofCount + 1) % SofModulus THEN 1 ELSE 0
    BY <2>1 DEF Allowed
  <2>6. Allowed' = IF Due(PrepareAt)' THEN 2 ELSE 1
    BY <2>1 DEF Allowed
  <2>7. waited <= Allowed' + 2 * skips
    <3>1. CASE Unread = 1 /\ preparePacketAtSofCount = (lastSofCount + 1) % SofModulus
      BY <1>0, <2>3, <2>4, <2>5, <2>6, <3>1 DEF WaitInv
    <3>2. CASE ~(Unread = 1 /\ preparePacketAtSofCount = (lastSofCount + 1) % SofModulus)
      <4>1. waited <= 1 + 2 * skips
        BY <1>0, <2>5, <3>2 DEF WaitInv
      <4>. QED
        BY <1>0, <2>6, <4>1
    <3>. QED
      BY <3>1, <3>2
  <2>8. Unread' # 1
    BY <2>2
  <2>. QED
    <3>1. ~ready' \/ sUsbSuspended' => waited' = 0
      BY <2>1 DEF WaitInv
    <3>2. waited' <= Allowed' + 2 * skips' + (IF Unread' = 1 THEN 1 ELSE 0)
      BY <1>0, <2>1, <2>6, <2>7, <2>8
    <3>. QED
      BY <3>1, <3>2 DEF WaitInv
<1>2. CASE Decide
  <2>1. CASE Idle
    BY <1>0, <2>1, NothingWaited DEF Idle, WaitInv
  <2>2. CASE TransmitPacket
    BY <1>0, <2>2, NothingWaited DEF TransmitPacket
  <2>3. CASE WaitForFrame
    <3>1. /\ pc = "decide" /\ pc' = "sample"
          /\ preparePacketAtSofCount' = (sofCountNow + 1) % SofModulus
          /\ lastSofCount' = sofCountNow
          /\ ready' /\ ~sUsbSuspended' /\ ~Due(PrepareAt) /\ waited' = waited
      BY <1>2, <2>3, NextFrame, Zenon DEF Decide, Bookkeeping, WaitForFrame
    <3>2. Allowed = 1 /\ Allowed' = 1
      BY <3>1 DEF Allowed
    <3>3. Unread' = Unread /\ skips' = skips
      BY <1>2, RoundKeepsLastRead
    <3>. QED
      BY <3>1, <3>2, <3>3 DEF WaitInv
  <2>. QED
    BY <1>2, <2>1, <2>2, <2>3 DEF Decide
<1>3. CASE GoToSleep
  BY <1>0, <1>3, NothingWaited DEF GoToSleep
<1>4. CASE Millisecond
  <2>1. CASE ~ready \/ sUsbSuspended
    <3>1. waited = 0 /\ waited' = 0
      BY <1>4, <2>1 DEF Millisecond, WaitInv
    <3>. QED
      BY <1>0, <3>1, NothingWaited
  <2>2. CASE ready /\ ~sUsbSuspended
    <3>1. pc # "asleep" /\ pc' = pc /\ UNCHANGED <<ready, sUsbSuspended>>
      BY <1>4, <2>2, FrameBegins DEF Millisecond, ClockInv, suspendVars
    <3>2. Allowed' = Allowed /\ Allowed \in 0..2
      BY <1>4, <3>1 DEF Millisecond, Allowed, Due, PrepareAt, snapshotVars, suspendVars
    <3>3. CASE ~busActive
      <4>1. Unread' = Unread /\ waited' = waited /\ (skips' = skips \/ skips' = skips + 1)
        BY <1>4, <3>3, FrameBegins DEF Millisecond
      <4>. QED
        BY <1>0, <2>2, <3>1, <3>2, <4>1 DEF WaitInv
    <3>4. CASE busActive
      <4>1. waited' = waited + 1
        BY <1>4, <2>2, <3>4 DEF Millisecond
      <4>2. Unread' = IF Unread = SofModulus - 1 THEN 0 ELSE Unread + 1
        BY <1>4, <3>4, FrameBegins
      <4>3. Unread \in 0..(SofModulus - 1) /\ SofModulus > 3 /\ SofModulus \in Nat
        BY Ranges
      <4>4. CASE Unread = 0
        <5>1. Unread' = 1 /\ (skips' = skips \/ skips' = skips + 1)
          BY <1>4, <4>2, <4>3, <4>4, FrameBegins
        <5>. QED
          BY <1>0, <2>2, <3>1, <3>2, <4>1, <4>4, <5>1 DEF WaitInv
      <4>5. CASE Unread # 0
        <5>1. skips' = skips + 1
          BY <1>4, <3>1, <4>5, FrameBegins DEF ClockInv
        <5>2. waited <= Allowed + 2 * skips + 1
          BY <1>0, <3>2 DEF WaitInv
        <5>3. waited' <= Allowed' + 2 * skips'
          BY <1>0, <3>2, <4>1, <5>1, <5>2
        <5>. QED
          <6>1. waited' <= Allowed' + 2 * skips' + (IF Unread' = 1 THEN 1 ELSE 0)
            BY <1>0, <3>2, <4>1, <5>1, <5>3
          <6>. QED
            BY <2>2, <3>1, <6>1 DEF WaitInv
      <4>. QED
        BY <4>4, <4>5
    <3>. QED
      BY <3>3, <3>4
  <2>. QED
    BY <2>1, <2>2
<1>5. CASE WakeByTraffic
  BY <1>0, <1>5, NothingWaited DEF WakeByTraffic, ClockInv, WaitInv
<1>6. CASE HostTakesPacket
  BY <1>0, <1>6, NothingWaited DEF HostTakesPacket, WaitInv
<1>7. CASE HostSuspends \/ HostResumes
  <2>1. Unread' = Unread /\ skips' = skips
    BY <1>7, RoundKeepsLastRead
  <2>2. UNCHANGED <<snapshotVars, suspendVars, preparePacketAtSofCount, pc, ready, waited>>
    BY <1>7 DEF HostSuspends, HostResumes
  <2>3. Allowed' = Allowed
    BY <2>2 DEF Allowed, Due, PrepareAt, snapshotVars, suspendVars
  <2>. QED
    BY <2>1, <2>2, <2>3 DEF WaitInv, suspendVars
<1>8. CASE UNCHANGED vars
  BY <1>8 DEF WaitInv, Allowed, Due, PrepareAt, Unread, LastRead, SofBefore, vars, snapshotVars,
              suspendVars, busVars, clockVars
<1>. QED
  BY <1>1, <1>2, <1>3, <1>4, <1>5, <1>6, <1>7, <1>8 DEF Next, Loop

\* The counters stay in range, and a packet's frames are accounted for.
LEMMA TimingInv == Spec => [](ClockInv /\ WaitInv)
<1>1. Init => ClockInv /\ WaitInv
  BY ClockInvInit, NothingWaited DEF Init
<1>. QED
  BY <1>1, ClockInvNext, WaitInvNext, PTL DEF Spec

\* However long the loop is held up, a packet is prepared before a fourth
\* frame begins, or two frames later for each that held the loop up: a frame
\* that was missed is scheduled anew at once (main.cpp:1105-1110), not when
\* the counter has come round.
THEOREM InTime == Spec => []PacketWithinFrames
<1>1. ClockInv /\ WaitInv => PacketWithinFrames
  <2>. SUFFICES ASSUME ClockInv, WaitInv PROVE PacketWithinFrames
    OBVIOUS
  <2>1. skips \in Nat /\ waited \in Nat /\ Allowed \in 0..2
    BY Ranges DEF ClockInv, Allowed
  <2>. QED
    BY <2>1 DEF WaitInv, PacketWithinFrames
<1>. QED
  BY <1>1, TimingInv, PTL

-----------------------------------------------------------------------------
\* The loop is suspended at first, and nothing is counted.
LEMMA SilenceInvInit == Init => SilenceInv
BY DEF Init, SilenceInv, Counting

\* A step that reads no clock and lets no time pass keeps the time-out's
\* claim; the loop goes to sleep or stays asleep, or its round goes on.
LEMMA SilenceKept ==
    ASSUME ClockInv, SilenceInv,
           Decide \/ GoToSleep \/ WakeByTraffic \/ HostTakesPacket \/ HostSuspends \/ HostResumes
    PROVE  SilenceInv'
<1>1. /\ Unread' = Unread
      /\ UNCHANGED <<usbSofCount, millis, lag, silence, seen, skips>>
  BY RoundKeepsLastRead DEF clockVars
<1>2. CASE GoToSleep \/ WakeByTraffic
  <2>1. pc' # "decide" /\ sUsbSuspended'
    <3>1. CASE GoToSleep
      BY <3>1, Zenon DEF GoToSleep, Bookkeeping
    <3>2. CASE WakeByTraffic
      BY <3>2 DEF WakeByTraffic, ClockInv, suspendVars
    <3>. QED
      BY <1>2, <3>1, <3>2
  <2>. QED
    BY <2>1 DEF SilenceInv, Counting
<1>3. CASE Decide
  <2>1. Counting /\ pc' # "decide"
    BY <1>3, Zenon DEF Decide, SuspendedNow, Counting
  <2>2. Start' = Start
    BY <1>3 DEF Decide, Bookkeeping, Start
  <2>. QED
    BY <1>1, <2>1, <2>2 DEF SilenceInv, MillisBefore
<1>4. CASE HostTakesPacket \/ HostSuspends \/ HostResumes
  BY <1>1, <1>4 DEF HostTakesPacket, HostSuspends, HostResumes, suspendVars, snapshotVars,
                    SilenceInv, Counting, Start, TimeOutStart, SofSeen, MillisBefore
<1>. QED
  BY <1>2, <1>3, <1>4

\* Reading the clocks finds a new frame, and restarts the time-out, or none.
LEMMA SilenceRead ==
    ASSUME ClockInv, SilenceInv, ReadClocks
    PROVE  SilenceInv'
<1>1. /\ pc = "sample" /\ pc' = "decide"
      /\ sofCountNow' = usbSofCount /\ millisNow' = millis /\ silent' = silence
      /\ UNCHANGED <<usbSofCount, millis, lag, silence, skips,
                     lastSofCount, lastSofTime, sUsbSuspended>>
  BY DEF ReadClocks, suspendVars, busVars, clockVars
<1>2. /\ lag \in 0..2 /\ silence \in 0..4 /\ skips \in Nat
      /\ MillisBefore(millis, millis) = 0
      /\ MillisBefore(millis, lastSofTime) \in Nat
  BY Millis, Ranges DEF ClockInv, MaxLag, MaxSilence, SuspendMillis
<1>3. Unread' = 0
  BY <1>1, Frames DEF Unread, LastRead, ClockInv
<1>4. SofSeen' <=> Unread # 0
  BY <1>1, Ranges DEF SofSeen, LastRead
<1>5. CASE SofSeen'
  <2>1. Start' = millis
    BY <1>1, <1>5 DEF Start, TimeOutStart
  <2>. QED
    BY <1>1, <1>2, <1>3, <1>5, <2>1 DEF SilenceInv, MaxLag, MillisBefore
<1>6. CASE ~SofSeen'
  <2>1. Start' = lastSofTime /\ Start = lastSofTime /\ Unread = 0
    BY <1>1, <1>4, <1>6 DEF Start, TimeOutStart
  <2>2. Counting' => Counting
    BY <1>1, <1>6 DEF Counting
  <2>3. Counting /\ silence <= 2 => MillisBefore(millis, lastSofTime) + lag <= silence + 2
    BY <2>1 DEF SilenceInv, MaxLag
  <2>4. ~sUsbSuspended' => Counting
    BY <1>1 DEF Counting
  <2>. QED
    BY <1>1, <1>2, <1>3, <2>1, <2>2, <2>3, <2>4 DEF SilenceInv, MaxLag, MillisBefore
<1>. QED
  BY <1>5, <1>6

\* A frame is seen as long as fewer than SofModulus can be unread; without
\* one the timer gains at most what it was behind.
LEMMA SilencePasses ==
    ASSUME ClockInv, ClockInv', SilenceInv, Millisecond, MaxSkips + 1 < SofModulus
    PROVE  SilenceInv'
<1>1. UNCHANGED <<sofCountNow, millisNow, silent, lastSofCount, lastSofTime, sUsbSuspended>>
  BY DEF Millisecond, snapshotVars, suspendVars
<1>2. CASE pc = "asleep"
  <2>1. pc' # "decide" /\ sUsbSuspended'
    BY <1>1, <1>2, FrameBegins DEF ClockInv
  <2>. QED
    BY <2>1 DEF SilenceInv, Counting
<1>3. CASE pc # "asleep"
  <2>1. pc' = pc
    BY <1>3, FrameBegins
  <2>2. Start' = Start /\ (Counting' <=> Counting) /\ (SofSeen' <=> SofSeen)
    BY <1>1, <2>1 DEF Start, TimeOutStart, Counting, SofSeen
  <2>3. /\ skips \in 0..MaxSkips /\ skips' \in 0..MaxSkips /\ MaxSkips \in Nat
        /\ SofModulus \in Nat /\ SofModulus > 3
        /\ Unread \in 0..(SofModulus - 1) /\ silence \in 0..4
    BY Ranges DEF ClockInv, MaxSilence, SuspendMillis
  <2>4. /\ seen' = FALSE
        /\ seen => skips' = skips /\ Unread = 0
        /\ ~seen => skips' = skips + 1
    BY <1>3, FrameBegins DEF ClockInv
  <2>5. Counting => Unread <= skips'
    <3>1. CASE seen
      BY <2>3, <2>4, <3>1
    <3>2. CASE ~seen
      BY <2>3, <2>4, <3>2 DEF SilenceInv
    <3>. QED
      BY <3>1, <3>2
  <2>6. CASE busActive
    <3>1. Unread' = IF Unread = SofModulus - 1 THEN 0 ELSE Unread + 1
      BY <2>6, FrameBegins
    <3>2. Counting => Unread' = Unread + 1
      BY <2>3, <2>5, <3>1
    <3>. QED
      BY <1>1, <2>1, <2>2, <2>3, <2>4, <2>5, <3>2 DEF SilenceInv, MillisBefore
  <2>7. CASE ~busActive
    <3>1. /\ Unread' = Unread
          /\ silence' = IF silence < 4 THEN silence + 1 ELSE silence
      BY <2>7, FrameBegins DEF Millisecond, MaxSilence, SuspendMillis
    <3>2. ASSUME Counting, Unread = 0, silence' <= 2
          PROVE  MillisBefore(millis', Start) + lag' <= silence' + 2
      <4>1. silence' = silence + 1 /\ silence <= 1
        BY <2>3, <3>1, <3>2
      <4>2. MillisBefore(millis, Start) + lag <= silence + 2
        BY <3>2, <2>3, <4>1 DEF SilenceInv, MaxLag
      <4>3. /\ millis' = (millis + 1 + lag - lag') % MillisModulus
            /\ lag' \in {lag - 1, lag, lag + 1} /\ lag \in 0..2 /\ millis \in Int
        BY <1>3 DEF Millisecond, ClockInv, MaxLag
      <4>4. PICK d \in 0..2 : lag' = 1 + lag - d
        BY <4>3
      <4>5. millis' = (millis + d) % MillisModulus
        <5>1. millis + 1 + lag - lag' = millis + d
          BY <4>3, <4>4
        <5>. QED
          BY <4>3, <5>1
      <4>6. /\ MillisBefore(millis, Start) \in Nat
            /\ MillisBefore(millis, Start) + d < MillisModulus =>
                   MillisBefore((millis + d) % MillisModulus, Start) = MillisBefore(millis, Start) + d
        BY Ranges, Millis DEF ClockInv
      <4>7. MillisBefore(millis, Start) + d < MillisModulus
        BY <4>1, <4>2, <4>3, <4>6, <2>3, Ranges
      <4>8. MillisBefore(millis', Start) = MillisBefore(millis, Start) + d
        BY <4>5, <4>6, <4>7
      <4>. QED
        BY <4>1, <4>2, <4>3, <4>4, <4>6, <4>8, <2>3
    <3>3. Counting => Unread' <= 1 + skips'
      <4>1. PICK k \in Nat : skips' = k
        BY <2>3
      <4>. QED
        BY <2>3, <2>5, <3>1, <4>1
    <3>. QED
      BY <1>1, <2>1, <2>2, <2>4, <3>1, <3>2, <3>3 DEF SilenceInv, MaxLag, MillisBefore
  <2>. QED
    BY <2>6, <2>7
<1>. QED
  BY <1>2, <1>3

\* If the loop is never held up for as many frames as the counter counts,
\* the time-out's claim is kept by every step.
LEMMA SilenceInvNext ==
    ASSUME MaxSkips + 1 < SofModulus
    PROVE  ClockInv /\ SilenceInv /\ [Next]_vars => SilenceInv'
<1>. SUFFICES ASSUME ClockInv, SilenceInv, [Next]_vars PROVE SilenceInv'
  OBVIOUS
<1>1. CASE ReadClocks
  BY <1>1, SilenceRead
<1>2. CASE Decide \/ GoToSleep \/ WakeByTraffic \/ HostTakesPacket \/ HostSuspends \/ HostResumes
  BY <1>2, SilenceKept
<1>3. CASE Millisecond
  BY <1>3, ClockInvNext, SilencePasses
<1>4. CASE UNCHANGED vars
  BY <1>4 DEF vars, suspendVars, snapshotVars, clockVars, busVars, SilenceInv, Counting, Start,
              TimeOutStart, SofSeen, Unread, LastRead, SofBefore, MillisBefore
<1>. QED
  BY <1>1, <1>2, <1>3, <1>4 DEF Next, Loop

\* A time-out that has run for more than four milliseconds has seen three of
\* silence.
LEMMA TimedOutIsSilent ==
    ClockInv /\ SilenceInv /\ [Next]_vars =>
        (~sUsbSuspended /\ sUsbSuspended' => silent >= 3)
<1>. SUFFICES ASSUME ClockInv, SilenceInv, [Next]_vars, ~sUsbSuspended, sUsbSuspended'
              PROVE  silent >= 3
  OBVIOUS
<1>1. GoToSleep
  <2>1. ~Decide
    BY Zenon DEF Decide, Bookkeeping
  <2>2. ~UNCHANGED sUsbSuspended
    OBVIOUS
  <2>. QED
    BY <2>1, <2>2 DEF Next, Loop, ReadClocks, Millisecond, WakeByTraffic, HostTakesPacket,
                      HostSuspends, HostResumes, vars, suspendVars
<1>2. pc = "decide" /\ MillisBefore(millisNow, TimeOutStart) > 4
  BY <1>1 DEF GoToSleep, SuspendedNow, TimedOut, SuspendMillis
<1>3. ~SofSeen /\ MillisBefore(millisNow, lastSofTime) > 4
  <2>1. MillisBefore(millisNow, millisNow) = 0
    BY Millis DEF ClockInv
  <2>2. TimeOutStart # millisNow
    BY <1>2, <2>1
  <2>. QED
    BY <1>2, <2>2 DEF TimeOutStart
<1>4. silent \in 0..4
  BY DEF ClockInv, MaxSilence, SuspendMillis
<1>5. MillisBefore(millisNow, lastSofTime) \in Nat
  BY Millis DEF ClockInv
<1>. QED
  BY <1>2, <1>3, <1>4, <1>5 DEF SilenceInv, MaxLag

\* The bus is taken to be suspended only when the loop saw three milliseconds
\* without a frame (main.cpp:1092), if it is never held up for as many frames
\* as the counter counts: then a frame could not be told from none.
THEOREM OnlyWhenSilent == MaxSkips + 1 < SofModulus => (Spec => SuspendedWhenSilent)
<1>. SUFFICES ASSUME MaxSkips + 1 < SofModulus PROVE Spec => SuspendedWhenSilent
  OBVIOUS
<1>1. ClockInv /\ SilenceInv /\ [Next]_vars => SilenceInv'
  BY SilenceInvNext
<1>2. ClockInv /\ SilenceInv /\ [Next]_vars
          => [~sUsbSuspended /\ sUsbSuspended' => silent >= 3]_vars
  BY TimedOutIsSilent
<1>. QED
  BY <1>1, <1>2, ClockInvInit, ClockInvNext, SilenceInvInit, PTL DEF Spec, SuspendedWhenSilent

=============================================================================
