-------------------------- MODULE DualShockProofs --------------------------
(***************************************************************************)
(* The Dual Shock.  The link: what the Switch is shown, in which mode the  *)
(* controller gets which command, and when the home button is pressed, for *)
(* every number of failed exchanges and of button presses.  The bus: the   *)
(* bytes of an exchange and the pulses of the small motor, for every size  *)
(* of report, every limit of the wait, and every strength.                 *)
(***************************************************************************)
EXTENDS DualShockLink, DualShockBus, TLAPS

-----------------------------------------------------------------------------
(* The link.                                                               *)

\* The buffer of the last good report is the one shown, and the exchange
\* writes the other one.
ShownInv ==
    /\ previousDualShockReportIndex \in 0..1
    /\ dualShockReports = [i \in 0..1 |-> dualShockReports[i]]
    /\ dualShockReports[previousDualShockReportIndex].reading = lastGood
    /\ ShownIsLastGood

\* A sequence that has begun has put the controller in config mode, and by
\* its third command it has told it to leave that for analog mode; between
\* sequences the controller is not in config mode.
SequenceInv ==
    /\ commandQueueCursor \in 0..SequenceLength
    /\ commandQueueLength \in {0, SequenceLength}
    /\ mode \in {"digital", "analog", "config"}
    /\ CommandsInConfigMode
    /\ executingCommandQueue /\ commandQueueCursor > 1 => modeAfterConfig = "analog"
    /\ ~executingCommandQueue => mode # "config"

\* A controller that is polled in digital mode was put there by a press that
\* has not been seen yet, or by powering up.
SeenInv ==
    /\ seenCount \in Nat /\ presses \in Nat
    /\ seenCount <= presses + 1
    /\ ~executingCommandQueue /\ mode = "digital" => seenCount <= presses

\* The frame count is so many frames on from the press, modulo its range, and
\* has not come round since.
HomeInv ==
    /\ gap \in 0..MaxGap
    /\ usbSofCount \in 0..(SofModulus - 1)
    /\ analogButtonPressSofCount \in 0..(SofModulus - 1)
    /\ shown.home = analogButtonIsPressed
    /\ analogButtonIsPressed \in BOOLEAN
    /\ sinceSeen \in Nat
    /\ analogButtonIsPressed =>
           /\ sinceSeen < HomeSofs + gap
           /\ \/ usbSofCount = analogButtonPressSofCount + sinceSeen
              \/ usbSofCount = analogButtonPressSofCount + sinceSeen - SofModulus

-----------------------------------------------------------------------------
(* The report shown.                                                       *)

\* Both buffers are empty at first.
LEMMA ShownInvInit == Init => ShownInv
BY DEF Init, ShownInv, ShownIsLastGood, EMPTY_DUAL_SHOCK_REPORT

\* A good exchange shows what it wrote; another one leaves what is shown.
LEMMA ShownInvExchange ==
    ASSUME ShownInv, NEW ok \in BOOLEAN, PrepareInputSubReport(ok)
    PROVE  ShownInv'
<1>. DEFINE report == IF ok THEN Reply ELSE EMPTY_DUAL_SHOCK_REPORT
            reports == [dualShockReports EXCEPT ![OtherIndex] = report]
            used == IF IsGood(ok, report) THEN OtherIndex ELSE previousDualShockReportIndex
<1>1. /\ dualShockReports' = reports
      /\ shown'.reading = reports[used].reading
      /\ previousDualShockReportIndex' = used
      /\ lastGood' = IF ok /\ mode = "analog" THEN reading ELSE lastGood
  BY DEF PrepareInputSubReport
<1>2. /\ OtherIndex \in 0..1 /\ OtherIndex # previousDualShockReportIndex
      /\ previousDualShockReportIndex \in 0..1
  BY DEF OtherIndex, ShownInv
<1>3. /\ IsGood(ok, report) <=> (ok /\ mode = "analog")
      /\ ok => report.reading = reading
  BY DEF IsGood, Reply
<1>4. /\ reports = [i \in 0..1 |-> reports[i]]
      /\ reports[OtherIndex] = report
      /\ reports[previousDualShockReportIndex] =
             dualShockReports[previousDualShockReportIndex]
  BY <1>2 DEF ShownInv
<1>. HIDE DEF report, reports
<1>5. reports[used].reading = lastGood'
  BY <1>1, <1>3, <1>4 DEF ShownInv
<1>. QED
  BY <1>1, <1>2, <1>4, <1>5 DEF ShownInv, ShownIsLastGood

\* Time and the player do not touch the buffers.
LEMMA ShownInvNext == ShownInv /\ [Next]_vars => ShownInv'
<1>1. CASE ExchangeSucceeds \/ ExchangeFails
  BY <1>1, ShownInvExchange DEF ExchangeSucceeds, ExchangeFails
<1>2. CASE StartOfFrame \/ PressAnalogButton \/ UNCHANGED vars
  BY <1>2 DEF StartOfFrame, PressAnalogButton, vars, ShownInv, ShownIsLastGood
<1>. QED
  BY <1>1, <1>2 DEF Next

-----------------------------------------------------------------------------
(* The command sequence and the presses seen.                              *)

\* The controller starts in digital mode, with no sequence begun.
LEMMA SequenceInvInit == Init => SequenceInv /\ SeenInv
BY DEF Init, SequenceInv, SeenInv, CommandsInConfigMode, executingCommandQueue,
       SequenceLength

\* What an exchange does to the queue and the count of presses seen.
LEMMA ExchangeEffect ==
    ASSUME SequenceInv, NEW ok \in BOOLEAN, PrepareInputSubReport(ok)
    PROVE  /\ executingCommandQueue =>
                  /\ commandQueueCursor' = IF ok /\ mode = "config"
                                           THEN commandQueueCursor + 1 ELSE 0
                  /\ UNCHANGED commandQueueLength
           /\ ~executingCommandQueue =>
                  IF ok /\ mode # "analog"
                  THEN commandQueueCursor' = 0 /\ commandQueueLength' = SequenceLength
                  ELSE UNCHANGED queueVars
           /\ seenCount' = IF ~executingCommandQueue /\ ok /\ mode = "digital"
                                /\ seenCount < MaxSeen
                           THEN seenCount + 1 ELSE seenCount
           /\ UNCHANGED presses
BY DEF PrepareInputSubReport, AdvanceQueue, AfterPoll, StartQueue, ButtonSeen, Reply

\* What the controller makes of the next command, if it obeys it.
LEMMA ObeyEffect ==
    ASSUME SequenceInv, Obey(Command)
    PROVE  /\ ~executingCommandQueue => mode' = mode
           /\ executingCommandQueue /\ commandQueueCursor = 0 => mode' = "config"
           /\ executingCommandQueue /\ commandQueueCursor = 1 =>
                  mode' = "config" /\ modeAfterConfig' = "analog"
           /\ executingCommandQueue /\ commandQueueCursor = 2 =>
                  mode' = "config" /\ modeAfterConfig' = "analog"
           /\ executingCommandQueue /\ commandQueueCursor = 3 => mode' = "analog"
<1>1. CASE ~executingCommandQueue
  BY <1>1 DEF Obey, Command
<1>2. CASE executingCommandQueue
  <2>1. commandQueueCursor \in 0..3
    BY <1>2 DEF SequenceInv, executingCommandQueue, SequenceLength
  <2>2. Command = CASE commandQueueCursor = 0 -> "enterConfig"
                    [] commandQueueCursor = 1 -> "switchToAnalog"
                    [] commandQueueCursor = 2 -> "setUpMotors"
                    [] commandQueueCursor = 3 -> "exitConfig"
    BY <1>2, <2>1 DEF Command, enterAnalogCommandSequence
  <2>. QED
    BY <1>2, <2>1, <2>2 DEF Obey, SequenceInv, CommandsInConfigMode
<1>. QED
  BY <1>1, <1>2

\* An exchange moves the sequence on only as far as the controller has
\* followed it, and counts a press once.
LEMMA SequenceInvNext == SequenceInv /\ SeenInv /\ [Next]_vars => SequenceInv' /\ SeenInv'
<1>. SUFFICES ASSUME SequenceInv, SeenInv, [Next]_vars PROVE SequenceInv' /\ SeenInv'
  OBVIOUS
<1>1. CASE ExchangeSucceeds
  <2>1. PrepareInputSubReport(TRUE) /\ Obey(Command)
    BY <1>1 DEF ExchangeSucceeds
  <2>2. CASE executingCommandQueue
    <3>1. /\ commandQueueCursor \in 0..3 /\ commandQueueLength = 4
          /\ commandQueueCursor' = IF mode = "config" THEN commandQueueCursor + 1 ELSE 0
          /\ commandQueueLength' = 4
          /\ UNCHANGED <<seenCount, presses>>
      <4>1. commandQueueCursor \in 0..3 /\ commandQueueLength = 4
        BY <2>2 DEF SequenceInv, executingCommandQueue, SequenceLength
      <4>2. /\ commandQueueCursor' = IF mode = "config" THEN commandQueueCursor + 1 ELSE 0
            /\ commandQueueLength' = commandQueueLength
        BY <2>1, <2>2, ExchangeEffect
      <4>3. UNCHANGED <<seenCount, presses>>
        BY <2>1, <2>2, ExchangeEffect
      <4>. QED
        BY <4>1, <4>2, <4>3
    <3>2. CASE commandQueueCursor = 3
      <4>1. commandQueueCursor' = 4 /\ mode' = "analog"
        BY <2>1, <2>2, <3>1, <3>2, ObeyEffect DEF SequenceInv, CommandsInConfigMode
      <4>. QED
        BY <3>1, <4>1 DEF SequenceInv, SeenInv, CommandsInConfigMode,
                          executingCommandQueue, SequenceLength
    <3>3. CASE commandQueueCursor # 3
      <4>1. /\ commandQueueCursor' \in 0..3 /\ mode' = "config"
            /\ commandQueueCursor' > 1 => modeAfterConfig' = "analog"
        BY <2>1, <2>2, <3>1, <3>3, ObeyEffect
      <4>. QED
        BY <3>1, <4>1 DEF SequenceInv, SeenInv, CommandsInConfigMode,
                          executingCommandQueue, SequenceLength
    <3>. QED
      BY <3>2, <3>3
  <2>3. CASE ~executingCommandQueue
    <3>1. mode' = mode /\ mode \in {"digital", "analog"}
      BY <2>1, <2>3, ObeyEffect DEF SequenceInv
    <3>2. CASE mode = "digital"
      <4>1. /\ commandQueueCursor' = 0 /\ commandQueueLength' = 4
            /\ seenCount' \in {seenCount, seenCount + 1} /\ presses' = presses
            /\ seenCount <= presses
        BY <2>1, <2>3, <3>2, ExchangeEffect DEF SequenceLength, SeenInv
      <4>. QED
        BY <3>1, <3>2, <4>1 DEF SequenceInv, SeenInv, CommandsInConfigMode,
                                executingCommandQueue, SequenceLength
    <3>3. CASE mode = "analog"
      <4>1. UNCHANGED <<queueVars, seenCount, presses>>
        BY <2>1, <2>3, <3>3, ExchangeEffect
      <4>. QED
        BY <2>3, <3>1, <3>3, <4>1 DEF SequenceInv, SeenInv, CommandsInConfigMode,
                                      executingCommandQueue, queueVars
    <3>. QED
      BY <3>1, <3>2, <3>3
  <2>. QED
    BY <2>2, <2>3
<1>2. CASE ExchangeFails
  <2>1. PrepareInputSubReport(FALSE) /\ (Obey(Command) \/ Ignore)
    BY <1>2 DEF ExchangeFails
  <2>2. UNCHANGED <<seenCount, presses>>
    BY <2>1, ExchangeEffect
  <2>3. CASE executingCommandQueue
    <3>1. commandQueueCursor' = 0 /\ commandQueueLength' = 4 /\ commandQueueLength = 4
      <4>1. commandQueueLength = 4
        BY <2>3 DEF SequenceInv, executingCommandQueue, SequenceLength
      <4>2. commandQueueCursor' = 0 /\ commandQueueLength' = commandQueueLength
        BY <2>1, <2>3, ExchangeEffect
      <4>. QED
        BY <4>1, <4>2
    <3>2. mode' \in {"digital", "analog", "config"}
      BY <2>1, <2>3, <3>1, ObeyEffect
         DEF Ignore, SequenceInv, executingCommandQueue, SequenceLength
    <3>. QED
      BY <2>2, <3>1, <3>2 DEF SequenceInv, SeenInv, CommandsInConfigMode,
                              executingCommandQueue, SequenceLength
  <2>4. CASE ~executingCommandQueue
    <3>1. UNCHANGED queueVars /\ mode' = mode
      BY <2>1, <2>4, ExchangeEffect, ObeyEffect DEF Ignore
    <3>. QED
      BY <2>2, <2>4, <3>1 DEF SequenceInv, SeenInv, CommandsInConfigMode,
                              executingCommandQueue, queueVars
  <2>. QED
    BY <2>3, <2>4
<1>3. CASE PressAnalogButton
  BY <1>3 DEF PressAnalogButton, SequenceInv, SeenInv, CommandsInConfigMode,
              executingCommandQueue, queueVars
<1>4. CASE StartOfFrame \/ UNCHANGED vars
  BY <1>4 DEF StartOfFrame, vars, controllerVars, queueVars, SequenceInv, SeenInv,
              CommandsInConfigMode, executingCommandQueue
<1>. QED
  BY <1>1, <1>2, <1>3, <1>4 DEF Next

-----------------------------------------------------------------------------
(* The home button.                                                        *)

\* A difference of two frame counts, taken modulo their range.
LEMMA FramesSince ==
    ASSUME NEW from \in 0..(SofModulus - 1), NEW to \in 0..(SofModulus - 1)
    PROVE  (to - from) % SofModulus = IF from <= to THEN to - from
                                                    ELSE to - from + SofModulus
<1>. SofModulus \in Nat \ {0}
  BY LinkAssumption DEF LinkAssumption
<1>1. CASE from <= to
  <2>1. to - from \in 0..(SofModulus - 1)
    BY <1>1
  <2>. QED
    BY <1>1, <2>1
<1>2. CASE ~(from <= to)
  <2>1. from - to \in 1..(SofModulus - 1)
    BY <1>2
  <2>2. (0 - (from - to)) \div SofModulus = -1
    BY <2>1
  <2>3. (0 - (from - to)) % SofModulus = SofModulus - (from - to)
    BY <2>1, <2>2
  <2>4. to - from = 0 - (from - to) /\ to - from + SofModulus = SofModulus - (from - to)
    OBVIOUS
  <2>. QED
    BY <1>2, <2>3, <2>4
<1>. QED
  BY <1>1, <1>2

\* The button is not pressed at first.
LEMMA HomeInvInit == Init => HomeInv
<1>. SUFFICES ASSUME Init PROVE HomeInv
  OBVIOUS
<1>1. 0 \in 0..MaxGap /\ 0 \in 0..(SofModulus - 1) /\ SofModulus \in Nat
  BY LinkAssumption DEF LinkAssumption
<1>2. gap = 0 /\ usbSofCount = 0 /\ analogButtonPressSofCount = 0 /\ sinceSeen = SofModulus
  BY DEF Init
<1>3. analogButtonIsPressed = FALSE /\ shown.home = FALSE
  BY DEF Init
<1>. QED
  BY <1>1, <1>2, <1>3 DEF HomeInv

\* The button stays pressed only for as long as the frames since the press
\* have not come round.
LEMMA HomeInvExchange ==
    ASSUME HomeInv, HomeSofs + MaxGap <= SofModulus,
           NEW ok \in BOOLEAN, PrepareInputSubReport(ok)
    PROVE  HomeInv'
<1>. DEFINE seen == ~executingCommandQueue /\ ok
                    /\ (IF ok THEN Reply ELSE EMPTY_DUAL_SHOCK_REPORT).mode = "digital"
            pressedAt == IF seen THEN usbSofCount ELSE analogButtonPressSofCount
            home == (analogButtonIsPressed \/ seen)
                    /\ (usbSofCount - pressedAt) % SofModulus < HomeSofs
<1>1. /\ analogButtonPressSofCount' = pressedAt
      /\ analogButtonIsPressed' = home
      /\ shown'.home = home
      /\ sinceSeen' = IF seen THEN 0 ELSE sinceSeen
      /\ gap' = 0 /\ usbSofCount' = usbSofCount
  BY DEF PrepareInputSubReport, ButtonSeen, PressIsRecent
<1>2. /\ gap \in 0..MaxGap /\ SofModulus \in Nat \ {0} /\ MaxGap \in Nat
      /\ HomeSofs \in 1..(SofModulus - 1)
      /\ usbSofCount \in 0..(SofModulus - 1) /\ pressedAt \in 0..(SofModulus - 1)
      /\ sinceSeen \in Nat
  BY LinkAssumption DEF LinkAssumption, HomeInv
<1>3. home \in BOOLEAN
  OBVIOUS
<1>. HIDE DEF seen, home
<1>4. CASE ~home
  BY <1>1, <1>2, <1>3, <1>4 DEF HomeInv
<1>5. CASE home
  <2>1. (usbSofCount - pressedAt) % SofModulus < HomeSofs /\ (analogButtonIsPressed \/ seen)
    BY <1>5 DEF home
  <2>2. CASE seen
    BY <1>1, <1>2, <1>3, <1>5, <2>2 DEF HomeInv
  <2>3. CASE ~seen
    <3>1. /\ sinceSeen < SofModulus
          /\ \/ usbSofCount = analogButtonPressSofCount + sinceSeen
             \/ usbSofCount = analogButtonPressSofCount + sinceSeen - SofModulus
      BY <1>2, <2>1, <2>3 DEF HomeInv
    <3>2. (usbSofCount - analogButtonPressSofCount) % SofModulus = sinceSeen
      <4>1. analogButtonPressSofCount \in 0..(SofModulus - 1)
        BY DEF HomeInv
      <4>2. (usbSofCount - analogButtonPressSofCount) % SofModulus =
                IF analogButtonPressSofCount <= usbSofCount
                THEN usbSofCount - analogButtonPressSofCount
                ELSE usbSofCount - analogButtonPressSofCount + SofModulus
        BY <1>2, <4>1, FramesSince
      <4>. QED
        BY <1>2, <3>1, <4>1, <4>2
    <3>. QED
      BY <1>1, <1>2, <1>3, <1>5, <2>1, <2>3, <3>1, <3>2 DEF HomeInv
  <2>. QED
    BY <2>2, <2>3
<1>. QED
  BY <1>4, <1>5

\* A frame adds one to both counts.
LEMMA HomeInvFrame ==
    ASSUME HomeInv, HomeSofs + MaxGap <= SofModulus, StartOfFrame
    PROVE  HomeInv'
<1>1. /\ gap < MaxGap /\ gap' = gap + 1
      /\ usbSofCount' = (usbSofCount + 1) % SofModulus
      /\ sinceSeen' = IF sinceSeen < SofModulus THEN sinceSeen + 1 ELSE sinceSeen
      /\ UNCHANGED <<homeVars, shown>>
  BY DEF StartOfFrame
<1>2. /\ gap \in 0..MaxGap /\ SofModulus \in Nat \ {0} /\ MaxGap \in Nat
      /\ HomeSofs \in 1..(SofModulus - 1)
      /\ usbSofCount \in 0..(SofModulus - 1)
      /\ analogButtonPressSofCount \in 0..(SofModulus - 1)
      /\ sinceSeen \in Nat
  BY LinkAssumption DEF LinkAssumption, HomeInv
<1>3. usbSofCount' = IF usbSofCount + 1 = SofModulus THEN 0 ELSE usbSofCount + 1
  <2>1. CASE usbSofCount + 1 = SofModulus
    BY <1>1, <1>2, <2>1
  <2>2. CASE usbSofCount + 1 \in 1..(SofModulus - 1)
    BY <1>1, <1>2, <2>2
  <2>. QED
    BY <1>2, <2>1, <2>2
<1>4. analogButtonIsPressed =>
          /\ sinceSeen' < HomeSofs + gap'
          /\ \/ usbSofCount' = analogButtonPressSofCount + sinceSeen'
             \/ usbSofCount' = analogButtonPressSofCount + sinceSeen' - SofModulus
  BY <1>1, <1>2, <1>3 DEF HomeInv
<1>. QED
  BY <1>1, <1>2, <1>3, <1>4 DEF HomeInv, homeVars

\* The player does not touch the counts.
LEMMA HomeInvNext ==
    HomeSofs + MaxGap <= SofModulus => (HomeInv /\ [Next]_vars => HomeInv')
<1>. SUFFICES ASSUME HomeSofs + MaxGap <= SofModulus, HomeInv, [Next]_vars
              PROVE  HomeInv'
  OBVIOUS
<1>1. CASE ExchangeSucceeds \/ ExchangeFails
  BY <1>1, HomeInvExchange DEF ExchangeSucceeds, ExchangeFails
<1>2. CASE StartOfFrame
  BY <1>2, HomeInvFrame
<1>3. CASE PressAnalogButton \/ UNCHANGED vars
  BY <1>3 DEF PressAnalogButton, vars, homeVars, HomeInv
<1>. QED
  BY <1>1, <1>2, <1>3 DEF Next

-----------------------------------------------------------------------------
(* Theorems.                                                               *)

\* The Switch is always shown the last complete analog report, however many
\* exchanges fail and in whatever mode the controller answers.
THEOREM AlwaysLastGood == Spec => []ShownIsLastGood
<1>1. ShownInv => ShownIsLastGood
  BY DEF ShownInv
<1>. QED
  BY <1>1, ShownInvInit, ShownInvNext, PTL DEF Spec

\* A command that needs config mode meets the controller in config mode,
\* after any number of failures, obeyed or not.
THEOREM AlwaysInConfigMode == Spec => []CommandsInConfigMode
<1>1. SequenceInv => CommandsInConfigMode
  BY DEF SequenceInv
<1>. QED
  BY <1>1, SequenceInvInit, SequenceInvNext, PTL DEF Spec

\* One press of the analog button is one press of the home button, and a
\* short one, as long as no more frames pass between two calls than the
\* frame counter can tell apart from none.
THEOREM HomeOnce == HomeSofs + MaxGap <= SofModulus => (Spec => []HomePressedOnce)
<1>. SUFFICES ASSUME HomeSofs + MaxGap <= SofModulus PROVE Spec => []HomePressedOnce
  OBVIOUS
<1>1. SeenInv /\ HomeInv => HomePressedOnce
  <2>1. HomeSofs \in Nat
    BY LinkAssumption DEF LinkAssumption
  <2>. QED
    BY <2>1 DEF SeenInv, HomeInv, HomePressedOnce
<1>2. HomeInv /\ [Next]_vars => HomeInv'
  BY HomeInvNext
<1>. QED
  BY <1>1, <1>2, SequenceInvInit, SequenceInvNext, HomeInvInit, PTL DEF Spec

-----------------------------------------------------------------------------
(* The bus.                                                                *)

Clocking == {"start", "clocking", "stored", "waiting"}

\* No byte is clocked out to a controller that is not ready for it: the flag
\* is down while a byte is clocked, and once it is up the controller is ready.
ReadyInv ==
    /\ pc \in Clocking \cup {"idle", "closing"}
    /\ pc \in {"start", "clocking"} => ready
    /\ pc = "clocking" => ~sDualShockAcknowledgeReceived
    /\ pc \in {"stored", "waiting"} /\ sDualShockAcknowledgeReceived => ready

\* Up to byteIndex, the controller has taken the bytes sent and the buffer
\* holds the bytes of its answer.
Exchanged(n) ==
    /\ heard = [i \in 1..n |-> SentByte(i - 1)]
    /\ \A i \in 0..(toReceiveLength - 1) : i < n => toReceive[i] = i

\* The exchange goes on until it is as long as the controller says; nothing
\* is left of one that went wrong but that it did.
ExchangeInv ==
    /\ byteIndex \in Nat
    /\ reportedTransactionLength \in Nat
    /\ toReceive = [i \in 0..(toReceiveLength - 1) |-> toReceive[i]]
    /\ pc \in Clocking =>
           /\ ~errored
           /\ Exchanged(byteIndex)
           /\ length \in Nat /\ length > 2
           /\ byteIndex <= reportedTransactionLength
           /\ byteIndex < 2 => reportedTransactionLength = 2
           /\ pc \in {"start", "clocking", "waiting"} => byteIndex < reportedTransactionLength
    /\ pc = "closing" /\ ~errored =>
           Exchanged(byteIndex) /\ byteIndex = reportedTransactionLength
    /\ pc = "idle" /\ replyLength # 0 =>
           Exchanged(replyLength) /\ replyLength = reportedTransactionLength

\* The count has come as far as the polls since the motor was on, and no
\* further once it was on at this strength.
PulseInv ==
    /\ amplitudes \in [low : 0..255, high : 0..255]
    /\ felt \in 0..255
    /\ activationCount \in Nat
    /\ off \in Nat
    /\ felt # 0 =>
           /\ activationCount < DutyCycle(felt)
           /\ off <= activationCount
           /\ turn # -1 => off = activationCount
           /\ turn \in {-1, 0, DutyCycle(felt)}

-----------------------------------------------------------------------------
(* The bytes.                                                              *)

\* Nothing is exchanged at first.
LEMMA ExchangeInvInit == BusInit => ReadyInv /\ ExchangeInv
BY BusAssumption DEF BusAssumption, BusInit, ReadyInv, ExchangeInv, Clocking, Buffer

\* Appending to a function on 1..n.
LEMMA AppendToFunction ==
    ASSUME NEW n \in Nat, NEW s, s = [i \in 1..n |-> s[i]], NEW x
    PROVE  Append(s, x) = [i \in 1..(n + 1) |-> IF i = n + 1 THEN x ELSE s[i]]
<1>. DEFINE S == {s[i] : i \in 1..n} \cup {x}
<1>1. s \in [1..n -> S]
  OBVIOUS
<1>. HIDE DEF S
<1>2. s \in Seq(S) /\ Len(s) = n
  BY <1>1
<1>. QED
  BY <1>2

\* The flag is raised only with the controller ready, and taken down before
\* the next byte.
LEMMA ReadyInvNext == ReadyInv /\ [BusNext]_busVars => ReadyInv'
<1>. SUFFICES ASSUME ReadyInv, [BusNext]_busVars PROVE ReadyInv'
  OBVIOUS
<1>. USE DEF ReadyInv, Clocking
<1>1. CASE BeginExchange
  BY <1>1 DEF BeginExchange
<1>2. CASE StartByte
  BY <1>2 DEF StartByte, ClearFlag, readyVars
<1>3. CASE ByteExchanged
  BY <1>3 DEF ByteExchanged
<1>4. CASE Stored
  BY <1>4 DEF Stored, readyVars
<1>5. CASE Wait
  BY <1>5 DEF Wait, readyVars
<1>6. CASE EndExchange
  BY <1>6 DEF EndExchange
<1>7. CASE Acknowledge
  BY <1>7 DEF Acknowledge
<1>8. CASE EnableRumble \/ (\E strengths \in Amplitudes : Rumble(strengths)) \/ UNCHANGED busVars
  BY <1>8 DEF EnableRumble, Rumble, busVars, readyVars
<1>. QED
  BY <1>1, <1>2, <1>3, <1>4, <1>5, <1>6, <1>7, <1>8 DEF BusNext, dualShockCommand

\* Each byte is taken by the controller and its answer stored in its place.
LEMMA ExchangeInvNext == ReadyInv /\ ExchangeInv /\ [BusNext]_busVars => ExchangeInv'
<1>. SUFFICES ASSUME ReadyInv, ExchangeInv, [BusNext]_busVars PROVE ExchangeInv'
  OBVIOUS
<1>1. CASE BeginExchange
  <2>1. /\ pc' = "start" /\ byteIndex' = 0 /\ reportedTransactionLength' = 2
        /\ ~errored' /\ toReceive' = Buffer(Stale) /\ heard' = <<>>
        /\ length' \in Nat /\ length' > 2
    BY <1>1, BusAssumption DEF BusAssumption, BeginExchange
  <2>2. Exchanged(0)'
    BY <2>1 DEF Exchanged
  <2>. QED
    BY <2>1, <2>2 DEF ExchangeInv, Exchanged, Clocking, Buffer
<1>2. CASE StartByte
  BY <1>2 DEF StartByte, callVars, readyVars, ExchangeInv, Exchanged, SentByte, Clocking
<1>3. CASE ByteExchanged
  <2>1. /\ pc = "clocking" /\ ready /\ ~errored /\ Exchanged(byteIndex)
        /\ byteIndex \in Nat /\ byteIndex < reportedTransactionLength
        /\ length \in Nat /\ length > 2
    BY <1>3 DEF ByteExchanged, ReadyInv, ExchangeInv, Clocking
  <2>2. /\ toReceive' = IF byteIndex < toReceiveLength /\ ~errored'
                        THEN [toReceive EXCEPT ![byteIndex] = byteIndex] ELSE toReceive
        /\ byteIndex' = IF errored' THEN byteIndex ELSE byteIndex + 1
        /\ pc' = IF errored' THEN "closing" ELSE "stored"
        /\ heard' = Append(heard, SentByte(byteIndex))
        /\ command' = command /\ length' = length
    BY <1>3, <2>1 DEF ByteExchanged
  <2>3. /\ reportedTransactionLength' \in Nat
        /\ ~errored' => byteIndex' <= reportedTransactionLength'
        /\ ~errored' /\ byteIndex' < 2 => reportedTransactionLength' = 2
    <3>1. CASE byteIndex = 1
      <4>1. PICK nibble \in Nibbles \cup {(length - 3) \div 2} :
                reportedTransactionLength' = (2 * nibble) + 3
        BY <1>3, <3>1 DEF ByteExchanged, ReadHeader
      <4>2. nibble \in Nat
        <5>1. (length - 3) \div 2 \in Nat
          BY <2>1
        <5>. QED
          BY <4>1, <5>1, BusAssumption DEF BusAssumption
      <4>3. PICK n \in Nat : n = (2 * nibble) + 3 /\ n >= 3
        BY <4>2
      <4>. QED
        BY <2>2, <3>1, <4>1, <4>3
    <3>2. CASE byteIndex # 1
      <4>1. reportedTransactionLength' = reportedTransactionLength
        BY <1>3, <3>2 DEF ByteExchanged, ReadHeader
      <4>2. /\ reportedTransactionLength \in Nat
            /\ byteIndex < 2 => reportedTransactionLength = 2
        BY <2>1 DEF ExchangeInv, Clocking
      <4>. QED
        BY <2>1, <2>2, <3>2, <4>1, <4>2
    <3>. QED
      BY <3>1, <3>2
  <2>4. toReceive' = [i \in 0..(toReceiveLength - 1) |-> toReceive'[i]]
    BY <2>2 DEF ExchangeInv
  <2>5. ASSUME ~errored' PROVE Exchanged(byteIndex)'
    <3>1. heard' = [i \in 1..(byteIndex + 1) |-> IF i = byteIndex + 1 THEN SentByte(byteIndex)
                                                                    ELSE heard[i]]
      BY <2>1, <2>2, AppendToFunction DEF Exchanged
    <3>2. heard' = [i \in 1..byteIndex' |-> SentByte(i - 1)']
      BY <2>1, <2>2, <2>5, <3>1 DEF Exchanged, SentByte
    <3>3. \A i \in 0..(toReceiveLength - 1) : i < byteIndex' => toReceive'[i] = i
      <4>. TAKE i \in 0..(toReceiveLength - 1)
      <4>. HAVE i < byteIndex'
      <4>1. i \in Nat /\ (i = byteIndex \/ i < byteIndex)
        BY <2>1, <2>2, <2>5
      <4>2. CASE i = byteIndex
        BY <2>2, <2>5, <4>1, <4>2, BusAssumption DEF BusAssumption, ExchangeInv
      <4>3. CASE i < byteIndex /\ i # byteIndex
        <5>1. toReceive[i] = i
          BY <2>1, <4>3 DEF Exchanged
        <5>. QED
          BY <2>2, <4>3, <5>1 DEF ExchangeInv
      <4>. QED
        BY <2>1, <4>1, <4>2, <4>3
    <3>. QED
      BY <3>2, <3>3 DEF Exchanged
  <2>. QED
    BY <2>1, <2>2, <2>3, <2>4, <2>5 DEF ExchangeInv, Clocking
<1>4. CASE Stored
  <2>1. /\ pc = "stored"
        /\ UNCHANGED <<command, byteIndex, reportedTransactionLength, errored, toReceive,
                       heard, length>>
    BY <1>4 DEF Stored, readyVars
  <2>2. \/ pc' = "closing" /\ byteIndex >= reportedTransactionLength
        \/ pc' \in {"start", "waiting"} /\ ~(byteIndex >= reportedTransactionLength)
    BY <1>4 DEF Stored
  <2>3. Exchanged(byteIndex)' <=> Exchanged(byteIndex)
    BY <2>1 DEF Exchanged, SentByte
  <2>. QED
    BY <2>1, <2>2, <2>3 DEF ExchangeInv, Clocking
<1>5. CASE Wait
  BY <1>5 DEF Wait, callVars, readyVars, ExchangeInv, Exchanged, SentByte, Clocking
<1>6. CASE EndExchange
  BY <1>6 DEF EndExchange, callVars, readyVars, ExchangeInv, Exchanged, SentByte, Clocking
<1>7. CASE Acknowledge \/ EnableRumble \/ (\E strengths \in Amplitudes : Rumble(strengths))
           \/ UNCHANGED busVars
  <2>1. UNCHANGED <<callVars, heard, length, pc, replyLength>>
    BY <1>7 DEF Acknowledge, EnableRumble, Rumble, busVars, callVars, readyVars
  <2>2. /\ Exchanged(byteIndex)' <=> Exchanged(byteIndex)
        /\ Exchanged(replyLength)' <=> Exchanged(replyLength)
    BY <2>1 DEF callVars, Exchanged, SentByte
  <2>. QED
    BY <2>1, <2>2 DEF callVars, ExchangeInv, Clocking
<1>. QED
  BY <1>1, <1>2, <1>3, <1>4, <1>5, <1>6, <1>7 DEF BusNext, dualShockCommand

-----------------------------------------------------------------------------
(* The pulses.                                                             *)

\* A duty cycle is a count of polls, never zero and no more than a byte, the
\* division by zero included.
LEMMA DutyCycleRange == ASSUME NEW a \in 0..255 PROVE DutyCycle(a) \in 1..255
<1>1. CASE a < 16
  BY <1>1, BusAssumption DEF BusAssumption, DutyCycle
<1>2. CASE ~(a < 16)
  <2>1. a \div 16 \in 1..15
    BY <1>2
  <2>2. \A q \in 1..15 : 15 \div q \in 1..15
    OBVIOUS
  <2>. QED
    BY <1>2, <2>1, <2>2 DEF DutyCycle
<1>. QED
  BY <1>1, <1>2

\* The next count, below the duty cycle it is taken modulo.
LEMMA ActivateRange ==
    ASSUME NEW d \in 1..255, activationCount \in Nat
    PROVE  /\ Activate(d) \in 0..(d - 1)
           /\ activationCount < d =>
                  Activate(d) = IF activationCount + 1 = d THEN 0 ELSE activationCount + 1
<1>1. (activationCount + 1) % d \in 0..(d - 1)
  OBVIOUS
<1>2. CASE activationCount + 1 = d
  BY <1>1, <1>2 DEF Activate
<1>3. CASE activationCount + 1 \in 1..(d - 1)
  BY <1>1, <1>3 DEF Activate
<1>4. CASE ~(activationCount < d)
  BY <1>1, <1>4 DEF Activate
<1>. QED
  BY <1>2, <1>3, <1>4

\* A motor that is off has not been felt.
LEMMA PulseInvInit == BusInit => PulseInv
BY DEF BusInit, PulseInv

\* A poll counts on by one, or starts the count of another strength within
\* its own duty cycle.
LEMMA PulseInvPoll == PulseInv /\ RumblingPoll => PulseInv'
<1>. SUFFICES ASSUME PulseInv, RumblingPoll PROVE PulseInv'
  OBVIOUS
<1>. DEFINE high == highRumbleAmplitude
            duty == DutyCycle(high)
            on == high # 0 /\ activationCount' = 0
            same == felt = high
            polls == IF same THEN off + 1 ELSE 1
<1>1. /\ activationCount' = IF high # 0 THEN Activate(duty) ELSE activationCount
      /\ felt' = high
      /\ off' = IF on \/ high = 0 THEN 0 ELSE polls
      /\ turn' = CASE ~same -> -1
                   [] same /\ on -> IF turn = -1 THEN 0 ELSE polls
                   [] OTHER -> turn
      /\ amplitudes' = amplitudes
  BY DEF RumblingPoll
<1>2. high \in 0..255
  BY DEF PulseInv, highRumbleAmplitude
<1>3. activationCount \in Nat /\ off \in Nat /\ amplitudes \in [low : 0..255, high : 0..255]
  BY DEF PulseInv
<1>4. duty \in 1..255
  BY <1>2, DutyCycleRange
<1>5. /\ Activate(duty) \in 0..(duty - 1)
      /\ activationCount < duty =>
             Activate(duty) = IF activationCount + 1 = duty THEN 0 ELSE activationCount + 1
  BY <1>3, <1>4, ActivateRange
<1>. HIDE DEF high, duty
<1>6. CASE high = 0
  BY <1>1, <1>2, <1>3, <1>6 DEF PulseInv
<1>7. CASE high # 0 /\ ~same
  <2>1. turn' = -1
    BY <1>1, <1>7
  <2>2. activationCount' \in 0..(duty - 1) /\ off' <= activationCount' /\ off' \in Nat
    BY <1>1, <1>3, <1>5, <1>7
  <2>. QED
    BY <1>1, <1>2, <1>3, <1>4, <2>1, <2>2 DEF PulseInv, duty
<1>8. CASE high # 0 /\ same
  <2>1. /\ felt # 0 /\ activationCount < duty /\ off <= activationCount
        /\ turn # -1 => off = activationCount
        /\ turn \in {-1, 0, duty}
    BY <1>8 DEF PulseInv, duty
  <2>2. activationCount' = IF activationCount + 1 = duty THEN 0 ELSE activationCount + 1
    BY <1>1, <1>5, <1>8, <2>1
  <2>3. CASE activationCount + 1 = duty
    <3>1. activationCount' = 0 /\ on
      BY <1>8, <2>2, <2>3
    <3>2. turn' = IF turn = -1 THEN 0 ELSE off + 1
      BY <1>1, <1>8, <3>1
    <3>3. off' = 0
      BY <1>1, <3>1
    <3>. QED
      BY <1>1, <1>2, <1>3, <1>4, <2>1, <2>3, <3>1, <3>2, <3>3 DEF PulseInv, duty
  <2>4. CASE activationCount + 1 # duty
    <3>1. activationCount' = activationCount + 1 /\ ~on
      BY <1>3, <2>2, <2>4
    <3>2. turn' = turn
      BY <1>1, <1>8, <3>1
    <3>3. off' = off + 1
      BY <1>1, <1>8, <3>1
    <3>. QED
      BY <1>1, <1>2, <1>3, <1>4, <2>1, <2>4, <3>1, <3>2, <3>3 DEF PulseInv, duty
  <2>. QED
    BY <2>3, <2>4
<1>. QED
  BY <1>6, <1>7, <1>8

\* Nothing else turns the motor.
LEMMA PulseInvNext == PulseInv /\ [BusNext]_busVars => PulseInv'
<1>. SUFFICES ASSUME PulseInv, [BusNext]_busVars PROVE PulseInv'
  OBVIOUS
<1>1. ASSUME UNCHANGED motorVars PROVE PulseInv'
  BY <1>1 DEF motorVars, PulseInv
<1>2. CASE BeginExchange
  BY <1>1, <1>2, PulseInvPoll DEF BeginExchange, PlainPoll, QueuedCommand
<1>3. CASE dualShockCommand \/ Acknowledge \/ UNCHANGED busVars
  BY <1>1, <1>3 DEF dualShockCommand, StartByte, ByteExchanged, Stored, Wait, EndExchange,
                    Acknowledge, busVars
<1>4. ASSUME NEW strengths \in Amplitudes, Rumble(strengths) PROVE PulseInv'
  <2>1. strengths \in [low : 0..255, high : 0..255]
    BY BusAssumption DEF BusAssumption
  <2>. QED
    BY <1>4, <2>1 DEF Rumble, PulseInv
<1>5. CASE EnableRumble
  BY <1>5 DEF EnableRumble, PulseInv
<1>. QED
  BY <1>2, <1>3, <1>4, <1>5 DEF BusNext

-----------------------------------------------------------------------------
(* Theorems.                                                               *)

\* A result other than 0 stands for a whole exchange, whenever the controller
\* acknowledges a byte, or does not, and whatever length it reports.
THEOREM WholeExchange == BusSpec => []ExchangeIsWhole
<1>1. ExchangeInv => ExchangeIsWhole
  BY DEF ExchangeInv, Exchanged, ExchangeIsWhole
<1>. QED
  BY <1>1, ExchangeInvInit, ReadyInvNext, ExchangeInvNext, PTL DEF BusSpec

\* The small motor is on once in as many polls as its duty cycle says, for
\* every strength, and after every change of strength.
THEOREM Pulses == BusSpec => []PulsesInTurn
<1>1. PulseInv => PulsesInTurn
  <2>. SUFFICES ASSUME PulseInv, felt # 0
                PROVE  off < DutyCycle(felt) /\ turn \in {-1, 0, DutyCycle(felt)}
    BY DEF PulsesInTurn
  <2>1. DutyCycle(felt) \in 1..255
    BY DutyCycleRange DEF PulseInv
  <2>. QED
    BY <2>1 DEF PulseInv
<1>. QED
  BY <1>1, PulseInvInit, PulseInvNext, PTL DEF BusSpec

=============================================================================
