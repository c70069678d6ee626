--------------------------- MODULE DualShockLink ---------------------------
(***************************************************************************)
(* prepareInputSubReportInBuffer (main.cpp:369-503): one exchange with the *)
(* Dual Shock each time the input part of a report is due.  It polls the   *)
(* controller or executes the next command of the sequence that switches   *)
(* it to analog mode, keeps the last analog report for when an exchange    *)
(* fails, and turns the controller's fall to digital mode into a press of  *)
(* the home button that lasts a number of USB frames.                      *)
(*                                                                         *)
(* The controller is external: it is modelled from the commands the code   *)
(* sends and the modes it expects back.                                    *)
(***************************************************************************)
EXTENDS Integers

CONSTANTS
    SofModulus,     \* usbSofCount counts modulo this (256)
    HomeSofs,       \* frames the home button is shown for (64)
    MaxGap,         \* most frames between two calls
    MaxFailures,    \* bound: exchanges that fail
    MaxPresses,     \* bound: presses of the analog button
    Readings        \* readings of sticks and buttons are counted modulo this

ASSUME LinkAssumption ==
    /\ SofModulus \in Nat \ {0}
    /\ HomeSofs \in 1..(SofModulus - 1)
    /\ MaxGap \in Nat
    /\ MaxFailures \in Nat
    /\ MaxPresses \in Nat
    /\ Readings \in Nat \ {0}

enterAnalogCommandSequence ==
    <<"enterConfig", "switchToAnalog", "setUpMotors", "exitConfig">>
SequenceLength == 4

Modes == {"digital", "analog", "config", "unknown"}

\* What a report buffer holds: the mode nibble and a reading, -1 for none.
DualShockReport == [mode : Modes, reading : -1..(Readings - 1)]
EMPTY_DUAL_SHOCK_REPORT == [mode |-> "unknown", reading |-> -1]

VARIABLES
    dualShockReports,               \* two buffers
    previousDualShockReportIndex,
    commandQueueCursor,
    commandQueueLength,
    analogButtonIsPressed,
    analogButtonPressSofCount,
    usbSofCount,
    shown,          \* the sub-report produced last: reading and home button
    mode,           \* external: the controller's mode
    modeAfterConfig,\* external: the mode it goes to when it leaves config mode
    reading,        \* external: the reading it sends next
    lastGood,       \* the reading of the last exchange that was a complete
                    \* analog report
    seenCount,      \* how often a poll found the controller in digital mode
    sinceSeen,      \* frames since the last time, not wrapped
    gap,            \* frames since the last call
    failures,
    presses

\* Bound of seenCount: larger counts are not told apart.
MaxSeen == MaxPresses + 2

queueVars == <<commandQueueCursor, commandQueueLength>>
homeVars == <<analogButtonIsPressed, analogButtonPressSofCount>>
controllerVars == <<mode, modeAfterConfig, reading>>
vars == <<dualShockReports, previousDualShockReportIndex, queueVars, homeVars,
          usbSofCount, shown, controllerVars, lastGood, seenCount, sinceSeen, gap,
          failures, presses>>

\* The controller powers up in digital mode.
Init ==
    /\ dualShockReports = [i \in 0..1 |-> EMPTY_DUAL_SHOCK_REPORT]
    /\ previousDualShockReportIndex = 0
    /\ commandQueueCursor = 0
    /\ commandQueueLength = 0
    /\ analogButtonIsPressed = FALSE
    /\ analogButtonPressSofCount = 0
    /\ usbSofCount = 0
    /\ shown = [reading |-> -1, home |-> FALSE]
    /\ mode = "digital"
    /\ modeAfterConfig = "digital"
    /\ reading = 0
    /\ lastGood = -1
    /\ seenCount = 0
    /\ sinceSeen = SofModulus
    /\ gap = 0
    /\ failures = 0
    /\ presses = 0

-----------------------------------------------------------------------------
(* The controller.                                                         *)

\* How a command changes its mode; all but the first need config mode.
Obey(command) ==
    /\ mode' = CASE command = "enterConfig" -> "config"
                 [] command = "exitConfig" /\ mode = "config" -> modeAfterConfig
                 [] OTHER -> mode
    /\ modeAfterConfig' =
           CASE command = "enterConfig" /\ mode # "config" -> mode
             [] command = "switchToAnalog" /\ mode = "config" -> "analog"
             [] OTHER -> modeAfterConfig

Ignore == UNCHANGED <<mode, modeAfterConfig>>

\* It answers with the mode it is in as the command arrives.
Reply == [mode |-> mode, reading |-> reading]

-----------------------------------------------------------------------------
(* The exchange.                                                           *)

executingCommandQueue == commandQueueCursor < commandQueueLength

Command == IF executingCommandQueue
           THEN enterAnalogCommandSequence[commandQueueCursor + 1]
           ELSE "poll"

OtherIndex == (previousDualShockReportIndex + 1) % 2

\* Slip: the queue goes on after a command that failed.
AdvanceAnyway(ok, report) == commandQueueCursor' = commandQueueCursor + 1

\* On to the next command, or back to the first if something went wrong.
AdvanceQueue(ok, report) ==
    commandQueueCursor' = IF ok /\ report.mode = "config"
                          THEN commandQueueCursor + 1 ELSE 0

\* Slip: the queue is not rewound when it is started again.
StartWithoutRewind ==
    /\ UNCHANGED commandQueueCursor
    /\ commandQueueLength' = SequenceLength

StartQueue ==
    /\ commandQueueCursor' = 0
    /\ commandQueueLength' = SequenceLength

\* A poll that finds the controller out of analog mode starts the queue; in
\* digital mode it is taken for a press of the analog button.
AfterPoll(ok, report) ==
    IF ok /\ report.mode # "analog" THEN StartQueue ELSE UNCHANGED queueVars

ButtonSeen(ok, report) == ~executingCommandQueue /\ ok /\ report.mode = "digital"

\* Slip: a report is kept if it is complete, whatever its mode.
GoodIfComplete(ok, report) == ok

\* Complete analog reports are nine bytes long; all other reports that are
\* not rejected have another length or another mode.
IsGood(ok, report) == ok /\ report.mode = "analog"

\* Slip: the home button stays on until the next press.
NeverReleased(seen, pressedAt) == TRUE

\* The press is recent, as far as the eight-bit frame counter can tell.
PressIsRecent(seen, pressedAt) == (usbSofCount - pressedAt) % SofModulus < HomeSofs

\* The sub-report.  A press that has just been seen is recorded first; one
\* that is over is forgotten.  A rejected exchange leaves some bytes of an
\* unfinished report in the other buffer.
PrepareInputSubReport(ok) ==
    LET report == IF ok THEN Reply ELSE EMPTY_DUAL_SHOCK_REPORT
        reports == [dualShockReports EXCEPT ![OtherIndex] = report]
        used == IF IsGood(ok, report) THEN OtherIndex ELSE previousDualShockReportIndex
        seen == ButtonSeen(ok, report)
        pressedAt == IF seen THEN usbSofCount ELSE analogButtonPressSofCount
        home == (analogButtonIsPressed \/ seen) /\ PressIsRecent(seen, pressedAt)
    IN  /\ dualShockReports' = reports
        /\ IF executingCommandQueue
           THEN AdvanceQueue(ok, report) /\ UNCHANGED commandQueueLength
           ELSE AfterPoll(ok, report)
        /\ analogButtonPressSofCount' = pressedAt
        /\ analogButtonIsPressed' = home
        /\ shown' = [reading |-> reports[used].reading, home |-> home]
        /\ previousDualShockReportIndex' = used
        /\ seenCount' = IF seen /\ seenCount < MaxSeen THEN seenCount + 1 ELSE seenCount
        /\ sinceSeen' = IF seen THEN 0 ELSE sinceSeen
        /\ lastGood' = IF ok /\ mode = "analog" THEN reading ELSE lastGood
        /\ reading' = (reading + 1) % Readings
        /\ gap' = 0
        /\ UNCHANGED <<usbSofCount, presses>>

ExchangeSucceeds ==
    /\ PrepareInputSubReport(TRUE)
    /\ Obey(Command)
    /\ UNCHANGED failures

\* The controller stops acknowledging bytes, or answers with a bad header;
\* it may have obeyed the command or not.
ExchangeFails ==
    /\ failures < MaxFailures
    /\ failures' = failures + 1
    /\ PrepareInputSubReport(FALSE)
    /\ Obey(Command) \/ Ignore

-----------------------------------------------------------------------------
(* Time and the player.                                                    *)

StartOfFrame ==
    /\ gap < MaxGap
    /\ gap' = gap + 1
    /\ usbSofCount' = (usbSofCount + 1) % SofModulus
    /\ sinceSeen' = IF sinceSeen < SofModulus THEN sinceSeen + 1 ELSE sinceSeen
    /\ UNCHANGED <<dualShockReports, previousDualShockReportIndex, queueVars,
                   homeVars, shown, controllerVars, lastGood, seenCount,
                   failures, presses>>

\* The analog button toggles the mode, except in config mode.
PressAnalogButton ==
    /\ presses < MaxPresses
    /\ mode \in {"digital", "analog"}
    /\ presses' = presses + 1
    /\ mode' = IF mode = "digital" THEN "analog" ELSE "digital"
    /\ UNCHANGED <<dualShockReports, previousDualShockReportIndex, queueVars,
                   homeVars, usbSofCount, shown, modeAfterConfig, reading, lastGood,
                   seenCount, sinceSeen, gap, failures>>

Next == ExchangeSucceeds \/ ExchangeFails \/ StartOfFrame \/ PressAnalogButton

Spec == Init /\ [][Next]_vars

\* Input reports go on being prepared and exchanges go on succeeding.
FairSpec == Spec /\ WF_vars(ExchangeSucceeds)

-----------------------------------------------------------------------------
(* Properties.                                                             *)

\* The Switch is always shown the last complete analog report: a failed
\* exchange, or one in another mode, neither replaces nor damages it.
ShownIsLastGood == shown.reading = lastGood

\* Commands that need config mode are sent in config mode only, whatever
\* exchange failed before and whether the controller had obeyed it or not.
CommandsInConfigMode ==
    executingCommandQueue /\ commandQueueCursor > 0 => mode = "config"

\* One fall to digital mode is one press of the home button, although a
\* failing sequence is repeated (it is without polling in between; the first
\* is power-up), and a brief one: it is shown for less than HomeSofs frames
\* after it was seen (main.cpp:455-467, 492).
HomePressedOnce ==
    /\ seenCount <= presses + 1
    /\ gap = 0 /\ shown.home => sinceSeen < HomeSofs

\* When exchanges stop failing and the player stops pressing the button, the
\* controller is in analog mode and polled for good.
AnalogInTheEnd == <>[](mode = "analog" /\ ~executingCommandQueue)

=============================================================================
