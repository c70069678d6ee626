----------------------------- MODULE HaltReport -----------------------------
(***************************************************************************)
(* What is left to see when the adapter halts: haltStr6 prints the history *)
(* of commands through the serial output, waiting for each character, and  *)
(* loops for good without polling.  Until then loop handles reports, which *)
(* go into the history, and prints without waiting or, before it sleeps    *)
(* ("USB Down"), waiting; the ring may run over.  Composes CommandHistory  *)
(* and SerialRing; a line of the halt report is one character here.        *)
(***************************************************************************)
EXTENDS Integers, Sequences

CONSTANTS
    Commands,                   \* reports other than rumble, by their three bytes
    Rumble,                     \* the report with identifier 0x10
    Nothing,                    \* an entry that was never written
    sCommandHistoryLength,      \* 32
    Byte,                       \* values of a byte (256)
    sSerialOutputBufferLength,  \* 128
    MaxReports,                 \* bound: reports received
    MaxPrinted                  \* bound: characters printed before the halt

ASSUME HaltReportAssumption ==
    /\ Rumble \notin Commands
    /\ Nothing \notin Commands \cup {Rumble}
    /\ sCommandHistoryLength \in 1..255
    /\ Byte \in Nat \ 0..1
    /\ sSerialOutputBufferLength \in 1..255
    /\ MaxReports \in Nat
    /\ MaxPrinted \in Nat

VARIABLES
    sCommandHistory, sCommandHistoryCursor, pc, dump, runs, reports,
    sSerialOutputBuffer, sSerialOutputBufferStart, sSerialOutputBufferEnd,
    waiting, printed, dataRegister, written

historyVars == <<sCommandHistory, sCommandHistoryCursor, pc, dump, runs, reports>>
ringVars == <<sSerialOutputBuffer, sSerialOutputBufferStart, sSerialOutputBufferEnd,
              waiting, printed, dataRegister, written>>
vars == <<historyVars, ringVars>>

History == INSTANCE CommandHistory
Ring == INSTANCE SerialRing

Init == History!Init /\ Ring!Init

\* A report is handled: not while a print that waits holds up the loop.
HandleReport ==
    /\ ~waiting
    /\ History!HandleReport
    /\ UNCHANGED ringVars

DebugPrint ==
    /\ pc = "run"
    /\ printed < MaxPrinted
    /\ Ring!serialPrint \/ Ring!serialPrintWaits \/ Ring!serialPrintReturns
    /\ UNCHANGED historyVars

haltStr6 ==
    /\ ~waiting
    /\ History!haltStr6
    /\ UNCHANGED ringVars

PrintEntryWaits ==
    /\ pc = "dump"
    /\ Ring!serialPrintWaits
    /\ UNCHANGED historyVars

PrintEntry ==
    /\ History!PrintEntry
    /\ Ring!serialPrintReturns

\* loop polls, or the print that waits does; the endless loop does not.
Poll ==
    /\ pc = "run" \/ waiting
    /\ Ring!serialPoll
    /\ UNCHANGED historyVars

UartTakes ==
    /\ Ring!UartTakes
    /\ UNCHANGED historyVars

Next == \/ HandleReport \/ DebugPrint \/ haltStr6 \/ PrintEntryWaits \/ PrintEntry
        \/ Poll \/ UartTakes

Spec == Init /\ [][Next]_vars

\* The program runs on inside haltStr6, whose prints poll, and the UART
\* transmits.
FairSpec ==
    /\ Spec
    /\ WF_vars(PrintEntryWaits)
    /\ WF_vars(PrintEntry)
    /\ WF_vars(Poll)
    /\ WF_vars(UartTakes)

-----------------------------------------------------------------------------
(* Properties.                                                             *)

EntryOf(run) ==
    [what |-> run.what,
     high |-> (run.count \div Byte) % Byte,
     low  |-> run.count % Byte]

\* What the entry number i, counted back from the newest, should be.
ExpectedEntry(i) ==
    IF i < Len(runs) THEN EntryOf(runs[Len(runs) - i])
                     ELSE [what |-> Nothing, high |-> 0, low |-> 0]

\* What haltStr6 prints is the latest commands, newest first and none left
\* out, as many as the ring holds, with the length of each run of rumble
\* reports modulo the sixteen bits that count it.
DumpIsHistory ==
    \A i \in 1..Len(dump) : dump[i] = ExpectedEntry(i - 1)

\* The halt report leaves the adapter although the ring had run over when
\* the halt came, all of it but the last character: a print that waits
\* waits for those before it, not for its own (serial.cpp:50-56).
HaltReportWritten == pc = "stopped" => written >= printed - 1

\* The halt report does come to its end.
HaltReportFinishes == pc = "dump" ~> pc = "stopped"

=============================================================================
