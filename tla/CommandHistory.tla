--------------------------- MODULE CommandHistory ---------------------------
(***************************************************************************)
(* The history of received commands (src/src/main.cpp): a ring of entries  *)
(* of three bytes, in which a run of rumble reports takes one entry that   *)
(* counts them in two of its bytes.  haltStr6 prints it from the newest    *)
(* entry backwards and stops.  The report whose handler halts is not in    *)
(* it: a handler adds its report at its very end.                          *)
(***************************************************************************)
EXTENDS Integers, Sequences

CONSTANTS
    Commands,               \* the other reports, by their three bytes
    Rumble,                 \* the report with identifier 0x10
    Nothing,                \* an entry that was never written
    sCommandHistoryLength,  \* 32
    Byte,                   \* values of a byte (256)
    MaxReports              \* bound: reports received

VARIABLES
    sCommandHistory,        \* per slot: what, and the count's two bytes
    sCommandHistoryCursor,  \* the newest entry
    pc,                     \* "run", "dump" in haltStr6's loop, or "stopped"
    dump,                   \* the entries that loop has printed
    runs,                   \* all reports handled, the runs of rumble joined
    reports                 \* how many there were

Slots == 0..(sCommandHistoryLength - 1)
Entry == [what : Commands \cup {Rumble, Nothing}, high : 0..(Byte - 1), low : 0..(Byte - 1)]

Init ==
    /\ sCommandHistory = [s \in Slots |-> [what |-> Nothing, high |-> 0, low |-> 0]]
    /\ sCommandHistoryCursor = 0
    /\ pc = "run"
    /\ dump = <<>>
    /\ runs = <<>>
    /\ reports = 0

Newest == sCommandHistory[sCommandHistoryCursor]

NextSlot == (sCommandHistoryCursor + 1) % sCommandHistoryLength

\* Slip: the low byte is counted and the carry is lost.
CountedLowOnly(entry) == [entry EXCEPT !.low = (@ + 1) % Byte]

\* Sixteen bits, kept in two bytes.
Counted(entry) ==
    LET count == (entry.high * Byte + entry.low + 1) % (Byte * Byte)
    IN  [entry EXCEPT !.high = count \div Byte, !.low = count % Byte]

FirstOfRun == [what |-> Rumble, high |-> 0, low |-> 0]

RecordRumble ==
    /\ IF Newest.what = Rumble
       THEN /\ sCommandHistory' =
                   [sCommandHistory EXCEPT ![sCommandHistoryCursor] = Counted(@)]
            /\ UNCHANGED sCommandHistoryCursor
            /\ runs' = [runs EXCEPT ![Len(runs)].count = @ + 1]
       ELSE /\ sCommandHistory' =
                   [sCommandHistory EXCEPT ![NextSlot] = Counted(FirstOfRun)]
            /\ sCommandHistoryCursor' = NextSlot
            /\ runs' = Append(runs, [what |-> Rumble, count |-> 1])

RecordCommand(command) ==
    /\ sCommandHistory' =
           [sCommandHistory EXCEPT ![NextSlot] = [what |-> command, high |-> 0, low |-> 0]]
    /\ sCommandHistoryCursor' = NextSlot
    /\ runs' = Append(runs, [what |-> command, count |-> 0])

HandleReport ==
    /\ pc = "run"
    /\ reports < MaxReports
    /\ reports' = reports + 1
    /\ RecordRumble \/ \E command \in Commands : RecordCommand(command)
    /\ UNCHANGED <<pc, dump>>

-----------------------------------------------------------------------------
(* haltStr6.                                                               *)

haltStr6 ==
    /\ pc = "run"
    /\ pc' = "dump"
    /\ UNCHANGED <<sCommandHistory, sCommandHistoryCursor, dump, runs, reports>>

PreviousSlot ==
    IF sCommandHistoryCursor = 0 THEN sCommandHistoryLength - 1
                                 ELSE sCommandHistoryCursor - 1

PrintEntry ==
    /\ pc = "dump"
    /\ dump' = Append(dump, Newest)
    /\ sCommandHistoryCursor' = PreviousSlot
    /\ pc' = IF Len(dump') = sCommandHistoryLength THEN "stopped" ELSE pc
    /\ UNCHANGED <<sCommandHistory, runs, reports>>

=============================================================================
