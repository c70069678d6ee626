---------------------------- MODULE DualShockBus ----------------------------
(***************************************************************************)
(* One exchange with the Dual Shock, byte by byte: dualShockCommand        *)
(* (main.cpp:175-279), which must not clock out a byte before the          *)
(* controller has acknowledged the one before, and learns of the           *)
(* acknowledgement through a flag that an interrupt routine sets; and the  *)
(* command it is called with (main.cpp:378-439), a poll carrying the       *)
(* strengths of the motors, or one of the sequence DualShockLink is about. *)
(*                                                                         *)
(* The controller is external.  It acknowledges each byte but its last     *)
(* sooner, later or never, and noise may change the length it reports.     *)
(***************************************************************************)
EXTENDS Integers, Sequences, FiniteSetsExt

CONSTANTS
    toReceiveLength,    \* size of a Dual Shock report (9)
    AckMicros,          \* longest wait for an acknowledgement (100)
    MicrosModulus,      \* microsWaited counts modulo this (256)
    ZeroQuotient,       \* the processor's quotient of a division by 0 (255)
    Nibbles,            \* lengths the controller reports, in pairs of bytes
    Amplitudes          \* strengths of the motors, low and high

ASSUME BusAssumption ==
    /\ toReceiveLength \in Nat \ {0}
    /\ AckMicros \in Nat
    /\ MicrosModulus \in Nat /\ MicrosModulus > AckMicros + 2
    /\ ZeroQuotient \in 16..255
    /\ Nibbles \subseteq 0..15
    /\ Amplitudes \subseteq [low : 0..255, high : 0..255]

VARIABLES
    sRumbleEnabled,
    amplitudes,         \* sLowRumbleAmplitude and sHighRumbleAmplitude
    activationCount,
    command,
    byteIndex,
    reportedTransactionLength,
    sDualShockAcknowledgeReceived,
    microsWaited,
    errored,
    toReceive,          \* which byte of this exchange each byte is, if any
    replyLength,
    pc,                 \* "idle", "start", "clocking", "stored", "waiting", "closing"
    ready,              \* external: the controller expects a byte
    heard,              \* external: the bytes it took in this exchange
    length,             \* external: how many it will take
    felt,               \* the small motor's strength at the last poll
    off,                \* polls since it changed, or since the motor was on
    turn                \* polls between the last two it was on, if unchanged

motorVars == <<sRumbleEnabled, amplitudes, activationCount, felt, off, turn>>
readyVars == <<ready, heard, length>>
callVars == <<command, byteIndex, reportedTransactionLength, microsWaited, errored, toReceive>>
busVars == <<motorVars, callVars, sDualShockAcknowledgeReceived, replyLength, pc, readyVars>>

Stale == "of an earlier exchange"
Floating == "of nobody"
Buffer(byte) == [i \in 0..(toReceiveLength - 1) |-> byte]

BusInit ==
    /\ sRumbleEnabled = FALSE
    /\ amplitudes = [low |-> 0, high |-> 0]
    /\ activationCount = 0
    /\ command = <<>>
    /\ byteIndex = 0
    /\ reportedTransactionLength = 2
    /\ sDualShockAcknowledgeReceived = FALSE
    /\ microsWaited = 0
    /\ errored = FALSE
    /\ toReceive = Buffer(Stale)
    /\ replyLength = 0
    /\ pc = "idle"
    /\ ready = FALSE
    /\ heard = <<>>
    /\ length = 0
    /\ felt = 0
    /\ off = 0
    /\ turn = 0

-----------------------------------------------------------------------------
(* The command.                                                            *)

pollCommand == <<\h42, 0>>
otherCommands == {<<\h43, 0, 1>>, <<\h43, 0, 0>>, <<\h44, 0, 1>>,
                  <<\h4D, 0, 0, 1, 255, 255, 255, 255>>}

\* Each motor has the other's strength if it has none of its own.
lowRumbleAmplitude == IF amplitudes.low # 0 THEN amplitudes.low ELSE amplitudes.high
highRumbleAmplitude == IF amplitudes.high # 0 THEN amplitudes.high ELSE amplitudes.low

\* The small motor is on once in so many polls.
DutyCycle(amplitude) ==
    IF amplitude < 16 THEN ZeroQuotient ELSE 15 \div (amplitude \div 16)

\* Slip: the count starts again when it meets the duty cycle, which it has
\* passed if the motor has just become stronger.
ActivateWhenEqual(duty) ==
    IF activationCount + 1 = duty THEN 0 ELSE (activationCount + 1) % 256

Activate(duty) == (activationCount + 1) % duty

\* What polls command of the motors while rumble is enabled.
RumblingPoll ==
    LET duty == DutyCycle(highRumbleAmplitude)
        on == highRumbleAmplitude # 0 /\ activationCount' = 0
        same == felt = highRumbleAmplitude
        polls == IF same THEN off + 1 ELSE 1
    IN  /\ sRumbleEnabled
        /\ activationCount' = IF highRumbleAmplitude # 0 THEN Activate(duty) ELSE activationCount
        /\ command' = pollCommand \o <<IF on THEN 255 ELSE 0, lowRumbleAmplitude>>
        /\ felt' = highRumbleAmplitude
        /\ off' = IF on \/ highRumbleAmplitude = 0 THEN 0 ELSE polls
        /\ turn' = CASE ~same -> -1
                     [] same /\ on -> IF turn = -1 THEN 0 ELSE polls
                     [] OTHER -> turn
        /\ UNCHANGED <<sRumbleEnabled, amplitudes>>

PlainPoll ==
    /\ ~sRumbleEnabled
    /\ command' = pollCommand
    /\ UNCHANGED motorVars

QueuedCommand ==
    /\ command' \in otherCommands
    /\ UNCHANGED motorVars

-----------------------------------------------------------------------------
(* The exchange.                                                           *)

\* ~CS goes low and the controller begins its answer.
BeginExchange ==
    /\ pc = "idle"
    /\ RumblingPoll \/ PlainPoll \/ QueuedCommand
    /\ pc' = "start"
    /\ byteIndex' = 0
    /\ reportedTransactionLength' = 2
    /\ errored' = FALSE
    /\ microsWaited' = 0
    /\ toReceive' = Buffer(Stale)
    /\ ready' = TRUE
    /\ heard' = <<>>
    /\ \E nibble \in Nibbles : length' = (2 * nibble) + 3
    /\ UNCHANGED <<sDualShockAcknowledgeReceived, replyLength>>

\* Slip: the acknowledgement of the byte before is left for this one.
LeaveFlag == UNCHANGED sDualShockAcknowledgeReceived

ClearFlag == sDualShockAcknowledgeReceived' = FALSE

StartByte ==
    /\ pc = "start"
    /\ ClearFlag
    /\ pc' = "clocking"
    /\ UNCHANGED <<motorVars, callVars, replyLength, readyVars>>

\* The byte in SPDR, by its index.
SentByte(i) == CASE i = 0 -> 1
                 [] i \in 1..Len(command) -> command[i]
                 [] OTHER -> 0

\* What the second and the third byte say: a length, and a mark that is
\* neither 0x5a nor 0 if something is wrong.
ReadHeader ==
    IF byteIndex = 1
    THEN /\ \E nibble \in Nibbles \cup {(length - 3) \div 2} :
                reportedTransactionLength' = (2 * nibble) + 3
         /\ UNCHANGED errored
    ELSE /\ errored' \in IF byteIndex # 2 THEN {errored} ELSE IF ready THEN BOOLEAN ELSE {TRUE}
         /\ UNCHANGED reportedTransactionLength

\* SPIF is set: the bytes have changed places.  A controller that is not
\* ready takes none and leaves the line floating.
ByteExchanged ==
    /\ pc = "clocking"
    /\ ReadHeader
    /\ toReceive' = IF byteIndex < toReceiveLength /\ ~errored'
                    THEN [toReceive EXCEPT ![byteIndex] = IF ready THEN byteIndex ELSE Floating]
                    ELSE toReceive
    /\ byteIndex' = IF errored' THEN byteIndex ELSE byteIndex + 1
    /\ pc' = IF errored' THEN "closing" ELSE "stored"
    /\ heard' = IF ready THEN Append(heard, SentByte(byteIndex)) ELSE heard
    /\ ready' = FALSE
    /\ UNCHANGED <<motorVars, command, sDualShockAcknowledgeReceived, microsWaited,
                   replyLength, length>>

\* The flag is read once before the wait, which the last byte goes without.
Stored ==
    /\ pc = "stored"
    /\ pc' = IF byteIndex >= reportedTransactionLength THEN "closing"
             ELSE IF sDualShockAcknowledgeReceived THEN "start" ELSE "waiting"
    /\ microsWaited' = 0
    /\ UNCHANGED <<motorVars, command, byteIndex, reportedTransactionLength, errored,
                   toReceive, sDualShockAcknowledgeReceived, replyLength, readyVars>>

\* Slip: the limit is one the counter does not pass.
NeverTooLong == microsWaited > MicrosModulus - 2

TooLong == microsWaited > AckMicros

Wait ==
    /\ pc = "waiting"
    /\ IF TooLong
       THEN /\ errored' = TRUE
            /\ pc' = "closing"
            /\ UNCHANGED microsWaited
       ELSE /\ microsWaited' = (microsWaited + 2) % MicrosModulus
            /\ pc' = IF sDualShockAcknowledgeReceived THEN "start" ELSE "waiting"
            /\ UNCHANGED errored
    /\ UNCHANGED <<motorVars, command, byteIndex, reportedTransactionLength, toReceive,
                   sDualShockAcknowledgeReceived, replyLength, readyVars>>

\* ~CS goes high.
EndExchange ==
    /\ pc = "closing"
    /\ pc' = "idle"
    /\ replyLength' = IF errored THEN 0 ELSE byteIndex
    /\ UNCHANGED <<motorVars, callVars, sDualShockAcknowledgeReceived, readyVars>>

-----------------------------------------------------------------------------
(* The controller, the Switch.                                             *)

\* The interrupt routine of the acknowledgement.  It may come when nobody
\* waits for it any more, but not once the next exchange has begun.
Acknowledge ==
    /\ ~ready
    /\ pc # "start"
    /\ Len(heard) \in 1..(length - 1)
    /\ ready' = TRUE
    /\ sDualShockAcknowledgeReceived' = TRUE
    /\ UNCHANGED <<motorVars, callVars, replyLength, pc, heard, length>>

\* Reports that carry rumble data count while rumble is enabled; subcommand
\* 0x48 enables or disables it.
Rumble(strengths) ==
    /\ pc = "idle"
    /\ sRumbleEnabled
    /\ amplitudes' = strengths
    /\ UNCHANGED <<sRumbleEnabled, activationCount, felt, off, turn, callVars,
                   sDualShockAcknowledgeReceived, replyLength, pc, readyVars>>

EnableRumble ==
    /\ pc = "idle"
    /\ sRumbleEnabled' \in BOOLEAN
    /\ UNCHANGED <<amplitudes, activationCount, felt, off, turn, callVars,
                   sDualShockAcknowledgeReceived, replyLength, pc, readyVars>>

-----------------------------------------------------------------------------
dualShockCommand == StartByte \/ ByteExchanged \/ Stored \/ Wait \/ EndExchange

BusNext == BeginExchange \/ dualShockCommand \/ Acknowledge \/ EnableRumble
            \/ \E strengths \in Amplitudes : Rumble(strengths)

BusSpec == BusInit /\ [][BusNext]_busVars

\* The program runs; the controller owes it nothing.
BusFairSpec == BusSpec /\ WF_busVars(dualShockCommand)

-----------------------------------------------------------------------------
(* Properties.                                                             *)

\* A result other than 0 is a whole exchange: the controller took all of the
\* command and what it is padded with, and the buffer holds its answer and
\* nothing else, each byte in its place and none of an earlier exchange, for
\* as many bytes as the answer said (main.cpp:198-278).
ExchangeIsWhole ==
    pc = "idle" /\ replyLength # 0 =>
        /\ replyLength = reportedTransactionLength
        /\ heard = [i \in 1..replyLength |-> SentByte(i - 1)]
        /\ \A i \in DOMAIN toReceive : i < replyLength => toReceive[i] = i

\* An exchange ends whether the controller acknowledges or not
\* (main.cpp:251-267).
ExchangeEnds == pc # "idle" ~> pc = "idle"

\* While its strength is unchanged the small motor is on once in exactly as
\* many polls as its duty cycle says, and the first time in no more, wherever
\* the count of another strength stood; one too weak for a duty cycle divides
\* by zero, and hardly ever turns it on (main.cpp:427-434).
PulsesInTurn ==
    felt # 0 => off < DutyCycle(felt) /\ turn \in {-1, 0, DutyCycle(felt)}

=============================================================================
