---------------------------- MODULE PacketChannel ----------------------------
(***************************************************************************)
(* What one direction of an endpoint promises: a place for one packet,     *)
(* filled and emptied alternately.  While nothing on the bus is lost every *)
(* packet arrives whole, once, and in the order it was put in.  Once       *)
(* something was lost, a packet may be put in again (OUT: the host did not *)
(* see it accepted) or be lost on its way out (IN: nobody repeats it); the *)
(* order is kept all the same.  Without losses this is the channel         *)
(* ReportPipeline takes the two endpoints to be.                           *)
(***************************************************************************)
EXTENDS Integers

CONSTANTS
    Packets,        \* packet numbers, sent in increasing order
    Empty,          \* no packet, smaller than every packet number
    Repeats,        \* whether a loss makes packets come again
    Loses           \* whether a loss makes packets disappear

VARIABLES
    slot,           \* the packet in the channel, or Empty
    put,            \* the last packet put in, or Empty
    got,            \* the last packet taken out, or Empty
    disturbed       \* something was lost on the bus

channelVars == <<slot, put, got, disturbed>>

ChannelInit ==
    /\ slot = Empty
    /\ put = Empty
    /\ got = Empty
    /\ disturbed = FALSE

Disturb == disturbed' = TRUE \/ UNCHANGED disturbed

Put(packet) ==
    /\ slot = Empty
    /\ packet > put \/ (Repeats /\ disturbed /\ packet = put)
    /\ slot' = packet
    /\ put' = packet
    /\ Disturb
    /\ UNCHANGED got

Take ==
    /\ slot # Empty
    /\ slot' = Empty
    /\ Disturb
    /\ got' = slot \/ (Loses /\ disturbed' /\ UNCHANGED got)
    /\ UNCHANGED put

Lose == Disturb /\ UNCHANGED <<slot, put, got>>

ChannelNext == (\E packet \in Packets : Put(packet)) \/ Take \/ Lose

ChannelSpec == ChannelInit /\ [][ChannelNext]_channelVars /\ WF_channelVars(Take)

=============================================================================
