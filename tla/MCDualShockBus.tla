--------------------------- MODULE MCDualShockBus ---------------------------
(* A small instance of DualShockBus for TLC. *)
EXTENDS DualShockBus

\* Too weak for a duty cycle; low only, once in three polls.
MCAmplitudes == {[low |-> 0, high |-> 9], [low |-> 92, high |-> 0]}

=============================================================================
