---------------------------- MODULE MCHaltReport ----------------------------
(* A small instance of HaltReport for TLC. *)
EXTENDS HaltReport

CONSTANTS c1, c2

TwoCommands == {c1, c2}

=============================================================================
