--------------------------- MODULE MCDualShockLink ---------------------------
(***************************************************************************)
(* Small instances of DualShockLink for TLC: the frame counter wraps at 8  *)
(* and the home button is shown for 2 frames, in the place of 256 and 64.  *)
(***************************************************************************)
EXTENDS DualShockLink

=============================================================================
