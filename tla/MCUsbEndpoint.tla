--------------------------- MODULE MCUsbEndpoint ---------------------------
(* Small instances of UsbEndpoint for TLC. *)
EXTENDS UsbEndpoint

\* The second packet is empty: one before and some after it carry data.
SecondEmpty == {2}

=============================================================================
