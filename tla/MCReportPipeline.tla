-------------------------- MODULE MCReportPipeline --------------------------
(* Small instances of ReportPipeline for TLC. *)
EXTENDS ReportPipeline

\* One operation of each shape of reply that a suspension cannot spoil: shorter
\* than a packet, a multiple of eight bytes (ended by an empty packet), the full
\* 64 bytes, an input report out of turn; and one without a reply.
WaitingOps == {"handshake", "ack", "spiRead", "zero", "stopInput"}

\* The reply that a suspension can spoil.
MacOps == {"macInfo", "ack", "stopInput"}

=============================================================================
