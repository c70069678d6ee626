------------------------ MODULE MCReportAccumulator ------------------------
(* Small instances of ReportAccumulator for TLC. *)
EXTENDS ReportAccumulator

\* Reports shorter than a packet, of two packets, of many, of the maximum
\* size, and two that end on a packet boundary.
SomeLengths == {2, 8, 10, 16, 49, 63, 64}

=============================================================================
