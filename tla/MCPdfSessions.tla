---------------------------- MODULE MCPdfSessions ----------------------------
(* Instances of PdfSessions for TLC. *)
EXTENDS PdfSessions

CONSTANTS r1, r2, r3

=============================================================================
