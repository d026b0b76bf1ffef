--------------------------- MODULE MCSheetProgress ---------------------------
(* Instances of SheetProgress for TLC. *)
EXTENDS SheetProgress

CONSTANTS p1, p2, p3, r1, r2

=============================================================================
