------------------------- MODULE MCCourseCommunity -------------------------
(* Instances of CourseCommunity for TLC. *)
EXTENDS CourseCommunity

CONSTANTS owner, student, g1, g2, w1, w2

=============================================================================
