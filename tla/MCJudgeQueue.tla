--------------------------- MODULE MCJudgeQueue ---------------------------
(* Instances of JudgeQueue for TLC. *)
EXTENDS JudgeQueue

CONSTANTS i1, i2, s1, s2

=============================================================================
