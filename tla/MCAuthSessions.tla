--------------------------- MODULE MCAuthSessions ---------------------------
(* Instances of AuthSessions for TLC. *)
EXTENDS AuthSessions, TLC

CONSTANTS r1, r2, i1, i2, d1, d2

\* Devices are alike, and so are instances.
Symmetry == Permutations(Device) \cup Permutations(Instance)

=============================================================================
