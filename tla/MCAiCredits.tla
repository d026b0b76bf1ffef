---------------------------- MODULE MCAiCredits ----------------------------
(* Instances of AiCredits for TLC. *)
EXTENDS AiCredits

CONSTANTS r1, r2, r3, u1, k1, PDF, HINT

MCRequest == {r1, r2, r3}
MCUser == {u1}
MCFeature == {PDF, HINT}
MCKey == {k1}
MCUserOf == [r \in MCRequest |-> u1]

\* Two costly calls and a cheap one; FREE has room for a PDF and a hint or
\* for no second PDF, PRO for everything but one.
MCFeatureOf == [r \in MCRequest |-> IF r = r3 THEN HINT ELSE PDF]
MCCost == [f \in MCFeature |-> IF f = PDF THEN 3 ELSE 1]
MCLimit == [p \in {"FREE", "PRO"} |-> IF p = "PRO" THEN 6 ELSE 4]

\* All requests carry one key, or none does.
SharedKey == [r \in MCRequest |-> k1]
NoKeys == [r \in MCRequest |-> None]

=============================================================================
