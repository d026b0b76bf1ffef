------------------------------ MODULE Verdicts ------------------------------
(***************************************************************************)
(* What the judge promises a student, without queue, instances or retries: *)
(* a submission waits, gets one verdict that stands, and is then counted   *)
(* as an attempt at most once.  A job that an instance puts back while     *)
(* another is judging it is forfeited: nothing is promised about it.       *)
(***************************************************************************)
EXTENDS Naturals

CONSTANTS Job, Verdict

VARIABLES answer, counted

vars == <<answer, counted>>

Init ==
  /\ answer = [j \in Job |-> "none"]
  /\ counted = [j \in Job |-> 0]

Submit(j) ==
  /\ answer[j] = "none"
  /\ answer' = [answer EXCEPT ![j] = "pending"]
  /\ UNCHANGED counted

Settle(j) ==
  /\ answer[j] = "pending"
  /\ \E v \in Verdict : answer' = [answer EXCEPT ![j] = v]
  /\ UNCHANGED counted

Count(j) ==
  /\ answer[j] \in Verdict /\ counted[j] = 0
  /\ counted' = [counted EXCEPT ![j] = 1]
  /\ UNCHANGED answer

Forfeit(J) ==
  /\ answer' = [j \in Job |-> IF j \in J THEN "forfeited" ELSE answer[j]]
  /\ counted' = [j \in Job |-> IF j \in J THEN 0 ELSE counted[j]]

Next ==
  \/ \E j \in Job : Submit(j) \/ Settle(j) \/ Count(j)
  \/ \E J \in SUBSET Job : Forfeit(J)

Spec == Init /\ [][Next]_vars
=============================================================================
