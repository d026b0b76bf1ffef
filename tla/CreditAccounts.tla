--------------------------- MODULE CreditAccounts ---------------------------
(***************************************************************************)
(* What the credit service promises of its ledger                          *)
(* (services/lms/src/ai-usage/ai-credit.service.ts): one account per user  *)
(* and month that is charged in one step, never above the ceiling of a     *)
(* plan, and refunded in one step, never below zero.                       *)
(***************************************************************************)
EXTENDS Integers

CONSTANTS
  Account,
  Amount,   \* what a feature may cost
  Ceiling   \* what a plan may allow

VARIABLE used

Init == used = [a \in Account |-> 0]

Charge(a, c) ==
  /\ \E l \in Ceiling : used[a] + c <= l
  /\ used' = [used EXCEPT ![a] = @ + c]

Refund(a, c) ==
  /\ used[a] >= c
  /\ used' = [used EXCEPT ![a] = @ - c]

Next == \E a \in Account, c \in Amount : Charge(a, c) \/ Refund(a, c)

Spec == Init /\ [][Next]_used

=============================================================================
