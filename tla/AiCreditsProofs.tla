--------------------------- MODULE AiCreditsProofs ---------------------------
(***************************************************************************)
(* Theorems about AiCredits, for any sets of requests, users, features and *)
(* keys, any costs and limits that satisfy CostAssumption, any faults.     *)
(***************************************************************************)
EXTENDS AiCredits, FiniteSetTheorems, TLAPS

USE DEF clock, plans, ledger, keys, locals, books

LEMMA AccountOf ==
  ASSUME TypeOK, NEW r \in Request
  PROVE  /\ CostOf(r) \in Nat /\ CostOf(r) > 0
         /\ CostOf(r) <= Limit["FREE"]
         /\ FeatureOf[r] \in Feature
         /\ Reserved(r) \in Account
         /\ Released(r) \in Account
BY RequestAssumption, CostAssumption DEF TypeOK, CostOf, Reserved, Released, Account

LEMMA GotoType ==
  ASSUME TypeOK, NEW r \in Request, NEW l \in Location, Goto(r, l)
  PROVE  pc' \in [Request -> Location]
BY DEF TypeOK, Goto

LEMMA AfterCheckType ==
  ASSUME NEW s \in Status
  PROVE  AfterCheck[s] \in {"claim", "conflict", "cached", "reclaim"}
BY DEF AfterCheck, Status

\* An update of a key's record writes that record if it exists, nothing else.
LEMMA SetStatusEffect ==
  ASSUME keyStatus \in [Key -> Status], NEW k \in Key, NEW s \in Status,
         SetStatus(k, s), NEW j \in Key
  PROVE  \/ keyStatus'[j] = keyStatus[j]
         \/ keyStatus[j] # "none" /\ keyStatus'[j] = s
<1>1. CASE keyStatus[k] = "none"
  BY <1>1 DEF SetStatus
<1>2. CASE keyStatus[k] # "none"
  BY <1>2 DEF SetStatus
<1>. QED  BY <1>1, <1>2

\* Updating one cell of a table of tables keeps it one.
LEMMA CellType ==
  ASSUME NEW S, NEW T, NEW f \in [S -> [T -> Int]], NEW a \in S, NEW b \in T,
         NEW v \in Int
  PROVE  [f EXCEPT ![a][b] = v] \in [S -> [T -> Int]]
OBVIOUS

\* The requests that are at an operation on their key have one.
Keyed == \A r \in Request :
  pc[r] \in {"check", "claim", "reclaim", "commit", "mark"} => KeyOf[r] \in Key

Typed == TypeOK /\ Keyed

-----------------------------------------------------------------------------
LEMMA TypeInitially == Init => Typed
BY RequestAssumption, BoundAssumption DEF Init, Typed, TypeOK, Keyed, Month, Account, Status, Location, Plan

\* Each step of a request keeps the types.
LEMMA TypeProceed ==
  ASSUME Typed, NEW r \in Request, Proceed(r)
  PROVE  TypeOK'
<1> USE DEF Typed
<1>1. CASE BypassReturns(r)
  BY <1>1 DEF BypassReturns, TypeOK, Goto, Location, Ended
<1>2. CASE CheckKey(r)
  <2>1. AfterCheck[keyStatus[KeyOf[r]]] \in Location
    BY <1>2, AfterCheckType DEF CheckKey, Keyed, TypeOK, Location, Throwing, Ended
  <2>. QED  BY <1>2, <2>1, GotoType DEF CheckKey, TypeOK
<1>3. CASE ClaimKey(r)
  <2>1. KeyOf[r] \in Key
    BY <1>3 DEF ClaimKey, Keyed
  <2>2. /\ keyStatus' \in [Key -> Status]
        /\ claimedBy' \in [Key -> Request \cup {None}]
    BY <1>3, <2>1 DEF ClaimKey, TypeOK, Status
  <2>3. pc' \in [Request -> Location]
    BY <1>3 DEF ClaimKey, TypeOK, Goto, Location, Ended
  <2>. QED  BY <1>3, <2>2, <2>3 DEF ClaimKey, TypeOK
<1>4. CASE ReclaimKey(r)
  BY <1>4 DEF ReclaimKey, SetStatus, Keyed, TypeOK, Goto, Location, Status
<1>5. CASE StampMonth(r)
  BY <1>5 DEF StampMonth, MonthKey, TypeOK, Goto, Location
<1>6. CASE ReadPlan(r)
  <2>1. Limit[plan[UserOf[r]]] \in Int /\ Limit["FREE"] \in Int
    BY RequestAssumption, CostAssumption DEF TypeOK, Plan
  <2>. QED  BY <1>6, <2>1 DEF ReadPlan, TypeOK, Goto, Location, Throwing
<1>7. CASE FindLedger(r)
  BY <1>7 DEF FindLedger, TypeOK, Goto, Location, Throwing
<1>8. CASE CreateLedger(r)
  <2>1. creditsUsed' \in [Account -> Int] /\ ledgers' \subseteq Account
    BY <1>8, AccountOf DEF CreateLedger, TypeOK
  <2>2. featureUsage' \in [Account -> [Feature -> Int]]
    <3>1. [f \in Feature |-> IF f = FeatureOf[r] THEN CostOf(r) ELSE 0] \in [Feature -> Int]
      BY AccountOf
    <3>. QED  BY <1>8, <3>1, AccountOf DEF CreateLedger, TypeOK
  <2>3. pc' \in [Request -> Location]
    BY <1>8, AccountOf DEF CreateLedger, TypeOK, Goto, Location, Throwing
  <2>. QED  BY <1>8, <2>1, <2>2, <2>3 DEF CreateLedger, TypeOK
<1>9. CASE IncLedger(r)
  <2>1. creditsUsed' \in [Account -> Int]
    BY <1>9, AccountOf DEF IncLedger, TypeOK
  <2>2. featureUsage' \in [Account -> [Feature -> Int]]
    <3>1. CASE HasRoom(r)
      <4>1. featureUsage[Reserved(r)][FeatureOf[r]] + CostOf(r) \in Int
        BY AccountOf DEF TypeOK
      <4>2. featureUsage' = [featureUsage EXCEPT ![Reserved(r)][FeatureOf[r]] = @ + CostOf(r)]
        BY <1>9, <3>1 DEF IncLedger
      <4>. QED  BY <4>1, <4>2, AccountOf, CellType DEF TypeOK
    <3>2. CASE ~ HasRoom(r)
      BY <1>9, <3>2 DEF IncLedger, TypeOK
    <3>. QED  BY <3>1, <3>2
  <2>3. pc' \in [Request -> Location]
    BY <1>9, AccountOf DEF IncLedger, TypeOK, Goto, Location, Throwing
  <2>. QED  BY <1>9, <2>1, <2>2, <2>3 DEF IncLedger, TypeOK
<1>10. CASE Reread(r)
  BY <1>10 DEF Reread, TypeOK, Goto, Location
<1>11. CASE Deny(r)
  BY <1>11 DEF Deny, TypeOK, Goto, Location, Ended
<1>12. CASE RunSucceeds(r)
  BY <1>12 DEF RunSucceeds, TypeOK, Goto, Location, Ended
<1>13. CASE RunFails(r)
  BY <1>13 DEF RunFails, MonthKey, TypeOK, Goto, Location
<1>14. CASE CommitKey(r)
  BY <1>14 DEF CommitKey, SetStatus, Keyed, TypeOK, Goto, Location, Ended, Status
<1>15. CASE ReleaseCredits(r)
  <2>1. creditsUsed' \in [Account -> Int]
    BY <1>15, AccountOf DEF ReleaseCredits, TypeOK
  <2>2. featureUsage' \in [Account -> [Feature -> Int]]
    <3>1. CASE UNCHANGED featureUsage
      BY <3>1 DEF TypeOK
    <3>2. CASE ~ UNCHANGED featureUsage
      <4>1. featureUsage[Released(r)][FeatureOf[r]] - CostOf(r) \in Int
        BY AccountOf DEF TypeOK
      <4>2. featureUsage' = [featureUsage EXCEPT ![Released(r)][FeatureOf[r]] = @ - CostOf(r)]
        BY <1>15, <3>2 DEF ReleaseCredits
      <4>. QED  BY <4>1, <4>2, AccountOf, CellType DEF TypeOK
    <3>. QED  BY <3>1, <3>2
  <2>3. pc' \in [Request -> Location]
    BY <1>15, AccountOf DEF ReleaseCredits, TypeOK, Goto, Location, Ended
  <2>4. held' \subseteq Request /\ stray' \subseteq Request
    BY <1>15, AccountOf DEF ReleaseCredits, TypeOK
  <2>. QED  BY <1>15, <2>1, <2>2, <2>3, <2>4 DEF ReleaseCredits, TypeOK
<1>16. CASE MarkFailed(r)
  BY <1>16 DEF MarkFailed, SetStatus, Keyed, TypeOK, Goto, Location, Ended, Status
<1>. QED
  BY <1>1, <1>2, <1>3, <1>4, <1>5, <1>6, <1>7, <1>8, <1>9, <1>10, <1>11,
     <1>12, <1>13, <1>14, <1>15, <1>16 DEF Proceed

LEMMA TypeStep == Typed /\ [Next]_vars => TypeOK'
<1> SUFFICES ASSUME Typed, [Next]_vars PROVE TypeOK'
  OBVIOUS
<1>1. CASE \E r \in Request :
             Arrive(r) \/ ArriveBypass(r) \/ Throw(r) \/ Crash(r)
  BY <1>1 DEF Arrive, ArriveBypass, Throw, Crash, Typed, TypeOK, Goto,
              Location, Throwing, Ended
<1>2. CASE \E r \in Request : Proceed(r)
  BY <1>2, TypeProceed
<1>3. CASE \E k \in Key : ExpireKey(k)
  BY <1>3 DEF ExpireKey, Typed, TypeOK, Status
<1>4. CASE \E u \in User : ChangePlan(u)
  BY <1>4 DEF ChangePlan, Typed, TypeOK
<1>5. CASE NextMonth
  BY <1>5, BoundAssumption DEF NextMonth, Typed, TypeOK, Month
<1>6. CASE UNCHANGED vars
  BY <1>6 DEF vars, Typed, TypeOK
<1>. QED  BY <1>1, <1>2, <1>3, <1>4, <1>5, <1>6 DEF Next

\* Only a request that carries a key goes to an operation on it.
LEMMA KeyedStep == Typed /\ [Next]_vars => Keyed'
<1> SUFFICES ASSUME Typed, [Next]_vars, NEW q \in Request,
                    pc'[q] \in {"check", "claim", "reclaim", "commit", "mark"}
             PROVE  KeyOf[q] \in Key
  BY DEF Keyed
<1> USE RequestAssumption DEF Typed, Keyed, Goto
<1>0. pc \in [Request -> Location] /\ keyStatus \in [Key -> Status]
  BY DEF TypeOK
<1>1. CASE \E r \in Request :
             Arrive(r) \/ ArriveBypass(r) \/ Throw(r) \/ Crash(r)
  BY <1>0, <1>1 DEF Arrive, ArriveBypass, Throw, Crash
<1>2. ASSUME NEW r \in Request, Proceed(r)
      PROVE  KeyOf[q] \in Key
  <2>1. CASE CheckKey(r) \/ ClaimKey(r) \/ ReclaimKey(r)
    BY <1>0, <2>1, AfterCheckType DEF CheckKey, ClaimKey, ReclaimKey
  <2>2. CASE StampMonth(r) \/ ReadPlan(r) \/ FindLedger(r) \/ CreateLedger(r)
               \/ IncLedger(r) \/ Reread(r) \/ Deny(r) \/ BypassReturns(r)
    BY <1>0, <2>2 DEF StampMonth, ReadPlan, FindLedger, CreateLedger, IncLedger,
                Reread, Deny, BypassReturns
  <2>3. CASE RunSucceeds(r) \/ RunFails(r) \/ CommitKey(r)
               \/ ReleaseCredits(r) \/ MarkFailed(r)
    BY <1>0, <2>3 DEF RunSucceeds, RunFails, CommitKey, ReleaseCredits, MarkFailed
  <2>. QED  BY <1>2, <2>1, <2>2, <2>3 DEF Proceed
<1>3. CASE (\E k \in Key : ExpireKey(k)) \/ (\E u \in User : ChangePlan(u))
             \/ NextMonth \/ UNCHANGED vars
  BY <1>0, <1>3 DEF ExpireKey, ChangePlan, NextMonth, vars
<1>. QED  BY <1>1, <1>2, <1>3 DEF Next

LEMMA TypedAlways == Spec => []Typed
<1>1. Typed /\ [Next]_vars => Typed'
  BY TypeStep, KeyedStep DEF Typed
<1>. QED  BY <1>1, TypeInitially, PTL DEF Spec

\* Every variable keeps its type, which takes that only requests with a key
\* reach the idempotency operations.
THEOREM TypeCorrect == Spec => []TypeOK
BY TypedAlways, PTL DEF Typed

-----------------------------------------------------------------------------
(***************************************************************************)
(* The ledger is never overdrawn.  WithinAllowance is not inductive: the   *)
(* conditional update compares with a limit read earlier, perhaps from a   *)
(* plan the user has left, so the invariant bounds every limit a request   *)
(* holds.                                                                  *)
(***************************************************************************)
Budgeted ==
  /\ WithinAllowance
  /\ \A r \in Request : resLimit[r] <= Allowance(UserOf[r])
  /\ \A u \in User : plan[u] = "PRO" => u \in everPro

LEMMA AllowanceBounds ==
  ASSUME NEW u \in User
  PROVE  /\ Allowance(u) \in Nat /\ Limit["FREE"] <= Allowance(u)
         /\ Allowance(u) <= Limit["PRO"]
BY CostAssumption DEF Allowance, Plan

\* Whether the account and the limits are within bounds depends on these only.
LEMMA BudgetFrame ==
  ASSUME Budgeted, UNCHANGED <<plan, everPro, creditsUsed, resLimit>>
  PROVE  Budgeted'
BY DEF Budgeted, WithinAllowance, Allowance

\* One account is charged or refunded and the result is within bounds.
LEMMA BudgetUpdate ==
  ASSUME TypeOK, Budgeted, UNCHANGED <<plan, everPro, resLimit>>,
         NEW r \in Request, NEW a \in Account, a[1] = UserOf[r],
         NEW n \in Nat, n <= Allowance(UserOf[r]),
         creditsUsed' = [creditsUsed EXCEPT ![a] = n]
  PROVE  Budgeted'
<1>1. WithinAllowance'
  <2> SUFFICES ASSUME NEW u \in User, NEW m \in Month
               PROVE  0 <= creditsUsed'[<<u, m>>] /\ creditsUsed'[<<u, m>>] <= Allowance(u)'
    BY DEF WithinAllowance
  <2>1. Allowance(u)' = Allowance(u)
    BY DEF Allowance
  <2>2. <<u, m>> \in Account
    BY DEF Account
  <2>3. CASE <<u, m>> = a
    BY <2>1, <2>2, <2>3 DEF TypeOK
  <2>4. CASE <<u, m>> # a
    BY <2>1, <2>2, <2>4 DEF TypeOK, Budgeted, WithinAllowance
  <2>. QED  BY <2>3, <2>4
<1>2. \A q \in Request : resLimit'[q] <= Allowance(UserOf[q])'
  BY DEF Budgeted, Allowance
<1>. QED  BY <1>1, <1>2 DEF Budgeted

LEMMA BudgetInitially == Init => Budgeted
BY RequestAssumption, CostAssumption, AllowanceBounds
   DEF Init, Budgeted, WithinAllowance, Account, Month, Allowance, Plan

LEMMA BudgetProceed ==
  ASSUME TypeOK, Budgeted, NEW r \in Request, Proceed(r)
  PROVE  Budgeted'
<1>0. CostOf(r) \in Nat /\ CostOf(r) <= Allowance(UserOf[r]) /\ UserOf[r] \in User
  BY AccountOf, AllowanceBounds, RequestAssumption, CostAssumption DEF Plan
<1>1. CASE ReadPlan(r)
  <2>1. Limit["FREE"] <= Allowance(UserOf[r]) /\ Limit[plan[UserOf[r]]] <= Allowance(UserOf[r])
    BY <1>0, AllowanceBounds, CostAssumption DEF TypeOK, Budgeted, Allowance, Plan
  <2>2. \A q \in Request : resLimit'[q] <= Allowance(UserOf[q])
    BY <1>1, <2>1 DEF ReadPlan, TypeOK, Budgeted
  <2>. QED  BY <1>1, <2>2 DEF ReadPlan, Budgeted, WithinAllowance, Allowance
<1>2. CASE CreateLedger(r)
  <2>1. CASE NoLedgerYet(r)
    <3>1. Reserved(r)[1] = UserOf[r]
      BY DEF Reserved
    <3>. QED  BY <1>0, <1>2, <2>1, <3>1, BudgetUpdate, AccountOf DEF CreateLedger
  <2>2. CASE ~ NoLedgerYet(r)
    BY <1>2, <2>2, BudgetFrame DEF CreateLedger
  <2>. QED  BY <2>1, <2>2
<1>3. CASE IncLedger(r)
  <2>1. CASE HasRoom(r)
    <3>1. Reserved(r)[1] = UserOf[r]
      BY DEF Reserved
    <3>2. creditsUsed[Reserved(r)] \in Nat
      BY <1>0, AccountOf DEF Budgeted, WithinAllowance, TypeOK, Reserved
    <3>3. creditsUsed[Reserved(r)] + CostOf(r) <= Allowance(UserOf[r])
      BY <1>0, <2>1, <3>2, AllowanceBounds DEF HasRoom, Budgeted, TypeOK
    <3>4. creditsUsed' = [creditsUsed EXCEPT ![Reserved(r)] = creditsUsed[Reserved(r)] + CostOf(r)]
      BY <1>3, <2>1 DEF IncLedger
    <3>5. creditsUsed[Reserved(r)] + CostOf(r) \in Nat
      BY <1>0, <3>2
    <3>6. UNCHANGED <<plan, everPro, resLimit>>
      BY <1>3 DEF IncLedger
    <3>7. Reserved(r) \in Account
      BY AccountOf
    <3>. QED  BY <3>1, <3>3, <3>4, <3>5, <3>6, <3>7, BudgetUpdate
  <2>2. CASE ~ HasRoom(r)
    BY <1>3, <2>2, BudgetFrame DEF IncLedger
  <2>. QED  BY <2>1, <2>2
<1>4. CASE ReleaseCredits(r)
  <2>1. CASE CanRelease(r) /\ ~ UNCHANGED creditsUsed
    <3>1. Released(r)[1] = UserOf[r]
      BY DEF Released
    <3>2. /\ creditsUsed[Released(r)] - CostOf(r) \in Nat
          /\ creditsUsed[Released(r)] - CostOf(r) <= Allowance(UserOf[r])
      BY <1>0, <2>1, AccountOf, AllowanceBounds
         DEF Budgeted, WithinAllowance, TypeOK, Released, CanRelease
    <3>3. creditsUsed' = [creditsUsed EXCEPT ![Released(r)] = creditsUsed[Released(r)] - CostOf(r)]
      BY <1>4, <2>1 DEF ReleaseCredits
    <3>. QED  BY <1>4, <3>1, <3>2, <3>3, BudgetUpdate, AccountOf DEF ReleaseCredits
  <2>2. CASE ~ CanRelease(r) \/ UNCHANGED creditsUsed
    BY <1>4, <2>2, BudgetFrame DEF ReleaseCredits
  <2>. QED  BY <2>1, <2>2
<1>5. CASE BypassReturns(r) \/ CheckKey(r) \/ ClaimKey(r) \/ ReclaimKey(r)
             \/ StampMonth(r) \/ FindLedger(r) \/ Reread(r) \/ Deny(r)
             \/ RunSucceeds(r) \/ RunFails(r) \/ CommitKey(r) \/ MarkFailed(r)
  BY <1>5, BudgetFrame
     DEF BypassReturns, CheckKey, ClaimKey, ReclaimKey, StampMonth, FindLedger,
         Reread, Deny, RunSucceeds, RunFails, CommitKey, MarkFailed
<1>. QED  BY <1>1, <1>2, <1>3, <1>4, <1>5 DEF Proceed

LEMMA BudgetStep == TypeOK /\ Budgeted /\ [Next]_vars => Budgeted'
<1> SUFFICES ASSUME TypeOK, Budgeted, [Next]_vars PROVE Budgeted'
  OBVIOUS
<1>1. CASE \E r \in Request : Proceed(r)
  BY <1>1, BudgetProceed
<1>2. CASE \E u \in User : ChangePlan(u)
  <2>0. PICK u \in User : ChangePlan(u)
    BY <1>2
  <2>1. PICK p \in Plan :
             /\ plan' = [plan EXCEPT ![u] = p]
             /\ everPro' = IF p = "PRO" THEN everPro \cup {u} ELSE everPro
    BY <2>0 DEF ChangePlan
  <2>2. everPro \subseteq everPro' /\ UNCHANGED <<creditsUsed, resLimit>>
    BY <2>0, <2>1 DEF ChangePlan
  <2>3. \A w \in User : Allowance(w) <= Allowance(w)' /\ Allowance(w)' \in Nat /\ Allowance(w) \in Nat
    BY <2>2, CostAssumption DEF Allowance, Plan
  <2>4. WithinAllowance'
    <3> SUFFICES ASSUME NEW w \in User, NEW m \in Month
                 PROVE  0 <= creditsUsed'[<<w, m>>] /\ creditsUsed'[<<w, m>>] <= Allowance(w)'
      BY DEF WithinAllowance
    <3>1. creditsUsed[<<w, m>>] \in Int
      BY DEF TypeOK, Account
    <3>2. 0 <= creditsUsed[<<w, m>>] /\ creditsUsed[<<w, m>>] <= Allowance(w)
      BY DEF Budgeted, WithinAllowance
    <3>. QED  BY <2>2, <2>3, <3>1, <3>2
  <2>5. \A r \in Request : resLimit'[r] <= Allowance(UserOf[r])'
    BY <2>2, <2>3, RequestAssumption DEF Budgeted, TypeOK
  <2>6. \A w \in User : plan'[w] = "PRO" => w \in everPro'
    BY <2>1, <2>2 DEF Budgeted, TypeOK
  <2>. QED  BY <2>2, <2>4, <2>5, <2>6 DEF Budgeted
<1>3. CASE \/ \E r \in Request : Arrive(r) \/ ArriveBypass(r) \/ Throw(r) \/ Crash(r)
           \/ \E k \in Key : ExpireKey(k)
           \/ NextMonth \/ UNCHANGED vars
  BY <1>3, BudgetFrame DEF Arrive, ArriveBypass, Throw, Crash, ExpireKey, NextMonth, vars
<1>. QED  BY <1>1, <1>2, <1>3 DEF Next

\* AiCredits!WithinAllowance for every instance: reserveCredits and
\* releaseCredits, in any interleaving, keep a month's creditsUsed between
\* zero and the allowance of the best plan the user has had.
THEOREM NeverOverdrawn == Spec => []WithinAllowance
<1>1. Budgeted => WithinAllowance
  BY DEF Budgeted
<1>. QED  BY <1>1, BudgetInitially, BudgetStep, TypedAlways, PTL DEF Spec, Typed

-----------------------------------------------------------------------------
(***************************************************************************)
(* One execution per key.  While a key has not been reopened, whoever has  *)
(* got past checkIdempotency with it is the request that created its       *)
(* record, the record is still there, and nobody has seen it FAILED.       *)
(***************************************************************************)
PastClaim ==
  {"reserve", "plan", "find", "create", "inc", "reread", "deny", "run",
   "commit", "release", "mark"}

Passed(r) == KeyOf[r] \in Key /\ (pc[r] \in PastClaim \/ r \in ran)

ClaimExclusive ==
  /\ \A r \in Request : Passed(r) /\ KeyOf[r] \notin reopened =>
       claimedBy[KeyOf[r]] = r /\ keyStatus[KeyOf[r]] # "none"
  /\ \A r \in Request : pc[r] = "reclaim" => KeyOf[r] \in reopened
  /\ \A k \in Key : keyStatus[k] = "FAILED" => k \in reopened

LEMMA ClaimInitially == Init => ClaimExclusive
BY DEF Init, ClaimExclusive, Passed, PastClaim

\* A request that moves from one place past the claim to another, or away,
\* and leaves the keys alone.
LEMMA ClaimFrame ==
  ASSUME TypeOK, ClaimExclusive, NEW r \in Request,
         UNCHANGED <<keyStatus, claimedBy, reopened>>,
         \A q \in Request \ {r} : pc'[q] = pc[q] /\ (q \in ran' <=> q \in ran),
         Passed(r)' => Passed(r),
         pc'[r] # "reclaim"
  PROVE  ClaimExclusive'
BY DEF ClaimExclusive, Passed

LEMMA ClaimProceed ==
  ASSUME Typed, ClaimExclusive, NEW r \in Request, Proceed(r)
  PROVE  ClaimExclusive'
<1> USE DEF Typed
<1>0. pc \in [Request -> Location] /\ keyStatus \in [Key -> Status]
      /\ claimedBy \in [Key -> Request \cup {None}]
  BY DEF TypeOK
<1>1. CASE CheckKey(r)
  <2>1. KeyOf[r] \in Key
    BY <1>1 DEF CheckKey, Keyed
  <2>2. pc' = [pc EXCEPT ![r] = AfterCheck[keyStatus[KeyOf[r]]]]
    BY <1>1 DEF CheckKey, Goto
  <2>3. AfterCheck[keyStatus[KeyOf[r]]] \in {"claim", "conflict", "cached", "reclaim"}
    BY <1>0, <2>1, AfterCheckType
  <2>4. CASE keyStatus[KeyOf[r]] = "FAILED"
    BY <1>0, <1>1, <2>1, <2>2, <2>3, <2>4 DEF CheckKey, ClaimExclusive, Passed, PastClaim
  <2>5. CASE keyStatus[KeyOf[r]] # "FAILED"
    <3>1. AfterCheck[keyStatus[KeyOf[r]]] # "reclaim"
      BY <1>0, <2>1, <2>5 DEF AfterCheck, Status
    <3>2. Passed(r)' => Passed(r)
      BY <1>0, <1>1, <2>2, <2>3 DEF CheckKey, Passed, PastClaim
    <3>. QED  BY <1>0, <1>1, <2>2, <3>1, <3>2, ClaimFrame DEF CheckKey
  <2>. QED  BY <2>4, <2>5
<1>2. CASE ClaimKey(r)
  <2>1. KeyOf[r] \in Key
    BY <1>2 DEF ClaimKey, Keyed
  <2>2. CASE keyStatus[KeyOf[r]] = "none"
    <3>1. /\ pc' = [pc EXCEPT ![r] = "reserve"] /\ UNCHANGED <<ran, reopened>>
          /\ keyStatus' = [keyStatus EXCEPT ![KeyOf[r]] = "PENDING"]
          /\ claimedBy' = [claimedBy EXCEPT ![KeyOf[r]] = r]
      BY <1>2, <2>2 DEF ClaimKey, Goto
    <3>2. ASSUME NEW q \in Request, Passed(q)', KeyOf[q] \notin reopened
          PROVE  claimedBy'[KeyOf[q]] = q /\ keyStatus'[KeyOf[q]] # "none"
      <4>1. CASE q = r
        BY <1>0, <2>1, <3>1, <4>1
      <4>2. CASE q # r
        <5>1. Passed(q)
          BY <1>0, <3>1, <3>2, <4>2 DEF Passed
        <5>2. KeyOf[q] # KeyOf[r]
          BY <2>2, <3>2, <5>1 DEF ClaimExclusive
        <5>. QED  BY <1>0, <3>1, <3>2, <5>1, <5>2 DEF ClaimExclusive, Passed
      <4>. QED  BY <4>1, <4>2
    <3>3. \A q \in Request : pc'[q] = "reclaim" => KeyOf[q] \in reopened
      BY <1>0, <3>1 DEF ClaimExclusive
    <3>4. \A k \in Key : keyStatus'[k] = "FAILED" => k \in reopened
      BY <1>0, <3>1 DEF ClaimExclusive
    <3>. QED  BY <3>1, <3>2, <3>3, <3>4 DEF ClaimExclusive
  <2>3. CASE keyStatus[KeyOf[r]] # "none"
    <3>1. pc' = [pc EXCEPT ![r] = "conflict"] /\ UNCHANGED <<ran, keyStatus, claimedBy, reopened>>
      BY <1>2, <2>3 DEF ClaimKey, Goto
    <3>2. Passed(r)' => Passed(r)
      BY <1>0, <3>1 DEF Passed, PastClaim
    <3>. QED  BY <1>0, <3>1, <3>2, ClaimFrame
  <2>. QED  BY <2>2, <2>3
<1>3. CASE ReclaimKey(r)
  <2>1. KeyOf[r] \in Key /\ KeyOf[r] \in reopened
    BY <1>3 DEF ReclaimKey, Keyed, ClaimExclusive
  <2>2. /\ pc' = [pc EXCEPT ![r] = "reserve"] /\ UNCHANGED <<ran, claimedBy, reopened>>
        /\ \A k \in Key \ {KeyOf[r]} : keyStatus'[k] = keyStatus[k]
        /\ keyStatus'[KeyOf[r]] # "FAILED"
    BY <1>0, <1>3, <2>1 DEF ReclaimKey, SetStatus, Goto
  <2>3. \A q \in Request : Passed(q)' /\ q # r => Passed(q)
    BY <1>0, <2>2 DEF Passed
  <2>. QED  BY <1>0, <2>1, <2>2, <2>3 DEF ClaimExclusive, Passed
<1>4. CASE CommitKey(r)
  <2>1. KeyOf[r] \in Key
    BY <1>4 DEF CommitKey, Keyed
  <2>2. /\ pc' = [pc EXCEPT ![r] = "done"] /\ UNCHANGED <<ran, claimedBy, reopened>>
        /\ \A k \in Key : keyStatus'[k] = keyStatus[k]
             \/ (keyStatus[k] # "none" /\ keyStatus'[k] = "COMPLETED")
    <3>1. SetStatus(KeyOf[r], "COMPLETED") \/ UNCHANGED keyStatus
      BY <1>4 DEF CommitKey
    <3>2. \A k \in Key : keyStatus'[k] = keyStatus[k]
             \/ (keyStatus[k] # "none" /\ keyStatus'[k] = "COMPLETED")
      <4>1. "COMPLETED" \in Status
        BY DEF Status
      <4>2. CASE SetStatus(KeyOf[r], "COMPLETED")
        BY <1>0, <2>1, <4>1, <4>2, SetStatusEffect
      <4>3. CASE UNCHANGED keyStatus
        BY <3>1, <4>3
      <4>. QED  BY <3>1, <4>2, <4>3
    <3>. QED  BY <1>4, <3>2 DEF CommitKey, Goto
  <2>3. \A q \in Request : Passed(q)' => Passed(q)
    BY <1>0, <2>2 DEF Passed, PastClaim
  <2>. QED  BY <1>0, <2>2, <2>3 DEF ClaimExclusive, Passed
<1>5. CASE MarkFailed(r)
  <2>1. KeyOf[r] \in Key
    BY <1>5 DEF MarkFailed, Keyed
  <2>2. /\ pc' = [pc EXCEPT ![r] = "failed"] /\ UNCHANGED <<ran, claimedBy>>
        /\ \A k \in Key : keyStatus'[k] = keyStatus[k]
                            \/ (keyStatus'[k] = "FAILED" /\ k \in reopened')
        /\ reopened \subseteq reopened'
    <3>1. \/ SetStatus(KeyOf[r], "FAILED") /\ reopened' = reopened \cup {KeyOf[r]}
          \/ UNCHANGED <<keyStatus, reopened>>
      BY <1>5 DEF MarkFailed
    <3>3. reopened \subseteq reopened'
      BY <3>1
    <3>2. \A k \in Key : keyStatus'[k] = keyStatus[k]
                            \/ (keyStatus'[k] = "FAILED" /\ k \in reopened')
      <4>2. CASE SetStatus(KeyOf[r], "FAILED") /\ reopened' = reopened \cup {KeyOf[r]}
        BY <2>1, <4>2 DEF SetStatus
      <4>3. CASE UNCHANGED <<keyStatus, reopened>>
        BY <4>3
      <4>. QED  BY <3>1, <4>2, <4>3
    <3>. QED  BY <1>5, <3>2, <3>3 DEF MarkFailed, Goto
  <2>3. \A q \in Request : Passed(q)' => Passed(q)
    BY <1>0, <2>2 DEF Passed, PastClaim
  <2>. QED  BY <1>0, <2>2, <2>3 DEF ClaimExclusive, Passed
<1>6. CASE BypassReturns(r)
  BY <1>0, <1>6, ClaimFrame DEF BypassReturns, Goto, Passed, PastClaim
<1>7. CASE StampMonth(r) \/ ReadPlan(r) \/ FindLedger(r) \/ Reread(r) \/ Deny(r)
  BY <1>0, <1>7, ClaimFrame
     DEF StampMonth, ReadPlan, FindLedger, Reread, Deny, Goto, Passed, PastClaim
<1>8. CASE CreateLedger(r) \/ IncLedger(r)
  BY <1>0, <1>8, ClaimFrame DEF CreateLedger, IncLedger, Goto, Passed, PastClaim
<1>9. CASE RunSucceeds(r) \/ RunFails(r) \/ ReleaseCredits(r)
  BY <1>0, <1>9, ClaimFrame
     DEF RunSucceeds, RunFails, ReleaseCredits, Goto, Passed, PastClaim
<1>. QED
  BY <1>1, <1>2, <1>3, <1>4, <1>5, <1>6, <1>7, <1>8, <1>9 DEF Proceed

LEMMA ClaimStep == Typed /\ ClaimExclusive /\ [Next]_vars => ClaimExclusive'
<1> SUFFICES ASSUME Typed, ClaimExclusive, [Next]_vars PROVE ClaimExclusive'
  OBVIOUS
<1>0. pc \in [Request -> Location] /\ keyStatus \in [Key -> Status]
  BY DEF Typed, TypeOK
<1>1. CASE \E r \in Request : Proceed(r)
  BY <1>1, ClaimProceed
<1>2. ASSUME NEW r \in Request, Arrive(r) \/ ArriveBypass(r) \/ Throw(r) \/ Crash(r)
      PROVE  ClaimExclusive'
  <2>1. Passed(r)' => Passed(r)
    BY <1>0, <1>2, RequestAssumption
       DEF Arrive, ArriveBypass, Throw, Crash, Goto, Passed, PastClaim
  <2>2. pc'[r] # "reclaim" /\ UNCHANGED <<ran, keyStatus, claimedBy, reopened>>
    BY <1>0, <1>2 DEF Arrive, ArriveBypass, Throw, Crash, Goto
  <2>3. \A q \in Request \ {r} : pc'[q] = pc[q]
    BY <1>0, <1>2 DEF Arrive, ArriveBypass, Throw, Crash, Goto
  <2>. QED  BY <2>1, <2>2, <2>3, ClaimFrame DEF Typed
<1>3. ASSUME NEW k \in Key, ExpireKey(k)
      PROVE  ClaimExclusive'
  BY <1>0, <1>3 DEF ExpireKey, ClaimExclusive, Passed
<1>4. CASE (\E u \in User : ChangePlan(u)) \/ NextMonth \/ UNCHANGED vars
  BY <1>4 DEF ChangePlan, NextMonth, vars, ClaimExclusive, Passed
<1>. QED  BY <1>1, <1>2, <1>3, <1>4 DEF Next

\* AiCredits!SingleExecution for every instance: a key that has not failed
\* and has not expired calls the AI function at most once.
THEOREM OneExecutionPerKey == Spec => []SingleExecution
<1>1. Typed /\ ClaimExclusive => SingleExecution
  BY DEF ClaimExclusive, Passed, SingleExecution, Typed, TypeOK
<1>. QED  BY <1>1, ClaimInitially, ClaimStep, TypedAlways, PTL DEF Spec

-----------------------------------------------------------------------------
(***************************************************************************)
(* A key that says COMPLETED was committed by the request that claimed it, *)
(* unless it was reopened: nobody else is left to change its record.       *)
(***************************************************************************)
Finished ==
  \A k \in Key : keyStatus[k] = "COMPLETED" /\ k \notin reopened =>
    claimedBy[k] \in Request /\ pc[claimedBy[k]] = "done"

\* A call that has returned stays where it is.
LEMMA DoneStays ==
  ASSUME TypeOK, [Next]_vars, NEW q \in Request, pc[q] = "done"
  PROVE  pc'[q] = "done"
<1>1. CASE \E r \in Request : Arrive(r) \/ ArriveBypass(r) \/ Throw(r) \/ Crash(r)
  BY <1>1 DEF Arrive, ArriveBypass, Throw, Throwing, Crash, Ended, Goto, TypeOK
<1>2. ASSUME NEW r \in Request, Proceed(r) PROVE pc'[q] = "done"
  <2>1. pc[r] # "done" /\ \E l : Goto(r, l)
    BY <1>2 DEF Proceed, BypassReturns, CheckKey, ClaimKey, ReclaimKey, StampMonth, ReadPlan,
       FindLedger, CreateLedger, IncLedger, Reread, Deny, RunSucceeds, RunFails, CommitKey,
       ReleaseCredits, MarkFailed
  <2>. QED  BY <2>1 DEF Goto, TypeOK
<1>3. CASE (\E k \in Key : ExpireKey(k)) \/ (\E u \in User : ChangePlan(u))
             \/ NextMonth \/ UNCHANGED vars
  BY <1>3 DEF ExpireKey, ChangePlan, NextMonth, vars
<1>. QED  BY <1>1, <1>2, <1>3 DEF Next

\* How the record of a key that was not reopened changes.
LEMMA RecordChanges ==
  ASSUME Typed, ClaimExclusive, Finished, [Next]_vars, NEW k \in Key, k \notin reopened
  PROVE  \/ keyStatus'[k] = keyStatus[k] /\ claimedBy'[k] = claimedBy[k]
         \/ keyStatus[k] = "none" /\ keyStatus'[k] = "PENDING"
         \/ keyStatus'[k] = "none"
         \/ keyStatus[k] # "COMPLETED" /\ keyStatus'[k] = "FAILED"
         \/ /\ keyStatus'[k] = "COMPLETED" /\ claimedBy'[k] = claimedBy[k]
            /\ claimedBy[k] \in Request /\ pc'[claimedBy[k]] = "done"
<1>0. /\ TypeOK /\ pc \in [Request -> Location] /\ keyStatus \in [Key -> Status]
      /\ claimedBy \in [Key -> Request \cup {None}]
  BY DEF Typed, TypeOK
<1>1. ASSUME NEW r \in Request, ClaimKey(r) PROVE
         \/ keyStatus'[k] = keyStatus[k] /\ claimedBy'[k] = claimedBy[k]
         \/ keyStatus[k] = "none" /\ keyStatus'[k] = "PENDING"
  BY <1>0, <1>1 DEF ClaimKey, Typed, Keyed
<1>2. ASSUME NEW r \in Request, ReclaimKey(r)
      PROVE  keyStatus'[k] = keyStatus[k] /\ claimedBy'[k] = claimedBy[k]
  <2>1. KeyOf[r] \in Key /\ KeyOf[r] # k
    BY <1>2 DEF ReclaimKey, Typed, Keyed, ClaimExclusive
  <2>. QED  BY <1>0, <1>2, <2>1 DEF ReclaimKey, SetStatus
<1>3. ASSUME NEW r \in Request, CommitKey(r)
      PROVE  \/ keyStatus'[k] = keyStatus[k] /\ claimedBy'[k] = claimedBy[k]
             \/ /\ keyStatus'[k] = "COMPLETED" /\ claimedBy'[k] = claimedBy[k]
                /\ claimedBy[k] \in Request /\ pc'[claimedBy[k]] = "done"
  <2>1. KeyOf[r] \in Key /\ pc'[r] = "done" /\ claimedBy' = claimedBy
    BY <1>0, <1>3 DEF CommitKey, Typed, Keyed, Goto
  <2>2. KeyOf[r] = k => claimedBy[k] = r
    BY <1>3, <2>1 DEF CommitKey, ClaimExclusive, Passed, PastClaim
  <2>3. CASE UNCHANGED keyStatus
    BY <2>1, <2>3
  <2>4. CASE SetStatus(KeyOf[r], "COMPLETED")
    BY <1>0, <2>1, <2>2, <2>4 DEF SetStatus
  <2>. QED  BY <1>3, <2>3, <2>4 DEF CommitKey
<1>4. ASSUME NEW r \in Request, MarkFailed(r)
      PROVE  \/ keyStatus'[k] = keyStatus[k] /\ claimedBy'[k] = claimedBy[k]
             \/ keyStatus[k] # "COMPLETED" /\ keyStatus'[k] = "FAILED"
  <2>1. KeyOf[r] \in Key /\ pc[r] = "mark" /\ claimedBy' = claimedBy
    BY <1>4 DEF MarkFailed, Typed, Keyed
  <2>2. KeyOf[r] = k => keyStatus[k] # "COMPLETED"
    BY <2>1 DEF ClaimExclusive, Passed, PastClaim, Finished
  <2>3. CASE UNCHANGED keyStatus
    BY <2>1, <2>3
  <2>4. CASE SetStatus(KeyOf[r], "FAILED")
    BY <1>0, <2>1, <2>2, <2>4 DEF SetStatus
  <2>. QED  BY <1>4, <2>3, <2>4 DEF MarkFailed
<1>5. ASSUME NEW j \in Key, ExpireKey(j)
      PROVE  \/ keyStatus'[k] = keyStatus[k] /\ claimedBy'[k] = claimedBy[k]
             \/ keyStatus'[k] = "none"
  BY <1>0, <1>5 DEF ExpireKey
<1>6. CASE ~ ((\E r \in Request : ClaimKey(r) \/ ReclaimKey(r) \/ CommitKey(r) \/ MarkFailed(r))
              \/ (\E j \in Key : ExpireKey(j)))
  BY <1>6 DEF Next, Proceed, BypassReturns, CheckKey, StampMonth, ReadPlan, FindLedger,
     CreateLedger, IncLedger, Reread, Deny, RunSucceeds, RunFails, ReleaseCredits, Arrive,
     ArriveBypass, Throw, Crash, ChangePlan, NextMonth, vars
<1>. QED  BY <1>1, <1>2, <1>3, <1>4, <1>5, <1>6, Zenon

LEMMA ReopenedStays == [Next]_vars => reopened \subseteq reopened'
BY DEF Next, Proceed, BypassReturns, CheckKey, ClaimKey, ReclaimKey, StampMonth, ReadPlan,
   FindLedger, CreateLedger, IncLedger, Reread, Deny, RunSucceeds, RunFails, CommitKey,
   ReleaseCredits, MarkFailed, Arrive, ArriveBypass, Throw, Crash, ExpireKey, ChangePlan,
   NextMonth, vars

LEMMA FinishedInitially == Init => Finished
BY DEF Init, Finished

LEMMA FinishedStep == Typed /\ ClaimExclusive /\ Finished /\ [Next]_vars => Finished'
<1> SUFFICES ASSUME Typed, ClaimExclusive, Finished, [Next]_vars,
                    NEW k \in Key, keyStatus'[k] = "COMPLETED", k \notin reopened'
             PROVE  claimedBy'[k] \in Request /\ pc'[claimedBy'[k]] = "done"
  BY DEF Finished
<1>1. k \notin reopened
  BY ReopenedStays
<1>2. CASE keyStatus'[k] = keyStatus[k] /\ claimedBy'[k] = claimedBy[k]
  BY <1>1, <1>2, DoneStays DEF Finished, Typed
<1>. QED  BY <1>1, <1>2, RecordChanges

\* AiCredits!CompletedIsFinal for every instance: what a key has answered
\* "already done" it goes on answering until the record expires, unless a
\* failure had reopened the key.
THEOREM CompletedStaysFinal == Spec => CompletedIsFinal
<1>1. ASSUME Typed, ClaimExclusive, Finished, [Next]_vars,
             NEW k \in Key, keyStatus[k] = "COMPLETED", keyStatus'[k] # "COMPLETED"
      PROVE  keyStatus'[k] = "none" \/ k \in reopened
  BY <1>1, RecordChanges
<1>2. Typed /\ ClaimExclusive /\ Finished /\ [Next]_vars =>
        [\A k \in Key : keyStatus[k] = "COMPLETED" /\ keyStatus'[k] # "COMPLETED" =>
           keyStatus'[k] = "none" \/ k \in reopened]_vars
  BY <1>1
<1>. QED
  BY <1>2, ClaimInitially, ClaimStep, FinishedInitially, FinishedStep, TypedAlways, PTL
     DEF Spec, CompletedIsFinal

-----------------------------------------------------------------------------
(***************************************************************************)
(* The ledger implements the abstract accounts.  A document is created on  *)
(* an account nothing was charged to, the conditional update meets a       *)
(* document, and the limit it compares with is the limit of a plan.        *)
(***************************************************************************)
Ceilings == {Limit[p] : p \in Plan}

LedgerSound ==
  /\ \A a \in Account : a \notin ledgers => creditsUsed[a] = 0
  /\ \A r \in Request : pc[r] = "inc" => Reserved(r) \in ledgers
  /\ \A r \in Request : pc[r] \in {"find", "create", "inc"} => resLimit[r] \in Ceilings

LEMMA SoundInitially == Init => LedgerSound
BY DEF Init, LedgerSound

LEMMA SoundFrame ==
  ASSUME TypeOK, LedgerSound, NEW r \in Request,
         UNCHANGED <<ledgers, creditsUsed, resMonth, resLimit>>,
         \A q \in Request \ {r} : pc'[q] = pc[q],
         pc'[r] = "inc" => Reserved(r) \in ledgers,
         pc'[r] \in {"find", "create", "inc"} => pc[r] \in {"find", "create", "inc"}
  PROVE  LedgerSound'
BY DEF LedgerSound, Reserved

LEMMA SoundProceed ==
  ASSUME Typed, LedgerSound, NEW r \in Request, Proceed(r)
  PROVE  LedgerSound'
<1>0. /\ pc \in [Request -> Location] /\ keyStatus \in [Key -> Status]
      /\ creditsUsed \in [Account -> Int]
      /\ resLimit \in [Request -> Int] /\ resMonth \in [Request -> Month]
      /\ Reserved(r) \in Account /\ Released(r) \in Account
      /\ \A q \in Request : Reserved(q) \in Account
  BY AccountOf DEF TypeOK, Typed
<1>1. CASE CheckKey(r)
  <2>1. KeyOf[r] \in Key
    BY <1>1 DEF CheckKey, Keyed, Typed
  <2>2. AfterCheck[keyStatus[KeyOf[r]]] \in {"claim", "conflict", "cached", "reclaim"}
    BY <1>0, <2>1, AfterCheckType
  <2>. QED  BY <1>0, <1>1, <2>2, SoundFrame DEF Typed, CheckKey, Goto
<1>2. CASE StampMonth(r)
  BY <1>0, <1>2 DEF StampMonth, Goto, LedgerSound, Reserved
<1>3. CASE ReadPlan(r)
  <2>1. Limit[plan[UserOf[r]]] \in Ceilings /\ Limit["FREE"] \in Ceilings
    BY RequestAssumption DEF Typed, TypeOK, Ceilings, Plan
  <2>. QED  BY <1>0, <1>3, <2>1 DEF ReadPlan, Goto, LedgerSound, Reserved
<1>4. CASE FindLedger(r)
  BY <1>0, <1>4, SoundFrame DEF Typed, FindLedger, Goto
<1>5. CASE CreateLedger(r)
  <2>1. CASE NoLedgerYet(r)
    <3>1. /\ ledgers' = ledgers \cup {Reserved(r)}
          /\ creditsUsed' = [creditsUsed EXCEPT ![Reserved(r)] = CostOf(r)]
          /\ pc' = [pc EXCEPT ![r] = "run"] /\ UNCHANGED <<resMonth, resLimit>>
      BY <1>5, <2>1 DEF CreateLedger, Goto
    <3>. QED  BY <1>0, <3>1 DEF LedgerSound, Reserved
  <2>2. CASE ~ NoLedgerYet(r)
    BY <1>0, <1>5, <2>2, SoundFrame DEF Typed, CreateLedger, NoLedgerYet, Goto
  <2>. QED  BY <2>1, <2>2
<1>6. CASE IncLedger(r)
  <2>1. Reserved(r) \in ledgers
    BY <1>6 DEF IncLedger, LedgerSound
  <2>2. /\ UNCHANGED <<ledgers, resMonth, resLimit>>
        /\ \A a \in Account \ {Reserved(r)} : creditsUsed'[a] = creditsUsed[a]
        /\ pc'[r] \in {"reread", "deny"}
        /\ \A q \in Request \ {r} : pc'[q] = pc[q]
    BY <1>0, <1>6 DEF IncLedger, Goto
  <2>. QED  BY <2>1, <2>2 DEF LedgerSound, Reserved
<1>7. CASE ReleaseCredits(r)
  <2>1. /\ UNCHANGED <<ledgers, resMonth, resLimit>>
        /\ pc'[r] \in {"failed", "mark"}
        /\ \A q \in Request \ {r} : pc'[q] = pc[q]
    BY <1>0, <1>7 DEF ReleaseCredits, Goto
  <2>2. \A a \in Account : creditsUsed'[a] = creditsUsed[a] \/ a \in ledgers
    BY <1>0, <1>7 DEF ReleaseCredits, CanRelease
  <2>. QED  BY <2>1, <2>2 DEF LedgerSound, Reserved
<1>8. CASE BypassReturns(r) \/ ClaimKey(r) \/ ReclaimKey(r) \/ Reread(r) \/ Deny(r)
  BY <1>0, <1>8, SoundFrame DEF Typed, BypassReturns, ClaimKey, ReclaimKey, Reread, Deny, Goto
<1>9. CASE RunSucceeds(r) \/ RunFails(r) \/ CommitKey(r) \/ MarkFailed(r)
  BY <1>0, <1>9, SoundFrame DEF Typed, RunSucceeds, RunFails, CommitKey, MarkFailed, Goto
<1>. QED
  BY <1>1, <1>2, <1>3, <1>4, <1>5, <1>6, <1>7, <1>8, <1>9 DEF Proceed

LEMMA SoundStep == Typed /\ LedgerSound /\ [Next]_vars => LedgerSound'
<1> SUFFICES ASSUME Typed, LedgerSound, [Next]_vars PROVE LedgerSound'
  OBVIOUS
<1>0. pc \in [Request -> Location]
  BY DEF Typed, TypeOK
<1>1. CASE \E r \in Request : Proceed(r)
  BY <1>1, SoundProceed
<1>2. ASSUME NEW r \in Request, Arrive(r) \/ ArriveBypass(r) \/ Throw(r) \/ Crash(r)
      PROVE  LedgerSound'
  BY <1>0, <1>2, SoundFrame DEF Typed, Arrive, ArriveBypass, Throw, Crash, Goto
<1>3. CASE (\E k \in Key : ExpireKey(k)) \/ (\E u \in User : ChangePlan(u))
             \/ NextMonth \/ UNCHANGED vars
  BY <1>3 DEF ExpireKey, ChangePlan, NextMonth, vars, LedgerSound, Reserved
<1>. QED  BY <1>1, <1>2, <1>3 DEF Next

\* Every step of the service charges one account within the ceiling of a
\* plan, refunds one account that holds the amount, or leaves them alone.
LEMMA StepImplements ==
  TypeOK /\ LedgerSound /\ [Next]_vars => [Accounts!Next]_creditsUsed
<1> SUFFICES ASSUME TypeOK, LedgerSound, [Next]_vars, creditsUsed' # creditsUsed
             PROVE  Accounts!Next
  OBVIOUS
<1>1. ASSUME NEW r \in Request, Proceed(r)
      PROVE  Accounts!Next
  <2>0. CostOf(r) \in {Cost[f] : f \in Feature} /\ CostOf(r) \in Nat
    BY RequestAssumption, AccountOf DEF CostOf
  <2>1. CASE CreateLedger(r)
    <3>1. /\ creditsUsed' = [creditsUsed EXCEPT ![Reserved(r)] = CostOf(r)]
          /\ Reserved(r) \notin ledgers
      BY <1>1, <2>1 DEF CreateLedger, NoLedgerYet
    <3>2. creditsUsed[Reserved(r)] = 0
      BY <3>1, AccountOf DEF LedgerSound
    <3>3. creditsUsed[Reserved(r)] + CostOf(r) <= Limit["FREE"]
      BY <2>0, <3>2, AccountOf
    <3>4. Limit["FREE"] \in Ceilings
      BY DEF Ceilings, Plan
    <3>5. creditsUsed[Reserved(r)] + CostOf(r) = CostOf(r)
      BY <2>0, <3>2
    <3>6. Accounts!Charge(Reserved(r), CostOf(r))
      BY <3>1, <3>3, <3>4, <3>5 DEF Accounts!Charge, Ceilings
    <3>. QED  BY <2>0, <3>6, AccountOf DEF Accounts!Next
  <2>2. CASE IncLedger(r)
    <3>1. /\ creditsUsed' = [creditsUsed EXCEPT ![Reserved(r)] = @ + CostOf(r)]
          /\ HasRoom(r) /\ resLimit[r] \in Ceilings
      BY <1>1, <2>2 DEF IncLedger, LedgerSound
    <3>2. creditsUsed[Reserved(r)] \in Int /\ resLimit[r] \in Int
      BY AccountOf DEF TypeOK
    <3>3. creditsUsed[Reserved(r)] + CostOf(r) <= resLimit[r]
      BY <2>0, <3>1, <3>2 DEF HasRoom
    <3>4. Accounts!Charge(Reserved(r), CostOf(r))
      BY <3>1, <3>3 DEF Accounts!Charge, Ceilings
    <3>. QED  BY <2>0, <3>4, AccountOf DEF Accounts!Next
  <2>3. CASE ReleaseCredits(r)
    <3>1. Accounts!Refund(Released(r), CostOf(r))
      BY <1>1, <2>3 DEF ReleaseCredits, CanRelease, Accounts!Refund
    <3>. QED  BY <2>0, <3>1, AccountOf DEF Accounts!Next
  <2>4. CASE ~ (CreateLedger(r) \/ IncLedger(r) \/ ReleaseCredits(r))
    BY <1>1, <2>4 DEF Proceed, BypassReturns, CheckKey, ClaimKey, ReclaimKey,
       StampMonth, ReadPlan, FindLedger, Reread, Deny, RunSucceeds, RunFails,
       CommitKey, MarkFailed
  <2>. QED  BY <2>1, <2>2, <2>3, <2>4
<1>2. CASE ~ \E r \in Request : Proceed(r)
  BY <1>2 DEF Next, Arrive, ArriveBypass, Throw, Crash, ExpireKey, ChangePlan,
     NextMonth, vars
<1>. QED  BY <1>1, <1>2

\* AiCredits!ImplementsAccounts for every instance: however its database
\* operations interleave, the service refines atomic, bounded accounts.
THEOREM ServiceImplementsAccounts == Spec => ImplementsAccounts
<1>1. Init => Accounts!Init
  BY DEF Init, Accounts!Init
<1>. QED
  BY <1>1, StepImplements, SoundInitially, SoundStep, TypedAlways, PTL
     DEF Spec, ImplementsAccounts, Accounts!Spec, Typed

-----------------------------------------------------------------------------
(***************************************************************************)
(* Double-entry.  Credits are counted one by one, so that one request more *)
(* is as many credits more as it costs.                                    *)
(***************************************************************************)
LEMMA CreditsOf ==
  ASSUME NEW S, NEW x
  PROVE  x \in Credits(S) <=> \E q \in S : x \in {q} \X (1 .. CostOf(q))
BY DEF Credits

LEMMA CostIs ==
  ASSUME NEW r \in Request
  PROVE  CostOf(r) \in Nat /\ CostOf(r) > 0 /\ CostOf(r) <= Limit["FREE"] /\ Limit["FREE"] \in Nat
BY RequestAssumption, CostAssumption DEF CostOf, Plan

LEMMA CreditsFinite ==
  ASSUME NEW S \in SUBSET Request
  PROVE  IsFiniteSet(Credits(S)) /\ Total(S) \in Nat
<1>1. Limit["FREE"] \in Nat
  BY CostAssumption DEF Plan
<1>2. IsFiniteSet(Request \X (1 .. Limit["FREE"]))
  <2>1. IsFiniteSet(1 .. Limit["FREE"])
    BY <1>1, FS_Interval
  <2>. QED  BY <2>1, RequestAssumption, FS_Product
<1>3. Credits(S) \subseteq Request \X (1 .. Limit["FREE"])
  <2>1. ASSUME NEW q \in S PROVE {q} \X (1 .. CostOf(q)) \subseteq Request \X (1 .. Limit["FREE"])
    <3>1. 1 .. CostOf(q) \subseteq 1 .. Limit["FREE"]
      BY CostIs
    <3>. QED  BY <3>1
  <2>. QED  BY <2>1, CreditsOf
<1>. QED  BY <1>2, <1>3, FS_Subset, FS_CardinalityType DEF Total

LEMMA TotalNone == Total({}) = 0
<1>1. Credits({}) = {}
  BY DEF Credits
<1>. QED  BY <1>1, FS_EmptySet DEF Total

LEMMA TotalAdd ==
  ASSUME NEW S \in SUBSET Request, NEW r \in Request, r \notin S
  PROVE  Total(S \cup {r}) = Total(S) + CostOf(r)
<1> DEFINE Own == {r} \X (1 .. CostOf(r))
<1>1. IsFiniteSet(Own) /\ Cardinality(Own) = CostOf(r)
  <2>1. /\ IsFiniteSet(1 .. CostOf(r)) /\ Cardinality(1 .. CostOf(r)) = CostOf(r)
        /\ CostOf(r) \in Nat
    BY CostIs, FS_Interval
  <2>2. IsFiniteSet({r}) /\ Cardinality({r}) = 1
    BY FS_Singleton
  <2>3. IsFiniteSet(Own) /\ Cardinality(Own) = Cardinality({r}) * Cardinality(1 .. CostOf(r))
    BY <2>1, <2>2, FS_Product
  <2>. QED  BY <2>1, <2>2, <2>3
<1>2. Credits(S \cup {r}) = Credits(S) \cup Own
  <2>1. ASSUME NEW x PROVE x \in Credits(S \cup {r}) <=> x \in Credits(S) \/ x \in Own
    <3>1. x \in Credits(S \cup {r}) <=> \E q \in S \cup {r} : x \in {q} \X (1 .. CostOf(q))
      BY CreditsOf
    <3>2. x \in Credits(S) <=> \E q \in S : x \in {q} \X (1 .. CostOf(q))
      BY CreditsOf
    <3>. QED  BY <3>1, <3>2, Zenon
  <2>. QED  BY <2>1
<1>3. Credits(S) \cap Own = {}
  <2>1. ASSUME NEW x \in Credits(S), x \in Own PROVE FALSE
    <3>1. PICK q \in S : x \in {q} \X (1 .. CostOf(q))
      BY CreditsOf
    <3>2. x[1] = q /\ x[1] = r
      BY <2>1, <3>1
    <3>. QED  BY <3>2
  <2>. QED  BY <2>1
<1>4. /\ IsFiniteSet(Credits(S)) /\ Cardinality(Credits(S)) \in Nat
  BY CreditsFinite DEF Total
<1>5. Cardinality({}) = 0
  BY FS_EmptySet
<1>6. Cardinality(Credits(S) \cup Own) = Cardinality(Credits(S)) + Cardinality(Own)
  <2>1. Cardinality(Credits(S) \cup Own)
          = Cardinality(Credits(S)) + Cardinality(Own) - Cardinality(Credits(S) \cap Own)
    BY <1>1, <1>4, FS_Union
  <2> HIDE DEF Own
  <2>. QED  BY <1>1, <1>3, <1>4, <1>5, <2>1, CostIs
<1>. QED  BY <1>1, <1>2, <1>6 DEF Total

\* What the accounts show follows from where each request is: before its
\* reservation it has paid nothing, from there to its release it has paid.
Unpaid == {"new", "bypass", "check", "claim", "reclaim", "reserve", "plan", "find",
           "create", "inc", "deny", "denied", "conflict", "cached"}
Paid == {"reread", "run", "commit", "release"}

PaidOnce ==
  \A r \in Request :
    /\ pc[r] \in Unpaid => r \notin held /\ r \notin stray /\ r \notin ran
    /\ pc[r] \in Paid => r \in held /\ r \notin stray
    /\ pc[r] \in {"run", "commit", "release", "mark"} => r \in ran

\* A ledger that does not exist yet has no features to balance.
Balanced ==
  /\ LedgerBalances
  /\ \A a \in Account, f \in Feature : a \notin ledgers => featureUsage[a][f] = 0

LEMMA PaidInitially == Init => PaidOnce
BY DEF Init, PaidOnce, Paid

\* A request that moves and pays nothing, and runs nothing.
LEMMA PaidFrame ==
  ASSUME TypeOK, PaidOnce, NEW r \in Request, NEW l, Goto(r, l),
         UNCHANGED <<held, stray, ran>>,
         pc[r] \in Unpaid \/ l \notin Unpaid,
         pc[r] \in Paid \/ l \notin Paid,
         pc[r] \in {"run", "commit", "release", "mark"} \/ l \notin {"run", "commit", "release", "mark"}
  PROVE  PaidOnce'
<1>1. pc'[r] = l /\ \A q \in Request \ {r} : pc'[q] = pc[q]
  BY DEF TypeOK, Goto
<1>. QED  BY <1>1 DEF PaidOnce

LEMMA PaidStep == Typed /\ PaidOnce /\ [Next]_vars => PaidOnce'
<1> SUFFICES ASSUME Typed, PaidOnce, [Next]_vars PROVE PaidOnce'
  OBVIOUS
<1>0. TypeOK /\ pc \in [Request -> Location]
  BY DEF Typed, TypeOK
<1>1. ASSUME NEW r \in Request, Proceed(r) PROVE PaidOnce'
  <2>1. CASE CheckKey(r)
    <3> DEFINE l == AfterCheck[keyStatus[KeyOf[r]]]
    <3>1. l \in {"claim", "conflict", "cached", "reclaim"}
      BY <2>1, AfterCheckType DEF CheckKey, Typed, Keyed, TypeOK
    <3>2. Goto(r, l) /\ UNCHANGED <<held, stray, ran>> /\ pc[r] = "check"
      BY <2>1 DEF CheckKey
    <3> HIDE DEF l
    <3>. QED  BY <1>0, <3>1, <3>2, PaidFrame DEF Unpaid, Paid
  <2>2. CASE BypassReturns(r)
    BY <1>0, <2>2, PaidFrame DEF BypassReturns, Unpaid, Paid
  <2>3. CASE ClaimKey(r) \/ ReclaimKey(r)
    <3>1. /\ Goto(r, "reserve") \/ Goto(r, "conflict")
          /\ pc[r] \in Unpaid /\ UNCHANGED <<held, stray, ran>>
      BY <2>3 DEF ClaimKey, ReclaimKey, Unpaid
    <3>. QED  BY <1>0, <3>1, PaidFrame DEF Unpaid, Paid
  <2>4. CASE StampMonth(r) \/ ReadPlan(r) \/ FindLedger(r) \/ Deny(r)
    <3>1. /\ \E l \in {"plan", "find", "inc", "create", "denied"} : Goto(r, l)
          /\ pc[r] \in Unpaid /\ UNCHANGED <<held, stray, ran>>
      BY <2>4 DEF StampMonth, ReadPlan, FindLedger, Deny, Unpaid
    <3>. QED  BY <1>0, <3>1, PaidFrame DEF Unpaid, Paid
  <2>5. CASE CreateLedger(r)
    BY <1>0, <2>5 DEF CreateLedger, Goto, PaidOnce, Unpaid, Paid
  <2>6. CASE IncLedger(r)
    BY <1>0, <2>6 DEF IncLedger, Goto, PaidOnce, Unpaid, Paid
  <2>7. CASE Reread(r)
    BY <1>0, <2>7 DEF Reread, Goto, PaidOnce, Unpaid, Paid
  <2>8. CASE RunSucceeds(r) \/ RunFails(r) \/ CommitKey(r) \/ MarkFailed(r)
    <3>1. /\ \/ pc[r] = "run" /\ (Goto(r, "done") \/ Goto(r, "commit") \/ Goto(r, "release"))
             \/ pc[r] = "commit" /\ Goto(r, "done")
             \/ pc[r] = "mark" /\ Goto(r, "failed")
          /\ UNCHANGED <<held, stray, ran>>
      BY <2>8 DEF RunSucceeds, RunFails, CommitKey, MarkFailed
    <3>. QED  BY <1>0, <3>1, PaidFrame DEF Unpaid, Paid
  <2>9. CASE ReleaseCredits(r)
    <3>1. /\ \A q \in Request \ {r} : (q \in held' <=> q \in held) /\ (q \in stray' <=> q \in stray)
          /\ pc[r] = "release" /\ UNCHANGED ran
          /\ Goto(r, "failed") \/ Goto(r, "mark")
      BY <2>9 DEF ReleaseCredits
    <3>. QED  BY <1>0, <3>1 DEF Goto, PaidOnce, Unpaid, Paid
  <2>. QED  BY <1>1, <2>1, <2>2, <2>3, <2>4, <2>5, <2>6, <2>7, <2>8, <2>9 DEF Proceed
<1>2. ASSUME NEW r \in Request, Arrive(r) \/ ArriveBypass(r) \/ Throw(r) \/ Crash(r)
      PROVE  PaidOnce'
  <2>1. /\ \/ pc[r] = "new" /\ (Goto(r, "reserve") \/ Goto(r, "check") \/ Goto(r, "bypass"))
           \/ Goto(r, "error") \/ Goto(r, "crashed")
        /\ UNCHANGED <<held, stray, ran>>
    BY <1>2 DEF Arrive, ArriveBypass, Throw, Crash
  <2>. QED  BY <1>0, <2>1, PaidFrame DEF Unpaid, Paid
<1>3. CASE (\E k \in Key : ExpireKey(k)) \/ (\E u \in User : ChangePlan(u))
             \/ NextMonth \/ UNCHANGED vars
  BY <1>3 DEF ExpireKey, ChangePlan, NextMonth, vars, PaidOnce
<1>. QED  BY <1>1, <1>2, <1>3 DEF Next

LEMMA PaidAlways == Spec => []PaidOnce
BY PaidInitially, PaidStep, TypedAlways, PTL DEF Spec

-----------------------------------------------------------------------------
(* How the balance of an account moves *)

LEMMA BalanceType ==
  ASSUME TypeOK, NEW S \in SUBSET Request, NEW a
  PROVE  /\ ReservedIn(S, a) \in SUBSET Request /\ StrayIn(S, a) \in SUBSET Request
         /\ Total(ReservedIn(S, a)) \in Nat /\ Total(StrayIn(S, a)) \in Nat
         /\ Balance(S, a) \in Int
<1>1. ReservedIn(S, a) \in SUBSET Request /\ StrayIn(S, a) \in SUBSET Request
  BY DEF ReservedIn, StrayIn
<1>. QED  BY <1>1, CreditsFinite DEF Balance

\* A balance depends on who holds, who strayed, and their months.
LEMMA BalanceFrame ==
  ASSUME NEW S \in SUBSET Request, NEW a, UNCHANGED <<held, stray>>,
         \A q \in held : Reserved(q)' = Reserved(q),
         \A q \in stray : Released(q)' = Released(q)
  PROVE  Balance(S, a)' = Balance(S, a)
<1>1. ReservedIn(S, a)' = ReservedIn(S, a)
  BY DEF ReservedIn
<1>2. StrayIn(S, a)' = StrayIn(S, a)
  BY DEF StrayIn
<1>. QED  BY <1>1, <1>2 DEF Balance

\* A reservation credits the account of the request, for the sets it is in.
LEMMA BalanceReserve ==
  ASSUME TypeOK, NEW S \in SUBSET Request, NEW a, NEW r \in Request, r \notin held,
         held' = held \cup {r}, UNCHANGED <<stray, resMonth, relMonth>>
  PROVE  Balance(S, a)' = Balance(S, a) + (IF r \in S /\ a = Reserved(r) THEN CostOf(r) ELSE 0)
<1>0. UNCHANGED StrayIn(S, a)
  BY DEF StrayIn, Released
<1>1. /\ Total(ReservedIn(S, a)) \in Nat /\ Total(StrayIn(S, a)) \in Nat
      /\ ReservedIn(S, a) \in SUBSET Request
  BY BalanceType
<1>2. CASE r \in S /\ a = Reserved(r)
  <2>1. ReservedIn(S, a)' = ReservedIn(S, a) \cup {r}
    BY <1>2 DEF ReservedIn, Reserved
  <2>2. r \notin ReservedIn(S, a)
    BY DEF ReservedIn
  <2>3. Total(ReservedIn(S, a)') = Total(ReservedIn(S, a)) + CostOf(r)
    BY <1>1, <2>1, <2>2, TotalAdd
  <2>. QED  BY <1>0, <1>1, <1>2, <2>3, CostIs DEF Balance
<1>3. CASE ~ (r \in S /\ a = Reserved(r))
  <2>1. ReservedIn(S, a)' = ReservedIn(S, a)
    BY <1>3 DEF ReservedIn, Reserved
  <2>. QED  BY <1>0, <1>1, <1>3, <2>1 DEF Balance
<1>. QED  BY <1>2, <1>3

\* A refund from the account of the reservation takes it back ...
LEMMA BalanceRefund ==
  ASSUME TypeOK, NEW S \in SUBSET Request, NEW a, NEW r \in held, Released(r) = Reserved(r),
         held' = held \ {r}, UNCHANGED <<stray, resMonth, relMonth>>
  PROVE  Balance(S, a)' = Balance(S, a) - (IF r \in S /\ a = Released(r) THEN CostOf(r) ELSE 0)
<1>0. UNCHANGED StrayIn(S, a) /\ r \in Request
  BY DEF StrayIn, Released, TypeOK
<1>1. /\ Total(ReservedIn(S, a)) \in Nat /\ Total(StrayIn(S, a)) \in Nat
      /\ ReservedIn(S, a) \in SUBSET Request
  BY BalanceType
<1>2. CASE r \in S /\ a = Released(r)
  <2> DEFINE T == ReservedIn(S, a) \ {r}
  <2>1. ReservedIn(S, a)' = T /\ ReservedIn(S, a) = T \cup {r}
    BY <1>2 DEF ReservedIn, Reserved
  <2>2. T \in SUBSET Request /\ r \notin T
    BY <1>1
  <2> HIDE DEF T
  <2>3. Total(T) \in Nat
    BY <2>2, CreditsFinite
  <2>4. Total(T \cup {r}) = Total(T) + CostOf(r)
    BY <1>0, <2>2, TotalAdd
  <2>5. Total(ReservedIn(S, a)') = Total(ReservedIn(S, a)) - CostOf(r)
    BY <1>0, <2>1, <2>3, <2>4, CostIs
  <2>. QED  BY <1>0, <1>1, <1>2, <2>5, CostIs DEF Balance
<1>3. CASE ~ (r \in S /\ a = Released(r))
  <2>1. ReservedIn(S, a)' = ReservedIn(S, a)
    BY <1>3 DEF ReservedIn, Reserved
  <2>. QED  BY <1>0, <1>1, <1>3, <2>1 DEF Balance
<1>. QED  BY <1>2, <1>3

\* ... and so does one from another month's, for that month.
LEMMA BalanceStray ==
  ASSUME TypeOK, NEW S \in SUBSET Request, NEW a, NEW r \in Request, r \notin stray,
         stray' = stray \cup {r}, UNCHANGED <<held, resMonth, relMonth>>
  PROVE  Balance(S, a)' = Balance(S, a) - (IF r \in S /\ a = Released(r) THEN CostOf(r) ELSE 0)
<1>0. UNCHANGED ReservedIn(S, a)
  BY DEF ReservedIn, Reserved
<1>1. /\ Total(ReservedIn(S, a)) \in Nat /\ Total(StrayIn(S, a)) \in Nat
      /\ StrayIn(S, a) \in SUBSET Request
  BY BalanceType
<1>2. CASE r \in S /\ a = Released(r)
  <2>1. StrayIn(S, a)' = StrayIn(S, a) \cup {r}
    BY <1>2 DEF StrayIn, Released
  <2>2. r \notin StrayIn(S, a)
    BY DEF StrayIn
  <2>3. Total(StrayIn(S, a)') = Total(StrayIn(S, a)) + CostOf(r)
    BY <1>1, <2>1, <2>2, TotalAdd
  <2>. QED  BY <1>0, <1>1, <1>2, <2>3, CostIs DEF Balance
<1>3. CASE ~ (r \in S /\ a = Released(r))
  <2>1. StrayIn(S, a)' = StrayIn(S, a)
    BY <1>3 DEF StrayIn, Released
  <2>. QED  BY <1>0, <1>1, <1>3, <2>1 DEF Balance
<1>. QED  BY <1>2, <1>3

\* One account moves by n, in its total and in the feature of r, as the
\* balances do.
Moves(r, a0, n) ==
  /\ \A a \in Account : creditsUsed'[a] = creditsUsed[a] + (IF a = a0 THEN n ELSE 0)
  /\ \A a \in Account, f \in Feature :
       featureUsage'[a][f] = featureUsage[a][f] + (IF a = a0 /\ f = FeatureOf[r] THEN n ELSE 0)
  /\ \A S \in SUBSET Request, a \in Account :
       Balance(S, a)' = Balance(S, a) + (IF r \in S /\ a = a0 THEN n ELSE 0)

LEMMA BalancedUpdate ==
  ASSUME TypeOK, Balanced, NEW r \in Request, NEW a0 \in Account, NEW n \in Int,
         ledgers \subseteq ledgers', a0 \in ledgers', Moves(r, a0, n)
  PROVE  Balanced'
<1> USE DEF Moves
<1>1. ASSUME NEW a \in Account
      PROVE  creditsUsed'[a] = Balance(Request, a)'
  <2>1. Request \in SUBSET Request
    OBVIOUS
  <2>2. Balance(Request, a)' = Balance(Request, a) + (IF r \in Request /\ a = a0 THEN n ELSE 0)
    BY <2>1
  <2>. QED  BY <2>2 DEF Balanced, LedgerBalances
<1>2. ASSUME NEW a \in Account, NEW f \in Feature
      PROVE  featureUsage'[a][f] = Balance(Using(f), a)'
  <2>1. Using(f) \in SUBSET Request /\ (r \in Using(f) <=> f = FeatureOf[r])
    BY DEF Using
  <2>2. Balance(Using(f), a)' = Balance(Using(f), a) + (IF r \in Using(f) /\ a = a0 THEN n ELSE 0)
    BY <2>1
  <2>3. featureUsage[a][f] = Balance(Using(f), a)
    BY DEF Balanced, LedgerBalances
  <2>4. featureUsage'[a][f] = featureUsage[a][f] + (IF a = a0 /\ f = FeatureOf[r] THEN n ELSE 0)
    OBVIOUS
  <2>. QED  BY <2>1, <2>2, <2>3, <2>4
<1>3. ASSUME NEW a \in Account, NEW f \in Feature, a \notin ledgers'
      PROVE  featureUsage'[a][f] = 0
  BY <1>3 DEF Balanced
<1>. QED  BY <1>1, <1>2, <1>3 DEF Balanced, LedgerBalances

LEMMA BalancedFrame ==
  ASSUME Balanced, UNCHANGED <<ledger, books>>,
         \A q \in held : Reserved(q)' = Reserved(q),
         \A q \in stray : Released(q)' = Released(q)
  PROVE  Balanced'
<1>1. \A S \in SUBSET Request, a \in Account : Balance(S, a)' = Balance(S, a)
  BY BalanceFrame
<1>2. ASSUME NEW f \in Feature PROVE Using(f) \in SUBSET Request
  BY DEF Using
<1>. QED  BY <1>1, <1>2 DEF Balanced, LedgerBalances

LEMMA BalancedInitially == Init => Balanced
<1> SUFFICES ASSUME Init PROVE Balanced
  OBVIOUS
<1>1. ASSUME NEW S \in SUBSET Request, NEW a \in Account
      PROVE  Balance(S, a) = 0
  <2>1. ReservedIn(S, a) = {} /\ StrayIn(S, a) = {}
    BY DEF Init, ReservedIn, StrayIn
  <2>. QED  BY <2>1, TotalNone DEF Balance
<1>2. ASSUME NEW f \in Feature PROVE Using(f) \in SUBSET Request
  BY DEF Using
<1>. QED  BY <1>1, <1>2 DEF Init, Balanced, LedgerBalances

LEMMA BalancedProceed ==
  ASSUME Typed, LedgerSound, PaidOnce, Balanced, NEW r \in Request, Proceed(r)
  PROVE  Balanced'
<1>0. /\ TypeOK /\ pc \in [Request -> Location]
      /\ creditsUsed \in [Account -> Int] /\ featureUsage \in [Account -> [Feature -> Int]]
      /\ resMonth \in [Request -> Month] /\ relMonth \in [Request -> Month]
      /\ Reserved(r) \in Account /\ Released(r) \in Account
      /\ FeatureOf[r] \in Feature /\ CostOf(r) \in Nat
  BY AccountOf DEF Typed, TypeOK
<1>1. CASE StampMonth(r)
  <2>1. r \notin held /\ UNCHANGED <<ledger, books, relMonth>>
    BY <1>1 DEF StampMonth, PaidOnce, Unpaid
  <2>2. \A q \in held : Reserved(q)' = Reserved(q)
    BY <1>0, <1>1, <2>1 DEF StampMonth, Reserved, TypeOK
  <2>3. \A q \in stray : Released(q)' = Released(q)
    BY <2>1 DEF Released
  <2>. QED  BY <2>1, <2>2, <2>3, BalancedFrame
<1>2. CASE RunFails(r)
  <2>1. r \notin stray /\ UNCHANGED <<ledger, books, resMonth>>
    BY <1>2 DEF RunFails, PaidOnce, Paid
  <2>2. \A q \in held : Reserved(q)' = Reserved(q)
    BY <2>1 DEF Reserved
  <2>3. \A q \in stray : Released(q)' = Released(q)
    BY <1>0, <1>2, <2>1 DEF RunFails, Released, TypeOK
  <2>. QED  BY <2>1, <2>2, <2>3, BalancedFrame
<1>3. CASE UNCHANGED <<ledger, books, resMonth, relMonth>>
  BY <1>3, BalancedFrame DEF Reserved, Released
<1>4. CASE CreateLedger(r) /\ NoLedgerYet(r)
  <2>1. /\ ledgers' = ledgers \cup {Reserved(r)} /\ Reserved(r) \notin ledgers
        /\ creditsUsed' = [creditsUsed EXCEPT ![Reserved(r)] = CostOf(r)]
        /\ featureUsage' = [featureUsage EXCEPT ![Reserved(r)] =
                              [f \in Feature |-> IF f = FeatureOf[r] THEN CostOf(r) ELSE 0]]
        /\ held' = held \cup {r} /\ r \notin held
        /\ UNCHANGED <<stray, resMonth, relMonth>>
    BY <1>4 DEF CreateLedger, NoLedgerYet, PaidOnce, Unpaid
  <2>2. creditsUsed[Reserved(r)] = 0 /\ \A f \in Feature : featureUsage[Reserved(r)][f] = 0
    BY <1>0, <2>1 DEF LedgerSound, Balanced
  <2>3. \A a \in Account :
          creditsUsed'[a] = creditsUsed[a] + (IF a = Reserved(r) THEN CostOf(r) ELSE 0)
    BY <1>0, <2>1, <2>2
  <2>4. \A a \in Account, f \in Feature :
          featureUsage'[a][f] = featureUsage[a][f]
            + (IF a = Reserved(r) /\ f = FeatureOf[r] THEN CostOf(r) ELSE 0)
    BY <1>0, <2>1, <2>2
  <2>5. \A S \in SUBSET Request, a \in Account :
          Balance(S, a)' = Balance(S, a) + (IF r \in S /\ a = Reserved(r) THEN CostOf(r) ELSE 0)
    BY <1>0, <2>1, BalanceReserve
  <2>6. ledgers \subseteq ledgers' /\ Reserved(r) \in ledgers'
    BY <2>1
  <2>7. Moves(r, Reserved(r), CostOf(r))
    BY <2>3, <2>4, <2>5 DEF Moves
  <2>. QED  BY <1>0, <2>6, <2>7, BalancedUpdate
<1>5. CASE IncLedger(r) /\ HasRoom(r)
  <2>1. /\ UNCHANGED ledgers /\ Reserved(r) \in ledgers
        /\ creditsUsed' = [creditsUsed EXCEPT ![Reserved(r)] = @ + CostOf(r)]
        /\ featureUsage' = [featureUsage EXCEPT ![Reserved(r)][FeatureOf[r]] = @ + CostOf(r)]
        /\ held' = held \cup {r} /\ r \notin held
        /\ UNCHANGED <<stray, resMonth, relMonth>>
    BY <1>5 DEF IncLedger, LedgerSound, PaidOnce, Unpaid
  <2>3. \A a \in Account :
          creditsUsed'[a] = creditsUsed[a] + (IF a = Reserved(r) THEN CostOf(r) ELSE 0)
    BY <1>0, <2>1
  <2>4. \A a \in Account, f \in Feature :
          featureUsage'[a][f] = featureUsage[a][f]
            + (IF a = Reserved(r) /\ f = FeatureOf[r] THEN CostOf(r) ELSE 0)
    BY <1>0, <2>1
  <2>5. \A S \in SUBSET Request, a \in Account :
          Balance(S, a)' = Balance(S, a) + (IF r \in S /\ a = Reserved(r) THEN CostOf(r) ELSE 0)
    BY <1>0, <2>1, BalanceReserve
  <2>6. ledgers \subseteq ledgers' /\ Reserved(r) \in ledgers'
    BY <2>1
  <2>7. Moves(r, Reserved(r), CostOf(r))
    BY <2>3, <2>4, <2>5 DEF Moves
  <2>. QED  BY <1>0, <2>6, <2>7, BalancedUpdate
<1>6. CASE ReleaseCredits(r) /\ ~ UNCHANGED <<creditsUsed, featureUsage, books>>
  <2>1. /\ UNCHANGED <<ledgers, resMonth, relMonth>> /\ Released(r) \in ledgers
        /\ creditsUsed' = [creditsUsed EXCEPT ![Released(r)] = @ - CostOf(r)]
        /\ featureUsage' = [featureUsage EXCEPT ![Released(r)][FeatureOf[r]] = @ - CostOf(r)]
        /\ \/ Released(r) = Reserved(r) /\ held' = held \ {r} /\ UNCHANGED stray
           \/ Released(r) # Reserved(r) /\ stray' = stray \cup {r} /\ UNCHANGED held
        /\ r \in held /\ r \notin stray
    BY <1>6 DEF ReleaseCredits, CanRelease, PaidOnce, Paid
  <2> DEFINE n == 0 - CostOf(r)
  <2>2. n \in Int
    BY <1>0
  <2>3. \A a \in Account :
          creditsUsed'[a] = creditsUsed[a] + (IF a = Released(r) THEN n ELSE 0)
    BY <1>0, <2>1
  <2>4. \A a \in Account, f \in Feature :
          featureUsage'[a][f] = featureUsage[a][f]
            + (IF a = Released(r) /\ f = FeatureOf[r] THEN n ELSE 0)
    BY <1>0, <2>1
  <2>5. ASSUME NEW S \in SUBSET Request, NEW a \in Account
        PROVE  Balance(S, a)' = Balance(S, a) + (IF r \in S /\ a = Released(r) THEN n ELSE 0)
    <3>1. Balance(S, a)' = Balance(S, a) - (IF r \in S /\ a = Released(r) THEN CostOf(r) ELSE 0)
      BY <1>0, <2>1, BalanceRefund, BalanceStray
    <3>2. Balance(S, a) \in Int
      BY <1>0, BalanceType
    <3>. QED  BY <1>0, <3>1, <3>2
  <2>6. ledgers \subseteq ledgers' /\ Released(r) \in ledgers'
    BY <2>1
  <2> HIDE DEF n
  <2>7. Moves(r, Released(r), n)
    BY <2>3, <2>4, <2>5 DEF Moves
  <2>. QED  BY <1>0, <2>2, <2>6, <2>7, BalancedUpdate
<1>7. CASE ~ (StampMonth(r) \/ RunFails(r) \/ CreateLedger(r) \/ IncLedger(r) \/ ReleaseCredits(r))
  <2>1. UNCHANGED <<ledger, books, resMonth, relMonth>>
    BY <1>7 DEF Proceed, BypassReturns, CheckKey, ClaimKey, ReclaimKey, ReadPlan, FindLedger,
       Reread, Deny, RunSucceeds, CommitKey, MarkFailed
  <2>. QED  BY <1>3, <2>1
<1>8. CASE \/ CreateLedger(r) /\ ~ NoLedgerYet(r)
           \/ IncLedger(r) /\ ~ HasRoom(r)
           \/ ReleaseCredits(r) /\ UNCHANGED <<creditsUsed, featureUsage, books>>
  BY <1>3, <1>8 DEF CreateLedger, IncLedger, ReleaseCredits
<1>. QED  BY <1>1, <1>2, <1>4, <1>5, <1>6, <1>7, <1>8

LEMMA BalancedStep ==
  Typed /\ LedgerSound /\ PaidOnce /\ Balanced /\ [Next]_vars => Balanced'
<1> SUFFICES ASSUME Typed, LedgerSound, PaidOnce, Balanced, [Next]_vars PROVE Balanced'
  OBVIOUS
<1>1. CASE \E r \in Request : Proceed(r)
  BY <1>1, BalancedProceed
<1>2. CASE ~ \E r \in Request : Proceed(r)
  <2>1. UNCHANGED <<ledger, books, resMonth, relMonth>>
    BY <1>2 DEF Next, Arrive, ArriveBypass, Throw, Crash, ExpireKey, ChangePlan, NextMonth, vars
  <2>. QED  BY <2>1, BalancedFrame DEF Reserved, Released
<1>. QED  BY <1>1, <1>2

LEMMA BooksAlways == Spec => [](Typed /\ LedgerSound /\ PaidOnce /\ Balanced)
BY BalancedInitially, BalancedStep, PaidAlways, SoundInitially, SoundStep, TypedAlways, PTL
   DEF Spec

\* AiCredits!LedgerBalances for every instance: creditsUsed and every
\* featureUsage are, to the credit, what the reservations that were not
\* refunded left, whatever failed, crashed or met the turn of the month.
THEOREM LedgerDoubleEntry == Spec => []LedgerBalances
BY BooksAlways, PTL DEF Balanced

-----------------------------------------------------------------------------
(***************************************************************************)
(* Charged if served.  The refund of a failed call finds enough credits in *)
(* its ledger because the ledger balances and nobody took them out.        *)
(***************************************************************************)
Settled ==
  \A r \in Request :
    /\ pc[r] = "done" => (r \in held <=> r \in ran)
    /\ pc[r] \in {"mark", "failed"} /\ stray = {} /\ "db" \notin Faults =>
         (r \in held <=> r \in ran /\ Released(r) # Reserved(r))

\* A ledger nobody strayed from holds the cost of whoever reserved in it.
LEMMA RefundIsThere ==
  ASSUME Typed, LedgerSound, Balanced, stray = {}, NEW r \in held
  PROVE  Reserved(r) \in ledgers /\ creditsUsed[Reserved(r)] >= CostOf(r)
<1> DEFINE a == Reserved(r)
           T == ReservedIn(Request, a) \ {r}
<1>0. TypeOK /\ r \in Request /\ a \in Account /\ CostOf(r) \in Nat /\ CostOf(r) > 0
  BY AccountOf DEF Typed, TypeOK
<1>1. StrayIn(Request, a) = {} /\ ReservedIn(Request, a) = T \cup {r}
  BY <1>0 DEF StrayIn, ReservedIn
<1>2. T \in SUBSET Request /\ r \notin T
  BY DEF ReservedIn
<1> HIDE DEF T, a
<1>3. Total(T) \in Nat /\ Total(T \cup {r}) = Total(T) + CostOf(r)
  BY <1>0, <1>2, CreditsFinite, TotalAdd
<1>4. creditsUsed[a] = Total(T) + CostOf(r) - 0
  BY <1>0, <1>1, <1>3, TotalNone DEF Balanced, LedgerBalances, Balance
<1>5. creditsUsed[a] >= CostOf(r) /\ creditsUsed[a] # 0
  BY <1>0, <1>3, <1>4
<1>6. a \in ledgers
  BY <1>0, <1>5 DEF LedgerSound
<1>. QED  BY <1>5, <1>6 DEF a

LEMMA SettledInitially == Init => Settled
BY DEF Init, Settled

\* A request that has not been settled yet moves, and so does nothing to those
\* that have.
LEMMA SettledFrame ==
  ASSUME TypeOK, Settled, NEW r \in Request, NEW l, Goto(r, l), stray \subseteq stray',
         \A q \in Request \ {r} : /\ q \in held' <=> q \in held
                                  /\ q \in ran' <=> q \in ran
                                  /\ Reserved(q)' = Reserved(q)
                                  /\ Released(q)' = Released(q),
         l = "done" => (r \in held' <=> r \in ran'),
         l \in {"mark", "failed"} /\ stray' = {} /\ "db" \notin Faults =>
           (r \in held' <=> r \in ran' /\ Released(r)' # Reserved(r)')
  PROVE  Settled'
<1>1. pc'[r] = l /\ \A q \in Request \ {r} : pc'[q] = pc[q]
  BY DEF TypeOK, Goto
<1>2. stray' = {} => stray = {}
  OBVIOUS
<1>. QED  BY <1>1, <1>2 DEF Settled

LEMMA SettledProceed ==
  ASSUME Typed, LedgerSound, PaidOnce, Balanced, Settled, NEW r \in Request, Proceed(r)
  PROVE  Settled'
<1>0. /\ TypeOK /\ pc \in [Request -> Location]
      /\ resMonth \in [Request -> Month] /\ relMonth \in [Request -> Month]
  BY DEF Typed, TypeOK
<1>1. CASE CheckKey(r)
  <2> DEFINE l == AfterCheck[keyStatus[KeyOf[r]]]
  <2>1. l \in {"claim", "conflict", "cached", "reclaim"}
    BY <1>1, AfterCheckType DEF CheckKey, Typed, Keyed, TypeOK
  <2>2. Goto(r, l) /\ UNCHANGED <<books, ran, resMonth, relMonth>>
    BY <1>1 DEF CheckKey
  <2> HIDE DEF l
  <2>. QED  BY <1>0, <2>1, <2>2, SettledFrame DEF Reserved, Released
<1>2. CASE BypassReturns(r)
  <2>1. r \notin held /\ r \notin ran
    BY <1>2 DEF BypassReturns, PaidOnce, Unpaid
  <2>2. (Goto(r, "done") \/ Goto(r, "failed")) /\ UNCHANGED <<books, ran, resMonth, relMonth>>
    BY <1>2 DEF BypassReturns
  <2>. QED  BY <1>0, <2>1, <2>2, SettledFrame DEF Reserved, Released
<1>3. CASE ClaimKey(r) \/ ReclaimKey(r) \/ ReadPlan(r) \/ FindLedger(r) \/ Deny(r)
  <2>1. /\ \E l \in {"reserve", "conflict", "find", "inc", "create", "denied"} : Goto(r, l)
        /\ UNCHANGED <<books, ran, resMonth, relMonth>>
    BY <1>3 DEF ClaimKey, ReclaimKey, ReadPlan, FindLedger, Deny
  <2>. QED  BY <1>0, <2>1, SettledFrame DEF Reserved, Released
<1>4. CASE StampMonth(r) \/ RunFails(r)
  <2>1. /\ \E l \in {"plan", "release"} : Goto(r, l)
        /\ \A q \in Request \ {r} : relMonth'[q] = relMonth[q] /\ resMonth'[q] = resMonth[q]
        /\ UNCHANGED <<books, ran>>
    BY <1>0, <1>4 DEF StampMonth, RunFails
  <2>. QED  BY <1>0, <2>1, SettledFrame DEF Reserved, Released
<1>5. CASE CreateLedger(r) \/ IncLedger(r) \/ Reread(r)
  <2>1. /\ \E l \in {"run", "inc", "reread", "deny"} : Goto(r, l)
        /\ \A q \in Request \ {r} : (q \in held' <=> q \in held) /\ (q \in ran' <=> q \in ran)
        /\ UNCHANGED <<stray, resMonth, relMonth>>
    BY <1>5 DEF CreateLedger, IncLedger, Reread
  <2>. QED  BY <1>0, <2>1, SettledFrame DEF Reserved, Released
<1>6. CASE RunSucceeds(r) \/ CommitKey(r)
  <2>1. r \in held /\ r \in ran
    BY <1>6 DEF RunSucceeds, CommitKey, PaidOnce, Paid
  <2>2. (Goto(r, "done") \/ Goto(r, "commit")) /\ UNCHANGED <<books, ran, resMonth, relMonth>>
    BY <1>6 DEF RunSucceeds, CommitKey
  <2>. QED  BY <1>0, <2>1, <2>2, SettledFrame DEF Reserved, Released
<1>7. CASE MarkFailed(r)
  <2>1. /\ pc[r] = "mark" /\ Goto(r, "failed") /\ UNCHANGED <<books, ran, resMonth, relMonth>>
    BY <1>7 DEF MarkFailed
  <2>2. stray = {} /\ "db" \notin Faults => (r \in held <=> r \in ran /\ Released(r) # Reserved(r))
    BY <2>1 DEF Settled
  <2>. QED  BY <1>0, <2>1, <2>2, SettledFrame DEF Reserved, Released
<1>8. CASE ReleaseCredits(r)
  <2>1. /\ r \in held /\ r \in ran
        /\ UNCHANGED <<ran, resMonth, relMonth>> /\ stray \subseteq stray'
        /\ \A q \in Request \ {r} : q \in held' <=> q \in held
        /\ Goto(r, "failed") \/ Goto(r, "mark")
    BY <1>8 DEF ReleaseCredits, PaidOnce, Paid
  <2>2. ASSUME stray' = {}, "db" \notin Faults
        PROVE  r \in held' <=> r \in ran' /\ Released(r)' # Reserved(r)'
    <3>0. stray = {} /\ Released(r)' = Released(r) /\ Reserved(r)' = Reserved(r)
      BY <2>1, <2>2 DEF Released, Reserved
    <3>1. CASE Released(r) = Reserved(r)
      <4>1. CanRelease(r)
        BY <2>1, <3>0, <3>1, RefundIsThere DEF CanRelease
      <4>2. held' = held \ {r}
        BY <1>8, <2>2, <3>1, <4>1 DEF ReleaseCredits
      <4>. QED  BY <3>0, <3>1, <4>2
    <3>2. CASE Released(r) # Reserved(r)
      <4>1. UNCHANGED held
        BY <1>8, <3>2 DEF ReleaseCredits
      <4>. QED  BY <2>1, <3>0, <3>2, <4>1
    <3>. QED  BY <3>1, <3>2
  <2>. QED  BY <1>0, <2>1, <2>2, SettledFrame DEF Reserved, Released
<1>. QED  BY <1>1, <1>2, <1>3, <1>4, <1>5, <1>6, <1>7, <1>8 DEF Proceed

LEMMA SettledStep ==
  Typed /\ LedgerSound /\ PaidOnce /\ Balanced /\ Settled /\ [Next]_vars => Settled'
<1> SUFFICES ASSUME Typed, LedgerSound, PaidOnce, Balanced, Settled, [Next]_vars
             PROVE  Settled'
  OBVIOUS
<1>1. CASE \E r \in Request : Proceed(r)
  BY <1>1, SettledProceed
<1>2. ASSUME NEW r \in Request, Arrive(r) \/ ArriveBypass(r) \/ Throw(r) \/ Crash(r)
      PROVE  Settled'
  <2>1. /\ \E l \in {"reserve", "check", "bypass", "error", "crashed"} : Goto(r, l)
        /\ UNCHANGED <<books, ran, resMonth, relMonth>>
    BY <1>2 DEF Arrive, ArriveBypass, Throw, Crash
  <2>. QED  BY <2>1, SettledFrame DEF Typed, Reserved, Released
<1>3. CASE (\E k \in Key : ExpireKey(k)) \/ (\E u \in User : ChangePlan(u))
             \/ NextMonth \/ UNCHANGED vars
  BY <1>3 DEF ExpireKey, ChangePlan, NextMonth, vars, Settled, Reserved, Released
<1>. QED  BY <1>1, <1>2, <1>3 DEF Next

\* AiCredits!ChargedIffServed for every instance: what is served is charged,
\* what is refused is not, and a failed call gets its credits back unless the
\* month turned under it.
THEOREM ChargesMatchService == Spec => []ChargedIffServed
<1>1. PaidOnce /\ Settled => ChargedIffServed
  BY DEF PaidOnce, Unpaid, Settled, ChargedIffServed
<1>. QED
  BY <1>1, BooksAlways, SettledInitially, SettledStep, PTL DEF Spec

=============================================================================
