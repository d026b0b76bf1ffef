------------------------------ MODULE AiCredits ------------------------------
(***************************************************************************)
(* The AI credit service of the lms microservice                           *)
(* (services/lms/src/ai-usage/ai-credit.service.ts).                       *)
(*                                                                         *)
(* A request is one call of executeWithCredits.  Several requests run at   *)
(* the same time, on one lms instance or on several: between two awaits    *)
(* of one request every other request may move, so each database           *)
(* operation is an action of its own and pc[r] is the await request r is   *)
(* at.  The ledger and the idempotency records are MongoDB documents; one  *)
(* update of one document is atomic and nothing else is.                   *)
(***************************************************************************)
EXTENDS Integers, FiniteSets

CONSTANTS
  Request,      \* calls of executeWithCredits
  User,
  Feature,      \* AIFeature
  Key,          \* idempotency keys
  None,         \* no idempotency key (problem-solving hints); nobody
  UserOf,       \* the user, feature and key a request is called with
  FeatureOf,
  KeyOf,
  Cost,         \* AI_FEATURE_COST
  Limit,        \* TOTAL_MONTHLY_CREDITS
  LastMonth,    \* bound: the calendar stops here
  Flags,        \* values of ENABLE_AI_CREDITS_V2 on the instances that are up
  Faults        \* faults considered: "db" (an operation throws), "crash"

Plan == {"FREE", "PRO"}
Month == 0 .. LastMonth
Account == User \X Month

ASSUME RequestAssumption ==
  /\ IsFiniteSet(Request)
  /\ UserOf \in [Request -> User]
  /\ FeatureOf \in [Request -> Feature]
  /\ KeyOf \in [Request -> Key \cup {None}]
  /\ None \notin Key /\ None \notin Request

\* Every feature fits in an empty ledger of the smaller plan, as the two
\* tables of the source do (at most 60 of 300).
ASSUME CostAssumption ==
  /\ Cost \in [Feature -> Nat]
  /\ Limit \in [Plan -> Nat]
  /\ \A f \in Feature : 0 < Cost[f] /\ Cost[f] <= Limit["FREE"]
  /\ Limit["FREE"] <= Limit["PRO"]

ASSUME BoundAssumption ==
  /\ LastMonth \in Nat
  /\ Flags \subseteq BOOLEAN
  /\ Faults \subseteq {"db", "crash"}

VARIABLES
  month,         \* getMonthKey()
  plan,          \* what checkUserPlan answers for each user
  ledgers,       \* accounts that have an ai_usage_ledger document
  creditsUsed,   \* its creditsUsed
  featureUsage,  \* its featureUsage
  keyStatus,     \* status of the ai_idempotency document of a key
  claimedBy,     \* the request that created that document
  pc,
  resMonth,      \* monthKey of reserveCredits
  resLimit,      \* limit of reserveCredits
  relMonth,      \* monthKey of releaseCredits
  everPro,       \* history: users that have been on the PRO plan
  held,          \* history: requests whose cost is still in their own month
  stray,         \* history: requests that released in another month
  ran,           \* history: requests that called the AI function
  reopened       \* history: keys marked FAILED or expired at least once

clock  == <<month>>
plans  == <<plan, everPro>>
ledger == <<ledgers, creditsUsed, featureUsage>>
keys   == <<keyStatus, claimedBy, reopened>>
locals == <<resMonth, resLimit, relMonth>>
books  == <<held, stray>>
vars   == <<clock, plans, ledger, keys, pc, locals, books, ran>>

Status == {"none", "PENDING", "COMPLETED", "FAILED"}
Ended == {"done", "failed", "denied", "conflict", "cached", "error", "crashed"}
\* Database operations outside the try block of executeWithCredits, or whose
\* exception leaves it unhandled: the request ends with that exception.
Throwing == {"check", "claim", "reclaim", "find", "create", "inc", "reread", "deny"}
Location == {"new", "bypass", "reserve", "plan", "run", "commit", "release", "mark"}
              \cup Throwing \cup Ended

CostOf(r) == Cost[FeatureOf[r]]
Reserved(r) == <<UserOf[r], resMonth[r]>>   \* the ledger reserveCredits uses
Released(r) == <<UserOf[r], relMonth[r]>>   \* the ledger releaseCredits uses

Goto(r, l) == pc' = [pc EXCEPT ![r] = l]

\* Definitions whose name ends in _Bug are what the definition after them
\* would be with a plausible mistake in the code; no specification uses them.

-----------------------------------------------------------------------------
Init ==
  /\ month = 0
  /\ plan \in [User -> Plan]
  /\ everPro = {u \in User : plan[u] = "PRO"}
  /\ ledgers = {}
  /\ creditsUsed = [a \in Account |-> 0]
  /\ featureUsage = [a \in Account |-> [f \in Feature |-> 0]]
  /\ keyStatus = [k \in Key |-> "none"]
  /\ claimedBy = [k \in Key |-> None]
  /\ pc = [r \in Request |-> "new"]
  /\ resMonth = [r \in Request |-> 0]
  /\ resLimit = [r \in Request |-> 0]
  /\ relMonth = [r \in Request |-> 0]
  /\ held = {}
  /\ stray = {}
  /\ ran = {}
  /\ reopened = {}

\* executeWithCredits is called on an instance that enforces credits ...
Arrive(r) ==
  /\ pc[r] = "new"
  /\ TRUE \in Flags
  /\ Goto(r, IF KeyOf[r] = None THEN "reserve" ELSE "check")
  /\ UNCHANGED <<clock, plans, ledger, keys, locals, books, ran>>

\* ... or on one that does not: neither the key nor the ledger is touched.
ArriveBypass(r) ==
  /\ pc[r] = "new"
  /\ FALSE \in Flags
  /\ Goto(r, "bypass")
  /\ UNCHANGED <<clock, plans, ledger, keys, locals, books, ran>>

BypassReturns(r) ==
  /\ pc[r] = "bypass"
  /\ Goto(r, "done") \/ Goto(r, "failed")
  /\ UNCHANGED <<clock, plans, ledger, keys, locals, books, ran>>

-----------------------------------------------------------------------------
(* checkIdempotency *)

AfterCheck_NoConflictBug == [none |-> "claim", PENDING |-> "reclaim", COMPLETED |-> "cached", FAILED |-> "reclaim"]
AfterCheck_NoCacheBug == [none |-> "claim", PENDING |-> "conflict", COMPLETED |-> "reclaim", FAILED |-> "reclaim"]

\* What each status found by findOne leads to.
AfterCheck ==
  [none |-> "claim", PENDING |-> "conflict", COMPLETED |-> "cached", FAILED |-> "reclaim"]

CheckKey(r) ==
  /\ pc[r] = "check"
  /\ Goto(r, AfterCheck[keyStatus[KeyOf[r]]])
  /\ UNCHANGED <<clock, plans, ledger, keys, locals, books, ran>>

\* create: the unique index lets one creator through.
ClaimKey(r) ==
  /\ pc[r] = "claim"
  /\ \/ /\ keyStatus[KeyOf[r]] = "none"
        /\ keyStatus' = [keyStatus EXCEPT ![KeyOf[r]] = "PENDING"]
        /\ claimedBy' = [claimedBy EXCEPT ![KeyOf[r]] = r]
        /\ Goto(r, "reserve")
     \/ /\ keyStatus[KeyOf[r]] # "none"
        /\ Goto(r, "conflict")
        /\ UNCHANGED <<keyStatus, claimedBy>>
  /\ UNCHANGED <<clock, plans, ledger, reopened, locals, books, ran>>

\* updateOne({ idempotencyKey }, ...): no upsert and no condition on the
\* status that is being replaced.
SetStatus(k, s) ==
  keyStatus' = IF keyStatus[k] = "none" THEN keyStatus
               ELSE [keyStatus EXCEPT ![k] = s]

ReclaimKey(r) ==
  /\ pc[r] = "reclaim"
  /\ SetStatus(KeyOf[r], "PENDING")
  /\ Goto(r, "reserve")
  /\ UNCHANGED <<clock, plans, ledger, claimedBy, reopened, locals, books, ran>>

-----------------------------------------------------------------------------
(* reserveCredits *)

MonthKey_OffByOneBug == month + 1
MonthKey == month

StampMonth(r) ==
  /\ pc[r] = "reserve"
  /\ resMonth' = [resMonth EXCEPT ![r] = MonthKey]
  /\ Goto(r, "plan")
  /\ UNCHANGED <<clock, plans, ledger, keys, resLimit, relMonth, books, ran>>

\* getUserPlan answers FREE when the subscription query throws.
ReadPlan(r) ==
  /\ pc[r] = "plan"
  /\ \/ resLimit' = [resLimit EXCEPT ![r] = Limit[plan[UserOf[r]]]]
     \/ /\ "db" \in Faults
        /\ resLimit' = [resLimit EXCEPT ![r] = Limit["FREE"]]
  /\ Goto(r, "find")
  /\ UNCHANGED <<clock, plans, ledger, keys, resMonth, relMonth, books, ran>>

FindLedger(r) ==
  /\ pc[r] = "find"
  /\ Goto(r, IF Reserved(r) \in ledgers THEN "inc" ELSE "create")
  /\ UNCHANGED <<clock, plans, ledger, keys, locals, books, ran>>

\* The unique index on { userId, monthKey } admits the document.
NoLedgerYet_NoIndexBug(r) == TRUE
NoLedgerYet(r) == Reserved(r) \notin ledgers

\* The first request of the month creates the document already charged; on
\* E11000 somebody else did and the conditional update is tried.
CreateLedger(r) ==
  /\ pc[r] = "create"
  /\ \/ /\ NoLedgerYet(r)
        /\ ledgers' = ledgers \cup {Reserved(r)}
        /\ creditsUsed' = [creditsUsed EXCEPT ![Reserved(r)] = CostOf(r)]
        /\ featureUsage' = [featureUsage EXCEPT
             ![Reserved(r)] = [f \in Feature |-> IF f = FeatureOf[r] THEN CostOf(r) ELSE 0]]
        /\ held' = held \cup {r}
        /\ ran' = ran \cup {r}
        /\ Goto(r, "run")
     \/ /\ ~ NoLedgerYet(r)
        /\ Goto(r, "inc")
        /\ UNCHANGED <<ledger, held, ran>>
  /\ UNCHANGED <<clock, plans, keys, locals, stray>>

HasRoom_NoCostBug(r) == creditsUsed[Reserved(r)] <= resLimit[r]

\* The filter of the conditional update.
HasRoom(r) == creditsUsed[Reserved(r)] <= resLimit[r] - CostOf(r)

IncLedger(r) ==
  /\ pc[r] = "inc"
  /\ \/ /\ HasRoom(r)
        /\ creditsUsed' = [creditsUsed EXCEPT ![Reserved(r)] = @ + CostOf(r)]
        /\ featureUsage' = [featureUsage EXCEPT ![Reserved(r)][FeatureOf[r]] = @ + CostOf(r)]
        /\ held' = held \cup {r}
        /\ Goto(r, "reread")
     \/ /\ ~ HasRoom(r)
        /\ Goto(r, "deny")
        /\ UNCHANGED <<creditsUsed, featureUsage, held>>
  /\ UNCHANGED <<clock, plans, ledgers, keys, locals, stray, ran>>

Reread(r) ==
  /\ pc[r] = "reread"
  /\ ran' = ran \cup {r}
  /\ Goto(r, "run")
  /\ UNCHANGED <<clock, plans, ledger, keys, locals, books>>

Deny_RetryBug(r) ==
  /\ pc[r] = "deny"
  /\ Goto(r, "find")
  /\ UNCHANGED <<clock, plans, ledger, keys, locals, books, ran>>

\* INSUFFICIENT_CREDITS is thrown outside the try block: the key, if any,
\* keeps the PENDING it was given.
Deny(r) ==
  /\ pc[r] = "deny"
  /\ Goto(r, "denied")
  /\ UNCHANGED <<clock, plans, ledger, keys, locals, books, ran>>

-----------------------------------------------------------------------------
(* The AI call, commitIdempotency, releaseCredits, failIdempotency *)

RunSucceeds(r) ==
  /\ pc[r] = "run"
  /\ Goto(r, IF KeyOf[r] = None THEN "done" ELSE "commit")
  /\ UNCHANGED <<clock, plans, ledger, keys, locals, books, ran>>

RunFails_NoReleaseBug(r) ==
  /\ pc[r] = "run"
  /\ Goto(r, "mark")
  /\ UNCHANGED <<clock, plans, ledger, keys, locals, books, ran>>

\* releaseCredits computes its month key anew.
RunFails(r) ==
  /\ pc[r] = "run"
  /\ relMonth' = [relMonth EXCEPT ![r] = MonthKey]
  /\ Goto(r, "release")
  /\ UNCHANGED <<clock, plans, ledger, keys, resMonth, resLimit, books, ran>>

CommitKey(r) ==
  /\ pc[r] = "commit"
  /\ \/ SetStatus(KeyOf[r], "COMPLETED")
     \/ "db" \in Faults /\ UNCHANGED keyStatus
  /\ Goto(r, "done")
  /\ UNCHANGED <<clock, plans, ledger, claimedBy, reopened, locals, books, ran>>

CanRelease_NoFloorBug(r) == Released(r) \in ledgers

\* The filter of the release.
CanRelease(r) == Released(r) \in ledgers /\ creditsUsed[Released(r)] >= CostOf(r)

ReleaseCredits(r) ==
  /\ pc[r] = "release"
  /\ \/ /\ CanRelease(r)
        /\ creditsUsed' = [creditsUsed EXCEPT ![Released(r)] = @ - CostOf(r)]
        /\ featureUsage' = [featureUsage EXCEPT ![Released(r)][FeatureOf[r]] = @ - CostOf(r)]
        /\ \/ Released(r) = Reserved(r) /\ held' = held \ {r} /\ UNCHANGED stray
           \/ Released(r) # Reserved(r) /\ stray' = stray \cup {r} /\ UNCHANGED held
     \/ /\ ~ CanRelease(r) \/ "db" \in Faults
        /\ UNCHANGED <<creditsUsed, featureUsage, books>>
  /\ Goto(r, IF KeyOf[r] = None THEN "failed" ELSE "mark")
  /\ UNCHANGED <<clock, plans, ledgers, keys, locals, ran>>

MarkFailed(r) ==
  /\ pc[r] = "mark"
  /\ \/ /\ SetStatus(KeyOf[r], "FAILED")
        /\ reopened' = reopened \cup {KeyOf[r]}
     \/ "db" \in Faults /\ UNCHANGED <<keyStatus, reopened>>
  /\ Goto(r, "failed")
  /\ UNCHANGED <<clock, plans, ledger, claimedBy, locals, books, ran>>

-----------------------------------------------------------------------------
(* Faults and the environment *)

\* A database operation outside the try block throws.
Throw(r) ==
  /\ "db" \in Faults
  /\ pc[r] \in Throwing
  /\ Goto(r, "error")
  /\ UNCHANGED <<clock, plans, ledger, keys, locals, books, ran>>

\* The instance that runs the request stops.
Crash(r) ==
  /\ "crash" \in Faults
  /\ pc[r] \notin Ended \cup {"new"}
  /\ Goto(r, "crashed")
  /\ UNCHANGED <<clock, plans, ledger, keys, locals, books, ran>>

Expired_FinishedOnlyBug(k) == keyStatus[k] \in {"COMPLETED", "FAILED"} /\ pc[claimedBy[k]] \in Ended

\* The TTL index removes a record 24 hours after it was created.  The request
\* that created it is over long before, but a later request that reused a
\* FAILED record did not renew createdAt and may still be running.
Expired(k) == keyStatus[k] # "none" /\ pc[claimedBy[k]] \in Ended

ExpireKey(k) ==
  /\ Expired(k)
  /\ keyStatus' = [keyStatus EXCEPT ![k] = "none"]
  /\ reopened' = reopened \cup {k}
  /\ UNCHANGED <<clock, plans, ledger, claimedBy, pc, locals, books, ran>>

NextMonth ==
  /\ month < LastMonth
  /\ month' = month + 1
  /\ UNCHANGED <<plans, ledger, keys, pc, locals, books, ran>>

\* A subscription is created, activated, cancelled ...
ChangePlan(u) ==
  /\ \E p \in Plan \ {plan[u]} :
       /\ plan' = [plan EXCEPT ![u] = p]
       /\ everPro' = IF p = "PRO" THEN everPro \cup {u} ELSE everPro
  /\ UNCHANGED <<clock, ledger, keys, pc, locals, books, ran>>

\* What a request does by itself once it has arrived.
Proceed(r) ==
  \/ BypassReturns(r)
  \/ CheckKey(r) \/ ClaimKey(r) \/ ReclaimKey(r)
  \/ StampMonth(r) \/ ReadPlan(r) \/ FindLedger(r) \/ CreateLedger(r)
  \/ IncLedger(r) \/ Reread(r) \/ Deny(r)
  \/ RunSucceeds(r) \/ RunFails(r)
  \/ CommitKey(r) \/ ReleaseCredits(r) \/ MarkFailed(r)

Next ==
  \/ \E r \in Request :
       Arrive(r) \/ ArriveBypass(r) \/ Proceed(r) \/ Throw(r) \/ Crash(r)
  \/ \E k \in Key : ExpireKey(k)
  \/ \E u \in User : ChangePlan(u)
  \/ NextMonth

Spec == Init /\ [][Next]_vars

\* Node runs every continuation that is ready, every driver and HTTP call
\* has a timeout, and MongoDB's TTL monitor keeps running.  Callers, plan
\* changes, faults and the calendar owe nothing.
Fairness ==
  /\ \A r \in Request : WF_vars(Proceed(r))
  /\ \A k \in Key : WF_vars(ExpireKey(k))

FairSpec == Spec /\ Fairness

-----------------------------------------------------------------------------
(* Properties *)

\* Every variable holds values of its kind: the documents and the locals of
\* the requests that executeWithCredits reads and writes.
TypeOK ==
  /\ month \in Month
  /\ plan \in [User -> Plan]
  /\ everPro \subseteq User
  /\ ledgers \subseteq Account
  /\ creditsUsed \in [Account -> Int]
  /\ featureUsage \in [Account -> [Feature -> Int]]
  /\ keyStatus \in [Key -> Status]
  /\ claimedBy \in [Key -> Request \cup {None}]
  /\ pc \in [Request -> Location]
  /\ resMonth \in [Request -> Month]
  /\ resLimit \in [Request -> Int]
  /\ relMonth \in [Request -> Month]
  /\ held \subseteq Request
  /\ stray \subseteq Request
  /\ ran \subseteq Request
  /\ reopened \subseteq Key

\* The most a user's plans have ever allowed in one month.
Allowance(u) == Limit[IF u \in everPro THEN "PRO" ELSE "FREE"]

\* However many requests of a user are between their checks and their
\* updates, a month's creditsUsed stays between zero and what the best plan
\* the user has had allows: creation, conditional increment and conditional
\* release together never overdraw the ledger.
WithinAllowance ==
  \A u \in User, m \in Month :
    /\ 0 <= creditsUsed[<<u, m>>]
    /\ creditsUsed[<<u, m>>] <= Allowance(u)

\* The credits the requests of S cost, each credit a thing of its own, and
\* how many they are.
Credits(S) == UNION {{r} \X (1 .. CostOf(r)) : r \in S}
Total(S) == Cardinality(Credits(S))

\* What the requests of S left in a ledger: the cost of those that reserved
\* in it and were not refunded, less what those of another month released.
ReservedIn(S, a) == {r \in S \cap held : Reserved(r) = a}
StrayIn(S, a) == {r \in S \cap stray : Released(r) = a}
Balance(S, a) == Total(ReservedIn(S, a)) - Total(StrayIn(S, a))

Using(f) == {r \in Request : FeatureOf[r] = f}

\* Double-entry: what a ledger shows is what its requests left in it, for the
\* total and for each feature.  No interleaving of creations, increments and
\* releases loses or invents a credit.
LedgerBalances ==
  \A a \in Account :
    /\ creditsUsed[a] = Balance(Request, a)
    /\ \A f \in Feature : featureUsage[a][f] = Balance(Using(f), a)

\* A served request is charged, a denied, duplicate or cached one costs
\* nothing, whatever goes wrong around them.  A failed one was refunded, if no
\* query failed and nobody was refunded from a month they had not reserved in;
\* unless its AI call failed after the month had turned, for then
\* releaseCredits looks for the refund in a ledger that is not there yet.
ChargedIffServed ==
  \A r \in Request :
    /\ pc[r] = "done" => (r \in held <=> r \in ran)
    /\ pc[r] \in {"denied", "conflict", "cached"} => r \notin held
    /\ pc[r] = "failed" /\ stray = {} /\ "db" \notin Faults =>
         (r \in held <=> r \in ran /\ Released(r) # Reserved(r))

\* As long as a key has not been marked FAILED and has not expired, at most
\* one of the requests that carry it calls the AI function, whatever their
\* interleaving and even if the first one crashed.
SingleExecution ==
  \A r1, r2 \in ran :
    KeyOf[r1] = KeyOf[r2] /\ KeyOf[r1] \in Key \ reopened => r1 = r2

\* A COMPLETED key stops answering "already done" only by expiring or when a
\* request that was let through after a failure is still running with it.
CompletedIsFinal ==
  [][\A k \in Key : keyStatus[k] = "COMPLETED" /\ keyStatus'[k] # "COMPLETED" =>
       keyStatus'[k] = "none" \/ k \in reopened]_vars

\* Every call returns to its caller.
EveryCallEnds == \A r \in Request : pc[r] \notin {"new"} \cup Ended ~> pc[r] \in Ended

\* A key that is PENDING does not stay so for ever, not even when its request
\* was denied or crashed: the TTL index is what frees it.
PendingIsFreed == \A k \in Key : keyStatus[k] = "PENDING" ~> keyStatus[k] # "PENDING"

\* The ledger as the abstract accounts of CreditAccounts.
Accounts == INSTANCE CreditAccounts WITH
  Amount <- {Cost[f] : f \in Feature},
  Ceiling <- {Limit[p] : p \in Plan},
  used <- creditsUsed
ImplementsAccounts == Accounts!Spec

=============================================================================
