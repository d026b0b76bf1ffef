----------------------------- MODULE AuthSessions -----------------------------
(***************************************************************************)
(* The sessions of one user in the app service (services/app/src/auth):    *)
(* refresh tokens that are issued at login and exchanged for a successor   *)
(* at each refresh, and the codes of a forgotten password.                 *)
(*                                                                         *)
(* A refresh token is refused for two reasons that are kept apart: its     *)
(* document says that it is revoked, or is gone; or the blacklist names    *)
(* it, which an instance keeps in Redis and in memory, and only in memory  *)
(* from the first error of Redis on. Several instances serve requests;     *)
(* each operation of the database or of Redis is atomic and may fail.      *)
(***************************************************************************)
EXTENDS Integers, FiniteSets

CONSTANTS
  Token,      \* bound: refresh tokens issued, in this order
  Code,       \* bound: reset codes sent, in this order
  Device,     \* user agents
  NoDevice,
  Instance,   \* instances of the service
  NoInstance,
  Request,    \* bound: requests served at a time
  MaxCalls,   \* bound: requests served altogether
  MaxFaults   \* bound: failures and restarts

ASSUME AuthAssumption ==
  /\ Token \subseteq Nat \ {0} /\ IsFiniteSet(Token) /\ Cardinality(Token) >= MaxCalls
  /\ Code \subseteq Nat \ {0} /\ IsFiniteSet(Code) /\ Cardinality(Code) >= MaxCalls
  /\ IsFiniteSet(Request) /\ NoDevice \notin Device /\ NoInstance \notin Instance
  /\ MaxCalls \in Nat /\ MaxFaults \in Nat

VARIABLES
  doc, device,        \* refresh tokens: their documents and devices
  codes,              \* documents of reset codes
  memory, connected,  \* per instance: the blacklist, and whether it still uses Redis
  redis,              \* the blacklist in Redis
  pc, at, arg, dev,   \* of a request: next operation, instance, token or code, device
  calls, faults,
  parent,     \* history: the token that a token replaced, or None
  since,      \* history: wipes there had been when the session of a token began
  era,        \* history: wipes of all sessions so far
  began,      \* history: of a request: since for the token it will create
  overtaken,  \* history: requests that a wipe overtook when they could no longer fail
  late,       \* history: tokens they created, and the successors of these
  crossed,    \* history: how often two requests were making tokens for a device at once
  twice,      \* history: how often a refresh found a token that another had found and not revoked
  out,        \* history: live tokens logged out while no refresh had found them
  bought,     \* history: how many reset tokens a code was exchanged for
  shared      \* history: how often a verification found a code that another had found and not used up

tokens == <<doc, device>>
blacklist == <<memory, connected, redis>>
work == <<pc, at, arg, dev, began>>
bounds == <<calls, faults>>
sessionHistory == <<parent, since, era, late>>
history == <<crossed, twice, out, bought, shared>>
vars == <<tokens, codes, blacklist, work, bounds, sessionHistory, overtaken, history>>

None == 0
Live == {t \in Token : doc[t] = "live"}
Issued == {t \in Token : doc[t] # "unissued"}
Least(x, S) == x \in S /\ \A y \in S : x <= y

\* Definitions whose name ends in Bug are what the definition after them
\* would be with a plausible mistake in the code; no specification uses them.

Init ==
  /\ doc = [t \in Token |-> "unissued"]
  /\ device = [t \in Token |-> NoDevice]
  /\ codes = [c \in Code |-> "unsent"]
  /\ memory = [i \in Instance |-> {}]
  /\ connected \in [Instance -> BOOLEAN]
  /\ redis = {}
  /\ pc = [r \in Request |-> "idle"]
  /\ at = [r \in Request |-> NoInstance]
  /\ arg = [r \in Request |-> None]
  /\ dev = [r \in Request |-> NoDevice]
  /\ calls = 0 /\ faults = 0
  /\ parent = [t \in Token |-> None] /\ since = [t \in Token |-> 0] /\ era = 0
  /\ began = [r \in Request |-> 0]
  /\ overtaken = {} /\ late = {} /\ out = {}
  /\ crossed = [d \in Device |-> 0] /\ twice = [t \in Token |-> 0]
  /\ bought = [c \in Code |-> 0] /\ shared = [c \in Code |-> 0]

-----------------------------------------------------------------------------
(* Requests *)

Busy(r) == pc[r] # "idle"

Goto(r, l) == pc' = [pc EXCEPT ![r] = l] /\ UNCHANGED <<at, arg, dev, began, overtaken>>

Forget(R) ==
  /\ pc' = [r \in Request |-> IF r \in R THEN "idle" ELSE pc[r]]
  /\ arg' = [r \in Request |-> IF r \in R THEN None ELSE arg[r]]
  /\ dev' = [r \in Request |-> IF r \in R THEN NoDevice ELSE dev[r]]
  /\ began' = [r \in Request |-> IF r \in R THEN 0 ELSE began[r]]
  /\ at' = [r \in Request |-> IF r \in R THEN NoInstance ELSE at[r]]

Return(r) == Forget({r}) /\ overtaken' = overtaken \ {r}

Fault == faults < MaxFaults /\ faults' = faults + 1

\* Requests are alike: the first free one is taken.
Begin(l, i, a, d) ==
  /\ \E r \in Request : ~ Busy(r)
  /\ calls < MaxCalls /\ calls' = calls + 1
  /\ LET r == CHOOSE q \in Request : ~ Busy(q) IN
     /\ pc' = [pc EXCEPT ![r] = l]
     /\ at' = [at EXCEPT ![r] = i]
     /\ arg' = [arg EXCEPT ![r] = a]
     /\ dev' = [dev EXCEPT ![r] = d]
     /\ began' = [began EXCEPT ![r] = IF a \in Issued /\ l = "has" THEN since[a] ELSE era]
  /\ UNCHANGED <<tokens, codes, blacklist, faults, sessionHistory, overtaken, history>>

\* A rejected query, or one whose answer is an error.
Fails(r) ==
  /\ pc[r] \in {"clearAll", "clearDevice", "find", "rotate", "create", "revoke", "wipe",
                "clearCodes", "sendCode", "findCode", "useCode"}
  /\ Fault /\ Return(r)
  /\ UNCHANGED <<tokens, codes, blacklist, calls, sessionHistory, history>>

\* An instance stops and comes back, with an empty map, to Redis or without.
Restart(i) ==
  /\ Fault
  /\ memory' = [memory EXCEPT ![i] = {}]
  /\ \E b \in BOOLEAN : connected' = [connected EXCEPT ![i] = b]
  /\ Forget({r \in Request : at[r] = i})
  /\ overtaken' = {r \in overtaken : at[r] # i}
  /\ UNCHANGED <<tokens, codes, redis, calls, sessionHistory, history>>

-----------------------------------------------------------------------------
(* login, oAuthGoogleLogin, refreshToken *)

\* Calls that will create a token if nothing fails any more
Committed == {r \in Request : pc[r] \in {"rotate", "black", "create"}}

Cross(r) == crossed' = IF \E q \in Committed \ {r} : dev[q] = dev[r]
                       THEN [crossed EXCEPT ![dev[r]] = @ + 1] ELSE crossed

\* A login with a password clears all sessions, one with Google those of the device.
Clear_RevokedBug(r) ==
  /\ pc[r] \in {"clearAll", "clearDevice"}
  /\ doc' = [t \in Token |-> IF doc[t] = "revoked" /\ (pc[r] = "clearAll" \/ device[t] = dev[r])
                             THEN "gone" ELSE doc[t]]
  /\ Goto(r, "create") /\ Cross(r)
  /\ UNCHANGED <<device, codes, blacklist, bounds, sessionHistory, twice, out, bought, shared>>

Clear(r) ==
  /\ pc[r] \in {"clearAll", "clearDevice"}
  /\ doc' = [t \in Token |-> IF t \in Issued /\ (pc[r] = "clearAll" \/ device[t] = dev[r])
                             THEN "gone" ELSE doc[t]]
  /\ Goto(r, "create") /\ Cross(r)
  /\ UNCHANGED <<device, codes, blacklist, bounds, sessionHistory, twice, out, bought, shared>>

Create_NoDeviceBug(r) ==
  /\ pc[r] = "create"
  /\ \E t \in Token : Least(t, Token \ Issued) /\ doc' = [doc EXCEPT ![t] = "live"]
  /\ Return(r)
  /\ UNCHANGED <<device, codes, blacklist, bounds, sessionHistory, history>>

Create(r) ==
  /\ pc[r] = "create"
  /\ \E t \in Token :
     /\ Least(t, Token \ Issued)
     /\ doc' = [doc EXCEPT ![t] = "live"]
     /\ device' = [device EXCEPT ![t] = dev[r]]
     /\ parent' = [parent EXCEPT ![t] = arg[r]]
     /\ since' = [since EXCEPT ![t] = began[r]]
     /\ late' = IF r \in overtaken \/ arg[r] \in late THEN late \cup {t} ELSE late
  /\ Return(r)
  /\ UNCHANGED <<codes, blacklist, bounds, era, history>>

\* TokenBlacklistService.has: an error of Redis ends its use for good.
Has(r) ==
  LET i == at[r]
      InMemory == IF arg[r] \in memory[i] THEN Return(r) ELSE Goto(r, "find") IN
  /\ pc[r] = "has"
  /\ \/ /\ connected[i]
        /\ IF arg[r] \in redis THEN Return(r) ELSE InMemory
        /\ UNCHANGED <<faults, connected>>
     \/ /\ connected[i] /\ Fault /\ InMemory
        /\ connected' = [connected EXCEPT ![i] = FALSE]
     \/ ~ connected[i] /\ InMemory /\ UNCHANGED <<faults, connected>>
  /\ UNCHANGED <<tokens, codes, memory, redis, calls, sessionHistory, history>>

Find_RevokedBug(r) ==
  /\ pc[r] = "find"
  /\ IF doc[arg[r]] \in {"live", "revoked"}
     THEN /\ Goto(r, "rotate") /\ Cross(r)
          /\ twice' = IF \E q \in Request : pc[q] = "rotate" /\ arg[q] = arg[r]
                      THEN [twice EXCEPT ![arg[r]] = @ + 1] ELSE twice
     ELSE Return(r) /\ UNCHANGED <<crossed, twice>>
  /\ UNCHANGED <<tokens, codes, blacklist, bounds, sessionHistory, out, bought, shared>>

\* The document of the token if it is not revoked
Find(r) ==
  /\ pc[r] = "find"
  /\ IF doc[arg[r]] = "live"
     THEN /\ Goto(r, "rotate") /\ Cross(r)
          /\ twice' = IF \E q \in Request : pc[q] = "rotate" /\ arg[q] = arg[r]
                      THEN [twice EXCEPT ![arg[r]] = @ + 1] ELSE twice
     ELSE Return(r) /\ UNCHANGED <<crossed, twice>>
  /\ UNCHANGED <<tokens, codes, blacklist, bounds, sessionHistory, out, bought, shared>>

Rotate_NoMatchBug(r) ==
  /\ pc[r] = "rotate"
  /\ doc' = [doc EXCEPT ![arg[r]] = IF @ = "gone" THEN "gone" ELSE "revoked"]
  /\ Goto(r, "black")
  /\ UNCHANGED <<device, codes, blacklist, bounds, sessionHistory, history>>

\* storedToken.save() revokes it whether or not somebody else has done so;
\* it fails if the document is gone.
Rotate(r) ==
  /\ pc[r] = "rotate"
  /\ IF doc[arg[r]] = "gone" THEN Return(r) /\ UNCHANGED doc
     ELSE doc' = [doc EXCEPT ![arg[r]] = "revoked"] /\ Goto(r, "black")
  /\ UNCHANGED <<device, codes, blacklist, bounds, sessionHistory, history>>

\* TokenBlacklistService.add, in a refresh or a logout
Black(r) ==
  /\ pc[r] \in {"black", "blackout"}
  /\ memory' = [memory EXCEPT ![at[r]] = @ \cup {arg[r]}]
  /\ \/ connected[at[r]] /\ redis' = redis \cup {arg[r]} /\ UNCHANGED <<faults, connected>>
     \/ connected[at[r]] /\ Fault /\ connected' = [connected EXCEPT ![at[r]] = FALSE] /\ UNCHANGED redis
     \/ ~ connected[at[r]] /\ UNCHANGED <<faults, connected, redis>>
  /\ IF pc[r] = "black" THEN Goto(r, "create") ELSE Return(r)
  /\ UNCHANGED <<tokens, codes, calls, sessionHistory, history>>

-----------------------------------------------------------------------------
(* logout, logoutAll, resetPassword, adminResetPassword *)

Revoke(r) ==
  /\ pc[r] = "revoke"
  /\ doc' = [doc EXCEPT ![arg[r]] = IF @ = "live" THEN "revoked" ELSE @]
  /\ out' = IF arg[r] \in Live /\ ~ \E q \in Request : pc[q] = "rotate" /\ arg[q] = arg[r]
            THEN out \cup {arg[r]} ELSE out
  /\ Goto(r, "blackout")
  /\ UNCHANGED <<device, codes, blacklist, bounds, sessionHistory, crossed, twice, bought, shared>>

\* deleteMany of all tokens: the end of logoutAll and of both resets
Wipe(r) ==
  /\ pc[r] = "wipe"
  /\ doc' = [t \in Token |-> IF t \in Issued THEN "gone" ELSE doc[t]]
  /\ era' = era + 1
  /\ Forget({r})
  /\ overtaken' = overtaken \cup {q \in Request : pc[q] \in {"clearAll", "clearDevice", "black", "create"}}
  /\ UNCHANGED <<device, codes, blacklist, bounds, parent, since, late, history>>

-----------------------------------------------------------------------------
(* requestResetPassword, verifyResetCode *)

Sent == {c \in Code : codes[c] # "unsent"}

ClearCodes(r) ==
  /\ pc[r] = "clearCodes"
  /\ codes' = [c \in Code |-> IF c \in Sent THEN "gone" ELSE "unsent"]
  /\ Goto(r, "sendCode")
  /\ UNCHANGED <<tokens, blacklist, bounds, sessionHistory, history>>

SendCode(r) ==
  /\ pc[r] = "sendCode"
  /\ \E c \in Code : Least(c, Code \ Sent) /\ codes' = [codes EXCEPT ![c] = "open"]
  /\ Return(r)
  /\ UNCHANGED <<tokens, blacklist, bounds, sessionHistory, history>>

FindCode(r) ==
  /\ pc[r] = "findCode"
  /\ IF codes[arg[r]] = "open"
     THEN /\ Goto(r, "useCode")
          /\ shared' = IF \E q \in Request : pc[q] = "useCode" /\ arg[q] = arg[r]
                       THEN [shared EXCEPT ![arg[r]] = @ + 1] ELSE shared
     ELSE Return(r) /\ UNCHANGED shared
  /\ UNCHANGED <<tokens, codes, blacklist, bounds, sessionHistory, crossed, twice, out, bought>>

\* record.save(), which fails if the document is gone; then a reset token is
\* signed that is good for ten minutes, however often it is used.
UseCode(r) ==
  /\ pc[r] = "useCode" /\ Return(r)
  /\ IF codes[arg[r]] = "gone" THEN UNCHANGED <<codes, bought>>
     ELSE /\ codes' = [codes EXCEPT ![arg[r]] = "used"]
          /\ bought' = [bought EXCEPT ![arg[r]] = @ + 1]
  /\ UNCHANGED <<tokens, blacklist, bounds, sessionHistory, crossed, twice, out, shared>>

-----------------------------------------------------------------------------
Serve(r) ==
  \/ Clear(r) \/ Create(r) \/ Has(r) \/ Find(r) \/ Rotate(r) \/ Black(r)
  \/ Revoke(r) \/ Wipe(r)
  \/ ClearCodes(r) \/ SendCode(r) \/ FindCode(r) \/ UseCode(r)
  \/ Fails(r)

Next ==
  \/ \E i \in Instance :
       \/ \E d \in Device : Begin("clearAll", i, None, d) \/ Begin("clearDevice", i, None, d)
       \/ \E t \in Issued : Begin("has", i, t, device[t]) \/ Begin("revoke", i, t, NoDevice)
       \/ Begin("wipe", i, None, NoDevice)
       \/ Begin("clearCodes", i, None, NoDevice)
       \/ \E c \in Sent : Begin("findCode", i, c, NoDevice)
       \/ Restart(i)
  \/ \E r \in Request : Serve(r)

Spec == Init /\ [][Next]_vars

-----------------------------------------------------------------------------
(* Properties *)

\* Every variable holds values of its kind; an issued token belongs to a device.
TypeOK ==
  /\ doc \in [Token -> {"unissued", "live", "revoked", "gone"}]
  /\ device \in [Token -> Device \cup {NoDevice}]
  /\ \A t \in Issued : device[t] \in Device /\ since[t] <= era
  /\ codes \in [Code -> {"unsent", "open", "used", "gone"}]
  /\ memory \in [Instance -> SUBSET Issued]
  /\ connected \in [Instance -> BOOLEAN] /\ redis \subseteq Issued
  /\ pc \in [Request -> {"idle", "clearAll", "clearDevice", "create", "has", "find", "rotate", "black",
                         "revoke", "blackout", "wipe", "clearCodes", "sendCode", "findCode", "useCode"}]
  /\ at \in [Request -> Instance \cup {NoInstance}]
  /\ arg \in [Request -> Issued \cup Sent \cup {None}]
  /\ dev \in [Request -> Device \cup {NoDevice}]
  /\ calls \in Nat /\ faults \in Nat
  /\ parent \in [Token -> Issued \cup {None}]
  /\ since \in [Token -> Nat] /\ era \in Nat /\ began \in [Request -> Nat]
  /\ overtaken \subseteq Request
  /\ late \subseteq Issued /\ out \subseteq Issued
  /\ crossed \in [Device -> Nat] /\ twice \in [Token -> Nat]
  /\ bought \in [Code -> Nat] /\ shared \in [Code -> Nat]

\* A device has one live token, through logins of both kinds, refreshes and
\* failures, and never more than one for each time that a call came to make a
\* token for it while another was making one.
OneSessionPerDevice ==
  \A d \in Device : Cardinality({t \in Live : device[t] = d}) <= 1 + crossed[d]

\* Logging out everywhere, or a new password, ends every session: a live
\* token goes back to a login that began later, or to a call that had already
\* logged in, or revoked its token, when the others were deleted.
EndedMeansEnded == \A t \in Live \ late : since[t] = era

\* A refresh token buys one successor, and none once it is logged out; a reset
\* code buys one reset token: whatever became of Redis, of the memory of
\* instances and of the calls, and whichever instance is asked. Each call that
\* finds a token or code another has found and not used up buys one more.
Successors(t) == {s \in Issued : parent[s] = t}

UsedUpOnce ==
  /\ \A t \in Token : Cardinality(Successors(t)) <= 1 + twice[t]
  /\ \A t \in out : Successors(t) = {}
  /\ \A c \in Code : bought[c] <= 1 + shared[c]
=============================================================================
