------------------------- MODULE AuthSessionsProofs -------------------------
(***************************************************************************)
(* Theorems about AuthSessions, for any number of tokens, codes, devices,  *)
(* instances, requests, failures and restarts.                             *)
(***************************************************************************)
EXTENDS AuthSessions, FiniteSetTheorems, TLAPS

USE DEF tokens, blacklist, work, bounds, sessionHistory, history

Location == {"idle", "clearAll", "clearDevice", "create", "has", "find", "rotate", "black",
             "revoke", "blackout", "wipe", "clearCodes", "sendCode", "findCode", "useCode"}

-----------------------------------------------------------------------------
(* Counting *)

LEMMA Counted ==
  ASSUME NEW S \in (SUBSET Request) \cup (SUBSET Token)
  PROVE  IsFiniteSet(S) /\ Cardinality(S) \in Nat
BY AuthAssumption, FS_Subset, FS_CardinalityType

LEMMA Fewer ==
  ASSUME NEW S, IsFiniteSet(S), NEW T \in SUBSET S
  PROVE  Cardinality(T) <= Cardinality(S)
BY FS_Subset

LEMMA OneFewer ==
  ASSUME NEW S, IsFiniteSet(S), NEW x \in S, NEW T \in SUBSET (S \ {x})
  PROVE  Cardinality(T) + 1 <= Cardinality(S)
<1>1. IsFiniteSet(S \ {x}) /\ Cardinality(S \ {x}) = Cardinality(S) - 1
  BY FS_RemoveElement
<1>2. Cardinality(T) <= Cardinality(S \ {x}) /\ Cardinality(T) \in Nat /\ Cardinality(S) \in Nat
  BY <1>1, FS_Subset, FS_CardinalityType
<1>. QED  BY <1>1, <1>2

LEMMA OneMore ==
  ASSUME NEW S, IsFiniteSet(S), NEW x, NEW T \in SUBSET (S \cup {x})
  PROVE  Cardinality(T) <= Cardinality(S) + 1
<1>1. /\ IsFiniteSet(S \cup {x})
      /\ Cardinality(S \cup {x}) = Cardinality(S) \/ Cardinality(S \cup {x}) = Cardinality(S) + 1
  BY FS_AddElement
<1>2. Cardinality(T) <= Cardinality(S \cup {x}) /\ Cardinality(T) \in Nat /\ Cardinality(S) \in Nat
  BY <1>1, FS_Subset, FS_CardinalityType
<1>. QED  BY <1>1, <1>2

LEMMA UnionCount ==
  ASSUME NEW S, IsFiniteSet(S), NEW T, IsFiniteSet(T)
  PROVE  IsFiniteSet(S \cup T) /\ Cardinality(S \cup T) <= Cardinality(S) + Cardinality(T)
<1>1. IsFiniteSet(S \cup T) /\ Cardinality(S \cup T) = Cardinality(S) + Cardinality(T) - Cardinality(S \cap T)
  BY FS_Union
<1>2. IsFiniteSet(S \cap T)
  BY FS_Intersection
<1>3. Cardinality(S) \in Nat /\ Cardinality(T) \in Nat /\ Cardinality(S \cap T) \in Nat
  BY <1>2, FS_CardinalityType
<1>. QED  BY <1>1, <1>3

LEMMA ImageCount ==
  ASSUME NEW S, IsFiniteSet(S), NEW g
  PROVE  /\ IsFiniteSet({g[x] : x \in S})
         /\ Cardinality({g[x] : x \in S}) <= Cardinality(S)
<1>. DEFINE T == {g[x] : x \in S}
            f == [x \in S |-> g[x]]
<1>1. f \in Surjection(S, T)
  BY DEF Surjection
<1>. HIDE DEF f, T
<1>2. IsFiniteSet(T) /\ Cardinality(T) <= Cardinality(S)
  BY <1>1, FS_Surjection
<1>. QED  BY <1>2 DEF T

-----------------------------------------------------------------------------
(* Types *)

\* What a request carries at each operation
Armed ==
  \A r \in Request :
    /\ pc[r] \in {"has", "find", "rotate", "black", "revoke", "blackout"} => arg[r] \in Issued
    /\ pc[r] \in {"clearAll", "clearDevice"} => arg[r] = None
    /\ pc[r] = "create" => arg[r] \in Issued \cup {None}
    /\ pc[r] \in {"findCode", "useCode"} => arg[r] \in Sent
    /\ pc[r] \in {"clearAll", "clearDevice", "create", "has", "find", "rotate", "black"} => dev[r] \in Device
    /\ began[r] <= era

Typed == TypeOK /\ Armed

\* What a step leaves of the requests: those in R are over, the others as they were.
Over(R) ==
  /\ \A r \in R : pc'[r] = "idle" /\ arg'[r] = None /\ dev'[r] = NoDevice /\ began'[r] = 0
  /\ \A r \in Request \ R :
       pc'[r] = pc[r] /\ arg'[r] = arg[r] /\ dev'[r] = dev[r] /\ began'[r] = began[r]

\* Request r is now at l.
Moved(r, l) ==
  /\ pc'[r] = l /\ \A q \in Request \ {r} : pc'[q] = pc[q]
  /\ UNCHANGED <<arg, dev, began, overtaken>>

\* Request r has begun.
Begun(r, l, a, d) ==
  /\ pc[r] = "idle"
  /\ pc'[r] = l /\ arg'[r] = a /\ dev'[r] = d
  /\ began'[r] = IF a \in Issued /\ l = "has" THEN since[a] ELSE era
  /\ \A q \in Request \ {r} : pc'[q] = pc[q] /\ arg'[q] = arg[q] /\ dev'[q] = dev[q] /\ began'[q] = began[q]

\* The part of TypeOK that is about requests
Working ==
  /\ pc \in [Request -> Location] /\ at \in [Request -> Instance \cup {NoInstance}]
  /\ arg \in [Request -> Issued \cup Sent \cup {None}]
  /\ dev \in [Request -> Device \cup {NoDevice}] /\ began \in [Request -> Nat]
  /\ overtaken \subseteq Request

\* The part of TypeOK that is about tokens and codes
Stored ==
  /\ doc \in [Token -> {"unissued", "live", "revoked", "gone"}]
  /\ device \in [Token -> Device \cup {NoDevice}]
  /\ \A t \in Issued : device[t] \in Device /\ since[t] <= era
  /\ codes \in [Code -> {"unsent", "open", "used", "gone"}]
  /\ memory \in [Instance -> SUBSET Issued]
  /\ connected \in [Instance -> BOOLEAN] /\ redis \subseteq Issued
  /\ calls \in Nat /\ faults \in Nat
  /\ parent \in [Token -> Issued \cup {None}]
  /\ since \in [Token -> Nat] /\ era \in Nat
  /\ late \subseteq Issued /\ out \subseteq Issued
  /\ crossed \in [Device -> Nat] /\ twice \in [Token -> Nat]
  /\ bought \in [Code -> Nat] /\ shared \in [Code -> Nat]

LEMMA TypeParts == (TypeOK <=> Stored /\ Working) /\ (TypeOK' <=> Stored' /\ Working')
BY DEF TypeOK, Stored, Working, Location

LEMMA NoneIsNoToken == None \notin Token /\ None \notin Issued
BY AuthAssumption DEF None, Issued

LEMMA TypedInitially == Init => Typed
<1>. SUFFICES ASSUME Init PROVE Typed
  OBVIOUS
<1>1. Issued = {} /\ Sent = {}
  BY DEF Init, Issued, Sent
<1>2. TypeOK
  BY <1>1 DEF Init, TypeOK
<1>3. Armed
  BY DEF Init, Armed
<1>. QED  BY <1>2, <1>3 DEF Typed

LEMMA ForgetWork ==
  ASSUME Typed, NEW R \in SUBSET Request, Forget(R), overtaken' \subseteq overtaken,
         Issued \subseteq Issued', Sent \subseteq Sent', era <= era', era' \in Nat
  PROVE  Over(R) /\ Working' /\ Armed'
<1>1. Over(R)
  BY DEF Forget, Over
<1>2. pc' \in [Request -> Location] /\ at' \in [Request -> Instance \cup {NoInstance}]
  BY DEF Typed, TypeOK, Forget, Location
<1>3. arg' \in [Request -> (Issued \cup Sent \cup {None})']
  BY DEF Typed, TypeOK, Forget
<1>4. dev' \in [Request -> Device \cup {NoDevice}] /\ began' \in [Request -> Nat]
  BY DEF Typed, TypeOK, Forget
<1>5. Working'
  BY <1>2, <1>3, <1>4 DEF Typed, TypeOK, Working
<1>6. Armed'
  BY <1>1 DEF Typed, TypeOK, Armed, Over
<1>. QED  BY <1>1, <1>5, <1>6

\* What a request at l needs to know
Ready(l, a, d) ==
  /\ l \in {"has", "find", "rotate", "black", "revoke", "blackout"} => a \in Issued
  /\ l \in {"clearAll", "clearDevice"} => a = None
  /\ l = "create" => a \in Issued \cup {None}
  /\ l \in {"findCode", "useCode"} => a \in Sent
  /\ l \in {"clearAll", "clearDevice", "create", "has", "find", "rotate", "black"} => d \in Device

LEMMA GotoWork ==
  ASSUME Typed, NEW r \in Request, NEW l \in Location, Goto(r, l), Ready(l, arg[r], dev[r]),
         Issued \subseteq Issued', Sent \subseteq Sent', era' = era
  PROVE  Moved(r, l) /\ Working' /\ Armed'
<1>1. Moved(r, l)
  BY DEF Typed, TypeOK, Goto, Moved
<1>2. pc' \in [Request -> Location]
  BY DEF Typed, TypeOK, Goto, Location
<1>3. arg' \in [Request -> (Issued \cup Sent \cup {None})']
  BY DEF Typed, TypeOK, Goto
<1>4. Working'
  BY <1>2, <1>3 DEF Typed, TypeOK, Working, Goto
<1>5. Armed'
  BY <1>1 DEF Typed, TypeOK, Armed, Ready, Moved
<1>. QED  BY <1>1, <1>4, <1>5

LEMMA BeginWork ==
  ASSUME Typed, NEW l \in Location, NEW i \in Instance, NEW a \in Issued \cup Sent \cup {None},
         NEW d \in Device \cup {NoDevice}, Begin(l, i, a, d), Ready(l, a, d)
  PROVE  /\ \E r \in Request : Begun(r, l, a, d)
         /\ Typed'
         /\ UNCHANGED <<tokens, codes, sessionHistory, overtaken, history>>
<1>. DEFINE r == CHOOSE q \in Request : ~ Busy(q)
            b == IF a \in Issued /\ l = "has" THEN since[a] ELSE era
<1>1. r \in Request /\ pc[r] = "idle"
  BY DEF Begin, Busy
<1>2. /\ pc' = [pc EXCEPT ![r] = l] /\ at' = [at EXCEPT ![r] = i]
      /\ arg' = [arg EXCEPT ![r] = a] /\ dev' = [dev EXCEPT ![r] = d]
      /\ began' = [began EXCEPT ![r] = b] /\ calls' = calls + 1
      /\ UNCHANGED <<tokens, codes, blacklist, faults, sessionHistory, overtaken, history>>
  BY DEF Begin
<1>3. b \in Nat /\ b <= era
  BY DEF Typed, TypeOK, Issued
<1>. HIDE DEF r
<1>4. Begun(r, l, a, d)
  BY <1>1, <1>2 DEF Typed, TypeOK, Begun
<1>. HIDE DEF b
<1>5. Issued' = Issued /\ Sent' = Sent
  BY <1>2 DEF Issued, Sent
<1>6. Working'
  BY <1>1, <1>2, <1>3, <1>5 DEF Typed, TypeOK, Working, Location
<1>7. Stored'
  BY <1>2, <1>5 DEF Typed, TypeOK, Stored
<1>8. Armed'
  BY <1>1, <1>2, <1>3, <1>5 DEF Typed, TypeOK, Armed, Ready
<1>. QED  BY <1>1, <1>2, <1>4, <1>6, <1>7, <1>8, TypeParts DEF Typed

LEMMA Faulted ==
  ASSUME faults \in Nat, connected \in [Instance -> BOOLEAN], NEW i,
         (UNCHANGED <<faults, connected>>) \/ (Fault /\ connected' = [connected EXCEPT ![i] = FALSE])
  PROVE  faults' \in Nat /\ connected' \in [Instance -> BOOLEAN]
<1>1. CASE UNCHANGED <<faults, connected>>
  BY <1>1
<1>2. CASE Fault /\ connected' = [connected EXCEPT ![i] = FALSE]
  <2>1. faults' \in Nat
    BY <1>2 DEF Fault
  <2>2. connected' = [j \in Instance |-> IF j = i THEN FALSE ELSE connected[j]]
    BY <1>2, Zenon
  <2>3. connected' \in [Instance -> BOOLEAN]
    BY <2>2, Zenon
  <2>. QED  BY <2>1, <2>3
<1>. QED  BY <1>1, <1>2

LEMMA TypedStep == Typed /\ [Next]_vars => Typed'
<1>. SUFFICES ASSUME Typed, [Next]_vars PROVE Typed'
  OBVIOUS
<1>. USE TypeParts
<1>1. ASSUME NEW i \in Instance, NEW d \in Device,
             Begin("clearAll", i, None, d) \/ Begin("clearDevice", i, None, d)
      PROVE  Typed'
  BY <1>1, BeginWork, NoneIsNoToken DEF Ready, Location, Typed, TypeOK
<1>2. ASSUME NEW i \in Instance, NEW t \in Issued, Begin("has", i, t, device[t]) \/ Begin("revoke", i, t, NoDevice)
      PROVE  Typed'
  BY <1>2, BeginWork DEF Ready, Location, Typed, TypeOK
<1>3. ASSUME NEW i \in Instance, Begin("wipe", i, None, NoDevice) \/ Begin("clearCodes", i, None, NoDevice)
      PROVE  Typed'
  BY <1>3, BeginWork DEF Ready, Location, Typed, TypeOK
<1>4. ASSUME NEW i \in Instance, NEW c \in Sent, Begin("findCode", i, c, NoDevice) PROVE Typed'
  BY <1>4, BeginWork DEF Ready, Location, Typed, TypeOK
<1>5. ASSUME UNCHANGED <<tokens, codes, sessionHistory>>
      PROVE  Issued' = Issued /\ Sent' = Sent
  BY <1>5 DEF Issued, Sent
<1>6. ASSUME NEW i \in Instance, Restart(i) PROVE Typed'
  <2>1. Working' /\ Armed'
    BY <1>5, <1>6, ForgetWork DEF Restart, Typed, TypeOK
  <2>2. Stored'
    BY <1>5, <1>6 DEF Typed, TypeOK, Stored, Restart, Fault
  <2>. QED  BY <2>1, <2>2 DEF Typed
<1>7. ASSUME NEW r \in Request, Fails(r) PROVE Typed'
  <2>1. Working' /\ Armed'
    BY <1>5, <1>7, ForgetWork DEF Fails, Return, Typed, TypeOK
  <2>2. Stored'
    BY <1>5, <1>7 DEF Typed, TypeOK, Stored, Fails, Fault
  <2>. QED  BY <2>1, <2>2 DEF Typed
<1>8. ASSUME NEW r \in Request, Clear(r) PROVE Typed'
  <2>1. Issued' = Issued /\ Sent' = Sent
    BY <1>8 DEF Typed, TypeOK, Clear, Issued, Sent
  <2>2. Working' /\ Armed'
    BY <1>8, <2>1, GotoWork DEF Clear, Ready, Armed, Location, Typed, TypeOK
  <2>3. crossed' \in [Device -> Nat]
    BY <1>8 DEF Typed, TypeOK, Armed, Clear, Cross
  <2>4. Stored'
    BY <1>8, <2>1, <2>3 DEF Typed, TypeOK, Stored, Clear
  <2>. QED  BY <2>2, <2>4 DEF Typed
<1>9. ASSUME NEW r \in Request, Create(r) PROVE Typed'
  <2>1. PICK t \in Token :
          /\ t \notin Issued
          /\ doc' = [doc EXCEPT ![t] = "live"] /\ device' = [device EXCEPT ![t] = dev[r]]
          /\ parent' = [parent EXCEPT ![t] = arg[r]] /\ since' = [since EXCEPT ![t] = began[r]]
          /\ late' \subseteq late \cup {t}
    BY <1>9 DEF Create, Least
  <2>2. Issued' = Issued \cup {t} /\ Sent' = Sent
    BY <1>9, <2>1 DEF Typed, TypeOK, Create, Issued, Sent
  <2>3. Working' /\ Armed'
    BY <1>9, <2>2, ForgetWork DEF Create, Return, Typed, TypeOK
  <2>4. dev[r] \in Device /\ began[r] <= era /\ began[r] \in Nat /\ arg[r] \in Issued \cup {None}
    BY <1>9 DEF Typed, TypeOK, Armed, Create
  <2>5. device'[t] \in Device /\ since'[t] <= era
    BY <2>1, <2>4 DEF Typed, TypeOK
  <2>6. \A s \in Issued' : device'[s] \in Device /\ since'[s] <= era
    BY <2>1, <2>2, <2>5 DEF Typed, TypeOK, Issued
  <2>7. parent' \in [Token -> Issued' \cup {None}] /\ since' \in [Token -> Nat] /\ device' \in [Token -> Device \cup {NoDevice}]
    BY <2>1, <2>2, <2>4 DEF Typed, TypeOK
  <2>8. Stored'
    BY <1>9, <2>1, <2>2, <2>6, <2>7 DEF Typed, TypeOK, Stored, Create
  <2>. QED  BY <2>3, <2>8 DEF Typed
<1>10. ASSUME NEW r \in Request, Has(r) PROVE Typed'
  <2>1. Return(r) \/ Goto(r, "find")
    BY <1>10 DEF Has
  <2>2. Working' /\ Armed'
    <3>1. CASE Return(r)
      BY <1>5, <1>10, <3>1, ForgetWork DEF Has, Return, Typed, TypeOK
    <3>2. CASE Goto(r, "find")
      BY <1>5, <1>10, <3>2, GotoWork DEF Has, Ready, Armed, Location, Typed
    <3>. QED  BY <2>1, <3>1, <3>2
  <2>3. (UNCHANGED <<faults, connected>>) \/ (Fault /\ connected' = [connected EXCEPT ![at[r]] = FALSE])
    BY <1>10, Zenon DEF Has
  <2>5. faults' \in Nat /\ connected' \in [Instance -> BOOLEAN]
    BY <2>3, Faulted DEF Typed, TypeOK
  <2>4. Stored'
    BY <1>5, <1>10, <2>5 DEF Typed, TypeOK, Stored, Has
  <2>. QED  BY <2>2, <2>4 DEF Typed
<1>11. ASSUME NEW r \in Request, Find(r) PROVE Typed'
  <2>1. Working' /\ Armed'
    <3>1. CASE Return(r)
      BY <1>5, <1>11, <3>1, ForgetWork DEF Find, Return, Typed, TypeOK
    <3>2. CASE ~ Return(r)
      BY <1>5, <1>11, <3>2, GotoWork DEF Find, Ready, Armed, Location, Typed
    <3>. QED  BY <3>1, <3>2
  <2>2. crossed' \in [Device -> Nat] /\ twice' \in [Token -> Nat]
    BY <1>11 DEF Typed, TypeOK, Armed, Find, Cross
  <2>3. Stored'
    BY <1>5, <1>11, <2>2 DEF Typed, TypeOK, Stored, Find
  <2>. QED  BY <2>1, <2>3 DEF Typed
<1>12. ASSUME NEW r \in Request, Rotate(r) PROVE Typed'
  <2>1. Issued' = Issued /\ Sent' = Sent
    BY <1>12 DEF Typed, TypeOK, Armed, Rotate, Issued, Sent
  <2>2. Working' /\ Armed'
    <3>1. CASE Return(r)
      BY <1>12, <2>1, <3>1, ForgetWork DEF Rotate, Return, Typed, TypeOK
    <3>2. CASE ~ Return(r)
      BY <1>12, <2>1, <3>2, GotoWork DEF Rotate, Ready, Armed, Location, Typed
    <3>. QED  BY <3>1, <3>2
  <2>3. Stored'
    BY <1>12, <2>1 DEF Typed, TypeOK, Stored, Rotate
  <2>. QED  BY <2>2, <2>3 DEF Typed
<1>13. ASSUME NEW r \in Request, Black(r) PROVE Typed'
  <2>1. arg[r] \in Issued
    BY <1>13 DEF Typed, Armed, Black
  <2>2. Working' /\ Armed'
    <3>1. CASE Return(r)
      BY <1>5, <1>13, <3>1, ForgetWork DEF Black, Return, Typed, TypeOK
    <3>2. CASE ~ Return(r)
      BY <1>5, <1>13, <2>1, <3>2, GotoWork DEF Black, Ready, Armed, Location, Typed
    <3>. QED  BY <3>1, <3>2
  <2>3. memory' \in [Instance -> SUBSET Issued]
    BY <1>13, <2>1 DEF Typed, TypeOK, Black
  <2>4. redis' = redis \cup {arg[r]} \/ redis' = redis
    BY <1>13, Zenon DEF Black
  <2>6. (UNCHANGED <<faults, connected>>) \/ (Fault /\ connected' = [connected EXCEPT ![at[r]] = FALSE])
    BY <1>13, Zenon DEF Black
  <2>7. redis' \subseteq Issued /\ faults' \in Nat /\ connected' \in [Instance -> BOOLEAN]
    BY <2>1, <2>4, <2>6, Faulted DEF Typed, TypeOK
  <2>5. Stored'
    BY <1>5, <1>13, <2>3, <2>7 DEF Typed, TypeOK, Stored, Black
  <2>. QED  BY <2>2, <2>5 DEF Typed
<1>14. ASSUME NEW r \in Request, Revoke(r) PROVE Typed'
  <2>1. Issued' = Issued /\ Sent' = Sent /\ arg[r] \in Issued
    BY <1>14 DEF Typed, TypeOK, Armed, Revoke, Issued, Sent
  <2>2. Working' /\ Armed'
    BY <1>14, <2>1, GotoWork DEF Revoke, Ready, Location, Typed
  <2>3. Stored'
    BY <1>14, <2>1 DEF Typed, TypeOK, Stored, Revoke
  <2>. QED  BY <2>2, <2>3 DEF Typed
<1>15. ASSUME NEW r \in Request, Wipe(r) PROVE Typed'
  <2>1. Issued' = Issued /\ Sent' = Sent
    BY <1>15 DEF Typed, TypeOK, Wipe, Issued, Sent
  <2>2. \A n \in Nat : n <= era => n <= era + 1
    BY DEF Typed, TypeOK
  <2>3. Over({r}) /\ pc' \in [Request -> Location] /\ at' \in [Request -> Instance \cup {NoInstance}]
    BY <1>15 DEF Typed, TypeOK, Wipe, Forget, Over, Location
  <2>4. arg' \in [Request -> Issued \cup Sent \cup {None}]
    BY <1>15 DEF Typed, TypeOK, Wipe, Forget
  <2>5. dev' \in [Request -> Device \cup {NoDevice}] /\ began' \in [Request -> Nat] /\ overtaken' \subseteq Request
    BY <1>15 DEF Typed, TypeOK, Wipe, Forget
  <2>6. Working'
    BY <2>1, <2>3, <2>4, <2>5 DEF Working
  <2>7. Armed'
    BY <1>15, <2>1, <2>2, <2>3 DEF Typed, TypeOK, Armed, Over, Wipe
  <2>9. era' \in Nat /\ \A t \in Issued : since[t] <= era'
    BY <1>15, <2>2 DEF Typed, TypeOK, Wipe, Issued
  <2>10. doc' \in [Token -> {"unissued", "live", "revoked", "gone"}]
    BY <1>15 DEF Typed, TypeOK, Wipe
  <2>8. Stored'
    BY <1>15, <2>1, <2>9, <2>10 DEF Typed, TypeOK, Stored, Wipe
  <2>. QED  BY <2>6, <2>7, <2>8 DEF Typed
<1>16. ASSUME NEW r \in Request, ClearCodes(r) PROVE Typed'
  <2>1. Issued' = Issued /\ Sent' = Sent
    BY <1>16 DEF Typed, TypeOK, ClearCodes, Issued, Sent
  <2>2. Working' /\ Armed'
    BY <1>16, <2>1, GotoWork DEF ClearCodes, Ready, Location, Typed
  <2>3. Stored'
    BY <1>16, <2>1 DEF Typed, TypeOK, Stored, ClearCodes
  <2>. QED  BY <2>2, <2>3 DEF Typed
<1>17. ASSUME NEW r \in Request, SendCode(r) PROVE Typed'
  <2>1. Issued' = Issued /\ Sent \subseteq Sent'
    BY <1>17 DEF Typed, TypeOK, SendCode, Least, Issued, Sent
  <2>2. Working' /\ Armed'
    BY <1>17, <2>1, ForgetWork DEF SendCode, Return, Typed, TypeOK
  <2>3. Stored'
    BY <1>17, <2>1 DEF Typed, TypeOK, Stored, SendCode
  <2>. QED  BY <2>2, <2>3 DEF Typed
<1>18. ASSUME NEW r \in Request, FindCode(r) PROVE Typed'
  <2>1. Working' /\ Armed'
    <3>1. CASE Return(r)
      BY <1>5, <1>18, <3>1, ForgetWork DEF FindCode, Return, Typed, TypeOK
    <3>2. CASE ~ Return(r)
      BY <1>5, <1>18, <3>2, GotoWork DEF FindCode, Ready, Armed, Location, Typed
    <3>. QED  BY <3>1, <3>2
  <2>2. shared' \in [Code -> Nat]
    BY <1>18 DEF Typed, TypeOK, Armed, FindCode
  <2>3. Stored'
    BY <1>5, <1>18, <2>2 DEF Typed, TypeOK, Stored, FindCode
  <2>. QED  BY <2>1, <2>3 DEF Typed
<1>19. ASSUME NEW r \in Request, UseCode(r) PROVE Typed'
  <2>1. Issued' = Issued /\ Sent' = Sent
    BY <1>19 DEF Typed, TypeOK, Armed, UseCode, Issued, Sent
  <2>2. Working' /\ Armed'
    BY <1>19, <2>1, ForgetWork DEF UseCode, Return, Typed, TypeOK
  <2>3. codes' \in [Code -> {"unsent", "open", "used", "gone"}] /\ bought' \in [Code -> Nat]
    BY <1>19 DEF Typed, TypeOK, UseCode
  <2>4. Stored'
    BY <1>19, <2>1, <2>3 DEF Typed, TypeOK, Stored, UseCode
  <2>. QED  BY <2>2, <2>4 DEF Typed
<1>20. CASE UNCHANGED vars
  <2>1. Issued' = Issued /\ Sent' = Sent
    BY <1>20 DEF vars, Issued, Sent
  <2>. QED  BY <1>20, <2>1 DEF Typed, TypeOK, Armed, vars
<1>. QED
  BY <1>1, <1>2, <1>3, <1>4, <1>6, <1>7, <1>8, <1>9, <1>10, <1>11, <1>12, <1>13, <1>14,
     <1>15, <1>16, <1>17, <1>18, <1>19, <1>20 DEF Next, Serve

\* Types, for every instance; a request that creates a token has a device, and
\* only tokens that were issued are revoked, blacklisted or replaced.
THEOREM SessionsTypeCorrect == Spec => []TypeOK
<1>1. Typed => TypeOK
  BY DEF Typed
<1>. QED  BY <1>1, TypedInitially, TypedStep, PTL DEF Spec

-----------------------------------------------------------------------------
(* Ending all sessions *)

\* What is about to be created belongs to the era of what it replaces, and no
\* document is left of an era that was ended.
Ended ==
  /\ \A t \in Token \ late : doc[t] \in {"live", "revoked"} => since[t] = era
  /\ \A r \in Request \ overtaken :
       /\ pc[r] \in {"create", "black"} /\ arg[r] \notin late => began[r] = era
       /\ pc[r] \in {"clearAll", "clearDevice"} => began[r] = era
  /\ \A r \in Request : pc[r] \in {"has", "find", "rotate"} => began[r] = since[arg[r]]

\* No document comes back once it is gone.
Kept == \A t \in Token : doc'[t] \in {"live", "revoked"} => doc[t] \in {"live", "revoked"}

LEMMA ForgetOver == ASSUME NEW R \in SUBSET Request, Forget(R) PROVE Over(R)
BY DEF Forget, Over

LEMMA GotoMoved == ASSUME Typed, NEW r \in Request, NEW l, Goto(r, l) PROVE Moved(r, l)
BY DEF Typed, TypeOK, Goto, Moved

LEMMA EndedInitially == Init => Ended
BY DEF Init, Ended

LEMMA EndedOver ==
  ASSUME Ended, NEW R \in SUBSET Request, Over(R), overtaken \ R \subseteq overtaken',
         UNCHANGED <<late, since, era>>, Kept
  PROVE  Ended'
BY DEF Ended, Over, Kept

LEMMA EndedMoved ==
  ASSUME Ended, NEW r \in Request, NEW l, Moved(r, l), UNCHANGED <<late, since, era>>, Kept,
         l \in {"create", "black"} /\ r \notin overtaken /\ arg[r] \notin late => began[r] = era,
         l \notin {"clearAll", "clearDevice"},
         l \in {"has", "find", "rotate"} => began[r] = since[arg[r]]
  PROVE  Ended'
BY DEF Ended, Moved, Kept

LEMMA EndedBegun ==
  ASSUME Ended, NEW r \in Request, NEW l, NEW a, NEW d, Begun(r, l, a, d),
         UNCHANGED <<tokens, sessionHistory, overtaken>>,
         l \notin {"create", "black", "find", "rotate"}, l = "has" => a \in Issued
  PROVE  Ended'
BY DEF Ended, Begun

LEMMA EndedStep == Typed /\ Ended /\ [Next]_vars => Ended'
<1>. SUFFICES ASSUME Typed, Ended, [Next]_vars PROVE Ended'
  OBVIOUS
<1>. USE DEF Return
<1>1. ASSUME UNCHANGED doc PROVE Kept
  BY <1>1 DEF Kept
<1>2. ASSUME NEW i \in Instance, NEW l \in {"clearAll", "clearDevice"}, NEW d \in Device, Begin(l, i, None, d)
      PROVE  Ended'
  <2>1. PICK r \in Request : Begun(r, l, None, d)
    BY <1>2, BeginWork, NoneIsNoToken DEF Ready, Location
  <2>2. UNCHANGED <<tokens, sessionHistory, overtaken>>
    BY <1>2 DEF Begin
  <2>. QED  BY <2>1, <2>2, EndedBegun
<1>3. ASSUME NEW i \in Instance, NEW t \in Issued, NEW l \in {"has", "revoke"},
             NEW d \in Device \cup {NoDevice}, l = "has" => d \in Device, Begin(l, i, t, d)
      PROVE  Ended'
  <2>1. PICK r \in Request : Begun(r, l, t, d)
    BY <1>3, BeginWork DEF Ready, Location
  <2>2. UNCHANGED <<tokens, sessionHistory, overtaken>>
    BY <1>3 DEF Begin
  <2>. QED  BY <2>1, <2>2, EndedBegun
<1>4. ASSUME NEW i \in Instance, NEW l \in {"wipe", "clearCodes", "findCode"}, NEW a \in Sent \cup {None},
             l = "findCode" => a \in Sent, Begin(l, i, a, NoDevice)
      PROVE  Ended'
  <2>1. PICK r \in Request : Begun(r, l, a, NoDevice)
    BY <1>4, BeginWork DEF Ready, Location
  <2>2. UNCHANGED <<tokens, sessionHistory, overtaken>>
    BY <1>4 DEF Begin
  <2>. QED  BY <2>1, <2>2, EndedBegun
<1>5. ASSUME NEW i \in Instance, Restart(i) PROVE Ended'
  <2>. DEFINE R == {r \in Request : at[r] = i}
  <2>1. Over(R) /\ overtaken \ R \subseteq overtaken' /\ UNCHANGED <<late, since, era>> /\ Kept
    BY <1>1, <1>5, ForgetOver DEF Restart, Typed, TypeOK
  <2>. QED  BY <2>1, EndedOver
<1>6. ASSUME NEW r \in Request, Return(r), UNCHANGED <<late, since, era>>, Kept PROVE Ended'
  BY <1>6, ForgetOver, EndedOver
<1>7. ASSUME NEW r \in Request, Clear(r) PROVE Ended'
  <2>1. Moved(r, "create") /\ Kept /\ UNCHANGED <<late, since, era>>
    BY <1>7, GotoMoved DEF Clear, Kept, Issued
  <2>2. r \notin overtaken => began[r] = era
    BY <1>7 DEF Ended, Clear
  <2>. QED  BY <2>1, <2>2, EndedMoved
<1>8. ASSUME NEW r \in Request, Create(r) PROVE Ended'
  <2>1. PICK t \in Token :
          /\ t \notin Issued
          /\ doc' = [doc EXCEPT ![t] = "live"] /\ since' = [since EXCEPT ![t] = began[r]]
          /\ late' = IF r \in overtaken \/ arg[r] \in late THEN late \cup {t} ELSE late
    BY <1>8 DEF Create, Least
  <2>2. Over({r}) /\ overtaken' = overtaken \ {r} /\ era' = era
    BY <1>8, ForgetOver DEF Create
  <2>3. t \notin late' => began[r] = era
    BY <1>8, <2>1 DEF Ended, Create
  <2>4. \A s \in Token \ late' : doc'[s] \in {"live", "revoked"} => since'[s] = era'
    BY <2>1, <2>2, <2>3 DEF Typed, TypeOK, Ended
  <2>5. \A q \in Request : pc'[q] \in {"has", "find", "rotate"} => began'[q] = since'[arg'[q]]
    BY <2>1, <2>2 DEF Typed, TypeOK, Armed, Ended, Over
  <2>. QED  BY <2>1, <2>2, <2>4, <2>5 DEF Ended, Over
<1>9. ASSUME NEW r \in Request, Has(r) PROVE Ended'
  <2>1. UNCHANGED <<late, since, era>> /\ Kept
    BY <1>1, <1>9 DEF Has
  <2>2. CASE Return(r)
    BY <1>6, <2>1, <2>2
  <2>3. CASE Goto(r, "find")
    <3>1. began[r] = since[arg[r]]
      BY <1>9 DEF Ended, Has
    <3>. QED  BY <2>1, <2>3, <3>1, GotoMoved, EndedMoved
  <2>. QED  BY <1>9, <2>2, <2>3 DEF Has
<1>10. ASSUME NEW r \in Request, Find(r) PROVE Ended'
  <2>1. UNCHANGED <<late, since, era>> /\ Kept
    BY <1>1, <1>10 DEF Find
  <2>2. CASE Return(r)
    BY <1>6, <2>1, <2>2
  <2>3. CASE Goto(r, "rotate")
    <3>1. began[r] = since[arg[r]]
      BY <1>10 DEF Ended, Find
    <3>. QED  BY <2>1, <2>3, <3>1, GotoMoved, EndedMoved
  <2>. QED  BY <1>10, <2>2, <2>3 DEF Find
<1>11. ASSUME NEW r \in Request, Rotate(r) PROVE Ended'
  <2>1. UNCHANGED <<late, since, era>> /\ Kept
    BY <1>11 DEF Rotate, Kept, Typed, TypeOK, Armed, Issued
  <2>2. CASE Return(r)
    BY <1>6, <2>1, <2>2
  <2>3. CASE Goto(r, "black") /\ doc[arg[r]] # "gone"
    <3>1. arg[r] \notin late => began[r] = era
      BY <1>11, <2>3 DEF Ended, Rotate, Typed, TypeOK, Armed, Issued
    <3>. QED  BY <2>1, <2>3, <3>1, GotoMoved, EndedMoved
  <2>. QED  BY <1>11, <2>2, <2>3 DEF Rotate
<1>12. ASSUME NEW r \in Request, Black(r) PROVE Ended'
  <2>1. UNCHANGED <<late, since, era>> /\ Kept
    BY <1>1, <1>12 DEF Black
  <2>2. CASE Return(r)
    BY <1>6, <2>1, <2>2
  <2>3. CASE Goto(r, "create") /\ pc[r] = "black"
    <3>1. r \notin overtaken /\ arg[r] \notin late => began[r] = era
      BY <2>3 DEF Ended
    <3>. QED  BY <2>1, <2>3, <3>1, GotoMoved, EndedMoved
  <2>. QED  BY <1>12, <2>2, <2>3 DEF Black
<1>13. ASSUME NEW r \in Request, Revoke(r) PROVE Ended'
  <2>1. Moved(r, "blackout") /\ Kept /\ UNCHANGED <<late, since, era>>
    BY <1>13, GotoMoved DEF Revoke, Kept, Typed, TypeOK, Armed, Issued
  <2>. QED  BY <2>1, EndedMoved
<1>14. ASSUME NEW r \in Request, Wipe(r) PROVE Ended'
  <2>1. Over({r}) /\ UNCHANGED <<late, since>>
    BY <1>14, ForgetOver DEF Wipe
  <2>2. \A t \in Token : doc'[t] \notin {"live", "revoked"}
    BY <1>14 DEF Wipe, Typed, TypeOK, Issued
  <2>3. \A q \in Request \ overtaken' : pc'[q] \notin {"create", "black", "clearAll", "clearDevice"}
    BY <1>14, <2>1 DEF Wipe, Over
  <2>. QED  BY <2>1, <2>2, <2>3 DEF Ended, Over
<1>15. ASSUME NEW r \in Request, NEW l \in {"sendCode", "useCode"}, Goto(r, l), UNCHANGED <<tokens, sessionHistory>>
      PROVE  Ended'
  BY <1>1, <1>15, GotoMoved, EndedMoved
<1>16. CASE UNCHANGED vars
  BY <1>16 DEF vars, Ended
<1>17. ASSUME NEW r \in Request, ClearCodes(r) \/ SendCode(r) \/ FindCode(r) \/ UseCode(r) \/ Fails(r)
      PROVE  Ended'
  <2>1. UNCHANGED <<tokens, sessionHistory>>
    BY <1>17 DEF ClearCodes, SendCode, FindCode, UseCode, Fails
  <2>2. Return(r) \/ Goto(r, "sendCode") \/ Goto(r, "useCode")
    BY <1>17 DEF ClearCodes, SendCode, FindCode, UseCode, Fails
  <2>. QED  BY <1>1, <1>6, <1>15, <2>1, <2>2
<1>18. ASSUME NEW r \in Request, Serve(r) PROVE Ended'
  BY <1>7, <1>8, <1>9, <1>10, <1>11, <1>12, <1>13, <1>14, <1>17, <1>18 DEF Serve
<1>19. \A t \in Issued : device[t] \in Device
  BY DEF Typed, TypeOK
<1>. QED  BY <1>2, <1>3, <1>4, <1>5, <1>16, <1>18, <1>19 DEF Next

\* Logging out everywhere, or a new password, ends every session: whatever
\* the interleaving of requests, a token that is live afterwards goes back to
\* a later login or to a call that was already past the deletion's reach.
THEOREM EndedSessionsStayEnded == Spec => []EndedMeansEnded
<1>1. Ended => EndedMeansEnded
  BY DEF Ended, EndedMeansEnded, Live
<1>. QED  BY <1>1, TypedInitially, TypedStep, EndedInitially, EndedStep, PTL DEF Spec

-----------------------------------------------------------------------------
(* Using up *)

Exchanging(r, t) == pc[r] \in {"rotate", "black", "create"} /\ arg[r] = t

Exchangers(t) == {r \in Request : Exchanging(r, t)}

UsedUp(t) == doc[t] \in {"revoked", "gone"}

\* The successors of a token that there are or may still be
Bounded(t) == Cardinality(Successors(t)) + Cardinality(Exchangers(t)) <= 1 + twice[t]

\* The document of a token decides: who exchanges it after finding it live is
\* alone with it or has been counted, and its document is used up before a
\* successor exists.
TokensUsedUp ==
  /\ \A s \in Issued : parent[s] # None => UsedUp(parent[s])
  /\ \A r \in Request : pc[r] \in {"black", "create"} /\ arg[r] # None => UsedUp(arg[r])
  /\ \A t \in Token : Bounded(t)
  /\ \A t \in out :
       /\ UsedUp(t) /\ Successors(t) = {}
       /\ \A r \in Request : ~ Exchanging(r, t)

\* What is used up stays used up.
Spent == \A t \in Token : UsedUp(t) => doc'[t] \in {"revoked", "gone"}

LEMMA TokenCounts ==
  ASSUME NEW t
  PROVE  /\ IsFiniteSet(Successors(t)) /\ Cardinality(Successors(t)) \in Nat
         /\ IsFiniteSet(Exchangers(t)) /\ Cardinality(Exchangers(t)) \in Nat
BY Counted DEF Successors, Issued, Exchangers

\* A step that gives a token no successor, nor lets anybody begin to exchange it
LEMMA BoundedKept ==
  ASSUME Typed, NEW t \in Token, Bounded(t), Successors(t)' = Successors(t), twice'[t] = twice[t],
         \A q \in Request : Exchanging(q, t)' => Exchanging(q, t)
  PROVE  Bounded(t)'
<1>1. Exchangers(t)' \subseteq Exchangers(t)
  BY DEF Exchangers
<1>2. Cardinality(Exchangers(t)') <= Cardinality(Exchangers(t)) /\ Cardinality(Exchangers(t)') \in Nat
  BY <1>1, TokenCounts, Fewer, FS_Subset, FS_CardinalityType
<1>3. twice[t] \in Nat
  BY DEF Typed, TypeOK
<1>. QED  BY <1>2, <1>3, TokenCounts DEF Bounded

LEMMA TokensInitially == Init => TokensUsedUp
<1>. SUFFICES ASSUME Init PROVE TokensUsedUp
  OBVIOUS
<1>1. Issued = {} /\ \A t \in Token : Successors(t) = {} /\ Exchangers(t) = {} /\ twice[t] = 0
  BY DEF Init, Issued, Successors, Exchangers, Exchanging
<1>2. \A t \in Token : Bounded(t)
  BY <1>1, FS_EmptySet DEF Bounded
<1>. QED  BY <1>1, <1>2 DEF Init, TokensUsedUp, Exchanging

LEMMA TokensOver ==
  ASSUME Typed, TokensUsedUp, NEW R \in SUBSET Request, Over(R),
         UNCHANGED <<parent, twice, out>>, Issued' = Issued, Spent
  PROVE  TokensUsedUp'
<1>1. \A s \in Issued' : parent'[s] # None => UsedUp(parent[s])'
  BY NoneIsNoToken DEF Typed, TypeOK, TokensUsedUp, Spent, UsedUp, Issued
<1>2. \A r \in Request : pc'[r] \in {"black", "create"} /\ arg'[r] # None => doc'[arg'[r]] \in {"revoked", "gone"}
  BY DEF Typed, Armed, TokensUsedUp, Over, Spent, Issued
<1>3. \A t \in Token : Successors(t)' = Successors(t)
  BY DEF Successors
<1>4. \A t \in Token, r \in Request : Exchanging(r, t)' => Exchanging(r, t)
  BY DEF Exchanging, Over
<1>5. \A t \in out : UsedUp(t)'
  BY DEF Typed, TypeOK, TokensUsedUp, Spent, UsedUp, Issued
<1>6. out \subseteq Token
  BY DEF Typed, TypeOK, Issued
<1>7. \A t \in Token : Bounded(t)'
  BY <1>3, <1>4, BoundedKept DEF TokensUsedUp
<1>. QED  BY <1>1, <1>2, <1>3, <1>4, <1>5, <1>6, <1>7 DEF TokensUsedUp, UsedUp

LEMMA TokensMoved ==
  ASSUME Typed, TokensUsedUp, NEW r \in Request, NEW l, Moved(r, l),
         UNCHANGED <<parent, twice, out>>, Issued' = Issued, Spent,
         l \in {"black", "create"} /\ arg[r] # None => doc'[arg[r]] \in {"revoked", "gone"},
         l \in {"rotate", "black", "create"} => pc[r] \in {"rotate", "black", "create"} \/ arg[r] = None
  PROVE  TokensUsedUp'
<1>1. \A s \in Issued' : parent'[s] # None => UsedUp(parent[s])'
  BY NoneIsNoToken DEF Typed, TypeOK, TokensUsedUp, Spent, UsedUp, Issued
<1>2. \A q \in Request : pc'[q] \in {"black", "create"} /\ arg'[q] # None => doc'[arg'[q]] \in {"revoked", "gone"}
  BY DEF Typed, Armed, TokensUsedUp, Moved, Spent, Issued
<1>3. \A t \in Token : Successors(t)' = Successors(t)
  BY DEF Successors
<1>4. \A t \in Token, q \in Request : Exchanging(q, t)' => Exchanging(q, t)
  BY NoneIsNoToken DEF Exchanging, Moved
<1>5. \A t \in out : UsedUp(t)'
  BY DEF Typed, TypeOK, TokensUsedUp, Spent, UsedUp, Issued
<1>6. out \subseteq Token
  BY DEF Typed, TypeOK, Issued
<1>7. \A t \in Token : Bounded(t)'
  BY <1>3, <1>4, BoundedKept DEF TokensUsedUp
<1>. QED  BY <1>1, <1>2, <1>3, <1>4, <1>5, <1>6, <1>7 DEF TokensUsedUp, UsedUp

LEMMA TokensBegun ==
  ASSUME Typed, TokensUsedUp, NEW r \in Request, NEW l, NEW a, NEW d, Begun(r, l, a, d),
         UNCHANGED <<tokens, sessionHistory, history>>, l \notin {"rotate", "black", "create"}
  PROVE  TokensUsedUp'
<1>1. Issued' = Issued /\ \A t \in Token : Successors(t)' = Successors(t) /\ UsedUp(t)' = UsedUp(t)
  BY DEF Issued, Successors, UsedUp
<1>2. \A t \in Token, q \in Request : Exchanging(q, t)' => Exchanging(q, t)
  BY DEF Exchanging, Begun
<1>3. \A q \in Request : pc'[q] \in {"black", "create"} => pc[q] = pc'[q] /\ arg[q] = arg'[q]
  BY DEF Begun
<1>4. \A t \in Token : Bounded(t)'
  BY <1>1, <1>2, BoundedKept DEF TokensUsedUp
<1>5. out \subseteq Token
  BY DEF Typed, TypeOK, Issued
<1>6. \A t \in out' : UsedUp(t)' /\ Successors(t)' = {} /\ \A q \in Request : ~ Exchanging(q, t)'
  BY <1>1, <1>2, <1>5 DEF TokensUsedUp
<1>. QED  BY <1>1, <1>3, <1>4, <1>6 DEF TokensUsedUp, UsedUp

LEMMA TokensStep == Typed /\ TokensUsedUp /\ [Next]_vars => TokensUsedUp'
<1>. SUFFICES ASSUME Typed, TokensUsedUp, [Next]_vars PROVE TokensUsedUp'
  OBVIOUS
<1>. USE DEF Return
<1>1. ASSUME UNCHANGED doc PROVE Issued' = Issued /\ Spent
  BY <1>1 DEF Issued, Spent, UsedUp
<1>2. ASSUME NEW i \in Instance, NEW l \in {"clearAll", "clearDevice"}, NEW d \in Device, Begin(l, i, None, d)
      PROVE  TokensUsedUp'
  <2>1. PICK r \in Request : Begun(r, l, None, d)
    BY <1>2, BeginWork, NoneIsNoToken DEF Ready, Location
  <2>2. UNCHANGED <<tokens, sessionHistory, history>>
    BY <1>2 DEF Begin
  <2>. QED  BY <2>1, <2>2, TokensBegun
<1>3. ASSUME NEW i \in Instance, NEW t \in Issued, NEW l \in {"has", "revoke"},
             NEW d \in Device \cup {NoDevice}, l = "has" => d \in Device, Begin(l, i, t, d)
      PROVE  TokensUsedUp'
  <2>1. PICK r \in Request : Begun(r, l, t, d)
    BY <1>3, BeginWork DEF Ready, Location
  <2>2. UNCHANGED <<tokens, sessionHistory, history>>
    BY <1>3 DEF Begin
  <2>. QED  BY <2>1, <2>2, TokensBegun
<1>4. ASSUME NEW i \in Instance, NEW l \in {"wipe", "clearCodes", "findCode"}, NEW a \in Sent \cup {None},
             l = "findCode" => a \in Sent, Begin(l, i, a, NoDevice)
      PROVE  TokensUsedUp'
  <2>1. PICK r \in Request : Begun(r, l, a, NoDevice)
    BY <1>4, BeginWork DEF Ready, Location
  <2>2. UNCHANGED <<tokens, sessionHistory, history>>
    BY <1>4 DEF Begin
  <2>. QED  BY <2>1, <2>2, TokensBegun
<1>5. ASSUME NEW i \in Instance, Restart(i) PROVE TokensUsedUp'
  <2>. DEFINE R == {r \in Request : at[r] = i}
  <2>1. Over(R) /\ UNCHANGED <<doc, parent, twice, out>>
    BY <1>5, ForgetOver DEF Restart
  <2>. QED  BY <1>1, <2>1, TokensOver
<1>6. ASSUME NEW r \in Request, Return(r), UNCHANGED <<parent, twice, out>>, Issued' = Issued, Spent
      PROVE  TokensUsedUp'
  BY <1>6, ForgetOver, TokensOver
<1>7. ASSUME NEW r \in Request, Clear(r) PROVE TokensUsedUp'
  <2>1. Moved(r, "create") /\ arg[r] = None /\ UNCHANGED <<parent, twice, out>>
    BY <1>7, GotoMoved DEF Clear, Typed, Armed
  <2>2. Issued' = Issued /\ Spent
    BY <1>7 DEF Clear, Typed, TypeOK, Issued, Spent, UsedUp
  <2>. QED  BY <2>1, <2>2, TokensMoved
<1>8. ASSUME NEW r \in Request, Create(r) PROVE TokensUsedUp'
  <2>1. PICK t \in Token :
          /\ t \notin Issued /\ doc' = [doc EXCEPT ![t] = "live"]
          /\ parent' = [parent EXCEPT ![t] = arg[r]]
    BY <1>8 DEF Create, Least
  <2>2. Over({r}) /\ UNCHANGED <<twice, out>> /\ pc[r] = "create"
    BY <1>8, ForgetOver DEF Create
  <2>3. Issued' = Issued \cup {t} /\ arg[r] \in Issued \cup {None}
    BY <2>1, <2>2 DEF Typed, TypeOK, Armed, Issued
  <2>4. \A u \in Issued : UsedUp(u) => UsedUp(u)'
    BY <2>1 DEF Typed, TypeOK, UsedUp, Issued
  <2>5. \A s \in Issued : parent'[s] = parent[s] /\ parent[s] \in Issued \cup {None}
    BY <2>1 DEF Typed, TypeOK, Issued
  <2>6. parent'[t] = arg[r] /\ (arg[r] # None => UsedUp(arg[r]))
    BY <2>1, <2>2 DEF Typed, TypeOK, TokensUsedUp
  <2>7. \A s \in Issued' : parent'[s] # None => doc'[parent'[s]] \in {"revoked", "gone"}
    BY <2>3, <2>4, <2>5, <2>6 DEF TokensUsedUp, UsedUp
  <2>8. \A q \in Request : pc'[q] \in {"black", "create"} /\ arg'[q] # None => doc'[arg'[q]] \in {"revoked", "gone"}
    BY <2>2, <2>4 DEF Over, Typed, Armed, TokensUsedUp, UsedUp
  <2>9. \A u \in Token : Successors(u)' = IF u = arg[r] THEN Successors(u) \cup {t} ELSE Successors(u)
    BY <2>3, <2>5, <2>6 DEF Successors
  <2>10. \A u \in Token, q \in Request : Exchanging(q, u)' => Exchanging(q, u) /\ q # r
    BY <2>2 DEF Over, Exchanging
  <2>11. Exchanging(r, arg[r])
    BY <2>2 DEF Exchanging
  <2>12. ASSUME NEW u \in Token PROVE Bounded(u)'
    <3>1. CASE u = arg[r]
      <4>1. t \notin Successors(u) /\ Successors(u)' = Successors(u) \cup {t}
        BY <2>1, <2>9, <3>1 DEF Successors
      <4>2. Cardinality(Successors(u)') = Cardinality(Successors(u)) + 1
        BY <4>1, TokenCounts, FS_AddElement
      <4>3. r \in Exchangers(u) /\ Exchangers(u)' \subseteq Exchangers(u) \ {r}
        BY <2>10, <2>11, <3>1 DEF Exchangers
      <4>4. Cardinality(Exchangers(u)') + 1 <= Cardinality(Exchangers(u)) /\ Cardinality(Exchangers(u)') \in Nat
        BY <4>3, TokenCounts, OneFewer, FS_Subset, FS_CardinalityType
      <4>5. twice'[u] \in Nat /\ twice'[u] = twice[u] /\ Bounded(u)
        BY <2>2 DEF Typed, TypeOK, TokensUsedUp
      <4>. QED  BY <4>2, <4>4, <4>5, TokenCounts DEF Bounded
    <3>2. CASE u # arg[r]
      BY <3>2, <2>2, <2>9, <2>10, BoundedKept DEF TokensUsedUp
    <3>. QED  BY <3>1, <3>2
  <2>13. out \subseteq Issued /\ out \subseteq Token
    BY DEF Typed, TypeOK, Issued
  <2>14. ASSUME NEW u \in out
         PROVE  UsedUp(u)' /\ Successors(u)' = {} /\ \A q \in Request : ~ Exchanging(q, u)'
    BY <2>4, <2>9, <2>10, <2>11, <2>13 DEF TokensUsedUp
  <2>. QED  BY <2>2, <2>7, <2>8, <2>12, <2>14 DEF TokensUsedUp, UsedUp
<1>9. ASSUME NEW r \in Request, Has(r) PROVE TokensUsedUp'
  <2>1. UNCHANGED <<parent, twice, out>> /\ Issued' = Issued /\ Spent
    BY <1>1, <1>9 DEF Has
  <2>. QED  BY <1>6, <1>9, <2>1, GotoMoved, TokensMoved DEF Has
<1>10. ASSUME NEW r \in Request, Find(r) PROVE TokensUsedUp'
  <2>1. UNCHANGED <<parent, out>> /\ Issued' = Issued /\ Spent
    BY <1>1, <1>10 DEF Find
  <2>2. CASE Return(r) /\ UNCHANGED twice
    BY <1>6, <2>1, <2>2
  <2>3. CASE /\ Goto(r, "rotate") /\ doc[arg[r]] = "live"
             /\ twice' = IF \E q \in Request : pc[q] = "rotate" /\ arg[q] = arg[r]
                         THEN [twice EXCEPT ![arg[r]] = @ + 1] ELSE twice
    <3>. PICK t \in Token : t = arg[r]
      BY <1>10 DEF Find, Typed, Armed, Issued
    <3>1. Moved(r, "rotate") /\ ~ UsedUp(t) /\ UNCHANGED doc
      BY <1>10, <2>3, GotoMoved DEF UsedUp, Find, Typed, Armed, Issued
    <3>2. \A u \in Token : Successors(u)' = Successors(u) /\ UsedUp(u)' = UsedUp(u)
      BY <2>1, <3>1 DEF Successors, UsedUp
    <3>3. \A u \in Token, q \in Request : Exchanging(q, u)' => Exchanging(q, u) \/ (q = r /\ u = t)
      BY <3>1 DEF Exchanging, Moved
    <3>4. t \notin out
      BY <3>1 DEF TokensUsedUp
    <3>5. Successors(t) = {}
      BY <1>10, <3>1, NoneIsNoToken DEF TokensUsedUp, Successors, Typed, TypeOK, Armed, Find
    <3>6. ASSUME NEW q \in Request, Exchanging(q, t) PROVE twice'[t] = twice[t] + 1
      <4>1. pc[q] = "rotate"
        BY <1>10, <3>1, <3>6, NoneIsNoToken DEF Exchanging, TokensUsedUp, Find, Typed, Armed
      <4>. QED  BY <2>3, <3>1, <3>6, <4>1 DEF Exchanging, Typed, TypeOK
    <3>13. /\ twice[t] \in Nat /\ twice'[t] \in {twice[t], twice[t] + 1}
           /\ \A u \in Token : u # t => twice'[u] = twice[u]
      BY <2>3, <3>1 DEF Typed, TypeOK
    <3>7. out \subseteq Token
      BY DEF Typed, TypeOK, Issued
    <3>8. \A q \in Request : pc'[q] \in {"black", "create"} => pc[q] = pc'[q] /\ arg'[q] = arg[q]
      BY <3>1 DEF Moved
    <3>9. Bounded(t)'
      <4>1. Exchangers(t)' \subseteq Exchangers(t) \cup {r}
        BY <3>3 DEF Exchangers
      <4>2. Cardinality(Exchangers(t)') <= Cardinality(Exchangers(t)) + 1
        BY <4>1, TokenCounts, OneMore
      <4>3. Cardinality(Successors(t)') = 0 /\ Cardinality(Exchangers(t)') \in Nat
        BY <3>1, <3>2, <3>5, <4>1, FS_EmptySet, TokenCounts, FS_AddElement, FS_Subset, FS_CardinalityType
      <4>4. CASE Exchangers(t) = {}
        BY <3>13, <4>2, <4>3, <4>4, FS_EmptySet DEF Bounded
      <4>5. CASE Exchangers(t) # {}
        <5>1. twice'[t] = twice[t] + 1
          BY <3>6, <4>5 DEF Exchangers
        <5>2. Bounded(t)
          BY <3>1 DEF TokensUsedUp
        <5>. QED  BY <3>13, <4>2, <4>3, <5>1, <5>2, TokenCounts DEF Bounded
      <4>. QED  BY <4>4, <4>5
    <3>14. ASSUME NEW u \in Token, u # t PROVE Bounded(u)'
      BY <3>2, <3>3, <3>13, <3>14, BoundedKept DEF TokensUsedUp
    <3>10. \A s \in Issued' : parent'[s] # None => doc'[parent'[s]] \in {"revoked", "gone"}
      BY <2>1, <3>1 DEF TokensUsedUp, UsedUp
    <3>11. \A q \in Request : pc'[q] \in {"black", "create"} /\ arg'[q] # None => doc'[arg'[q]] \in {"revoked", "gone"}
      BY <3>1, <3>8 DEF TokensUsedUp, UsedUp
    <3>12. \A u \in out' : UsedUp(u)' /\ Successors(u)' = {} /\ \A q \in Request : ~ Exchanging(q, u)'
      BY <2>1, <3>2, <3>3, <3>4, <3>7 DEF TokensUsedUp
    <3>. QED  BY <3>9, <3>10, <3>11, <3>12, <3>14 DEF TokensUsedUp, UsedUp
  <2>. QED  BY <1>10, <2>2, <2>3 DEF Find
<1>11. ASSUME NEW r \in Request, Rotate(r) PROVE TokensUsedUp'
  <2>1. UNCHANGED <<parent, twice, out>> /\ Issued' = Issued /\ Spent
    BY <1>11 DEF Rotate, Typed, TypeOK, Armed, Issued, Spent, UsedUp
  <2>2. CASE Return(r)
    BY <1>6, <2>1, <2>2
  <2>3. CASE Goto(r, "black") /\ doc' = [doc EXCEPT ![arg[r]] = "revoked"]
    <3>1. doc'[arg[r]] = "revoked" /\ pc[r] = "rotate"
      BY <1>11, <2>3 DEF Rotate, Typed, TypeOK, Armed, Issued
    <3>. QED  BY <2>1, <2>3, <3>1, GotoMoved, TokensMoved
  <2>. QED  BY <1>11, <2>2, <2>3 DEF Rotate
<1>12. ASSUME NEW r \in Request, Black(r) PROVE TokensUsedUp'
  <2>1. UNCHANGED <<doc, parent, twice, out>> /\ Issued' = Issued /\ Spent
    BY <1>1, <1>12 DEF Black
  <2>2. CASE Return(r)
    BY <1>6, <2>1, <2>2
  <2>3. CASE Goto(r, "create") /\ pc[r] = "black"
    <3>1. arg[r] # None => doc'[arg[r]] \in {"revoked", "gone"}
      BY <2>1, <2>3 DEF TokensUsedUp, UsedUp
    <3>. QED  BY <2>1, <2>3, <3>1, GotoMoved, TokensMoved
  <2>. QED  BY <1>12, <2>2, <2>3 DEF Black
<1>13. ASSUME NEW r \in Request, Revoke(r) PROVE TokensUsedUp'
  <2>. DEFINE t == arg[r]
  <2>1. Moved(r, "blackout") /\ UNCHANGED <<parent, twice>> /\ t \in Issued
    BY <1>13, GotoMoved DEF Revoke, Typed, Armed
  <2>2. doc' = [doc EXCEPT ![t] = IF @ = "live" THEN "revoked" ELSE @]
    BY <1>13 DEF Revoke
  <2>3. Issued' = Issued /\ Spent
    BY <2>1, <2>2 DEF Typed, TypeOK, Issued, Spent, UsedUp
  <2>4. \A u \in Token : Successors(u)' = Successors(u) /\ (UsedUp(u) => UsedUp(u)')
    BY <2>1, <2>3 DEF Successors, Spent, UsedUp
  <2>5. \A u \in Token, q \in Request : Exchanging(q, u)' => Exchanging(q, u)
    BY <2>1 DEF Exchanging, Moved
  <2>6. ASSUME NEW u \in out', u \notin out
        PROVE  /\ u = t /\ doc[u] = "live" /\ doc'[u] = "revoked"
               /\ ~ \E q \in Request : pc[q] = "rotate" /\ arg[q] = t
    BY <1>13, <2>1, <2>2, <2>6 DEF Revoke, Live, Typed, TypeOK, Issued
  <2>7. ASSUME NEW u \in out'
        PROVE  UsedUp(u)' /\ Successors(u)' = {} /\ \A q \in Request : ~ Exchanging(q, u)'
    <3>1. CASE u \in out
      BY <2>4, <2>5, <3>1 DEF TokensUsedUp, Typed, TypeOK, Issued
    <3>2. CASE u \notin out
      <4>1. u = t /\ ~ UsedUp(u) /\ UsedUp(u)' /\ u \in Token /\ u # None
        BY <2>1, <2>6, <3>2, NoneIsNoToken DEF Issued, UsedUp
      <4>2. Successors(u) = {}
        BY <4>1 DEF TokensUsedUp, Successors
      <4>3. \A q \in Request : ~ Exchanging(q, u)
        BY <2>6, <3>2, <4>1 DEF TokensUsedUp, Exchanging
      <4>. QED  BY <2>4, <2>5, <4>1, <4>2, <4>3
    <3>. QED  BY <3>1, <3>2
  <2>8. \A s \in Issued' : parent'[s] # None => doc'[parent'[s]] \in {"revoked", "gone"}
    BY <2>1, <2>3 DEF TokensUsedUp, Spent, Typed, TypeOK, Issued
  <2>9. \A q \in Request : pc'[q] \in {"black", "create"} /\ arg'[q] # None => doc'[arg'[q]] \in {"revoked", "gone"}
    BY <2>1, <2>3 DEF TokensUsedUp, Moved, Spent, Typed, Armed, Issued
  <2>10. \A u \in Token : Bounded(u)'
    BY <2>1, <2>4, <2>5, BoundedKept DEF TokensUsedUp
  <2>. HIDE DEF t
  <2>. QED  BY <2>7, <2>8, <2>9, <2>10 DEF TokensUsedUp, UsedUp
<1>14. ASSUME NEW r \in Request, Wipe(r) PROVE TokensUsedUp'
  <2>1. Over({r}) /\ UNCHANGED <<parent, twice, out>>
    BY <1>14, ForgetOver DEF Wipe
  <2>2. Issued' = Issued /\ Spent
    BY <1>14 DEF Wipe, Typed, TypeOK, Issued, Spent, UsedUp
  <2>. QED  BY <2>1, <2>2, TokensOver
<1>15. CASE UNCHANGED vars
  BY <1>15 DEF vars, TokensUsedUp, UsedUp, Bounded, Exchangers, Exchanging, Successors, Issued
<1>16. ASSUME NEW r \in Request, ClearCodes(r) \/ SendCode(r) \/ FindCode(r) \/ UseCode(r) \/ Fails(r)
      PROVE  TokensUsedUp'
  <2>1. UNCHANGED <<doc, parent, twice, out>>
    BY <1>16 DEF ClearCodes, SendCode, FindCode, UseCode, Fails
  <2>2. Return(r) \/ Goto(r, "sendCode") \/ Goto(r, "useCode")
    BY <1>16 DEF ClearCodes, SendCode, FindCode, UseCode, Fails
  <2>3. ASSUME NEW l \in {"sendCode", "useCode"}, Goto(r, l) PROVE TokensUsedUp'
    BY <1>1, <2>1, <2>3, GotoMoved, TokensMoved
  <2>. QED  BY <1>1, <1>6, <2>1, <2>2, <2>3
<1>17. ASSUME NEW r \in Request, Serve(r) PROVE TokensUsedUp'
  BY <1>7, <1>8, <1>9, <1>10, <1>11, <1>12, <1>13, <1>14, <1>16, <1>17 DEF Serve
<1>18. \A t \in Issued : device[t] \in Device
  BY DEF Typed, TypeOK
<1>. QED  BY <1>2, <1>3, <1>4, <1>5, <1>15, <1>17, <1>18 DEF Next

Users(c) == {r \in Request : pc[r] = "useCode" /\ arg[r] = c}

\* Who is about to use a code up is alone with it, and has bought nothing yet,
\* or has been counted.
CodesUsedUp ==
  /\ \A c \in Code : bought[c] # 0 => codes[c] \in {"used", "gone"}
  /\ \A c \in Code : bought[c] + Cardinality(Users(c)) <= 1 + shared[c]

LEMMA CodeCounts ==
  ASSUME Typed, NEW c \in Code
  PROVE  /\ IsFiniteSet(Users(c)) /\ Cardinality(Users(c)) \in Nat
         /\ bought[c] \in Nat /\ shared[c] \in Nat
BY Counted DEF Users, Typed, TypeOK

LEMMA CodesInitially == Init => CodesUsedUp
<1>. SUFFICES ASSUME Init PROVE CodesUsedUp
  OBVIOUS
<1>1. \A c \in Code : Users(c) = {} /\ bought[c] = 0 /\ shared[c] = 0
  BY DEF Init, Users
<1>. QED  BY <1>1, FS_EmptySet DEF CodesUsedUp

\* The code's part of a step that verifies none
LEMMA CodeKept ==
  ASSUME Typed, CodesUsedUp, NEW c \in Code, bought'[c] = bought[c], shared'[c] = shared[c],
         Users(c)' \subseteq Users(c)
  PROVE  bought'[c] + Cardinality(Users(c)') <= 1 + shared'[c]
<1>1. Cardinality(Users(c)') <= Cardinality(Users(c)) /\ Cardinality(Users(c)') \in Nat
  BY CodeCounts, FS_Subset, FS_CardinalityType
<1>. QED  BY <1>1, CodeCounts DEF CodesUsedUp

\* All steps but two verify no code.
LEMMA CodesKept ==
  ASSUME Typed, CodesUsedUp, UNCHANGED <<bought, shared>>,
         \A c \in Code : codes[c] \in {"used", "gone"} => codes'[c] \in {"used", "gone"},
         \A q \in Request : pc'[q] = "useCode" => pc[q] = "useCode" /\ arg'[q] = arg[q]
  PROVE  CodesUsedUp'
<1>1. \A c \in Code : Users(c)' \subseteq Users(c)
  BY DEF Users
<1>2. \A c \in Code : bought'[c] + Cardinality(Users(c)') <= 1 + shared'[c]
  BY <1>1, CodeKept
<1>. QED  BY <1>2 DEF CodesUsedUp

LEMMA CodesStep == Typed /\ CodesUsedUp /\ [Next]_vars => CodesUsedUp'
<1>. SUFFICES ASSUME Typed, CodesUsedUp, [Next]_vars PROVE CodesUsedUp'
  OBVIOUS
<1>. USE DEF Return
<1>. DEFINE Quiet == \A q \in Request : pc'[q] = "useCode" => pc[q] = "useCode" /\ arg'[q] = arg[q]
<1>1. ASSUME NEW R \in SUBSET Request, Forget(R) PROVE Quiet
  BY <1>1, ForgetOver DEF Over
<1>2. ASSUME NEW r \in Request, NEW l, l # "useCode", Goto(r, l) PROVE Quiet
  BY <1>2, GotoMoved DEF Moved
<1>3. ASSUME NEW l \in Location \ {"useCode"}, NEW i \in Instance, NEW a \in Issued \cup Sent \cup {None},
             NEW d \in Device \cup {NoDevice}, Begin(l, i, a, d), Ready(l, a, d)
      PROVE  CodesUsedUp'
  <2>1. PICK r \in Request : Begun(r, l, a, d)
    BY <1>3, BeginWork
  <2>2. UNCHANGED <<codes, history>>
    BY <1>3 DEF Begin
  <2>3. Quiet
    BY <2>1 DEF Begun
  <2>. QED  BY <2>2, <2>3, CodesKept
<1>4. ASSUME NEW i \in Instance, Restart(i) PROVE CodesUsedUp'
  <2>1. UNCHANGED <<codes, bought, shared>> /\ Forget({r \in Request : at[r] = i})
    BY <1>4 DEF Restart
  <2>2. Quiet
    BY <1>1, <2>1
  <2>. QED  BY <2>1, <2>2, CodesKept
<1>5. ASSUME NEW r \in Request,
             \/ Clear(r) \/ Create(r) \/ Has(r) \/ Find(r) \/ Rotate(r) \/ Black(r) \/ Revoke(r) \/ Wipe(r)
             \/ Fails(r)
      PROVE  CodesUsedUp'
  <2>1. UNCHANGED <<codes, bought, shared>>
    BY <1>5 DEF Clear, Create, Has, Find, Rotate, Black, Revoke, Wipe, Fails
  <2>2. \/ Forget({r})
        \/ \E l \in {"create", "find", "rotate", "black", "blackout"} : Goto(r, l)
    BY <1>5 DEF Clear, Create, Has, Find, Rotate, Black, Revoke, Wipe, Fails
  <2>3. Quiet
    BY <1>1, <1>2, <2>2
  <2>. QED  BY <2>1, <2>3, CodesKept
<1>6. ASSUME NEW r \in Request, ClearCodes(r) PROVE CodesUsedUp'
  <2>1. \A c \in Code : codes[c] \in {"used", "gone"} => codes'[c] \in {"used", "gone"}
    BY <1>6 DEF ClearCodes, Sent
  <2>2. Goto(r, "sendCode") /\ UNCHANGED <<bought, shared>>
    BY <1>6 DEF ClearCodes
  <2>3. Quiet
    BY <1>2, <2>2
  <2>. QED  BY <2>1, <2>2, <2>3, CodesKept
<1>7. ASSUME NEW r \in Request, SendCode(r) PROVE CodesUsedUp'
  <2>1. \A c \in Code : codes[c] \in {"used", "gone"} => codes'[c] \in {"used", "gone"}
    BY <1>7 DEF SendCode, Least, Sent, Typed, TypeOK
  <2>2. Forget({r}) /\ UNCHANGED <<bought, shared>>
    BY <1>7 DEF SendCode
  <2>3. Quiet
    BY <1>1, <2>2
  <2>. QED  BY <2>1, <2>2, <2>3, CodesKept
<1>8. ASSUME NEW r \in Request, FindCode(r) PROVE CodesUsedUp'
  <2>1. UNCHANGED <<codes, bought>> /\ pc[r] = "findCode" /\ arg[r] \in Code
    BY <1>8 DEF FindCode, Typed, Armed, Sent
  <2>2. CASE Return(r) /\ UNCHANGED shared
    <3>1. Quiet
      BY <1>1, <2>2
    <3>. QED  BY <2>1, <2>2, <3>1, CodesKept
  <2>3. CASE /\ Goto(r, "useCode") /\ codes[arg[r]] = "open"
             /\ shared' = IF \E q \in Request : pc[q] = "useCode" /\ arg[q] = arg[r]
                          THEN [shared EXCEPT ![arg[r]] = @ + 1] ELSE shared
    <3>. PICK c \in Code : c = arg[r]
      BY <2>1
    <3>1. Moved(r, "useCode")
      BY <2>3, GotoMoved
    <3>2. bought[c] = 0
      BY <2>1, <2>3 DEF CodesUsedUp
    <3>3. \A d \in Code : Users(d)' \subseteq Users(d) \cup {r} /\ (d # c => Users(d)' \subseteq Users(d))
      BY <3>1 DEF Users, Moved
    <3>4. /\ shared'[c] = IF Users(c) = {} THEN shared[c] ELSE shared[c] + 1
          /\ \A d \in Code : d # c => shared'[d] = shared[d]
      BY <2>3, <3>2 DEF Users, Typed, TypeOK
    <3>5. Cardinality(Users(c)') <= Cardinality(Users(c)) + 1 /\ Cardinality(Users(c)') \in Nat
      BY <3>2, <3>3, CodeCounts, OneMore, FS_AddElement, FS_Subset, FS_CardinalityType
    <3>6. Users(c) = {} => Cardinality(Users(c)) = 0
      BY FS_EmptySet
    <3>7. bought'[c] + Cardinality(Users(c)') <= 1 + shared'[c]
      BY <2>1, <3>2, <3>4, <3>5, <3>6, CodeCounts DEF CodesUsedUp
    <3>8. \A d \in Code : d # c => bought'[d] + Cardinality(Users(d)') <= 1 + shared'[d]
      BY <2>1, <3>3, <3>4, CodeKept
    <3>. QED  BY <2>1, <3>7, <3>8 DEF CodesUsedUp
  <2>. QED  BY <1>8, <2>2, <2>3 DEF FindCode
<1>9. ASSUME NEW r \in Request, UseCode(r) PROVE CodesUsedUp'
  <2>1. Over({r}) /\ UNCHANGED shared /\ pc[r] = "useCode" /\ arg[r] \in Code
    BY <1>9, ForgetOver DEF UseCode, Typed, Armed, Sent
  <2>2. Quiet
    BY <2>1 DEF Over
  <2>3. CASE UNCHANGED <<codes, bought>>
    BY <2>1, <2>2, <2>3, CodesKept
  <2>4. CASE codes' = [codes EXCEPT ![arg[r]] = "used"] /\ bought' = [bought EXCEPT ![arg[r]] = @ + 1]
    <3>1. \A c \in Code : bought'[c] # 0 => codes'[c] \in {"used", "gone"}
      BY <2>1, <2>4 DEF CodesUsedUp, Typed, TypeOK
    <3>2. ASSUME NEW c \in Code PROVE bought'[c] + Cardinality(Users(c)') <= 1 + shared'[c]
      <4>1. CASE c = arg[r]
        <5>1. bought'[c] = bought[c] + 1 /\ shared'[c] = shared[c]
          BY <2>1, <2>4, <4>1 DEF Typed, TypeOK
        <5>2. r \in Users(c) /\ Users(c)' \subseteq Users(c) \ {r}
          BY <2>1, <2>2, <4>1 DEF Users, Over
        <5>3. Cardinality(Users(c)') + 1 <= Cardinality(Users(c)) /\ Cardinality(Users(c)') \in Nat
          BY <5>2, CodeCounts, OneFewer, FS_Subset, FS_CardinalityType
        <5>. QED  BY <5>1, <5>3, CodeCounts DEF CodesUsedUp
      <4>2. CASE c # arg[r]
        <5>1. bought'[c] = bought[c] /\ shared'[c] = shared[c]
          BY <2>1, <2>4, <4>2 DEF Typed, TypeOK
        <5>2. Users(c)' \subseteq Users(c)
          BY <2>2 DEF Users
        <5>. QED  BY <5>1, <5>2, CodeKept
      <4>. QED  BY <4>1, <4>2
    <3>. QED  BY <3>1, <3>2 DEF CodesUsedUp
  <2>. QED  BY <1>9, <2>3, <2>4 DEF UseCode
<1>10. CASE UNCHANGED vars
  BY <1>10 DEF vars, CodesUsedUp, Users
<1>11. ASSUME NEW r \in Request, Serve(r) PROVE CodesUsedUp'
  BY <1>5, <1>6, <1>7, <1>8, <1>9, <1>11 DEF Serve
<1>12. ASSUME NEW i \in Instance, NEW d \in Device, Begin("clearAll", i, None, d) \/ Begin("clearDevice", i, None, d)
      PROVE  CodesUsedUp'
  BY <1>3, <1>12 DEF Location, Ready
<1>13. ASSUME NEW i \in Instance, NEW t \in Issued, Begin("has", i, t, device[t]) \/ Begin("revoke", i, t, NoDevice)
      PROVE  CodesUsedUp'
  BY <1>3, <1>13 DEF Location, Ready, Typed, TypeOK
<1>14. ASSUME NEW i \in Instance, Begin("wipe", i, None, NoDevice) \/ Begin("clearCodes", i, None, NoDevice)
      PROVE  CodesUsedUp'
  BY <1>3, <1>14 DEF Location, Ready
<1>15. ASSUME NEW i \in Instance, NEW c \in Sent, Begin("findCode", i, c, NoDevice) PROVE CodesUsedUp'
  BY <1>3, <1>15 DEF Location, Ready
<1>. QED  BY <1>4, <1>10, <1>11, <1>12, <1>13, <1>14, <1>15 DEF Next

\* A refresh token buys one successor and a reset code one reset token,
\* although Redis may fail, instances may restart and each keeps a blacklist of
\* its own: the document is what decides, and each call that reads it before
\* another has revoked it, or used it up, gets one more and no other does.
THEOREM TokensAndCodesBuyOnce == Spec => []UsedUpOnce
<1>1. Typed /\ TokensUsedUp /\ CodesUsedUp => UsedUpOnce
  <2>. SUFFICES ASSUME Typed, TokensUsedUp, CodesUsedUp PROVE UsedUpOnce
    OBVIOUS
  <2>1. ASSUME NEW t \in Token PROVE Cardinality(Successors(t)) <= 1 + twice[t]
    BY TokenCounts DEF TokensUsedUp, Bounded, Typed, TypeOK
  <2>2. ASSUME NEW c \in Code PROVE bought[c] <= 1 + shared[c]
    BY CodeCounts DEF CodesUsedUp
  <2>. QED  BY <2>1, <2>2 DEF UsedUpOnce, TokensUsedUp
<1>. QED  BY <1>1, TypedInitially, TypedStep, TokensInitially, TokensStep, CodesInitially, CodesStep, PTL DEF Spec

-----------------------------------------------------------------------------
(* One session per device *)

Makers(d) == {r \in Committed : dev[r] = d}

Rotating(t) == \E r \in Request : pc[r] = "rotate" /\ arg[r] = t

\* Live tokens of a device that nobody is about to replace
Settled(d) == {t \in Live : device[t] = d /\ ~ Rotating(t)}

\* The live tokens that the device may come to have
Room(d) == Cardinality(Makers(d)) + Cardinality(Settled(d)) <= 1 + crossed[d]

\* Who is committed to creating a token on a device is alone there or has been
\* counted, and has ended, or is about to end, the one live token of the device.
SoleSession ==
  /\ \A d \in Device : Room(d)
  /\ \A r \in Request : pc[r] \in {"has", "find", "rotate"} => dev[r] = device[arg[r]]

LEMMA RoomCounts ==
  ASSUME NEW d
  PROVE  /\ IsFiniteSet(Makers(d)) /\ Cardinality(Makers(d)) \in Nat
         /\ IsFiniteSet(Settled(d)) /\ Cardinality(Settled(d)) \in Nat
BY Counted DEF Makers, Committed, Settled, Live

LEMMA SoleInitially == Init => SoleSession
<1>. SUFFICES ASSUME Init PROVE SoleSession
  OBVIOUS
<1>1. \A d \in Device : Makers(d) = {} /\ Settled(d) = {} /\ crossed[d] = 0
  BY DEF Init, Makers, Committed, Settled, Live
<1>2. \A d \in Device : Room(d)
  BY <1>1, FS_EmptySet DEF Room
<1>. QED  BY <1>2 DEF Init, SoleSession

LEMMA RoomKept ==
  ASSUME Typed, SoleSession, NEW d \in Device, crossed'[d] = crossed[d],
         Makers(d)' \subseteq Makers(d), Settled(d)' \subseteq Settled(d)
  PROVE  Room(d)'
<1>1. Cardinality(Makers(d)') <= Cardinality(Makers(d)) /\ Cardinality(Makers(d)') \in Nat
  BY RoomCounts, FS_Subset, FS_CardinalityType
<1>2. Cardinality(Settled(d)') <= Cardinality(Settled(d)) /\ Cardinality(Settled(d)') \in Nat
  BY RoomCounts, FS_Subset, FS_CardinalityType
<1>3. Room(d) /\ crossed[d] \in Nat
  BY DEF SoleSession, Typed, TypeOK
<1>. QED  BY <1>1, <1>2, <1>3, RoomCounts DEF Room

\* Requests that end between finding a token and revoking it leave it live.
LEMMA SoleOver ==
  ASSUME Typed, SoleSession, NEW R \in SUBSET Request, Over(R),
         UNCHANGED <<device, crossed>>, Live' \subseteq Live
  PROVE  SoleSession'
<1>1. \A q \in Request : pc'[q] # "idle" => q \notin R
  BY DEF Over
<1>2. \A q \in Request \ R : pc'[q] = pc[q] /\ dev'[q] = dev[q] /\ arg'[q] = arg[q]
  BY DEF Over
<1>3. ASSUME NEW d \in Device PROVE Room(d)'
  <2>. DEFINE Ended1 == Makers(d) \cap R
              Freed == {arg[q] : q \in Ended1}
  <2>1. Makers(d)' \subseteq Makers(d) \ Ended1
    BY <1>1, <1>2 DEF Makers, Committed
  <2>2. Settled(d)' \subseteq Settled(d) \cup Freed
    <3>1. ASSUME NEW t \in Settled(d)', t \notin Settled(d) PROVE t \in Freed
      <4>1. t \in Live /\ device[t] = d /\ Rotating(t)
        BY <3>1 DEF Settled
      <4>2. PICK q \in Request : pc[q] = "rotate" /\ arg[q] = t
        BY <4>1 DEF Rotating
      <4>3. q \in R
        BY <1>2, <3>1, <4>2 DEF Settled, Rotating
      <4>4. q \in Makers(d)
        BY <4>1, <4>2 DEF SoleSession, Makers, Committed
      <4>. QED  BY <4>2, <4>3, <4>4
    <3>. QED  BY <3>1
  <2>3. IsFiniteSet(Ended1) /\ Cardinality(Ended1) \in Nat
    BY Counted DEF Makers, Committed
  <2>4. IsFiniteSet(Freed) /\ Cardinality(Freed) <= Cardinality(Ended1) /\ Cardinality(Freed) \in Nat
    BY <2>3, ImageCount, FS_CardinalityType
  <2>5. /\ IsFiniteSet(Makers(d) \ Ended1)
        /\ Cardinality(Makers(d) \ Ended1) = Cardinality(Makers(d)) - Cardinality(Ended1)
    <3>1. Makers(d) \cap Ended1 = Ended1
      OBVIOUS
    <3>. HIDE DEF Ended1
    <3>. QED  BY <3>1, RoomCounts, FS_Difference
  <2>. HIDE DEF Ended1, Freed
  <2>6. /\ Cardinality(Makers(d)') <= Cardinality(Makers(d)) - Cardinality(Ended1)
        /\ Cardinality(Makers(d)') \in Nat
    BY <2>1, <2>5, FS_Subset, FS_CardinalityType
  <2>7. /\ IsFiniteSet(Settled(d) \cup Freed)
        /\ Cardinality(Settled(d) \cup Freed) <= Cardinality(Settled(d)) + Cardinality(Freed)
    BY <2>4, RoomCounts, UnionCount
  <2>8. /\ Cardinality(Settled(d)') <= Cardinality(Settled(d) \cup Freed)
        /\ Cardinality(Settled(d)') \in Nat /\ Cardinality(Settled(d) \cup Freed) \in Nat
    BY <2>2, <2>7, FS_Subset, FS_CardinalityType
  <2>9. Room(d) /\ crossed'[d] = crossed[d] /\ crossed[d] \in Nat
    BY DEF SoleSession, Typed, TypeOK
  <2>. QED  BY <2>3, <2>4, <2>6, <2>7, <2>8, <2>9, RoomCounts DEF Room
<1>4. \A q \in Request : pc'[q] \in {"has", "find", "rotate"} => dev'[q] = device[arg'[q]]
  BY <1>1, <1>2 DEF SoleSession
<1>. QED  BY <1>3, <1>4 DEF SoleSession

\* A step of a request that does not commit itself by it
LEMMA SoleMoved ==
  ASSUME Typed, SoleSession, NEW r \in Request, NEW l, Moved(r, l),
         UNCHANGED <<device, crossed>>, Live' \subseteq Live,
         l \in {"rotate", "black", "create"} => pc[r] \in {"rotate", "black", "create"},
         pc[r] = "rotate" => arg[r] \notin Live',
         l \in {"has", "find", "rotate"} => dev[r] = device[arg[r]]
  PROVE  SoleSession'
<1>1. pc'[r] = l /\ UNCHANGED <<arg, dev>> /\ \A q \in Request \ {r} : pc'[q] = pc[q]
  BY DEF Moved
<1>2. ASSUME NEW d \in Device PROVE Room(d)'
  <2>1. Makers(d)' \subseteq Makers(d)
    BY <1>1 DEF Makers, Committed
  <2>2. Settled(d)' \subseteq Settled(d)
    BY <1>1 DEF Settled, Rotating
  <2>. QED  BY <2>1, <2>2, RoomKept
<1>. QED  BY <1>1, <1>2 DEF SoleSession

\* A step of a request that commits itself: either it has ended every session
\* of the device, or it has found the one that it is about to end.
LEMMA SoleJoined ==
  ASSUME Typed, SoleSession, NEW r \in Request, NEW l \in {"rotate", "create"}, Moved(r, l),
         pc[r] \notin {"rotate", "black", "create"}, Cross(r), dev[r] \in Device,
         UNCHANGED device, Live' \subseteq Live,
         l = "create" => \A t \in Live' : device[t] # dev[r],
         l = "rotate" => arg[r] \in Live /\ dev[r] = device[arg[r]]
  PROVE  SoleSession'
<1>. PICK d \in Device : d = dev[r]
  OBVIOUS
<1>1. pc'[r] = l /\ UNCHANGED <<arg, dev>> /\ \A q \in Request \ {r} : pc'[q] = pc[q]
  BY DEF Moved
<1>2. \A e \in Device : Settled(e)' \subseteq Settled(e)
  BY <1>1 DEF Settled, Rotating
<1>3. \A e \in Device : Makers(e)' \subseteq Makers(e) \cup {r} /\ (e # d => Makers(e)' \subseteq Makers(e))
  BY <1>1 DEF Makers, Committed
<1>4. /\ Makers(d) # {} => crossed'[d] = crossed[d] + 1
      /\ crossed'[d] \in {crossed[d], crossed[d] + 1} /\ crossed[d] \in Nat
      /\ \A e \in Device : e # d => crossed'[e] = crossed[e]
  BY DEF Cross, Makers, Committed, Typed, TypeOK
<1>5. ASSUME NEW e \in Device, e # d PROVE Room(e)'
  BY <1>2, <1>3, <1>4, <1>5, RoomKept
<1>6. Room(d)'
  <2>1. Cardinality(Makers(d)') <= Cardinality(Makers(d)) + 1 /\ Cardinality(Makers(d)') \in Nat
    BY <1>3, RoomCounts, OneMore, FS_AddElement, FS_Subset, FS_CardinalityType
  <2>2. Cardinality(Settled(d)') <= Cardinality(Settled(d)) /\ Cardinality(Settled(d)') \in Nat
    BY <1>2, RoomCounts, FS_Subset, FS_CardinalityType
  <2>3. Room(d)
    BY DEF SoleSession
  <2>4. CASE Makers(d) # {}
    BY <1>4, <2>1, <2>2, <2>3, <2>4, RoomCounts DEF Room
  <2>5. CASE Makers(d) = {}
    <3>1. Cardinality(Makers(d)) = 0
      BY <2>5, FS_EmptySet
    <3>2. CASE l = "create"
      <4>1. Settled(d)' = {}
        BY <1>1, <3>2 DEF Settled
      <4>2. Cardinality(Settled(d)') = 0
        BY <4>1, FS_EmptySet
      <4>. QED  BY <1>4, <2>1, <3>1, <4>2 DEF Room
    <3>3. CASE l = "rotate"
      <4>1. ~ Rotating(arg[r])
        BY <2>5, <3>3 DEF SoleSession, Rotating, Makers, Committed
      <4>2. arg[r] \in Settled(d) /\ Settled(d)' \subseteq Settled(d) \ {arg[r]}
        BY <1>1, <1>2, <3>3, <4>1 DEF Settled, Rotating
      <4>3. Cardinality(Settled(d)') + 1 <= Cardinality(Settled(d))
        BY <4>2, RoomCounts, OneFewer
      <4>. QED  BY <1>4, <2>1, <2>2, <2>3, <3>1, <4>3, RoomCounts DEF Room
    <3>. QED  BY <3>2, <3>3
  <2>. QED  BY <2>4, <2>5
<1>. QED  BY <1>1, <1>5, <1>6 DEF SoleSession

LEMMA SoleBegun ==
  ASSUME Typed, SoleSession, NEW r \in Request, NEW l, NEW a, NEW d, Begun(r, l, a, d),
         UNCHANGED <<tokens, history>>, l \notin {"find", "rotate", "black", "create"},
         l = "has" => d = device[a]
  PROVE  SoleSession'
<1>1. pc[r] = "idle" /\ pc'[r] = l /\ dev'[r] = d /\ arg'[r] = a
  BY DEF Begun
<1>2. \A q \in Request \ {r} : pc'[q] = pc[q] /\ dev'[q] = dev[q] /\ arg'[q] = arg[q]
  BY DEF Begun
<1>3. ASSUME NEW e \in Device PROVE Room(e)'
  <2>1. Makers(e)' \subseteq Makers(e)
    BY <1>1, <1>2 DEF Makers, Committed
  <2>2. Settled(e)' \subseteq Settled(e)
    BY <1>1, <1>2 DEF Settled, Live, Rotating
  <2>. QED  BY <2>1, <2>2, RoomKept
<1>. QED  BY <1>1, <1>2, <1>3 DEF SoleSession

LEMMA SoleStep == Typed /\ SoleSession /\ [Next]_vars => SoleSession'
<1>. SUFFICES ASSUME Typed, SoleSession, [Next]_vars PROVE SoleSession'
  OBVIOUS
<1>. USE DEF Return
<1>1. ASSUME UNCHANGED doc PROVE Live' \subseteq Live
  BY <1>1 DEF Live
<1>2. ASSUME NEW r \in Request, Return(r), UNCHANGED <<device, crossed>>, Live' \subseteq Live
      PROVE  SoleSession'
  BY <1>2, ForgetOver, SoleOver
<1>3. ASSUME NEW l \in Location \ {"find", "rotate", "black", "create"}, NEW i \in Instance,
             NEW a \in Issued \cup Sent \cup {None}, NEW d \in Device \cup {NoDevice},
             Begin(l, i, a, d), Ready(l, a, d), l = "has" => d = device[a]
      PROVE  SoleSession'
  <2>1. PICK r \in Request : Begun(r, l, a, d)
    BY <1>3, BeginWork
  <2>2. UNCHANGED <<tokens, history>>
    BY <1>3 DEF Begin
  <2>. QED  BY <1>3, <2>1, <2>2, SoleBegun
<1>4. ASSUME NEW i \in Instance, Restart(i) PROVE SoleSession'
  <2>. DEFINE R == {r \in Request : at[r] = i}
  <2>1. Over(R) /\ UNCHANGED <<doc, device, crossed>>
    BY <1>4, ForgetOver DEF Restart
  <2>. QED  BY <1>1, <2>1, SoleOver
<1>5. ASSUME NEW r \in Request, Clear(r) PROVE SoleSession'
  <2>1. Moved(r, "create") /\ UNCHANGED device /\ Cross(r) /\ dev[r] \in Device
    BY <1>5, GotoMoved DEF Clear, Typed, Armed
  <2>2. Live' \subseteq Live /\ \A t \in Live' : device[t] # dev[r]
    BY <1>5 DEF Clear, Live, Issued, Typed, TypeOK
  <2>. QED  BY <1>5, <2>1, <2>2, SoleJoined DEF Clear
<1>6. ASSUME NEW r \in Request, Create(r) PROVE SoleSession'
  <2>1. PICK t \in Token :
          /\ t \notin Issued /\ doc' = [doc EXCEPT ![t] = "live"] /\ device' = [device EXCEPT ![t] = dev[r]]
    BY <1>6 DEF Create, Least
  <2>2. Over({r}) /\ UNCHANGED crossed /\ pc[r] = "create" /\ dev[r] \in Device
    BY <1>6, ForgetOver DEF Create, Typed, Armed
  <2>3. Live' = Live \cup {t} /\ device'[t] = dev[r] /\ Live \subseteq Issued
    BY <2>1 DEF Live, Typed, TypeOK, Issued
  <2>4. \A s \in Issued : device'[s] = device[s]
    BY <2>1 DEF Typed, TypeOK, Issued
  <2>5. pc'[r] = "idle" /\ \A q \in Request \ {r} : pc'[q] = pc[q] /\ dev'[q] = dev[q] /\ arg'[q] = arg[q]
    BY <2>2 DEF Over
  <2>6. \A s : Rotating(s) => Rotating(s)'
    BY <2>2, <2>5 DEF Rotating
  <2>7. ASSUME NEW d \in Device, d # dev[r] PROVE Room(d)'
    <3>1. Makers(d)' \subseteq Makers(d)
      BY <2>5 DEF Makers, Committed
    <3>2. Settled(d)' \subseteq Settled(d)
      BY <2>3, <2>4, <2>6, <2>7 DEF Settled
    <3>. QED  BY <2>2, <3>1, <3>2, RoomKept
  <2>8. ASSUME NEW d \in Device, d = dev[r] PROVE Room(d)'
    <3>1. r \in Makers(d) /\ Makers(d)' \subseteq Makers(d) \ {r}
      BY <2>2, <2>5, <2>8 DEF Makers, Committed
    <3>2. Settled(d)' \subseteq Settled(d) \cup {t}
      BY <2>3, <2>4, <2>6 DEF Settled
    <3>3. Cardinality(Makers(d)') + 1 <= Cardinality(Makers(d)) /\ Cardinality(Makers(d)') \in Nat
      BY <3>1, RoomCounts, OneFewer, FS_Subset, FS_CardinalityType
    <3>4. Cardinality(Settled(d)') <= Cardinality(Settled(d)) + 1 /\ Cardinality(Settled(d)') \in Nat
      BY <3>2, RoomCounts, OneMore, FS_AddElement, FS_Subset, FS_CardinalityType
    <3>5. Room(d) /\ crossed'[d] = crossed[d] /\ crossed[d] \in Nat
      BY <2>2 DEF SoleSession, Typed, TypeOK
    <3>. QED  BY <3>3, <3>4, <3>5, RoomCounts DEF Room
  <2>9. \A q \in Request : pc'[q] \in {"has", "find", "rotate"} => dev'[q] = device'[arg'[q]]
    BY <2>4, <2>5 DEF SoleSession, Typed, Armed
  <2>. QED  BY <2>7, <2>8, <2>9 DEF SoleSession
<1>8. ASSUME NEW r \in Request, Has(r) PROVE SoleSession'
  <2>1. UNCHANGED <<device, crossed>> /\ Live' \subseteq Live
    BY <1>1, <1>8 DEF Has
  <2>2. dev[r] = device[arg[r]]
    BY <1>8 DEF SoleSession, Has
  <2>3. pc[r] = "has"
    BY <1>8 DEF Has
  <2>. QED  BY <1>2, <1>8, <2>1, <2>2, <2>3, GotoMoved, SoleMoved DEF Has
<1>9. ASSUME NEW r \in Request, Find(r) PROVE SoleSession'
  <2>1. UNCHANGED device /\ Live' \subseteq Live
    BY <1>1, <1>9 DEF Find
  <2>2. CASE Return(r) /\ UNCHANGED crossed
    BY <1>2, <2>1, <2>2
  <2>3. CASE Goto(r, "rotate") /\ Cross(r) /\ doc[arg[r]] = "live"
    <3>1. dev[r] = device[arg[r]] /\ arg[r] \in Live /\ dev[r] \in Device /\ pc[r] = "find"
      BY <1>9, <2>3 DEF SoleSession, Find, Live, Issued, Typed, Armed
    <3>. QED  BY <2>1, <2>3, <3>1, GotoMoved, SoleJoined
  <2>. QED  BY <1>9, <2>2, <2>3 DEF Find
<1>10. ASSUME NEW r \in Request, Rotate(r) PROVE SoleSession'
  <2>1. UNCHANGED <<device, crossed>> /\ Live' \subseteq Live /\ pc[r] = "rotate" /\ r \in Committed
    BY <1>10 DEF Rotate, Live, Committed, Typed, TypeOK, Armed, Issued
  <2>2. CASE Return(r)
    BY <1>2, <2>1, <2>2
  <2>3. CASE Goto(r, "black") /\ doc' = [doc EXCEPT ![arg[r]] = "revoked"]
    <3>1. arg[r] \notin Live'
      BY <2>1, <2>3 DEF Live, Typed, TypeOK, Armed, Issued
    <3>. QED  BY <2>1, <2>3, <3>1, GotoMoved, SoleMoved
  <2>. QED  BY <1>10, <2>2, <2>3 DEF Rotate
<1>11. ASSUME NEW r \in Request, Black(r) PROVE SoleSession'
  <2>1. UNCHANGED <<device, crossed>> /\ Live' \subseteq Live
    BY <1>1, <1>11 DEF Black
  <2>2. CASE Return(r)
    BY <1>2, <2>1, <2>2
  <2>3. CASE Goto(r, "create") /\ pc[r] = "black"
    BY <2>1, <2>3, GotoMoved, SoleMoved
  <2>. QED  BY <1>11, <2>2, <2>3 DEF Black
<1>12. ASSUME NEW r \in Request, Revoke(r) PROVE SoleSession'
  <2>1. UNCHANGED <<device, crossed>> /\ Live' \subseteq Live
    BY <1>12 DEF Revoke, Live, Typed, TypeOK, Armed, Issued
  <2>. QED  BY <1>12, <2>1, GotoMoved, SoleMoved DEF Revoke
<1>13. ASSUME NEW r \in Request, Wipe(r) PROVE SoleSession'
  <2>1. UNCHANGED <<device, crossed>> /\ Live' \subseteq Live
    BY <1>13 DEF Wipe, Live, Issued
  <2>. QED  BY <1>13, <2>1, ForgetOver, SoleOver DEF Wipe
<1>14. ASSUME NEW r \in Request, ClearCodes(r) \/ SendCode(r) \/ FindCode(r) \/ UseCode(r) \/ Fails(r)
      PROVE  SoleSession'
  <2>1. UNCHANGED <<doc, device, crossed>>
    BY <1>14 DEF ClearCodes, SendCode, FindCode, UseCode, Fails
  <2>2. Return(r) \/ ((Goto(r, "sendCode") \/ Goto(r, "useCode")) /\ pc[r] \in {"clearCodes", "findCode"})
    BY <1>14 DEF ClearCodes, SendCode, FindCode, UseCode, Fails
  <2>3. ASSUME NEW l \in {"sendCode", "useCode"}, Goto(r, l), pc[r] \in {"clearCodes", "findCode"}
        PROVE  SoleSession'
    BY <1>1, <2>1, <2>3, GotoMoved, SoleMoved
  <2>. QED  BY <1>1, <1>2, <2>1, <2>2, <2>3
<1>15. CASE UNCHANGED vars
  BY <1>15 DEF vars, SoleSession, Room, Makers, Settled, Rotating, Live, Committed
<1>16. ASSUME NEW r \in Request, Serve(r) PROVE SoleSession'
  BY <1>5, <1>6, <1>8, <1>9, <1>10, <1>11, <1>12, <1>13, <1>14, <1>16 DEF Serve
<1>17. ASSUME NEW i \in Instance, NEW d \in Device, Begin("clearAll", i, None, d) \/ Begin("clearDevice", i, None, d)
      PROVE  SoleSession'
  BY <1>3, <1>17 DEF Location, Ready
<1>18. ASSUME NEW i \in Instance, NEW t \in Issued, Begin("has", i, t, device[t]) \/ Begin("revoke", i, t, NoDevice)
      PROVE  SoleSession'
  BY <1>3, <1>18 DEF Location, Ready, Typed, TypeOK
<1>19. ASSUME NEW i \in Instance, Begin("wipe", i, None, NoDevice) \/ Begin("clearCodes", i, None, NoDevice)
      PROVE  SoleSession'
  BY <1>3, <1>19 DEF Location, Ready
<1>20. ASSUME NEW i \in Instance, NEW c \in Sent, Begin("findCode", i, c, NoDevice) PROVE SoleSession'
  BY <1>3, <1>20 DEF Location, Ready
<1>. QED  BY <1>4, <1>15, <1>16, <1>17, <1>18, <1>19, <1>20 DEF Next

\* A device has one session: logins of both kinds and refreshes end the one
\* they replace, whatever fails in between, and there is one more at most for
\* each time that a call came to make a token while another was making one.
THEOREM DeviceHasOneSession == Spec => []OneSessionPerDevice
<1>1. Typed /\ SoleSession => OneSessionPerDevice
  <2>. SUFFICES ASSUME Typed, SoleSession, NEW d \in Device
                PROVE  Cardinality({t \in Live : device[t] = d}) <= 1 + crossed[d]
    BY DEF OneSessionPerDevice
  <2>. DEFINE L == {t \in Live : device[t] = d}
              F == {arg[q] : q \in Makers(d)}
  <2>1. L \subseteq Settled(d) \cup F
    BY DEF Settled, Rotating, SoleSession, Makers, Committed
  <2>2. IsFiniteSet(F) /\ Cardinality(F) <= Cardinality(Makers(d)) /\ Cardinality(F) \in Nat
    BY RoomCounts, ImageCount, FS_CardinalityType
  <2>. HIDE DEF L, F
  <2>3. /\ IsFiniteSet(Settled(d) \cup F)
        /\ Cardinality(Settled(d) \cup F) <= Cardinality(Settled(d)) + Cardinality(F)
    BY <2>2, RoomCounts, UnionCount
  <2>4. /\ Cardinality(L) <= Cardinality(Settled(d) \cup F)
        /\ Cardinality(L) \in Nat /\ Cardinality(Settled(d) \cup F) \in Nat
    BY <2>1, <2>3, FS_Subset, FS_CardinalityType
  <2>5. Room(d) /\ crossed[d] \in Nat
    BY DEF SoleSession, Typed, TypeOK
  <2>6. Cardinality(L) <= 1 + crossed[d]
    BY <2>2, <2>3, <2>4, <2>5, RoomCounts DEF Room
  <2>. QED  BY <2>6 DEF L
<1>. QED  BY <1>1, TypedInitially, TypedStep, SoleInitially, SoleStep, PTL DEF Spec
=============================================================================
