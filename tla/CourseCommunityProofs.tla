----------------------- MODULE CourseCommunityProofs -----------------------
(***************************************************************************)
(* Theorems about CourseCommunity, for any number of users, messages       *)
(* handled at a time, calls, lost messages and groups of the course.       *)
(***************************************************************************)
EXTENDS CourseCommunity, FiniteSetTheorems, TLAPS

USE DEF docs, lms, work, history

Location == {"idle", "find", "recheck", "create", "raced", "update", "recount"}

LEMMA Constants == NoTask \in Task /\ NoGroup \in Group /\ Message \subseteq Task
<1>1. \E g \in Group : TRUE
  BY CommunityAssumption
<1>. QED  BY <1>1, CommunityAssumption DEF NoTask, NoGroup, Task, Message, About

LEMMA TaskUser ==
  ASSUME NEW t \in Task
  PROVE  t.user \in User
BY CommunityAssumption DEF Task, Message, About

-----------------------------------------------------------------------------
(* Types *)

LEMMA TypeInitially == Init => TypeOK
<1>. SUFFICES ASSUME Init PROVE TypeOK
  OBVIOUS
<1>. QED  BY Constants, CommunityAssumption DEF Init, TypeOK

LEMMA GotoType ==
  ASSUME TypeOK, NEW w \in Worker, NEW l \in Location, Goto(w, l)
  PROVE  pc' \in [Worker -> Location] /\ task' \in [Worker -> Task]
BY DEF TypeOK, Goto, Location

LEMMA ReturnType ==
  ASSUME TypeOK, NEW w \in Worker, Return(w)
  PROVE  /\ pc' \in [Worker -> Location] /\ task' \in [Worker -> Task]
         /\ at' \in [Worker -> Group]
         /\ pc'[w] = "idle" /\ task'[w] = NoTask
         /\ \A v \in Worker \ {w} : pc'[v] = pc[v] /\ at'[v] = at[v] /\ task'[v] = task[v]
BY Constants DEF TypeOK, Return, Location

LEMMA StartType ==
  ASSUME TypeOK, NEW l \in {"find", "update"}, NEW t \in Task, Start(l, t)
  PROVE  /\ pc' \in [Worker -> Location] /\ task' \in [Worker -> Task]
         /\ at' \in [Worker -> Group]
         /\ \E w \in Worker :
              /\ pc'[w] = l /\ task'[w] = t /\ (l = "update" => at'[w] \in Active)
              /\ \A v \in Worker \ {w} : pc'[v] = pc[v] /\ at'[v] = at[v] /\ task'[v] = task[v]
<1>. DEFINE w == CHOOSE v \in Worker : ~ Busy(v)
<1>1. w \in Worker
  BY DEF Start
<1>2. /\ pc' = [pc EXCEPT ![w] = l] /\ task' = [task EXCEPT ![w] = t]
      /\ IF l = "find" THEN at' = at ELSE \E g \in Active : at' = [at EXCEPT ![w] = g]
  BY DEF Start
<1>. HIDE DEF w
<1>3. Active \subseteq Group
  BY DEF Active
<1>. QED  BY <1>1, <1>2, <1>3 DEF TypeOK, Location

LEMMA TypeStep == TypeOK /\ [Next]_vars => TypeOK'
<1>. SUFFICES ASSUME TypeOK, [Next]_vars PROVE TypeOK'
  OBVIOUS
<1>. USE DEF Location
<1>1. ASSUME NEW m \in Message, NEW k \in Nat, Send(m, k)
      PROVE  network' \in [Message -> Nat]
  BY <1>1 DEF TypeOK, Send
<1>2. ASSUME NEW w \in Worker, Return(w), UNCHANGED state
      PROVE  \A v \in Worker : pc'[v] \in {"update", "recount"} => state'[at'[v]] # "absent"
  BY <1>2, ReturnType DEF TypeOK
<1>3. About("ensure", Owner) \in Message /\ About("delete", Owner) \in Message
  BY DEF Message
<1>4. \A u \in User : About("join", u) \in Message /\ About("leave", u) \in Message
  BY DEF Message, About
<1>5. CASE CreateCourse
  BY <1>5, <1>1, <1>3 DEF TypeOK, CreateCourse
<1>6. CASE DeleteCourse
  BY <1>6, <1>1, <1>3 DEF TypeOK, DeleteCourse
<1>7. ASSUME NEW u \in User, Enroll(u) PROVE TypeOK'
  <2>1. network' \in [Message -> Nat]
    BY <1>7, <1>1, <1>4 DEF Enroll
  <2>2. calls' \in 0..MaxCalls
    BY <1>7, CommunityAssumption DEF TypeOK, Enroll, Call
  <2>. QED  BY <1>7, <2>1, <2>2 DEF TypeOK, Enroll
<1>8. ASSUME NEW u \in User, Cancel(u) PROVE TypeOK'
  <2>1. network' \in [Message -> Nat]
    BY <1>8, <1>1, <1>4 DEF Cancel
  <2>2. calls' \in 0..MaxCalls
    BY <1>8, CommunityAssumption DEF TypeOK, Cancel, Call
  <2>. QED  BY <1>8, <2>1, <2>2 DEF TypeOK, Cancel
<1>9. ASSUME NEW u \in User, LeaveGroup(u) PROVE TypeOK'
  BY <1>9, CommunityAssumption DEF TypeOK, LeaveGroup, TakeOut, Active, Call
<1>10. ASSUME NEW u \in User, Unban(u) PROVE TypeOK'
  BY <1>10, CommunityAssumption DEF TypeOK, Unban, Active, Call
<1>11. ASSUME NEW u \in User, NEW kind \in {"remove", "ban"}, Moderate(kind, u) PROVE TypeOK'
  <2>1. About(kind, u) \in Task
    BY DEF About, Task
  <2>2. Start("update", About(kind, u))
    BY <1>11 DEF Moderate
  <2>3. calls' \in 0..MaxCalls
    BY <1>11, CommunityAssumption DEF TypeOK, Moderate, Call
  <2>4. \A v \in Worker : pc'[v] \in {"update", "recount"} => state[at'[v]] # "absent"
    BY <2>1, <2>2, StartType DEF TypeOK, Active
  <2>. QED  BY <1>11, <2>1, <2>2, <2>3, <2>4, StartType DEF TypeOK, Moderate
<1>12. ASSUME NEW m \in Message, Receive(m) PROVE TypeOK'
  <2>1. Start("find", m) /\ m \in Task
    BY <1>12, Constants DEF Receive
  <2>2. network' \in [Message -> Nat]
    BY <1>12 DEF TypeOK, Receive
  <2>3. \A v \in Worker : pc'[v] \in {"update", "recount"} => state[at'[v]] # "absent"
    BY <2>1, StartType DEF TypeOK
  <2>. QED  BY <1>12, <2>1, <2>2, <2>3, StartType DEF TypeOK, Receive
<1>13. ASSUME NEW m \in Message, Lose(m) PROVE TypeOK'
  BY <1>13, CommunityAssumption DEF TypeOK, Lose
<1>14. ASSUME NEW w \in Worker, Fail(w) PROVE TypeOK'
  <2>1. Return(w) /\ UNCHANGED state
    BY <1>14 DEF Fail
  <2>2. lost' \in 0..MaxLost
    BY <1>14, CommunityAssumption DEF TypeOK, Fail
  <2>. QED  BY <1>14, <2>1, <2>2, <1>2, ReturnType DEF TypeOK, Fail
<1>15. ASSUME NEW w \in Worker, Find(w) PROVE TypeOK'
  <2>1. PICK l \in {"idle", "update", "recheck", "create"}, g \in Group :
          /\ Proceed(w, l, g)
          /\ l = "update" => state[g] # "absent"
    BY <1>15, Constants DEF Find, OnHit, OnMiss, Active
  <2>2. CASE l = "idle"
    BY <1>15, <2>1, <2>2, <1>2, ReturnType DEF TypeOK, Find, Proceed
  <2>3. CASE l # "idle"
    <3>1. Goto(w, l) /\ at' = [at EXCEPT ![w] = g]
      BY <2>1, <2>3 DEF Proceed
    <3>2. \A v \in Worker : pc'[v] \in {"update", "recount"} => state[at'[v]] # "absent"
      BY <3>1, <2>1 DEF TypeOK, Goto
    <3>3. at' \in [Worker -> Group]
      BY <3>1 DEF TypeOK
    <3>. QED  BY <1>15, <3>1, <3>2, <3>3, GotoType DEF TypeOK, Find
  <2>. QED  BY <2>2, <2>3
<1>16. ASSUME NEW w \in Worker, Create(w) PROVE TypeOK'
  <2>1. CASE Goto(w, "raced") /\ UNCHANGED <<docs, at>>
    <3>1. \A v \in Worker : pc'[v] \in {"update", "recount"} => state[at[v]] # "absent"
      BY <2>1 DEF TypeOK, Goto
    <3>. QED  BY <1>16, <2>1, <3>1, GotoType DEF TypeOK, Create
  <2>2. CASE ~ (Goto(w, "raced") /\ UNCHANGED <<docs, at>>)
    <3>. DEFINE g == CHOOSE h \in Group : state[h] = "absent"
    <3>1. /\ Return(w) /\ g \in Group
          /\ state' = [state EXCEPT ![g] = "active"]
          /\ members' = [members EXCEPT ![g] = {Owner}]
          /\ count' = [count EXCEPT ![g] = 1]
          /\ UNCHANGED <<banned, lms, network, unique, calls, lost, history>>
      BY <1>16, <2>2 DEF Create
    <3>. HIDE DEF g
    <3>2. /\ state' \in [Group -> {"absent", "active", "deleted"}]
          /\ members' \in [Group -> SUBSET User] /\ count' \in [Group -> Int]
      BY <3>1, CommunityAssumption DEF TypeOK
    <3>3. \A v \in Worker : pc'[v] \in {"update", "recount"} => state'[at'[v]] # "absent"
      BY <3>1, ReturnType DEF TypeOK
    <3>. QED  BY <3>1, <3>2, <3>3, ReturnType DEF TypeOK
  <2>. QED  BY <2>1, <2>2
<1>17. ASSUME NEW w \in Worker, Readmit(w) PROVE TypeOK'
  BY <1>17, <1>2, ReturnType, CommunityAssumption DEF TypeOK, Readmit
<1>18. ASSUME NEW w \in Worker, Retire(w) PROVE TypeOK'
  <2>1. state' \in [Group -> {"absent", "active", "deleted"}]
    BY <1>18 DEF TypeOK, Retire
  <2>2. \A v \in Worker : pc'[v] \in {"update", "recount"} => state'[at'[v]] # "absent"
    BY <1>18, ReturnType DEF TypeOK, Retire
  <2>. QED  BY <1>18, <2>1, <2>2, ReturnType DEF TypeOK, Retire
<1>19. ASSUME NEW w \in Worker, Join(w) PROVE TypeOK'
  <2>1. /\ members' \in [Group -> SUBSET User] /\ count' \in [Group -> Int]
    BY <1>19, TaskUser DEF TypeOK, Join
  <2>. QED  BY <1>19, <2>1, <1>2, ReturnType DEF TypeOK, Join
<1>20. ASSUME NEW w \in Worker, Leave(w) PROVE TypeOK'
  <2>1. /\ members' \in [Group -> SUBSET User] /\ count' \in [Group -> Int] /\ out' \subseteq User
    BY <1>20, TaskUser DEF TypeOK, Leave, TakeOut
  <2>. QED  BY <1>20, <2>1, <1>2, ReturnType DEF TypeOK, Leave
<1>21. ASSUME NEW w \in Worker, Ban(w) PROVE TypeOK'
  <2>1. /\ members' \in [Group -> SUBSET User] /\ banned' \in [Group -> SUBSET User]
        /\ out' \subseteq User /\ bans' \subseteq Group
    BY <1>21, TaskUser DEF TypeOK, Ban
  <2>2. \A v \in Worker : pc'[v] \in {"update", "recount"} => state[at[v]] # "absent"
    BY <1>21 DEF TypeOK, Ban, Update, Goto
  <2>. QED  BY <1>21, <2>1, <2>2, GotoType DEF TypeOK, Ban
<1>22. ASSUME NEW w \in Worker, Recount(w) PROVE TypeOK'
  <2>1. count' \in [Group -> Int]
    BY <1>22 DEF TypeOK, Recount
  <2>. QED  BY <1>22, <2>1, <1>2, ReturnType DEF TypeOK, Recount
<1>23. CASE UNCHANGED vars
  BY <1>23 DEF TypeOK, vars
<1>. QED
  BY <1>5, <1>6, <1>7, <1>8, <1>9, <1>10, <1>11, <1>12, <1>13, <1>14, <1>15, <1>16,
     <1>17, <1>18, <1>19, <1>20, <1>21, <1>22, <1>23 DEF Next, Client, Proceeding

\* Types, for every instance; a handler that updates a group has found one.
THEOREM CommunityTypeCorrect == Spec => []TypeOK
BY TypeInitially, TypeStep, PTL DEF Spec

-----------------------------------------------------------------------------
(* The owner *)

\* Only messages are looked up for, and nothing that takes a member out of a
\* group or bans one is about the owner.
OwnerSafe ==
  /\ \A w \in Worker : pc[w] \in {"find", "recheck", "create", "raced"} => task[w] \in Message
  /\ \A w \in Worker : /\ pc[w] \in {"update", "recount"}
                       /\ task[w].kind \in {"leave", "remove", "ban"}
                       => task[w].user # Owner
  /\ \A g \in Group : Owner \notin banned[g]
  /\ \A g \in Group : state[g] # "absent" => Owner \in members[g]

LEMMA OwnerInitially == Init => OwnerSafe
BY DEF Init, OwnerSafe

\* A step that starts and finishes no handler but in w, and changes no group.
LEMMA OwnerWork ==
  ASSUME TypeOK, OwnerSafe, NEW w \in Worker, UNCHANGED docs,
         pc'[w] \in {"find", "recheck", "create", "raced"} => task'[w] \in Message,
         pc'[w] \in {"update", "recount"} /\ task'[w].kind \in {"leave", "remove", "ban"}
           => task'[w].user # Owner,
         \A v \in Worker \ {w} : pc'[v] = pc[v] /\ task'[v] = task[v]
  PROVE  OwnerSafe'
BY DEF OwnerSafe

LEMMA OwnerReturn ==
  ASSUME TypeOK, OwnerSafe, NEW w \in Worker, Return(w),
         \A g \in Group : Owner \notin banned'[g],
         \A g \in Group : state'[g] # "absent" => Owner \in members'[g]
  PROVE  OwnerSafe'
BY ReturnType DEF OwnerSafe

LEMMA OwnerStart ==
  ASSUME TypeOK, OwnerSafe, UNCHANGED docs, NEW l \in {"find", "update"}, NEW t \in Task,
         Start(l, t), l = "find" => t \in Message, l = "update" => t.user # Owner
  PROVE  OwnerSafe'
<1>1. PICK w \in Worker :
        /\ pc'[w] = l /\ task'[w] = t
        /\ \A v \in Worker \ {w} : pc'[v] = pc[v] /\ task'[v] = task[v]
  BY StartType
<1>. QED  BY <1>1, OwnerWork

LEMMA OwnerStep == TypeOK /\ OwnerSafe /\ [Next]_vars => OwnerSafe'
<1>. SUFFICES ASSUME TypeOK, OwnerSafe, [Next]_vars PROVE OwnerSafe'
  OBVIOUS
<1>1. ASSUME UNCHANGED <<docs, work>> PROVE OwnerSafe'
  BY <1>1 DEF OwnerSafe
<1>2. CASE CreateCourse \/ DeleteCourse
  BY <1>2, <1>1 DEF CreateCourse, DeleteCourse
<1>3. ASSUME NEW u \in User, Enroll(u) \/ Cancel(u) PROVE OwnerSafe'
  BY <1>3, <1>1 DEF Enroll, Cancel
<1>4. ASSUME NEW u \in User, LeaveGroup(u) PROVE OwnerSafe'
  BY <1>4 DEF TypeOK, OwnerSafe, LeaveGroup, TakeOut, Active
<1>5. ASSUME NEW u \in User, Unban(u) PROVE OwnerSafe'
  BY <1>5 DEF TypeOK, OwnerSafe, Unban, Active
<1>6. ASSUME NEW u \in User, NEW kind \in {"remove", "ban"}, Moderate(kind, u) PROVE OwnerSafe'
  <2>1. About(kind, u) \in Task /\ About(kind, u).user # Owner
    BY <1>6 DEF Moderate, About, Task
  <2>. QED  BY <1>6, <2>1, OwnerStart DEF Moderate
<1>7. ASSUME NEW m \in Message, Receive(m) PROVE OwnerSafe'
  BY <1>7, Constants, OwnerStart DEF Receive
<1>8. ASSUME NEW m \in Message, Lose(m) PROVE OwnerSafe'
  BY <1>8, <1>1 DEF Lose
<1>9. ASSUME NEW w \in Worker, Fail(w) PROVE OwnerSafe'
  BY <1>9, OwnerReturn DEF Fail, OwnerSafe
<1>10. ASSUME NEW w \in Worker, Find(w) PROVE OwnerSafe'
  <2>1. task[w] \in Message /\ UNCHANGED docs
    BY <1>10 DEF OwnerSafe, Find
  <2>2. PICK l \in {"idle", "update", "recheck", "create"}, g \in Group :
          /\ Proceed(w, l, g)
          /\ l = "update" => task[w] # About("leave", Owner)
    BY <1>10, Constants DEF Find, OnHit, OnMiss, Active
  <2>3. CASE l = "idle"
    BY <2>1, <2>2, <2>3, OwnerReturn DEF Proceed, OwnerSafe
  <2>4. CASE l # "idle"
    <3>1. pc'[w] = l /\ task' = task /\ \A v \in Worker \ {w} : pc'[v] = pc[v]
      BY <2>2, <2>4 DEF TypeOK, Proceed, Goto
    <3>2. ASSUME l = "update", task[w].kind \in {"leave", "remove", "ban"}
          PROVE  task[w].user # Owner
      BY <2>1, <2>2, <3>2 DEF Message, About
    <3>. QED  BY <2>1, <3>1, <3>2, OwnerWork
  <2>. QED  BY <2>3, <2>4
<1>11. ASSUME NEW w \in Worker, Create(w) PROVE OwnerSafe'
  <2>1. CASE Goto(w, "raced") /\ UNCHANGED <<docs, at>>
    <3>1. pc'[w] = "raced" /\ task' = task /\ \A v \in Worker \ {w} : pc'[v] = pc[v]
      BY <2>1 DEF TypeOK, Goto
    <3>2. task[w] \in Message
      BY <1>11 DEF Create, OwnerSafe
    <3>. QED  BY <2>1, <3>1, <3>2, OwnerWork
  <2>2. CASE ~ (Goto(w, "raced") /\ UNCHANGED <<docs, at>>)
    <3>. DEFINE g == CHOOSE h \in Group : state[h] = "absent"
    <3>1. /\ Return(w) /\ g \in Group
          /\ state' = [state EXCEPT ![g] = "active"]
          /\ members' = [members EXCEPT ![g] = {Owner}]
          /\ UNCHANGED banned
      BY <1>11, <2>2 DEF Create
    <3>. HIDE DEF g
    <3>2. \A h \in Group : state'[h] # "absent" => Owner \in members'[h]
      BY <3>1 DEF TypeOK, OwnerSafe
    <3>. QED  BY <3>1, <3>2, OwnerReturn DEF OwnerSafe
  <2>. QED  BY <2>1, <2>2
<1>12. ASSUME NEW w \in Worker, Readmit(w) PROVE OwnerSafe'
  <2>1. \A g \in Group : state'[g] # "absent" => Owner \in members'[g]
    BY <1>12 DEF TypeOK, OwnerSafe, Readmit
  <2>. QED  BY <1>12, <2>1, OwnerReturn DEF Readmit, OwnerSafe
<1>13. ASSUME NEW w \in Worker, Retire(w) PROVE OwnerSafe'
  <2>1. state[at[w]] # "absent"
    BY <1>13 DEF TypeOK, Retire, Update
  <2>2. \A g \in Group : state'[g] # "absent" => Owner \in members'[g]
    BY <1>13, <2>1 DEF TypeOK, OwnerSafe, Retire
  <2>. QED  BY <1>13, <2>2, OwnerReturn DEF Retire, OwnerSafe
<1>14. ASSUME NEW w \in Worker, Join(w) PROVE OwnerSafe'
  <2>1. \A g \in Group : state'[g] # "absent" => Owner \in members'[g]
    BY <1>14 DEF TypeOK, OwnerSafe, Join
  <2>. QED  BY <1>14, <2>1, OwnerReturn DEF Join, OwnerSafe
<1>15. ASSUME NEW w \in Worker, Leave(w) PROVE OwnerSafe'
  <2>1. task[w].user # Owner
    BY <1>15 DEF Leave, Update, OwnerSafe
  <2>2. \A g \in Group : state'[g] # "absent" => Owner \in members'[g]
    BY <1>15, <2>1 DEF TypeOK, OwnerSafe, Leave, TakeOut
  <2>. QED  BY <1>15, <2>2, OwnerReturn DEF Leave, OwnerSafe
<1>16. ASSUME NEW w \in Worker, Ban(w) PROVE OwnerSafe'
  <2>1. task[w].user # Owner
    BY <1>16 DEF Ban, Update, OwnerSafe
  <2>2. \A g \in Group : state'[g] # "absent" => Owner \in members'[g]
    BY <1>16, <2>1 DEF TypeOK, OwnerSafe, Ban
  <2>3. \A g \in Group : Owner \notin banned'[g]
    BY <1>16, <2>1 DEF TypeOK, OwnerSafe, Ban
  <2>4. pc'[w] = "recount" /\ task' = task /\ \A v \in Worker \ {w} : pc'[v] = pc[v]
    BY <1>16 DEF TypeOK, Ban, Goto
  <2>. QED  BY <2>1, <2>2, <2>3, <2>4 DEF OwnerSafe
<1>17. ASSUME NEW w \in Worker, Recount(w) PROVE OwnerSafe'
  BY <1>17, OwnerReturn DEF Recount, OwnerSafe
<1>18. CASE UNCHANGED vars
  BY <1>18, <1>1 DEF vars
<1>. QED
  BY <1>2, <1>3, <1>4, <1>5, <1>6, <1>7, <1>8, <1>9, <1>10, <1>11, <1>12, <1>13, <1>14,
     <1>15, <1>16, <1>17, <1>18 DEF Next, Client, Proceeding

\* The instructor stays a member of every group of the course, whatever
\* messages about him or about others arrive, in any order.
THEOREM OwnerStaysMember == Spec => []OwnerIsMember
<1>1. TypeOK /\ OwnerSafe => OwnerIsMember
  BY DEF TypeOK, OwnerSafe, OwnerIsMember
<1>. QED
  BY TypeInitially, TypeStep, OwnerInitially, OwnerStep, <1>1, PTL DEF Spec

-----------------------------------------------------------------------------
(* The counter *)

\* The second update of a ban comes after the first.
Counted ==
  /\ \A w \in Worker : pc[w] = "recount" => at[w] \in bans
  /\ \A g \in Group \ bans : count[g] = Cardinality(members[g])

LEMMA CountedInitially == Init => Counted
<1>. SUFFICES ASSUME Init PROVE Counted
  OBVIOUS
<1>1. Cardinality({}) = 0
  BY FS_EmptySet
<1>. QED  BY <1>1 DEF Init, Counted

LEMMA MembersFinite ==
  ASSUME TypeOK, NEW g \in Group
  PROVE  IsFiniteSet(members[g]) /\ Cardinality(members[g]) \in Nat
<1>1. IsFiniteSet(members[g])
  BY CommunityAssumption, FS_Subset DEF TypeOK
<1>. QED  BY <1>1, FS_CardinalityType

LEMMA JoinCounts ==
  ASSUME TypeOK, Counted, NEW g \in Group, NEW u \in User,
         members' = [members EXCEPT ![g] = @ \cup {u}],
         count' = [count EXCEPT ![g] = IF u \notin members[g] THEN @ + 1 ELSE @],
         UNCHANGED bans
  PROVE  \A h \in Group \ bans' : count'[h] = Cardinality(members'[h])
<1>1. CASE u \in members[g]
  <2>1. members[g] \cup {u} = members[g]
    BY <1>1
  <2>2. members' = members /\ count' = count
    BY <1>1, <2>1 DEF TypeOK
  <2>. QED  BY <2>2 DEF Counted
<1>2. CASE u \notin members[g]
  <2>1. Cardinality(members[g] \cup {u}) = Cardinality(members[g]) + 1
    BY <1>2, MembersFinite, FS_AddElement
  <2>2. \A h \in Group : /\ members'[h] = IF h = g THEN members[g] \cup {u} ELSE members[h]
                         /\ count'[h] = IF h = g THEN count[g] + 1 ELSE count[h]
    BY <1>2 DEF TypeOK
  <2>. QED  BY <2>1, <2>2 DEF Counted
<1>. QED  BY <1>1, <1>2

LEMMA TakeOutCounts ==
  ASSUME TypeOK, Counted, NEW g \in Group, NEW u \in User, TakeOut(g, u), UNCHANGED bans
  PROVE  \A h \in Group \ bans' : count'[h] = Cardinality(members'[h])
<1>1. CASE u \notin members[g]
  <2>1. members[g] \ {u} = members[g]
    BY <1>1
  <2>2. members' = members /\ count' = count
    BY <1>1, <2>1 DEF TypeOK, TakeOut
  <2>. QED  BY <2>2 DEF Counted
<1>2. CASE u \in members[g]
  <2>1. Cardinality(members[g] \ {u}) = Cardinality(members[g]) - 1
    BY <1>2, MembersFinite, FS_RemoveElement
  <2>2. \A h \in Group : /\ members'[h] = IF h = g THEN members[g] \ {u} ELSE members[h]
                         /\ count'[h] = IF h = g THEN count[g] - 1 ELSE count[h]
    BY <1>2 DEF TypeOK, TakeOut
  <2>. QED  BY <2>1, <2>2 DEF Counted
<1>. QED  BY <1>1, <1>2

LEMMA CountedReturn ==
  ASSUME TypeOK, Counted, NEW w \in Worker, Return(w), UNCHANGED bans,
         \A g \in Group \ bans' : count'[g] = Cardinality(members'[g])
  PROVE  Counted'
BY ReturnType DEF Counted

LEMMA CountedStart ==
  ASSUME TypeOK, Counted, UNCHANGED <<docs, bans>>,
         NEW l \in {"find", "update"}, NEW t \in Task, Start(l, t)
  PROVE  Counted'
<1>1. PICK w \in Worker :
        /\ pc'[w] = l
        /\ \A v \in Worker \ {w} : pc'[v] = pc[v] /\ at'[v] = at[v]
  BY StartType
<1>. QED  BY <1>1 DEF Counted

LEMMA CountedStep == TypeOK /\ OwnerSafe /\ Counted /\ [Next]_vars => Counted'
<1>. SUFFICES ASSUME TypeOK, OwnerSafe, Counted, [Next]_vars PROVE Counted'
  OBVIOUS
<1>1. ASSUME UNCHANGED <<docs, work, bans>> PROVE Counted'
  BY <1>1 DEF Counted
<1>2. CASE CreateCourse \/ DeleteCourse
  BY <1>2, <1>1 DEF CreateCourse, DeleteCourse
<1>3. ASSUME NEW u \in User, Enroll(u) \/ Cancel(u) PROVE Counted'
  BY <1>3, <1>1 DEF Enroll, Cancel
<1>4. ASSUME NEW u \in User, LeaveGroup(u) PROVE Counted'
  <2>1. PICK g \in Group : TakeOut(g, u)
    BY <1>4 DEF LeaveGroup, Active
  <2>. QED  BY <1>4, <2>1, TakeOutCounts DEF LeaveGroup, Counted
<1>5. ASSUME NEW u \in User, Unban(u) PROVE Counted'
  BY <1>5 DEF Counted, Unban
<1>6. ASSUME NEW u \in User, NEW kind \in {"remove", "ban"}, Moderate(kind, u) PROVE Counted'
  <2>1. About(kind, u) \in Task
    BY DEF About, Task
  <2>. QED  BY <1>6, <2>1, CountedStart DEF Moderate
<1>7. ASSUME NEW m \in Message, Receive(m) PROVE Counted'
  BY <1>7, Constants, CountedStart DEF Receive
<1>8. ASSUME NEW m \in Message, Lose(m) PROVE Counted'
  BY <1>8, <1>1 DEF Lose
<1>9. ASSUME NEW w \in Worker, Fail(w) PROVE Counted'
  BY <1>9, CountedReturn DEF Fail, Counted
<1>10. ASSUME NEW w \in Worker, Find(w) PROVE Counted'
  <2>1. PICK l \in {"idle", "update", "recheck", "create"}, g \in Group : Proceed(w, l, g)
    BY <1>10, Constants DEF Find, OnHit, OnMiss, Active
  <2>2. CASE l = "idle"
    BY <1>10, <2>1, <2>2, CountedReturn DEF Find, Proceed, Counted
  <2>3. CASE l # "idle"
    <3>1. /\ pc'[w] # "recount"
          /\ \A v \in Worker \ {w} : pc'[v] = pc[v] /\ at'[v] = at[v]
      BY <2>1, <2>3 DEF TypeOK, Proceed, Goto
    <3>. QED  BY <1>10, <3>1 DEF Find, Counted
  <2>. QED  BY <2>2, <2>3
<1>11. ASSUME NEW w \in Worker, Create(w) PROVE Counted'
  <2>1. CASE Goto(w, "raced") /\ UNCHANGED <<docs, at>>
    BY <1>11, <2>1 DEF TypeOK, Create, Goto, Counted
  <2>2. CASE ~ (Goto(w, "raced") /\ UNCHANGED <<docs, at>>)
    <3>. DEFINE g == CHOOSE h \in Group : state[h] = "absent"
    <3>1. /\ Return(w) /\ g \in Group /\ UNCHANGED bans
          /\ members' = [members EXCEPT ![g] = {Owner}]
          /\ count' = [count EXCEPT ![g] = 1]
      BY <1>11, <2>2 DEF Create
    <3>. HIDE DEF g
    <3>2. Cardinality({Owner}) = 1
      BY FS_Singleton
    <3>3. \A h \in Group \ bans' : count'[h] = Cardinality(members'[h])
      BY <3>1, <3>2 DEF TypeOK, Counted
    <3>. QED  BY <3>1, <3>3, CountedReturn
  <2>. QED  BY <2>1, <2>2
<1>12. ASSUME NEW w \in Worker, Readmit(w) PROVE Counted'
  <2>1. Owner \in members[at[w]]
    BY <1>12 DEF TypeOK, OwnerSafe, Readmit, Update
  <2>2. members[at[w]] \cup {Owner} = members[at[w]]
    BY <2>1
  <2>3. members' = members
    BY <1>12, <2>2 DEF TypeOK, Readmit
  <2>. QED  BY <1>12, <2>3, CountedReturn DEF Readmit, Counted
<1>13. ASSUME NEW w \in Worker, Retire(w) PROVE Counted'
  BY <1>13, CountedReturn DEF Retire, Counted
<1>14. ASSUME NEW w \in Worker, Join(w) PROVE Counted'
  <2>1. task[w].user \in User /\ at[w] \in Group
    BY TaskUser DEF TypeOK
  <2>. QED  BY <1>14, <2>1, JoinCounts, CountedReturn DEF Join
<1>15. ASSUME NEW w \in Worker, Leave(w) PROVE Counted'
  <2>1. task[w].user \in User /\ at[w] \in Group
    BY TaskUser DEF TypeOK
  <2>. QED  BY <1>15, <2>1, TakeOutCounts, CountedReturn DEF Leave
<1>16. ASSUME NEW w \in Worker, Ban(w) PROVE Counted'
  <2>1. /\ \A v \in Worker \ {w} : pc'[v] = pc[v]
        /\ at' = at /\ count' = count /\ bans' = bans \cup {at[w]}
        /\ \A g \in Group \ {at[w]} : members'[g] = members[g]
    BY <1>16 DEF TypeOK, Ban, Goto
  <2>. QED  BY <2>1 DEF Counted
<1>17. ASSUME NEW w \in Worker, Recount(w) PROVE Counted'
  <2>1. at[w] \in bans /\ UNCHANGED <<members, bans>>
    BY <1>17 DEF Recount, Counted
  <2>2. \A g \in Group \ {at[w]} : count'[g] = count[g]
    BY <1>17 DEF TypeOK, Recount
  <2>. QED  BY <1>17, <2>1, <2>2, CountedReturn DEF Recount, Counted
<1>18. CASE UNCHANGED vars
  BY <1>18, <1>1 DEF vars
<1>. QED
  BY <1>2, <1>3, <1>4, <1>5, <1>6, <1>7, <1>8, <1>9, <1>10, <1>11, <1>12, <1>13, <1>14,
     <1>15, <1>16, <1>17, <1>18 DEF Next, Client, Proceeding

\* In a group where nobody was ever banned membersCount is the number of
\* members, however messages are lost, doubled, reordered or interleaved.
THEOREM CounterIsRight == Spec => []CountMatches
<1>1. Counted => CountMatches
  BY DEF Counted, CountMatches
<1>. QED
  BY TypeInitially, TypeStep, OwnerInitially, OwnerStep, CountedInitially, CountedStep,
     <1>1, PTL DEF Spec

=============================================================================
