-------------------------- MODULE CourseCommunity --------------------------
(***************************************************************************)
(* The community group of one course: how the app microservice keeps its   *)
(* members in step with the enrollments of the lms microservice            *)
(* (services/app/src/Community/social, services/lms/src/course).           *)
(*                                                                         *)
(* Each change of the course or of an enrollment reaches the app twice:    *)
(* as a NATS event of the lms, which nobody acknowledges, and as a call of *)
(* the API gateway after the lms has answered (a cancellation only as an   *)
(* event).  Messages arrive in any order, may be lost, and are handled     *)
(* concurrently; a handler looks the group up and then updates it, and     *)
(* only each database operation is atomic.  A course group is PRIVATE:     *)
(* joinGroup refuses everybody, so enrolling is the only way in.           *)
(***************************************************************************)
EXTENDS Integers, FiniteSets

CONSTANTS
  User, Owner,  \* Owner is the instructor, who owns course and group
  Group,        \* documents of the group collection
  Worker,       \* bound: messages handled at a time
  MaxCalls,     \* bound: calls of students and moderators
  MaxLost       \* bound: messages lost, crashes of a handler included

ASSUME CommunityAssumption ==
  /\ Owner \in User /\ IsFiniteSet(User) /\ Group # {}
  /\ MaxCalls \in Nat /\ MaxLost \in Nat

VARIABLES
  course,      \* "none", then "live", then "deleted"
  enrollment,  \* enrollment of a user: "none" when there is no row
  state,       \* of a group document: "absent", "active" or "deleted"
  members,
  banned,      \* bannedMembers
  count,       \* membersCount
  network,     \* how many copies of a message are on their way
  pc, task, at,  \* of a worker: next operation, message and group
  unique,      \* the index unique_course_group exists
  calls, lost, \* how much of the bounds is used up
  out,         \* history: users told to leave, or enrolled before there was a group
  bans         \* history: groups in which somebody was banned

docs == <<state, members, banned, count>>
lms == <<course, enrollment>>
work == <<pc, task, at>>
history == <<out, bans>>
vars == <<lms, docs, network, work, unique, calls, lost, history>>

About(kind, u) == [kind |-> kind, user |-> u]
Message ==
  {About("ensure", Owner), About("delete", Owner)} \cup [kind : {"join", "leave"}, user : User]
Task == Message \cup [kind : {"remove", "ban"}, user : User]
NoTask == About("ensure", Owner)
NoGroup == CHOOSE g \in Group : TRUE

Active == {g \in Group : state[g] = "active"}

\* Definitions whose name ends in Bug are what the definition after them
\* would be with a plausible mistake in the code; no specification uses them.

-----------------------------------------------------------------------------
\* MongoDB builds no index that is both sparse and partial, as the schema asks;
\* an index an operator has built is respected.
Init ==
  /\ course = "none"
  /\ enrollment = [u \in User |-> "none"]
  /\ state = [g \in Group |-> "absent"]
  /\ members = [g \in Group |-> {}]
  /\ banned = [g \in Group |-> {}]
  /\ count = [g \in Group |-> 0]
  /\ network = [m \in Message |-> 0]
  /\ pc = [w \in Worker |-> "idle"]
  /\ task = [w \in Worker |-> NoTask]
  /\ at = [w \in Worker |-> NoGroup]
  /\ unique \in BOOLEAN
  /\ calls = 0 /\ lost = 0 /\ out = {} /\ bans = {}

-----------------------------------------------------------------------------
(* The lms and the gateway *)

Send(m, copies) == network' = [network EXCEPT ![m] = @ + copies]

Call == calls < MaxCalls /\ calls' = calls + 1

CreateCourse_EventOnlyBug ==
  /\ course = "none" /\ course' = "live"
  /\ Send(About("ensure", Owner), 1)
  /\ UNCHANGED <<enrollment, docs, work, unique, calls, lost, history>>

\* createCourse: the event, and the gateway's call.
CreateCourse ==
  /\ course = "none" /\ course' = "live"
  /\ Send(About("ensure", Owner), 2)
  /\ UNCHANGED <<enrollment, docs, work, unique, calls, lost, history>>

\* deleteCourse: the enrollments go with the course.
DeleteCourse ==
  /\ course = "live" /\ course' = "deleted"
  /\ enrollment' = [u \in User |-> "none"]
  /\ Send(About("delete", Owner), 2)
  /\ UNCHANGED <<docs, work, unique, calls, lost, history>>

Enroll_EventOnlyBug(u) ==
  /\ Call /\ course = "live"
  /\ enrollment' = [enrollment EXCEPT ![u] = IF @ = "none" THEN "ACTIVE" ELSE @]
  /\ Send(About("join", u), IF enrollment[u] = "none" THEN 1 ELSE 0)
  /\ out' = IF Active = {} THEN out \cup {u} ELSE out
  /\ UNCHANGED <<course, docs, work, unique, lost, bans>>

\* enrollCourse: a row that exists is answered as it is, whatever its status;
\* a new one is announced.  The gateway calls joinMember after either answer.
Enroll(u) ==
  /\ Call /\ course = "live"
  /\ enrollment' = [enrollment EXCEPT ![u] = IF @ = "none" THEN "ACTIVE" ELSE @]
  /\ Send(About("join", u), IF enrollment[u] = "none" THEN 2 ELSE 1)
  /\ out' = IF Active = {} THEN out \cup {u} ELSE out
  /\ UNCHANGED <<course, docs, work, unique, lost, bans>>

\* cancelEnrollment: announced also when there is nothing to cancel.
Cancel(u) ==
  /\ Call /\ course # "none"
  /\ enrollment' = [enrollment EXCEPT ![u] = IF @ = "ACTIVE" THEN "CANCELED" ELSE @]
  /\ Send(About("leave", u), 1)
  /\ out' = out \cup {u}
  /\ UNCHANGED <<course, docs, work, unique, lost, bans>>

-----------------------------------------------------------------------------
(* The network, and the handlers of the app *)

Busy(w) == pc[w] # "idle"

Goto(w, l) == pc' = [pc EXCEPT ![w] = l] /\ UNCHANGED task

Return(w) ==
  /\ pc' = [pc EXCEPT ![w] = "idle"]
  /\ task' = [task EXCEPT ![w] = NoTask]
  /\ at' = [at EXCEPT ![w] = NoGroup]

\* Workers are alike, and so are documents: the first free one is taken.
Start(l, t) ==
  /\ \E w \in Worker : ~ Busy(w)
  /\ LET w == CHOOSE v \in Worker : ~ Busy(v) IN
     /\ pc' = [pc EXCEPT ![w] = l]
     /\ task' = [task EXCEPT ![w] = t]
     /\ IF l = "find" THEN at' = at ELSE \E g \in Active : at' = [at EXCEPT ![w] = g]

Receive(m) ==
  /\ network[m] > 0 /\ Start("find", m)
  /\ network' = [network EXCEPT ![m] = @ - 1]
  /\ UNCHANGED <<lms, docs, unique, calls, lost, history>>

Lose(m) ==
  /\ lost < MaxLost /\ lost' = lost + 1
  /\ network[m] > 0
  /\ network' = [network EXCEPT ![m] = @ - 1]
  /\ UNCHANGED <<lms, docs, work, unique, calls, history>>

\* The instance stops, or a database operation throws: the error is logged.
Fail(w) ==
  /\ lost < MaxLost /\ lost' = lost + 1
  /\ Busy(w) /\ Return(w)
  /\ UNCHANGED <<lms, docs, network, unique, calls, history>>

-----------------------------------------------------------------------------
(* SocialHubService *)

OnHit_OwnerLeavesBug(w) == "update"

\* leaveCourseGroup returns when the user owns the group.
OnHit(w) == IF task[w] = About("leave", Owner) THEN "idle" ELSE "update"

\* ensureCourseGroup looks twice before it creates a group; the others return.
OnMiss(w) ==
  IF task[w].kind # "ensure" \/ pc[w] = "raced" THEN "idle"
  ELSE IF pc[w] = "find" THEN "recheck" ELSE "create"

Proceed(w, l, g) ==
  IF l = "idle" THEN Return(w) ELSE Goto(w, l) /\ at' = [at EXCEPT ![w] = g]

Find_NoGroupBug(w) ==
  /\ pc[w] \in {"find", "recheck", "raced"}
  /\ \E g \in IF Active = {} THEN Group ELSE Active : Proceed(w, OnHit(w), g)
  /\ UNCHANGED <<lms, docs, network, unique, calls, lost, history>>

\* findOne of an active group of the course; of several, any.
Find(w) ==
  /\ pc[w] \in {"find", "recheck", "raced"}
  /\ \/ \E g \in Active : Proceed(w, OnHit(w), g)
     \/ Active = {} /\ Proceed(w, OnMiss(w), NoGroup)
  /\ UNCHANGED <<lms, docs, network, unique, calls, lost, history>>

\* The index does not look at isDeleted.
Create(w) ==
  /\ pc[w] = "create"
  /\ \/ /\ unique /\ \E g \in Group : state[g] # "absent"
        /\ Goto(w, "raced")
        /\ UNCHANGED <<docs, at>>
     \/ /\ unique => \A g \in Group : state[g] = "absent"
        /\ \E g \in Group : state[g] = "absent"
        /\ LET g == CHOOSE h \in Group : state[h] = "absent" IN
           /\ state' = [state EXCEPT ![g] = "active"]
           /\ members' = [members EXCEPT ![g] = {Owner}]
           /\ count' = [count EXCEPT ![g] = 1]
        /\ Return(w)
        /\ UNCHANGED banned
  /\ UNCHANGED <<lms, network, unique, calls, lost, history>>

Update(w, kind) == pc[w] = "update" /\ task[w].kind = kind

\* $addToSet of the owner, without $inc.
Readmit(w) ==
  /\ Update(w, "ensure") /\ Return(w)
  /\ members' = [members EXCEPT ![at[w]] = @ \cup {Owner}]
  /\ UNCHANGED <<lms, state, banned, count, network, unique, calls, lost, history>>

Retire(w) ==
  /\ Update(w, "delete") /\ Return(w)
  /\ state' = [state EXCEPT ![at[w]] = "deleted"]
  /\ UNCHANGED <<lms, members, banned, count, network, unique, calls, lost, history>>

Join_CountTwiceBug(w) ==
  LET u == task[w].user IN
  /\ Update(w, "join") /\ Return(w)
  /\ members' = [members EXCEPT ![at[w]] = @ \cup {u}]
  /\ count' = [count EXCEPT ![at[w]] = @ + 1]
  /\ UNCHANGED <<lms, state, banned, network, unique, calls, lost, history>>

\* joinCourseGroup: one conditional update.
Join(w) ==
  LET u == task[w].user
      new == u \notin members[at[w]]
  IN
  /\ Update(w, "join") /\ Return(w)
  /\ members' = [members EXCEPT ![at[w]] = @ \cup {u}]
  /\ count' = [count EXCEPT ![at[w]] = IF new THEN @ + 1 ELSE @]
  /\ UNCHANGED <<lms, state, banned, network, unique, calls, lost, history>>

TakeOut(g, u) ==
  /\ members' = [members EXCEPT ![g] = @ \ {u}]
  /\ count' = [count EXCEPT ![g] = IF u \in members[g] THEN @ - 1 ELSE @]
  /\ out' = out \cup {u}

\* leaveCourseGroup and removeMember: one conditional update.
Leave(w) ==
  /\ Update(w, "leave") \/ Update(w, "remove")
  /\ Return(w)
  /\ TakeOut(at[w], task[w].user)
  /\ UNCHANGED <<lms, state, banned, network, unique, calls, lost, bans>>

\* leaveGroup: the filter does what the other two check first.
LeaveGroup(u) ==
  /\ Call /\ u # Owner
  /\ \E g \in Active : u \in members[g] /\ TakeOut(g, u)
  /\ UNCHANGED <<lms, state, banned, network, work, unique, lost, bans>>

\* A call of a moderator that has passed assertCanModerate.
Moderate(kind, u) ==
  /\ Call /\ u # Owner
  /\ Start("update", About(kind, u))
  /\ UNCHANGED <<lms, docs, network, unique, lost, history>>

\* banMember: two updates; the second asks for the ban, not for membership.
Ban(w) ==
  LET u == task[w].user IN
  /\ Update(w, "ban") /\ Goto(w, "recount")
  /\ members' = [members EXCEPT ![at[w]] = @ \ {u}]
  /\ banned' = [banned EXCEPT ![at[w]] = @ \cup {u}]
  /\ out' = out \cup {u} /\ bans' = bans \cup {at[w]}
  /\ UNCHANGED <<lms, state, count, network, at, unique, calls, lost>>

Recount(w) ==
  /\ pc[w] = "recount" /\ Return(w)
  /\ count' = IF task[w].user \in banned[at[w]] THEN [count EXCEPT ![at[w]] = @ - 1] ELSE count
  /\ UNCHANGED <<lms, state, members, banned, network, unique, calls, lost, history>>

Unban(u) ==
  /\ Call
  /\ \E g \in Active : u \in banned[g] /\ banned' = [banned EXCEPT ![g] = @ \ {u}]
  /\ UNCHANGED <<lms, state, members, count, network, work, unique, lost, history>>

-----------------------------------------------------------------------------
Client ==
  \/ CreateCourse \/ DeleteCourse
  \/ \E u \in User : Enroll(u) \/ Cancel(u) \/ LeaveGroup(u) \/ Unban(u)
  \/ \E u \in User : Moderate("remove", u) \/ Moderate("ban", u)

Proceeding(w) ==
  \/ Find(w) \/ Create(w) \/ Readmit(w) \/ Retire(w)
  \/ Join(w) \/ Leave(w) \/ Ban(w) \/ Recount(w)

Next ==
  \/ Client
  \/ \E m \in Message : Receive(m) \/ Lose(m)
  \/ \E w \in Worker : Proceeding(w) \/ Fail(w)

Spec == Init /\ [][Next]_vars

\* The broker delivers what is not lost and a handler goes on; clients may stop.
Fairness ==
  /\ \A m \in Message : WF_vars(Receive(m))
  /\ \A w \in Worker : WF_vars(Proceeding(w))

FairSpec == Spec /\ Fairness

-----------------------------------------------------------------------------
\* Types; and a handler that updates a group has one to update.
TypeOK ==
  /\ course \in {"none", "live", "deleted"}
  /\ enrollment \in [User -> {"none", "ACTIVE", "CANCELED"}]
  /\ state \in [Group -> {"absent", "active", "deleted"}]
  /\ members \in [Group -> SUBSET User] /\ banned \in [Group -> SUBSET User]
  /\ count \in [Group -> Int]
  /\ network \in [Message -> Nat]
  /\ pc \in [Worker -> {"idle", "find", "recheck", "create", "raced", "update", "recount"}]
  /\ task \in [Worker -> Task] /\ at \in [Worker -> Group]
  /\ \A w \in Worker : pc[w] \in {"update", "recount"} => state[at[w]] # "absent"
  /\ unique \in BOOLEAN /\ calls \in 0..MaxCalls /\ lost \in 0..MaxLost
  /\ out \subseteq User /\ bans \subseteq Group

\* The instructor is a member of every group of the course, whatever calls
\* arrive about him: he may enroll in his own course and cancel again.
OwnerIsMember ==
  \A g \in Group : state[g] # "absent" => Owner \in members[g] \ banned[g]

\* membersCount is the number of members, whatever messages are lost, doubled
\* or handled at the same time, in a group where nobody was ever banned.
CountMatches ==
  \A g \in Group \ bans : count[g] = Cardinality(members[g])

\* A course gets its group although one of the two messages may be lost.
CourseGetsGroup ==
  course = "live" ~> Active # {} \/ course = "deleted"

\* A student who enrolls when there is a group becomes a member although one
\* of the two messages may be lost, unless something takes the student out.
EnrolledBecomeMembers ==
  \A u \in User :
    enrollment[u] = "ACTIVE" ~>
      course = "deleted" \/ u \in out \/ \E g \in Active : u \in members[g]

\* What the schema says of a course group: membership is controlled by
\* enrollment.  Violated: enrolling again after a cancellation is answered
\* with the canceled row, and the gateway lets the student join again; and a
\* leave that overtakes a join is forgotten.
MembersAreEnrolled ==
  (\A m \in Message : network[m] = 0) /\ (\A w \in Worker : ~ Busy(w)) /\ lost = 0 =>
     \A g \in Active : course = "live" => \A u \in members[g] \ {Owner} : enrollment[u] = "ACTIVE"

=============================================================================
