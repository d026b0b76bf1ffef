------------------------ MODULE CourseProgressProofs ------------------------
(***************************************************************************)
(* Theorems about CourseProgress, for any number of students, lessons,     *)
(* chapters, sheets and overlapping requests, and any edits of the course. *)
(***************************************************************************)
EXTENDS CourseProgress, FiniteSetTheorems, TLAPS

USE DEF rows, course, history

-----------------------------------------------------------------------------
(* Arithmetic of percentages *)

LEMMA RoundPercentType ==
  ASSUME NEW part \in Nat, NEW whole \in Nat, whole # 0
  PROVE  RoundPercent(part, whole) \in Nat
<1>1. 200 * part + whole \in Nat /\ 2 * whole \in Nat /\ 2 * whole > 0
  OBVIOUS
<1>2. \A a, b \in Nat : b > 0 => a \div b \in Nat
  OBVIOUS
<1>. QED  BY <1>1, <1>2 DEF RoundPercent

LEMMA WatchedPercentageType ==
  ASSUME NEW end \in Nat, NEW duration \in Nat, duration # 0
  PROVE  WatchedPercentage(end, duration) \in 0..100
<1>1. RoundPercent(end, duration) \in Nat
  BY RoundPercentType
<1>. QED  BY <1>1 DEF WatchedPercentage, Least

LEMMA AppendWatchType ==
  ASSUME NEW end \in Nat, NEW at \in Nat, NEW duration \in Nat
  PROVE  AppendWatch(end, at, duration) \in Nat
BY CourseAssumption DEF AppendWatch, Least, Greatest

LEMMA LessonsFinite ==
  ASSUME TypeOK, NEW s \in Student
  PROVE  /\ IsFiniteSet(lessons) /\ Cardinality(lessons) \in Nat
         /\ IsFiniteSet(done[s]) /\ Cardinality(done[s]) \in Nat
         /\ lessons # {} => Cardinality(lessons) # 0
<1>1. lessons \subseteq Lesson /\ done[s] \subseteq Lesson
  BY DEF TypeOK
<1>2. IsFiniteSet(lessons) /\ IsFiniteSet(done[s])
  BY <1>1, FS_Subset, CourseAssumption
<1>. QED  BY <1>2, FS_CardinalityType, FS_EmptySet

LEMMA PercentageType ==
  ASSUME TypeOK, NEW s \in Student
  PROVE  Percentage(s) \in Nat
BY LessonsFinite, RoundPercentType DEF Percentage

-----------------------------------------------------------------------------
(* Types *)

\* Updating one cell of a table of tables keeps it one.
LEMMA CellType ==
  ASSUME NEW A, NEW B, NEW V, NEW f \in [A -> [B -> V]], NEW a \in A, NEW b \in B,
         NEW v \in V
  PROVE  [f EXCEPT ![a][b] = v] \in [A -> [B -> V]]
OBVIOUS

LEMMA CellValue ==
  ASSUME NEW A, NEW B, NEW V, NEW f \in [A -> [B -> V]], NEW a \in A, NEW b \in B,
         NEW v \in V, NEW x \in A, NEW y \in B
  PROVE  [f EXCEPT ![a][b] = v][x][y] = IF x = a /\ y = b THEN v ELSE f[x][y]
OBVIOUS

\* A slot that was used holds a call, a heartbeat that gets far has a duration.
Called ==
  \A r \in Request :
    /\ pc[r] # "new" => job[r] \in Jobs
    /\ pc[r] \in {"read", "append"} => job[r].duration # 0

Typed == TypeOK /\ Called

LEMMA CallType ==
  ASSUME Typed, NEW r \in Request, pc[r] # "new"
  PROVE  /\ S(r) \in Student /\ L(r) \in Lesson
         /\ job[r].at \in Nat /\ job[r].duration \in Nat
         /\ job[r].op \in Op
BY CourseAssumption DEF Typed, Called, S, L

LEMMA GotoType ==
  ASSUME TypeOK, NEW r \in Request, NEW l \in Location, Goto(r, l)
  PROVE  pc' \in [Request -> Location]
BY DEF TypeOK, Goto

LEMMA TypeInitially == Init => Typed
<1>. SUFFICES ASSUME Init PROVE Typed
  OBVIOUS
<1>1. /\ watched \in [Student -> [Lesson -> Nat]] /\ beats \in [Student -> [Lesson -> Nat]]
      /\ shown \in [Student -> [Lesson -> 0..100]] /\ peak \in [Student -> [Lesson -> 0..100]]
  BY DEF Init
<1>2. /\ status \in [Student -> EnrollmentStatus] /\ percent \in [Student -> Nat]
      /\ done \in [Student -> SUBSET Lesson] /\ everDone \in [Student -> SUBSET Lesson]
      /\ solved \in [Student -> SUBSET Sheet] /\ everSolved \in [Student -> SUBSET Sheet]
  BY DEF Init, EnrollmentStatus
<1>3. /\ pc \in [Request -> Location] /\ seen \in [Request -> Nat]
      /\ job \in [Request -> Jobs \cup {NoJob}]
  BY DEF Init, Location
<1>. QED  BY <1>1, <1>2, <1>3, CourseAssumption DEF Init, Typed, Called, TypeOK

LEMMA TypeSetDone ==
  ASSUME TypeOK, NEW r \in Request, S(r) \in Student, NEW D \in SUBSET Lesson, SetDone(r, D)
  PROVE  /\ done' \in [Student -> SUBSET Lesson]
         /\ everDone' \in [Student -> SUBSET Lesson]
         /\ stale' \subseteq Student
BY DEF TypeOK, SetDone

\* What a heartbeat writes: the end of the segment, the percentage, and the
\* highest percentage and the number of heartbeats so far.
Beat(r, end, percentage, peaked, counted) ==
  /\ S(r) \in Student /\ L(r) \in Lesson
  /\ end = AppendWatch(seen[r], job[r].at, job[r].duration)
  /\ peaked = Greatest(peak[S(r)][L(r)], percentage)
  /\ counted = Least(beats[S(r)][L(r)] + 1, MaxBeats)
  /\ watched' = [watched EXCEPT ![S(r)][L(r)] = end]
  /\ shown' = [shown EXCEPT ![S(r)][L(r)] = percentage]
  /\ peak' = [peak EXCEPT ![S(r)][L(r)] = peaked]
  /\ beats' = [beats EXCEPT ![S(r)][L(r)] = counted]
  /\ seen' = [seen EXCEPT ![r] = percentage]

LEMMA HeartbeatWrites ==
  ASSUME Typed, NEW r \in Request, WriteWatch(r)
  PROVE  \E end \in Nat, percentage \in 0..100, peaked \in 0..100, counted \in Nat :
           Beat(r, end, percentage, peaked, counted)
<1>. USE DEF Typed
<1>. DEFINE end == AppendWatch(seen[r], job[r].at, job[r].duration)
            percentage == WatchedPercentage(end, job[r].duration)
            peaked == Greatest(peak[S(r)][L(r)], percentage)
            counted == Least(beats[S(r)][L(r)] + 1, MaxBeats)
<1>1. /\ S(r) \in Student /\ L(r) \in Lesson /\ seen[r] \in Nat
      /\ job[r].at \in Nat /\ job[r].duration \in Nat /\ job[r].duration # 0
  BY CallType DEF WriteWatch, TypeOK, Called
<1>2. end \in Nat
  BY <1>1, AppendWatchType
<1>3. percentage \in 0..100
  BY <1>1, <1>2, WatchedPercentageType
<1>4. peaked \in 0..100
  BY <1>1, <1>3 DEF TypeOK, Greatest
<1>5. counted \in Nat
  <2>1. beats[S(r)][L(r)] \in Nat
    BY <1>1 DEF TypeOK
  <2>. QED  BY <2>1, CourseAssumption DEF Least
<1>6. /\ watched' = [watched EXCEPT ![S(r)][L(r)] = end]
      /\ shown' = [shown EXCEPT ![S(r)][L(r)] = percentage]
      /\ peak' = [peak EXCEPT ![S(r)][L(r)] = peaked]
      /\ beats' = [beats EXCEPT ![S(r)][L(r)] = counted]
      /\ seen' = [seen EXCEPT ![r] = percentage]
  BY DEF WriteWatch
<1>7. /\ end = AppendWatch(seen[r], job[r].at, job[r].duration)
      /\ peaked = Greatest(peak[S(r)][L(r)], percentage)
      /\ counted = Least(beats[S(r)][L(r)] + 1, MaxBeats)
  OBVIOUS
<1>. HIDE DEF end, percentage, peaked, counted
<1>8. Beat(r, end, percentage, peaked, counted)
  BY <1>1, <1>6, <1>7 DEF Beat
<1>. QED  BY <1>2, <1>3, <1>4, <1>5, <1>8

\* Each step of a request keeps the types.
LEMMA TypeProceed ==
  ASSUME Typed, NEW r \in Request, Proceed(r)
  PROVE  TypeOK'
<1>. USE DEF Typed
<1>1. CASE FindEnrollment(r)
  BY <1>1 DEF FindEnrollment, TypeOK, Goto, Location, Ended
<1>2. CASE CreateEnrollment(r)
  <2>1. S(r) \in Student
    BY <1>2, CallType DEF CreateEnrollment
  <2>. QED  BY <1>2, <2>1 DEF CreateEnrollment, TypeOK, Goto, Location, Ended, EnrollmentStatus
<1>3. CASE CancelEnrollment(r)
  <2>1. S(r) \in Student
    BY <1>3, CallType DEF CancelEnrollment
  <2>. QED  BY <1>3, <2>1 DEF CancelEnrollment, TypeOK, Goto, Location, Ended, EnrollmentStatus
<1>4. CASE CheckEnrolled(r)
  BY <1>4 DEF CheckEnrolled, TypeOK, Goto, Location, Ended
<1>5. CASE CheckAccess(r)
  BY <1>5 DEF CheckAccess, TypeOK, Goto, Location, Ended
<1>6. CASE CheckUnlocked(r)
  BY <1>6 DEF CheckUnlocked, TypeOK, Goto, Location, Ended
<1>7. CASE FindLesson(r)
  <2>1. AfterFind(r) \in Location
    BY DEF AfterFind, Location, Ended
  <2>2. pc' \in [Request -> Location]
    BY <1>7, <2>1, GotoType DEF FindLesson, Location, Ended
  <2>. QED  BY <1>7, <2>2 DEF FindLesson, TypeOK
<1>8. CASE ReadPercentage(r)
  <2>1. S(r) \in Student /\ L(r) \in Lesson
    BY <1>8, CallType DEF ReadPercentage
  <2>2. shown[S(r)][L(r)] \in 0..100
    BY <2>1 DEF TypeOK
  <2>3. shown[S(r)][L(r)] \in Nat
    BY <2>2
  <2>. QED  BY <1>8, <2>3 DEF ReadPercentage, TypeOK, Goto, Location
<1>9. CASE Judge(r)
  BY <1>9 DEF Judge, TypeOK, Goto, Location, Ended
<1>10. CASE Write(r)
  <2>1. S(r) \in Student /\ L(r) \in Lesson
    BY <1>10, CallType DEF Write
  <2>2. PICK D \in SUBSET Lesson : SetDone(r, D)
    BY <1>10, <2>1 DEF Write, TypeOK
  <2>. QED  BY <1>10, <2>1, <2>2, TypeSetDone DEF Write, TypeOK, Goto, Location
<1>11. CASE ReadWatch(r)
  <2>1. S(r) \in Student /\ L(r) \in Lesson
    BY <1>11, CallType DEF ReadWatch
  <2>. QED  BY <1>11, <2>1 DEF ReadWatch, TypeOK, Goto, Location
<1>12. CASE WriteWatch(r)
  <2>1. PICK end \in Nat, percentage \in 0..100, peaked \in 0..100, counted \in Nat :
          Beat(r, end, percentage, peaked, counted)
    BY <1>12, HeartbeatWrites
  <2>2. /\ watched \in [Student -> [Lesson -> Nat]] /\ beats \in [Student -> [Lesson -> Nat]]
        /\ shown \in [Student -> [Lesson -> 0..100]] /\ peak \in [Student -> [Lesson -> 0..100]]
    BY DEF TypeOK
  <2>3. watched' \in [Student -> [Lesson -> Nat]] /\ beats' \in [Student -> [Lesson -> Nat]]
    BY <2>1, <2>2, CellType DEF Beat
  <2>4. shown' \in [Student -> [Lesson -> 0..100]]
    <3>1. shown' = [shown EXCEPT ![S(r)][L(r)] = percentage] /\ S(r) \in Student /\ L(r) \in Lesson
      BY <2>1 DEF Beat
    <3>. QED  BY <2>2, <3>1, CellType
  <2>7. peak' \in [Student -> [Lesson -> 0..100]]
    <3>1. peak' = [peak EXCEPT ![S(r)][L(r)] = peaked] /\ S(r) \in Student /\ L(r) \in Lesson
      BY <2>1 DEF Beat
    <3>. QED  BY <2>2, <3>1, CellType
  <2>5. seen' \in [Request -> Nat]
    BY <2>1 DEF Beat, TypeOK
  <2>6. pc' \in [Request -> Location]
    BY <1>12 DEF WriteWatch, TypeOK, Goto, Location, Ended
  <2>. QED  BY <1>12, <2>3, <2>4, <2>5, <2>6, <2>7 DEF WriteWatch, TypeOK
<1>13. CASE Finish(r)
  <2>1. S(r) \in Student /\ L(r) \in Lesson
    BY <1>13, CallType DEF Finish
  <2>2. done[S(r)] \cup {L(r)} \in SUBSET Lesson
    BY <2>1 DEF TypeOK
  <2>. QED  BY <1>13, <2>1, <2>2, TypeSetDone DEF Finish, TypeOK, Goto, Location
<1>14. CASE Count(r)
  <2>1. S(r) \in Student
    BY <1>14, CallType DEF Count
  <2>. QED  BY <1>14, <2>1, PercentageType DEF Count, TypeOK, Goto, Location
<1>15. CASE SaveEnrollment(r)
  <2>1. S(r) \in Student
    BY <1>15, CallType DEF SaveEnrollment
  <2>. QED  BY <1>15, <2>1 DEF SaveEnrollment, TypeOK, Goto, Location, Ended, EnrollmentStatus
<1>. QED  BY <1>1, <1>2, <1>3, <1>4, <1>5, <1>6, <1>7, <1>8, <1>9, <1>10, <1>11,
             <1>12, <1>13, <1>14, <1>15 DEF Proceed

\* So does an edit of the course.
LEMMA TypeEdit ==
  ASSUME TypeOK, Edit
  PROVE  TypeOK'
<1>1. CASE \E l \in Lesson : CreateLesson(l)
  <2>1. PICK l \in Lesson : CreateLesson(l)
    BY <1>1
  <2>2. PICK i \in Index : lessonIndex' = [lessonIndex EXCEPT ![l] = i]
    BY <2>1 DEF CreateLesson
  <2>. QED  BY <2>1, <2>2, CourseAssumption DEF CreateLesson, TypeOK
<1>2. CASE \E l \in Lesson : DeleteLesson(l)
  BY <1>2 DEF DeleteLesson, TypeOK
<1>3. CASE \E l \in Lesson : ReorderLesson(l)
  <2>1. PICK l \in Lesson : ReorderLesson(l)
    BY <1>3
  <2>2. PICK i \in Index : lessonIndex' = [lessonIndex EXCEPT ![l] = i]
    BY <2>1 DEF ReorderLesson
  <2>. QED  BY <2>1, <2>2, CourseAssumption DEF ReorderLesson, TypeOK
<1>4. CASE \E c \in Chapter : DeleteChapter(c)
  BY <1>4 DEF DeleteChapter, TypeOK
<1>5. CASE \E c \in Chapter : ReorderChapter(c)
  <2>1. PICK c \in Chapter : ReorderChapter(c)
    BY <1>5
  <2>2. PICK i \in Index : chapterIndex' = [chapterIndex EXCEPT ![c] = i]
    BY <2>1 DEF ReorderChapter
  <2>. QED  BY <2>1, <2>2, CourseAssumption DEF ReorderChapter, TypeOK
<1>. QED  BY <1>1, <1>2, <1>3, <1>4, <1>5 DEF Edit

\* A call moves no other call, and stays the call it is.
LEMMA ProceedFrame ==
  ASSUME Typed, NEW r \in Request, Proceed(r)
  PROVE  /\ job' = job /\ course' = course
         /\ pc[r] \notin Ended \cup {"new"}
         /\ \A q \in Request \ {r} : pc'[q] = pc[q] /\ seen'[q] = seen[q]
         /\ pc'[r] # "new"
<1>. USE DEF Typed, TypeOK, Goto, Ended
<1>1. CASE \/ FindEnrollment(r) \/ CreateEnrollment(r) \/ CancelEnrollment(r)
           \/ CheckEnrolled(r) \/ CheckAccess(r) \/ CheckUnlocked(r)
  BY <1>1 DEF FindEnrollment, CreateEnrollment, CancelEnrollment, CheckEnrolled,
              CheckAccess, CheckUnlocked
<1>2. CASE FindLesson(r) \/ Judge(r)
  BY <1>2 DEF FindLesson, AfterFind, Judge
<1>3. CASE ReadPercentage(r) \/ ReadWatch(r) \/ Count(r) \/ SaveEnrollment(r)
  BY <1>3 DEF ReadPercentage, ReadWatch, Count, SaveEnrollment
<1>4. CASE Write(r) \/ Finish(r)
  BY <1>4 DEF Write, Finish
<1>5. CASE WriteWatch(r)
  BY <1>5 DEF WriteWatch
<1>. QED  BY <1>1, <1>2, <1>3, <1>4, <1>5 DEF Proceed

LEMMA TypePreserved ==
  ASSUME Typed, [Next]_vars
  PROVE  Typed'
<1>1. CASE \E r \in Request : Arrive(r)
  <2>1. PICK r \in Request : Arrive(r)
    BY <1>1
  <2>2. PICK j \in Jobs : /\ job' = [job EXCEPT ![r] = j]
                          /\ Goto(r, IF j.op \in {"enroll", "cancel"} THEN j.op ELSE "enrolled")
    BY <2>1 DEF Arrive
  <2>3. (IF j.op \in {"enroll", "cancel"} THEN j.op ELSE "enrolled") \in {"enroll", "cancel", "enrolled"}
    OBVIOUS
  <2>4. TypeOK'
    BY <2>1, <2>2, <2>3 DEF Arrive, Typed, TypeOK, Goto, Location
  <2>5. Called'
    BY <2>1, <2>2, <2>3 DEF Arrive, Typed, TypeOK, Called, Goto
  <2>. QED  BY <2>4, <2>5 DEF Typed
<1>2. CASE \E r \in Request : Proceed(r)
  <2>1. PICK r \in Request : Proceed(r)
    BY <1>2
  <2>2. TypeOK'
    BY <2>1, TypeProceed
  <2>3. pc'[r] \in {"read", "append"} => job[r].duration # 0
    <3>1. CASE FindLesson(r)
      BY <3>1 DEF FindLesson, AfterFind, Typed, TypeOK, Goto
    <3>2. CASE ReadWatch(r)
      BY <3>2 DEF ReadWatch, Typed, Called
    <3>3. CASE ~ (FindLesson(r) \/ ReadWatch(r))
      BY <2>1, <3>3 DEF Proceed, FindEnrollment, CreateEnrollment, CancelEnrollment,
        CheckEnrolled, CheckAccess, CheckUnlocked, ReadPercentage, WriteWatch, Judge,
        Write, Finish, Count, SaveEnrollment, Typed, TypeOK, Goto
    <3>. QED  BY <3>1, <3>2, <3>3
  <2>4. Called'
    BY <2>1, <2>3, ProceedFrame DEF Typed, Called
  <2>. QED  BY <2>2, <2>4 DEF Typed
<1>3. CASE \E r \in Request : Throw(r)
  <2>1. PICK r \in Request : Throw(r)
    BY <1>3
  <2>2. S(r) \in Student
    BY <2>1, CallType DEF Throw
  <2>3. TypeOK'
    BY <2>1, <2>2 DEF Throw, Typed, TypeOK, Goto, Location, Ended
  <2>4. Called'
    BY <2>1 DEF Throw, Typed, TypeOK, Called, Goto
  <2>. QED  BY <2>3, <2>4 DEF Typed
<1>4. CASE \E s \in Student : SheetProgress(s)
  BY <1>4 DEF SheetProgress, Typed, TypeOK, Called
<1>5. CASE Edit
  BY <1>5, TypeEdit DEF Edit, CreateLesson, DeleteLesson, DeleteChapter, ReorderLesson,
                        ReorderChapter, Typed, Called
<1>6. CASE UNCHANGED vars
  BY <1>6 DEF vars, Typed, TypeOK, Called
<1>. QED  BY <1>1, <1>2, <1>3, <1>4, <1>5, <1>6 DEF Next

LEMMA TypedAlways == Spec => []Typed
<1>. QED  BY TypeInitially, TypePreserved, PTL DEF Spec

\* Every variable keeps its type: no percentage of a video leaves 0..100
\* however heartbeats overlap, no slot is at an operation without a call.
THEOREM ProgressTypeCorrect == Spec => []TypeOK
<1>1. Typed => TypeOK
  BY DEF Typed
<1>. QED  BY <1>1, TypedAlways, PTL

-----------------------------------------------------------------------------
(* What only grows *)

LEMMA SetDoneEffect ==
  ASSUME Typed, NEW r \in Request, S(r) \in Student, NEW D, SetDone(r, D)
  PROVE  /\ \A s \in Student : s # S(r) => done'[s] = done[s] /\ everDone'[s] = everDone[s]
         /\ done'[S(r)] = D
         /\ everDone'[S(r)] = everDone[S(r)] \cup D
BY DEF SetDone, Typed, TypeOK

\* What each step does to the completed lessons.
LEMMA DoneEffect ==
  ASSUME Typed, [Next]_vars
  PROVE  \/ done' = done /\ everDone' = everDone
         \/ \E r \in Request, D \in SUBSET Lesson :
              /\ Write(r) \/ Finish(r)
              /\ S(r) \in Student /\ L(r) \in Lesson
              /\ SetDone(r, D)
              /\ \/ D = done[S(r)] \ {L(r)}
                 \/ D = done[S(r)] \cup {L(r)} /\ (Finish(r) \/ job[r].op = "complete")
<1>1. CASE \E r \in Request : Write(r)
  <2>1. PICK r \in Request : Write(r)
    BY <1>1
  <2>2. S(r) \in Student /\ L(r) \in Lesson
    BY <2>1, CallType DEF Write
  <2>3. SetDone(r, IF job[r].op = "complete" THEN done[S(r)] \cup {L(r)} ELSE done[S(r)] \ {L(r)})
    BY <2>1 DEF Write
  <2>4. done[S(r)] \cup {L(r)} \in SUBSET Lesson /\ done[S(r)] \ {L(r)} \in SUBSET Lesson
    BY <2>2 DEF Typed, TypeOK
  <2>5. CASE job[r].op = "complete"
    BY <2>1, <2>2, <2>3, <2>4, <2>5
  <2>6. CASE job[r].op # "complete"
    BY <2>1, <2>2, <2>3, <2>4, <2>6
  <2>. QED  BY <2>5, <2>6
<1>2. CASE \E r \in Request : Finish(r)
  <2>1. PICK r \in Request : Finish(r)
    BY <1>2
  <2>2. S(r) \in Student /\ L(r) \in Lesson
    BY <2>1, CallType DEF Finish
  <2>3. SetDone(r, done[S(r)] \cup {L(r)})
    BY <2>1 DEF Finish
  <2>4. done[S(r)] \cup {L(r)} \in SUBSET Lesson
    BY <2>2 DEF Typed, TypeOK
  <2>. QED  BY <2>1, <2>2, <2>3, <2>4
<1>3. CASE \E r \in Request : Proceed(r) /\ ~ Write(r) /\ ~ Finish(r)
  BY <1>3 DEF Proceed, FindEnrollment, CreateEnrollment, CancelEnrollment, CheckEnrolled,
    CheckAccess, CheckUnlocked, FindLesson, ReadPercentage, ReadWatch, WriteWatch, Judge,
    Count, SaveEnrollment
<1>4. CASE \E r \in Request : Arrive(r) \/ Throw(r)
  BY <1>4 DEF Arrive, Throw
<1>5. CASE (\E s \in Student : SheetProgress(s)) \/ UNCHANGED vars
  BY <1>5 DEF SheetProgress, vars
<1>6. CASE Edit
  BY <1>6 DEF Edit, CreateLesson, DeleteLesson, DeleteChapter, ReorderLesson, ReorderChapter
<1>. QED  BY <1>1, <1>2, <1>3, <1>4, <1>5, <1>6 DEF Next

\* A row says completed only of a lesson that was completed at some time.
DoneWasDone == \A s \in Student : done[s] \subseteq everDone[s]

LEMMA EverDoneGrows ==
  ASSUME Typed, DoneWasDone, [Next]_vars
  PROVE  /\ DoneWasDone'
         /\ \A s \in Student : everDone[s] \subseteq everDone'[s]
<1>1. CASE done' = done /\ everDone' = everDone
  BY <1>1 DEF DoneWasDone
<1>2. CASE \E r \in Request, D \in SUBSET Lesson : S(r) \in Student /\ SetDone(r, D)
  BY <1>2, SetDoneEffect DEF DoneWasDone
<1>. QED  BY <1>1, <1>2, DoneEffect

-----------------------------------------------------------------------------
(* The order of lessons *)

\* Unlocking asks only that some lessons are completed.
LEMMA StaysUnlocked ==
  ASSUME course' = course, NEW s \in Student, everDone[s] \subseteq everDone'[s], NEW l,
         Unlocked(l, everDone[s])
  PROVE  Unlocked(l, everDone[s])'
BY DEF Unlocked, ChapterOpen, InSequence, InTree, Previous, PreviousChapter, ChapterBefore, Before

PastLock == {"find", "percent", "read", "append", "judge", "write", "finish"}

Fits(s, l) == l \in Previewable \/ Unlocked(l, everDone[s])

\* In a course nobody edits, what was unlocked for a call fits the lessons the
\* student has ever completed, whatever is undone meanwhile.
InOrder ==
  ~ edited =>
    /\ \A r \in Request, l \in Lesson :
         pc[r] \in PastLock /\ L(r) = l => l \in lessons /\ Fits(S(r), l)
    /\ \A s \in Student : \A l \in everDone[s] : l \in lessons /\ Fits(s, l)

LEMMA FitsLater ==
  ASSUME course' = course, NEW s \in Student, everDone[s] \subseteq everDone'[s], NEW l, Fits(s, l)
  PROVE  Fits(s, l)'
BY StaysUnlocked DEF Fits

\* A step that leaves the history variable edited FALSE leaves the course.
LEMMA NotEdited ==
  ASSUME Typed, [Next]_vars, ~ edited'
  PROVE  course' = course
<1>1. CASE Edit
  BY <1>1 DEF Edit, CreateLesson, DeleteLesson, DeleteChapter, ReorderLesson, ReorderChapter
<1>2. CASE \E r \in Request : Proceed(r)
  BY <1>2, ProceedFrame
<1>3. CASE ~ Edit /\ ~ \E r \in Request : Proceed(r)
  BY <1>3 DEF Next, Arrive, Throw, SheetProgress, vars
<1>. QED  BY <1>1, <1>2, <1>3

LEMMA UnlockedFits ==
  ASSUME DoneWasDone, NEW s \in Student, NEW l, Unlocked(l, done[s])
  PROVE  l \in lessons /\ Fits(s, l)
BY DEF DoneWasDone, Fits, Unlocked, ChapterOpen, InSequence, InTree

\* A call gets past the lock in CheckAccess (a preview) or CheckUnlocked.
LEMMA PassLock ==
  ASSUME Typed, DoneWasDone, [Next]_vars, NEW r \in Request,
         pc'[r] \in PastLock, pc[r] \notin PastLock
  PROVE  /\ job' = job
         /\ L(r) \in lessons /\ Fits(S(r), L(r))
<1>. USE DEF PastLock
<1>1. CASE Proceed(r)
  <2>1. CASE CheckAccess(r)
    BY <2>1 DEF CheckAccess, Fits, Typed, TypeOK, Goto
  <2>2. CASE CheckUnlocked(r)
    <3>1. S(r) \in Student
      BY <2>2, CallType DEF CheckUnlocked
    <3>2. Unlocked(L(r), done[S(r)]) /\ job' = job
      BY <2>2 DEF CheckUnlocked, Typed, TypeOK, Goto
    <3>. QED  BY <3>1, <3>2, UnlockedFits
  <2>3. CASE ~ CheckAccess(r) /\ ~ CheckUnlocked(r)
    BY <1>1, <2>3 DEF Proceed, FindEnrollment, CreateEnrollment, CancelEnrollment,
      CheckEnrolled, FindLesson, ReadPercentage, ReadWatch, WriteWatch, Judge, Write,
      Finish, Count, SaveEnrollment, Typed, TypeOK, Goto
  <2>. QED  BY <2>1, <2>2, <2>3
<1>2. CASE \E q \in Request \ {r} : Proceed(q)
  BY <1>2, ProceedFrame
<1>3. CASE \E q \in Request : Arrive(q) \/ Throw(q)
  BY <1>3 DEF Arrive, Throw, Typed, TypeOK, Goto, Ended
<1>4. CASE (\E s \in Student : SheetProgress(s)) \/ Edit \/ UNCHANGED vars
  BY <1>4 DEF SheetProgress, Edit, CreateLesson, DeleteLesson, DeleteChapter, ReorderLesson,
              ReorderChapter, vars
<1>. QED  BY <1>1, <1>2, <1>3, <1>4 DEF Next

\* A call that is past the lock is still the same call.
LEMMA SameCall ==
  ASSUME Typed, [Next]_vars, NEW r \in Request, pc[r] \notin Ended \cup {"new"}
  PROVE  job'[r] = job[r]
<1>1. CASE \E q \in Request : Proceed(q)
  BY <1>1, ProceedFrame
<1>2. CASE ~ \E q \in Request : Proceed(q)
  BY <1>2 DEF Next, Arrive, Throw, SheetProgress, Edit, CreateLesson, DeleteLesson,
    DeleteChapter, ReorderLesson, ReorderChapter, vars, Typed, TypeOK
<1>. QED  BY <1>1, <1>2

LEMMA InOrderPreserved ==
  ASSUME Typed, DoneWasDone, InOrder, [Next]_vars
  PROVE  InOrder'
<1>. SUFFICES ASSUME ~ edited'
     PROVE  /\ \A r \in Request, l \in Lesson :
                 pc'[r] \in PastLock /\ L(r)' = l => l \in lessons' /\ Fits(S(r), l)'
            /\ \A s \in Student : \A l \in everDone'[s] : l \in lessons' /\ Fits(s, l)'
  BY DEF InOrder
<1>1. course' = course /\ ~ edited
  BY NotEdited
<1>2. \A s \in Student : everDone[s] \subseteq everDone'[s]
  BY EverDoneGrows
<1>3. ASSUME NEW r \in Request, NEW l \in Lesson, pc'[r] \in PastLock, L(r)' = l
      PROVE  l \in lessons' /\ Fits(S(r), l)'
  <2>1. S(r) \in Student
    BY CourseAssumption DEF S
  <2>2. CASE pc[r] \in PastLock
    <3>1. L(r) = l
      BY <1>3, <2>2, SameCall DEF PastLock, Ended, L
    <3>2. l \in lessons /\ Fits(S(r), l)
      BY <1>1, <2>2, <3>1 DEF InOrder
    <3>. QED  BY <1>1, <1>2, <2>1, <3>2, FitsLater
  <2>3. CASE pc[r] \notin PastLock
    <3>1. job' = job /\ L(r) \in lessons /\ Fits(S(r), L(r))
      BY <1>3, <2>3, PassLock
    <3>2. L(r) = l
      BY <1>3, <3>1 DEF L
    <3>3. l \in lessons /\ Fits(S(r), l)
      BY <3>1, <3>2
    <3>. QED  BY <1>1, <1>2, <2>1, <3>3, FitsLater
  <2>. QED  BY <2>2, <2>3
<1>4. ASSUME NEW s \in Student, NEW l \in everDone'[s]
      PROVE  l \in lessons' /\ Fits(s, l)'
  <2>1. l \in lessons /\ Fits(s, l)
    <3>1. CASE l \in everDone[s]
      BY <1>1, <3>1 DEF InOrder
    <3>2. CASE l \notin everDone[s]
      <4>1. PICK r \in Request, D \in SUBSET Lesson :
              /\ Write(r) \/ Finish(r)
              /\ S(r) \in Student /\ L(r) \in Lesson
              /\ SetDone(r, D)
              /\ \/ D = done[S(r)] \ {L(r)}
                 \/ D = done[S(r)] \cup {L(r)} /\ (Finish(r) \/ job[r].op = "complete")
        BY <1>4, <3>2, DoneEffect
      <4>2. s = S(r) /\ everDone'[s] = everDone[s] \cup D
        BY <1>4, <3>2, <4>1, SetDoneEffect
      <4>3. l = L(r)
        BY <1>4, <3>2, <4>1, <4>2 DEF DoneWasDone
      <4>4. pc[r] \in PastLock
        BY <4>1 DEF Write, Finish, PastLock
      <4>. QED  BY <1>1, <4>1, <4>2, <4>3, <4>4 DEF InOrder
    <3>. QED  BY <3>1, <3>2
  <2>. QED  BY <1>1, <1>2, <2>1, FitsLater
<1>. QED  BY <1>3, <1>4

LEMMA InOrderInitially == Init => DoneWasDone /\ InOrder
BY DEF Init, DoneWasDone, InOrder, PastLock

LEMMA InOrderAlways == Spec => [](Typed /\ DoneWasDone /\ InOrder)
<1>1. Init => Typed /\ DoneWasDone /\ InOrder
  BY TypeInitially, InOrderInitially
<1>2. Typed /\ DoneWasDone /\ InOrder /\ [Next]_vars => (Typed /\ DoneWasDone /\ InOrder)'
  BY TypePreserved, EverDoneGrows, InOrderPreserved
<1>. QED  BY <1>1, <1>2, PTL DEF Spec

\* Nobody gets ahead: no interleaving of a student's calls completes a lesson
\* before the one it comes after (SequenceRespected).
THEOREM NobodyGetsAhead == Spec => []SequenceRespected
<1>1. InOrder => SequenceRespected
  BY DEF InOrder, SequenceRespected, Fits
<1>. QED  BY <1>1, InOrderAlways, PTL

-----------------------------------------------------------------------------
(* Watching and solving *)

\* The highest percentage and the solved sheets are never forgotten.
LEMMA EvidenceGrows ==
  ASSUME Typed, [Next]_vars, NEW s \in Student
  PROVE  /\ \A l \in Lesson : peak[s][l] <= peak'[s][l]
         /\ everSolved[s] \subseteq everSolved'[s]
<1>1. CASE \E r \in Request : WriteWatch(r)
  <2>1. PICK r \in Request : WriteWatch(r)
    BY <1>1
  <2>2. PICK end \in Nat, percentage \in 0..100, peaked \in 0..100, counted \in Nat :
          Beat(r, end, percentage, peaked, counted)
    BY <2>1, HeartbeatWrites
  <2>3. S(r) \in Student /\ L(r) \in Lesson
    BY <2>2 DEF Beat
  <2>4. /\ \A l \in Lesson : peak[s][l] \in 0..100
        /\ peak[S(r)][L(r)] \in 0..100
    BY <2>3 DEF Typed, TypeOK
  <2>5. peaked = Greatest(peak[S(r)][L(r)], percentage)
    BY <2>2 DEF Beat
  <2>6. peak[S(r)][L(r)] <= peaked
    BY <2>4, <2>5 DEF Greatest
  <2>7. peak' = [peak EXCEPT ![S(r)][L(r)] = peaked]
    BY <2>2 DEF Beat
  <2>8. ASSUME NEW l \in Lesson PROVE peak[s][l] <= peak'[s][l]
    <3>1. peak \in [Student -> [Lesson -> 0..100]]
      BY DEF Typed, TypeOK
    <3>2. peak'[s][l] = IF s = S(r) /\ l = L(r) THEN peaked ELSE peak[s][l]
      BY <2>3, <2>7, <3>1, CellValue
    <3>. QED  BY <2>4, <2>6, <3>2
  <2>. QED  BY <2>1, <2>8 DEF WriteWatch
<1>2. CASE \E q \in Student : SheetProgress(q)
  <2>1. PICK q \in Student : SheetProgress(q)
    BY <1>2
  <2>2. PICK sheets \in SUBSET Sheet : everSolved' = [everSolved EXCEPT ![q] = @ \cup sheets]
    BY <2>1 DEF SheetProgress
  <2>3. everSolved[s] \subseteq everSolved'[s]
    BY <2>2 DEF Typed, TypeOK
  <2>4. peak' = peak /\ \A l \in Lesson : peak[s][l] \in 0..100
    BY <2>1 DEF SheetProgress, Typed, TypeOK
  <2>. QED  BY <2>3, <2>4
<1>3. CASE ~ \E r \in Request : WriteWatch(r)
  <2>1. CASE ~ \E q \in Student : SheetProgress(q)
    <3>1. peak' = peak /\ everSolved' = everSolved
      BY <1>3, <2>1 DEF Next, Proceed, Arrive, FindEnrollment, CreateEnrollment,
        CancelEnrollment, CheckEnrolled, CheckAccess, CheckUnlocked, FindLesson,
        ReadPercentage, ReadWatch, Judge, Write, Finish, Count, SaveEnrollment, Throw, Edit,
        CreateLesson, DeleteLesson, DeleteChapter, ReorderLesson, ReorderChapter, vars
    <3>2. \A l \in Lesson : peak[s][l] \in 0..100
      BY DEF Typed, TypeOK
    <3>. QED  BY <3>1, <3>2
  <2>. QED  BY <1>2, <2>1
<1>. QED  BY <1>1, <1>3

Earned(s, l) ==
  /\ l \in HasVideo => peak[s][l] >= Threshold
  /\ Required[l] \subseteq everSolved[s]

LEMMA EarnedLater ==
  ASSUME Typed, [Next]_vars, NEW s \in Student, NEW l \in Lesson, Earned(s, l)
  PROVE  Earned(s, l)'
<1>1. peak[s][l] <= peak'[s][l] /\ everSolved[s] \subseteq everSolved'[s]
  BY EvidenceGrows
<1>2. peak[s][l] \in 0..100
  BY DEF Typed, TypeOK
<1>3. Typed'
  BY TypePreserved
<1>4. peak'[s][l] \in 0..100
  BY <1>3 DEF Typed, TypeOK
<1>. QED  BY <1>1, <1>2, <1>4 DEF Earned, Threshold

\* A call that is about to complete a lesson.
Completing(r) == pc[r] = "finish" \/ (pc[r] = "write" /\ job[r].op = "complete")

\* The evidence behind every stage of a completion: the percentage stored and
\* the one a call has read were reached, and the engine's yes was earned.
Backed ==
  /\ \A s \in Student, l \in Lesson : shown[s][l] <= peak[s][l]
  /\ \A s \in Student : solved[s] \subseteq everSolved[s]
  /\ \A r \in Request, l \in Lesson :
       pc[r] = "judge" /\ L(r) = l => seen[r] <= peak[S(r)][l]
  /\ \A r \in Request, l \in Lesson : Completing(r) /\ L(r) = l => Earned(S(r), l)
  /\ \A s \in Student : \A l \in everDone[s] : Earned(s, l)

\* The rows of percentages and sheets.
LEMMA RowsBacked ==
  ASSUME Typed, Backed, [Next]_vars, NEW s \in Student
  PROVE  /\ \A l \in Lesson : shown'[s][l] <= peak'[s][l]
         /\ solved'[s] \subseteq everSolved'[s]
<1>1. CASE \E r \in Request : WriteWatch(r)
  <2>1. PICK r \in Request : WriteWatch(r)
    BY <1>1
  <2>2. PICK end \in Nat, percentage \in 0..100, peaked \in 0..100, counted \in Nat :
          Beat(r, end, percentage, peaked, counted)
    BY <2>1, HeartbeatWrites
  <2>3. /\ S(r) \in Student /\ L(r) \in Lesson
        /\ peak' = [peak EXCEPT ![S(r)][L(r)] = peaked]
        /\ shown' = [shown EXCEPT ![S(r)][L(r)] = percentage]
    BY <2>2 DEF Beat
  <2>4. /\ peak \in [Student -> [Lesson -> 0..100]]
        /\ shown \in [Student -> [Lesson -> 0..100]]
    BY DEF Typed, TypeOK
  <2>5. percentage <= peaked
    <3>1. peak[S(r)][L(r)] \in 0..100 /\ peaked = Greatest(peak[S(r)][L(r)], percentage)
      BY <2>2, <2>3, <2>4 DEF Beat
    <3>. QED  BY <3>1 DEF Greatest
  <2>6. ASSUME NEW l \in Lesson PROVE shown'[s][l] <= peak'[s][l]
    <3>1. peak'[s][l] = IF s = S(r) /\ l = L(r) THEN peaked ELSE peak[s][l]
      BY <2>3, <2>4, CellValue
    <3>2. shown'[s][l] = IF s = S(r) /\ l = L(r) THEN percentage ELSE shown[s][l]
      BY <2>3, <2>4, CellValue
    <3>. QED  BY <2>5, <3>1, <3>2 DEF Backed
  <2>7. solved' = solved /\ everSolved' = everSolved
    BY <2>1 DEF WriteWatch
  <2>. QED  BY <2>6, <2>7 DEF Backed
<1>2. CASE \E q \in Student : SheetProgress(q)
  <2>1. PICK q \in Student : SheetProgress(q)
    BY <1>2
  <2>2. PICK sheets \in SUBSET Sheet :
          /\ solved' = [solved EXCEPT ![q] = sheets]
          /\ everSolved' = [everSolved EXCEPT ![q] = @ \cup sheets]
    BY <2>1 DEF SheetProgress
  <2>3. solved'[s] \subseteq everSolved'[s]
    BY <2>2 DEF Backed, Typed, TypeOK
  <2>4. shown' = shown /\ peak' = peak
    BY <2>1 DEF SheetProgress
  <2>. QED  BY <2>3, <2>4 DEF Backed
<1>3. CASE (~ \E r \in Request : WriteWatch(r)) /\ ~ \E q \in Student : SheetProgress(q)
  <2>1. /\ shown' = shown /\ peak' = peak
        /\ solved' = solved /\ everSolved' = everSolved
    BY <1>3 DEF Next, Proceed, Arrive, FindEnrollment, CreateEnrollment, CancelEnrollment,
      CheckEnrolled, CheckAccess, CheckUnlocked, FindLesson, ReadPercentage, ReadWatch, Judge,
      Write, Finish, Count, SaveEnrollment, Throw, Edit, CreateLesson, DeleteLesson,
      DeleteChapter, ReorderLesson, ReorderChapter, vars
  <2>. QED  BY <2>1 DEF Backed
<1>. QED  BY <1>1, <1>2, <1>3

\* The percentage a call is judged on.
LEMMA ReadingBacked ==
  ASSUME Typed, Backed, [Next]_vars, NEW r \in Request, NEW l \in Lesson,
         pc'[r] = "judge", L(r)' = l
  PROVE  seen'[r] <= peak'[S(r)][l]
<1>1. S(r) \in Student
  BY CourseAssumption DEF S
<1>2. CASE WriteWatch(r)
  <2>1. PICK end \in Nat, percentage \in 0..100, peaked \in 0..100, counted \in Nat :
          Beat(r, end, percentage, peaked, counted)
    BY <1>2, HeartbeatWrites
  <2>2. L(r) = l
    BY <1>2 DEF WriteWatch, L
  <2>3. /\ peak' = [peak EXCEPT ![S(r)][l] = peaked]
        /\ seen' = [seen EXCEPT ![r] = percentage]
        /\ peaked = Greatest(peak[S(r)][l], percentage)
    BY <2>1, <2>2 DEF Beat
  <2>4. peak[S(r)][l] \in 0..100
    BY <1>1 DEF Typed, TypeOK
  <2>5. percentage <= peaked
    <3>1. peaked = Greatest(peak[S(r)][l], percentage)
      BY <2>3
    <3>. QED  BY <2>4, <3>1 DEF Greatest
  <2>6. peak'[S(r)][l] = peaked /\ seen'[r] = percentage
    BY <1>1, <2>3 DEF Typed, TypeOK
  <2>. QED  BY <2>5, <2>6
<1>3. CASE ReadPercentage(r)
  <2>1. L(r) = l /\ seen'[r] = shown[S(r)][l] /\ peak' = peak
    BY <1>3 DEF ReadPercentage, L, Typed, TypeOK
  <2>. QED  BY <1>1, <2>1 DEF Backed
<1>4. CASE ~ WriteWatch(r) /\ ~ ReadPercentage(r)
  <2>1. pc[r] = "judge" /\ L(r) = l /\ seen'[r] = seen[r]
    <3>1. CASE Proceed(r)
      BY <1>4, <3>1 DEF Proceed, FindEnrollment, CreateEnrollment, CancelEnrollment,
        CheckEnrolled, CheckAccess, CheckUnlocked, FindLesson, AfterFind, ReadWatch, Judge,
        Write, Finish, Count, SaveEnrollment, Typed, TypeOK, Goto
    <3>2. CASE \E q \in Request \ {r} : Proceed(q)
      BY <3>2, ProceedFrame DEF L
    <3>3. CASE \E q \in Request : Arrive(q)
      BY <3>3 DEF Arrive, Typed, TypeOK, Goto, L
    <3>4. CASE \E q \in Request : Throw(q)
      BY <3>4 DEF Throw, Typed, TypeOK, Goto, L
    <3>5. CASE (\E s \in Student : SheetProgress(s)) \/ Edit \/ UNCHANGED vars
      BY <3>5 DEF SheetProgress, Edit, CreateLesson, DeleteLesson, DeleteChapter,
        ReorderLesson, ReorderChapter, vars, L
    <3>. QED  BY <3>1, <3>2, <3>3, <3>4, <3>5 DEF Next
  <2>2. seen[r] <= peak[S(r)][l] /\ peak[S(r)][l] <= peak'[S(r)][l]
    BY <1>1, <2>1, EvidenceGrows DEF Backed
  <2>3. seen[r] \in Nat /\ peak[S(r)][l] \in 0..100
    BY <1>1 DEF Typed, TypeOK
  <2>4. Typed'
    BY TypePreserved
  <2>5. peak'[S(r)][l] \in 0..100
    BY <1>1, <2>4 DEF Typed, TypeOK
  <2>6. seen'[r] = seen[r]
    BY <2>1
  <2>7. \A a \in Nat, b, c \in 0..100 : a <= b /\ b <= c => a <= c
    OBVIOUS
  <2>. QED  BY <2>2, <2>3, <2>5, <2>6, <2>7
<1>. QED  BY <1>2, <1>3, <1>4

\* The engine says yes in Judge; nothing else starts a completion.
LEMMA CompletingBacked ==
  ASSUME Typed, Backed, [Next]_vars, NEW r \in Request, NEW l \in Lesson,
         Completing(r)', L(r)' = l
  PROVE  Earned(S(r), l)'
<1>1. S(r) \in Student
  BY CourseAssumption DEF S
<1>2. Earned(S(r), l)
  <2>1. CASE Judge(r)
    <3>1. /\ L(r) = l /\ pc[r] = "judge"
          /\ CanMarkComplete(l, seen[r], solved[S(r)])
      BY <2>1 DEF Judge, Completing, L, Typed, TypeOK, Goto
    <3>2. seen[r] <= peak[S(r)][l] /\ solved[S(r)] \subseteq everSolved[S(r)]
      BY <1>1, <3>1 DEF Backed
    <3>3. seen[r] \in Nat /\ peak[S(r)][l] \in 0..100
      BY <1>1 DEF Typed, TypeOK
    <3>4. \A a \in Nat, b \in 0..100 : a >= 90 /\ a <= b => b >= 90
      OBVIOUS
    <3>. QED  BY <3>1, <3>2, <3>3, <3>4 DEF CanMarkComplete, Earned, Threshold
  <2>2. CASE ~ Judge(r)
    <3>1. Completing(r) /\ L(r) = l
      <4>1. CASE Proceed(r)
        BY <2>2, <4>1 DEF Proceed, FindEnrollment, CreateEnrollment, CancelEnrollment,
          CheckEnrolled, CheckAccess, CheckUnlocked, FindLesson, AfterFind, ReadPercentage,
          ReadWatch, WriteWatch, Write, Finish, Count, SaveEnrollment, Typed, TypeOK, Goto,
          Completing
      <4>2. CASE \E q \in Request \ {r} : Proceed(q)
        BY <4>2, ProceedFrame DEF L, Completing
      <4>3. CASE \E q \in Request : Arrive(q)
        BY <4>3 DEF Arrive, Typed, TypeOK, Goto, L, Completing
      <4>4. CASE \E q \in Request : Throw(q)
        BY <4>4 DEF Throw, Typed, TypeOK, Goto, L, Completing
      <4>5. CASE (\E s \in Student : SheetProgress(s)) \/ Edit \/ UNCHANGED vars
        BY <4>5 DEF SheetProgress, Edit, CreateLesson, DeleteLesson, DeleteChapter,
          ReorderLesson, ReorderChapter, vars, L, Completing
      <4>. QED  BY <4>1, <4>2, <4>3, <4>4, <4>5 DEF Next
    <3>. QED  BY <3>1 DEF Backed
  <2>. QED  BY <2>1, <2>2
<1>. QED  BY <1>1, <1>2, EarnedLater

LEMMA BackedPreserved ==
  ASSUME Typed, DoneWasDone, Backed, [Next]_vars
  PROVE  Backed'
<1>1. ASSUME NEW s \in Student, NEW l \in everDone'[s]
      PROVE  Earned(s, l)'
  <2>1. l \in Lesson
    <3>1. Typed'
      BY TypePreserved
    <3>. QED  BY <1>1, <3>1 DEF Typed, TypeOK
  <2>2. Earned(s, l)
    <3>1. CASE l \in everDone[s]
      BY <3>1 DEF Backed
    <3>2. CASE l \notin everDone[s]
      <4>1. PICK r \in Request, D \in SUBSET Lesson :
              /\ Write(r) \/ Finish(r)
              /\ S(r) \in Student /\ L(r) \in Lesson
              /\ SetDone(r, D)
              /\ \/ D = done[S(r)] \ {L(r)}
                 \/ D = done[S(r)] \cup {L(r)} /\ (Finish(r) \/ job[r].op = "complete")
        BY <1>1, <3>2, DoneEffect
      <4>2. s = S(r) /\ everDone'[s] = everDone[s] \cup D
        BY <1>1, <3>2, <4>1, SetDoneEffect
      <4>3. l = L(r) /\ (Finish(r) \/ job[r].op = "complete")
        BY <1>1, <3>2, <4>1, <4>2 DEF DoneWasDone
      <4>4. Completing(r)
        BY <4>1, <4>3 DEF Write, Finish, Completing
      <4>. QED  BY <2>1, <4>2, <4>3, <4>4 DEF Backed
    <3>. QED  BY <3>1, <3>2
  <2>. QED  BY <2>1, <2>2, EarnedLater
<1>2. ASSUME NEW r \in Request, NEW l \in Lesson
      PROVE  /\ pc'[r] = "judge" /\ L(r)' = l => seen'[r] <= peak'[S(r)][l]
             /\ Completing(r)' /\ L(r)' = l => Earned(S(r), l)'
  BY ReadingBacked, CompletingBacked
<1>. QED  BY <1>1, <1>2, RowsBacked DEF Backed

LEMMA BackedInitially == Init => Backed
<1>. SUFFICES ASSUME Init PROVE Backed
  OBVIOUS
<1>1. \A r \in Request : pc[r] = "new"
  BY DEF Init
<1>2. \A s \in Student : solved[s] = {} /\ everDone[s] = {}
  BY DEF Init
<1>3. \A s \in Student, l \in Lesson : shown[s][l] <= peak[s][l]
  BY DEF Init
<1>. QED  BY <1>1, <1>2, <1>3 DEF Backed, Completing

LEMMA BackedAlways == Spec => [](Typed /\ DoneWasDone /\ Backed)
<1>1. Init => Typed /\ DoneWasDone /\ Backed
  BY TypeInitially, InOrderInitially, BackedInitially
<1>2. Typed /\ DoneWasDone /\ Backed /\ [Next]_vars => (Typed /\ DoneWasDone /\ Backed)'
  BY TypePreserved, EverDoneGrows, BackedPreserved
<1>. QED  BY <1>1, <1>2, PTL DEF Spec

\* No lesson is completed without its video watched to the threshold and its
\* sheets solved, each at some time (CompletionEarned).
THEOREM CompletionsAreEarned == Spec => []CompletionEarned
<1>1. Backed => CompletionEarned
  BY DEF Backed, Earned, CompletionEarned
<1>. QED  BY <1>1, BackedAlways, PTL

-----------------------------------------------------------------------------
(* Heartbeats *)

LEMMA AppendReach ==
  ASSUME NEW end \in Nat, NEW at \in Nat, NEW duration \in Nat
  PROVE  AppendWatch(end, at, duration) <= end + MaxJump
BY CourseAssumption DEF AppendWatch, Least, Greatest

\* What k heartbeats can carry.
Reach(k) == MaxJump * k

LEMMA ReachGrows ==
  ASSUME NEW k \in Nat
  PROVE  Reach(k) \in Nat /\ Reach(k + 1) = Reach(k) + MaxJump
BY CourseAssumption DEF Reach

\* The stored segment and the one a heartbeat is about to extend are within
\* what the heartbeats so far can carry.
WithinReach ==
  /\ \A s \in Student, l \in Lesson : beats[s][l] < MaxBeats => watched[s][l] <= Reach(beats[s][l])
  /\ \A r \in Request, l \in Lesson : pc[r] = "append" /\ L(r) = l /\ beats[S(r)][l] < MaxBeats =>
       seen[r] <= Reach(beats[S(r)][l])

LEMMA BeatAdvances ==
  ASSUME NEW b \in Nat, Least(b + 1, MaxBeats) < MaxBeats
  PROVE  b < MaxBeats /\ Least(b + 1, MaxBeats) = b + 1
BY CourseAssumption DEF Least

\* A step counts a heartbeat of the lesson or leaves its count.
LEMMA BeatsStep ==
  ASSUME Typed, [Next]_vars, NEW s \in Student, NEW l \in Lesson
  PROVE  /\ beats[s][l] \in Nat
         /\ \/ beats'[s][l] = beats[s][l] /\ watched'[s][l] = watched[s][l]
            \/ \E r \in Request : /\ WriteWatch(r) /\ s = S(r) /\ L(r) = l
                                 /\ beats'[s][l] = Least(beats[s][l] + 1, MaxBeats)
                                 /\ watched'[s][l] = AppendWatch(seen[r], job[r].at, job[r].duration)
<1>1. beats \in [Student -> [Lesson -> Nat]] /\ watched \in [Student -> [Lesson -> Nat]]
  BY DEF Typed, TypeOK
<1>2. CASE \E r \in Request : WriteWatch(r)
  <2>1. PICK r \in Request : WriteWatch(r)
    BY <1>2
  <2>2. PICK end \in Nat, percentage \in 0..100, peaked \in 0..100, counted \in Nat :
          Beat(r, end, percentage, peaked, counted)
    BY <2>1, HeartbeatWrites
  <2>3. /\ S(r) \in Student /\ L(r) \in Lesson
        /\ beats' = [beats EXCEPT ![S(r)][L(r)] = counted]
        /\ watched' = [watched EXCEPT ![S(r)][L(r)] = end]
    BY <2>2 DEF Beat
  <2>4. beats'[s][l] = IF s = S(r) /\ l = L(r) THEN counted ELSE beats[s][l]
    BY <1>1, <2>3, CellValue
  <2>5. watched'[s][l] = IF s = S(r) /\ l = L(r) THEN end ELSE watched[s][l]
    BY <1>1, <2>3, CellValue
  <2>6. /\ end = AppendWatch(seen[r], job[r].at, job[r].duration)
        /\ counted = Least(beats[S(r)][L(r)] + 1, MaxBeats)
    BY <2>2 DEF Beat
  <2>. QED  BY <1>1, <2>1, <2>4, <2>5, <2>6
<1>3. CASE ~ \E r \in Request : WriteWatch(r)
  <2>1. beats' = beats /\ watched' = watched
    BY <1>3 DEF Next, Proceed, Arrive, FindEnrollment, CreateEnrollment, CancelEnrollment,
      CheckEnrolled, CheckAccess, CheckUnlocked, FindLesson, ReadPercentage, ReadWatch, Judge,
      Write, Finish, Count, SaveEnrollment, Throw, SheetProgress, Edit, CreateLesson,
      DeleteLesson, DeleteChapter, ReorderLesson, ReorderChapter, vars
  <2>. QED  BY <1>1, <2>1
<1>. QED  BY <1>2, <1>3

LEMMA BeatsGrow ==
  ASSUME Typed, [Next]_vars, NEW s \in Student, NEW l \in Lesson, beats'[s][l] < MaxBeats
  PROVE  /\ beats[s][l] < MaxBeats
         /\ Reach(beats[s][l]) \in Nat /\ Reach(beats'[s][l]) \in Nat
         /\ Reach(beats[s][l]) <= Reach(beats'[s][l])
<1>1. beats[s][l] \in Nat
  BY BeatsStep
<1>2. CASE beats'[s][l] = beats[s][l]
  BY <1>1, <1>2, ReachGrows
<1>3. CASE beats'[s][l] = Least(beats[s][l] + 1, MaxBeats)
  <2>1. beats[s][l] < MaxBeats /\ beats'[s][l] = beats[s][l] + 1
    BY <1>1, <1>3, BeatAdvances
  <2>2. Reach(beats'[s][l]) = Reach(beats[s][l]) + MaxJump /\ Reach(beats[s][l]) \in Nat
    BY <1>1, <2>1, ReachGrows
  <2>. QED  BY <2>1, <2>2, CourseAssumption
<1>. QED  BY <1>2, <1>3, BeatsStep

LEMMA WithinReachPreserved ==
  ASSUME Typed, WithinReach, [Next]_vars
  PROVE  WithinReach'
<1>0. watched \in [Student -> [Lesson -> Nat]] /\ seen \in [Request -> Nat]
  BY DEF Typed, TypeOK
<1>1. ASSUME NEW s \in Student, NEW l \in Lesson, beats'[s][l] < MaxBeats
      PROVE  watched'[s][l] <= Reach(beats'[s][l])
  <2>1. /\ beats[s][l] < MaxBeats
        /\ Reach(beats[s][l]) \in Nat /\ Reach(beats'[s][l]) \in Nat
        /\ Reach(beats[s][l]) <= Reach(beats'[s][l])
    BY <1>1, BeatsGrow
  <2>2. CASE beats'[s][l] = beats[s][l] /\ watched'[s][l] = watched[s][l]
    BY <2>1, <2>2 DEF WithinReach
  <2>3. CASE \E r \in Request : /\ WriteWatch(r) /\ s = S(r) /\ L(r) = l
                               /\ beats'[s][l] = Least(beats[s][l] + 1, MaxBeats)
                               /\ watched'[s][l] = AppendWatch(seen[r], job[r].at, job[r].duration)
    <3>1. PICK r \in Request : /\ WriteWatch(r) /\ s = S(r) /\ L(r) = l
                               /\ beats'[s][l] = Least(beats[s][l] + 1, MaxBeats)
                               /\ watched'[s][l] = AppendWatch(seen[r], job[r].at, job[r].duration)
      BY <2>3
    <3>2. beats[s][l] \in Nat
      BY BeatsStep
    <3>3. Reach(beats'[s][l]) = Reach(beats[s][l]) + MaxJump
      BY <1>1, <3>1, <3>2, BeatAdvances, ReachGrows
    <3>4. seen[r] \in Nat /\ job[r].at \in Nat /\ job[r].duration \in Nat
      BY <1>0, <3>1, CallType DEF WriteWatch
    <3>5. /\ AppendWatch(seen[r], job[r].at, job[r].duration) <= seen[r] + MaxJump
          /\ AppendWatch(seen[r], job[r].at, job[r].duration) \in Nat
      BY <3>4, AppendReach, AppendWatchType
    <3>6. seen[r] <= Reach(beats[s][l])
      BY <2>1, <3>1 DEF WithinReach, WriteWatch
    <3>7. \A a, b, c, d \in Nat : a <= b + d /\ b <= c => a <= c + d
      OBVIOUS
    <3>. QED  BY <2>1, <3>1, <3>3, <3>4, <3>5, <3>6, <3>7, CourseAssumption
  <2>. QED  BY <2>2, <2>3, BeatsStep
<1>2. ASSUME NEW r \in Request, NEW l \in Lesson, pc'[r] = "append", L(r)' = l,
             beats'[S(r)][l] < MaxBeats
      PROVE  seen'[r] <= Reach(beats'[S(r)][l])
  <2>1. S(r) \in Student
    BY CourseAssumption DEF S
  <2>2. /\ beats[S(r)][l] < MaxBeats
        /\ Reach(beats[S(r)][l]) \in Nat /\ Reach(beats'[S(r)][l]) \in Nat
        /\ Reach(beats[S(r)][l]) <= Reach(beats'[S(r)][l])
    BY <1>2, <2>1, BeatsGrow
  <2>3. seen'[r] \in Nat /\ seen'[r] <= Reach(beats[S(r)][l])
    <3>1. CASE ReadWatch(r)
      <4>1. L(r) = l /\ seen'[r] = watched[S(r)][l]
        BY <1>0, <1>2, <3>1 DEF ReadWatch, L
      <4>. QED  BY <1>0, <2>1, <2>2, <4>1 DEF WithinReach
    <3>2. CASE ~ ReadWatch(r)
      <4>1. pc[r] = "append" /\ L(r) = l /\ seen'[r] = seen[r]
        <5>1. CASE Proceed(r)
          BY <1>2, <3>2, <5>1 DEF Proceed, FindEnrollment, CreateEnrollment, CancelEnrollment,
            CheckEnrolled, CheckAccess, CheckUnlocked, FindLesson, AfterFind, ReadPercentage,
            WriteWatch, Judge, Write, Finish, Count, SaveEnrollment, Typed, TypeOK, Goto
        <5>2. CASE \E q \in Request \ {r} : Proceed(q)
          BY <1>2, <5>2, ProceedFrame DEF L
        <5>3. CASE \E q \in Request : Arrive(q)
          BY <1>2, <5>3 DEF Arrive, Typed, TypeOK, Goto, L
        <5>4. CASE \E q \in Request : Throw(q)
          BY <1>2, <5>4 DEF Throw, Typed, TypeOK, Goto, L
        <5>5. CASE (\E s \in Student : SheetProgress(s)) \/ Edit \/ UNCHANGED vars
          BY <1>2, <5>5 DEF SheetProgress, Edit, CreateLesson, DeleteLesson, DeleteChapter,
            ReorderLesson, ReorderChapter, vars, L
        <5>. QED  BY <5>1, <5>2, <5>3, <5>4, <5>5 DEF Next
      <4>. QED  BY <1>0, <2>2, <4>1 DEF WithinReach
    <3>. QED  BY <3>1, <3>2
  <2>. QED  BY <2>2, <2>3
<1>. QED  BY <1>1, <1>2 DEF WithinReach

LEMMA WithinReachInitially == Init => WithinReach
<1>. SUFFICES ASSUME Init PROVE WithinReach
  OBVIOUS
<1>1. \A r \in Request : pc[r] = "new"
  BY DEF Init
<1>2. \A s \in Student, l \in Lesson : watched[s][l] = 0 /\ beats[s][l] = 0
  BY DEF Init
<1>3. Reach(0) = 0
  BY CourseAssumption DEF Reach
<1>. QED  BY <1>1, <1>2, <1>3 DEF WithinReach

\* However heartbeats overlap and whatever a player reports, a video is not
\* watched further than its heartbeats can carry (NoSkipping).
THEOREM NobodySkips == Spec => []NoSkipping
<1>1. Init => Typed /\ WithinReach
  BY TypeInitially, WithinReachInitially
<1>2. Typed /\ WithinReach /\ [Next]_vars => (Typed /\ WithinReach)'
  BY TypePreserved, WithinReachPreserved
<1>3. WithinReach => NoSkipping
  BY DEF WithinReach, NoSkipping, Reach
<1>. QED  BY <1>1, <1>2, <1>3, PTL DEF Spec

-----------------------------------------------------------------------------
(* Rounding and completion *)

\* Below 200 lessons the rounded percentage reaches 100 only with all of them.
LEMMA RoundingIsExact ==
  ASSUME NEW d \in Nat, NEW n \in Nat, 0 < n, n < 200, RoundPercent(d, n) >= 100
  PROVE  d >= n
<1>1. \A a, b \in Nat : b > 0 /\ a \div b >= 100 => a >= 100 * b
  OBVIOUS
<1>2. 200 * d + n \in Nat /\ 2 * n \in Nat /\ 2 * n > 0
  OBVIOUS
<1>3. 200 * d + n >= 100 * (2 * n)
  BY <1>1, <1>2 DEF RoundPercent
<1>. QED  BY <1>3

\* With 200 lessons one may be missing: the bound cannot be improved.
LEMMA RoundingLosesOneOf200 == RoundPercent(199, 200) = 100
BY DEF RoundPercent

\* In a course nobody edits, a count of 100 percent that is about to be saved,
\* and a saved COMPLETED, are of students who completed every lesson.
AllDone ==
  ~ edited =>
    /\ \A r \in Request : pc[r] = "save" /\ seen[r] >= 100 => lessons \subseteq everDone[S(r)]
    /\ CompletedMeansAll

LEMMA FullCount ==
  ASSUME Cardinality(Lesson) < 200, Typed, DoneWasDone, InOrder, ~ edited, NEW s \in Student,
         Percentage(s) >= 100
  PROVE  lessons \subseteq everDone[s]
<1>1. done[s] \subseteq lessons /\ lessons \subseteq Lesson
  BY DEF InOrder, DoneWasDone, Typed, TypeOK
<1>2. /\ IsFiniteSet(lessons) /\ Cardinality(lessons) \in Nat
      /\ IsFiniteSet(done[s]) /\ Cardinality(done[s]) \in Nat
      /\ lessons # {} => Cardinality(lessons) # 0
  BY LessonsFinite DEF Typed
<1>3. lessons # {} /\ RoundPercent(Cardinality(done[s]), Cardinality(lessons)) >= 100
  BY DEF Percentage
<1>4. Cardinality(lessons) < 200
  <2>1. Cardinality(lessons) <= Cardinality(Lesson) /\ Cardinality(Lesson) \in Nat
    BY <1>1, FS_Subset, FS_CardinalityType, CourseAssumption
  <2>. QED  BY <1>2, <2>1
<1>5. Cardinality(done[s]) >= Cardinality(lessons)
  BY <1>2, <1>3, <1>4, RoundingIsExact
<1>6. Cardinality(done[s]) <= Cardinality(lessons)
  BY <1>1, <1>2, FS_Subset
<1>7. Cardinality(done[s]) = Cardinality(lessons)
  BY <1>2, <1>5, <1>6
<1>8. done[s] = lessons
  BY <1>1, <1>2, <1>7, FS_Subset
<1>. QED  BY <1>8 DEF DoneWasDone

LEMMA AllDonePreserved ==
  ASSUME Cardinality(Lesson) < 200, Typed, DoneWasDone, InOrder, AllDone, [Next]_vars
  PROVE  AllDone'
<1>. SUFFICES ASSUME ~ edited'
     PROVE  /\ \A r \in Request : pc'[r] = "save" /\ seen'[r] >= 100 => lessons' \subseteq everDone'[S(r)]
            /\ \A s \in Student : status'[s] = "COMPLETED" => lessons' \subseteq everDone'[s]
  BY DEF AllDone, CompletedMeansAll
<1>1. course' = course /\ ~ edited
  BY NotEdited
<1>2. \A s \in Student : everDone[s] \subseteq everDone'[s]
  BY EverDoneGrows
<1>3. ASSUME NEW r \in Request, pc'[r] = "save", seen'[r] >= 100
      PROVE  lessons \subseteq everDone[S(r)]
  <2>1. CASE Count(r)
    <3>1. S(r) \in Student
      BY CourseAssumption DEF S
    <3>2. Percentage(S(r)) >= 100
      BY <1>3, <2>1 DEF Count, Typed, TypeOK
    <3>. QED  BY <1>1, <3>1, <3>2, FullCount
  <2>2. CASE ~ Count(r)
    <3>1. pc[r] = "save" /\ seen[r] >= 100
      <4>1. CASE Proceed(r)
        BY <1>3, <2>2, <4>1 DEF Proceed, FindEnrollment, CreateEnrollment, CancelEnrollment,
          CheckEnrolled, CheckAccess, CheckUnlocked, FindLesson, AfterFind, ReadPercentage,
          ReadWatch, WriteWatch, Judge, Write, Finish, SaveEnrollment, Typed, TypeOK, Goto
      <4>2. CASE \E q \in Request \ {r} : Proceed(q)
        BY <1>3, <4>2, ProceedFrame
      <4>3. CASE \E q \in Request : Arrive(q)
        BY <1>3, <4>3 DEF Arrive, Typed, TypeOK, Goto
      <4>4. CASE \E q \in Request : Throw(q)
        BY <1>3, <4>4 DEF Throw, Typed, TypeOK, Goto
      <4>5. CASE (\E s \in Student : SheetProgress(s)) \/ UNCHANGED vars
        BY <1>3, <4>5 DEF SheetProgress, vars
      <4>6. CASE Edit
        BY <1>3, <4>6 DEF Edit, CreateLesson, DeleteLesson, DeleteChapter, ReorderLesson,
                          ReorderChapter
      <4>. QED  BY <4>1, <4>2, <4>3, <4>4, <4>5, <4>6 DEF Next
    <3>. QED  BY <1>1, <3>1 DEF AllDone
  <2>. QED  BY <2>1, <2>2
<1>4. ASSUME NEW s \in Student, status'[s] = "COMPLETED"
      PROVE  lessons \subseteq everDone[s]
  <2>1. CASE status[s] = "COMPLETED"
    BY <1>1, <2>1 DEF AllDone, CompletedMeansAll
  <2>2. CASE status[s] # "COMPLETED"
    <3>1. \E r \in Request : pc[r] = "save" /\ seen[r] >= 100 /\ s = S(r)
      <4>1. CASE \E r \in Request : SaveEnrollment(r)
        BY <1>4, <2>2, <4>1 DEF SaveEnrollment, Typed, TypeOK
      <4>2. CASE \E r \in Request : CreateEnrollment(r) \/ CancelEnrollment(r)
        BY <1>4, <2>2, <4>2 DEF CreateEnrollment, CancelEnrollment, Typed, TypeOK
      <4>3. CASE status' = status
        BY <1>4, <2>2, <4>3
      <4>. QED  BY <4>1, <4>2, <4>3 DEF Next, Proceed, Arrive, FindEnrollment, CheckEnrolled,
        CheckAccess, CheckUnlocked, FindLesson, ReadPercentage, ReadWatch, WriteWatch, Judge,
        Write, Finish, Count, Throw, SheetProgress, Edit, CreateLesson, DeleteLesson,
        DeleteChapter, ReorderLesson, ReorderChapter, vars
    <3>. QED  BY <1>1, <3>1 DEF AllDone
  <2>. QED  BY <2>1, <2>2
<1>5. \A r \in Request : S(r) \in Student
  BY CourseAssumption DEF S
<1>. QED  BY <1>1, <1>2, <1>3, <1>4, <1>5

LEMMA AllDoneInitially == Init => AllDone
BY DEF Init, AllDone, CompletedMeansAll

\* In courses of fewer than 200 lessons an enrollment is COMPLETED only when
\* every lesson was, whatever calls overlap or fail (CompletedMeansAll); with
\* more, recalculateEnrollmentProgress rounds up too early.
THEOREM CompletedMeansCompleted ==
  ASSUME Cardinality(Lesson) < 200
  PROVE  Spec => []CompletedMeansAll
<1>. DEFINE Inv == Typed /\ DoneWasDone /\ InOrder /\ AllDone
<1>1. Init => Inv
  BY TypeInitially, InOrderInitially, AllDoneInitially
<1>2. Inv /\ [Next]_vars => Inv'
  BY TypePreserved, EverDoneGrows, InOrderPreserved, AllDonePreserved
<1>3. Inv => CompletedMeansAll
  BY DEF AllDone, CompletedMeansAll
<1>. QED  BY <1>1, <1>2, <1>3, PTL DEF Spec

-----------------------------------------------------------------------------
(***************************************************************************)
(* Nobody is stuck.  NoDeadEnd needs no history: of the lessons that are   *)
(* left in the tree, the first one is open, because all that its locks ask *)
(* for comes before it.  The first one is found by the order of chapters,  *)
(* their age, the order of lessons, their age.                             *)
(***************************************************************************)
LEMMA SmallestOf ==
  ASSUME NEW T \in SUBSET Nat, T # {}
  PROVE  \E n \in T : \A m \in T : n <= m
<1>1. PICK n \in T : \A m \in T : ~ (<<m, n>> \in OpToRel(<, Nat))
  BY NatLessThanWellFounded, WFMin
<1>2. ASSUME NEW m \in T PROVE n <= m
  <2>1. m < n => <<m, n>> \in OpToRel(<, Nat)
    <3>1. <<m, n>> \in Nat \X Nat /\ <<m, n>>[1] = m /\ <<m, n>>[2] = n
      OBVIOUS
    <3>. QED  BY <3>1 DEF OpToRel
  <2>2. ~ (m < n)
    BY <1>1, <2>1, Zenon
  <2>. QED  BY <2>2
<1>. QED  BY <1>2

LEMMA FirstLesson ==
  ASSUME TypeOK, NEW T \in SUBSET Lesson, T # {}
  PROVE  \E l \in T : \A k \in T : ~ Before(k, l)
<1>0. /\ ChapterOf \in [Lesson -> Chapter] /\ Lesson \subseteq Nat /\ Chapter \subseteq Nat
      /\ chapterIndex \in [Chapter -> Nat] /\ lessonIndex \in [Lesson -> Nat]
  BY CourseAssumption DEF TypeOK
<1> DEFINE At(l) == chapterIndex[ChapterOf[l]]
<1>1. PICK a \in T : \A k \in T : At(a) <= At(k)
  <2> DEFINE N == {At(l) : l \in T}
  <2>1. N \in SUBSET Nat /\ N # {}
    BY <1>0
  <2>2. PICK n \in N : \A m \in N : n <= m
    BY <2>1, SmallestOf
  <2>. QED  BY <2>2
<1>2. PICK b \in T : /\ At(b) = At(a)
                     /\ \A k \in T : At(k) = At(a) => ChapterOf[b] <= ChapterOf[k]
  <2> DEFINE N == {ChapterOf[l] : l \in {k \in T : At(k) = At(a)}}
  <2>1. N \in SUBSET Nat /\ N # {}
    BY <1>0
  <2>2. PICK n \in N : \A m \in N : n <= m
    BY <2>1, SmallestOf
  <2>. QED  BY <2>2
<1>3. PICK c \in T : /\ ChapterOf[c] = ChapterOf[b]
                     /\ \A k \in T : ChapterOf[k] = ChapterOf[b] => lessonIndex[c] <= lessonIndex[k]
  <2> DEFINE N == {lessonIndex[l] : l \in {k \in T : ChapterOf[k] = ChapterOf[b]}}
  <2>1. N \in SUBSET Nat /\ N # {}
    BY <1>0
  <2>2. PICK n \in N : \A m \in N : n <= m
    BY <2>1, SmallestOf
  <2>. QED  BY <2>2
<1>4. PICK d \in T : /\ ChapterOf[d] = ChapterOf[b] /\ lessonIndex[d] = lessonIndex[c]
                     /\ \A k \in T : ChapterOf[k] = ChapterOf[b] /\ lessonIndex[k] = lessonIndex[c] => d <= k
  <2> DEFINE N == {l \in T : ChapterOf[l] = ChapterOf[b] /\ lessonIndex[l] = lessonIndex[c]}
  <2>1. N \in SUBSET Nat /\ N # {}
    BY <1>0, <1>3
  <2>2. PICK n \in N : \A m \in N : n <= m
    BY <2>1, SmallestOf
  <2>. QED  BY <2>2
<1>5. ASSUME NEW k \in T PROVE ~ Before(k, d)
  <2>1. /\ chapterIndex[ChapterOf[k]] \in Nat /\ chapterIndex[ChapterOf[d]] \in Nat
        /\ ChapterOf[k] \in Nat /\ ChapterOf[d] \in Nat
        /\ lessonIndex[k] \in Nat /\ lessonIndex[d] \in Nat /\ k \in Nat /\ d \in Nat
    BY <1>0
  <2>2. ~ ChapterBefore(ChapterOf[k], ChapterOf[d])
    BY <1>1, <1>2, <1>4, <2>1 DEF ChapterBefore
  <2>3. ChapterOf[k] = ChapterOf[d] =>
          ~ (lessonIndex[k] < lessonIndex[d]) /\ ~ (lessonIndex[k] = lessonIndex[d] /\ k < d)
    BY <1>3, <1>4, <2>1
  <2>. QED  BY <2>2, <2>3 DEF Before
<1>. QED  BY <1>5

\* CourseProgress!NoDeadEnd for every instance: whatever instructors add,
\* remove and reorder and students undo, who has a lesson left in the tree
\* has one that is open.
THEOREM NobodyIsStuck == Spec => []NoDeadEnd
<1>1. ASSUME TypeOK, NEW s \in Student,
             NEW T, T = {l \in lessons : InTree(l)} \ done[s], T # {}
      PROVE  \E l \in T : Unlocked(l, done[s])
  <2>1. T \in SUBSET Lesson
    BY <1>1 DEF TypeOK
  <2>2. PICK l \in T : \A k \in T : ~ Before(k, l)
    BY <1>1, <2>1, FirstLesson
  <2>3. InTree(l)
    BY <1>1
  <2>4. ASSUME NEW k \in lessons, InTree(k), Before(k, l)
        PROVE  k \in done[s]
    BY <1>1, <2>2, <2>4
  <2>5. Previous(l) \subseteq done[s]
    BY <2>4 DEF Previous
  <2>6. ChapterOpen(l, done[s])
    <3> SUFFICES ASSUME NEW k \in lessons, ChapterOf[k] \in PreviousChapter(ChapterOf[l])
                 PROVE  k \in done[s]
      BY DEF ChapterOpen
    <3>1. InTree(k) /\ Before(k, l)
      BY DEF PreviousChapter, InTree, Before
    <3>. QED  BY <2>4, <3>1
  <2>. QED  BY <2>3, <2>5, <2>6 DEF Unlocked, InSequence
<1>2. TypeOK => NoDeadEnd
  <2> SUFFICES ASSUME TypeOK, NEW s \in Student,
                      {l \in lessons : InTree(l)} \ done[s] # {}
               PROVE  \E l \in {l \in lessons : InTree(l)} \ done[s] :
                        l \in Previewable \/ Unlocked(l, done[s])
    BY DEF NoDeadEnd
  <2>. QED  BY <1>1
<1>. QED  BY <1>2, ProgressTypeCorrect, PTL

-----------------------------------------------------------------------------
(***************************************************************************)
(* Percentages settle.  A count that waits to be saved is still right,     *)
(* unless its student is marked: every change of a row that overtakes it   *)
(* marks the student.                                                      *)
(***************************************************************************)
Quiet(s) == \A r \in Request : S(r) = s => pc[r] \notin {"count", "save"}

Settling ==
  ~ edited => \A s \in Student \ stale :
    /\ \A r \in Request : S(r) = s /\ pc[r] = "save" => seen[r] = Percentage(s)
    /\ Quiet(s) => percent[s] = Percentage(s)

LEMMA NothingDone ==
  ASSUME NEW n \in Nat, n # 0
  PROVE  RoundPercent(0, n) = 0
<1>1. \A b \in Nat : b > 0 => b \div (2 * b) = 0
  OBVIOUS
<1>. QED  BY <1>1 DEF RoundPercent

LEMMA SettlingInitially == Init => Settling
<1> SUFFICES ASSUME Init, NEW s \in Student
             PROVE  /\ \A r \in Request : pc[r] # "save"
                    /\ percent[s] = Percentage(s)
  BY DEF Settling
<1>1. TypeOK
  BY TypeInitially DEF Typed
<1>2. done[s] = {} /\ percent[s] = 0
  BY DEF Init
<1>3. Percentage(s) = 0
  BY <1>1, <1>2, LessonsFinite, FS_EmptySet, NothingDone DEF Percentage
<1>. QED  BY <1>2, <1>3 DEF Init

\* A step that leaves the rows of the course and brings no call to a count or
\* away from one.
LEMMA SettlingFrame ==
  ASSUME Settling, course' = course, UNCHANGED <<percent, done>>, stale \subseteq stale',
         \A r \in Request :
           \/ S(r) \in stale'
           \/ /\ pc'[r] = "save" => pc[r] = "save" /\ seen'[r] = seen[r]
              /\ pc[r] \in {"count", "save"} => pc'[r] \in {"count", "save"}
  PROVE  Settling'
<1>1. \A s \in Student : Percentage(s)' = Percentage(s)
  BY DEF Percentage
<1>2. \A s \in Student \ stale' : Quiet(s)' => Quiet(s)
  BY DEF Quiet
<1>. QED  BY <1>1, <1>2 DEF Settling

LEMMA SettlingProceed ==
  ASSUME Typed, Settling, NEW r \in Request, Proceed(r)
  PROVE  Settling'
<1>0. /\ TypeOK /\ pc \in [Request -> Location] /\ seen \in [Request -> Nat]
      /\ S(r) \in Student /\ course' = course
      /\ \A q \in Request \ {r} : pc'[q] = pc[q] /\ seen'[q] = seen[q]
  BY ProceedFrame, CourseAssumption DEF Typed, TypeOK, S
<1>1. CASE Write(r) \/ Finish(r)
  <2>1. /\ pc'[r] = "count" /\ UNCHANGED <<percent, seen>>
        /\ stale' = IF Counted(r) THEN stale \cup {S(r)} ELSE stale
        /\ \A s \in Student : s # S(r) => done'[s] = done[s]
        /\ pc[r] # "save" /\ pc[r] # "count"
    <3>1. CASE Write(r)
      BY <1>0, <3>1, SetDoneEffect DEF Write, SetDone, Goto
    <3>2. CASE Finish(r)
      BY <1>0, <3>2, SetDoneEffect DEF Finish, SetDone, Goto
    <3>. QED  BY <1>1, <3>1, <3>2
  <2> SUFFICES ASSUME ~ edited', NEW s \in Student \ stale'
               PROVE  /\ \A q \in Request : S(q) = s /\ pc'[q] = "save" => seen'[q] = Percentage(s)'
                      /\ Quiet(s)' => percent'[s] = Percentage(s)'
    BY DEF Settling
  <2>2. ~ edited /\ s \notin stale
    BY <1>0, <2>1
  <2>3. CASE s = S(r)
    <3>1. ~ Counted(r)
      BY <2>1, <2>3
    <3>2. \A q \in Request : S(q) = s => pc'[q] # "save"
      BY <1>0, <2>1, <2>3, <3>1 DEF Counted
    <3>3. ~ Quiet(s)'
      BY <2>1, <2>3 DEF Quiet, S
    <3>. QED  BY <3>2, <3>3
  <2>4. CASE s # S(r)
    <3>1. Percentage(s)' = Percentage(s)
      BY <1>0, <2>1, <2>4 DEF Percentage
    <3>2. Quiet(s)' => Quiet(s)
      BY <1>0, <2>1, <2>4 DEF Quiet
    <3>3. \A q \in Request : S(q) = s => q # r
      BY <2>4
    <3>. QED  BY <1>0, <2>1, <2>2, <3>1, <3>2, <3>3 DEF Settling
  <2>. QED  BY <2>3, <2>4
<1>2. CASE Count(r)
  <2>1. /\ pc'[r] = "save" /\ seen'[r] = Percentage(S(r)) /\ UNCHANGED <<percent, done, stale>>
    BY <1>0, <1>2 DEF Count, Goto
  <2>2. \A s \in Student : Percentage(s)' = Percentage(s)
    BY <1>0, <2>1 DEF Percentage
  <2>3. ~ Quiet(S(r))'
    BY <2>1 DEF Quiet, S
  <2>4. \A s \in Student : s # S(r) /\ Quiet(s)' => Quiet(s)
    BY <1>0 DEF Quiet
  <2>. QED  BY <1>0, <2>1, <2>2, <2>3, <2>4 DEF Settling
<1>3. CASE SaveEnrollment(r)
  <2>1. /\ pc[r] = "save" /\ pc'[r] = "ok" /\ percent' = [percent EXCEPT ![S(r)] = seen[r]]
        /\ UNCHANGED <<done, stale>>
    BY <1>0, <1>3 DEF SaveEnrollment, Goto
  <2>2. \A s \in Student : Percentage(s)' = Percentage(s)
    BY <1>0, <2>1 DEF Percentage
  <2>3. \A s \in Student : s # S(r) /\ Quiet(s)' => Quiet(s)
    BY <1>0 DEF Quiet
  <2>4. percent'[S(r)] = seen[r] /\ \A s \in Student : s # S(r) => percent'[s] = percent[s]
    BY <1>0, <2>1 DEF TypeOK
  <2>. QED  BY <1>0, <2>1, <2>2, <2>3, <2>4 DEF Settling
<1>4. CASE ~ (Write(r) \/ Finish(r) \/ Count(r) \/ SaveEnrollment(r))
  <2>1. /\ pc'[r] # "save" /\ pc[r] \notin {"count", "save"}
        /\ UNCHANGED <<percent, done, stale>>
    <3>1. CASE FindLesson(r) \/ Judge(r)
      BY <1>0, <3>1 DEF FindLesson, AfterFind, Judge, Goto
    <3>2. CASE ~ (FindLesson(r) \/ Judge(r))
      BY <1>0, <1>4, <3>2 DEF Proceed, FindEnrollment, CreateEnrollment, CancelEnrollment,
        CheckEnrolled, CheckAccess, CheckUnlocked, ReadPercentage, ReadWatch, WriteWatch, Goto
    <3>. QED  BY <3>1, <3>2
  <2>. QED  BY <1>0, <2>1, SettlingFrame
<1>. QED  BY <1>1, <1>2, <1>3, <1>4

LEMMA SettlingPreserved ==
  ASSUME Typed, Settling, [Next]_vars
  PROVE  Settling'
<1>0. TypeOK /\ pc \in [Request -> Location]
  BY DEF Typed, TypeOK
<1>1. CASE \E r \in Request : Proceed(r)
  BY <1>1, SettlingProceed
<1>2. CASE \E r \in Request : Arrive(r)
  <2>1. PICK r \in Request : Arrive(r)
    BY <1>2
  <2>2. /\ pc[r] \notin {"count", "save"} /\ pc'[r] # "save"
        /\ \A q \in Request \ {r} : pc'[q] = pc[q]
        /\ course' = course /\ UNCHANGED <<percent, done, stale, seen>>
    BY <1>0, <2>1 DEF Arrive, Ended, Goto
  <2>. QED  BY <2>2, SettlingFrame
<1>3. CASE \E r \in Request : Throw(r)
  <2>1. PICK r \in Request : Throw(r)
    BY <1>3
  <2>2. /\ pc[r] \in {"count", "save"} => S(r) \in stale'
        /\ pc'[r] # "save" /\ \A q \in Request \ {r} : pc'[q] = pc[q] /\ seen'[q] = seen[q]
        /\ course' = course /\ UNCHANGED <<percent, done>> /\ stale \subseteq stale'
    BY <1>0, <2>1 DEF Throw, Goto, TypeOK
  <2>. QED  BY <2>2, SettlingFrame
<1>4. CASE (\E s \in Student : SheetProgress(s)) \/ UNCHANGED vars
  <2>1. course' = course /\ UNCHANGED <<percent, done, stale, pc, seen>>
    BY <1>4 DEF SheetProgress, vars
  <2>. QED  BY <2>1, SettlingFrame
<1>5. CASE Edit
  BY <1>5 DEF Edit, CreateLesson, DeleteLesson, DeleteChapter, ReorderLesson, ReorderChapter,
              Settling
<1>. QED  BY <1>1, <1>2, <1>3, <1>4, <1>5 DEF Next

\* CourseProgress!PercentageSettles for every instance: in a course nobody
\* edits the saved percentage is that of the rows once the calls are over,
\* unless the student is marked as overtaken or failed.
THEOREM PercentagesSettle == Spec => []PercentageSettles
<1>1. Settling => PercentageSettles
  BY DEF Settling, Quiet, PercentageSettles
<1>. QED  BY <1>1, SettlingInitially, SettlingPreserved, TypedAlways, PTL DEF Spec

=============================================================================
