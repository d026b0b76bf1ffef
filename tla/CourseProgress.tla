--------------------------- MODULE CourseProgress ---------------------------
(***************************************************************************)
(* Enrollment and lesson progress of one course of the lms microservice    *)
(* (services/lms/src/course/enroll, services/lms/src/course/progress).     *)
(*                                                                         *)
(* A request is one NATS call: enrollCourse, cancelEnrollment,             *)
(* markLessonComplete (complete or undo) or updateLessonWatchProgress.     *)
(* Requests of one student overlap: the player sends a heartbeat every few *)
(* seconds while the student clicks.  Every database operation is an       *)
(* action; the reads of one decision that no request of a student can      *)
(* change between them are one action.  Instructors edit the course while  *)
(* students are in it.  The resume pointer (lastLessonId) and the times    *)
(* are left out, and the student does not own the course.                  *)
(***************************************************************************)
EXTENDS Integers, FiniteSets

CONSTANTS
  Student, Sheet, Request,
  Lesson, Chapter,   \* documents, numbered in the order of their creation
  StudentOf,         \* the student each request slot belongs to
  Jobs,              \* what a request may ask: [op, lesson, at, duration]
  ChapterOf,
  LessonOrder,       \* index fields of the course at the start
  ChapterOrder,
  Index,             \* bound: the index values instructors choose from
  Initially,         \* lessons there are at the start
  Previewable,       \* lessons open to everybody
  Public,            \* visibility of the course
  HasVideo,          \* lessons with a video
  MaxJump,           \* how far ahead of the watched part a heartbeat may be
  MaxBeats,          \* bound: heartbeats are counted up to here
  Required,          \* published problem sheets of each lesson
  Edits,             \* what instructors do: "add", "remove", "reorder", "chapter"
  Faults             \* "db": a database operation may throw

Op == {"enroll", "cancel", "complete", "undo", "watch"}

ASSUME CourseAssumption ==
  /\ Lesson \subseteq Nat \ {0} /\ IsFiniteSet(Lesson)
  /\ Chapter \subseteq Nat /\ Index \subseteq Nat
  /\ StudentOf \in [Request -> Student]
  /\ Jobs \subseteq [op : Op, lesson : Lesson, at : Nat, duration : Nat]
  /\ ChapterOf \in [Lesson -> Chapter]
  /\ LessonOrder \in [Lesson -> Nat] /\ ChapterOrder \in [Chapter -> Nat]
  /\ Initially \subseteq Lesson
  /\ Previewable \subseteq Lesson /\ HasVideo \subseteq Lesson
  /\ Public \in BOOLEAN
  /\ MaxJump \in Nat /\ MaxBeats \in Nat
  /\ Required \in [Lesson -> SUBSET Sheet]
  /\ Edits \subseteq {"add", "remove", "reorder", "chapter"}
  /\ Faults \subseteq {"db"}

VARIABLES
  status,       \* enrollment of a student: "none" when there is no row
  percent,      \* its progressPercentage
  done,         \* lesson progress rows of a student with completed = true,
  watched,      \* the end of their watched segment, in seconds,
  shown,        \* and their watchedPercentage
  solved,       \* sheets whose sheet_progress row says completed
  lessons,      \* the course: its lesson documents,
  chapters,     \* its chapter documents
  lessonIndex,  \* and their index fields
  chapterIndex,
  pc,
  job,          \* what a request was called with
  seen,         \* what it read last
  everDone,     \* history: lessons a student has ever completed
  everSolved,   \* history: sheets a student has ever solved
  peak,         \* history: the highest watchedPercentage there was
  beats,        \* history: heartbeats that were written
  stale,        \* history: students whose saved percentage may be outdated
  removed,      \* history: lessons that were deleted
  edited        \* history: the course was edited

rows    == <<status, percent, done, watched, shown, solved>>
course  == <<lessons, chapters, lessonIndex, chapterIndex, removed, edited>>
history == <<everDone, everSolved, peak, beats, stale>>
vars    == <<rows, course, pc, job, seen, history>>

EnrollmentStatus == {"none", "ACTIVE", "COMPLETED", "CANCELED"}
Ended == {"ok", "failed"}
Location == Ended \cup {"new", "enroll", "create", "cancel", "enrolled", "access",
  "unlock", "find", "percent", "write", "read", "append", "judge", "finish",
  "count", "save"}

NoJob == [op |-> "none", lesson |-> 0, at |-> 0, duration |-> 0]

S(r) == StudentOf[r]
L(r) == job[r].lesson
Goto(r, l) == pc' = [pc EXCEPT ![r] = l]

\* Definitions whose name ends in Bug are what the definition after them
\* would be with a plausible mistake in the code; no specification uses them.

-----------------------------------------------------------------------------
(* Order and locks: lesson-sequence.util.ts, over the tree of chapters *)

\* Documents with equal indexes come in the order of their creation.
ChapterBefore(c, d) ==
  \/ chapterIndex[c] < chapterIndex[d]
  \/ chapterIndex[c] = chapterIndex[d] /\ c < d

Before(k, l) ==
  \/ ChapterBefore(ChapterOf[k], ChapterOf[l])
  \/ /\ ChapterOf[k] = ChapterOf[l]
     /\ \/ lessonIndex[k] < lessonIndex[l]
        \/ lessonIndex[k] = lessonIndex[l] /\ k < l

\* buildCourseLessonTree: a lesson whose chapter is gone is in no chapter.
InTree(l) == l \in lessons /\ ChapterOf[l] \in chapters

Previous_OrphansBug(l) ==
  {k \in lessons : Before(k, l) /\ \A j \in lessons : Before(j, l) => ~ Before(k, j)}

\* flattenLessonOrder: the lesson just before l; none for the first.
Previous(l) ==
  {k \in lessons : /\ InTree(k) /\ Before(k, l)
                   /\ \A j \in lessons : InTree(j) /\ Before(j, l) => ~ Before(k, j)}

PreviousChapter(c) ==
  {d \in chapters : /\ ChapterBefore(d, c)
                    /\ \A e \in chapters : ChapterBefore(e, c) => ~ ChapterBefore(d, e)}

\* isLessonUnlockedInSequence
InSequence(l, completed) == InTree(l) /\ Previous(l) \subseteq completed

\* isChapterUnlocked
ChapterOpen(l, completed) ==
  \A k \in lessons : ChapterOf[k] \in PreviousChapter(ChapterOf[l]) => k \in completed

Unlocked(l, completed) == ChapterOpen(l, completed) /\ InSequence(l, completed)

-----------------------------------------------------------------------------
(* Watching: lesson-watch.util.ts and lesson-progression.engine.ts *)

\* Math.round(part / whole * 100)
RoundPercent(part, whole) == (200 * part + whole) \div (2 * whole)

Least(a, b) == IF a < b THEN a ELSE b
Greatest(a, b) == IF a < b THEN b ELSE a

AppendWatch_NoJumpLimitBug(end, at, duration) == Greatest(end, Least(at, duration))

\* appendWatchSegment: a new segment starts where the last one ends, so that
\* merging leaves one segment from the start; a position too far ahead leaves
\* it as it is.
AppendWatch(end, at, duration) ==
  IF at > end + MaxJump THEN end ELSE Greatest(end, Least(at, duration))

WatchedPercentage_NoCapBug(end, duration) == RoundPercent(end, duration)

\* computeWatchedPercentage, of the duration the player reports.
WatchedPercentage(end, duration) == Least(100, RoundPercent(end, duration))

Threshold == 90   \* LESSON_WATCH_COMPLETE_THRESHOLD

CanMarkComplete_NoVideoBug(l, percentage, sheets) == Required[l] \subseteq sheets

\* evaluateLessonCompletion, with the requirements its callers pass.
CanMarkComplete(l, percentage, sheets) ==
  /\ l \in HasVideo => percentage >= Threshold
  /\ Required[l] \subseteq sheets

-----------------------------------------------------------------------------
Init ==
  /\ status = [s \in Student |-> "none"]
  /\ percent = [s \in Student |-> 0]
  /\ done = [s \in Student |-> {}]
  /\ watched = [s \in Student |-> [l \in Lesson |-> 0]]
  /\ shown = [s \in Student |-> [l \in Lesson |-> 0]]
  /\ solved = [s \in Student |-> {}]
  /\ lessons = Initially
  /\ chapters = Chapter
  /\ lessonIndex = LessonOrder
  /\ chapterIndex = ChapterOrder
  /\ pc = [r \in Request |-> "new"]
  /\ job = [r \in Request |-> NoJob]
  /\ seen = [r \in Request |-> 0]
  /\ everDone = [s \in Student |-> {}]
  /\ everSolved = [s \in Student |-> {}]
  /\ peak = [s \in Student |-> [l \in Lesson |-> 0]]
  /\ beats = [s \in Student |-> [l \in Lesson |-> 0]]
  /\ stale = {}
  /\ removed = {}
  /\ edited = FALSE

\* A call arrives where none is under way.
Arrive(r) ==
  /\ pc[r] \in Ended \cup {"new"}
  /\ \E j \in Jobs :
       /\ job' = [job EXCEPT ![r] = j]
       /\ Goto(r, IF j.op \in {"enroll", "cancel"} THEN j.op ELSE "enrolled")
  /\ UNCHANGED <<rows, course, seen, history>>

-----------------------------------------------------------------------------
(* enrollCourse, cancelEnrollment, isEnrolled *)

\* A row that exists is returned as it is, whatever its status.
FindEnrollment(r) ==
  /\ pc[r] = "enroll"
  /\ Goto(r, IF status[S(r)] = "none" THEN "create" ELSE "ok")
  /\ UNCHANGED <<rows, course, job, seen, history>>

\* The unique index on { userId, courseId } rejects the second of two creates.
CreateEnrollment(r) ==
  /\ pc[r] = "create"
  /\ \/ /\ status[S(r)] = "none"
        /\ status' = [status EXCEPT ![S(r)] = "ACTIVE"]
        /\ Goto(r, "ok")
     \/ /\ status[S(r)] # "none"
        /\ Goto(r, "failed")
        /\ UNCHANGED status
  /\ UNCHANGED <<percent, done, watched, shown, solved, course, job, seen, history>>

IsEnrolled(s) == status[s] \in {"ACTIVE", "COMPLETED"}

CancelEnrollment(r) ==
  /\ pc[r] = "cancel"
  /\ status' = IF IsEnrolled(S(r)) THEN [status EXCEPT ![S(r)] = "CANCELED"] ELSE status
  /\ Goto(r, "ok")
  /\ UNCHANGED <<percent, done, watched, shown, solved, course, job, seen, history>>

CheckEnrolled(r) ==
  /\ pc[r] = "enrolled"
  /\ Goto(r, IF IsEnrolled(S(r)) THEN "access" ELSE "failed")
  /\ UNCHANGED <<rows, course, job, seen, history>>

-----------------------------------------------------------------------------
(* getLessonAccess, findLessonInCourse *)

CheckAccess_NoUnlockBug(r) ==
  /\ pc[r] = "access"
  /\ Goto(r, IF L(r) \in lessons /\ (Public \/ IsEnrolled(S(r))) THEN "find" ELSE "failed")
  /\ UNCHANGED <<rows, course, job, seen, history>>

CheckAccess(r) ==
  /\ pc[r] = "access"
  /\ Goto(r, IF L(r) \notin lessons THEN "failed"
             ELSE IF L(r) \in Previewable THEN "find"
             ELSE IF Public \/ IsEnrolled(S(r)) THEN "unlock"
             ELSE "failed")
  /\ UNCHANGED <<rows, course, job, seen, history>>

CheckUnlocked(r) ==
  /\ pc[r] = "unlock"
  /\ Goto(r, IF Unlocked(L(r), done[S(r)]) THEN "find" ELSE "failed")
  /\ UNCHANGED <<rows, course, job, seen, history>>

AfterFind(r) ==
  CASE job[r].op = "complete" -> "percent"
    [] job[r].op = "undo"     -> "write"
    [] OTHER -> IF job[r].duration = 0 THEN "failed" ELSE "read"

FindLesson(r) ==
  /\ pc[r] = "find"
  /\ Goto(r, IF L(r) \in lessons THEN AfterFind(r) ELSE "failed")
  /\ UNCHANGED <<rows, course, job, seen, history>>

-----------------------------------------------------------------------------
(* markLessonComplete, updateLessonWatchProgress *)

ReadPercentage(r) ==
  /\ pc[r] = "percent"
  /\ seen' = [seen EXCEPT ![r] = shown[S(r)][L(r)]]
  /\ Goto(r, "judge")
  /\ UNCHANGED <<rows, course, job, history>>

\* getLessonSheetRequirements and the engine: complete is refused, a
\* heartbeat completes nothing.
Judge(r) ==
  /\ pc[r] = "judge"
  /\ Goto(r, IF CanMarkComplete(L(r), seen[r], solved[S(r)])
             THEN IF job[r].op = "complete" THEN "write" ELSE "finish"
             ELSE IF job[r].op = "complete" THEN "failed" ELSE "ok")
  /\ UNCHANGED <<rows, course, job, seen, history>>

\* Another request of the student has counted and not saved yet.
Counted(r) == \E q \in Request \ {r} : S(q) = S(r) /\ pc[q] = "save"

SetDone(r, lessonsDone) ==
  /\ done' = [done EXCEPT ![S(r)] = lessonsDone]
  /\ everDone' = [everDone EXCEPT ![S(r)] = @ \cup lessonsDone]
  /\ stale' = IF Counted(r) THEN stale \cup {S(r)} ELSE stale

\* The upsert of markLessonComplete.
Write(r) ==
  /\ pc[r] = "write"
  /\ SetDone(r, IF job[r].op = "complete" THEN done[S(r)] \cup {L(r)}
                                          ELSE done[S(r)] \ {L(r)})
  /\ Goto(r, "count")
  /\ UNCHANGED <<status, percent, watched, shown, solved, course, job, seen,
                 everSolved, peak, beats>>

ReadWatch(r) ==
  /\ pc[r] = "read"
  /\ seen' = [seen EXCEPT ![r] = watched[S(r)][L(r)]]
  /\ Goto(r, "append")
  /\ UNCHANGED <<rows, course, job, history>>

\* The segment read before is written back with the new part; the row that
\* comes back says whether the lesson is completed.
WriteWatch(r) ==
  /\ pc[r] = "append"
  /\ LET end == AppendWatch(seen[r], job[r].at, job[r].duration)
         percentage == WatchedPercentage(end, job[r].duration)
     IN  /\ watched' = [watched EXCEPT ![S(r)][L(r)] = end]
         /\ shown' = [shown EXCEPT ![S(r)][L(r)] = percentage]
         /\ peak' = [peak EXCEPT ![S(r)][L(r)] = Greatest(@, percentage)]
         /\ seen' = [seen EXCEPT ![r] = percentage]
  /\ beats' = [beats EXCEPT ![S(r)][L(r)] = Least(@ + 1, MaxBeats)]
  /\ Goto(r, IF L(r) \in done[S(r)] THEN "ok" ELSE "judge")
  /\ UNCHANGED <<status, percent, done, solved, course, job, everDone, everSolved, stale>>

Finish_NoRecountBug(r) ==
  /\ pc[r] = "finish"
  /\ SetDone(r, done[S(r)] \cup {L(r)})
  /\ Goto(r, "ok")
  /\ UNCHANGED <<status, percent, watched, shown, solved, course, job, seen,
                 everSolved, peak, beats>>

\* doc.save() of the row read at WriteWatch.
Finish(r) ==
  /\ pc[r] = "finish"
  /\ SetDone(r, done[S(r)] \cup {L(r)})
  /\ Goto(r, "count")
  /\ UNCHANGED <<status, percent, watched, shown, solved, course, job, seen,
                 everSolved, peak, beats>>

-----------------------------------------------------------------------------
(* recalculateEnrollmentProgress *)

Percentage_DoneOnlyBug(s) ==
  IF done[s] = {} THEN 0 ELSE RoundPercent(Cardinality(done[s]), Cardinality(done[s]))

\* Every completed row of the course counts, also that of a deleted lesson.
Percentage(s) ==
  IF lessons = {} THEN 0 ELSE RoundPercent(Cardinality(done[s]), Cardinality(lessons))

Count(r) ==
  /\ pc[r] = "count"
  /\ seen' = [seen EXCEPT ![r] = Percentage(S(r))]
  /\ Goto(r, "save")
  /\ UNCHANGED <<rows, course, job, history>>

\* The filter does not ask for a status: a row that was canceled since is
\* completed all the same.
SaveEnrollment(r) ==
  /\ pc[r] = "save"
  /\ percent' = [percent EXCEPT ![S(r)] = seen[r]]
  /\ status' = IF seen[r] >= 100 THEN [status EXCEPT ![S(r)] = "COMPLETED"] ELSE status
  /\ Goto(r, "ok")
  /\ seen' = [seen EXCEPT ![r] = 0]
  /\ UNCHANGED <<done, watched, shown, solved, course, job, history>>

\* A database operation throws and the call fails where it is.
Throw(r) ==
  /\ "db" \in Faults
  /\ pc[r] \notin Ended \cup {"new"}
  /\ Goto(r, "failed")
  /\ seen' = [seen EXCEPT ![r] = 0]
  /\ stale' = IF pc[r] \in {"count", "save"} THEN stale \cup {S(r)} ELSE stale
  /\ UNCHANGED <<rows, course, job, everDone, everSolved, peak, beats>>

-----------------------------------------------------------------------------
(* The rest of the system *)

\* A sheet_progress row is rewritten, complete or not (two submissions that
\* overlap may write an older count last).
SheetProgress(s) ==
  /\ \E sheets \in SUBSET Sheet :
       /\ sheets # solved[s]
       /\ solved' = [solved EXCEPT ![s] = sheets]
       /\ everSolved' = [everSolved EXCEPT ![s] = @ \cup sheets]
  /\ UNCHANGED <<status, percent, done, watched, shown, course, pc, job, seen,
                 everDone, peak, beats, stale>>

\* createLesson needs the chapter; the index is the one the caller gives.
CreateLesson(l) ==
  /\ "add" \in Edits
  /\ l \notin lessons \cup removed /\ ChapterOf[l] \in chapters
  /\ lessons' = lessons \cup {l}
  /\ \E i \in Index : lessonIndex' = [lessonIndex EXCEPT ![l] = i]
  /\ edited' = TRUE
  /\ UNCHANGED <<chapters, chapterIndex, removed, rows, pc, job, seen, history>>

\* deleteLesson leaves the progress rows.
DeleteLesson(l) ==
  /\ "remove" \in Edits
  /\ l \in lessons
  /\ lessons' = lessons \ {l}
  /\ removed' = removed \cup {l}
  /\ edited' = TRUE
  /\ UNCHANGED <<chapters, lessonIndex, chapterIndex, rows, pc, job, seen, history>>

\* deleteChapter leaves the lessons.  Bound: the last chapter stays (without
\* chapters the code shows all lessons as one).
DeleteChapter(c) ==
  /\ "chapter" \in Edits
  /\ c \in chapters /\ chapters # {c}
  /\ chapters' = chapters \ {c}
  /\ edited' = TRUE
  /\ UNCHANGED <<lessons, lessonIndex, chapterIndex, removed, rows, pc, job, seen, history>>

\* reorderLessons and reorderChapters: one of the updates they send at once,
\* to any index.
ReorderLesson(l) ==
  /\ "reorder" \in Edits
  /\ l \in lessons
  /\ \E i \in Index : lessonIndex' = [lessonIndex EXCEPT ![l] = i]
  /\ edited' = TRUE
  /\ UNCHANGED <<lessons, chapters, chapterIndex, removed, rows, pc, job, seen, history>>

ReorderChapter(c) ==
  /\ "reorder" \in Edits
  /\ c \in chapters
  /\ \E i \in Index : chapterIndex' = [chapterIndex EXCEPT ![c] = i]
  /\ edited' = TRUE
  /\ UNCHANGED <<lessons, chapters, lessonIndex, removed, rows, pc, job, seen, history>>

Edit ==
  \/ \E l \in Lesson : CreateLesson(l) \/ DeleteLesson(l) \/ ReorderLesson(l)
  \/ \E c \in Chapter : DeleteChapter(c) \/ ReorderChapter(c)

Proceed(r) ==
  \/ FindEnrollment(r) \/ CreateEnrollment(r) \/ CancelEnrollment(r)
  \/ CheckEnrolled(r) \/ CheckAccess(r) \/ CheckUnlocked(r) \/ FindLesson(r)
  \/ ReadPercentage(r) \/ ReadWatch(r) \/ WriteWatch(r)
  \/ Judge(r) \/ Write(r) \/ Finish(r)
  \/ Count(r) \/ SaveEnrollment(r)

Next ==
  \/ \E r \in Request : Arrive(r) \/ Proceed(r) \/ Throw(r)
  \/ \E s \in Student : SheetProgress(s)
  \/ Edit

Spec == Init /\ [][Next]_vars

-----------------------------------------------------------------------------
(* Properties *)

\* Every variable holds values of its kind: rows, course, requests, history.
TypeOK ==
  /\ status \in [Student -> EnrollmentStatus]
  /\ percent \in [Student -> Nat]
  /\ done \in [Student -> SUBSET Lesson]
  /\ watched \in [Student -> [Lesson -> Nat]] /\ shown \in [Student -> [Lesson -> 0..100]]
  /\ solved \in [Student -> SUBSET Sheet]
  /\ lessons \subseteq Lesson /\ chapters \subseteq Chapter
  /\ lessonIndex \in [Lesson -> Nat] /\ chapterIndex \in [Chapter -> Nat]
  /\ pc \in [Request -> Location]
  /\ job \in [Request -> Jobs \cup {NoJob}]
  /\ seen \in [Request -> Nat]
  /\ everDone \in [Student -> SUBSET Lesson]
  /\ everSolved \in [Student -> SUBSET Sheet]
  /\ peak \in [Student -> [Lesson -> 0..100]]
  /\ beats \in [Student -> [Lesson -> Nat]]
  /\ stale \subseteq Student /\ removed \subseteq Lesson /\ edited \in BOOLEAN

\* Nobody gets ahead: in a course that is left as it is, a student has
\* completed a lesson only after the lesson before it and, in a later
\* chapter, after every lesson of the chapter before.  The check and the
\* write are many operations apart, and undo may come in between.
SequenceRespected ==
  ~ edited => \A s \in Student : \A l \in everDone[s] \ Previewable :
                Unlocked(l, everDone[s])

\* A lesson is completed only by a student who at some time had watched
\* enough of its video and at some time had each of its sheets solved.
CompletionEarned ==
  \A s \in Student : \A l \in everDone[s] :
    /\ l \in HasVideo => peak[s][l] >= Threshold
    /\ Required[l] \subseteq everSolved[s]

\* "ignores large forward seeks (anti skip-to-end)": however heartbeats
\* overlap, a video is never watched further than its heartbeats can carry.
NoSkipping ==
  \A s \in Student, l \in Lesson :
    beats[s][l] < MaxBeats => watched[s][l] <= MaxJump * beats[s][l]

\* In a course that is left as it is, an enrollment is COMPLETED only when
\* the student has completed every lesson, whatever updates overlapped.
CompletedMeansAll ==
  ~ edited => \A s \in Student : status[s] = "COMPLETED" => lessons \subseteq everDone[s]

\* Once the requests of a student are over, the percentage saved is the one
\* of the rows, unless a count was overtaken by another request or lost to a
\* failure: no path that changes a row forgets to recalculate.
PercentageSettles ==
  ~ edited => \A s \in Student \ stale :
    (\A r \in Request : S(r) = s => pc[r] \notin {"count", "save"}) =>
      percent[s] = Percentage(s)

\* A student is never stuck: while a lesson of the tree is not completed one
\* such lesson is open, however instructors add, remove and reorder lessons
\* and chapters and whatever the student undoes.
NoDeadEnd ==
  \A s \in Student :
    LET left == {l \in lessons : InTree(l)} \ done[s]
    IN  left # {} => \E l \in left : l \in Previewable \/ Unlocked(l, done[s])

=============================================================================
