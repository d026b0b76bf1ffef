-------------------------- MODULE MCCourseProgress --------------------------
(* Instances of CourseProgress for TLC: one student and three lessons in two
   chapters. *)
EXTENDS CourseProgress

CONSTANTS r1, r2, s1, sheet1

MCStudentOf == [r \in Request |-> s1]
MCLesson == {1, 2, 3}
MCChapter == {1, 2}
MCChapterOf == [l \in MCLesson |-> IF l < 3 THEN 1 ELSE 2]
MCOrder == [l \in MCLesson |-> l]
MCChapterOrder == [c \in MCChapter |-> c]

NoSheets == [l \in MCLesson |-> {}]
SheetOnFirst == [l \in MCLesson |-> IF l = 1 THEN {sheet1} ELSE {}]

Call(op, l) == [op |-> op, lesson |-> l, at |-> 0, duration |-> 0]
Heartbeat(l, at, duration) == [op |-> "watch", lesson |-> l, at |-> at, duration |-> duration]

\* Completing every lesson, the second by a heartbeat (it has no video),
\* and undoing the first.
ClickJobs ==
  {Call(op, 1) : op \in {"enroll", "cancel", "complete", "undo"}}
    \cup {Call("complete", 3), Heartbeat(2, 1, 1)}
EditJobs == {Call("enroll", 1), Call("undo", 1)} \cup {Call("complete", l) : l \in MCLesson}

\* A video of 20 seconds watched in steps of at most 10; two players do not
\* agree on its duration.
WatchJobs ==
  {Call("enroll", 1), Call("complete", 1), Call("complete", 2)}
    \cup {Heartbeat(1, at, 20) : at \in {10, 20}} \cup {Heartbeat(1, 10, 10)}

=============================================================================
