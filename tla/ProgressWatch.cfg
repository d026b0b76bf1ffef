SPECIFICATION Spec
CONSTANTS
  r1 = r1  r2 = r2  s1 = s1  sheet1 = sheet1
  Student = {s1}
  Sheet = {sheet1}
  Request = {r1, r2}
  Lesson <- MCLesson
  Chapter <- MCChapter
  StudentOf <- MCStudentOf
  Jobs <- WatchJobs
  ChapterOf <- MCChapterOf
  LessonOrder <- MCOrder
  ChapterOrder <- MCChapterOrder
  Index = {1, 2}
  Initially = {1, 2, 3}
  Previewable = {}
  Public = TRUE
  HasVideo = {1}
  MaxJump = 10
  MaxBeats = 3
  Required <- SheetOnFirst
  Edits = {}
  Faults = {}
INVARIANTS TypeOK CompletionEarned NoSkipping
