SPECIFICATION Spec
CONSTANTS
  r1 = r1  r2 = r2  s1 = s1  sheet1 = sheet1
  Student = {s1}
  Sheet = {}
  Request = {r1}
  Lesson <- MCLesson
  Chapter <- MCChapter
  StudentOf <- MCStudentOf
  Jobs <- EditJobs
  ChapterOf <- MCChapterOf
  LessonOrder <- MCOrder
  ChapterOrder <- MCChapterOrder
  Index = {1, 2}
  Initially = {1, 2}
  Previewable = {3}
  Public = TRUE
  HasVideo = {}
  MaxJump = 10
  MaxBeats = 0
  Required <- NoSheets
  Edits = {"add", "remove", "reorder", "chapter"}
  Faults = {}
INVARIANTS NoDeadEnd
