SPECIFICATION Spec
CONSTANTS
  r1 = r1  r2 = r2  s1 = s1  sheet1 = sheet1
  Student = {s1}
  Sheet = {}
  Request = {r1, r2}
  Lesson <- MCLesson
  Chapter <- MCChapter
  StudentOf <- MCStudentOf
  Jobs <- ClickJobs
  ChapterOf <- MCChapterOf
  LessonOrder <- MCOrder
  ChapterOrder <- MCChapterOrder
  Index = {1, 2}
  Initially = {1, 2, 3}
  Previewable = {}
  Public = FALSE
  HasVideo = {}
  MaxJump = 10
  MaxBeats = 0
  Required <- NoSheets
  Edits = {}
  Faults = {"db"}
INVARIANTS SequenceRespected CompletedMeansAll PercentageSettles
