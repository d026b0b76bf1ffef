# Vonova in TLA+

Vonova is a learning platform: courses with lessons and problem sheets, AI
tools paid for with monthly credits, and communities. This directory keeps TLA+
models of the parts of its back end where several actors meet in one document,
the TLC configurations that check them on small instances, and theorems about
them that the TLA+ proof system (TLAPS, `tlapm`) checks for every instance.

    tlasany AiCredits.tla                                parse
    tlc -config CreditsKeys.cfg MCAiCredits              model-check one run
    tlapm AiCreditsProofs.tla                            check the proofs

Contents: [the system](#the-system) · [components](#components) ·
[the models](#the-models) · [runs](#runs-and-bounds) · [fairness](#fairness) ·
[disagreements](#where-the-code-and-its-documents-disagree) ·
[proofs](#proofs) · [only model-checked](#only-model-checked) ·
[not modelled](#not-modelled-and-why) · [plan](#plan)

## The system

    web clients ──HTTP──> api-gateway ──NATS request/reply──> lms ──> MongoDB
                               │                              │
                               └──────NATS request/reply──> app <──NATS events
                                                              └──> MongoDB, Redis

- `services/api-gateway` authenticates, limits the rate, validates and forwards.
  It holds no business state. Some of its handlers make a second call after the
  first has answered (create a course, then its community).
- `services/lms` keeps courses, enrollments, progress, quizzes, the library, AI
  tools and their credits, subscriptions.
- `services/app` keeps users, sessions, communities, notifications.
- The services subscribe in NATS queue groups, so that any number of instances
  may share the work. Requests have a reply; events (`emit`) have none, are not
  stored and are lost if nobody listens.
- Every handler is an `async` function of Node: between two `await`s it runs
  alone in its process, at an `await` everything else may move. There are no
  multi-document transactions in the parts modelled: **one operation on one
  MongoDB document is atomic and nothing else is.** All models are built on
  this one fact: an action is one operation of a database, a store or a service
  with the synchronous code up to the next one, and `pc` is the `await` a call is at.

## Components

State, operations, neighbours, what is hard, and what correct means. `PROJECT.json`
has the same list with the source files, and the hazards with their lines.

| Component | State | Operations | Hard | Correct when |
|---|---|---|---|---|
| **AI credits** (`lms/src/ai-usage/ai-credit.service.ts`) | `ai_usage_ledger` per user and month, `ai_idempotency` per key | `executeWithCredits`: check and claim the key, reserve, run, commit or release | concurrent calls, first call of a month, month boundary, retries, crash between two steps | the month is never overdrawn, the books balance, a key runs once, failed calls are free |
| **Enrollment and progress** (`lms/src/course/enroll`, `progress`) | `enrollments`, `lesson_progress` | enroll, cancel, complete, undo, watch, recalculate | a decision is read several operations before it is written, instructors edit the course meanwhile | order of lessons kept, completion earned, percentage and COMPLETED right, always a lesson open |
| **Course communities** (`app/src/Community/social/social-hub.service.ts`) | `community_groups`: members, banned, counter | ensure, delete, join, leave, remove, ban, unban | two unordered messages per change, each may be lost, handlers overlap | group exists, owner in it, counter right, members are those enrolled |
| **Problem judge** (`lms/src/lms-ai/problem-solving/submission*.ts`, `progress.service.ts`) | `submissions`, `submission_jobs`, problem progress | submit, claim, judge, retry, recover at start, record | several instances poll one collection, a restart resets jobs of all, verdict in two documents, job done before progress written | each job judged by one execution, verdicts stand, counted at most once, settled in the end |
| **Sheet progress** (`sheet-progress.service.ts`) | `sheet_progress_snapshots`, `sheet_progress` per student and sheet | solve, take back, touch; the instructor's edits | read, extend, write back, then a second row; edits recount nothing | no solution lost, the row follows the list, completion earned |
| **Subscription** (`lms/src/subscription`) | subscription per user | create, activate, cancel, expire | periods end by themselves, nobody expires them | one plan at a time, PRO only when paid |
| **Authentication and sessions** (`app/src/auth`) | refresh tokens, blacklist in Redis and memory, one-time codes | two logins, refresh, logout, logout everywhere, two resets | rotation and login race, a wipe meets calls under way, two stores of which one may vanish | one live token per device, ended sessions stay ended, a refresh token buys one successor, a reset code one reset token |
| **AI request entry of the gateway** (`api-gateway/src/lms-ai`) | none | one call with a new key per HTTP request | what a retry of the client is | a retry is not charged twice |
| **Document assistant** (`lms-ai/pdf-summary`, `lms-ai/database`) | AI service, object store, summary rows, chat history; upload lock in memory; voice keys | upload, chat, ask by voice, delete | four places without a transaction, a lock set after an `await`, waiting with a time limit, calls of slow services | one session per file, places agree, one answer per voice key, every request returns |
| **Quizzes and assignments** (`lms/src/quiz`, `assignment`) | submissions | one conditional create each | unique index | one submission per student |
| **Course, chapter and lesson editing** (`lms/src/course`) | courses, chapters, lessons, indexes | create, delete, reorder | a reorder is many updates; deletions leave rows | students can go on |
| **Content, reviews, feedback** | one document per author | write, list | — | — |
| **Library, reader, uploads** | documents, files | upload, read | file input/output | — |
| **Roadmaps and summaries** | one document per answer | generate | the generator; credits as above | — |
| **Payments** (`lms/src/payments`) | none | made-up sessions | the Stripe module and the wallet in the tree are not loaded | — |
| **Community posts, messages, moderation** | posts, comments, reactions, reports | create, react, report, hide | counters beside lists | counters match |
| **Notifications** | notifications, mail | send, read | delivery may be lost by design | — |
| **Administration, support, waitlist, chatbot** | single documents | forms and lists | — | — |
| **Gateway guards and limiter** | counters in one process | count a request | synchronous | — |
| **Web clients** | user interface | make the calls | they repeat and overlap calls: the inputs of the models | — |
| **AI services in Python** | none | generate | succeed or fail | — |

How the modelled components meet: an accepted verdict of the judge (`JudgeQueue`,
`Record`) is what solves a problem of a sheet (`SheetProgress`, `Solve`), and the
row that module completes is an input of `CourseProgress` (action `SheetProgress`),
for lessons require sheets; the
plan of a user is an input of `AiCredits` (`ChangePlan`); enrolling and
cancelling, which `CourseProgress` has in detail, send the messages that
`CourseCommunity` handles.

## The models

Modules: the components, two abstract specifications, and for each
component an `MC` module with the small instances and a `Proofs` module.

    CreditAccounts  <──refines── AiCredits       <── MCAiCredits,       AiCreditsProofs
                                 CourseProgress  <── MCCourseProgress,  CourseProgressProofs
                                 CourseCommunity <── MCCourseCommunity, CourseCommunityProofs
    Verdicts        <──refines── JudgeQueue      <── MCJudgeQueue,      JudgeQueueProofs
                                 SheetProgress   <── MCSheetProgress,   SheetProgressProofs
                                 PdfSessions     <── MCPdfSessions,     PdfSessionsProofs
                                 AuthSessions    <── MCAuthSessions,    AuthSessionsProofs

Definitions whose name ends in `Bug` are variants with a plausible mistake; no
specification uses them. Each property of each passing run is violated when one
of them takes the place of the definition it varies (`PROJECT.json`, "mutants").

Conventions shared by the modules. `Goto(r, l)` moves call `r` to its next
`await`. Variables called history are not in the code: they remember
what a property needs and no guard of the code reads them. Where the code lets two
named steps overlap, a history variable remembers exactly that overlap. Some properties
*count* it and bound what it costs: `rowRaced`, `slipped`, `crossed`, `twice` and `shared`
say how often it happened, and each time adds one at most (`RowFollows`,
`VoiceAnsweredOnce`, `OneSessionPerDevice`, `UsedUpOnce`). Others hold *except* after it:
the exception is what the code leaves open, and the property says that nothing else is.

### AiCredits — one call of `executeWithCredits` per `Request`

| Code (`ai-credit.service.ts`) | Model |
|---|---|
| `ENABLE_AI_CREDITS_V2` off on this instance: only the function is called | `ArriveBypass`, `BypassReturns` |
| `checkIdempotency`: `findOne`; `create` behind the unique index; reset of a FAILED key | `CheckKey` (with `AfterCheck`), `ClaimKey`, `ReclaimKey` |
| `reserveCredits`: `getMonthKey`, plan (FREE if the query throws), `findOne`, `create` with E11000, conditional `findOneAndUpdate`, reread, denial | `StampMonth`, `ReadPlan`, `FindLedger`, `CreateLedger`, `IncLedger`, `Reread`, `Deny` |
| the function's result | `RunSucceeds`, `RunFails` |
| `commitIdempotency`, `releaseCredits` (new month key, conditional), `failIdempotency`; their errors are logged | `CommitKey`, `ReleaseCredits`, `MarkFailed` |
| an operation outside the `try` throws; the instance stops | `Throw`, `Crash` |
| TTL index on `createdAt` | `ExpireKey` |
| calendar, subscription | `NextMonth`, `ChangePlan` |

`creditsUsed` and `featureUsage` are the fields of the ledger documents in
`ledgers`; `keyStatus` the `status` of the idempotency documents; `resMonth`,
`resLimit` and `relMonth` the locals `monthKey` and `limit` of the two methods.
History: `everPro`, `held` (whose cost is still in the month it was reserved in),
`stray` (released in another month), `ran`, `reopened`. A key expires only
after the call that created its record has ended: a day is longer than any call,
but not longer than a later call that reused a FAILED record, which did
not renew `createdAt`.

`CreditAccounts` is what the service promises: one account per user and month,
charged in one step up to the ceiling of some plan, refunded in one step down to
zero. `ImplementsAccounts` is the refinement (`used <- creditsUsed`): everything
else the service does is a stutter of the accounts.

### CourseProgress — one NATS call per occupied request slot

| Code | Model |
|---|---|
| `enrollCourse`: `findOne`, `create` behind the unique index | `FindEnrollment`, `CreateEnrollment` |
| `cancelEnrollment` | `CancelEnrollment` |
| `isEnrolled`; `getLessonAccess`; `isChapterUnlocked` and `isLessonUnlockedInSequence` over the flattened tree; `findLessonInCourse` | `CheckEnrolled`, `CheckAccess`, `CheckUnlocked` (`Unlocked`, `Previous`, `PreviousChapter`, `InTree`), `FindLesson` |
| `markLessonComplete` | `ReadPercentage`, `Judge`, `Write` |
| `updateLessonWatchProgress` | `ReadWatch`, `WriteWatch`, `Judge`, `Finish` |
| `lesson-watch.util.ts`, `lesson-progression.engine.ts` | `AppendWatch`, `WatchedPercentage`, `CanMarkComplete` |
| `recalculateEnrollmentProgress`: counts, then saves | `Count` (`Percentage`), `SaveEnrollment` |
| a database operation throws | `Throw` |
| instructors: `createLesson`, `deleteLesson`, `reorderLessons`, `deleteChapter`, `reorderChapters` | `CreateLesson`, `DeleteLesson`, `ReorderLesson`, `DeleteChapter`, `ReorderChapter` |
| the row `sheet_progress` of a student, complete or not | `SheetProgress` |

A slot is reused after its call has ended, so that any number of calls happen
with at most as many at once as there are slots. `seen` is what a call read last
and uses later: the percentage, the end of the watched segment, or the count to be saved.
Lessons and chapters are numbered in the order of their creation, which
is the order MongoDB returns equal indexes in. A reorder is one single update to any
index: the code sends one update per lesson at once, so that every mixture of
old and new indexes exists for a while and stays when one fails.

Abstractions. Reads of one decision that no call of a student changes in between
are one action (the tree of lessons and the student's rows are read by
`CheckUnlocked` in one step; an edit of the course between two of those reads acts
as an edit before or after them, and properties about order exclude edited courses).
`appendWatchSegment` starts each new segment where the last one ends, so that a
row always holds one segment from the start of the video; `watched` is its end.

### CourseCommunity — one message per busy `Worker`

| Code | Model |
|---|---|
| `createCourse` and `deleteCourse` of lms and gateway: event and call | `CreateCourse`, `DeleteCourse`: two copies of the message |
| `enrollCourse`: event for a new row; the gateway calls `joinMember` after any answer | `Enroll`: two copies or one |
| `cancelEnrollment`: event only | `Cancel` |
| NATS | `network` (a bag), `Receive`, `Lose` |
| an exception in a handler, caught and logged; a crash | `Fail` |
| `ensureCourseGroup` and `createCourseGroup`: look, look again, create, on E11000 look once more, add the owner | `Find` at `find`, `recheck`, `raced`; `Create`; `Readmit` |
| `deleteCourseGroup`, `joinCourseGroup`, `leaveCourseGroup`, `removeMember`, `banMember` | `Find`, then `Retire`, `Join`, `Leave`, `Leave`, `Ban` and `Recount` |
| `leaveGroup`, `unbanMember`, moderators' calls | `LeaveGroup`, `Unban`, `Moderate` |
| unique index on `linkedCourseId` | `unique`, present or not: the schema asks for a sparse and partial index, which MongoDB refuses to build |

The state of a call is the operation it is at, its message and the group it has
found (`pc`, `task`, `at`). `out` and `bans` are history.

### JudgeQueue — executions of `maxConcurrentJobs` slots on every instance

| Code (`problem-solving`) | Model |
|---|---|
| `createSubmission`: submission, job, `enqueue` on this instance | `Submit`, `SubmitFails` |
| `processNext` every 300 ms; `processSpecific`; the conditional `findOneAndUpdate` | `Poll`, `Take` (`Claimable`, `Claim`) |
| `processSubmissionJob`: problem, `evaluateSubmission`, submission, job, progress | `Load`, `Evaluate`, `File`, `Close`, `Record` |
| a problem that is gone or has no `parameterNames` | `Load` with `kind`, then `File` and `Close` outside the `try` |
| `catch`: retry or fail by the count read at the claim; then the submission | `WriteFails`, `Catch`, `Excuse` |
| errors outside the `try` reach the queue, which logs them | `Abandon`, `RecordFails` |
| `onModuleInit`, `recoverStuckJobs` | `Start` |
| `getSubmissionStatus` | `Answer` |

`filed` is the status of the submission, `status`, `retries` and `result` are the
job's, `counted` and `solved` the progress row's. History: `overtaken` (jobs an
instance put back while an execution was at work on them), `abandoned`, `lost`.
The end of an instance and its start are one step: between them its jobs merely
wait. Verdicts other than `accepted` are treated alike by the code and are one value.

`Verdicts` is what a student is promised, without queue and retries: a submission
waits, gets one verdict that stands, and then counts at most once. `KeepsPromise` is
the refinement: `answer` is what `getSubmissionStatus` says. A job that was overtaken
is *forfeited*: two executions may give two verdicts and count twice, and the
abstract specification says so instead of being silent.

### SheetProgress — one student, one sheet, one request per slot

| Code | Model |
|---|---|
| `recordSubmissionResult`, `markAsSolved`, `updateProblemProgress` | `Solve`, `Unsolve` |
| `touchSheet` | `Touch` |
| `syncSheetsContainingProblem`; the operations of `incrementalUpdateSheetProgress` | `Find`; `Total`, `Check`, `Read`, `WriteList`, `WriteRow` |
| `createProblemInSheet`, `deleteSheetProblem` and `deleteProblem`, `remove` | `AddProblem`, `RemoveProblem`, `RemoveSheet` |
| a database error, or the end of the process | `Fail` |

`snapshot` is the list with its count, `row` the document the lessons read. `total`
and `base` are what a request has read. History: `raced` (the problem's request read
the list while another was about to write it), `rowRaced` (how often a request read the
list while another was to write list or row), `failed`, `doubtful` (the sheet was edited
during the request, or has ever lost a problem).

### PdfSessions — one user, one file, one instance

| Code (`pdf-summary.service.ts`) | Model |
|---|---|
| `uploadPDF`: look at the lock, wait at most two minutes and look again, search, set the lock, `finally` | `Upload`, `StopWaiting`, `Recheck`, `Search`, `SetLock`, `Release` |
| `doUploadAndSave`: AI service, object store, row | `AiUpload`, `StoreFile`, `StoreRow`, `UploadFails` |
| `callPythonService`: a lost answer, and the second attempt elsewhere | `LoseAnswer` |
| `deleteSession`: row found, AI service, row, chats, file | `FindRow`, `DeleteAi`, `DeleteRow`, `DeleteChats`, `DeleteFile`, `DeleteFails` |
| `chatWithPDF`, `saveChatHistory` | `Ask`, `SaveChat` |
| `voiceAsk`: claim, wait, AI service, record, complete | `Claim`, `PollVoice`, `Voice`, `SaveVoice`, `Complete` |
| TTL of the voice keys; sessions of the AI service expire | `Expire`, `AiForgets` |

`uploadLocks` maps the file to a promise; `lock` is the request that made it, and a
waiting request remembers in `behind` whose promise it awaits, for `Release` deletes the
key whoever set it last. The session id is made by the AI service; ids are alike, and
`Make` takes the least that was never used. History: `raced`, `uncertain`,
`chatting`, `wiped`, and `slipped`, which counts voice calls that gave up waiting and
expiries of the key.

### AuthSessions — one user, several devices and instances

| Code (`app/src/auth`) | Model |
|---|---|
| `login`, `oAuthGoogleLogin`: delete the tokens of the user or of the device, create one | `Clear`, `Create` |
| `refreshToken`: blacklist, find, save as revoked, blacklist, create | `Has`, `Find`, `Rotate`, `Black`, `Create` |
| `logout` | `Revoke`, `Black` |
| `logoutAll`; the end of `resetPassword` and `adminResetPassword` | `Wipe` |
| `requestResetPassword`, `verifyResetCode` | `ClearCodes`, `SendCode`, `FindCode`, `UseCode` |
| `TokenBlacklistService`: Redis and a map, only the map after an error | `memory`, `connected`, `redis` |
| an operation throws; an instance starts again with an empty map | `Fails`, `Restart` |

`doc` is the document of a token: unissued, live, revoked or gone. `since` and
`era` count wipes: a session began in an era, and a successor is of its
predecessor's. History besides: `parent`, `overtaken` and `late`, `out`, `bought`, and three
counters of overlaps: `crossed` (a call came to make a token for a device while another
was making one), `twice` (a refresh found a token that another had found and not yet
revoked) and `shared` (the same for a reset code). What a reset code buys is a reset
token; `resetPassword` accepts that token as often as it is sent within ten minutes.

## Runs and bounds

Passing runs explore all reachable states of their instance.

| Run | Checks | Instance | Distinct states |
|---|---|---|---|
| `credits_months` | `WithinAllowance` `LedgerBalances` `ImplementsAccounts` | 3 calls of one user without keys, months 0..1, costs 3, 3 and 1 against limits 4 and 6, instances with and without enforcement, database errors | 290 731 |
| `credits_keys` | `TypeOK` `SingleExecution` `ChargedIffServed` `CompletedIsFinal` `EveryCallEnds` `PendingIsFreed` | 3 calls with one key, one month, crashes, expiry | 116 523 |
| `progress_sequence` | `SequenceRespected` `CompletedMeansAll` `PercentageSettles` | one student, two calls at once, 3 lessons in 2 chapters: enroll, cancel, complete, undo, heartbeat, database errors | 225 447 |
| `progress_edits` | `NoDeadEnd` | one call at once, instructors add, delete and reorder lessons and chapters, indexes 1..2, a previewable lesson | 1 199 142 |
| `progress_watch` | `TypeOK` `CompletionEarned` `NoSkipping` | two heartbeats at once on a video of 20 s, a player that believes in 10 s, a required sheet that comes and goes | 955 167 |
| `community_group` | `TypeOK` `OwnerIsMember` `CountMatches` `CourseGetsGroup` `EnrolledBecomeMembers` | owner and student, 2 group documents, 2 handlers at once, 2 calls, one loss or failed handler | 311 685 |
| `judge` | `TypeOK` `OneExecution` `RecordsAgree` `AcceptedCounts` `JobsSettle` `KeepsPromise` | 2 jobs, 2 instances of one slot, one retry, one failing operation, one restart, the problem may go | 495 170 |
| `sheets` | `TypeOK` `RowFollows` `CompletionIsEarned` `SolvedGetsListed` | 2 problems, 2 requests at once, 3 calls that set solved, one failure, edits | 310 418 |
| `pdf` | `TypeOK` `UploadsExclude` `PlacesAgree` `VoiceAnsweredOnce` `EveryRequestReturns` | 4 requests, 2 at once, one failing call, 5 session ids | 277 929 |
| `auth` | `TypeOK` `OneSessionPerDevice` `EndedMeansEnded` `UsedUpOnce` | 4 calls, 2 at once, 2 devices, 2 instances (both symmetric), 2 failures or restarts | 523 064 |

What they show:

- `credits_months`. Concurrent calls that read the same ledger and plan do not
  overdraw it, also when the plan changes between the read and the
  update. Two first calls of a month create one document and lose no credit. The
  books balance for the total and for each feature, with the refunds that meet
  another month counted where the code books them. The service implements the
  accounts of `CreditAccounts`.
- `credits_keys`. A key that was neither marked FAILED nor expired lets one call
  through to the AI function, crashes included; a served call is charged, a denied,
  duplicate or cached one is not, and a failed one was refunded (this run has one
  month, for the sake of liveness; the theorem has any number, where a call that fails
  after the month turned is refunded only if the new month has a ledger to do it from); a COMPLETED key stays so until it expires, unless a
  retry of a failure is still running with it; every call returns; no key is
  PENDING for ever.
- `progress_sequence`. The lock is judged several operations before the row
  is written and an undo may come in between: nobody gets ahead all the
  same. COMPLETED comes after all
  lessons only. The saved percentage is right when the calls are over, except
  where a count was overtaken by another call or lost to an error (`stale`).
- `progress_edits`. Equal indexes in the middle of a reorder, lessons of a
  deleted chapter, deleted lessons with rows: some lesson stays open.
- `progress_watch`. Overlapping heartbeats lose each other's progress but never
  gain any; a completion was watched and solved at some time.
- `community_group`. The two messages make up for one lost message, and do
  no harm when both arrive; the instructor stays a member of his group.
- `judge`. Polls of two instances and the direct hand-over never judge a job twice at
  a time, except after a restart; the document the student polls and the one that hints
  and statistics read agree when a job is settled; an accepted verdict solves the
  problem unless the write of the progress row itself failed, and does so also for a
  job that was judged twice; jobs do not hang.
- `sheets`. The row that opens lessons never counts more than was solved, and once nothing
  is under way its count is that of the list, up to one for each request that read while
  another was to write: the older row may win, by no more than that. Only a request that
  overlapped another between reading and writing can lose a problem; a sheet is not
  completed with an unsolved problem.
- `pdf`. An upload's lock never outlives it although any upload may delete the lock of another;
  one listed session per file; the file of a listed session is there; a delete that
  has gone through leaves nothing; calls with one voice key store one exchange, and one
  more at most for each that gave up waiting and each expiry of the key.
- `auth`. The blacklist is a second line: with Redis lost and the memory of
  instances empty, the database alone refuses used tokens. A refresh token buys one
  successor, a reset code one reset token and a device has one session, with one more at
  most for each call that overlapped another between its look and its write; a token
  logged out before anybody found it buys none. A wipe ends everything but what had
  passed its last check.

Bounds, and why they are enough for the questions asked:

- *Three calls, one user* (credits). A race needs two calls on one account and
  a third makes the limit bite between the other two. Users do not share a
  document, so a second one adds nothing but size. Costs and limits are scaled so
  that FREE takes a PDF and a hint but not two PDFs, and PRO two PDFs but not
  a hint more. Two months suffice for a call that spans a boundary.
- *One student, two slots* (progress). Rows of different students are disjoint;
  two slots give every overlap of two calls, and reuse of the slots
  gives sequences of any length. Three lessons in two chapters are the least with
  a lesson before in the same chapter, and one across a chapter boundary.
- `Index` 1..2 over three lessons forces ties. `MaxBeats` stops the history
  counter `beats`; `NoSkipping` speaks about counts below it.
- *Two group documents* (community) let two handlers create a group each when
  the index is missing. `MaxCalls` bounds what users do, `MaxLost` losses, crashes
  and exceptions together; one loss is what a message sent twice can make up for.
- *Two jobs, two instances of one slot* (judge): a race for a job needs two claimants, a
  second job shows that the oldest is taken and that a busy instance leaves the
  other to the polls. The code has two slots and two retries; slots of one instance
  differ from those of two instances only at a restart. One failure and one restart
  together reach every exception that the properties name.
- *Two problems, two requests* (sheets): the least with a lost update; the third call
  solves again or takes back. *Four requests, two at once* (pdf, auth): two to race, then
  one that meets what they left, then one more (a delete after two uploads, a refresh after
  a wipe). `Session`, `Token` and `Code` are as many as the calls can use up.
- Devices and instances of `AuthSessions` are interchangeable and no temporal property is
  checked there, so the symmetry is sound. Requests are alike everywhere: a
  new call takes the first free slot, which is no restriction.
- `LastMonth`, `Worker`, `Flags`, `Faults`, `Edits` and `Jobs` choose the
  instance; the theorems hold for all their values.

`CHECK_DEADLOCK FALSE` is set for the community and the four modules after it: there
everything is over once the calls are used up and what they started is done. In
the other models a plan may still change or a new call arrive.

## Fairness

- *Credits*: weak fairness of `Proceed(r)` for each call and of `ExpireKey(k)` for
  each key. Node runs every continuation that is ready, driver and HTTP calls
  have timeouts, and MongoDB's TTL monitor runs by itself. Callers, plan
  changes, faults and the calendar owe nothing.
- *Community*: weak fairness of `Receive(m)` for each message and of `Proceeding(w)`
  for each handler: what is not lost is delivered and handlers go on. Clients may
  stop, moderators and losses owe nothing.
- *Judge*: weak fairness of `Work(w)` for each slot: the timers of every instance keep
  firing, a claim that can succeed is made, and an execution goes on. Nobody need submit, nothing need fail.
- *Sheets*: weak fairness of `Sync(r)`: a request that has begun goes on, or fails.
- *Documents*: weak fairness of `Serve(r)`: calls of the AI service and the object store
  return or time out (`AbortSignal.timeout`), and the two waits have deadlines.
- *Sessions*: none, and no liveness is claimed; a failure may always log a user out.
- *Progress*: none, and no liveness is claimed. Students may stop anywhere. What
  stands in for it is the safety property `NoDeadEnd`: there is always a next step.

## Where the code and its documents disagree

Each has a run that violates one property, with the shortest behaviour TLC finds.

| Run, property | What happens | What the source says |
|---|---|---|
| `community_enrolled`, `MembersAreEnrolled` | A leave is handled before a pending join and forgotten; or enrolling again is answered with the canceled row and the gateway joins all the same. | "group membership is controlled by enrollment (auto-join on enroll, auto-leave on unenroll)", `community-group.schema.ts:9-10` |
| `pdf_reupload`, `ReuploadRestores` | The AI service has dropped a session. The user is told to upload the file again; the upload finds the stored row and answers its dead session, now and at every repetition, until the document is deleted. | "re-upload the same PDF file. The system will recognize it and restore the session.", `pdf-summary.service.ts:262`; likewise lines 1103 and 1330 |

Other limits of the code are what the history variables exclude or count, and are listed
with the hazards: a denied call keeps its key PENDING until the record expires, two retries of
a FAILED key both run, a call reserved in one month and failing in the next is not
refunded (credits); deleted lessons still count in the percentage, a cancellation may be
overwritten by COMPLETED (progress); a restarting instance puts back jobs that others are
judging (judge); a sheet that lost a problem may be completed with one unsolved
and the older of two rows may be written last (sheets); two uploads that both looked at
the lock before either set it, and a voice call that gives up waiting and asks again
(documents); refreshes that both found the token, verifications that both found the code,
and calls that make a token for one device at a time (sessions).

In this tree no gateway route calls `enrollment.cancel`; the handler and
its event exist and are what the first row is about.

`CompletedMeansAll` has a limit of its own: the percentage is rounded before it is
compared with 100, so that from 200 lessons on the last-but-one completes the
course (`RoundingLosesOneOf200`). It is a theorem for smaller courses.

## Proofs

Each of the seven components has a `Proofs` module. Its theorems hold for all values of
the constants that satisfy the named assumptions: any number of users, calls, lessons,
groups, instances and devices, any costs and limits, any bounds. The assumptions
(`RequestAssumption`, `CostAssumption`, `BoundAssumption`; `CourseAssumption`;
`CommunityAssumption`; `JudgeAssumption`; `SheetAssumption`; `PdfAssumption`;
`AuthAssumption`) give the constants their types; beyond that they say that

- a feature costs something and fits in an empty FREE month, as the two tables of the
  source have it;
- lessons, users, calls on credits, jobs, problems of a sheet and the requests on documents
  and sessions at a time are finitely many, and there is a problem that is ever put into the sheet: without one nobody can solve any;
- there are enough session ids, tokens and codes for `MaxCalls` calls (and `MaxFaults`
  second attempts), so that the AI service and the database never run out of new ones.

Together the theorems state every invariant, every action property and both
refinements of the passing runs.

| Theorem | States | Inductive invariant, and why it is needed |
|---|---|---|
| `TypeCorrect` | `[]TypeOK` | `Typed` adds `Keyed`: only calls that have a key are at operations on keys, else `keyStatus[KeyOf[r]]` is undefined |
| `NeverOverdrawn` | `[]WithinAllowance` | `Budgeted`: also the limit a call has read, and the plan at any time, are within what the user has ever been allowed |
| `OneExecutionPerKey` | `[]SingleExecution` | `ClaimExclusive`: whoever is past the claim of a key that was not reopened created its record, which still exists; a call reclaims, and a key is FAILED, only after the key was reopened |
| `ServiceImplementsAccounts` | `Spec => ImplementsAccounts` | `LedgerSound`: an account without document is empty, an increment finds its document, limits read are ceilings. Then `StepImplements`: creating or incrementing the ledger is a `Charge`, releasing a `Refund`, everything else leaves the accounts |
| `CompletedStaysFinal` | `CompletedIsFinal` | `Finished`: a COMPLETED key that was not reopened was committed by the call that claimed it, and by `ClaimExclusive` nobody else is past the claim |
| `LedgerDoubleEntry` | `[]LedgerBalances` | `PaidOnce` (before its reservation a call has paid nothing, from there to its release it has) and `Balanced`. `TotalAdd` says what one more call adds to the sum of the costs of a finite set; `BalancedUpdate` relates one update of a ledger to one call that enters or leaves the books |
| `ChargesMatchService` | `[]ChargedIffServed` | `Settled` says it from the release on. The release asks for enough credits in the ledger; `RefundIsThere`: they are there, because the ledger balances and this call is in it |
| `ProgressTypeCorrect` | `[]TypeOK` | `Typed` adds `Called`: a call that is under way has a job, and a heartbeat that got past its check a duration to divide by. `shown` and `peak` stay within 0..100 because the percentage is capped |
| `NobodyGetsAhead` | `[]SequenceRespected` | `DoneWasDone` and `InOrder`: what was unlocked for a call under way stays so with respect to all lessons *ever* completed, which an undo does not shrink (`StaysUnlocked`) |
| `CompletionsAreEarned` | `[]CompletionEarned` | `Backed`: percentages in rows, and those a call has read, were reached once; calls about to complete have earned it |
| `NobodySkips` | `[]NoSkipping` | `WithinReach`: also the segment end a heartbeat has read, and may write back over a newer one, is within reach of the heartbeats counted so far |
| `CompletedMeansCompleted` | `Cardinality(Lesson) < 200` implies `[]CompletedMeansAll` | `AllDone` on top of `InOrder`: a count of 100 that waits to be saved is of a student who has completed everything. The bound comes from rounding and is sharp |
| `NobodyIsStuck` | `[]NoDeadEnd` | `TypeOK` alone: of the lessons left, take those in the chapter of least index, of these chapters the first made, of its lessons those of least index, of them the first made. Four minima of nonempty sets of numbers (`FirstLesson`), and what comes before that lesson is completed |
| `PercentagesSettle` | `[]PercentageSettles` | `Settling`: a count that waits to be saved is still right unless its student is `stale`, because every change of a row that overtakes it makes him so |
| `CommunityTypeCorrect` | `[]TypeOK` | inductive as it stands, with the clause that a handler about to update a group has found one |
| `OwnerStaysMember` | `[]OwnerIsMember` | `OwnerSafe`: no handler at its update is about to take the owner out, since `leave` returns before and moderators cannot name him; and he is never banned |
| `CounterIsRight` | `[]CountMatches` | `Counted`: a handler that will decrement for a ban is at a group already in `bans`; `JoinCounts` and `TakeOutCounts` relate one conditional update to cardinalities |
| `JudgeTypeCorrect` | `[]TypeOK` | inductive as it stands |
| `JudgedByOne` | `[]OneExecution` | `Sole`: the status of a job that was not overtaken is the one its only execution left there, which the filter of the claim refuses; `Known` says which locations have a job and a verdict |
| `SubmissionAndJobAgree` | `[]RecordsAgree` | `Agreeing`: an execution between its two writes knows what the first said and is about to say the same |
| `AcceptedIsSolved` | `[]AcceptedCounts` | `Counting`: the problem is solved, or an execution with that verdict is at the progress row |
| `ServiceKeepsPromise` | `Spec => KeepsPromise` | `NotYetCounted`: a job that is not settled, or at which somebody is at work, has not been counted. Then each action is a step of `Verdicts` or a stutter: closing a job settles it, recording counts it, a start forfeits what it overtakes |
| `SheetTypeCorrect` | `[]TypeOK` | `Fresh`: a request adds its problem only to a list that does not name it; else the count is not the length of the list |
| `SheetRowFollows` | `[]RowFollows` | `RowInv`: without overlaps and failures one request is open at a time; what it read is the list, and what it will write the list's count. `WindowInv`: with overlaps, all that is stored or still to be written lies between two numbers that are no further apart than the overlaps are many. `Honest`: a list names solved problems only |
| `SheetCompletionIsEarned` | `CompletionIsEarned` | `EarnedInv`: lists, also those a request has read, name solved problems only; who has counted the problems of the sheet and is not marked has counted those it has now. Equal cardinality then means equal sets |
| `DocumentsTypeCorrect` | `[]TypeOK` | inductive with `Typed`, which says what a request holds at each operation. A new id exists because the ids used are fewer than calls and second attempts |
| `UploadsExcludeEachOther` | `[]UploadsExclude` | `Locked`: a lock that is set is that of an upload under way; unless two passed it together, one request is between looking and deleting, and no session is listed once the search found none |
| `FourPlacesAgree` | `[]PlacesAgree` | `Unborn` (a session being stored is listed and deleted by nobody), `FileFirst` (the file comes before the row and leaves after it), `Emptied` (what a delete has left behind stays empty) |
| `VoiceQuestionStoredOnce` | `[]VoiceAnsweredOnce` | `Voiced`: exchanges stored, calls that are about to store one and the claim that is still to be had are together one, and one more for each call that gave up |
| `SessionsTypeCorrect` | `[]TypeOK` | `Armed`: what a request carries at each operation, so that the token it creates has a device |
| `EndedSessionsStayEnded` | `[]EndedMeansEnded` | `Ended`: what a call is about to create belongs to the era of what it replaces, unless a wipe has overtaken it |
| `TokensAndCodesBuyOnce` | `[]UsedUpOnce` | `TokensUsedUp`, `CodesUsedUp`: a document is used up before what it buys exists, and what it has bought and those between reading it and buying are together one, and one more for each that read it while another was about to use it up. The blacklist is in none of them: the database alone suffices |
| `DeviceHasOneSession` | `[]OneSessionPerDevice` | `SoleSession`: calls committed to creating a token on a device and its live tokens that no such call is about to replace are together one, and one more for each call that committed itself while another was. A call that fails in between gives its token back |

Each file goes the same way: lemmas about operators (`AppendReach`,
`RoundingIsExact`, `SetStatusEffect`, `CellType`...), initial states,
one step lemma per invariant with a case per action and frame lemmas for the actions
that do not matter, then the temporal theorem by PTL.

## Only model-checked

- Liveness: `EveryCallEnds`, `PendingIsFreed`, `CourseGetsGroup`,
  `EnrolledBecomeMembers`, `JobsSettle`, `SolvedGetsListed`, `EveryRequestReturns`.
  The prover has no rules for fairness and `ENABLED`.
- The two properties that the code violates, `MembersAreEnrolled` and `ReuploadRestores`:
  there TLC's behaviour is the result.

Two properties are stated so that no induction over data is needed. `LedgerBalances` counts
credits one by one, as the elements of a set of pairs of a call and a number, instead of
folding over calls, so that cardinalities of finite sets are all its proof needs.
`NoDeadEnd` rests on minima of sets of natural numbers, which the library has as
well-foundedness.

## Not modelled, and why

- Credits: the cached response and its contents; a database operation that
  took effect although its acknowledgement was lost; clocks of instances that
  disagree on the month.
- Progress: the resume pointer, time spent, listings and analytics; the owner,
  who has access to everything; deletion of the last chapter (the code then
  shows all lessons as one list) and of the whole course; changes of a lesson's
  video or sheets while students watch. A failing update of a reorder is in the
  model, as an update that did not come.
- Community: groups without a course, roles below the owner, mutes, channels,
  chat; the repair of duplicate groups (of several groups of a course a handler
  finds any); the counter after a ban, which the code decrements also for
  users who were no members. A message of the gateway is on the network as
  soon as the lms has answered, a gateway that stops before is a lost message.
- Judge: the container and the test cases (any verdict or an error), what a client sets
  itself through `updateProblemProgress` (attempts, the last status, and `solved`, which it
  may also set back to false, so that `AcceptedCounts` speaks of what the judge does to the row;
  `SheetProgress` models it set and set back), hints, the submission whose job
  was never stored (it stays pending for the readers of submissions; the student was
  answered with an error).
- Sheets: publication, duplication and listings; several sheets, which share nothing.
- Documents: summaries and listings, audio files (no code deletes them), voice questions
  without a key, a second instance or a restart, which know nothing of the lock in memory.
- Sessions: registration and verification, roles and suspension, the password itself,
  access tokens, which stay good until they expire, and expiry of any kind.
- Subscription, posts and comments are in the plan. The other components in the table are
  single documents, file input/output, user interface and generators: no step of
  one actor meets a step of another there in a way the code has to handle.

## Plan

In this order; each with a type invariant, the properties named, and the
invariants proved where no recursion is involved. Runs on one module are merged, so
that the list of runs stays short.

1. `Posts`: likes, comments and replies of community posts, whose counters are kept beside
   the records they count, and concurrent saves of one document.
2. `Subscription`: pending, active and expired plans; composed with `AiCredits` in
   place of the free `ChangePlan`. Properties: PRO only after payment, one
   current plan, the plan ends (nothing in the code ends it today).
3. `SheetProgress` below `JudgeQueue` and above `CourseProgress` in one specification, in
   place of their free actions `Solve` and `SheetProgress`.
4. The gateway's AI requests over `AiCredits`: a new key per HTTP request, so that a
   client's retry is a new call; what idempotency then guarantees.
5. Roles, bans and mutes in `CourseCommunity`.
