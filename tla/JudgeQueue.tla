----------------------------- MODULE JudgeQueue -----------------------------
(***************************************************************************)
(* How a submission to a problem is judged                                 *)
(* (services/lms/src/lms-ai/problem-solving).                              *)
(*                                                                         *)
(* A submission and its job are stored as pending.  Every instance of the  *)
(* service claims pending jobs, oldest first, from the shared collection,  *)
(* judges a limited number at a time, writes the verdict into the          *)
(* submission, then into the job, and then counts the attempt in the       *)
(* student's progress.  An error puts the job back until its retries are   *)
(* used up.  An instance that starts puts back every job that is being     *)
(* processed, also by other instances.  Only each database operation is    *)
(* atomic, and each may fail.                                              *)
(***************************************************************************)
EXTENDS Integers, FiniteSets

CONSTANTS
  Job,         \* submissions, each with its job, in the order of createdAt
  Instance,
  Slot,        \* one for each of maxConcurrentJobs
  MaxRetries,  \* maxRetries
  MaxFaults,   \* bound: database operations that fail
  MaxStarts    \* bound: instances that start again

ASSUME JudgeAssumption ==
  /\ Job \subseteq Nat /\ IsFiniteSet(Job)
  /\ MaxRetries \in Nat /\ MaxFaults \in Nat /\ MaxStarts \in Nat

VARIABLES
  problem,   \* "sound", "unnamed" (no usable parameterNames) or "deleted"
  filed,     \* status of the submission, "none" before there is one
  status, retries, result,  \* of the job
  counted,   \* share of a submission in attemptsCount of the progress row
  solved,    \* the progress row of the problem says solved
  pc, task,  \* of an execution: its next operation and its job
  seen,      \* retryCount when the job was claimed
  kind, verdict,  \* which way the judgement ends, and with what
  faults, starts,  \* how much of the bounds is used up
  overtaken, \* history: jobs put back while an execution was at work on them
  abandoned, \* history: jobs left by an error the service does not retry
  lost       \* history: verdicts that did not reach the progress row

job == <<status, retries, result>>
progress == <<counted, solved>>
work == <<pc, task, seen, kind, verdict>>
bounds == <<faults, starts>>
history == <<overtaken, abandoned, lost>>
vars == <<problem, filed, job, progress, work, bounds, history>>

Worker == Instance \X Slot
\* wrong_answer and the exceeded limits are treated like runtime_error.
Verdict == {"accepted", "runtime_error"}
NoJob == -1

Executing == {w \in Worker : pc[w] \notin {"idle", "take"}}
Idle(i) == {w \in Worker : w[1] = i /\ pc[w] = "idle"}
Settled == {"done", "failed"}

\* Definitions whose name ends in Bug are what the definition after them
\* would be with a plausible mistake in the code; no specification uses them.

Init ==
  /\ problem \in {"sound", "unnamed"}
  /\ filed = [j \in Job |-> "none"]
  /\ status = [j \in Job |-> "none"]
  /\ retries = [j \in Job |-> 0]
  /\ result = [j \in Job |-> "none"]
  /\ counted = [j \in Job |-> 0]
  /\ solved = FALSE
  /\ pc = [w \in Worker |-> "idle"]
  /\ task = [w \in Worker |-> NoJob]
  /\ seen = [w \in Worker |-> 0]
  /\ kind = [w \in Worker |-> "judged"]
  /\ verdict = [w \in Worker |-> "runtime_error"]
  /\ faults = 0 /\ starts = 0
  /\ overtaken = {} /\ abandoned = {} /\ lost = {}

-----------------------------------------------------------------------------
(* Submitting *)

Fault == faults < MaxFaults /\ faults' = faults + 1

NextJob(j) == filed[j] = "none" /\ \A k \in Job : k < j => filed[k] # "none"

Enter(w, l, j) ==
  /\ pc' = [pc EXCEPT ![w] = l]
  /\ task' = [task EXCEPT ![w] = j]

Goto(w, l) == pc' = [pc EXCEPT ![w] = l] /\ UNCHANGED <<task, seen, kind, verdict>>

\* The execution ends; what it knew is forgotten.
Leave(W) ==
  /\ pc' = [w \in Worker |-> IF w \in W THEN "idle" ELSE pc[w]]
  /\ task' = [w \in Worker |-> IF w \in W THEN NoJob ELSE task[w]]
  /\ seen' = [w \in Worker |-> IF w \in W THEN 0 ELSE seen[w]]
  /\ kind' = [w \in Worker |-> IF w \in W THEN "judged" ELSE kind[w]]
  /\ verdict' = [w \in Worker |-> IF w \in W THEN "runtime_error" ELSE verdict[w]]

Submit_EnqueuesNoIdBug(j, i) ==
  /\ problem # "deleted" /\ NextJob(j)
  /\ filed' = [filed EXCEPT ![j] = "pending"]
  /\ status' = [status EXCEPT ![j] = "pending"]
  /\ IF Idle(i) = {} THEN UNCHANGED <<pc, task>>
     ELSE LET w == CHOOSE v \in Idle(i) : TRUE IN Enter(w, "take", NoJob)
  /\ UNCHANGED <<problem, retries, result, progress, seen, kind, verdict, bounds, history>>

\* createSubmission, and enqueue: a busy instance leaves the job to the polls.
Submit(j, i) ==
  /\ problem # "deleted" /\ NextJob(j)
  /\ filed' = [filed EXCEPT ![j] = "pending"]
  /\ status' = [status EXCEPT ![j] = "pending"]
  /\ IF Idle(i) = {} THEN UNCHANGED <<pc, task>>
     ELSE LET w == CHOOSE v \in Idle(i) : TRUE IN Enter(w, "take", j)
  /\ UNCHANGED <<problem, retries, result, progress, seen, kind, verdict, bounds, history>>

\* The submission is stored, its job is not: the request is answered with an error.
SubmitFails(j) ==
  /\ problem # "deleted" /\ NextJob(j) /\ Fault
  /\ filed' = [filed EXCEPT ![j] = "pending"]
  /\ UNCHANGED <<problem, job, progress, work, starts, history>>

DeleteProblem ==
  /\ problem # "deleted" /\ problem' = "deleted"
  /\ UNCHANGED <<filed, job, progress, work, bounds, history>>

-----------------------------------------------------------------------------
(* Claiming *)

Claimable_AnyStatusBug(j) == status[j] \in {"pending", "processing"} /\ retries[j] <= MaxRetries

Claimable_NoRetryLeftBug(j) == status[j] = "pending" /\ retries[j] < MaxRetries

Claimable(j) == status[j] = "pending" /\ retries[j] <= MaxRetries

Claim(w, j) ==
  /\ status' = [status EXCEPT ![j] = "processing"]
  /\ seen' = [seen EXCEPT ![w] = retries[j]]
  /\ Enter(w, "load", j)

\* processNext: the tick of an instance with a free slot takes the oldest job.
Poll(w) ==
  /\ pc[w] = "idle"
  /\ \E j \in Job :
       /\ Claimable(j)
       /\ \A k \in Job : Claimable(k) => j <= k
       /\ Claim(w, j)
  /\ UNCHANGED <<problem, filed, retries, result, progress, kind, verdict, bounds, history>>

\* processSpecific, which a poll may have forestalled.
Take(w) ==
  /\ pc[w] = "take"
  /\ IF Claimable(task[w])
     THEN Claim(w, task[w]) /\ UNCHANGED <<kind, verdict>>
     ELSE Leave({w}) /\ UNCHANGED status
  /\ UNCHANGED <<problem, filed, retries, result, progress, bounds, history>>

-----------------------------------------------------------------------------
(* Judging *)

\* A problem that is gone or cannot be called fails the submission unjudged.
Load(w) ==
  /\ pc[w] = "load"
  /\ pc' = [pc EXCEPT ![w] = IF problem = "sound" THEN "evaluate" ELSE "file"]
  /\ kind' = [kind EXCEPT ![w] = IF problem = "sound" THEN "judged" ELSE problem]
  /\ UNCHANGED <<problem, filed, job, progress, task, seen, verdict, bounds, history>>

\* A verdict depends on the load of the machine; the runner may fail instead.
Evaluate(w) ==
  /\ pc[w] = "evaluate"
  /\ \/ \E v \in Verdict : verdict' = [verdict EXCEPT ![w] = v] /\ pc' = [pc EXCEPT ![w] = "file"]
     \/ pc' = [pc EXCEPT ![w] = "catch"] /\ UNCHANGED verdict
  /\ UNCHANGED <<problem, filed, job, progress, task, seen, kind, bounds, history>>

\* submissionModel.updateOne
File(w) ==
  /\ pc[w] = "file"
  /\ filed' = [filed EXCEPT ![task[w]] = verdict[w]]
  /\ Goto(w, "close")
  /\ UNCHANGED <<problem, job, progress, bounds, history>>

\* jobModel.updateOne, whatever the job's status is by now
Close(w) ==
  /\ pc[w] = "close"
  /\ status' = [status EXCEPT ![task[w]] = IF kind[w] = "deleted" THEN "failed" ELSE "done"]
  /\ result' = [result EXCEPT ![task[w]] = verdict[w]]
  /\ IF kind[w] = "judged" THEN Goto(w, "record") ELSE Leave({w})
  /\ UNCHANGED <<problem, filed, retries, progress, bounds, history>>

Count_WrongAnswerUndoesBug(w) ==
  /\ counted' = [counted EXCEPT ![task[w]] = @ + 1]
  /\ solved' = (verdict[w] = "accepted")

\* A wrong answer leaves a solved problem solved.
Count(w) ==
  /\ counted' = [counted EXCEPT ![task[w]] = @ + 1]
  /\ solved' = (solved \/ verdict[w] = "accepted")

\* recordSubmissionResult, with the sheets in step
Record(w) ==
  /\ pc[w] = "record"
  /\ Count(w) /\ Leave({w})
  /\ UNCHANGED <<problem, filed, job, bounds, history>>

RecordFails_RetriedBug(w) ==
  /\ pc[w] = "record" /\ Fault
  /\ \/ Count(w) /\ UNCHANGED lost
     \/ UNCHANGED progress /\ lost' = lost \cup {task[w]}
  /\ Goto(w, "catch")
  /\ UNCHANGED <<problem, filed, job, starts, overtaken, abandoned>>

\* Before or after the row is written; either way it is only logged.
RecordFails(w) ==
  /\ pc[w] = "record" /\ Fault
  /\ \/ Count(w) /\ UNCHANGED lost
     \/ UNCHANGED progress /\ lost' = lost \cup {task[w]}
  /\ Leave({w})
  /\ UNCHANGED <<problem, filed, job, starts, overtaken, abandoned>>

-----------------------------------------------------------------------------
(* Errors *)

\* A write of the verdict fails inside the try block.
WriteFails(w) ==
  /\ pc[w] \in {"file", "close"} /\ kind[w] = "judged" /\ Fault
  /\ pc' = [pc EXCEPT ![w] = "catch"]
  /\ verdict' = [verdict EXCEPT ![w] = "runtime_error"]
  /\ UNCHANGED <<problem, filed, job, progress, task, seen, kind, starts, history>>

\* Any other operation fails: the queue logs it and drops the execution.
Abandon(w) ==
  /\ \/ pc[w] \in {"load", "catch", "excuse"}
     \/ pc[w] \in {"file", "close"} /\ kind[w] # "judged"
  /\ Fault /\ Leave({w})
  /\ abandoned' = abandoned \cup {task[w]}
  /\ UNCHANGED <<problem, filed, job, progress, starts, overtaken, lost>>

\* The decision uses the count read at the claim, the update adds to the present one.
Catch(w) ==
  /\ pc[w] = "catch"
  /\ LET j == task[w]
         again == seen[w] + 1 <= MaxRetries IN
     /\ status' = [status EXCEPT ![j] = IF again THEN "pending" ELSE "failed"]
     /\ result' = [result EXCEPT ![j] = IF again THEN "none" ELSE "runtime_error"]
     /\ retries' = [retries EXCEPT ![j] = @ + 1]
     /\ IF again THEN Leave({w}) ELSE Goto(w, "excuse")
  /\ UNCHANGED <<problem, filed, progress, bounds, history>>

Excuse_SkippedBug(w) ==
  /\ pc[w] = "excuse" /\ Leave({w})
  /\ UNCHANGED <<problem, filed, job, progress, bounds, history>>

\* The submission follows the failed job, over an earlier verdict also.
Excuse(w) ==
  /\ pc[w] = "excuse"
  /\ filed' = [filed EXCEPT ![task[w]] = "runtime_error"]
  /\ Leave({w})
  /\ UNCHANGED <<problem, job, progress, bounds, history>>

\* An instance stops with its executions, and recovers the jobs as it starts.
Start(i) ==
  /\ starts < MaxStarts /\ starts' = starts + 1
  /\ status' = [j \in Job |-> IF status[j] = "processing" THEN "pending" ELSE status[j]]
  /\ LET own == {w \in Executing : w[1] = i} IN
     /\ Leave({w \in Worker : w[1] = i})
     /\ overtaken' = overtaken \cup {j \in Job : status[j] = "processing"
                        /\ \E w \in Executing \ own : task[w] = j}
     /\ abandoned' = abandoned \cup {task[w] : w \in {v \in own : pc[v] = "excuse"}}
     /\ lost' = lost \cup {task[w] : w \in {v \in own : pc[v] = "record"}}
  /\ UNCHANGED <<problem, filed, retries, result, progress, faults>>

-----------------------------------------------------------------------------
Work(w) ==
  \/ Poll(w) \/ Take(w) \/ Load(w) \/ Evaluate(w) \/ File(w) \/ Close(w)
  \/ Record(w) \/ Catch(w) \/ Excuse(w)

Fail(w) == RecordFails(w) \/ WriteFails(w) \/ Abandon(w)

Next ==
  \/ \E j \in Job : SubmitFails(j) \/ \E i \in Instance : Submit(j, i)
  \/ DeleteProblem
  \/ \E w \in Worker : Work(w) \/ Fail(w)
  \/ \E i \in Instance : Start(i)

Spec == Init /\ [][Next]_vars

\* The timers of every instance keep firing and the event loop runs what is
\* ready; nobody need submit, and nothing need fail.
FairSpec == Spec /\ \A w \in Worker : WF_vars(Work(w))

-----------------------------------------------------------------------------
(* Properties *)

\* Every variable holds values of its kind, and an execution that has begun has a
\* job, be it handed over by enqueue or claimed.
TypeOK ==
  /\ problem \in {"sound", "unnamed", "deleted"}
  /\ filed \in [Job -> {"none", "pending"} \cup Verdict]
  /\ status \in [Job -> {"none", "pending", "processing"} \cup Settled]
  /\ retries \in [Job -> Nat]
  /\ result \in [Job -> {"none"} \cup Verdict]
  /\ counted \in [Job -> Nat] /\ solved \in BOOLEAN
  /\ pc \in [Worker -> {"idle", "take", "load", "evaluate", "file", "close", "record", "catch", "excuse"}]
  /\ task \in [Worker -> Job \cup {NoJob}]
  /\ \A w \in Worker : pc[w] # "idle" => task[w] \in Job
  /\ seen \in [Worker -> Nat]
  /\ kind \in [Worker -> {"judged", "unnamed", "deleted"}]
  /\ verdict \in [Worker -> Verdict]
  /\ faults \in Nat /\ starts \in Nat
  /\ overtaken \subseteq Job /\ abandoned \subseteq Job /\ lost \subseteq Job

At(j) == {w \in Executing : task[w] = j}

\* A job is judged by one execution at a time, on whatever instances poll for
\* it, unless one of them starts while another is at work on the job.
OneExecution ==
  \A j \in Job \ overtaken : \A v, w \in At(j) : v = w

\* The two records of a verdict agree once the job is settled and nobody is
\* at work on it: the job, which the student polls, and the submission, which
\* hints and statistics read.
RecordsAgree ==
  \A j \in Job \ (overtaken \cup abandoned) :
    status[j] \in Settled /\ At(j) = {} => filed[j] = result[j]

\* An accepted submission makes the problem solved, which opens sheets and
\* lessons, except where the write of the progress row was lost after the job
\* was closed; that holds for overtaken jobs also. The client may set solved back
\* through updateProblemProgress, which is not modelled here.
AcceptedCounts ==
  \A j \in Job \ lost :
    status[j] = "done" /\ result[j] = "accepted" /\ At(j) = {} => solved

\* Every job is settled in the end, by a verdict or by its retries running
\* out, unless an error outside the try block leaves it processing.
JobsSettle ==
  \A j \in Job :
    status[j] \in {"pending", "processing"}
      ~> status[j] \in Settled \/ j \in overtaken \cup abandoned

\* What a student is promised: getSubmissionStatus says pending until it gives
\* a verdict, that verdict stands, and the attempt is counted at most once and
\* only then.
Answer(j) == IF status[j] \in {"pending", "processing"} THEN "pending" ELSE result[j]

Promise == INSTANCE Verdicts WITH
  answer <- [j \in Job |-> IF j \in overtaken THEN "forfeited" ELSE Answer(j)],
  counted <- [j \in Job |-> IF j \in overtaken THEN 0 ELSE counted[j]]

KeepsPromise == Promise!Spec
=============================================================================
