-------------------------- MODULE JudgeQueueProofs --------------------------
(***************************************************************************)
(* Theorems about JudgeQueue, for any number of submissions, instances,    *)
(* slots, retries, failures and restarts.                                  *)
(***************************************************************************)
EXTENDS JudgeQueue, TLAPS

USE DEF job, progress, work, bounds, history

Location == {"idle", "take", "load", "evaluate", "file", "close", "record", "catch", "excuse"}

-----------------------------------------------------------------------------
(* Types *)

Working ==
  /\ pc \in [Worker -> Location] /\ task \in [Worker -> Job \cup {NoJob}]
  /\ seen \in [Worker -> Nat]
  /\ kind \in [Worker -> {"judged", "unnamed", "deleted"}] /\ verdict \in [Worker -> Verdict]
  /\ \A w \in Worker : pc[w] # "idle" => task[w] \in Job

LEMMA WorkingType ==
  /\ TypeOK => Working
  /\ TypeOK /\ Working' /\ UNCHANGED <<problem, filed, job, progress, bounds, history>> => TypeOK'
BY DEF TypeOK, Working, Location, Settled

LEMMA TypeInitially == Init => TypeOK
<1>. SUFFICES ASSUME Init PROVE TypeOK
  OBVIOUS
<1>1. Working
  BY DEF Init, Working, Location, Verdict
<1>. QED  BY <1>1 DEF Init, TypeOK, Working, Location

\* The executions of W end, the others go on.
LEMMA LeaveType ==
  ASSUME Working, NEW W \in SUBSET Worker, Leave(W)
  PROVE  /\ Working'
         /\ \A w \in W : pc'[w] = "idle" /\ kind'[w] = "judged" /\ verdict'[w] = "runtime_error"
         /\ \A w \in Worker \ W : /\ pc'[w] = pc[w] /\ task'[w] = task[w] /\ seen'[w] = seen[w]
                                   /\ kind'[w] = kind[w] /\ verdict'[w] = verdict[w]
BY DEF Working, Leave, Location, Verdict

LEMMA GotoType ==
  ASSUME Working, NEW w \in Worker, NEW l \in Location, Goto(w, l), pc[w] # "idle"
  PROVE  Working' /\ pc'[w] = l /\ \A v \in Worker \ {w} : pc'[v] = pc[v]
BY DEF Working, Goto

LEMMA EnterType ==
  ASSUME Working, NEW w \in Worker, NEW l \in Location, NEW j \in Job, Enter(w, l, j)
  PROVE  /\ pc' \in [Worker -> Location] /\ task' \in [Worker -> Job \cup {NoJob}]
         /\ pc'[w] = l /\ task'[w] = j
         /\ \A v \in Worker \ {w} : pc'[v] = pc[v] /\ task'[v] = task[v]
         /\ \A v \in Worker : pc'[v] # "idle" => task'[v] \in Job
BY DEF Working, Enter

\* Submitting wakes an idle slot of the instance, or none.
LEMMA SubmitWork ==
  ASSUME Working, NEW j \in Job, NEW i \in Instance, Submit(j, i)
  PROVE  /\ Working' /\ UNCHANGED <<seen, kind, verdict>>
         /\ \A w \in Worker : \/ pc'[w] = pc[w] /\ task'[w] = task[w]
                              \/ pc[w] = "idle" /\ pc'[w] = "take" /\ task'[w] = j
<1>1. CASE Idle(i) = {}
  BY <1>1 DEF Submit, Working
<1>2. CASE Idle(i) # {}
  <2>. DEFINE w == CHOOSE v \in Idle(i) : TRUE
  <2>1. w \in Worker /\ pc[w] = "idle"
    BY <1>2 DEF Idle
  <2>2. Enter(w, "take", j) /\ UNCHANGED <<seen, kind, verdict>>
    BY <1>2 DEF Submit
  <2>. HIDE DEF w
  <2>. QED  BY <2>1, <2>2, EnterType DEF Working, Location
<1>. QED  BY <1>1, <1>2

LEMMA ClaimWork ==
  ASSUME Working, retries \in [Job -> Nat], NEW w \in Worker, NEW j \in Job, Claim(w, j), UNCHANGED <<kind, verdict>>
  PROVE  /\ Working' /\ pc'[w] = "load" /\ task'[w] = j
         /\ \A v \in Worker \ {w} : pc'[v] = pc[v] /\ task'[v] = task[v]
<1>1. seen' \in [Worker -> Nat]
  BY DEF Working, Claim
<1>. QED  BY <1>1, EnterType DEF Working, Claim, Location

LEMMA TypeStep == TypeOK /\ [Next]_vars => TypeOK'
<1>. SUFFICES ASSUME TypeOK, [Next]_vars PROVE TypeOK'
  OBVIOUS
<1>0. Working
  BY WorkingType
<1>1. ASSUME NEW j \in Job, SubmitFails(j) PROVE TypeOK'
  BY <1>1 DEF TypeOK, SubmitFails, Fault
<1>2. ASSUME NEW j \in Job, NEW i \in Instance, Submit(j, i) PROVE TypeOK'
  BY <1>2, <1>0, SubmitWork DEF TypeOK, Working, Location, Submit
<1>3. CASE DeleteProblem
  BY <1>3 DEF TypeOK, DeleteProblem
<1>4. ASSUME NEW w \in Worker, Poll(w) PROVE TypeOK'
  <2>1. PICK j \in Job : Claim(w, j)
    BY <1>4 DEF Poll
  <2>2. Working'
    BY <1>0, <1>4, <2>1, ClaimWork DEF TypeOK, Poll
  <2>. QED  BY <1>4, <2>1, <2>2 DEF TypeOK, Working, Location, Poll, Claim
<1>5. ASSUME NEW w \in Worker, Take(w) PROVE TypeOK'
  <2>1. CASE Claimable(task[w])
    <3>1. Working'
      BY <1>0, <1>5, <2>1, ClaimWork DEF TypeOK, Take
    <3>. QED  BY <1>5, <2>1, <3>1 DEF TypeOK, Working, Location, Take, Claim
  <2>2. CASE ~ Claimable(task[w])
    BY <1>0, <1>5, <2>2, LeaveType, WorkingType DEF Take
  <2>. QED  BY <2>1, <2>2
<1>6. ASSUME NEW w \in Worker, Load(w) PROVE TypeOK'
  BY <1>6 DEF TypeOK, Load
<1>7. ASSUME NEW w \in Worker, Evaluate(w) PROVE TypeOK'
  BY <1>7 DEF TypeOK, Evaluate
<1>8. ASSUME NEW w \in Worker, File(w) PROVE TypeOK'
  BY <1>0, <1>8, GotoType DEF TypeOK, Working, Location, File
<1>9. ASSUME NEW w \in Worker, Close(w) PROVE TypeOK'
  <2>1. Working'
    BY <1>0, <1>9, GotoType, LeaveType DEF Close, Location
  <2>2. status' \in [Job -> {"none", "pending", "processing"} \cup Settled] /\ result' \in [Job -> {"none"} \cup Verdict]
    BY <1>9 DEF TypeOK, Close, Settled
  <2>. QED  BY <1>9, <2>1, <2>2 DEF TypeOK, Working, Location, Close
<1>10. ASSUME NEW w \in Worker, Record(w) \/ RecordFails(w) PROVE TypeOK'
  <2>1. Working' /\ task[w] \in Job
    BY <1>0, <1>10, LeaveType DEF Working, Record, RecordFails
  <2>2. Count(w) \/ UNCHANGED progress
    BY <1>10 DEF Record, RecordFails
  <2>3. counted' \in [Job -> Nat]
    BY <2>1, <2>2 DEF TypeOK, Count
  <2>4. solved' \in BOOLEAN
    BY <2>2, Zenon DEF TypeOK, Count
  <2>5. lost' \subseteq Job /\ faults' \in Nat /\ starts' \in Nat
    BY <1>10, <2>1 DEF TypeOK, Record, RecordFails, Fault
  <2>6. UNCHANGED <<problem, filed, job, overtaken, abandoned>>
    BY <1>10 DEF Record, RecordFails
  <2>. QED  BY <2>1, <2>3, <2>4, <2>5, <2>6 DEF TypeOK, Working, Location
<1>11. ASSUME NEW w \in Worker, Catch(w) PROVE TypeOK'
  <2>1. Working'
    BY <1>0, <1>11, GotoType, LeaveType DEF Catch, Location
  <2>2. /\ status' \in [Job -> {"none", "pending", "processing"} \cup Settled]
        /\ result' \in [Job -> {"none"} \cup Verdict] /\ retries' \in [Job -> Nat]
    BY <1>11 DEF TypeOK, Catch, Settled, Verdict
  <2>. QED  BY <1>11, <2>1, <2>2 DEF TypeOK, Working, Location, Catch
<1>12. ASSUME NEW w \in Worker, Excuse(w) PROVE TypeOK'
  <2>1. Working'
    BY <1>0, <1>12, LeaveType DEF Excuse
  <2>2. filed' \in [Job -> {"none", "pending"} \cup Verdict]
    BY <1>12 DEF TypeOK, Excuse, Verdict
  <2>. QED  BY <1>12, <2>1, <2>2 DEF TypeOK, Working, Location, Excuse
<1>13. ASSUME NEW w \in Worker, WriteFails(w) PROVE TypeOK'
  BY <1>13 DEF TypeOK, WriteFails, Fault, Verdict
<1>14. ASSUME NEW w \in Worker, Abandon(w) PROVE TypeOK'
  <2>1. Working' /\ task[w] \in Job
    BY <1>0, <1>14, LeaveType DEF Working, Abandon
  <2>. QED  BY <1>14, <2>1 DEF TypeOK, Working, Location, Abandon, Fault
<1>15. ASSUME NEW i \in Instance, Start(i) PROVE TypeOK'
  <2>1. Working'
    BY <1>0, <1>15, LeaveType DEF Start
  <2>2. /\ status' \in [Job -> {"none", "pending", "processing"} \cup Settled]
        /\ overtaken' \subseteq Job
    BY <1>15 DEF TypeOK, Start, Settled
  <2>3. abandoned' \subseteq Job /\ lost' \subseteq Job
    BY <1>15, <1>0 DEF TypeOK, Working, Start, Executing
  <2>. QED  BY <1>15, <2>1, <2>2, <2>3 DEF TypeOK, Working, Location, Start
<1>16. CASE UNCHANGED vars
  BY <1>16 DEF TypeOK, vars
<1>. QED
  BY <1>1, <1>2, <1>3, <1>4, <1>5, <1>6, <1>7, <1>8, <1>9, <1>10, <1>11, <1>12, <1>13,
     <1>14, <1>15, <1>16 DEF Next, Work, Fail

\* Types, for every instance; an execution that has begun has a job.
THEOREM JudgeTypeCorrect == Spec => []TypeOK
BY TypeInitially, TypeStep, PTL DEF Spec

-----------------------------------------------------------------------------
(* What an execution knows *)

\* A job exists from the submission on; an execution that is not judging has no
\* verdict, and one that could not call the problem never has a good one.
Known ==
  /\ \A j \in Job : filed[j] = "none" => status[j] = "none"
  /\ \A j \in Job : status[j] = "none" => result[j] = "none"
  /\ \A j \in Job : status[j] \in Settled => result[j] \in Verdict
  /\ \A w \in Worker : pc[w] # "idle" => status[task[w]] # "none"
  /\ \A w \in Worker : pc[w] \in {"idle", "take", "load"} \/ kind[w] # "judged" => verdict[w] = "runtime_error"
  /\ \A w \in Worker : pc[w] \in {"evaluate", "record"} => kind[w] = "judged"

LEMMA KnownInitially == Init => Known
BY DEF Init, Known, Settled

\* A step of one execution leaves the others where they are.
LEMMA Elsewhere ==
  ASSUME TypeOK, NEW w \in Worker, Work(w) \/ Fail(w), NEW v \in Worker \ {w}
  PROVE  pc'[v] = pc[v] /\ task'[v] = task[v] /\ kind'[v] = kind[v] /\ verdict'[v] = verdict[v]
<1>1. ASSUME Leave({w}) PROVE pc'[v] = pc[v] /\ task'[v] = task[v] /\ kind'[v] = kind[v] /\ verdict'[v] = verdict[v]
  BY <1>1 DEF Leave
<1>2. ASSUME NEW l, Goto(w, l) PROVE pc'[v] = pc[v] /\ task'[v] = task[v] /\ kind'[v] = kind[v] /\ verdict'[v] = verdict[v]
  BY <1>2 DEF TypeOK, Goto
<1>3. ASSUME NEW j, Claim(w, j), UNCHANGED <<kind, verdict>>
      PROVE  pc'[v] = pc[v] /\ task'[v] = task[v] /\ kind'[v] = kind[v] /\ verdict'[v] = verdict[v]
  BY <1>3 DEF TypeOK, Claim, Enter
<1>4. CASE Poll(w) \/ Take(w)
  BY <1>4, <1>1, <1>3 DEF Poll, Take
<1>5. CASE Load(w) \/ Evaluate(w) \/ WriteFails(w)
  BY <1>5 DEF TypeOK, Load, Evaluate, WriteFails
<1>6. CASE File(w) \/ Close(w) \/ Record(w) \/ Catch(w) \/ Excuse(w) \/ RecordFails(w) \/ Abandon(w)
  BY <1>6, <1>1, <1>2 DEF File, Close, Record, Catch, Excuse, RecordFails, Abandon
<1>. QED  BY <1>4, <1>5, <1>6 DEF Work, Fail

LEMMA KnownStep == TypeOK /\ Known /\ [Next]_vars => Known'
<1>. SUFFICES ASSUME TypeOK, Known, [Next]_vars PROVE Known'
  OBVIOUS
<1>0. Working
  BY WorkingType
<1>1. ASSUME NEW j \in Job, SubmitFails(j) PROVE Known'
  BY <1>1 DEF TypeOK, Known, SubmitFails
<1>2. ASSUME NEW j \in Job, NEW i \in Instance, Submit(j, i) PROVE Known'
  <2>1. /\ filed' = [filed EXCEPT ![j] = "pending"] /\ status' = [status EXCEPT ![j] = "pending"]
        /\ UNCHANGED <<result, seen, kind, verdict>>
    BY <1>2, <1>0, SubmitWork DEF Submit
  <2>2. \A w \in Worker : \/ pc'[w] = pc[w] /\ task'[w] = task[w]
                          \/ pc[w] = "idle" /\ pc'[w] = "take" /\ task'[w] = j
    BY <1>0, <1>2, SubmitWork
  <2>. QED  BY <2>1, <2>2 DEF TypeOK, Known, Settled
<1>3. CASE DeleteProblem
  BY <1>3 DEF Known, DeleteProblem
<1>4. ASSUME NEW w \in Worker, NEW j \in Job, Claim(w, j), Claimable(j),
             UNCHANGED <<filed, result, retries, kind, verdict>>, pc[w] \in {"idle", "take"}
      PROVE  Known'
  <2>1. status' = [status EXCEPT ![j] = "processing"] /\ status[j] = "pending"
    BY <1>4 DEF Claim, Claimable
  <2>. QED  BY <1>0, <1>4, <2>1, ClaimWork DEF TypeOK, Known, Settled
<1>5. ASSUME NEW W \in SUBSET Worker, Leave(W), UNCHANGED <<filed, status, result>> PROVE Known'
  BY <1>0, <1>5, LeaveType DEF TypeOK, Known
<1>6. ASSUME NEW w \in Worker, Poll(w) \/ Take(w) PROVE Known'
  BY <1>0, <1>4, <1>5, <1>6 DEF Working, Poll, Take
<1>7. ASSUME NEW w \in Worker, Load(w) \/ Evaluate(w) \/ WriteFails(w) PROVE Known'
  BY <1>7 DEF TypeOK, Known, Load, Evaluate, WriteFails
<1>8. ASSUME NEW w \in Worker, File(w) PROVE Known'
  BY <1>8 DEF TypeOK, Known, File, Goto, Verdict
<1>9. ASSUME NEW w \in Worker, Close(w) PROVE Known'
  <2>1. CASE kind[w] = "judged"
    BY <1>9, <2>1 DEF TypeOK, Known, Close, Goto, Settled
  <2>2. CASE kind[w] # "judged"
    <3>1. Leave({w})
      BY <1>9, <2>2 DEF Close
    <3>. QED  BY <1>0, <1>9, <3>1, LeaveType DEF TypeOK, Known, Close, Settled
  <2>. QED  BY <2>1, <2>2
<1>10. ASSUME NEW w \in Worker, Record(w) \/ RecordFails(w) \/ Abandon(w) PROVE Known'
  BY <1>5, <1>10 DEF Record, RecordFails, Abandon
<1>11. ASSUME NEW w \in Worker, Catch(w) PROVE Known'
  <2>1. Leave({w}) \/ Goto(w, "excuse")
    BY <1>11 DEF Catch
  <2>2. task[w] \in Job /\ status' = [status EXCEPT ![task[w]] = status'[task[w]]]
                        /\ result' = [result EXCEPT ![task[w]] = result'[task[w]]]
    BY <1>11 DEF TypeOK, Catch
  <2>3. \/ status'[task[w]] = "pending"
        \/ status'[task[w]] = "failed" /\ result'[task[w]] = "runtime_error"
    BY <1>11 DEF TypeOK, Catch
  <2>4. filed' = filed
    BY <1>11 DEF Catch
  <2>5. pc[w] = "catch"
    BY <1>11 DEF Catch
  <2>6. CASE Leave({w})
    BY <1>0, <2>2, <2>3, <2>4, <2>5, <2>6, LeaveType DEF TypeOK, Known, Settled, Verdict
  <2>7. CASE Goto(w, "excuse")
    BY <2>2, <2>3, <2>4, <2>5, <2>7 DEF TypeOK, Known, Goto, Settled, Verdict
  <2>. QED  BY <2>1, <2>6, <2>7
<1>12. ASSUME NEW w \in Worker, Excuse(w) PROVE Known'
  BY <1>0, <1>12, LeaveType DEF TypeOK, Known, Excuse
<1>13. ASSUME NEW i \in Instance, Start(i) PROVE Known'
  <2>1. Leave({w \in Worker : w[1] = i}) /\ UNCHANGED <<filed, result>>
    BY <1>13 DEF Start
  <2>2. \A j \in Job : status'[j] = IF status[j] = "processing" THEN "pending" ELSE status[j]
    BY <1>13 DEF Start
  <2>. QED  BY <1>0, <2>1, <2>2, LeaveType DEF TypeOK, Known, Settled
<1>14. CASE UNCHANGED vars
  BY <1>14 DEF Known, vars
<1>. QED
  BY <1>1, <1>2, <1>3, <1>6, <1>7, <1>8, <1>9, <1>10, <1>11, <1>12, <1>13, <1>14 DEF Next, Work, Fail

-----------------------------------------------------------------------------
(* One execution *)

\* What the status of a job says while an execution at l is at work on it
StatusAt(l) == CASE l = "record" -> "done" [] l = "excuse" -> "failed" [] OTHER -> "processing"

\* One execution at a time, and the status of the job is the one it left there.
Sole ==
  \A j \in Job \ overtaken :
    /\ \A v, w \in At(j) : v = w
    /\ \A w \in At(j) : status[j] = StatusAt(pc[w])

LEMMA SoleInitially == Init => Sole
BY DEF Init, Sole, At, Executing

\* An execution that goes on or ends, and writes the status of its job only.
LEMMA SoleWork ==
  ASSUME TypeOK, Sole, NEW w \in Executing, Work(w) \/ Fail(w), overtaken' = overtaken,
         \A j \in Job \ {task[w]} : status'[j] = status[j],
         \/ pc'[w] = "idle"
         \/ /\ pc'[w] # "take" /\ task'[w] = task[w]
            /\ task[w] \in overtaken \/ status'[task[w]] = StatusAt(pc'[w])
  PROVE  Sole'
<1>1. \A v \in Worker \ {w} : pc'[v] = pc[v] /\ task'[v] = task[v]
  BY Elsewhere DEF Executing
<1>2. \A v \in Worker \ {w} : v \in Executing /\ task[v] = task[w] => task[w] \in overtaken
  BY DEF TypeOK, Sole, At, Executing
<1>. QED  BY <1>1, <1>2 DEF TypeOK, Sole, At, Executing

LEMMA SoleStep == TypeOK /\ Known /\ Sole /\ [Next]_vars => Sole'
<1>. SUFFICES ASSUME TypeOK, Known, Sole, [Next]_vars PROVE Sole'
  OBVIOUS
<1>0. Working
  BY WorkingType
<1>1. CASE DeleteProblem \/ \E j \in Job : SubmitFails(j)
  BY <1>1 DEF Sole, SubmitFails, DeleteProblem, At, Executing
<1>2. ASSUME NEW j \in Job, NEW i \in Instance, Submit(j, i) PROVE Sole'
  <2>1. \A w \in Worker : \/ pc'[w] = pc[w] /\ task'[w] = task[w]
                          \/ pc[w] = "idle" /\ pc'[w] = "take"
    BY <1>0, <1>2, SubmitWork
  <2>2. status[j] = "none" /\ overtaken' = overtaken /\ status' = [status EXCEPT ![j] = "pending"]
    BY <1>2 DEF TypeOK, Known, Submit, NextJob
  <2>3. At(j) = {}
    BY <2>2 DEF TypeOK, Known, At, Executing
  <2>4. \A k \in Job : At(k)' = At(k)
    BY <2>1 DEF At, Executing
  <2>5. \A k \in Job : \A w \in At(k) : pc'[w] = pc[w]
    BY <2>1 DEF At, Executing
  <2>. QED  BY <2>2, <2>3, <2>4, <2>5 DEF TypeOK, Sole
<1>3. ASSUME NEW w \in Worker, NEW j \in Job, Claim(w, j), Claimable(j), Poll(w) \/ Take(w),
             pc[w] \in {"idle", "take"}, overtaken' = overtaken, UNCHANGED <<kind, verdict>>
      PROVE  Sole'
  <2>1. status' = [status EXCEPT ![j] = "processing"] /\ status[j] = "pending"
    BY <1>3 DEF Claim, Claimable
  <2>2. pc'[w] = "load" /\ task'[w] = j /\ \A v \in Worker \ {w} : pc'[v] = pc[v] /\ task'[v] = task[v]
    BY <1>0, <1>3, ClaimWork DEF TypeOK
  <2>3. j \notin overtaken => At(j) = {}
    BY <2>1 DEF Sole, StatusAt
  <2>. QED  BY <1>3, <2>1, <2>2, <2>3 DEF TypeOK, Sole, At, Executing, StatusAt
<1>4. ASSUME NEW w \in Worker, Poll(w) PROVE Sole'
  BY <1>3, <1>4 DEF Poll
<1>5. ASSUME NEW w \in Worker, Take(w) PROVE Sole'
  <2>1. CASE Claimable(task[w])
    BY <1>3, <1>5, <2>1 DEF TypeOK, Take
  <2>2. CASE ~ Claimable(task[w])
    <3>1. Leave({w}) /\ UNCHANGED <<status, overtaken>> /\ pc[w] = "take"
      BY <1>5, <2>2 DEF Take
    <3>. QED  BY <1>0, <3>1, LeaveType DEF Sole, At, Executing
  <2>. QED  BY <2>1, <2>2
<1>6. ASSUME NEW w \in Worker, Load(w) \/ Evaluate(w) \/ File(w) \/ WriteFails(w) PROVE Sole'
  <2>1. /\ w \in Executing /\ UNCHANGED <<status, task, overtaken>>
        /\ pc[w] \in {"load", "evaluate", "file", "close"} /\ pc'[w] \in {"evaluate", "file", "close", "catch"}
    BY <1>6 DEF TypeOK, Load, Evaluate, File, WriteFails, Goto, Executing
  <2>2. task[w] \in overtaken \/ status[task[w]] = "processing"
    BY <2>1 DEF TypeOK, Sole, At, Executing, StatusAt
  <2>. QED  BY <1>6, <2>1, <2>2, SoleWork DEF Work, Fail, StatusAt
<1>7. ASSUME NEW w \in Worker, Close(w) PROVE Sole'
  <2>1. /\ w \in Executing /\ overtaken' = overtaken
        /\ \A j \in Job \ {task[w]} : status'[j] = status[j]
    BY <1>7 DEF TypeOK, Close, Executing
  <2>2. CASE kind[w] = "judged"
    <3>1. status'[task[w]] = "done" /\ pc'[w] = "record" /\ task'[w] = task[w]
      BY <1>7, <2>2 DEF TypeOK, Close, Goto
    <3>. QED  BY <1>7, <2>1, <3>1, SoleWork DEF Work, StatusAt
  <2>3. CASE kind[w] # "judged"
    <3>1. pc'[w] = "idle"
      BY <1>7, <2>3 DEF TypeOK, Close, Leave
    <3>. QED  BY <1>7, <2>1, <3>1, SoleWork DEF Work
  <2>. QED  BY <2>2, <2>3
<1>8. ASSUME NEW w \in Worker, Catch(w) PROVE Sole'
  <2>1. /\ w \in Executing /\ overtaken' = overtaken
        /\ \A j \in Job \ {task[w]} : status'[j] = status[j]
    BY <1>8 DEF TypeOK, Catch, Executing
  <2>2. \/ pc'[w] = "idle"
        \/ status'[task[w]] = "failed" /\ pc'[w] = "excuse" /\ task'[w] = task[w]
    BY <1>8 DEF TypeOK, Catch, Goto, Leave
  <2>. QED  BY <1>8, <2>1, <2>2, SoleWork DEF Work, StatusAt
<1>9. ASSUME NEW w \in Worker, Record(w) \/ RecordFails(w) \/ Abandon(w) \/ Excuse(w) PROVE Sole'
  <2>1. /\ w \in Executing /\ pc'[w] = "idle" /\ UNCHANGED <<status, overtaken>>
    BY <1>9 DEF TypeOK, Record, RecordFails, Abandon, Excuse, Leave, Executing
  <2>. QED  BY <1>9, <2>1, SoleWork DEF Work, Fail
<1>10. ASSUME NEW i \in Instance, Start(i) PROVE Sole'
  <2>1. \A w \in Worker : IF w[1] = i THEN pc'[w] = "idle" ELSE pc'[w] = pc[w] /\ task'[w] = task[w]
    BY <1>10 DEF Start, Leave
  <2>2. \A j \in Job : status'[j] = IF status[j] = "processing" THEN "pending" ELSE status[j]
    BY <1>10 DEF Start
  <2>3. \A j \in Job \ overtaken' :
          /\ j \notin overtaken
          /\ status[j] = "processing" => \A w \in Executing : task[w] = j => w[1] = i
    BY <1>10 DEF Start
  <2>4. ASSUME NEW j \in Job \ overtaken', NEW w \in Worker, pc'[w] \notin {"idle", "take"}, task'[w] = j
        PROVE  w \in At(j) /\ pc'[w] = pc[w] /\ status'[j] = status[j]
    <3>1. w[1] # i /\ pc'[w] = pc[w] /\ task'[w] = task[w]
      BY <2>1, <2>4
    <3>2. status[j] # "processing"
      BY <2>3, <2>4, <3>1 DEF Executing
    <3>. QED  BY <2>2, <2>4, <3>1, <3>2 DEF At, Executing
  <2>. QED  BY <2>3, <2>4 DEF Sole, At, Executing
<1>11. CASE UNCHANGED vars
  BY <1>11 DEF Sole, vars, At, Executing
<1>. QED
  BY <1>1, <1>2, <1>4, <1>5, <1>6, <1>7, <1>8, <1>9, <1>10, <1>11 DEF Next, Work, Fail

Typed == TypeOK /\ Known /\ Sole

LEMMA TypedAlways == Spec => []Typed
<1>1. Init => Typed
  BY TypeInitially, KnownInitially, SoleInitially DEF Typed
<1>2. Typed /\ [Next]_vars => Typed'
  BY TypeStep, KnownStep, SoleStep DEF Typed
<1>. QED  BY <1>1, <1>2, PTL DEF Spec

\* A job is judged by one execution at a time, however many instances poll,
\* fail and start, unless one starts while another is at work on the job.
THEOREM JudgedByOne == Spec => []OneExecution
<1>1. Typed => OneExecution
  BY DEF Typed, Sole, OneExecution
<1>. QED  BY <1>1, TypedAlways, PTL

-----------------------------------------------------------------------------
(* The submission and its job *)

\* The execution between the writes of submission and job knows what the
\* first of them said and is going to say the same.
Agreeing ==
  \A j \in Job \ (overtaken \cup abandoned) :
    /\ status[j] \in Settled /\ (\A w \in At(j) : pc[w] # "excuse") => filed[j] = result[j]
    /\ \A w \in At(j) : /\ pc[w] = "close" => filed[j] = verdict[w]
                        /\ pc[w] = "excuse" => result[j] = "runtime_error"

LEMMA AgreeingInitially == Init => Agreeing
BY DEF Init, Agreeing, At, Executing, Settled

\* An execution that goes on or ends, and writes about its own job only.
LEMMA AgreeingWork ==
  ASSUME Typed, Agreeing, NEW w \in Executing, NEW j, j = task[w], Work(w) \/ Fail(w),
         overtaken' = overtaken, abandoned \subseteq abandoned',
         \A k \in Job \ {j} : filed'[k] = filed[k] /\ status'[k] = status[k] /\ result'[k] = result[k],
         pc'[w] = "idle" \/ (pc'[w] # "take" /\ task'[w] = j),
         \/ j \in overtaken \cup abandoned'
         \/ /\ status'[j] \in Settled /\ pc'[w] # "excuse" => filed'[j] = result'[j]
            /\ pc'[w] = "close" => filed'[j] = verdict'[w]
            /\ pc'[w] = "excuse" => result'[j] = "runtime_error"
  PROVE  Agreeing'
<1>. SUFFICES ASSUME NEW k \in Job \ (overtaken' \cup abandoned')
              PROVE  /\ status'[k] \in Settled /\ (\A v \in At(k)' : pc'[v] # "excuse") => filed'[k] = result'[k]
                     /\ \A v \in At(k)' : /\ pc'[v] = "close" => filed'[k] = verdict'[v]
                                          /\ pc'[v] = "excuse" => result'[k] = "runtime_error"
  BY DEF Agreeing
<1>1. \A v \in Worker \ {w} : pc'[v] = pc[v] /\ task'[v] = task[v] /\ verdict'[v] = verdict[v]
  BY Elsewhere DEF Typed, Executing
<1>2. j \in Job \ overtaken => \A v \in Worker \ {w} : v \in Executing => task[v] # j
  BY DEF Typed, Sole, At, Executing
<1>3. w \in Worker /\ task[w] = j /\ j \in Job
  BY DEF Typed, TypeOK, Executing
<1>4. CASE k # j
  <2>1. \A v \in Worker : v \in Executing' /\ task'[v] = k => v # w
    BY <1>3, <1>4 DEF Executing
  <2>2. At(k)' = At(k) /\ \A v \in At(k) : pc'[v] = pc[v] /\ verdict'[v] = verdict[v]
    BY <1>1, <1>3, <1>4, <2>1 DEF At, Executing
  <2>. QED  BY <1>4, <2>2 DEF Agreeing
<1>5. CASE k = j
  <2>1. At(j)' = IF pc'[w] = "idle" THEN {} ELSE {w}
    BY <1>1, <1>2, <1>3, <1>5 DEF At, Executing
  <2>. QED  BY <1>5, <2>1
<1>. QED  BY <1>4, <1>5

LEMMA AgreeingStep == Typed /\ Agreeing /\ [Next]_vars => Agreeing'
<1>. SUFFICES ASSUME Typed, Agreeing, [Next]_vars PROVE Agreeing'
  OBVIOUS
<1>0. TypeOK /\ Known /\ Sole /\ Working
  BY WorkingType DEF Typed
<1>1. CASE DeleteProblem
  BY <1>1 DEF Agreeing, DeleteProblem, At, Executing
<1>2. ASSUME NEW j \in Job, SubmitFails(j) PROVE Agreeing'
  <2>1. filed' = [filed EXCEPT ![j] = "pending"] /\ status[j] = "none" /\ UNCHANGED <<job, work, history>>
    BY <1>0, <1>2 DEF Known, SubmitFails, NextJob
  <2>2. At(j) = {}
    BY <1>0, <2>1 DEF TypeOK, Known, At, Executing
  <2>. QED  BY <1>0, <2>1, <2>2 DEF TypeOK, Agreeing, At, Executing, Settled
<1>3. ASSUME NEW j \in Job, NEW i \in Instance, Submit(j, i) PROVE Agreeing'
  <2>1. \A w \in Worker : \/ pc'[w] = pc[w] /\ task'[w] = task[w]
                          \/ pc[w] = "idle" /\ pc'[w] = "take"
    BY <1>0, <1>3, SubmitWork
  <2>2. /\ status[j] = "none" /\ UNCHANGED <<overtaken, abandoned, result, verdict>>
        /\ status' = [status EXCEPT ![j] = "pending"] /\ filed' = [filed EXCEPT ![j] = "pending"]
    BY <1>0, <1>3 DEF Known, Submit, NextJob
  <2>3. At(j) = {}
    BY <1>0, <2>2 DEF TypeOK, Known, At, Executing
  <2>4. \A k \in Job : At(k)' = At(k)
    BY <2>1 DEF At, Executing
  <2>5. \A k \in Job : \A w \in At(k) : pc'[w] = pc[w]
    BY <2>1 DEF At, Executing
  <2>. QED  BY <1>0, <2>2, <2>3, <2>4, <2>5 DEF TypeOK, Agreeing, Settled
<1>4. ASSUME NEW w \in Worker, NEW j \in Job, Claim(w, j), pc[w] \in {"idle", "take"}, Claimable(j),
             UNCHANGED <<filed, result, kind, verdict, overtaken, abandoned>>
      PROVE  Agreeing'
  <2>1. status' = [status EXCEPT ![j] = "processing"] /\ status[j] = "pending"
    BY <1>4 DEF Claim, Claimable
  <2>2. pc'[w] = "load" /\ task'[w] = j /\ \A v \in Worker \ {w} : pc'[v] = pc[v] /\ task'[v] = task[v]
    BY <1>0, <1>4, ClaimWork DEF TypeOK
  <2>3. \A k \in Job \ {j} : At(k)' = At(k)
    BY <1>4, <2>2 DEF At, Executing
  <2>4. \A k \in Job : \A v \in At(k)' : v = w \/ (v \in At(k) /\ pc'[v] = pc[v])
    BY <1>4, <2>2 DEF At, Executing
  <2>. QED  BY <1>0, <1>4, <2>1, <2>2, <2>3, <2>4 DEF TypeOK, Agreeing, Settled
<1>5. ASSUME NEW w \in Worker, Poll(w) PROVE Agreeing'
  BY <1>4, <1>5 DEF Poll
<1>6. ASSUME NEW w \in Worker, Take(w) PROVE Agreeing'
  <2>1. CASE Claimable(task[w])
    BY <1>0, <1>4, <1>6, <2>1 DEF TypeOK, Take
  <2>2. CASE ~ Claimable(task[w])
    <3>1. Leave({w}) /\ UNCHANGED <<filed, status, result, overtaken, abandoned>> /\ pc[w] = "take"
      BY <1>6, <2>2 DEF Take
    <3>2. \A k \in Job : At(k)' = At(k)
      BY <1>0, <3>1, LeaveType DEF At, Executing
    <3>3. \A v \in Executing : pc'[v] = pc[v] /\ verdict'[v] = verdict[v]
      BY <1>0, <3>1, LeaveType DEF Executing
    <3>. QED  BY <3>1, <3>2, <3>3 DEF Agreeing, At
  <2>. QED  BY <2>1, <2>2
<1>7. ASSUME NEW w \in Worker, Load(w) \/ Evaluate(w) \/ File(w) \/ WriteFails(w) PROVE Agreeing'
  <2>1. /\ w \in Executing /\ UNCHANGED <<status, result, task, overtaken, abandoned>>
        /\ pc[w] \in {"load", "evaluate", "file", "close"}
    BY <1>7 DEF Load, Evaluate, File, WriteFails, Goto, Executing
  <2>2. task[w] \in overtaken \/ status[task[w]] \notin Settled
    BY <1>0, <2>1 DEF TypeOK, Sole, At, Executing, StatusAt, Settled
  <2>3. \A k \in Job \ {task[w]} : filed'[k] = filed[k]
    BY <1>0, <1>7 DEF TypeOK, Load, Evaluate, File, WriteFails
  <2>4. /\ pc'[w] \in {"evaluate", "file", "close", "catch"}
        /\ pc'[w] = "close" => filed'[task[w]] = verdict'[w]
    BY <1>0, <1>7 DEF TypeOK, Load, Evaluate, File, WriteFails, Goto
  <2>. QED  BY <1>7, <2>1, <2>2, <2>3, <2>4, AgreeingWork DEF Work, Fail
<1>8. ASSUME NEW w \in Worker, Close(w) PROVE Agreeing'
  <2>1. /\ w \in Executing /\ UNCHANGED <<filed, overtaken, abandoned>> /\ pc[w] = "close"
        /\ \A k \in Job \ {task[w]} : status'[k] = status[k] /\ result'[k] = result[k]
        /\ result'[task[w]] = verdict[w]
    BY <1>0, <1>8 DEF TypeOK, Close, Executing
  <2>2. pc'[w] = "idle" \/ (pc'[w] = "record" /\ task'[w] = task[w])
    BY <1>0, <1>8 DEF TypeOK, Close, Goto, Leave
  <2>3. task[w] \in overtaken \cup abandoned \/ filed[task[w]] = verdict[w]
    BY <1>0, <2>1 DEF TypeOK, Agreeing, At, Executing
  <2>. QED  BY <1>8, <2>1, <2>2, <2>3, AgreeingWork DEF Work
<1>9. ASSUME NEW w \in Worker, Record(w) \/ RecordFails(w) PROVE Agreeing'
  <2>1. /\ w \in Executing /\ UNCHANGED <<filed, status, result, overtaken, abandoned>>
        /\ pc[w] = "record" /\ pc'[w] = "idle"
    BY <1>0, <1>9 DEF TypeOK, Record, RecordFails, Leave, Executing
  <2>2. task[w] \in overtaken \/ At(task[w]) = {w}
    BY <1>0, <2>1 DEF TypeOK, Sole, At, Executing
  <2>3. \/ task[w] \in overtaken \cup abandoned
        \/ status[task[w]] \in Settled => filed[task[w]] = result[task[w]]
    BY <1>0, <2>1, <2>2 DEF TypeOK, Agreeing, Executing
  <2>. QED  BY <1>9, <2>1, <2>3, AgreeingWork DEF Work, Fail
<1>10. ASSUME NEW w \in Worker, Catch(w) PROVE Agreeing'
  <2>1. /\ w \in Executing /\ UNCHANGED <<filed, overtaken, abandoned>>
        /\ \A k \in Job \ {task[w]} : status'[k] = status[k] /\ result'[k] = result[k]
    BY <1>0, <1>10 DEF TypeOK, Catch, Executing
  <2>2. \/ pc'[w] = "idle" /\ status'[task[w]] = "pending"
        \/ pc'[w] = "excuse" /\ task'[w] = task[w] /\ result'[task[w]] = "runtime_error"
    BY <1>0, <1>10 DEF TypeOK, Catch, Goto, Leave
  <2>. QED  BY <1>10, <2>1, <2>2, AgreeingWork DEF Work, Settled
<1>11. ASSUME NEW w \in Worker, Abandon(w) PROVE Agreeing'
  <2>1. /\ w \in Executing /\ UNCHANGED <<filed, status, result, overtaken>> /\ pc'[w] = "idle"
        /\ abandoned' = abandoned \cup {task[w]}
    BY <1>0, <1>11 DEF TypeOK, Abandon, Leave, Executing
  <2>. QED  BY <1>11, <2>1, AgreeingWork DEF Fail
<1>12. ASSUME NEW w \in Worker, Excuse(w) PROVE Agreeing'
  <2>1. /\ w \in Executing /\ UNCHANGED <<status, result, overtaken, abandoned>>
        /\ pc[w] = "excuse" /\ pc'[w] = "idle" /\ filed'[task[w]] = "runtime_error"
        /\ \A k \in Job \ {task[w]} : filed'[k] = filed[k]
    BY <1>0, <1>12 DEF TypeOK, Excuse, Leave, Executing
  <2>2. task[w] \in overtaken \cup abandoned \/ result[task[w]] = "runtime_error"
    BY <1>0, <2>1 DEF TypeOK, Agreeing, At, Executing
  <2>. QED  BY <1>12, <2>1, <2>2, AgreeingWork DEF Work
<1>13. ASSUME NEW i \in Instance, Start(i) PROVE Agreeing'
  <2>1. /\ \A w \in Worker : IF w[1] = i THEN pc'[w] = "idle"
                            ELSE pc'[w] = pc[w] /\ task'[w] = task[w] /\ verdict'[w] = verdict[w]
        /\ UNCHANGED <<filed, result>>
    BY <1>13 DEF Start, Leave
  <2>2. \A j \in Job : status'[j] \in Settled <=> status[j] \in Settled
    BY <1>13 DEF Start, Settled
  <2>3. \A j \in Job \ (overtaken' \cup abandoned') :
          /\ j \notin overtaken \cup abandoned
          /\ \A w \in Executing : w[1] = i /\ task[w] = j => pc[w] # "excuse"
    BY <1>13 DEF Start
  <2>4. \A j \in Job, w \in Worker :
          pc'[w] \notin {"idle", "take"} /\ task'[w] = j => w \in At(j) /\ pc'[w] = pc[w] /\ verdict'[w] = verdict[w]
    BY <2>1 DEF At, Executing
  <2>5. ASSUME NEW j \in Job \ (overtaken' \cup abandoned'), \A w \in At(j)' : pc'[w] # "excuse"
        PROVE  \A w \in At(j) : pc[w] # "excuse"
    BY <2>1, <2>3, <2>5 DEF At, Executing
  <2>. QED  BY <2>1, <2>2, <2>3, <2>4, <2>5 DEF Agreeing, At, Executing
<1>14. CASE UNCHANGED vars
  BY <1>14 DEF Agreeing, vars, At, Executing
<1>. QED
  BY <1>1, <1>2, <1>3, <1>5, <1>6, <1>7, <1>8, <1>9, <1>10, <1>11, <1>12, <1>13, <1>14 DEF Next, Work, Fail

\* The submission and its job say the same once the job is settled and nobody
\* is at work on it, unless an error or a start of an instance came between
\* the two writes.
THEOREM SubmissionAndJobAgree == Spec => []RecordsAgree
<1>1. Agreeing => RecordsAgree
  BY DEF Agreeing, RecordsAgree
<1>. QED  BY <1>1, TypedAlways, AgreeingInitially, AgreeingStep, PTL DEF Spec

-----------------------------------------------------------------------------
(* The progress row *)

\* The problem is solved, or somebody is about to say so.
Counting ==
  \A j \in Job \ lost :
    status[j] = "done" /\ result[j] = "accepted" =>
      solved \/ \E w \in At(j) : pc[w] = "record" /\ verdict[w] = "accepted"

LEMMA CountingInitially == Init => Counting
BY DEF Init, Counting

\* No accepted verdict appears, and none that is about to be counted gets lost.
LEMMA CountingFrame ==
  ASSUME Counting, lost \subseteq lost', solved => solved',
         \A j \in Job : status'[j] = "done" /\ result'[j] = "accepted"
                        => status[j] = "done" /\ result[j] = "accepted",
         \A w \in Worker : pc[w] = "record" =>
           \/ pc'[w] = "record" /\ task'[w] = task[w] /\ verdict'[w] = verdict[w]
           \/ task[w] \in lost'
           \/ verdict[w] = "accepted" => solved'
  PROVE  Counting'
BY DEF Counting, At, Executing

LEMMA CountingStep == Typed /\ Counting /\ [Next]_vars => Counting'
<1>. SUFFICES ASSUME Typed, Counting, [Next]_vars PROVE Counting'
  OBVIOUS
<1>0. TypeOK /\ Known /\ Working
  BY WorkingType DEF Typed
<1>1. CASE DeleteProblem \/ \E j \in Job : SubmitFails(j)
  BY <1>1, CountingFrame DEF DeleteProblem, SubmitFails
<1>2. ASSUME NEW j \in Job, NEW i \in Instance, Submit(j, i) PROVE Counting'
  <2>1. \A w \in Worker : pc[w] = "record" => pc'[w] = "record" /\ task'[w] = task[w] /\ verdict'[w] = verdict[w]
    BY <1>0, <1>2, SubmitWork
  <2>. QED  BY <1>0, <1>2, <2>1, CountingFrame DEF TypeOK, Submit
<1>3. ASSUME NEW w \in Worker, NEW j \in Job, Claim(w, j), pc[w] \in {"idle", "take"},
             UNCHANGED <<result, kind, verdict, solved, lost>>
      PROVE  Counting'
  <2>1. \A v \in Worker \ {w} : pc'[v] = pc[v] /\ task'[v] = task[v]
    BY <1>0, <1>3, ClaimWork DEF TypeOK
  <2>2. \A k \in Job : status'[k] = "done" => status[k] = "done"
    BY <1>0, <1>3 DEF TypeOK, Claim
  <2>. QED  BY <1>3, <2>1, <2>2, CountingFrame
<1>4. ASSUME NEW w \in Worker, Poll(w) PROVE Counting'
  BY <1>3, <1>4 DEF Poll
<1>5. ASSUME NEW w \in Worker, Take(w) PROVE Counting'
  <2>1. CASE Claimable(task[w])
    BY <1>0, <1>3, <1>5, <2>1 DEF TypeOK, Take
  <2>2. CASE ~ Claimable(task[w])
    BY <1>5, <2>2, CountingFrame DEF Take, Leave
  <2>. QED  BY <2>1, <2>2
<1>6. ASSUME NEW w \in Worker, pc[w] # "record", Work(w) \/ Fail(w),
             \A k \in Job : status'[k] = "done" /\ result'[k] = "accepted"
                            => status[k] = "done" /\ result[k] = "accepted",
             UNCHANGED <<solved, lost>>
      PROVE  Counting'
  <2>1. \A v \in Worker \ {w} : pc'[v] = pc[v] /\ task'[v] = task[v] /\ verdict'[v] = verdict[v]
    BY <1>0, <1>6, Elsewhere
  <2>. QED  BY <1>6, <2>1, CountingFrame
<1>7. ASSUME NEW w \in Worker, Load(w) \/ Evaluate(w) \/ File(w) \/ WriteFails(w) \/ Abandon(w) \/ Excuse(w)
      PROVE  Counting'
  <2>1. pc[w] # "record" /\ UNCHANGED <<status, result, solved, lost>>
    BY <1>7 DEF Load, Evaluate, File, WriteFails, Abandon, Excuse
  <2>. QED  BY <1>6, <1>7, <2>1 DEF Work, Fail
<1>8. ASSUME NEW w \in Worker, Catch(w) PROVE Counting'
  <2>1. pc[w] # "record" /\ UNCHANGED <<solved, lost>>
    BY <1>8 DEF Catch
  <2>2. \A k \in Job : result'[k] = "accepted" => status'[k] = status[k] /\ result[k] = "accepted"
    BY <1>0, <1>8 DEF TypeOK, Catch
  <2>. QED  BY <1>6, <1>8, <2>1, <2>2 DEF Work
<1>9. ASSUME NEW w \in Worker, Close(w) PROVE Counting'
  <2>1. /\ pc[w] # "record" /\ UNCHANGED <<solved, lost>> /\ task[w] \in Job
        /\ result'[task[w]] = verdict[w]
        /\ \A k \in Job \ {task[w]} : status'[k] = status[k] /\ result'[k] = result[k]
    BY <1>0, <1>9 DEF TypeOK, Close
  <2>2. CASE verdict[w] # "accepted"
    BY <1>6, <1>9, <2>1, <2>2 DEF Work
  <2>3. CASE verdict[w] = "accepted"
    <3>1. kind[w] = "judged"
      BY <1>0, <2>3 DEF Known
    <3>2. pc'[w] = "record" /\ task'[w] = task[w] /\ verdict'[w] = "accepted"
      BY <1>0, <1>9, <2>3, <3>1 DEF TypeOK, Close, Goto
    <3>3. \A v \in Worker \ {w} : pc'[v] = pc[v] /\ task'[v] = task[v] /\ verdict'[v] = verdict[v]
      BY <1>0, <1>9, Elsewhere DEF Work
    <3>. QED  BY <2>1, <3>2, <3>3 DEF Counting, At, Executing
  <2>. QED  BY <2>2, <2>3
<1>10. ASSUME NEW w \in Worker, Record(w) \/ RecordFails(w) PROVE Counting'
  <2>1. UNCHANGED <<status, result>> /\ \A v \in Worker \ {w} : pc'[v] = pc[v] /\ task'[v] = task[v] /\ verdict'[v] = verdict[v]
    BY <1>0, <1>10, Elsewhere DEF Record, RecordFails, Work, Fail
  <2>2. \/ Count(w) /\ UNCHANGED lost
        \/ UNCHANGED solved /\ lost' = lost \cup {task[w]}
    BY <1>10 DEF Record, RecordFails
  <2>3. Count(w) => (solved => solved') /\ (verdict[w] = "accepted" => solved')
    BY Zenon DEF Count
  <2>. QED  BY <2>1, <2>2, <2>3, CountingFrame
<1>11. ASSUME NEW i \in Instance, Start(i) PROVE Counting'
  <2>1. /\ \A w \in Worker : w[1] = i \/ (pc'[w] = pc[w] /\ task'[w] = task[w] /\ verdict'[w] = verdict[w])
        /\ UNCHANGED <<result, solved>> /\ lost \subseteq lost'
    BY <1>11 DEF Start, Leave
  <2>2. \A j \in Job : status'[j] = "done" => status[j] = "done"
    BY <1>11 DEF Start
  <2>3. \A w \in Worker : w[1] = i /\ pc[w] = "record" => task[w] \in lost'
    BY <1>11 DEF Start, Executing
  <2>. QED  BY <2>1, <2>2, <2>3, CountingFrame
<1>12. CASE UNCHANGED vars
  BY <1>12 DEF Counting, vars, At, Executing
<1>. QED
  BY <1>1, <1>2, <1>4, <1>5, <1>7, <1>8, <1>9, <1>10, <1>11, <1>12 DEF Next, Work, Fail

\* An accepted submission makes its problem solved, also where a start of an
\* instance let two executions judge it, except where the write was lost.
THEOREM AcceptedIsSolved == Spec => []AcceptedCounts
<1>1. Counting => AcceptedCounts
  BY DEF Counting, AcceptedCounts
<1>. QED  BY <1>1, TypedAlways, CountingInitially, CountingStep, PTL DEF Spec

-----------------------------------------------------------------------------
(* The promise *)

\* A job that is not settled, or that somebody is at work on, has not been counted.
NotYetCounted ==
  \A j \in Job \ overtaken : status[j] \notin Settled \/ At(j) # {} => counted[j] = 0

LEMMA NotYetCountedInitially == Init => NotYetCounted
BY DEF Init, NotYetCounted

\* Nothing is counted, no settled job is opened again, and no execution begins on one.
LEMMA NotYetCountedFrame ==
  ASSUME NotYetCounted, overtaken \subseteq overtaken',
         \A j \in Job \ overtaken' :
           /\ counted'[j] = counted[j]
           /\ \/ status[j] \notin Settled
              \/ At(j) # {}
              \/ status'[j] \in Settled /\ At(j)' = {}
  PROVE  NotYetCounted'
BY DEF NotYetCounted

LEMMA NotYetCountedStep == Typed /\ NotYetCounted /\ [Next]_vars => NotYetCounted'
<1>. SUFFICES ASSUME Typed, NotYetCounted, [Next]_vars PROVE NotYetCounted'
  OBVIOUS
<1>0. TypeOK /\ Known /\ Sole /\ Working
  BY WorkingType DEF Typed
<1>1. ASSUME UNCHANGED <<status, pc, task, overtaken, counted>> PROVE NotYetCounted'
  BY <1>1 DEF NotYetCounted, At, Executing
<1>2. ASSUME NEW j \in Job, NEW i \in Instance, Submit(j, i) PROVE NotYetCounted'
  <2>1. \A k \in Job : At(k)' = At(k)
    BY <1>0, <1>2, SubmitWork DEF At, Executing
  <2>2. status[j] = "none" /\ UNCHANGED <<overtaken, counted>> /\ status' = [status EXCEPT ![j] = "pending"]
    BY <1>0, <1>2 DEF Known, Submit, NextJob
  <2>. QED  BY <1>0, <2>1, <2>2, NotYetCountedFrame DEF TypeOK, Settled
<1>3. ASSUME NEW w \in Worker, NEW j \in Job, Claim(w, j), pc[w] \in {"idle", "take"}, Claimable(j),
             UNCHANGED <<kind, verdict, overtaken, counted>>
      PROVE  NotYetCounted'
  <2>1. status' = [status EXCEPT ![j] = "processing"] /\ status[j] = "pending"
    BY <1>3 DEF Claim, Claimable
  <2>2. \A k \in Job \ {j} : At(k)' = At(k)
    BY <1>0, <1>3, ClaimWork DEF TypeOK, At, Executing
  <2>. QED  BY <1>0, <1>3, <2>1, <2>2, NotYetCountedFrame DEF TypeOK, Settled
<1>4. ASSUME NEW w \in Executing, Work(w) \/ Fail(w), UNCHANGED <<overtaken, counted>>,
             \A k \in Job \ {task[w]} : status'[k] = status[k],
             pc'[w] = "idle" \/ task'[w] = task[w]
      PROVE  NotYetCounted'
  <2>1. \A v \in Worker \ {w} : pc'[v] = pc[v] /\ task'[v] = task[v]
    BY <1>0, <1>4, Elsewhere DEF Executing
  <2>2. \A k \in Job \ {task[w]} : At(k)' = At(k)
    BY <1>4, <2>1 DEF At, Executing
  <2>3. At(task[w]) # {}
    BY DEF At
  <2>. QED  BY <1>4, <2>2, <2>3, NotYetCountedFrame
<1>5. CASE DeleteProblem \/ \E j \in Job : SubmitFails(j)
  BY <1>1, <1>5 DEF DeleteProblem, SubmitFails
<1>6. ASSUME NEW w \in Worker, Poll(w) PROVE NotYetCounted'
  BY <1>3, <1>6 DEF Poll
<1>7. ASSUME NEW w \in Worker, Take(w) PROVE NotYetCounted'
  <2>1. CASE Claimable(task[w])
    BY <1>0, <1>3, <1>7, <2>1 DEF TypeOK, Take
  <2>2. CASE ~ Claimable(task[w])
    <3>1. \A k \in Job : At(k)' = At(k)
      BY <1>0, <1>7, <2>2, LeaveType DEF Take, At, Executing
    <3>. QED  BY <1>7, <2>2, <3>1, NotYetCountedFrame DEF Take
  <2>. QED  BY <2>1, <2>2
<1>8. ASSUME NEW w \in Worker, Load(w) \/ Evaluate(w) \/ File(w) \/ WriteFails(w) \/ Abandon(w) \/ Excuse(w)
      PROVE  NotYetCounted'
  <2>1. w \in Executing /\ UNCHANGED <<status, overtaken, counted>>
    BY <1>8 DEF Load, Evaluate, File, WriteFails, Abandon, Excuse, Executing
  <2>2. pc'[w] = "idle" \/ task'[w] = task[w]
    BY <1>8 DEF Load, Evaluate, File, WriteFails, Abandon, Excuse, Goto, Leave
  <2>. QED  BY <1>4, <1>8, <2>1, <2>2 DEF Work, Fail
<1>9. ASSUME NEW w \in Worker, Close(w) \/ Catch(w) PROVE NotYetCounted'
  <2>1. /\ w \in Executing /\ UNCHANGED <<overtaken, counted>>
        /\ \A k \in Job \ {task[w]} : status'[k] = status[k]
    BY <1>0, <1>9 DEF TypeOK, Close, Catch, Executing
  <2>2. pc'[w] = "idle" \/ task'[w] = task[w]
    BY <1>9 DEF Close, Catch, Goto, Leave
  <2>. QED  BY <1>4, <1>9, <2>1, <2>2 DEF Work
<1>10. ASSUME NEW w \in Worker, Record(w) \/ RecordFails(w), NEW j \in Job, j = task[w] PROVE NotYetCounted'
  <2>1. /\ w \in Executing /\ UNCHANGED <<status, overtaken>> /\ pc[w] = "record" /\ pc'[w] = "idle"
        /\ \A k \in Job \ {j} : counted'[k] = counted[k]
    BY <1>0, <1>10 DEF TypeOK, Record, RecordFails, Count, Leave, Executing
  <2>2. \A v \in Worker \ {w} : pc'[v] = pc[v] /\ task'[v] = task[v]
    BY <1>0, <1>10, Elsewhere DEF Work, Fail
  <2>3. \A k \in Job \ {j} : At(k)' = At(k)
    BY <1>10, <2>1, <2>2 DEF At, Executing
  <2>4. CASE j \in overtaken
    BY <2>1, <2>3, <2>4 DEF NotYetCounted
  <2>5. CASE j \notin overtaken
    <3>1. At(j) = {w} /\ status[j] = "done"
      BY <1>0, <1>10, <2>1, <2>5 DEF Sole, At, Executing, StatusAt
    <3>2. At(j)' = {}
      BY <2>1, <2>2, <3>1 DEF At, Executing
    <3>. QED  BY <2>1, <2>3, <3>1, <3>2 DEF NotYetCounted, Settled
  <2>. QED  BY <2>4, <2>5
<1>11. ASSUME NEW i \in Instance, Start(i) PROVE NotYetCounted'
  <2>1. /\ \A j \in Job : status[j] \in Settled => status'[j] \in Settled
        /\ counted' = counted /\ overtaken \subseteq overtaken'
    BY <1>11 DEF Start, Settled
  <2>2. \A j \in Job : At(j)' \subseteq At(j)
    BY <1>11 DEF Start, Leave, At, Executing
  <2>3. ASSUME NEW j \in Job \ overtaken', At(j) = {} PROVE At(j)' = {}
    BY <2>2, <2>3
  <2>. QED  BY <2>1, <2>2, NotYetCountedFrame
<1>12. CASE UNCHANGED vars
  BY <1>1, <1>12 DEF vars
<1>13. \A w \in Worker : Record(w) \/ RecordFails(w) => task[w] \in Job
  BY <1>0 DEF TypeOK, Record, RecordFails
<1>. QED
  BY <1>2, <1>5, <1>6, <1>7, <1>8, <1>9, <1>10, <1>11, <1>12, <1>13 DEF Next, Work, Fail

\* The two variables of Verdicts, as KeepsPromise reads them off the queue.
Told == [j \in Job |-> IF j \in overtaken THEN "forfeited" ELSE Answer(j)]

Tallied == [j \in Job |-> IF j \in overtaken THEN 0 ELSE counted[j]]

LEMMA PromiseInitially == Init => Promise!Init
<1>. SUFFICES ASSUME Init PROVE Promise!Init
  OBVIOUS
<1>1. \A j \in Job : Told[j] = "none" /\ Tallied[j] = 0
  BY DEF Init, Told, Tallied, Answer
<1>2. Told = [j \in Job |-> "none"] /\ Tallied = [j \in Job |-> 0]
  BY <1>1 DEF Told, Tallied
<1>. QED  BY <1>2 DEF Promise!Init, Told, Tallied

\* A step that no student can see
LEMMA PromiseStutter ==
  ASSUME overtaken' = overtaken,
         \A j \in Job \ overtaken : Answer(j)' = Answer(j) /\ counted'[j] = counted[j]
  PROVE  UNCHANGED Promise!vars
<1>1. Told' = Told /\ Tallied' = Tallied
  BY DEF Told, Tallied
<1>. QED  BY <1>1 DEF Promise!vars, Told, Tallied

\* A step that changes the answer to one submission, and counts nothing
LEMMA PromiseAnswer ==
  ASSUME NEW j \in Job \ overtaken, NEW a, overtaken' = overtaken, counted' = counted,
         Answer(j)' = a, \A k \in Job \ {j} : k \notin overtaken => Answer(k)' = Answer(k),
         \/ Answer(j) = "none" /\ a = "pending"
         \/ Answer(j) = "pending" /\ a \in Verdict
  PROVE  Promise!Next
<1>1. Told' = [Told EXCEPT ![j] = a] /\ Tallied' = Tallied /\ Told[j] = Answer(j)
  BY DEF Told, Tallied
<1>2. Promise!Submit(j) \/ Promise!Settle(j)
  BY <1>1 DEF Promise!Submit, Promise!Settle, Told, Tallied
<1>. QED  BY <1>2 DEF Promise!Next

\* The steps of the service, seen from Verdicts: submitting submits, closing
\* the job or giving it up settles, writing the progress row counts, and a start
\* of an instance forfeits; nothing else can be seen.
LEMMA PromiseStep == Typed /\ NotYetCounted /\ [Next]_vars => [Promise!Next]_(Promise!vars)
<1>. SUFFICES ASSUME Typed, NotYetCounted, [Next]_vars PROVE Promise!Next \/ UNCHANGED Promise!vars
  OBVIOUS
<1>0. TypeOK /\ Known /\ Sole /\ Working
  BY WorkingType DEF Typed
<1>1. ASSUME UNCHANGED <<status, result, counted, overtaken>> PROVE UNCHANGED Promise!vars
  BY <1>1, PromiseStutter DEF Answer
<1>2. ASSUME NEW j \in Job, NEW i \in Instance, Submit(j, i) PROVE Promise!Next \/ UNCHANGED Promise!vars
  <2>1. /\ status[j] = "none" /\ result[j] = "none" /\ UNCHANGED <<overtaken, counted, result>>
        /\ status' = [status EXCEPT ![j] = "pending"]
    BY <1>0, <1>2 DEF Known, Submit, NextJob
  <2>2. \A k \in Job \ {j} : Answer(k)' = Answer(k)
    BY <2>1 DEF Answer
  <2>3. Answer(j) = "none" /\ Answer(j)' = "pending"
    BY <1>0, <2>1 DEF TypeOK, Answer
  <2>4. CASE j \in overtaken
    BY <2>1, <2>2, <2>4, PromiseStutter
  <2>5. CASE j \notin overtaken
    BY <2>1, <2>2, <2>3, <2>5, PromiseAnswer
  <2>. QED  BY <2>4, <2>5
<1>3. ASSUME NEW w \in Worker, NEW j \in Job, Claim(w, j), Claimable(j), UNCHANGED <<result, overtaken, counted>>
      PROVE  UNCHANGED Promise!vars
  <2>1. status' = [status EXCEPT ![j] = "processing"] /\ status[j] = "pending"
    BY <1>3 DEF Claim, Claimable
  <2>2. \A k \in Job : Answer(k)' = Answer(k)
    BY <1>0, <1>3, <2>1 DEF TypeOK, Answer
  <2>. QED  BY <1>3, <2>2, PromiseStutter
<1>4. ASSUME NEW w \in Worker, Poll(w) PROVE UNCHANGED Promise!vars
  BY <1>3, <1>4 DEF Poll
<1>5. ASSUME NEW w \in Worker, Take(w) PROVE UNCHANGED Promise!vars
  BY <1>0, <1>1, <1>3, <1>5 DEF TypeOK, Take
<1>6. CASE \/ DeleteProblem \/ \E j \in Job : SubmitFails(j)
           \/ \E w \in Worker : Load(w) \/ Evaluate(w) \/ File(w) \/ WriteFails(w) \/ Abandon(w) \/ Excuse(w)
  BY <1>1, <1>6 DEF DeleteProblem, SubmitFails, Load, Evaluate, File, WriteFails, Abandon, Excuse
<1>7. ASSUME NEW w \in Worker, Close(w) \/ Catch(w), NEW j \in Job, j = task[w]
      PROVE  Promise!Next \/ UNCHANGED Promise!vars
  <2>1. /\ UNCHANGED <<overtaken, counted>>
        /\ \A k \in Job \ {j} : status'[k] = status[k] /\ result'[k] = result[k]
    BY <1>0, <1>7 DEF TypeOK, Close, Catch
  <2>2. \A k \in Job \ {j} : Answer(k)' = Answer(k)
    BY <2>1 DEF Answer
  <2>3. \/ status'[j] = "pending"
        \/ status'[j] \in Settled /\ result'[j] \in Verdict
    BY <1>0, <1>7 DEF TypeOK, Close, Catch, Settled, Verdict
  <2>4. CASE j \in overtaken
    BY <2>1, <2>2, <2>4, PromiseStutter
  <2>5. CASE j \notin overtaken
    <3>1. status[j] = "processing"
      BY <1>0, <1>7, <2>5 DEF Sole, At, Executing, Close, Catch, StatusAt
    <3>2. Answer(j) = "pending" /\ (Answer(j)' = "pending" \/ Answer(j)' \in Verdict)
      BY <2>3, <3>1 DEF Answer, Settled
    <3>3. CASE Answer(j)' = "pending"
      BY <2>1, <2>2, <3>2, <3>3, PromiseStutter
    <3>4. CASE Answer(j)' \in Verdict
      BY <2>1, <2>2, <2>5, <3>2, <3>4, PromiseAnswer
    <3>. QED  BY <3>2, <3>3, <3>4
  <2>. QED  BY <2>4, <2>5
<1>8. ASSUME NEW w \in Worker, Record(w) \/ RecordFails(w), NEW j \in Job, j = task[w]
      PROVE  Promise!Next \/ UNCHANGED Promise!vars
  <2>1. /\ UNCHANGED <<status, result, overtaken>> /\ pc[w] = "record"
        /\ UNCHANGED counted \/ counted' = [counted EXCEPT ![j] = counted[j] + 1]
    BY <1>8 DEF Record, RecordFails, Count
  <2>2. CASE UNCHANGED counted
    BY <1>1, <2>1, <2>2
  <2>3. CASE j \in overtaken
    BY <1>0, <2>1, <2>3, PromiseStutter DEF TypeOK, Answer
  <2>4. CASE j \notin overtaken /\ counted' = [counted EXCEPT ![j] = counted[j] + 1]
    <3>1. status[j] = "done" /\ counted[j] = 0 /\ counted'[j] = 1
      BY <1>0, <1>8, <2>1, <2>4 DEF TypeOK, Sole, NotYetCounted, At, Executing, StatusAt
    <3>2. Answer(j) \in Verdict
      BY <1>0, <3>1 DEF Known, Settled, Answer
    <3>3. Told' = Told
      BY <2>1 DEF Told, Answer
    <3>4. Tallied' = [Tallied EXCEPT ![j] = 1]
      BY <1>0, <2>1, <2>4, <3>1 DEF TypeOK, Tallied
    <3>5. Told[j] \in Verdict /\ Tallied[j] = 0
      BY <2>4, <3>1, <3>2 DEF Told, Tallied
    <3>6. Promise!Count(j)
      BY <3>3, <3>4, <3>5 DEF Promise!Count, Told, Tallied
    <3>. QED  BY <3>6 DEF Promise!Next
  <2>. QED  BY <2>1, <2>2, <2>3, <2>4
<1>9. ASSUME NEW i \in Instance, Start(i) PROVE Promise!Next
  <2>1. /\ UNCHANGED <<result, counted>> /\ overtaken \subseteq overtaken' /\ overtaken' \subseteq overtaken \cup Job
        /\ \A j \in Job : status'[j] = IF status[j] = "processing" THEN "pending" ELSE status[j]
    BY <1>9 DEF Start
  <2>2. \A j \in Job : Answer(j)' = Answer(j)
    BY <2>1 DEF Answer
  <2>0. PICK J \in SUBSET Job : \A j \in Job : j \in J <=> j \in overtaken'
    <3>1. (Job \cap overtaken') \in SUBSET Job
      OBVIOUS
    <3>. QED  BY <3>1
  <2>3. Told' = [j \in Job |-> IF j \in J THEN "forfeited" ELSE Told[j]]
    BY <2>0, <2>1, <2>2 DEF Told
  <2>4. Tallied' = [j \in Job |-> IF j \in J THEN 0 ELSE Tallied[j]]
    BY <2>0, <2>1 DEF Tallied
  <2>5. Promise!Forfeit(J)
    BY <2>3, <2>4 DEF Promise!Forfeit, Told, Tallied
  <2>. QED  BY <2>5 DEF Promise!Next
<1>10. CASE UNCHANGED vars
  BY <1>1, <1>10 DEF vars
<1>11. \A w \in Worker : Close(w) \/ Catch(w) \/ Record(w) \/ RecordFails(w) => task[w] \in Job
  BY <1>0 DEF TypeOK, Close, Catch, Record, RecordFails
<1>. QED
  BY <1>2, <1>4, <1>5, <1>6, <1>7, <1>8, <1>9, <1>10, <1>11 DEF Next, Work, Fail

\* However instances claim, fail, retry and start, a student sees a submission
\* wait, get one verdict that stands, and be counted at most once.
THEOREM ServiceKeepsPromise == Spec => KeepsPromise
BY TypedAlways, PromiseInitially, PromiseStep, NotYetCountedInitially, NotYetCountedStep, PTL
   DEF Spec, KeepsPromise, Promise!Spec

=============================================================================
