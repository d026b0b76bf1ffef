---------------------------- MODULE SheetProgress ----------------------------
(***************************************************************************)
(* How solving a problem completes a problem sheet, for one student and    *)
(* one sheet (services/lms/src/lms-ai/problem-solving).                    *)
(*                                                                         *)
(* Solving is recorded in the progress row of the problem; the request     *)
(* that did it then brings a snapshot (the list of solved problems and     *)
(* their number) and the sheet_progress row, which the lessons read, up to *)
(* date.  Each of these requests reads and writes in several operations,   *)
(* several run at once, each operation may fail and end its request, and   *)
(* the instructor edits the sheet meanwhile.                               *)
(***************************************************************************)
EXTENDS Integers, FiniteSets

CONSTANTS
  Problem,    \* problems that are ever put into the sheet
  Request,    \* bound: requests that sync at a time
  MaxCalls,   \* bound: calls that set solved
  MaxFaults   \* bound: operations that fail

ASSUME SheetAssumption ==
  /\ IsFiniteSet(Problem) /\ Problem # {}
  /\ MaxCalls \in Nat /\ MaxFaults \in Nat

VARIABLES
  place,     \* of a problem: "planned", "sheet" or "deleted"
  sheet,     \* "kept" or "deleted"; whether it is published only decides who sees it
  solved,    \* progress rows that say solved
  snapshot, row,
  pc, prob,  \* of a request: its next operation and its problem
  total,     \* number of problems it has read
  base,      \* snapshot it has read
  calls, faults,
  earned,    \* history: problems that were solved at some time
  raced,     \* history: problems whose request read the list while another was about to write it
  rowRaced,  \* history: how often a request read the snapshot while another had and was to write the row
  failed,    \* history: problems whose request ended with an error
  doubtful   \* history: requests during which the sheet was edited, or that count a deleted problem

stores == <<snapshot, row>>
work == <<pc, prob, total, base>>
bounds == <<calls, faults>>
history == <<earned, raced, rowRaced, failed, doubtful>>
vars == <<place, sheet, solved, stores, work, bounds, history>>

Scoped == {p \in Problem : place[p] = "sheet"}
NoSnapshot == [ids |-> {}, count |-> 0, done |-> FALSE]
NoRow == [count |-> 0, total |-> 0, done |-> FALSE]
NoProblem == CHOOSE p \in Problem : TRUE

\* Definitions whose name ends in Bug are what the definition after them
\* would be with a plausible mistake in the code; no specification uses them.

Init ==
  /\ place \in [Problem -> {"planned", "sheet"}]
  /\ sheet = "kept"
  /\ solved = {} /\ earned = {}
  /\ snapshot = NoSnapshot /\ row = NoRow
  /\ pc = [r \in Request |-> "idle"]
  /\ prob = [r \in Request |-> NoProblem]
  /\ total = [r \in Request |-> 0]
  /\ base = [r \in Request |-> NoSnapshot]
  /\ calls = 0 /\ faults = 0
  /\ raced = {} /\ rowRaced = 0 /\ failed = {} /\ doubtful = {}

-----------------------------------------------------------------------------
(* The instructor *)

Busy(r) == pc[r] # "idle"

\* createProblemInSheet; nothing recounts.
AddProblem(p) ==
  /\ sheet # "deleted" /\ place[p] = "planned"
  /\ place' = [place EXCEPT ![p] = "sheet"]
  /\ doubtful' = doubtful \cup {r \in Request : Busy(r)}
  /\ UNCHANGED <<sheet, solved, stores, work, bounds, earned, raced, rowRaced, failed>>

\* deleteSheetProblem, deleteProblem; the student's records are left as they are,
\* so that every later count is doubtful.
RemoveProblem(p) ==
  /\ place[p] = "sheet"
  /\ place' = [place EXCEPT ![p] = "deleted"]
  /\ doubtful' = Request
  /\ UNCHANGED <<sheet, solved, stores, work, bounds, earned, raced, rowRaced, failed>>

RemoveSheet ==
  /\ sheet = "kept" /\ sheet' = "deleted"
  /\ UNCHANGED <<place, solved, stores, work, bounds, history>>

-----------------------------------------------------------------------------
(* The student *)

Goto(r, l) == pc' = [pc EXCEPT ![r] = l]

End(r) ==
  /\ pc' = [pc EXCEPT ![r] = "idle"]
  /\ prob' = [prob EXCEPT ![r] = NoProblem]
  /\ total' = [total EXCEPT ![r] = 0]
  /\ base' = [base EXCEPT ![r] = NoSnapshot]
  /\ doubtful' = IF \E p \in Problem : place[p] = "deleted" THEN doubtful ELSE doubtful \ {r}

\* recordSubmissionResult (accepted), markAsSolved, updateProblemProgress: the
\* row is written first, also when it said solved before.  Requests are alike:
\* the first free one is taken.
Solve(p) ==
  /\ place[p] = "sheet" /\ calls < MaxCalls /\ calls' = calls + 1
  /\ solved' = solved \cup {p} /\ earned' = earned \cup {p}
  /\ \E r \in Request : ~ Busy(r)
  /\ LET r == CHOOSE q \in Request : ~ Busy(q) IN
       /\ Goto(r, "find") /\ prob' = [prob EXCEPT ![r] = p]
  /\ UNCHANGED <<place, sheet, stores, total, base, faults, raced, rowRaced, failed, doubtful>>

\* updateProblemProgress with solved: false takes nothing out of the lists.
Unsolve(p) ==
  /\ p \in solved /\ calls < MaxCalls /\ calls' = calls + 1
  /\ solved' = solved \ {p}
  /\ UNCHANGED <<place, sheet, stores, work, faults, history>>

\* touchSheet creates a row, with nothing solved, and never changes the counts.
Touch ==
  /\ sheet = "kept" /\ row = NoRow /\ Scoped # {}
  /\ row' = [row EXCEPT !.total = Cardinality(Scoped)]
  /\ UNCHANGED <<place, sheet, solved, snapshot, work, bounds, history>>

-----------------------------------------------------------------------------
(* syncSheetsContainingProblem, incrementalUpdateSheetProgress *)

Find(r) ==
  /\ pc[r] = "find"
  /\ IF place[prob[r]] = "sheet" /\ sheet # "deleted"
     THEN Goto(r, "total") /\ UNCHANGED <<prob, total, base, doubtful>>
     ELSE End(r)
  /\ UNCHANGED <<place, sheet, solved, stores, bounds, earned, raced, rowRaced, failed>>

Total(r) ==
  /\ pc[r] = "total"
  /\ total' = [total EXCEPT ![r] = Cardinality(Scoped)]
  /\ Goto(r, "check")
  /\ UNCHANGED <<place, sheet, solved, stores, prob, base, bounds, history>>

Check(r) ==
  /\ pc[r] = "check"
  /\ IF prob[r] \in solved
     THEN Goto(r, "read") /\ UNCHANGED <<prob, total, base, doubtful>>
     ELSE End(r)
  /\ UNCHANGED <<place, sheet, solved, stores, bounds, earned, raced, rowRaced, failed>>

Writing == {r \in Request : pc[r] = "list"}
Open == {r \in Request : pc[r] \in {"list", "row"}}

ReadList(r) ==
  /\ base' = [base EXCEPT ![r] = snapshot]
  /\ Goto(r, "list")
  /\ raced' = IF Writing = {} THEN raced ELSE raced \cup {prob[q] : q \in Writing \cup {r}}
  /\ rowRaced' = IF Open = {} THEN rowRaced ELSE rowRaced + 1
  /\ UNCHANGED <<prob, total, doubtful>>

Read_NotIncludedBug(r) ==
  /\ pc[r] = "read" /\ ReadList(r)
  /\ UNCHANGED <<place, sheet, solved, stores, bounds, earned, failed>>

\* The snapshot is created empty when there is none; a problem on the list is
\* not counted again.
Read(r) ==
  /\ pc[r] = "read"
  /\ IF prob[r] \in snapshot.ids
     THEN End(r) /\ UNCHANGED <<raced, rowRaced>>
     ELSE ReadList(r)
  /\ UNCHANGED <<place, sheet, solved, stores, bounds, earned, failed>>

NewCount(r) == base[r].count + 1
NewDone(r) == total[r] > 0 /\ NewCount(r) >= total[r]

WriteList_ForgetsIdBug(r) ==
  /\ pc[r] = "list"
  /\ snapshot' = [ids |-> base[r].ids, count |-> NewCount(r), done |-> NewDone(r)]
  /\ Goto(r, "row")
  /\ UNCHANGED <<place, sheet, solved, row, prob, total, base, bounds, history>>

\* snapshotModel.updateOne, from what was read
WriteList(r) ==
  /\ pc[r] = "list"
  /\ snapshot' = [ids |-> base[r].ids \cup {prob[r]}, count |-> NewCount(r), done |-> NewDone(r)]
  /\ Goto(r, "row")
  /\ UNCHANGED <<place, sheet, solved, row, prob, total, base, bounds, history>>

WriteRow_OldCountBug(r) ==
  /\ pc[r] = "row"
  /\ row' = [count |-> base[r].count, total |-> total[r], done |-> NewDone(r)]
  /\ End(r)
  /\ UNCHANGED <<place, sheet, solved, snapshot, bounds, earned, raced, rowRaced, failed>>

\* sheetProgressModel.findOneAndUpdate
WriteRow(r) ==
  /\ pc[r] = "row"
  /\ row' = [count |-> NewCount(r), total |-> total[r], done |-> NewDone(r)]
  /\ End(r)
  /\ UNCHANGED <<place, sheet, solved, snapshot, bounds, earned, raced, rowRaced, failed>>

\* A database error, or the end of the process: nothing repeats the request.
Fail(r) ==
  /\ Busy(r) /\ faults < MaxFaults /\ faults' = faults + 1
  /\ failed' = failed \cup {prob[r]}
  /\ End(r)
  /\ UNCHANGED <<place, sheet, solved, stores, calls, earned, raced, rowRaced>>

-----------------------------------------------------------------------------
Sync(r) == Find(r) \/ Total(r) \/ Check(r) \/ Read(r) \/ WriteList(r) \/ WriteRow(r)

Next ==
  \/ \E p \in Problem : AddProblem(p) \/ RemoveProblem(p) \/ Solve(p) \/ Unsolve(p)
  \/ RemoveSheet \/ Touch
  \/ \E r \in Request : Sync(r) \/ Fail(r)

Spec == Init /\ [][Next]_vars

\* The event loop goes on with a request that has begun; nobody need solve.
FairSpec == Spec /\ \A r \in Request : WF_vars(Sync(r))

-----------------------------------------------------------------------------
(* Properties *)

\* A list of problems and its length.
Snapshot ==
  {s \in [ids : SUBSET Problem, count : Nat, done : BOOLEAN] : s.count = Cardinality(s.ids)}

\* Every variable holds values of its kind; the list of a snapshot has as many
\* problems as its count says, whatever overlaps.
TypeOK ==
  /\ place \in [Problem -> {"planned", "sheet", "deleted"}]
  /\ sheet \in {"kept", "deleted"}
  /\ solved \subseteq Problem
  /\ snapshot \in Snapshot
  /\ row \in [count : Nat, total : Nat, done : BOOLEAN]
  /\ pc \in [Request -> {"idle", "find", "total", "check", "read", "list", "row"}]
  /\ prob \in [Request -> Problem]
  /\ total \in [Request -> Nat]
  /\ base \in [Request -> Snapshot]
  /\ calls \in Nat /\ faults \in Nat
  /\ earned \subseteq Problem /\ raced \subseteq Problem /\ failed \subseteq Problem
  /\ rowRaced \in Nat /\ doubtful \subseteq Request

Quiet == \A r \in Request : ~ Busy(r)

\* The row that opens lessons never counts more problems than were solved,
\* although the older of two rows may be the last one written. Unless a request
\* failed half-way it says, once nothing is under way, what the snapshot says
\* that the student sees, and each time that one request read the snapshot
\* while another was to write the row sets the two apart by one at most.
RowFollows ==
  /\ row.count <= Cardinality(earned)
  /\ Quiet /\ failed = {} =>
       /\ snapshot.count - rowRaced <= row.count /\ row.count <= snapshot.count + rowRaced
       /\ rowRaced = 0 => row.done = snapshot.done

\* A request marks the sheet completed only if every problem that was in the
\* sheet all along has been solved, whatever other requests do, and unless the
\* sheet was edited meanwhile or has ever lost a problem.
CompletionIsEarned ==
  [][\A r \in Request \ doubtful : WriteRow(r) /\ row'.done => Scoped \subseteq earned]_vars

\* A problem that is solved gets on the list, unless its request reads the list
\* while another is about to write it, fails, or finds the problem or the sheet
\* gone or solved undone.
SolvedGetsListed ==
  \A p \in Problem :
    (\E r \in Request : Busy(r) /\ prob[r] = p)
      ~> \/ p \in snapshot.ids \cup raced \cup failed
         \/ p \notin solved \/ place[p] = "deleted" \/ sheet = "deleted"

=============================================================================
