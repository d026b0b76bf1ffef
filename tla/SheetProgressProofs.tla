------------------------ MODULE SheetProgressProofs ------------------------
(***************************************************************************)
(* Theorems about SheetProgress, for any number of problems, requests that *)
(* sync at a time, calls and failures.                                     *)
(***************************************************************************)
EXTENDS SheetProgress, FiniteSetTheorems, TLAPS

USE DEF stores, work, bounds, history

LEMMA SomeProblem == NoProblem \in Problem
BY SheetAssumption DEF NoProblem

LEMMA EmptySnapshot == NoSnapshot \in Snapshot
BY FS_EmptySet DEF NoSnapshot, Snapshot

\* A list that grows by a problem it does not name, with its number.
LEMMA LongerSnapshot ==
  ASSUME NEW s \in Snapshot, NEW p \in Problem, p \notin s.ids, NEW d \in BOOLEAN
  PROVE  [ids |-> s.ids \cup {p}, count |-> s.count + 1, done |-> d] \in Snapshot
<1>1. s.ids \in SUBSET Problem /\ s.count = Cardinality(s.ids) /\ s.count \in Nat
  BY DEF Snapshot
<1>2. IsFiniteSet(s.ids)
  BY <1>1, SheetAssumption, FS_Subset
<1>3. Cardinality(s.ids \cup {p}) = s.count + 1
  BY <1>1, <1>2, FS_AddElement
<1>. QED  BY <1>1, <1>3 DEF Snapshot

LEMMA ScopedCount == Cardinality(Scoped) \in Nat /\ IsFiniteSet(Scoped)
BY SheetAssumption, FS_Subset, FS_CardinalityType DEF Scoped

-----------------------------------------------------------------------------
(* Types *)

\* A request adds its problem only to a list that does not name it.
Fresh == \A r \in Request : pc[r] \in {"list", "row"} => prob[r] \notin base[r].ids

Typed == TypeOK /\ Fresh

LEMMA TypedInitially == Init => Typed
<1>. SUFFICES ASSUME Init PROVE Typed
  OBVIOUS
<1>1. NoRow \in [count : Nat, total : Nat, done : BOOLEAN]
  BY DEF NoRow
<1>2. place \in [Problem -> {"planned", "sheet", "deleted"}]
  BY DEF Init
<1>. QED  BY <1>1, <1>2, SomeProblem, EmptySnapshot DEF Init, Typed, TypeOK, Fresh

LEMMA EndType ==
  ASSUME Typed, NEW r \in Request, End(r)
  PROVE  /\ pc'[r] = "idle" /\ pc' \in [Request -> {"idle", "find", "total", "check", "read", "list", "row"}]
         /\ prob' \in [Request -> Problem] /\ total' \in [Request -> Nat]
         /\ base' \in [Request -> Snapshot]
         /\ doubtful' \subseteq Request /\ Fresh'
         /\ \A q \in Request \ {r} :
              pc'[q] = pc[q] /\ prob'[q] = prob[q] /\ total'[q] = total[q] /\ base'[q] = base[q]
BY SomeProblem, EmptySnapshot DEF Typed, TypeOK, Fresh, End

LEMMA TypedStep == Typed /\ [Next]_vars => Typed'
<1>. SUFFICES ASSUME Typed, [Next]_vars PROVE Typed'
  OBVIOUS
<1>1. ASSUME NEW p \in Problem, AddProblem(p) \/ RemoveProblem(p) \/ Unsolve(p) PROVE Typed'
  BY <1>1 DEF Typed, TypeOK, Fresh, AddProblem, RemoveProblem, Unsolve
<1>2. ASSUME NEW p \in Problem, Solve(p) PROVE Typed'
  <2>. DEFINE r == CHOOSE q \in Request : ~ Busy(q)
  <2>1. r \in Request
    BY <1>2 DEF Solve
  <2>2. /\ pc' = [pc EXCEPT ![r] = "find"] /\ prob' = [prob EXCEPT ![r] = p]
        /\ solved' = solved \cup {p} /\ earned' = earned \cup {p} /\ calls' = calls + 1
        /\ UNCHANGED <<place, sheet, stores, total, base, faults, raced, rowRaced, failed, doubtful>>
    BY <1>2 DEF Solve, Goto
  <2>. HIDE DEF r
  <2>. QED  BY <2>1, <2>2 DEF Typed, TypeOK, Fresh
<1>3. CASE RemoveSheet \/ Touch
  BY <1>3, ScopedCount DEF Typed, TypeOK, Fresh, RemoveSheet, Touch
<1>4. ASSUME NEW r \in Request, Find(r) \/ Check(r) PROVE Typed'
  <2>1. CASE End(r)
    BY <1>4, <2>1, EndType DEF Typed, TypeOK, Find, Check
  <2>2. CASE ~ End(r)
    BY <1>4, <2>2 DEF Typed, TypeOK, Fresh, Find, Check, Goto
  <2>. QED  BY <2>1, <2>2
<1>5. ASSUME NEW r \in Request, Total(r) PROVE Typed'
  BY <1>5, ScopedCount DEF Typed, TypeOK, Fresh, Total, Goto
<1>6. ASSUME NEW r \in Request, Read(r) PROVE Typed'
  <2>1. CASE End(r) /\ UNCHANGED <<raced, rowRaced>>
    BY <1>6, <2>1, EndType DEF Typed, TypeOK, Read
  <2>2. CASE prob[r] \notin snapshot.ids /\ ReadList(r)
    <3>1. raced' \subseteq Problem
      BY <2>2 DEF Typed, TypeOK, ReadList, Writing
    <3>2. rowRaced' \in Nat
      BY <2>2 DEF Typed, TypeOK, ReadList
    <3>. QED  BY <1>6, <2>2, <3>1, <3>2 DEF Typed, TypeOK, Fresh, Read, ReadList, Goto
  <2>. QED  BY <1>6, <2>1, <2>2 DEF Read
<1>7. ASSUME NEW r \in Request, WriteList(r) PROVE Typed'
  <2>1. snapshot' \in Snapshot
    BY <1>7, LongerSnapshot DEF Typed, TypeOK, Fresh, WriteList, NewCount, NewDone
  <2>. QED  BY <1>7, <2>1 DEF Typed, TypeOK, Fresh, WriteList, Goto
<1>8. ASSUME NEW r \in Request, WriteRow(r) PROVE Typed'
  <2>1. row' \in [count : Nat, total : Nat, done : BOOLEAN]
    BY <1>8 DEF Typed, TypeOK, WriteRow, NewCount, NewDone, Snapshot
  <2>. QED  BY <1>8, <2>1, EndType DEF Typed, TypeOK, WriteRow
<1>9. ASSUME NEW r \in Request, Fail(r) PROVE Typed'
  BY <1>9, EndType DEF Typed, TypeOK, Fail
<1>10. CASE UNCHANGED vars
  BY <1>10 DEF Typed, TypeOK, Fresh, vars
<1>. QED
  BY <1>1, <1>2, <1>3, <1>4, <1>5, <1>6, <1>7, <1>8, <1>9, <1>10 DEF Next, Sync

\* Types, for every instance: the number in a snapshot is the length of its
\* list, whichever requests overlap (incrementalUpdateSheetProgress).
THEOREM SheetTypeCorrect == Spec => []TypeOK
<1>1. Typed => TypeOK
  BY DEF Typed
<1>. QED  BY <1>1, TypedInitially, TypedStep, PTL DEF Spec

-----------------------------------------------------------------------------
(* The row, while no two requests overlap *)

\* Unless requests raced or failed, one is open at a time: until it writes the
\* list it knows the list as it is, and then the row as it should become.
RowInv ==
  rowRaced = 0 /\ failed = {} =>
    /\ \A q, r \in Open : q = r
    /\ Open = {} \/ Writing # {} => row.count = snapshot.count /\ row.done = snapshot.done
    /\ \A r \in Request : pc[r] = "list" => base[r] = snapshot
    /\ \A r \in Request : pc[r] = "row" => snapshot.count = NewCount(r) /\ snapshot.done = NewDone(r)

LEMMA RowInitially == Init => RowInv
BY DEF Init, RowInv, Open, Writing, NoSnapshot, NoRow

\* A step that leaves the records and the requests between read and write alone.
LEMMA RowFrame ==
  ASSUME Typed, RowInv,
         snapshot' = snapshot, row'.count = row.count, row'.done = row.done,
         rowRaced' = rowRaced, failed' = failed,
         \A q \in Request :
           \/ pc'[q] = pc[q] /\ base'[q] = base[q] /\ total'[q] = total[q]
           \/ pc[q] \notin {"list", "row"} /\ pc'[q] \notin {"list", "row"}
  PROVE  RowInv'
BY DEF RowInv, Open, Writing, NewCount, NewDone

LEMMA RowStep == Typed /\ RowInv /\ [Next]_vars => RowInv'
<1>. SUFFICES ASSUME Typed, RowInv, [Next]_vars PROVE RowInv'
  OBVIOUS
<1>1. ASSUME NEW p \in Problem, AddProblem(p) \/ RemoveProblem(p) \/ Unsolve(p) PROVE RowInv'
  BY <1>1, RowFrame DEF AddProblem, RemoveProblem, Unsolve
<1>2. ASSUME NEW p \in Problem, Solve(p) PROVE RowInv'
  <2>. DEFINE r == CHOOSE q \in Request : ~ Busy(q)
  <2>1. r \in Request /\ pc[r] = "idle"
    BY <1>2 DEF Solve, Busy
  <2>2. /\ pc' = [pc EXCEPT ![r] = "find"]
        /\ UNCHANGED <<stores, total, base, rowRaced, failed>>
    BY <1>2 DEF Solve, Goto
  <2>. HIDE DEF r
  <2>3. \A q \in Request : q # r => pc'[q] = pc[q]
    BY <2>1, <2>2 DEF Typed, TypeOK
  <2>4. pc'[r] = "find"
    BY <2>1, <2>2 DEF Typed, TypeOK
  <2>. QED  BY <2>1, <2>2, <2>3, <2>4, RowFrame
<1>3. CASE RemoveSheet \/ Touch
  BY <1>3, RowFrame DEF Typed, TypeOK, RemoveSheet, Touch
<1>4. ASSUME NEW r \in Request, Find(r) \/ Check(r) \/ Total(r) PROVE RowInv'
  <2>1. pc[r] \notin {"list", "row"} /\ pc'[r] \notin {"list", "row"}
    BY <1>4 DEF Typed, TypeOK, Find, Check, Total, Goto, End
  <2>2. \A q \in Request : q # r => pc'[q] = pc[q] /\ base'[q] = base[q] /\ total'[q] = total[q]
    BY <1>4 DEF Typed, TypeOK, Find, Check, Total, Goto, End
  <2>. QED  BY <1>4, <2>1, <2>2, RowFrame DEF Find, Check, Total
<1>5. ASSUME NEW r \in Request, Read(r) PROVE RowInv'
  <2>1. CASE End(r) /\ UNCHANGED <<raced, rowRaced>>
    BY <1>5, <2>1, EndType, RowFrame DEF Read
  <2>2. CASE ReadList(r) /\ Open # {}
    <3>1. rowRaced' # 0
      BY <2>2 DEF Typed, TypeOK, ReadList
    <3>. QED  BY <3>1 DEF RowInv
  <2>3. CASE ReadList(r) /\ Open = {}
    <3>1. \A q \in Request : pc'[q] \in {"list", "row"} => q = r
      BY <2>3 DEF Typed, TypeOK, ReadList, Goto, Open
    <3>2. pc'[r] = "list" /\ base'[r] = snapshot
      BY <2>3 DEF Typed, TypeOK, ReadList, Goto
    <3>. QED  BY <1>5, <2>3, <3>1, <3>2 DEF RowInv, Open, Writing, Read, ReadList
  <2>. QED  BY <1>5, <2>1, <2>2, <2>3 DEF Read
<1>6. ASSUME NEW r \in Request, WriteList(r) PROVE RowInv'
  <2>. SUFFICES ASSUME rowRaced = 0, failed = {} PROVE RowInv'
    BY <1>6 DEF RowInv, WriteList
  <2>1. \A q \in Request : pc'[q] \in {"list", "row"} => q = r
    BY <1>6 DEF Typed, TypeOK, RowInv, WriteList, Goto, Open
  <2>2. pc'[r] = "row" /\ UNCHANGED <<base, total>>
    BY <1>6 DEF Typed, TypeOK, WriteList, Goto
  <2>. QED  BY <1>6, <2>1, <2>2 DEF RowInv, Open, Writing, WriteList, NewCount, NewDone
<1>7. ASSUME NEW r \in Request, WriteRow(r) PROVE RowInv'
  <2>. SUFFICES ASSUME rowRaced = 0, failed = {} PROVE RowInv'
    BY <1>7 DEF RowInv, WriteRow
  <2>1. \A q \in Request : pc'[q] \notin {"list", "row"}
    BY <1>7, EndType DEF RowInv, WriteRow, Open
  <2>2. row'.count = snapshot.count /\ row'.done = snapshot.done
    BY <1>7 DEF RowInv, WriteRow
  <2>. QED  BY <1>7, <2>1, <2>2 DEF RowInv, Open, Writing, WriteRow
<1>8. ASSUME NEW r \in Request, Fail(r) PROVE RowInv'
  BY <1>8 DEF RowInv, Fail
<1>9. CASE UNCHANGED vars
  BY <1>9, RowFrame DEF vars
<1>. QED
  BY <1>1, <1>2, <1>3, <1>4, <1>5, <1>6, <1>7, <1>8, <1>9 DEF Next, Sync

-----------------------------------------------------------------------------
(* The row, while requests overlap *)

\* What is being written lies between lo and hi; so does what is stored, but
\* for the snapshot that nobody has written to yet.
Window(lo, hi) ==
  /\ hi <= lo + rowRaced
  /\ \A r \in Open : lo <= NewCount(r) /\ NewCount(r) <= hi
  /\ lo <= snapshot.count + 1 /\ snapshot.count <= hi
  /\ Writing = {} => lo <= snapshot.count
  /\ Open = {} => lo <= row.count /\ row.count <= hi

WindowInv == failed = {} => \E lo, hi \in Int : Window(lo, hi)

LEMMA Counts ==
  ASSUME Typed
  PROVE  /\ snapshot.count \in Nat /\ row.count \in Nat /\ rowRaced \in Nat
         /\ \A r \in Request : base[r].count \in Nat /\ NewCount(r) \in Nat
BY DEF Typed, TypeOK, Snapshot, NewCount

LEMMA WindowInitially == Init => WindowInv
<1>. SUFFICES ASSUME Init PROVE Window(0, 0)
  BY DEF WindowInv
<1>. QED  BY DEF Init, Window, Open, Writing, NoSnapshot, NoRow

\* A step that leaves the records and the requests between read and write alone.
LEMMA WindowFrame ==
  ASSUME Typed, WindowInv,
         snapshot' = snapshot, row'.count = row.count, rowRaced' = rowRaced, failed' = failed,
         \A q \in Request :
           \/ pc'[q] = pc[q] /\ base'[q] = base[q]
           \/ pc[q] \notin {"list", "row"} /\ pc'[q] \notin {"list", "row"}
  PROVE  WindowInv'
<1>1. Open' = Open /\ Writing' = Writing
  BY DEF Open, Writing
<1>2. \A q \in Open : NewCount(q)' = NewCount(q)
  BY DEF Open, NewCount
<1>3. \A lo, hi \in Int : Window(lo, hi) => Window(lo, hi)'
  BY <1>1, <1>2 DEF Window
<1>. QED  BY <1>3 DEF WindowInv

\* Whoever reads alone begins a window of one number; whoever reads while
\* another is open makes it longer by one.
LEMMA WindowRead ==
  ASSUME Typed, WindowInv, NEW r \in Request, pc[r] = "read", ReadList(r),
         UNCHANGED <<stores, failed>>
  PROVE  WindowInv'
<1>. SUFFICES ASSUME failed = {} PROVE \E lo, hi \in Int : Window(lo, hi)'
  BY DEF WindowInv
<1>1. /\ pc'[r] = "list" /\ Open' = Open \cup {r} /\ r \in Writing' /\ r \notin Open
      /\ NewCount(r)' = snapshot.count + 1
      /\ \A q \in Open : NewCount(q)' = NewCount(q)
  BY DEF Typed, TypeOK, ReadList, Goto, Open, Writing, NewCount
<1>2. CASE Open = {}
  <2>1. rowRaced' = rowRaced
    BY <1>2 DEF ReadList
  <2>2. Window(snapshot.count + 1, snapshot.count + 1)'
    BY <1>1, <1>2, <2>1, Counts DEF Window
  <2>. QED  BY <2>2, Counts
<1>3. CASE Open # {}
  <2>1. rowRaced' = rowRaced + 1
    BY <1>3 DEF ReadList
  <2>2. PICK lo \in Int, hi \in Int : Window(lo, hi)
    BY DEF WindowInv
  <2>3. hi + 1 <= lo + rowRaced' /\ lo <= snapshot.count + 1 /\ snapshot.count + 1 <= hi + 1
    BY <2>1, <2>2, Counts DEF Window
  <2>4. \A q \in Open' : lo <= NewCount(q)' /\ NewCount(q)' <= hi + 1
    <3>1. \A q \in Open : lo <= NewCount(q) /\ NewCount(q) <= hi + 1
      BY <2>2, Counts DEF Window, Open
    <3>. QED  BY <1>1, <2>3, <3>1
  <2>5. Writing' # {} /\ Open' # {}
    BY <1>1
  <2>6. Window(lo, hi + 1)'
    BY <2>2, <2>3, <2>4, <2>5, Counts DEF Window
  <2>. QED  BY <2>6
<1>. QED  BY <1>2, <1>3

LEMMA WindowStep == Typed /\ WindowInv /\ [Next]_vars => WindowInv'
<1>. SUFFICES ASSUME Typed, WindowInv, [Next]_vars PROVE WindowInv'
  OBVIOUS
<1>1. ASSUME NEW p \in Problem, AddProblem(p) \/ RemoveProblem(p) \/ Unsolve(p) PROVE WindowInv'
  BY <1>1, WindowFrame DEF AddProblem, RemoveProblem, Unsolve
<1>2. ASSUME NEW p \in Problem, Solve(p) PROVE WindowInv'
  <2>. DEFINE r == CHOOSE q \in Request : ~ Busy(q)
  <2>1. r \in Request /\ pc[r] = "idle"
    BY <1>2 DEF Solve, Busy
  <2>2. pc' = [pc EXCEPT ![r] = "find"] /\ UNCHANGED <<stores, base, rowRaced, failed>>
    BY <1>2 DEF Solve, Goto
  <2>. HIDE DEF r
  <2>3. pc'[r] = "find" /\ \A q \in Request : q # r => pc'[q] = pc[q]
    BY <2>1, <2>2 DEF Typed, TypeOK
  <2>. QED  BY <2>1, <2>2, <2>3, WindowFrame
<1>3. CASE RemoveSheet \/ Touch
  BY <1>3, WindowFrame DEF Typed, TypeOK, RemoveSheet, Touch
<1>4. ASSUME NEW r \in Request, Find(r) \/ Check(r) \/ Total(r) PROVE WindowInv'
  <2>1. pc[r] \notin {"list", "row"} /\ pc'[r] \notin {"list", "row"}
    BY <1>4 DEF Typed, TypeOK, Find, Check, Total, Goto, End
  <2>2. \A q \in Request : q # r => pc'[q] = pc[q] /\ base'[q] = base[q]
    BY <1>4 DEF Typed, TypeOK, Find, Check, Total, Goto, End
  <2>. QED  BY <1>4, <2>1, <2>2, WindowFrame DEF Find, Check, Total
<1>5. ASSUME NEW r \in Request, Read(r) PROVE WindowInv'
  <2>1. CASE End(r) /\ UNCHANGED <<raced, rowRaced>>
    BY <1>5, <2>1, EndType, WindowFrame DEF Read
  <2>2. CASE ReadList(r)
    BY <1>5, <2>2, WindowRead DEF Read
  <2>. QED  BY <1>5, <2>1, <2>2 DEF Read
<1>6. ASSUME NEW r \in Request, WriteList(r) PROVE WindowInv'
  <2>1. Open' = Open /\ r \in Open /\ Writing' \subseteq Writing
    BY <1>6 DEF Typed, TypeOK, WriteList, Goto, Open, Writing
  <2>2. snapshot'.count = NewCount(r) /\ UNCHANGED <<base, row, rowRaced, failed>>
    BY <1>6 DEF WriteList
  <2>3. \A q \in Request : NewCount(q)' = NewCount(q)
    BY <2>2 DEF NewCount
  <2>4. \A lo, hi \in Int : Window(lo, hi) => Window(lo, hi)'
    BY <2>1, <2>2, <2>3, Counts DEF Window, Open
  <2>. QED  BY <2>2, <2>4 DEF WindowInv
<1>7. ASSUME NEW r \in Request, WriteRow(r) PROVE WindowInv'
  <2>1. r \in Open /\ Open' \subseteq Open \ {r} /\ (Writing' = {} => Writing = {})
    BY <1>7, EndType DEF WriteRow, Open, Writing
  <2>2. row'.count = NewCount(r) /\ UNCHANGED <<snapshot, rowRaced, failed>>
    BY <1>7 DEF WriteRow
  <2>3. \A q \in Request \ {r} : NewCount(q)' = NewCount(q)
    BY <1>7, EndType DEF WriteRow, NewCount
  <2>4. \A lo, hi \in Int : Window(lo, hi) => Window(lo, hi)'
    BY <2>1, <2>2, <2>3 DEF Window, Open
  <2>. QED  BY <2>2, <2>4 DEF WindowInv
<1>8. ASSUME NEW r \in Request, Fail(r) PROVE WindowInv'
  BY <1>8 DEF WindowInv, Fail
<1>9. CASE UNCHANGED vars
  BY <1>9, WindowFrame DEF vars
<1>. QED
  BY <1>1, <1>2, <1>3, <1>4, <1>5, <1>6, <1>7, <1>8, <1>9 DEF Next, Sync

-----------------------------------------------------------------------------
(* Completion *)

\* Only solved problems are listed, or about to be; and who has counted the
\* problems of the sheet and is not marked has counted those it has now.
EarnedInv ==
  /\ \A p \in earned : place[p] # "planned"
  /\ snapshot.ids \subseteq earned
  /\ \A r \in Request : base[r].ids \subseteq earned /\ (Busy(r) => prob[r] \in earned)
  /\ (\E p \in Problem : place[p] = "deleted") => doubtful = Request
  /\ \A r \in Request \ doubtful :
       pc[r] \in {"check", "read", "list", "row"} => total[r] = Cardinality(Scoped)

LEMMA EarnedInitially == Init => EarnedInv
BY DEF Init, EarnedInv, NoSnapshot, Busy

\* A step that edits no sheet, and reads or ends in r.
LEMMA EarnedFrame ==
  ASSUME Typed, EarnedInv, NEW r \in Request,
         UNCHANGED <<place, earned, snapshot>>,
         doubtful' = doubtful \/ (doubtful' = doubtful \ {r} /\ ~ \E p \in Problem : place[p] = "deleted"),
         base'[r].ids \subseteq earned, pc'[r] # "idle" => prob'[r] \in earned,
         pc'[r] \in {"check", "read", "list", "row"} =>
           r \in doubtful' \/ total'[r] = Cardinality(Scoped),
         \A q \in Request \ {r} :
           pc'[q] = pc[q] /\ base'[q] = base[q] /\ total'[q] = total[q] /\ prob'[q] = prob[q]
  PROVE  EarnedInv'
<1>1. Scoped' = Scoped
  BY DEF Scoped
<1>. QED  BY <1>1 DEF EarnedInv, Busy

LEMMA EarnedEnd ==
  ASSUME Typed, EarnedInv, NEW r \in Request, End(r), UNCHANGED <<place, earned, snapshot>>
  PROVE  EarnedInv'
<1>1. base'[r].ids = {}
  BY DEF Typed, TypeOK, End, NoSnapshot
<1>2. doubtful' = doubtful \/ (doubtful' = doubtful \ {r} /\ ~ \E p \in Problem : place[p] = "deleted")
  BY DEF End
<1>. QED  BY <1>1, <1>2, EndType, EarnedFrame

LEMMA EarnedStep == Typed /\ EarnedInv /\ [Next]_vars => EarnedInv'
<1>. SUFFICES ASSUME Typed, EarnedInv, [Next]_vars PROVE EarnedInv'
  OBVIOUS
<1>1. ASSUME NEW p \in Problem, AddProblem(p) PROVE EarnedInv'
  <2>1. \A q \in Problem : place'[q] = "planned" => place[q] = "planned"
    BY <1>1 DEF Typed, TypeOK, AddProblem
  <2>2. (\E q \in Problem : place'[q] = "deleted") => \E q \in Problem : place[q] = "deleted"
    BY <1>1 DEF Typed, TypeOK, AddProblem
  <2>. QED  BY <1>1, <2>1, <2>2 DEF Typed, TypeOK, EarnedInv, AddProblem, Busy
<1>2. ASSUME NEW p \in Problem, RemoveProblem(p) PROVE EarnedInv'
  BY <1>2 DEF Typed, TypeOK, EarnedInv, RemoveProblem, Busy
<1>3. ASSUME NEW p \in Problem, Solve(p) PROVE EarnedInv'
  <2>. DEFINE r == CHOOSE q \in Request : ~ Busy(q)
  <2>1. r \in Request
    BY <1>3 DEF Solve
  <2>2. /\ pc' = [pc EXCEPT ![r] = "find"] /\ prob' = [prob EXCEPT ![r] = p]
        /\ earned' = earned \cup {p} /\ place[p] = "sheet"
        /\ UNCHANGED <<place, stores, total, base, doubtful>>
    BY <1>3 DEF Solve, Goto
  <2>. HIDE DEF r
  <2>3. Scoped' = Scoped
    BY <2>2 DEF Scoped
  <2>. QED  BY <2>1, <2>2, <2>3 DEF Typed, TypeOK, EarnedInv, Busy
<1>4. ASSUME NEW p \in Problem, Unsolve(p) PROVE EarnedInv'
  BY <1>4 DEF EarnedInv, Unsolve, Scoped, Busy
<1>5. CASE RemoveSheet \/ Touch
  BY <1>5 DEF EarnedInv, RemoveSheet, Touch, Scoped, Busy
<1>6. ASSUME NEW r \in Request, Find(r) \/ Check(r) PROVE EarnedInv'
  <2>1. CASE End(r)
    BY <1>6, <2>1, EarnedEnd DEF Find, Check
  <2>2. CASE ~ End(r)
    <3>1. /\ pc' = [pc EXCEPT ![r] = IF Find(r) THEN "total" ELSE "read"]
          /\ UNCHANGED <<place, earned, snapshot, prob, total, base, doubtful>>
          /\ pc[r] # "idle" /\ (Check(r) => pc[r] = "check") /\ Find(r) # Check(r)
      BY <1>6, <2>2 DEF Typed, TypeOK, Find, Check, Goto
    <3>. QED  BY <3>1, <1>6, EarnedFrame DEF Typed, TypeOK, EarnedInv, Busy
  <2>. QED  BY <2>1, <2>2
<1>7. ASSUME NEW r \in Request, Total(r) PROVE EarnedInv'
  <2>1. total'[r] = Cardinality(Scoped)
    BY <1>7 DEF Typed, TypeOK, Total
  <2>. QED  BY <1>7, <2>1, EarnedFrame DEF Typed, TypeOK, EarnedInv, Total, Goto, Busy
<1>8. ASSUME NEW r \in Request, Read(r) PROVE EarnedInv'
  <2>1. CASE End(r)
    BY <1>8, <2>1, EarnedEnd DEF Read
  <2>2. CASE ReadList(r)
    BY <1>8, <2>2, EarnedFrame DEF Typed, TypeOK, EarnedInv, Read, ReadList, Goto, Busy
  <2>. QED  BY <1>8, <2>1, <2>2 DEF Read
<1>9. ASSUME NEW r \in Request, WriteList(r) PROVE EarnedInv'
  <2>1. snapshot'.ids \subseteq earned
    BY <1>9 DEF EarnedInv, WriteList, Busy
  <2>. QED  BY <1>9, <2>1 DEF Typed, TypeOK, EarnedInv, WriteList, Goto, Scoped, Busy
<1>10. ASSUME NEW r \in Request, WriteRow(r) \/ Fail(r) PROVE EarnedInv'
  BY <1>10, EarnedEnd DEF WriteRow, Fail
<1>11. CASE UNCHANGED vars
  BY <1>11 DEF EarnedInv, vars, Scoped, Busy
<1>. QED
  BY <1>1, <1>2, <1>3, <1>4, <1>5, <1>6, <1>7, <1>8, <1>9, <1>10, <1>11 DEF Next, Sync

\* The list that a request is about to store has the length it counts, and
\* names solved problems only.
LEMMA NewList ==
  ASSUME Typed, EarnedInv, NEW r \in Request, pc[r] \in {"list", "row"}
  PROVE  /\ Cardinality(base[r].ids \cup {prob[r]}) = NewCount(r)
         /\ base[r].ids \cup {prob[r]} \subseteq earned
<1>1. base[r] \in Snapshot /\ prob[r] \in Problem /\ prob[r] \notin base[r].ids
  BY DEF Typed, TypeOK, Fresh
<1>2. base[r].count = Cardinality(base[r].ids) /\ base[r].ids \subseteq Problem
  BY <1>1 DEF Snapshot
<1>3. IsFiniteSet(base[r].ids)
  BY <1>2, SheetAssumption, FS_Subset
<1>4. Cardinality(base[r].ids \cup {prob[r]}) = NewCount(r)
  BY <1>1, <1>2, <1>3, FS_AddElement DEF NewCount
<1>. QED  BY <1>4 DEF EarnedInv, Busy

Honest == row.count <= Cardinality(earned)

LEMMA HonestInitially == Init => Honest
BY FS_EmptySet DEF Init, Honest, NoRow

LEMMA HonestStep == Typed /\ EarnedInv /\ Honest /\ [Next]_vars => Honest'
<1>. SUFFICES ASSUME Typed, EarnedInv, Honest, [Next]_vars PROVE Honest'
  OBVIOUS
<1>1. earned \subseteq Problem /\ IsFiniteSet(earned) /\ Cardinality(earned) \in Nat
  BY SheetAssumption, FS_Subset, FS_CardinalityType DEF Typed, TypeOK
<1>2. CASE row'.count = row.count /\ earned' = earned
  BY <1>2 DEF Honest
<1>3. ASSUME NEW p \in Problem, Solve(p) PROVE Honest'
  <2>1. earned' = earned \cup {p} /\ row' = row
    BY <1>3 DEF Solve
  <2>2. IsFiniteSet(earned')
    BY <1>1, <2>1, FS_AddElement
  <2>3. Cardinality(earned) <= Cardinality(earned') /\ Cardinality(earned') \in Nat
    BY <2>1, <2>2, FS_Subset, FS_CardinalityType
  <2>. QED  BY <1>1, <2>1, <2>3, Counts DEF Honest
<1>4. ASSUME NEW r \in Request, WriteRow(r) PROVE Honest'
  <2>1. row'.count = NewCount(r) /\ earned' = earned /\ pc[r] = "row"
    BY <1>4 DEF WriteRow
  <2>2. Cardinality(base[r].ids \cup {prob[r]}) <= Cardinality(earned)
    BY <1>1, <2>1, NewList, FS_Subset
  <2>. QED  BY <2>1, <2>2, NewList DEF Honest
<1>5. ASSUME NEW p \in Problem, AddProblem(p) \/ RemoveProblem(p) \/ Unsolve(p) PROVE Honest'
  BY <1>2, <1>5 DEF AddProblem, RemoveProblem, Unsolve
<1>6. CASE RemoveSheet \/ Touch
  BY <1>2, <1>6 DEF Typed, TypeOK, RemoveSheet, Touch
<1>7. ASSUME NEW r \in Request,
             Find(r) \/ Total(r) \/ Check(r) \/ Read(r) \/ WriteList(r) \/ Fail(r)
      PROVE  Honest'
  BY <1>2, <1>7 DEF Find, Total, Check, Read, WriteList, Fail
<1>8. CASE UNCHANGED vars
  BY <1>2, <1>8 DEF vars
<1>. QED
  BY <1>3, <1>4, <1>5, <1>6, <1>7, <1>8 DEF Next, Sync

\* The sheet_progress row never counts more than was solved. Unless a request
\* failed it agrees, whenever nothing is under way, with the snapshot, up to one
\* for each time that two requests overlapped (syncSheetsContainingProblem).
THEOREM SheetRowFollows == Spec => []RowFollows
<1>1. Typed /\ RowInv /\ WindowInv /\ Honest => RowFollows
  <2>. SUFFICES ASSUME Typed, RowInv, WindowInv, Honest PROVE RowFollows
    OBVIOUS
  <2>1. ASSUME Quiet, failed = {}
        PROVE  snapshot.count - rowRaced <= row.count /\ row.count <= snapshot.count + rowRaced
    <3>1. Open = {} /\ Writing = {}
      BY <2>1 DEF Quiet, Busy, Open, Writing
    <3>2. PICK lo \in Int, hi \in Int : Window(lo, hi)
      BY <2>1 DEF WindowInv
    <3>. QED  BY <3>1, <3>2, Counts DEF Window
  <2>2. ASSUME Quiet, failed = {}, rowRaced = 0 PROVE row.done = snapshot.done
    BY <2>2 DEF RowInv, Quiet, Busy, Open
  <2>. QED  BY <2>1, <2>2 DEF RowFollows, Honest
<1>. QED
  BY <1>1, TypedInitially, TypedStep, RowInitially, RowStep, WindowInitially, WindowStep,
     EarnedInitially, EarnedStep, HonestInitially, HonestStep, PTL DEF Spec

\* If the new list is as long as the sheet, it names every problem of the
\* sheet: it names only problems that are in it, for none was ever removed.
LEMMA CompletedList ==
  ASSUME Typed, EarnedInv, NEW r \in Request, r \notin doubtful, pc[r] = "row", NewDone(r)
  PROVE  Scoped \subseteq earned
<1>. DEFINE S == base[r].ids \cup {prob[r]}
<1>1. base[r] \in Snapshot /\ prob[r] \in Problem
  BY DEF Typed, TypeOK
<1>2. base[r].count \in Nat /\ base[r].ids \subseteq Problem
  BY <1>1 DEF Snapshot
<1>3. Cardinality(S) = NewCount(r)
  BY NewList
<1>4. S \subseteq earned
  BY NewList
<1>5. S \subseteq Scoped
  BY <1>1, <1>2, <1>4 DEF Typed, TypeOK, EarnedInv, Scoped
<1>6. total[r] = Cardinality(Scoped)
  BY DEF EarnedInv
<1>7. Cardinality(S) <= Cardinality(Scoped) /\ (Cardinality(S) = Cardinality(Scoped) => S = Scoped)
  BY <1>5, ScopedCount, FS_Subset
<1>8. Cardinality(S) = Cardinality(Scoped)
  BY <1>2, <1>3, <1>6, <1>7, ScopedCount DEF NewDone, NewCount
<1>. QED  BY <1>4, <1>7, <1>8

\* The row says that the sheet is completed, which opens lessons, only when
\* every problem of the sheet has been solved, whatever the other requests do,
\* unless the sheet was edited meanwhile or has lost a problem.
THEOREM SheetCompletionIsEarned == Spec => CompletionIsEarned
<1>1. Typed /\ EarnedInv /\ [Next]_vars =>
        [\A r \in Request \ doubtful : WriteRow(r) /\ row'.done => Scoped \subseteq earned]_vars
  <2>. SUFFICES ASSUME Typed, EarnedInv, NEW r \in Request \ doubtful, WriteRow(r), row'.done
                PROVE  Scoped \subseteq earned
    OBVIOUS
  <2>1. pc[r] = "row" /\ NewDone(r)
    BY DEF WriteRow
  <2>. QED  BY <2>1, CompletedList
<1>. QED
  BY <1>1, TypedInitially, TypedStep, EarnedInitially, EarnedStep, PTL DEF Spec, CompletionIsEarned

=============================================================================
