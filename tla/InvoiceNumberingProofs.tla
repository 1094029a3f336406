----------------------- MODULE InvoiceNumberingProofs -----------------------
(***************************************************************************)
(* Proofs about InvoiceNumbering for every set of invoices, requests,      *)
(* series and years and every value of the limits: type correctness, the   *)
(* uniqueness of final numbers, what a request may rely on in its own      *)
(* snapshot, the discipline of the series lock, that the numbers have no   *)
(* hole, and that the numbering implements the abstract register.          *)
(***************************************************************************)
EXTENDS InvoiceNumbering, TLAPS, WellFoundedInduction

-----------------------------------------------------------------------------
(* Maxima of bounded sets of counters *)

\* A set of naturals with an upper bound that is not empty has a maximum: the
\* distance of a number to the bound cannot shrink for ever.
LEMMA MaxExists ==
  ASSUME NEW B \in Nat, NEW S, S \subseteq 0..B, S # {}
  PROVE  \E x \in S : \A y \in S : x >= y
<1> DEFINE T == {n \in Nat : \E x \in S : n = B - x}
<1>1. T \subseteq Nat
  OBVIOUS
<1>2. T # {}
  <2>1. PICK x : x \in S
    OBVIOUS
  <2>2. B - x \in T
    BY <2>1
  <2> QED
    BY <2>2
<1> HIDE DEF T
<1>3. PICK m \in T : \A n \in T : ~(<<n, m>> \in OpToRel(<, Nat))
  BY <1>1, <1>2, NatLessThanWellFounded, WFMin
<1> USE DEF T
<1>4. PICK x \in S : m = B - x
  BY <1>3
<1>5. ASSUME NEW y \in S PROVE x >= y
  <2>1. B - y \in T
    BY <1>5
  <2>2. ~(B - y < B - x)
    BY <2>1, <1>3, <1>4 DEF OpToRel
  <2> QED
    BY <2>2
<1> QED
  BY <1>4, <1>5

\* The observed counter of a series and a year is within the limits.
LEMMA ObservedType ==
  ASSUME NEW numbers \in [Invoice -> Number \cup Drafts \cup {Absent}],
         NEW s \in Series, NEW y \in Year
  PROVE  Observed(numbers, s, y) \in 0..MaxImported
<1> DEFINE C == CountersOf(numbers, s, y)
<1>1. MaxImported \in Nat
  BY NumberingAssumption
<1>2. C \subseteq 0..MaxImported
  BY DEF CountersOf, Number
<1>3. CASE C = {}
  BY <1>1, <1>3 DEF Observed
<1>4. CASE C # {}
  <2>1. \E x \in C : \A z \in C : x >= z
    BY <1>1, <1>2, <1>4, MaxExists
  <2>2. Max(C) \in C
    BY <2>1 DEF Max
  <2> QED
    BY <1>2, <1>4, <2>2 DEF Observed
<1> QED
  BY <1>3, <1>4

-----------------------------------------------------------------------------
(* The operators of the allocation *)

LEMMA SyncedRowType ==
  ASSUME NEW row \in SeriesRow, NEW n \in 0..MaxImported, NEW y \in Year
  PROVE  SyncedRow(row, n, y) \in SeriesRow
BY DEF SyncedRow, SeriesRow

\* A number that the allocation offers is well formed, and no other invoice of
\* the snapshot has it.
LEMMA NextNumbersFree ==
  ASSUME NEW numbers \in [Invoice -> Number \cup Drafts \cup {Absent}],
         NEW rows \in [Series -> SeriesRow],
         NEW i \in Invoice, NEW s \in Series, NEW y \in Year,
         NEW n \in NextNumbers(numbers, rows, i, s, y)
  PROVE  n \in Number /\ FreeFor(numbers, i, n)
<1> DEFINE row  == SyncedRow(rows[s], Observed(numbers, s, y), y)
           base == CurrentCounter(row, y)
<1>1. row \in SeriesRow
  BY ObservedType, SyncedRowType
<1>2. base \in Nat
  BY <1>1, NumberingAssumption DEF CurrentCounter, SeriesRow
<1>3. PICK c \in base + 1 .. base + MaxTries :
        /\ n = NumberOf(s, y, c)
        /\ c <= MaxCounter
        /\ FreeFor(numbers, i, NumberOf(s, y, c))
  BY DEF NextNumbers
<1> HIDE DEF base
<1>4. c \in 1..MaxImported
  BY <1>2, <1>3, NumberingAssumption
<1> QED
  BY <1>3, <1>4 DEF NumberOf, Number

LEMMA DraftsAreNotNumbers ==
  ASSUME NEW y \in Year
  PROVE  /\ Draft(y) \in Drafts
         /\ Draft(y) \notin Number
         /\ Draft(y) # Absent
BY NumberingAssumption DEF Drafts

-----------------------------------------------------------------------------
(* Sessions *)

LEMMA IdleIsNoSession == Idle \notin Session
BY DEF Idle, Session

\* A session starts well formed, with the number it is opened with.
LEMMA OpenType ==
  ASSUME TypeOK, NEW r \in Request, NEW op \in {"issue", "save", "import"},
         NEW i \in Invoice, NEW y \in Year, NEW n \in Number \cup Drafts,
         NEW rows \in [Series -> SeriesRow], Open(r, op, i, y, n, rows)
  PROVE  /\ req' \in [Request -> Session \cup {Idle}]
         /\ req'[r].op = op
         /\ req'[r].number = n
         /\ \A t \in Request \ {r} : req'[t] = req[t]
<1>1. [s \in Series |-> ChangedFields(series[s], rows[s])] \in [Series -> SUBSET {"counter", "year"}]
  BY DEF ChangedFields
<1> QED
  BY <1>1 DEF Open, TypeOK, Session

LEMMA SyncedRowsType ==
  ASSUME TypeOK, NEW y \in Year
  PROVE  SyncedRows(y) \in [Series -> SeriesRow]
<1> SUFFICES ASSUME NEW s \in Series
             PROVE  SyncedRow(series[s], Observed(number, s, y), y) \in SeriesRow
  BY DEF SyncedRows
<1>1. series[s] \in SeriesRow
  BY NumberingAssumption DEF TypeOK, SeriesRow
<1> QED
  BY <1>1, ObservedType, SyncedRowType DEF TypeOK

LEMMA SeriesRows ==
  ASSUME TypeOK
  PROVE  series \in [Series -> SeriesRow]
BY NumberingAssumption DEF TypeOK, SeriesRow

LEMMA ReconciledRowsType ==
  ASSUME TypeOK, NEW numbers \in [Invoice -> Number \cup Drafts \cup {Absent}]
  PROVE  ReconciledRows(numbers) \in [Series -> SeriesRow]
<1>1. ASSUME NEW s \in Series, Spelled[s] # Absent
      PROVE  Observed(numbers, s, Spelled[s]) \in 0..MaxImported
  BY <1>1, ObservedType, NumberingAssumption
<1>2. \A s \in Series : series[s] \in SeriesRow
  BY SeriesRows
<1> QED
  BY <1>1, <1>2 DEF ReconciledRows, SeriesRow

\* Every request opens a session; one that issues has its number still to find.
LEMMA BeginOpens ==
  ASSUME TypeOK, NEW r \in Request, Begin(r)
  PROVE  \E op \in {"issue", "save", "import"}, i \in Invoice, y \in Year,
            n \in Number \cup Drafts, rows \in [Series -> SeriesRow] :
           /\ Open(r, op, i, y, n, rows)
           /\ op = "issue" => n \in Drafts
<1>1. ASSUME NEW i \in Invoice, NEW y \in Year,
             \/ BeginIssue(r, i, y) \/ BeginEditorIssue(r, i, y)
             \/ BeginSave(r, i, y) \/ BeginDraftSave(r, i, y)
      PROVE  \E op \in {"issue", "save"}, rows \in [Series -> SeriesRow] :
               Open(r, op, i, y, Draft(y), rows)
  BY <1>1, SeriesRows, SyncedRowsType
     DEF BeginIssue, BeginEditorIssue, BeginSave, BeginDraftSave
<1>2. ASSUME NEW i \in Invoice, NEW n \in Number, BeginImport(r, i, n)
      PROVE  n.year \in Year /\ \E rows \in [Series -> SeriesRow] :
               Open(r, "import", i, n.year, n, rows)
  <2>1. [number EXCEPT ![i] = n] \in [Invoice -> Number \cup Drafts \cup {Absent}]
    BY DEF TypeOK
  <2>2. n.year \in Year
    BY DEF Number
  <2> QED
    BY <1>2, <2>1, <2>2, ReconciledRowsType DEF BeginImport
<1>3. \A y \in Year : Draft(y) \in Drafts
  BY DraftsAreNotNumbers
<1>4. CASE \E i \in Invoice, y \in Year :
             \/ BeginIssue(r, i, y) \/ BeginEditorIssue(r, i, y)
             \/ BeginSave(r, i, y) \/ BeginDraftSave(r, i, y)
  BY <1>1, <1>3, <1>4
<1>5. CASE \E i \in Invoice, n \in Number : BeginImport(r, i, n)
  BY <1>2, <1>5
<1> QED
  BY <1>4, <1>5 DEF Begin

\* It changes nothing else.
LEMMA BeginKeeps ==
  ASSUME TypeOK, NEW r \in Request, Begin(r)
  PROVE  UNCHANGED <<number, series, lock, disturbed>> /\ req[r] = Idle
BY BeginOpens DEF Open

\* The session that holds a fresh number is well formed; the rest of it stays.
LEMMA AllocatedType ==
  ASSUME NEW q \in Session, NEW s \in Series, NEW n \in Number
  PROVE  /\ Allocated(q, s, n) \in Session
         /\ Allocated(q, s, n).op = q.op
         /\ Allocated(q, s, n).number = n
         /\ Allocated(q, s, n).snapshot = q.snapshot
         /\ Allocated(q, s, n).invoice = q.invoice
<1> DEFINE row == [counter |-> n.counter, year |-> n.year]
           rows == [q.rows EXCEPT ![s] = row]
           dirty == [q.dirty EXCEPT ![s] = q.dirty[s] \cup ChangedFields(q.rows[s], row)]
<1>1. row \in SeriesRow
  BY NumberingAssumption DEF Number, SeriesRow
<1>2. rows \in [Series -> SeriesRow]
  BY <1>1 DEF Session
<1>3. ChangedFields(q.rows[s], row) \subseteq {"counter", "year"}
  BY DEF ChangedFields
<1>4. dirty \in [Series -> SUBSET {"counter", "year"}]
  BY <1>3 DEF Session
<1>5. Allocated(q, s, n) = [q EXCEPT !.number = n, !.rows = rows, !.dirty = dirty]
  BY DEF Allocated
<1> HIDE DEF rows, dirty
<1> QED
  BY <1>2, <1>4, <1>5 DEF Session

\* What LockAndAllocate does, spelled out.
LEMMA LockAndAllocateStep ==
  ASSUME TypeOK, NEW r \in Request, NEW s \in Series, LockAndAllocate(r, s)
  PROVE  /\ req[r] \in Session
         /\ \E n \in Number :
              /\ FreeFor(req[r].snapshot, req[r].invoice, n)
              /\ req' = [req EXCEPT ![r] = Allocated(req[r], s, n)]
<1>1. req[r] \in Session
  BY DEF LockAndAllocate, TypeOK
<1>2. PICK n \in NextNumbers(req[r].snapshot, req[r].rows, req[r].invoice, s, req[r].year) :
        req' = [req EXCEPT ![r] = Allocated(req[r], s, n)]
  BY DEF LockAndAllocate
<1>3. /\ req[r].snapshot \in [Invoice -> Number \cup Drafts \cup {Absent}]
      /\ req[r].rows \in [Series -> SeriesRow]
      /\ req[r].invoice \in Invoice
      /\ req[r].year \in Year
  BY <1>1 DEF Session
<1>4. n \in Number /\ FreeFor(req[r].snapshot, req[r].invoice, n)
  BY <1>2, <1>3, NextNumbersFree
<1> QED
  BY <1>1, <1>2, <1>4

\* What a commit writes is well formed.
LEMMA CommitType ==
  ASSUME TypeOK, NEW r \in Request, Commit(r)
  PROVE  /\ req[r] \in Session
         /\ SavedNumber(req[r]) \in Number \cup Drafts \cup {Absent}
         /\ series' \in [Series -> [counter : 0..MaxCounter, year : Year]]
<1>1. req[r] \in Session
  BY DEF Commit, CanFlush, AtFlush, TypeOK
<1>2. SavedNumber(req[r]) \in Number \cup Drafts \cup {Absent}
  BY <1>1, DraftsAreNotNumbers DEF SavedNumber, TypeOK, Session
<1>3. ASSUME NEW s \in Series
      PROVE  WrittenRow(req[r], s) \in [counter : 0..MaxCounter, year : Year]
  <2>1. /\ series[s] \in [counter : 0..MaxCounter, year : Year]
        /\ req[r].rows[s] \in SeriesRow
    BY <1>1 DEF TypeOK, Session
  <2>2. "counter" \in req[r].dirty[s] => req[r].rows[s].counter <= MaxCounter
    BY DEF Commit, DatabaseAccepts
  <2>3. req[r].rows[s].counter \in Nat
    BY <2>1, NumberingAssumption DEF SeriesRow
  <2>4. MaxCounter \in Nat
    BY NumberingAssumption
  <2> QED
    BY <2>1, <2>2, <2>3, <2>4 DEF WrittenRow, SeriesRow
<1> QED
  BY <1>1, <1>2, <1>3 DEF Commit

LEMMA CloseType ==
  ASSUME TypeOK, NEW r \in Request, Close(r)
  PROVE  /\ req' \in [Request -> Session \cup {Idle}]
         /\ lock' \in [Series -> Request \cup {Nobody}]
BY DEF Close, TypeOK

-----------------------------------------------------------------------------
(* Type correctness *)

LEMMA InitType == Init => TypeOK
<1> SUFFICES ASSUME Init PROVE TypeOK
  OBVIOUS
<1>1. [counter : {0}, year : Year] \subseteq [counter : 0..MaxCounter, year : Year]
  BY NumberingAssumption
<1>2. series \in [Series -> [counter : 0..MaxCounter, year : Year]]
  BY <1>1 DEF Init
<1> QED
  BY <1>2 DEF Init, TypeOK

LEMMA TypePreserved == TypeOK /\ [Next]_vars => TypeOK'
<1> SUFFICES ASSUME TypeOK, [Next]_vars PROVE TypeOK'
  OBVIOUS
<1>1. ASSUME NEW r \in Request, Begin(r)
      PROVE  TypeOK'
  <2>1. PICK op \in {"issue", "save", "import"}, i \in Invoice, y \in Year,
             n \in Number \cup Drafts, rows \in [Series -> SeriesRow] :
               Open(r, op, i, y, n, rows) /\ (op = "issue" => n \in Drafts)
    BY <1>1, BeginOpens
  <2>2. req' \in [Request -> Session \cup {Idle}]
    BY <2>1, OpenType
  <2> QED
    BY <1>1, <2>2, BeginKeeps DEF TypeOK
<1>2. ASSUME NEW r \in Request, NEW s \in Series, LockAndAllocate(r, s)
      PROVE  TypeOK'
  <2>1. req[r] \in Session
    BY <1>2, LockAndAllocateStep
  <2>2. PICK n \in Number : req' = [req EXCEPT ![r] = Allocated(req[r], s, n)]
    BY <1>2, LockAndAllocateStep
  <2>3. Allocated(req[r], s, n) \in Session
    BY <2>1, AllocatedType
  <2>4. req' \in [Request -> Session \cup {Idle}]
    BY <2>2, <2>3 DEF TypeOK
  <2> QED
    BY <1>2, <2>4 DEF LockAndAllocate, TypeOK
<1>3. ASSUME NEW r \in Request, NEW s \in Series, AllocationFails(r, s)
      PROVE  TypeOK'
  BY <1>3, CloseType DEF AllocationFails, TypeOK
<1>4. ASSUME NEW r \in Request, Commit(r)
      PROVE  TypeOK'
  <2>1. /\ req[r] \in Session
        /\ SavedNumber(req[r]) \in Number \cup Drafts \cup {Absent}
        /\ series' \in [Series -> [counter : 0..MaxCounter, year : Year]]
    BY <1>4, CommitType
  <2>2. number' \in [Invoice -> Number \cup Drafts \cup {Absent}]
    BY <1>4, <2>1 DEF Commit, TypeOK
  <2>3. Close(r) /\ disturbed' \in BOOLEAN
    BY <1>4 DEF Commit, TypeOK
  <2> QED
    BY <2>1, <2>2, <2>3, CloseType DEF TypeOK
<1>5. ASSUME NEW r \in Request, CommitRefused(r) \/ DeadlockEnds(r) \/ Abandon(r)
      PROVE  TypeOK'
  BY <1>5, CloseType DEF CommitRefused, DeadlockEnds, Abandon, TypeOK
<1>6. ASSUME NEW i \in Invoice, NEW y \in Year, RevertToDraft(i, y)
      PROVE  TypeOK'
  BY <1>6, DraftsAreNotNumbers DEF RevertToDraft, TypeOK
<1>7. ASSUME NEW i \in Invoice, Delete(i)
      PROVE  TypeOK'
  BY <1>7 DEF Delete, TypeOK
<1>8. CASE UNCHANGED vars
  BY <1>8 DEF vars, TypeOK
<1> QED
  BY <1>1, <1>2, <1>3, <1>4, <1>5, <1>6, <1>7, <1>8 DEF Next, Work

\* Type correctness of the numbering: in particular a stored counter never
\* exceeds the limit of its column and every number given out is well formed.
THEOREM TypeCorrect == Spec => []TypeOK
<1>1. TypeOK /\ [Next]_vars => TypeOK'
  BY TypePreserved
<1> QED
  BY InitType, <1>1, PTL DEF Spec

-----------------------------------------------------------------------------
(* Final numbers are unique *)

LEMMA UniquePreserved == TypeOK /\ NumbersUnique /\ [Next]_vars => NumbersUnique'
<1> SUFFICES ASSUME TypeOK, NumbersUnique, [Next]_vars PROVE NumbersUnique'
  OBVIOUS
<1>1. CASE UNCHANGED number
  BY <1>1 DEF NumbersUnique
<1>2. ASSUME NEW r \in Request, Commit(r)
      PROVE  NumbersUnique'
  <2> DEFINE i == req[r].invoice
             v == SavedNumber(req[r])
  <2>1. req[r] \in Session
    BY <1>2, CommitType
  <2>2. i \in Invoice /\ number' = [number EXCEPT ![i] = v]
    BY <1>2, <2>1 DEF Commit, Session
  <2>3. v \in Number => FreeFor(number, i, v)
    <3>1. CASE req[r].op \in {"issue", "import"}
      BY <1>2, <3>1 DEF Commit, DatabaseAccepts, UniqueKeyAccepts, SavedNumber
    <3>2. CASE req[r].op \notin {"issue", "import"}
      <4>1. v \in Number => v = number[i]
        BY <3>2, <2>1, DraftsAreNotNumbers DEF SavedNumber, Session
      <4> QED
        BY <2>2, <4>1 DEF NumbersUnique, FreeFor
    <3> QED
      BY <3>1, <3>2
  <2> HIDE DEF i, v
  <2> QED
    BY <2>2, <2>3 DEF NumbersUnique, FreeFor, TypeOK
<1>3. ASSUME NEW i \in Invoice, NEW y \in Year, RevertToDraft(i, y)
      PROVE  NumbersUnique'
  BY <1>3, DraftsAreNotNumbers DEF RevertToDraft, NumbersUnique, TypeOK
<1>4. ASSUME NEW i \in Invoice, Delete(i)
      PROVE  NumbersUnique'
  BY <1>4, NumberingAssumption DEF Delete, NumbersUnique, TypeOK
<1>5. ASSUME NEW r \in Request, Begin(r)
      PROVE  UNCHANGED number
  BY <1>5, BeginKeeps
<1>6. ASSUME NEW r \in Request, NEW s \in Series, LockAndAllocate(r, s) \/ AllocationFails(r, s)
      PROVE  UNCHANGED number
  BY <1>6 DEF LockAndAllocate, AllocationFails
<1>7. ASSUME NEW r \in Request, CommitRefused(r) \/ DeadlockEnds(r) \/ Abandon(r)
      PROVE  UNCHANGED number
  BY <1>7 DEF CommitRefused, DeadlockEnds, Abandon
<1>8. UNCHANGED vars => UNCHANGED number
  BY DEF vars
<1> QED
  BY <1>1, <1>2, <1>3, <1>4, <1>5, <1>6, <1>7, <1>8 DEF Next, Work

\* Two documents of a subject never carry the same final number.
THEOREM UniqueNumbers == Spec => []NumbersUnique
<1>1. Init => NumbersUnique
  BY NumberingAssumption DEF Init, NumbersUnique
<1>2. TypeOK /\ NumbersUnique /\ [Next]_vars => NumbersUnique'
  BY UniquePreserved
<1> QED
  BY <1>1, <1>2, TypeCorrect, PTL DEF Spec

-----------------------------------------------------------------------------
(* The lock of a series row *)

LEMMA LockPreserved ==
  TypeOK /\ LockHolderHasNumber /\ [Next]_vars => LockHolderHasNumber'
<1> SUFFICES ASSUME TypeOK, LockHolderHasNumber, [Next]_vars PROVE LockHolderHasNumber'
  OBVIOUS
<1>1. CASE UNCHANGED <<req, lock>>
  BY <1>1 DEF LockHolderHasNumber
<1>2. ASSUME NEW r \in Request, Close(r)
      PROVE  LockHolderHasNumber'
  BY <1>2, NumberingAssumption DEF Close, LockHolderHasNumber, TypeOK
<1>3. ASSUME NEW r \in Request, Begin(r)
      PROVE  LockHolderHasNumber'
  <2>1. PICK op \in {"issue", "save", "import"}, i \in Invoice, y \in Year,
             n \in Number \cup Drafts, rows \in [Series -> SeriesRow] :
               Open(r, op, i, y, n, rows) /\ (op = "issue" => n \in Drafts)
    BY <1>3, BeginOpens
  <2>2. /\ \A t \in Request \ {r} : req'[t] = req[t]
        /\ req[r] = Idle
        /\ lock' = lock
    BY <2>1, OpenType DEF Open
  <2> QED
    BY <2>2 DEF LockHolderHasNumber, TypeOK
<1>4. ASSUME NEW r \in Request, NEW s \in Series, LockAndAllocate(r, s)
      PROVE  LockHolderHasNumber'
  <2>1. req[r] \in Session
    BY <1>4, LockAndAllocateStep
  <2>2. PICK n \in Number : req' = [req EXCEPT ![r] = Allocated(req[r], s, n)]
    BY <1>4, LockAndAllocateStep
  <2>3. /\ req'[r] \in Session
        /\ req'[r].number = n
        /\ \A t \in Request \ {r} : req'[t] = req[t]
    BY <2>1, <2>2, AllocatedType DEF TypeOK
  <2>4. \A t \in Series : lock[t] # r
    BY <1>4, NumberingAssumption DEF LockAndAllocate, LockHolderHasNumber
  <2>5. lock' = [lock EXCEPT ![s] = r]
    BY <1>4 DEF LockAndAllocate
  <2> QED
    BY <2>3, <2>4, <2>5, IdleIsNoSession, NumberingAssumption DEF LockHolderHasNumber, TypeOK
<1>5. ASSUME NEW r \in Request,
             \/ \E s \in Series : AllocationFails(r, s)
             \/ Commit(r) \/ CommitRefused(r) \/ DeadlockEnds(r) \/ Abandon(r)
      PROVE  Close(r)
  BY <1>5 DEF AllocationFails, Commit, CommitRefused, DeadlockEnds, Abandon
<1>6. ASSUME NEW i \in Invoice,
             \/ \E y \in Year : RevertToDraft(i, y)
             \/ Delete(i)
      PROVE  UNCHANGED <<req, lock>>
  BY <1>6 DEF RevertToDraft, Delete
<1>7. UNCHANGED vars => UNCHANGED <<req, lock>>
  BY DEF vars
<1> QED
  BY <1>1, <1>2, <1>3, <1>4, <1>5, <1>6, <1>7 DEF Next, Work

\* Whoever holds the lock of a series row has a number to write, and holds no other
\* series: a request that waits for a lock has none, so that a circle can only be
\* closed by the rows which a flush writes besides (DeadlockEnds).
THEOREM LockDiscipline == Spec => []LockHolderHasNumber
<1>1. Init => LockHolderHasNumber
  BY NumberingAssumption DEF Init, LockHolderHasNumber
<1>2. TypeOK /\ LockHolderHasNumber /\ [Next]_vars => LockHolderHasNumber'
  BY LockPreserved
<1> QED
  BY <1>1, <1>2, TypeCorrect, PTL DEF Spec

-----------------------------------------------------------------------------
(* Who replaces a final number *)

\* A document that is not in the snapshot of a request is its own; who issues has
\* read a draft or nothing, and who imports has read nothing.
Owned ==
  \A r \in Request : req[r] # Idle =>
    /\ req[r].op = "issue" => req[r].snapshot[req[r].invoice] \notin Number
    /\ req[r].op = "import" => req[r].snapshot[req[r].invoice] = Absent
    /\ req[r].snapshot[req[r].invoice] = Absent =>
         /\ number[req[r].invoice] = Absent
         /\ \A q \in Request \ {r} : req[q] # Idle => req[q].invoice # req[r].invoice

LEMMA BeginReads ==
  ASSUME TypeOK, NEW r \in Request, Begin(r)
  PROVE  \E op \in {"issue", "save", "import"}, i \in Invoice, y \in Year,
            n \in Number \cup Drafts, rows \in [Series -> SeriesRow] :
           /\ Open(r, op, i, y, n, rows)
           /\ op = "issue" => number[i] \in Drafts \cup {Absent}
           /\ op = "import" => number[i] = Absent
<1>1. ASSUME NEW i \in Invoice, NEW y \in Year, BeginIssue(r, i, y) \/ BeginEditorIssue(r, i, y)
      PROVE  /\ number[i] \in Drafts \cup {Absent}
             /\ \E rows \in [Series -> SeriesRow] : Open(r, "issue", i, y, Draft(y), rows)
  <2>1. series \in [Series -> SeriesRow] /\ SyncedRows(y) \in [Series -> SeriesRow]
    BY SeriesRows, SyncedRowsType
  <2>2. Draft(y) \in Drafts
    BY DEF Drafts
  <2>3. number[i] \in Drafts \cup {Absent}
    BY <1>1, <2>2 DEF BeginIssue, BeginEditorIssue
  <2>4. CASE BeginIssue(r, i, y)
    BY <2>1, <2>3, <2>4 DEF BeginIssue
  <2>5. CASE BeginEditorIssue(r, i, y)
    BY <2>1, <2>3, <2>5 DEF BeginEditorIssue
  <2> QED
    BY <1>1, <2>4, <2>5
<1>2. ASSUME NEW i \in Invoice, NEW y \in Year, BeginSave(r, i, y) \/ BeginDraftSave(r, i, y)
      PROVE  \E rows \in [Series -> SeriesRow] : Open(r, "save", i, y, Draft(y), rows)
  BY <1>2, SeriesRows, SyncedRowsType DEF BeginSave, BeginDraftSave
<1>3. ASSUME NEW i \in Invoice, NEW n \in Number, BeginImport(r, i, n)
      PROVE  /\ number[i] = Absent /\ n.year \in Year
             /\ \E rows \in [Series -> SeriesRow] : Open(r, "import", i, n.year, n, rows)
  <2>1. [number EXCEPT ![i] = n] \in [Invoice -> Number \cup Drafts \cup {Absent}]
    BY DEF TypeOK
  <2>2. n.year \in Year
    BY DEF Number
  <2> QED
    BY <1>3, <2>1, <2>2, ReconciledRowsType DEF BeginImport
<1>4. \A y \in Year : Draft(y) \in Number \cup Drafts
  BY DEF Drafts
<1>5. PICK i \in Invoice :
        \/ \E y \in Year : \/ BeginIssue(r, i, y) \/ BeginEditorIssue(r, i, y)
                          \/ BeginSave(r, i, y) \/ BeginDraftSave(r, i, y)
        \/ \E n \in Number : BeginImport(r, i, n)
  BY DEF Begin
<1>6. CASE \E y \in Year : BeginIssue(r, i, y) \/ BeginEditorIssue(r, i, y)
  BY <1>1, <1>4, <1>6
<1>7. CASE \E y \in Year : BeginSave(r, i, y) \/ BeginDraftSave(r, i, y)
  BY <1>2, <1>4, <1>7
<1>8. CASE \E n \in Number : BeginImport(r, i, n)
  BY <1>3, <1>8
<1> QED
  BY <1>5, <1>6, <1>7, <1>8

LEMMA OwnedOpens ==
  ASSUME TypeOK, Owned, NEW r \in Request, NEW op \in {"issue", "save", "import"},
         NEW i \in Invoice, NEW y \in Year, NEW n \in Number \cup Drafts,
         NEW rows \in [Series -> SeriesRow], Open(r, op, i, y, n, rows),
         op = "issue" => number[i] \in Drafts \cup {Absent},
         op = "import" => number[i] = Absent
  PROVE  Owned'
<1>1. /\ req[r] = Idle /\ Usable(i) /\ UNCHANGED number
      /\ req'[r].op = op /\ req'[r].invoice = i /\ req'[r].snapshot = number
      /\ \A q \in Request \ {r} : req'[q] = req[q]
  BY DEF Open, TypeOK
<1>2. op = "issue" => number[i] \notin Number
  BY DraftsAreNotNumbers, NumberingAssumption
<1>3. ASSUME NEW q \in Request, req'[q] # Idle, number[i] = Absent, q # r
      PROVE  req'[q].invoice # i
  BY <1>1, <1>3 DEF Usable
<1>4. ASSUME NEW q \in Request \ {r}, req[q] # Idle, req[q].snapshot[req[q].invoice] = Absent
      PROVE  req[q].invoice # i
  <2>1. number[req[q].invoice] = Absent
    BY <1>4 DEF Owned
  <2> QED
    BY <1>1, <1>4, <2>1 DEF Usable
<1> SUFFICES ASSUME NEW q \in Request, req'[q] # Idle
             PROVE  /\ req'[q].op = "issue" => req'[q].snapshot[req'[q].invoice] \notin Number
                    /\ req'[q].op = "import" => req'[q].snapshot[req'[q].invoice] = Absent
                    /\ req'[q].snapshot[req'[q].invoice] = Absent =>
                         /\ number'[req'[q].invoice] = Absent
                         /\ \A p \in Request \ {q} : req'[p] # Idle => req'[p].invoice # req'[q].invoice
  BY DEF Owned
<1>5. CASE q = r
  BY <1>1, <1>2, <1>3, <1>5
<1>6. CASE q # r
  <2>1. req'[q] = req[q]
    BY <1>1, <1>6
  <2>2. ASSUME req[q].snapshot[req[q].invoice] = Absent, NEW p \in Request \ {q}, req'[p] # Idle
        PROVE  req'[p].invoice # req[q].invoice
    BY <1>1, <1>4, <1>6, <2>1, <2>2 DEF Owned
  <2> QED
    BY <1>1, <1>6, <2>1, <2>2 DEF Owned
<1> QED
  BY <1>5, <1>6

LEMMA OwnedPreserved == TypeOK /\ Owned /\ [Next]_vars => Owned'
<1> SUFFICES ASSUME TypeOK, Owned, [Next]_vars PROVE Owned'
  OBVIOUS
<1>1. ASSUME NEW r \in Request, Begin(r) PROVE Owned'
  <2>1. PICK op \in {"issue", "save", "import"}, i \in Invoice, y \in Year,
             n \in Number \cup Drafts, rows \in [Series -> SeriesRow] :
               /\ Open(r, op, i, y, n, rows)
               /\ op = "issue" => number[i] \in Drafts \cup {Absent}
               /\ op = "import" => number[i] = Absent
    BY <1>1, BeginReads
  <2> QED
    BY <2>1, OwnedOpens
<1>2. ASSUME NEW r \in Request, NEW s \in Series, LockAndAllocate(r, s) PROVE Owned'
  <2>1. req[r] \in Session /\ req[r] # Idle
    BY <1>2, LockAndAllocateStep DEF LockAndAllocate
  <2>2. PICK n \in Number : req' = [req EXCEPT ![r] = Allocated(req[r], s, n)]
    BY <1>2, LockAndAllocateStep
  <2>3. \A q \in Request : /\ req'[q] # Idle => req[q] # Idle
                           /\ req'[q].op = req[q].op
                           /\ req'[q].snapshot = req[q].snapshot
                           /\ req'[q].invoice = req[q].invoice
    BY <2>1, <2>2, AllocatedType DEF TypeOK
  <2>4. number' = number
    BY <1>2 DEF LockAndAllocate
  <2> QED
    BY <2>3, <2>4 DEF Owned
<1>3. ASSUME NEW r \in Request, Close(r), UNCHANGED number PROVE Owned'
  BY <1>3 DEF Close, Owned, TypeOK
<1>4. ASSUME NEW r \in Request, Commit(r) PROVE Owned'
  <2>1. /\ req[r] # Idle /\ req' = [req EXCEPT ![r] = Idle]
        /\ number' = [number EXCEPT ![req[r].invoice] = SavedNumber(req[r])]
    BY <1>4 DEF Commit, CanFlush, AtFlush, Close
  <2>2. \A q \in Request : req'[q] # Idle => q # r /\ req'[q] = req[q] /\ req[q] # Idle
    BY <2>1 DEF TypeOK
  <2>3. ASSUME NEW q \in Request \ {r}, req[q] # Idle, req[q].snapshot[req[q].invoice] = Absent
        PROVE  number'[req[q].invoice] = number[req[q].invoice]
    <3>1. req[r].invoice # req[q].invoice
      BY <2>1, <2>3 DEF Owned
    <3>2. req[q].invoice \in Invoice
      BY <2>3 DEF TypeOK, Session
    <3> QED
      BY <2>1, <3>1, <3>2 DEF TypeOK
  <2> QED
    BY <2>2, <2>3 DEF Owned
<1>5. ASSUME NEW i \in Invoice, number[i] # Absent, UNCHANGED req,
             \A j \in Invoice \ {i} : number'[j] = number[j]
      PROVE  Owned'
  <2>1. ASSUME NEW r \in Request, req[r] # Idle, req[r].snapshot[req[r].invoice] = Absent
        PROVE  number'[req[r].invoice] = Absent
    BY <1>5, <2>1 DEF Owned, TypeOK, Session
  <2> QED
    BY <1>5, <2>1 DEF Owned
<1>6. ASSUME NEW i \in Invoice, NEW y \in Year, RevertToDraft(i, y) PROVE Owned'
  <2>1. /\ number[i] # Absent /\ UNCHANGED req
        /\ \A j \in Invoice \ {i} : number'[j] = number[j]
    BY <1>6, NumberingAssumption DEF RevertToDraft, TypeOK
  <2> QED
    BY <1>5, <2>1
<1>7. ASSUME NEW i \in Invoice, Delete(i) PROVE Owned'
  <2>1. /\ number[i] # Absent /\ UNCHANGED req
        /\ \A j \in Invoice \ {i} : number'[j] = number[j]
    BY <1>7 DEF Delete, TypeOK
  <2> QED
    BY <1>5, <2>1
<1>8. ASSUME NEW r \in Request,
             \/ \E s \in Series : AllocationFails(r, s)
             \/ CommitRefused(r) \/ DeadlockEnds(r) \/ Abandon(r)
      PROVE  Close(r) /\ UNCHANGED number
  BY <1>8 DEF AllocationFails, CommitRefused, DeadlockEnds, Abandon
<1>9. CASE UNCHANGED vars
  BY <1>9 DEF vars, Owned
<1> QED
  BY <1>1, <1>2, <1>3, <1>4, <1>6, <1>7, <1>8, <1>9 DEF Next, Work

\* A final number is replaced only by a request to issue that has read the document as
\* a draft, so never by one that begins after the number was given: the refusal of the
\* issue button holds for handlers in turn, and what the run renumbering finds is all
\* that overlapping ones can do to it.
THEOREM OnlyStaleIssuesReplace == Spec => ReplacedBehindItsBack
<1>1. Init => Owned
  BY DEF Init, Owned
<1>2. ASSUME TypeOK, Owned, [Next]_vars
      PROVE  [\A i \in Invoice :
                number[i] \in Number /\ number'[i] \in Number /\ number'[i] # number[i]
                  => \E r \in Request : /\ req[r] # Idle /\ req'[r] = Idle
                                        /\ req[r].op = "issue" /\ req[r].invoice = i
                                        /\ req[r].snapshot[i] \in Drafts]_vars
  <2> SUFFICES ASSUME Next, NEW i \in Invoice, number[i] \in Number, number'[i] \in Number,
                      number'[i] # number[i]
               PROVE  \E r \in Request : /\ req[r] # Idle /\ req'[r] = Idle
                                         /\ req[r].op = "issue" /\ req[r].invoice = i
                                         /\ req[r].snapshot[i] \in Drafts
    BY <1>2
  <2>1. ASSUME NEW r \in Request, Commit(r)
        PROVE  /\ req[r] # Idle /\ req'[r] = Idle
               /\ req[r].op = "issue" /\ req[r].invoice = i
               /\ req[r].snapshot[i] \in Drafts
    <3>1. /\ req[r] # Idle /\ req' = [req EXCEPT ![r] = Idle]
          /\ number' = [number EXCEPT ![req[r].invoice] = SavedNumber(req[r])]
      BY <2>1 DEF Commit, CanFlush, AtFlush, Close
    <3>2. req[r] \in Session /\ req'[r] = Idle
      BY <1>2, <3>1 DEF TypeOK
    <3>3. req[r].invoice = i /\ SavedNumber(req[r]) = number'[i]
      BY <1>2, <3>1, <3>2 DEF TypeOK, Session
    <3>4. req[r].op # "save"
      <4> SUFFICES ASSUME req[r].op = "save" PROVE FALSE
        OBVIOUS
      <4>1. SavedNumber(req[r]) = number[i]
        BY <3>3 DEF SavedNumber
      <4> QED
        BY <3>3, <4>1
    <3>5. number[i] # Absent
      BY NumberingAssumption
    <3>6. req[r].snapshot[i] # Absent
      BY <1>2, <3>1, <3>3, <3>5 DEF Owned
    <3>7. req[r].op # "import"
      BY <1>2, <3>1, <3>3, <3>6 DEF Owned
    <3>8. req[r].op = "issue"
      BY <3>2, <3>4, <3>7 DEF Session
    <3>9. req[r].snapshot[i] \in Number \cup Drafts \cup {Absent}
      BY <3>2 DEF Session
    <3>10. req[r].snapshot[i] \notin Number
      BY <1>2, <3>1, <3>3, <3>8 DEF Owned
    <3> QED
      BY <3>1, <3>2, <3>3, <3>6, <3>8, <3>9, <3>10
  <2>2. ASSUME NEW r \in Request, Begin(r) PROVE FALSE
    BY <1>2, <2>2, BeginKeeps
  <2>3. ASSUME NEW r \in Request, NEW s \in Series, LockAndAllocate(r, s) \/ AllocationFails(r, s)
        PROVE  FALSE
    BY <2>3 DEF LockAndAllocate, AllocationFails
  <2>4. ASSUME NEW r \in Request, CommitRefused(r) \/ DeadlockEnds(r) \/ Abandon(r)
        PROVE  FALSE
    BY <2>4 DEF CommitRefused, DeadlockEnds, Abandon
  <2>5. ASSUME NEW j \in Invoice, NEW y \in Year, RevertToDraft(j, y) PROVE FALSE
    <3>1. number' = [number EXCEPT ![j] = Draft(y)] /\ Draft(y) \notin Number
      BY <2>5, DraftsAreNotNumbers DEF RevertToDraft, Drafts
    <3> QED
      BY <1>2, <3>1 DEF TypeOK
  <2>6. ASSUME NEW j \in Invoice, Delete(j) PROVE FALSE
    <3>1. number' = [number EXCEPT ![j] = Absent] /\ Absent \notin Number
      BY <2>6, NumberingAssumption DEF Delete
    <3> QED
      BY <1>2, <3>1 DEF TypeOK
  <2> QED
    BY <2>1, <2>2, <2>3, <2>4, <2>5, <2>6 DEF Next, Work
<1> QED
  BY <1>1, <1>2, OwnedPreserved, TypeCorrect, PTL DEF Spec, ReplacedBehindItsBack

-----------------------------------------------------------------------------
(* Numbers without a hole *)

\* The maximum that is observed is one of the counters, and none is above it.
LEMMA ObservedIsMax ==
  ASSUME NEW numbers \in [Invoice -> Number \cup Drafts \cup {Absent}],
         NEW s \in Series, NEW y \in Year
  PROVE  /\ Observed(numbers, s, y) \in Nat
         /\ \A c \in CountersOf(numbers, s, y) : c \in Nat \ {0} /\ c <= Observed(numbers, s, y)
         /\ Observed(numbers, s, y) # 0 => Observed(numbers, s, y) \in CountersOf(numbers, s, y)
<1> DEFINE C == CountersOf(numbers, s, y)
<1>1. MaxImported \in Nat
  BY NumberingAssumption
<1>2. C \subseteq 0..MaxImported /\ C \subseteq Nat \ {0}
  BY DEF CountersOf, Number
<1>3. CASE C = {}
  BY <1>3 DEF Observed
<1>4. CASE C # {}
  <2>1. \E x \in C : \A z \in C : x >= z
    BY <1>1, <1>2, <1>4, MaxExists
  <2>2. Max(C) \in C /\ \A z \in C : Max(C) >= z
    BY <2>1 DEF Max
  <2>3. Observed(numbers, s, y) = Max(C)
    BY <1>4 DEF Observed
  <2> HIDE DEF C
  <2>4. Max(C) \in Nat /\ \A z \in C : z \in Nat
    BY <1>2, <2>2
  <2> QED
    BY <1>2, <2>2, <2>3, <2>4 DEF C
<1> QED
  BY <1>3, <1>4

\* Who has more numbers has no smaller maximum.
LEMMA ObservedGrows ==
  ASSUME NEW a \in [Invoice -> Number \cup Drafts \cup {Absent}],
         NEW b \in [Invoice -> Number \cup Drafts \cup {Absent}],
         \A i \in Invoice : a[i] \in Number => b[i] = a[i],
         NEW s \in Series, NEW y \in Year
  PROVE  /\ CountersOf(a, s, y) \subseteq CountersOf(b, s, y)
         /\ Observed(a, s, y) <= Observed(b, s, y)
<1>1. CountersOf(a, s, y) \subseteq CountersOf(b, s, y)
  BY DEF CountersOf
<1>2. PICK m, n : m = Observed(a, s, y) /\ n = Observed(b, s, y)
  OBVIOUS
<1>3. m \in Nat /\ n \in Nat
  BY <1>2, ObservedIsMax
<1>4. m # 0 => m \in CountersOf(b, s, y)
  BY <1>1, <1>2, ObservedIsMax
<1>5. \A c \in CountersOf(b, s, y) : c <= n
  BY <1>2, ObservedIsMax
<1>6. m <= n
  BY <1>3, <1>4, <1>5
<1> QED
  BY <1>1, <1>2, <1>6

\* The counter of a row is no larger than what the documents of its year show.
Behind(row, numbers, s) == row.counter <= Observed(numbers, s, row.year)

\* The row shows the number that the session is about to write.
Shows(row, n, s) ==
  n \in Number /\ row = [counter |-> n.counter, year |-> n.year] /\ n.prefix = Prefix[s]

\* The next number after those of a snapshot.
Follows(n, numbers) ==
  \E s \in Series : n.prefix = Prefix[s] /\ n.counter = Observed(numbers, s, n.year) + 1

\* What is true of a session that imports nothing, as long as the numbering is not
\* disturbed: the numbers of its snapshot are still there, its rows are no further
\* than the snapshot and its own number, and that is the next one of the snapshot.
SessionOK(q) ==
  /\ \A i \in Invoice : q.snapshot[i] \in Number => number[i] = q.snapshot[i]
  /\ \A s \in Series : Behind(q.rows[s], q.snapshot, s) \/ Shows(q.rows[s], q.number, s)
  /\ q.op = "save" => q.number \notin Number
  /\ q.number \in Number => Follows(q.number, q.snapshot)

GaplessInv ==
  ~disturbed =>
    /\ Gapless
    /\ \A s \in Series : Behind(series[s], number, s)
    /\ \A r \in Request : req[r] # Idle /\ req[r].op # "import" => SessionOK(req[r])

\* When the row is not ahead, the number that is allocated is the next one.
LEMMA NextNumbersFollow ==
  ASSUME NEW numbers \in [Invoice -> Number \cup Drafts \cup {Absent}],
         NEW rows \in [Series -> SeriesRow],
         NEW i \in Invoice, NEW s \in Series, NEW y \in Year,
         Behind(rows[s], numbers, s),
         NEW n \in NextNumbers(numbers, rows, i, s, y)
  PROVE  n = NumberOf(s, y, Observed(numbers, s, y) + 1)
<1> DEFINE row  == SyncedRow(rows[s], Observed(numbers, s, y), y)
           base == CurrentCounter(row, y)
<1>1. PICK max : max = Observed(numbers, s, y)
  OBVIOUS
<1>2. max \in Nat /\ \A c \in CountersOf(numbers, s, y) : c \in Nat /\ c <= max
  BY <1>1, ObservedIsMax
<1>3. base = max
  <2>1. rows[s].year = y => rows[s].counter <= max
    BY <1>1 DEF Behind
  <2>2. rows[s] \in SeriesRow
    OBVIOUS
  <2>3. rows[s].counter \in Nat
    BY <2>2, NumberingAssumption DEF SeriesRow
  <2> QED
    BY <1>1, <1>2, <2>1, <2>3 DEF SyncedRow, CurrentCounter
<1>4. PICK d \in base + 1 .. base + MaxTries :
        /\ n = NumberOf(s, y, d)
        /\ \A e \in base + 1 .. d - 1 : ~FreeFor(numbers, i, NumberOf(s, y, e))
  BY DEF NextNumbers
<1> HIDE DEF base
<1>5. max + 1 \notin CountersOf(numbers, s, y)
  BY <1>2
<1>6. MaxTries \in Nat /\ d \in Nat /\ d >= max + 1
  BY <1>2, <1>3, <1>4, NumberingAssumption
<1>7. CASE d = max + 1
  BY <1>1, <1>4, <1>7
<1>8. CASE d # max + 1
  <2>1. max + 1 \in base + 1 .. d - 1
    BY <1>2, <1>3, <1>6, <1>8
  <2>2. ~FreeFor(numbers, i, NumberOf(s, y, max + 1))
    BY <1>4, <2>1
  <2>3. PICK j \in Invoice : numbers[j] = NumberOf(s, y, max + 1)
    BY <2>2 DEF FreeFor
  <2>4. numbers[j] \in Number
    <3>1. numbers[j] # Absent /\ numbers[j] \notin Drafts
      <4>1. DOMAIN NumberOf(s, y, max + 1) = {"prefix", "year", "counter"}
        BY DEF NumberOf
      <4>2. \A z \in Drafts : DOMAIN z = {"issueYear"}
        BY DEF Drafts, Draft
      <4>3. n \in Number
        BY NextNumbersFree
      <4>4. max + 1 \in 1 .. MaxImported
        <5>1. d \in 1 .. MaxImported
          BY <1>4, <4>3 DEF NumberOf, Number
        <5> QED
          BY <1>2, <1>6, <5>1, NumberingAssumption
      <4>5. NumberOf(s, y, max + 1) \in Number
        BY <4>4 DEF NumberOf, Number
      <4> QED
        BY <2>3, <4>5, NumberingAssumption
    <3> QED
      BY <3>1
  <2>5. max + 1 \in CountersOf(numbers, s, y)
    BY <2>3, <2>4 DEF CountersOf, NumberOf
  <2> QED
    BY <1>5, <2>5
<1> QED
  BY <1>7, <1>8

\* What was behind the documents stays behind them.
LEMMA BehindStays ==
  ASSUME NEW a \in [Invoice -> Number \cup Drafts \cup {Absent}],
         NEW b \in [Invoice -> Number \cup Drafts \cup {Absent}],
         \A i \in Invoice : a[i] \in Number => b[i] = a[i],
         NEW s \in Series, NEW row \in SeriesRow, Behind(row, a, s)
  PROVE  Behind(row, b, s)
<1>1. row.year \in Year /\ row.counter \in Nat
  BY NumberingAssumption DEF SeriesRow
<1>2. PICK m, n : m = Observed(a, s, row.year) /\ n = Observed(b, s, row.year)
  OBVIOUS
<1>3. m \in Nat /\ n \in Nat /\ m <= n
  BY <1>1, <1>2, ObservedIsMax, ObservedGrows
<1> QED
  BY <1>1, <1>2, <1>3 DEF Behind

\* A session that has just begun.
LEMMA OpenSession ==
  ASSUME TypeOK, GaplessInv, ~disturbed, NEW r \in Request, Begin(r), req'[r].op # "import"
  PROVE  /\ SessionOK(req'[r])
         /\ \A t \in Request \ {r} : req'[t] = req[t]
<1>1. PICK op \in {"issue", "save", "import"}, i \in Invoice, y \in Year, rows \in [Series -> SeriesRow] :
        /\ Open(r, op, i, y, Draft(y), rows)
        /\ rows = series \/ rows = SyncedRows(y)
  <2>1. ASSUME NEW i \in Invoice, NEW n \in Number, BeginImport(r, i, n)
        PROVE  FALSE
    BY <2>1 DEF BeginImport, Open, TypeOK
  <2>2. PICK i \in Invoice, y \in Year : \/ BeginIssue(r, i, y) \/ BeginEditorIssue(r, i, y)
                                        \/ BeginSave(r, i, y) \/ BeginDraftSave(r, i, y)
    BY <2>1 DEF Begin
  <2>3. SyncedRows(y) \in [Series -> SeriesRow] /\ series \in [Series -> SeriesRow]
    BY SyncedRowsType, SeriesRows
  <2> QED
    BY <2>2, <2>3 DEF BeginIssue, BeginEditorIssue, BeginSave, BeginDraftSave
<1>2. /\ \A t \in Request \ {r} : req'[t] = req[t]
      /\ req'[r].snapshot = number /\ req'[r].rows = rows /\ req'[r].number = Draft(y)
  BY <1>1 DEF Open, TypeOK
<1>3. ASSUME NEW s \in Series PROVE Behind(rows[s], number, s)
  <2>1. Behind(series[s], number, s)
    BY DEF GaplessInv
  <2>2. CASE rows[s] = series[s]
    BY <2>1, <2>2
  <2>3. CASE rows[s] = [counter |-> Observed(number, s, y), year |-> y]
    <3>1. Observed(number, s, y) \in Nat
      BY ObservedIsMax DEF TypeOK
    <3>2. rows[s].counter = Observed(number, s, y) /\ rows[s].year = y
      BY <2>3
    <3> QED
      BY <3>1, <3>2 DEF Behind
  <2> QED
    BY <1>1, <2>2, <2>3 DEF SyncedRows, SyncedRow
<1>4. Draft(y) \notin Number
  BY DraftsAreNotNumbers
<1> QED
  BY <1>2, <1>3, <1>4 DEF SessionOK

\* A session that has just got its number.
LEMMA AllocatedSession ==
  ASSUME TypeOK, GaplessInv, ~disturbed, NEW r \in Request, NEW s \in Series,
         LockAndAllocate(r, s)
  PROVE  /\ SessionOK(req'[r])
         /\ \A t \in Request \ {r} : req'[t] = req[t]
<1>1. req[r] \in Session /\ req[r].op = "issue" /\ req[r].number \in Drafts /\ req[r] # Idle
  BY DEF LockAndAllocate, TypeOK
<1>2. PICK q \in Session : q = req[r]
  BY <1>1
<1>3. SessionOK(q)
  BY <1>1, <1>2 DEF GaplessInv
<1>4. PICK n \in NextNumbers(q.snapshot, q.rows, q.invoice, s, q.year) :
        req' = [req EXCEPT ![r] = Allocated(q, s, n)]
  BY <1>2 DEF LockAndAllocate
<1>5. /\ q.snapshot \in [Invoice -> Number \cup Drafts \cup {Absent}]
      /\ q.rows \in [Series -> SeriesRow] /\ q.invoice \in Invoice /\ q.year \in Year
  BY DEF Session
<1>6. q.number \notin Number
  BY <1>1, <1>2, NumberingAssumption
<1>7. \A t \in Series : Behind(q.rows[t], q.snapshot, t)
  BY <1>3, <1>6 DEF SessionOK, Shows
<1>8. n \in Number /\ n = NumberOf(s, q.year, Observed(q.snapshot, s, q.year) + 1)
  BY <1>4, <1>5, <1>7, NextNumbersFree, NextNumbersFollow
<1>9. n.prefix = Prefix[s] /\ n.year = q.year /\ n.counter = Observed(q.snapshot, s, n.year) + 1
  BY <1>8 DEF NumberOf
<1>10. PICK p : p = Allocated(q, s, n)
  OBVIOUS
<1>11. /\ p.snapshot = q.snapshot /\ p.number = n /\ p.op = q.op
       /\ p.rows = [q.rows EXCEPT ![s] = [counter |-> n.counter, year |-> n.year]]
  BY <1>8, <1>10 DEF Allocated, Session
<1>12. \A t \in Series : Behind(p.rows[t], q.snapshot, t) \/ Shows(p.rows[t], n, t)
  BY <1>5, <1>7, <1>8, <1>9, <1>11 DEF Shows
<1>13. Follows(n, q.snapshot)
  BY <1>9 DEF Follows
<1>14. p.op # "save"
  BY <1>1, <1>2, <1>11
<1>15. SessionOK(p)
  BY <1>3, <1>11, <1>12, <1>13, <1>14 DEF SessionOK
<1> QED
  BY <1>2, <1>4, <1>10, <1>15 DEF TypeOK

Numbers == [Invoice -> Number \cup Drafts \cup {Absent}]

\* The same final numbers, whatever the drafts are.
Alike(a, b) ==
  \A i \in Invoice : /\ a[i] \in Number => b[i] = a[i]
                     /\ b[i] \in Number => a[i] = b[i]

LEMMA AlikeObserved ==
  ASSUME NEW a, NEW b, Alike(a, b), NEW s, NEW y
  PROVE  CountersOf(a, s, y) = CountersOf(b, s, y) /\ Observed(a, s, y) = Observed(b, s, y)
<1>1. CountersOf(a, s, y) = CountersOf(b, s, y)
  BY DEF CountersOf, Alike
<1> QED
  BY <1>1 DEF Observed

\* A step that writes no final number and no row.
LEMMA GaplessQuiet ==
  ASSUME GaplessInv, ~disturbed, Alike(number, number'), UNCHANGED series,
         \A r \in Request : req'[r] # Idle /\ req'[r].op # "import" =>
           req'[r] = req[r] \/ SessionOK(req'[r])
  PROVE  GaplessInv'
<1>1. PICK now, next : now = number /\ next = number'
  OBVIOUS
<1>2. \A s, y : CountersOf(now, s, y) = CountersOf(next, s, y) /\ Observed(now, s, y) = Observed(next, s, y)
  BY <1>1, AlikeObserved
<1>3. Gapless
  BY DEF GaplessInv
<1>4. \A s \in Series, y \in Year : CountersOf(next, s, y) = 1 .. Observed(next, s, y)
  BY <1>1, <1>2, <1>3 DEF Gapless
<1>5. Gapless'
  BY <1>1, <1>4 DEF Gapless
<1>6. \A s \in Series : Behind(series[s], next, s)
  BY <1>1, <1>2 DEF GaplessInv, Behind
<1>7. \A s \in Series : Behind(series[s], number, s)'
  BY <1>1, <1>6 DEF Behind
<1>8. \A r \in Request : req'[r] # Idle /\ req'[r].op # "import" => SessionOK(req'[r])
  BY DEF GaplessInv
<1>9. \A r \in Request : req'[r] # Idle /\ req'[r].op # "import" => SessionOK(req[r])'
  BY <1>8 DEF SessionOK, Alike, Behind
<1> QED
  BY <1>5, <1>7, <1>9 DEF GaplessInv

\* A commit that disturbs nothing keeps all numbers.
LEMMA CommitKeepsNumbers ==
  ASSUME TypeOK, NEW r \in Request, Commit(r), ~disturbed'
  PROVE  /\ number' \in Numbers
         /\ \A i \in Invoice : number[i] \in Number => number'[i] = number[i]
         /\ req[r] \in Session /\ req[r] # Idle /\ req[r].op # "import"
         /\ ~CrossesYears(req[r])
         /\ number' = [number EXCEPT ![req[r].invoice] = SavedNumber(req[r])]
<1>1. req[r] \in Session /\ req[r] # Idle
  BY CommitType DEF Commit, CanFlush, AtFlush
<1>2. req[r].op # "import" /\ ~Renumbers(req[r]) /\ ~CrossesYears(req[r])
  BY DEF Commit
<1>3. number' = [number EXCEPT ![req[r].invoice] = SavedNumber(req[r])]
  BY DEF Commit
<1>4. req[r].invoice \in Invoice
  BY <1>1 DEF Session
<1>5. number' \in Numbers
  BY <1>3, CommitType DEF TypeOK, Numbers
<1>6. \A i \in Invoice : number[i] \in Number => number'[i] = number[i]
  BY <1>2, <1>3, <1>4 DEF Renumbers, TypeOK
<1> QED
  BY <1>1, <1>2, <1>3, <1>5, <1>6

\* The number it adds, if it adds one, is the next one of its prefix and year.
LEMMA CommitAddsNext ==
  ASSUME TypeOK, GaplessInv, ~disturbed, NEW r \in Request, Commit(r), ~disturbed',
         ~Alike(number, number')
  PROVE  \E v \in Number, t \in Series :
           /\ v.prefix = Prefix[t] /\ v.counter = Observed(number, t, v.year) + 1
           /\ number' = [number EXCEPT ![req[r].invoice] = v]
           /\ number[req[r].invoice] \notin Number
           /\ req[r].number = v
<1>1. PICK q \in Session : q = req[r]
  BY CommitKeepsNumbers
<1>2. SessionOK(q) /\ q.op # "import"
  BY <1>1, CommitKeepsNumbers DEF GaplessInv
<1>3. PICK i \in Invoice : i = q.invoice
  BY DEF Session
<1>4. PICK v : v = SavedNumber(q)
  OBVIOUS
<1>5. number' = [number EXCEPT ![i] = v] /\ \A j \in Invoice : number[j] \in Number => number'[j] = number[j]
  BY <1>1, <1>3, <1>4, CommitKeepsNumbers
<1>6. number[i] \notin Number /\ v \in Number
  BY <1>5 DEF Alike, TypeOK
<1>7. v = q.number /\ q.op = "issue"
  <2>1. q.op = "save" => v \notin Number
    BY <1>3, <1>4, <1>6, DraftsAreNotNumbers DEF SavedNumber, Session
  <2> QED
    BY <1>2, <1>4, <1>6, <2>1 DEF SavedNumber, Session
<1>8. FreeFor(number, i, v)
  BY <1>1, <1>3, <1>6, <1>7 DEF Commit, DatabaseAccepts, UniqueKeyAccepts
<1>9. PICK t \in Series : v.prefix = Prefix[t] /\ v.counter = Observed(q.snapshot, t, v.year) + 1
  BY <1>2, <1>6, <1>7 DEF SessionOK, Follows
<1>10. v.year \in Year
  BY <1>6 DEF Number
<1>11. PICK m, n : m = Observed(q.snapshot, t, v.year) /\ n = Observed(number, t, v.year)
  OBVIOUS
<1>12. m \in Nat /\ n \in Nat /\ m <= n
  <2>1. q.snapshot \in [Invoice -> Number \cup Drafts \cup {Absent}]
    BY DEF Session
  <2>2. number \in [Invoice -> Number \cup Drafts \cup {Absent}]
    BY DEF TypeOK
  <2>3. PICK now : now = number
    OBVIOUS
  <2>4. \A j \in Invoice : q.snapshot[j] \in Number => now[j] = q.snapshot[j]
    BY <1>2, <2>3 DEF SessionOK
  <2> QED
    BY <1>10, <1>11, <2>1, <2>2, <2>3, <2>4, ObservedIsMax, ObservedGrows
<1>13. CountersOf(number, t, v.year) = 1 .. n
  BY <1>10, <1>11 DEF GaplessInv, Gapless
<1>14. v.counter \notin CountersOf(number, t, v.year)
  <2> SUFFICES ASSUME NEW j \in Invoice, number[j] \in Number, number[j].prefix = Prefix[t],
                      number[j].year = v.year, number[j].counter = v.counter
               PROVE  FALSE
    BY DEF CountersOf
  <2>1. number[j] = v
    BY <1>6, <1>9 DEF Number
  <2> QED
    BY <1>6, <1>8, <2>1 DEF FreeFor
<1>15. m = n
  BY <1>9, <1>11, <1>12, <1>13, <1>14
<1>16. v.prefix = Prefix[t] /\ v.counter = Observed(number, t, v.year) + 1
  BY <1>9, <1>11, <1>15
<1>17. i = req[r].invoice /\ v = req[r].number
  BY <1>1, <1>3, <1>7
<1>18. number' = [number EXCEPT ![req[r].invoice] = v] /\ number[req[r].invoice] \notin Number
  BY <1>5, <1>6, <1>17
<1> QED
  BY <1>6, <1>16, <1>17, <1>18

\* So the numbers stay without a hole.
LEMMA CommitGapless ==
  ASSUME TypeOK, GaplessInv, ~disturbed, NEW r \in Request, Commit(r), ~disturbed'
  PROVE  Gapless'
<1>1. PICK now, next : now = number /\ next = number'
  OBVIOUS
<1>2. now \in Numbers /\ next \in Numbers
  BY <1>1, CommitKeepsNumbers DEF TypeOK, Numbers
<1>3. \A s \in Series, y \in Year : CountersOf(now, s, y) = 1 .. Observed(now, s, y)
  BY <1>1 DEF GaplessInv, Gapless
<1>4. CASE Alike(now, next)
  <2>1. \A s \in Series, y \in Year : CountersOf(next, s, y) = 1 .. Observed(next, s, y)
    BY <1>3, <1>4, AlikeObserved
  <2> QED
    BY <1>1, <2>1 DEF Gapless
<1>5. CASE ~Alike(now, next)
  <2>1. PICK v \in Number, t \in Series, i \in Invoice :
          /\ v.prefix = Prefix[t] /\ v.counter = Observed(now, t, v.year) + 1
          /\ next = [now EXCEPT ![i] = v]
          /\ now[i] \notin Number
    <3>1. req[r].invoice \in Invoice
      BY CommitKeepsNumbers DEF Session
    <3> QED
      BY <1>1, <1>5, <3>1, CommitAddsNext
  <2>2. ASSUME NEW s \in Series, NEW y \in Year
        PROVE  CountersOf(next, s, y) = 1 .. Observed(next, s, y)
    <3>1. CASE Prefix[s] = v.prefix /\ y = v.year
      <4>1. CountersOf(now, s, y) = CountersOf(now, t, y) /\ Observed(now, s, y) = Observed(now, t, y)
        BY <2>1, <3>1 DEF CountersOf, Observed
      <4>2. PICK n : n = Observed(now, s, y)
        OBVIOUS
      <4>3. n \in Nat /\ CountersOf(now, s, y) = 1 .. n
        BY <1>2, <1>3, <4>2, ObservedIsMax DEF Numbers
      <4>4. v.counter = n + 1
        BY <2>1, <3>1, <4>1, <4>2
      <4>5. CountersOf(next, s, y) = CountersOf(now, s, y) \cup {v.counter}
        BY <1>2, <2>1, <3>1 DEF CountersOf, Numbers
      <4>6. CountersOf(next, s, y) = 1 .. (n + 1)
        BY <4>3, <4>4, <4>5
      <4>7. PICK m : m = Observed(next, s, y)
        OBVIOUS
      <4>8. m \in Nat /\ (\A c \in 1 .. (n + 1) : c <= m) /\ (m # 0 => m \in 1 .. (n + 1))
        BY <1>2, <4>6, <4>7, ObservedIsMax DEF Numbers
      <4>9. m = n + 1
        BY <4>3, <4>8
      <4> QED
        BY <4>6, <4>7, <4>9
    <3>2. CASE ~(Prefix[s] = v.prefix /\ y = v.year)
      <4>1. CountersOf(next, s, y) = CountersOf(now, s, y)
        BY <1>2, <2>1, <3>2 DEF CountersOf, Numbers
      <4> QED
        BY <1>3, <4>1 DEF Observed
    <3> QED
      BY <3>1, <3>2
  <2> QED
    BY <1>1, <2>2 DEF Gapless
<1> QED
  BY <1>4, <1>5

\* The number of a session is among the documents once it is committed.
LEMMA CommitShows ==
  ASSUME TypeOK, NEW r \in Request, Commit(r), ~disturbed', SessionOK(req[r]),
         NEW s \in Series, Shows(req[r].rows[s], req[r].number, s)
  PROVE  Behind(req[r].rows[s], number', s)
<1>1. PICK q \in Session : q = req[r]
  BY CommitKeepsNumbers
<1>2. PICK n \in Number : n = q.number /\ q.rows[s] = [counter |-> n.counter, year |-> n.year]
                         /\ n.prefix = Prefix[s]
  BY <1>1 DEF Shows
<1>3. q.op = "issue"
  BY <1>1, <1>2, CommitKeepsNumbers DEF SessionOK, Session
<1>4. q.invoice \in Invoice
  BY DEF Session
<1>5. number' = [number EXCEPT ![q.invoice] = n]
  BY <1>1, <1>2, <1>3, CommitKeepsNumbers DEF SavedNumber
<1>6. PICK next \in Numbers : next = number'
  BY CommitKeepsNumbers
<1>7. next[q.invoice] = n
  BY <1>4, <1>5, <1>6 DEF TypeOK
<1>8. n.counter \in CountersOf(next, s, n.year) /\ n.year \in Year
  BY <1>2, <1>4, <1>7 DEF CountersOf, Number
<1>9. n.counter <= Observed(next, s, n.year)
  BY <1>8, ObservedIsMax DEF Numbers
<1>10. q.rows[s].counter = n.counter /\ q.rows[s].year = n.year
  BY <1>2
<1> QED
  BY <1>1, <1>6, <1>9, <1>10 DEF Behind

\* The rows stay behind the documents.
LEMMA CommitRows ==
  ASSUME TypeOK, GaplessInv, ~disturbed, NEW r \in Request, Commit(r), ~disturbed'
  PROVE  \A s \in Series : Behind(series[s], number, s)'
<1>1. PICK next \in Numbers : next = number'
  BY CommitKeepsNumbers
<1>2. PICK now \in Numbers : now = number
  BY DEF TypeOK, Numbers
<1>3. \A i \in Invoice : now[i] \in Number => next[i] = now[i]
  BY <1>1, <1>2, CommitKeepsNumbers
<1>4. PICK q \in Session : q = req[r]
  BY CommitKeepsNumbers
<1>5. SessionOK(q) /\ ~CrossesYears(q)
  BY <1>4, CommitKeepsNumbers DEF GaplessInv
<1>6. ASSUME NEW s \in Series PROVE Behind(WrittenRow(q, s), next, s)
  <2>1. series[s] \in SeriesRow /\ q.rows[s] \in SeriesRow
    BY SeriesRows DEF Session
  <2>2. Behind(series[s], next, s)
    <3>1. Behind(series[s], now, s)
      BY <1>2 DEF GaplessInv
    <3> QED
      BY <1>3, <2>1, <3>1, BehindStays DEF Numbers
  <2>3. Behind(q.rows[s], next, s)
    <3>1. CASE Shows(q.rows[s], q.number, s)
      BY <1>1, <1>4, <1>5, <3>1, CommitShows
    <3>2. CASE Behind(q.rows[s], q.snapshot, s)
      <4>1. q.snapshot \in Numbers
        BY DEF Session, Numbers
      <4>2. \A i \in Invoice : q.snapshot[i] \in Number => next[i] = q.snapshot[i]
        BY <1>2, <1>3, <1>5 DEF SessionOK
      <4> QED
        BY <2>1, <3>2, <4>1, <4>2, BehindStays DEF Numbers
    <3> QED
      BY <1>5, <3>1, <3>2 DEF SessionOK
  <2>4. CASE q.dirty[s] = {}
    <3>1. WrittenRow(q, s) = series[s]
      BY <2>1, <2>4 DEF WrittenRow, SeriesRow
    <3> QED
      BY <2>2, <3>1
  <2>5. CASE WrittenRow(q, s) = q.rows[s]
    BY <2>3, <2>5
  <2>6. CASE series[s].year = q.rows[s].year
    <3>1. /\ WrittenRow(q, s).year = series[s].year
          /\ WrittenRow(q, s).counter \in {series[s].counter, q.rows[s].counter}
      BY <2>6 DEF WrittenRow
    <3> QED
      BY <2>2, <2>3, <2>6, <3>1 DEF Behind
  <2> QED
    BY <1>5, <2>4, <2>5, <2>6 DEF CrossesYears
<1>7. ASSUME NEW s \in Series PROVE series'[s] = WrittenRow(q, s)
  BY <1>4 DEF Commit
<1>8. ASSUME NEW s \in Series PROVE Behind(series'[s], next, s)
  BY <1>6, <1>7
<1> QED
  BY <1>1, <1>8 DEF Behind

LEMMA CommitStaysGapless ==
  ASSUME TypeOK, GaplessInv, ~disturbed, NEW r \in Request, Commit(r)
  PROVE  GaplessInv'
<1> SUFFICES ASSUME ~disturbed' PROVE GaplessInv'
  BY DEF GaplessInv
<1>1. PICK next \in Numbers : next = number'
  BY CommitKeepsNumbers
<1>2. \A i \in Invoice : number[i] \in Number => next[i] = number[i]
  BY <1>1, CommitKeepsNumbers
<1>3. ASSUME NEW t \in Request, req'[t] # Idle, req'[t].op # "import"
      PROVE  SessionOK(req[t])'
  <2>1. req'[t] = req[t]
    BY <1>3 DEF Commit, Close, TypeOK
  <2>2. SessionOK(req[t])
    BY <1>3, <2>1 DEF GaplessInv
  <2> QED
    BY <1>1, <1>2, <2>1, <2>2 DEF SessionOK
<1> QED
  BY <1>3, CommitGapless, CommitRows DEF GaplessInv

LEMMA GaplessPreserved == TypeOK /\ GaplessInv /\ [Next]_vars => GaplessInv'
<1> SUFFICES ASSUME TypeOK, GaplessInv, [Next]_vars, ~disturbed' PROVE GaplessInv'
  BY DEF GaplessInv
<1>0. ~disturbed
  BY BeginKeeps DEF Next, Work, LockAndAllocate, AllocationFails, Commit, CommitRefused, DeadlockEnds, Abandon,
                    RevertToDraft, Delete, vars
<1>1. UNCHANGED number => Alike(number, number')
  BY DEF Alike
<1>2. ASSUME NEW r \in Request, Close(r), UNCHANGED <<number, series>>
      PROVE  GaplessInv'
  <2>1. \A t \in Request : req'[t] # Idle => req'[t] = req[t]
    BY <1>2 DEF Close, TypeOK
  <2> QED
    BY <1>0, <1>1, <1>2, <2>1, GaplessQuiet
<1>3. ASSUME NEW r \in Request, Begin(r)
      PROVE  GaplessInv'
  <2>1. UNCHANGED <<number, series>>
    BY <1>3, BeginKeeps
  <2>2. PICK op \in {"issue", "save", "import"}, i \in Invoice, y \in Year,
             n \in Number \cup Drafts, rows \in [Series -> SeriesRow] :
               Open(r, op, i, y, n, rows)
    BY <1>3, BeginOpens
  <2>3. \A t \in Request \ {r} : req'[t] = req[t]
    BY <2>2, OpenType
  <2>4. req'[r].op # "import" => SessionOK(req'[r])
    BY <1>0, <1>3, OpenSession
  <2> QED
    BY <1>0, <1>1, <2>1, <2>3, <2>4, GaplessQuiet
<1>4. ASSUME NEW r \in Request, NEW s \in Series, LockAndAllocate(r, s)
      PROVE  GaplessInv'
  <2>1. UNCHANGED <<number, series>>
    BY <1>4 DEF LockAndAllocate
  <2>2. SessionOK(req'[r]) /\ \A t \in Request \ {r} : req'[t] = req[t]
    BY <1>0, <1>4, AllocatedSession
  <2> QED
    BY <1>0, <1>1, <2>1, <2>2, GaplessQuiet
<1>5. ASSUME NEW r \in Request, Commit(r)
      PROVE  GaplessInv'
  BY <1>0, <1>5, CommitStaysGapless
<1>6. ASSUME NEW i \in Invoice, Delete(i)
      PROVE  GaplessInv'
  <2>1. number[i] \notin Number /\ number' = [number EXCEPT ![i] = Absent] /\ UNCHANGED <<series, req>>
    BY <1>6 DEF Delete
  <2>2. Alike(number, number')
    BY <2>1, NumberingAssumption DEF Alike, TypeOK
  <2> QED
    BY <1>0, <2>1, <2>2, GaplessQuiet
<1>7. CASE UNCHANGED vars
  <2>1. UNCHANGED <<number, series, req>>
    BY <1>7 DEF vars
  <2> QED
    BY <1>0, <1>1, <2>1, GaplessQuiet
<1>8. ASSUME NEW r \in Request, NEW s \in Series, AllocationFails(r, s)
      PROVE  GaplessInv'
  BY <1>2, <1>8 DEF AllocationFails
<1>9. ASSUME NEW r \in Request, CommitRefused(r) \/ DeadlockEnds(r) \/ Abandon(r)
      PROVE  GaplessInv'
  BY <1>2, <1>9 DEF CommitRefused, DeadlockEnds, Abandon
<1>10. ASSUME NEW i \in Invoice, NEW y \in Year, RevertToDraft(i, y)
       PROVE  FALSE
  BY <1>10 DEF RevertToDraft
<1> QED
  BY <1>3, <1>4, <1>5, <1>6, <1>7, <1>8, <1>9, <1>10 DEF Next, Work

LEMMA GaplessStart == Init => GaplessInv
<1> SUFFICES ASSUME Init PROVE GaplessInv
  OBVIOUS
<1>1. \A s, y : CountersOf(number, s, y) = {}
  BY NumberingAssumption DEF Init, CountersOf
<1>2. \A s, y : Observed(number, s, y) = 0
  BY <1>1 DEF Observed
<1>3. \A s \in Series : series[s].counter = 0
  BY DEF Init
<1>4. 1 .. 0 = {}
  OBVIOUS
<1>5. Gapless
  BY <1>1, <1>2, <1>4 DEF Gapless
<1>6. \A s \in Series : Behind(series[s], number, s)
  BY <1>2, <1>3 DEF Behind
<1>7. \A r \in Request : req[r] = Idle
  BY DEF Init
<1> QED
  BY <1>5, <1>6, <1>7 DEF GaplessInv

\* The numbers of a prefix and a year have no hole, whatever the number of
\* documents, requests, series and years: as long as none is given up or brought
\* from outside, and no series row is left between two years.
THEOREM NumbersWithoutHole == Spec => []Gapless
<1>1. TypeOK /\ GaplessInv /\ [Next]_vars => GaplessInv'
  BY GaplessPreserved
<1>2. GaplessInv => Gapless
  BY DEF GaplessInv, Gapless
<1> QED
  BY GaplessStart, <1>1, <1>2, TypeCorrect, PTL DEF Spec

-----------------------------------------------------------------------------
(* The numbering implements the register of numbers *)

Assigned == {p \in Invoice \X Number : number[p[1]] = p[2]}

\* Giving an invoice a number that nobody else has is a step of the register.
LEMMA AssignStep ==
  ASSUME TypeOK, NEW i \in Invoice, NEW n \in Number,
         number' = [number EXCEPT ![i] = n], FreeFor(number, i, n)
  PROVE  Registry!Assign(i, n)
<1>1. \A p \in Registry!Others(i) : p[2] # n
  BY DEF Registry!Others, FreeFor
<1>2. Assigned' = Registry!Others(i) \cup {<<i, n>>}
  BY DEF Assigned, Registry!Others, TypeOK
<1> QED
  BY <1>1, <1>2 DEF Registry!Assign, Assigned

\* So is leaving an invoice without a number, whether it had one or not.
LEMMA ReleaseStep ==
  ASSUME TypeOK, NEW i \in Invoice, NEW v, v \notin Number,
         number' = [number EXCEPT ![i] = v]
  PROVE  Registry!Release(i)
<1>1. Assigned' = Registry!Others(i)
  BY DEF Assigned, Registry!Others, TypeOK
<1> QED
  BY <1>1 DEF Registry!Release, Assigned

LEMMA RegistryStep ==
  TypeOK /\ [Next]_vars => [Registry!Next]_Assigned
<1> SUFFICES ASSUME TypeOK, [Next]_vars
             PROVE  Registry!Next \/ UNCHANGED Assigned
  OBVIOUS
<1>1. UNCHANGED number => UNCHANGED Assigned
  BY DEF Assigned
<1>2. ASSUME NEW i \in Invoice, NEW n \in Number, Registry!Assign(i, n)
      PROVE  Registry!Next
  BY <1>2 DEF Registry!Next
<1>3. ASSUME NEW i \in Invoice, Registry!Release(i)
      PROVE  Registry!Next
  BY <1>3 DEF Registry!Next
<1>4. ASSUME NEW r \in Request, Commit(r)
      PROVE  Registry!Next \/ UNCHANGED number
  <2> DEFINE i == req[r].invoice
             v == SavedNumber(req[r])
  <2>1. req[r] \in Session
    BY <1>4, CommitType
  <2>2. i \in Invoice /\ number' = [number EXCEPT ![i] = v]
    BY <1>4, <2>1 DEF Commit, Session
  <2>3. v \in Number => FreeFor(number, i, v) \/ v = number[i]
    BY <1>4, <2>1, DraftsAreNotNumbers
       DEF Commit, DatabaseAccepts, UniqueKeyAccepts, SavedNumber, Session
  <2>4. v = number[i] => UNCHANGED number
    BY <2>2 DEF TypeOK
  <2> HIDE DEF i, v
  <2> QED
    BY <2>2, <2>3, <2>4, <1>2, <1>3, AssignStep, ReleaseStep
<1>5. ASSUME NEW i \in Invoice, NEW y \in Year, RevertToDraft(i, y)
      PROVE  Registry!Next
  BY <1>5, <1>3, ReleaseStep, DraftsAreNotNumbers DEF RevertToDraft
<1>6. ASSUME NEW i \in Invoice, Delete(i)
      PROVE  Registry!Next
  BY <1>6, <1>3, ReleaseStep, NumberingAssumption DEF Delete
<1>7. ASSUME NEW r \in Request, Begin(r)
      PROVE  UNCHANGED number
  BY <1>7, BeginKeeps
<1>8. ASSUME NEW r \in Request, NEW s \in Series, LockAndAllocate(r, s) \/ AllocationFails(r, s)
      PROVE  UNCHANGED number
  BY <1>8 DEF LockAndAllocate, AllocationFails
<1>9. ASSUME NEW r \in Request, CommitRefused(r) \/ DeadlockEnds(r) \/ Abandon(r)
       PROVE  UNCHANGED number
  BY <1>9 DEF CommitRefused, DeadlockEnds, Abandon
<1>10. UNCHANGED vars => UNCHANGED number
  BY DEF vars
<1> QED
  BY <1>1, <1>4, <1>5, <1>6, <1>7, <1>8, <1>9, <1>10 DEF Next, Work

\* The numbering, with its stale rows, locks, refused commits and imports,
\* implements the register: a number moves from one document to another only
\* through a state in which nobody has it.
THEOREM ImplementsRegistry == Spec => RegistrySpec
<1>1. Init => Registry!Init
  BY NumberingAssumption DEF Init, Registry!Init
<1>2. TypeOK /\ [Next]_vars => [Registry!Next]_Assigned
  BY RegistryStep
<1> QED
  BY <1>1, <1>2, TypeCorrect, PTL DEF Spec, RegistrySpec, Registry!Spec, Assigned

=============================================================================
