-------------------------- MODULE InvoiceNumbering --------------------------
(***************************************************************************)
(* How the documents of one subject get their final numbers                *)
(* (fakturek/main.py and its copy for the REST API, fakturek/api_v1.py).   *)
(*                                                                         *)
(* A request runs in one database transaction at REPEATABLE READ.  Its     *)
(* plain SELECTs all see the snapshot of its first read, and a series row  *)
(* it has already loaded stays as it was loaded: the later                 *)
(* SELECT ... FOR UPDATE waits for the row lock but does not refresh the   *)
(* object of the session.  Writes are held back until the commit, where    *)
(* the database checks the unique key on (subject, number).                *)
(*                                                                         *)
(* A number is a record: the normalised prefix of the series, the year and *)
(* the counter.  A draft, whose number is only a placeholder, is told by    *)
(* the year of its issue date.  Documents that carry a final number are    *)
(* not told apart by status here; InvoicePayments does that.               *)
(***************************************************************************)
EXTENDS Integers, FiniteSetsExt

CONSTANTS
  Invoice,      \* identifiers of the subject's invoices
  Request,      \* requests that may be in flight at the same time
  Series,       \* numbering series of the subject
  Prefix,       \* the normalised prefix of each series; two may share one
  Year,         \* years of issue
  Spelled,      \* the year that the stored prefix of a series spells out, or Absent
  MaxCounter,   \* largest value of the column last_counter
  MaxImported,  \* largest counter of an imported number
  MaxTries,     \* how many candidates an allocation tries
  Absent,       \* no such invoice
  Nobody        \* no request holds the lock

VARIABLES
  number,       \* committed: the number of each invoice, Draft or Absent
  series,       \* committed: the series rows
  lock,         \* which request holds the lock of a series row
  req,          \* the session of each request
  disturbed     \* history: a number was given up or came from outside, or a series
                \* row was left between two years

vars == <<number, series, lock, req, disturbed>>

Number == [prefix : {Prefix[s] : s \in Series}, year : Year,
           counter : 1..MaxImported]

Draft(y) == [issueYear |-> y]

Drafts == {Draft(y) : y \in Year}

SeriesRow == [counter : 0..MaxImported, year : Year]

ASSUME NumberingAssumption ==
  /\ MaxCounter \in Nat \ {0}
  /\ MaxImported \in Nat
  /\ MaxImported >= MaxCounter
  /\ MaxTries \in Nat \ {0}
  /\ Absent \notin Number \cup Drafts \cup Year
  /\ Spelled \in [Series -> Year \cup {Absent}]
  /\ Drafts \cap Number = {}
  /\ Nobody \notin Request

Idle == [op |-> "none"]

Session == [op : {"issue", "save", "import"}, invoice : Invoice, year : Year,
            snapshot : [Invoice -> Number \cup Drafts \cup {Absent}],
            rows : [Series -> SeriesRow],
            dirty : [Series -> SUBSET {"counter", "year"}],
            number : Number \cup Drafts]

-----------------------------------------------------------------------------
(* Reading and advancing a series *)

NumberOf(s, y, c) == [prefix |-> Prefix[s], year |-> y, counter |-> c]

CountersOf(numbers, s, y) ==
  {numbers[i].counter : i \in {j \in Invoice :
     /\ numbers[j] \in Number
     /\ numbers[j].prefix = Prefix[s]
     /\ numbers[j].year = y}}

\* _observed_series_counter_for_year
Observed(numbers, s, y) ==
  LET counters == CountersOf(numbers, s, y)
  IN  IF counters = {} THEN 0 ELSE Max(counters)

\* A row of another year counts as zero.
CurrentCounter(row, y) == IF row.year = y THEN row.counter ELSE 0

\* _sync_series_counter_for_year: both of its conditions come down to this one.
SyncedRow(row, observed, y) ==
  IF observed > CurrentCounter(row, y)
    THEN [counter |-> observed, year |-> y]
    ELSE row

\* No invoice other than i has number n.
FreeFor(numbers, i, n) == \A j \in Invoice \ {i} : numbers[j] # n

\* Mutants of NextNumbers: the series row is believed without a look at the
\* invoices, and the limit of the column is forgotten.
NextOfRow(numbers, rows, i, s, y) ==
  {NumberOf(s, y, c) : c \in {CurrentCounter(rows[s], y) + 1} \cap 1..MaxCounter}

NextUnbounded(numbers, rows, i, s, y) ==
  LET row  == SyncedRow(rows[s], Observed(numbers, s, y), y)
  IN  {NumberOf(s, y, CurrentCounter(row, y) + 1)}

\* What _allocate_next_invoice_number returns, given the snapshot and the rows
\* of the session: at most one number, none when the series is exhausted.
NextNumbers(numbers, rows, i, s, y) ==
  LET row  == SyncedRow(rows[s], Observed(numbers, s, y), y)
      base == CurrentCounter(row, y)
  IN  {NumberOf(s, y, c) : c \in {d \in base + 1 .. base + MaxTries :
         /\ d <= MaxCounter
         /\ FreeFor(numbers, i, NumberOf(s, y, d))
         /\ \A e \in base + 1 .. d - 1 : ~FreeFor(numbers, i, NumberOf(s, y, e))}}

\* The ORM writes a column only when its value differs from the loaded one.
ChangedFields(old, new) == {f \in {"counter", "year"} : old[f] # new[f]}

-----------------------------------------------------------------------------
(* The life of a request *)

\* Identifiers are AUTO_INCREMENT: one that is not in the table yet is used by
\* a single transaction.
Usable(i) == number[i] = Absent => \A r \in Request : req[r] # Idle => req[r].invoice # i

Open(r, op, i, y, n, rows) ==
  /\ req[r] = Idle
  /\ Usable(i)
  /\ req' = [req EXCEPT ![r] =
       [op |-> op, invoice |-> i, year |-> y, snapshot |-> number, rows |-> rows,
        dirty |-> [s \in Series |-> ChangedFields(series[s], rows[s])],
        number |-> n]]
  /\ UNCHANGED <<number, series, lock, disturbed>>

\* The editor form brings every series of the subject up to date first.
SyncedRows(y) ==
  [s \in Series |-> SyncedRow(series[s], Observed(number, s, y), y)]

\* The issue button, the API, a recurring plan: a stored draft of that year, or an
\* invoice that the same transaction inserts.
BeginIssue(r, i, y) ==
  /\ number[i] \in {Absent, Draft(y)}
  /\ Open(r, "issue", i, y, Draft(y), series)

\* Mutant of BeginEditorIssue: a document in every status is issued on saving.
EditorIssuesAgain(r, i, y) == Open(r, "issue", i, y, Draft(y), SyncedRows(y))

\* The editor, saving and issuing at once; the form may change the issue date.
BeginEditorIssue(r, i, y) ==
  /\ number[i] \in Drafts \cup {Absent}
  /\ Open(r, "issue", i, y, Draft(y), SyncedRows(y))

\* The editor, saving only: a new draft, or an edited document of any status.
BeginSave(r, i, y) == Open(r, "save", i, y, Draft(y), SyncedRows(y))

\* The API or the button that starts a credit note: drafts only, and no series.
BeginDraftSave(r, i, y) ==
  /\ number[i] \in Drafts \cup {Absent}
  /\ Open(r, "save", i, y, Draft(y), series)

\* reconcile_invoice_series_for_subject raises the counter of a series whose
\* prefix is literally the one of the numbers, and leaves its year.
ReconciledRows(numbers) ==
  [s \in Series |->
     IF Spelled[s] # Absent /\ Observed(numbers, s, Spelled[s]) > series[s].counter
       THEN [series[s] EXCEPT !.counter = Observed(numbers, s, Spelled[s])]
       ELSE series[s]]

\* An import brings an invoice with the number it had elsewhere.
BeginImport(r, i, n) ==
  /\ number[i] = Absent
  /\ FreeFor(number, i, n)
  /\ Open(r, "import", i, n.year, n, ReconciledRows([number EXCEPT ![i] = n]))

\* The session q once number n is taken from series s.
Allocated(q, s, n) ==
  LET row == [counter |-> n.counter, year |-> n.year]
  IN  [q EXCEPT !.number = n,
                !.rows = [q.rows EXCEPT ![s] = row],
                !.dirty = [q.dirty EXCEPT ![s] = q.dirty[s] \cup ChangedFields(q.rows[s], row)]]

\* The row lock is granted; the number is then worked out from the snapshot and
\* from the row as the session had loaded it.
LockAndAllocate(r, s) ==
  /\ req[r] # Idle
  /\ req[r].op = "issue"
  /\ req[r].number \in Drafts
  /\ lock[s] = Nobody
  /\ \E n \in NextNumbers(req[r].snapshot, req[r].rows, req[r].invoice, s, req[r].year) :
       req' = [req EXCEPT ![r] = Allocated(req[r], s, n)]
  /\ lock' = [lock EXCEPT ![s] = r]
  /\ UNCHANGED <<number, series, disturbed>>

\* Mutant of Close: the locks outlive the transaction.
CloseKeepingLocks(r) ==
  /\ req' = [req EXCEPT ![r] = Idle]
  /\ UNCHANGED lock

Close(r) ==
  /\ req' = [req EXCEPT ![r] = Idle]
  /\ lock' = [s \in Series |-> IF lock[s] = r THEN Nobody ELSE lock[s]]

\* An exhausted series, or no free candidate: the handler rolls back.
AllocationFails(r, s) ==
  /\ req[r] # Idle
  /\ req[r].op = "issue"
  /\ req[r].number \in Drafts
  /\ lock[s] = Nobody
  /\ NextNumbers(req[r].snapshot, req[r].rows, req[r].invoice, s, req[r].year) = {}
  /\ Close(r)
  /\ UNCHANGED <<number, series, disturbed>>

\* Mutant of UniqueKeyAccepts: only the application looks, in its own snapshot.
CheckedInSnapshot(q) == q.number \in Number => FreeFor(q.snapshot, q.invoice, q.number)

\* The unique key uq_invoices_subject_number.
UniqueKeyAccepts(q) == q.number \in Number => FreeFor(number, q.invoice, q.number)

\* The database refuses an UPDATE of a row that is gone (StaleDataError), a
\* duplicate number (IntegrityError) and a counter the column cannot hold.
DatabaseAccepts(q) ==
  /\ q.snapshot[q.invoice] # Absent => number[q.invoice] # Absent
  /\ UniqueKeyAccepts(q)
  /\ \A s \in Series : "counter" \in q.dirty[s] => q.rows[s].counter <= MaxCounter

\* Saving writes the issue date when the form changes it, and never the number.
SavedNumber(q) ==
  LET stored == number[q.invoice] IN
  CASE q.op \in {"issue", "import"} -> q.number
    [] q.op = "save" /\ stored \notin Number
         /\ q.snapshot[q.invoice] # Draft(q.year) -> Draft(q.year)
    [] OTHER -> stored

WrittenRow(q, s) ==
  [counter |-> IF "counter" \in q.dirty[s] THEN q.rows[s].counter ELSE series[s].counter,
   year    |-> IF "year" \in q.dirty[s] THEN q.rows[s].year ELSE series[s].year]

\* For the history.  The commit overwrites a number that another request has given
\* to the same document ...
Renumbers(q) ==
  /\ number[q.invoice] \in Number
  /\ SavedNumber(q) # number[q.invoice]

\* ... or it writes one column of a series row that another request has moved to
\* another year since it was loaded: the counter of one year and the other year.
CrossesYears(q) ==
  \E s \in Series :
    /\ q.dirty[s] # {}
    /\ series[s].year # q.rows[s].year
    /\ WrittenRow(q, s) # q.rows[s]

\* The handler has come to its flush.
AtFlush(r) ==
  /\ req[r] # Idle
  /\ req[r].op = "issue" => req[r].number \in Number

CanFlush(r) ==
  /\ AtFlush(r)
  /\ \A s \in Series : req[r].dirty[s] # {} => lock[s] \in {Nobody, r}

Commit(r) ==
  LET q == req[r] IN
  /\ CanFlush(r)
  /\ DatabaseAccepts(q)
  /\ number' = [number EXCEPT ![q.invoice] = SavedNumber(q)]
  /\ series' = [s \in Series |-> WrittenRow(q, s)]
  /\ disturbed' = (disturbed \/ q.op = "import" \/ Renumbers(q) \/ CrossesYears(q))
  /\ Close(r)

CommitRefused(r) ==
  /\ CanFlush(r)
  /\ ~DatabaseAccepts(req[r])
  /\ Close(r)
  /\ UNCHANGED <<number, series, disturbed>>

\* Mutant of Abandon: the series was advanced in a transaction of its own.
AbandonKeepingCounter(r) ==
  /\ req[r] # Idle
  /\ series' = [s \in Series |-> WrittenRow(req[r], s)]
  /\ Close(r)
  /\ UNCHANGED <<number, disturbed>>

\* An error, a lock wait timeout or the death of the process.
Abandon(r) ==
  /\ req[r] # Idle
  /\ Close(r)
  /\ UNCHANGED <<number, series, disturbed>>

\* Who holds a row that request r has to write: the flush of r waits for them.
Awaits(r) ==
  IF AtFlush(r) THEN {lock[s] : s \in {t \in Series : req[r].dirty[t] # {}}} \ {Nobody, r}
                ELSE {}

\* InnoDB ends a request of a ring in which each waits for a row that another holds.
DeadlockEnds(r) ==
  /\ \E ring \in SUBSET Request :
       /\ r \in ring
       /\ \A q \in ring : /\ Awaits(q) \cap ring # {}
                         /\ \E p \in ring : q \in Awaits(p)
  /\ Close(r)
  /\ UNCHANGED <<number, series, disturbed>>

-----------------------------------------------------------------------------
(* Requests that write one constant value to one row: a single step *)

\* The issue date stays; it is not kept here for a numbered document, which an
\* edit may have moved to another year.
RevertToDraft(i, y) ==
  /\ number[i] \in Number
  /\ number' = [number EXCEPT ![i] = Draft(y)]
  /\ disturbed' = TRUE
  /\ UNCHANGED <<series, lock, req>>

Delete(i) ==
  /\ number[i] # Absent
  /\ number' = [number EXCEPT ![i] = Absent]
  /\ disturbed' = (disturbed \/ number[i] \in Number)
  /\ UNCHANGED <<series, lock, req>>

-----------------------------------------------------------------------------
Init ==
  /\ number = [i \in Invoice |-> Absent]
  /\ series \in [Series -> [counter : {0}, year : Year]]
  /\ lock = [s \in Series |-> Nobody]
  /\ req = [r \in Request |-> Idle]
  /\ disturbed = FALSE

Begin(r) ==
  \E i \in Invoice :
    \/ \E y \in Year : \/ BeginIssue(r, i, y) \/ BeginEditorIssue(r, i, y)
                      \/ BeginSave(r, i, y) \/ BeginDraftSave(r, i, y)
    \/ \E n \in Number : BeginImport(r, i, n)

Work(r) ==
  \/ \E s \in Series : LockAndAllocate(r, s) \/ AllocationFails(r, s)
  \/ Commit(r)
  \/ CommitRefused(r)
  \/ DeadlockEnds(r)

Next ==
  \/ \E r \in Request :
       \/ Begin(r)
       \/ Work(r)
       \/ Abandon(r)
  \/ \E i \in Invoice :
       \/ \E y \in Year : RevertToDraft(i, y)
       \/ Delete(i)

Spec == Init /\ [][Next]_vars

\* A thread that runs a handler goes on, and the queue of a row lock is served
\* in order, so a waiting request is not overtaken for ever.
Fairness == \A r \in Request : SF_vars(Work(r))

FairSpec == Spec /\ Fairness

-----------------------------------------------------------------------------
TypeOK ==
  /\ number \in [Invoice -> Number \cup Drafts \cup {Absent}]
  /\ series \in [Series -> [counter : 0..MaxCounter, year : Year]]
  /\ lock \in [Series -> Request \cup {Nobody}]
  /\ req \in [Request -> Session \cup {Idle}]
  /\ disturbed \in BOOLEAN

\* Two documents of a subject never carry the same final number, whatever the
\* requests that number, edit, revert, delete and import them do to each other.
NumbersUnique ==
  \A i, j \in Invoice :
    i # j /\ number[i] \in Number => number[i] # number[j]

\* A lock is held by a request that has a number to write, and never by two.
LockHolderHasNumber ==
  \A s \in Series :
    lock[s] # Nobody => /\ req[lock[s]] # Idle
                        /\ req[lock[s]].number \in Number
                        /\ \A t \in Series : lock[t] = lock[s] => t = s

\* As long as every number was allocated here and none was given up, the
\* numbers of a prefix and a year run from 1 without a hole, also when requests
\* collide, fail or are abandoned half way.  At the turn of the year that is not
\* so: a row that two requests of different years have written is ahead of the
\* documents, and the next number skips what it is ahead.
Gapless ==
  ~disturbed => \A s \in Series, y \in Year :
                  CountersOf(number, s, y) = 1..Observed(number, s, y)

\* "The document is no longer a draft, it cannot be issued again" (main.py, the
\* refusal of the issue button; the API has the same text): a document that has a
\* final number never gets another one while it is issued.
IssuedNumberKept ==
  [][\A i \in Invoice :
       number[i] \in Number /\ number'[i] \in Number
         => number'[i] = number[i]]_vars

\* What is true of it: whoever replaces a final number has read the document as a
\* draft, before somebody else gave it that number.  Handlers that follow each other
\* never do, and neither an import nor a saved document ever touches a number.
ReplacedBehindItsBack ==
  [][\A i \in Invoice :
       number[i] \in Number /\ number'[i] \in Number /\ number'[i] # number[i]
         => \E r \in Request : /\ req[r] # Idle /\ req'[r] = Idle
                               /\ req[r].op = "issue" /\ req[r].invoice = i
                               /\ req[r].snapshot[i] \in Drafts]_vars

\* A request comes to an end, also when it has to wait for the series row.
RequestsEnd == \A r \in Request : req[r] # Idle ~> req[r] = Idle

\* The numbering implements the register of numbers.
Registry == INSTANCE NumberRegistry WITH
  assigned <- {p \in Invoice \X Number : number[p[1]] = p[2]}

RegistrySpec == Registry!Spec

=============================================================================
