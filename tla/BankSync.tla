------------------------------ MODULE BankSync ------------------------------
(***************************************************************************)
(* How one bank account of a subject is followed through the Fio API       *)
(* (fakturek/main.py, fakturek/bank_sync.py, fakturek/bank_account_lock.py *)
(* and the copies in fakturek/api_v1.py).                                  *)
(*                                                                         *)
(* A run reads the configuration of the account without a lock, closes its *)
(* database transaction, asks the bank for the days of a window, and only  *)
(* then takes the lock of the subject.  It stores what the bank answered   *)
(* if the configuration is still the one it started from, and moves the    *)
(* cursor of the account.  The scheduled job, the button of the settings page *)
(* and the API may run at the same time; the page that saves or removes    *)
(* the account takes the same lock.                                        *)
(*                                                                         *)
(* The token is stored encrypted, and the cipher is different each time: a *)
(* stored token is a token and the number of the save that encrypted it.   *)
(*                                                                         *)
(* Days are integers.  The bank publishes a transaction at most Delay days *)
(* after the day it books it on.  Whether a stored transaction is paired   *)
(* with a document is the business of InvoicePayments.                     *)
(***************************************************************************)
EXTENDS Common, Integers, FiniteSetsExt

CONSTANTS
  Tx,         \* transactions of the bank
  Incoming,   \* those of them that bring money
  Token,      \* API tokens; each belongs to one account at the bank
  Setting,    \* values of the other settings that a run compares
  Run,        \* synchronisations that may be in flight at the same time
  Overlap,    \* BANK_SYNC_OVERLAP_DAYS
  MaxWindow,  \* the longest window that is asked for, in days
  Delay,      \* how late the bank may publish a transaction, in days
  LastDay,    \* bound: the last day that is explored
  MaxSaves    \* bound: how often the account is saved

VARIABLES
  today,      \* the local date
  published,  \* what the bank shows: token and day of booking, or None
  account,    \* the row of the account, None once it is removed
  imported,   \* the rows of its transactions
  lock,       \* which run holds the lock of the subject
  run,        \* what each run knows
  floor,      \* history: the account is followed from this day on
  saves       \* numbers the saves

vars == <<today, published, account, imported, lock, run, floor, saves>>

ASSUME BankSyncAssumption ==
  /\ Incoming \subseteq Tx
  /\ Overlap \in Nat
  /\ MaxWindow \in Nat
  /\ Delay \in Nat
  /\ Delay <= Overlap
  /\ Overlap <= MaxWindow
  /\ LastDay \in Nat
  /\ MaxSaves \in Nat
  /\ None \notin Token \cup Run \cup Int

Statement == [token : Token, day : Int]

Account == [provider : {"fio", "other"}, token : Token \cup {None},
            cipher : 0..MaxSaves, cursor : Int \cup {None}, setting : Setting]

Session == [step : {"fetch", "check", "store"}, seen : Account,
            from : Int, to : Int, got : SUBSET Tx, stored : SUBSET Tx]

ASSUME AccountAssumption ==
  None \notin Account \cup Statement \cup Session

Followed == account # None /\ account.provider = "fio"

ShownFor(k) == {t \in Tx : published[t] # None /\ published[t].token = k}

-----------------------------------------------------------------------------
(* The bank and the calendar *)

NextDay ==
  /\ today < LastDay
  /\ today' = today + 1
  /\ UNCHANGED <<published, account, imported, lock, run, floor, saves>>

Publish(t, k, d) ==
  /\ published[t] = None
  /\ d \in (today - Delay)..today
  /\ published' = [published EXCEPT ![t] = [token |-> k, day |-> d]]
  /\ UNCHANGED <<today, account, imported, lock, run, floor, saves>>

-----------------------------------------------------------------------------
(* The settings page *)

\* The form leaves the token alone when its field is blank (None).
TokenAfter(provider, k) ==
  CASE provider = "other" -> None
    [] provider = "fio" /\ k # None -> k
    [] OTHER -> account.token

CipherAfter(provider, k) ==
  CASE provider = "other" -> 0
    [] provider = "fio" /\ k # None -> saves + 1
    [] OTHER -> account.cipher

\* Mutant of StartsOver: a new token goes on from the cursor of the old one.
StartsOverOnProvider(provider, k) ==
  provider = "fio" /\ (account.provider # "fio" \/ account.cursor = None)

\* _refresh_payment_sync_checkpoints
StartsOver(provider, k) ==
  provider = "fio" /\ \/ account.provider # "fio"
                      \/ TokenAfter(provider, k) # account.token
                      \/ account.cursor = None

Save(provider, k, setting) ==
  /\ account # None
  /\ lock = None
  /\ saves < MaxSaves
  /\ provider = "fio" => TokenAfter(provider, k) # None
  /\ account' = [provider |-> provider,
                 token |-> TokenAfter(provider, k),
                 cipher |-> CipherAfter(provider, k),
                 cursor |-> IF StartsOver(provider, k) THEN today ELSE account.cursor,
                 setting |-> setting]
  /\ floor' = IF account.provider = "fio" /\ TokenAfter(provider, k) = account.token
                THEN floor ELSE today
  /\ saves' = saves + 1
  /\ UNCHANGED <<today, published, imported, lock, run>>

\* The rows of the transactions go with the account.
Remove ==
  /\ account # None
  /\ lock = None
  /\ account' = None
  /\ imported' = {}
  /\ UNCHANGED <<today, published, lock, run, floor, saves>>

-----------------------------------------------------------------------------
(* A run *)

Idle == None

\* Mutant of WindowStart: the window starts at the cursor.
WindowStartWithoutOverlap(cursor) == Max({cursor, today - MaxWindow})

\* _payment_sync_date_window
WindowStart(cursor) == Max({cursor - Overlap, today - MaxWindow})

Start(r) ==
  /\ run[r] = Idle
  /\ Followed
  /\ run' = [run EXCEPT ![r] =
       [step |-> "fetch", seen |-> account, from |-> WindowStart(account.cursor),
        to |-> today, got |-> {}, stored |-> {}]]
  /\ UNCHANGED <<today, published, account, imported, lock, floor, saves>>

\* The answer of the bank, at the first attempt or at the second.
Fetch(r) ==
  /\ run[r] # Idle
  /\ run[r].step = "fetch"
  /\ run' = [run EXCEPT
       ![r].step = "check",
       ![r].got = {t \in ShownFor(run[r].seen.token) :
                     published[t].day \in run[r].from..run[r].to}]
  /\ UNCHANGED <<today, published, account, imported, lock, floor, saves>>

\* Mutants of StillConfigured: only the cursor is compared; the token is
\* compared decrypted.
SameCursor(seen) == account # None /\ account.cursor = seen.cursor

SameDecrypted(seen) ==
  account # None /\ [account EXCEPT !.cipher = 0] = [seen EXCEPT !.cipher = 0]

\* The snapshots are compared as they are stored, the token encrypted.
StillConfigured(seen) == account = seen

\* Mutant of LockAndCheck: a run does not wait for another one.
CheckWithoutWaiting(r) ==
  /\ run[r] # Idle
  /\ run[r].step = "check"
  /\ StillConfigured(run[r].seen)
  /\ lock' = r
  /\ run' = [run EXCEPT ![r].step = "store", ![r].stored = imported]
  /\ UNCHANGED <<today, published, account, imported, floor, saves>>

\* _lock_bank_account_sync_configuration.  The first plain read after the lock
\* fixes the snapshot of the database transaction.
LockAndCheck(r) ==
  /\ run[r] # Idle
  /\ run[r].step = "check"
  /\ lock = None
  /\ IF StillConfigured(run[r].seen)
       THEN /\ lock' = r
            /\ run' = [run EXCEPT ![r].step = "store", ![r].stored = imported]
       ELSE /\ run' = [run EXCEPT ![r] = Idle]
            /\ UNCHANGED lock
  /\ UNCHANGED <<today, published, account, imported, floor, saves>>

NewRows(s) == (s.got \cap Incoming) \ s.stored

DaysOf(ts) == {published[t].day : t \in ts}

\* Mutants of NewCursor: only incoming ones count; no cursor when the bank had
\* nothing.
NewestIncoming(s) ==
  IF s.got = {} THEN s.to ELSE Max({s.from} \cup DaysOf(s.got \cap Incoming))

NewestOrNone(s) ==
  IF s.got = {} THEN None ELSE Max({s.from} \cup DaysOf(s.got))

NewCursor(s) ==
  IF s.got = {} THEN s.to ELSE Max({s.from} \cup DaysOf(s.got))

\* The unique key accepts the rows; all of it is one database transaction.
Store(r) ==
  LET s == run[r] IN
  /\ s # Idle
  /\ s.step = "store"
  /\ NewRows(s) \cap imported = {}
  /\ imported' = imported \cup NewRows(s)
  /\ account' = [account EXCEPT !.cursor = NewCursor(s)]
  /\ lock' = None
  /\ run' = [run EXCEPT ![r] = Idle]
  /\ UNCHANGED <<today, published, floor, saves>>

\* The bank does not answer, a statement fails or the process stops: nothing
\* of the run stays but the note of the error.
Abandon(r) ==
  /\ run[r] # Idle
  /\ run' = [run EXCEPT ![r] = Idle]
  /\ lock' = IF lock = r THEN None ELSE lock
  /\ UNCHANGED <<today, published, account, imported, floor, saves>>

-----------------------------------------------------------------------------
Init ==
  /\ today = 0
  /\ published = [t \in Tx |-> None]
  /\ account \in [provider : {"other"}, token : {None},
                 cipher : {0}, cursor : {None}, setting : Setting]
  /\ imported = {}
  /\ lock = None
  /\ run = [r \in Run |-> Idle]
  /\ floor = 0
  /\ saves = 0

Progress(r) == Start(r) \/ Fetch(r) \/ LockAndCheck(r) \/ Store(r)

Next ==
  \/ NextDay
  \/ \E t \in Tx, k \in Token : \E d \in (today - Delay)..today : Publish(t, k, d)
  \/ \E provider \in {"fio", "other"}, k \in Token \cup {None}, setting \in Setting :
       Save(provider, k, setting)
  \/ Remove
  \/ \E r \in Run : Progress(r) \/ Abandon(r)

Spec == Init /\ [][Next]_vars

\* The job is started again and again, the bank answers in the end, the lock
\* of the subject is granted in the end and some commit gets through.
Fairness ==
  \A r \in Run : /\ SF_vars(Start(r))
                 /\ SF_vars(Fetch(r))
                 /\ SF_vars(LockAndCheck(r))
                 /\ SF_vars(Store(r))

FairSpec == Spec /\ Fairness

-----------------------------------------------------------------------------
\* A followed account always has a token and a cursor.
TypeOK ==
  /\ today \in 0..LastDay
  /\ published \in [Tx -> Statement \cup {None}]
  /\ account \in Account \cup {None}
  /\ Followed => account.token # None /\ account.cursor # None
  /\ imported \subseteq Tx
  /\ lock \in Run \cup {None}
  /\ run \in [Run -> Session \cup {Idle}]
  /\ floor \in Int
  /\ saves \in 0..MaxSaves

\* A run that stores holds the lock, so it meets no row that it did not see:
\* the unique key never throws away the work of a run.
NoDuplicateInsert ==
  \A r \in Run :
    run[r] # Idle /\ run[r].step = "store" => NewRows(run[r]) \cap imported = {}

\* A transaction that a run ought to store: it brings money, it is booked since
\* the account is followed and no longer ago than the longest window.
Due(t) == /\ Followed
          /\ t \in ShownFor(account.token) \cap Incoming
          /\ published[t].day >= floor
          /\ published[t].day >= today - MaxWindow

\* What is due is stored or lies in the window of the next run, whatever order
\* runs end in and however late (within Delay) the bank publishes it.
NothingSkipped ==
  \A t \in Tx \ imported :
    Due(t) => published[t].day >= WindowStart(account.cursor)

\* The cursor may go back, but never more than one overlap behind the day since
\* when the account is followed: neither do repeated runs creep into the past, nor
\* does a run from before the account was started over, although its cursor may
\* come to equal the new one.
NoBackfill == Followed => account.cursor >= floor - Overlap

\* What this means for the user: a transaction from long before the account is followed
\* is never stored, whatever runs repeat, overlap or come late.  The window reaches one
\* overlap back from a cursor that lies at most one overlap back.
OldMoneyStaysOut ==
  [][\A t \in imported' \ imported : published[t].day >= floor - 2 * Overlap]_vars

\* A transaction is stored only while the account it comes from is the one that
\* is configured: an answer that was asked for with another token, or before the
\* account was switched off, is thrown away.
OnlyConfiguredStored ==
  [][\A t \in imported' \ imported :
       Followed /\ published[t].token = account.token]_vars

\* What is due is stored in the end, as long as it stays due.
EventuallyStored == \A t \in Tx : Due(t) ~> t \in imported \/ ~Due(t)

=============================================================================
