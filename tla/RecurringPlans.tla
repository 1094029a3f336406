--------------------------- MODULE RecurringPlans ---------------------------
(***************************************************************************)
(* The recurring plans of a subject: the scheduled job, the plan run by    *)
(* hand and the pages that edit plans (fakturek/main.py, the copies in     *)
(* fakturek/api_v1.py).                                                    *)
(*                                                                         *)
(* A run looks for the plans that are due and serves them one after        *)
(* another, each in a database transaction of its own: it clones the       *)
(* template, gives the document a number, mails it, and commits document   *)
(* and next date together.  Nothing locks the plan.  The numbers come from *)
(* InvoiceNumbering, of which this much is kept: a number is worked out    *)
(* from the snapshot of the transaction under the lock of the series, and  *)
(* the unique key refuses one that is taken by then.                       *)
(*                                                                         *)
(* Days are integers and every interval has Step days.                     *)
(***************************************************************************)
EXTENDS Integers, FiniteSetsExt

CONSTANTS
  Plan,       \* identifiers of plans
  Broken,     \* plans whose template cannot be used
  Run,        \* runs that may be in flight at the same time
  Step,       \* days between two documents of a plan
  None,       \* no plan, no document, nobody
  Foreign,    \* a document that no plan has made
  LastDay,    \* bound: the last day that is explored
  MaxNumber,  \* bound: the last number of the series
  MaxSaves    \* bound: how often plans are written by hand

VARIABLES
  today,      \* the local date
  plan,       \* the row of each plan, None when it does not exist
  document,   \* the document of each number, None when the number is free
  counter,    \* last_counter of the series
  lock,       \* which run holds the row lock of the series
  run,        \* what each run knows
  mailed,     \* mails that left: number, plan and date of the document
  given,      \* history: numbers that were taken back after they were given
  drafted,    \* history: plans that have made a draft
  saves       \* numbers the writes by hand

vars == <<today, plan, document, counter, lock, run, mailed, given, drafted, saves>>

Days == 0..(LastDay + Step)

Numbers == 1..MaxNumber

\* since: the write by hand that chose the date from which the plan goes on.
PlanRow == [next : Days, active : BOOLEAN, mode : {"draft", "issue", "send"},
            since : 0..MaxSaves]

Document == [plan : Plan, date : Days, since : 0..MaxSaves, forced : BOOLEAN]

Mail == [number : Numbers, plan : Plan, date : Days]

\* view: what the transaction sees, None before its first read; high: the largest
\* counter or number; at: the plan that is served.
View == [plan : [Plan -> PlanRow \cup {None}], high : 0..MaxNumber]

Session == [day : Days, forced : BOOLEAN, todo : SUBSET Plan, view : View \cup {None},
            at : Plan \cup {None}, step : {"next", "number", "commit", "mailed"},
            number : Numbers \cup {None}]

ASSUME RecurringAssumption ==
  /\ Broken \subseteq Plan
  /\ Step \in Nat \ {0}
  /\ LastDay \in Nat
  /\ MaxNumber \in Nat
  /\ MaxSaves \in Nat
  /\ None \notin Plan \cup Run \cup Numbers \cup PlanRow \cup Document \cup View \cup Session
  /\ Foreign \notin Document \cup {None}

Taken == {n \in Numbers : document[n] # None}

Due(p) == plan[p] # None /\ plan[p].active /\ plan[p].next <= today

-----------------------------------------------------------------------------
(* The calendar and everybody else *)

NextDay ==
  /\ today < LastDay
  /\ today' = today + 1
  /\ UNCHANGED <<plan, document, counter, lock, run, mailed, given, drafted, saves>>

High == Max({0, counter} \cup Taken)

\* Another document of the series is issued.
IssueOther ==
  /\ lock = None
  /\ High < MaxNumber
  /\ document' = [document EXCEPT ![High + 1] = Foreign]
  /\ counter' = High + 1
  /\ UNCHANGED <<today, plan, lock, run, mailed, given, drafted, saves>>

\* A document is deleted or goes back to a draft.
TakeBack(n) ==
  /\ document[n] # None
  /\ document' = [document EXCEPT ![n] = None]
  /\ given' = given \cup {n}
  /\ UNCHANGED <<today, plan, counter, lock, run, mailed, drafted, saves>>

-----------------------------------------------------------------------------
(* The pages and the API that write plans *)

\* A plan is created, edited or paused; writing another date starts it anew.
Save(p, next, active, mode) ==
  /\ saves < MaxSaves
  /\ plan' = [plan EXCEPT ![p] =
       [next |-> next, active |-> active, mode |-> mode,
        since |-> IF plan[p] # None /\ plan[p].next = next THEN plan[p].since ELSE saves + 1]]
  /\ saves' = saves + 1
  /\ UNCHANGED <<today, document, counter, lock, run, mailed, given, drafted>>

Remove(p) ==
  /\ plan[p] # None
  /\ plan' = [plan EXCEPT ![p] = None]
  /\ UNCHANGED <<today, document, counter, lock, run, mailed, given, drafted, saves>>

-----------------------------------------------------------------------------
(* Runs *)

Idle == None

Snapshot == [plan |-> plan, high |-> High]

StartRun(r, forced, todo) ==
  /\ run[r] = Idle
  /\ todo # {}
  /\ run' = [run EXCEPT ![r] =
       [day |-> today, forced |-> forced, todo |-> todo, view |-> Snapshot,
        at |-> None, step |-> "next", number |-> None]]
  /\ UNCHANGED <<today, plan, document, counter, lock, mailed, given, drafted, saves>>

\* The scheduled job.
StartJob(r) == StartRun(r, FALSE, {p \in Plan : Due(p)})

\* The button "run now", and the API, which need not force.
StartByHand(r, p, forced) ==
  /\ plan[p] # None
  /\ plan[p].active
  /\ StartRun(r, forced, {p})

Seen(r) == run[r].view.plan[run[r].at]

RunDate(r) == IF run[r].forced THEN run[r].day ELSE Seen(r).next

\* The run goes on with its other plans, in a new transaction.
GoOn(r, s, p) ==
  run' = [run EXCEPT ![r] =
    IF s.todo = {p} THEN Idle
    ELSE [s EXCEPT !.todo = s.todo \ {p}, !.at = None, !.step = "next", !.number = None]]

Unlocked(r) == IF lock = r THEN None ELSE lock

\* Mutant of SkipPlan: a plan that cannot be served ends the whole run.
StopAtPlan(r, s, p) == run' = [run EXCEPT ![r] = Idle]

\* A plan without a usable template, or one whose date a former commit has moved
\* on, is passed over; the transaction goes on.
SkipPlan(r, s, p) == GoOn(r, s, p)

\* The list of plans is from the start of the run; their rows are read again after
\* each commit.  A row that is gone by then ends the run.
Serve(r, p) ==
  /\ run[r] # Idle
  /\ run[r].step = "next"
  /\ p \in run[r].todo
  /\ LET s == IF run[r].view = None THEN [run[r] EXCEPT !.view = Snapshot] ELSE run[r]
         row == s.view.plan[p]
     IN  \/ /\ row = None
            /\ run' = [run EXCEPT ![r] = Idle]
         \/ /\ row # None
            /\ p \in Broken \/ (~s.forced /\ row.next > s.day)
            /\ SkipPlan(r, s, p)
         \/ /\ row # None
            /\ p \notin Broken
            /\ s.forced \/ row.next <= s.day
            /\ run' = [run EXCEPT ![r] =
                 [s EXCEPT !.at = p, !.step = IF row.mode = "draft" THEN "commit" ELSE "number"]]
  /\ UNCHANGED <<today, plan, document, counter, lock, mailed, given, drafted, saves>>

\* _issue_invoice_object
TakeNumber(r) ==
  /\ run[r] # Idle
  /\ run[r].step = "number"
  /\ lock = None
  /\ run[r].view.high < MaxNumber
  /\ lock' = r
  /\ run' = [run EXCEPT ![r] = [@ EXCEPT !.step = "commit", !.number = run[r].view.high + 1]]
  /\ UNCHANGED <<today, plan, document, counter, mailed, given, drafted, saves>>

\* The series is exhausted: the plan is noted as failed and the run goes on.
NoNumber(r) ==
  /\ run[r] # Idle
  /\ run[r].step = "number"
  /\ lock = None
  /\ run[r].view.high = MaxNumber
  /\ GoOn(r, [run[r] EXCEPT !.view = None], run[r].at)
  /\ UNCHANGED <<today, plan, document, counter, lock, mailed, given, drafted, saves>>

\* Mutant of KeyAccepts: the unique key is not there.
NoKey(n) == TRUE

KeyAccepts(n) == n # None => document[n] = None

\* Mutant of Flushed: the mail leaves before the document is written.
NotFlushed(r) == TRUE

\* The row of the mail is flushed first, and the document with it.
Flushed(r) == KeyAccepts(run[r].number)

\* The mail of a document leaves before the commit.  When it fails, or leaves and its
\* answer is lost, the document is committed all the same.
SendMail(r) ==
  /\ run[r] # Idle
  /\ run[r].step = "commit"
  /\ run[r].number # None
  /\ Seen(r).mode = "send"
  /\ Flushed(r)
  /\ mailed' = mailed \cup {[number |-> run[r].number, plan |-> run[r].at, date |-> RunDate(r)]}
  /\ run' = [run EXCEPT ![r] = [@ EXCEPT !.step = "mailed"]]
  /\ UNCHANGED <<today, plan, document, counter, lock, given, drafted, saves>>

\* Mutant of NextDate: one interval too far.
NextDateLate(date, day) == date + Step * ((day - date) \div Step + 2)

\* The first date after the day of the run.
NextDate(date, day) == date + Step * ((day - date) \div Step + 1)

\* The ORM writes the date when it differs from the one that the run has read.
Served(r) ==
  LET p == run[r].at
      next == NextDate(RunDate(r), run[r].day)
  IN  [plan EXCEPT ![p] =
        [@ EXCEPT !.next = IF next = Seen(r).next THEN plan[p].next ELSE next]]

Commit(r) ==
  /\ run[r] # Idle
  /\ run[r].step \in {"commit", "mailed"}
  /\ LET p == run[r].at
         n == run[r].number
     IN  /\ plan[p] # None
         /\ KeyAccepts(n)
         /\ plan' = Served(r)
         /\ IF n = None
              THEN /\ drafted' = drafted \cup {p}
                   /\ UNCHANGED <<document, counter>>
              ELSE /\ document' = [document EXCEPT ![n] =
                        [plan |-> p, date |-> RunDate(r), since |-> Seen(r).since,
                         forced |-> run[r].forced]]
                   /\ counter' = n
                   /\ UNCHANGED drafted
         /\ GoOn(r, [run[r] EXCEPT !.view = None], p)
  /\ lock' = Unlocked(r)
  /\ UNCHANGED <<today, mailed, given, saves>>

\* The number is taken: the database transaction is rolled back, and the run goes
\* on with its other plans.
Refused(r) ==
  /\ run[r] # Idle
  /\ run[r].step \in {"commit", "mailed"}
  /\ plan[run[r].at] # None
  /\ ~KeyAccepts(run[r].number)
  /\ GoOn(r, [run[r] EXCEPT !.view = None], run[r].at)
  /\ lock' = Unlocked(r)
  /\ UNCHANGED <<today, plan, document, counter, mailed, given, drafted, saves>>

\* A number that was mailed for a document that is not there after all.
GivenBack(r) == IF run[r].step = "mailed" THEN given \cup {run[r].number} ELSE given

\* The row of the plan is gone: the UPDATE fails, and so does the run.
PlanGone(r) ==
  /\ run[r] # Idle
  /\ run[r].step \in {"commit", "mailed"}
  /\ plan[run[r].at] = None
  /\ given' = GivenBack(r)
  /\ run' = [run EXCEPT ![r] = Idle]
  /\ lock' = Unlocked(r)
  /\ UNCHANGED <<today, plan, document, counter, mailed, drafted, saves>>

\* The process stops.
Abandon(r) ==
  /\ run[r] # Idle
  /\ given' = GivenBack(r)
  /\ run' = [run EXCEPT ![r] = Idle]
  /\ lock' = Unlocked(r)
  /\ UNCHANGED <<today, plan, document, counter, mailed, drafted, saves>>

-----------------------------------------------------------------------------
Init ==
  /\ today = 0
  /\ plan = [p \in Plan |-> None]
  /\ document = [n \in Numbers |-> None]
  /\ counter = 0
  /\ lock = None
  /\ run = [r \in Run |-> Idle]
  /\ mailed = {}
  /\ given = {}
  /\ drafted = {}
  /\ saves = 0

ServeAny(r) == \E p \in Plan : Serve(r, p)

Work(r) ==
  ServeAny(r) \/ TakeNumber(r) \/ NoNumber(r) \/ Commit(r) \/ Refused(r) \/ PlanGone(r)

Next ==
  \/ NextDay
  \/ IssueOther
  \/ \E n \in Numbers : TakeBack(n)
  \/ \E p \in Plan :
       \/ \E next \in 0..LastDay, active \in BOOLEAN, mode \in {"draft", "issue", "send"} :
            Save(p, next, active, mode)
       \/ Remove(p)
  \/ \E r \in Run :
       \/ StartJob(r)
       \/ \E p \in Plan, forced \in BOOLEAN : StartByHand(r, p, forced)
       \/ Work(r) \/ SendMail(r) \/ Abandon(r)

Spec == Init /\ [][Next]_vars

\* The job is started again and again, a lock is granted, and from some time on a
\* run ends only where its own steps end it.
Fairness ==
  /\ <>[][\A r \in Run : Abandon(r) => Work(r)]_vars
  /\ \A r \in Run : SF_vars(StartJob(r)) /\ SF_vars(Work(r))

FairSpec == Spec /\ Fairness

-----------------------------------------------------------------------------
\* The next date of a plan is never further away than one interval.
TypeOK ==
  /\ today \in 0..LastDay
  /\ plan \in [Plan -> PlanRow \cup {None}]
  /\ document \in [Numbers -> Document \cup {Foreign, None}]
  /\ counter \in 0..MaxNumber
  /\ lock \in Run \cup {None}
  /\ run \in [Run -> Session \cup {Idle}]
  /\ mailed \subseteq Mail
  /\ given \subseteq Numbers
  /\ drafted \subseteq Plan
  /\ saves \in 0..MaxSaves

\* A plan that issues its documents makes one document for a date, although
\* nothing locks the plan and runs may overlap: the later one works out a number
\* that the earlier one has taken.  It needs that no number was taken back, and
\* that the plan has made no draft: nothing refuses a second draft, and the later
\* of two runs that make one may set the date of the plan back.
OncePerDate ==
  given = {} =>
    \A m, n \in Numbers :
      /\ m # n
      /\ document[m] \in Document
      /\ document[n] \in Document
      /\ document[m].plan \notin drafted
      /\ ~document[m].forced
      => document[m] # document[n]

\* What a customer has been mailed exists, or is about to be committed by the run
\* that mailed it, unless a number was taken back: by hand, or because the process
\* stopped or the plan was removed between the mail and the commit.
MailedExists ==
  \A m \in mailed :
    \/ m.number \in given
    \/ /\ document[m.number] \in Document
       /\ document[m.number].plan = m.plan
       /\ document[m.number].date = m.date
    \/ \E r \in Run : /\ run[r] # Idle
                      /\ run[r].step = "mailed"
                      /\ run[r].number = m.number
                      /\ run[r].at = m.plan
                      /\ RunDate(r) = m.date

\* "A paused plan cannot be run, activate it first" (api_v1.py, the refusal of
\* _run_recurring_plan_once): a run that reads the rows anew after a commit does not
\* start on a plan that is paused in them.
PausedPlanRests ==
  [][\A r \in Run, p \in Plan :
       /\ run[r] # Idle
       /\ run[r].view = None
       /\ Serve(r, p)
       /\ run'[r] # Idle
       /\ run'[r].at = p
       => plan[p].active]_vars

\* A plan that is due is served in the end, or written by hand, whatever is wrong
\* with the other plans; unless there are no more numbers.
DueIsServed ==
  \A p \in Plan \ Broken : Due(p) ~> ~Due(p) \/ High = MaxNumber

=============================================================================
