----------------------------- MODULE MCLiveness -----------------------------
(* What must end in the end, in one run: the synchronisation with the bank, the
   tax alerts, the requests that number documents and the recurring plans.  They share no variable; in
   each behaviour one of them, its part, moves. *)
EXTENDS BankSync, TaxAlerts

\* Of the numbering.
CONSTANTS Invoice, Series, Prefix, Year, Spelled, MaxCounter, MaxImported, MaxTries,
          Absent, Nobody,
          Pair, Calls   \* two series, and how many calls the part that has them takes

\* Of the recurring plans.
CONSTANTS Plan, Broken, Job, Step, Foreign, LastPlanDay, MaxNumber, MaxPlanSaves

VARIABLES part, number, series, rowLock, req, disturbed, calls,
          planDay, plan, document, counter, planLock, job, mailed, given, drafted, planSaves

Numbering == INSTANCE InvoiceNumbering WITH Request <- Run, lock <- rowLock

\* Two series with one prefix: the editor writes both rows and locks one, so two
\* requests can wait for each other.
Rows == INSTANCE InvoiceNumbering WITH
  Request <- Run, lock <- rowLock, Series <- Pair, MaxCounter <- MaxImported,
  Prefix <- [s \in Pair |-> "none"], Spelled <- [s \in Pair |-> Absent]

Plans == INSTANCE RecurringPlans WITH
  Run <- Job, LastDay <- LastPlanDay, MaxSaves <- MaxPlanSaves,
  today <- planDay, lock <- planLock, run <- job, saves <- planSaves

\* The plans have been made when it begins, the broken one first.  A plan that issues
\* without mailing does what one does whose mail is not sent.
Unmade == INSTANCE RecurringPlans WITH
  Run <- Job, LastDay <- LastPlanDay, MaxSaves <- MaxPlanSaves,
  today <- planDay, lock <- planLock, run <- job, plan <- [p \in Plan |-> None], saves <- 0

PlansMade ==
  /\ Unmade!Init
  /\ planSaves = Cardinality(Plan)
  /\ \E mode \in {"draft", "send"} :
       plan = [p \in Plan |-> [next |-> 0, active |-> TRUE, mode |-> mode,
                               since |-> IF p \in Broken THEN 1 ELSE 2]]

planVars == <<planDay, plan, document, counter, planLock, job, mailed, given, drafted, planSaves>>
numberVars == <<number, series, rowLock, req, disturbed, calls>>
liveVars == <<part, vars, alertVars, numberVars, planVars>>

SharedPrefix == [s \in Series |-> "none"]
Spelling == [s \in Series |-> CHOOSE y \in Year : TRUE]

MCInit ==
  /\ part \in {"bank", "alerts", "numbering", "rows", "plans"}
  /\ Init /\ TaxAlertsInit
  /\ IF part = "plans" THEN PlansMade ELSE Plans!Init
  /\ IF part = "rows" THEN Rows!Init ELSE Numbering!Init
  /\ calls = IF part = "rows" THEN Calls ELSE 0
  /\ Watched(profile, "vat")
  /\ part # "alerts" => profile.limit = 0

Bank(A) == part = "bank" /\ A /\ UNCHANGED <<part, alertVars, numberVars, planVars>>
Alerts(A) == part = "alerts" /\ A /\ UNCHANGED <<part, vars, numberVars, planVars>>
Numbers(A) == part = "numbering" /\ A /\ UNCHANGED <<part, calls, vars, alertVars, planVars>>
TwoRows(A) == part = "rows" /\ A /\ UNCHANGED <<part, vars, alertVars, planVars>>
Served(A) == part = "plans" /\ A /\ UNCHANGED <<part, vars, alertVars, numberVars>>

MCNext ==
  \/ Bank(Next) \/ Alerts(TaxAlertsNext) \/ Numbers(Numbering!Next) \/ Served(Plans!Next)
  \/ \E r \in Run :
       \/ TwoRows(Rows!Begin(r) /\ calls > 0 /\ calls' = calls - 1)
       \/ TwoRows((Rows!Work(r) \/ Rows!Abandon(r)) /\ UNCHANGED calls)

(* As the part never changes, a condition about steps of several modules is one
   about each of them in its own behaviours.  The bank: the job is started again
   and again, the bank answers in the end, the lock of the subject is granted in
   the end and some commit gets through.  The alerts: the job is started again and
   again, mail server and database answer again and again.  The numbering: a thread
   goes on, and the queue of a row lock is served in order.  The plans: the job is
   started again and again and goes on, and no longer dies in the end. *)
MCFairness ==
  /\ \A r \in Run :
       /\ SF_liveVars(Bank(Start(r)) \/ Alerts(ReadSubject(r)) \/ Numbers(Numbering!Work(r))
                      \/ TwoRows(Rows!Work(r) /\ UNCHANGED calls)
                      \/ (r \in Job /\ Served(Plans!StartJob(r))))
       /\ SF_liveVars(Bank(Fetch(r)) \/ Alerts(Summed(r) \/ NothingToMail(r))
                      \/ (r \in Job /\ Served(Plans!Work(r))))
       /\ SF_liveVars(Bank(LockAndCheck(r)) \/ Alerts(SendAlert(r)))
       /\ SF_liveVars(Bank(Store(r)) \/ Alerts(CommitAlert(r)))
  /\ <>[][\A r \in Job : Served(Plans!Abandon(r)) => Plans!Work(r)]_liveVars

MCSpec == MCInit /\ [][MCNext]_liveVars /\ MCFairness

\* A request that numbers a document comes to an end, also when it has to wait for
\* the series row or finds the series exhausted (_allocate_invoice_number).
RequestsEnd == Numbering!RequestsEnd

\* A plan that is due is served in the end, or written by hand, whatever is wrong
\* with the other plans; unless there are no more numbers (_process_recurring_plans).
DueIsServed == Plans!DueIsServed

=============================================================================
