# Fakturek: formal models

Fakturek is a FastAPI application that issues invoices, records payments for them,
synchronises bank accounts and runs recurring plans.  This directory holds TLA+ models of
its parts that keep state, the TLC configurations that check them on small instances, and TLAPS proofs of
what matters most.  `PROJECT.json` maps every definition to the lines it models.

All paths below are relative to `src/`.  "Code" is the code in `fakturek/`.

## 1. How the program runs

One uvicorn process, one MariaDB database (`docs/ARCHITECTURE.md`).  Three facts about this
set-up shape all the models.

* **Handlers.**  `async def` handlers (most web pages) have no `await` after
  `await request.form()`, so each of them is atomic on the event loop with respect to the
  others.  `def` handlers (the whole API, the issue and delete buttons, the internal jobs) run
  in a thread pool and overlap with everything.
* **Transactions.**  A session is one database transaction at REPEATABLE READ: plain SELECTs
  see the snapshot of the first read.  `SELECT ... FOR UPDATE` waits for the row and sees the
  newest row, but the ORM does not refresh an object that is loaded already unless
  `populate_existing` is set.  `autoflush=False` (`fakturek/db.py:47`): nothing is written
  before an explicit flush or the commit.
* **Column-wise UPDATE.**  The ORM writes the columns whose value differs from the loaded one.
  Two overlapping handlers therefore merge their changes column by column.  An UPDATE of a row
  that is gone fails (`StaleDataError`), a foreign or unique key may refuse the commit.

## 2. Inventory

| Component | State | Operations | Hard behaviour | What makes it correct | Module |
|---|---|---|---|---|---|
| Document numbering (`main.py` 10583-10843, 21065-21277, 18521-18966, 21942-22517; `api_v1.py` 5729-5813, 6275-6336; `fakturoid_import.py`) | `invoices.number`, `invoice_series.last_counter`, `.last_year`, row locks | issue (button, editor, API, recurring plan), save, import, revert to draft, delete | stale snapshot after a lock wait, year changes, exhausted series, failure half way | unique, gapless numbers; an issued document keeps its number; every request ends | `InvoiceNumbering` refines `NumberRegistry` |
| Document status and payments (`main.py` 15654-15861, 21280-21562, 22520-22590, 8095-8158; `api_v1.py` 2840-2989, 3033-3399, 6110-6406) | `status`, `sent_at`, `paid_on`, payments, `matched_invoice_id`, `matched_payment_id` | transitions, bulk actions, payments, pairing and unpairing, e-mail, deletion | long detours of legal calls, overlapping handlers without locks | dates follow the status, paid documents have payments, a transaction pays once | `InvoicePayments` |
| Bank synchronisation, Fio API (`main.py` 7803-7956, 8160-8213, 8508-8714, 12037-12387, 13053-13123; `bank_sync.py` 618-735; `bank_account_lock.py`) | account row with cursor, imported rows, subject lock | run (job, button, API), save, remove | configuration changed during the request to the bank, overlapping runs, late booking | nothing skipped, nothing foreign, no duplicates, no creeping into the past | `BankSync` |
| Bank e-mail notifications (`main.py` 8337-8506; `bank_sync.py` 738-830) | last UID, stored mails | baseline, search, parse, import | UIDs against message numbers, a failed FETCH, saves under a run | no mail passed over, no old mail stored | `BankMailbox` |
| Recurring plans (`main.py` 6831-6946, 10194-10487, 19945-20060; `api_v1.py` 1558-1800, 4845-4903) | plan row, generated documents, mails that left | job, run by hand, edit, pause, delete | mail before commit, overlapping runs, edit under a run | one document per date, a mailed document exists, a due plan is served | `RecurringPlans` |
| Document editing, credit notes (`main.py` 10071-10171, 18706-19548, 22332-22749; `api_v1.py` 2307-2478, 4701-4760, 5457-6014) | rows of documents and items, totals | create, save, autosave, copy, issue, revert, delete | two writers of the items, two notes at the same time, a draft issued under an editor | the total is the items', notes within their source, an issued document stays issued | `DocumentEditing` |
| PDF store, public links, mails of documents (`main.py` 16974-17894, 20486-20662, 21280-21402; `api_v1.py` 2603-2830, 4762-4931; `pdf_store.py`; `public_links.py`) | stored files, link, mail log | render, store, remember, show; enable, rotate, disable; queue, send, record | threads that render at the same time, a mail between two commits, a stale token | a file shows its number, the log tells the truth, a withdrawn link stays withdrawn | `DocumentDelivery` |
| Import of documents (`fakturoid_import.py`; `api_v1.py` 2011-2141) | documents, payments, import maps | read, import, renumber, link notes, commit | numbers taken meanwhile, deletions, repeated files | each document once, a native file as a whole | `DocumentImport` |
| Import runs, contacts and catalog (`main.py` 14659-15441, 16244-16436; `importing.py`; `contacts_csv.py`, `catalog_csv.py`, `native_backup*.py`, `fakturoid_import.py` 2134-2902) | run status, upload claim, import maps, records | upload, plan, claim, apply, commit | writes between plan and commit, death of the process, retries | a row becomes one record, no second record of what exists | `ImportRuns` |
| Backup and CSV files (`native_backup.py`, `native_backup_v2.py`, `native_backup_v3.py`, the CSV modules) | the file | export, read | escaping, damage, what the writer lets pass and the reader refuses | a file reads as it was stored, or not at all | `BackupFiles` |
| API idempotency, tokens, quota (`api_v1.py` 3830-4001, 6016-6081) | remembered responses, monthly counters | authorise, count, replay, remember | a retry while the first call is in flight, rights taken in between, synchronisation and mail that are not in the commit of their answer | one answer per key, and most effects once | `ApiCalls` |
| Rate limiter (`rate_limit.py`) | hits per key | check, sweep, evict | clock read before the lock, full table | never more than the limit in a window | `RateLimiter` |
| Sessions, sign-up, password reset (`main.py` 3144-3261, 3922-4713, 11350-11508; `auth.py`) | account row; signed cookies and links | confirm, log in, change, reset, cancel | a request between the check and a new password, several devices | only the current password's credentials are accepted | `Accounts` |
| Subjects and users (`main.py` 7555, 11100-11112, 12626-13017) | links with roles, current subject | create, add, change, remove, switch, cancel | removals through several users and steps | a subject keeps an owner, only owners make owners | `SubjectAccess` |
| Tax alerts (`main.py` 2917-2952, 7046-7400, 11850-11999) | remembered stage and year per limit | sum, mail, commit | a year that ends under a run, overlapping runs, SMTP failure | no stage remembered that was not mailed; a reached stage gets its mail | `TaxAlerts` |
| Bank accounts (`main.py` 5923-6052, 12037-13123) | configuration, default flag, order | add, edit, delete, make default | lock held while the event loop is blocked | one default account | configuration in `BankSync`, `BankMailbox`; the rest not modelled |
| Money and dates, foreign parsers, exports of documents, company registries, PDF layout, translation, migrations, tools | none of their own | conversion, input, output | | | not modelled (section 7) |

Components interact through the database.  Recurring plans and the API issue through the same
allocation as the editor; bank synchronisation, by API or by mail, ends in the pairing of
`InvoicePayments`; the subject lock joins the settings pages and the synchronisation; issuing in
`DocumentEditing` and `DocumentDelivery` stands for the whole of `InvoiceNumbering`, and their
status for that of `InvoicePayments`, as far as their own properties look at it.

## 3. Modules

### 3.1 `NumberRegistry`, `InvoiceNumbering`

`NumberRegistry` is the promise: a set of pairs of an invoice and a number; a number is
assigned only while no other invoice has it, and may be released.

`InvoiceNumbering` is the code.

| Model | Code |
|---|---|
| `number[i]` | committed `invoices.number`: a record of normalised prefix, year and counter; a draft is known by the year of its issue date; `Absent` |
| `series[s]` | committed `last_counter`, `last_year` |
| `lock[s]` | InnoDB lock of the series row |
| `req[r]` | the session of a handler: what it does, its snapshot, the series rows as it loaded and changed them, the dirty columns, the number to write |
| `BeginIssue`, `BeginEditorIssue`, `BeginSave`, `BeginDraftSave`, `BeginImport` | the handlers up to the choice of the series, one action for each way in which they prepare the session |
| `LockAndAllocate`, `AllocationFails` | `_allocate_next_invoice_number`, after the wait |
| `Commit`, `CommitRefused` | flush and commit, accepted or refused by the database |
| `AtFlush`, `Awaits`, `DeadlockEnds` | a handler at its flush, the holders of the rows it has to write; InnoDB ends one request of a ring |
| `Abandon` | an error, a lock wait timeout, the death of the process |
| `RevertToDraft`, `Delete` | handlers that write one constant value to one row |

`Prefix` maps a series to its normalised prefix, so two series can share the numbers they look
at; `Spelled` says for which year the stored prefix of a series is literally the prefix of its
numbers, the only case in which `reconcile_invoice_series_for_subject` finds it.

The model does **not** claim that an allocated number is free in the database.  A request that
waited for the row lock works with its older snapshot and its older copy of the row, may
compute a number that was committed meanwhile, and is then refused by the unique key
(`uq_invoices_subject_number`).  An issue of a document that was numbered meanwhile is not refused, since its own
row is no obstacle; `ReplacedBehindItsBack` says that nothing else replaces a final number.

A handler locks one series row, but the editor and the import write further rows at their flush (`SyncedRows`),
so two of them can wait for each other.  The web handlers of the editor are coroutines without an `await` and never
overlap in one process; several workers, which `SECURITY.md:25` and `README.md:271` allow, make the ring possible.
InnoDB finds it and ends one request (`DeadlockEnds`); `RequestsEnd` says that every request ends all the same.

The history variable `disturbed` notes where the code promises no contiguous numbers: a number was given up or came
from an import, or a row was left with the counter of one year beside another (`Renumbers`, `CrossesYears`).

Simplifications: one document per request (bulk issue and the recurring job issue several, each
in a savepoint or transaction of its own); the flush is part of the commit; the import takes any
free number, which covers its "renumber" mode; the issue date of a numbered document is not
kept, so reverting picks any year; an identifier is reused only when nobody in flight means it,
so `AUTO_INCREMENT` needs no unbounded set.

### 3.2 `InvoicePayments`

| Model | Code |
|---|---|
| `row[i]` | `status`, and whether `sent_at`, `paid_on` are set and the number is final |
| `payment[p]` | `payments`: document, "by hand" note, the transaction it was made for (history) |
| `link[t]` | `matched_invoice_id`, `matched_payment_id` |
| `req[r]` | the change a handler has decided on and not committed |
| `SetStatus` ... `Unmatch` | one operator per handler: the changes it may decide on in the current state |
| `Begin`, `Commit`, `Abandon` | reading and deciding, committing, failing |
| `NewRow`, `NewPayment`, `NewLink` | the rows after the commit |

A handler decides on what is committed when it reads (`Begin`) and its columns are merged into
what is committed when it commits (`Commit`, `Merged`).  `thread` keeps two event-loop handlers
from overlapping.  Amounts are abstracted: `Fits[t]` are the documents whose amount and currency
the transaction has, `Named[t]` those it names by variable symbol.

`DatesFollowStatus`, `PaidHasPayment` and `TransactionPaysOnce` are stated for behaviours without
overlap (`overlaps = 0`), because the code locks nothing there and overlaps break each of them:
two overlapping deletions of the last two payments leave a paid document without a payment; the
API reads the status before an SMTP dialogue and writes "sent" over a payment that came meanwhile;
two matches of one transaction with two documents both commit, and both documents stay paid (run `double_pairing`,
against `SerialPairingKept` without overlap).  `LinksWellFounded` and the
conditions on types hold under every overlap, thanks to the foreign keys.

Simplifications: bulk actions and retries handle one document or transaction at a time; payments
created by imports and backups are not modelled; the web page's e-mail reads the status again
after its first commit, which makes it an ordinary event-loop handler.

### 3.3 `BankSync`

| Model | Code |
|---|---|
| `account` | the row of the bank account: provider, token, cursor, the other compared settings; `cipher` numbers the encryption of the token |
| `imported` | rows of `bank_transactions` |
| `lock` | the lock of the subject (`lock_subject_bank_account_mutations`) |
| `run[r]` | a synchronisation: the configuration it saw, its window, what the bank answered, the rows it sees after the lock |
| `published`, `today` | the bank and the calendar (environment) |
| `floor`, `saves` | history: the day since when the account is followed; the number of saves |
| `Save`, `Remove` | `settings_account_edit`, `settings_account_delete` |
| `Start`, `Fetch`, `LockAndCheck`, `Store`, `Abandon` | the steps of `_sync_subject_bank_account` |

The stored token is encrypted with a random initialisation vector, and the code compares the
*stored* form; a token that is typed in again therefore counts as a new configuration although
it decrypts to the same text.  `SameDecrypted` is the variant that compares decrypted tokens; it
lets a run that started before a save come through.

Simplifications and assumptions: one account per instance (several are handled one after another,
each in a transaction of its own); a provider is enabled exactly when one is chosen, as the form
does it; "other" stands for no provider or e-mail; the cancellation of a user account, which only
switches the provider off, and the restoring of accounts from a backup are left out.
`Delay <= Overlap` is an assumption about the bank, not about the code: a transaction is visible
at most `Delay` days after the day it is booked on.  Transactions older than the cap of 365 days
(`MaxWindow`) are silently never asked for; `Due` says so.  The settings pages check the token
with the bank before they take the lock, which is harmless only because they run on the event
loop one at a time.

### 3.4 `RecurringPlans`

| Model | Code |
|---|---|
| `plan[p]` | the row of `recurring_invoice_plans`: next date, `is_active`, and draft, issue or issue-and-send for `auto_issue` and `auto_send`; `since` (history) is the write by hand that chose the date |
| `document[n]` | which document has the number `n` of the series: one of a plan with its date, or a foreign one |
| `counter`, `lock` | `last_counter` and the row lock of the series |
| `run[r]` | a call of `_process_recurring_plans` or `_run_recurring_plan_once`: its day, the plans it still has to serve, the snapshot of its transaction, the plan it is at and the number it has |
| `mailed`, `given`, `drafted` | history: mails, numbers taken back, plans that made a draft |
| `StartJob`, `StartByHand` | the list of due plans; the button and the API |
| `Serve`, `TakeNumber`, `SendMail`, `Commit` | one plan: clone, number, mail, commit with the next date |
| `NoNumber`, `Refused`, `PlanGone`, `Abandon` | the series is exhausted, the unique key refuses, the row of the plan is gone, the process stops |
| `Save`, `Remove`, `TakeBack`, `IssueOther` | pages and API that write plans; deletion and issue of documents |

What keeps two overlapping runs from making a document each is not a lock on the plan (there is
none) but the unique key of the numbers: both runs work out the same number from their snapshots,
and the later one is refused.  `OncePerDate` says this, and where it stops: drafts have no number, so
two overlapping runs of a plan that only drafts make two drafts, and the later one may set the next
date back; and a number that is taken back while a run is in flight opens the gap again.  The mail
leaves before the commit; since its row is flushed first, the unique key has accepted the document by
then, and only the death of the process or the removal of the plan during the SMTP dialogue leaves a
mail without a document (`MailedExists`).

By design of the code, periods that were missed collapse into one document with the first missed
date, and a forced run moves the schedule to one interval after today.

Simplifications: every interval is `Step` days (months and their ends are left to the pure functions);
a form writes every column, while the code merges those that changed; one series in one year, see
`InvoiceNumbering` for the rest; an unchanged template; the job serves its plans in any order, while
the code sorts them by date.

### 3.5 `DocumentEditing`

| Model | Code |
|---|---|
| `documents`, `lines` | rows of `invoices` (kind, status, source of credit, total) and `invoice_items` |
| `edits[w]` | what a request has decided over its snapshot and not committed |
| `doubled`, `strained` | history: documents and sources for which the code cannot promise anything, see below |
| `Create`, `AutosaveNew`, `Autosave`, `Duplicate`, `CreateCreditNote`, `UpdateDocument` (page), `PatchDocument` (API), `AddItem`, `DeleteItem`, `IssueDocument`, `RevertDocument`, `DeleteDocument` | the handlers of pages and API up to the flush |
| `NetBesides`, `CreditedBesides`, `WithinLimit` | what is left of a source for a note: as the pages compute it, as the API does, and which of the two a handler asks |
| `CommitEdit`, `CommitDelete`, `Rollback` | the column-wise UPDATE with the total summed in the snapshot, foreign keys, failure |

`TotalOfItems` excepts `doubled`, documents whose items two requests changed at the same time: each sums
its own snapshot, and the later total stays.  `CreditWithinSource` excepts `strained`, sources that were
lowered after the note, notes that got an item after they were issued (the page adds items in every
status), notes compared with a remainder that has changed since, and issued notes with a positive total.  The exceptions
are there because the code breaks the claim in each of them.

The last one is a matter of signs.  The pages take the size of the *signed sum* of the issued notes, less the size of the
own one (`main.py` 10142, 10160); the API adds up the *sizes* of the other notes (`api_v1.py` 5611).  The two agree as long
as all issued notes give back (lemma `RemaindersAgree`), and the code converts no note to that sign: with one note of
each sign the pages offer more than there is, without any overlap (run `mixed_notes`, against `CheckedNoteFits`).
`IssuedStaysIssued` has no exception; it lives on the ORM writing only
the columns whose value differs.  Reverting changes the status and sums nothing; every other edit sums the items again.

Simplifications: discount and rounding are part of the items; quotes and proformas have no total to guard;
an editor's form has one item, and one item is added at a time; numbers are the matter of `InvoiceNumbering`.

### 3.6 `DocumentDelivery`

| Model | Code |
|---|---|
| `doc` | one row of `invoices`: status, number, revision of the text, `public_token`, `pdf_path`, `pdf_generated_at`, `updated_at` |
| `files` | the PDF store, by the number in the file name; a PDF is the revision it shows |
| `errand[a]` | a request: rendering, queueing, talking to the mail server, linking |
| `mailLog`, `left`, `confirmed` | `invoice_emails`; history: the mails that the mail server has taken, and those of which the sender was told so |
| `linked` | history: tokens that were withdrawn or replaced |
| `ShowPdf`, `Store`, `RememberPdf`, `RememberWithMail`, `PdfFails` | render, write the file, remember it in the row |
| `Edit`, `Issue`, `MarkPaid`, `Revert` | the handlers that change what a PDF shows |
| `OpenLink`, `CommitLink`, `Visit` | enabling, rotating and disabling the link; a visitor |
| `OpenMail`, `QueueMail`, `SmtpAccepts`, `SmtpFails`, `RecordMail`, `MarkMailed` | the mail of a page, in three transactions |
| `OpenApiMail`, `FlushMail`, `CommitApiMail` | the mail of the API, in one transaction that holds the row |
| `Lost`, `Tick` | death of the process or an error; the clock of the time stamps |

`Page` is the event loop, `Pool` the threads.  A mail of the API that left before a failed commit is
missing in the log: `MailLog` speaks of what left through a page.  `send_via_smtp` (`emailing.py:182`, a time limit of
10 seconds) may also raise after the server has taken the mail, when its answer is late or lost; the handlers then
log an error for a mail that has left.  `SmtpFails` has both outcomes, and `MailLog` promises only that no mail is logged as
an error which the server has *confirmed*.  Not excluded, and therefore not a
property: a PDF rendered before an edit may be remembered as fresh after it, because freshness compares time
stamps; the next change of the row renders it again.

### 3.7 `DocumentImport`

| Model | Code |
|---|---|
| `papers`, `payments` | documents and their payments, with the file identity they came from |
| `paperMap`, `payMap` | `import_maps` |
| `batch` | the transaction of a run: snapshot, remaining rows, what it made |
| `StartBatch`, `SkipMapped`, `SkipNumber`, `ImportPaper`, `SkipBroken`, `CommitBatch`, `AbortBatch` | one document after another, then one commit or none |
| `CreatePaper`, `DeletePaper`, `DeleteImportedPayment` | the API and the deletions, in threads |

A behaviour has one `paperFormat`: the program's own XML of version 1 or 2, or `foreign` (Fakturoid, Pohoda,
Money S3, ISDOC, PDF), whose broken documents are left out one by one (a savepoint each) while an own file is
refused as a whole.  Version 2 also refuses a file whose earlier import is no longer what it says.  The
parsers are abstracted to `DataOf`.  Simplifications: issued documents in one currency.

### 3.8 `BankMailbox`

| Model | Code |
|---|---|
| `inbox`, `arrived` | the mailbox: mails are their UIDs, their place is the message number |
| `mailAccount` | the row: switched on, parser, `imap_last_uid` |
| `mailRows` | `bank_incoming_emails`: stored, parsed or failed |
| `mailRun[r]` | the detached copy a run works with and what it fetched |
| `baseline`, `unfetched`, `holes` | history: where following began, failed FETCHes, deletions |
| `ArriveMail`, `ExpungeMail` | the outside world |
| `SaveMailAccount`, `RemoveMailAccount` | settings page, API |
| `StartMailRun`, `FetchMails`, `StoreMails`, `DropMailRun` | a run |

`Searched` does what the search command does: `n:*` without `UID` selects message numbers and always holds
the last mail.  As long as nothing is deleted, numbers and UIDs agree; `NoMailSkipped` says so and stops at
`holes` and at a failed FETCH, over which the code passes silently.  What a stored mail pays is the matter of
`InvoicePayments`.  Left out: a mail the API imports by hand under a made-up UID; what the bank parsers read.

### 3.9 `ImportRuns`

| Model | Code |
|---|---|
| `importRuns` | `import_runs` with the claim of a file (`dedupe`), status and mode |
| `importJob` | the run being processed: its plan, what it saw, its phase |
| `records` | contacts or catalog items; `row` is the external identity an import leaves |
| `rowMap` | `import_maps` |
| `Upload`, `UpdateConfig` | upload with its idempotency, choice of the mode |
| `PlanFails`, `Claim`, `Apply`, `CommitImport`, `ImportFails`, `ImportCrash` | the preview or plan, the claim in a transaction of its own, the application in another |
| `CreateRecord`, `PatchRecord`, `DeleteRecord` | API and pages in threads, between and inside the transactions |

`importSource` chooses one of six formats per behaviour; they differ in how an upload is recognised
(`IdempotentUpload`), whether they plan ahead, whether they check the plan again under row locks (`Rechecks`)
and whether they overwrite.  `NoSecondRecord` is stated for those that check again, the only ones whose code
means to.  A run whose process died stays `running` for ever; `Upload` then refuses the file or, in the
formats without claims, takes it again.

### 3.10 `BackupFiles`

| Model | Code |
|---|---|
| `stored` | contacts, catalog items, bank accounts, series, per dataset |
| `backupFile`, `damaged` | the file: members with their rows and, for archives, the manifest with digests and counts |
| `readBack` | what the reader returned, or that it refused |
| `ExportFile`, `ReadFile`, `Damage` | writer, reader, somebody in between |

Five formats.  A text is what writers and readers tell apart: leading apostrophes, a formula character,
blanks around it, a line separator inside it, or something the target refuses (`unfit`).  `ReadAsStored`
joins both escapings, the digests, the limits and the reader.  `WrittenIsReadable` excepts texts with
U+2028 or U+0085 inside: the writers of versions 1 and 2 let them pass, and the readers split lines at them
(`native_backup.py:277`, `native_backup_v2.py:324`).

### 3.11 `TaxAlerts`

| Model | Code |
|---|---|
| `turnover[y]`, `alertYear` | what the documents of the year add up to in crowns; the clock |
| `profile` | alerts on, VAT payer, limit of the flat tax (0: standard regime) |
| `alerted` | remembered stage and year, for VAT and flat tax |
| `alertRun[r]`, `alertMails` | runs of the job; what left |
| `ReadSubject`, `Summed`, `NothingToMail`, `SendAlert`, `CommitAlert`, `SmtpFails`, `AlertRunEnds` | the job, per subject |
| `YearPasses`, `TurnoverChanges`, `SaveProfile` | the surroundings |

The sum and the mail each ask the clock, so at midnight of New Year one may speak of another year than the
other; `AlertBacked` holds all the same.  By behaviour of the code, a changed profile does not reset the
stages, and two overlapping runs may mail twice.

### 3.12 `Accounts`

| Model | Code |
|---|---|
| `user`, `password` | row of `users`: active, confirmed, cancelled, `session_version`, `session_max_age_days`; the number of the password |
| `cookie[d]`, `resetLinks` | signed sessions and links; nothing of them is on the server |
| `visit[d]` | a request the middleware has let pass |
| `confirming[w]` | the confirmation in its thread, with what it has read |
| `accepted` | history: which password a credential stood for when it was accepted |
| `ReadConfirmation`, `Confirm`, `SignIn`, `SignOut`, `Visit`, `EndVisit`, `ChooseAge`, `ChangePassword`, `MailReset`, `ResetPassword`, `CancelUser`, `PassTime` | the pages and the clock |

Behaviour of the model without a property: a confirmation that has read the account before its cancellation
writes it active afterwards, column by column.

### 3.13 `SubjectAccess`

| Model | Code |
|---|---|
| `existing`, `standing`, `link`, `followed` | subjects, users, `user_subjects`, subjects with a synchronised account |
| `at[p]`, `request[p]` | the subject of the session; a request the middleware has let pass, with the subject it was let pass for |
| `LogIn`, `LogOut`, `ShowPage`, `Admit`, `Refuse` | session and middleware |
| `SwitchSubject`, `CreateSubject`, `SignUp`, `CreateUser`, `LinkUser`, `UpdateAccess`, `DeleteAccess`, `FollowBank`, `CancelAccount` | the handlers, each reading its rights again |

The handlers are coroutines without an `await` after the form, which is why two removals of the last two owners
cannot both count the other one.  The right to edit stands for the rights to issue and export too.  The
middleware refuses a POST to a user whose current subject is read-only (`main.py` 3144-3261), and the
cancellation of an account counts cancelled co-owners as owners (`main.py` 11100-11112); both are in the model.

### 3.14 `EffectRegister`, `ApiCalls`

| Model | Code |
|---|---|
| `usable`, `right` | tokens that work; what the user may do, which pages change under calls |
| `usage` | the counter of the month |
| `kept` | `api_idempotency_keys` |
| `call[w]` | a call: counted, opened with the counter it read, working, its mail sent |
| `KindOf[k]` | what the path in the key serves: a plain write, the synchronisation of all accounts, the mail of a document |
| `tried` | history: what calls with a key did before their answer was committed |
| `Authorise`, `CountCall`, `OpenCall`, `CommitCall`, `DropCall` | first transaction (token, count), second one (rights again, replay, effect with its answer) |
| `SyncAccount`, `MailOfCall` | what commits or leaves before that commit |
| `RevokeToken`, `CreateToken`, `ChangeRights` | the pages |

`EffectRegister` is the promise of the Idempotency-Key: effects that are made and told in one step, one per key, and
answers that can only be repeated to calls with the same body.  Only of some keys (`Whole`) is this the whole effect; with
the others things may be tried any number of times besides.  `docs/API_V1.md:162` lists all these endpoints alike, but
`run_subject_bank_sync` commits each account on its own (`api_v1.py` 7152, 7177, 7190) before the answer is remembered
(3481-3492), and `send_invoice_email` mails first, and commits a failure without keeping an answer (2789-2799); two calls,
or one that is repeated after a crash, then do it again.  For the synchronisation that is harmless (`NoDuplicateInsert`);
a mail may leave twice.  `ApiCalls` implements the register (`EffectRegisterSpec`) with `effects`, `tried` and `answers`,
which are history.  Counts are lost when calls of a token overlap: each writes what it read plus
one.  The quota is therefore no property of the model.

### 3.15 `RateLimiter`

| Model | Code |
|---|---|
| `known`, `before` | the keys of the table (an `OrderedDict`), and which of two keys was used earlier |
| `bucket`, `swept` | their hits, the last sweep |
| `checker[w]` | a thread that has read the clock and waits for the lock |
| `passed` | history: the hits let through since the key was evicted |
| `ReadClock`, `Ask`, `Tick` | `check` before and under the lock; the clock |

The clock is read before the lock, so a later thread may enter an earlier time: hits are then out of order, and
pruning from the front may leave old ones.  `WindowLimit` holds for windows shortened by `Lag`, the longest wait.
A key that is evicted from a full table starts anew, by design; `passed` starts anew with it.
`RefusedForCause` is the other side: whoever is refused got through `Hits` times in the last window, lengthened by
`Lag`; neither hits that are long past nor those of other keys lock anybody out.

### 3.16 How the modules are run together

`Common` declares `None`.  The modules of sections 3.5 to 3.15 share no variable with each other, and their
product would only multiply states.  `MCDocuments` (payments, editing, delivery, import, mailbox), `MCOffice`
(import runs, backups, alerts, accounts, access, API, limiter) and `MCLiveness` (bank, alerts, numbering, rows, plans) have a
variable `part` that never changes and says which of them moves; the others stay where they start, in one
initial state.  `MCDocumentEditing` is the editing alone, with amounts of two sizes.  `MCInvoiceNumbering` does the same with two sizes of one module (`instance`): two series that
share a prefix in one year, and one series over two years.  `MCLiveness` has two instances of the numbering as well:
one series, and two series of which a request locks one row and writes both (*rows*).

## 4. Runs

| Run | Module, cfg | Bounds | Shows |
|---|---|---|---|
| `numbering` | `MCInvoiceNumbering`, `numbering.cfg` | 2 documents, 2 requests, tries to 2; either 2 series with one prefix, 1 year, counters to 2, or 1 series, 2 years, counters to 1 | `NumbersUnique`, `Gapless`, `ReplacedBehindItsBack`, refinement of `NumberRegistry` |
| `renumbering` | same, `renumbering.cfg` | 1 series, 2 years, counters to 2 | **violated**: a draft issued twice at once, in different years, gets a second number |
| `documents` | `MCDocuments`, `documents.cfg` | *payments*: 2 documents, 2 payments, 1 transaction, 2 handlers, 1 overlap; *editing*: 3 documents, 3 requests, 1 amount, page and 1 thread; *delivery*: 1 number and the draft, 1 edit, 1 mail, 3 requests, clock to 1, page and 1 thread; *import*: 3 formats, 2 files of 3 documents, 1 payment, 4 numbers, 4 rows, 1 other write; *mailbox*: 2 runs, 3 mails, 2 saves | `LinksWellFounded`, `DatesFollowStatus`, `PaidHasPayment`, `TransactionPaysOnce`, `SerialPairingKept`; `TotalOfItems`, `CreditWithinSource`, `IssuedStaysIssued`; `MailLog`, `FileOfNumber`, `WithdrawnStaysWithdrawn`; `PaperImportedOnce`, `NativeImportWhole`; `NoMailSkipped` |
| `office` | `MCOffice`, `office.cfg` | *import*: 6 formats, 2 runs, 3 files (1 damaged), 2 rows, 3 records, 2 other writes (1 with the backups); *backup*: 5 formats, 2 rows per dataset, 2 accounts, 3 names of series; *alerts*: 2 runs, 2 years, turnovers 0 and 13 against limits of 10, 13 and 9, 1 change of turnover, 1 of the profile; *accounts*: 2 devices, 1 confirming thread, 3 passwords, clock to 2; *access*: 3 persons, 2 subjects, owners and managers, 4 requests; *api*: 2 callers, 1 token, 3 keys (one of each kind, one of them per behaviour), 2 bodies, quota 3, 2 effects, 1 change of rights; *limiter*: 3 clients, 2 threads, 2 hits in a window of 2, table of 2, lag 1, clock to 4, 4 checks | `ImportedOnce`, `NoSecondRecord`; `ReadAsStored`, `WrittenIsReadable`; `AlertBacked`; `OnlyCurrentPassword`; `SubjectHasOwner`, `OwnersMakeOwners`; `EffectRegisterSpec`; `WindowLimit`, `RefusedForCause` |
| `unpaid_states` | `MCInvoicePayments`, `unpaid_states.cfg` | 1 document, 1 handler | **violated**: editing a payment makes a draft or a cancelled document paid |
| `double_pairing` | same, `double_pairing.cfg` | as *payments* | **violated**: matches of one transaction with two documents both commit |
| `mixed_notes` | `MCDocumentEditing`, `mixed_notes.cfg` | 3 documents, 3 requests of the editor, one after the other, amounts 1 and 2 of either sign | **violated**: with issued notes of both signs the editor lets the notes exceed their source |
| `mailbox_baseline` | `BankMailbox`, `mailbox_baseline.cfg` | 1 run, 3 mails, 2 saves | **violated**: the run after the baseline stores an old mail |
| `bank_sync` | `MCBankSync`, `bank_sync.cfg` | 2 transactions (1 incoming), 2 tokens, 2 runs, 3 saves, 3 days, overlap 1, cap 2, delay 1 | `NoDuplicateInsert`, `NothingSkipped`, `NoBackfill`, `OnlyConfiguredStored` |
| `liveness` | `MCLiveness`, `liveness.cfg` | *bank*: 1 transaction, 1 token, 2 runs, 2 saves, 2 days; *alerts*: 2 runs, 2 years, 2 changes of turnover; *numbering*: 2 documents, 1 series, counter to 1, imports to 2; *rows*: 2 series with one prefix, counters to 2, 3 calls; *plans*: 2 plans (1 broken), 1 run, 1 day, 2 numbers, 2 writes | `EventuallyStored`, `VatAnnounced`, `RequestsEnd`, `DueIsServed` |
| `recurring` | `MCRecurringPlans`, `recurring.cfg` | 1 plan, 2 runs, 2 days, 2 numbers, 2 writes of the plan | `OncePerDate`, `MailedExists` |
| `paused` | same, `paused.cfg` | 2 plans, 1 run, 1 day, 3 writes | **violated**: a plan that is paused while the job serves another one is served |

Why the bounds are enough to be interesting.  Two requests are the least that overlap, and the
hazards of section 2 are all between two.  Two series with one prefix make the second series
overlook or find the numbers of the first.  A counter limit of 1 or 2 makes a series exhausted
within the run, `MaxImported` above `MaxCounter` (`liveness`) gives imported numbers beyond it.  *Payments* has
two payments, so that deleting one leaves one.  The constraint `UntilOverlapEnds` follows a
behaviour until its first overlap is over: invariants that speak about `overlaps = 0` see all
serial behaviours, `LinksWellFounded` also all states during and at the end of one overlap.
`bank_sync` has three days with an overlap of one and a cap of two, so the cap, the overlap and
late publication all bite; three saves are switching on, off and on again.
`recurring` has two runs of one plan, because the plan is what they compete for, two numbers, so that
the later run can be refused and succeed afterwards, and two writes, so that a plan is created and then
edited, paused or given another mode under a run; the constraint `Bounded` leaves out what follows
after an edited plan *and* a number that was taken back, where the invariants promise little.
*Plans* has two plans, made at the start, so that the broken one may be served first.

*Editing* has three documents, a source and two notes for it (there from the start, as drafts, or made on the way), and three requests, so that two overlap and a third
one looks at the result.  Its one amount keeps the run small; amounts of two sizes are in `mixed_notes`, and the proof of
`CreditsFitTheirSource` is for all.  *Delivery* has a request for each of rendering, mailing and linking; the placeholder of a
draft and one number are what a document moves between.  The files of *import* are an invoice with one and with
two notes, which list a note before its invoice and share documents; the numbers are so few that renumbering and a
number taken by another handler both happen.  *Mailbox* has one mail that the parser does
not understand (`Legible`), between two that it does; the constraint `UntilExpunged` stops where a mail was deleted, since nothing is
promised after that.  *Import runs*: two files share a row, one has two rows alike, one is damaged, and two rows
have different business keys, so that maps, repair, matching and creation all occur; what others do twice to records
meets the CSV files and foreign imports, once the backups, whose modes multiply the states (`FewWrites`).  *Backup*: one row more than
`RowLimit` is stored as well, and two names of series are one to the database.  *Alerts*: 13 is above every limit and
0 below; with 10 and 9 a turnover reaches all stages at once, and a year ends in the middle of a run.  *Limiter*: a
table of two for three clients evicts and has an order of use; four checks are two hits, a refusal and one more after
the window, or three clients and the one that was evicted.  *API*: calls with
different keys meet only in the count of the month, so the constraint `OneKey` gives all calls of a behaviour the same.  *Rows*: three calls are two requests that wait for each
other and one that comes after them; without a bound two rows would multiply the states, and that nobody is overtaken
for ever by later requests is what *numbering* checks, where their number has no bound.

Deadlock checking is on in `unpaid_states` and `double_pairing`; in the other runs a behaviour may end because the
bounds are used up.

Symmetry: documents, requests, payments, transactions, runs and tokens are interchangeable; series are not, because
`Spelled` tells one apart, and neither are the files and rows of imports.  `office` gives the threads, runs and devices
of its parts the same model values, and what they exchange another set, so that two permutation groups serve
all parts.  No run with a liveness property uses symmetry.

Fairness.  `InvoiceNumbering!Fairness` is strong fairness of the work of each handler: a thread
goes on, and InnoDB serves the queue of a row lock in order, so a waiting request is not overtaken
for ever.  It does not promise success: `AllocationFails`, `CommitRefused` and `Commit` all end a
request.  `BankSync!Fairness` is strong fairness of each step of a run: the scheduled job
(`tools/run_bank_sync.sh`) comes again and again, the bank answers in the end, the lock is granted
in the end; a run may still be abandoned and discarded any number of times.
The alerts of `liveness` have the same of their job: the scheduler calls it again and again, and the mail server and
the database answer again and again.  `MCFairness` writes these conditions per step and run over the steps of all parts;
since `part` never changes, each is a condition on the one part that moves.
`RecurringPlans!Fairness` is strong fairness of the job (`tools/run_recurring.sh` calls it again and
again) and of the work of each run (`Work`), and the assumption that the process stops in the middle of a run only
finitely often: one that always dies before the commit serves nothing.

## 5. Disagreements between the code and its own words

Each of these is a run that TLC must find violated.  What is true of a refuted claim is stated beside it and proved
(section 6), except for `paused`, of which nothing remains to be said.

* `renumbering`: `main.py:21101` and `api_v1.py:6277` refuse to issue a document that is no longer
  a draft, but the status is looked at before the wait for the series row and not again.  True is
  `ReplacedBehindItsBack`: only an issue that has read the document as a draft replaces a final number.
* `unpaid_states`: `main.py:15731` and `docs/API_V1.md:496` allow payments for issued, sent or paid
  documents only, but `_refresh_invoice_payment_state` (`api_v1.py:6234`) makes any document with a
  remaining payment paid.  True, without overlap, is `PaidByWhatItKept`: such a document becomes paid only by
  payments it has had all along, and nothing records a new one for it.
* `double_pairing`: `api_v1.py:6352` refuses a transaction that is paired with another document, but
  the check is made in a snapshot and nothing is locked: two documents are paid by one transaction.  True without overlap (`SerialPairingKept`).
* `mixed_notes`: `main.py:22271` lets nobody exceed the amount of the source invoice, but the remainder of the pages
  (`main.py:10160`) counts a note that charges more against one that gives back, and then takes the own note off besides.
  True, as long as no issued note charges more, is `CreditWithinSource`.
* `paused`: `api_v1.py:4855` and `docs/API_V1.md:447` refuse to run a paused plan, and the job selects the
  active ones, but a plan that is paused while the job serves another one is read again and served.
* `mailbox_baseline`: `main.py:8721` tells the user that a starting point was set and that the next synchronisation takes
  only new movements, but the search `n:*` (`bank_sync.py:766`) always holds the last mail, the baseline stores no row
  for it, and so the next run stores and matches it.  True, until a mail is deleted, is `HistoryStays`: of the history
  it is that one mail only.

## 6. Proofs

For every value of the constants that satisfies the named assumptions of the modules.  Beyond types and the bounds of
the runs, these say: the bank is never later with a transaction than the overlap (section 3.3); whoever waits for the
lock of the limiter waits at most `Lag` (3.15); `None` is none of the values it is told from (a number, a document or its row, a
status, a format, a row of a file), as a null or an absent row in the code is none of the values of its column; only
mails that exist are notices of the bank (`Notice \subseteq UID`); the payments of a file are finitely many and none
of them is a document (`DocumentImportAssumption`: two maps of the code, `import_maps` by entity type).

The proofs lie in eight modules: one each for the numbering, the synchronisation, the payments and the plans;
`EditingProofs` for `DocumentEditing`; `AccessProofs` for `Accounts`, `SubjectAccess`, `ApiCalls` and `RateLimiter`;
`OfficeProofs` for `ImportRuns`, `TaxAlerts` and `BackupFiles`; `DocumentProofs` for `DocumentDelivery`, `BankMailbox`
and `DocumentImport`.

| Theorem | Statement |
|---|---|
| `InvoiceNumberingProofs!TypeCorrect` | `Spec => []TypeOK` |
| `UniqueNumbers` | `Spec => []NumbersUnique` |
| `LockDiscipline` | `Spec => []LockHolderHasNumber` |
| `ImplementsRegistry` | `Spec => RegistrySpec` |
| `OnlyStaleIssuesReplace` | `Spec => ReplacedBehindItsBack` |
| `BankSyncProofs!TypeCorrect` | `Spec => []TypeOK` |
| `InsertsAccepted` | `Spec => []NoDuplicateInsert` |
| `ConfiguredOnly` | `Spec => OnlyConfiguredStored` |
| `AllInWindow` | `Spec => []NothingSkipped` |
| `NoCreepingBack` | `Spec => []NoBackfill` |
| `OldTransactionsStayOut` | `Spec => OldMoneyStaysOut` |
| `InvoicePaymentsProofs!TypeCorrect` | `Spec => []TypeOK` |
| `LinksHold` | `Spec => []LinksWellFounded` |
| `DatesFollow` | `Spec => []DatesFollowStatus` |
| `PaidIsPaid` | `Spec => []PaidHasPayment` |
| `PaysOnce` | `Spec => []TransactionPaysOnce` |
| `PairingKeptInTurn` | `Spec => SerialPairingKept` |
| `UnissuedPaidByItsPayments` | `Spec => PaidByWhatItKept` |
| `InvoiceNumberingProofs!NumbersWithoutHole` | `Spec => []Gapless` |
| `RecurringPlansProofs!PlansTypeCorrect` | `Spec => []TypeOK` |
| `OneDocumentPerDate` | `Spec => []OncePerDate` |
| `MailedDocumentsExist` | `Spec => []MailedExists` |
| `AccessProofs!OneEffect` | `ApiSpec => []OneEffectPerKey` |
| `ImplementsEffectRegister` | `ApiSpec => EffectRegisterSpec` |
| `ApiCallsTypeCorrect` | `ApiSpec => []ApiCallsTypeOK` |
| `LimiterWindow` | `LimiterSpec => []WindowLimit` |
| `RefusalsHaveCause` | `LimiterSpec => RefusedForCause` |
| `RateLimiterTypeCorrect` | `LimiterSpec => []RateLimiterTypeOK` |
| `AccountsTypeCorrect` | `AccountsSpec => []AccountsTypeOK` |
| `OldPasswordsWorthless` | `AccountsSpec => []OnlyCurrentPassword` |
| `OwnerStays` | `AccessSpec => []SubjectHasOwner` |
| `OwnersOnlyByOwners` | `AccessSpec => OwnersMakeOwners` |
| `SubjectAccessTypeCorrect` | `AccessSpec => []SubjectAccessTypeOK` |
| `OfficeProofs!ImportRunsTypeCorrect` | `ImportSpec => []ImportRunsTypeOK` |
| `RowsImportedOnce` | `ImportSpec => []ImportedOnce` |
| `PreviewsAreKept` | `ImportSpec => NoSecondRecord` |
| `RememberedWasMailed` | `TaxAlertsSpec => []AlertBacked` |
| `BackupReadsBack` | `BackupFilesSpec => []ReadAsStored` |
| `BackupsAreReadable` | `BackupFilesSpec => []WrittenIsReadable` |
| `TaxAlertsTypeCorrect` | `TaxAlertsSpec => []TaxAlertsTypeOK` |
| `BackupFilesTypeCorrect` | `BackupFilesSpec => []BackupFilesTypeOK` |
| `DocumentProofs!DeliveryTypeCorrect` | `DocumentDeliverySpec => []DocumentDeliveryTypeOK` |
| `MailsAreLogged` | `DocumentDeliverySpec => []MailLog` |
| `FilesShowTheirNumber` | `DocumentDeliverySpec => []FileOfNumber` |
| `WithdrawnTokens` | `DocumentDeliverySpec => WithdrawnStaysWithdrawn` |
| `MailboxTypeCorrect` | `MailboxSpec => []MailboxTypeOK` |
| `EveryMailIsStored` | `MailboxSpec => []NoMailSkipped` |
| `OldMailsStayOut` | `MailboxSpec => HistoryStays` |
| `DocumentImportTypeCorrect` | `DocumentImportSpec => []DocumentImportTypeOK` |
| `ImportedDocumentsOnce` | `DocumentImportSpec => []PaperImportedOnce` |
| `NativeImportsAreWhole` | `DocumentImportSpec => NativeImportWhole` |
| `EditingProofs!EditingTypeCorrect` | `EditingSpec => []DocumentEditingTypeOK` |
| `ItemsSumUp` | `EditingSpec => []TotalOfItems` |
| `CreditsFitTheirSource` | `EditingSpec => []CreditWithinSource` |
| `IssuedDocumentsStay` | `EditingSpec => IssuedStaysIssued` |

*Numbering.*  Uniqueness is inductive together with `TypeOK`, because the database checks the
unique key against what is committed.  `LockHolderHasNumber` is inductive with `TypeOK` too, because a request
takes a lock together with its number and every way to end releases it.  The
refinement maps the register to the pairs of `number`; each action assigns one free number,
releases one, or stutters.

`Gapless` needs `GaplessInv`: no row of a series is ahead of what the documents of its year show (`Behind`), and of every
request in flight that the numbers of its snapshot are still there, that its rows are no further than its snapshot and
its own number, and that this number follows those of the snapshot (`SessionOK`).  A commit is then either
refused, because the number has been taken, or writes the number that is next.  The proof first failed, and showed what
the run is too small to reach (one document a year in its part with two years): a request of the old year and one of the new year load the same row
and each writes only the columns it has changed (`main.py:10835`), so that the counter of the old year may end up beside
the new year.  The next document of the new year continues that counter and leaves a hole, although
`templates/invoices/_editor.html:282` announces the next free number.  `disturbed` notes such a commit (`CrossesYears`),
as it notes a number that is given up or imported, and the theorem says that nothing else makes a hole.
`OnlyStaleIssuesReplace` needs `Owned`: a request that would write a number over the one a document has by now has read
the document without one, and what it has read was a draft.

*Synchronisation.*  The invariant `Inv` says of every run in flight that its window starts at the
overlap or at the cap and ends on the day the run started (`WindowOK`); that its answer holds
transactions of the window only, and that whatever the window shows beyond the answer is booked in
the last `Delay` days of it (`AnswerOK`); that the run which stores holds the lock, that the account
is the one it saw, and that it sees all stored rows (`HolderOK`).  `NoDuplicateInsert` and
`OnlyConfiguredStored` follow from it.  `NothingSkipped` is inductive with `Inv` once the cap is taken
out of it (`InReach`, equivalent by `ReachIsWindow`): what an answer misses is late in the window,
the new cursor is at most the end of the window, and `Delay <= Overlap`.  `NoBackfill` is far from
inductive: a cursor that lies before `floor` must be the day of a transaction that the bank shows
(`AccountAnchored`), so the next answer has that transaction and the cursor stops there; a run whose
encrypted token is still the stored one carries the same fact (`RunsAnchored`), and the random
encryption is what keeps older runs out.  `OldTransactionsStayOut` says what this means for the user: nothing booked more than two
overlaps before `floor` is ever stored, a bound that is exact.  Maxima of finite sets exist by `MaxExists`.

*Payments.*  A change in flight was decided on a state that may be gone by its commit, so the invariants must say what
of it lasts.  With overlap (`Inv`): it adds one payment at most (`Shaped`), no two transactions share a payment
(`LinksDisjoint`), and whoever removes a payment knows every transaction that points to it, or is refused by the foreign
key because the transaction points to the document that goes (`KnowsLinks`); others cannot spoil that, because nobody
pairs a transaction with a payment that exists already.  `ChangesBegun` shows it for each of the fifteen handlers,
`CommitSound` that a commit then leaves the links well founded.  Without overlap (`Serial`) the change still fits what it
has read (`Fitting`), so a commit writes just what the handler decided, and `CommitInOrder` follows the three serial
invariants through it together.  The same lemma for a step (`CommitInTurn`) gives `PairingKeptInTurn`, since a handler that
pairs has read the transaction unpaired, and `UnissuedPaidByItsPayments`, since whoever adds a payment has read the document
as issued, sent or paid.

*Plans.*  As long as no number was taken back, the numbers have no gap (`NumbersOK`), so a run whose number is still
free has a snapshot to which no numbered document was added since (`Fresh`).  `FreshOK` says what such a snapshot
knows: its next date lies after all documents of that plan and choice of date, and the stored plan has the same
date, or another one that was chosen since and has no document yet.  `DatesOK` follows for the commit, and two documents
of a date would need two runs with fresh snapshots, of which the unique key lets one pass.  `MailedExists` is
inductive with what a run holds at each step (`RunOK`): the lock, and the number after the highest of its snapshot.

*API calls.*  What is kept under a key is an effect of that key, every effect with a key is the kept one, and every
answer is that of an effect with its key and body.  Only calls whose key stands for a run or a mail try anything before
(`TriedOK`, `TriesInv`), which is what the register allows them (`TriesMayBe`).  For the refinement the effects are also numbered in the order of their
commits (`NumberedOK`), so a commit makes one that was not there.  The counter of the month never exceeds the quota, although
overlapping calls lose counts: whoever counts has read a count below it (`AdmittedBelow`).  *Limiter.*  A bucket is what was let through less a front part that is
too old to share a window with any later hit (`RestOK`), and nobody waits longer than `Lag` (`WaitOK`); so the hits that
a check counts are all that a window ending now can hold, although they may be out of order.  For `RefusalsHaveCause` a thread
enters its hit at most `Lag` after its time (`EnteredInTime`), so behind a front hit that is young enough none is
older than the window and `Lag`.  The evicted key is unique because the order of use puts the keys of the table in a row
(`InARow`), which each check continues.

*Accounts.*  A credential names the version and the password
of the same moment (`VersionOK`, `CookiesOK`, `LinksOK`), so an equal version means the current password.
*Subjects.*  The rows are typed, a stranger has neither a link nor a request, and of two owners one stays when the other
goes: the step that takes an owner away has counted more than one in the same step (`AnotherOwner`).

*Import runs.*  `ImportsInv`: a living record that was made from a row is the one the map has for the row; only Fakturoid may
have forgotten it, and knows it by its identity (`IdentityOK`).  The plan of a job uses the record of a row again
(`PlanKnows`), also after records were changed, deleted and added while it waited (`JobOK`), so a commit makes a record for a
row only when no living one has it.  *Tax alerts.*  A run in step `mailed` holds only mails that have left; whatever it
remembers is one of them.  *Backups.*  A file nobody changed is what the writer wrote, and a changed one still has the
digests of the writer (`FileOK`): what passes the digests is what was written, for every number of rows, and each text
comes back as its writer has normalised it (`NormalRows`).

*Delivery.*  `DeliveryInv` says of each request what it carries from the row it has read to the step it is at: a token
it brings is one nobody else has and none that was withdrawn (`TokensOK`), its mail has left, was confirmed or not according to the step
(`MailsOK`), and what it stores has the number it is stored under.  *Mailbox.*  As long as nothing is deleted, message
numbers are UIDs (`Full`), what a run has fetched has no gap beyond the last UID it saw (`SessionOK`), and the account is
compared before the last UID is moved.  `OldMailsInv` says of a run that the last UID it saw is no less than the baseline's.  *Import of documents.*  What was made is what the maps remember (`MadeOK`), a run
knows the maps it started from and forgets nothing (`BatchOK`), and each document of an own export is remembered, left out
or still to come (`WholeOK`).

*Editing.*  A write in flight was computed from a snapshot, and `EditingInv` says of it what is still true at its commit
(`WriteOK`): which items it may drop and which columns it may change (`Shape`); that the total it has read was the sum of
the items it has read, and that both are those of the document now unless its items were changed meanwhile (`Summed`);
that the document is the one it has read as long as nobody wrote it (`Unspoilt`); and that a note it will leave issued
fits into what is left of its source, with the total it will write (`Checked`).  The last needs `NoteTotals`: what the
issue compares is the stored total, what the commit writes is the sum of the items, and the two agree for every note of a
source that is not `strained`.  Such a source has only notes that give back (`NotesGiveBack`), so that pages and API come to
the same remainder (`RemaindersAgree`), and a note that keeps to it leaves the sum within the source (`CreditsFit`).
`CommitEditStep`, `CommitDeleteStep` and `BeginSteps` carry each part through each step, for
the request itself and for every other one in flight; `IssuedStaysIssued` follows from the same invariant, because a write
changes only the columns that differ from what the request has read.  Sums of cents are folds over finite sets, for
which no induction theorem can be cited; `SumOver` states them as the value of a function on the subsets of a set, and
that this function exists, is unique and does not depend on the order is shown by counterexamples of least cardinality
(`LeastNumber`).  Negative amounts are allowed throughout.  The proof found that the model summed the items again when a
document is reverted to a draft; the code changes the status only (`_apply_invoice_status_transition`,
`api_v1.py:6110`), and the model was corrected (`sums`).

Every module with variables has its type theorem.  The runs check the types of the numbering only, for the limit of its
counters; the others are left to the proofs, which cover them for every size, as are `OneEffectPerKey` (which
the register of effects implies), `LockDiscipline`, `OldMoneyStaysOut`, and `PaidByWhatItKept` and `HistoryStays` of section 5.

Only model-checked: the refutations of section 5, and the liveness properties `RequestsEnd`, `EventuallyStored`,
`DueIsServed` and `VatAnnounced`, which are out of the prover's reach.  Every invariant, every action property and both
refinements that a passing run checks are theorems.
No module declares a `RECURSIVE` operator, so all of them can be proved about.

## 7. Plan and limits

Done: the modules of section 3, the proofs of section 6.  Left, in this order:

1. The default bank account with the subject lock and the blocked event loop; the mail that the API imports by hand.
2. Recurrence at the end of a month, rounding of totals, as functions against a reference definition.

Not modelled, and why:

* **Money and dates, exports of documents, foreign parsers, company registries, PDF layout, translation**: pure
  functions of their input or calls out of the process, without state whose history could go wrong.  The modules use
  their results as data (`Cents`, `DataOf`, `Rows`, `Legible`).
* **Migrations and tools**: run once by an operator; the scheduled scripts only post to job routes whose handlers are
  modelled.
* **The event loop and its thread pool**: a handler that fails with a row locked gives the lock up where its
  transaction ends.  In the code the session of a threaded handler is closed by a teardown that needs the event loop
  (`api_v1.py:5781`), while a coroutine may be waiting on the loop for that row; this is listed as a hazard.
* **Default flag and order of bank accounts, scopes and audit log of API tokens, configuration of the mail server,
  renewal of password hashes**: see the notes of the components in `PROJECT.json`.
