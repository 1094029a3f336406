----------------------------- MODULE BankMailbox -----------------------------
(***************************************************************************)
(* How one bank account of a subject is followed through the notifications *)
(* that its bank mails to an IMAP mailbox (fakturek/main.py,               *)
(* fakturek/bank_sync.py and the copies in fakturek/api_v1.py).            *)
(*                                                                         *)
(* A run takes a detached copy of the account, asks the mailbox outside    *)
(* any database transaction, and then, under the lock of the subject and   *)
(* in one transaction, stores what it read, unless the account is no       *)
(* longer the one it copied.  As all of that happens under the lock, it is *)
(* one action here; BankSync has the statements under that lock.           *)
(*                                                                         *)
(* A mail is its UID.  The server numbers the mails of the mailbox from    *)
(* one without gaps, so after a deletion numbers and UIDs differ.          *)
(***************************************************************************)
EXTENDS Integers, Sequences, FiniteSetsExt, SequencesExt, Common

CONSTANTS
  MailRun,      \* synchronisations that may be in flight at the same time
  Notice,       \* UIDs of the mails that pass the filters of the account
  Legible,      \* those of them whose text the parser of the bank understands
  MaxMail,      \* bound: mails that arrive
  MaxMailSaves  \* bound: how often the account is saved

VARIABLES
  inbox,        \* the mails of the mailbox, in the order of their UIDs
  arrived,      \* numbers the mails
  mailAccount,  \* the row of the account, None once it is removed
  mailRows,     \* the rows of the stored mails: what became of each
  mailRun,      \* what each run knows
  baseline,     \* history: the account is followed from this UID on
  unfetched,    \* history: mails whose FETCH failed
  holes,        \* history: some mail was deleted from the mailbox
  mailSaves     \* counts the saves

mailboxVars ==
  <<inbox, arrived, mailAccount, mailRows, mailRun, baseline, unfetched, holes, mailSaves>>

UID == 1..MaxMail
MailParser == {"pending", "bank"}
MailAccount == [on : BOOLEAN, parser : MailParser, lastUid : UID \cup {None}]
MailSession == [step : {"search", "store"}, seen : MailAccount,
                got : SUBSET UID, missed : SUBSET UID]

ASSUME MailboxAssumption ==
  /\ Legible \subseteq Notice /\ Notice \subseteq UID
  /\ MaxMail \in Nat /\ MaxMailSaves \in Nat
  /\ None \notin Int \cup MailAccount \cup MailSession

-----------------------------------------------------------------------------
(* The mailbox, which belongs to somebody else *)

ArriveMail ==
  /\ arrived < MaxMail
  /\ arrived' = arrived + 1
  /\ inbox' = Append(inbox, arrived + 1)
  /\ UNCHANGED <<mailAccount, mailRows, mailRun, baseline, unfetched, holes, mailSaves>>

ExpungeMail(u) ==
  /\ \E i \in DOMAIN inbox : inbox[i] = u /\ inbox' = RemoveAt(inbox, i)
  /\ holes' = TRUE
  /\ UNCHANGED <<arrived, mailAccount, mailRows, mailRun, baseline, unfetched, mailSaves>>

\* Mutant of Searched: the search starts one mail too late.
SearchedLate(last) ==
  IF last = None THEN {inbox[i] : i \in DOMAIN inbox}
  ELSE {inbox[i] : i \in {j \in DOMAIN inbox : j > last + 1 \/ j = Len(inbox)}}

\* UID SEARCH n:* selects by number and answers with UIDs; the range always
\* holds the last mail.
Searched(last) ==
  IF last = None THEN {inbox[i] : i \in DOMAIN inbox}
  ELSE {inbox[i] : i \in {j \in DOMAIN inbox : j >= last + 1 \/ j = Len(inbox)}}

-----------------------------------------------------------------------------
(* The settings page and the API *)

\* _refresh_payment_sync_checkpoints
MailStartsOver(on, parser) ==
  on /\ (~mailAccount.on \/ parser # mailAccount.parser)

SaveMailAccount(on, parser) ==
  /\ mailAccount # None
  /\ mailSaves < MaxMailSaves
  /\ mailAccount' = [on |-> on, parser |-> parser,
       lastUid |-> IF MailStartsOver(on, parser) THEN None ELSE mailAccount.lastUid]
  /\ mailSaves' = mailSaves + 1
  /\ UNCHANGED <<inbox, arrived, mailRows, mailRun, baseline, unfetched, holes>>

\* The rows of the mails go with the account.
RemoveMailAccount ==
  /\ mailAccount # None
  /\ mailAccount' = None
  /\ mailRows' = <<>>
  /\ UNCHANGED <<inbox, arrived, mailRun, baseline, unfetched, holes, mailSaves>>

-----------------------------------------------------------------------------
(* A run *)

StartMailRun(r) ==
  /\ mailRun[r] = None
  /\ mailAccount # None
  /\ mailAccount.on
  /\ mailRun' = [mailRun EXCEPT ![r] =
       [step |-> "search", seen |-> mailAccount, got |-> {}, missed |-> {}]]
  /\ UNCHANGED <<inbox, arrived, mailAccount, mailRows, baseline, unfetched, holes, mailSaves>>

\* Bound: at most one FETCH of a run fails.
FailedFetches(found) == {{}} \cup {{u} : u \in found}

\* A mail whose FETCH fails is left out, and nothing says so.
FetchMails(r) ==
  /\ mailRun[r] # None
  /\ mailRun[r].step = "search"
  /\ \E missed \in FailedFetches(Searched(mailRun[r].seen.lastUid)) :
       mailRun' = [mailRun EXCEPT ![r] =
         [@ EXCEPT !.step = "store",
                   !.got = Searched(mailRun[r].seen.lastUid) \ missed, !.missed = missed]]
  /\ UNCHANGED <<inbox, arrived, mailAccount, mailRows, baseline, unfetched, holes, mailSaves>>

\* The filters, and what the table already has.
MailsToStore(s) == (s.got \cap Notice) \ DOMAIN mailRows

\* _process_bank_incoming_email_row
Processed(u) ==
  IF mailAccount.parser = "pending" THEN "stored"
  ELSE IF u \in Legible THEN "done" ELSE "parse_failed"

\* The new rows, and the old ones that are tried again.
RowsAfter(new) ==
  [u \in DOMAIN mailRows \cup new |->
     IF u \in new \/ (mailRows[u] # "done" /\ mailAccount.parser # "pending")
       THEN Processed(u) ELSE mailRows[u]]

StoreMails(r) ==
  LET s == mailRun[r] IN
  /\ s # None
  /\ s.step = "store"
  /\ mailAccount = s.seen
  /\ \/ /\ s.seen.lastUid = None
        /\ s.got # {}
        /\ mailAccount' = [mailAccount EXCEPT !.lastUid = Max(s.got)]
        /\ baseline' = Max(s.got)
        /\ UNCHANGED <<mailRows, unfetched>>
     \/ /\ s.seen.lastUid = None
        /\ s.got = {}
        /\ mailRows' = RowsAfter({})
        /\ UNCHANGED <<mailAccount, baseline, unfetched>>
     \/ /\ s.seen.lastUid # None
        /\ mailRows' = RowsAfter(MailsToStore(s))
        /\ mailAccount' = [mailAccount EXCEPT !.lastUid = Max(s.got \cup {s.seen.lastUid})]
        /\ unfetched' = unfetched \cup s.missed
        /\ UNCHANGED baseline
  /\ mailRun' = [mailRun EXCEPT ![r] = None]
  /\ UNCHANGED <<inbox, arrived, holes, mailSaves>>

\* The account has changed, the mailbox does not answer or the process stops.
DropMailRun(r) ==
  /\ mailRun[r] # None
  /\ mailRun' = [mailRun EXCEPT ![r] = None]
  /\ UNCHANGED <<inbox, arrived, mailAccount, mailRows, baseline, unfetched, holes, mailSaves>>

-----------------------------------------------------------------------------
MailboxInit ==
  /\ inbox = <<>>
  /\ arrived = 0
  /\ mailAccount = [on |-> FALSE, parser |-> "pending", lastUid |-> None]
  /\ mailRows = <<>>
  /\ mailRun = [r \in MailRun |-> None]
  /\ baseline = 0
  /\ unfetched = {}
  /\ holes = FALSE
  /\ mailSaves = 0

MailboxNext ==
  \/ ArriveMail
  \/ \E u \in UID : ExpungeMail(u)
  \/ \E on \in BOOLEAN, parser \in MailParser : SaveMailAccount(on, parser)
  \/ RemoveMailAccount
  \/ \E r \in MailRun : StartMailRun(r) \/ FetchMails(r) \/ StoreMails(r) \/ DropMailRun(r)

MailboxSpec == MailboxInit /\ [][MailboxNext]_mailboxVars

-----------------------------------------------------------------------------
MailboxTypeOK ==
  /\ arrived \in 0..MaxMail
  /\ \A i \in DOMAIN inbox : inbox[i] \in 1..arrived
  /\ mailAccount \in MailAccount \cup {None}
  /\ DOMAIN mailRows \subseteq UID
  /\ \A u \in DOMAIN mailRows : mailRows[u] \in {"stored", "parse_failed", "done"}
  /\ mailRun \in [MailRun -> MailSession \cup {None}]
  /\ baseline \in 0..arrived
  /\ unfetched \subseteq UID
  /\ mailSaves \in 0..MaxMailSaves

\* The last UID of the account never gets ahead of what was stored, whichever
\* runs overlap and however the account is saved meanwhile: each mail for the
\* account between the baseline and the last UID has its row.  It is said of a
\* mailbox from which nothing was deleted, and not of a mail whose FETCH failed:
\* in both cases the code passes mails over.
NoMailSkipped ==
  mailAccount # None /\ mailAccount.lastUid # None /\ ~holes =>
    \A u \in Notice \ unfetched :
      baseline < u /\ u <= mailAccount.lastUid => u \in DOMAIN mailRows

\* What came before the baseline is history and is not stored.
OnlyNewMail ==
  [][\A u \in DOMAIN mailRows' \ DOMAIN mailRows : u > baseline]_mailboxVars

\* What is true of it as long as nothing was deleted from the mailbox: of the history
\* only the mail at the baseline itself can be stored, because the range of the search
\* always holds the last mail.  Nothing older is, whichever runs overlap.
HistoryStays ==
  [][~holes => \A u \in DOMAIN mailRows' \ DOMAIN mailRows : u >= baseline]_mailboxVars

=============================================================================
