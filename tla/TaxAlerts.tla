----------------------------- MODULE TaxAlerts -----------------------------
(***************************************************************************)
(* The job that watches the tax limits of a subject.                       *)
(*                                                                         *)
(* A run of the job sums the documents of the calendar year, finds the     *)
(* stages the turnover has reached, mails about the stages above those it  *)
(* remembers, and then commits them.  The turnover is summed by one        *)
(* function and the mail is made by another; each asks the clock for the   *)
(* year.  A scheduler may start a run while another one waits for the mail *)
(* server.                                                                 *)
(***************************************************************************)
EXTENDS Common, Integers

CONSTANTS
  AlertRun,        \* runs of the job that may overlap
  AlertYears,      \* bound: the years of this instance, an interval
  Turnover,        \* the turnovers of this instance
  FirstLimit,      \* of the registration for VAT
  SecondLimit,
  FlatLimits,      \* the limits of the bands of the flat tax
  MaxTurnovers,    \* bound: changes of the turnover
  MaxProfiles      \* bound: saves of the settings

ASSUME AlertAssumption ==
  /\ AlertYears \subseteq Nat \ {0} /\ \A y \in AlertYears : y - 1 \in AlertYears \/ \A x \in AlertYears : y <= x
  /\ Turnover \subseteq Int /\ 0 \in Turnover
  /\ FirstLimit \in Nat \ {0} /\ SecondLimit \in Nat /\ FirstLimit <= SecondLimit
  /\ FlatLimits \subseteq Nat \ {0}
  /\ MaxTurnovers \in Nat /\ MaxProfiles \in Nat

VARIABLES
  alertYear,       \* the year the clock shows
  turnover,        \* per year: what the documents that are no drafts add up to
  profile,         \* the settings of the subject
  alerted,         \* what the subject remembers
  alertRun,        \* the runs of the job
  alertMails,      \* the alerts that left
  turnovers, profiles

alertVars == <<alertYear, turnover, profile, alerted, alertRun, alertMails, turnovers, profiles>>

AlertKind == {"vat", "flat"}
Stage == 0 .. 4

(* 0: the standard regime. *)
Profile == [enabled : BOOLEAN, payer : BOOLEAN, limit : FlatLimits \cup {0}]
Alerted == [AlertKind -> [stage : Stage, year : AlertYears \cup {0}]]
AlertMail == [kind : AlertKind, stage : Stage, year : AlertYears, summed : AlertYears]
IdleRun == [step |-> "idle"]
AlertRunState ==
  {IdleRun}
    \cup [step : {"read"}, profile : Profile, alerted : Alerted, turnover : [AlertYears -> Turnover]]
    \cup [step : {"summed"}, profile : Profile, alerted : Alerted, sum : Turnover, summed : AlertYears]
    \cup [step : {"mailed"}, mails : SUBSET AlertMail]

TaxAlertsTypeOK ==
  /\ alertYear \in AlertYears
  /\ turnover \in [AlertYears -> Turnover]
  /\ profile \in Profile
  /\ alerted \in Alerted
  /\ alertRun \in [AlertRun -> AlertRunState]
  /\ alertMails \subseteq AlertMail
  /\ turnovers \in 0 .. MaxTurnovers /\ profiles \in 0 .. MaxProfiles

(***************************************************************************)
(* Stages.                                                                 *)
(***************************************************************************)
(* The whole cents, rounded up. *)
Trigger(limit, percent) == (limit * percent + 99) \div 100

StageOf(t, limit) ==
  CASE t >= Trigger(limit, 100) -> 3
    [] t < Trigger(limit, 100) /\ t >= Trigger(limit, 90) -> 2
    [] t < Trigger(limit, 90) /\ t >= Trigger(limit, 80) -> 1
    [] OTHER -> 0

VatStage(t) == IF t >= SecondLimit THEN 4 ELSE StageOf(t, FirstLimit)

Watched(p, k) ==
  /\ p.enabled
  /\ k = "vat" => ~p.payer
  /\ k = "flat" => p.limit # 0

StageFor(p, k, t) == IF k = "vat" THEN VatStage(t) ELSE StageOf(t, p.limit)

(* What was remembered counts for its own year only. *)
LastStage(a, k, y) == IF a[k].year = y THEN a[k].stage ELSE 0

(***************************************************************************)
(* The surroundings.                                                       *)
(***************************************************************************)
YearPasses ==
  /\ alertYear + 1 \in AlertYears
  /\ alertYear' = alertYear + 1
  /\ UNCHANGED <<turnover, profile, alerted, alertRun, alertMails, turnovers, profiles>>

(* Documents are issued, credited, cancelled, dated back and reverted. *)
TurnoverChanges(y) ==
  /\ turnovers < MaxTurnovers /\ turnovers' = turnovers + 1
  /\ \E t \in Turnover : turnover' = [turnover EXCEPT ![y] = t]
  /\ UNCHANGED <<alertYear, profile, alerted, alertRun, alertMails, profiles>>

(* Other limits do not reset what is remembered. *)
SaveProfile ==
  /\ profiles < MaxProfiles /\ profiles' = profiles + 1
  /\ profile' \in Profile
  /\ UNCHANGED <<alertYear, turnover, alerted, alertRun, alertMails, turnovers>>

(***************************************************************************)
(* A run of the job.                                                       *)
(***************************************************************************)
(* The list of subjects is the first query: it fixes what the run sees. *)
ReadSubject(r) ==
  /\ alertRun[r] = IdleRun
  /\ profile.enabled
  /\ alertRun' = [alertRun EXCEPT ![r] =
       [step |-> "read", profile |-> profile, alerted |-> alerted, turnover |-> turnover]]
  /\ UNCHANGED <<alertYear, turnover, profile, alerted, alertMails, turnovers, profiles>>

Summed(r) ==
  /\ alertRun[r].step = "read"
  /\ alertRun' = [alertRun EXCEPT ![r] =
       [step |-> "summed", profile |-> alertRun[r].profile, alerted |-> alertRun[r].alerted,
        sum |-> alertRun[r].turnover[alertYear], summed |-> alertYear]]
  /\ UNCHANGED <<alertYear, turnover, profile, alerted, alertMails, turnovers, profiles>>

Reached(r, k) == StageFor(alertRun[r].profile, k, alertRun[r].sum)

\* Mutant of Pending: only the highest stage makes a mail.
PendingLast(r) ==
  {k \in AlertKind : /\ Watched(alertRun[r].profile, k)
                     /\ Reached(r, k) > LastStage(alertRun[r].alerted, k, alertYear)
                     /\ Reached(r, k) >= 3}

Pending(r) ==
  {k \in AlertKind : /\ Watched(alertRun[r].profile, k)
                     /\ Reached(r, k) > LastStage(alertRun[r].alerted, k, alertYear)}

MailOf(r, k) ==
  [kind |-> k, stage |-> Reached(r, k), year |-> alertYear, summed |-> alertRun[r].summed]

Finished(r) == alertRun' = [alertRun EXCEPT ![r] = IdleRun]

NothingToMail(r) ==
  /\ alertRun[r].step = "summed"
  /\ Pending(r) = {}
  /\ Finished(r)
  /\ UNCHANGED <<alertYear, turnover, profile, alerted, alertMails, turnovers, profiles>>

(* One mail tells about both kinds. *)
SendAlert(r) ==
  /\ alertRun[r].step = "summed"
  /\ Pending(r) # {}
  /\ alertMails' = alertMails \cup {MailOf(r, k) : k \in Pending(r)}
  /\ alertRun' = [alertRun EXCEPT ![r] =
       [step |-> "mailed", mails |-> {MailOf(r, k) : k \in Pending(r)}]]
  /\ UNCHANGED <<alertYear, turnover, profile, alerted, turnovers, profiles>>

Remembered(mails) ==
  [k \in AlertKind |->
     IF \E m \in mails : m.kind = k
     THEN LET m == CHOOSE x \in mails : x.kind = k IN [stage |-> m.stage, year |-> m.year]
     ELSE alerted[k]]

CommitAlert(r) ==
  /\ alertRun[r].step = "mailed"
  /\ alerted' = Remembered(alertRun[r].mails)
  /\ Finished(r)
  /\ UNCHANGED <<alertYear, turnover, profile, alertMails, turnovers, profiles>>

\* Mutant of SmtpFails: the rollback does not end the work on the subject.
SmtpFailsOnward(r) ==
  /\ alertRun[r].step = "summed" /\ Pending(r) # {}
  /\ alerted' = Remembered({MailOf(r, k) : k \in Pending(r)})
  /\ Finished(r)
  /\ UNCHANGED <<alertYear, turnover, profile, alertMails, turnovers, profiles>>

(* The mail did not leave; one that left before the call failed is SendAlert, and
   AlertRunEnds after it. *)
SmtpFails(r) ==
  /\ alertRun[r].step = "summed" /\ Pending(r) # {}
  /\ Finished(r)
  /\ UNCHANGED <<alertYear, turnover, profile, alerted, alertMails, turnovers, profiles>>

(* The process ends or the database refuses: what was mailed is not remembered. *)
AlertRunEnds(r) ==
  /\ alertRun[r] # IdleRun
  /\ Finished(r)
  /\ UNCHANGED <<alertYear, turnover, profile, alerted, alertMails, turnovers, profiles>>

TaxAlertsInit ==
  /\ alertYear \in AlertYears /\ \A y \in AlertYears : alertYear <= y
  /\ turnover = [y \in AlertYears |-> 0]
  /\ profile \in Profile
  /\ alerted = [k \in AlertKind |-> [stage |-> 0, year |-> 0]]
  /\ alertRun = [r \in AlertRun |-> IdleRun]
  /\ alertMails = {}
  /\ turnovers = 0 /\ profiles = 0

TaxAlertsNext ==
  \/ YearPasses \/ SaveProfile
  \/ \E y \in AlertYears : TurnoverChanges(y)
  \/ \E r \in AlertRun :
       ReadSubject(r) \/ Summed(r) \/ NothingToMail(r) \/ SendAlert(r)
         \/ CommitAlert(r) \/ SmtpFails(r) \/ AlertRunEnds(r)

TaxAlertsSpec == TaxAlertsInit /\ [][TaxAlertsNext]_alertVars

(***************************************************************************)
(* Properties.                                                             *)
(***************************************************************************)
(* What the subject remembers was mailed: no failure of the mail server, of
   the database or of the process, and no overlap of two runs, makes it skip a
   stage nobody was told about. *)
AlertBacked ==
  \A k \in AlertKind : alerted[k].stage > 0 =>
    \E m \in alertMails : m.kind = k /\ m.stage = alerted[k].stage /\ m.year = alerted[k].year

(* A turnover that has reached a stage of the VAT limit does not stay without
   an announcement: there is one before the year is over, unless the turnover
   falls again or the watching is switched off. *)
VatUnannounced ==
  /\ Watched(profile, "vat")
  /\ VatStage(turnover[alertYear]) > LastStage(alerted, "vat", alertYear)

VatAnnounced == []<>(~VatUnannounced)

=============================================================================
