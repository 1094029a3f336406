------------------------- MODULE RecurringPlansProofs -------------------------
(***************************************************************************)
(* Proofs about RecurringPlans.                                            *)
(*                                                                         *)
(* Nothing locks a plan, so what a run has read of it may be stale; what   *)
(* keeps two overlapping runs from making the document of one date twice   *)
(* is the number.  While no number was taken back, the numbers have no     *)
(* gap, and a run whose number is still free has a snapshot to which no    *)
(* numbered document was added: a fresh one.  PlansInv says what a fresh   *)
(* snapshot knows about the plans and their documents.                     *)
(***************************************************************************)
EXTENDS RecurringPlans, WellFoundedInduction, TLAPS

(* What a run knows fits the step it is at.  Whoever holds a number holds the
   lock of the series, and a run that is forced has one plan and one snapshot. *)
RunOK(r) ==
  run[r] # Idle =>
    /\ run[r].day <= today
    /\ run[r].step = "next" => run[r].at = None
    /\ run[r].step \in {"next", "number"} => run[r].number = None
    /\ run[r].step # "next" =>
         /\ run[r].view # None /\ run[r].at \in run[r].todo
         /\ run[r].view.plan[run[r].at] # None
         /\ ~run[r].forced => run[r].view.plan[run[r].at].next <= run[r].day
    /\ run[r].number # None => lock = r /\ run[r].number = run[r].view.high + 1
    /\ run[r].step = "mailed" => run[r].number # None /\ document[run[r].number] = None
    /\ run[r].forced => run[r].view # None /\ \E p \in Plan : run[r].todo = {p}

RunsOK == \A r \in Run : RunOK(r)

IsDocument(n) == document[n] # None /\ document[n] # Foreign

(* The documents of a plan that the next date has to leave behind. *)
Past(p, since) ==
  {n \in Numbers : /\ IsDocument(n) /\ document[n].plan = p
                   /\ document[n].since = since /\ ~document[n].forced}

(* Every choice of a date has a number that was not used before. *)
SinceOK ==
  /\ \A p \in Plan : plan[p] # None => plan[p].since <= saves
  /\ \A n \in Numbers : IsDocument(n) => document[n].since <= saves /\ document[n].date <= today
  /\ \A r \in Run, p \in Plan :
       run[r] # Idle /\ run[r].view # None /\ run[r].view.plan[p] # None
         => run[r].view.plan[p].since <= saves

(* The numbers of the series have no gap. *)
NumbersOK ==
  /\ \A n \in Numbers : document[n] # None <=> n <= counter
  /\ \A r \in Run : run[r] # Idle /\ run[r].view # None => run[r].view.high <= counter

(* The next date of a plan is later than its documents. *)
DatesOK ==
  \A p \in Plan \ drafted : plan[p] # None =>
    \A n \in Past(p, plan[p].since) : document[n].date < plan[p].next

Fresh(r) == run[r] # Idle /\ run[r].view # None /\ run[r].view.high = counter

(* A fresh snapshot of a plan is the plan as it is, but for a date that was
   written since; and then that date has no document yet. *)
FreshOK ==
  \A r \in Run : Fresh(r) =>
    /\ run[r].forced =>
         \A n \in Numbers : IsDocument(n) => document[n].date <= run[r].day
    /\ \A p \in Plan \ drafted : run[r].view.plan[p] # None =>
         \A n \in Past(p, run[r].view.plan[p].since) : document[n].date < run[r].view.plan[p].next
    /\ \A p \in Plan \ drafted : plan[p] # None =>
         \/ /\ run[r].view.plan[p] # None
            /\ run[r].view.plan[p].since = plan[p].since
            /\ run[r].view.plan[p].next = plan[p].next
         \/ /\ run[r].view.plan[p] # None => run[r].view.plan[p].since # plan[p].since
            /\ Past(p, plan[p].since) = {}

OnceOK == given = {} => NumbersOK /\ DatesOK /\ FreshOK /\ OncePerDate

PlansInv == TypeOK /\ RunsOK /\ SinceOK /\ OnceOK /\ MailedExists

-----------------------------------------------------------------------------
(* Facts about the definitions. *)
LEMMA NoneIsNothing ==
  /\ None \notin Run /\ None \notin Plan /\ None \notin Numbers /\ None \notin PlanRow
  /\ None \notin Document /\ None \notin View /\ None \notin Session
  /\ Foreign \notin Document /\ Foreign # None
BY RecurringAssumption

LEMMA Bounds == Step \in Nat /\ Step > 0 /\ LastDay \in Nat /\ MaxNumber \in Nat /\ MaxSaves \in Nat
BY RecurringAssumption

LEMMA NextDateIsLater ==
  ASSUME NEW date \in Nat, NEW day \in Nat, date <= day
  PROVE  NextDate(date, day) \in Nat /\ NextDate(date, day) > day /\ NextDate(date, day) <= day + Step
<1>1. PICK a \in Nat : a = day - date
  OBVIOUS
<1>2. PICK q \in Int : q = a \div Step
  BY Bounds
<1>3. Step * q <= a /\ a < Step * q + Step
  BY <1>2, Bounds
<1>4. NextDate(date, day) = date + Step * (q + 1)
  BY <1>1, <1>2 DEF NextDate
<1>5. Step * (q + 1) = Step * q + Step
  BY Bounds
<1> QED
  BY <1>1, <1>3, <1>4, <1>5, Bounds

LEMMA GreatestExists ==
  ASSUME NEW B \in Nat, NEW S, S \subseteq 0..B, S # {}
  PROVE  \E x \in S : \A y \in S : x >= y
<1> DEFINE T == {n \in Nat : \E x \in S : n = B - x}
<1>1. T \subseteq Nat
  OBVIOUS
<1>2. T # {}
  <2>1. PICK x : x \in S
    OBVIOUS
  <2>2. B - x \in T
    BY <2>1
  <2> QED
    BY <2>2
<1> HIDE DEF T
<1>3. PICK m \in T : \A n \in T : ~(<<n, m>> \in OpToRel(<, Nat))
  BY <1>1, <1>2, NatLessThanWellFounded, WFMin
<1> USE DEF T
<1>4. PICK x \in S : m = B - x
  BY <1>3
<1>5. ASSUME NEW y \in S PROVE x >= y
  <2>1. B - y \in T
    BY <1>5
  <2>2. ~(B - y < B - x)
    BY <2>1, <1>3, <1>4 DEF OpToRel
  <2> QED
    BY <2>2
<1> QED
  BY <1>4, <1>5

LEMMA HighType ==
  ASSUME counter \in 0 .. MaxNumber
  PROVE  High \in 0 .. MaxNumber /\ counter <= High /\ \A n \in Numbers : document[n] # None => n <= High
<1> DEFINE S == {0, counter} \cup Taken
<1>1. S \subseteq 0 .. MaxNumber /\ 0 \in S
  BY Bounds DEF Taken, Numbers
<1>2. \E m \in S : \A n \in S : m >= n
  BY <1>1, GreatestExists, Bounds
<1>3. High \in S /\ \A n \in S : High >= n
  BY <1>2 DEF High, Max
<1>4. \A n \in Numbers : document[n] # None => n \in S
  BY DEF Taken
<1> QED
  BY <1>1, <1>3, <1>4, Bounds DEF Numbers

LEMMA DocumentType ==
  ASSUME TypeOK, NEW n \in Numbers
  PROVE  /\ IsDocument(n) <=> document[n] \in Document
         /\ document[n] \in Document =>
              /\ document[n].plan \in Plan /\ document[n].date \in Days
              /\ document[n].since \in 0 .. MaxSaves /\ document[n].forced \in BOOLEAN
BY NoneIsNothing DEF TypeOK, IsDocument, Document

LEMMA PlanType ==
  ASSUME TypeOK, NEW p \in Plan, plan[p] # None
  PROVE  /\ plan[p] \in PlanRow
         /\ plan[p].next \in Days /\ plan[p].since \in 0 .. MaxSaves
BY DEF TypeOK, PlanRow

LEMMA RunType ==
  ASSUME TypeOK, NEW r \in Run, run[r] # Idle
  PROVE  /\ run[r] \in Session /\ run[r] # None
         /\ run[r].day \in Days /\ run[r].forced \in BOOLEAN /\ run[r].todo \subseteq Plan
         /\ run[r].view \in View \cup {None} /\ run[r].at \in Plan \cup {None}
         /\ run[r].step \in {"next", "number", "commit", "mailed"}
         /\ run[r].number \in Numbers \cup {None}
BY DEF TypeOK, Session, Idle

LEMMA ViewType ==
  ASSUME NEW v \in View
  PROVE  /\ v # None /\ v.high \in 0 .. MaxNumber
         /\ \A p \in Plan : v.plan[p] \in PlanRow \cup {None}
         /\ \A p \in Plan : v.plan[p] # None =>
              v.plan[p].next \in Days /\ v.plan[p].since \in 0 .. MaxSaves
              /\ v.plan[p].mode \in {"draft", "issue", "send"}
BY NoneIsNothing DEF View, PlanRow

LEMMA SnapshotType ==
  ASSUME TypeOK
  PROVE  /\ Snapshot \in View /\ Snapshot # None
         /\ Snapshot.plan = plan /\ Snapshot.high = High
BY HighType, NoneIsNothing DEF TypeOK, Snapshot, View

(* What is read in one transaction is from one snapshot: the view of a run that
   goes on is the one it had, or is read anew. *)
ViewKept(r, e) ==
  e # Idle /\ e.view # None =>
    \/ run[r] # Idle /\ e.view = run[r].view /\ e.forced = run[r].forced /\ e.day = run[r].day
    \/ e.view = Snapshot /\ (e.forced => e.day = today)

LEMMA GapFree ==
  ASSUME TypeOK, NumbersOK
  PROVE  High = counter
<1>1. PICK h : h = High
  OBVIOUS
<1>2. counter \in 0 .. MaxNumber /\ h \in 0 .. MaxNumber /\ counter <= h
  BY <1>1, HighType DEF TypeOK
<1>3. CASE h > counter
  <2>1. h \in Numbers
    BY <1>2, <1>3, Bounds DEF Numbers
  <2>2. document[h] = None
    BY <2>1, <1>2, <1>3 DEF NumbersOK
  <2>3. h \in {0, counter} \cup Taken
    <3>1. {0, counter} \cup Taken \subseteq 0 .. MaxNumber /\ 0 \in {0, counter} \cup Taken
      BY <1>2, Bounds DEF Taken, Numbers
    <3>2. \E m \in {0, counter} \cup Taken : \A n \in {0, counter} \cup Taken : m >= n
      BY <3>1, GreatestExists, Bounds
    <3> QED
      BY <1>1, <3>2 DEF High, Max
  <2> QED
    BY <1>2, <1>3, <2>2, <2>3 DEF Taken
<1> QED
  BY <1>1, <1>2, <1>3

(* A step of a run that writes neither a plan nor a document. *)
LEMMA QuietStep ==
  ASSUME PlansInv, NEW r \in Run, NEW e \in Session \cup {Idle}, ViewKept(r, e),
         run' = [run EXCEPT ![r] = e], given \subseteq given',
         UNCHANGED <<today, plan, document, counter, drafted, saves>>
  PROVE  SinceOK' /\ OnceOK'
<1>1. TypeOK /\ run \in [Run -> Session \cup {Idle}]
  BY DEF PlansInv, TypeOK
<1>2. /\ run'[r] = e /\ \A q \in Run : q # r => run'[q] = run[q]
      /\ today' = today /\ plan' = plan /\ document' = document /\ counter' = counter
      /\ drafted' = drafted /\ saves' = saves
  BY <1>1
<1>3. /\ Snapshot # None /\ Snapshot.plan = plan /\ Snapshot.high = High
  BY <1>1, SnapshotType
<1>4. SinceOK'
  <2>1. SinceOK
    BY DEF PlansInv
  <2>2. ASSUME NEW q \in Run, NEW p \in Plan,
               run'[q] # Idle, run'[q].view # None, run'[q].view.plan[p] # None
        PROVE  run'[q].view.plan[p].since <= saves
    <3>1. CASE q # r
      BY <3>1, <2>1, <2>2, <1>2 DEF SinceOK
    <3>2. CASE q = r /\ run[r] # Idle /\ e.view = run[r].view
      BY <3>2, <2>1, <2>2, <1>2 DEF SinceOK
    <3>3. CASE q = r /\ e.view = Snapshot
      BY <3>3, <2>1, <2>2, <1>2, <1>3 DEF SinceOK
    <3> QED
      BY <3>1, <3>2, <3>3, <2>2, <1>2 DEF ViewKept
  <2> QED
    BY <1>2, <2>1, <2>2 DEF SinceOK, IsDocument
<1>5. SUFFICES ASSUME given' = {} PROVE (NumbersOK /\ DatesOK /\ FreshOK /\ OncePerDate)'
  BY <1>4 DEF OnceOK
<1>6. given = {} /\ NumbersOK /\ DatesOK /\ FreshOK /\ OncePerDate
  BY <1>5 DEF PlansInv, OnceOK
<1>7. High = counter
  BY <1>1, <1>6, GapFree
<1>8. NumbersOK'
  <2>1. ASSUME NEW q \in Run, run'[q] # Idle, run'[q].view # None
        PROVE  run'[q].view.high <= counter
    <3>1. CASE q # r
      BY <3>1, <2>1, <1>2, <1>6 DEF NumbersOK
    <3>2. CASE q = r /\ run[r] # Idle /\ e.view = run[r].view
      BY <3>2, <2>1, <1>2, <1>6 DEF NumbersOK
    <3>3. CASE q = r /\ e.view = Snapshot
      BY <3>3, <1>1, <1>2, <1>3, <1>7 DEF TypeOK
    <3> QED
      BY <3>1, <3>2, <3>3, <2>1, <1>2 DEF ViewKept
  <2> QED
    BY <1>2, <1>6, <2>1 DEF NumbersOK
<1>9. DatesOK'
  BY <1>2, <1>6 DEF DatesOK, Past, IsDocument
<1>10. OncePerDate'
  BY <1>2, <1>6 DEF OncePerDate
<1>11. FreshOK'
  <2> SUFFICES ASSUME NEW q \in Run, Fresh(q)'
      PROVE  /\ run'[q].forced =>
                  \A n \in Numbers : IsDocument(n) => document[n].date <= run'[q].day
             /\ \A p \in Plan \ drafted : run'[q].view.plan[p] # None =>
                  \A n \in Past(p, run'[q].view.plan[p].since) :
                     document[n].date < run'[q].view.plan[p].next
             /\ \A p \in Plan \ drafted : plan[p] # None =>
                  \/ /\ run'[q].view.plan[p] # None
                     /\ run'[q].view.plan[p].since = plan[p].since
                     /\ run'[q].view.plan[p].next = plan[p].next
                  \/ /\ run'[q].view.plan[p] # None => run'[q].view.plan[p].since # plan[p].since
                     /\ Past(p, plan[p].since) = {}
    BY <1>2 DEF FreshOK, Past, IsDocument
  <2>1. run'[q] # Idle /\ run'[q].view # None /\ run'[q].view.high = counter
    BY <1>2 DEF Fresh
  <2>2. CASE /\ run[q] # Idle /\ run'[q].view = run[q].view
             /\ run'[q].forced = run[q].forced /\ run'[q].day = run[q].day
    BY <2>1, <2>2, <1>6 DEF FreshOK, Fresh
  <2>3. CASE run'[q].view = Snapshot /\ (run'[q].forced => run'[q].day = today)
    <3>1. run'[q].forced => \A n \in Numbers : IsDocument(n) => document[n].date <= run'[q].day
      BY <2>3 DEF PlansInv, SinceOK
    <3>2. run'[q].view.plan = plan
      BY <1>3, <2>3
    <3> QED
      BY <3>1, <3>2, <1>6 DEF DatesOK
  <2> QED
    BY <1>2, <2>1, <2>2, <2>3 DEF ViewKept
<1> QED
  BY <1>8, <1>9, <1>10, <1>11

(* The lock is taken when it is free, and released by the run that has it. *)
LockStep(r) == lock' = lock \/ (lock = None /\ lock' = r) \/ (lock = r /\ lock' = None)

LEMMA UnlockedType ==
  ASSUME TypeOK, NEW r \in Run
  PROVE  Unlocked(r) \in Run \cup {None} /\ (lock' = Unlocked(r) => LockStep(r))
BY DEF TypeOK, Unlocked, LockStep

LEMMA OtherRunsStay ==
  ASSUME PlansInv, NEW r \in Run, NEW e, run' = [run EXCEPT ![r] = e], LockStep(r),
         today' = today, NEW q \in Run, q # r,
         run[q] # Idle /\ run[q].number # None => document'[run[q].number] = document[run[q].number]
  PROVE  RunOK(q)'
<1>1. TypeOK /\ RunOK(q) /\ run'[q] = run[q]
  BY DEF PlansInv, TypeOK, RunsOK
<1>2. CASE run[q] = Idle
  BY <1>1, <1>2 DEF RunOK, Idle
<1>3. CASE run[q] # Idle
  <2>1. run[q].number # None => lock' = q
    BY <1>1, <1>3, NoneIsNothing DEF RunOK, LockStep
  <2>2. run[q].step = "mailed" => document'[run[q].number] = None
    BY <1>1, <1>3 DEF RunOK
  <2> QED
    BY <1>1, <1>3, <2>1, <2>2 DEF RunOK
<1> QED
  BY <1>2, <1>3

Written(m) ==
  document[m.number] \in Document /\ document[m.number].plan = m.plan
  /\ document[m.number].date = m.date

Held(m, r) ==
  run[r] # Idle /\ run[r].step = "mailed" /\ run[r].number = m.number
  /\ run[r].at = m.plan /\ RunDate(r) = m.date

LEMMA MailedIs ==
  MailedExists <=> \A m \in mailed : m.number \in given \/ Written(m) \/ \E r \in Run : Held(m, r)
BY DEF MailedExists, Written, Held

(* Mails stay covered when documents stay, and a run that has mailed stays, or
   gives its number back. *)
LEMMA MailsStay ==
  ASSUME PlansInv, NEW r \in Run, NEW e, run' = [run EXCEPT ![r] = e],
         document' = document, mailed' = mailed, given \subseteq given',
         run[r] # Idle /\ run[r].step = "mailed" => run[r].number \in given'
  PROVE  MailedExists'
<1>1. \A q \in Run : q # r => run'[q] = run[q]
  BY DEF PlansInv, TypeOK
<1> SUFFICES ASSUME NEW m \in mailed, m.number \notin given'
             PROVE  Written(m)' \/ \E q \in Run : Held(m, q)'
  BY DEF MailedExists, Written, Held
<1>2. Written(m) \/ \E q \in Run : Held(m, q)
  BY MailedIs DEF PlansInv
<1>3. CASE Written(m)
  BY <1>3 DEF Written
<1>4. CASE \E q \in Run : Held(m, q)
  <2>1. PICK q \in Run : Held(m, q)
    BY <1>4
  <2>2. q # r
    BY <2>1 DEF Held
  <2>3. run'[q] = run[q]
    BY <1>1, <2>2
  <2> QED
    BY <2>1, <2>3 DEF Held, RunDate, Seen
<1> QED
  BY <1>2, <1>3, <1>4

(* The four parts put together, for a step of one run that writes neither a
   plan nor a document. *)
LEMMA RunStep ==
  ASSUME PlansInv, NEW r \in Run, NEW e \in Session \cup {Idle}, ViewKept(r, e),
         run' = [run EXCEPT ![r] = e], LockStep(r),
         given \subseteq given', given' \subseteq Numbers,
         UNCHANGED <<today, plan, document, counter, drafted, saves>>,
         RunOK(r)', MailedExists', mailed' \subseteq Mail
  PROVE  PlansInv'
<1>1. TypeOK'
  BY DEF PlansInv, TypeOK, LockStep
<1>2. RunsOK'
  <2>1. \A q \in Run : q # r => RunOK(q)'
    BY OtherRunsStay
  <2> QED
    BY <2>1 DEF RunsOK
<1> QED
  BY <1>1, <1>2, QuietStep DEF PlansInv

LEMMA StartStep ==
  ASSUME PlansInv, NEW r \in Run, NEW forced \in BOOLEAN, NEW todo, todo \subseteq Plan,
         StartRun(r, forced, todo), forced => \E p \in Plan : todo = {p}
  PROVE  PlansInv'
<1> DEFINE e == [day |-> today, forced |-> forced, todo |-> todo, view |-> Snapshot,
                 at |-> None, step |-> "next", number |-> None]
<1>1. TypeOK /\ today \in Days /\ run[r] = Idle
  BY Bounds DEF PlansInv, TypeOK, Days, StartRun
<1>2. e \in Session
  BY <1>1, SnapshotType DEF Session
<1>3. ViewKept(r, e)
  BY DEF ViewKept
<1>4. /\ run' = [run EXCEPT ![r] = e]
      /\ UNCHANGED <<today, plan, document, counter, lock, mailed, given, drafted, saves>>
  BY DEF StartRun
<1>5. RunOK(r)'
  <2>1. run'[r] = e
    BY <1>1, <1>4 DEF TypeOK
  <2>2. e.view # None
    BY <1>1, SnapshotType
  <2> QED
    BY <1>1, <1>4, <2>1, <2>2, Bounds DEF RunOK, Days
<1>6. MailedExists'
  BY <1>1, <1>4, MailsStay
<1> QED
  BY <1>1, <1>2, <1>3, <1>4, <1>5, <1>6, RunStep DEF LockStep, PlansInv, TypeOK

(* A run that ends. *)
LEMMA EndStep ==
  ASSUME PlansInv, NEW r \in Run, run' = [run EXCEPT ![r] = Idle], LockStep(r),
         given \subseteq given', given' \subseteq Numbers, mailed' = mailed,
         run[r] # Idle /\ run[r].step = "mailed" => run[r].number \in given',
         UNCHANGED <<today, plan, document, counter, drafted, saves>>
  PROVE  PlansInv'
<1>1. run'[r] = Idle
  BY DEF PlansInv, TypeOK
<1>2. RunOK(r)'
  BY <1>1 DEF RunOK, Idle
<1>3. MailedExists'
  BY MailsStay
<1> QED
  BY <1>2, <1>3, RunStep DEF ViewKept, PlansInv, TypeOK

(* A run that goes on with its other plans. *)
Onward(s, p) ==
  IF s.todo = {p} THEN Idle
  ELSE [s EXCEPT !.todo = s.todo \ {p}, !.at = None, !.step = "next", !.number = None]

LEMMA OnwardType ==
  ASSUME NEW s \in Session, NEW p, NEW e, e = Onward(s, p)
  PROVE  /\ e \in Session \cup {Idle}
         /\ e # Idle => /\ s.todo # {p} /\ e.todo = s.todo \ {p} /\ e.day = s.day
                        /\ e.forced = s.forced /\ e.view = s.view
                        /\ e.at = None /\ e.step = "next" /\ e.number = None
BY DEF Onward, Session

LEMMA OnwardStep ==
  ASSUME PlansInv, NEW r \in Run, NEW s \in Session, NEW p \in s.todo,
         run[r] # Idle, s.day = run[r].day, s.forced = run[r].forced, s.todo = run[r].todo,
         s.view = run[r].view \/ s.view = None \/ s.view = Snapshot,
         GoOn(r, s, p), LockStep(r), mailed' = mailed, given' = given,
         run[r].step # "mailed",
         UNCHANGED <<today, plan, document, counter, drafted, saves>>
  PROVE  PlansInv'
<1>1. PICK e : e = Onward(s, p)
  OBVIOUS
<1>2. /\ e \in Session \cup {Idle}
      /\ e # Idle => /\ s.todo # {p} /\ e.todo = s.todo \ {p} /\ e.day = s.day
                     /\ e.forced = s.forced /\ e.view = s.view
                     /\ e.at = None /\ e.step = "next" /\ e.number = None
  BY <1>1, OnwardType
<1>3. run' = [run EXCEPT ![r] = e]
  BY <1>1 DEF GoOn, Onward
<1>4. TypeOK /\ RunOK(r) /\ run'[r] = e
  BY <1>3 DEF PlansInv, TypeOK, RunsOK
<1>5. e # Idle => ~e.forced
  <2> SUFFICES ASSUME e # Idle, e.forced PROVE FALSE
    OBVIOUS
  <2>1. PICK q \in Plan : s.todo = {q}
    BY <1>2, <1>4 DEF RunOK
  <2> QED
    BY <1>2, <2>1
<1>6. ViewKept(r, e)
  BY <1>2, <1>5 DEF ViewKept
<1>7. RunOK(r)'
  BY <1>2, <1>4, <1>5 DEF RunOK
<1>8. MailedExists'
  BY <1>3, MailsStay
<1> QED
  BY <1>2, <1>3, <1>6, <1>7, <1>8, RunStep DEF PlansInv, TypeOK

LEMMA ServeStep ==
  ASSUME PlansInv, NEW r \in Run, NEW p \in Plan, Serve(r, p)
  PROVE  PlansInv'
<1> DEFINE t == IF run[r].view = None THEN [run[r] EXCEPT !.view = Snapshot] ELSE run[r]
<1>1. TypeOK /\ run[r] # Idle /\ run[r].step = "next" /\ p \in run[r].todo /\ RunOK(r)
  BY DEF Serve, PlansInv, RunsOK
<1>2. UNCHANGED <<today, plan, document, counter, lock, mailed, given, drafted, saves>>
  BY DEF Serve
<1>3. run[r] \in Session /\ run[r].number = None
  BY <1>1, RunType DEF RunOK
<1>4. PICK s : s = t
  OBVIOUS
<1>5. /\ s \in Session /\ s.day = run[r].day /\ s.forced = run[r].forced
      /\ s.todo = run[r].todo /\ s.number = run[r].number /\ s.at = run[r].at
      /\ s.view = (IF run[r].view = None THEN Snapshot ELSE run[r].view)
  BY <1>1, <1>3, <1>4, SnapshotType DEF Session
<1>6. s.view \in View /\ s.view # None /\ s.number = None
  <2>1. s.view \in View \cup {None} /\ s.view # None
    BY <1>1, <1>5, SnapshotType DEF Session
  <2> QED
    BY <1>3, <1>5, <2>1
<1>7. CASE run' = [run EXCEPT ![r] = Idle]
  BY <1>1, <1>2, <1>7, EndStep DEF LockStep, PlansInv, TypeOK
<1>8. CASE SkipPlan(r, s, p)
  <2>1. GoOn(r, s, p)
    BY <1>8 DEF SkipPlan
  <2> QED
    BY <1>1, <1>2, <1>5, <2>1, OnwardStep DEF LockStep
<1>9. CASE /\ s.view.plan[p] # None /\ (s.forced \/ s.view.plan[p].next <= s.day)
           /\ run' = [run EXCEPT ![r] = [s EXCEPT !.at = p,
                !.step = IF s.view.plan[p].mode = "draft" THEN "commit" ELSE "number"]]
  <2>1. PICK e : e = [s EXCEPT !.at = p,
                !.step = IF s.view.plan[p].mode = "draft" THEN "commit" ELSE "number"]
    OBVIOUS
  <2>2. /\ e \in Session /\ e.day = s.day /\ e.forced = s.forced /\ e.todo = s.todo
        /\ e.view = s.view /\ e.at = p /\ e.step \in {"commit", "number"} /\ e.number = None
    BY <1>5, <1>6, <2>1 DEF Session
  <2>3. run' = [run EXCEPT ![r] = e] /\ run'[r] = e
    BY <1>1, <1>9, <2>1 DEF TypeOK
  <2>4. ViewKept(r, e)
    BY <1>1, <1>5, <2>2 DEF ViewKept, RunOK
  <2>5. RunOK(r)'
    <3>1. (run[r].forced <=> s.forced) /\ (e.forced <=> s.forced)
      BY <1>5, <2>2 DEF Session
    <3>2. ~e.forced => e.view.plan[e.at].next <= e.day
      BY <1>9, <2>2, <3>1
    <3>3. e.forced => e.view # None /\ \E q \in Plan : e.todo = {q}
      BY <1>1, <1>5, <1>6, <2>2, <3>1 DEF RunOK
    <3>4. e.day <= today /\ e.at \in e.todo /\ e.view.plan[e.at] # None /\ e.view # None
      BY <1>1, <1>5, <1>6, <1>9, <2>2 DEF RunOK
    <3>5. today' = today
      BY <1>2
    <3> QED
      BY <2>2, <2>3, <3>2, <3>3, <3>4, <3>5 DEF RunOK
  <2>6. MailedExists'
    BY <1>1, <1>2, <2>3, MailsStay
  <2> QED
    BY <1>2, <2>2, <2>3, <2>4, <2>5, <2>6, RunStep DEF LockStep, PlansInv, TypeOK
<1> QED
  BY <1>4, <1>7, <1>8, <1>9 DEF Serve

LEMMA TakeNumberStep ==
  ASSUME PlansInv, NEW r \in Run, TakeNumber(r)
  PROVE  PlansInv'
<1>1. /\ TypeOK /\ run[r] # Idle /\ run[r].step = "number" /\ RunOK(r) /\ lock = None
      /\ run[r].view.high < MaxNumber /\ lock' = r
      /\ UNCHANGED <<today, plan, document, counter, mailed, given, drafted, saves>>
  BY DEF TakeNumber, PlansInv, RunsOK
<1>2. run[r] \in Session /\ run[r].view \in View /\ run[r].view # None
  BY <1>1, RunType DEF RunOK
<1>3. run[r].view.high \in 0 .. MaxNumber
  BY <1>2, ViewType
<1>4. run[r].view.high + 1 \in Numbers
  BY <1>1, <1>3, Bounds DEF Numbers
<1>5. PICK e : e = [run[r] EXCEPT !.step = "commit", !.number = run[r].view.high + 1]
  OBVIOUS
<1>6. /\ e \in Session /\ e.day = run[r].day /\ e.forced = run[r].forced /\ e.todo = run[r].todo
      /\ e.view = run[r].view /\ e.at = run[r].at /\ e.step = "commit"
      /\ e.number = run[r].view.high + 1
  BY <1>2, <1>4, <1>5 DEF Session
<1>7. run' = [run EXCEPT ![r] = e] /\ run'[r] = e
  BY <1>1, <1>5 DEF TypeOK, TakeNumber
<1>8. ViewKept(r, e)
  BY <1>1, <1>6 DEF ViewKept
<1>9. RunOK(r)'
  BY <1>1, <1>6, <1>7 DEF RunOK
<1>10. MailedExists'
  BY <1>1, <1>7, MailsStay
<1> QED
  BY <1>1, <1>6, <1>7, <1>8, <1>9, <1>10, RunStep DEF LockStep, PlansInv, TypeOK

LEMMA WithoutView ==
  ASSUME NEW s \in Session, NEW c, c = [s EXCEPT !.view = None]
  PROVE  c \in Session /\ c.day = s.day /\ c.forced = s.forced /\ c.todo = s.todo /\ c.view = None
BY DEF Session

LEMMA NoNumberStep ==
  ASSUME PlansInv, NEW r \in Run, NoNumber(r)
  PROVE  PlansInv'
<1>1. /\ TypeOK /\ run[r] # Idle /\ run[r].step = "number" /\ RunOK(r)
      /\ UNCHANGED <<today, plan, document, counter, lock, mailed, given, drafted, saves>>
  BY DEF NoNumber, PlansInv, RunsOK
<1>2. run[r] \in Session /\ run[r].at \in run[r].todo
  BY <1>1, RunType DEF RunOK
<1>3. PICK c : c = [run[r] EXCEPT !.view = None]
  OBVIOUS
<1>4. c \in Session /\ c.day = run[r].day /\ c.forced = run[r].forced /\ c.todo = run[r].todo
      /\ c.view = None
  BY <1>2, <1>3, WithoutView
<1>5. PICK p : p = run[r].at
  OBVIOUS
<1>6. GoOn(r, c, p)
  BY <1>3, <1>5 DEF NoNumber
<1> QED
  BY <1>1, <1>2, <1>4, <1>5, <1>6, OnwardStep DEF LockStep

LEMMA RefusedStep ==
  ASSUME PlansInv, NEW r \in Run, Refused(r)
  PROVE  PlansInv'
<1>1. /\ TypeOK /\ run[r] # Idle /\ run[r].step \in {"commit", "mailed"} /\ RunOK(r)
      /\ UNCHANGED <<today, plan, document, counter, mailed, given, drafted, saves>>
      /\ lock' = Unlocked(r) /\ ~KeyAccepts(run[r].number)
  BY DEF Refused, PlansInv, RunsOK
<1>2. run[r] \in Session /\ run[r].at \in run[r].todo
  BY <1>1, RunType DEF RunOK
<1>3. PICK c : c = [run[r] EXCEPT !.view = None]
  OBVIOUS
<1>4. c \in Session /\ c.day = run[r].day /\ c.forced = run[r].forced /\ c.todo = run[r].todo
      /\ c.view = None
  BY <1>2, <1>3, WithoutView
<1>5. PICK p : p = run[r].at
  OBVIOUS
<1>6. GoOn(r, c, p)
  BY <1>3, <1>5 DEF Refused
<1>7. run[r].step # "mailed"
  BY <1>1 DEF RunOK, KeyAccepts
<1> QED
  BY <1>1, <1>2, <1>4, <1>5, <1>6, <1>7, OnwardStep, UnlockedType

LEMMA SendStep ==
  ASSUME PlansInv, NEW r \in Run, SendMail(r)
  PROVE  PlansInv'
<1>1. /\ TypeOK /\ run[r] # Idle /\ run[r].step = "commit" /\ run[r].number # None /\ RunOK(r)
      /\ UNCHANGED <<today, plan, document, counter, lock, given, drafted, saves>>
      /\ KeyAccepts(run[r].number)
      /\ mailed' = mailed \cup {[number |-> run[r].number, plan |-> run[r].at, date |-> RunDate(r)]}
  BY DEF SendMail, PlansInv, RunsOK, Flushed
<1>2. run[r] \in Session /\ run[r].at \in Plan /\ run[r].number \in Numbers
      /\ run[r].day \in Days /\ run[r].view \in View /\ run[r].view.plan[run[r].at] # None
  BY <1>1, RunType DEF RunOK
<1>3. RunDate(r) \in Days
  BY <1>2, ViewType DEF RunDate, Seen
<1>4. PICK e : e = [run[r] EXCEPT !.step = "mailed"]
  OBVIOUS
<1>5. /\ e \in Session /\ e.day = run[r].day /\ e.forced = run[r].forced /\ e.todo = run[r].todo
      /\ e.view = run[r].view /\ e.at = run[r].at /\ e.step = "mailed" /\ e.number = run[r].number
      /\ e # Idle
  BY <1>2, <1>4, NoneIsNothing DEF Session, Idle
<1>6. run' = [run EXCEPT ![r] = e] /\ run'[r] = e
  BY <1>1, <1>4 DEF TypeOK, SendMail
<1>7. ViewKept(r, e)
  BY <1>1, <1>5 DEF ViewKept
<1>8. RunOK(r)'
  BY <1>1, <1>5, <1>6 DEF RunOK, KeyAccepts
<1>9. RunDate(r)' = RunDate(r)
  BY <1>5, <1>6 DEF RunDate, Seen
<1>10. \A q \in Run : q # r => run'[q] = run[q]
  BY <1>1, <1>6 DEF TypeOK
<1>11. MailedExists'
  <2> SUFFICES ASSUME NEW m \in mailed', m.number \notin given
               PROVE  Written(m)' \/ \E q \in Run : Held(m, q)'
    BY <1>1 DEF MailedExists, Written, Held
  <2>1. CASE m \in mailed
    <3>1. Written(m) \/ \E q \in Run : Held(m, q)
      BY <2>1, MailedIs DEF PlansInv
    <3>2. CASE Written(m)
      BY <1>1, <3>2 DEF Written
    <3>3. CASE \E q \in Run : Held(m, q)
      <4>1. PICK q \in Run : Held(m, q)
        BY <3>3
      <4>2. q # r
        BY <1>1, <4>1 DEF Held
      <4>3. run'[q] = run[q]
        BY <1>10, <4>2
      <4> QED
        BY <4>1, <4>3 DEF Held, RunDate, Seen
    <3> QED
      BY <3>1, <3>2, <3>3
  <2>2. CASE m = [number |-> run[r].number, plan |-> run[r].at, date |-> RunDate(r)]
    <3>1. Held(m, r)'
      BY <1>5, <1>6, <1>9, <2>2 DEF Held
    <3> QED
      BY <3>1
  <2> QED
    BY <1>1, <2>1, <2>2
<1>12. mailed' \subseteq Mail
  BY <1>1, <1>2, <1>3 DEF TypeOK, Mail
<1> QED
  BY <1>1, <1>5, <1>6, <1>7, <1>8, <1>11, <1>12, RunStep DEF LockStep, PlansInv, TypeOK

LEMMA GiveUpStep ==
  ASSUME PlansInv, NEW r \in Run, PlanGone(r) \/ Abandon(r)
  PROVE  PlansInv'
<1>1. /\ TypeOK /\ run[r] # Idle /\ RunOK(r) /\ given' = GivenBack(r)
      /\ run' = [run EXCEPT ![r] = Idle] /\ lock' = Unlocked(r)
      /\ UNCHANGED <<today, plan, document, counter, mailed, drafted, saves>>
  BY DEF PlanGone, Abandon, PlansInv, RunsOK
<1>2. run[r].step = "mailed" => run[r].number \in Numbers
  BY <1>1, RunType DEF RunOK
<1>3. given \subseteq given' /\ given' \subseteq Numbers
  BY <1>1, <1>2 DEF GivenBack, TypeOK
<1>4. run[r].step = "mailed" => run[r].number \in given'
  BY <1>1 DEF GivenBack
<1> QED
  BY <1>1, <1>3, <1>4, EndStep, UnlockedType

-----------------------------------------------------------------------------
(* The calendar and everybody else. *)
LEMMA NextDayStep == PlansInv /\ NextDay => PlansInv'
<1> SUFFICES ASSUME PlansInv, NextDay PROVE PlansInv'
  OBVIOUS
<1>1. /\ today' = today + 1 /\ today < LastDay
      /\ UNCHANGED <<plan, document, counter, lock, run, mailed, given, drafted, saves>>
  BY DEF NextDay
<1>2. TypeOK /\ today \in Nat
  BY Bounds DEF PlansInv, TypeOK
<1>3. TypeOK'
  BY <1>1, <1>2, Bounds DEF TypeOK
<1>4. RunsOK'
  <2> SUFFICES ASSUME NEW r \in Run PROVE RunOK(r)'
    BY DEF RunsOK
  <2>1. CASE run[r] = Idle
    BY <1>1, <2>1 DEF RunOK, Idle
  <2>2. CASE run[r] # Idle
    <3>1. run[r].day \in Nat /\ run[r].day <= today
      BY <1>2, <2>2, RunType, Bounds DEF PlansInv, RunsOK, RunOK, Days
    <3>2. run[r].day <= today'
      BY <1>1, <1>2, <3>1
    <3> QED
      BY <1>1, <2>2, <3>2 DEF PlansInv, RunsOK, RunOK
  <2> QED
    BY <2>1, <2>2
<1>5. SinceOK'
  <2>1. \A n \in Numbers : IsDocument(n) => document[n].date \in Nat /\ document[n].date <= today
    BY <1>2, DocumentType, Bounds DEF PlansInv, SinceOK, Days
  <2>2. \A n \in Numbers : IsDocument(n) => document[n].date <= today + 1
    BY <1>2, <2>1
  <2> QED
    BY <1>1, <2>2 DEF PlansInv, SinceOK, IsDocument
<1>6. OnceOK'
  BY <1>1 DEF PlansInv, OnceOK, NumbersOK, DatesOK, FreshOK, OncePerDate, Past, IsDocument, Fresh
<1>7. MailedExists'
  BY <1>1 DEF PlansInv, MailedExists, RunDate, Seen
<1> QED
  BY <1>3, <1>4, <1>5, <1>6, <1>7 DEF PlansInv

(* While nobody writes the runs, their mails are covered by the documents that stay. *)
LEMMA WorldMails ==
  ASSUME PlansInv, run' = run, mailed' = mailed, given \subseteq given',
         \A n \in Numbers : document[n] \in Document => document'[n] = document[n] \/ n \in given'
  PROVE  MailedExists'
<1> SUFFICES ASSUME NEW m \in mailed, m.number \notin given'
             PROVE  Written(m)' \/ \E q \in Run : Held(m, q)'
  BY DEF MailedExists, Written, Held
<1>1. Written(m) \/ \E q \in Run : Held(m, q)
  BY MailedIs DEF PlansInv
<1>2. m.number \in Numbers
  BY DEF PlansInv, TypeOK, Mail
<1>3. CASE Written(m)
  BY <1>2, <1>3 DEF Written
<1>4. CASE \E q \in Run : Held(m, q)
  BY <1>4 DEF Held, RunDate, Seen
<1> QED
  BY <1>1, <1>3, <1>4

LEMMA IssueStep == PlansInv /\ IssueOther => PlansInv'
<1> SUFFICES ASSUME PlansInv, IssueOther PROVE PlansInv'
  OBVIOUS
<1>1. PICK h : h = High
  OBVIOUS
<1>2. /\ lock = None /\ h < MaxNumber
      /\ document' = [document EXCEPT ![h + 1] = Foreign] /\ counter' = h + 1
      /\ UNCHANGED <<today, plan, lock, run, mailed, given, drafted, saves>>
  BY <1>1 DEF IssueOther
<1>3. TypeOK /\ h \in 0 .. MaxNumber /\ counter \in 0 .. MaxNumber /\ counter <= h
  BY <1>1, HighType DEF PlansInv, TypeOK
<1>4. h + 1 \in Numbers
  BY <1>2, <1>3, Bounds DEF Numbers
<1>5. document[h + 1] = None
  BY <1>1, <1>3, <1>4, HighType, Bounds
<1>6. /\ document'[h + 1] = Foreign
      /\ \A n \in Numbers : n # h + 1 => document'[n] = document[n]
  BY <1>2, <1>3, <1>4 DEF TypeOK
<1>7. \A n \in Numbers : IsDocument(n)' <=> IsDocument(n)
  BY <1>5, <1>6 DEF IsDocument
<1>8. \A n \in Numbers : IsDocument(n) => document'[n] = document[n]
  BY <1>5, <1>6 DEF IsDocument
<1>9. TypeOK'
  BY <1>2, <1>3, <1>4, Bounds DEF TypeOK, Numbers
<1>10. RunsOK'
  <2> SUFFICES ASSUME NEW r \in Run PROVE RunOK(r)'
    BY DEF RunsOK
  <2>1. RunOK(r)
    BY DEF PlansInv, RunsOK
  <2>2. CASE run[r] = Idle
    BY <1>2, <2>2 DEF RunOK, Idle
  <2>3. CASE run[r] # Idle
    <3>1. run[r].number = None
      BY <1>2, <2>1, <2>3, NoneIsNothing DEF RunOK
    <3> QED
      BY <1>2, <2>1, <2>3, <3>1 DEF RunOK
  <2> QED
    BY <2>2, <2>3
<1>11. SinceOK'
  BY <1>2, <1>7, <1>8 DEF PlansInv, SinceOK
<1>12. OnceOK'
  <2> SUFFICES ASSUME given = {} PROVE (NumbersOK /\ DatesOK /\ FreshOK /\ OncePerDate)'
    BY <1>2 DEF OnceOK
  <2>1. NumbersOK /\ DatesOK /\ FreshOK /\ OncePerDate
    BY DEF PlansInv, OnceOK
  <2>2. h = counter
    BY <1>1, <1>3, <2>1, GapFree
  <2>3. \A p, since : Past(p, since)' = Past(p, since)
    BY <1>7, <1>8 DEF Past
  <2>4. \A r \in Run : run[r] # Idle /\ run[r].view # None =>
          run[r].view.high \in Nat /\ run[r].view.high <= counter
    <3> SUFFICES ASSUME NEW r \in Run, run[r] # Idle, run[r].view # None
                 PROVE  run[r].view.high \in Nat /\ run[r].view.high <= counter
      OBVIOUS
    <3>1. run[r].view \in View
      BY <1>3, RunType
    <3>2. run[r].view.high \in 0 .. MaxNumber
      BY <3>1, ViewType
    <3> QED
      BY <2>1, <3>2, Bounds DEF NumbersOK
  <2>5. NumbersOK'
    <3>1. ASSUME NEW n \in Numbers PROVE document'[n] # None <=> n <= counter'
      <4>1. n \in Nat /\ (document[n] # None <=> n <= counter)
        BY <2>1, Bounds DEF NumbersOK, Numbers
      <4> QED
        BY <4>1, <1>2, <1>3, <1>6, <2>2, NoneIsNothing
    <3>2. \A r \in Run : run'[r] # Idle /\ run'[r].view # None => run'[r].view.high <= counter'
      BY <1>2, <1>3, <2>2, <2>4
    <3> QED
      BY <3>1, <3>2 DEF NumbersOK
  <2>6. DatesOK'
    <3>1. \A p, since : \A n \in Past(p, since) : document'[n] = document[n]
      BY <1>8 DEF Past
    <3>2. SUFFICES ASSUME NEW p \in Plan \ drafted, plan[p] # None
                   PROVE  \A n \in Past(p, plan[p].since)' : document'[n].date < plan[p].next
      BY <1>2 DEF DatesOK
    <3>3. Past(p, plan[p].since)' = Past(p, plan[p].since)
      BY <1>2, <1>7, <1>8 DEF Past
    <3> QED
      BY <2>1, <3>1, <3>2, <3>3 DEF DatesOK
  <2>7. FreshOK'
    <3>1. \A r \in Run : ~Fresh(r)'
      BY <1>2, <1>3, <2>2, <2>4 DEF Fresh
    <3> QED
      BY <3>1 DEF FreshOK
  <2>8. OncePerDate'
    <3>1. \A n \in Numbers : document'[n] \in Document => document[n] \in Document /\ document'[n] = document[n]
      BY <1>6, NoneIsNothing
    <3> QED
      BY <1>2, <2>1, <3>1 DEF OncePerDate
  <2> QED
    BY <2>5, <2>6, <2>7, <2>8
<1>13. MailedExists'
  BY <1>2, <1>5, <1>6, NoneIsNothing, WorldMails
<1> QED
  BY <1>9, <1>10, <1>11, <1>12, <1>13 DEF PlansInv

LEMMA TakeBackStep ==
  ASSUME PlansInv, NEW n \in Numbers, TakeBack(n)
  PROVE  PlansInv'
<1>1. /\ document' = [document EXCEPT ![n] = None] /\ given' = given \cup {n}
      /\ UNCHANGED <<today, plan, counter, lock, run, mailed, drafted, saves>>
  BY DEF TakeBack
<1>2. TypeOK
  BY DEF PlansInv
<1>3. document'[n] = None /\ \A k \in Numbers : k # n => document'[k] = document[k]
  BY <1>1, <1>2 DEF TypeOK
<1>4. TypeOK'
  BY <1>1, <1>2 DEF TypeOK
<1>5. RunsOK'
  <2> SUFFICES ASSUME NEW r \in Run PROVE RunOK(r)'
    BY DEF RunsOK
  <2>1. RunOK(r)
    BY DEF PlansInv, RunsOK
  <2>2. CASE run[r] = Idle
    BY <1>1, <2>2 DEF RunOK, Idle
  <2>3. CASE run[r] # Idle
    <3>1. run[r].number \in Numbers \cup {None}
      BY <1>2, <2>3, RunType
    <3>2. run[r].step = "mailed" => document'[run[r].number] = None
      BY <1>3, <2>1, <2>3, <3>1 DEF RunOK
    <3> QED
      BY <1>1, <2>1, <2>3, <3>2 DEF RunOK
  <2> QED
    BY <2>2, <2>3
<1>6. SinceOK'
  BY <1>1, <1>3 DEF PlansInv, SinceOK, IsDocument
<1>7. OnceOK'
  BY <1>1 DEF OnceOK
<1>8. MailedExists'
  BY <1>1, <1>3, WorldMails
<1> QED
  BY <1>4, <1>5, <1>6, <1>7, <1>8 DEF PlansInv

(* A plan is written by hand: the rows of the runs and the documents stay. *)
LEMMA PlanWritten ==
  ASSUME PlansInv, NEW p \in Plan, NEW row \in PlanRow \cup {None},
         plan' = [plan EXCEPT ![p] = row],
         saves' \in 0 .. MaxSaves, saves <= saves',
         \/ row = None
         \/ row # None /\ plan[p] # None /\ row.next = plan[p].next /\ row.since = plan[p].since
         \/ row # None /\ row.since = saves + 1 /\ saves' = saves + 1,
         UNCHANGED <<today, document, counter, lock, run, mailed, given, drafted>>
  PROVE  PlansInv'
<1>1. TypeOK /\ saves \in Nat /\ saves' \in Nat
  BY Bounds DEF PlansInv, TypeOK
<1>2. plan'[p] = row /\ \A q \in Plan : q # p => plan'[q] = plan[q]
  BY <1>1 DEF TypeOK
<1>3. TypeOK'
  BY <1>1 DEF TypeOK
<1>4. RunsOK' /\ MailedExists'
  BY DEF PlansInv, RunsOK, RunOK, MailedExists, RunDate, Seen
<1>5. SinceOK'
  <2>1. ASSUME NEW q \in Plan, plan'[q] # None PROVE plan'[q].since <= saves'
    <3>1. CASE plan[q] # None /\ plan'[q].since = plan[q].since
      <4>1. plan[q].since \in Nat /\ plan[q].since <= saves
        BY <1>1, <3>1, PlanType, Bounds DEF PlansInv, SinceOK
      <4> QED
        BY <1>1, <3>1, <4>1
    <3>2. CASE q = p /\ row.since = saves + 1 /\ saves' = saves + 1
      BY <1>1, <1>2, <3>2
    <3> QED
      BY <1>2, <2>1, <3>1, <3>2
  <2>2. ASSUME NEW n \in Numbers, IsDocument(n) PROVE document[n].since <= saves'
    <3>1. document[n].since \in Nat /\ document[n].since <= saves
      BY <1>1, <2>2, DocumentType, Bounds DEF PlansInv, SinceOK
    <3> QED
      BY <1>1, <3>1
  <2>3. ASSUME NEW r \in Run, NEW q \in Plan,
               run[r] # Idle, run[r].view # None, run[r].view.plan[q] # None
        PROVE  run[r].view.plan[q].since <= saves'
    <3>1. run[r].view \in View
      BY <1>1, <2>3, RunType
    <3>2. run[r].view.plan[q].since \in Nat
      BY <2>3, <3>1, ViewType, Bounds
    <3>3. run[r].view.plan[q].since <= saves
      BY <2>3 DEF PlansInv, SinceOK
    <3> QED
      BY <1>1, <3>2, <3>3
  <2> QED
    BY <2>1, <2>2, <2>3 DEF PlansInv, SinceOK, IsDocument
<1>6. OnceOK'
  <2> SUFFICES ASSUME given = {} PROVE (NumbersOK /\ DatesOK /\ FreshOK /\ OncePerDate)'
    BY DEF OnceOK
  <2>1. NumbersOK /\ DatesOK /\ FreshOK /\ OncePerDate
    BY DEF PlansInv, OnceOK
  <2>2. NumbersOK' /\ OncePerDate'
    BY <2>1 DEF NumbersOK, OncePerDate
  <2>3. \A q, since : Past(q, since)' = Past(q, since)
    BY DEF Past, IsDocument
  <2>4. Past(p, saves + 1) = {}
    <3> SUFFICES ASSUME NEW n \in Past(p, saves + 1) PROVE FALSE
      OBVIOUS
    <3>1. n \in Numbers /\ IsDocument(n) /\ document[n].since = saves + 1
      BY DEF Past
    <3>2. document[n].since <= saves
      BY <3>1 DEF PlansInv, SinceOK
    <3> QED
      BY <1>1, <3>1, <3>2
  <2>5. DatesOK'
    BY <1>2, <2>1, <2>3, <2>4 DEF DatesOK
  <2>6. FreshOK'
    <3> SUFFICES ASSUME NEW r \in Run, Fresh(r)
        PROVE  \A q \in Plan \ drafted : plan'[q] # None =>
                 \/ /\ run[r].view.plan[q] # None
                    /\ run[r].view.plan[q].since = plan'[q].since
                    /\ run[r].view.plan[q].next = plan'[q].next
                 \/ /\ run[r].view.plan[q] # None => run[r].view.plan[q].since # plan'[q].since
                    /\ Past(q, plan'[q].since) = {}
      BY <2>1, <2>3 DEF FreshOK, Fresh, IsDocument
    <3> TAKE q \in Plan \ drafted
    <3> HAVE plan'[q] # None
    <3>1. CASE plan[q] # None /\ plan'[q].since = plan[q].since /\ plan'[q].next = plan[q].next
      BY <3>1, <2>1 DEF FreshOK
    <3>2. CASE q = p /\ row.since = saves + 1
      <4>1. run[r].view.plan[q] # None => run[r].view.plan[q].since # saves + 1
        <5> SUFFICES ASSUME run[r].view.plan[q] # None PROVE run[r].view.plan[q].since # saves + 1
          OBVIOUS
        <5>1. run[r].view.plan[q].since <= saves
          BY DEF PlansInv, SinceOK, Fresh
        <5> QED
          BY <1>1, <5>1
      <4> QED
        BY <1>2, <2>4, <3>2, <4>1
    <3> QED
      BY <1>2, <3>1, <3>2
  <2> QED
    BY <2>2, <2>5, <2>6
<1> QED
  BY <1>3, <1>4, <1>5, <1>6 DEF PlansInv

LEMMA SaveStep ==
  ASSUME PlansInv, NEW p \in Plan, NEW next \in 0 .. LastDay, NEW active \in BOOLEAN,
         NEW mode \in {"draft", "issue", "send"}, Save(p, next, active, mode)
  PROVE  PlansInv'
<1> DEFINE row == [next |-> next, active |-> active, mode |-> mode,
                   since |-> IF plan[p] # None /\ plan[p].next = next THEN plan[p].since ELSE saves + 1]
<1>1. /\ TypeOK /\ saves < MaxSaves /\ saves' = saves + 1 /\ plan' = [plan EXCEPT ![p] = row]
      /\ UNCHANGED <<today, document, counter, lock, run, mailed, given, drafted>>
  BY DEF Save, PlansInv
<1>2. saves \in Nat /\ saves' \in 0 .. MaxSaves /\ saves <= saves'
  BY <1>1, Bounds DEF TypeOK
<1>3. row \in PlanRow
  BY <1>1, <1>2, PlanType, Bounds DEF PlanRow, Days
<1>4. row # None
  BY <1>3, NoneIsNothing
<1>5. row.next = next /\
      row.since = (IF plan[p] # None /\ plan[p].next = next THEN plan[p].since ELSE saves + 1)
  OBVIOUS
<1> HIDE DEF row
<1> QED
  BY <1>1, <1>2, <1>3, <1>4, <1>5, PlanWritten

LEMMA RemoveStep ==
  ASSUME PlansInv, NEW p \in Plan, Remove(p)
  PROVE  PlansInv'
<1>1. saves' \in 0 .. MaxSaves /\ saves <= saves'
  BY Bounds DEF PlansInv, TypeOK, Remove
<1> QED
  BY <1>1, PlanWritten DEF Remove

-----------------------------------------------------------------------------
(* The commit of a run: the plan moves on, and the document is there. *)
CommitFacts(r, p, n, e, row) ==
  /\ TypeOK /\ RunOK(r) /\ run[r] # Idle /\ run[r].step \in {"commit", "mailed"}
  /\ p = run[r].at /\ p \in Plan /\ p \in run[r].todo /\ n = run[r].number /\ n \in Numbers \cup {None}
  /\ run[r].view \in View /\ run[r].view.plan[p] # None /\ Seen(r) = run[r].view.plan[p]
  /\ run[r].day \in Days /\ run[r].day <= today
  /\ RunDate(r) \in Nat /\ RunDate(r) <= run[r].day
  /\ run[r].forced => RunDate(r) = run[r].day
  /\ ~run[r].forced => RunDate(r) = run[r].view.plan[p].next
  /\ plan[p] # None /\ row \in PlanRow /\ row.since = plan[p].since
  /\ \/ /\ row.next = plan[p].next /\ run[r].forced
        /\ run[r].view.plan[p].next \in Nat /\ run[r].view.plan[p].next > run[r].day
     \/ row.next \in Nat /\ row.next > run[r].day
  /\ plan' = [plan EXCEPT ![p] = row]
  /\ run' = [run EXCEPT ![r] = e] /\ e \in Session \cup {Idle}
  /\ e # Idle => /\ e.day = run[r].day /\ e.view = None /\ e.at = None /\ e.step = "next"
                 /\ e.number = None /\ ~e.forced
  /\ KeyAccepts(n) /\ LockStep(r)
  /\ UNCHANGED <<today, mailed, given, saves>>

LEMMA CommitIs ==
  ASSUME PlansInv, NEW r \in Run, Commit(r), NEW p, p = run[r].at, NEW n, n = run[r].number
  PROVE  \E e, row : CommitFacts(r, p, n, e, row)
<1>1. /\ TypeOK /\ RunOK(r) /\ run[r] # Idle /\ run[r].step \in {"commit", "mailed"}
      /\ plan[p] # None /\ KeyAccepts(n) /\ plan' = Served(r)
      /\ GoOn(r, [run[r] EXCEPT !.view = None], p) /\ lock' = Unlocked(r)
      /\ UNCHANGED <<today, mailed, given, saves>>
  BY DEF Commit, PlansInv, RunsOK
<1>2. /\ run[r] \in Session /\ run[r].day \in Days /\ run[r].forced \in BOOLEAN
      /\ p \in Plan /\ p \in run[r].todo /\ n \in Numbers \cup {None} /\ run[r].view \in View
      /\ run[r].view.plan[p] # None /\ run[r].day <= today
      /\ ~run[r].forced => run[r].view.plan[p].next <= run[r].day
  BY <1>1, RunType, NoneIsNothing DEF RunOK
<1>3. Seen(r) = run[r].view.plan[p]
  BY DEF Seen
<1>4. run[r].view.plan[p].next \in Nat /\ run[r].day \in Nat /\ run[r].day <= LastDay
      /\ run[r].view.plan[p].next <= LastDay + Step
  <2>1. run[r].view.plan[p].next \in Days
    BY <1>2, ViewType
  <2>2. today \in 0 .. LastDay
    BY <1>1 DEF TypeOK
  <2> QED
    BY <1>2, <2>1, <2>2, Bounds DEF Days
<1>5. /\ run[r].forced => RunDate(r) = run[r].day
      /\ ~run[r].forced => RunDate(r) = run[r].view.plan[p].next
  BY <1>3 DEF RunDate
<1>6. RunDate(r) \in Nat /\ RunDate(r) <= run[r].day
  BY <1>2, <1>4, <1>5
<1>7. PICK date : date = RunDate(r)
  OBVIOUS
<1>8. PICK day : day = run[r].day
  OBVIOUS
<1>9. PICK next : next = NextDate(date, day)
  OBVIOUS
<1>10. next \in Nat /\ next > day /\ next <= day + Step
  BY <1>4, <1>6, <1>7, <1>8, <1>9, NextDateIsLater
<1>11. next \in Days
  BY <1>4, <1>8, <1>10, Bounds DEF Days
<1>12. PICK row : row = [plan[p] EXCEPT !.next = IF next = Seen(r).next THEN plan[p].next ELSE next]
  OBVIOUS
<1>13. plan' = [plan EXCEPT ![p] = row]
  BY <1>1, <1>7, <1>8, <1>9, <1>12 DEF Served
<1>14. plan[p] \in PlanRow /\ plan[p].next \in Days
  BY <1>1, <1>2, PlanType
<1>15. row \in PlanRow /\ row.since = plan[p].since
       /\ row.next = (IF next = run[r].view.plan[p].next THEN plan[p].next ELSE next)
  BY <1>3, <1>11, <1>12, <1>14 DEF PlanRow
<1>16. \/ /\ row.next = plan[p].next /\ run[r].forced
          /\ run[r].view.plan[p].next \in Nat /\ run[r].view.plan[p].next > run[r].day
       \/ row.next \in Nat /\ row.next > run[r].day
  BY <1>2, <1>4, <1>8, <1>10, <1>15
<1>17. PICK c : c = [run[r] EXCEPT !.view = None]
  OBVIOUS
<1>18. /\ c \in Session /\ c.day = run[r].day /\ c.forced = run[r].forced
       /\ c.todo = run[r].todo /\ c.view = None
  BY <1>2, <1>17, WithoutView
<1>19. PICK e : e = Onward(c, p)
  OBVIOUS
<1>20. /\ e \in Session \cup {Idle}
       /\ e # Idle => /\ c.todo # {p} /\ e.day = c.day
                      /\ e.forced = c.forced /\ e.view = c.view
                      /\ e.at = None /\ e.step = "next" /\ e.number = None
  BY <1>18, <1>19, OnwardType
<1>21. run' = [run EXCEPT ![r] = e]
  BY <1>1, <1>17, <1>19 DEF GoOn, Onward
<1>22. e # Idle => ~e.forced
  <2> SUFFICES ASSUME e # Idle, e.forced PROVE FALSE
    OBVIOUS
  <2>1. PICK q \in Plan : run[r].todo = {q}
    BY <1>1, <1>18, <1>20 DEF RunOK
  <2> QED
    BY <1>2, <1>18, <1>20, <2>1
<1>23. LockStep(r)
  BY <1>1, UnlockedType
<1>24. /\ e # Idle => /\ e.day = run[r].day /\ e.view = None /\ e.at = None /\ e.step = "next"
                      /\ e.number = None /\ ~e.forced
  BY <1>18, <1>20, <1>22
<1>25. CommitFacts(r, p, n, e, row)
  BY <1>1, <1>2, <1>3, <1>5, <1>6, <1>13, <1>15, <1>16, <1>20, <1>21, <1>23, <1>24
  DEF CommitFacts
<1> QED
  BY <1>25

(* What both kinds of commit leave: a draft, or a document with a number. *)
LEMMA CommitRest ==
  ASSUME PlansInv, NEW r \in Run, NEW p, NEW n, NEW e, NEW row, CommitFacts(r, p, n, e, row)
  PROVE  /\ p \in Plan
         /\ run'[r] = e /\ \A q \in Run : q # r => run'[q] = run[q]
         /\ plan'[p] = row /\ \A q \in Plan : q # p => plan'[q] = plan[q]
         /\ row # None /\ row.since <= saves
         /\ plan' \in [Plan -> PlanRow \cup {None}] /\ run' \in [Run -> Session \cup {Idle}]
         /\ RunOK(r)' /\ lock' \in Run \cup {None}
         /\ today' = today /\ saves' = saves /\ given' = given /\ mailed' = mailed
<1>1. TypeOK /\ p \in Plan
  BY DEF CommitFacts
<1>2. /\ run'[r] = e /\ \A q \in Run : q # r => run'[q] = run[q]
      /\ plan'[p] = row /\ \A q \in Plan : q # p => plan'[q] = plan[q]
      /\ plan' \in [Plan -> PlanRow \cup {None}] /\ run' \in [Run -> Session \cup {Idle}]
  BY <1>1 DEF CommitFacts, TypeOK
<1>3. row # None /\ row.since <= saves
  BY <1>1, NoneIsNothing DEF CommitFacts, PlansInv, SinceOK
<1>4. RunOK(r)'
  BY <1>2 DEF CommitFacts, RunOK
<1>5. lock' \in Run \cup {None}
  BY <1>1 DEF CommitFacts, LockStep, TypeOK
<1> QED
  BY <1>1, <1>2, <1>3, <1>4, <1>5 DEF CommitFacts

LEMMA CommitDraft ==
  ASSUME PlansInv, NEW r \in Run, NEW p, NEW n, NEW e, NEW row, CommitFacts(r, p, n, e, row),
         n = None, drafted' = drafted \cup {p}, document' = document, counter' = counter
  PROVE  PlansInv'
<1>1. /\ p \in Plan
      /\ run'[r] = e /\ \A q \in Run : q # r => run'[q] = run[q]
      /\ plan'[p] = row /\ \A q \in Plan : q # p => plan'[q] = plan[q]
      /\ row # None /\ row.since <= saves
      /\ plan' \in [Plan -> PlanRow \cup {None}] /\ run' \in [Run -> Session \cup {Idle}]
      /\ RunOK(r)' /\ lock' \in Run \cup {None}
      /\ today' = today /\ saves' = saves /\ given' = given /\ mailed' = mailed
  BY CommitRest
<1>2. /\ TypeOK
      /\ e # Idle => e.view = None
      /\ run' = [run EXCEPT ![r] = e] /\ LockStep(r) /\ run[r] # Idle /\ run[r].step # "mailed"
  BY DEF CommitFacts, RunOK
<1>3. TypeOK'
  BY <1>1, <1>2 DEF TypeOK
<1>4. RunsOK'
  <2>1. \A q \in Run : q # r => RunOK(q)'
    BY <1>1, <1>2, OtherRunsStay
  <2> QED
    BY <1>1, <2>1 DEF RunsOK
<1>5. SinceOK'
  <2>1. SinceOK
    BY DEF PlansInv
  <2>2. \A q \in Plan : plan'[q] # None => plan'[q].since <= saves
    BY <1>1, <2>1 DEF SinceOK
  <2>3. \A q \in Run, k \in Plan : run'[q] # Idle /\ run'[q].view # None /\ run'[q].view.plan[k] # None
          => run'[q].view.plan[k].since <= saves
    BY <1>1, <1>2, <2>1 DEF SinceOK
  <2> QED
    BY <1>1, <2>1, <2>2, <2>3 DEF SinceOK, IsDocument
<1>6. OnceOK'
  <2> SUFFICES ASSUME given = {} PROVE (NumbersOK /\ DatesOK /\ FreshOK /\ OncePerDate)'
    BY <1>1 DEF OnceOK
  <2>1. NumbersOK /\ DatesOK /\ FreshOK /\ OncePerDate
    BY DEF PlansInv, OnceOK
  <2>2. NumbersOK'
    BY <1>1, <1>2, <2>1 DEF NumbersOK
  <2>3. OncePerDate'
    BY <1>1, <2>1 DEF OncePerDate
  <2>4. \A q, since : Past(q, since)' = Past(q, since)
    BY DEF Past, IsDocument
  <2>5. DatesOK'
    BY <1>1, <2>1, <2>4 DEF DatesOK
  <2>6. FreshOK'
    <3> SUFFICES ASSUME NEW q \in Run, Fresh(q)'
        PROVE  /\ run'[q].forced =>
                    \A k \in Numbers : IsDocument(k) => document[k].date <= run'[q].day
               /\ \A k \in Plan \ drafted' : run'[q].view.plan[k] # None =>
                    \A m \in Past(k, run'[q].view.plan[k].since) :
                       document[m].date < run'[q].view.plan[k].next
               /\ \A k \in Plan \ drafted' : plan'[k] # None =>
                    \/ /\ run'[q].view.plan[k] # None
                       /\ run'[q].view.plan[k].since = plan'[k].since
                       /\ run'[q].view.plan[k].next = plan'[k].next
                    \/ /\ run'[q].view.plan[k] # None => run'[q].view.plan[k].since # plan'[k].since
                       /\ Past(k, plan'[k].since) = {}
      BY <1>1, <2>4 DEF FreshOK, IsDocument
    <3>1. q # r /\ run'[q] = run[q]
      BY <1>1, <1>2 DEF Fresh
    <3>2. Fresh(q)
      BY <3>1 DEF Fresh
    <3>3. \A k \in Plan \ drafted' : k \in Plan \ drafted /\ plan'[k] = plan[k]
      BY <1>1
    <3> QED
      BY <2>1, <3>1, <3>2, <3>3 DEF FreshOK
  <2> QED
    BY <2>2, <2>3, <2>5, <2>6
<1>7. MailedExists'
  BY <1>1, <1>2, MailsStay
<1> QED
  BY <1>3, <1>4, <1>5, <1>6, <1>7 DEF PlansInv

(* A document with a number.  While no number was taken back, the snapshot of
   the run is fresh, and so the document is the first of its plan and date. *)
LEMMA CommitNumbered ==
  ASSUME PlansInv, NEW r \in Run, NEW p, NEW n, NEW e, NEW row, CommitFacts(r, p, n, e, row),
         n # None, drafted' = drafted, counter' = n, NEW d,
         d = [plan |-> p, date |-> RunDate(r), since |-> Seen(r).since, forced |-> run[r].forced],
         document' = [document EXCEPT ![n] = d]
  PROVE  PlansInv'
<1> DEFINE seen == run[r].view.plan[p]
<1>1. /\ p \in Plan
      /\ run'[r] = e /\ \A q \in Run : q # r => run'[q] = run[q]
      /\ plan'[p] = row /\ \A q \in Plan : q # p => plan'[q] = plan[q]
      /\ row # None /\ row.since <= saves
      /\ plan' \in [Plan -> PlanRow \cup {None}] /\ run' \in [Run -> Session \cup {Idle}]
      /\ RunOK(r)' /\ lock' \in Run \cup {None}
      /\ today' = today /\ saves' = saves /\ given' = given /\ mailed' = mailed
  BY CommitRest
<1>2. /\ TypeOK /\ RunOK(r)
      /\ e # Idle => e.view = None
      /\ run' = [run EXCEPT ![r] = e] /\ LockStep(r) /\ run[r] # Idle
      /\ n \in Numbers /\ n = run[r].number /\ p = run[r].at /\ run[r].view \in View
      /\ seen # None /\ Seen(r) = seen /\ plan[p] # None
      /\ run[r].day \in Days /\ run[r].day <= today /\ RunDate(r) \in Nat
      /\ RunDate(r) <= run[r].day /\ document[n] = None
  BY DEF CommitFacts, KeyAccepts
<1>3. today \in Nat /\ today <= LastDay /\ saves \in Nat /\ run[r].day \in Nat /\ run[r].forced \in BOOLEAN
  BY <1>2, RunType, Bounds DEF TypeOK, Days
<1>4. seen.next \in Nat /\ seen.since \in 0 .. MaxSaves /\ run[r].view.high \in 0 .. MaxNumber
  BY <1>2, ViewType, Bounds, <1>1 DEF Days
<1>5. seen.since <= saves /\ run[r].view # None
  BY <1>1, <1>2, ViewType DEF PlansInv, SinceOK
<1>6. d \in Document /\ d.plan = p /\ d.date = RunDate(r) /\ d.since = seen.since
      /\ d.forced = run[r].forced
  <2>1. RunDate(r) \in Days
    BY <1>2, <1>3, Bounds DEF Days
  <2> QED
    BY <1>1, <1>2, <1>3, <1>4, <2>1 DEF Document
<1> HIDE DEF seen
<1>7. document'[n] = d /\ \A k \in Numbers : k # n => document'[k] = document[k]
  BY <1>2 DEF TypeOK
<1>8. TypeOK'
  BY <1>1, <1>2, <1>6 DEF TypeOK, Numbers, CommitFacts
<1>9. RunsOK'
  <2>1. ASSUME NEW q \in Run, q # r, run[q] # Idle, run[q].number # None
        PROVE  FALSE
    BY <1>2, <2>1, NoneIsNothing DEF PlansInv, RunsOK, RunOK
  <2>2. \A q \in Run : q # r => RunOK(q)'
    BY <1>1, <1>2, <2>1, OtherRunsStay
  <2> QED
    BY <1>1, <2>2 DEF RunsOK
<1>10. SinceOK'
  <2>1. SinceOK
    BY DEF PlansInv
  <2>2. \A q \in Plan : plan'[q] # None => plan'[q].since <= saves
    BY <1>1, <2>1 DEF SinceOK
  <2>3. \A q \in Run, k \in Plan : run'[q] # Idle /\ run'[q].view # None /\ run'[q].view.plan[k] # None
          => run'[q].view.plan[k].since <= saves
    BY <1>1, <1>2, <2>1 DEF SinceOK
  <2>4. ASSUME NEW k \in Numbers, IsDocument(k)'
        PROVE  document'[k].since <= saves /\ document'[k].date <= today
    <3>1. CASE k = n
      BY <3>1, <1>2, <1>3, <1>5, <1>6, <1>7
    <3>2. CASE k # n
      BY <3>2, <2>1, <2>4, <1>7 DEF SinceOK, IsDocument
    <3> QED
      BY <3>1, <3>2
  <2> QED
    BY <1>1, <2>2, <2>3, <2>4 DEF SinceOK
<1>11. OnceOK'
  <2> SUFFICES ASSUME given = {} PROVE (NumbersOK /\ DatesOK /\ FreshOK /\ OncePerDate)'
    BY <1>1 DEF OnceOK
  <2>1. NumbersOK /\ DatesOK /\ FreshOK /\ OncePerDate
    BY DEF PlansInv, OnceOK
  <2>2. counter \in Nat /\ n \in Nat /\ n = run[r].view.high + 1 /\ n = counter + 1
    <3>1. counter \in Nat /\ n \in Nat /\ run[r].view.high \in Nat
      BY <1>2, <1>4, Bounds DEF TypeOK, Numbers
    <3>2. n = run[r].view.high + 1
      BY <1>2 DEF RunOK
    <3>3. run[r].view.high <= counter
      BY <1>2, <1>5, <2>1 DEF NumbersOK
    <3>4. ~(n <= counter)
      BY <1>2, <2>1 DEF NumbersOK
    <3> QED
      BY <3>1, <3>2, <3>3, <3>4
  <2>3. Fresh(r)
    BY <1>2, <1>4, <1>5, <2>2, Bounds DEF Fresh
  <2>4. /\ run[r].forced => \A k \in Numbers : IsDocument(k) => document[k].date <= run[r].day
        /\ p \notin drafted => \A k \in Past(p, seen.since) : document[k].date < seen.next
        /\ p \notin drafted =>
             \/ seen.since = plan[p].since /\ seen.next = plan[p].next
             \/ seen.since # plan[p].since /\ Past(p, plan[p].since) = {}
    BY <1>1, <1>2, <2>1, <2>3 DEF FreshOK, seen
  <2>5. \A k \in Numbers : IsDocument(k)' <=> k = n \/ IsDocument(k)
    BY <1>2, <1>6, <1>7, NoneIsNothing DEF IsDocument
  <2>6. ~IsDocument(n)
    BY <1>2 DEF IsDocument
  <2>7. \A k \in Numbers : IsDocument(k) => document'[k] = document[k] /\ k # n
    BY <1>7, <2>6
  <2>8. NumbersOK'
    <3>1. ASSUME NEW k \in Numbers PROVE document'[k] # None <=> k <= n
      <4>1. k \in Nat /\ (document[k] # None <=> k <= counter)
        BY <2>1, Bounds DEF NumbersOK, Numbers
      <4> QED
        BY <4>1, <1>6, <1>7, <2>2, NoneIsNothing
    <3>2. ASSUME NEW q \in Run, run'[q] # Idle, run'[q].view # None PROVE run'[q].view.high <= n
      <4>1. q # r /\ run'[q] = run[q]
        BY <1>1, <1>2, <3>2
      <4>2. run[q].view \in View
        BY <1>2, <3>2, <4>1, RunType
      <4>3. run[q].view.high \in Nat /\ run[q].view.high <= counter
        BY <2>1, <3>2, <4>1, <4>2, ViewType, Bounds DEF NumbersOK
      <4> QED
        BY <2>2, <4>1, <4>3
    <3> QED
      BY <3>1, <3>2 DEF NumbersOK
  <2>9. FreshOK'
    <3>1. ASSUME NEW q \in Run, Fresh(q)' PROVE FALSE
      <4>1. q # r /\ run'[q] = run[q]
        BY <1>1, <1>2, <3>1 DEF Fresh
      <4>2. run[q] # Idle /\ run[q].view # None /\ run[q].view.high = n
        BY <3>1, <4>1 DEF Fresh
      <4>3. run[q].view.high <= counter
        BY <2>1, <4>2 DEF NumbersOK
      <4> QED
        BY <2>2, <4>2, <4>3
    <3> QED
      BY <3>1 DEF FreshOK
  <2>10. DatesOK'
    <3> SUFFICES ASSUME NEW q \in Plan \ drafted, plan'[q] # None,
                        NEW k \in Numbers, IsDocument(k)', document'[k].plan = q,
                        document'[k].since = plan'[q].since, ~document'[k].forced
                 PROVE  document'[k].date < plan'[q].next
      BY DEF DatesOK, Past
    <3>1. CASE q # p
      <4>1. k # n
        BY <1>6, <1>7, <3>1
      <4>2. IsDocument(k) /\ document'[k] = document[k] /\ plan'[q] = plan[q]
        BY <1>1, <1>7, <2>5, <3>1, <4>1
      <4> QED
        BY <2>1, <4>2 DEF DatesOK, Past
    <3>2. CASE q = p /\ k = n
      <4>1. ~run[r].forced /\ seen.since = row.since
        BY <1>1, <1>6, <1>7, <3>2
      <4>2. seen.since = plan[p].since
        BY <4>1 DEF CommitFacts
      <4>3. seen.next = plan[p].next
        BY <2>4, <3>2, <4>2
      <4>4. RunDate(r) = seen.next /\ row.next \in Nat /\ row.next > run[r].day
        BY <4>1 DEF CommitFacts, seen
      <4> QED
        BY <1>1, <1>2, <1>3, <1>6, <1>7, <3>2, <4>4
    <3>3. CASE q = p /\ k # n
      <4>1. IsDocument(k) /\ document'[k] = document[k] /\ row.since = plan[p].since
        BY <1>7, <2>5, <3>3 DEF CommitFacts
      <4>2. k \in Past(p, plan[p].since)
        BY <1>1, <3>3, <4>1 DEF Past
      <4>3. seen.since = plan[p].since /\ seen.next = plan[p].next /\ document[k].date < seen.next
        BY <2>4, <3>3, <4>2
      <4>4. document[k].date \in Nat
        BY <1>2, <4>1, DocumentType, Bounds DEF Days
      <4>5. CASE row.next = plan[p].next
        BY <1>1, <3>3, <4>1, <4>3, <4>5
      <4>6. CASE row.next \in Nat /\ row.next > run[r].day
        <5>1. document[k].date <= run[r].day
          <6>1. CASE run[r].forced
            BY <2>4, <4>1, <6>1
          <6>2. CASE ~run[r].forced
            <7>1. seen.next <= run[r].day
              BY <1>2, <6>2 DEF CommitFacts, seen
            <7> QED
              BY <1>3, <1>4, <4>3, <4>4, <7>1
          <6> QED
            BY <6>1, <6>2
        <5> QED
          BY <1>1, <1>3, <3>3, <4>1, <4>4, <4>6, <5>1
      <4> QED
        BY <4>5, <4>6 DEF CommitFacts
    <3> QED
      BY <3>1, <3>2, <3>3
  <2>11. OncePerDate'
    <3>1. ASSUME NEW k \in Numbers, document[k] = d, p \notin drafted, ~d.forced PROVE FALSE
      <4>1. IsDocument(k)
        BY <1>6, <3>1, NoneIsNothing DEF IsDocument
      <4>2. k \in Past(p, seen.since)
        BY <1>6, <3>1, <4>1 DEF Past
      <4>3. d.date < seen.next
        BY <2>4, <3>1, <4>2
      <4>4. d.date = seen.next
        BY <1>6, <3>1 DEF CommitFacts, seen
      <4> QED
        BY <1>4, <4>3, <4>4
    <3>2. \A k \in Numbers : k # n => document'[k] = document[k]
      BY <1>7
    <3> SUFFICES ASSUME NEW k \in Numbers, NEW m \in Numbers, k # m, document'[k] \in Document,
                        document'[m] \in Document, document'[k].plan \notin drafted,
                        ~document'[k].forced, document'[k] = document'[m]
                 PROVE  FALSE
      BY <1>1 DEF OncePerDate
    <3>3. CASE k # n /\ m # n
      BY <2>1, <3>2, <3>3 DEF OncePerDate
    <3>4. CASE k = n
      BY <1>6, <1>7, <3>1, <3>2, <3>4
    <3>5. CASE m = n
      BY <1>6, <1>7, <3>1, <3>2, <3>5
    <3> QED
      BY <3>3, <3>4, <3>5
  <2> QED
    BY <2>8, <2>9, <2>10, <2>11
<1>12. MailedExists'
  <2> SUFFICES ASSUME NEW m \in mailed, m.number \notin given
               PROVE  Written(m)' \/ \E q \in Run : Held(m, q)'
    BY <1>1 DEF MailedExists, Written, Held
  <2>1. Written(m) \/ \E q \in Run : Held(m, q)
    BY MailedIs DEF PlansInv
  <2>2. m.number \in Numbers
    BY <1>2 DEF TypeOK, Mail
  <2>3. CASE Written(m)
    BY <1>2, <1>7, <2>2, <2>3, NoneIsNothing DEF Written
  <2>4. CASE Held(m, r)
    <3>1. m.number = n /\ m.plan = p /\ m.date = RunDate(r)
      BY <1>2, <2>4 DEF Held
    <3> QED
      BY <1>6, <1>7, <3>1 DEF Written
  <2>5. CASE \E q \in Run : q # r /\ Held(m, q)
    BY <1>1, <2>5 DEF Held, RunDate, Seen
  <2> QED
    BY <2>1, <2>3, <2>4, <2>5
<1> QED
  BY <1>8, <1>9, <1>10, <1>11, <1>12 DEF PlansInv

LEMMA CommitStep ==
  ASSUME PlansInv, NEW r \in Run, Commit(r)
  PROVE  PlansInv'
<1>1. PICK p : p = run[r].at
  OBVIOUS
<1>2. PICK n : n = run[r].number
  OBVIOUS
<1>3. PICK e, row : CommitFacts(r, p, n, e, row)
  BY <1>1, <1>2, CommitIs
<1>4. CASE n = None
  BY <1>1, <1>2, <1>3, <1>4, CommitDraft DEF Commit
<1>5. CASE n # None
  <2>1. PICK d : d = [plan |-> p, date |-> RunDate(r), since |-> Seen(r).since, forced |-> run[r].forced]
    OBVIOUS
  <2>2. drafted' = drafted /\ counter' = n /\ document' = [document EXCEPT ![n] = d]
    BY <1>1, <1>2, <1>5, <2>1 DEF Commit
  <2> QED
    BY <1>3, <1>5, <2>1, <2>2, CommitNumbered
<1> QED
  BY <1>4, <1>5

-----------------------------------------------------------------------------
LEMMA PlansInit == Init => PlansInv
<1> SUFFICES ASSUME Init PROVE PlansInv
  OBVIOUS
<1>1. TypeOK
  BY Bounds DEF Init, TypeOK, Idle
<1>2. RunsOK /\ SinceOK /\ MailedExists
  BY NoneIsNothing DEF Init, RunsOK, RunOK, SinceOK, IsDocument, MailedExists
<1>3. OnceOK
  <2>1. NumbersOK
    BY Bounds DEF Init, NumbersOK, Numbers, Idle
  <2>2. DatesOK /\ FreshOK /\ OncePerDate
    BY NoneIsNothing DEF Init, DatesOK, FreshOK, Fresh, OncePerDate, Idle
  <2> QED
    BY <2>1, <2>2 DEF OnceOK
<1> QED
  BY <1>1, <1>2, <1>3 DEF PlansInv

LEMMA PlansStutter == PlansInv /\ UNCHANGED vars => PlansInv'
BY DEF vars, PlansInv, TypeOK, RunsOK, RunOK, SinceOK, OnceOK, NumbersOK, DatesOK, FreshOK, Fresh,
       OncePerDate, MailedExists, IsDocument, Past, RunDate, Seen

LEMMA PlansStep == PlansInv /\ [Next]_vars => PlansInv'
<1> SUFFICES ASSUME PlansInv, [Next]_vars PROVE PlansInv'
  OBVIOUS
<1>1. CASE NextDay
  BY <1>1, NextDayStep
<1>2. CASE IssueOther
  BY <1>2, IssueStep
<1>3. CASE \E n \in Numbers : TakeBack(n)
  BY <1>3, TakeBackStep
<1>4. CASE \E p \in Plan : \/ \E next \in 0..LastDay, active \in BOOLEAN, mode \in {"draft", "issue", "send"} :
                                Save(p, next, active, mode)
                          \/ Remove(p)
  BY <1>4, SaveStep, RemoveStep
<1>5. ASSUME NEW r \in Run, StartJob(r) PROVE PlansInv'
  <2>1. PICK todo : todo = {p \in Plan : Due(p)}
    OBVIOUS
  <2>2. StartRun(r, FALSE, todo) /\ todo \subseteq Plan
    BY <1>5, <2>1 DEF StartJob
  <2> QED
    BY <2>2, StartStep
<1>6. ASSUME NEW r \in Run, NEW p \in Plan, NEW forced \in BOOLEAN, StartByHand(r, p, forced) PROVE PlansInv'
  BY <1>6, StartStep DEF StartByHand
<1>7. ASSUME NEW r \in Run, ServeAny(r) PROVE PlansInv'
  BY <1>7, ServeStep DEF ServeAny
<1>8. ASSUME NEW r \in Run,
             \/ TakeNumber(r) \/ NoNumber(r) \/ SendMail(r)
             \/ Commit(r) \/ Refused(r) \/ PlanGone(r) \/ Abandon(r)
      PROVE  PlansInv'
  BY <1>8, TakeNumberStep, NoNumberStep, SendStep, CommitStep, RefusedStep, GiveUpStep
<1>9. CASE UNCHANGED vars
  BY <1>9, PlansStutter
<1> QED
  BY <1>1, <1>2, <1>3, <1>4, <1>5, <1>6, <1>7, <1>8, <1>9 DEF Next, Work

LEMMA PlansInvariant == Spec => []PlansInv
BY PlansInit, PlansStep, PTL DEF Spec

(* The type invariant of the plans: the next date of a plan that is served is
   never further than one interval from the day of the run. *)
THEOREM PlansTypeCorrect == Spec => []TypeOK
<1>1. PlansInv => TypeOK
  BY DEF PlansInv
<1> QED
  BY <1>1, PlansInvariant, PTL

(* A plan that issues its documents makes one for a date, whatever runs overlap
   and whatever is written by hand in between: the number refuses the second
   (_run_recurring_plan_once, the unique key of invoices). *)
THEOREM OneDocumentPerDate == Spec => []OncePerDate
<1>1. PlansInv => OncePerDate
  BY DEF PlansInv, OnceOK, OncePerDate
<1> QED
  BY <1>1, PlansInvariant, PTL

(* What a customer was mailed exists or is about to be committed by the run that
   mailed it, unless its number was taken back. *)
THEOREM MailedDocumentsExist == Spec => []MailedExists
<1>1. PlansInv => MailedExists
  BY DEF PlansInv
<1> QED
  BY <1>1, PlansInvariant, PTL

=============================================================================
