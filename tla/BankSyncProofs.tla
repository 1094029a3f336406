--------------------------- MODULE BankSyncProofs ---------------------------
(***************************************************************************)
(* Proofs about BankSync for every set of transactions, tokens, settings   *)
(* and runs, every overlap at least as long as the delay of the bank and   *)
(* every length of the window: type correctness, that a run never meets a  *)
(* row it did not see, that it stores only what comes from the configured  *)
(* account, that nothing is skipped, and that the cursor and what is       *)
(* stored stay near the day since when the account is followed.            *)
(***************************************************************************)
EXTENDS BankSync, TLAPS, WellFoundedInduction

-----------------------------------------------------------------------------
(* The inductive invariant *)

\* Only an account that is followed has a token, and what it has it got by now.
AccountOK ==
  account # None =>
    /\ account.provider = "other" => account.token = None
    /\ account.cipher <= saves
    /\ Followed => account.cursor <= today

\* A run asks for the days from the start of its window to the day it started.
WindowOK(s, day, saved) ==
  /\ s.seen.provider = "fio"
  /\ s.seen.token \in Token
  /\ s.seen.cursor \in Int
  /\ s.seen.cipher <= saved
  /\ s.from >= s.seen.cursor - Overlap
  /\ s.from >= s.to - MaxWindow
  /\ s.from = s.seen.cursor - Overlap \/ s.from = s.to - MaxWindow
  /\ s.from <= s.to
  /\ s.to <= day

\* Its answer holds transactions of the window only, and what the bank has shown
\* since then is booked late in it.
AnswerOK(s, shown) ==
  s.step # "fetch" =>
    /\ \A t \in s.got : /\ shown[t] # None
                        /\ shown[t].token = s.seen.token
                        /\ shown[t].day \in s.from..s.to
    /\ \A t \in Tx \ s.got :
         shown[t] # None /\ shown[t].token = s.seen.token /\ shown[t].day \in s.from..s.to
           => shown[t].day >= s.to - Delay

\* The run that stores is the holder of the lock and has seen all there is.
HolderOK(s, r, holder, now, rows) ==
  s.step = "store" => holder = r /\ now = s.seen /\ rows = s.stored

RunsOK ==
  \A r \in Run : run[r] # Idle => /\ WindowOK(run[r], today, saves)
                                  /\ AnswerOK(run[r], published)
                                  /\ HolderOK(run[r], r, lock, account, imported)

LockOK == lock # None => run[lock] # Idle /\ run[lock].step = "store"

Inv == TypeOK /\ AccountOK /\ RunsOK /\ LockOK /\ floor <= today

-----------------------------------------------------------------------------
(* Maxima *)

\* A set of integers between two bounds that is not empty has a maximum: the
\* distance of a number to the upper bound cannot shrink for ever.
LEMMA MaxExists ==
  ASSUME NEW a \in Int, NEW b \in Int, NEW S, S \subseteq a..b, S # {}
  PROVE  Max(S) \in S /\ \A y \in S : Max(S) >= y
<1> DEFINE T == {n \in Nat : \E x \in S : n = b - x}
<1>1. T \subseteq Nat
  OBVIOUS
<1>2. T # {}
  <2>1. PICK x : x \in S
    OBVIOUS
  <2>2. b - x \in T
    BY <2>1
  <2> QED
    BY <2>2
<1> HIDE DEF T
<1>3. PICK m \in T : \A n \in T : ~(<<n, m>> \in OpToRel(<, Nat))
  BY <1>1, <1>2, NatLessThanWellFounded, WFMin
<1> USE DEF T
<1>4. PICK x \in S : m = b - x
  BY <1>3
<1>5. ASSUME NEW y \in S PROVE x >= y
  <2>1. b - y \in T
    BY <1>5
  <2>2. ~(b - y < b - x)
    BY <2>1, <1>3, <1>4 DEF OpToRel
  <2> QED
    BY <2>2
<1> QED
  BY <1>4, <1>5 DEF Max

LEMMA WindowStartBounds ==
  ASSUME NEW c \in Int, TypeOK
  PROVE  /\ WindowStart(c) \in Int
         /\ WindowStart(c) >= c - Overlap
         /\ WindowStart(c) >= today - MaxWindow
         /\ WindowStart(c) = c - Overlap \/ WindowStart(c) = today - MaxWindow
<1> DEFINE x == c - Overlap
           y == today - MaxWindow
<1>1. x \in Int /\ y \in Int
  BY BankSyncAssumption DEF TypeOK
<1> HIDE DEF x, y
<1>2. Max({x, y}) \in {x, y} /\ \A z \in {x, y} : Max({x, y}) >= z
  <2>1. CASE x >= y
    BY <1>1, <2>1, MaxExists, {x, y} \subseteq y..x
  <2>2. CASE y >= x
    BY <1>1, <2>2, MaxExists, {x, y} \subseteq x..y
  <2> QED
    BY <1>1, <2>1, <2>2
<1>3. WindowStart(c) = Max({x, y})
  BY DEF WindowStart, x, y
<1> QED
  BY <1>1, <1>2, <1>3 DEF x, y

\* The new cursor lies in the window, on the day of the newest transaction of the
\* answer if there is one.
LEMMA NewCursorBounds ==
  ASSUME NEW s \in Session, s.from <= s.to,
         \A t \in s.got : published[t].day \in s.from..s.to
  PROVE  /\ NewCursor(s) \in s.from..s.to
         /\ \A t \in s.got : published[t].day <= NewCursor(s)
         /\ s.got = {} => NewCursor(s) = s.to
         /\ s.got # {} => \E t \in s.got : published[t].day = NewCursor(s)
<1> DEFINE D == {s.from} \cup DaysOf(s.got)
<1>1. s.from \in Int /\ s.to \in Int
  BY DEF Session
<1>2. CASE s.got = {}
  BY <1>1, <1>2 DEF NewCursor
<1>3. CASE s.got # {}
  <2>1. D \subseteq s.from..s.to /\ D # {}
    BY <1>1 DEF DaysOf
  <2>2. Max(D) \in D /\ \A y \in D : Max(D) >= y
    BY <1>1, <2>1, MaxExists
  <2>3. \A t \in s.got : published[t].day \in D
    BY DEF DaysOf
  <2>4. NewCursor(s) = Max(D)
    BY <1>3 DEF NewCursor
  <2>5. \E t \in s.got : published[t].day = Max(D)
    <3>1. CASE Max(D) \in DaysOf(s.got)
      BY <3>1 DEF DaysOf
    <3>2. CASE Max(D) = s.from
      <4>1. PICK t \in s.got : TRUE
        BY <1>3
      <4>2. published[t].day >= s.from /\ published[t].day <= Max(D)
        BY <1>1, <2>2, <2>3
      <4> QED
        BY <1>1, <2>2, <2>3, <3>2, <4>1, <4>2
    <3> QED
      BY <2>2, <3>1, <3>2
  <2> HIDE DEF D
  <2> QED
    BY <1>1, <1>3, <2>1, <2>2, <2>3, <2>4, <2>5
<1> QED
  BY <1>2, <1>3

-----------------------------------------------------------------------------
(* The steps *)

LEMMA IdleIsNoSession == Idle \notin Session
BY AccountAssumption DEF Idle

\* A run in flight has a session.
LEMMA RunType ==
  ASSUME TypeOK, NEW r \in Run, run[r] # Idle
  PROVE  run[r] \in Session
BY DEF TypeOK

\* What Save makes of the account.
LEMMA SaveAccount ==
  ASSUME Inv, NEW provider \in {"fio", "other"}, NEW k \in Token \cup {None},
         NEW setting \in Setting, Save(provider, k, setting)
  PROVE  /\ account \in Account
         /\ account' \in Account
         /\ account'.provider = provider
         /\ account'.token = TokenAfter(provider, k)
         /\ account'.cipher = CipherAfter(provider, k)
         /\ account'.cursor = IF StartsOver(provider, k) THEN today ELSE account.cursor
         /\ saves' = saves + 1
         /\ saves' \in 0..MaxSaves
<1>1. account \in Account
  BY DEF Inv, TypeOK, Save
<1>2. TokenAfter(provider, k) \in Token \cup {None}
  BY <1>1 DEF TokenAfter, Account
<1>3. saves' = saves + 1 /\ saves' \in 0..MaxSaves
  BY BankSyncAssumption DEF Inv, TypeOK, Save
<1>4. CipherAfter(provider, k) \in 0..MaxSaves
  BY <1>1, <1>3, BankSyncAssumption DEF CipherAfter, Account, Inv, TypeOK
<1>5. (IF StartsOver(provider, k) THEN today ELSE account.cursor) \in Int \cup {None}
  BY <1>1, BankSyncAssumption DEF Account, Inv, TypeOK
<1>6. account' = [provider |-> provider, token |-> TokenAfter(provider, k),
                  cipher |-> CipherAfter(provider, k),
                  cursor |-> IF StartsOver(provider, k) THEN today ELSE account.cursor,
                  setting |-> setting]
  BY DEF Save
<1> QED
  BY <1>1, <1>2, <1>3, <1>4, <1>5, <1>6 DEF Account

\* A stored run: its session, the account it saw and the cursor it leaves.
LEMMA StoreFacts ==
  ASSUME Inv, NEW r \in Run, Store(r)
  PROVE  /\ run[r] \in Session
         /\ WindowOK(run[r], today, saves)
         /\ AnswerOK(run[r], published) /\ run[r].step # "fetch"
         /\ account = run[r].seen
         /\ account \in Account
         /\ run[r].stored = imported
         /\ NewCursor(run[r]) \in run[r].from..run[r].to
         /\ \A t \in run[r].got : published[t].day <= NewCursor(run[r])
         /\ run[r].got = {} => NewCursor(run[r]) = run[r].to
         /\ run[r].got # {} => \E t \in run[r].got : published[t].day = NewCursor(run[r])
         /\ account' = [account EXCEPT !.cursor = NewCursor(run[r])]
<1>1. run[r] # Idle /\ run[r].step = "store"
  BY DEF Store
<1>2. run[r] \in Session
  BY <1>1, RunType DEF Inv
<1>3. /\ WindowOK(run[r], today, saves) /\ AnswerOK(run[r], published)
      /\ account = run[r].seen /\ run[r].stored = imported
  BY <1>1 DEF Inv, RunsOK, HolderOK
<1>4. run[r].step # "fetch"
  BY <1>1
<1>5. account \in Account
  BY <1>2, <1>3 DEF Session
<1>6. run[r].from <= run[r].to
  BY <1>3 DEF WindowOK
<1>7. \A t \in run[r].got : published[t].day \in run[r].from..run[r].to
  BY <1>3, <1>4 DEF AnswerOK
<1>8. account' = [account EXCEPT !.cursor = NewCursor(run[r])]
  BY DEF Store
<1> QED
  BY <1>2, <1>3, <1>4, <1>5, <1>6, <1>7, <1>8, NewCursorBounds

-----------------------------------------------------------------------------
(* Type correctness *)

LEMMA InitInv == Init => Inv
<1> SUFFICES ASSUME Init PROVE Inv
  OBVIOUS
<1>1. account \in Account /\ account.provider = "other" /\ account.token = None /\ account.cipher = 0
  BY BankSyncAssumption DEF Init, Account
<1>2. ~Followed
  BY <1>1 DEF Followed
<1>3. TypeOK
  BY <1>1, <1>2, BankSyncAssumption DEF Init, TypeOK
<1>4. AccountOK
  BY <1>1, <1>2 DEF Init, AccountOK
<1>5. RunsOK /\ LockOK
  BY DEF Init, RunsOK, LockOK
<1> QED
  BY <1>3, <1>4, <1>5 DEF Init, Inv

LEMMA TypePreserved == Inv /\ [Next]_vars => TypeOK'
<1> SUFFICES ASSUME Inv, [Next]_vars PROVE TypeOK'
  OBVIOUS
<1>0. TypeOK
  BY DEF Inv
<1>1. CASE NextDay
  BY <1>0, <1>1, BankSyncAssumption DEF NextDay, TypeOK, Followed
<1>2. ASSUME NEW t \in Tx, NEW k \in Token, NEW d \in (today - Delay)..today, Publish(t, k, d)
      PROVE  TypeOK'
  <2>1. d \in Int
    BY <1>0, BankSyncAssumption DEF TypeOK
  <2>2. [token |-> k, day |-> d] \in Statement
    BY <2>1 DEF Statement
  <2>3. published' \in [Tx -> Statement \cup {None}]
    BY <1>0, <1>2, <2>2 DEF Publish, TypeOK
  <2> QED
    BY <1>0, <1>2, <2>3 DEF Publish, TypeOK, Followed
<1>3. ASSUME NEW provider \in {"fio", "other"}, NEW k \in Token \cup {None},
             NEW setting \in Setting, Save(provider, k, setting)
      PROVE  TypeOK'
  <2>1. account' \in Account /\ saves' \in 0..MaxSaves
    BY <1>3, SaveAccount
  <2>2. Followed' => account'.token # None /\ account'.cursor # None
    <3> SUFFICES ASSUME Followed' PROVE account'.token # None /\ account'.cursor # None
      OBVIOUS
    <3>1. provider = "fio"
      BY <1>3, SaveAccount DEF Followed
    <3>2. account'.token # None
      BY <1>3, <3>1, SaveAccount DEF Save
    <3>3. today # None
      BY <1>0, BankSyncAssumption DEF TypeOK
    <3>4. account'.cursor # None
      BY <1>3, <3>1, <3>3, SaveAccount DEF StartsOver
    <3> QED
      BY <3>2, <3>4
  <2>3. floor' \in Int
    BY <1>0, <1>3, BankSyncAssumption DEF Save, TypeOK
  <2> QED
    BY <1>0, <1>3, <2>1, <2>2, <2>3 DEF Save, TypeOK
<1>4. CASE Remove
  BY <1>0, <1>4 DEF Remove, TypeOK, Followed
<1>5. ASSUME NEW r \in Run, Start(r)
      PROVE  TypeOK'
  <2>1. account \in Account /\ account.cursor \in Int
    BY <1>0, <1>5 DEF Start, Followed, TypeOK, Account
  <2>2. WindowStart(account.cursor) \in Int /\ today \in Int
    BY <1>0, <2>1, WindowStartBounds, BankSyncAssumption DEF TypeOK
  <2>3. [step |-> "fetch", seen |-> account, from |-> WindowStart(account.cursor),
         to |-> today, got |-> {}, stored |-> {}] \in Session
    BY <2>1, <2>2 DEF Session
  <2>4. run' \in [Run -> Session \cup {Idle}]
    BY <1>0, <1>5, <2>3 DEF Start, TypeOK
  <2> QED
    BY <1>0, <1>5, <2>4 DEF Start, TypeOK, Followed
<1>6. ASSUME NEW r \in Run, Fetch(r)
      PROVE  TypeOK'
  <2>1. run[r] \in Session
    BY <1>0, <1>6, RunType DEF Fetch
  <2>2. {t \in ShownFor(run[r].seen.token) : published[t].day \in run[r].from..run[r].to} \in SUBSET Tx
    BY DEF ShownFor
  <2>3. run' \in [Run -> Session \cup {Idle}]
    BY <1>0, <1>6, <2>1, <2>2 DEF Fetch, TypeOK, Session
  <2> QED
    BY <1>0, <1>6, <2>3 DEF Fetch, TypeOK, Followed
<1>7. ASSUME NEW r \in Run, LockAndCheck(r)
      PROVE  TypeOK'
  <2>1. run[r] \in Session
    BY <1>0, <1>7, RunType DEF LockAndCheck
  <2>2. run' \in [Run -> Session \cup {Idle}]
    BY <1>0, <1>7, <2>1 DEF LockAndCheck, TypeOK, Session
  <2>3. lock' \in Run \cup {None}
    BY <1>0, <1>7 DEF LockAndCheck, TypeOK
  <2> QED
    BY <1>0, <1>7, <2>2, <2>3 DEF LockAndCheck, TypeOK, Followed
<1>8. ASSUME NEW r \in Run, Store(r)
      PROVE  TypeOK'
  <2>1. run[r] \in Session /\ account \in Account /\ account = run[r].seen
    BY <1>8, StoreFacts
  <2>2. NewCursor(run[r]) \in Int
    BY <1>8, <2>1, StoreFacts DEF Session
  <2>3. account' \in Account
    BY <1>8, <2>1, <2>2, StoreFacts DEF Account
  <2>4. NewCursor(run[r]) # None
    BY <2>2, BankSyncAssumption
  <2>5. account'.token # None /\ account'.cursor # None
    <3>1. account.token \in Token
      BY <1>8, <2>1, StoreFacts DEF WindowOK
    <3>2. account'.token = account.token /\ account'.cursor = NewCursor(run[r])
      BY <1>8, <2>1, StoreFacts DEF Account
    <3> QED
      BY <2>4, <3>1, <3>2, BankSyncAssumption
  <2>6. imported' \subseteq Tx
    BY <1>0, <1>8, <2>1 DEF Store, TypeOK, NewRows, Session
  <2>7. run' \in [Run -> Session \cup {Idle}] /\ lock' \in Run \cup {None}
    BY <1>0, <1>8 DEF Store, TypeOK
  <2> QED
    BY <1>0, <1>8, <2>3, <2>5, <2>6, <2>7 DEF Store, TypeOK
<1>9. ASSUME NEW r \in Run, Abandon(r)
      PROVE  TypeOK'
  BY <1>0, <1>9 DEF Abandon, TypeOK, Followed
<1>10. CASE UNCHANGED vars
  BY <1>0, <1>10 DEF vars, TypeOK, Followed
<1> QED
  BY <1>1, <1>2, <1>3, <1>4, <1>5, <1>6, <1>7, <1>8, <1>9, <1>10 DEF Next, Progress

-----------------------------------------------------------------------------
(* The other parts of the invariant *)

LEMMA AccountPreserved == Inv /\ [Next]_vars => AccountOK' /\ floor' <= today'
<1> SUFFICES ASSUME Inv, [Next]_vars PROVE AccountOK' /\ floor' <= today'
  OBVIOUS
<1>0. /\ today \in Int /\ floor \in Int /\ saves \in Nat
      /\ floor <= today
      /\ AccountOK
  BY BankSyncAssumption DEF Inv, TypeOK
<1>1. CASE NextDay
  <2>1. Followed => account.cursor \in Int
    BY DEF Inv, TypeOK, Followed, Account
  <2> QED
    BY <1>0, <1>1, <2>1 DEF NextDay, AccountOK, Followed
<1>2. ASSUME NEW provider \in {"fio", "other"}, NEW k \in Token \cup {None},
             NEW setting \in Setting, Save(provider, k, setting)
      PROVE  AccountOK' /\ floor' <= today'
  <2>1. today' = today /\ floor' <= today
    BY <1>0, <1>2 DEF Save
  <2>2. account # None /\ account.cipher \in Nat /\ account.cipher <= saves
    BY <1>0, <1>2, SaveAccount, BankSyncAssumption DEF AccountOK, Save, Account
  <2>3. account'.cipher <= saves'
    BY <1>0, <1>2, <2>2, SaveAccount DEF CipherAfter
  <2>4. account'.provider = "other" => account'.token = None
    BY <1>2, SaveAccount DEF TokenAfter
  <2>5. ASSUME Followed' PROVE account'.cursor <= today
    <3>1. CASE StartsOver(provider, k)
      BY <1>0, <1>2, <3>1, SaveAccount
    <3>2. CASE ~StartsOver(provider, k)
      <4>1. Followed
        BY <1>2, <2>2, <2>5, <3>2, SaveAccount DEF StartsOver, Followed
      <4> QED
        BY <1>0, <1>2, <2>2, <3>2, <4>1, SaveAccount DEF AccountOK
    <3> QED
      BY <3>1, <3>2
  <2> QED
    BY <2>1, <2>3, <2>4, <2>5 DEF AccountOK
<1>3. CASE Remove
  BY <1>0, <1>3 DEF Remove, AccountOK
<1>4. ASSUME NEW r \in Run, Store(r)
      PROVE  AccountOK' /\ floor' <= today'
  <2>1. /\ account'.provider = account.provider
        /\ account'.token = account.token
        /\ account'.cipher = account.cipher
        /\ account'.cursor = NewCursor(run[r])
    BY <1>4, StoreFacts DEF Account
  <2>2. NewCursor(run[r]) <= today
    BY <1>0, <1>4, StoreFacts DEF WindowOK, Session
  <2>3. account # None
    BY <1>4, StoreFacts, AccountAssumption
  <2> QED
    BY <1>0, <1>4, <2>1, <2>2, <2>3 DEF Store, AccountOK, Followed
<1>5. CASE UNCHANGED <<today, account, floor, saves>>
  BY <1>0, <1>5 DEF AccountOK, Followed
<1> QED
  BY <1>1, <1>2, <1>3, <1>4, <1>5
  DEF Next, Progress, Publish, Start, Fetch, LockAndCheck, Abandon, vars

\* Days and saves only go up.
LEMMA CountersGrow ==
  ASSUME TypeOK, [Next]_vars
  PROVE  /\ today \in Int /\ today' \in Int /\ today <= today'
         /\ saves \in Int /\ saves' \in Int /\ saves <= saves'
<1>1. today' = today \/ today' = today + 1
  BY DEF Next, NextDay, Publish, Save, Remove, Progress, Start, Fetch, LockAndCheck, Store,
         Abandon, vars
<1>2. saves' = saves \/ saves' = saves + 1
  BY DEF Next, NextDay, Publish, Save, Remove, Progress, Start, Fetch, LockAndCheck, Store,
         Abandon, vars
<1> QED
  BY <1>1, <1>2, BankSyncAssumption DEF TypeOK

LEMMA WindowKept ==
  ASSUME NEW s \in Session, NEW d \in Int, NEW e \in Int, d <= e,
         NEW m \in Int, NEW n \in Int, m <= n, WindowOK(s, d, m)
  PROVE  WindowOK(s, e, n)
<1>1. s.to \in Int /\ s.seen.cipher \in Int
  BY BankSyncAssumption DEF Session, Account
<1> QED
  BY <1>1 DEF WindowOK

\* What the bank publishes after it has answered is booked late in the window.
LEMMA AnswerKept ==
  ASSUME NEW s \in Session, NEW shown \in [Tx -> Statement \cup {None}], NEW u \in Tx,
         shown[u] = None, NEW k \in Token, NEW d \in Int, d >= s.to - Delay,
         AnswerOK(s, shown)
  PROVE  AnswerOK(s, [shown EXCEPT ![u] = [token |-> k, day |-> d]])
<1> DEFINE now == [shown EXCEPT ![u] = [token |-> k, day |-> d]]
<1>1. now[u].day = d /\ \A t \in Tx \ {u} : now[t] = shown[t]
  OBVIOUS
<1>2. s.got \subseteq Tx
  BY DEF Session
<1> HIDE DEF now
<1> SUFFICES AnswerOK(s, now)
  BY DEF now
<1>3. ASSUME s.step # "fetch", NEW t \in s.got
      PROVE  now[t] # None /\ now[t].token = s.seen.token /\ now[t].day \in s.from..s.to
  BY <1>1, <1>2, <1>3 DEF AnswerOK
<1>4. ASSUME s.step # "fetch", NEW t \in Tx \ s.got, now[t] # None,
             now[t].token = s.seen.token, now[t].day \in s.from..s.to
      PROVE  now[t].day >= s.to - Delay
  BY <1>1, <1>4 DEF AnswerOK
<1> QED
  BY <1>3, <1>4 DEF AnswerOK

\* A run that does not move itself keeps its window and its answer in order.
LEMMA OthersKept ==
  ASSUME Inv, [Next]_vars, NEW q \in Run, run[q] # Idle
  PROVE  WindowOK(run[q], today', saves') /\ AnswerOK(run[q], published')
<1>1. /\ run[q] \in Session
      /\ WindowOK(run[q], today, saves)
      /\ AnswerOK(run[q], published)
  BY RunType DEF Inv, RunsOK
<1>2. WindowOK(run[q], today', saves')
  BY <1>1, CountersGrow, WindowKept DEF Inv
<1>3. CASE UNCHANGED published
  BY <1>1, <1>2, <1>3
<1>4. ASSUME NEW u \in Tx, NEW k \in Token, NEW d \in (today - Delay)..today, Publish(u, k, d)
      PROVE  AnswerOK(run[q], published')
  <2>1. today \in Int /\ run[q].to \in Int /\ run[q].to <= today /\ d \in Int /\ d >= today - Delay
    BY <1>1, BankSyncAssumption DEF Inv, TypeOK, WindowOK, Session
  <2>2. d >= run[q].to - Delay
    BY <2>1, BankSyncAssumption
  <2>3. /\ published[u] = None
        /\ published' = [published EXCEPT ![u] = [token |-> k, day |-> d]]
        /\ published \in [Tx -> Statement \cup {None}]
    BY <1>4 DEF Publish, Inv, TypeOK
  <2> QED
    BY <1>1, <2>1, <2>2, <2>3, AnswerKept
<1> QED
  BY <1>2, <1>3, <1>4
  DEF Next, NextDay, Save, Remove, Progress, Start, Fetch, LockAndCheck, Store, Abandon, vars

\* A step leaves a run alone or is a step of that run.
LEMMA RunsPreserved == Inv /\ [Next]_vars => RunsOK' /\ LockOK'
<1> SUFFICES ASSUME Inv, [Next]_vars PROVE RunsOK' /\ LockOK'
  OBVIOUS
<1> USE DEF Idle
<1>0. TypeOK /\ RunsOK /\ LockOK /\ None \notin Run
  BY BankSyncAssumption DEF Inv
<1>1. \A q \in Run : run[q] # Idle => /\ WindowOK(run[q], today', saves')
                                      /\ AnswerOK(run[q], published')
                                      /\ HolderOK(run[q], q, lock, account, imported)
  BY <1>0, OthersKept DEF RunsOK
<1>2. CASE UNCHANGED <<account, imported, lock, run>>
  BY <1>0, <1>1, <1>2 DEF RunsOK, LockOK
<1>3. ASSUME lock = None, UNCHANGED <<lock, run>>
      PROVE  RunsOK' /\ LockOK'
  <2>1. \A q \in Run : run[q] # Idle => HolderOK(run[q], q, lock', account', imported')
    BY <1>0, <1>1, <1>3 DEF HolderOK
  <2> QED
    BY <1>0, <1>1, <1>3, <2>1 DEF RunsOK, LockOK
<1>4. ASSUME NEW r \in Run, Start(r)
      PROVE  RunsOK' /\ LockOK'
  <2> DEFINE s == [step |-> "fetch", seen |-> account, from |-> WindowStart(account.cursor),
                   to |-> today, got |-> {}, stored |-> {}]
  <2>1. /\ run' = [run EXCEPT ![r] = s]
        /\ run[r] = Idle
        /\ UNCHANGED <<today, saves, account, imported, lock>>
    BY <1>4 DEF Start
  <2>2. /\ account.cursor \in Int /\ account.token \in Token /\ account.provider = "fio"
        /\ today \in Int /\ account.cursor <= today /\ account.cipher <= saves
    BY <1>0, <1>4, BankSyncAssumption DEF Start, Followed, Inv, AccountOK, TypeOK, Account
  <2>3. WindowOK(s, today, saves)
    BY <1>0, <2>2, WindowStartBounds, BankSyncAssumption DEF WindowOK
  <2>4. run'[r] = s /\ \A q \in Run \ {r} : run'[q] = run[q]
    BY <1>0, <2>1 DEF TypeOK
  <2>5. AnswerOK(s, published') /\ HolderOK(s, r, lock, account, imported)
    BY DEF AnswerOK, HolderOK
  <2> HIDE DEF s
  <2>6. RunsOK'
    BY <1>1, <2>1, <2>3, <2>4, <2>5 DEF RunsOK
  <2>7. LockOK'
    BY <1>0, <2>1, <2>4 DEF LockOK, TypeOK
  <2> QED
    BY <2>6, <2>7
<1>5. ASSUME NEW r \in Run, Fetch(r)
      PROVE  RunsOK' /\ LockOK'
  <2> DEFINE got == {t \in ShownFor(run[r].seen.token) : published[t].day \in run[r].from..run[r].to}
             s == [run[r] EXCEPT !.step = "check", !.got = got]
  <2>1. run[r] # Idle /\ run[r] \in Session /\ run[r].step = "fetch"
    BY <1>0, <1>5, RunType DEF Fetch
  <2>2. /\ run' = [run EXCEPT ![r] = s]
        /\ UNCHANGED <<today, saves, published, account, imported, lock>>
    BY <1>5 DEF Fetch
  <2>3. run'[r] = s /\ \A q \in Run \ {r} : run'[q] = run[q]
    BY <1>0, <2>2 DEF TypeOK
  <2>4. /\ s.step = "check" /\ s.got = got /\ s.seen = run[r].seen
        /\ s.from = run[r].from /\ s.to = run[r].to
    BY <2>1 DEF Session
  <2> HIDE DEF s
  <2>5. WindowOK(s, today, saves)
    BY <1>0, <2>1, <2>4 DEF RunsOK, WindowOK
  <2>6. AnswerOK(s, published)
    BY <2>4 DEF AnswerOK, ShownFor
  <2>7. HolderOK(s, r, lock, account, imported)
    BY <2>4 DEF HolderOK
  <2>8. RunsOK'
    BY <1>1, <2>2, <2>3, <2>5, <2>6, <2>7 DEF RunsOK
  <2>9. LockOK'
    BY <1>0, <2>1, <2>2, <2>3 DEF LockOK, TypeOK
  <2> QED
    BY <2>8, <2>9
<1>6. ASSUME NEW r \in Run, LockAndCheck(r)
      PROVE  RunsOK' /\ LockOK'
  <2> DEFINE s == [run[r] EXCEPT !.step = "store", !.stored = imported]
  <2>1. run[r] # Idle /\ run[r] \in Session /\ run[r].step = "check" /\ lock = None
    BY <1>0, <1>6, RunType DEF LockAndCheck
  <2>2. \A q \in Run : run[q] # Idle => run[q].step # "store"
    BY <1>0, <1>1, <2>1 DEF HolderOK
  <2>3. UNCHANGED <<today, saves, published, account, imported>>
    BY <1>6 DEF LockAndCheck
  <2>4. CASE lock' = r /\ run' = [run EXCEPT ![r] = s] /\ account = run[r].seen
    <3>1. run'[r] = s /\ \A q \in Run \ {r} : run'[q] = run[q]
      BY <1>0, <2>4 DEF TypeOK
    <3>2. /\ s.step = "store" /\ s.stored = imported /\ s.seen = run[r].seen
          /\ s.got = run[r].got /\ s.from = run[r].from /\ s.to = run[r].to
          /\ s \in Session
      BY <1>0, <2>1 DEF Session, TypeOK
    <3> HIDE DEF s
    <3>3. WindowOK(s, today, saves) /\ AnswerOK(s, published)
      BY <1>0, <2>1, <3>2 DEF RunsOK, WindowOK, AnswerOK
    <3>4. HolderOK(s, r, r, account, imported)
      BY <2>4, <3>2 DEF HolderOK
    <3>5. \A q \in Run \ {r} : run[q] # Idle => HolderOK(run[q], q, r, account, imported)
      BY <2>2 DEF HolderOK
    <3>6. RunsOK'
      BY <1>1, <2>3, <2>4, <3>1, <3>3, <3>4, <3>5 DEF RunsOK
    <3>7. LockOK'
      BY <2>4, <3>1, <3>2, IdleIsNoSession DEF LockOK
    <3> QED
      BY <3>6, <3>7
  <2>5. CASE run' = [run EXCEPT ![r] = Idle] /\ UNCHANGED lock
    <3>1. run'[r] = Idle /\ \A q \in Run \ {r} : run'[q] = run[q]
      BY <1>0, <2>5 DEF TypeOK
    <3>2. RunsOK'
      BY <1>1, <2>3, <2>5, <3>1 DEF RunsOK
    <3>3. LockOK'
      BY <2>1, <2>5 DEF LockOK
    <3> QED
      BY <3>2, <3>3
  <2> QED
    BY <1>6, <2>4, <2>5 DEF LockAndCheck, StillConfigured
<1>7. ASSUME NEW r \in Run, Store(r)
      PROVE  RunsOK' /\ LockOK'
  <2>1. lock' = None /\ run' = [run EXCEPT ![r] = Idle]
    BY <1>7 DEF Store
  <2>2. lock = r
    BY <1>1, <1>7 DEF Store, HolderOK
  <2>3. \A q \in Run \ {r} : run[q] # Idle => HolderOK(run[q], q, lock', account', imported')
    BY <1>1, <2>2 DEF HolderOK
  <2>4. run'[r] = Idle /\ \A q \in Run \ {r} : run'[q] = run[q]
    BY <1>0, <2>1 DEF TypeOK
  <2> QED
    BY <1>1, <2>1, <2>3, <2>4 DEF RunsOK, LockOK
<1>8. ASSUME NEW r \in Run, Abandon(r)
      PROVE  RunsOK' /\ LockOK'
  <2>1. /\ run' = [run EXCEPT ![r] = Idle]
        /\ lock' = IF lock = r THEN None ELSE lock
        /\ UNCHANGED <<account, imported>>
    BY <1>8 DEF Abandon
  <2>2. run'[r] = Idle /\ \A q \in Run \ {r} : run'[q] = run[q]
    BY <1>0, <2>1 DEF TypeOK
  <2>3. \A q \in Run \ {r} : run[q] # Idle => HolderOK(run[q], q, lock', account', imported')
    BY <1>1, <2>1 DEF HolderOK
  <2>4. RunsOK'
    BY <1>1, <2>2, <2>3 DEF RunsOK
  <2>5. LockOK'
    BY <1>0, <2>1, <2>2 DEF LockOK, TypeOK
  <2> QED
    BY <2>4, <2>5
<1> QED
  BY <1>2, <1>3, <1>4, <1>5, <1>6, <1>7, <1>8
  DEF Next, NextDay, Publish, Save, Remove, Progress, vars

LEMMA Invariance == Spec => []Inv
<1>1. Inv /\ [Next]_vars => Inv'
  BY TypePreserved, AccountPreserved, RunsPreserved DEF Inv
<1> QED
  BY InitInv, <1>1, PTL DEF Spec

\* Type correctness; in particular an account that is followed always has a token
\* and a cursor to start from.
THEOREM TypeCorrect == Spec => []TypeOK
<1>1. Inv => TypeOK
  BY DEF Inv
<1> QED
  BY <1>1, Invariance, PTL

\* The run that stores holds the lock and has seen every row there is, so the
\* unique key of the transactions never refuses its rows.
THEOREM InsertsAccepted == Spec => []NoDuplicateInsert
<1>1. Inv => NoDuplicateInsert
  BY DEF Inv, RunsOK, HolderOK, NoDuplicateInsert, NewRows
<1> QED
  BY <1>1, Invariance, PTL

\* What a run stores belongs to the account that is configured at that moment.
THEOREM ConfiguredOnly == Spec => OnlyConfiguredStored
<1>1. Inv /\ [Next]_vars =>
        [\A t \in imported' \ imported : Followed /\ published[t].token = account.token]_vars
  <2> SUFFICES ASSUME Inv, [Next]_vars, NEW t \in imported' \ imported
               PROVE  Followed /\ published[t].token = account.token
    OBVIOUS
  <2>1. PICK r \in Run : Store(r)
    BY DEF Next, NextDay, Publish, Save, Remove, Progress, Start, Fetch, LockAndCheck, Abandon, vars
  <2>2. t \in run[r].got
    BY <2>1 DEF Store, NewRows
  <2>3. published[t].token = run[r].seen.token
    BY <2>1, <2>2, StoreFacts DEF AnswerOK
  <2>4. account # None /\ account.provider = "fio" /\ account.token = run[r].seen.token
    BY <2>1, StoreFacts, AccountAssumption DEF WindowOK
  <2> QED
    BY <2>3, <2>4 DEF Followed
<1> QED
  BY <1>1, Invariance, PTL DEF Spec, OnlyConfiguredStored

-----------------------------------------------------------------------------
(* Nothing is skipped *)

\* The same without the length of the window, which Due speaks of already.
InReach ==
  \A t \in Tx \ imported : Due(t) => published[t].day >= account.cursor - Overlap

LEMMA ReachIsWindow ==
  ASSUME Inv
  PROVE  InReach <=> NothingSkipped
<1>1. ASSUME NEW t \in Tx, Due(t)
      PROVE  published[t].day >= account.cursor - Overlap
               <=> published[t].day >= WindowStart(account.cursor)
  <2>1. account.cursor \in Int /\ published[t].day \in Int /\ published[t].day >= today - MaxWindow
    BY <1>1 DEF Due, Followed, ShownFor, Inv, TypeOK, Account, Statement
  <2>2. today \in Int /\ Overlap \in Int /\ MaxWindow \in Int
    BY BankSyncAssumption DEF Inv, TypeOK
  <2>3. TypeOK
    BY DEF Inv
  <2> QED
    BY <2>1, <2>2, <2>3, WindowStartBounds
<1> QED
  BY <1>1 DEF InReach, NothingSkipped

LEMMA InReachPreserved == Inv /\ InReach /\ [Next]_vars => InReach'
<1> SUFFICES ASSUME Inv, InReach, [Next]_vars,
                    NEW t \in Tx, t \notin imported', Due(t)'
             PROVE  published'[t].day >= account'.cursor - Overlap
  BY DEF InReach
<1>0. /\ TypeOK /\ AccountOK
      /\ today \in Int /\ floor \in Int
      /\ Overlap \in Nat /\ Delay \in Nat /\ Delay <= Overlap /\ MaxWindow \in Nat
  BY BankSyncAssumption DEF Inv, TypeOK
<1>1. CASE NextDay
  <2>1. published[t] \in Statement /\ Due(t)
    BY <1>0, <1>1, BankSyncAssumption DEF NextDay, Due, Followed, ShownFor, TypeOK, Statement
  <2> QED
    BY <1>1, <2>1 DEF NextDay, InReach
<1>2. ASSUME NEW u \in Tx, NEW k \in Token, NEW d \in (today - Delay)..today, Publish(u, k, d)
      PROVE  published'[t].day >= account'.cursor - Overlap
  <2>1. /\ UNCHANGED <<today, account, floor, imported>>
        /\ published' = [published EXCEPT ![u] = [token |-> k, day |-> d]]
    BY <1>2 DEF Publish
  <2>2. CASE t = u
    <3>1. published'[t].day = d /\ d >= today - Delay /\ d \in Int
      BY <1>0, <2>1, <2>2 DEF TypeOK
    <3>2. account'.cursor \in Int /\ account'.cursor <= today
      BY <1>0, <2>1 DEF Due, Followed, TypeOK, Account, AccountOK
    <3> QED
      BY <1>0, <3>1, <3>2
  <2>3. CASE t # u
    <3>1. published'[t] = published[t]
      BY <1>0, <2>1, <2>3 DEF TypeOK
    <3>2. Due(t)
      BY <2>1, <3>1 DEF Due, Followed, ShownFor
    <3> QED
      BY <2>1, <3>1, <3>2 DEF InReach
  <2> QED
    BY <2>2, <2>3
<1>3. ASSUME NEW provider \in {"fio", "other"}, NEW k \in Token \cup {None},
             NEW setting \in Setting, Save(provider, k, setting)
      PROVE  published'[t].day >= account'.cursor - Overlap
  <2>1. UNCHANGED <<today, published, imported>>
    BY <1>3 DEF Save
  <2>2. published[t].day \in Int /\ published[t].day >= floor'
    BY <1>0, <2>1 DEF Due, ShownFor, TypeOK, Statement
  <2>3. provider = "fio"
    BY <1>3, SaveAccount DEF Due, Followed
  <2>4. CASE account.provider = "fio" /\ TokenAfter(provider, k) = account.token
    <3>1. Followed /\ account.cursor # None
      BY <1>0, <1>3, <2>4 DEF Save, Followed, TypeOK
    <3>2. account'.cursor = account.cursor /\ account'.token = account.token /\ floor' = floor
      BY <1>3, <2>4, <3>1, SaveAccount DEF StartsOver, Save
    <3>3. Due(t)
      BY <2>1, <3>1, <3>2 DEF Due, ShownFor
    <3> QED
      BY <2>1, <3>2, <3>3 DEF InReach
  <2>5. CASE ~(account.provider = "fio" /\ TokenAfter(provider, k) = account.token)
    <3>1. account'.cursor = today
      BY <1>3, <2>3, <2>5, SaveAccount DEF StartsOver
    <3>2. floor' = today
      BY <1>3, <2>5 DEF Save
    <3> QED
      BY <1>0, <2>1, <2>2, <3>1, <3>2
  <2> QED
    BY <2>4, <2>5
<1>4. CASE Remove
  BY <1>4 DEF Remove, Due, Followed
<1>5. ASSUME NEW r \in Run, Store(r)
      PROVE  published'[t].day >= account'.cursor - Overlap
  <2> DEFINE s == run[r]
             n == NewCursor(s)
  <2>1. /\ s \in Session /\ WindowOK(s, today, saves) /\ AnswerOK(s, published)
        /\ s.step # "fetch" /\ account = s.seen /\ account \in Account /\ s.stored = imported
        /\ n \in s.from..s.to
    BY <1>5, StoreFacts
  <2>2. UNCHANGED <<today, published, floor>> /\ t \notin imported \cup NewRows(s)
    BY <1>5 DEF Store
  <2>3. /\ account'.provider = account.provider
        /\ account'.token = account.token
        /\ account'.cursor = n
    BY <1>5, StoreFacts DEF Account
  <2> HIDE DEF n
  <2>4. Due(t)
    BY <2>1, <2>2, <2>3, AccountAssumption DEF Due, Followed, ShownFor
  <2>5. /\ s.from \in Int /\ s.to \in Int /\ n \in Int /\ s.seen.cursor \in Int
        /\ published[t].day \in Int
    BY <1>0, <2>1, <2>4 DEF Session, WindowOK, Due, ShownFor, TypeOK, Statement
  <2>6. published[t].day >= s.from
    <3>1. published[t].day >= s.seen.cursor - Overlap
      BY <2>1, <2>2, <2>4 DEF InReach
    <3>2. published[t].day >= s.to - MaxWindow
      BY <1>0, <2>1, <2>4, <2>5 DEF Due, WindowOK
    <3> QED
      BY <2>1, <3>1, <3>2 DEF WindowOK
  <2>7. CASE published[t].day > s.to
    BY <1>0, <2>1, <2>2, <2>3, <2>5, <2>7
  <2>8. CASE published[t].day <= s.to
    <3>1. t \notin s.got
      BY <2>1, <2>2, <2>4 DEF NewRows, Due
    <3>2. published[t] # None /\ published[t].token = s.seen.token
      BY <2>1, <2>4 DEF Due, ShownFor
    <3>3. published[t].day >= s.to - Delay
      BY <2>1, <2>5, <2>6, <2>8, <3>1, <3>2 DEF AnswerOK
    <3> QED
      BY <1>0, <2>1, <2>2, <2>3, <2>5, <3>3
  <2> QED
    BY <2>5, <2>7, <2>8
<1>6. CASE UNCHANGED <<today, published, account, imported, floor>>
  BY <1>6 DEF InReach, Due, Followed, ShownFor
<1> QED
  BY <1>1, <1>2, <1>3, <1>4, <1>5, <1>6
  DEF Next, Progress, Start, Fetch, LockAndCheck, Abandon, vars

\* What brings money and is booked since the account is followed is stored or
\* still in the window of the next run, as long as the bank is never later with a
\* transaction than the overlap.
THEOREM AllInWindow == Spec => []NothingSkipped
<1>1. Init => InReach
  BY DEF Init, InReach, Due, Followed
<1>2. Inv /\ InReach /\ [Next]_vars => InReach'
  BY InReachPreserved
<1>3. Inv /\ InReach => NothingSkipped
  BY ReachIsWindow
<1> QED
  BY <1>1, <1>2, <1>3, Invariance, PTL DEF Spec

-----------------------------------------------------------------------------
(* The cursor stays near the day since when the account is followed *)

\* A cursor older than that day is the day of a transaction that the bank shows,
\* so the next answer has it and the cursor goes no further back.
Anchored(c, k, day, shown) ==
  /\ c >= day - Overlap
  /\ c >= day \/ \E t \in Tx : shown[t] # None /\ shown[t].token = k /\ shown[t].day = c

AccountAnchored ==
  Followed => Anchored(account.cursor, account.token, floor, published)

\* The same for a run whose token is still the stored one: the cipher tells, since
\* whoever starts the account over types a token.
RunAnchored(s, k, day, shown) ==
  /\ s.seen.token = k
  /\ day <= s.to
  /\ s.seen.cursor >= day - Overlap
  /\ \/ s.seen.cursor >= day
     \/ s.from > s.seen.cursor
     \/ \E t \in Tx : /\ shown[t] # None
                      /\ shown[t].token = k
                      /\ shown[t].day = s.seen.cursor
                      /\ s.step # "fetch" => t \in s.got

RunsAnchored ==
  \A r \in Run :
    run[r] # Idle /\ Followed /\ run[r].seen.cipher = account.cipher
      => RunAnchored(run[r], account.token, floor, published)

\* Publishing does not take a transaction away.
LEMMA ShownKept ==
  ASSUME TypeOK, [Next]_vars
  PROVE  \A t \in Tx : published[t] # None => published'[t] = published[t]
<1>1. ASSUME NEW u \in Tx, NEW k \in Token, NEW d \in (today - Delay)..today, Publish(u, k, d)
      PROVE  \A t \in Tx : published[t] # None => published'[t] = published[t]
  BY <1>1 DEF Publish, TypeOK
<1>2. CASE UNCHANGED published
  BY <1>2
<1> QED
  BY <1>1, <1>2
  DEF Next, NextDay, Save, Remove, Progress, Start, Fetch, LockAndCheck, Store, Abandon, vars

\* A save keeps the cipher only by leaving the token of a followed account alone;
\* then it keeps the cursor and the day too.
LEMMA SaveKeeps ==
  ASSUME Inv, NEW provider \in {"fio", "other"}, NEW k \in Token \cup {None},
         NEW setting \in Setting, Save(provider, k, setting), Followed'
  PROVE  \/ /\ Followed
            /\ account'.token = account.token
            /\ account'.cursor = account.cursor
            /\ floor' = floor
            /\ account'.cipher = account.cipher \/ account'.cipher = saves + 1
         \/ /\ account'.cursor = today
            /\ floor' = today
            /\ account'.cipher = saves + 1
<1>1. provider = "fio" /\ account # None
  BY SaveAccount DEF Followed, Save
<1>2. CASE account.provider = "fio" /\ TokenAfter(provider, k) = account.token
  <2>1. Followed /\ account.cursor # None
    BY <1>1, <1>2 DEF Followed, Inv, TypeOK
  <2> QED
    BY <1>1, <1>2, <2>1, SaveAccount DEF StartsOver, Save, CipherAfter
<1>3. CASE ~(account.provider = "fio" /\ TokenAfter(provider, k) = account.token)
  <2>1. k # None
    <3>1. CASE account.provider = "fio"
      BY <1>1, <1>3, <3>1 DEF TokenAfter
    <3>2. CASE account.provider # "fio"
      <4>1. account.token = None
        BY <1>1, <3>2, SaveAccount DEF Inv, AccountOK, Account
      <4> QED
        BY <1>1, <4>1 DEF Save, TokenAfter
    <3> QED
      BY <3>1, <3>2
  <2> QED
    BY <1>1, <1>3, <2>1, SaveAccount DEF StartsOver, Save, CipherAfter
<1> QED
  BY <1>2, <1>3

\* A run whose token is still the stored one leaves an anchored cursor.
LEMMA StoreAnchors ==
  ASSUME Inv, RunsAnchored, NEW r \in Run, Store(r)
  PROVE  Anchored(NewCursor(run[r]), account.token, floor, published)
<1> DEFINE s == run[r]
           n == NewCursor(s)
<1>1. /\ s \in Session /\ WindowOK(s, today, saves) /\ AnswerOK(s, published)
      /\ s.step # "fetch" /\ account = s.seen /\ account \in Account
      /\ n \in s.from..s.to
      /\ \A t \in s.got : published[t].day <= n
      /\ s.got = {} => n = s.to
      /\ s.got # {} => \E t \in s.got : published[t].day = n
  BY StoreFacts
<1>2. /\ floor \in Int /\ floor <= s.to
      /\ s.seen.cursor >= floor - Overlap
      /\ \/ s.seen.cursor >= floor
         \/ s.from > s.seen.cursor
         \/ \E t \in s.got : published[t].day = s.seen.cursor
  <2>1. s # Idle /\ Followed
    BY <1>1, AccountAssumption DEF Store, WindowOK, Followed
  <2>2. RunAnchored(s, account.token, floor, published)
    BY <1>1, <2>1 DEF RunsAnchored
  <2>3. floor \in Int
    BY DEF Inv, TypeOK
  <2> QED
    BY <1>1, <2>2, <2>3 DEF RunAnchored
<1>3. /\ n \in Int /\ s.from \in Int /\ s.to \in Int /\ s.seen.cursor \in Int
      /\ Overlap \in Nat
      /\ s.from >= s.seen.cursor - Overlap
      /\ s.from <= n
  BY <1>1, BankSyncAssumption DEF Session, WindowOK
<1> HIDE DEF n
<1>4. n >= floor - Overlap
  <2>1. CASE s.seen.cursor >= floor
    BY <1>2, <1>3, <2>1
  <2>2. CASE s.from > s.seen.cursor
    BY <1>2, <1>3, <2>2
  <2>3. CASE \E t \in s.got : published[t].day = s.seen.cursor
    BY <1>1, <1>2, <1>3, <2>3
  <2> QED
    BY <1>2, <2>1, <2>2, <2>3
<1>5. n >= floor \/ \E t \in Tx : /\ published[t] # None
                                  /\ published[t].token = account.token
                                  /\ published[t].day = n
  <2>1. CASE s.got = {}
    BY <1>1, <1>2, <2>1
  <2>2. CASE s.got # {}
    <3>1. PICK t \in s.got : published[t].day = n
      BY <1>1, <2>2
    <3>2. t \in Tx /\ published[t] # None /\ published[t].token = account.token
      BY <1>1 DEF AnswerOK, Session
    <3> QED
      BY <3>1, <3>2
  <2> QED
    BY <2>1, <2>2
<1> QED
  BY <1>4, <1>5 DEF Anchored, n

LEMMA AccountAnchoredPreserved ==
  Inv /\ AccountAnchored /\ RunsAnchored /\ [Next]_vars => AccountAnchored'
<1> SUFFICES ASSUME Inv, AccountAnchored, RunsAnchored, [Next]_vars, Followed'
             PROVE  Anchored(account'.cursor, account'.token, floor', published')
  BY DEF AccountAnchored
<1>1. \A t \in Tx : published[t] # None => published'[t] = published[t]
  BY ShownKept DEF Inv
<1>2. today \in Int /\ floor \in Int /\ Overlap \in Nat
  BY BankSyncAssumption DEF Inv, TypeOK
<1>3. ASSUME NEW provider \in {"fio", "other"}, NEW k \in Token \cup {None},
             NEW setting \in Setting, Save(provider, k, setting)
      PROVE  Anchored(account'.cursor, account'.token, floor', published')
  <2>1. CASE account'.cursor = today /\ floor' = today
    BY <1>2, <2>1 DEF Anchored
  <2>2. CASE /\ Followed /\ account'.token = account.token
             /\ account'.cursor = account.cursor /\ floor' = floor
    BY <1>1, <2>2 DEF AccountAnchored, Anchored
  <2> QED
    BY <1>3, <2>1, <2>2, SaveKeeps
<1>4. CASE Remove
  BY <1>4 DEF Remove, Followed
<1>5. ASSUME NEW r \in Run, Store(r)
      PROVE  Anchored(account'.cursor, account'.token, floor', published')
  <2>1. account'.token = account.token /\ account'.cursor = NewCursor(run[r])
    BY <1>5, StoreFacts DEF Account
  <2>2. UNCHANGED <<published, floor>>
    BY <1>5 DEF Store
  <2> QED
    BY <1>5, <2>1, <2>2, StoreAnchors
<1>6. CASE UNCHANGED <<account, floor>>
  BY <1>1, <1>6 DEF AccountAnchored, Anchored, Followed
<1> QED
  BY <1>3, <1>4, <1>5, <1>6
  DEF Next, NextDay, Publish, Progress, Start, Fetch, LockAndCheck, Abandon, vars

LEMMA RunsAnchoredPreserved ==
  Inv /\ AccountAnchored /\ RunsAnchored /\ [Next]_vars => RunsAnchored'
<1> SUFFICES ASSUME Inv, AccountAnchored, RunsAnchored, [Next]_vars,
                    NEW r \in Run, run'[r] # Idle, Followed',
                    run'[r].seen.cipher = account'.cipher
             PROVE  RunAnchored(run'[r], account'.token, floor', published')
  BY DEF RunsAnchored
<1> USE DEF Idle
<1>1. TypeOK /\ \A t \in Tx : published[t] # None => published'[t] = published[t]
  BY ShownKept DEF Inv
\* The run does not move, and neither do the token and the day.
<1>2. ASSUME run'[r] = run[r], Followed, account'.token = account.token,
             account'.cipher = account.cipher, floor' = floor
      PROVE  RunAnchored(run'[r], account'.token, floor', published')
  <2>1. RunAnchored(run[r], account.token, floor, published)
    BY <1>2 DEF RunsAnchored
  <2> QED
    BY <1>1, <1>2, <2>1 DEF RunAnchored
<1>3. ASSUME NEW provider \in {"fio", "other"}, NEW k \in Token \cup {None},
             NEW setting \in Setting, Save(provider, k, setting)
      PROVE  RunAnchored(run'[r], account'.token, floor', published')
  <2>1. run'[r] = run[r]
    BY <1>3 DEF Save
  <2>2. run[r].seen.cipher <= saves /\ saves \in Nat /\ run[r].seen.cipher \in Nat
    <3>1. run[r] \in Session /\ WindowOK(run[r], today, saves)
      BY <2>1, RunType DEF Inv, RunsOK
    <3> QED
      BY <3>1, BankSyncAssumption DEF WindowOK, Session, Account, Inv, TypeOK
  <2>3. account'.cipher # saves + 1
    BY <2>1, <2>2
  <2> QED
    BY <1>2, <1>3, <2>1, <2>3, SaveKeeps
<1>4. ASSUME NEW q \in Run, Start(q)
      PROVE  RunAnchored(run'[r], account'.token, floor', published')
  <2>1. UNCHANGED <<today, published, account, floor>> /\ Followed
    BY <1>4 DEF Start
  <2>2. CASE r # q
    <3>1. run'[r] = run[r]
      BY <1>1, <1>4, <2>2 DEF Start, TypeOK
    <3> QED
      BY <1>2, <2>1, <3>1
  <2>3. CASE r = q
    <3>1. /\ run'[r].seen = account /\ run'[r].to = today /\ run'[r].step = "fetch"
      BY <1>1, <1>4, <2>3 DEF Start, TypeOK
    <3>2. Anchored(account.cursor, account.token, floor, published) /\ floor <= today
      BY <2>1 DEF AccountAnchored, Inv
    <3> QED
      BY <2>1, <3>1, <3>2 DEF Anchored, RunAnchored
  <2> QED
    BY <2>2, <2>3
<1>5. ASSUME NEW q \in Run, Fetch(q)
      PROVE  RunAnchored(run'[r], account'.token, floor', published')
  <2>1. UNCHANGED <<today, published, account, floor>> /\ Followed
    BY <1>5 DEF Fetch, Followed
  <2>2. CASE r # q
    <3>1. run'[r] = run[r]
      BY <1>1, <1>5, <2>2 DEF Fetch, TypeOK
    <3> QED
      BY <1>2, <2>1, <3>1
  <2>3. CASE r = q
    <3>1. run[r] \in Session /\ run[r] # Idle
      BY <1>1, <1>5, <2>3, RunType DEF Fetch
    <3>2. /\ run'[r].seen = run[r].seen /\ run'[r].from = run[r].from /\ run'[r].to = run[r].to
          /\ run'[r].got = {t \in ShownFor(run[r].seen.token) :
                              published[t].day \in run[r].from..run[r].to}
      BY <1>1, <1>5, <2>3, <3>1 DEF Fetch, TypeOK, Session
    <3>3. /\ RunAnchored(run[r], account.token, floor, published)
          /\ WindowOK(run[r], today, saves)
      BY <2>1, <3>1, <3>2 DEF RunsAnchored, Inv, RunsOK
    <3>4. /\ run[r].seen.cursor \in Int /\ run[r].from \in Int /\ run[r].to \in Int
          /\ run[r].seen.token = account.token
      BY <3>1, <3>3 DEF WindowOK, RunAnchored, Session
    <3>5. \/ run[r].seen.cursor >= floor
          \/ run[r].from > run[r].seen.cursor
          \/ \E t \in Tx : /\ published[t] # None
                           /\ published[t].token = account.token
                           /\ published[t].day = run[r].seen.cursor
                           /\ t \in run'[r].got
      <4>1. CASE \E t \in Tx : /\ published[t] # None
                               /\ published[t].token = account.token
                               /\ published[t].day = run[r].seen.cursor
        <5>1. PICK t \in Tx : /\ published[t] # None
                              /\ published[t].token = account.token
                              /\ published[t].day = run[r].seen.cursor
          BY <4>1
        <5>2. run[r].seen.cursor >= floor \/ run[r].seen.cursor <= run[r].to
          <6>1. floor \in Int /\ floor <= run[r].to
            BY <1>1, <3>3 DEF TypeOK, RunAnchored
          <6> QED
            BY <3>4, <6>1
        <5>3. CASE run[r].seen.cursor \in run[r].from..run[r].to
          BY <3>2, <3>4, <5>1, <5>3 DEF ShownFor
        <5> QED
          BY <3>4, <5>2, <5>3
      <4> QED
        BY <3>3, <4>1 DEF RunAnchored
    <3> QED
      BY <2>1, <3>2, <3>3, <3>5 DEF RunAnchored
  <2> QED
    BY <2>2, <2>3
<1>6. ASSUME NEW q \in Run, LockAndCheck(q)
      PROVE  RunAnchored(run'[r], account'.token, floor', published')
  <2>1. UNCHANGED <<today, published, account, floor>> /\ Followed
    BY <1>6 DEF LockAndCheck, Followed
  <2>2. CASE run'[r] = run[r]
    BY <1>2, <2>1, <2>2
  <2>3. CASE run'[r] # run[r]
    <3>1. r = q /\ run[r] # Idle /\ run[r] \in Session /\ run[r].step = "check"
      BY <1>1, <1>6, <2>3, RunType DEF LockAndCheck, TypeOK
    <3>2. /\ run'[r].seen = run[r].seen /\ run'[r].from = run[r].from /\ run'[r].to = run[r].to
          /\ run'[r].got = run[r].got
      BY <1>1, <1>6, <3>1 DEF LockAndCheck, TypeOK, Session
    <3>3. RunAnchored(run[r], account.token, floor, published)
      BY <2>1, <3>1, <3>2 DEF RunsAnchored
    <3> QED
      BY <2>1, <3>1, <3>2, <3>3 DEF RunAnchored
  <2> QED
    BY <2>2, <2>3
<1>7. ASSUME NEW q \in Run, Store(q)
      PROVE  RunAnchored(run'[r], account'.token, floor', published')
  <2>1. /\ account'.token = account.token /\ account'.cipher = account.cipher
        /\ account.provider = "fio" /\ account # None
    BY <1>7, StoreFacts, AccountAssumption DEF Account, WindowOK
  <2>2. run'[r] = run[r] /\ floor' = floor
    BY <1>1, <1>7 DEF Store, TypeOK
  <2> QED
    BY <1>2, <2>1, <2>2 DEF Followed
<1>8. ASSUME NEW q \in Run, Abandon(q)
      PROVE  RunAnchored(run'[r], account'.token, floor', published')
  <2>1. run'[r] = run[r] /\ UNCHANGED <<account, floor>>
    BY <1>1, <1>8 DEF Abandon, TypeOK
  <2> QED
    BY <1>2, <2>1 DEF Followed
<1>9. CASE Remove
  BY <1>9 DEF Remove, Followed
<1>10. CASE UNCHANGED <<account, run, floor>>
  BY <1>2, <1>10 DEF Followed
<1> QED
  BY <1>3, <1>4, <1>5, <1>6, <1>7, <1>8, <1>9, <1>10 DEF Next, NextDay, Publish, Progress, vars

\* However often the account is started over and however late the runs of before
\* end, the cursor is never more than one overlap behind the day since when the
\* account is followed.
THEOREM NoCreepingBack == Spec => []NoBackfill
<1>1. Init => AccountAnchored /\ RunsAnchored
  BY DEF Init, AccountAnchored, RunsAnchored, Followed
<1>2. Inv /\ AccountAnchored /\ RunsAnchored /\ [Next]_vars
        => AccountAnchored' /\ RunsAnchored'
  BY AccountAnchoredPreserved, RunsAnchoredPreserved
<1>3. AccountAnchored => NoBackfill
  BY DEF AccountAnchored, Anchored, NoBackfill
<1> QED
  BY <1>1, <1>2, <1>3, Invariance, PTL DEF Spec

\* No transaction from more than two overlaps before the day since when the account is
\* followed is ever stored: a run stores what lies in its window, which starts at most
\* one overlap before the cursor (_payment_sync_date_window), and the cursor is the one
\* that NoBackfill speaks of.
THEOREM OldTransactionsStayOut == Spec => OldMoneyStaysOut
<1>1. Inv /\ NoBackfill /\ [Next]_vars =>
        [\A t \in imported' \ imported : published[t].day >= floor - 2 * Overlap]_vars
  <2> SUFFICES ASSUME Inv, NoBackfill, [Next]_vars, NEW t \in imported' \ imported
               PROVE  published[t].day >= floor - 2 * Overlap
    OBVIOUS
  <2>1. PICK r \in Run : Store(r)
    BY DEF Next, NextDay, Publish, Save, Remove, Progress, Start, Fetch, LockAndCheck, Abandon, vars
  <2>2. t \in run[r].got
    BY <2>1 DEF Store, NewRows
  <2>3. published[t].day \in run[r].from .. run[r].to
    BY <2>1, <2>2, StoreFacts DEF AnswerOK
  <2>4. /\ run[r].from \in Int /\ run[r].to \in Int
        /\ run[r].from >= account.cursor - Overlap
        /\ Followed /\ account.cursor \in Int
    BY <2>1, StoreFacts, AccountAssumption DEF WindowOK, Session, Followed
  <2>5. account.cursor >= floor - Overlap
    BY <2>4 DEF NoBackfill
  <2> QED
    BY <2>3, <2>4, <2>5, BankSyncAssumption DEF Inv, TypeOK
<1> QED
  BY <1>1, Invariance, NoCreepingBack, PTL DEF Spec, OldMoneyStaysOut

=============================================================================
