------------------------------ MODULE Accounts ------------------------------
(***************************************************************************)
(* One user account: the sign-up and its confirmation, sessions, changes   *)
(* and resets of the password, and the cancellation of the account         *)
(* (fakturek/main.py, fakturek/auth.py).                                   *)
(*                                                                         *)
(* A session is a signed cookie and a reset is a signed link; the server   *)
(* keeps neither.  Both carry the session_version of the account, which    *)
(* every new password raises.  The middleware reads the account before the *)
(* handler of the page runs.  The confirmation runs in a thread: it reads  *)
(* the account in a snapshot and writes it later.  Passwords are numbered  *)
(* in the order they were set.                                             *)
(***************************************************************************)
EXTENDS Common, Integers

CONSTANTS
  Device,        \* browsers
  Confirmer,     \* threads that serve the confirmation link
  AgeChoices,    \* the session_max_age_days a user may choose
  LinkAge,       \* PASSWORD_RESET_MAX_AGE_SECONDS
  LastTime,      \* bound: the clock
  MaxPasswords   \* bound: how many passwords are set

ASSUME AccountsAssumption ==
  /\ AgeChoices \subseteq Nat /\ AgeChoices # {} /\ LinkAge \in Nat /\ LastTime \in Nat
  /\ MaxPasswords \in Nat \ {0}

VARIABLES
  time,          \* the clock
  user,          \* the row of the account
  password,      \* the number of the password
  cookie,        \* per device: the session, or None
  visit,         \* per device: a request that the middleware let pass, or None
  resetLinks,    \* reset links that were mailed
  confirming,    \* per thread: what it has read of the account, or None
  accepted       \* history: which password a credential stood for when it was accepted

accountVars == <<time, user, password, cookie, visit, resetLinks, confirming, accepted>>

Times == 0 .. LastTime
Passwords == 1 .. MaxPasswords

UserRow == [active : BOOLEAN, verified : BOOLEAN, cancelled : BOOLEAN,
            version : Passwords, maxAge : AgeChoices]

\* of: the password by which the session was begun, or that the link is to replace.
UserSession == [version : Passwords, since : Times, of : Passwords]

AccountsTypeOK ==
  /\ time \in Times /\ user \in UserRow /\ password \in Passwords
  /\ cookie \in [Device -> UserSession \cup {None}]
  /\ visit \in [Device -> [typed : Passwords] \cup {None}]
  /\ resetLinks \subseteq UserSession
  /\ confirming \in [Confirmer -> [verified : BOOLEAN, cancelled : BOOLEAN] \cup {None}]
  /\ accepted \subseteq [of : Passwords, now : Passwords]

PassTime ==
  /\ time < LastTime /\ time' = time + 1
  /\ UNCHANGED <<user, password, cookie, visit, resetLinks, confirming, accepted>>

(***************************************************************************)
(* Confirmation of the sign-up; the link is mailed again until it is used. *)
(***************************************************************************)
ReadConfirmation(w) ==
  /\ confirming[w] = None
  /\ confirming' = [confirming EXCEPT ![w] = [verified  |-> user.verified,
                                              cancelled |-> user.cancelled]]
  /\ UNCHANGED <<time, user, password, cookie, visit, resetLinks, accepted>>

Confirm(w) ==
  /\ confirming[w] # None /\ confirming' = [confirming EXCEPT ![w] = None]
  /\ IF confirming[w].verified \/ confirming[w].cancelled THEN UNCHANGED user
     ELSE user' = [user EXCEPT !.verified = TRUE, !.active = TRUE]
  /\ UNCHANGED <<time, password, cookie, visit, resetLinks, accepted>>

(***************************************************************************)
(* Sessions.                                                               *)
(***************************************************************************)
NewSession(of) == [version |-> user.version, since |-> time, of |-> of]

\* Only who knows the password gets in.
SignIn(d) ==
  /\ visit[d] = None /\ user.active
  /\ cookie' = [cookie EXCEPT ![d] = NewSession(password)]
  /\ UNCHANGED <<time, user, password, visit, resetLinks, confirming, accepted>>

SignOut(d) ==
  /\ visit[d] = None /\ cookie[d] # None /\ cookie' = [cookie EXCEPT ![d] = None]
  /\ UNCHANGED <<time, user, password, visit, resetLinks, confirming, accepted>>

ValidSession(session) ==
  /\ user.active /\ session.version = user.version
  /\ time - session.since <= user.maxAge

(* A request of a session: let pass, or answered with a cookie that is cleared.  A *)
(* form that asks for the password carries the one the user knows by then.         *)
Visit(d) ==
  /\ cookie[d] # None /\ visit[d] = None
  /\ IF ValidSession(cookie[d])
     THEN /\ visit' = [visit EXCEPT ![d] = [typed |-> password]]
          /\ accepted' = accepted \cup {[of |-> cookie[d].of, now |-> password]}
          /\ UNCHANGED cookie
     ELSE cookie' = [cookie EXCEPT ![d] = None] /\ UNCHANGED <<visit, accepted>>
  /\ UNCHANGED <<time, user, password, resetLinks, confirming>>

EndVisit(d) ==
  /\ visit[d] # None /\ visit' = [visit EXCEPT ![d] = None]
  /\ UNCHANGED <<time, user, password, cookie, resetLinks, confirming, accepted>>

ChooseAge(d, age) ==
  /\ visit[d] # None /\ visit' = [visit EXCEPT ![d] = None]
  /\ user' = [user EXCEPT !.maxAge = age]
  /\ UNCHANGED <<time, password, cookie, resetLinks, confirming, accepted>>

(***************************************************************************)
(* Passwords.                                                              *)
(***************************************************************************)
\* Mutant of Renewed: a new password leaves the session_version as it is.
RenewedSilently(row) == row

Renewed(row) == [row EXCEPT !.version = row.version + 1]

(* The device that changes the password goes on with a session of the new one. *)
ChangePassword(d) ==
  /\ visit[d] # None /\ visit' = [visit EXCEPT ![d] = None]
  /\ visit[d].typed = password
  /\ password < MaxPasswords /\ password' = password + 1
  /\ user' = Renewed(user)
  /\ cookie' = [cookie EXCEPT ![d] = [version |-> user'.version, since |-> time, of |-> password']]
  /\ UNCHANGED <<time, resetLinks, confirming, accepted>>

MailReset ==
  /\ user.active
  /\ resetLinks' = resetLinks \cup {NewSession(password)}
  /\ UNCHANGED <<time, user, password, cookie, visit, confirming, accepted>>

ResetPassword(l) ==
  /\ l \in resetLinks /\ time - l.since <= LinkAge
  /\ user.active /\ l.version = user.version
  /\ password < MaxPasswords /\ password' = password + 1
  /\ user' = Renewed(user)
  /\ accepted' = accepted \cup {[of |-> l.of, now |-> password]}
  /\ UNCHANGED <<time, cookie, visit, resetLinks, confirming>>

CancelUser(d) ==
  /\ visit[d] # None /\ visit' = [visit EXCEPT ![d] = None]
  /\ visit[d].typed = password /\ ~user.cancelled
  /\ user' = [user EXCEPT !.active = FALSE, !.cancelled = TRUE]
  /\ cookie' = [cookie EXCEPT ![d] = None]
  /\ UNCHANGED <<time, password, resetLinks, confirming, accepted>>

(* An account that was signed up for, or one that the setup or a colleague made. *)
AccountsInit ==
  /\ time = 0 /\ password = 1
  /\ \E ready \in BOOLEAN, age \in AgeChoices :
       user = [active |-> ready, verified |-> ready, cancelled |-> FALSE,
               version |-> 1, maxAge |-> age]
  /\ cookie = [d \in Device |-> None] /\ visit = [d \in Device |-> None]
  /\ resetLinks = {} /\ accepted = {}
  /\ confirming = [w \in Confirmer |-> None]

AccountsNext ==
  \/ PassTime \/ MailReset
  \/ \E l \in resetLinks : ResetPassword(l)
  \/ \E w \in Confirmer : ReadConfirmation(w) \/ Confirm(w)
  \/ \E d \in Device :
       \/ SignIn(d) \/ SignOut(d) \/ Visit(d) \/ EndVisit(d)
       \/ ChangePassword(d) \/ CancelUser(d)
       \/ \E age \in AgeChoices : ChooseAge(d, age)

AccountsSpec == AccountsInit /\ [][AccountsNext]_accountVars

(* After a password was changed or reset, on whichever device, no session that an *)
(* earlier password began and no reset link that was mailed before is accepted:   *)
(* "po změně hesla přestane fungovat" (main.py:3762, _AuthRequiredMiddleware,     *)
(* password_reset_submit).                                                        *)
OnlyCurrentPassword == \A a \in accepted : a.of = a.now

=============================================================================
