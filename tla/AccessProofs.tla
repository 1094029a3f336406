---------------------------- MODULE AccessProofs ----------------------------
(***************************************************************************)
(* Proofs about who gets in and what the API does: Accounts,               *)
(* SubjectAccess, ApiCalls and RateLimiter, for every set of devices,      *)
(* persons, subjects, roles, threads, tokens and keys and every bound; and *)
(* that ApiCalls implements the register of effects.                       *)
(***************************************************************************)
EXTENDS Accounts, SubjectAccess, ApiCalls, RateLimiter, FiniteSetTheorems, TLAPS

\* Sets of numbers have a least member.
LEMMA LeastExists ==
  ASSUME NEW S, S \subseteq Nat, S # {}
  PROVE  \E m \in S : \A n \in S : m <= n
<1>1. PICK m \in S : \A n \in S : ~(<<n, m>> \in OpToRel(<, Nat))
  BY NatLessThanWellFounded, WFMin
<1>2. ASSUME NEW n \in S PROVE m <= n
  <2>1. ~(n < m)
    BY <1>1 DEF OpToRel
  <2> QED
    BY <2>1
<1> QED
  BY <1>2

-----------------------------------------------------------------------------
(***************************************************************************)
(* Accounts: what an old password gave is worth nothing once there is a    *)
(* new one.                                                                *)
(***************************************************************************)

(* What session_version stands for *)

VersionOK == password \in Passwords /\ user \in UserRow /\ user.version = password

\* A credential names the version and the password of the same moment.
Honest(session) == session.version = session.of

CookiesOK ==
  /\ DOMAIN cookie = Device
  /\ \A d \in Device : cookie[d] # None => Honest(cookie[d])

LinksOK == \A l \in resetLinks : Honest(l)

AccountsInv == VersionOK /\ CookiesOK /\ LinksOK

LEMMA AccountsInitInv == AccountsInit => AccountsInv
BY AccountsAssumption DEF AccountsInit, AccountsInv, VersionOK, CookiesOK, LinksOK, Passwords, UserRow

\* Handlers that do not set a password leave version and password as they are.
LEMMA RowKept ==
  ASSUME VersionOK, UNCHANGED password,
         \/ UNCHANGED user
         \/ user' = [user EXCEPT !.verified = TRUE, !.active = TRUE]
         \/ \E age \in AgeChoices : user' = [user EXCEPT !.maxAge = age]
         \/ user' = [user EXCEPT !.active = FALSE, !.cancelled = TRUE]
  PROVE  VersionOK'
BY DEF VersionOK, UserRow

\* A new password raises both by one.
LEMMA RowRenewed ==
  ASSUME VersionOK, password < MaxPasswords, password' = password + 1, user' = Renewed(user)
  PROVE  VersionOK' /\ user'.version = password'
BY AccountsAssumption DEF VersionOK, UserRow, Passwords, Renewed

LEMMA AccountsNextInv == AccountsInv /\ [AccountsNext]_accountVars => AccountsInv'
<1> SUFFICES ASSUME AccountsInv, [AccountsNext]_accountVars PROVE AccountsInv'
  OBVIOUS
<1> USE DEF AccountsInv
<1>1. CASE UNCHANGED accountVars
  BY <1>1 DEF accountVars, VersionOK, CookiesOK, LinksOK, Honest
<1>2. CASE PassTime
  BY <1>2, RowKept DEF PassTime, CookiesOK, LinksOK, Honest
<1>3. CASE MailReset
  <2>1. Honest(NewSession(password))
    BY DEF Honest, NewSession, VersionOK
  <2> QED
    BY <1>3, <2>1, RowKept DEF MailReset, CookiesOK, LinksOK, Honest
<1>4. ASSUME NEW l \in resetLinks, ResetPassword(l) PROVE AccountsInv'
  BY <1>4, RowRenewed DEF ResetPassword, CookiesOK, LinksOK, Honest
<1>5. ASSUME NEW w \in Confirmer, ReadConfirmation(w) \/ Confirm(w) PROVE AccountsInv'
  BY <1>5, RowKept DEF ReadConfirmation, Confirm, CookiesOK, LinksOK, Honest
<1>6. ASSUME NEW d \in Device, SignIn(d) PROVE AccountsInv'
  <2>1. Honest(NewSession(password))
    BY DEF Honest, NewSession, VersionOK
  <2> QED
    BY <1>6, <2>1, RowKept DEF SignIn, CookiesOK, LinksOK, Honest
<1>7. ASSUME NEW d \in Device, SignOut(d) \/ Visit(d) \/ EndVisit(d) PROVE AccountsInv'
  BY <1>7, RowKept DEF SignOut, Visit, EndVisit, CookiesOK, LinksOK, Honest
<1>8. ASSUME NEW d \in Device, ChangePassword(d) PROVE AccountsInv'
  <2>1. VersionOK' /\ user'.version = password'
    BY <1>8, RowRenewed DEF ChangePassword
  <2>2. Honest([version |-> user'.version, since |-> time, of |-> password'])
    BY <2>1 DEF Honest
  <2> QED
    BY <1>8, <2>1, <2>2 DEF ChangePassword, CookiesOK, LinksOK, Honest
<1>9. ASSUME NEW d \in Device, CancelUser(d) PROVE AccountsInv'
  BY <1>9, RowKept DEF CancelUser, CookiesOK, LinksOK, Honest
<1>10. ASSUME NEW d \in Device, NEW age \in AgeChoices, ChooseAge(d, age) PROVE AccountsInv'
  BY <1>10, RowKept DEF ChooseAge, CookiesOK, LinksOK, Honest
<1> QED
  BY <1>1, <1>2, <1>3, <1>4, <1>5, <1>6, <1>7, <1>8, <1>9, <1>10 DEF AccountsNext

\* Only two handlers accept a credential: the middleware and the reset of the
\* password.  Both compare its version with that of the account.
LEMMA AcceptedCurrent ==
  AccountsInv /\ OnlyCurrentPassword /\ [AccountsNext]_accountVars => OnlyCurrentPassword'
<1> SUFFICES ASSUME AccountsInv, OnlyCurrentPassword, [AccountsNext]_accountVars
             PROVE  OnlyCurrentPassword'
  OBVIOUS
<1>1. CASE UNCHANGED accepted
  BY <1>1 DEF OnlyCurrentPassword
<1>2. ASSUME NEW l \in resetLinks, ResetPassword(l) PROVE OnlyCurrentPassword'
  <2>1. l.of = password
    BY <1>2 DEF ResetPassword, AccountsInv, LinksOK, VersionOK, Honest
  <2> QED
    BY <1>2, <2>1 DEF ResetPassword, OnlyCurrentPassword
<1>3. ASSUME NEW d \in Device, Visit(d) PROVE OnlyCurrentPassword'
  <2>1. ValidSession(cookie[d]) => cookie[d].of = password
    BY <1>3 DEF Visit, ValidSession, AccountsInv, CookiesOK, VersionOK, Honest
  <2> QED
    BY <1>3, <2>1 DEF Visit, OnlyCurrentPassword
<1> QED
  BY <1>1, <1>2, <1>3 DEF AccountsNext, accountVars, PassTime, MailReset, ReadConfirmation,
     Confirm, SignIn, SignOut, EndVisit, ChangePassword, CancelUser, ChooseAge

\* No session that an earlier password began and no reset link that was mailed
\* before a password was set is accepted, however requests of several devices,
\* resets and changes overlap: session_version (fakturek/auth.py, main.py:3762).
THEOREM OldPasswordsWorthless == AccountsSpec => []OnlyCurrentPassword
<1>1. AccountsInit => AccountsInv /\ OnlyCurrentPassword
  BY AccountsInitInv DEF AccountsInit, OnlyCurrentPassword
<1>2. AccountsInv /\ OnlyCurrentPassword /\ [AccountsNext]_accountVars => AccountsInv' /\ OnlyCurrentPassword'
  BY AccountsNextInv, AcceptedCurrent
<1> QED
  BY <1>1, <1>2, PTL DEF AccountsSpec

\* The session a login or the mail of a link begins.
LEMMA NewSessionType ==
  ASSUME AccountsTypeOK
  PROVE  NewSession(password) \in UserSession
BY DEF NewSession, AccountsTypeOK, UserSession, UserRow

LEMMA AccountsTypeStep ==
  AccountsInv /\ AccountsTypeOK /\ [AccountsNext]_accountVars => AccountsTypeOK'
<1> SUFFICES ASSUME AccountsInv, AccountsTypeOK, [AccountsNext]_accountVars PROVE AccountsTypeOK'
  OBVIOUS
<1> USE DEF AccountsTypeOK
<1>1. CASE UNCHANGED accountVars
  BY <1>1 DEF accountVars
<1>2. CASE PassTime
  BY <1>2, AccountsAssumption DEF PassTime, Times
<1>3. CASE MailReset
  BY <1>3, NewSessionType DEF MailReset
<1>4. ASSUME password < MaxPasswords, password' = password + 1, user' = Renewed(user)
      PROVE  password' \in Passwords /\ user' \in UserRow
  <2>1. password' \in Passwords
    BY <1>4, AccountsAssumption DEF Passwords
  <2>2. user.version = password
    BY DEF AccountsInv, VersionOK
  <2> QED
    BY <1>4, <2>1, <2>2 DEF Renewed, UserRow
<1>5. ASSUME NEW l \in resetLinks, ResetPassword(l) PROVE AccountsTypeOK'
  <2>1. [of |-> l.of, now |-> password] \in [of : Passwords, now : Passwords]
    BY DEF UserSession
  <2> QED
    BY <1>4, <1>5, <2>1 DEF ResetPassword
<1>6. ASSUME NEW w \in Confirmer, ReadConfirmation(w) \/ Confirm(w) PROVE AccountsTypeOK'
  <2>1. [verified |-> user.verified, cancelled |-> user.cancelled]
          \in [verified : BOOLEAN, cancelled : BOOLEAN]
    BY DEF UserRow
  <2>2. [user EXCEPT !.verified = TRUE, !.active = TRUE] \in UserRow
    BY DEF UserRow
  <2> QED
    BY <1>6, <2>1, <2>2 DEF ReadConfirmation, Confirm
<1>7. ASSUME NEW d \in Device, SignIn(d) \/ SignOut(d) \/ EndVisit(d) PROVE AccountsTypeOK'
  BY <1>7, NewSessionType DEF SignIn, SignOut, EndVisit
<1>8. ASSUME NEW d \in Device, Visit(d) PROVE AccountsTypeOK'
  <2>1. [of |-> cookie[d].of, now |-> password] \in [of : Passwords, now : Passwords]
    BY <1>8 DEF Visit, UserSession
  <2>2. [typed |-> password] \in [typed : Passwords]
    OBVIOUS
  <2> QED
    BY <1>8, <2>1, <2>2 DEF Visit
<1>9. ASSUME NEW d \in Device, ChangePassword(d) PROVE AccountsTypeOK'
  <2>1. password' \in Passwords /\ user' \in UserRow
    BY <1>4, <1>9 DEF ChangePassword
  <2>2. [version |-> user'.version, since |-> time, of |-> password'] \in UserSession
    BY <2>1 DEF UserSession, UserRow
  <2> QED
    BY <1>9, <2>1, <2>2 DEF ChangePassword
<1>10. ASSUME NEW d \in Device, CancelUser(d) PROVE AccountsTypeOK'
  <2>1. [user EXCEPT !.active = FALSE, !.cancelled = TRUE] \in UserRow
    BY DEF UserRow
  <2> QED
    BY <1>10, <2>1 DEF CancelUser
<1>11. ASSUME NEW d \in Device, NEW age \in AgeChoices, ChooseAge(d, age) PROVE AccountsTypeOK'
  <2>1. [user EXCEPT !.maxAge = age] \in UserRow
    BY DEF UserRow
  <2> QED
    BY <1>11, <2>1 DEF ChooseAge
<1> QED
  BY <1>1, <1>2, <1>3, <1>5, <1>6, <1>7, <1>8, <1>9, <1>10, <1>11 DEF AccountsNext

\* The account, its sessions and links stay within their types: the version of the
\* account keeps pace with the passwords (session_version, fakturek/models.py).
THEOREM AccountsTypeCorrect == AccountsSpec => []AccountsTypeOK
<1>1. AccountsInit => AccountsTypeOK
  <2> SUFFICES ASSUME AccountsInit PROVE AccountsTypeOK
    OBVIOUS
  <2>1. 1 \in Passwords /\ 0 \in Times
    BY AccountsAssumption DEF Passwords, Times
  <2>2. user \in UserRow
    BY <2>1 DEF AccountsInit, UserRow
  <2> QED
    BY <2>1, <2>2 DEF AccountsInit, AccountsTypeOK
<1> QED
  BY <1>1, AccountsInitInv, AccountsNextInv, AccountsTypeStep, PTL DEF AccountsSpec

-----------------------------------------------------------------------------
(***************************************************************************)
(* SubjectAccess: subjects keep an owner, and nobody but an owner changes  *)
(* who owns them.                                                          *)
(***************************************************************************)

(* Rows and owners *)

LinkRowsOK ==
  /\ link \in [Person -> [SubjectId -> LinkRow \cup {None}]]
  /\ DOMAIN standing = Person /\ DOMAIN request = Person
  /\ existing \subseteq SubjectId

\* Who has no account yet has no access and no request either.
StrangersOK ==
  \A p \in Person : standing[p] = "none" =>
    request[p] = None /\ \A s \in SubjectId : link[p][s] = None

AccessInv == LinkRowsOK /\ StrangersOK /\ SubjectHasOwner

LEMMA NormalisedType ==
  ASSUME NEW row \in LinkRow
  PROVE  Normalised(row) \in LinkRow /\ Normalised(row).role = row.role
BY DEF LinkRow, Normalised

LEMMA OwnerRowType == OwnerRow \in LinkRow /\ OwnerRow.role = "owner"
BY SubjectAccessAssumption DEF OwnerRow, LinkRow

\* What writing one row does to the owners.
LEMMA OwnersAfter ==
  ASSUME LinkRowsOK, NEW q \in Person, NEW s \in SubjectId, NEW new \in LinkRow \cup {None},
         link' = [link EXCEPT ![q][s] = new]
  PROVE  /\ link' \in [Person -> [SubjectId -> LinkRow \cup {None}]]
         /\ \A p \in Person, z \in SubjectId :
              link'[p][z] = IF p = q /\ z = s THEN new ELSE link[p][z]
         /\ \A z \in SubjectId \ {s} : Owners(z)' = Owners(z)
         /\ new # None /\ new.role = "owner" => Owners(s)' = Owners(s) \cup {q}
         /\ new = None \/ new.role # "owner" => Owners(s)' = Owners(s) \ {q}
<1>1. link' \in [Person -> [SubjectId -> LinkRow \cup {None}]]
  BY DEF LinkRowsOK
<1>2. \A p \in Person, z \in SubjectId :
        link'[p][z] = IF p = q /\ z = s THEN new ELSE link[p][z]
  BY DEF LinkRowsOK
<1>3. None # "owner"
  BY NoneIsNoLink, SubjectAccessAssumption
<1>4. ASSUME NEW z \in SubjectId, NEW p \in Person
      PROVE  /\ p \in Owners(z) <=> link[p][z] # None /\ link[p][z].role = "owner"
             /\ p \in Owners(z)' <=> link'[p][z] # None /\ link'[p][z].role = "owner"
  BY <1>3 DEF Owners, Role
<1>5. \A z \in SubjectId : Owners(z) \subseteq Person /\ Owners(z)' \subseteq Person
  BY DEF Owners
<1>6. ASSUME NEW z \in SubjectId \ {s} PROVE Owners(z)' = Owners(z)
  <2>1. \A p \in Person : link'[p][z] = link[p][z]
    BY <1>2
  <2> QED
    BY <2>1 DEF Owners, Role
<1>7. new # None /\ new.role = "owner" => Owners(s)' = Owners(s) \cup {q}
  BY <1>2, <1>4, <1>5
<1>8. new = None \/ new.role # "owner" => Owners(s)' = Owners(s) \ {q}
  BY <1>2, <1>4, <1>5
<1> QED
  BY <1>1, <1>2, <1>6, <1>7, <1>8

\* The other subjects keep theirs.
LEMMA OthersKept ==
  ASSUME LinkRowsOK, NEW q \in Person, NEW s, NEW new, link' = [link EXCEPT ![q][s] = new]
  PROVE  \A z \in SubjectId \ {s} : Owners(z)' = Owners(z)
<1>1. \A p \in Person, z \in SubjectId \ {s} : link'[p][z] = link[p][z]
  BY DEF LinkRowsOK
<1> QED
  BY <1>1 DEF Owners, Role

\* Of two owners one stays when the other goes.
LEMMA AnotherOwner ==
  ASSUME NEW s, ~LastOwner(s), NEW q
  PROVE  Owners(s) \ {q} # {}
<1> SUFFICES ASSUME Owners(s) \ {q} = {} PROVE FALSE
  OBVIOUS
<1>1. Owners(s) = {} \/ Owners(s) = {q}
  OBVIOUS
<1>2. Cardinality({}) = 0 /\ Cardinality({q}) = 1
  BY FS_EmptySet, FS_Singleton
<1> QED
  BY <1>1, <1>2 DEF LastOwner

-----------------------------------------------------------------------------
(* The steps *)

LEMMA AccessInitInv == AccessInit => AccessInv
<1> SUFFICES ASSUME AccessInit PROVE AccessInv
  OBVIOUS
<1>1. PICK p \in Person :
        /\ standing = [q \in Person |-> IF q = p THEN "active" ELSE "none"]
        /\ link = [q \in Person |-> [s \in SubjectId |-> IF q = p /\ s = 1 THEN OwnerRow ELSE None]]
  BY DEF AccessInit
<1>2. 1 \in SubjectId /\ existing = {1}
  BY SubjectAccessAssumption DEF AccessInit
<1>3. LinkRowsOK
  BY <1>1, <1>2, OwnerRowType DEF AccessInit, LinkRowsOK
<1>4. StrangersOK
  BY <1>1 DEF AccessInit, StrangersOK
<1>5. p \in Owners(1)
  BY <1>1, <1>2, OwnerRowType, NoneIsNoLink DEF Owners, Role
<1> QED
  BY <1>2, <1>3, <1>4, <1>5 DEF AccessInv, SubjectHasOwner

\* A subject is made together with the link of its first owner.
LEMMA FirstOwner ==
  ASSUME AccessInv, NEW p \in Person, NEW s \in SubjectId, s \notin existing,
         existing' = existing \cup {s}, link' = [link EXCEPT ![p][s] = OwnerRow]
  PROVE  /\ SubjectHasOwner'
         /\ \A z \in existing : Owners(z)' = Owners(z)
<1>1. LinkRowsOK /\ OwnerRow \in LinkRow /\ OwnerRow # None
  BY OwnerRowType, NoneIsNoLink DEF AccessInv
<1>2. Owners(s)' = Owners(s) \cup {p}
  BY <1>1, OwnerRowType, OwnersAfter
<1>3. \A z \in SubjectId \ {s} : Owners(z)' = Owners(z)
  BY <1>1, OwnersAfter
<1>4. \A z \in existing : Owners(z)' = Owners(z)
  BY <1>1, <1>3 DEF LinkRowsOK
<1> QED
  BY <1>2, <1>4 DEF AccessInv, SubjectHasOwner

\* A link that is made for a person without one takes no owner away.
LEMMA NewLink ==
  ASSUME AccessInv, NEW q \in Person, NEW s \in SubjectId, NEW row \in LinkRow, link[q][s] = None,
         UNCHANGED existing, link' = [link EXCEPT ![q][s] = Normalised(row)]
  PROVE  /\ SubjectHasOwner'
         /\ \A z \in existing \ {s} : Owners(z)' = Owners(z)
         /\ row.role # "owner" => Owners(s)' = Owners(s)
<1>0. PICK new \in LinkRow : new = Normalised(row)
  BY NormalisedType
<1>1. LinkRowsOK /\ new # None /\ new.role = row.role /\ link' = [link EXCEPT ![q][s] = new]
  BY <1>0, NormalisedType, NoneIsNoLink DEF AccessInv
<1>2. q \notin Owners(s)
  BY NoneIsNoLink, SubjectAccessAssumption DEF Owners, Role
<1>6. /\ \A z \in SubjectId \ {s} : Owners(z)' = Owners(z)
      /\ new # None /\ new.role = "owner" => Owners(s)' = Owners(s) \cup {q}
      /\ new = None \/ new.role # "owner" => Owners(s)' = Owners(s) \ {q}
  <2>1. \A z \in SubjectId \ {s} : Owners(z)' = Owners(z)
    BY <1>1, OthersKept
  <2>2. new # None /\ new.role = "owner" => Owners(s)' = Owners(s) \cup {q}
    BY <1>1, OwnersAfter
  <2>3. new = None \/ new.role # "owner" => Owners(s)' = Owners(s) \ {q}
    BY <1>1, OwnersAfter
  <2> QED BY <2>1, <2>2, <2>3
<1>3. \A z \in existing \ {s} : Owners(z)' = Owners(z)
  BY <1>1, <1>6 DEF LinkRowsOK
<1>4. row.role = "owner" => Owners(s)' = Owners(s) \cup {q}
  BY <1>1, <1>6
<1>5. row.role # "owner" => Owners(s)' = Owners(s)
  BY <1>1, <1>2, <1>6
<1> QED
  BY <1>3, <1>4, <1>5 DEF AccessInv, SubjectHasOwner

\* A write to a subject that is none changes nothing.
LEMMA NoSubject ==
  ASSUME LinkRowsOK, NEW q \in Person, NEW s, s \notin SubjectId, NEW new,
         link' = [link EXCEPT ![q][s] = new]
  PROVE  link' = link
BY DEF LinkRowsOK

\* What OwnersMakeOwners says of one step.
OwnersStep ==
  \A s \in existing : Owners(s)' # Owners(s) =>
    \E p \in Owners(s) : request[p] # None /\ request'[p] = None

\* Only an owner may grant ownership, and touch an owner.
LEMMA GrantByOwner ==
  ASSUME NEW p \in Person, NEW s, NEW role \in Grantable(p, s), role = "owner"
  PROVE  p \in Owners(s)
BY DEF Grantable, Owners

LEMMA TouchedByOwner ==
  ASSUME NEW p \in Person, NEW s, NEW q \in Person, Manages(p, s, q), q \in Owners(s)
  PROVE  p \in Owners(s)
BY DEF Manages, Owners

\* Rows, strangers and steps that write no link.
LEMMA QuietStep ==
  ASSUME AccessInv, UNCHANGED <<existing, link>>, DOMAIN standing' = Person, DOMAIN request' = Person,
         \A p \in Person : standing'[p] = "none" =>
           standing[p] = "none" /\ request'[p] \in {request[p], None}
  PROVE  AccessInv' /\ OwnersStep
<1>1. \A s : Owners(s)' = Owners(s)
  BY DEF Owners, Role
<1> QED
  BY <1>1 DEF AccessInv, LinkRowsOK, StrangersOK, SubjectHasOwner, OwnersStep

\* The step of the handler that serves the request of p.
LEMMA ServedStep ==
  ASSUME AccessInv, NEW p \in Person, Served(p)
  PROVE  /\ DOMAIN request' = Person
         /\ request[p] # None /\ request'[p] = None /\ standing[p] # "none"
         /\ \A q \in Person : request'[q] \in {request[q], None}
BY DEF Served, AccessInv, LinkRowsOK, StrangersOK

LEMMA CreateSubjectStep ==
  ASSUME AccessInv, NEW p \in Person, NEW s \in SubjectId, NEW switch, CreateSubject(p, s, switch)
  PROVE  AccessInv' /\ OwnersStep
<1>1. /\ s \notin existing /\ existing' = existing \cup {s}
      /\ link' = [link EXCEPT ![p][s] = OwnerRow]
      /\ UNCHANGED standing /\ Served(p)
  BY DEF CreateSubject
<1>2. SubjectHasOwner' /\ \A z \in existing : Owners(z)' = Owners(z)
  BY <1>1, FirstOwner
<1>3. LinkRowsOK'
  BY <1>1, OwnerRowType, ServedStep DEF AccessInv, LinkRowsOK
<1>4. StrangersOK'
  BY <1>1, ServedStep DEF AccessInv, LinkRowsOK, StrangersOK
<1> QED
  BY <1>2, <1>3, <1>4 DEF AccessInv, OwnersStep

LEMMA SignUpStep ==
  ASSUME AccessInv, NEW p \in Person, NEW s \in SubjectId, SignUp(p, s)
  PROVE  AccessInv' /\ OwnersStep
<1>1. /\ s \notin existing /\ existing' = existing \cup {s}
      /\ link' = [link EXCEPT ![p][s] = OwnerRow]
      /\ standing' = [standing EXCEPT ![p] = "active"] /\ UNCHANGED request
  BY DEF SignUp
<1>2. SubjectHasOwner' /\ \A z \in existing : Owners(z)' = Owners(z)
  BY <1>1, FirstOwner
<1>3. LinkRowsOK'
  BY <1>1, OwnerRowType DEF AccessInv, LinkRowsOK
<1>4. StrangersOK'
  BY <1>1 DEF AccessInv, LinkRowsOK, StrangersOK
<1> QED
  BY <1>2, <1>3, <1>4 DEF AccessInv, OwnersStep

LEMMA CreateUserStep ==
  ASSUME AccessInv, NEW p \in Person, NEW s \in SubjectId, NEW q \in Person, NEW row \in LinkRow,
         CreateUser(p, s, q, row)
  PROVE  AccessInv' /\ OwnersStep
<1>1. /\ Served(p) /\ UNCHANGED existing
      /\ row.role \in Grantable(p, s) /\ standing[q] = "none"
      /\ standing' = [standing EXCEPT ![q] = "active"]
      /\ link' = [link EXCEPT ![q][s] = Normalised(row)]
  BY DEF CreateUser
<1>2. link[q][s] = None
  BY <1>1 DEF AccessInv, StrangersOK
<1>3. /\ SubjectHasOwner'
      /\ \A z \in existing \ {s} : Owners(z)' = Owners(z)
      /\ row.role # "owner" => Owners(s)' = Owners(s)
  BY <1>1, <1>2, NewLink
<1>4. row.role = "owner" => p \in Owners(s)
  BY <1>1, GrantByOwner
<1>5. LinkRowsOK'
  BY <1>1, NormalisedType, ServedStep DEF AccessInv, LinkRowsOK
<1>6. StrangersOK'
  BY <1>1, ServedStep DEF AccessInv, LinkRowsOK, StrangersOK
<1>7. OwnersStep
  BY <1>1, <1>3, <1>4, ServedStep DEF OwnersStep
<1> QED
  BY <1>3, <1>5, <1>6, <1>7 DEF AccessInv

\* A write to the link of q by the request of p: everything but the owners of s.
LEMMA ServedWrite ==
  ASSUME AccessInv, NEW p \in Person, Served(p), NEW q \in Person, NEW s \in SubjectId,
         NEW new \in LinkRow \cup {None}, new = None \/ standing[q] # "none",
         UNCHANGED <<existing, standing>>, link' = [link EXCEPT ![q][s] = new]
  PROVE  LinkRowsOK' /\ StrangersOK'
<1>1. LinkRowsOK'
  BY ServedStep DEF AccessInv, LinkRowsOK
<1>2. StrangersOK'
  BY ServedStep DEF AccessInv, LinkRowsOK, StrangersOK
<1> QED
  BY <1>1, <1>2

\* A request whose subject is none writes nothing.
LEMMA ServedNowhere ==
  ASSUME AccessInv, NEW p \in Person, Served(p), UNCHANGED <<existing, standing, link>>
  PROVE  AccessInv' /\ OwnersStep
BY QuietStep, ServedStep DEF AccessInv, LinkRowsOK

LEMMA LinkUserStep ==
  ASSUME AccessInv, NEW p \in Person, NEW q \in Person, NEW row \in LinkRow, LinkUser(p, q, row)
  PROVE  AccessInv' /\ OwnersStep
<1>0. PICK s : s = request[p]
  OBVIOUS
<1>1. /\ Served(p) /\ UNCHANGED <<existing, standing>>
      /\ row.role \in Grantable(p, s) /\ standing[q] # "none" /\ link[q][s] = None
      /\ link' = [link EXCEPT ![q][s] = Normalised(row)]
  BY <1>0 DEF LinkUser
<1>2. CASE s \notin SubjectId
  BY <1>1, <1>2, NoSubject, ServedNowhere DEF AccessInv
<1>3. CASE s \in SubjectId
  <2>1. /\ SubjectHasOwner'
        /\ \A z \in existing \ {s} : Owners(z)' = Owners(z)
        /\ row.role # "owner" => Owners(s)' = Owners(s)
    BY <1>1, <1>3, NewLink
  <2>2. row.role = "owner" => p \in Owners(s)
    BY <1>1, GrantByOwner
  <2>3. OwnersStep
    BY <1>1, <2>1, <2>2, ServedStep DEF OwnersStep
  <2>4. LinkRowsOK' /\ StrangersOK'
    BY <1>1, <1>3, NormalisedType, ServedWrite
  <2> QED
    BY <2>1, <2>3, <2>4 DEF AccessInv
<1> QED
  BY <1>2, <1>3

\* The change and the removal of a link: an owner goes only by an owner's hand and
\* only while there is another one.
LEMMA ChangedLink ==
  ASSUME AccessInv, NEW p \in Person, Served(p), NEW q \in Person, NEW s \in SubjectId,
         NEW new \in LinkRow \cup {None}, link[q][s] # None,
         Manages(p, s, q), new # None => new.role \in Grantable(p, s),
         Role(q, s) = "owner" /\ (new = None \/ new.role # "owner") => ~LastOwner(s),
         UNCHANGED <<existing, standing>>, link' = [link EXCEPT ![q][s] = new]
  PROVE  AccessInv' /\ OwnersStep
<1>1. LinkRowsOK /\ standing[q] # "none"
  BY DEF AccessInv, StrangersOK
<1>2. LinkRowsOK' /\ StrangersOK'
  BY <1>1, ServedWrite
<1>3. /\ \A z \in SubjectId \ {s} : Owners(z)' = Owners(z)
      /\ new # None /\ new.role = "owner" => Owners(s)' = Owners(s) \cup {q}
      /\ new = None \/ new.role # "owner" => Owners(s)' = Owners(s) \ {q}
  <2>1. ASSUME NEW z \in SubjectId \ {s} PROVE Owners(z)' = Owners(z)
    <3>1. new \in LinkRow \cup {None}
      OBVIOUS
    <3> QED BY <1>1, <3>1, OwnersAfter
  <2>2. new # None /\ new.role = "owner" => Owners(s)' = Owners(s) \cup {q}
    BY <1>1, OwnersAfter
  <2>3. new = None \/ new.role # "owner" => Owners(s)' = Owners(s) \ {q}
    BY <1>1, OwnersAfter
  <2> QED BY <2>1, <2>2, <2>3
<1>4. q \in Owners(s) => Role(q, s) = "owner"
  BY DEF Owners
<1>5. s \in existing => Owners(s)' # {}
  <2>1. CASE new # None /\ new.role = "owner"
    BY <1>3, <2>1
  <2>2. CASE (new = None \/ new.role # "owner") /\ q \in Owners(s)
    BY <1>3, <1>4, <2>2, AnotherOwner
  <2>3. CASE (new = None \/ new.role # "owner") /\ q \notin Owners(s)
    BY <1>3, <2>3 DEF AccessInv, SubjectHasOwner
  <2> QED
    BY <2>1, <2>2, <2>3
<1>6. SubjectHasOwner'
  BY <1>1, <1>3, <1>5 DEF AccessInv, SubjectHasOwner, LinkRowsOK
<1>7. Owners(s)' # Owners(s) => p \in Owners(s)
  <2>1. CASE new # None /\ new.role = "owner"
    BY <2>1, GrantByOwner
  <2>2. CASE (new = None \/ new.role # "owner") /\ q \in Owners(s)
    BY <2>2, TouchedByOwner
  <2>3. CASE (new = None \/ new.role # "owner") /\ q \notin Owners(s)
    BY <1>3, <2>3
  <2> QED
    BY <2>1, <2>2, <2>3
<1>8. OwnersStep
  BY <1>1, <1>3, <1>7, ServedStep DEF OwnersStep, LinkRowsOK
<1> QED
  BY <1>2, <1>6, <1>8 DEF AccessInv

LEMMA UpdateAccessStep ==
  ASSUME AccessInv, NEW p \in Person, NEW q \in Person, NEW row \in LinkRow, UpdateAccess(p, q, row)
  PROVE  AccessInv' /\ OwnersStep
<1>0. PICK s : s = request[p]
  OBVIOUS
<1>1. PICK new \in LinkRow : new = Normalised(row) /\ new.role = row.role
  BY NormalisedType
<1>2. /\ Served(p) /\ UNCHANGED <<existing, standing>>
      /\ link[q][s] # None /\ Manages(p, s, q) /\ row.role \in Grantable(p, s)
      /\ Role(q, s) = "owner" /\ row.role # "owner" => ~LastOwner(s)
      /\ link' = [link EXCEPT ![q][s] = new]
  BY <1>0, <1>1 DEF UpdateAccess
<1>3. new # None
  BY NoneIsNoLink
<1>4. CASE s \notin SubjectId
  BY <1>2, <1>4, NoSubject, ServedNowhere DEF AccessInv
<1>5. CASE s \in SubjectId
  BY <1>1, <1>2, <1>3, <1>5, ChangedLink
<1> QED
  BY <1>4, <1>5

LEMMA DeleteAccessStep ==
  ASSUME AccessInv, NEW p \in Person, NEW q \in Person, DeleteAccess(p, q)
  PROVE  AccessInv' /\ OwnersStep
<1>0. PICK s : s = request[p]
  OBVIOUS
<1>1. /\ Served(p) /\ UNCHANGED <<existing, standing>>
      /\ link[q][s] # None /\ Manages(p, s, q)
      /\ Role(q, s) = "owner" => ~LastOwner(s)
      /\ link' = [link EXCEPT ![q][s] = None]
  BY <1>0 DEF DeleteAccess
<1>2. CASE s \notin SubjectId
  BY <1>1, <1>2, NoSubject, ServedNowhere DEF AccessInv
<1>3. CASE s \in SubjectId
  BY <1>1, <1>3, ChangedLink
<1> QED
  BY <1>2, <1>3

LEMMA AccessNextInv == AccessInv /\ [AccessNext]_accessVars => AccessInv' /\ OwnersStep
<1> SUFFICES ASSUME AccessInv, [AccessNext]_accessVars PROVE AccessInv' /\ OwnersStep
  OBVIOUS
<1>1. CASE UNCHANGED accessVars
  BY <1>1, QuietStep DEF accessVars, AccessInv, LinkRowsOK
<1>2. ASSUME NEW p \in Person, LogIn(p) \/ LogOut(p) \/ ShowPage(p)
      PROVE  AccessInv' /\ OwnersStep
  <2>1. UNCHANGED <<existing, link, standing, request>>
    BY <1>2 DEF LogIn, LogOut, ShowPage
  <2> QED
    BY <2>1, QuietStep DEF AccessInv, LinkRowsOK
<1>3. ASSUME NEW p \in Person, Admit(p) PROVE AccessInv' /\ OwnersStep
  <2>1. /\ UNCHANGED <<existing, link, standing>> /\ standing[p] = "active"
        /\ request' = [request EXCEPT ![p] = at[p]]
    BY <1>3 DEF Admit
  <2>2. DOMAIN request' = Person
    BY <2>1 DEF AccessInv, LinkRowsOK
  <2>3. ASSUME NEW q \in Person, standing'[q] = "none"
        PROVE  standing[q] = "none" /\ request'[q] \in {request[q], None}
    BY <2>1, <2>3 DEF AccessInv, LinkRowsOK
  <2> QED
    BY <2>1, <2>2, <2>3, QuietStep DEF AccessInv, LinkRowsOK
<1>4. ASSUME NEW p \in Person, NEW s \in SubjectId,
             Refuse(p) \/ FollowBank(p) \/ SwitchSubject(p, s)
      PROVE  AccessInv' /\ OwnersStep
  <2>1. Served(p) /\ UNCHANGED <<existing, standing, link>>
    BY <1>4 DEF Refuse, FollowBank, SwitchSubject
  <2> QED
    BY <2>1, ServedNowhere
<1>5. ASSUME NEW p \in Person, CancelAccount(p) PROVE AccessInv' /\ OwnersStep
  <2>1. /\ Served(p) /\ UNCHANGED <<existing, link>>
        /\ standing' = [standing EXCEPT ![p] = "cancelled"]
    BY <1>5 DEF CancelAccount
  <2>2. DOMAIN standing' = Person
    BY <2>1 DEF AccessInv, LinkRowsOK
  <2>3. ASSUME NEW q \in Person, standing'[q] = "none"
        PROVE  standing[q] = "none" /\ request'[q] \in {request[q], None}
    BY <2>1, <2>3, ServedStep DEF AccessInv, LinkRowsOK
  <2> QED
    BY <2>1, <2>2, <2>3, ServedStep, QuietStep
<1> QED
  BY <1>1, <1>2, <1>3, <1>4, <1>5, CreateSubjectStep, SignUpStep, CreateUserStep, LinkUserStep,
     UpdateAccessStep, DeleteAccessStep, SubjectAccessAssumption
  DEF AccessNext

-----------------------------------------------------------------------------
(* Where the sessions are *)

SessionTypes ==
  /\ followed \subseteq existing
  /\ standing \in [Person -> {"none", "active", "cancelled"}]
  /\ at \in [Person -> SubjectId \cup {None}] /\ request \in [Person -> SubjectId \cup {None}]
  /\ accesses \in 0 .. MaxAccesses

LEMMA LeastSubject ==
  ASSUME NEW S, S \subseteq SubjectId, S # {}
  PROVE  Min(S) \in SubjectId
<1>1. \E x \in S : \A y \in S : x <= y
  BY SubjectAccessAssumption, LeastExists
<1>2. Min(S) \in S
  BY <1>1 DEF Min
<1> QED
  BY <1>2

LEMMA RefreshedType ==
  ASSUME SessionTypes, NEW p \in Person, NEW links, NEW preferred
  PROVE  RefreshedAt(links, p, preferred) \in SubjectId \cup {None}
<1>1. PICK open : open = Viewable(links, p)
  OBVIOUS
<1>2. open \subseteq SubjectId
  BY <1>1 DEF Viewable
<1>3. open # {} => Min(open) \in SubjectId
  BY <1>2, LeastSubject
<1>4. at[p] \in SubjectId \cup {None}
  BY DEF SessionTypes
<1> QED
  BY <1>1, <1>2, <1>3, <1>4 DEF RefreshedAt

\* The step of a handler: its request is served, and its session may move.
LEMMA ServedTypes ==
  ASSUME SessionTypes, NEW p \in Person, Served(p), existing \subseteq existing',
         followed' \subseteq existing', standing' \in [Person -> {"none", "active", "cancelled"}],
         \/ UNCHANGED at
         \/ \E s \in SubjectId \cup {None} : at' = [at EXCEPT ![p] = s]
  PROVE  SessionTypes'
BY DEF SessionTypes, Served

LEMMA SessionTypesStep == SessionTypes /\ [AccessNext]_accessVars => SessionTypes'
<1> SUFFICES ASSUME SessionTypes, [AccessNext]_accessVars PROVE SessionTypes'
  OBVIOUS
<1>0. 1 \in SubjectId
  BY SubjectAccessAssumption
<1>1. CASE UNCHANGED accessVars
  BY <1>1 DEF accessVars, SessionTypes
<1>2. ASSUME NEW p \in Person, LogIn(p) PROVE SessionTypes'
  <2>1. PICK linked : linked = {s \in SubjectId : link[p][s] # None}
    OBVIOUS
  <2>2. PICK open : open = Viewable(link, p)
    OBVIOUS
  <2>3. linked \subseteq SubjectId /\ open \subseteq SubjectId
    BY <2>1, <2>2 DEF Viewable
  <2>4. (IF open # {} THEN Min(open) ELSE IF linked # {} THEN Min(linked) ELSE 1) \in SubjectId
    BY <1>0, <2>3, LeastSubject
  <2>5. at' = [at EXCEPT ![p] = IF open # {} THEN Min(open)
                                ELSE IF linked # {} THEN Min(linked) ELSE 1]
    BY <1>2, <2>1, <2>2 DEF LogIn
  <2> QED
    BY <1>2, <2>4, <2>5 DEF LogIn, SessionTypes
<1>3. ASSUME NEW p \in Person, LogOut(p) \/ ShowPage(p) PROVE SessionTypes'
  BY <1>3, RefreshedType DEF LogOut, ShowPage, SessionTypes
<1>4. ASSUME NEW p \in Person, Admit(p) PROVE SessionTypes'
  BY <1>4, SubjectAccessAssumption DEF Admit, SessionTypes
<1>5. ASSUME NEW p \in Person, NEW s \in SubjectId, Refuse(p) \/ SwitchSubject(p, s)
      PROVE  SessionTypes'
  <2>1. Served(p) /\ UNCHANGED <<existing, followed, standing>>
        /\ (UNCHANGED at \/ at' = [at EXCEPT ![p] = s])
    BY <1>5 DEF Refuse, SwitchSubject
  <2> QED
    BY <2>1, ServedTypes DEF SessionTypes
<1>6. ASSUME NEW p \in Person, NEW s \in SubjectId, NEW switch \in BOOLEAN, CreateSubject(p, s, switch)
      PROVE  SessionTypes'
  <2>1. (IF switch THEN s ELSE RefreshedAt(link', p, None)) \in SubjectId \cup {None}
    BY RefreshedType
  <2>2. Served(p) /\ existing' = existing \cup {s} /\ UNCHANGED <<standing, followed>>
    BY <1>6 DEF CreateSubject
  <2>3. at' = [at EXCEPT ![p] = IF switch THEN s ELSE RefreshedAt(link', p, None)]
    BY <1>6 DEF CreateSubject
  <2> QED
    BY <2>1, <2>2, <2>3, ServedTypes DEF SessionTypes
<1>7. ASSUME NEW p \in Person, NEW s \in SubjectId, SignUp(p, s) PROVE SessionTypes'
  BY <1>7 DEF SignUp, SessionTypes
<1>8. ASSUME NEW p \in Person, NEW s \in SubjectId, NEW q \in Person, NEW row \in LinkRow,
             CreateUser(p, s, q, row) \/ LinkUser(p, q, row)
      PROVE  SessionTypes'
  <2>1. RefreshedAt(link', p, None) \in SubjectId \cup {None}
    BY RefreshedType
  <2>2. Served(p) /\ UNCHANGED <<existing, followed>>
        /\ at' = [at EXCEPT ![p] = RefreshedAt(link', p, None)]
    BY <1>8 DEF CreateUser, LinkUser
  <2>3. standing' \in [Person -> {"none", "active", "cancelled"}]
    BY <1>8 DEF CreateUser, LinkUser, SessionTypes
  <2> QED
    BY <2>1, <2>2, <2>3, ServedTypes DEF SessionTypes
<1>9. ASSUME NEW p \in Person, NEW q \in Person, NEW row \in LinkRow,
             DeleteAccess(p, q) \/ UpdateAccess(p, q, row)
      PROVE  SessionTypes'
  <2>1. PICK preferred : at' = [at EXCEPT ![p] = RefreshedAt(link', p, preferred)]
    BY <1>9 DEF DeleteAccess, UpdateAccess
  <2>2. RefreshedAt(link', p, preferred) \in SubjectId \cup {None}
    BY RefreshedType
  <2>3. Served(p) /\ UNCHANGED <<existing, followed, standing>>
    BY <1>9 DEF DeleteAccess, UpdateAccess
  <2> QED
    BY <2>1, <2>2, <2>3, ServedTypes DEF SessionTypes
<1>10. ASSUME NEW p \in Person, FollowBank(p) PROVE SessionTypes'
  BY <1>10, ServedTypes DEF FollowBank, SessionTypes
<1>11. ASSUME NEW p \in Person, CancelAccount(p) PROVE SessionTypes'
  <2>1. standing' \in [Person -> {"none", "active", "cancelled"}]
    BY <1>11 DEF CancelAccount, SessionTypes
  <2>2. followed' \subseteq existing' /\ existing' = existing
    BY <1>11 DEF CancelAccount, SessionTypes
  <2> QED
    BY <1>11, <2>1, <2>2, ServedTypes DEF CancelAccount
<1>12. ASSUME NEW p \in Person, Refuse(p) PROVE SessionTypes'
  BY <1>0, <1>5, <1>12
<1>13. ASSUME NEW p \in Person, NEW q \in Person, NEW row \in LinkRow, LinkUser(p, q, row)
       PROVE  SessionTypes'
  BY <1>0, <1>8, <1>13
<1>14. CASE AccessNext
  <2>1. PICK p \in Person :
          \/ LogIn(p) \/ LogOut(p) \/ ShowPage(p) \/ Admit(p) \/ Refuse(p)
          \/ FollowBank(p) \/ CancelAccount(p)
          \/ \E s \in SubjectId :
               \/ SwitchSubject(p, s) \/ SignUp(p, s)
               \/ \E switch \in BOOLEAN : CreateSubject(p, s, switch)
               \/ \E q \in Person, row \in LinkRow : CreateUser(p, s, q, row)
          \/ \E q \in Person :
               \/ DeleteAccess(p, q)
               \/ \E row \in LinkRow : LinkUser(p, q, row) \/ UpdateAccess(p, q, row)
    BY <1>14 DEF AccessNext
  <2>2. ASSUME NEW s \in SubjectId,
               \/ SwitchSubject(p, s) \/ SignUp(p, s)
               \/ \E switch \in BOOLEAN : CreateSubject(p, s, switch)
               \/ \E q \in Person, row \in LinkRow : CreateUser(p, s, q, row)
        PROVE  SessionTypes'
    BY <2>2, <1>5, <1>6, <1>7, <1>8
  <2>3. ASSUME NEW q \in Person,
               \/ DeleteAccess(p, q)
               \/ \E row \in LinkRow : LinkUser(p, q, row) \/ UpdateAccess(p, q, row)
        PROVE  SessionTypes'
    BY <2>3, <1>9, <1>13, OwnerRowType
  <2> QED
    BY <2>1, <2>2, <2>3, <1>2, <1>3, <1>4, <1>10, <1>11, <1>12
<1> QED
  BY <1>1, <1>14

-----------------------------------------------------------------------------
(* The theorems *)

\* Whatever owners and managers take from each other and from themselves, a subject
\* keeps an owner (settings_subject_user_update, settings_subject_user_delete).
THEOREM OwnerStays == AccessSpec => []SubjectHasOwner
<1>1. AccessInv => SubjectHasOwner
  BY DEF AccessInv
<1> QED
  BY <1>1, AccessInitInv, AccessNextInv, PTL DEF AccessSpec

\* Subjects, links and sessions stay within their types; only a subject that exists has
\* a bank account that is synchronised (fakturek/models.py, settings_account_edit).
THEOREM SubjectAccessTypeCorrect == AccessSpec => []SubjectAccessTypeOK
<1>1. AccessInit => SessionTypes
  <2> SUFFICES ASSUME AccessInit PROVE SessionTypes
    OBVIOUS
  <2>1. standing \in [Person -> {"none", "active", "cancelled"}]
    BY DEF AccessInit
  <2> QED
    BY <2>1, SubjectAccessAssumption DEF AccessInit, SessionTypes
<1>2. AccessInv /\ SessionTypes => SubjectAccessTypeOK
  BY DEF AccessInv, LinkRowsOK, SessionTypes, SubjectAccessTypeOK
<1> QED
  BY <1>1, <1>2, AccessInitInv, AccessNextInv, SessionTypesStep, PTL DEF AccessSpec

\* Who owns a subject is changed by a request of an owner only
\* (_user_can_manage_subject_link, _subject_user_role_options).
THEOREM OwnersOnlyByOwners == AccessSpec => OwnersMakeOwners
<1>1. AccessInv /\ [AccessNext]_accessVars =>
        [\A s \in existing : Owners(s)' # Owners(s) =>
           \E p \in Owners(s) : request[p] # None /\ request'[p] = None]_accessVars
  BY AccessNextInv DEF OwnersStep
<1> QED
  BY <1>1, AccessInitInv, AccessNextInv, PTL DEF AccessSpec, OwnersMakeOwners

-----------------------------------------------------------------------------
(***************************************************************************)
(* ApiCalls: calls with one Idempotency-Key have one effect.               *)
(***************************************************************************)

(* What is kept under the keys *)

CallsOK ==
  /\ usage \in [ApiToken -> Nat \cup {None}]
  /\ call \in [Caller -> Serving \cup {None}]

EffectsOK ==
  /\ effects \subseteq Effect /\ IsFiniteSet(effects)
  /\ DOMAIN kept = IdemKey
  /\ \A k \in IdemKey : kept[k] # None => kept[k] \in effects /\ kept[k].key = k
  /\ \A e \in effects : e.key # None => kept[e.key] = e

AnswersOK ==
  \A a \in answers : a.answer \in effects /\ a.answer.key = a.key /\ a.answer.body = a.body

(* What is done besides: by runs and mails only. *)
TriedOK == tried \subseteq Attempt /\ \A a \in tried : KindOf[a.key] # "write"

ApiInv == CallsOK /\ EffectsOK /\ AnswersOK /\ TriedOK

LEMMA ApiInitInv == ApiInit => ApiInv
BY FS_EmptySet DEF ApiInit, ApiInv, CallsOK, EffectsOK, AnswersOK, TriedOK

\* An account that is synchronised, a mail that leaves or fails: a call with a key, and
\* not of the kind whose effect and answer are one.
LEMMA TriesInv ==
  ASSUME ApiInv, NEW w \in Caller, SyncAccount(w) \/ MailOfCall(w)
  PROVE  /\ ApiInv' /\ UNCHANGED <<usage, effects, answers, kept>>
         /\ \E a \in Attempt : /\ KindOf[a.key] # "write"
                              /\ tried' = tried \cup {[key |-> a.key, body |-> a.body]}
<1>0. call \in [Caller -> Serving \cup {None}] /\ call[w] \in Serving
  BY DEF SyncAccount, MailOfCall, ApiInv, CallsOK
<1>1. PICK sent \in Sent : sent = call[w].sent
  BY <1>0 DEF Serving
<1>2. Kind(sent) # "write" /\ tried' = tried \cup {[key |-> sent.key, body |-> sent.body]}
  BY <1>1 DEF SyncAccount, MailOfCall, Tries
<1>3. sent.key \in IdemKey /\ sent.body \in Body /\ KindOf[sent.key] # "write"
  BY <1>1, <1>2 DEF Kind, Sent
<1>4. PICK a : a = [key |-> sent.key, body |-> sent.body]
  OBVIOUS
<1>5. a \in Attempt /\ a.key = sent.key /\ a.body = sent.body
  BY <1>3, <1>4 DEF Attempt
<1>6. TriedOK'
  BY <1>2, <1>3, <1>4, <1>5 DEF ApiInv, TriedOK
<1>7. UNCHANGED <<usage, effects, answers, kept>>
  BY DEF SyncAccount, MailOfCall
<1>8. CallsOK'
  <2>1. [call[w] EXCEPT !.step = "mailed"] \in Serving
    BY <1>0 DEF Serving
  <2>2. \/ call' = call \/ call' = [call EXCEPT ![w] = None]
        \/ call' = [call EXCEPT ![w].step = "mailed"]
    BY DEF SyncAccount, MailOfCall
  <2> QED
    BY <1>0, <1>7, <2>1, <2>2 DEF ApiInv, CallsOK
<1>9. EffectsOK' /\ AnswersOK'
  BY <1>7 DEF ApiInv, EffectsOK, AnswersOK
<1> QED
  BY <1>2, <1>3, <1>5, <1>6, <1>7, <1>8, <1>9 DEF ApiInv

\* The commit: the unique key has nothing under the key of the call.
LEMMA ApiCommitInv ==
  ASSUME ApiInv, NEW w \in Caller, CommitCall(w)
  PROVE  ApiInv'
<1> DEFINE sent == call[w].sent
           effect == [key |-> sent.key, body |-> sent.body, nth |-> Cardinality(effects) + 1]
<1>1. sent \in Sent
  BY DEF CommitCall, ApiInv, CallsOK, Serving
<1>2. effect \in Effect
  <2>1. Cardinality(effects) \in Nat
    BY FS_CardinalityType DEF ApiInv, EffectsOK
  <2>2. Cardinality(effects) + 1 \in 1 .. MaxEffects
    BY <2>1, ApiCallsAssumption DEF CommitCall
  <2> QED
    BY <1>1, <2>2 DEF Effect, Sent
<1>3. effect # None
  BY <1>2, NoneIsNoEffect
<1>4. sent.key = None \/ (sent.key \in IdemKey /\ kept[sent.key] = None)
  BY <1>1 DEF CommitCall, KeyTaken, Sent
<1>5. /\ UNCHANGED usage
      /\ effects' = effects \cup {effect}
      /\ kept' = [k \in IdemKey |-> IF k = sent.key THEN effect ELSE kept[k]]
      /\ answers' = Answered(sent, effect)
      /\ call' = [call EXCEPT ![w] = None]
  BY DEF CommitCall
<1> HIDE DEF sent, effect
<1>6. effect.key = sent.key /\ effect.body = sent.body
  BY DEF effect
<1>7. CallsOK'
  BY <1>5 DEF ApiInv, CallsOK
<1>8. EffectsOK'
  <2>1. effects' \subseteq Effect /\ IsFiniteSet(effects')
    BY <1>2, <1>5, FS_AddElement DEF ApiInv, EffectsOK
  <2>2. ASSUME NEW k \in IdemKey, kept'[k] # None
        PROVE  kept'[k] \in effects' /\ kept'[k].key = k
    BY <1>5, <1>6, <2>2 DEF ApiInv, EffectsOK
  <2>3. ASSUME NEW e \in effects', e.key # None
        PROVE  kept'[e.key] = e
    <3>1. CASE e = effect
      BY <1>4, <1>5, <1>6, <2>3, <3>1
    <3>2. CASE e # effect
      <4>1. e \in effects /\ kept[e.key] = e
        BY <1>5, <2>3, <3>2 DEF ApiInv, EffectsOK
      <4>2. e.key \in IdemKey
        BY <4>1, <2>3 DEF ApiInv, EffectsOK, Effect
      <4>3. e # None
        BY <4>1, NoneIsNoEffect DEF ApiInv, EffectsOK
      <4> QED
        BY <1>4, <1>5, <2>3, <4>1, <4>2, <4>3
    <3> QED
      BY <3>1, <3>2
  <2> QED
    BY <1>5, <2>1, <2>2, <2>3 DEF EffectsOK
<1>9. AnswersOK'
  BY <1>5, <1>6 DEF Answered, ApiInv, AnswersOK
<1>10. TriedOK'
  BY DEF CommitCall, ApiInv, TriedOK
<1> QED
  BY <1>7, <1>8, <1>9, <1>10 DEF ApiInv

\* The replay: what is found under a key is an effect of that key.
LEMMA OpenInv ==
  ASSUME ApiInv, NEW w \in Caller, OpenCall(w)
  PROVE  ApiInv'
<1>1. call[w] \in Serving /\ call[w].sent \in Sent
  BY DEF OpenCall, ApiInv, CallsOK, Serving
<1>2. CallsOK'
  <2>1. [call[w] EXCEPT !.step = "working"] \in Serving
    BY <1>1 DEF Serving
  <2> QED
    BY <2>1 DEF OpenCall, ApiInv, CallsOK
<1>3. EffectsOK'
  BY DEF OpenCall, ApiInv, EffectsOK
<1>4. AnswersOK'
  <2> DEFINE sent == call[w].sent
  <2>1. CASE UNCHANGED answers
    BY <2>1 DEF OpenCall, ApiInv, AnswersOK
  <2>2. CASE Kept(sent) # None /\ Kept(sent).body = sent.body /\ answers' = Answered(sent, Kept(sent))
    <3>1. CASE sent.key = None
      BY <2>2, <3>1 DEF OpenCall, Answered, ApiInv, AnswersOK
    <3>2. CASE sent.key # None
      <4>1. sent.key \in IdemKey /\ Kept(sent) = kept[sent.key]
        BY <1>1, <3>2 DEF Sent, Kept
      <4>2. Kept(sent) \in effects /\ Kept(sent).key = sent.key
        BY <2>2, <4>1 DEF ApiInv, EffectsOK
      <4> HIDE DEF sent
      <4> QED
        BY <2>2, <3>2, <4>2 DEF OpenCall, Answered, ApiInv, AnswersOK
    <3> QED
      BY <3>1, <3>2
  <2> QED
    BY <2>1, <2>2 DEF OpenCall
<1>5. TriedOK'
  BY DEF OpenCall, ApiInv, TriedOK
<1> QED
  BY <1>2, <1>3, <1>4, <1>5 DEF ApiInv

LEMMA ApiNextInv == ApiInv /\ [ApiNext]_apiVars => ApiInv'
<1> SUFFICES ASSUME ApiInv, [ApiNext]_apiVars PROVE ApiInv'
  OBVIOUS
<1>1. CASE UNCHANGED <<usage, call, kept, effects, tried, answers>>
  BY <1>1 DEF ApiInv, CallsOK, EffectsOK, AnswersOK, TriedOK
<1>2. ASSUME NEW w \in Caller, NEW sent \in Sent, Authorise(w, sent) PROVE ApiInv'
  <2>1. [step |-> "counted", sent |-> sent, used |-> usage[sent.token]] \in Serving
    <3>1. usage[sent.token] \in (0 .. Quota) \cup {None}
      BY <1>2, ApiCallsAssumption DEF Authorise, ApiInv, CallsOK, Sent
    <3> QED
      BY <3>1 DEF Serving
  <2>2. CallsOK'
    BY <1>2, <2>1 DEF Authorise, ApiInv, CallsOK
  <2>3. EffectsOK' /\ AnswersOK' /\ TriedOK'
    BY <1>2 DEF Authorise, ApiInv, EffectsOK, AnswersOK, TriedOK
  <2> QED
    BY <2>2, <2>3 DEF ApiInv
<1>3. ASSUME NEW w \in Caller, CountCall(w) PROVE ApiInv'
  <2>1. CallsOK'
    <3>1. call[w] \in Serving
      BY <1>3 DEF CountCall, ApiInv, CallsOK
    <3>2. [call[w] EXCEPT !.step = "opened"] \in Serving
      BY <3>1 DEF Serving
    <3>3. call' \in [Caller -> Serving \cup {None}]
      BY <1>3, <3>2 DEF CountCall, ApiInv, CallsOK
    <3>4. call[w].used \in Nat \cup {None}
      BY <3>1, ApiCallsAssumption DEF Serving
    <3>5. (IF call[w].used = None THEN 1 ELSE call[w].used + 1) \in Nat
      BY <3>4
    <3>6. usage' \in [ApiToken -> Nat \cup {None}]
      BY <1>3, <3>5 DEF CountCall, ApiInv, CallsOK
    <3> QED
      BY <3>3, <3>6 DEF CallsOK
  <2>2. EffectsOK' /\ AnswersOK' /\ TriedOK'
    BY <1>3 DEF CountCall, ApiInv, EffectsOK, AnswersOK, TriedOK
  <2> QED
    BY <2>1, <2>2 DEF ApiInv
<1>4. ASSUME NEW w \in Caller, DropCall(w) PROVE ApiInv'
  BY <1>4 DEF DropCall, ApiInv, CallsOK, EffectsOK, AnswersOK, TriedOK
<1> QED
  BY <1>1, <1>2, <1>3, <1>4, OpenInv, TriesInv, ApiCommitInv
  DEF ApiNext, apiVars, RevokeToken, CreateToken, ChangeRights

LEMMA InvOneEffect == ApiInv => OneEffectPerKey
BY DEF ApiInv, EffectsOK, AnswersOK, TriedOK, OneEffectPerKey

\* However calls with one key overlap, fail and are repeated, one answer is kept, with
\* what was committed beside it, and everybody is told that one, for the body it was
\* made of; and nothing else happens under the key, unless it stands for a run over
\* all accounts or a mail: the answer is kept in the last transaction of the call and
\* under a unique key (_remember_idempotent_response, api_idempotency_keys).
THEOREM OneEffect == ApiSpec => []OneEffectPerKey
<1>1. ApiInit => ApiInv
  BY ApiInitInv
<1>2. ApiInv /\ [ApiNext]_apiVars => ApiInv'
  BY ApiNextInv
<1> QED
  BY <1>1, <1>2, InvOneEffect, PTL DEF ApiSpec

(* The quota of the month: a call that is let in has read a count below it, and
   writes that count plus one, however many others do the same. *)
ApiTypes ==
  /\ usable \subseteq ApiToken /\ right \in Rights
  /\ usage \in [ApiToken -> (0 .. Quota) \cup {None}]
  /\ answers \subseteq [key : IdemKey, body : Body, answer : Effect]
  /\ grants \in 0 .. MaxGrants

AdmittedBelow ==
  \A w \in Caller : call[w] # None /\ call[w].step = "counted" =>
    call[w].used \in (0 .. Quota - 1) \cup {None}

LEMMA AnsweredType ==
  ASSUME NEW sent \in Sent, NEW effect \in Effect,
         answers \subseteq [key : IdemKey, body : Body, answer : Effect]
  PROVE  Answered(sent, effect) \subseteq [key : IdemKey, body : Body, answer : Effect]
<1>1. CASE sent.key = None
  BY <1>1 DEF Answered
<1>2. CASE sent.key # None
  <2>1. [key |-> sent.key, body |-> sent.body, answer |-> effect]
          \in [key : IdemKey, body : Body, answer : Effect]
    BY <1>2 DEF Sent
  <2> QED
    BY <1>2, <2>1 DEF Answered
<1> QED
  BY <1>1, <1>2

LEMMA ApiTypesStep ==
  ApiInv /\ ApiTypes /\ AdmittedBelow /\ [ApiNext]_apiVars => ApiTypes' /\ AdmittedBelow'
<1> SUFFICES ASSUME ApiInv, ApiTypes, AdmittedBelow, [ApiNext]_apiVars
             PROVE  ApiTypes' /\ AdmittedBelow'
  OBVIOUS
<1>0. /\ Quota \in Nat /\ Quota > 0 /\ MaxGrants \in Nat
      /\ call \in [Caller -> Serving \cup {None}]
  BY ApiCallsAssumption DEF ApiInv, CallsOK
<1>1. CASE UNCHANGED apiVars
  BY <1>1 DEF apiVars, ApiTypes, AdmittedBelow
<1>2. ASSUME NEW t \in ApiToken, RevokeToken(t) \/ CreateToken(t) PROVE ApiTypes' /\ AdmittedBelow'
  BY <1>0, <1>2 DEF RevokeToken, CreateToken, ApiTypes, AdmittedBelow
<1>3. ASSUME NEW r \in Rights, ChangeRights(r) PROVE ApiTypes' /\ AdmittedBelow'
  BY <1>0, <1>3 DEF ChangeRights, ApiTypes, AdmittedBelow
<1>4. ASSUME NEW w \in Caller, NEW sent \in Sent, Authorise(w, sent) PROVE ApiTypes' /\ AdmittedBelow'
  <2>1. usage[sent.token] \in (0 .. Quota - 1) \cup {None}
    BY <1>0, <1>4 DEF Authorise, ApiTypes, Sent
  <2>2. AdmittedBelow'
    BY <1>0, <1>4, <2>1 DEF Authorise, AdmittedBelow
  <2> QED
    BY <1>4, <2>2 DEF Authorise, ApiTypes
<1>5. ASSUME NEW w \in Caller, CountCall(w) PROVE ApiTypes' /\ AdmittedBelow'
  <2>1. PICK u \in (0 .. Quota - 1) \cup {None} : u = call[w].used
    BY <1>5 DEF CountCall, AdmittedBelow
  <2>2. (IF u = None THEN 1 ELSE u + 1) \in 0 .. Quota
    BY <1>0, <2>1
  <2>3. usage' \in [ApiToken -> (0 .. Quota) \cup {None}]
    BY <1>5, <2>1, <2>2 DEF CountCall, ApiTypes
  <2>4. ApiTypes'
    BY <1>5, <2>3 DEF CountCall, ApiTypes
  <2>5. call' = [call EXCEPT ![w] = None] \/ call' = [call EXCEPT ![w].step = "opened"]
    BY <1>5 DEF CountCall
  <2>6. AdmittedBelow'
    <3> SUFFICES ASSUME NEW v \in Caller, call'[v] # None, call'[v].step = "counted"
                 PROVE  call'[v].used \in (0 .. Quota - 1) \cup {None}
      BY DEF AdmittedBelow
    <3>1. call[w] \in Serving
      BY <1>0, <1>5 DEF CountCall
    <3>2. v # w
      BY <1>0, <2>5, <3>1 DEF Serving
    <3> QED
      BY <1>0, <2>5, <3>2 DEF AdmittedBelow
  <2> QED
    BY <2>4, <2>6
<1>6. ASSUME NEW w \in Caller, OpenCall(w) PROVE ApiTypes' /\ AdmittedBelow'
  <2>1. call[w] \in Serving /\ call[w].sent \in Sent
    BY <1>0, <1>6 DEF OpenCall, Serving
  <2>2. answers' \subseteq [key : IdemKey, body : Body, answer : Effect]
    <3>1. PICK found : found = Kept(call[w].sent)
      OBVIOUS
    <3>2. found # None => found \in Effect
      BY <2>1, <3>1 DEF Kept, Sent, ApiInv, EffectsOK
    <3>3. UNCHANGED answers \/ (found # None /\ answers' = Answered(call[w].sent, found))
      BY <1>6, <3>1 DEF OpenCall
    <3> QED
      BY <2>1, <3>2, <3>3, AnsweredType DEF ApiTypes
  <2>3. ApiTypes'
    BY <1>6, <2>2 DEF OpenCall, ApiTypes
  <2>4. call' = [call EXCEPT ![w] = None] \/ call' = [call EXCEPT ![w].step = "working"]
    BY <1>6 DEF OpenCall
  <2>5. AdmittedBelow'
    <3> SUFFICES ASSUME NEW v \in Caller, call'[v] # None, call'[v].step = "counted"
                 PROVE  call'[v].used \in (0 .. Quota - 1) \cup {None}
      BY DEF AdmittedBelow
    <3>1. v # w
      BY <1>0, <2>1, <2>4 DEF Serving
    <3> QED
      BY <1>0, <2>4, <3>1 DEF AdmittedBelow
  <2> QED
    BY <2>3, <2>5
<1>7. ASSUME NEW w \in Caller, CommitCall(w) PROVE ApiTypes' /\ AdmittedBelow'
  <2>1. PICK effect :
          /\ effects' = effects \cup {effect}
          /\ answers' = Answered(call[w].sent, effect)
    BY <1>7 DEF CommitCall
  <2>2. effect \in Effect
    BY <1>7, <2>1, ApiCommitInv DEF ApiInv, EffectsOK
  <2>3. call[w].sent \in Sent
    BY <1>0, <1>7 DEF CommitCall, Serving
  <2>4. ApiTypes'
    BY <1>7, <2>1, <2>2, <2>3, AnsweredType DEF CommitCall, ApiTypes
  <2> QED
    BY <1>0, <1>7, <2>4 DEF CommitCall, AdmittedBelow
<1>8. ASSUME NEW w \in Caller, DropCall(w) PROVE ApiTypes' /\ AdmittedBelow'
  BY <1>0, <1>8 DEF DropCall, ApiTypes, AdmittedBelow
<1>9. ASSUME NEW w \in Caller, SyncAccount(w) \/ MailOfCall(w) PROVE ApiTypes' /\ AdmittedBelow'
  <2>1. ApiTypes'
    BY <1>9 DEF SyncAccount, MailOfCall, ApiTypes
  <2>2. \/ call' = call \/ call' = [call EXCEPT ![w] = None]
        \/ call' = [call EXCEPT ![w].step = "mailed"]
    BY <1>9 DEF SyncAccount, MailOfCall
  <2>3. call[w] \in Serving
    BY <1>0, <1>9 DEF SyncAccount, MailOfCall
  <2>4. AdmittedBelow'
    <3> SUFFICES ASSUME NEW v \in Caller, call'[v] # None, call'[v].step = "counted"
                 PROVE  call'[v].used \in (0 .. Quota - 1) \cup {None}
      BY DEF AdmittedBelow
    <3>1. call'[v] = call[v]
      BY <1>0, <2>2, <2>3 DEF Serving
    <3> QED
      BY <3>1 DEF AdmittedBelow
  <2> QED
    BY <2>1, <2>4
<1> QED
  BY <1>1, <1>2, <1>3, <1>4, <1>5, <1>6, <1>7, <1>8, <1>9 DEF ApiNext

\* Tokens, rights, calls and answers stay within their types, and the counter of the
\* month within the quota (_require_api_actor): calls of a token that overlap lose
\* counts, they never push the counter beyond its limit.
THEOREM ApiCallsTypeCorrect == ApiSpec => []ApiCallsTypeOK
<1>1. ApiInit => ApiTypes /\ AdmittedBelow
  BY ApiCallsAssumption DEF ApiInit, ApiTypes, AdmittedBelow, Rights
<1>2. ApiInv /\ ApiTypes => ApiCallsTypeOK
  BY DEF ApiInv, CallsOK, EffectsOK, TriedOK, ApiTypes, ApiCallsTypeOK
<1> QED
  BY <1>1, <1>2, ApiInitInv, ApiNextInv, ApiTypesStep, PTL DEF ApiSpec

(* Effects are numbered in the order of their commits, so a new one is none of them:
   also calls without a key, which may send the same body again, make new effects. *)
NumberedOK == \A e \in effects : e.nth <= Cardinality(effects)

\* A commit makes an effect that is not there yet, and none under a taken key.
LEMMA CommitMakes ==
  ASSUME ApiInv, NumberedOK, NEW w \in Caller, CommitCall(w)
  PROVE  NumberedOK' /\ \E e \in Effect \ effects : Register!Make(e)
<1> DEFINE sent == call[w].sent
           e == [key |-> sent.key, body |-> sent.body, nth |-> Cardinality(effects) + 1]
<1>1. sent \in Sent
  BY DEF CommitCall, ApiInv, CallsOK, Serving
<1>2. Cardinality(effects) \in Nat /\ IsFiniteSet(effects) /\ effects \subseteq Effect
  BY FS_CardinalityType DEF ApiInv, EffectsOK
<1>3. /\ ~KeyTaken(sent)
      /\ effects' = effects \cup {e}
      /\ answers' = Answered(sent, e)
      /\ UNCHANGED tried
  BY DEF CommitCall
<1>4. e.key = sent.key /\ e.body = sent.body /\ e.nth = Cardinality(effects) + 1
  OBVIOUS
<1> HIDE DEF sent, e
<1>5. e \in Effect
  BY <1>3, ApiCommitInv DEF ApiInv, EffectsOK
<1>6. e \notin effects
  BY <1>2, <1>4 DEF NumberedOK
<1>7. ASSUME NEW f \in effects, e.key # None PROVE f.key # e.key
  <2>1. kept[e.key] = None
    BY <1>3, <1>4, <1>7 DEF KeyTaken
  <2>2. f # None
    BY <1>2, NoneIsNoEffect
  <2> QED
    BY <1>7, <2>1, <2>2 DEF ApiInv, EffectsOK
<1>8. answers' = answers \cup Register!About(e)
  BY <1>3, <1>4 DEF Answered, Register!About
<1>9. Register!Make(e)
  BY <1>3, <1>7, <1>8 DEF Register!Make
<1>10. NumberedOK'
  <2>1. Cardinality(effects') = Cardinality(effects) + 1
    BY <1>2, <1>3, <1>6, FS_AddElement
  <2>2. \A f \in effects : f.nth \in Int
    BY <1>2, ApiCallsAssumption DEF Effect
  <2> QED
    BY <1>2, <1>3, <1>4, <2>1, <2>2 DEF NumberedOK
<1> QED
  BY <1>5, <1>6, <1>9, <1>10

\* A replay repeats the answer of an effect that was made, or says nothing.
LEMMA OpenRepeats ==
  ASSUME ApiInv, NEW w \in Caller, OpenCall(w)
  PROVE  UNCHANGED <<effects, tried, answers>> \/ \E e \in effects : Register!Repeat(e)
<1>1. PICK sent \in Sent : sent = call[w].sent
  BY DEF OpenCall, ApiInv, CallsOK, Serving
<1>2. PICK found : found = Kept(sent)
  OBVIOUS
<1>3. /\ UNCHANGED <<effects, tried>>
      /\ \/ UNCHANGED answers
         \/ found # None /\ found.body = sent.body /\ answers' = Answered(sent, found)
  BY <1>1, <1>2 DEF OpenCall
<1>4. CASE UNCHANGED answers
  BY <1>3, <1>4
<1>5. CASE found # None /\ found.body = sent.body /\ answers' = Answered(sent, found)
  <2>1. sent.key # None /\ sent.key \in IdemKey /\ found = kept[sent.key]
    BY <1>1, <1>2, <1>5 DEF Kept, Sent
  <2>2. found \in effects /\ found.key = sent.key
    BY <1>5, <2>1 DEF ApiInv, EffectsOK
  <2>3. Register!Repeat(found)
    BY <1>3, <1>5, <2>1, <2>2 DEF Answered, Register!Repeat, Register!About
  <2> QED
    BY <2>2, <2>3
<1> QED
  BY <1>3, <1>4, <1>5

\* What is tried may be tried: it is none of the keys that have one effect only.
LEMMA TriesMayBe ==
  ASSUME ApiInv, NEW w \in Caller, SyncAccount(w) \/ MailOfCall(w)
  PROVE  UNCHANGED <<effects, answers>> /\ \E e \in Effect : Register!Try(e)
<1>1. PICK a \in Attempt : /\ KindOf[a.key] # "write"
                           /\ tried' = tried \cup {[key |-> a.key, body |-> a.body]}
  BY TriesInv
<1>2. UNCHANGED <<effects, answers>>
  BY TriesInv
<1>3. \E e \in Effect : Register!Try(e)
  <2>1. PICK e : e = [key |-> a.key, body |-> a.body, nth |-> 1]
    OBVIOUS
  <2>2. 1 \in 1 .. MaxEffects
    BY ApiCallsAssumption
  <2>3. e \in Effect /\ e.key = a.key /\ e.body = a.body /\ e.key # None
    BY <1>1, <2>1, <2>2, ApiCallsAssumption DEF Attempt, Effect
  <2> QED
    BY <1>1, <1>2, <2>3 DEF Register!Try
<1> QED
  BY <1>2, <1>3

\* The calls of the API, with their two transactions, counters, rights, failures and
\* retries, with runs that commit account by account and mails that leave first,
\* implement the register of effects: every step makes one effect and tells its
\* answer, repeats an answer, tries what may be tried more than once, or stutters.
THEOREM ImplementsEffectRegister == ApiSpec => EffectRegisterSpec
<1>1. ApiInit => Register!Init /\ NumberedOK
  BY DEF ApiInit, Register!Init, NumberedOK
<1>2. ASSUME ApiInv, NumberedOK, [ApiNext]_apiVars
      PROVE  NumberedOK' /\ [Register!Next]_<<effects, tried, answers>>
  <2>1. CASE UNCHANGED <<effects, tried, answers>>
    BY <1>2, <2>1 DEF NumberedOK
  <2>2. ASSUME NEW w \in Caller, CommitCall(w)
        PROVE  NumberedOK' /\ [Register!Next]_<<effects, tried, answers>>
    BY <1>2, <2>2, CommitMakes DEF Register!Next
  <2>3. ASSUME NEW w \in Caller, OpenCall(w)
        PROVE  NumberedOK' /\ [Register!Next]_<<effects, tried, answers>>
    <3>1. NumberedOK'
      BY <1>2, <2>3 DEF OpenCall, NumberedOK
    <3> QED
      BY <1>2, <2>3, <3>1, OpenRepeats DEF Register!Next
  <2>4. ASSUME NEW w \in Caller, SyncAccount(w) \/ MailOfCall(w)
        PROVE  NumberedOK' /\ [Register!Next]_<<effects, tried, answers>>
    <3>1. NumberedOK'
      BY <1>2, <2>4, TriesMayBe DEF NumberedOK
    <3> QED
      BY <1>2, <2>4, <3>1, TriesMayBe, ApiCallsAssumption DEF Register!Next
  <2> QED
    BY <1>2, <2>1, <2>2, <2>3, <2>4
    DEF ApiNext, apiVars, RevokeToken, CreateToken, ChangeRights, Authorise, CountCall, DropCall
<1> QED
  BY <1>1, <1>2, ApiInitInv, ApiNextInv, PTL DEF ApiSpec, EffectRegisterSpec, Register!Spec

-----------------------------------------------------------------------------
(***************************************************************************)
(* RateLimiter: the hits in any window stay within the limit.  A bucket    *)
(* forgets hits as it is pruned; LimiterInv says that what it has left is  *)
(* all that a later hit can share a window with.                           *)
(***************************************************************************)

LimiterTypes ==
  /\ tick \in Ticks /\ swept \in Ticks /\ checks \in 0 .. MaxChecks
  /\ bucket \in [Client -> Seq(Ticks)] /\ passed \in [Client -> Seq(Ticks)]
  /\ checker \in [Checker -> Check \cup {None}]

(* Nobody waits for the lock longer than Lag. *)
WaitOK ==
  \A w \in Checker : checker[w] # None => checker[w].now <= tick /\ tick <= checker[w].now + Lag

(* A bucket is what is left of the hits that were let through when those at the
   front are too old to matter at the time t. *)
Rest(hits, all, t) ==
  \E k \in 0 .. Len(all) :
    /\ Len(hits) = Len(all) - k
    /\ \A i \in 1 .. Len(hits) : hits[i] = all[k + i]
    /\ \A i \in 1 .. k : all[i] + Window < t

RestOK == \A c \in Client : Rest(bucket[c], passed[c], tick)

LimiterInv == LimiterTypes /\ WaitOK /\ RestOK /\ WindowLimit

-----------------------------------------------------------------------------
LEMMA LimiterBounds ==
  /\ Hits \in Nat /\ Hits > 0 /\ Window \in Nat /\ Lag \in Nat /\ Lag <= Window
  /\ LastTick \in Nat /\ MaxChecks \in Nat /\ None \notin Client
BY RateLimiterAssumption

LEMMA TicksInSeq ==
  ASSUME NEW s \in Seq(Ticks)
  PROVE  Len(s) \in Nat /\ DOMAIN s = 1 .. Len(s) /\ \A i \in 1 .. Len(s) : s[i] \in Nat
<1>1. Ticks \subseteq Nat
  BY LimiterBounds DEF Ticks
<1>2. Len(s) \in Nat /\ DOMAIN s = 1 .. Len(s)
  OBVIOUS
<1>3. \A i \in 1 .. Len(s) : s[i] \in Ticks
  OBVIOUS
<1> QED
  BY <1>1, <1>2, <1>3

(* What _prune leaves is the rest of the bucket. *)
LEMMA PrunedIsRest ==
  ASSUME NEW hits \in Seq(Ticks), NEW cutoff \in Int
  PROVE  /\ Pruned(hits, cutoff) \in Seq(Ticks)
         /\ \E d \in 0 .. Len(hits) :
              /\ Len(Pruned(hits, cutoff)) = Len(hits) - d
              /\ \A i \in 1 .. Len(hits) - d : Pruned(hits, cutoff)[i] = hits[d + i]
              /\ \A i \in 1 .. d : hits[i] < cutoff
<1> DEFINE young == {i \in DOMAIN hits : hits[i] >= cutoff}
<1>0. Ticks \subseteq Nat
  BY LimiterBounds DEF Ticks
<1>1. Len(hits) \in Nat /\ DOMAIN hits = 1 .. Len(hits) /\ \A i \in 1 .. Len(hits) : hits[i] \in Nat
  BY TicksInSeq
<1>2. CASE young = {}
  <2>1. Pruned(hits, cutoff) = <<>>
    BY <1>2 DEF Pruned
  <2>2. ASSUME NEW i \in 1 .. Len(hits) PROVE hits[i] < cutoff
    <3>1. i \notin young
      BY <1>2
    <3> QED
      BY <1>1, <3>1
  <2>3. Len(hits) \in 0 .. Len(hits) /\ Len(<<>>) = Len(hits) - Len(hits) /\ <<>> \in Seq(Ticks)
    BY <1>1
  <2>4. \A i \in 1 .. Len(hits) - Len(hits) : FALSE
    BY <1>1
  <2> QED
    BY <2>1, <2>2, <2>3, <2>4
<1>3. CASE young # {}
  <2>a. young \subseteq Nat
    BY <1>1
  <2>1. \E i \in young : \A j \in young : i <= j
    <3> HIDE DEF young
    <3> QED
      BY <1>3, <2>a, LeastExists
  <2>2. PICK m : m = CHOOSE i \in young : \A j \in young : i <= j
    OBVIOUS
  <2>3. m \in young /\ \A j \in young : m <= j
    BY <2>1, <2>2
  <2>4. Pruned(hits, cutoff) = SubSeq(hits, m, Len(hits))
    BY <1>3, <2>2 DEF Pruned
  <2>5. m \in 1 .. Len(hits) /\ m - 1 \in 0 .. Len(hits)
    BY <1>1, <2>3
  <2>6. \A i \in 1 .. m - 1 : hits[i] < cutoff
    <3> SUFFICES ASSUME NEW i \in 1 .. m - 1 PROVE hits[i] < cutoff
      OBVIOUS
    <3>1. i \in DOMAIN hits /\ i < m /\ hits[i] \in Nat
      BY <1>1, <2>5
    <3>2. i \notin young
      BY <2>3, <3>1, <2>5
    <3> QED
      BY <3>1, <3>2
  <2> HIDE DEF young
  <2>7. SubSeq(hits, m, Len(hits)) \in Seq(Ticks)
        /\ Len(SubSeq(hits, m, Len(hits))) = Len(hits) - (m - 1)
        /\ \A i \in 1 .. Len(hits) - (m - 1) : SubSeq(hits, m, Len(hits))[i] = hits[(m - 1) + i]
    BY <1>1, <2>5
  <2> QED
    BY <2>4, <2>5, <2>6, <2>7
<1> QED
  BY <1>2, <1>3

(* The rest of a rest. *)
LEMMA PrunedKeepsRest ==
  ASSUME NEW hits \in Seq(Ticks), NEW all \in Seq(Ticks), NEW now \in Ticks, NEW t \in Nat,
         now <= t, Rest(hits, all, t)
  PROVE  Rest(Pruned(hits, now - Window), all, t)
<1>1. PICK k \in 0 .. Len(all) :
        /\ Len(hits) = Len(all) - k
        /\ \A i \in 1 .. Len(hits) : hits[i] = all[k + i]
        /\ \A i \in 1 .. k : all[i] + Window < t
  BY DEF Rest
<1>2. now \in Nat /\ Window \in Nat /\ Ticks \subseteq Nat /\ Len(all) \in Nat
  BY LimiterBounds DEF Ticks
<1>3. PICK c \in Int : c = now - Window
  BY <1>2
<1>4. PICK p : p = Pruned(hits, c)
  OBVIOUS
<1>5. PICK d \in 0 .. Len(hits) :
        /\ Len(p) = Len(hits) - d
        /\ \A i \in 1 .. Len(hits) - d : p[i] = hits[d + i]
        /\ \A i \in 1 .. d : hits[i] < c
  BY <1>4, PrunedIsRest
<1>6. k + d \in 0 .. Len(all) /\ Len(p) = Len(all) - (k + d)
  BY <1>1, <1>2, <1>5
<1>7. \A i \in 1 .. Len(p) : p[i] = all[(k + d) + i]
  <2> SUFFICES ASSUME NEW i \in 1 .. Len(p) PROVE p[i] = all[(k + d) + i]
    OBVIOUS
  <2>1. i \in 1 .. Len(hits) - d /\ d + i \in 1 .. Len(hits)
    BY <1>1, <1>2, <1>5
  <2>2. p[i] = hits[d + i] /\ hits[d + i] = all[k + (d + i)]
    BY <1>1, <1>5, <2>1
  <2>3. k + (d + i) = (k + d) + i
    BY <1>1, <1>5, <2>1
  <2> QED
    BY <2>2, <2>3
<1>8. \A i \in 1 .. k + d : all[i] + Window < t
  <2> SUFFICES ASSUME NEW i \in 1 .. k + d PROVE all[i] + Window < t
    OBVIOUS
  <2>1. CASE i <= k
    BY <1>1, <2>1
  <2>2. CASE i > k
    <3>1. i - k \in 1 .. d /\ i - k \in 1 .. Len(hits) /\ k + (i - k) = i
      BY <1>1, <1>2, <1>5, <2>2
    <3>2. all[i] = hits[i - k] /\ hits[i - k] < c
      BY <1>1, <1>5, <3>1
    <3>3. hits[i - k] \in Nat
      BY <3>1, TicksInSeq
    <3> QED
      BY <1>2, <1>3, <3>2, <3>3
  <2> QED
    BY <1>1, <1>5, <2>1, <2>2
<1> QED
  BY <1>3, <1>4, <1>6, <1>7, <1>8 DEF Rest

InWindow(all, from) == {i \in DOMAIN all : all[i] \in from .. (from + Window - Lag)}

(* One more hit is let through: what is too old for the bucket is outside of
   every window that the new hit is in. *)
LEMMA OneMore ==
  ASSUME NEW hits \in Seq(Ticks), NEW all \in Seq(Ticks), NEW now \in Ticks, NEW t \in Nat,
         t <= now + Lag, Rest(hits, all, t), Len(hits) < Hits, NEW from \in Ticks,
         Cardinality(InWindow(all, from)) <= Hits
  PROVE  Cardinality(InWindow(Append(all, now), from)) <= Hits
<1>1. PICK k \in 0 .. Len(all) :
        /\ Len(hits) = Len(all) - k
        /\ \A i \in 1 .. k : all[i] + Window < t
  BY DEF Rest
<1>2. now \in Nat /\ from \in Nat /\ Window \in Nat /\ Lag \in Nat /\ Lag <= Window /\ Hits \in Nat
      /\ Ticks \subseteq Nat
  BY LimiterBounds DEF Ticks
<1>3. PICK n \in Nat : n = Len(all)
  OBVIOUS
<1>4. PICK more : more = Append(all, now)
  OBVIOUS
<1>5. DOMAIN more = 1 .. n + 1 /\ DOMAIN all = 1 .. n /\ more[n + 1] = now
      /\ \A i \in 1 .. n : more[i] = all[i] /\ all[i] \in Nat
  <2>1. DOMAIN all = 1 .. n /\ \A i \in 1 .. n : all[i] \in Nat
    BY <1>3, TicksInSeq
  <2>2. DOMAIN more = 1 .. n + 1 /\ more[n + 1] = now /\ \A i \in 1 .. n : more[i] = all[i]
    BY <1>3, <1>4
  <2> QED
    BY <2>1, <2>2
<1>6. CASE now \notin from .. (from + Window - Lag)
  <2>1. InWindow(more, from) = InWindow(all, from)
    <3>1. \A i \in 1 .. n + 1 : i \in 1 .. n \/ i = n + 1
      BY <1>3
    <3>2. \A i \in 1 .. n : i \in 1 .. n + 1
      BY <1>3
    <3> QED
      BY <1>5, <1>6, <3>1, <3>2 DEF InWindow
  <2> QED
    BY <1>4, <2>1
<1>7. CASE now \in from .. (from + Window - Lag)
  <2>1. InWindow(more, from) \subseteq k + 1 .. n + 1
    <3> SUFFICES ASSUME NEW i \in InWindow(more, from), i <= k PROVE FALSE
      BY <1>1, <1>3, <1>5 DEF InWindow
    <3>1. i \in 1 .. k /\ i \in 1 .. n
      BY <1>1, <1>3, <1>5 DEF InWindow
    <3>2. all[i] >= from /\ all[i] + Window < t /\ all[i] \in Nat
      BY <1>1, <1>2, <1>5, <3>1 DEF InWindow
    <3>3. now <= from + Window - Lag
      BY <1>2, <1>7
    <3> QED
      BY <1>2, <3>2, <3>3
  <2>2. IsFiniteSet(k + 1 .. n + 1) /\ Cardinality(k + 1 .. n + 1) = n + 1 - k
    BY <1>1, <1>3, FS_Interval
  <2>3. Cardinality(InWindow(more, from)) <= n + 1 - k /\ Cardinality(InWindow(more, from)) \in Nat
    BY <2>1, <2>2, FS_Subset, FS_CardinalityType
  <2> QED
    BY <1>1, <1>2, <1>3, <1>4, <2>3
<1> QED
  BY <1>6, <1>7

LEMMA OneMoreRest ==
  ASSUME NEW hits \in Seq(Ticks), NEW all \in Seq(Ticks), NEW now \in Ticks, NEW t \in Nat,
         Rest(hits, all, t)
  PROVE  Rest(Append(hits, now), Append(all, now), t)
<1>1. PICK k \in 0 .. Len(all) :
        /\ Len(hits) = Len(all) - k
        /\ \A i \in 1 .. Len(hits) : hits[i] = all[k + i]
        /\ \A i \in 1 .. k : all[i] + Window < t
  BY DEF Rest
<1>2. PICK n \in Nat : n = Len(all)
  OBVIOUS
<1>3. PICK m \in Nat : m = Len(hits)
  OBVIOUS
<1>4. PICK h : h = Append(hits, now)
  OBVIOUS
<1>5. PICK a : a = Append(all, now)
  OBVIOUS
<1>6. Len(h) = m + 1 /\ Len(a) = n + 1 /\ h[m + 1] = now /\ a[n + 1] = now
      /\ (\A i \in 1 .. m : h[i] = hits[i]) /\ (\A i \in 1 .. n : a[i] = all[i])
  BY <1>2, <1>3, <1>4, <1>5
<1>7. k \in 0 .. n /\ m = n - k
  BY <1>1, <1>2, <1>3
<1>8. \A i \in 1 .. m + 1 : h[i] = a[k + i]
  <2> SUFFICES ASSUME NEW i \in 1 .. m + 1 PROVE h[i] = a[k + i]
    OBVIOUS
  <2>1. CASE i \in 1 .. m
    <3>1. k + i \in 1 .. n
      BY <1>7, <2>1
    <3> QED
      BY <1>1, <1>3, <1>6, <2>1, <3>1
  <2>2. CASE i = m + 1
    BY <1>6, <1>7, <2>2
  <2> QED
    BY <1>3, <2>1, <2>2
<1>9. \A i \in 1 .. k : a[i] + Window < t
  <2>1. \A i \in 1 .. k : i \in 1 .. n
    BY <1>7
  <2> QED
    BY <1>1, <1>6, <2>1
<1>10. k \in 0 .. Len(a) /\ Len(h) = Len(a) - k
  BY <1>6, <1>7
<1> QED
  BY <1>4, <1>5, <1>6, <1>8, <1>9, <1>10 DEF Rest

LEMMA RestLater ==
  ASSUME NEW hits, NEW all \in Seq(Ticks), NEW t \in Nat, Rest(hits, all, t)
  PROVE  Rest(hits, all, t + 1)
<1>1. PICK k \in 0 .. Len(all) :
        /\ Len(hits) = Len(all) - k
        /\ \A i \in 1 .. Len(hits) : hits[i] = all[k + i]
        /\ \A i \in 1 .. k : all[i] + Window < t
  BY DEF Rest
<1>2. \A i \in 1 .. k : all[i] + Window < t + 1
  <2> SUFFICES ASSUME NEW i \in 1 .. k PROVE all[i] + Window < t + 1
    OBVIOUS
  <2>1. i \in 1 .. Len(all)
    BY <1>1, TicksInSeq
  <2> QED
    BY <1>1, <2>1, TicksInSeq, LimiterBounds
<1> QED
  BY <1>1, <1>2 DEF Rest

LEMMA EmptyRest == \A t : Rest(<<>>, <<>>, t)
<1> SUFFICES ASSUME NEW t PROVE Rest(<<>>, <<>>, t)
  OBVIOUS
<1>1. 0 \in 0 .. Len(<<>>) /\ Len(<<>>) = Len(<<>>) - 0
  OBVIOUS
<1>2. (\A i \in 1 .. Len(<<>>) : FALSE) /\ \A i \in 1 .. 0 : FALSE
  OBVIOUS
<1> QED
  BY <1>1, <1>2 DEF Rest

LEMMA EmptyWindow == \A from \in Ticks : Cardinality(InWindow(<<>>, from)) <= Hits
<1>1. \A from : InWindow(<<>>, from) = {}
  BY DEF InWindow
<1> QED
  BY <1>1, FS_EmptySet, LimiterBounds

LEMMA WindowLimitIs ==
  WindowLimit <=> \A c \in Client : \A from \in Ticks : Cardinality(InWindow(passed[c], from)) <= Hits
BY DEF WindowLimit, InWindow

LEMMA TickStep == LimiterInv /\ Tick => LimiterInv'
<1> SUFFICES ASSUME LimiterInv, Tick PROVE LimiterInv'
  OBVIOUS
<1>1. /\ tick \in Nat /\ tick < LastTick /\ tick' = tick + 1
      /\ UNCHANGED <<known, before, bucket, swept, checker, passed, checks>>
  BY LimiterBounds DEF Tick, LimiterInv, LimiterTypes, Ticks
<1>2. LimiterTypes'
  BY <1>1, LimiterBounds DEF LimiterInv, LimiterTypes, Ticks
<1>3. WaitOK'
  <2> SUFFICES ASSUME NEW w \in Checker, checker[w] # None
               PROVE  checker[w].now <= tick + 1 /\ tick + 1 <= checker[w].now + Lag
    BY <1>1 DEF WaitOK
  <2>1. checker[w].now \in Nat /\ checker[w].now <= tick /\ tick < checker[w].now + Lag
    BY LimiterBounds DEF Tick, LimiterInv, LimiterTypes, WaitOK, Check, Ticks
  <2> QED
    BY <1>1, <2>1, LimiterBounds
<1>4. RestOK'
  <2> SUFFICES ASSUME NEW c \in Client PROVE Rest(bucket[c], passed[c], tick + 1)
    BY <1>1 DEF RestOK
  <2>1. passed[c] \in Seq(Ticks) /\ Rest(bucket[c], passed[c], tick)
    BY DEF LimiterInv, LimiterTypes, RestOK
  <2> QED
    BY <1>1, <2>1, RestLater
<1>5. WindowLimit'
  BY <1>1 DEF LimiterInv, WindowLimit
<1> QED
  BY <1>2, <1>3, <1>4, <1>5 DEF LimiterInv

LEMMA ReadClockStep ==
  ASSUME LimiterInv, NEW w \in Checker, NEW c \in Client, ReadClock(w, c)
  PROVE  LimiterInv'
<1>1. /\ checker' = [checker EXCEPT ![w] = [key |-> c, now |-> tick]] /\ checks' = checks + 1
      /\ checks < MaxChecks /\ UNCHANGED <<tick, known, before, bucket, swept, passed>>
  BY DEF ReadClock
<1>2. tick \in Ticks /\ tick \in Nat
  BY LimiterBounds DEF LimiterInv, LimiterTypes, Ticks
<1>3. LimiterTypes'
  BY <1>1, <1>2, LimiterBounds DEF LimiterInv, LimiterTypes, Check
<1>4. WaitOK'
  <2>1. checker' \in [Checker -> Check \cup {None}] /\ checker'[w].now = tick
        /\ \A v \in Checker : v # w => checker'[v] = checker[v]
    BY <1>1, <1>3 DEF LimiterInv, LimiterTypes
  <2> QED
    BY <1>1, <1>2, <2>1, LimiterBounds DEF LimiterInv, WaitOK
<1>5. RestOK' /\ WindowLimit'
  BY <1>1 DEF LimiterInv, RestOK, WindowLimit
<1> QED
  BY <1>3, <1>4, <1>5 DEF LimiterInv

LEMMA AskStep ==
  ASSUME LimiterInv, NEW w \in Checker, Ask(w)
  PROVE  LimiterInv'
<1>1. PICK c : c = checker[w].key
  OBVIOUS
<1>2. PICK now : now = checker[w].now
  OBVIOUS
<1>3. PICK table : table = Swept(now)
  OBVIOUS
<1>4. PICK gone : gone = Evicted(table.keys, c)
  OBVIOUS
<1>5. PICK hits : hits = Pruned(table.hits[c], now - Window)
  OBVIOUS
<1>6. /\ checker[w] # None /\ checker' = [checker EXCEPT ![w] = None]
      /\ swept' = (IF SweepDue(now) THEN now ELSE swept)
      /\ bucket' = [k \in Client |-> IF k = c THEN IF Len(hits) < Hits THEN Append(hits, now) ELSE hits
                                     ELSE IF k \in gone THEN <<>> ELSE table.hits[k]]
      /\ passed' = [k \in Client |-> IF k = c THEN IF Len(hits) < Hits THEN Append(passed[k], now) ELSE passed[k]
                                     ELSE IF k \in gone THEN <<>> ELSE passed[k]]
      /\ UNCHANGED <<tick, checks>>
  BY <1>1, <1>2, <1>3, <1>4, <1>5 DEF Ask
<1>7. /\ c \in Client /\ now \in Ticks /\ now \in Nat /\ tick \in Nat
      /\ now <= tick /\ tick <= now + Lag
  BY <1>1, <1>2, <1>6, LimiterBounds DEF LimiterInv, LimiterTypes, WaitOK, Check, Ticks
<1>8. \A k \in Client : bucket[k] \in Seq(Ticks) /\ passed[k] \in Seq(Ticks)
                        /\ Rest(bucket[k], passed[k], tick)
  BY DEF LimiterInv, LimiterTypes, RestOK
<1>9. PICK cutoff \in Int : cutoff = now - Window
  BY <1>7, LimiterBounds
<1>10. \A k \in Client : table.hits[k] \in Seq(Ticks) /\ Rest(table.hits[k], passed[k], tick)
  <2> SUFFICES ASSUME NEW k \in Client
               PROVE  table.hits[k] \in Seq(Ticks) /\ Rest(table.hits[k], passed[k], tick)
    OBVIOUS
  <2>1. table.hits[k] = Pruned(bucket[k], now - Window) \/ table.hits[k] = bucket[k]
    BY <1>3 DEF Swept
  <2>2. Pruned(bucket[k], now - Window) \in Seq(Ticks)
    BY <1>8, <1>9, PrunedIsRest
  <2>3. Rest(Pruned(bucket[k], now - Window), passed[k], tick)
    BY <1>7, <1>8, PrunedKeepsRest
  <2> QED
    BY <1>8, <2>1, <2>2, <2>3
<1>11. hits \in Seq(Ticks) /\ Rest(hits, passed[c], tick)
  <2>1. hits \in Seq(Ticks)
    BY <1>5, <1>7, <1>9, <1>10, PrunedIsRest
  <2>2. Rest(hits, passed[c], tick)
    BY <1>5, <1>7, <1>8, <1>10, PrunedKeepsRest
  <2> QED
    BY <2>1, <2>2
<1>12. \A k \in Client :
         \/ bucket'[k] \in Seq(Ticks) /\ passed'[k] = passed[k] /\ Rest(bucket'[k], passed[k], tick)
         \/ bucket'[k] = <<>> /\ passed'[k] = <<>>
         \/ k = c /\ Len(hits) < Hits /\ bucket'[k] = Append(hits, now) /\ passed'[k] = Append(passed[k], now)
  BY <1>6, <1>10, <1>11
<1>13. LimiterTypes'
  <2>1. Append(hits, now) \in Seq(Ticks) /\ Append(passed[c], now) \in Seq(Ticks) /\ <<>> \in Seq(Ticks)
    BY <1>7, <1>8, <1>11
  <2>2. bucket' \in [Client -> Seq(Ticks)] /\ passed' \in [Client -> Seq(Ticks)]
    BY <1>6, <1>8, <1>10, <1>11, <2>1
  <2> QED
    BY <1>6, <1>7, <2>2 DEF LimiterInv, LimiterTypes
<1>14. WaitOK'
  BY <1>6 DEF LimiterInv, LimiterTypes, WaitOK
<1>15. RestOK'
  <2> SUFFICES ASSUME NEW k \in Client PROVE Rest(bucket'[k], passed'[k], tick)
    BY <1>6 DEF RestOK
  <2>1. Rest(Append(hits, now), Append(passed[c], now), tick)
    BY <1>7, <1>8, <1>11, OneMoreRest
  <2>2. Rest(<<>>, <<>>, tick)
    BY EmptyRest
  <2>3. CASE bucket'[k] \in Seq(Ticks) /\ passed'[k] = passed[k] /\ Rest(bucket'[k], passed[k], tick)
    BY <2>3
  <2>4. CASE bucket'[k] = <<>> /\ passed'[k] = <<>>
    BY <2>2, <2>4
  <2>5. CASE k = c /\ bucket'[k] = Append(hits, now) /\ passed'[k] = Append(passed[k], now)
    BY <2>1, <2>5
  <2> QED
    BY <1>12, <2>3, <2>4, <2>5
<1>16. WindowLimit'
  <2> SUFFICES ASSUME NEW k \in Client, NEW from \in Ticks
               PROVE  Cardinality(InWindow(passed'[k], from)) <= Hits
    BY DEF WindowLimit, InWindow
  <2>1. Cardinality(InWindow(passed[k], from)) <= Hits
    BY WindowLimitIs DEF LimiterInv
  <2>2. CASE passed'[k] = passed[k]
    BY <2>1, <2>2
  <2>3. CASE passed'[k] = <<>>
    BY <2>3, EmptyWindow
  <2>4. CASE k = c /\ Len(hits) < Hits /\ passed'[k] = Append(passed[k], now)
    <3>1. Cardinality(InWindow(Append(passed[k], now), from)) <= Hits
      BY <1>7, <1>8, <1>11, <2>1, <2>4, OneMore
    <3> QED
      BY <2>4, <3>1
  <2> QED
    BY <1>12, <2>2, <2>3, <2>4
<1> QED
  BY <1>13, <1>14, <1>15, <1>16 DEF LimiterInv

LEMMA LimiterInvInit == LimiterInit => LimiterInv
<1> SUFFICES ASSUME LimiterInit PROVE LimiterInv
  OBVIOUS
<1>1. LimiterTypes
  BY LimiterBounds DEF LimiterInit, LimiterTypes, Ticks
<1>2. WaitOK
  BY DEF LimiterInit, WaitOK
<1>3. RestOK
  BY EmptyRest DEF LimiterInit, RestOK
<1>4. WindowLimit
  BY EmptyWindow, WindowLimitIs DEF LimiterInit
<1> QED
  BY <1>1, <1>2, <1>3, <1>4 DEF LimiterInv

LEMMA LimiterInvStep == LimiterInv /\ [LimiterNext]_limiterVars => LimiterInv'
<1>1. LimiterInv /\ UNCHANGED limiterVars => LimiterInv'
  BY DEF limiterVars, LimiterInv, LimiterTypes, WaitOK, RestOK, WindowLimit
<1> QED
  BY <1>1, TickStep, ReadClockStep, AskStep DEF LimiterNext

(* A client that is not evicted gets through at most Hits times in a window,
   less the time threads may wait for the lock (SlidingWindowRateLimiter.check):
   what was dropped from its bucket was too old for every window that a later
   hit is in. *)
THEOREM LimiterWindow == LimiterSpec => []WindowLimit
<1>1. LimiterInv => WindowLimit
  BY DEF LimiterInv
<1> QED
  BY <1>1, LimiterInvInit, LimiterInvStep, PTL DEF LimiterSpec

-----------------------------------------------------------------------------
(***************************************************************************)
(* The table of the limiter: never more keys than it may hold, in a row by *)
(* their last use.                                                         *)
(***************************************************************************)

TableOK ==
  /\ known \in SUBSET Client /\ IsFiniteSet(known) /\ Cardinality(known) <= TableSize
  /\ InARow(known, before)

BucketsOK == \A c \in Client : Len(bucket[c]) <= Hits /\ (bucket[c] # <<>> => c \in known)

\* Some key of a row comes before all others: the one with the fewest before it.
LEMMA RowStarts ==
  ASSUME NEW keys, NEW order, InARow(keys, order), IsFiniteSet(keys), keys # {}
  PROVE  \E k \in keys : \A l \in keys \ {k} : <<k, l>> \in order
<1> DEFINE Earlier(k) == {l \in keys : <<l, k>> \in order}
           Counts == {Cardinality(Earlier(k)) : k \in keys}
<1>1. ASSUME NEW k \in keys
      PROVE  IsFiniteSet(Earlier(k)) /\ Cardinality(Earlier(k)) \in Nat
  BY FS_Subset, FS_CardinalityType
<1>2. Counts \subseteq Nat /\ Counts # {}
  BY <1>1
<1>3. \E m \in Counts : \A n \in Counts : m <= n
  <2> HIDE DEF Counts
  <2> QED
    BY <1>2, LeastExists
<1>4. PICK k \in keys : \A l \in keys : Cardinality(Earlier(k)) <= Cardinality(Earlier(l))
  BY <1>3
<1>5. ASSUME NEW l \in keys, <<l, k>> \in order PROVE FALSE
  <2>1. Earlier(l) \subseteq Earlier(k)
    BY <1>5 DEF InARow
  <2>2. l \in Earlier(k) /\ l \notin Earlier(l)
    BY <1>5 DEF InARow
  <2>3. Earlier(l) # Earlier(k)
    BY <2>2
  <2>4. Cardinality(Earlier(l)) < Cardinality(Earlier(k))
    <3>1. PICK a : a = Earlier(k)
      OBVIOUS
    <3>2. PICK b : b = Earlier(l)
      OBVIOUS
    <3>3. IsFiniteSet(a) /\ b \in SUBSET a /\ b # a
      BY <1>1, <2>1, <2>3, <3>1, <3>2
    <3>4. Cardinality(b) < Cardinality(a)
      BY <3>3, FS_Subset, FS_CardinalityType
    <3> QED
      BY <3>1, <3>2, <3>4
  <2> QED
    BY <1>1, <1>4, <2>4
<1>6. ASSUME NEW l \in keys \ {k} PROVE <<k, l>> \in order
  BY <1>5, <1>6 DEF InARow
<1> QED
  BY <1>6

\* What is left of a row is a row.
LEMMA RowShortened ==
  ASSUME NEW keys, NEW order, InARow(keys, order), NEW stay, stay \subseteq keys
  PROVE  InARow(stay, order \cap (stay \X stay))
<1> DEFINE less == order \cap (stay \X stay)
<1>1. \A k, l \in stay : <<k, l>> \in less <=> <<k, l>> \in order
  OBVIOUS
<1>2. less \subseteq stay \X stay
  OBVIOUS
<1> HIDE DEF less
<1>3. InARow(stay, less)
  BY <1>1, <1>2 DEF InARow
<1> QED
  BY <1>3 DEF less

\* A key that is used goes to the end of the row.
LEMMA RowContinued ==
  ASSUME NEW keys, NEW order, InARow(keys, order), NEW c, c \notin keys
  PROVE  InARow(keys \cup {c}, order \cup (keys \X {c}))
<1> DEFINE more == order \cup (keys \X {c})
<1>0. order \subseteq keys \X keys
  BY DEF InARow
<1>1. \A k, l \in keys : <<k, l>> \in more <=> <<k, l>> \in order
  OBVIOUS
<1>2. \A k \in keys : <<k, c>> \in more /\ <<c, k>> \notin more
  BY <1>0
<1>3. <<c, c>> \notin more
  BY <1>0
<1>4. more \subseteq (keys \cup {c}) \X (keys \cup {c})
  BY <1>0
<1> HIDE DEF more
<1>5. \A k \in keys \cup {c} : <<k, k>> \notin more
  BY <1>1, <1>3 DEF InARow
<1>6. \A k, l \in keys \cup {c} : k # l => (<<k, l>> \in more <=> <<l, k>> \notin more)
  BY <1>1, <1>2 DEF InARow
<1>7. ASSUME NEW k \in keys \cup {c}, NEW l \in keys \cup {c}, NEW m \in keys \cup {c},
             <<k, l>> \in more, <<l, m>> \in more
      PROVE  <<k, m>> \in more
  <2>1. k \in keys /\ l \in keys
    BY <1>2, <1>3, <1>7
  <2>2. CASE m = c
    BY <1>2, <2>1, <2>2
  <2>3. CASE m \in keys
    BY <1>1, <1>7, <2>1, <2>3 DEF InARow
  <2> QED
    BY <2>2, <2>3
<1>8. InARow(keys \cup {c}, more)
  BY <1>4, <1>5, <1>6, <1>7 DEF InARow
<1> QED
  BY <1>8 DEF more

LEMMA PrunedNoLonger ==
  ASSUME NEW hits \in Seq(Ticks), NEW cutoff \in Int, Len(hits) <= Hits
  PROVE  /\ Pruned(hits, cutoff) \in Seq(Ticks)
         /\ Len(Pruned(hits, cutoff)) \in Nat /\ Len(Pruned(hits, cutoff)) <= Hits
<1>1. Pruned(hits, cutoff) \in Seq(Ticks)
  BY PrunedIsRest
<1>2. PICK d \in 0 .. Len(hits) : Len(Pruned(hits, cutoff)) = Len(hits) - d
  BY PrunedIsRest
<1>3. Len(hits) \in Nat
  OBVIOUS
<1> QED
  BY <1>1, <1>2, <1>3, LimiterBounds

LEMMA AskTable ==
  ASSUME LimiterInv, TableOK, BucketsOK, NEW w \in Checker, Ask(w)
  PROVE  TableOK' /\ BucketsOK'
<1>1. PICK c : c = checker[w].key
  OBVIOUS
<1>2. PICK now : now = checker[w].now
  OBVIOUS
<1>3. PICK table : table = Swept(now)
  OBVIOUS
<1>4. PICK gone : gone = Evicted(table.keys, c)
  OBVIOUS
<1>5. PICK hits : hits = Pruned(table.hits[c], now - Window)
  OBVIOUS
<1>6. PICK stay : stay = table.keys \ (gone \cup {c})
  OBVIOUS
<1>7. /\ checker[w] # None
      /\ known' = stay \cup {c}
      /\ before' = (before \cap (stay \X stay)) \cup (stay \X {c})
      /\ bucket' = [k \in Client |-> IF k = c THEN IF Len(hits) < Hits THEN Append(hits, now) ELSE hits
                                     ELSE IF k \in gone THEN <<>> ELSE table.hits[k]]
  BY <1>1, <1>2, <1>3, <1>4, <1>5, <1>6 DEF Ask
<1>8. c \in Client /\ now \in Nat /\ now \in Ticks
  BY <1>1, <1>2, <1>7, LimiterBounds DEF LimiterInv, LimiterTypes, WaitOK, Check, Ticks
<1>9. PICK cutoff \in Int : cutoff = now - Window
  BY <1>8, LimiterBounds
<1>10. table.keys \subseteq known /\ \A k \in Client : table.hits[k] # <<>> => k \in table.keys
  <2>1. CASE SweepDue(now)
    <3>1. \A k \in Client : table.hits[k] = Pruned(bucket[k], cutoff)
      BY <1>3, <1>9, <2>1 DEF Swept
    <3>2. table.keys = {k \in known : Pruned(bucket[k], cutoff) # <<>>}
      <4>1. \A k \in known : k \in Client
        BY DEF TableOK
      <4> QED
        BY <1>3, <1>9, <2>1, <4>1 DEF Swept
    <3>3. ASSUME NEW k \in Client, bucket[k] = <<>> PROVE Pruned(bucket[k], cutoff) = <<>>
      BY <3>3 DEF Pruned
    <3> QED
      BY <3>1, <3>2, <3>3 DEF BucketsOK
  <2>2. CASE ~SweepDue(now)
    BY <1>3, <2>2 DEF Swept, BucketsOK
  <2> QED
    BY <2>1, <2>2
<1>11. \A k \in Client : table.hits[k] \in Seq(Ticks) /\ Len(table.hits[k]) <= Hits
  <2> SUFFICES ASSUME NEW k \in Client PROVE table.hits[k] \in Seq(Ticks) /\ Len(table.hits[k]) <= Hits
    OBVIOUS
  <2>1. bucket[k] \in Seq(Ticks) /\ Len(bucket[k]) \in Nat /\ Len(bucket[k]) <= Hits
    BY DEF LimiterInv, LimiterTypes, BucketsOK
  <2>2. table.hits[k] = Pruned(bucket[k], cutoff) \/ table.hits[k] = bucket[k]
    BY <1>3, <1>9 DEF Swept
  <2>3. Pruned(bucket[k], cutoff) \in Seq(Ticks) /\ Len(Pruned(bucket[k], cutoff)) <= Hits
    BY <2>1, PrunedNoLonger
  <2> QED
    BY <2>1, <2>2, <2>3
<1>12. hits \in Seq(Ticks) /\ Len(hits) \in Nat /\ Len(hits) <= Hits
  <2>1. table.hits[c] \in Seq(Ticks) /\ Len(table.hits[c]) <= Hits /\ Len(table.hits[c]) \in Nat
    BY <1>8, <1>11
  <2> QED
    BY <1>5, <1>9, <2>1, PrunedNoLonger
<1>13. stay \subseteq known /\ c \notin stay /\ known \in SUBSET Client /\ IsFiniteSet(known)
       /\ Cardinality(known) <= TableSize /\ Cardinality(known) \in Nat /\ TableSize \in Nat \ {0}
  BY <1>6, <1>10, FS_CardinalityType, RateLimiterAssumption DEF TableOK
<1>14. TableOK'
  <2>1. InARow(known', before')
    BY <1>7, <1>13, RowShortened, RowContinued DEF TableOK
  <2>2. IsFiniteSet(stay) /\ IsFiniteSet(table.keys) /\ Cardinality(table.keys) <= Cardinality(known)
        /\ Cardinality(stay) \in Nat /\ Cardinality(table.keys) \in Nat
    BY <1>10, <1>13, FS_Subset, FS_CardinalityType
  <2>3. IsFiniteSet(known') /\ Cardinality(known') = Cardinality(stay) + 1
    BY <1>7, <1>13, <2>2, FS_AddElement
  <2>4. CASE c \in table.keys
    <3>1. stay \subseteq table.keys /\ stay # table.keys
      BY <1>6, <2>4
    <3>2. Cardinality(stay) < Cardinality(table.keys)
      BY <2>2, <3>1, FS_Subset
    <3> QED
      BY <1>7, <1>8, <1>13, <2>1, <2>2, <2>3, <3>2 DEF TableOK
  <2>5. CASE c \notin table.keys /\ Cardinality(table.keys) >= TableSize
    <3>1. gone = {LeastRecent(table.keys)}
      BY <1>4, <2>5 DEF Evicted
    <3>2. table.keys # {}
      BY <1>13, <2>5, FS_EmptySet
    <3>3. InARow(table.keys, before \cap (table.keys \X table.keys))
      BY <1>10, RowShortened DEF TableOK
    <3>4. \E k \in table.keys : \A l \in table.keys \ {k} :
            <<k, l>> \in before \cap (table.keys \X table.keys)
      BY <2>2, <3>2, <3>3, RowStarts
    <3>5. LeastRecent(table.keys) \in table.keys
      BY <3>4 DEF LeastRecent
    <3>6. stay \subseteq table.keys /\ stay # table.keys
      BY <1>6, <3>1, <3>5
    <3>7. Cardinality(stay) < Cardinality(table.keys)
      BY <2>2, <3>6, FS_Subset
    <3> QED
      BY <1>7, <1>8, <1>13, <2>1, <2>2, <2>3, <3>7 DEF TableOK
  <2>6. CASE c \notin table.keys /\ ~(Cardinality(table.keys) >= TableSize)
    <3>1. Cardinality(stay) <= Cardinality(table.keys)
      BY <1>6, <2>2, FS_Subset
    <3> QED
      BY <1>7, <1>8, <1>13, <2>1, <2>2, <2>3, <2>6, <3>1 DEF TableOK
  <2> QED
    BY <2>4, <2>5, <2>6
<1>15. BucketsOK'
  <2> SUFFICES ASSUME NEW k \in Client
               PROVE  Len(bucket'[k]) <= Hits /\ (bucket'[k] # <<>> => k \in known')
    BY DEF BucketsOK
  <2>1. CASE k = c
    <3>1. bucket'[k] = hits \/ (Len(hits) < Hits /\ bucket'[k] = Append(hits, now))
      BY <1>7, <2>1
    <3>2. Len(Append(hits, now)) = Len(hits) + 1
      BY <1>12
    <3>3. Len(bucket'[k]) <= Hits
      BY <1>12, <3>1, <3>2, LimiterBounds
    <3> QED
      BY <1>7, <2>1, <3>3
  <2>2. CASE k # c /\ k \in gone
    <3>1. bucket'[k] = <<>> /\ Len(<<>>) = 0
      BY <1>7, <2>2
    <3> QED
      BY <3>1, LimiterBounds
  <2>3. CASE k # c /\ k \notin gone
    <3>1. bucket'[k] = table.hits[k]
      BY <1>7, <2>3
    <3> QED
      BY <1>6, <1>7, <1>10, <1>11, <2>3, <3>1
  <2> QED
    BY <2>1, <2>2, <2>3
<1> QED
  BY <1>14, <1>15

LEMMA TableStep ==
  LimiterInv /\ TableOK /\ BucketsOK /\ [LimiterNext]_limiterVars => TableOK' /\ BucketsOK'
<1> SUFFICES ASSUME LimiterInv, TableOK, BucketsOK, [LimiterNext]_limiterVars
             PROVE  TableOK' /\ BucketsOK'
  OBVIOUS
<1>1. ASSUME UNCHANGED <<known, before, bucket>> PROVE TableOK' /\ BucketsOK'
  BY <1>1 DEF TableOK, BucketsOK
<1>2. CASE UNCHANGED limiterVars
  BY <1>1, <1>2 DEF limiterVars
<1>3. CASE Tick
  BY <1>1, <1>3 DEF Tick
<1>4. ASSUME NEW w \in Checker, NEW c \in Client, ReadClock(w, c) PROVE TableOK' /\ BucketsOK'
  BY <1>1, <1>4 DEF ReadClock
<1>5. ASSUME NEW w \in Checker, Ask(w) PROVE TableOK' /\ BucketsOK'
  BY <1>5, AskTable
<1> QED
  BY <1>2, <1>3, <1>4, <1>5 DEF LimiterNext

\* The table of the limiter never outgrows max_buckets, and the order of use stays an
\* order of exactly its keys (move_to_end, popitem): there is always a least recently
\* used key to evict, and no hits are kept for a key that is not in the table.
THEOREM RateLimiterTypeCorrect == LimiterSpec => []RateLimiterTypeOK
<1>1. LimiterInit => TableOK /\ BucketsOK
  <2> SUFFICES ASSUME LimiterInit PROVE TableOK /\ BucketsOK
    OBVIOUS
  <2>1. known = {} /\ before = {} /\ bucket = [c \in Client |-> <<>>]
    BY DEF LimiterInit
  <2>2. IsFiniteSet(known) /\ Cardinality(known) = 0
    BY <2>1, FS_EmptySet
  <2>3. InARow(known, before)
    BY <2>1 DEF InARow
  <2>4. \A c \in Client : bucket[c] = <<>>
    BY <2>1
  <2>5. Len(<<>>) = 0
    OBVIOUS
  <2>6. TableOK
    BY <2>1, <2>2, <2>3, RateLimiterAssumption DEF TableOK
  <2> QED
    BY <2>4, <2>5, <2>6, LimiterBounds DEF BucketsOK
<1>2. LimiterInv /\ TableOK /\ BucketsOK => RateLimiterTypeOK
  BY DEF LimiterInv, LimiterTypes, TableOK, BucketsOK, RateLimiterTypeOK
<1> QED
  BY <1>1, <1>2, LimiterInvInit, LimiterInvStep, TableStep, PTL DEF LimiterSpec

-----------------------------------------------------------------------------
(***************************************************************************)
(* A refusal has its cause in the window.                                  *)
(***************************************************************************)

(* Hits are entered at most Lag after their time. *)
EnteredInTime ==
  \A c \in Client : \A i \in 1 .. Len(passed[c]) :
    /\ passed[c][i] <= tick
    /\ \A j \in i .. Len(passed[c]) : passed[c][i] <= passed[c][j] + Lag

LEMMA EnteredInit == LimiterInit => EnteredInTime
<1> SUFFICES ASSUME LimiterInit, NEW c \in Client, NEW i \in 1 .. Len(passed[c]) PROVE FALSE
  BY DEF EnteredInTime
<1>1. passed[c] = <<>>
  BY DEF LimiterInit
<1> QED
  BY <1>1

LEMMA EnteredStep ==
  LimiterInv /\ EnteredInTime /\ [LimiterNext]_limiterVars => EnteredInTime'
<1> SUFFICES ASSUME LimiterInv, EnteredInTime, [LimiterNext]_limiterVars PROVE EnteredInTime'
  OBVIOUS
<1>0. Ticks \subseteq Nat /\ tick \in Nat
  BY LimiterBounds DEF LimiterInv, LimiterTypes, Ticks
<1>1. CASE UNCHANGED limiterVars
  BY <1>1 DEF limiterVars, EnteredInTime
<1>2. CASE Tick
  <2> SUFFICES ASSUME NEW c \in Client, NEW i \in 1 .. Len(passed[c]), passed[c][i] <= tick
               PROVE  passed[c][i] <= tick + 1
    BY <1>2 DEF Tick, EnteredInTime
  <2>1. passed[c] \in Seq(Ticks)
    BY DEF LimiterInv, LimiterTypes
  <2>2. passed[c][i] \in Nat
    BY <2>1, TicksInSeq
  <2> QED
    BY <1>0, <2>2
<1>3. ASSUME NEW w \in Checker, NEW c \in Client, ReadClock(w, c) PROVE EnteredInTime'
  BY <1>3 DEF ReadClock, EnteredInTime
<1>4. ASSUME NEW w \in Checker, Ask(w) PROVE EnteredInTime'
  <2>1. PICK now \in Nat : now = checker[w].now /\ now <= tick /\ tick <= now + Lag
    BY <1>4, LimiterBounds DEF Ask, LimiterInv, LimiterTypes, WaitOK, Check, Ticks
  <2>2. ASSUME NEW c \in Client
        PROVE  passed'[c] = passed[c] \/ passed'[c] = <<>> \/ passed'[c] = Append(passed[c], now)
    BY <1>4, <2>1, <2>2 DEF Ask
  <2>3. tick' = tick
    BY <1>4 DEF Ask
  <2> SUFFICES ASSUME NEW c \in Client, NEW i \in 1 .. Len(passed'[c])
               PROVE  /\ passed'[c][i] <= tick
                      /\ \A j \in i .. Len(passed'[c]) : passed'[c][i] <= passed'[c][j] + Lag
    BY <2>3 DEF EnteredInTime
  <2>4. CASE passed'[c] = passed[c]
    BY <2>4 DEF EnteredInTime
  <2>5. CASE passed'[c] = <<>>
    BY <2>5
  <2>6. CASE passed'[c] = Append(passed[c], now)
    <3>1. PICK all : all = passed[c]
      OBVIOUS
    <3>2. PICK more : more = passed'[c]
      OBVIOUS
    <3>3. all \in Seq(Ticks) /\ Len(all) \in Nat /\ \A k \in 1 .. Len(all) : all[k] \in Nat
      BY <3>1, TicksInSeq DEF LimiterInv, LimiterTypes
    <3>4. Len(more) = Len(all) + 1 /\ more[Len(all) + 1] = now
          /\ \A k \in 1 .. Len(all) : more[k] = all[k]
      BY <2>6, <3>1, <3>2, <3>3
    <3>5. \A k \in 1 .. Len(all) : all[k] <= tick /\ \A j \in k .. Len(all) : all[k] <= all[j] + Lag
      BY <3>1 DEF EnteredInTime
    <3>6. i \in 1 .. Len(all) + 1
      BY <3>2, <3>4
    <3>7. CASE i = Len(all) + 1
      <4>1. \A j \in i .. Len(more) : j = i
        BY <3>3, <3>4, <3>7
      <4> QED
        BY <2>1, <3>2, <3>4, <3>7, <4>1, LimiterBounds
    <3>8. CASE i \in 1 .. Len(all)
      <4>1. all[i] \in Nat /\ all[i] <= tick /\ more[i] = all[i]
        BY <3>3, <3>4, <3>5, <3>8
      <4>2. ASSUME NEW j \in i .. Len(more) PROVE more[i] <= more[j] + Lag
        <5>1. CASE j = Len(all) + 1
          <6>1. more[j] = now
            BY <3>4, <5>1
          <6> QED
            BY <1>0, <2>1, <4>1, <6>1, LimiterBounds
        <5>2. CASE j \in i .. Len(all)
          <6>1. j \in 1 .. Len(all) /\ more[j] = all[j]
            BY <3>3, <3>4, <3>8, <5>2
          <6> QED
            BY <3>5, <3>8, <4>1, <5>2, <6>1
        <5> QED
          BY <3>3, <3>4, <3>8, <5>1, <5>2
      <4> QED
        BY <3>2, <4>1, <4>2
    <3> QED
      BY <3>3, <3>6, <3>7, <3>8
  <2> QED
    BY <2>2, <2>4, <2>5, <2>6
<1> QED
  BY <1>1, <1>2, <1>3, <1>4 DEF LimiterNext

(* The oldest hit that _prune leaves is young enough. *)
LEMMA PrunedStartsYoung ==
  ASSUME NEW hits \in Seq(Ticks), NEW cutoff \in Int, Len(Pruned(hits, cutoff)) > 0
  PROVE  Pruned(hits, cutoff)[1] >= cutoff
<1> DEFINE young == {i \in DOMAIN hits : hits[i] >= cutoff}
<1>1. Len(hits) \in Nat /\ DOMAIN hits = 1 .. Len(hits)
  BY TicksInSeq
<1>2. young # {}
  <2> SUFFICES ASSUME young = {} PROVE FALSE
    OBVIOUS
  <2>1. Pruned(hits, cutoff) = <<>>
    BY DEF Pruned
  <2> QED
    BY <2>1
<1>3. young \subseteq Nat
  BY <1>1
<1>4. \E i \in young : \A j \in young : i <= j
  <2> HIDE DEF young
  <2> QED
    BY <1>2, <1>3, LeastExists
<1>5. PICK m : m = CHOOSE i \in young : \A j \in young : i <= j
  OBVIOUS
<1>6. m \in young
  BY <1>4, <1>5
<1>7. Pruned(hits, cutoff) = SubSeq(hits, m, Len(hits))
  BY <1>2, <1>5 DEF Pruned
<1>8. m \in 1 .. Len(hits) /\ hits[m] >= cutoff
  BY <1>1, <1>6
<1> HIDE DEF young
<1>9. SubSeq(hits, m, Len(hits))[1] = hits[m]
  BY <1>1, <1>8
<1> QED
  BY <1>7, <1>8, <1>9

(* A full bucket of young hits: so many were let through since. *)
LEMMA FullForCause ==
  ASSUME NEW hits \in Seq(Ticks), NEW all \in Seq(Ticks), NEW now \in Nat, NEW t,
         Rest(hits, all, t), Len(hits) >= Hits, hits[1] + Window >= now,
         \A i \in 1 .. Len(all) : \A j \in i .. Len(all) : all[i] <= all[j] + Lag
  PROVE  Cardinality({i \in DOMAIN all : all[i] + Window + Lag >= now}) >= Hits
<1> DEFINE late == {i \in DOMAIN all : all[i] + Window + Lag >= now}
<1>1. PICK k \in 0 .. Len(all) :
        /\ Len(hits) = Len(all) - k
        /\ \A i \in 1 .. Len(hits) : hits[i] = all[k + i]
  BY DEF Rest
<1>2. Len(all) \in Nat /\ DOMAIN all = 1 .. Len(all) /\ \A i \in 1 .. Len(all) : all[i] \in Nat
  BY TicksInSeq
<1>3. k + 1 \in 1 .. Len(all) /\ hits[1] = all[k + 1]
  <2>1. Len(hits) \in Nat /\ Len(hits) >= 1
    BY <1>1, <1>2, LimiterBounds
  <2> QED
    BY <1>1, <1>2, <2>1
<1>4. ASSUME NEW i \in k + 1 .. Len(all) PROVE i \in late
  <2>1. i \in 1 .. Len(all) /\ all[k + 1] <= all[i] + Lag
    BY <1>1, <1>2, <1>3
  <2>2. all[i] \in Nat /\ all[k + 1] \in Nat
    BY <1>2, <1>3, <2>1
  <2>3. all[i] + Window + Lag >= now
    BY <1>3, <2>1, <2>2, LimiterBounds
  <2> QED
    BY <1>2, <2>1, <2>3
<1>5. IsFiniteSet(k + 1 .. Len(all)) /\ Cardinality(k + 1 .. Len(all)) = Len(all) - k
  BY <1>1, <1>2, <1>3, FS_Interval
<1>6. IsFiniteSet(1 .. Len(all))
  BY <1>2, FS_Interval
<1>7. IsFiniteSet(late) /\ late \subseteq 1 .. Len(all)
  BY <1>2, <1>6, FS_Subset
<1>8. k + 1 .. Len(all) \subseteq late
  BY <1>4
<1> HIDE DEF late
<1>9. Cardinality(k + 1 .. Len(all)) <= Cardinality(late) /\ Cardinality(late) \in Nat
  BY <1>7, <1>8, FS_Subset, FS_CardinalityType
<1>10. Cardinality(late) >= Hits
  BY <1>1, <1>2, <1>5, <1>9, LimiterBounds
<1> QED
  BY <1>10 DEF late

LEMMA RefusalStep ==
  ASSUME LimiterInv, EnteredInTime, NEW w \in Checker, Ask(w), NEW c, c = checker[w].key,
         passed'[c] = passed[c]
  PROVE  Cardinality({i \in DOMAIN passed[c] : passed[c][i] + Window + Lag >= checker[w].now}) >= Hits
<1>1. PICK now : now = checker[w].now
  OBVIOUS
<1>2. PICK table : table = Swept(now)
  OBVIOUS
<1>3. c \in Client /\ now \in Ticks /\ now \in Nat /\ tick \in Nat /\ now <= tick
  BY <1>1, LimiterBounds DEF Ask, LimiterInv, LimiterTypes, WaitOK, Check, Ticks
<1>4. PICK cutoff \in Int : cutoff = now - Window
  BY <1>3, LimiterBounds
<1>5. PICK hits : hits = Pruned(table.hits[c], cutoff)
  OBVIOUS
<1>6. passed'[c] = IF Len(hits) < Hits THEN Append(passed[c], now) ELSE passed[c]
  BY <1>1, <1>2, <1>3, <1>4, <1>5 DEF Ask
<1>7. bucket[c] \in Seq(Ticks) /\ passed[c] \in Seq(Ticks) /\ Rest(bucket[c], passed[c], tick)
  BY <1>3 DEF LimiterInv, LimiterTypes, RestOK
<1>8. ~(Len(hits) < Hits)
  <2>1. Len(Append(passed[c], now)) = Len(passed[c]) + 1 /\ Len(passed[c]) \in Nat
    BY <1>7
  <2>2. Append(passed[c], now) # passed[c]
    BY <2>1
  <2> QED
    BY <1>6, <2>2
<1>9. table.hits[c] \in Seq(Ticks) /\ Rest(table.hits[c], passed[c], tick)
  <2>1. table.hits[c] = Pruned(bucket[c], now - Window) \/ table.hits[c] = bucket[c]
    BY <1>2, <1>3 DEF Swept
  <2>2. Pruned(bucket[c], now - Window) \in Seq(Ticks)
    BY <1>4, <1>7, PrunedIsRest
  <2>3. Rest(Pruned(bucket[c], now - Window), passed[c], tick)
    BY <1>3, <1>7, PrunedKeepsRest
  <2> QED
    BY <1>7, <2>1, <2>2, <2>3
<1>10. hits \in Seq(Ticks) /\ Len(hits) \in Nat
  <2>1. hits \in Seq(Ticks)
    BY <1>5, <1>9, PrunedIsRest
  <2> QED
    BY <2>1
<1>11. Rest(hits, passed[c], tick)
  BY <1>3, <1>4, <1>5, <1>7, <1>9, PrunedKeepsRest
<1>12. hits[1] + Window >= now
  <2>1. Len(hits) > 0 /\ hits[1] \in Nat
    BY <1>8, <1>10, LimiterBounds, TicksInSeq
  <2>2. hits[1] >= cutoff
    BY <1>5, <1>9, <2>1, PrunedStartsYoung
  <2> QED
    BY <1>3, <1>4, <2>1, <2>2, LimiterBounds
<1>13. \A i \in 1 .. Len(passed[c]) : \A j \in i .. Len(passed[c]) : passed[c][i] <= passed[c][j] + Lag
  BY <1>3 DEF EnteredInTime
<1>14. Len(hits) >= Hits
  BY <1>8, <1>10, LimiterBounds
<1>15. PICK all : all = passed[c]
  OBVIOUS
<1>16. all \in Seq(Ticks) /\ Rest(hits, all, tick)
       /\ \A i \in 1 .. Len(all) : \A j \in i .. Len(all) : all[i] <= all[j] + Lag
  BY <1>7, <1>11, <1>13, <1>15
<1>17. Cardinality({i \in DOMAIN all : all[i] + Window + Lag >= now}) >= Hits
  BY <1>3, <1>10, <1>12, <1>14, <1>16, FullForCause
<1> QED
  BY <1>1, <1>15, <1>17

\* A check refuses a client only when Hits of its own hits are in the window that ends
\* now, but for what threads wait for the lock (SlidingWindowRateLimiter.check): no
\* sweep, no eviction and no hit of another key takes anything from it.
THEOREM RefusalsHaveCause == LimiterSpec => RefusedForCause
<1>1. ASSUME LimiterInv, EnteredInTime, [LimiterNext]_limiterVars
      PROVE  [\A w \in Checker :
                LET c == checker[w].key
                IN  checker[w] # None /\ checker'[w] = None /\ passed'[c] = passed[c]
                    => Cardinality({i \in DOMAIN passed[c] :
                                      passed[c][i] + Window + Lag >= checker[w].now}) >= Hits]_limiterVars
  <2> SUFFICES ASSUME LimiterNext, NEW w \in Checker, NEW c, c = checker[w].key,
                      checker[w] # None, checker'[w] = None, passed'[c] = passed[c]
               PROVE  Cardinality({i \in DOMAIN passed[c] :
                                     passed[c][i] + Window + Lag >= checker[w].now}) >= Hits
    BY <1>1
  <2>1. ~Tick
    BY DEF Tick
  <2>2. ASSUME NEW v \in Checker, NEW k \in Client, ReadClock(v, k) PROVE FALSE
    BY <1>1, <2>2 DEF ReadClock, LimiterInv, LimiterTypes
  <2>3. ASSUME NEW v \in Checker, Ask(v) PROVE v = w
    BY <1>1, <2>3 DEF Ask, LimiterInv, LimiterTypes
  <2>4. Ask(w)
    BY <2>1, <2>2, <2>3 DEF LimiterNext
  <2> QED
    BY <1>1, <2>4, RefusalStep
<1> QED
  BY <1>1, LimiterInvInit, LimiterInvStep, EnteredInit, EnteredStep, PTL DEF LimiterSpec, RefusedForCause
=============================================================================
