--------------------------- MODULE SubjectAccess ---------------------------
(***************************************************************************)
(* Subjects, the users who have access to them, and the subject each user  *)
(* works with (the access pages of fakturek/main.py).                      *)
(*                                                                         *)
(* A request passes the middleware, which looks at the rights to the       *)
(* subject of the session; its handler runs later, reads what it needs     *)
(* again, and works to its end before another handler of these pages does: *)
(* they are coroutines of one event loop and wait for nothing after the    *)
(* form.  What the rights to issue and to export allow is left out: they   *)
(* are kept the way the right to edit is.                                  *)
(***************************************************************************)
EXTENDS Common, Integers, FiniteSetsExt

CONSTANTS
  Person,       \* users
  SubjectId,    \* subjects, numbers
  Roles,        \* roles of this instance
  MaxAccesses   \* bound: requests that change something

ASSUME SubjectAccessAssumption ==
  /\ SubjectId \subseteq Nat /\ 1 \in SubjectId
  /\ Roles \subseteq {"owner", "manager", "accountant", "viewer", "user"} /\ "owner" \in Roles
  /\ MaxAccesses \in Nat

VARIABLES
  existing,        \* subjects that exist
  standing,      \* per person: "none", "active", "cancelled"
  link,         \* per person and subject: the row of user_subjects, or None
  followed,     \* subjects with a bank account that is synchronised
  at,           \* the subject of the person's session; None when logged out
  request,      \* the subject of a request the middleware let pass, or None
  accesses

accessVars == <<existing, standing, link, followed, at, request, accesses>>

LinkRow == [role : Roles, view : BOOLEAN, edit : BOOLEAN]

ASSUME NoneIsNoLink == None \notin LinkRow \cup Roles

SubjectAccessTypeOK ==
  /\ existing \subseteq SubjectId /\ followed \subseteq existing
  /\ standing \in [Person -> {"none", "active", "cancelled"}]
  /\ link \in [Person -> [SubjectId -> LinkRow \cup {None}]]
  /\ at \in [Person -> SubjectId \cup {None}] /\ request \in [Person -> SubjectId \cup {None}]
  /\ accesses \in 0 .. MaxAccesses

(***************************************************************************)
(* What the rows say.                                                      *)
(***************************************************************************)
Role(p, s) == IF link[p][s] = None THEN None ELSE link[p][s].role

Owners(s) == {p \in Person : Role(p, s) = "owner"}

(* _normalize_subject_access_flags *)
Normalised(row) ==
  CASE row.role \in {"owner", "manager"} -> [row EXCEPT !.view = TRUE, !.edit = TRUE]
    [] row.role = "accountant"           -> [row EXCEPT !.view = TRUE]
    [] row.role = "viewer"               -> [row EXCEPT !.view = TRUE, !.edit = FALSE]
    [] OTHER                             -> [row EXCEPT !.view = row.view \/ row.edit]

ManagesUsers(p, s) == Role(p, s) \in {"owner", "manager"}

(* A manager changes no owner, and makes none. *)
\* Mutant of Manages: a manager's right to the users of the subject is enough.
ManagesAll(p, s, q) == ManagesUsers(p, s)

Manages(p, s, q) == Role(p, s) = "owner" \/ (Role(p, s) = "manager" /\ Role(q, s) # "owner")

Grantable(p, s) ==
  IF Role(p, s) = "owner" THEN Roles
  ELSE IF Role(p, s) = "manager" THEN Roles \ {"owner"} ELSE {}

\* Mutant of LastOwner: the subject whose only link is an owner's.
LastOwnerOnly(s) == Cardinality({p \in Person : link[p][s] # None}) <= 1

LastOwner(s) == Cardinality(Owners(s)) <= 1

Viewable(links, p) == {s \in SubjectId : links[p][s] # None /\ links[p][s].view}

(* _refresh_current_session_access_context *)
RefreshedAt(links, p, preferred) ==
  LET open == Viewable(links, p)
  IN  IF at[p] \in open THEN at[p]
      ELSE IF preferred \in open THEN preferred
      ELSE IF open # {} THEN Min(open)
      ELSE at[p]

(***************************************************************************)
(* Sessions.                                                               *)
(***************************************************************************)
\* A login opens the first subject the person may see, else the first, else the seeded one.
LogIn(p) ==
  /\ at[p] = None /\ standing[p] = "active"
  /\ LET linked == {s \in SubjectId : link[p][s] # None}
         open   == Viewable(link, p)
     IN  at' = [at EXCEPT ![p] = IF open # {} THEN Min(open)
                                 ELSE IF linked # {} THEN Min(linked) ELSE 1]
  /\ UNCHANGED <<existing, standing, link, followed, request, accesses>>

\* The middleware ends the session of a person who is not active any more.
LogOut(p) ==
  /\ at[p] # None /\ request[p] = None
  /\ at' = [at EXCEPT ![p] = None]
  /\ UNCHANGED <<existing, standing, link, followed, request, accesses>>

\* A page that is shown moves the session from a subject the person may not see.
ShowPage(p) ==
  /\ at[p] # None /\ standing[p] = "active" /\ request[p] = None
  /\ at' = [at EXCEPT ![p] = RefreshedAt(link, p, None)]
  /\ UNCHANGED <<existing, standing, link, followed, request, accesses>>

\* A request that changes something needs the right to edit the subject of the session.
Admit(p) ==
  /\ at[p] # None /\ standing[p] = "active" /\ request[p] = None
  /\ accesses < MaxAccesses /\ accesses' = accesses + 1
  /\ link[p][at[p]] # None /\ link[p][at[p]].edit
  /\ request' = [request EXCEPT ![p] = at[p]]
  /\ UNCHANGED <<existing, standing, link, followed, at>>

\* The request p made ends; nothing else in this step has changed it.
Served(p) == request[p] # None /\ request' = [request EXCEPT ![p] = None] /\ UNCHANGED accesses

\* A handler refuses the request.
Refuse(p) ==
  /\ Served(p)
  /\ UNCHANGED <<existing, standing, link, followed, at>>

SwitchSubject(p, s) ==
  /\ Served(p)
  /\ s \in Viewable(link, p)
  /\ at' = [at EXCEPT ![p] = s]
  /\ UNCHANGED <<existing, standing, link, followed>>

(***************************************************************************)
(* Subjects and access.                                                    *)
(***************************************************************************)
OwnerRow == [role |-> "owner", view |-> TRUE, edit |-> TRUE]

CreateSubject(p, s, switch) ==
  /\ Served(p)
  /\ s \notin existing /\ existing' = existing \cup {s}
  /\ link' = [link EXCEPT ![p][s] = OwnerRow]
  /\ at' = [at EXCEPT ![p] = IF switch THEN s ELSE RefreshedAt(link', p, None)]
  /\ UNCHANGED <<standing, followed>>

\* A person signs up; the mail that makes the account active is Accounts'.
SignUp(p, s) ==
  /\ standing[p] = "none" /\ s \notin existing
  /\ standing' = [standing EXCEPT ![p] = "active"]
  /\ existing' = existing \cup {s}
  /\ link' = [link EXCEPT ![p][s] = OwnerRow]
  /\ UNCHANGED <<followed, at, request, accesses>>

CreateUser(p, s, q, row) ==
  /\ Served(p)
  /\ ManagesUsers(p, s) /\ row.role \in Grantable(p, s)
  /\ standing[q] = "none"
  /\ standing' = [standing EXCEPT ![q] = "active"]
  /\ link' = [link EXCEPT ![q][s] = Normalised(row)]
  /\ at' = [at EXCEPT ![p] = RefreshedAt(link', p, None)]
  /\ UNCHANGED <<existing, followed>>

LinkUser(p, q, row) ==
  /\ Served(p)
  /\ LET s == request[p]
     IN  /\ ManagesUsers(p, s) /\ row.role \in Grantable(p, s)
         /\ standing[q] # "none" /\ link[q][s] = None
         /\ link' = [link EXCEPT ![q][s] = Normalised(row)]
         /\ at' = [at EXCEPT ![p] = RefreshedAt(link', p, None)]
  /\ UNCHANGED <<existing, standing, followed>>

(* The other subject that p goes on with. *)
Elsewhere(p, s) ==
  LET open == Viewable(link, p) \ {s}
  IN  IF open = {} THEN None ELSE Min(open)

UpdateAccess(p, q, row) ==
  /\ Served(p)
  /\ LET s   == request[p]
         new == Normalised(row)
     IN  /\ link[q][s] # None
         /\ ManagesUsers(p, s) /\ Manages(p, s, q) /\ row.role \in Grantable(p, s)
         /\ Role(q, s) = "owner" /\ row.role # "owner" => ~LastOwner(s)
         /\ p = q /\ ~new.view => Elsewhere(p, s) # None
         /\ link' = [link EXCEPT ![q][s] = new]
         /\ at' = [at EXCEPT ![p] = RefreshedAt(link', p, IF p = q /\ ~new.view
                                                          THEN Elsewhere(p, s) ELSE None)]
  /\ UNCHANGED <<existing, standing, followed>>

DeleteAccess(p, q) ==
  /\ Served(p)
  /\ LET s == request[p]
     IN  /\ link[q][s] # None
         /\ ManagesUsers(p, s) /\ Manages(p, s, q)
         /\ Role(q, s) = "owner" => ~LastOwner(s)
         /\ p = q => Elsewhere(p, s) # None
         /\ link' = [link EXCEPT ![q][s] = None]
         /\ at' = [at EXCEPT ![p] = RefreshedAt(link', p, IF p = q THEN Elsewhere(p, s) ELSE None)]
  /\ UNCHANGED <<existing, standing, followed>>

(***************************************************************************)
(* Cancelled accounts and the synchronisation of bank accounts.            *)
(***************************************************************************)
FollowBank(p) ==
  /\ Served(p)
  /\ request[p] \in existing /\ followed' = followed \cup {request[p]}
  /\ UNCHANGED <<existing, standing, link, at>>

(* _account_deletion_summary: the subjects that p alone owns. *)
SolelyOwned(p) == {s \in existing : Owners(s) = {p}}

CancelAccount(p) ==
  /\ Served(p)
  /\ standing[p] = "active"
  /\ standing' = [standing EXCEPT ![p] = "cancelled"]
  /\ followed' = followed \ SolelyOwned(p)
  /\ at' = [at EXCEPT ![p] = None]
  /\ UNCHANGED <<existing, link>>

AccessInit ==
  /\ existing = {1}
  /\ \E p \in Person :
       /\ standing = [q \in Person |-> IF q = p THEN "active" ELSE "none"]
       /\ link = [q \in Person |-> [s \in SubjectId |-> IF q = p /\ s = 1 THEN OwnerRow ELSE None]]
  /\ followed = {}
  /\ at = [p \in Person |-> None] /\ request = [p \in Person |-> None]
  /\ accesses = 0

AccessNext ==
  \E p \in Person :
    \/ LogIn(p) \/ LogOut(p) \/ ShowPage(p) \/ Admit(p) \/ Refuse(p)
    \/ FollowBank(p) \/ CancelAccount(p)
    \/ \E s \in SubjectId :
         \/ SwitchSubject(p, s) \/ SignUp(p, s)
         \/ \E switch \in BOOLEAN : CreateSubject(p, s, switch)
         \/ \E q \in Person, row \in LinkRow : CreateUser(p, s, q, row)
    \/ \E q \in Person :
         \/ DeleteAccess(p, q)
         \/ \E row \in LinkRow : LinkUser(p, q, row) \/ UpdateAccess(p, q, row)

AccessSpec == AccessInit /\ [][AccessNext]_accessVars

(* Whatever owners and managers take from each other and from themselves, a   *)
(* subject keeps an owner (settings_subject_user_update,                      *)
(* settings_subject_user_delete).                                             *)
SubjectHasOwner == \A s \in existing : Owners(s) # {}

(* Who owns a subject is changed by a request of an owner only: a manager who *)
(* adds, changes and removes users takes no subject over, in however many     *)
(* steps (_user_can_manage_subject_link, _subject_user_role_options).         *)
OwnersMakeOwners ==
  [][\A s \in existing : Owners(s)' # Owners(s) =>
       \E p \in Owners(s) : request[p] # None /\ request'[p] = None]_accessVars

=============================================================================
