------------------------------ MODULE ApiCalls ------------------------------
(***************************************************************************)
(* A call of the JSON API (fakturek/api_v1.py): who may make it, the       *)
(* monthly quota of its token, and the Idempotency-Key under which its     *)
(* answer is kept.                                                         *)
(*                                                                         *)
(* A call has two transactions.  The first reads the token and counts the  *)
(* call; its commit makes the session forget what it has read, so the      *)
(* second one reads the rights again, looks for an answer kept under the   *)
(* key, and otherwise commits the effect and its answer together.  Two     *)
(* kinds of calls do something before: a synchronisation of all accounts   *)
(* commits them one by one, and a mail has left, or its failure is         *)
(* committed, when there is no answer yet.  Calls run in threads, the      *)
(* pages that revoke a token or change the rights of its user beside them, *)
(* and the client repeats a call it has no answer to.                      *)
(*                                                                         *)
(* A key stands for the user, the method, the path and the header that the *)
(* unique key of the table is made of; the path tells which kind of call it *)
(* is.                                                                     *)
(***************************************************************************)
EXTENDS Common, Integers, FiniteSets

CONSTANTS
  Caller,       \* threads that serve calls at the same time
  ApiToken,     \* the tokens of one user
  IdemKey,
  KindOf,       \* per key: which kind of call its path serves
  Body,         \* the digests of what calls carry
  Quota,        \* api_monthly_quota_max
  MaxEffects,   \* bound: how many effects are committed
  MaxGrants     \* bound: how often tokens and rights are changed

ASSUME ApiCallsAssumption ==
  /\ Quota \in Nat \ {0} /\ MaxEffects \in Nat \ {0} /\ MaxGrants \in Nat
  /\ None \notin IdemKey
  /\ KindOf \in [IdemKey -> {"write", "run", "mail"}]

VARIABLES
  usable,     \* tokens that are neither revoked nor expired
  right,      \* of the user to the subject of the tokens
  usage,      \* per token: the count of the month, None while there is no row
  kept,       \* per key: the call whose answer is kept, or None
  call,       \* what each thread serves
  effects,    \* history: the calls whose effect was committed with its answer
  tried,      \* history: the calls with a key that did something before
  answers,    \* history: what calls with a key were answered
  grants      \* counts the changes of tokens and rights

apiVars == <<usable, right, usage, kept, call, effects, tried, answers, grants>>

Rights == [view : BOOLEAN, edit : BOOLEAN]

\* A call: what the client sent; an effect: which one it is.
Sent == [token : ApiToken, key : IdemKey \cup {None}, body : Body]
Effect == [key : IdemKey \cup {None}, body : Body, nth : 1 .. MaxEffects]
Attempt == [key : IdemKey, body : Body]
Serving == [step : {"counted", "opened", "working", "mailed"}, sent : Sent,
            used : (0 .. Quota) \cup {None}]

ASSUME NoneIsNoEffect == None \notin Effect

ApiCallsTypeOK ==
  /\ usable \subseteq ApiToken /\ right \in Rights
  /\ usage \in [ApiToken -> (0 .. Quota) \cup {None}]
  /\ \A k \in IdemKey : kept[k] # None => kept[k] \in effects
  /\ \A w \in Caller : call[w] # None => call[w] \in Serving
  /\ effects \subseteq Effect /\ tried \subseteq Attempt
  /\ answers \subseteq [key : IdemKey, body : Body, answer : Effect]
  /\ grants \in 0 .. MaxGrants

(* The pages that create and revoke tokens, the page that changes what a user *)
(* may do; a token also expires.                                              *)
RevokeToken(t) ==
  /\ t \in usable /\ usable' = usable \ {t}
  /\ grants < MaxGrants /\ grants' = grants + 1
  /\ UNCHANGED <<right, usage, kept, call, effects, tried, answers>>

CreateToken(t) ==
  /\ right.view
  /\ t \notin usable /\ usage[t] = None /\ usable' = usable \cup {t}
  /\ grants < MaxGrants /\ grants' = grants + 1
  /\ UNCHANGED <<right, usage, kept, call, effects, tried, answers>>

ChangeRights(r) ==
  /\ r \in Rights /\ r # right /\ right' = r
  /\ grants < MaxGrants /\ grants' = grants + 1
  /\ UNCHANGED <<usable, usage, kept, call, effects, tried, answers>>

(* _require_api_actor: everything is read in one snapshot. *)
Authorise(w, sent) ==
  /\ call[w] = None
  /\ sent.token \in usable /\ right.view
  /\ usage[sent.token] # None => usage[sent.token] < Quota
  /\ call' = [call EXCEPT ![w] = [step |-> "counted", sent |-> sent, used |-> usage[sent.token]]]
  /\ UNCHANGED <<usable, right, usage, kept, effects, tried, answers, grants>>

(* The count is written as it was read plus one; of two calls that both found *)
(* no row one is refused by the unique key, and ends.                         *)
CountCall(w) ==
  /\ call[w] # None /\ call[w].step = "counted"
  /\ LET t == call[w].sent.token
         u == call[w].used
     IN  IF u = None /\ usage[t] # None
         THEN call' = [call EXCEPT ![w] = None] /\ UNCHANGED usage
         ELSE /\ usage' = [usage EXCEPT ![t] = IF u = None THEN 1 ELSE u + 1]
              /\ call' = [call EXCEPT ![w].step = "opened"]
  /\ UNCHANGED <<usable, right, kept, effects, tried, answers, grants>>

(* What _replay_idempotent_response finds: an answer for this call or for another. *)
Kept(sent) == IF sent.key = None THEN None ELSE kept[sent.key]

Answered(sent, effect) ==
  IF sent.key = None THEN answers
  ELSE answers \cup {[key |-> sent.key, body |-> sent.body, answer |-> effect]}

(* The second transaction: the rights as they are now, then the kept answer.  A *)
(* key that was used with another body is refused.                              *)
OpenCall(w) ==
  /\ call[w] # None /\ call[w].step = "opened"
  /\ LET sent  == call[w].sent
         found == Kept(sent)
     IN  IF ~right.edit
         THEN call' = [call EXCEPT ![w] = None] /\ UNCHANGED answers
         ELSE IF found # None
         THEN /\ call' = [call EXCEPT ![w] = None]
              /\ answers' = IF found.body = sent.body THEN Answered(sent, found) ELSE answers
         ELSE call' = [call EXCEPT ![w].step = "working"] /\ UNCHANGED answers
  /\ UNCHANGED <<usable, right, usage, kept, effects, tried, grants>>

(* The unique key of api_idempotency_keys. *)
\* Mutant of KeyTaken: the table has no unique key, and the last answer is kept.
KeyFree(sent) == FALSE

KeyTaken(sent) == sent.key # None /\ kept[sent.key] # None

(* Without a key nothing is kept, and what comes before the answer makes no difference. *)
Kind(sent) == IF sent.key = None THEN "write" ELSE KindOf[sent.key]

Tries(w) == tried' = tried \cup {[key |-> call[w].sent.key, body |-> call[w].sent.body]}

(* run_subject_bank_sync: one account, with a commit of its own. *)
SyncAccount(w) ==
  /\ call[w] # None /\ call[w].step = "working" /\ Kind(call[w].sent) = "run"
  /\ Tries(w)
  /\ UNCHANGED <<usable, right, usage, kept, call, effects, answers, grants>>

(* send_invoice_email: the mail leaves, or its failure is committed and the call
   ends with an answer that is not kept. *)
MailOfCall(w) ==
  /\ call[w] # None /\ call[w].step = "working" /\ Kind(call[w].sent) = "mail"
  /\ Tries(w)
  /\ \/ call' = [call EXCEPT ![w].step = "mailed"]
     \/ call' = [call EXCEPT ![w] = None]
  /\ UNCHANGED <<usable, right, usage, kept, effects, answers, grants>>

(* Effect and answer, in one commit; of a run the answer only, of a mail its log. *)
CommitCall(w) ==
  /\ call[w] # None
  /\ call[w].step = IF Kind(call[w].sent) = "mail" THEN "mailed" ELSE "working"
  /\ Cardinality(effects) < MaxEffects
  /\ LET sent   == call[w].sent
         effect == [key |-> sent.key, body |-> sent.body, nth |-> Cardinality(effects) + 1]
     IN  /\ ~KeyTaken(sent)
         /\ effects' = effects \cup {effect}
         /\ kept' = [k \in IdemKey |-> IF k = sent.key THEN effect ELSE kept[k]]
         /\ answers' = Answered(sent, effect)
  /\ call' = [call EXCEPT ![w] = None]
  /\ UNCHANGED <<usable, right, usage, tried, grants>>

(* A call fails: the key is taken by then, the row it changes is gone, the client *)
(* hangs up, the process dies.                                                    *)
DropCall(w) ==
  /\ call[w] # None
  /\ call' = [call EXCEPT ![w] = None]
  /\ UNCHANGED <<usable, right, usage, kept, effects, tried, answers, grants>>

ApiInit ==
  /\ usable = ApiToken /\ right = [view |-> TRUE, edit |-> TRUE]
  /\ usage = [t \in ApiToken |-> None]
  /\ kept = [k \in IdemKey |-> None]
  /\ call = [w \in Caller |-> None]
  /\ effects = {} /\ tried = {} /\ answers = {} /\ grants = 0

ApiNext ==
  \/ \E t \in ApiToken : RevokeToken(t) \/ CreateToken(t)
  \/ \E r \in Rights : ChangeRights(r)
  \/ \E w \in Caller :
       \/ \E sent \in Sent : Authorise(w, sent)
       \/ CountCall(w) \/ OpenCall(w)
       \/ SyncAccount(w) \/ MailOfCall(w) \/ CommitCall(w) \/ DropCall(w)

ApiSpec == ApiInit /\ [][ApiNext]_apiVars

(* However calls with one key overlap, fail and are repeated, one answer is kept    *)
(* for them with what was committed beside it, and whoever gets an answer gets that *)
(* one, for the body it was made of (_replay_idempotent_response,                   *)
(* _remember_idempotent_response, the unique key of api_idempotency_keys).  Most    *)
(* calls have no other effect; a run or a mail may have been tried before and, by a *)
(* call that was under way, even after.                                             *)
OneEffectPerKey ==
  /\ \A e, f \in effects : e.key = f.key /\ e.key # None => e = f
  /\ \A a \in answers : a.answer \in effects /\ a.answer.key = a.key /\ a.answer.body = a.body
  /\ \A a \in tried : KindOf[a.key] # "write"

\* The calls implement the register of effects: each step makes one effect and tells
\* its answer, repeats an answer, tries what may be tried more than once, or does
\* none of this.
Register == INSTANCE EffectRegister WITH
  NoKey <- None, Whole <- {k \in IdemKey : KindOf[k] = "write"},
  made <- effects, told <- answers

EffectRegisterSpec == Register!Spec

=============================================================================
