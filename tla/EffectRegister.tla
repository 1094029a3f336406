--------------------------- MODULE EffectRegister ---------------------------
(***************************************************************************)
(* What the Idempotency-Key of the API promises its clients, with no       *)
(* mention of transactions, rights or counters: a register of effects and  *)
(* of what was told about them.  An effect is made and told in one step,   *)
(* and under a key only while there is none of that key; after that its    *)
(* answer can only be repeated, to calls with its body.  Nothing that was  *)
(* made or told is taken back.                                             *)
(*                                                                         *)
(* For some keys this is not the whole effect: what they stand for may be  *)
(* tried, in parts or as a whole, any number of times besides.             *)
(***************************************************************************)

CONSTANTS
  NoKey,      \* stands for a call without one
  Whole,      \* the keys with no effect besides the one that is told
  Effect      \* effects: each has a key, or NoKey, and a body

VARIABLES
  made,       \* the effects that were made and told
  tried,      \* what was done besides
  told        \* what calls with a key were answered

\* What a call with the key and the body of an effect is told; of calls without a key
\* nothing is remembered.
About(e) ==
  IF e.key = NoKey THEN {} ELSE {[key |-> e.key, body |-> e.body, answer |-> e]}

Init == made = {} /\ tried = {} /\ told = {}

Make(e) ==
  /\ e.key # NoKey => \A f \in made : f.key # e.key
  /\ made' = made \cup {e}
  /\ told' = told \cup About(e)
  /\ UNCHANGED tried

Try(e) ==
  /\ e.key \notin Whole \cup {NoKey}
  /\ tried' = tried \cup {[key |-> e.key, body |-> e.body]}
  /\ UNCHANGED <<made, told>>

Repeat(e) ==
  /\ told' = told \cup About(e)
  /\ UNCHANGED <<made, tried>>

Next ==
  \/ \E e \in Effect \ made : Make(e)
  \/ \E e \in Effect : Try(e)
  \/ \E e \in made : Repeat(e)

Spec == Init /\ [][Next]_<<made, tried, told>>

=============================================================================
