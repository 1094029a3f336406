---------------------------- MODULE RateLimiter ----------------------------
(***************************************************************************)
(* The sliding-window limiter that the public pages, the login and the API *)
(* share as a class (fakturek/rate_limit.py).                              *)
(*                                                                         *)
(* A thread reads the clock, and only then waits for the lock under which  *)
(* the table of buckets is swept, filled and asked; so the times in a      *)
(* bucket need not be in order.  A thread waits at most Lag for the lock.  *)
(***************************************************************************)
EXTENDS Common, Integers, Sequences, FiniteSets

CONSTANTS
  Client,        \* the keys that are checked
  Checker,       \* threads that check a key at the same time
  Hits,          \* max_requests
  Window,        \* window_seconds
  SweepEvery,    \* the pause between two sweeps
  TableSize,     \* max_buckets
  Lag,           \* the longest wait for the lock
  LastTick,      \* bound: the clock
  MaxChecks      \* bound: how many checks are made

ASSUME RateLimiterAssumption ==
  /\ Hits \in Nat \ {0} /\ Window \in Nat \ {0} /\ TableSize \in Nat \ {0}
  /\ SweepEvery \in Nat /\ Lag \in Nat /\ Lag <= Window
  /\ LastTick \in Nat /\ MaxChecks \in Nat
  /\ None \notin Client

VARIABLES
  tick,          \* the monotonic clock
  known,         \* the keys of the table
  before,        \* its order: pairs of keys, the first one used before the second
  bucket,        \* the hits of each key; of keys that are in the table
  swept,         \* when the table was swept
  checker,       \* what each thread checks: a key and what it read from the clock
  passed,        \* history: the hits that were let through since the key was evicted
  checks         \* counts the checks

limiterVars == <<tick, known, before, bucket, swept, checker, passed, checks>>

Ticks == 0 .. LastTick

Check == [key : Client, now : Ticks]

(* The order of use puts the keys in a row. *)
InARow(keys, order) ==
  /\ order \subseteq keys \X keys
  /\ \A k \in keys : <<k, k>> \notin order
  /\ \A k, l \in keys : k # l => (<<k, l>> \in order <=> <<l, k>> \notin order)
  /\ \A k, l, m \in keys : <<k, l>> \in order /\ <<l, m>> \in order => <<k, m>> \in order

RateLimiterTypeOK ==
  /\ tick \in Ticks /\ swept \in Ticks
  /\ known \in SUBSET Client /\ IsFiniteSet(known) /\ Cardinality(known) <= TableSize
  /\ InARow(known, before)
  /\ bucket \in [Client -> Seq(Ticks)]
  /\ \A c \in Client : Len(bucket[c]) <= Hits /\ (bucket[c] # <<>> => c \in known)
  /\ checker \in [Checker -> Check \cup {None}]
  /\ passed \in [Client -> Seq(Ticks)]
  /\ checks \in 0 .. MaxChecks

(* The clock goes on while threads wait, though none waits for ever. *)
Tick ==
  /\ tick < LastTick
  /\ \A w \in Checker : checker[w] # None => tick < checker[w].now + Lag
  /\ tick' = tick + 1
  /\ UNCHANGED <<known, before, bucket, swept, checker, passed, checks>>

ReadClock(w, c) ==
  /\ checker[w] = None /\ checks < MaxChecks
  /\ checker' = [checker EXCEPT ![w] = [key |-> c, now |-> tick]]
  /\ checks' = checks + 1
  /\ UNCHANGED <<tick, known, before, bucket, swept, passed>>

\* Mutant of Pruned: a bucket goes as a whole when its oldest hit is too old.
PrunedByFirst(hits, cutoff) ==
  IF hits # <<>> /\ hits[1] < cutoff THEN <<>> ELSE hits

\* Mutant of Pruned: a bucket is kept or forgotten as a whole, by its last hit.
PrunedByLast(hits, cutoff) ==
  IF hits # <<>> /\ hits[Len(hits)] < cutoff THEN <<>> ELSE hits

(* What is left of a bucket: hits go from the front, up to the first that is *)
(* young enough.                                                             *)
Pruned(hits, cutoff) ==
  LET young == {i \in DOMAIN hits : hits[i] >= cutoff}
  IN  IF young = {} THEN <<>>
      ELSE SubSeq(hits, CHOOSE i \in young : \A j \in young : i <= j, Len(hits))

SweepDue(now) == Cardinality(known) >= TableSize \/ now - swept >= SweepEvery

(* The table after _sweep_expired: its keys, its buckets. *)
Swept(now) ==
  LET young == [c \in Client |-> Pruned(bucket[c], now - Window)]
  IN  IF SweepDue(now)
      THEN [keys |-> {c \in known : young[c] # <<>>}, hits |-> young]
      ELSE [keys |-> known, hits |-> bucket]

(* The key that goes when a new one comes and the table is full: the one that *)
(* has not been used for the longest time.                                    *)
LeastRecent(keys) == CHOOSE k \in keys : \A l \in keys \ {k} : <<k, l>> \in before

Evicted(keys, c) ==
  IF c \notin keys /\ Cardinality(keys) >= TableSize THEN {LeastRecent(keys)} ELSE {}

Ask(w) ==
  LET c     == checker[w].key
      now   == checker[w].now
      table == Swept(now)
      gone  == Evicted(table.keys, c)
      stay  == table.keys \ (gone \cup {c})
      hits  == Pruned(table.hits[c], now - Window)
      pass  == Len(hits) < Hits
  IN  /\ checker[w] # None
      /\ checker' = [checker EXCEPT ![w] = None]
      /\ swept' = IF SweepDue(now) THEN now ELSE swept
      /\ known' = stay \cup {c}
      /\ before' = (before \cap (stay \X stay)) \cup (stay \X {c})
      /\ bucket' = [k \in Client |-> IF k = c THEN IF pass THEN Append(hits, now) ELSE hits
                                     ELSE IF k \in gone THEN <<>> ELSE table.hits[k]]
      /\ passed' = [k \in Client |-> IF k = c THEN IF pass THEN Append(passed[k], now) ELSE passed[k]
                                     ELSE IF k \in gone THEN <<>> ELSE passed[k]]
      /\ UNCHANGED <<tick, checks>>

LimiterInit ==
  /\ tick = 0 /\ swept = 0 /\ checks = 0
  /\ known = {} /\ before = {}
  /\ bucket = [c \in Client |-> <<>>]
  /\ checker = [w \in Checker |-> None]
  /\ passed = [c \in Client |-> <<>>]

LimiterNext ==
  \/ Tick
  \/ \E w \in Checker :
       \/ \E c \in Client : ReadClock(w, c)
       \/ Ask(w)

LimiterSpec == LimiterInit /\ [][LimiterNext]_limiterVars

(* A client that is not evicted gets through at most Hits times in a window,   *)
(* less what threads may wait for the lock: no check forgets a hit another one *)
(* has to count (SlidingWindowRateLimiter.check).                              *)
WindowLimit ==
  \A c \in Client : \A from \in Ticks :
    Cardinality({i \in DOMAIN passed[c] : passed[c][i] \in from .. (from + Window - Lag)}) <= Hits

(* A client is refused only when it got through Hits times in the last window, *)
(* give or take what threads may wait for the lock: hits that went together    *)
(* with another key's, or that are long past, lock nobody out                  *)
(* (SlidingWindowRateLimiter._prune_bucket, _sweep_expired, popitem).          *)
RefusedForCause ==
  [][\A w \in Checker :
       LET c == checker[w].key
       IN  checker[w] # None /\ checker'[w] = None /\ passed'[c] = passed[c]
           => Cardinality({i \in DOMAIN passed[c] :
                             passed[c][i] + Window + Lag >= checker[w].now}) >= Hits]_limiterVars

=============================================================================
