--------------------------- MODULE EditingProofs ----------------------------
(***************************************************************************)
(* Proofs about DocumentEditing, for every set of threads and amounts and  *)
(* every bound: documents keep the total of their items, credit notes fit  *)
(* into what they give back, and an issued document stays issued.          *)
(***************************************************************************)
EXTENDS DocumentEditing, FiniteSetTheorems, SequenceTheorems,
        WellFoundedInduction, TLAPS

-----------------------------------------------------------------------------
(* Sums over finite sets.  MapThenSumSet is the value of a function that is
   defined by recursion on the subsets of the set; that there is one, and what it
   yields, is shown by counterexamples of least cardinality. *)

\* A set of naturals that is not empty has a least number.
LEMMA LeastNumber ==
  ASSUME NEW S, S \subseteq Nat, S # {}
  PROVE  \E x \in S : \A y \in S : ~(y < x)
<1>1. PICK m \in S : \A n \in S : ~(<<n, m>> \in OpToRel(<, Nat))
  BY NatLessThanWellFounded, WFMin
<1>2. ASSUME NEW y \in S PROVE ~(y < m)
  BY <1>1 DEF OpToRel
<1> QED
  BY <1>2

Picked(s) == CHOOSE x \in s : TRUE

\* The function f sums the weights wt over the subsets of S, element by element.
Entry(f, wt, s) == IF s = {} THEN 0 ELSE wt[Picked(s)] + f[s \ {Picked(s)}]
Tally(f, wt, S) == f = [s \in SUBSET S |-> Entry(f, wt, s)]

SumOver(wt, S) == (CHOOSE f : Tally(f, wt, S))[S]

LEMMA PickedSubset ==
  ASSUME NEW s, IsFiniteSet(s), s # {}
  PROVE  /\ Picked(s) \in s /\ IsFiniteSet(s \ {Picked(s)})
         /\ Cardinality(s) \in Nat /\ Cardinality(s) > 0
         /\ Cardinality(s \ {Picked(s)}) = Cardinality(s) - 1
<1>1. Picked(s) \in s
  BY DEF Picked
<1> QED
  BY <1>1, FS_CardinalityType, FS_EmptySet, FS_RemoveElement

\* Such a function exists for the subsets with at most n elements.
Small(S, n) == {s \in SUBSET S : Cardinality(s) <= n}
SmallTally(f, wt, S, n) == f = [s \in Small(S, n) |-> Entry(f, wt, s)]

LEMMA SmallTallyGrows ==
  ASSUME NEW wt, NEW S, IsFiniteSet(S), NEW n \in Nat, NEW f, SmallTally(f, wt, S, n)
  PROVE  \E g : SmallTally(g, wt, S, n + 1)
<1> DEFINE g == [s \in Small(S, n + 1) |-> Entry(f, wt, s)]
<1>1. Small(S, n) \subseteq Small(S, n + 1)
  BY FS_Subset, FS_CardinalityType DEF Small
<1>2. \A s \in Small(S, n) : f[s] = g[s]
  BY <1>1 DEF SmallTally
<1>3. ASSUME NEW s \in Small(S, n + 1), s # {}
      PROVE  s \ {Picked(s)} \in Small(S, n)
  <2>1. IsFiniteSet(s) /\ s \subseteq S /\ Cardinality(s) <= n + 1
    BY FS_Subset DEF Small
  <2> QED
    BY <2>1, <1>3, PickedSubset DEF Small
<1>4. \A s \in Small(S, n + 1) : Entry(f, wt, s) = Entry(g, wt, s)
  <2> HIDE DEF g
  <2> QED
    BY <1>2, <1>3 DEF Entry
<1>5. g = [s \in Small(S, n + 1) |-> Entry(f, wt, s)]
  OBVIOUS
<1> HIDE DEF g
<1>6. g = [s \in Small(S, n + 1) |-> Entry(g, wt, s)]
  BY <1>4, <1>5
<1> QED
  BY <1>6 DEF SmallTally

LEMMA TallyExists ==
  ASSUME NEW wt, NEW S, IsFiniteSet(S)
  PROVE  \E f : Tally(f, wt, S)
<1> DEFINE Bad == {n \in Nat : ~\E f : SmallTally(f, wt, S, n)}
<1>1. Bad = {}
  <2> SUFFICES ASSUME Bad # {} PROVE FALSE
    OBVIOUS
  <2>1. PICK n \in Bad : \A m \in Bad : ~(m < n)
    BY LeastNumber
  <2>2. CASE n = 0
    <3> DEFINE f == [s \in Small(S, 0) |-> 0]
    <3>1. \A s \in Small(S, 0) : s = {}
      BY FS_Subset, FS_EmptySet, FS_CardinalityType DEF Small
    <3>2. \A s \in Small(S, 0) : Entry(f, wt, s) = 0
      BY <3>1 DEF Entry
    <3>3. f = [s \in Small(S, 0) |-> Entry(f, wt, s)]
      BY <3>2
    <3>4. SmallTally(f, wt, S, 0)
      BY <3>3 DEF SmallTally
    <3> QED
      BY <2>1, <2>2, <3>4
  <2>3. CASE n # 0
    <3>1. n - 1 \in Nat /\ (n - 1) + 1 = n /\ n - 1 < n
      BY <2>3
    <3>2. n - 1 \notin Bad
      BY <2>1, <3>1
    <3>3. PICK f : SmallTally(f, wt, S, n - 1)
      BY <3>1, <3>2
    <3>4. \E g : SmallTally(g, wt, S, (n - 1) + 1)
      BY <3>1, <3>3, SmallTallyGrows
    <3> QED
      BY <2>1, <3>1, <3>4
  <2> QED
    BY <2>2, <2>3
<1>2. Cardinality(S) \in Nat
  BY FS_CardinalityType
<1>3. PICK f : SmallTally(f, wt, S, Cardinality(S))
  BY <1>1, <1>2
<1>4. Small(S, Cardinality(S)) = SUBSET S
  BY FS_Subset DEF Small
<1> QED
  BY <1>3, <1>4 DEF SmallTally, Tally

\* The sum does not depend on the order in which elements are picked.
Orderly(f, wt, s) ==
  f[s] \in Int /\ \A x \in s : f[s] = wt[x] + f[s \ {x}]

LEMMA TallyOrderly ==
  ASSUME NEW S, IsFiniteSet(S), NEW wt, \A x \in S : wt[x] \in Int,
         NEW f, Tally(f, wt, S), NEW s \in SUBSET S
  PROVE  Orderly(f, wt, s)
<1> DEFINE Bad == {Cardinality(t) : t \in {u \in SUBSET S : ~Orderly(f, wt, u)}}
<1>0. \A t \in SUBSET S : IsFiniteSet(t) /\ Cardinality(t) \in Nat
  BY FS_Subset, FS_CardinalityType
<1>1. Bad \subseteq Nat
  BY <1>0
<1> SUFFICES ASSUME Bad # {} PROVE FALSE
  OBVIOUS
<1>2. PICK n \in Bad : \A m \in Bad : ~(m < n)
  BY <1>1, LeastNumber
<1>3. PICK t \in SUBSET S : ~Orderly(f, wt, t) /\ Cardinality(t) = n
  BY <1>2
<1>4. \A u \in SUBSET S : Cardinality(u) < n => Orderly(f, wt, u)
  BY <1>2
<1> HIDE DEF Bad
<1>5. CASE t = {}
  BY <1>3, <1>5 DEF Orderly, Tally, Entry
<1>6. CASE t # {}
  <2> DEFINE p == Picked(t)
  <2>1. p \in t /\ f[t] = wt[p] + f[t \ {p}]
    BY <1>0, <1>6, PickedSubset DEF Tally, Entry
  <2> HIDE DEF p
  <2>2. \A x \in t : t \ {x} \in SUBSET S /\ Cardinality(t \ {x}) < n
    BY <1>0, <1>3, FS_RemoveElement
  <2>3. \A x \in t : Orderly(f, wt, t \ {x})
    BY <1>4, <2>2
  <2>4. f[t] \in Int
    BY <2>1, <2>3 DEF Orderly
  <2>5. ASSUME NEW x \in t, x # p PROVE f[t] = wt[x] + f[t \ {x}]
    <3>1. f[t \ {p}] = wt[x] + f[(t \ {p}) \ {x}]
      BY <2>1, <2>3, <2>5 DEF Orderly
    <3>2. f[t \ {x}] = wt[p] + f[(t \ {x}) \ {p}]
      BY <2>1, <2>3, <2>5 DEF Orderly
    <3>3. (t \ {p}) \ {x} = (t \ {x}) \ {p}
      OBVIOUS
    <3>4. (t \ {p}) \ {x} \in SUBSET S /\ Cardinality((t \ {p}) \ {x}) < n
      <4>1. IsFiniteSet(t \ {p}) /\ x \in t \ {p} /\ Cardinality(t \ {p}) \in Nat
        BY <1>0, <2>1, <2>2, <2>5
      <4>2. Cardinality((t \ {p}) \ {x}) = Cardinality(t \ {p}) - 1
        BY <4>1, FS_RemoveElement
      <4> QED
        BY <1>1, <1>2, <2>1, <2>2, <4>1, <4>2
    <3>5. f[(t \ {p}) \ {x}] \in Int
      BY <1>4, <3>4 DEF Orderly
    <3>6. wt[x] \in Int /\ wt[p] \in Int
      BY <2>1
    <3>7. PICK a \in Int, b \in Int, c \in Int :
            a = wt[p] /\ b = wt[x] /\ c = f[(t \ {p}) \ {x}]
      BY <3>5, <3>6
    <3>8. f[t] = a + (b + c)
      BY <2>1, <3>1, <3>7
    <3>9. f[t \ {x}] = a + c
      BY <3>2, <3>3, <3>7
    <3> QED
      BY <3>7, <3>8, <3>9
  <2> QED
    BY <1>3, <2>1, <2>4, <2>5 DEF Orderly
<1> QED
  BY <1>5, <1>6

\* Functions that sum weights which agree on T agree on the subsets of T.
LEMMA TalliesAgree ==
  ASSUME NEW S, IsFiniteSet(S), NEW wt, NEW f, Tally(f, wt, S),
         NEW T, IsFiniteSet(T), NEW ut, NEW g, Tally(g, ut, T),
         NEW R, R \subseteq S, R \subseteq T, \A x \in R : wt[x] = ut[x]
  PROVE  f[R] = g[R]
<1> DEFINE Bad == {Cardinality(t) : t \in {u \in SUBSET R : f[u] # g[u]}}
<1>0. \A t \in SUBSET R : IsFiniteSet(t) /\ Cardinality(t) \in Nat
  BY FS_Subset, FS_CardinalityType
<1>1. Bad \subseteq Nat
  BY <1>0
<1>2. Bad = {}
  <2> SUFFICES ASSUME Bad # {} PROVE FALSE
    OBVIOUS
  <2>1. PICK n \in Bad : \A m \in Bad : ~(m < n)
    BY <1>1, LeastNumber
  <2>2. PICK t \in SUBSET R : f[t] # g[t] /\ Cardinality(t) = n
    BY <2>1
  <2>3. \A u \in SUBSET R : Cardinality(u) < n => f[u] = g[u]
    BY <2>1
  <2> HIDE DEF Bad
  <2>4. f[t] = Entry(f, wt, t) /\ g[t] = Entry(g, ut, t)
    <3>1. t \in SUBSET S /\ t \in SUBSET T
      OBVIOUS
    <3> QED
      BY <3>1 DEF Tally
  <2>5. t # {}
    BY <2>2, <2>4 DEF Entry
  <2>6. Picked(t) \in t /\ t \ {Picked(t)} \in SUBSET R /\ Cardinality(t \ {Picked(t)}) < n
    BY <1>0, <2>2, <2>5, PickedSubset
  <2>7. wt[Picked(t)] = ut[Picked(t)] /\ f[t \ {Picked(t)}] = g[t \ {Picked(t)}]
    BY <2>3, <2>6
  <2> QED
    BY <2>2, <2>4, <2>5, <2>7 DEF Entry
<1> QED
  BY <1>2

LEMMA SumTally ==
  ASSUME NEW wt, NEW S, IsFiniteSet(S)
  PROVE  \E f : Tally(f, wt, S) /\ SumOver(wt, S) = f[S]
BY TallyExists DEF SumOver

LEMMA SumOfNothing == \A wt : SumOver(wt, {}) = 0
<1> TAKE wt
<1>1. PICK f : Tally(f, wt, {}) /\ SumOver(wt, {}) = f[{}]
  BY SumTally, FS_EmptySet
<1> QED
  BY <1>1 DEF Tally, Entry

LEMMA SumsAgree ==
  ASSUME NEW S, IsFiniteSet(S), NEW wt, NEW ut, \A x \in S : wt[x] = ut[x]
  PROVE  SumOver(wt, S) = SumOver(ut, S)
<1>1. PICK f : Tally(f, wt, S) /\ SumOver(wt, S) = f[S]
  BY SumTally
<1>2. PICK g : Tally(g, ut, S) /\ SumOver(ut, S) = g[S]
  BY SumTally
<1> QED
  BY <1>1, <1>2, TalliesAgree

LEMMA SumWithElement ==
  ASSUME NEW S, IsFiniteSet(S), NEW wt, \A x \in S : wt[x] \in Int
  PROVE  /\ SumOver(wt, S) \in Int
         /\ \A x \in S : SumOver(wt, S) = wt[x] + SumOver(wt, S \ {x})
<1>1. PICK f : Tally(f, wt, S) /\ SumOver(wt, S) = f[S]
  BY SumTally
<1>2. Orderly(f, wt, S)
  BY <1>1, TallyOrderly
<1>3. ASSUME NEW x \in S PROVE SumOver(wt, S \ {x}) = f[S \ {x}]
  <2>1. IsFiniteSet(S \ {x})
    BY FS_RemoveElement
  <2>2. PICK g : Tally(g, wt, S \ {x}) /\ SumOver(wt, S \ {x}) = g[S \ {x}]
    BY <2>1, SumTally
  <2> QED
    BY <1>1, <2>1, <2>2, TalliesAgree
<1> QED
  BY <1>1, <1>2, <1>3 DEF Orderly

\* The sum of the opposites is the opposite of the sum.
LEMMA SumOfOpposites ==
  ASSUME NEW S, IsFiniteSet(S), NEW wt, \A x \in S : wt[x] \in Int,
         NEW ut, \A x \in S : ut[x] = -wt[x]
  PROVE  SumOver(ut, S) = -SumOver(wt, S) /\ SumOver(wt, S) \in Int
<1>1. PICK f : Tally(f, wt, S) /\ SumOver(wt, S) = f[S]
  BY SumTally
<1>2. \A s \in SUBSET S : f[s] \in Int
  BY <1>1, TallyOrderly DEF Orderly
<1>3. PICK g : g = [s \in SUBSET S |-> -f[s]]
  OBVIOUS
<1>4. ASSUME NEW s \in SUBSET S PROVE g[s] = Entry(g, ut, s)
  <2>0. f[s] = Entry(f, wt, s) /\ g[s] = -f[s]
    BY <1>1, <1>3 DEF Tally
  <2>1. CASE s = {}
    <3>1. f[s] = 0 /\ Entry(g, ut, s) = 0
      BY <2>0, <2>1 DEF Entry
    <3>2. PICK a \in Int : a = f[s] /\ a <= 0 /\ a >= 0
      BY <1>2, <3>1
    <3>3. -a = a
      BY <3>2
    <3> QED
      BY <2>0, <3>1, <3>2, <3>3
  <2>2. CASE s # {}
    <3>1. IsFiniteSet(s)
      BY FS_Subset
    <3>2. PICK p : p = Picked(s) /\ p \in S /\ s \ {p} \in SUBSET S
      BY <2>2, <3>1, PickedSubset
    <3>3. PICK a \in Int, b \in Int : a = wt[p] /\ b = f[s \ {p}]
      BY <1>2, <3>2
    <3>4. f[s] = a + b /\ ut[p] = -a /\ g[s \ {p}] = -b
      BY <1>3, <2>0, <2>2, <3>2, <3>3 DEF Entry
    <3>5. -(a + b) = -a + -b
      OBVIOUS
    <3>6. g[s] = ut[p] + g[s \ {p}]
      BY <2>0, <3>4, <3>5
    <3> QED
      BY <2>2, <3>2, <3>6 DEF Entry
  <2> QED
    BY <2>1, <2>2
<1>5. Tally(g, ut, S)
  <2>1. [s \in SUBSET S |-> g[s]] = [s \in SUBSET S |-> Entry(g, ut, s)]
    BY <1>4
  <2>2. g = [s \in SUBSET S |-> g[s]]
    BY <1>3
  <2> QED
    BY <2>1, <2>2 DEF Tally
<1>6. PICK h : Tally(h, ut, S) /\ SumOver(ut, S) = h[S]
  BY SumTally
<1>7. h[S] = g[S]
  BY <1>5, <1>6, TalliesAgree
<1> QED
  BY <1>1, <1>2, <1>3, <1>6, <1>7

(* The sum of the items is such a sum. *)
CentsOf(ls) == [l \in ls |-> l.cents]

LEMMA SumIsSumOver ==
  ASSUME NEW ls, IsFiniteSet(ls)
  PROVE  Sum(ls) = SumOver(CentsOf(ls), ls)
<1> DEFINE Fold(f) == f = [s \in SUBSET ls |-> IF s = {} THEN 0 ELSE Picked(s).cents + f[s \ {Picked(s)}]]
           h == CHOOSE f : Fold(f)
<1>1. Sum(ls) = h[ls]
  BY DEF Sum, MapThenSumSet, MapThenFoldSet, Picked
<1>2. ASSUME NEW f PROVE Fold(f) <=> Tally(f, CentsOf(ls), ls)
  <2>1. ASSUME NEW s \in SUBSET ls
        PROVE  Entry(f, CentsOf(ls), s) = IF s = {} THEN 0 ELSE Picked(s).cents + f[s \ {Picked(s)}]
    <3>1. s # {} => Picked(s) \in ls
      BY DEF Picked
    <3> QED
      BY <3>1 DEF Entry, CentsOf
  <2>2. [s \in SUBSET ls |-> Entry(f, CentsOf(ls), s)]
          = [s \in SUBSET ls |-> IF s = {} THEN 0 ELSE Picked(s).cents + f[s \ {Picked(s)}]]
    BY <2>1
  <2> QED
    BY <2>2 DEF Tally
<1>3. PICK g : Tally(g, CentsOf(ls), ls) /\ SumOver(CentsOf(ls), ls) = g[ls]
  BY SumTally
<1>4. \E f : Fold(f)
  BY <1>2, <1>3
<1>5. Fold(h)
  BY <1>4
<1> HIDE DEF h, Fold
<1>6. Tally(h, CentsOf(ls), ls)
  BY <1>2, <1>5
<1> QED
  BY <1>1, <1>3, <1>6, TalliesAgree

\* Items whose cents are whole; all the sets below are finite.
LineSet(ls) == IsFiniteSet(ls) /\ \A l \in ls : l.cents \in Int

LEMMA SumOfItems ==
  /\ Sum({}) = 0
  /\ \A ls : LineSet(ls) => Sum(ls) \in Int
  /\ \A ls, l : LineSet(ls) /\ l \in ls => Sum(ls) = l.cents + Sum(ls \ {l})
<1>1. Sum({}) = 0
  BY SumIsSumOver, SumOfNothing, FS_EmptySet
<1>2. ASSUME NEW ls, LineSet(ls) PROVE Sum(ls) \in Int
  <2>1. \A l \in ls : CentsOf(ls)[l] \in Int
    BY <1>2 DEF LineSet, CentsOf
  <2> QED
    BY <1>2, <2>1, SumIsSumOver, SumWithElement DEF LineSet
<1>3. ASSUME NEW ls, NEW l \in ls, LineSet(ls) PROVE Sum(ls) = l.cents + Sum(ls \ {l})
  <2>1. IsFiniteSet(ls) /\ IsFiniteSet(ls \ {l})
    BY <1>3, FS_RemoveElement DEF LineSet
  <2>2. \A k \in ls : CentsOf(ls)[k] = k.cents /\ k.cents \in Int
    BY <1>3 DEF LineSet, CentsOf
  <2>3. SumOver(CentsOf(ls), ls) = l.cents + SumOver(CentsOf(ls), ls \ {l})
    BY <2>1, <2>2, SumWithElement
  <2>4. \A k \in ls \ {l} : CentsOf(ls)[k] = CentsOf(ls \ {l})[k]
    BY DEF CentsOf
  <2>5. SumOver(CentsOf(ls), ls \ {l}) = SumOver(CentsOf(ls \ {l}), ls \ {l})
    BY <2>1, <2>4, SumsAgree
  <2> QED
    BY <2>1, <2>3, <2>5, SumIsSumOver
<1> QED
  BY <1>1, <1>2, <1>3

\* Sums of amounts that are not negative grow with the set.
LEMMA SumsGrow ==
  ASSUME NEW S, IsFiniteSet(S), NEW wt, \A x \in S : wt[x] \in Nat
  PROVE  \A R \in SUBSET S : SumOver(wt, R) \in Nat /\ SumOver(wt, R) <= SumOver(wt, S)
<1> DEFINE Less(T) == SumOver(wt, T) \in Nat /\ \A R \in SUBSET T : SumOver(wt, R) <= SumOver(wt, T)
           Bad == {Cardinality(t) : t \in {u \in SUBSET S : ~Less(u)}}
<1>0. \A t \in SUBSET S : IsFiniteSet(t) /\ Cardinality(t) \in Nat
  BY FS_Subset, FS_CardinalityType
<1>1. Bad \subseteq Nat
  BY <1>0
<1>2. Bad = {}
  <2> SUFFICES ASSUME Bad # {} PROVE FALSE
    OBVIOUS
  <2>1. PICK n \in Bad : \A m \in Bad : ~(m < n)
    BY <1>1, LeastNumber
  <2>2. PICK t \in SUBSET S : ~Less(t) /\ Cardinality(t) = n
    BY <2>1
  <2>3. \A u \in SUBSET S : Cardinality(u) < n => Less(u)
    BY <2>1
  <2> HIDE DEF Bad
  <2>4. t # {}
    BY <2>2, SumOfNothing
  <2>5. ASSUME NEW x \in t
        PROVE  Less(t \ {x}) /\ SumOver(wt, t) = wt[x] + SumOver(wt, t \ {x}) /\ wt[x] \in Nat
    <3>1. t \ {x} \in SUBSET S /\ Cardinality(t \ {x}) < n
      BY <1>0, <2>2, FS_RemoveElement
    <3>2. Less(t \ {x})
      BY <2>3, <3>1
    <3>3. \A y \in t : wt[y] \in Int
      OBVIOUS
    <3>4. SumOver(wt, t) = wt[x] + SumOver(wt, t \ {x})
      BY <1>0, <3>3, SumWithElement
    <3> HIDE DEF Less
    <3> QED
      BY <3>2, <3>4
  <2>6. SumOver(wt, t) \in Nat
    <3>1. PICK x \in t : TRUE
      BY <2>4
    <3>2. PICK a \in Nat, b \in Nat : a = wt[x] /\ b = SumOver(wt, t \ {x})
      BY <2>5
    <3> QED
      BY <2>5, <3>2
  <2>7. ASSUME NEW R \in SUBSET t PROVE SumOver(wt, R) <= SumOver(wt, t)
    <3>1. CASE R = t
      BY <2>6, <3>1
    <3>2. CASE R # t
      <4>1. PICK x \in t : x \notin R
        BY <3>2
      <4>2. SumOver(wt, R) <= SumOver(wt, t \ {x}) /\ SumOver(wt, t \ {x}) \in Nat
        BY <2>5, <4>1
      <4>3. PICK a \in Nat, b \in Nat : a = wt[x] /\ b = SumOver(wt, t \ {x})
        BY <2>5, <4>2
      <4>4. SumOver(wt, t) = a + b
        BY <2>5, <4>3
      <4>5. R \in SUBSET S /\ \A y \in R : wt[y] \in Int
        OBVIOUS
      <4>6. SumOver(wt, R) \in Int
        BY <1>0, <4>5, SumWithElement
      <4> QED
        BY <4>2, <4>3, <4>4, <4>6
    <3> QED
      BY <3>1, <3>2
  <2> QED
    BY <2>2, <2>6, <2>7
<1>3. \A R \in SUBSET S : Less(R)
  BY <1>2
<1> QED
  BY <1>3

LEMMA SizeIsNat == \A n \in Int : Size(n) \in Nat
BY DEF Size

LEMMA MaxOfTwo ==
  ASSUME NEW a \in Int, NEW b \in Int
  PROVE  Max({a, b}) = IF a >= b THEN a ELSE b
BY DEF Max

(* What the documents N give back, with the rows D. *)
CreditOf(D, N) == MapThenSumSet(LAMBDA d : Size(D[d].total), N)
SizesOf(D, N) == [d \in N |-> Size(D[d].total)]

LEMMA CreditIsSumOver ==
  ASSUME NEW D, NEW N, IsFiniteSet(N)
  PROVE  CreditOf(D, N) = SumOver(SizesOf(D, N), N)
<1> DEFINE Fold(f) == f = [s \in SUBSET N |-> IF s = {} THEN 0
                                              ELSE Size(D[Picked(s)].total) + f[s \ {Picked(s)}]]
           h == CHOOSE f : Fold(f)
<1>1. CreditOf(D, N) = h[N]
  BY DEF CreditOf, MapThenSumSet, MapThenFoldSet, Picked
<1>2. ASSUME NEW f PROVE Fold(f) <=> Tally(f, SizesOf(D, N), N)
  <2>1. ASSUME NEW s \in SUBSET N
        PROVE  Entry(f, SizesOf(D, N), s) =
                 IF s = {} THEN 0 ELSE Size(D[Picked(s)].total) + f[s \ {Picked(s)}]
    <3>1. s # {} => Picked(s) \in N
      BY DEF Picked
    <3> QED
      BY <3>1 DEF Entry, SizesOf
  <2>2. [s \in SUBSET N |-> Entry(f, SizesOf(D, N), s)]
          = [s \in SUBSET N |-> IF s = {} THEN 0 ELSE Size(D[Picked(s)].total) + f[s \ {Picked(s)}]]
    BY <2>1
  <2> QED
    BY <2>2 DEF Tally
<1>3. PICK g : Tally(g, SizesOf(D, N), N) /\ SumOver(SizesOf(D, N), N) = g[N]
  BY SumTally
<1>4. \E f : Fold(f)
  BY <1>2, <1>3
<1>5. Fold(h)
  BY <1>4
<1> HIDE DEF h, Fold
<1>6. Tally(h, SizesOf(D, N), N)
  BY <1>2, <1>5
<1> QED
  BY <1>1, <1>3, <1>6, TalliesAgree

\* What they come to, with their signs.
TotalOf(D, N) == MapThenSumSet(LAMBDA d : D[d].total, N)
TotalsOf(D, N) == [d \in N |-> D[d].total]

LEMMA TotalIsSumOver ==
  ASSUME NEW D, NEW N, IsFiniteSet(N)
  PROVE  TotalOf(D, N) = SumOver(TotalsOf(D, N), N)
<1> DEFINE Fold(f) == f = [s \in SUBSET N |-> IF s = {} THEN 0
                                              ELSE D[Picked(s)].total + f[s \ {Picked(s)}]]
           h == CHOOSE f : Fold(f)
<1>1. TotalOf(D, N) = h[N]
  BY DEF TotalOf, MapThenSumSet, MapThenFoldSet, Picked
<1>2. ASSUME NEW f PROVE Fold(f) <=> Tally(f, TotalsOf(D, N), N)
  <2>1. ASSUME NEW s \in SUBSET N
        PROVE  Entry(f, TotalsOf(D, N), s) =
                 IF s = {} THEN 0 ELSE D[Picked(s)].total + f[s \ {Picked(s)}]
    <3>1. s # {} => Picked(s) \in N
      BY DEF Picked
    <3> QED
      BY <3>1 DEF Entry, TotalsOf
  <2>2. [s \in SUBSET N |-> Entry(f, TotalsOf(D, N), s)]
          = [s \in SUBSET N |-> IF s = {} THEN 0 ELSE D[Picked(s)].total + f[s \ {Picked(s)}]]
    BY <2>1
  <2> QED
    BY <2>2 DEF Tally
<1>3. PICK g : Tally(g, TotalsOf(D, N), N) /\ SumOver(TotalsOf(D, N), N) = g[N]
  BY SumTally
<1>4. \E f : Fold(f)
  BY <1>2, <1>3
<1>5. Fold(h)
  BY <1>4
<1> HIDE DEF h, Fold
<1>6. Tally(h, TotalsOf(D, N), N)
  BY <1>2, <1>5
<1> QED
  BY <1>1, <1>3, <1>6, TalliesAgree

\* Notes whose totals are whole.
NoteSet(D, N) == IsFiniteSet(N) /\ \A d \in N : D[d].total \in Int

LEMMA CreditOfNotes ==
  ASSUME NEW D, NEW N, NoteSet(D, N)
  PROVE  /\ CreditOf(D, N) \in Nat
         /\ \A d \in N : CreditOf(D, N) = Size(D[d].total) + CreditOf(D, N \ {d})
         /\ \A M \in SUBSET N : CreditOf(D, M) <= CreditOf(D, N) /\ CreditOf(D, M) \in Nat
         /\ \A E : (\A d \in N : E[d].total = D[d].total) => CreditOf(E, N) = CreditOf(D, N)
<1>1. IsFiniteSet(N) /\ \A M \in SUBSET N : IsFiniteSet(M)
  BY FS_Subset DEF NoteSet
<1>2. \A d \in N : SizesOf(D, N)[d] = Size(D[d].total) /\ SizesOf(D, N)[d] \in Nat
  BY SizeIsNat DEF NoteSet, SizesOf
<1>3. ASSUME NEW M \in SUBSET N PROVE CreditOf(D, M) = SumOver(SizesOf(D, N), M)
  <2>1. \A d \in M : SizesOf(D, M)[d] = SizesOf(D, N)[d]
    BY DEF SizesOf
  <2> QED
    BY <1>1, <2>1, CreditIsSumOver, SumsAgree
<1>4. \A M \in SUBSET N : SumOver(SizesOf(D, N), M) \in Nat
                         /\ SumOver(SizesOf(D, N), M) <= SumOver(SizesOf(D, N), N)
  BY <1>1, <1>2, SumsGrow
<1>5. ASSUME NEW d \in N PROVE CreditOf(D, N) = Size(D[d].total) + CreditOf(D, N \ {d})
  <2>1. \A x \in N : SizesOf(D, N)[x] \in Int
    BY <1>2
  <2>2. SumOver(SizesOf(D, N), N) = SizesOf(D, N)[d] + SumOver(SizesOf(D, N), N \ {d})
    BY <1>1, <2>1, SumWithElement
  <2>3. CreditOf(D, N) = SumOver(SizesOf(D, N), N)
        /\ CreditOf(D, N \ {d}) = SumOver(SizesOf(D, N), N \ {d})
    BY <1>3
  <2> QED
    BY <1>2, <2>2, <2>3
<1>6. ASSUME NEW E, \A d \in N : E[d].total = D[d].total PROVE CreditOf(E, N) = CreditOf(D, N)
  <2>1. SizesOf(E, N) = SizesOf(D, N)
    BY <1>6 DEF SizesOf
  <2> QED
    BY <1>1, <2>1, CreditIsSumOver
<1>7. \A M \in SUBSET N : CreditOf(D, M) <= CreditOf(D, N) /\ CreditOf(D, M) \in Nat
  BY <1>3, <1>4
<1> QED
  BY <1>5, <1>6, <1>7

\* Notes that all give back come to the opposite of what they give back.
LEMMA TotalOfCredits ==
  ASSUME NEW D, NEW N, NoteSet(D, N), \A d \in N : D[d].total <= 0
  PROVE  TotalOf(D, N) = -CreditOf(D, N) /\ Size(TotalOf(D, N)) = CreditOf(D, N)
<1>1. IsFiniteSet(N)
  BY DEF NoteSet
<1>2. ASSUME NEW d \in N
      PROVE  SizesOf(D, N)[d] \in Int /\ TotalsOf(D, N)[d] = -SizesOf(D, N)[d]
  <2>1. PICK n \in Int : n = D[d].total /\ n <= 0
    BY DEF NoteSet
  <2>2. Size(n) = -n /\ -(-n) = n
    BY <2>1 DEF Size
  <2> QED
    BY <2>1, <2>2 DEF SizesOf, TotalsOf
<1>3. SumOver(TotalsOf(D, N), N) = -SumOver(SizesOf(D, N), N)
  BY <1>1, <1>2, SumOfOpposites
<1>4. PICK c \in Nat : c = CreditOf(D, N)
  BY CreditOfNotes
<1>5. TotalOf(D, N) = -c
  BY <1>1, <1>3, <1>4, CreditIsSumOver, TotalIsSumOver
<1>6. Size(-c) = c
  BY DEF Size
<1> QED
  BY <1>4, <1>5, <1>6

-----------------------------------------------------------------------------
(* What is stored and what is in flight. *)

Write ==
  [op : {"write"}, nr : 1 .. MaxEdits, doc : DocumentId \cup {0}, row : DocumentRow,
   sees : DocumentRow \cup {None}, lines : SUBSET LineRow, drops : SUBSET LineRow,
   adds : {{}} \cup {{c} : c \in Int}, sums : BOOLEAN, stale : SUBSET DocumentId, late : BOOLEAN]
Removal ==
  [op : {"delete"}, nr : 1 .. MaxEdits, doc : DocumentId, lines : SUBSET LineRow,
   stale : SUBSET DocumentId, late : BOOLEAN, links : SUBSET DocumentId]

EditingTypes ==
  /\ documents \in Seq(DocumentRow \cup {None}) /\ Len(documents) <= MaxDocuments
  /\ lines \subseteq LineRow /\ IsFiniteSet(lines)
  /\ edits \in [Writer -> Write \cup Removal \cup {NoEdit}]
  /\ begun \in 0 .. MaxEdits
  /\ doubled \subseteq DocumentId /\ strained \subseteq DocumentId

LEMMA EditingBounds ==
  /\ MaxDocuments \in Nat /\ MaxEdits \in Nat /\ DocumentId \subseteq Nat /\ 0 \notin DocumentId
  /\ Cents \subseteq Int /\ None \notin DocumentId /\ None \notin DocumentRow
  /\ Editor \in Writer /\ EditThread \subseteq Writer
BY EditingAssumption, NoneIsNoDocument DEF DocumentId, Writer

LEMMA OpsDiffer ==
  /\ NoEdit.op = "none"
  /\ \A e \in Write : e.op = "write"
  /\ \A e \in Removal : e.op = "delete"
  /\ \A e \in Write \cup Removal : e # NoEdit
BY DEF NoEdit, Write, Removal

LEMMA RowsExist ==
  ASSUME EditingTypes
  PROVE  /\ Existing \subseteq DOMAIN documents /\ DOMAIN documents = 1 .. Len(documents)
         /\ Len(documents) \in Nat /\ DOMAIN documents \subseteq DocumentId
         /\ \A d \in Existing : documents[d] \in DocumentRow
BY EditingBounds DEF EditingTypes, Existing, DocumentId

\* The columns a row has after an edit.
LEMMA WrittenColumns ==
  ASSUME NEW e \in Write, NEW old \in DocumentRow, e.sees \in DocumentRow,
         NEW t \in Int,
         NEW inv, inv = [e.row EXCEPT !.total = t],
         NEW r, r = [f \in DOMAIN inv |-> IF inv[f] = e.sees[f] THEN old[f] ELSE inv[f]]
  PROVE  /\ r \in DocumentRow
         /\ r.kind = IF e.row.kind = e.sees.kind THEN old.kind ELSE e.row.kind
         /\ r.status = IF e.row.status = e.sees.status THEN old.status ELSE e.row.status
         /\ r.source = IF e.row.source = e.sees.source THEN old.source ELSE e.row.source
         /\ r.total = IF t = e.sees.total THEN old.total ELSE t
<1>1. e.row \in DocumentRow
  BY DEF Write
<1>2. inv \in DocumentRow /\ DOMAIN inv = {"kind", "status", "source", "total"}
      /\ inv.kind = e.row.kind /\ inv.status = e.row.status /\ inv.source = e.row.source /\ inv.total = t
  BY <1>1 DEF DocumentRow
<1>3. /\ r["kind"] = IF e.row.kind = e.sees.kind THEN old.kind ELSE e.row.kind
      /\ r["status"] = IF e.row.status = e.sees.status THEN old.status ELSE e.row.status
      /\ r["source"] = IF e.row.source = e.sees.source THEN old.source ELSE e.row.source
      /\ r["total"] = IF t = e.sees.total THEN old.total ELSE t
  BY <1>2
<1>4. r \in DocumentRow
  BY <1>1, <1>2, <1>3 DEF DocumentRow
<1> QED
  BY <1>3, <1>4

(* The inductive invariant.  RowsLink: items belong to documents, and no document is
   its own source. *)
RowsLink ==
  /\ \A l \in lines : l.doc \in DOMAIN documents
  /\ \A d \in Existing : documents[d].source # None => documents[d].source \in DOMAIN documents \ {d}

\* No request has an item of its own yet, and no two have the same number.
FreshNumbers ==
  /\ \A l \in lines : l.nr <= begun
  /\ \A w \in Writer : edits[w] # NoEdit =>
       edits[w].nr <= begun /\ \A l \in lines : l.nr # edits[w].nr
  /\ \A v, w \in Writer : v # w /\ edits[v] # NoEdit /\ edits[w] # NoEdit =>
       edits[v].nr # edits[w].nr

\* What a request is about to write agrees with what it has seen.
Shape(e) ==
  /\ e.drops \subseteq e.lines /\ IsFiniteSet(e.lines)
  /\ e.doc = 0 => /\ e.lines = {} /\ e.sums /\ ~e.late
                  /\ Drafted(e.row) \/ ~IsNote(e.row)
                  /\ e.row.source # None => e.row.source \in DOMAIN documents
  /\ e.doc # 0 => /\ e.doc \in DOMAIN documents /\ e.sees \in DocumentRow
                  /\ e.row.total = e.sees.total
                  /\ \/ e.row.source = e.sees.source
                     \/ /\ Drafted(e.row)
                        /\ e.row.source # None => e.row.source \in DOMAIN documents \ {e.doc}
                  /\ \A l \in e.lines : l.doc = e.doc
  /\ ~e.sums => /\ e.drops = {} /\ e.adds = {} /\ Drafted(e.row)
                /\ e.row.kind = e.sees.kind /\ e.row.source = e.sees.source

\* It has seen a total that was the sum of the items it has seen.
Summed(e) ==
  e.doc \in Existing \ doubled =>
    /\ Sum(e.lines) = e.sees.total
    /\ ~e.late => e.lines = LinesOf(e.doc) /\ e.sees.total = documents[e.doc].total

\* Nobody changed the document it has read, but for a source that was deleted.
Unspoilt(e) ==
  e.doc \in Existing \ e.stale =>
    /\ e.lines = LinesOf(e.doc)
    /\ documents[e.doc] \in {e.sees, [e.sees EXCEPT !.source = None]}

Added(adds) == Sum({[cents |-> c] : c \in adds})
NewTotal(e) == Sum(e.lines \ e.drops) + Added(e.adds)

FitsBeside(s, own, cents) ==
  Size(cents) <= Max({documents[s].total - CreditedBesides(s, own), 0})

\* A note it is about to issue or to save as issued still fits into its source.
Checked(e) ==
  /\ e.doc \in Existing \ e.stale /\ IsNote(e.row) /\ ~Drafted(e.row)
  /\ e.row.source \in Existing \ (strained \cup e.stale)
  /\ e.drops # {} \/ e.adds = {}
  => FitsBeside(e.row.source, e.doc, NewTotal(e))

WriteOK(e) == Shape(e) /\ Summed(e) /\ Unspoilt(e) /\ Checked(e)
WritesOK == \A w \in Writer : edits[w].op = "write" => WriteOK(edits[w])

\* What the check of a note compares is the sum of its items.
NoteTotals ==
  \A d \in Existing :
    IsNote(documents[d]) /\ documents[d].source # None /\ documents[d].source \notin strained
      => documents[d].total = Sum(LinesOf(d))

\* The notes issued for a source all give back.
NotesGiveBack ==
  \A d \in Existing :
    IsNote(documents[d]) /\ ~Drafted(documents[d])
      /\ documents[d].source # None /\ documents[d].source \notin strained
      => documents[d].total <= 0

Credited(s) == CreditOf(documents, NotesOf(s))

\* Note by note they give back no more than its total.
CreditsFit == \A s \in Existing \ strained : Credited(s) <= Max({documents[s].total, 0})

EditingInv ==
  /\ EditingTypes /\ RowsLink /\ FreshNumbers /\ WritesOK
  /\ TotalOfItems /\ NoteTotals /\ NotesGiveBack /\ CreditsFit

\* What is credited, before a step and after it.
LEMMA CreditedIs ==
  /\ \A s : Credited(s) = CreditOf(documents, NotesOf(s))
  /\ \A s : Credited(s)' = CreditOf(documents', NotesOf(s)')
  /\ \A s, d : CreditedBesides(s, d) = CreditOf(documents, NotesOf(s) \ {d})
  /\ \A s, d : CreditedBesides(s, d)' = CreditOf(documents', NotesOf(s)' \ {d})
<1>1. \A s : Credited(s) = CreditOf(documents, NotesOf(s))
  BY DEF Credited, CreditOf, MapThenSumSet, MapThenFoldSet
<1>2. \A s : Credited(s)' = CreditOf(documents', NotesOf(s)')
  BY DEF Credited, CreditOf, MapThenSumSet, MapThenFoldSet
<1>3. \A s, d : CreditedBesides(s, d) = CreditOf(documents, NotesOf(s) \ {d})
  BY DEF CreditedBesides, CreditOf, MapThenSumSet, MapThenFoldSet
<1>4. \A s, d : CreditedBesides(s, d)' = CreditOf(documents', NotesOf(s)' \ {d})
  BY DEF CreditedBesides, CreditOf, MapThenSumSet, MapThenFoldSet
<1> QED
  BY <1>1, <1>2, <1>3, <1>4

LEMMA LinesAdd ==
  ASSUME EditingTypes
  PROVE  /\ LineSet(lines)
         /\ \A d : LinesOf(d) \subseteq lines
         /\ \A ls \in SUBSET lines : LineSet(ls) /\ Sum(ls) \in Int
<1>1. \A l \in lines : l.cents \in Int
  BY DEF EditingTypes, LineRow
<1>2. \A ls \in SUBSET lines : LineSet(ls)
  BY <1>1, FS_Subset DEF LineSet, EditingTypes
<1> QED
  BY <1>2, SumOfItems DEF LinesOf

LEMMA SumOfOne ==
  ASSUME NEW l, l.cents \in Int
  PROVE  LineSet({l}) /\ Sum({l}) = l.cents
<1>1. LineSet({l}) /\ {l} \ {l} = {} /\ l \in {l}
  BY FS_Singleton DEF LineSet
<1>2. Sum({l}) = l.cents + Sum({l} \ {l})
  BY <1>1, SumOfItems
<1> QED
  BY <1>1, <1>2, SumOfItems

\* What a request adds.
LEMMA AddedCents ==
  Sum({}) = 0 /\ Added({}) = 0 /\ \A c \in Int : Added({c}) = c
<1>1. Sum({}) = 0
  BY SumOfItems
<1>2. {[cents |-> c] : c \in {}} = {}
  OBVIOUS
<1>3. ASSUME NEW c \in Int PROVE Added({c}) = c
  <2>1. PICK l : l = [cents |-> c]
    OBVIOUS
  <2>2. {[cents |-> x] : x \in {c}} = {l} /\ l.cents = c
    BY <2>1
  <2> QED
    BY <2>2, SumOfOne DEF Added
<1> QED
  BY <1>1, <1>2, <1>3 DEF Added

-----------------------------------------------------------------------------
(* A request begins. *)

LEMMA BeginKeeps ==
  ASSUME EditingInv, NEW w \in Writer, NEW e \in Write \cup Removal, BeginEdit(w, e),
         e.nr = begun + 1, e.op = "write" => WriteOK(e)
  PROVE  EditingInv'
<1>1. /\ edits' = [edits EXCEPT ![w] = e] /\ begun' = begun + 1 /\ begun < MaxEdits
      /\ UNCHANGED <<documents, lines, doubled, strained>>
  BY DEF BeginEdit
<1>2. \A v \in Writer : edits'[v] = IF v = w THEN e ELSE edits[v]
  BY <1>1 DEF EditingInv, EditingTypes
<1>3. EditingTypes'
  BY <1>1, EditingBounds DEF EditingInv, EditingTypes
<1>4. begun \in Nat
  BY EditingBounds DEF EditingInv, EditingTypes
<1>5. FreshNumbers'
  <2>1. \A l \in lines : l.nr <= begun /\ l.nr \in Int
    BY EditingBounds DEF EditingInv, FreshNumbers, EditingTypes, LineRow
  <2>2. \A v \in Writer : edits[v] # NoEdit => edits[v].nr <= begun /\ edits[v].nr \in Int
    BY EditingBounds DEF EditingInv, FreshNumbers, EditingTypes, Write, Removal
  <2>3. \A l \in lines' : l.nr <= begun'
    BY <1>1, <1>4, <2>1
  <2>4. ASSUME NEW v \in Writer, edits'[v] # NoEdit
        PROVE  edits'[v].nr <= begun' /\ \A l \in lines' : l.nr # edits'[v].nr
    BY <1>1, <1>2, <1>4, <2>1, <2>2, <2>4 DEF EditingInv, FreshNumbers
  <2>5. ASSUME NEW v \in Writer, NEW u \in Writer, v # u, edits'[v] # NoEdit, edits'[u] # NoEdit
        PROVE  edits'[v].nr # edits'[u].nr
    <3>1. CASE v = w \/ u = w
      BY <1>2, <1>4, <2>2, <2>5, <3>1
    <3>2. CASE v # w /\ u # w
      BY <1>2, <2>5, <3>2 DEF EditingInv, FreshNumbers
    <3> QED
      BY <3>1, <3>2
  <2> QED
    BY <2>3, <2>4, <2>5 DEF FreshNumbers
<1>6. Existing' = Existing /\ (\A d : LinesOf(d)' = LinesOf(d)) /\ \A s : NotesOf(s)' = NotesOf(s)
  BY <1>1 DEF Existing, LinesOf, NotesOf
<1>7. (\A s : Credited(s)' = Credited(s)) /\ \A s, d : CreditedBesides(s, d)' = CreditedBesides(s, d)
  BY <1>1, <1>6, CreditedIs
<1>8. ASSUME NEW v \in Writer, edits'[v].op = "write" PROVE WriteOK(edits[v])'
  <2>1. WriteOK(edits'[v])
    BY <1>2, <1>8 DEF EditingInv, WritesOK
  <2> QED
    BY <1>1, <1>6, <1>7, <2>1 DEF WriteOK, Shape, Summed, Unspoilt, Checked, FitsBeside
<1>9. RowsLink' /\ TotalOfItems' /\ NoteTotals' /\ NotesGiveBack' /\ CreditsFit'
  BY <1>1, <1>6, <1>7 DEF EditingInv, RowsLink, TotalOfItems, NoteTotals, NotesGiveBack, CreditsFit, IsNote, Drafted
<1> QED
  BY <1>3, <1>5, <1>8, <1>9 DEF EditingInv, WritesOK

Amounts == {{}} \cup {{c} : c \in Int}

Begins(e) ==
  \E w \in Writer : /\ e \in Write \cup Removal /\ e.nr = begun + 1 /\ (e.op = "write" => WriteOK(e))
                   /\ BeginEdit(w, e)

LEMMA LinesFinite ==
  ASSUME EditingInv
  PROVE  IsFiniteSet({}) /\ \A d : IsFiniteSet(LinesOf(d))
BY FS_EmptySet, LinesAdd DEF EditingInv, LineSet

\* A new document.
LEMMA NewDocument ==
  ASSUME EditingInv, NEW inv \in DocumentRow, Drafted(inv) \/ ~IsNote(inv),
         inv.source # None => inv.source \in DOMAIN documents, NEW c \in Int,
         NEW w \in Writer, BeginEdit(w, Writing(0, inv, {}, {c}))
  PROVE  \E e : Begins(e)
<1>1. PICK e : e = Writing(0, inv, {}, {c})
  OBVIOUS
<1>0. begun < MaxEdits /\ BeginEdit(w, e)
  BY <1>1 DEF BeginEdit
<1>2. /\ e.op = "write" /\ e.nr = begun + 1 /\ e.doc = 0 /\ e.row = inv /\ e.lines = {}
      /\ e.drops = {} /\ e.adds = {c} /\ e.sums /\ ~e.late
  BY <1>1 DEF Writing
<1>3. e \in Write
  BY <1>0, <1>1, EditingBounds DEF Writing, Write, EditingInv, EditingTypes
<1>4. e.doc \notin Existing
  BY <1>2, RowsExist, EditingBounds DEF EditingInv
<1>5. WriteOK(e)
  BY <1>2, <1>4, LinesFinite DEF WriteOK, Shape, Summed, Unspoilt, Checked, FitsBeside
<1> QED
  BY <1>0, <1>2, <1>3, <1>5 DEF Begins

\* A change of the document d.
LEMMA ChangedDocument ==
  ASSUME EditingInv, NEW d \in Existing, NEW inv \in DocumentRow,
         inv.total = documents[d].total,
         \/ inv.source = documents[d].source
         \/ Drafted(inv) /\ (inv.source # None => inv.source \in DOMAIN documents \ {d}),
         NEW drops \in SUBSET LinesOf(d), NEW adds \in Amounts,
         IsNote(inv) /\ ~Drafted(inv) /\ inv.source \in Existing \ strained /\ (drops # {} \/ adds = {})
           => FitsBeside(inv.source, d, Sum(LinesOf(d) \ drops) + Added(adds)),
         NEW e,
         \/ e = Writing(d, inv, drops, adds)
         \/ /\ e = [Writing(d, inv, drops, adds) EXCEPT !.sums = FALSE]
            /\ drops = {} /\ adds = {} /\ Drafted(inv)
            /\ inv.kind = documents[d].kind /\ inv.source = documents[d].source,
         NEW w \in Writer, BeginEdit(w, e)
  PROVE  Begins(e)
<1>0. begun < MaxEdits
  BY DEF BeginEdit
<1>1. d # 0 /\ d \in DocumentId /\ d \in DOMAIN documents /\ documents[d] \in DocumentRow
  BY RowsExist, EditingBounds DEF EditingInv
<1>2. /\ e.op = "write" /\ e.nr = begun + 1 /\ e.doc = d /\ e.row = inv /\ e.sees = documents[d]
      /\ e.lines = LinesOf(d) /\ e.drops = drops /\ e.adds = adds /\ e.stale = {} /\ e.late = FALSE
      /\ e.sums \in BOOLEAN
      /\ ~e.sums => /\ drops = {} /\ adds = {} /\ Drafted(inv)
                    /\ inv.kind = documents[d].kind /\ inv.source = documents[d].source
  <2>1. CASE e = Writing(d, inv, drops, adds)
    BY <1>1, <2>1 DEF Writing
  <2>2. CASE e # Writing(d, inv, drops, adds)
    <3>1. e = [Writing(d, inv, drops, adds) EXCEPT !.sums = FALSE]
          /\ drops = {} /\ adds = {} /\ Drafted(inv)
          /\ inv.kind = documents[d].kind /\ inv.source = documents[d].source
      BY <2>2
    <3> QED
      BY <1>1, <3>1 DEF Writing
  <2> QED
    BY <2>1, <2>2
<1>3. e \in Write
  <2>1. e = [op |-> "write", nr |-> begun + 1, doc |-> d, row |-> inv, sees |-> documents[d],
             lines |-> LinesOf(d), drops |-> drops, adds |-> adds, sums |-> e.sums,
             stale |-> {}, late |-> FALSE]
    BY <1>1 DEF Writing
  <2>2. LinesOf(d) \subseteq LineRow /\ begun + 1 \in 1 .. MaxEdits
    BY <1>0, EditingBounds DEF EditingInv, EditingTypes, LinesOf
  <2> QED
    BY <1>1, <1>2, <2>1, <2>2 DEF Write, Amounts
<1>4. Shape(e)
  <2>1. IsFiniteSet(e.lines)
    BY <1>2, LinesFinite
  <2> QED
    BY <1>1, <1>2, <2>1 DEF Shape, LinesOf
<1>5. Summed(e) /\ Unspoilt(e)
  BY <1>2 DEF Summed, Unspoilt, EditingInv, TotalOfItems
<1>6. Checked(e)
  BY <1>2 DEF Checked, FitsBeside, NewTotal
<1> QED
  BY <1>2, <1>3, <1>4, <1>5, <1>6 DEF WriteOK, Begins

LEMMA ChangedKind ==
  ASSUME NEW r \in DocumentRow, NEW v \in Kind, NEW q, q = [r EXCEPT !.kind = v]
  PROVE  q \in DocumentRow /\ q.kind = v /\ q.status = r.status /\ q.source = r.source /\ q.total = r.total
BY DEF DocumentRow, Kind

LEMMA ChangedStatus ==
  ASSUME NEW r \in DocumentRow, NEW v \in {"draft", "issued"}, NEW q, q = [r EXCEPT !.status = v]
  PROVE  q \in DocumentRow /\ q.status = v /\ q.kind = r.kind /\ q.source = r.source /\ q.total = r.total
BY DEF DocumentRow

LEMMA ChangedTotal ==
  ASSUME NEW r \in DocumentRow, NEW v \in Int, NEW q, q = [r EXCEPT !.total = v]
  PROVE  q \in DocumentRow /\ q.total = v /\ q.kind = r.kind /\ q.status = r.status /\ q.source = r.source
BY DEF DocumentRow

LEMMA ChangedSource ==
  ASSUME NEW r \in DocumentRow, NEW v \in DocumentId \cup {None}, NEW q, q = [r EXCEPT !.source = v]
  PROVE  q \in DocumentRow /\ q.source = v /\ q.kind = r.kind /\ q.status = r.status /\ q.total = r.total
BY DEF DocumentRow

LEMMA BlankColumns ==
  ASSUME NEW k \in Kind, NEW source \in DocumentId \cup {None}
  PROVE  LET r == BlankRow(k, source)
         IN r \in DocumentRow /\ r.kind = k /\ r.status = "draft" /\ r.source = source
BY DEF BlankRow, DocumentRow, Kind

LEMMA SumsAreInts ==
  ASSUME EditingInv
  PROVE  /\ \A d : Sum(LinesOf(d)) \in Int
         /\ \A d, ds : Sum(LinesOf(d) \ ds) \in Int
         /\ \A d \in Existing : documents[d].total \in Int /\ documents[d] \in DocumentRow
         /\ \A e \in Write : Added(e.adds) \in Int
<1>1. \A d, ds : LinesOf(d) \in SUBSET lines /\ LinesOf(d) \ ds \in SUBSET lines
  BY DEF LinesOf
<1>2. \A e \in Write : Added(e.adds) \in Int
  BY AddedCents DEF Write
<1>3. \A d \in Existing : documents[d] \in DocumentRow /\ documents[d].total \in Int
  BY RowsExist DEF EditingInv, DocumentRow
<1> QED
  BY <1>1, <1>2, <1>3, LinesAdd DEF EditingInv

LEMMA NotesAreNotes ==
  ASSUME EditingInv, NEW s
  PROVE  NoteSet(documents, NotesOf(s)) /\ NotesOf(s) \subseteq Existing
<1>1. Existing \subseteq 1 .. Len(documents) /\ Len(documents) \in Nat
  BY RowsExist DEF EditingInv
<1>2. IsFiniteSet(1 .. Len(documents))
  BY <1>1, FS_Interval
<1>3. NotesOf(s) \subseteq Existing
  BY DEF NotesOf
<1>4. IsFiniteSet(NotesOf(s))
  BY <1>1, <1>2, <1>3, FS_Subset
<1> QED
  BY <1>3, <1>4, SumsAreInts DEF NoteSet

LEMMA AmountIsInt == Amount \subseteq Int
<1>1. Cents \subseteq Int
  BY EditingBounds
<1>2. ASSUME NEW c \in Cents PROVE -c \in Int
  BY <1>1
<1> QED
  BY <1>1, <1>2 DEF Amount

\* Where all notes give back, the pages and the API come to the same remainder.
LEMMA RemaindersAgree ==
  ASSUME EditingInv, NEW s \in Existing \ strained, NEW own, NEW cents, NEW w,
         WithinLimit(w, s, own, cents)
  PROVE  FitsBeside(s, own, cents)
<1>0. s # None /\ NoteSet(documents, NotesOf(s)) /\ \A d \in NotesOf(s) : documents[d].total <= 0
  <2>1. s # None
    BY RowsExist, EditingBounds DEF EditingInv
  <2> QED
    BY <2>1, NotesAreNotes DEF EditingInv, NotesGiveBack, NotesOf, IsNote, Drafted
<1>1. Size(Net(s)) = CreditOf(documents, NotesOf(s))
  <2>1. Net(s) = TotalOf(documents, NotesOf(s))
    BY DEF Net, TotalOf, MapThenSumSet, MapThenFoldSet
  <2> QED
    BY <1>0, <2>1, TotalOfCredits
<1>2. CreditedBesides(s, own) = CreditOf(documents, NotesOf(s) \ {own})
  BY CreditedIs
<1>3. NetBesides(s, own) = CreditedBesides(s, own)
  <2>1. CASE own \in NotesOf(s)
    <3>1. PICK a \in Nat, b \in Nat, c \in Nat :
            a = CreditOf(documents, NotesOf(s)) /\ b = Size(documents[own].total)
              /\ c = CreditOf(documents, NotesOf(s) \ {own})
      BY <1>0, <2>1, CreditOfNotes, SizeIsNat DEF NoteSet
    <3>2. a = b + c
      BY <1>0, <2>1, <3>1, CreditOfNotes
    <3>3. NetBesides(s, own) = a - b
      BY <1>1, <2>1, <3>1 DEF NetBesides
    <3> QED
      BY <1>2, <3>1, <3>2, <3>3
  <2>2. CASE own \notin NotesOf(s)
    <3>1. NotesOf(s) \ {own} = NotesOf(s)
      BY <2>2
    <3>2. PICK a \in Nat : a = CreditOf(documents, NotesOf(s))
      BY <1>0, CreditOfNotes
    <3> QED
      BY <1>1, <1>2, <2>2, <3>1, <3>2 DEF NetBesides
  <2> QED
    BY <2>1, <2>2
<1> QED
  BY <1>3 DEF WithinLimit, FitsBeside

\* A credit note takes the sizes of the items.
LEMMA SizedItems ==
  ASSUME EditingTypes, NEW d
  PROVE  LineSet({[l EXCEPT !.cents = Size(l.cents)] : l \in LinesOf(d)})
<1> DEFINE f == [l \in LinesOf(d) |-> [l EXCEPT !.cents = Size(l.cents)]]
           S == {[l EXCEPT !.cents = Size(l.cents)] : l \in LinesOf(d)}
<1>1. f \in Surjection(LinesOf(d), S)
  BY DEF Surjection
<1>2. IsFiniteSet(LinesOf(d)) /\ \A l \in LinesOf(d) : l \in LineRow
  BY LinesAdd DEF LineSet, EditingTypes
<1>3. ASSUME NEW k \in S PROVE k.cents \in Int
  <2>1. PICK l \in LinesOf(d) : k = [l EXCEPT !.cents = Size(l.cents)]
    OBVIOUS
  <2>2. l \in LineRow /\ Size(l.cents) \in Nat
    BY <1>2, SizeIsNat DEF LineRow
  <2>3. PICK n \in Nat : n = Size(l.cents)
    BY <2>2
  <2>4. k = [l EXCEPT !.cents = n]
    BY <2>1, <2>3
  <2>5. k.cents = n
    BY <2>2, <2>4 DEF LineRow
  <2> QED
    BY <2>5
<1> HIDE DEF f, S
<1>4. IsFiniteSet(S)
  BY <1>1, <1>2, FS_Surjection
<1>5. LineSet(S)
  BY <1>3, <1>4 DEF LineSet
<1> QED
  BY <1>5 DEF S

LEMMA ReplacedItems ==
  ASSUME NEW ls, NEW c \in Int
  PROVE  Sum(ls \ ls) + Added({c}) = c
<1>1. ls \ ls = {}
  OBVIOUS
<1>2. Sum(ls \ ls) = 0
  BY <1>1, AddedCents
<1> QED
  BY <1>2, AddedCents

\* Every request begins with what it has seen.
LEMMA BeginSteps ==
  ASSUME EditingInv,
    \/ \E kind \in Kind, source \in Existing \cup {None}, c \in Amount, issued \in BOOLEAN, w \in Writer :
         Create(w, kind, source, c, issued)
    \/ \E kind \in Kind, c \in Amount : AutosaveNew(kind, c)
    \/ \E d \in Existing :
         \/ \E kind \in Kind, c \in Amount : Autosave(d, kind, c)
         \/ Duplicate(d) \/ CreateCreditNote(d)
         \/ \E c \in Cents : AddItem(d, c)
         \/ \E c \in Amount, issued \in BOOLEAN : UpdateDocument(d, c, issued)
         \/ \E w \in Writer : RevertDocument(w, d)
         \/ \E w \in EditThread :
              \/ \E kind \in Kind, source \in Existing \cup {None} : PatchDocument(w, d, kind, source)
              \/ DeleteItem(w, d) \/ DeleteDocument(w, d)
              \/ \E page \in BOOLEAN : IssueDocument(w, page, d)
  PROVE  \E e : Begins(e)
<1>0. /\ Editor \in Writer /\ EditThread \subseteq Writer /\ Cents \subseteq Int /\ Cents \subseteq Nat
      /\ None \notin DocumentId /\ {} \in Amounts /\ \A c \in Int : {c} \in Amounts
      /\ Amount \subseteq Int
  BY EditingBounds, EditingAssumption, AmountIsInt DEF Amounts
<1>d. ASSUME NEW d \in Existing
      PROVE  /\ documents[d] \in DocumentRow /\ d \in DocumentId /\ d \in DOMAIN documents
             /\ LinesOf(d) \subseteq lines /\ Sum(LinesOf(d)) \in Int
             /\ documents[d].source # None => documents[d].source \in DOMAIN documents
  <2>1. documents[d] \in DocumentRow /\ d \in DocumentId /\ d \in 1 .. Len(documents)
        /\ DOMAIN documents = 1 .. Len(documents) /\ Len(documents) \in Nat
    BY RowsExist DEF EditingInv
  <2>2. documents[d].source # None => documents[d].source \in DOMAIN documents
    BY <2>1 DEF EditingInv, RowsLink
  <2> QED
    BY <2>1, <2>2, LinesAdd DEF EditingInv
<1>1. ASSUME NEW kind \in Kind, NEW source \in Existing \cup {None}, NEW c \in Amount,
             NEW issued \in BOOLEAN, NEW w \in Writer, Create(w, kind, source, c, issued)
      PROVE  \E e : Begins(e)
  <2>1. PICK r : r = BlankRow(kind, source)
    OBVIOUS
  <2>2. r \in DocumentRow /\ r.kind = kind /\ r.source = source /\ (source # None => source \in DOMAIN documents)
    BY <1>d, <2>1, BlankColumns
  <2>3. PICK t \in {"draft", "issued"} :
          /\ BeginEdit(w, Writing(0, [r EXCEPT !.status = t], {}, {c}))
          /\ t = "draft" \/ ~IsNote(r)
    BY <1>1, <2>1 DEF Create
  <2>4. PICK inv : inv = [r EXCEPT !.status = t]
    OBVIOUS
  <2>5. inv \in DocumentRow /\ inv.kind = r.kind /\ inv.status = t /\ inv.source = r.source
    BY <2>2, <2>4, ChangedStatus
  <2> QED
    BY <1>0, <2>2, <2>3, <2>4, <2>5, NewDocument DEF IsNote, Drafted
<1>2. ASSUME NEW kind \in Kind, NEW c \in Amount, AutosaveNew(kind, c)
      PROVE  \E e : Begins(e)
  <2>1. PICK r : r = BlankRow(kind, None)
    OBVIOUS
  <2>2. r \in DocumentRow /\ r.status = "draft" /\ r.source = None
    BY <2>1, BlankColumns
  <2> QED
    BY <1>0, <1>2, <2>1, <2>2, NewDocument DEF AutosaveNew, Drafted
<1>3. ASSUME NEW d \in Existing, NEW kind \in Kind, NEW c \in Amount, Autosave(d, kind, c)
      PROVE  \E e : Begins(e)
  <2>1. PICK inv : inv = [documents[d] EXCEPT !.kind = kind]
    OBVIOUS
  <2>2. inv \in DocumentRow /\ inv.total = documents[d].total /\ inv.source = documents[d].source
        /\ inv.status = documents[d].status
    BY <1>d, <2>1, ChangedKind
  <2>4. Drafted(inv) /\ BeginEdit(Editor, Writing(d, inv, LinesOf(d), {c}))
    BY <1>3, <2>1, <2>2 DEF Autosave, Drafted
  <2> QED
    BY <1>0, <2>2, <2>4, ChangedDocument
<1>4. ASSUME NEW d \in Existing, Duplicate(d)
      PROVE  \E e : Begins(e)
  <2>1. PICK r : r = [documents[d] EXCEPT !.status = "draft"]
    OBVIOUS
  <2>2. r \in DocumentRow /\ r.source = documents[d].source /\ r.status = "draft"
    BY <1>d, <2>1, ChangedStatus
  <2>3. PICK inv : inv = [r EXCEPT !.total = 0]
    OBVIOUS
  <2>4. inv \in DocumentRow /\ inv.source = documents[d].source /\ inv.status = "draft"
    BY <2>2, <2>3, ChangedTotal
  <2>5. BeginEdit(Editor, Writing(0, inv, {}, {Sum(LinesOf(d))}))
    BY <1>4, <2>1, <2>3 DEF Duplicate
  <2>6. Drafted(inv) /\ (inv.source # None => inv.source \in DOMAIN documents) /\ Sum(LinesOf(d)) \in Int
    BY <1>d, <2>4 DEF Drafted
  <2> QED
    BY <1>0, <2>4, <2>5, <2>6, NewDocument
<1>5. ASSUME NEW d \in Existing, CreateCreditNote(d)
      PROVE  \E e : Begins(e)
  <2>1. PICK r, ls : /\ r = BlankRow("credit_note", d)
                     /\ ls = {[l EXCEPT !.cents = Size(l.cents)] : l \in LinesOf(d)}
    OBVIOUS
  <2>2. r \in DocumentRow /\ r.status = "draft" /\ r.source = d
    BY <1>d, <2>1, BlankColumns DEF Kind
  <2>3. Sum(ls) \in Int
    BY <2>1, SizedItems, LinesAdd, SumOfItems DEF EditingInv
  <2>4. PICK a \in Int : a = -Sum(ls)
    BY <2>3
  <2>5. BeginEdit(Editor, Writing(0, r, {}, {a}))
    BY <1>5, <2>1, <2>4 DEF CreateCreditNote
  <2> QED
    BY <1>0, <1>d, <2>2, <2>5, NewDocument DEF Drafted
<1>6. ASSUME NEW d \in Existing, NEW c \in Cents, AddItem(d, c)
      PROVE  \E e : Begins(e)
  <2>1. BeginEdit(Editor, Writing(d, documents[d], {}, {c})) /\ {c} # {} /\ {c} \in Amounts
    BY <1>0, <1>6 DEF AddItem
  <2> QED
    BY <1>0, <1>d, <2>1, ChangedDocument
<1>7. ASSUME NEW d \in Existing, NEW c \in Amount, NEW issued \in BOOLEAN,
             UpdateDocument(d, c, issued)
      PROVE  \E e : Begins(e)
  <2>1. PICK inv : inv = IF issued THEN [documents[d] EXCEPT !.status = "issued"] ELSE documents[d]
    OBVIOUS
  <2>2. /\ Creditable(Editor, documents[d], d, c)
        /\ BeginEdit(Editor, Writing(d, inv, LinesOf(d), {c}))
    BY <1>7, <2>1 DEF UpdateDocument
  <2>3. inv \in DocumentRow /\ inv.total = documents[d].total /\ inv.source = documents[d].source
        /\ inv.kind = documents[d].kind /\ c \in Int
    BY <1>0, <1>d, <2>1, ChangedStatus
  <2>4. Sum(LinesOf(d) \ LinesOf(d)) + Added({c}) = c
    BY <2>3, ReplacedItems
  <2>5. ASSUME IsNote(inv), inv.source \in Existing \ strained PROVE FitsBeside(inv.source, d, c)
    <3>1. None \notin Existing
      BY <1>0, <1>d
    <3>2. WithinLimit(Editor, inv.source, d, c)
      BY <2>2, <2>3, <2>5, <3>1 DEF Creditable, IsNote
    <3> QED
      BY <2>5, <3>2, RemaindersAgree
  <2>6. {c} \in Amounts /\ LinesOf(d) \in SUBSET LinesOf(d)
    BY <1>0, <2>3
  <2> QED
    BY <1>0, <2>2, <2>3, <2>4, <2>5, <2>6, ChangedDocument
<1>12. ASSUME NEW d \in Existing, NEW w \in EditThread, NEW kind \in Kind,
              NEW source \in Existing \cup {None}, PatchDocument(w, d, kind, source)
       PROVE  \E e : Begins(e)
  <2>1. PICK r : r = [documents[d] EXCEPT !.kind = kind]
    OBVIOUS
  <2>2. r \in DocumentRow /\ r.total = documents[d].total /\ r.status = documents[d].status
    BY <1>d, <2>1, ChangedKind
  <2>3. PICK inv : inv = [r EXCEPT !.source = source]
    OBVIOUS
  <2>4. source \in DocumentId \cup {None} /\ (source # None => source \in DOMAIN documents \ {d})
    BY <1>12, <1>d DEF PatchDocument
  <2>5. /\ inv \in DocumentRow /\ inv.total = documents[d].total /\ inv.source = source
        /\ Drafted(inv)
    <3>1. Drafted(documents[d])
      BY <1>12 DEF PatchDocument
    <3>2. /\ inv \in DocumentRow /\ inv.source = source
          /\ inv.total = r.total /\ inv.status = r.status
      BY <2>2, <2>3, <2>4, ChangedSource
    <3> QED
      BY <2>2, <3>1, <3>2 DEF Drafted
  <2>6. \/ BeginEdit(w, Writing(d, inv, {}, {}))
        \/ \E c \in Amount : BeginEdit(w, Writing(d, inv, LinesOf(d), {c}))
    BY <1>12, <2>1, <2>3 DEF PatchDocument
  <2>7. w \in Writer /\ {} \in SUBSET LinesOf(d) /\ LinesOf(d) \in SUBSET LinesOf(d)
        /\ \A c \in Amount : {c} \in Amounts
    BY <1>0
  <2>8. CASE BeginEdit(w, Writing(d, inv, {}, {}))
    BY <1>0, <2>4, <2>5, <2>7, <2>8, ChangedDocument
  <2>9. ASSUME NEW c \in Amount, BeginEdit(w, Writing(d, inv, LinesOf(d), {c}))
        PROVE  \E e : Begins(e)
    BY <2>4, <2>5, <2>7, <2>9, ChangedDocument
  <2> QED
    BY <2>6, <2>8, <2>9
<1>8. ASSUME NEW d \in Existing, NEW w \in Writer, RevertDocument(w, d)
      PROVE  \E e : Begins(e)
  <2>1. PICK inv : inv = [documents[d] EXCEPT !.status = "draft"]
    OBVIOUS
  <2>2. inv \in DocumentRow /\ inv.total = documents[d].total /\ inv.source = documents[d].source
        /\ inv.kind = documents[d].kind /\ Drafted(inv)
    BY <1>d, <2>1, ChangedStatus DEF Drafted
  <2>3. PICK e : e = [Writing(d, inv, {}, {}) EXCEPT !.sums = FALSE] /\ BeginEdit(w, e)
    BY <1>8, <2>1 DEF RevertDocument
  <2> QED
    BY <1>0, <2>2, <2>3, ChangedDocument
<1>9. ASSUME NEW d \in Existing, NEW w \in EditThread, DeleteItem(w, d)
      PROVE  \E e : Begins(e)
  <2>1. PICK l \in LinesOf(d) : BeginEdit(w, Writing(d, documents[d], {l}, {}))
    BY <1>9 DEF DeleteItem
  <2>2. Drafted(documents[d]) /\ {l} \in SUBSET LinesOf(d)
    BY <1>9 DEF DeleteItem
  <2> QED
    BY <1>0, <1>d, <2>1, <2>2, ChangedDocument
<1>10. ASSUME NEW d \in Existing, NEW w \in EditThread, DeleteDocument(w, d)
       PROVE  \E e : Begins(e)
  <2>1. PICK e : /\ e = [op |-> "delete", nr |-> begun + 1, doc |-> d, lines |-> LinesOf(d), stale |-> {},
                         late |-> FALSE, links |-> {n \in Existing : documents[n].source = d}]
                 /\ BeginEdit(w, e)
    BY <1>10 DEF DeleteDocument
  <2>2. LinesOf(d) \subseteq LineRow /\ begun + 1 \in 1 .. MaxEdits
    BY <2>1, EditingBounds DEF EditingInv, EditingTypes, LinesOf, BeginEdit
  <2>3. e \in Removal
    BY <1>d, <2>1, <2>2 DEF Removal
  <2>4. e.op # "write" /\ e.nr = begun + 1
    BY <2>1
  <2> QED
    BY <1>0, <2>1, <2>3, <2>4 DEF Begins
<1>11. ASSUME NEW d \in Existing, NEW w \in EditThread, NEW page \in BOOLEAN, IssueDocument(w, page, d)
       PROVE  \E e : Begins(e)
  <2>1. PICK inv, u : /\ inv = [documents[d] EXCEPT !.status = "issued"]
                      /\ u = IF page THEN Editor ELSE w
    OBVIOUS
  <2>2. inv \in DocumentRow /\ inv.total = documents[d].total /\ inv.source = documents[d].source
        /\ inv.kind = documents[d].kind
    BY <1>d, <2>1, ChangedStatus
  <2>3. Creditable(u, documents[d], d, documents[d].total) /\ BeginEdit(w, Writing(d, inv, {}, {}))
    BY <1>11, <2>1 DEF IssueDocument
  <2>4. ASSUME IsNote(inv), inv.source \in Existing \ strained
        PROVE  FitsBeside(inv.source, d, Sum(LinesOf(d) \ {}) + Added({}))
    <3>1. inv.source # None /\ IsNote(documents[d])
      BY <1>0, <1>d, <2>2, <2>4 DEF IsNote
    <3>2. documents[d].total = Sum(LinesOf(d))
      BY <2>2, <2>4, <3>1 DEF EditingInv, NoteTotals
    <3>3. FitsBeside(inv.source, d, documents[d].total)
      BY <2>2, <2>3, <2>4, <3>1, RemaindersAgree DEF Creditable
    <3>4. Sum(LinesOf(d) \ {}) + Added({}) = Sum(LinesOf(d))
      BY <1>d, AddedCents
    <3> QED
      BY <3>2, <3>3, <3>4
  <2> QED
    BY <1>0, <2>2, <2>3, <2>4, ChangedDocument
<1> QED
  BY <1>1, <1>2, <1>3, <1>4, <1>5, <1>6, <1>7, <1>8, <1>9, <1>10, <1>11, <1>12

-----------------------------------------------------------------------------
(* A commit: what becomes of the other requests. *)

\* The request f, after another one has touched documents.
Later(g, f, touched) ==
  /\ g.op = f.op /\ g.nr = f.nr /\ g.doc = f.doc /\ g.lines = f.lines /\ g.stale = f.stale \cup touched
  /\ f.op = "write" => /\ g.row = f.row /\ g.sees = f.sees /\ g.drops = f.drops
                       /\ g.adds = f.adds /\ g.sums = f.sums

Marked(f, touched, b) == [f EXCEPT !.stale = @ \cup touched, !.late = @ \/ b]

LEMMA LaterIs ==
  ASSUME NEW f \in Write \cup Removal, NEW touched \in SUBSET DocumentId, NEW b \in BOOLEAN,
         NEW g, g = Marked(f, touched, b)
  PROVE  /\ f \in Write => g \in Write
         /\ f \in Removal => g \in Removal
         /\ Later(g, f, touched) /\ (g.late <=> f.late \/ b)
<1>1. PICK st, l : st = f.stale \cup touched /\ l \in BOOLEAN /\ l = (f.late \/ b)
  OBVIOUS
<1>2. g = [f EXCEPT !.stale = st, !.late = l]
  BY <1>1 DEF Marked
<1>3. f.stale \subseteq DocumentId
  BY DEF Write, Removal
<1>4. CASE f \in Write
  <2>1. g \in Write /\ g.stale = st /\ g.late = l
    <3>1. g = [op |-> f.op, nr |-> f.nr, doc |-> f.doc, row |-> f.row, sees |-> f.sees,
               lines |-> f.lines, drops |-> f.drops, adds |-> f.adds, sums |-> f.sums,
               stale |-> st, late |-> l]
      BY <1>2, <1>4 DEF Write
    <3>2. st \in SUBSET DocumentId
      BY <1>1, <1>3
    <3> QED
      BY <1>1, <1>4, <3>1, <3>2 DEF Write
  <2>2. Later(g, f, touched)
    BY <1>1, <1>2, <1>4 DEF Write, Later
  <2>3. f \notin Removal
    BY <1>4 DEF Write, Removal
  <2> QED
    BY <1>1, <2>1, <2>2, <2>3
<1>5. CASE f \in Removal
  <2>1. g \in Removal /\ g.stale = st /\ g.late = l
    <3>1. g = [op |-> f.op, nr |-> f.nr, doc |-> f.doc, lines |-> f.lines, stale |-> st,
               late |-> l, links |-> f.links]
      BY <1>2, <1>5 DEF Removal
    <3>2. st \in SUBSET DocumentId
      BY <1>1, <1>3
    <3> QED
      BY <1>1, <1>5, <3>1, <3>2 DEF Removal
  <2>2. Later(g, f, touched)
    BY <1>1, <1>2, <1>5 DEF Removal, Later
  <2>3. f \notin Write
    BY <1>5 DEF Write, Removal
  <2> QED
    BY <1>1, <2>1, <2>2, <2>3
<1> QED
  BY <1>4, <1>5

\* Only requests that are under way stay under way, and with what they write.
OthersLater(w, e, touched) ==
  /\ edits' \in [Writer -> Write \cup Removal \cup {NoEdit}]
  /\ \A v \in Writer : edits'[v] # NoEdit =>
       /\ v # w /\ edits[v] # NoEdit /\ Later(edits'[v], edits[v], touched)
       /\ edits'[v].late <=> edits[v].late \/ (edits[v].doc = Target(e) /\ ChangesItems(e))

LEMMA EndsOf ==
  ASSUME EditingInv, NEW w \in Writer, NEW e, e = edits[w], e # NoEdit,
         NEW touched \in SUBSET DocumentId, edits' = Ends(e, touched)
  PROVE  OthersLater(w, e, touched)
<1>1. \A v \in Writer : edits[v] \in Write \cup Removal \cup {NoEdit}
  BY DEF EditingInv, EditingTypes
<1>2. ASSUME NEW v \in Writer
      PROVE  /\ Ends(e, touched)[v] \in Write \cup Removal \cup {NoEdit}
             /\ Ends(e, touched)[v] # NoEdit =>
                  /\ v # w /\ edits[v] # NoEdit /\ Later(Ends(e, touched)[v], edits[v], touched)
                  /\ Ends(e, touched)[v].late <=>
                       edits[v].late \/ (edits[v].doc = Target(e) /\ ChangesItems(e))
  <2>1. CASE edits[v] \in {e, NoEdit}
    BY <2>1 DEF Ends
  <2>2. CASE edits[v] \notin {e, NoEdit}
    <3>1. PICK f \in Write \cup Removal : f = edits[v]
      BY <1>1, <2>2
    <3>2. PICK b \in BOOLEAN : b = (f.doc = Target(e) /\ ChangesItems(e))
      OBVIOUS
    <3>3. PICK g : g = Marked(f, touched, b)
      OBVIOUS
    <3>4. Ends(e, touched)[v] = g
      BY <2>2, <3>1, <3>2, <3>3 DEF Ends, Marked
    <3>5. /\ g \in Write \cup Removal
          /\ Later(g, f, touched) /\ (g.late <=> f.late \/ b)
      BY <3>3, LaterIs
    <3> QED
      BY <2>2, <3>1, <3>2, <3>4, <3>5
  <2> QED
    BY <2>1, <2>2
<1>3. DOMAIN edits' = Writer /\ edits' = [v \in Writer |-> Ends(e, touched)[v]]
  BY DEF Ends
<1> QED
  BY <1>2, <1>3 DEF OthersLater

LEMMA NumbersStayFresh ==
  ASSUME EditingInv, NEW w \in Writer, NEW e, e = edits[w], e # NoEdit,
         NEW touched \in SUBSET DocumentId, edits' = Ends(e, touched), UNCHANGED begun,
         \A l \in lines' : l \in lines \/ l.nr = e.nr
  PROVE  FreshNumbers'
<1>1. \A v \in Writer : edits'[v] # NoEdit => v # w /\ edits[v] # NoEdit /\ edits'[v].nr = edits[v].nr
  BY EndsOf DEF Later, OthersLater
<1>2. FreshNumbers
  BY DEF EditingInv
<1>3. \A l \in lines' : l.nr <= begun
  BY <1>2 DEF FreshNumbers
<1>4. \A v \in Writer : edits'[v] # NoEdit => \A l \in lines' : l.nr # edits'[v].nr
  BY <1>1, <1>2 DEF FreshNumbers
<1> QED
  BY <1>1, <1>2, <1>3, <1>4 DEF FreshNumbers

-----------------------------------------------------------------------------
(* A commit that writes. *)

\* The columns that it writes.
Columns(e, inv) ==
  /\ inv \in DocumentRow
  /\ e.doc = 0 => /\ inv.kind = e.row.kind /\ inv.status = e.row.status
                  /\ inv.source = e.row.source /\ inv.total = ItemsTotal(e)
  /\ e.doc # 0 =>
       LET old == documents[e.doc] IN
       /\ inv.source = IF e.row.source = e.sees.source THEN old.source ELSE e.row.source
       /\ inv.kind = IF e.row.kind = e.sees.kind THEN old.kind ELSE e.row.kind
       /\ inv.status = IF e.row.status = e.sees.status THEN old.status ELSE e.row.status
       /\ inv.total = IF ~e.sums \/ ItemsTotal(e) = e.sees.total THEN old.total ELSE ItemsTotal(e)

LEMMA ItemsTotalIsInt ==
  ASSUME EditingTypes, NEW e \in Write, e.lines \subseteq LineRow, IsFiniteSet(e.lines)
  PROVE  ItemsTotal(e) \in Int /\ Added(e.adds) \in Int /\ Sum(e.lines) \in Int
<1>1. \A ls \in SUBSET e.lines : Sum(ls) \in Int
  <2>1. \A ls \in SUBSET e.lines : LineSet(ls)
    BY FS_Subset DEF LineSet, LineRow
  <2> QED
    BY <2>1, SumOfItems
<1>2. Added(e.adds) \in Int
  BY AddedCents DEF Write
<1>3. ItemsTotal(e) = Sum(e.lines \ (e.drops \cap lines)) + Added(e.adds)
  BY DEF ItemsTotal, Added
<1> QED
  BY <1>1, <1>2, <1>3

LEMMA RowAfterIs ==
  ASSUME EditingInv, NEW e \in Write, Shape(e), e.doc # 0 => e.doc \in Existing
  PROVE  Columns(e, RowAfter(e))
<1>1. ItemsTotal(e) \in Int /\ e.row \in DocumentRow
  BY ItemsTotalIsInt DEF EditingInv, Shape, Write
<1>2. PICK t : t = IF e.sums THEN ItemsTotal(e) ELSE e.row.total
  OBVIOUS
<1>3. t \in Int
  BY <1>1, <1>2 DEF DocumentRow
<1>4. PICK inv : inv = [e.row EXCEPT !.total = t]
  OBVIOUS
<1>5. (IF e.sums THEN [e.row EXCEPT !.total = ItemsTotal(e)] ELSE e.row) = inv
  <2>1. CASE e.sums
    BY <1>2, <1>4, <2>1
  <2>2. CASE ~e.sums
    BY <1>1, <1>2, <1>4, <2>2 DEF DocumentRow
  <2> QED
    BY <2>1, <2>2
<1>6. RowAfter(e) = IF e.doc = 0 THEN inv
                    ELSE [f \in DOMAIN inv |-> IF inv[f] = e.sees[f] THEN documents[e.doc][f] ELSE inv[f]]
  BY <1>5 DEF RowAfter
<1>7. CASE e.doc = 0
  <2>1. RowAfter(e) = inv /\ t = ItemsTotal(e)
    BY <1>2, <1>6, <1>7 DEF Shape
  <2>2. inv \in DocumentRow /\ inv.total = t /\ inv.kind = e.row.kind /\ inv.status = e.row.status
        /\ inv.source = e.row.source
    BY <1>1, <1>3, <1>4, ChangedTotal
  <2> QED
    BY <1>7, <2>1, <2>2 DEF Columns
<1>8. CASE e.doc # 0
  <2>1. PICK old : old = documents[e.doc]
    OBVIOUS
  <2>2. old \in DocumentRow /\ e.sees \in DocumentRow /\ e.row.total = e.sees.total
    BY <1>8, <2>1, RowsExist DEF EditingInv, Shape
  <2>3. PICK r : r = [f \in DOMAIN inv |-> IF inv[f] = e.sees[f] THEN old[f] ELSE inv[f]]
    OBVIOUS
  <2>4. /\ r \in DocumentRow
        /\ r.kind = IF e.row.kind = e.sees.kind THEN old.kind ELSE e.row.kind
        /\ r.status = IF e.row.status = e.sees.status THEN old.status ELSE e.row.status
        /\ r.source = IF e.row.source = e.sees.source THEN old.source ELSE e.row.source
        /\ r.total = IF t = e.sees.total THEN old.total ELSE t
    BY <1>3, <1>4, <2>2, <2>3, WrittenColumns
  <2>5. RowAfter(e) = r
    BY <1>6, <1>8, <2>1, <2>3
  <2>6. r.total = IF ~e.sums \/ ItemsTotal(e) = e.sees.total THEN old.total ELSE ItemsTotal(e)
    BY <1>2, <2>2, <2>4
  <2> QED
    BY <1>8, <2>1, <2>2, <2>4, <2>5, <2>6 DEF Columns
<1> QED
  BY <1>7, <1>8

\* What w does to the rows and the items.
Commits(e, inv) ==
  /\ e.doc # 0 => e.doc \in Existing
  /\ e.doc = 0 => Room
  /\ documents' = IF e.doc = 0 THEN Append(documents, inv) ELSE [documents EXCEPT ![e.doc] = inv]
  /\ lines' = (lines \ e.drops) \cup {[doc |-> Target(e), nr |-> e.nr, cents |-> c] : c \in e.adds}

LEMMA CommitRows ==
  ASSUME EditingInv, NEW e \in Write, Shape(e), NEW inv \in DocumentRow, Commits(e, inv)
  PROVE  /\ documents' \in Seq(DocumentRow \cup {None}) /\ Len(documents') <= MaxDocuments
         /\ Target(e) \in DocumentId
         /\ e.doc # 0 => Target(e) = e.doc
         /\ e.doc = 0 => \A d \in DOMAIN documents : d < Target(e)
         /\ DOMAIN documents' = DOMAIN documents \cup {Target(e)}
         /\ documents'[Target(e)] = inv
         /\ \A d \in DOMAIN documents : d # Target(e) => documents'[d] = documents[d]
         /\ Existing' = Existing \cup {Target(e)}
<1>0. /\ documents \in Seq(DocumentRow \cup {None}) /\ Len(documents) <= MaxDocuments
      /\ Len(documents) \in Nat /\ DOMAIN documents = 1 .. Len(documents) /\ inv # None
      /\ MaxDocuments \in Nat
  BY EditingBounds DEF EditingInv, EditingTypes
<1>1. CASE e.doc = 0
  <2>1. Target(e) = Len(documents) + 1 /\ Len(documents) < MaxDocuments
    BY <1>1 DEF Target, Commits, Room
  <2>2. documents' = Append(documents, inv)
    BY <1>1 DEF Commits
  <2>3. /\ documents' \in Seq(DocumentRow \cup {None}) /\ Len(documents') = Len(documents) + 1
        /\ documents'[Len(documents) + 1] = inv
        /\ \A d \in 1 .. Len(documents) : documents'[d] = documents[d]
    BY <1>0, <2>2
  <2>4. DOMAIN documents' = DOMAIN documents \cup {Target(e)} /\ Target(e) \in DocumentId
        /\ Len(documents') <= MaxDocuments
    BY <1>0, <2>1, <2>3 DEF DocumentId
  <2>5. Existing' = Existing \cup {Target(e)}
    BY <1>0, <2>1, <2>3, <2>4 DEF Existing
  <2>6. \A d \in DOMAIN documents : d < Target(e)
    BY <1>0, <2>1
  <2> QED
    BY <1>0, <1>1, <2>1, <2>3, <2>4, <2>5, <2>6
<1>2. CASE e.doc # 0
  <2>1. Target(e) = e.doc /\ e.doc \in Existing /\ e.doc \in DOMAIN documents
        /\ documents' = [documents EXCEPT ![e.doc] = inv]
    BY <1>2 DEF Target, Commits, Existing
  <2>2. documents' \in Seq(DocumentRow \cup {None}) /\ Len(documents') = Len(documents)
    BY <1>0, <2>1
  <2>3. DOMAIN documents' = DOMAIN documents
        /\ \A d \in DOMAIN documents : documents'[d] = IF d = e.doc THEN inv ELSE documents[d]
    BY <2>1
  <2>4. Existing' = Existing
    BY <1>0, <2>1, <2>3 DEF Existing
  <2> QED
    BY <1>0, <1>2, <2>1, <2>2, <2>3, <2>4 DEF DocumentId
<1> QED
  BY <1>1, <1>2

LEMMA SumsAdd ==
  ASSUME NEW A, LineSet(A), NEW B, B = {} \/ \E l : B = {l} /\ l \notin A /\ l.cents \in Int
  PROVE  LineSet(A \cup B) /\ Sum(A \cup B) = Sum(A) + Sum(B)
<1>0. Sum(A) \in Int /\ Sum({}) = 0
  BY SumOfItems
<1>1. CASE B = {}
  <2>1. A \cup B = A
    BY <1>1
  <2> QED
    BY <1>0, <1>1, <2>1
<1>2. ASSUME NEW l, B = {l}, l \notin A, l.cents \in Int
      PROVE  LineSet(A \cup B) /\ Sum(A \cup B) = Sum(A) + Sum(B)
  <2>1. LineSet(A \cup B)
    BY <1>2, FS_AddElement DEF LineSet
  <2>2. LineSet(B)
    BY <1>2, FS_Singleton DEF LineSet
  <2>3. (A \cup B) \ {l} = A /\ l \in A \cup B /\ B \ {l} = {} /\ l \in B
    BY <1>2
  <2>4. Sum(A \cup B) = l.cents + Sum((A \cup B) \ {l})
    BY <2>1, <2>3, SumOfItems
  <2>5. Sum(B) = l.cents + Sum(B \ {l})
    BY <2>2, <2>3, SumOfItems
  <2>6. Sum(A \cup B) = l.cents + Sum(A) /\ Sum(B) = l.cents + Sum({})
    BY <2>3, <2>4, <2>5
  <2> QED
    BY <1>0, <1>2, <2>1, <2>6
<1> QED
  BY <1>1, <1>2

LEMMA CommitLines ==
  ASSUME EditingInv, NEW w \in Writer, NEW e \in Write, e = edits[w], Shape(e),
         NEW inv \in DocumentRow, Commits(e, inv), NEW t, t = Target(e)
  PROVE  /\ lines' \subseteq LineRow /\ IsFiniteSet(lines')
         /\ \A l \in lines' : l \in lines \/ (l.nr = e.nr /\ l.doc = t)
         /\ \A d : d # t => LinesOf(d)' = LinesOf(d)
         /\ Sum(LinesOf(t)') = Sum(LinesOf(t) \ e.drops) + Added(e.adds)
         /\ e.drops = {} /\ e.adds = {} => LinesOf(t)' = LinesOf(t)
<1> DEFINE New == {[doc |-> t, nr |-> e.nr, cents |-> c] : c \in e.adds}
<1>0. t \in DocumentId /\ (e.doc # 0 => t = e.doc)
  BY CommitRows
<1>1. lines' = (lines \ e.drops) \cup New
  BY DEF Commits
<1>2. e.nr \in 0 .. MaxEdits /\ \A l \in lines : l.nr # e.nr
  BY OpsDiffer, EditingBounds DEF Write, EditingInv, FreshNumbers
<1>3. PICK c \in Int : e.adds = {} \/ e.adds = {c}
  BY DEF Write
<1>4. PICK l : l = [doc |-> t, nr |-> e.nr, cents |-> c]
  OBVIOUS
<1>5. (e.adds = {} /\ New = {}) \/ (e.adds = {c} /\ New = {l})
  BY <1>3, <1>4
<1>6. l \in LineRow /\ l.cents = c /\ l.nr = e.nr /\ l.doc = t /\ l \notin lines
  BY <1>0, <1>2, <1>4 DEF LineRow
<1> HIDE DEF New
<1>7. LineSet(lines) /\ LineSet(lines \ e.drops) /\ LineSet(LinesOf(t) \ e.drops)
  BY LinesAdd DEF EditingInv, LinesOf
<1>8. New = {} \/ (New = {l} /\ l \notin lines \ e.drops /\ l \notin LinesOf(t) \ e.drops /\ l.cents \in Int)
  BY <1>5, <1>6 DEF LinesOf
<1>9. LineSet((lines \ e.drops) \cup New)
      /\ Sum((LinesOf(t) \ e.drops) \cup New) = Sum(LinesOf(t) \ e.drops) + Sum(New)
  BY <1>7, <1>8, SumsAdd
<1>10. Sum(New) = Added(e.adds)
  <2>1. CASE e.adds = {} /\ New = {}
    BY <2>1, AddedCents
  <2>2. CASE e.adds = {c} /\ New = {l}
    <3>1. Sum({l}) = c
      BY <1>6, SumOfOne
    <3> QED
      BY <2>2, <3>1, AddedCents
  <2> QED
    BY <1>5, <2>1, <2>2
<1>11. LinesOf(t)' = (LinesOf(t) \ e.drops) \cup New
  <2>1. LinesOf(t)' = {k \in lines' : k.doc = t}
    BY DEF LinesOf
  <2> QED
    BY <1>1, <1>5, <1>6, <2>1 DEF LinesOf
<1>12. ASSUME NEW d, d # t PROVE LinesOf(d)' = LinesOf(d)
  <2>1. \A k \in e.drops : k.doc = t
    BY <1>0 DEF Shape
  <2>2. LinesOf(d)' = {k \in lines' : k.doc = d}
    BY DEF LinesOf
  <2> QED
    BY <1>1, <1>5, <1>6, <1>12, <2>1, <2>2 DEF LinesOf
<1>13. e.drops = {} /\ e.adds = {} => LinesOf(t)' = LinesOf(t)
  BY <1>3, <1>5, <1>11
<1>14. lines' \subseteq LineRow
  BY <1>1, <1>5, <1>6 DEF EditingInv, EditingTypes
<1>15. IsFiniteSet(lines')
  BY <1>1, <1>9 DEF LineSet
<1>16. \A k \in lines' : k \in lines \/ (k.nr = e.nr /\ k.doc = t)
  BY <1>1, <1>5, <1>6
<1> QED
  BY <1>9, <1>10, <1>11, <1>12, <1>13, <1>14, <1>15, <1>16

\* Who took an issued document back has read it as issued.
TookBack(d) ==
  \E w \in Writer : edits[w].op = "write" /\ edits[w].doc = d /\ edits'[w] = NoEdit
                    /\ ~Drafted(edits[w].sees)

StaysIssued ==
  \A d \in Existing : ~Drafted(documents[d]) /\ documents'[d] # None /\ Drafted(documents'[d])
    => TookBack(d)

\* A step in which the request e writes the row inv of the document t.
WriteStep(e, inv, t) ==
  /\ e \in Write /\ WriteOK(e) /\ inv \in DocumentRow /\ Columns(e, inv) /\ t \in DocumentId
  /\ e.doc # 0 => t = e.doc /\ e.doc \in Existing
  /\ e.doc = 0 => \A d \in DOMAIN documents : d < t
  /\ DOMAIN documents' = DOMAIN documents \cup {t} /\ documents'[t] = inv
  /\ \A d \in DOMAIN documents : d # t => documents'[d] = documents[d]
  /\ Existing' = Existing \cup {t}
  /\ \A d : d # t => LinesOf(d)' = LinesOf(d)
  /\ Sum(LinesOf(t)') = Sum(LinesOf(t) \ e.drops) + Added(e.adds)
  /\ e.drops = {} /\ e.adds = {} => LinesOf(t)' = LinesOf(t)
  /\ doubled' = IF ChangesItems(e) /\ e.late THEN doubled \cup {e.doc} ELSE doubled
  /\ strained' = strained \cup Strains(e, inv)

LEMMA WriteStepIs ==
  ASSUME EditingInv, NEW w \in Writer, CommitEdit(w)
  PROVE  \E e, inv, t : /\ e = edits[w] /\ inv = RowAfter(e) /\ t = Target(e) /\ WriteStep(e, inv, t)
                       /\ edits' = Ends(e, Touches(e, inv)) /\ begun' = begun
                       /\ documents' \in Seq(DocumentRow \cup {None}) /\ Len(documents') <= MaxDocuments
                       /\ lines' \subseteq LineRow /\ IsFiniteSet(lines')
                       /\ \A l \in lines' : l \in lines \/ (l.nr = e.nr /\ l.doc = t)
<1>1. PICK e, inv, t : e = edits[w] /\ inv = RowAfter(e) /\ t = Target(e)
  OBVIOUS
<1>2. e.op = "write" /\ e \in Write /\ WriteOK(e)
  <2>1. e.op = "write"
    BY <1>1 DEF CommitEdit
  <2>2. e \in Write \cup Removal \cup {NoEdit}
    BY <1>1 DEF EditingInv, EditingTypes
  <2> QED
    BY <1>1, <2>1, <2>2, OpsDiffer DEF EditingInv, WritesOK
<1>3. /\ Commits(e, inv) /\ edits' = Ends(e, Touches(e, inv)) /\ begun' = begun
      /\ doubled' = IF ChangesItems(e) /\ e.late THEN doubled \cup {e.doc} ELSE doubled
      /\ strained' = strained \cup Strains(e, inv)
  BY <1>1 DEF CommitEdit, Commits
<1>4. Columns(e, inv) /\ inv \in DocumentRow
  <2>1. e.doc # 0 => e.doc \in Existing
    BY <1>3 DEF Commits
  <2> QED
    BY <1>1, <1>2, <2>1, RowAfterIs DEF WriteOK, Columns
<1>5. Shape(e)
  BY <1>2 DEF WriteOK
<1>6. e.doc # 0 => e.doc \in Existing
  BY <1>3 DEF Commits
<1>7. /\ documents' \in Seq(DocumentRow \cup {None}) /\ Len(documents') <= MaxDocuments
      /\ Target(e) \in DocumentId
      /\ e.doc # 0 => Target(e) = e.doc
      /\ e.doc = 0 => \A d \in DOMAIN documents : d < Target(e)
      /\ DOMAIN documents' = DOMAIN documents \cup {Target(e)}
      /\ documents'[Target(e)] = inv
      /\ \A d \in DOMAIN documents : d # Target(e) => documents'[d] = documents[d]
      /\ Existing' = Existing \cup {Target(e)}
  BY <1>2, <1>3, <1>4, <1>5, CommitRows
<1>8. /\ lines' \subseteq LineRow /\ IsFiniteSet(lines')
      /\ \A l \in lines' : l \in lines \/ (l.nr = e.nr /\ l.doc = t)
      /\ \A d : d # t => LinesOf(d)' = LinesOf(d)
      /\ Sum(LinesOf(t)') = Sum(LinesOf(t) \ e.drops) + Added(e.adds)
      /\ e.drops = {} /\ e.adds = {} => LinesOf(t)' = LinesOf(t)
  BY <1>1, <1>2, <1>3, <1>4, <1>5, CommitLines
<1>9. WriteStep(e, inv, t)
  BY <1>1, <1>2, <1>3, <1>4, <1>6, <1>7, <1>8 DEF WriteStep
<1> QED
  BY <1>1, <1>3, <1>7, <1>8, <1>9

\* What is summed is what the request has seen without what it takes away.
LEMMA ItemsTotalIs ==
  ASSUME NEW e, e.lines \subseteq lines, e.drops \subseteq e.lines
  PROVE  ItemsTotal(e) = NewTotal(e)
<1>1. e.drops \cap lines = e.drops
  OBVIOUS
<1> QED
  BY <1>1 DEF ItemsTotal, NewTotal, Added

LEMMA NewTarget ==
  ASSUME EditingInv, NEW e, NEW inv, NEW t, WriteStep(e, inv, t), e.doc = 0
  PROVE  t \notin DOMAIN documents /\ t \notin Existing /\ LinesOf(t) = {}
<1>1. t \in Nat /\ \A d \in DOMAIN documents : d < t
  BY EditingBounds DEF WriteStep
<1>2. t \notin DOMAIN documents
  BY <1>1
<1> QED
  BY <1>2 DEF EditingInv, RowsLink, LinesOf, Existing

LEMMA TotalsStay ==
  ASSUME EditingInv, NEW e, NEW inv, NEW t, WriteStep(e, inv, t)
  PROVE  /\ TotalOfItems'
         /\ t \in Existing \ doubled /\ ~ChangesItems(e) => inv.total = documents[t].total
<1>0. /\ e \in Write /\ e.op = "write" /\ Shape(e) /\ Summed(e) /\ Columns(e, inv)
      /\ doubled \subseteq doubled'
  BY OpsDiffer DEF WriteStep, WriteOK
<1>1. ASSUME e.doc # 0, t \notin doubled, ~ChangesItems(e)
      PROVE  inv.total = documents[t].total
  <2>1. e.drops = {} /\ e.adds = {} /\ t = e.doc /\ t \in Existing
    BY <1>0, <1>1 DEF ChangesItems, WriteStep
  <2>2. Sum(e.lines) = e.sees.total /\ e.sees.total \in Int
    BY <1>0, <1>1, <2>1 DEF Summed, Shape, DocumentRow
  <2>3. e.lines \ (e.drops \cap lines) = e.lines
    BY <2>1
  <2>4. ItemsTotal(e) = Sum(e.lines) + Added({})
    BY <2>1, <2>3 DEF ItemsTotal, Added
  <2>5. ItemsTotal(e) = e.sees.total
    BY <2>2, <2>4, AddedCents
  <2> QED
    BY <1>0, <1>1, <2>1, <2>5 DEF Columns
<1>2. ASSUME NEW d \in Existing', d \notin doubled', d # t
      PROVE  documents'[d].total = Sum(LinesOf(d)')
  BY <1>0, <1>2 DEF WriteStep, EditingInv, TotalOfItems, Existing
<1>3. ASSUME t \notin doubled' PROVE inv.total = Sum(LinesOf(t)')
  <2>1. CASE e.doc = 0
    <3>1. e.lines = {} /\ e.drops = {} /\ inv.total = ItemsTotal(e)
      BY <1>0, <2>1 DEF Shape, Columns
    <3>2. ItemsTotal(e) = NewTotal(e)
      BY <3>1, ItemsTotalIs
    <3>3. LinesOf(t) = {}
      BY <2>1, NewTarget
    <3>4. e.lines \ e.drops = {} /\ LinesOf(t) \ e.drops = {}
      BY <3>1, <3>3
    <3> QED
      BY <3>1, <3>2, <3>4 DEF NewTotal, WriteStep
  <2>2. CASE e.doc # 0 /\ ~ChangesItems(e)
    <3>1. t \in Existing \ doubled /\ LinesOf(t)' = LinesOf(t)
      BY <1>0, <1>3, <2>2 DEF WriteStep, ChangesItems
    <3>2. documents[t].total = Sum(LinesOf(t))
      BY <3>1 DEF EditingInv, TotalOfItems
    <3> QED
      BY <1>1, <2>2, <3>1, <3>2
  <2>3. CASE e.doc # 0 /\ ChangesItems(e)
    <3>1. ~e.late /\ t = e.doc /\ t \in Existing \ doubled
      BY <1>0, <1>3, <2>3 DEF WriteStep
    <3>2. e.lines = LinesOf(t) /\ e.sees.total = documents[t].total
      BY <1>0, <3>1 DEF Summed
    <3>3. e.sums
      BY <1>0, <2>3 DEF Shape, ChangesItems
    <3>4. ItemsTotal(e) = NewTotal(e)
      BY <1>0, <3>2, ItemsTotalIs DEF LinesOf, Shape
    <3>5. NewTotal(e) = Sum(LinesOf(t)')
      BY <3>2 DEF NewTotal, WriteStep
    <3> QED
      BY <1>0, <2>3, <3>1, <3>2, <3>3, <3>4, <3>5 DEF Columns
  <2> QED
    BY <2>1, <2>2, <2>3
<1>4. TotalOfItems'
  <2>1. \A d \in Existing' \ doubled' : documents'[d].total = Sum(LinesOf(d)')
    BY <1>2, <1>3 DEF WriteStep
  <2> QED
    BY <2>1 DEF TotalOfItems
<1>5. t \in Existing => e.doc # 0
  BY NewTarget
<1> QED
  BY <1>0, <1>1, <1>4, <1>5

\* A request that nobody has disturbed writes the sum of the items.
LEMMA UndisturbedTotal ==
  ASSUME EditingInv, NEW e, NEW inv, NEW t, WriteStep(e, inv, t), e.doc # 0, e.doc \notin e.stale
  PROVE  /\ e.sums => inv.total = NewTotal(e) /\ inv.total = Sum(LinesOf(t)')
         /\ ~e.sums => inv.total = documents[t].total /\ LinesOf(t)' = LinesOf(t)
         /\ t = e.doc /\ t \in Existing /\ documents[t] \in {e.sees, [e.sees EXCEPT !.source = None]}
         /\ documents[t].kind = e.sees.kind /\ documents[t].status = e.sees.status
<1>0. /\ e \in Write /\ Shape(e) /\ Unspoilt(e) /\ Columns(e, inv) /\ t = e.doc /\ t \in Existing
  BY DEF WriteStep, WriteOK
<1>1. e.lines = LinesOf(t) /\ documents[t] \in {e.sees, [e.sees EXCEPT !.source = None]}
  BY <1>0 DEF Unspoilt
<1>2. e.sees \in DocumentRow /\ None \in DocumentId \cup {None}
  BY <1>0 DEF Shape
<1>3. documents[t].total = e.sees.total /\ documents[t].kind = e.sees.kind
      /\ documents[t].status = e.sees.status
  BY <1>1, <1>2, ChangedSource
<1>4. ItemsTotal(e) = NewTotal(e)
  BY <1>0, <1>1, ItemsTotalIs DEF LinesOf, Shape
<1>5. NewTotal(e) = Sum(LinesOf(t)')
  BY <1>1 DEF NewTotal, WriteStep
<1>6. e.sums => inv.total = NewTotal(e)
  BY <1>0, <1>3, <1>4 DEF Columns
<1>7. ~e.sums => inv.total = documents[t].total /\ LinesOf(t)' = LinesOf(t)
  <2>1. ~e.sums => e.drops = {} /\ e.adds = {}
    BY <1>0 DEF Shape
  <2> QED
    BY <1>0, <2>1 DEF Columns, WriteStep
<1> QED
  BY <1>0, <1>1, <1>3, <1>5, <1>6, <1>7

\* The source of a note that is not strained: the note was compared with it.
LEMMA NotStrained ==
  ASSUME NEW e, NEW inv, NEW t, WriteStep(e, inv, t), IsNote(inv), inv.source # None,
         inv.source \notin strained'
  PROVE  /\ e.doc \notin e.stale /\ inv.source \notin e.stale /\ inv.source \notin strained
         /\ Drafted(inv) \/ e.drops # {} \/ e.adds = {}
BY DEF WriteStep, Strains

LEMMA NoteTotalsStay ==
  ASSUME EditingInv, NEW e, NEW inv, NEW t, WriteStep(e, inv, t)
  PROVE  NoteTotals'
<1>0. /\ e \in Write /\ Shape(e) /\ Columns(e, inv) /\ strained \subseteq strained'
  BY DEF WriteStep, WriteOK
<1>1. ASSUME NEW d \in Existing', d # t, IsNote(documents'[d]), documents'[d].source # None,
             documents'[d].source \notin strained'
      PROVE  documents'[d].total = Sum(LinesOf(d)')
  BY <1>0, <1>1 DEF WriteStep, EditingInv, NoteTotals, Existing
<1>2. ASSUME IsNote(inv), inv.source # None, inv.source \notin strained'
      PROVE  inv.total = Sum(LinesOf(t)')
  <2>1. e.doc \notin e.stale /\ inv.source \notin strained
    BY <1>2, NotStrained
  <2>2. CASE e.doc = 0
    <3>1. e.lines = {} /\ e.drops = {} /\ inv.total = ItemsTotal(e)
      BY <1>0, <2>2 DEF Shape, Columns
    <3>2. ItemsTotal(e) = NewTotal(e)
      BY <3>1, ItemsTotalIs
    <3>3. LinesOf(t) = {}
      BY <2>2, NewTarget
    <3>4. e.lines \ e.drops = {} /\ LinesOf(t) \ e.drops = {}
      BY <3>1, <3>3
    <3> QED
      BY <3>1, <3>2, <3>4 DEF NewTotal, WriteStep
  <2>3. CASE e.doc # 0 /\ e.sums
    BY <2>1, <2>3, UndisturbedTotal
  <2>4. CASE e.doc # 0 /\ ~e.sums
    <3>1. /\ inv.total = documents[t].total /\ LinesOf(t)' = LinesOf(t) /\ t = e.doc /\ t \in Existing
          /\ documents[t].kind = e.sees.kind
      BY <2>1, <2>4, UndisturbedTotal
    <3>2. inv.source = documents[t].source /\ inv.kind = documents[t].kind
      BY <1>0, <2>4, <3>1 DEF Columns, Shape
    <3>3. documents[t].total = Sum(LinesOf(t))
      BY <1>2, <2>1, <3>1, <3>2 DEF EditingInv, NoteTotals, IsNote
    <3> QED
      BY <3>1, <3>3
  <2> QED
    BY <2>2, <2>3, <2>4
<1>3. \A d \in Existing' : IsNote(documents'[d]) /\ documents'[d].source # None
                             /\ documents'[d].source \notin strained'
        => documents'[d].total = Sum(LinesOf(d)')
  BY <1>1, <1>2 DEF WriteStep
<1> QED
  BY <1>3 DEF NoteTotals, IsNote

\* What is credited without the document that is written stays as it is.
LEMMA CreditStays ==
  ASSUME EditingInv, NEW e, NEW inv, NEW t, WriteStep(e, inv, t), NEW s
  PROVE  /\ CreditOf(documents, NotesOf(s) \ {t}) \in Nat /\ Credited(s) \in Nat
         /\ CreditOf(documents, NotesOf(s) \ {t}) <= Credited(s)
         /\ ~(IsNote(inv) /\ inv.source = s /\ ~Drafted(inv))
              => Credited(s)' = CreditOf(documents, NotesOf(s) \ {t})
         /\ IsNote(inv) /\ inv.source = s /\ ~Drafted(inv)
              => Credited(s)' = Size(inv.total) + CreditOf(documents, NotesOf(s) \ {t})
<1>1. NoteSet(documents, NotesOf(s)) /\ NotesOf(s) \ {t} \in SUBSET NotesOf(s)
  BY NotesAreNotes
<1>2. CreditOf(documents, NotesOf(s) \ {t}) <= CreditOf(documents, NotesOf(s))
      /\ CreditOf(documents, NotesOf(s) \ {t}) \in Nat /\ CreditOf(documents, NotesOf(s)) \in Nat
  BY <1>1, CreditOfNotes
<1>3. NoteSet(documents, NotesOf(s) \ {t})
  BY <1>1, FS_Subset DEF NoteSet
<1>4. \A d \in Existing : d # t => d \in Existing' /\ documents'[d] = documents[d]
  BY DEF WriteStep, Existing
<1>5. \A d \in Existing' : d # t => d \in Existing
  BY DEF WriteStep
<1>6. NotesOf(s)' = {d \in Existing' : IsNote(documents'[d]) /\ documents'[d].source = s
                                       /\ ~Drafted(documents'[d])}
  BY DEF NotesOf, IsNote, Drafted
<1>7. NotesOf(s)' \ {t} = NotesOf(s) \ {t}
  BY <1>4, <1>5, <1>6 DEF NotesOf
<1>8. \A d \in NotesOf(s) \ {t} : documents'[d].total = documents[d].total
  BY <1>4 DEF NotesOf
<1>9. CreditOf(documents', NotesOf(s) \ {t}) = CreditOf(documents, NotesOf(s) \ {t})
  BY <1>3, <1>8, CreditOfNotes
<1>10. t \in NotesOf(s)' <=> IsNote(inv) /\ inv.source = s /\ ~Drafted(inv)
  BY <1>6 DEF WriteStep
<1>11. ASSUME t \in NotesOf(s)'
       PROVE  Credited(s)' = Size(inv.total) + CreditOf(documents, NotesOf(s) \ {t})
  <2>1. NotesOf(s)' = (NotesOf(s) \ {t}) \cup {t}
    BY <1>7, <1>11
  <2>2. IsFiniteSet(NotesOf(s)')
    BY <1>3, <2>1, FS_AddElement DEF NoteSet
  <2>3. documents'[t] = inv /\ inv.total \in Int
    BY DEF WriteStep, DocumentRow
  <2>4. \A d \in NotesOf(s)' : documents'[d].total \in Int
    BY <1>3, <1>8, <2>1, <2>3 DEF NoteSet
  <2>5. NoteSet(documents', NotesOf(s)')
    BY <2>2, <2>4 DEF NoteSet
  <2>6. CreditOf(documents', NotesOf(s)')
          = Size(documents'[t].total) + CreditOf(documents', NotesOf(s)' \ {t})
    BY <1>11, <2>5, CreditOfNotes
  <2> QED
    BY <1>7, <1>9, <2>3, <2>6, CreditedIs
<1>12. ASSUME t \notin NotesOf(s)'
       PROVE  Credited(s)' = CreditOf(documents, NotesOf(s) \ {t})
  <2>1. NotesOf(s)' = NotesOf(s) \ {t}
    BY <1>7, <1>12
  <2> QED
    BY <1>9, <2>1, CreditedIs
<1>13. Credited(s) = CreditOf(documents, NotesOf(s))
  BY CreditedIs
<1> QED
  BY <1>2, <1>10, <1>11, <1>12, <1>13

LEMMA NotesKeepGiving ==
  ASSUME EditingInv, NEW e, NEW inv, NEW t, WriteStep(e, inv, t)
  PROVE  NotesGiveBack'
<1>1. ASSUME NEW d \in Existing', d # t, IsNote(documents'[d]), ~Drafted(documents'[d]),
             documents'[d].source # None, documents'[d].source \notin strained'
      PROVE  documents'[d].total <= 0
  BY <1>1 DEF WriteStep, EditingInv, NotesGiveBack, Existing
<1>2. ASSUME IsNote(inv), ~Drafted(inv), inv.source # None, inv.source \notin strained'
      PROVE  inv.total <= 0
  <2>1. ~(inv.total > 0)
    BY <1>2 DEF WriteStep, Strains
  <2>2. inv.total \in Int
    BY DEF WriteStep, DocumentRow
  <2> QED
    BY <2>1, <2>2
<1>3. \A d \in Existing' : IsNote(documents'[d]) /\ ~Drafted(documents'[d])
                             /\ documents'[d].source # None /\ documents'[d].source \notin strained'
        => documents'[d].total <= 0
  BY <1>1, <1>2 DEF WriteStep
<1> QED
  BY <1>3 DEF NotesGiveBack, IsNote, Drafted

LEMMA CreditsStay ==
  ASSUME EditingInv, NEW e, NEW inv, NEW t, WriteStep(e, inv, t)
  PROVE  CreditsFit'
<1>0. /\ e \in Write /\ Shape(e) /\ Checked(e) /\ Columns(e, inv) /\ strained \subseteq strained'
      /\ inv \in DocumentRow /\ inv.total \in Int
  BY DEF WriteStep, WriteOK, DocumentRow
<1>1. SUFFICES ASSUME NEW s \in Existing', s \notin strained'
               PROVE  Credited(s)' <= Max({documents'[s].total, 0})
  BY DEF CreditsFit
<1>2. PICK c \in Nat, k \in Nat :
        /\ c = CreditOf(documents, NotesOf(s) \ {t}) /\ k = Credited(s) /\ c <= k
        /\ ~(IsNote(inv) /\ inv.source = s /\ ~Drafted(inv)) => Credited(s)' = c
        /\ IsNote(inv) /\ inv.source = s /\ ~Drafted(inv) => Credited(s)' = Size(inv.total) + c
  BY CreditStays
<1>3. s \in Existing => k <= Max({documents[s].total, 0}) /\ documents[s].total \in Int
  BY <1>0, <1>1, <1>2, SumsAreInts DEF EditingInv, CreditsFit
<1>4. s # t => s \in Existing /\ documents'[s] = documents[s]
  BY <1>1 DEF WriteStep, Existing
<1>5. CASE s = t /\ e.doc = 0
  <2>1. t \notin DOMAIN documents
    BY <1>5, NewTarget
  <2>2. inv.source # t
    BY <1>0, <1>5, <2>1, EditingBounds DEF Columns, Shape, WriteStep
  <2>3. NotesOf(t) = {}
    <3>1. ASSUME NEW d \in Existing PROVE documents[d].source # t
      <4>1. documents[d].source = t => documents[d].source # None
        BY EditingBounds DEF WriteStep
      <4>2. documents[d].source # None => documents[d].source \in DOMAIN documents
        BY DEF EditingInv, RowsLink
      <4> QED
        BY <2>1, <4>1, <4>2
    <3> QED
      BY <3>1 DEF NotesOf
  <2>4. NotesOf(s) \ {t} = {} /\ IsFiniteSet({})
    BY <1>5, <2>3, FS_EmptySet
  <2>5. c = 0
    BY <1>2, <2>4, CreditIsSumOver, SumOfNothing
  <2>6. Credited(s)' = 0 /\ documents'[s] = inv
    BY <1>2, <1>5, <2>2, <2>5 DEF WriteStep
  <2> QED
    BY <1>0, <2>6, MaxOfTwo
<1>6. CASE s = t /\ e.doc # 0
  <2>1. s = e.doc /\ s \in Existing /\ documents'[s] = inv
        /\ inv.source \in {documents[s].source, e.row.source}
    BY <1>0, <1>6 DEF WriteStep, Columns
  <2>2. inv.source # s
    <3>1. s \in DocumentId /\ s # None
      BY <2>1, RowsExist, EditingBounds DEF EditingInv
    <3>2. documents[s].source # s
      BY <2>1, <3>1 DEF EditingInv, RowsLink
    <3>3. e.row.source # e.sees.source => e.row.source # s
      BY <1>0, <1>6, <2>1, <3>1 DEF Shape
    <3> QED
      BY <1>0, <1>6, <2>1, <3>2, <3>3 DEF Columns
  <2>3. inv.total >= documents[s].total
    <3>1. ~(inv.total < documents[e.doc].total)
      BY <1>1, <1>6, <2>1 DEF WriteStep, Strains
    <3> QED
      BY <1>0, <1>3, <2>1, <3>1
  <2>4. Credited(s)' = c
    BY <1>2, <2>2
  <2>5. PICK x \in Int, y \in Int : x = documents[s].total /\ y = inv.total /\ y >= x
    BY <1>0, <1>3, <2>1, <2>3
  <2>6. Max({x, 0}) = (IF x >= 0 THEN x ELSE 0) /\ Max({y, 0}) = IF y >= 0 THEN y ELSE 0
    BY MaxOfTwo
  <2>7. c <= Max({y, 0})
    BY <1>2, <1>3, <2>1, <2>5, <2>6
  <2> QED
    BY <2>1, <2>4, <2>5, <2>7
<1>7. CASE s # t /\ ~(IsNote(inv) /\ inv.source = s /\ ~Drafted(inv))
  <2>1. PICK x \in Int : x = documents[s].total /\ documents'[s] = documents[s] /\ k <= Max({x, 0})
    BY <1>3, <1>4, <1>7
  <2>2. Max({x, 0}) = IF x >= 0 THEN x ELSE 0
    BY MaxOfTwo
  <2>3. c <= Max({x, 0}) /\ Credited(s)' = c
    BY <1>2, <1>7, <2>1, <2>2
  <2> QED
    BY <2>1, <2>3
<1>8. CASE s # t /\ IsNote(inv) /\ inv.source = s /\ ~Drafted(inv)
  <2>1. inv.source # None
    BY <1>4, <1>8, RowsExist, EditingBounds DEF EditingInv
  <2>2. e.doc \notin e.stale /\ s \notin e.stale /\ s \notin strained /\ (e.drops # {} \/ e.adds = {})
    BY <1>1, <1>8, <2>1, NotStrained
  <2>3. e.doc # 0
    BY <1>0, <1>8 DEF Columns, Shape, IsNote, Drafted
  <2>4. /\ e.sums => inv.total = NewTotal(e)
        /\ t = e.doc /\ t \in Existing /\ documents[t] \in {e.sees, [e.sees EXCEPT !.source = None]}
        /\ documents[t].kind = e.sees.kind /\ documents[t].status = e.sees.status
    BY <2>2, <2>3, UndisturbedTotal
  <2>5. inv.kind = e.row.kind /\ inv.status = e.row.status
    BY <1>0, <2>3, <2>4 DEF Columns
  <2>6. e.row.source = s
    <3>1. e.sees \in DocumentRow /\ e.row.source = e.sees.source /\ inv.source = documents[t].source
      BY <1>0, <1>8, <2>3, <2>4, <2>5 DEF Shape, Columns, Drafted
    <3>2. [e.sees EXCEPT !.source = None].source = None
      BY <3>1, ChangedSource
    <3> QED
      BY <1>8, <2>1, <2>4, <2>5, <3>1, <3>2
  <2>7. e.sums
    BY <1>0, <1>8, <2>5 DEF Shape, Drafted
  <2>8. Size(inv.total) <= Max({documents[s].total - c, 0})
    <3>1. CreditedBesides(s, e.doc) = c
      BY <1>2, <2>4, CreditedIs
    <3>2. Size(NewTotal(e)) <= Max({documents[s].total - CreditedBesides(s, e.doc), 0})
      BY <1>0, <1>4, <1>8, <2>2, <2>4, <2>5, <2>6 DEF Checked, FitsBeside, IsNote, Drafted
    <3> QED
      BY <2>4, <2>7, <3>1, <3>2
  <2>9. PICK z \in Nat, x \in Int : z = Size(inv.total) /\ x = documents[s].total
    BY <1>0, <1>3, <1>4, <1>8, SizeIsNat
  <2>10. z <= IF x - c >= 0 THEN x - c ELSE 0
    BY <2>8, <2>9, MaxOfTwo
  <2>11. k <= IF x >= 0 THEN x ELSE 0
    BY <1>3, <1>4, <1>8, <2>9, MaxOfTwo
  <2>12. z + c <= IF x >= 0 THEN x ELSE 0
    BY <1>2, <2>10, <2>11
  <2>13. Credited(s)' = z + c
    BY <1>2, <1>8, <2>9
  <2>14. documents'[s].total = x /\ Max({x, 0}) = IF x >= 0 THEN x ELSE 0
    BY <1>4, <1>8, <2>9, MaxOfTwo
  <2> QED
    BY <2>12, <2>13, <2>14
<1> QED
  BY <1>5, <1>6, <1>7, <1>8

Touched(t, inv) ==
  ({t, inv.source} \cup {documents[d].source : d \in {t} \cap Existing}) \ {None}

\* What the other requests are about to write still agrees with what they have seen.
LEMMA OthersStay ==
  ASSUME EditingInv, NEW e, NEW inv, NEW t, WriteStep(e, inv, t),
         NEW f \in Write, WriteOK(f), NEW g,
         Later(g, f, Touched(t, inv)),
         g.late <=> f.late \/ (f.doc = t /\ ChangesItems(e))
  PROVE  WriteOK(g)'
<1>0. /\ Shape(f) /\ Summed(f) /\ Unspoilt(f) /\ Checked(f)
      /\ g.op = "write" /\ g.doc = f.doc /\ g.lines = f.lines /\ g.row = f.row /\ g.sees = f.sees
      /\ g.drops = f.drops /\ g.adds = f.adds /\ g.sums = f.sums
      /\ g.stale = f.stale \cup Touched(t, inv) /\ t \in Touched(t, inv)
      /\ inv.source # None => inv.source \in Touched(t, inv)
      /\ t \in Existing /\ documents[t].source # None => documents[t].source \in Touched(t, inv)
  <2>1. t # None
    BY EditingBounds DEF WriteStep
  <2> QED
    BY <2>1, OpsDiffer DEF WriteOK, Later, Touched
<1>1. /\ DOMAIN documents' = DOMAIN documents \cup {t} /\ Existing' = Existing \cup {t}
      /\ documents'[t] = inv /\ doubled \subseteq doubled' /\ strained \subseteq strained'
      /\ \A d : d # t => LinesOf(d)' = LinesOf(d)
      /\ t \in DocumentId /\ Columns(e, inv)
  BY DEF WriteStep
<1>2. \A d \in Existing : d # t => documents'[d] = documents[d]
  BY DEF WriteStep, Existing
<1>3. Shape(g)'
  <2>1. t # 0 /\ \A d \in DOMAIN documents : d \in DOMAIN documents'
    BY <1>1, EditingBounds
  <2> QED
    BY <1>0, <2>1 DEF Shape, Drafted, IsNote
<1>4. f.doc \in Existing' => f.doc \in Existing
  <2>1. CASE e.doc = 0
    <3>1. t \notin DOMAIN documents /\ t # 0
      BY <1>1, <2>1, NewTarget, EditingBounds
    <3> QED
      BY <1>0, <1>1, <3>1 DEF Shape
  <2>2. CASE e.doc # 0
    BY <1>1, <2>2 DEF WriteStep
  <2> QED
    BY <2>1, <2>2
<1>5. Summed(g)'
  <2>1. SUFFICES ASSUME f.doc \in Existing', f.doc \notin doubled'
                 PROVE  /\ Sum(f.lines) = f.sees.total
                        /\ ~g.late => f.lines = LinesOf(f.doc)' /\ f.sees.total = documents'[f.doc].total
    BY <1>0 DEF Summed
  <2>2. Sum(f.lines) = f.sees.total /\ (~f.late => f.lines = LinesOf(f.doc) /\ f.sees.total = documents[f.doc].total)
    BY <1>0, <1>1, <1>4, <2>1 DEF Summed
  <2>3. CASE f.doc # t
    BY <1>1, <1>2, <1>4, <2>1, <2>2, <2>3
  <2>4. CASE f.doc = t /\ ~ChangesItems(e)
    <3>1. t \in Existing \ doubled
      BY <1>1, <1>4, <2>1, <2>4
    <3>2. inv.total = documents[t].total
      BY <2>4, <3>1, TotalsStay
    <3>3. e.drops = {} /\ e.adds = {}
      BY <2>4, OpsDiffer DEF ChangesItems, WriteStep
    <3>4. LinesOf(t)' = LinesOf(t)
      BY <3>3 DEF WriteStep
    <3> QED
      BY <1>1, <2>2, <2>4, <3>2, <3>4
  <2> QED
    BY <2>2, <2>3, <2>4
<1>6. Unspoilt(g)'
  <2>1. SUFFICES ASSUME f.doc \in Existing', f.doc # t, f.doc \notin f.stale
                 PROVE  /\ f.lines = LinesOf(f.doc)'
                        /\ documents'[f.doc] \in {f.sees, [f.sees EXCEPT !.source = None]}
    BY <1>0 DEF Unspoilt
  <2> QED
    BY <1>0, <1>1, <1>2, <1>4, <2>1 DEF Unspoilt
<1>7. Checked(g)'
  <2> DEFINE s == f.row.source
  <2>1. SUFFICES ASSUME f.doc \in Existing', f.doc # t, f.doc \notin f.stale, IsNote(f.row), ~Drafted(f.row),
                        s \in Existing', s \notin strained', s # t, s \notin f.stale,
                        s # inv.source \/ s = None, t \in Existing => documents[t].source # s \/ s = None,
                        f.drops # {} \/ f.adds = {}
                 PROVE  Size(NewTotal(f)) <= Max({documents'[s].total - CreditedBesides(s, f.doc)', 0})
    <3>1. NewTotal(g) = NewTotal(f)
      BY <1>0 DEF NewTotal
    <3> QED
      BY <1>0, <3>1 DEF Checked, FitsBeside, IsNote, Drafted, NewTotal
  <2>2. s \in Existing /\ f.doc \in Existing /\ documents'[s] = documents[s]
    BY <1>1, <1>2, <1>4, <2>1
  <2>3. s # inv.source /\ (t \in Existing => documents[t].source # s)
    BY <2>1, <2>2, RowsExist, EditingBounds DEF EditingInv
  <2> HIDE DEF s
  <2>4. NotesOf(s)' = NotesOf(s)
    <3>1. NotesOf(s)' = {d \in Existing' : IsNote(documents'[d]) /\ documents'[d].source = s
                                           /\ ~Drafted(documents'[d])}
      BY DEF NotesOf, IsNote, Drafted
    <3> QED
      BY <1>1, <1>2, <2>3, <3>1 DEF NotesOf
  <2>5. \A d \in NotesOf(s) \ {f.doc} : documents'[d].total = documents[d].total
    <3>1. t \notin NotesOf(s)
      BY <2>3 DEF NotesOf
    <3> QED
      BY <1>2, <3>1 DEF NotesOf
  <2>6. NoteSet(documents, NotesOf(s) \ {f.doc})
    BY NotesAreNotes, FS_Subset DEF NoteSet
  <2>7. CreditOf(documents', NotesOf(s) \ {f.doc}) = CreditOf(documents, NotesOf(s) \ {f.doc})
    BY <2>5, <2>6, CreditOfNotes
  <2>8. CreditedBesides(s, f.doc)' = CreditedBesides(s, f.doc)
    BY <2>4, <2>7, CreditedIs
  <2>9. Size(NewTotal(f)) <= Max({documents[s].total - CreditedBesides(s, f.doc), 0})
    BY <1>0, <1>1, <2>1, <2>2 DEF Checked, FitsBeside, s
  <2> QED
    BY <2>2, <2>8, <2>9
<1> QED
  BY <1>3, <1>5, <1>6, <1>7 DEF WriteOK

LEMMA CommitEditStep ==
  ASSUME EditingInv, NEW w \in Writer, CommitEdit(w)
  PROVE  EditingInv' /\ StaysIssued
<1>1. PICK e, inv, t :
        /\ e = edits[w] /\ t = Target(e) /\ WriteStep(e, inv, t)
        /\ edits' = Ends(e, Touches(e, inv)) /\ begun' = begun
        /\ documents' \in Seq(DocumentRow \cup {None}) /\ Len(documents') <= MaxDocuments
        /\ lines' \subseteq LineRow /\ IsFiniteSet(lines')
        /\ \A l \in lines' : l \in lines \/ (l.nr = e.nr /\ l.doc = t)
  BY WriteStepIs
<1>2. PICK touched \in SUBSET DocumentId :
        touched = Touched(t, inv) /\ touched = Touches(e, inv)
  <2>1. \A d \in {t} \cap Existing : documents[d].source \in DocumentId \cup {None}
    BY RowsExist DEF EditingInv, DocumentRow
  <2>2. t \in DocumentId /\ inv.source \in DocumentId \cup {None}
    BY <1>1 DEF WriteStep, DocumentRow
  <2> QED
    BY <1>1, <2>1, <2>2 DEF Touches, Touched
<1>3. e # NoEdit /\ e.op = "write"
  BY OpsDiffer, <1>1 DEF WriteStep
<1>4. OthersLater(w, e, touched)
  BY <1>1, <1>2, <1>3, EndsOf
<1>5. EditingTypes'
  <2>1. strained' \subseteq DocumentId /\ doubled' \subseteq DocumentId
    <3>2. Strains(e, inv) \subseteq DocumentId
      BY <1>1 DEF Strains, WriteStep, DocumentRow, Write
    <3>3. strained \subseteq DocumentId /\ doubled \subseteq DocumentId
      BY DEF EditingInv, EditingTypes
    <3>4. ChangesItems(e) /\ e.late => e.doc \in DocumentId
      BY <1>1, <1>3 DEF WriteStep, Write, WriteOK, Shape
    <3> QED
      BY <1>1, <3>2, <3>3, <3>4 DEF WriteStep
  <2> QED
    BY <1>1, <1>4, <2>1 DEF EditingInv, EditingTypes, OthersLater
<1>6. RowsLink'
  <2>1. \A l \in lines' : l.doc \in DOMAIN documents'
    BY <1>1 DEF EditingInv, RowsLink, WriteStep
  <2>2. ASSUME NEW d \in Existing', d # t, documents'[d].source # None
        PROVE  documents'[d].source \in DOMAIN documents' \ {d}
    BY <1>1, <2>2 DEF WriteStep, EditingInv, RowsLink, Existing
  <2>3. ASSUME inv.source # None PROVE inv.source \in DOMAIN documents' \ {t}
    <3>1. CASE e.doc = 0
      <4>1. inv.source \in DOMAIN documents /\ t \notin DOMAIN documents
        <5>1. Shape(e) /\ Columns(e, inv) /\ t \notin DOMAIN documents
          BY <1>1, <3>1, NewTarget DEF WriteStep, WriteOK
        <5> QED
          BY <2>3, <3>1, <5>1 DEF Columns, Shape
      <4> QED
        BY <1>1, <4>1 DEF WriteStep
    <3>2. CASE e.doc # 0
      <4>1. t = e.doc /\ t \in Existing /\ Shape(e) /\ Columns(e, inv)
        BY <1>1, <3>2 DEF WriteStep, WriteOK
      <4>2. inv.source \in DOMAIN documents \ {t}
        BY <2>3, <3>2, <4>1 DEF Columns, Shape, EditingInv, RowsLink
      <4> QED
        BY <1>1, <4>2 DEF WriteStep
    <3> QED
      BY <3>1, <3>2
  <2>4. \A d \in Existing' : documents'[d].source # None => documents'[d].source \in DOMAIN documents' \ {d}
    BY <1>1, <2>2, <2>3 DEF WriteStep
  <2> QED
    BY <2>1, <2>4 DEF RowsLink
<1>7. FreshNumbers'
  BY <1>1, <1>2, <1>3, NumbersStayFresh
<1>8. WritesOK'
  <2>1. SUFFICES ASSUME NEW v \in Writer, edits'[v].op = "write" PROVE WriteOK(edits[v])'
    BY DEF WritesOK
  <2>2. PICK f, g : f = edits[v] /\ g = edits'[v]
    OBVIOUS
  <2>3. g # NoEdit
    BY <2>1, <2>2, OpsDiffer
  <2>4. /\ Later(g, f, touched) /\ f # NoEdit
        /\ g.late <=> f.late \/ (f.doc = t /\ ChangesItems(e))
    BY <1>1, <1>4, <2>2, <2>3 DEF OthersLater
  <2>5. f.op = "write"
    BY <2>1, <2>2, <2>4 DEF Later
  <2>6. f \in Write
    BY <2>2, <2>5, OpsDiffer DEF EditingInv, EditingTypes
  <2>7. WriteOK(f)
    BY <2>2, <2>5 DEF EditingInv, WritesOK
  <2>9. Later(g, f, Touched(t, inv))
    BY <1>2, <2>4
  <2>8. WriteOK(g)'
    BY <1>1, <2>4, <2>6, <2>7, <2>9, OthersStay
  <2> QED
    BY <2>2, <2>8
<1>9. TotalOfItems' /\ NoteTotals' /\ NotesGiveBack' /\ CreditsFit'
  BY <1>1, TotalsStay, NoteTotalsStay, NotesKeepGiving, CreditsStay
<1>10. ASSUME NEW d \in Existing, ~Drafted(documents[d]), documents'[d] # None, Drafted(documents'[d])
       PROVE  TookBack(d)
  <2>0. d = t /\ t \in Existing
    BY <1>1, <1>10 DEF WriteStep, Existing
  <2>1. d = t /\ e.doc = t /\ e.doc # 0 /\ documents'[d] = inv
    BY <1>1, <2>0, NewTarget DEF WriteStep
  <2>2. ~Drafted(e.sees)
    BY <1>1, <1>10, <2>1 DEF WriteStep, Columns, Drafted
  <2>3. edits'[w] = NoEdit
    BY <1>4 DEF OthersLater
  <2> QED
    BY <1>1, <1>3, <2>1, <2>2, <2>3 DEF TookBack
<1> QED
  BY <1>5, <1>6, <1>7, <1>8, <1>9, <1>10 DEF EditingInv, StaysIssued

-----------------------------------------------------------------------------
(* A commit that deletes a document. *)

\* The step in which the document d goes.
DeleteStep(d) ==
  /\ d \in Existing /\ DOMAIN documents' = DOMAIN documents /\ Existing' = Existing \ {d}
  /\ \A x \in Existing' : /\ documents'[x] \in DocumentRow
                          /\ documents'[x] \in {documents[x], [documents[x] EXCEPT !.source = None]}
                          /\ documents'[x].kind = documents[x].kind
                          /\ documents'[x].status = documents[x].status
                          /\ documents'[x].total = documents[x].total
                          /\ documents'[x].source \in {documents[x].source, None}
  /\ \A x : x # d => LinesOf(x)' = LinesOf(x)
  /\ UNCHANGED <<doubled, strained>>

LEMMA DeleteStepIs ==
  ASSUME EditingInv, NEW w \in Writer, CommitDelete(w)
  PROVE  \E e : /\ e = edits[w] /\ e \in Removal /\ DeleteStep(e.doc)
               /\ edits' = Ends(e, {e.doc}) /\ begun' = begun
               /\ documents' \in Seq(DocumentRow \cup {None}) /\ Len(documents') <= MaxDocuments
               /\ lines' \subseteq lines
<1>1. PICK e : e = edits[w]
  OBVIOUS
<1>2. /\ e \in Removal
  <2>1. e.op = "delete" /\ e \in Write \cup Removal \cup {NoEdit}
    BY <1>1 DEF CommitDelete, EditingInv, EditingTypes
  <2> QED
    BY <2>1, OpsDiffer
<1>3. PICK d : d = e.doc
  OBVIOUS
<1>4. /\ d \in Existing /\ e.links \subseteq Existing
      /\ documents' = [x \in DOMAIN documents |->
                         IF x = d THEN None
                         ELSE IF x \in e.links THEN [documents[x] EXCEPT !.source = None]
                         ELSE documents[x]]
      /\ lines' = lines \ LinesOf(d)
      /\ edits' = Ends(e, {d}) /\ UNCHANGED <<begun, doubled, strained>>
  BY <1>1, <1>3 DEF CommitDelete, Removable
<1>5. /\ documents \in Seq(DocumentRow \cup {None}) /\ Len(documents) <= MaxDocuments
      /\ Len(documents) \in Nat /\ DOMAIN documents = 1 .. Len(documents) /\ None \notin DocumentRow
      /\ \A x \in Existing : documents[x] \in DocumentRow
  BY RowsExist, EditingBounds DEF EditingInv, EditingTypes
<1>6. ASSUME NEW x \in DOMAIN documents, x # d, documents[x] # None
      PROVE  /\ documents'[x] \in DocumentRow
             /\ documents'[x] \in {documents[x], [documents[x] EXCEPT !.source = None]}
             /\ documents'[x].kind = documents[x].kind
             /\ documents'[x].status = documents[x].status
             /\ documents'[x].total = documents[x].total
             /\ documents'[x].source \in {documents[x].source, None}
  <2>1. PICK r \in DocumentRow : r = documents[x]
    BY <1>5, <1>6 DEF Existing
  <2>2. PICK q : q = [r EXCEPT !.source = None]
    OBVIOUS
  <2>3. q \in DocumentRow /\ q.kind = r.kind /\ q.status = r.status /\ q.total = r.total /\ q.source = None
    BY <2>2, ChangedSource
  <2>4. documents'[x] = IF x \in e.links THEN q ELSE r
    BY <1>4, <1>6, <2>1, <2>2
  <2> QED
    BY <2>1, <2>2, <2>3, <2>4
<1>7. DOMAIN documents' = DOMAIN documents /\ documents'[d] = None /\ d \in DOMAIN documents
  BY <1>4 DEF Existing
<1>8. \A x \in DOMAIN documents : documents[x] = None => documents'[x] = None
  BY <1>4 DEF Existing
<1>9. Existing' = Existing \ {d}
  <2>1. Existing' = {x \in DOMAIN documents' : documents'[x] # None}
    BY DEF Existing
  <2> QED
    BY <1>5, <1>6, <1>7, <1>8, <2>1 DEF Existing
<1>10. documents' \in Seq(DocumentRow \cup {None}) /\ Len(documents') <= MaxDocuments
  <2>1. \A x \in DOMAIN documents : documents'[x] \in DocumentRow \cup {None}
    BY <1>6, <1>7, <1>8
  <2>2. documents' \in [1 .. Len(documents) -> DocumentRow \cup {None}]
    BY <1>4, <1>5, <2>1
  <2>3. documents' \in Seq(DocumentRow \cup {None}) /\ Len(documents') = Len(documents)
    BY <1>5, <2>2
  <2> QED
    BY <1>5, <2>3
<1>11. \A x : x # d => LinesOf(x)' = LinesOf(x)
  BY <1>4 DEF LinesOf
<1>12. \A x \in Existing' : x \in DOMAIN documents /\ x # d /\ documents[x] # None
  BY <1>9 DEF Existing
<1>13. DeleteStep(d)
  BY <1>4, <1>6, <1>7, <1>9, <1>11, <1>12 DEF DeleteStep
<1> QED
  BY <1>1, <1>2, <1>3, <1>4, <1>10, <1>13

\* Deletions only lower what is credited.
LEMMA DeletionCredits ==
  ASSUME EditingInv, NEW d, DeleteStep(d), NEW s \in DocumentId, NEW own
  PROVE  /\ Credited(s)' \in Nat /\ Credited(s) \in Nat /\ Credited(s)' <= Credited(s)
         /\ CreditedBesides(s, own)' \in Nat /\ CreditedBesides(s, own) \in Nat
         /\ CreditedBesides(s, own)' <= CreditedBesides(s, own)
<1>1. NotesOf(s)' = {x \in Existing' : IsNote(documents'[x]) /\ documents'[x].source = s
                                       /\ ~Drafted(documents'[x])}
  BY DEF NotesOf, IsNote, Drafted
<1>2. NotesOf(s)' \subseteq NotesOf(s) /\ \A x \in NotesOf(s)' : documents'[x].total = documents[x].total
  BY <1>1, EditingBounds DEF DeleteStep, NotesOf, IsNote, Drafted
<1>3. ASSUME NEW M, NEW N, M \subseteq N, N \subseteq NotesOf(s), M \subseteq NotesOf(s)'
      PROVE  /\ CreditOf(documents', M) \in Nat /\ CreditOf(documents, N) \in Nat
             /\ CreditOf(documents', M) <= CreditOf(documents, N)
  <2>1. NoteSet(documents, N) /\ NoteSet(documents, M)
    <3>1. NoteSet(documents, NotesOf(s))
      BY NotesAreNotes
    <3> QED
      BY <1>3, <3>1, FS_Subset DEF NoteSet
  <2>2. CreditOf(documents', M) = CreditOf(documents, M)
    BY <1>2, <1>3, <2>1, CreditOfNotes
  <2>3. CreditOf(documents, M) <= CreditOf(documents, N) /\ CreditOf(documents, M) \in Nat
        /\ CreditOf(documents, N) \in Nat
    BY <1>3, <2>1, CreditOfNotes
  <2> QED
    BY <2>2, <2>3
<1>4. NotesOf(s)' \ {own} \subseteq NotesOf(s) \ {own}
  BY <1>2
<1>5. /\ CreditOf(documents', NotesOf(s)') \in Nat /\ CreditOf(documents, NotesOf(s)) \in Nat
      /\ CreditOf(documents', NotesOf(s)') <= CreditOf(documents, NotesOf(s))
  BY <1>2, <1>3
<1>6. /\ CreditOf(documents', NotesOf(s)' \ {own}) \in Nat
      /\ CreditOf(documents, NotesOf(s) \ {own}) \in Nat
      /\ CreditOf(documents', NotesOf(s)' \ {own}) <= CreditOf(documents, NotesOf(s) \ {own})
  BY <1>3, <1>4
<1> QED
  BY <1>5, <1>6, CreditedIs

LEMMA OthersStayDeleted ==
  ASSUME EditingInv, NEW d, DeleteStep(d), NEW f \in Write, WriteOK(f),
         NEW g, Later(g, f, {d}), g.late <=> f.late
  PROVE  WriteOK(g)'
<1>0. /\ Shape(f) /\ Summed(f) /\ Unspoilt(f) /\ Checked(f)
      /\ g.op = "write" /\ g.doc = f.doc /\ g.lines = f.lines /\ g.row = f.row /\ g.sees = f.sees
      /\ g.drops = f.drops /\ g.adds = f.adds /\ g.sums = f.sums
      /\ g.stale = f.stale \cup {d}
  BY OpsDiffer DEF WriteOK, Later
<1>1. /\ Existing' = Existing \ {d} /\ DOMAIN documents' = DOMAIN documents
      /\ doubled' = doubled /\ strained' = strained
      /\ \A x \in Existing' : /\ documents'[x] \in {documents[x], [documents[x] EXCEPT !.source = None]}
                              /\ documents'[x].total = documents[x].total
                              /\ LinesOf(x)' = LinesOf(x)
  BY DEF DeleteStep
<1>2. Shape(g)'
  BY <1>0, <1>1 DEF Shape, Drafted, IsNote
<1>3. Summed(g)'
  BY <1>0, <1>1 DEF Summed
<1>4. Unspoilt(g)'
  <2>1. SUFFICES ASSUME f.doc \in Existing', f.doc # d, f.doc \notin f.stale
                 PROVE  /\ f.lines = LinesOf(f.doc)'
                        /\ documents'[f.doc] \in {f.sees, [f.sees EXCEPT !.source = None]}
    BY <1>0 DEF Unspoilt
  <2>2. f.doc # 0 /\ f.sees \in DocumentRow
    BY <1>0, <1>1, <2>1, RowsExist, EditingBounds DEF Shape, EditingInv
  <2>3. PICK q : q = [f.sees EXCEPT !.source = None]
    OBVIOUS
  <2>4. [q EXCEPT !.source = None] = q
    BY <2>3
  <2> QED
    BY <1>0, <1>1, <2>1, <2>3, <2>4 DEF Unspoilt
<1>5. Checked(g)'
  <2> DEFINE s == f.row.source
  <2>1. SUFFICES ASSUME f.doc \in Existing', f.doc \notin f.stale, IsNote(f.row), ~Drafted(f.row),
                        s \in Existing', s \notin strained', s \notin f.stale,
                        f.drops # {} \/ f.adds = {}
                 PROVE  Size(NewTotal(f)) <= Max({documents'[s].total - CreditedBesides(s, f.doc)', 0})
    <3>1. NewTotal(g) = NewTotal(f)
      BY <1>0 DEF NewTotal
    <3> QED
      BY <1>0, <3>1 DEF Checked, FitsBeside, IsNote, Drafted, NewTotal
  <2>2. Size(NewTotal(f)) <= Max({documents[s].total - CreditedBesides(s, f.doc), 0})
    BY <1>0, <1>1, <2>1 DEF Checked, FitsBeside
  <2>3. s \in Existing /\ s \in DocumentId /\ documents'[s].total = documents[s].total
        /\ documents[s].total \in Int
    BY <1>1, <2>1, RowsExist, SumsAreInts DEF EditingInv
  <2>4. NewTotal(f) \in Int
    BY <1>0, ItemsTotalIsInt, SumOfItems, FS_Subset DEF NewTotal, Shape, EditingInv, LineSet, Write, LineRow
  <2>5. PICK b \in Nat, c \in Nat, x \in Int, z \in Nat :
          /\ b = CreditedBesides(s, f.doc)' /\ c = CreditedBesides(s, f.doc) /\ b <= c
          /\ x = documents[s].total /\ z = Size(NewTotal(f))
    BY <2>3, <2>4, SizeIsNat, DeletionCredits
  <2>6. z <= IF x - c >= 0 THEN x - c ELSE 0
    BY <2>2, <2>5, MaxOfTwo
  <2>7. Max({x - b, 0}) = IF x - b >= 0 THEN x - b ELSE 0
    BY MaxOfTwo
  <2>8. z <= Max({x - b, 0})
    BY <2>5, <2>6, <2>7
  <2> QED
    BY <2>3, <2>5, <2>8
<1> QED
  BY <1>2, <1>3, <1>4, <1>5 DEF WriteOK

LEMMA CommitDeleteStep ==
  ASSUME EditingInv, NEW w \in Writer, CommitDelete(w)
  PROVE  EditingInv' /\ StaysIssued
<1>1. PICK e : /\ e = edits[w] /\ e \in Removal /\ DeleteStep(e.doc)
               /\ edits' = Ends(e, {e.doc}) /\ begun' = begun
               /\ documents' \in Seq(DocumentRow \cup {None}) /\ Len(documents') <= MaxDocuments
               /\ lines' \subseteq lines
  BY DeleteStepIs
<1>2. PICK d \in DocumentId : d = e.doc /\ DeleteStep(d)
  BY <1>1 DEF Removal
<1>3. e # NoEdit /\ e.op # "write" /\ ~ChangesItems(e)
  BY <1>1, OpsDiffer DEF ChangesItems
<1>4. OthersLater(w, e, {d})
  BY <1>1, <1>2, <1>3, EndsOf
<1>5. EditingTypes'
  BY <1>1, <1>2, <1>4, FS_Subset DEF EditingInv, EditingTypes, OthersLater, DeleteStep
<1>6. RowsLink'
  BY <1>1, <1>2 DEF EditingInv, RowsLink, DeleteStep
<1>7. FreshNumbers'
  BY <1>1, <1>2, <1>3, NumbersStayFresh
<1>8. WritesOK'
  <2>1. SUFFICES ASSUME NEW v \in Writer, edits'[v].op = "write" PROVE WriteOK(edits[v])'
    BY DEF WritesOK
  <2>2. PICK f, g : f = edits[v] /\ g = edits'[v]
    OBVIOUS
  <2>3. g # NoEdit
    BY <2>1, <2>2, OpsDiffer
  <2>4. Later(g, f, {d}) /\ f # NoEdit /\ (g.late <=> f.late)
    BY <1>3, <1>4, <2>2, <2>3 DEF OthersLater
  <2>5. f.op = "write"
    BY <2>1, <2>2, <2>4 DEF Later
  <2>6. f \in Write
    BY <2>2, <2>5, OpsDiffer DEF EditingInv, EditingTypes
  <2>7. WriteOK(f)
    BY <2>2, <2>5 DEF EditingInv, WritesOK
  <2>8. WriteOK(g)'
    BY <1>2, <2>4, <2>6, <2>7, OthersStayDeleted
  <2> QED
    BY <2>2, <2>8
<1>9. TotalOfItems'
  <2>1. \A x \in Existing' \ doubled' : documents'[x].total = Sum(LinesOf(x)')
    BY <1>2 DEF DeleteStep, EditingInv, TotalOfItems
  <2> QED
    BY <2>1 DEF TotalOfItems
<1>10. NoteTotals'
  <2>1. ASSUME NEW x \in Existing', IsNote(documents'[x]), documents'[x].source # None,
               documents'[x].source \notin strained'
        PROVE  documents'[x].total = Sum(LinesOf(x)')
    BY <1>2, <2>1 DEF DeleteStep, EditingInv, NoteTotals, IsNote
  <2> QED
    BY <2>1 DEF NoteTotals, IsNote
<1>11. CreditsFit'
  <2>1. SUFFICES ASSUME NEW s \in Existing', s \notin strained'
                 PROVE  Credited(s)' <= Max({documents'[s].total, 0})
    BY DEF CreditsFit
  <2>2. s \in Existing /\ s \in DocumentId /\ s \notin strained
        /\ documents'[s].total = documents[s].total /\ documents[s].total \in Int
    BY <1>2, <2>1, RowsExist, SumsAreInts DEF EditingInv, DeleteStep
  <2>3. Credited(s) <= Max({documents[s].total, 0})
    BY <2>2 DEF EditingInv, CreditsFit
  <2>4. PICK b \in Nat, c \in Nat, x \in Int :
          b = Credited(s)' /\ c = Credited(s) /\ b <= c /\ x = documents[s].total
    BY <1>2, <2>2, DeletionCredits
  <2>5. Max({x, 0}) = IF x >= 0 THEN x ELSE 0
    BY MaxOfTwo
  <2>6. b <= Max({x, 0})
    BY <2>3, <2>4, <2>5
  <2> QED
    BY <2>2, <2>4, <2>6
<1>13. NotesGiveBack'
  <2>1. ASSUME NEW x \in Existing', IsNote(documents'[x]), ~Drafted(documents'[x]),
               documents'[x].source # None, documents'[x].source \notin strained'
        PROVE  documents'[x].total <= 0
    BY <1>2, <2>1 DEF DeleteStep, EditingInv, NotesGiveBack, IsNote, Drafted
  <2> QED
    BY <2>1 DEF NotesGiveBack, IsNote, Drafted
<1>12. StaysIssued
  BY <1>2 DEF StaysIssued, DeleteStep, Drafted, Existing
<1> QED
  BY <1>5, <1>6, <1>7, <1>8, <1>9, <1>10, <1>11, <1>12, <1>13 DEF EditingInv

-----------------------------------------------------------------------------

LEMMA RollbackStep ==
  ASSUME EditingInv, NEW w \in Writer, Rollback(w)
  PROVE  EditingInv' /\ UNCHANGED documents
<1>1. edits' = [edits EXCEPT ![w] = NoEdit] /\ UNCHANGED <<documents, lines, begun, doubled, strained>>
  BY DEF Rollback
<1>2. \A v \in Writer : edits'[v] = IF v = w THEN NoEdit ELSE edits[v]
  BY <1>1 DEF EditingInv, EditingTypes
<1>3. EditingTypes'
  BY <1>1, <1>2 DEF EditingInv, EditingTypes
<1>4. FreshNumbers'
  BY <1>1, <1>2 DEF EditingInv, FreshNumbers
<1>5. Existing' = Existing /\ (\A d : LinesOf(d)' = LinesOf(d)) /\ \A s : NotesOf(s)' = NotesOf(s)
  BY <1>1 DEF Existing, LinesOf, NotesOf
<1>6. (\A s : Credited(s)' = Credited(s)) /\ \A s, d : CreditedBesides(s, d)' = CreditedBesides(s, d)
  BY <1>1, <1>5, CreditedIs
<1>7. ASSUME NEW v \in Writer, edits'[v].op = "write" PROVE WriteOK(edits[v])'
  <2>1. v # w /\ WriteOK(edits[v]) /\ edits'[v] = edits[v]
    BY <1>2, <1>7, OpsDiffer DEF EditingInv, WritesOK
  <2> QED
    BY <1>1, <1>5, <1>6, <2>1 DEF WriteOK, Shape, Summed, Unspoilt, Checked, FitsBeside
<1>8. RowsLink' /\ TotalOfItems' /\ NoteTotals' /\ NotesGiveBack' /\ CreditsFit'
  BY <1>1, <1>5, <1>6 DEF EditingInv, RowsLink, TotalOfItems, NoteTotals, NotesGiveBack, CreditsFit, IsNote, Drafted
<1> QED
  BY <1>1, <1>3, <1>4, <1>7, <1>8 DEF EditingInv, WritesOK

LEMMA EditingStep ==
  ASSUME EditingInv, [EditingNext]_editingVars
  PROVE  EditingInv' /\ StaysIssued
<1>1. UNCHANGED documents => StaysIssued
  BY DEF StaysIssued
<1>2. CASE UNCHANGED editingVars
  <2>1. UNCHANGED <<documents, lines, edits, begun, doubled, strained>>
    BY <1>2 DEF editingVars
  <2>2. Existing' = Existing /\ (\A d : LinesOf(d)' = LinesOf(d)) /\ \A s : NotesOf(s)' = NotesOf(s)
    BY <2>1 DEF Existing, LinesOf, NotesOf
  <2>3. (\A s : Credited(s)' = Credited(s)) /\ \A s, d : CreditedBesides(s, d)' = CreditedBesides(s, d)
    BY <2>1, <2>2, CreditedIs
  <2>4. ASSUME NEW v \in Writer, edits'[v].op = "write" PROVE WriteOK(edits[v])'
    <3>1. WriteOK(edits[v]) /\ edits'[v] = edits[v]
      BY <2>1, <2>4 DEF EditingInv, WritesOK
    <3> QED
      BY <2>1, <2>2, <2>3, <3>1 DEF WriteOK, Shape, Summed, Unspoilt, Checked, FitsBeside
  <2>5. EditingTypes' /\ FreshNumbers'
    BY <2>1 DEF EditingInv, EditingTypes, FreshNumbers
  <2>6. RowsLink' /\ TotalOfItems' /\ NoteTotals' /\ NotesGiveBack' /\ CreditsFit'
    BY <2>1, <2>2, <2>3 DEF EditingInv, RowsLink, TotalOfItems, NoteTotals, NotesGiveBack, CreditsFit, IsNote, Drafted
  <2> QED
    BY <1>1, <2>1, <2>4, <2>5, <2>6 DEF EditingInv, WritesOK
<1>3. CASE \E w \in Writer : Rollback(w)
  BY <1>1, <1>3, RollbackStep
<1>4. CASE \E e : Begins(e)
  <2>0. PICK e : Begins(e)
    BY <1>4
  <2>1. PICK w \in Writer : /\ e \in Write \cup Removal /\ e.nr = begun + 1
                           /\ (e.op = "write" => WriteOK(e))
                           /\ BeginEdit(w, e)
    BY <2>0 DEF Begins
  <2>2. EditingInv'
    BY <2>1, BeginKeeps
  <2>3. UNCHANGED documents
    BY <2>1 DEF BeginEdit
  <2> QED
    BY <1>1, <2>2, <2>3
<1> QED
  BY <1>2, <1>3, <1>4, BeginSteps, CommitEditStep, CommitDeleteStep DEF EditingNext

LEMMA EditingStart == EditingInit => EditingInv
<1> SUFFICES ASSUME EditingInit PROVE EditingInv
  OBVIOUS
<1>1. PICK total \in Cents, notes \in UNION {[1 .. k -> Amount] : k \in 0 .. MaxDocuments - 1} :
        /\ documents = <<[kind |-> "invoice", status |-> "issued", source |-> None, total |-> total]>>
             \o [k \in DOMAIN notes |-> [kind |-> "credit_note", status |-> "draft", source |-> 1,
                                         total |-> notes[k]]]
        /\ lines = {[doc |-> 1, nr |-> 0, cents |-> total]}
             \cup {[doc |-> k + 1, nr |-> 0, cents |-> notes[k]] : k \in DOMAIN notes}
  BY DEF EditingInit
<1>2. PICK n \in 0 .. MaxDocuments - 1 : notes \in [1 .. n -> Amount]
  OBVIOUS
<1>3. n \in Nat /\ n + 1 <= MaxDocuments /\ DOMAIN notes = 1 .. n /\ total \in Int
      /\ \A k \in 1 .. n : notes[k] \in Int
  <2>1. n \in Nat /\ n + 1 <= MaxDocuments
    BY EditingBounds
  <2>2. DOMAIN notes = 1 .. n /\ \A k \in 1 .. n : notes[k] \in Amount
    BY <1>2
  <2>3. total \in Int
    BY EditingBounds
  <2>4. \A k \in 1 .. n : notes[k] \in Int
    BY <2>2, AmountIsInt
  <2> QED
    BY <2>1, <2>2, <2>3, <2>4
<1>4. PICK first, rest :
        /\ first = <<[kind |-> "invoice", status |-> "issued", source |-> None, total |-> total]>>
        /\ rest = [k \in DOMAIN notes |-> [kind |-> "credit_note", status |-> "draft", source |-> 1,
                                           total |-> notes[k]]]
  OBVIOUS
<1>5. PICK T : T = DocumentRow \cup {None}
  OBVIOUS
<1>6. 1 \in DocumentId /\ 1 # None /\ None \notin DocumentRow
  BY <1>3, EditingBounds DEF DocumentId
<1>7. /\ first \in Seq(T) /\ Len(first) = 1 /\ first[1] \in DocumentRow
      /\ first[1].kind = "invoice" /\ first[1].total = total /\ first[1].source = None
  <2>1. [kind |-> "invoice", status |-> "issued", source |-> None, total |-> total] \in DocumentRow
    BY <1>3 DEF DocumentRow
  <2> QED
    BY <1>4, <1>5, <2>1
<1>8. ASSUME NEW k \in 1 .. n
      PROVE  /\ rest[k] \in DocumentRow /\ rest[k].status = "draft" /\ rest[k].source = 1
             /\ rest[k].total = notes[k]
  <2>1. rest[k] = [kind |-> "credit_note", status |-> "draft", source |-> 1, total |-> notes[k]]
    BY <1>3, <1>4
  <2> QED
    BY <1>3, <1>6, <2>1 DEF DocumentRow
<1>9. rest \in Seq(T) /\ Len(rest) = n
  <2>1. rest \in [1 .. n -> T]
    BY <1>3, <1>4, <1>5, <1>8
  <2> QED
    BY <1>3, <2>1
<1>10. /\ documents \in Seq(T) /\ Len(documents) = n + 1 /\ documents[1] = first[1]
       /\ \A d \in 2 .. n + 1 : documents[d] = rest[d - 1]
       /\ DOMAIN documents = 1 .. n + 1
  <2>1. documents = first \o rest
    BY <1>1, <1>4
  <2>2. /\ documents \in Seq(T) /\ Len(documents) = n + 1 /\ documents[1] = first[1]
        /\ \A d \in 2 .. n + 1 : documents[d] = rest[d - 1]
    <3>1. /\ documents \in Seq(T) /\ Len(documents) = Len(first) + Len(rest)
          /\ \A d \in 1 .. Len(first) + Len(rest) :
               documents[d] = IF d <= Len(first) THEN first[d] ELSE rest[d - Len(first)]
      BY <1>7, <1>9, <2>1, ConcatProperties
    <3>2. /\ documents \in Seq(T) /\ Len(documents) = 1 + n
          /\ \A d \in 1 .. 1 + n : documents[d] = IF d <= 1 THEN first[d] ELSE rest[d - 1]
      BY <1>7, <1>9, <3>1
    <3> QED
      BY <1>3, <3>2
  <2> QED
    BY <1>3, <2>2
<1>11. ASSUME NEW d \in DOMAIN documents
       PROVE  /\ documents[d] \in DocumentRow
              /\ documents[d].source # None => documents[d].source \in DOMAIN documents \ {d}
              /\ IsNote(documents[d]) => Drafted(documents[d])
              /\ documents[d].total \in Int
              /\ LinesOf(d) = {[doc |-> d, nr |-> 0, cents |-> documents[d].total]}
  <2>1. CASE d = 1
    <3>1. documents[d] = first[1]
      BY <1>10, <2>1
    <3>2. \A k \in 1 .. n : k + 1 # 1
      BY <1>3
    <3>3. LinesOf(d) = {[doc |-> d, nr |-> 0, cents |-> total]}
      BY <1>1, <1>3, <2>1, <3>2 DEF LinesOf
    <3> QED
      BY <1>3, <1>7, <3>1, <3>3 DEF IsNote
  <2>2. CASE d # 1
    <3>1. d - 1 \in 1 .. n /\ d \in 2 .. n + 1 /\ 1 < d
      BY <1>3, <1>10, <2>2
    <3>2. documents[d] = rest[d - 1]
      BY <1>10, <3>1
    <3>3. \A k \in 1 .. n : k + 1 = d <=> k = d - 1
      BY <1>3, <3>1
    <3>4. LinesOf(d) = {[doc |-> d, nr |-> 0, cents |-> notes[d - 1]]}
      BY <1>1, <1>3, <2>2, <3>1, <3>3 DEF LinesOf
    <3>5. 1 \in DOMAIN documents \ {d}
      BY <1>3, <1>10, <2>2
    <3> QED
      BY <1>3, <1>8, <3>1, <3>2, <3>4, <3>5 DEF Drafted
  <2> QED
    BY <2>1, <2>2
<1>12. Existing = DOMAIN documents
  BY <1>6, <1>11 DEF Existing
<1>13. ASSUME NEW d \in Existing PROVE documents[d].total = Sum(LinesOf(d))
  <2>1. PICK l : l = [doc |-> d, nr |-> 0, cents |-> documents[d].total]
    OBVIOUS
  <2>2. l.cents = documents[d].total /\ LinesOf(d) = {l} /\ l.cents \in Int
    BY <1>11, <1>12, <2>1
  <2> QED
    BY <2>2, SumOfOne
<1>14. /\ edits = [w \in Writer |-> NoEdit] /\ begun = 0 /\ doubled = {} /\ strained = {}
  BY DEF EditingInit
<1>15. EditingTypes
  <2>1. lines \subseteq LineRow
    <3>1. \A k \in 1 .. n : k + 1 \in DocumentId
      BY <1>3, EditingBounds DEF DocumentId
    <3>2. 0 \in 0 .. MaxEdits
      BY EditingBounds
    <3>3. ASSUME NEW l \in lines PROVE l \in LineRow
      <4>1. CASE l = [doc |-> 1, nr |-> 0, cents |-> total]
        BY <1>3, <1>6, <3>2, <4>1 DEF LineRow
      <4>2. ASSUME NEW k \in 1 .. n, l = [doc |-> k + 1, nr |-> 0, cents |-> notes[k]]
            PROVE  l \in LineRow
        BY <1>3, <3>1, <3>2, <4>2 DEF LineRow
      <4> QED
        BY <1>1, <1>3, <4>1, <4>2
    <3> QED
      BY <3>3
  <2>2. IsFiniteSet(lines)
    <3>1. IsFiniteSet({[doc |-> k + 1, nr |-> 0, cents |-> notes[k]] : k \in 1 .. n})
      <4> DEFINE f == [k \in 1 .. n |-> [doc |-> k + 1, nr |-> 0, cents |-> notes[k]]]
                 S == {[doc |-> k + 1, nr |-> 0, cents |-> notes[k]] : k \in 1 .. n}
      <4>1. f \in Surjection(1 .. n, S)
        BY DEF Surjection
      <4>2. IsFiniteSet(1 .. n)
        BY <1>3, FS_Interval
      <4> HIDE DEF f, S
      <4>3. IsFiniteSet(S)
        BY <4>1, <4>2, FS_Surjection
      <4> QED
        BY <4>3 DEF S
    <3>2. IsFiniteSet({[doc |-> 1, nr |-> 0, cents |-> total]})
      BY FS_Singleton
    <3> QED
      BY <1>1, <1>3, <3>1, <3>2, FS_Union
  <2>3. edits \in [Writer -> Write \cup Removal \cup {NoEdit}]
    BY <1>14
  <2> QED
    BY <1>3, <1>5, <1>10, <1>14, <2>1, <2>2, <2>3, EditingBounds DEF EditingTypes
<1>16. RowsLink
  <2>1. \A l \in lines : l.doc \in 1 .. n + 1
    BY <1>1, <1>3
  <2> QED
    BY <1>10, <1>11, <1>12, <2>1 DEF RowsLink
<1>17. FreshNumbers
  <2>1. \A l \in lines : l.nr = 0
    BY <1>1
  <2> QED
    BY <1>14, <2>1 DEF FreshNumbers
<1>18. WritesOK
  BY <1>14, OpsDiffer DEF WritesOK
<1>19. TotalOfItems /\ NoteTotals
  BY <1>13 DEF TotalOfItems, NoteTotals
<1>21. NotesGiveBack
  BY <1>11, <1>12 DEF NotesGiveBack
<1>20. CreditsFit
  <2>1. SUFFICES ASSUME NEW s \in Existing PROVE Credited(s) <= Max({documents[s].total, 0})
    BY DEF CreditsFit
  <2>2. NotesOf(s) = {} /\ IsFiniteSet({})
    BY <1>11, <1>12, FS_EmptySet DEF NotesOf
  <2>3. Credited(s) = 0
    BY <2>2, CreditedIs, CreditIsSumOver, SumOfNothing
  <2>4. PICK x : x = documents[s].total /\ x \in Int
    BY <1>11, <1>12
  <2>5. 0 <= Max({x, 0})
    BY <2>4, MaxOfTwo
  <2> QED
    BY <2>3, <2>4, <2>5
<1> QED
  BY <1>15, <1>16, <1>17, <1>18, <1>19, <1>20, <1>21 DEF EditingInv

-----------------------------------------------------------------------------
(* The results. *)

\* What every request is about to write agrees with what is stored, at every moment.
THEOREM EditingInvariant == EditingSpec => []EditingInv
<1>1. EditingInv /\ [EditingNext]_editingVars => EditingInv'
  BY EditingStep
<1> QED
  BY EditingStart, <1>1, PTL DEF EditingSpec

\* Documents, items and requests keep their types, whatever is under way.
THEOREM EditingTypeCorrect == EditingSpec => []DocumentEditingTypeOK
<1>1. EditingInv => DocumentEditingTypeOK
  BY OpsDiffer DEF EditingInv, EditingTypes, DocumentEditingTypeOK
<1> QED
  BY EditingInvariant, <1>1, PTL

\* The stored total of a document is the sum of its items, whatever overlaps with
\* whatever, but for two requests that write the items of one document.
THEOREM ItemsSumUp == EditingSpec => []TotalOfItems
<1>1. EditingInv => TotalOfItems
  BY DEF EditingInv
<1> QED
  BY EditingInvariant, <1>1, PTL

\* The notes issued for an invoice, as long as all of them give back, give back no
\* more than its total, whether the pages or the API compared them: outside of the
\* three ways in which the code does not look, both come to the same remainder.
THEOREM CreditsFitTheirSource == EditingSpec => []CreditWithinSource
<1>1. ASSUME EditingInv, NEW s \in Existing \ strained
      PROVE  -Net(s) <= Max({documents[s].total, 0})
  <2>1. s # None /\ NoteSet(documents, NotesOf(s)) /\ \A d \in NotesOf(s) : documents[d].total <= 0
    <3>1. s # None
      BY <1>1, RowsExist, EditingBounds DEF EditingInv
    <3> QED
      BY <1>1, <3>1, NotesAreNotes DEF EditingInv, NotesGiveBack, NotesOf
  <2>2. Net(s) = TotalOf(documents, NotesOf(s))
    BY DEF Net, TotalOf, MapThenSumSet, MapThenFoldSet
  <2>3. PICK c \in Nat : c = Credited(s) /\ Net(s) = -c
    BY <2>1, <2>2, CreditOfNotes, TotalOfCredits DEF Credited
  <2>4. -(-c) = c
    OBVIOUS
  <2> QED
    BY <1>1, <2>3, <2>4 DEF EditingInv, CreditsFit
<1>2. EditingInv => CreditWithinSource
  BY <1>1 DEF CreditWithinSource
<1> QED
  BY EditingInvariant, <1>2, PTL

\* Whatever the editor, the autosave, the API and the deletion do to each other, an
\* issued document becomes a draft again only by a request that has read it as
\* issued: a save that decided over the draft does not take the issue back.
THEOREM IssuedDocumentsStay == EditingSpec => IssuedStaysIssued
<1>1. EditingInv /\ [EditingNext]_editingVars =>
        [ \A d \in Existing : ~Drafted(documents[d]) /\ documents'[d] # None /\ Drafted(documents'[d])
            => \E w \in Writer : edits[w].op = "write" /\ edits[w].doc = d /\ edits'[w] = NoEdit
                                 /\ ~Drafted(edits[w].sees) ]_editingVars
  BY EditingStep DEF StaysIssued, TookBack
<1> QED
  BY EditingInvariant, <1>1, PTL DEF EditingSpec, IssuedStaysIssued
=============================================================================
