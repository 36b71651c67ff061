--------------------------- MODULE GatewayProofs ---------------------------
(***************************************************************************)
(* What a gateway keeps about its requests.                                *)
(*                                                                         *)
(* Pool, for every set of requests and updaters, finite or not, and every  *)
(* max_concurrency: IInv is inductive, one lemma per action and one step   *)
(* per conjunct, and the safety properties follow from it; no wake-up is   *)
(* lost (WakeInv) and the counters Stats reports never decrease.           *)
(*                                                                         *)
(* Quota, for any finite number of gateways, any callers and any limit:    *)
(* how far the aggregates lag behind (LagInv) bounds the overshoot, and no *)
(* count is lost or doubled.                                               *)
(*                                                                         *)
(* Both rest on the same few facts about sums, which come first.           *)
(***************************************************************************)
EXTENDS Pool, Quota, TLAPS, FiniteSetTheorems

(***************************************************************************)
(* Sums over finite sets (MapThenSumSet), as the counters need them.  An   *)
(* induction is on a set of numbers or a family of sets, of which the      *)
(* least element that is not in it is considered.                          *)
(***************************************************************************)
\* The element that MapThenSumSet takes next.
Pick(s) == CHOOSE x \in s : TRUE

\* One unrolling of the recursion that defines a sum over S.
Unroll(it, f, S) == [s \in SUBSET S |-> IF s = {} THEN 0 ELSE f[Pick(s)] + it[s \ {Pick(s)}]]

\* SumOver is the function that is its own unrolling.
LEMMA SumDef ==
    ASSUME NEW f, NEW S
    PROVE  SumOver(f, S) = (CHOOSE it : it = Unroll(it, f, S))[S]
  BY DEF SumOver, MapThenSumSet, MapThenFoldSet, Unroll, Pick

\* Induction on natural numbers, for a set of numbers.
LEMMA NumberInduction ==
    ASSUME NEW G, 0 \in G, \A n \in Nat : n \in G => n + 1 \in G
    PROVE  \A n \in Nat : n \in G
<1>. SUFFICES ASSUME Nat \ G # {} PROVE FALSE
  OBVIOUS
<1>1. PICK n \in Nat \ G : \A m \in Nat \ G : <<m, n>> \notin OpToRel(<, Nat)
  BY NatLessThanWellFounded, WFMin
<1>2. n # 0 /\ n - 1 \in Nat /\ n - 1 \in Nat \ G
  OBVIOUS
<1>3. <<n - 1, n>> \in OpToRel(<, Nat)
  BY <1>2 DEF OpToRel
<1>. QED BY <1>1, <1>2, <1>3

\* Induction on the subsets of a finite set, for a family of sets.
LEMMA SubsetInduction ==
    ASSUME NEW S, IsFiniteSet(S), NEW G,
           \A t \in SUBSET S : (\A u \in SUBSET t : u # t => u \in G) => t \in G
    PROVE  S \in G
<1>. DEFINE Bad == {t \in SUBSET S : t \notin G}
<1>. SUFFICES ASSUME S \notin G PROVE FALSE
  OBVIOUS
<1>1. IsWellFoundedOn(StrictSubsetOrdering(S), FiniteSubsetsOf(S))
  BY FS_StrictSubsetOrderingWellFounded, Zenon
<1>2. Bad \subseteq FiniteSubsetsOf(S) /\ Bad # {}
  BY FS_FiniteSubsetsOfFinite
<1>3. PICK t \in Bad : \A u \in Bad : <<u, t>> \notin StrictSubsetOrdering(S)
  <2>. HIDE DEF Bad
  <2>. QED BY <1>1, <1>2, WFMin
<1>4. \A u \in SUBSET t : u # t => u \in G
  <2>. SUFFICES ASSUME NEW u \in SUBSET t, u # t, u \notin G PROVE FALSE
    OBVIOUS
  <2>1. u \in Bad
    OBVIOUS
  <2>2. <<u, t>> \in StrictSubsetOrdering(S)
    BY DEF StrictSubsetOrdering
  <2>. QED BY <1>3, <2>1, <2>2
<1>. QED BY <1>4

\* The subsets with at most n elements, and the recursion on these.
Layer(S, n) == {s \in SUBSET S : Cardinality(s) <= n}
UnrollTo(it, f, S, n) == [s \in Layer(S, n) |-> IF s = {} THEN 0 ELSE f[Pick(s)] + it[s \ {Pick(s)}]]

\* Taking an element out makes a subset smaller by one.
LEMMA PickStep ==
    ASSUME NEW S, IsFiniteSet(S), NEW s \in SUBSET S, s # {}
    PROVE  /\ Pick(s) \in s
           /\ s \ {Pick(s)} \in SUBSET S
           /\ IsFiniteSet(s)
           /\ Cardinality(s) \in Nat \ {0}
           /\ Cardinality(s \ {Pick(s)}) = Cardinality(s) - 1
<1>1. Pick(s) \in s
  BY DEF Pick
<1>2. IsFiniteSet(s)
  BY FS_Subset
<1>3. Cardinality(s) \in Nat /\ Cardinality(s) # 0
  BY <1>2, FS_CardinalityType, FS_EmptySet
<1>4. Cardinality(s \ {Pick(s)}) = Cardinality(s) - 1
  BY <1>1, <1>2, FS_RemoveElement
<1>. QED BY <1>1, <1>2, <1>3, <1>4

\* The recursion has a solution: one for n elements extends to n + 1.
LEMMA UnrollExists ==
    ASSUME NEW f, NEW S, IsFiniteSet(S)
    PROVE  \E it : it = Unroll(it, f, S)
<1>. DEFINE G == {n \in Nat : \E it : it = UnrollTo(it, f, S, n)}
<1>1. 0 \in G
  <2>. DEFINE it == [s \in Layer(S, 0) |-> 0]
  <2>1. ASSUME NEW s \in Layer(S, 0) PROVE s = {}
    <3>1. IsFiniteSet(s) /\ Cardinality(s) <= 0
      BY FS_Subset DEF Layer
    <3>2. Cardinality(s) = 0
      BY <3>1, FS_CardinalityType
    <3>. QED BY <3>1, <3>2, FS_EmptySet
  <2>2. it = UnrollTo(it, f, S, 0)
    BY <2>1 DEF UnrollTo
  <2>. QED BY <2>2
<1>2. ASSUME NEW n \in Nat, n \in G PROVE n + 1 \in G
  <2>1. PICK g : g = UnrollTo(g, f, S, n)
    BY <1>2
  <2>. DEFINE it == UnrollTo(g, f, S, n + 1)
  <2>2. ASSUME NEW s \in Layer(S, n) PROVE it[s] = g[s]
    <3>1. s \in Layer(S, n + 1)
      <4>1. Cardinality(s) \in Nat
        BY FS_Subset, FS_CardinalityType DEF Layer
      <4>. QED BY <4>1 DEF Layer
    <3>2. it[s] = IF s = {} THEN 0 ELSE f[Pick(s)] + g[s \ {Pick(s)}]
      BY <3>1 DEF UnrollTo
    <3>3. UnrollTo(g, f, S, n)[s] = IF s = {} THEN 0 ELSE f[Pick(s)] + g[s \ {Pick(s)}]
      BY DEF UnrollTo
    <3>. QED BY <3>2, <3>3, <2>1
  <2>3. ASSUME NEW s \in Layer(S, n + 1), s # {} PROVE s \ {Pick(s)} \in Layer(S, n)
    BY <2>3, PickStep DEF Layer
  <2>4. it = UnrollTo(it, f, S, n + 1)
    <3>1. ASSUME NEW s \in Layer(S, n + 1), s # {} PROVE it[s \ {Pick(s)}] = g[s \ {Pick(s)}]
      <4>. HIDE DEF it
      <4>. QED BY <3>1, <2>2, <2>3
    <3>. QED BY <3>1 DEF UnrollTo
  <2>. HIDE DEF it
  <2>. QED BY <2>4
<1>3. Cardinality(S) \in Nat
  BY FS_CardinalityType
<1>4. Cardinality(S) \in G
  <2>. HIDE DEF G
  <2>. QED BY <1>1, <1>2, <1>3, NumberInduction
<1>5. Layer(S, Cardinality(S)) = SUBSET S
  BY FS_Subset DEF Layer
<1>. QED BY <1>4, <1>5 DEF Unroll, UnrollTo

\* A sum is the value of a solution.
LEMMA SumIter ==
    ASSUME NEW f, NEW S, IsFiniteSet(S)
    PROVE  \E it : it = Unroll(it, f, S) /\ SumOver(f, S) = it[S]
<1>. DEFINE it == CHOOSE g : g = Unroll(g, f, S)
<1>1. it = Unroll(it, f, S)
  BY UnrollExists
<1>2. SumOver(f, S) = it[S]
  BY SumDef
<1>. HIDE DEF it
<1>. QED BY <1>1, <1>2

\* On a subset the solutions for the set and for the subset agree.
LEMMA IterUnique ==
    ASSUME NEW f, NEW S, IsFiniteSet(S), NEW T \in SUBSET S,
           NEW i, i = Unroll(i, f, S),
           NEW j, j = Unroll(j, f, T)
    PROVE  i[T] = j[T]
<1>. DEFINE G == {t \in SUBSET T : i[t] = j[t]}
<1>0. IsFiniteSet(T)
  BY FS_Subset
<1>1. ASSUME NEW t \in SUBSET T, \A u \in SUBSET t : u # t => u \in G PROVE t \in G
  <2>1. Unroll(i, f, S)[t] = IF t = {} THEN 0 ELSE f[Pick(t)] + i[t \ {Pick(t)}]
    BY DEF Unroll
  <2>2. Unroll(j, f, T)[t] = IF t = {} THEN 0 ELSE f[Pick(t)] + j[t \ {Pick(t)}]
    BY DEF Unroll
  <2>3. CASE t = {}
    BY <2>1, <2>2, <2>3
  <2>4. CASE t # {}
    <3>1. t \ {Pick(t)} \in SUBSET t /\ t \ {Pick(t)} # t
      BY <1>0, <2>4, PickStep
    <3>2. i[t \ {Pick(t)}] = j[t \ {Pick(t)}]
      BY <3>1, <1>1
    <3>. QED BY <2>1, <2>2, <2>4, <3>2
  <2>. QED BY <2>3, <2>4
<1>2. T \in G
  <2>. HIDE DEF G
  <2>. QED BY <1>0, <1>1, SubsetInduction
<1>. QED BY <1>2

\* A sum of nothing.
LEMMA SumEmpty ==
    ASSUME NEW f
    PROVE  SumOver(f, {}) = 0
<1>1. PICK it : it = Unroll(it, f, {}) /\ SumOver(f, {}) = it[{}]
  BY SumIter, FS_EmptySet
<1>2. Unroll(it, f, {})[{}] = 0
  BY DEF Unroll
<1>. QED BY <1>1, <1>2

\* A sum is its first summand and the sum of the others.
LEMMA SumPick ==
    ASSUME NEW f, NEW S, IsFiniteSet(S), S # {}
    PROVE  SumOver(f, S) = f[Pick(S)] + SumOver(f, S \ {Pick(S)})
<1>1. PICK i : i = Unroll(i, f, S) /\ SumOver(f, S) = i[S]
  BY SumIter
<1>2. Unroll(i, f, S)[S] = f[Pick(S)] + i[S \ {Pick(S)}]
  BY DEF Unroll
<1>. DEFINE T == S \ {Pick(S)}
<1>3. T \in SUBSET S /\ IsFiniteSet(T)
  BY FS_Subset
<1>4. PICK j : j = Unroll(j, f, T) /\ SumOver(f, T) = j[T]
  <2>. HIDE DEF T
  <2>. QED BY <1>3, SumIter
<1>5. i[T] = j[T]
  <2>. HIDE DEF T
  <2>. QED BY <1>1, <1>3, <1>4, IterUnique
<1>. QED BY <1>1, <1>2, <1>4, <1>5

\* A sum of natural numbers is one.
LEMMA SumType ==
    ASSUME NEW S, IsFiniteSet(S), NEW f, \A x \in S : f[x] \in Nat
    PROVE  SumOver(f, S) \in Nat
<1>. DEFINE G == {t \in SUBSET S : SumOver(f, t) \in Nat}
<1>1. ASSUME NEW t \in SUBSET S, \A u \in SUBSET t : u # t => u \in G PROVE t \in G
  <2>1. CASE t = {}
    BY <2>1, SumEmpty
  <2>2. CASE t # {}
    <3>1. /\ Pick(t) \in t /\ IsFiniteSet(t)
          /\ t \ {Pick(t)} \in SUBSET t /\ t \ {Pick(t)} # t
      BY <2>2, PickStep
    <3>2. SumOver(f, t \ {Pick(t)}) \in Nat
      BY <1>1, <3>1
    <3>3. SumOver(f, t) = f[Pick(t)] + SumOver(f, t \ {Pick(t)})
      BY <2>2, <3>1, SumPick
    <3>4. f[Pick(t)] \in Nat
      BY <3>1
    <3>5. SumOver(f, t) \in Nat
      BY <3>2, <3>3, <3>4
    <3>. QED BY <3>5
  <2>. QED BY <2>1, <2>2
<1>2. S \in G
  <2>. HIDE DEF G
  <2>. QED BY <1>1, SubsetInduction
<1>. QED BY <1>2

\* A sum depends on its summands only.
LEMMA SumSame ==
    ASSUME NEW S, IsFiniteSet(S), NEW f, NEW g, \A x \in S : f[x] = g[x]
    PROVE  SumOver(f, S) = SumOver(g, S)
<1>. DEFINE G == {t \in SUBSET S : SumOver(f, t) = SumOver(g, t)}
<1>1. ASSUME NEW t \in SUBSET S, \A u \in SUBSET t : u # t => u \in G PROVE t \in G
  <2>1. CASE t = {}
    BY <2>1, SumEmpty
  <2>2. CASE t # {}
    <3>1. /\ Pick(t) \in t /\ IsFiniteSet(t)
          /\ t \ {Pick(t)} \in SUBSET t /\ t \ {Pick(t)} # t
      BY <2>2, PickStep
    <3>2. SumOver(f, t \ {Pick(t)}) = SumOver(g, t \ {Pick(t)})
      BY <1>1, <3>1
    <3>3. SumOver(f, t) = f[Pick(t)] + SumOver(f, t \ {Pick(t)})
      BY <2>2, <3>1, SumPick
    <3>4. SumOver(g, t) = g[Pick(t)] + SumOver(g, t \ {Pick(t)})
      BY <2>2, <3>1, SumPick
    <3>5. SumOver(f, t) = SumOver(g, t)
      BY <3>1, <3>2, <3>3, <3>4
    <3>. QED BY <3>5
  <2>. QED BY <2>1, <2>2
<1>2. S \in G
  <2>. HIDE DEF G
  <2>. QED BY <1>1, SubsetInduction
<1>. QED BY <1>2

\* A sum of zeros.
LEMMA SumZeros ==
    ASSUME NEW S, IsFiniteSet(S), NEW f, \A x \in S : f[x] = 0
    PROVE  SumOver(f, S) = 0
<1>. DEFINE G == {t \in SUBSET S : SumOver(f, t) = 0}
<1>1. ASSUME NEW t \in SUBSET S, \A u \in SUBSET t : u # t => u \in G PROVE t \in G
  <2>1. CASE t = {}
    BY <2>1, SumEmpty
  <2>2. CASE t # {}
    <3>1. /\ Pick(t) \in t /\ IsFiniteSet(t)
          /\ t \ {Pick(t)} \in SUBSET t /\ t \ {Pick(t)} # t
      BY <2>2, PickStep
    <3>2. SumOver(f, t \ {Pick(t)}) = 0 /\ f[Pick(t)] = 0
      BY <1>1, <3>1
    <3>3. SumOver(f, t) = f[Pick(t)] + SumOver(f, t \ {Pick(t)})
      BY <2>2, <3>1, SumPick
    <3>4. SumOver(f, t) = 0
      BY <3>2, <3>3
    <3>. QED BY <3>4
  <2>. QED BY <2>1, <2>2
<1>2. S \in G
  <2>. HIDE DEF G
  <2>. QED BY <1>1, SubsetInduction
<1>. QED BY <1>2

\* A sum does not shrink when no summand does.
LEMMA SumMonotone ==
    ASSUME NEW S, IsFiniteSet(S),
           NEW f, \A x \in S : f[x] \in Nat,
           NEW g, \A x \in S : g[x] \in Nat /\ f[x] <= g[x]
    PROVE  SumOver(f, S) <= SumOver(g, S)
<1>. DEFINE G == {t \in SUBSET S : SumOver(f, t) <= SumOver(g, t)}
<1>1. ASSUME NEW t \in SUBSET S, \A u \in SUBSET t : u # t => u \in G PROVE t \in G
  <2>1. CASE t = {}
    <3>1. SumOver(f, t) <= SumOver(g, t)
      BY <2>1, SumEmpty
    <3>. QED BY <3>1
  <2>2. CASE t # {}
    <3>1. /\ Pick(t) \in t /\ IsFiniteSet(t)
          /\ t \ {Pick(t)} \in SUBSET t /\ t \ {Pick(t)} # t
          /\ IsFiniteSet(t \ {Pick(t)})
      BY <2>2, PickStep, FS_Subset
    <3>2. SumOver(f, t \ {Pick(t)}) <= SumOver(g, t \ {Pick(t)})
      BY <1>1, <3>1
    <3>3. SumOver(f, t) = f[Pick(t)] + SumOver(f, t \ {Pick(t)})
      BY <2>2, <3>1, SumPick
    <3>4. SumOver(g, t) = g[Pick(t)] + SumOver(g, t \ {Pick(t)})
      BY <2>2, <3>1, SumPick
    <3>5. SumOver(f, t \ {Pick(t)}) \in Nat /\ SumOver(g, t \ {Pick(t)}) \in Nat
      BY <3>1, SumType
    <3>6. SumOver(f, t) <= SumOver(g, t)
      BY <3>1, <3>2, <3>3, <3>4, <3>5
    <3>. QED BY <3>6
  <2>. QED BY <2>1, <2>2
<1>2. S \in G
  <2>. HIDE DEF G
  <2>. QED BY <1>1, SubsetInduction
<1>. QED BY <1>2

\* Any summand may be taken out first: the order does not matter.
LEMMA SumSplit ==
    ASSUME NEW S, IsFiniteSet(S), NEW f, \A x \in S : f[x] \in Nat
    PROVE  \A x \in S : SumOver(f, S) = f[x] + SumOver(f, S \ {x})
<1>. DEFINE G == {t \in SUBSET S : \A x \in t : SumOver(f, t) = f[x] + SumOver(f, t \ {x})}
<1>1. ASSUME NEW t \in SUBSET S, \A u \in SUBSET t : u # t => u \in G PROVE t \in G
  <2>. SUFFICES ASSUME NEW x \in t PROVE SumOver(f, t) = f[x] + SumOver(f, t \ {x})
    OBVIOUS
  <2>. DEFINE p == Pick(t)
  <2>1. p \in t /\ IsFiniteSet(t)
    BY PickStep
  <2>2. SumOver(f, t) = f[p] + SumOver(f, t \ {p})
    BY <2>1, SumPick
  <2>. HIDE DEF p
  <2>3. CASE x = p
    BY <2>2, <2>3
  <2>4. CASE x # p
    <3>. DEFINE both == (t \ {p}) \ {x}
    <3>1. t \ {p} \in G /\ t \ {x} \in G
      BY <1>1, <2>1
    <3>2. SumOver(f, t \ {p}) = f[x] + SumOver(f, both)
      BY <2>4, <3>1
    <3>3. (t \ {x}) \ {p} = both
      OBVIOUS
    <3>4. SumOver(f, t \ {x}) = f[p] + SumOver(f, (t \ {x}) \ {p})
      BY <2>1, <2>4, <3>1
    <3>5. SumOver(f, both) \in Nat
      <4>1. IsFiniteSet(both) /\ both \subseteq S
        BY FS_Subset
      <4>2. \A y \in both : f[y] \in Nat
        OBVIOUS
      <4>. HIDE DEF both
      <4>. QED BY <4>1, <4>2, SumType
    <3>6. f[p] \in Nat /\ f[x] \in Nat
      BY <2>1
    <3>. HIDE DEF both
    <3>. QED BY <2>2, <3>2, <3>3, <3>4, <3>5, <3>6
  <2>. QED BY <2>3, <2>4
<1>2. S \in G
  <2>. HIDE DEF G
  <2>. QED BY <1>1, SubsetInduction
<1>. QED BY <1>2

\* No summand is larger than the sum.
LEMMA SumMember ==
    ASSUME NEW S, IsFiniteSet(S), NEW f, \A x \in S : f[x] \in Nat, NEW x \in S
    PROVE  f[x] <= SumOver(f, S)
<1>1. SumOver(f, S) = f[x] + SumOver(f, S \ {x})
  BY SumSplit
<1>2. IsFiniteSet(S \ {x}) /\ \A y \in S \ {x} : f[y] \in Nat
  BY FS_RemoveElement
<1>3. SumOver(f, S \ {x}) \in Nat
  BY <1>2, SumType
<1>. QED BY <1>1, <1>3

\* A sum changes by what its one changed summand changes by.
LEMMA SumChange ==
    ASSUME NEW S, IsFiniteSet(S), NEW x \in S,
           NEW f, \A y \in S : f[y] \in Nat,
           NEW g, \A y \in S : g[y] \in Nat,
           \A y \in S : y # x => g[y] = f[y]
    PROVE  SumOver(g, S) = SumOver(f, S) + g[x] - f[x]
<1>1. SumOver(f, S) = f[x] + SumOver(f, S \ {x})
  BY SumSplit
<1>2. SumOver(g, S) = g[x] + SumOver(g, S \ {x})
  BY SumSplit
<1>3. IsFiniteSet(S \ {x}) /\ \A y \in S \ {x} : f[y] \in Nat /\ g[y] = f[y]
  BY FS_RemoveElement
<1>4. SumOver(f, S \ {x}) \in Nat
  BY <1>3, SumType
<1>5. SumOver(g, S \ {x}) = SumOver(f, S \ {x})
  BY <1>3, SumSame
<1>6. f[x] \in Nat /\ g[x] \in Nat
  OBVIOUS
<1>. QED BY <1>1, <1>2, <1>4, <1>5, <1>6

\* A sum is that of a part and that of the rest.
LEMMA SumParts ==
    ASSUME NEW S, IsFiniteSet(S), NEW f, \A x \in S : f[x] \in Nat, NEW V \in SUBSET S
    PROVE  SumOver(f, S) = SumOver(f, V) + SumOver(f, S \ V)
<1>. DEFINE G == {t \in SUBSET V : SumOver(f, S) = SumOver(f, t) + SumOver(f, S \ t)}
<1>0. IsFiniteSet(V)
  BY FS_Subset
<1>1. ASSUME NEW t \in SUBSET V, \A u \in SUBSET t : u # t => u \in G PROVE t \in G
  <2>1. CASE t = {}
    <3>1. S \ t = S /\ SumOver(f, t) = 0 /\ SumOver(f, S) \in Nat
      BY <2>1, SumEmpty, SumType
    <3>2. SumOver(f, S) = SumOver(f, t) + SumOver(f, S \ t)
      BY <3>1
    <3>. QED BY <3>2
  <2>2. CASE t # {}
    <3>1. PICK x \in t : TRUE
      BY <2>2
    <3>. DEFINE u == t \ {x}
    <3>2. u \in G
      BY <1>1
    <3>3. /\ t \in SUBSET S /\ S \ u \in SUBSET S /\ u \in SUBSET S /\ S \ t \in SUBSET S
          /\ x \in S \ u /\ (S \ u) \ {x} = S \ t
      OBVIOUS
    <3>4. /\ IsFiniteSet(t) /\ IsFiniteSet(S \ u) /\ IsFiniteSet(u) /\ IsFiniteSet(S \ t)
      <4>. HIDE DEF u
      <4>. QED BY <3>3, FS_Subset
    <3>5. SumOver(f, t) = f[x] + SumOver(f, u)
      BY <3>3, <3>4, SumSplit
    <3>6. SumOver(f, S \ u) = f[x] + SumOver(f, S \ t)
      <4>1. SumOver(f, S \ u) = f[x] + SumOver(f, (S \ u) \ {x})
        BY <3>3, <3>4, SumSplit
      <4>. QED BY <3>3, <4>1
    <3>7. SumOver(f, u) \in Nat /\ SumOver(f, S \ t) \in Nat /\ f[x] \in Nat
      BY <3>3, <3>4, SumType
    <3>8. SumOver(f, S) = SumOver(f, t) + SumOver(f, S \ t)
      <4>1. SumOver(f, S) = SumOver(f, u) + SumOver(f, S \ u)
        BY <3>2
      <4>. HIDE DEF u
      <4>. QED BY <4>1, <3>5, <3>6, <3>7
    <3>. QED BY <3>8
  <2>. QED BY <2>1, <2>2
<1>2. V \in G
  <2>. HIDE DEF G
  <2>. QED BY <1>0, <1>1, SubsetInduction
<1>. QED BY <1>2

-----------------------------------------------------------------------------
(***************************************************************************)
(* The instance pool.                                                      *)
(***************************************************************************)
USE DEF reqVars, gwVars, poolVars, instVars, updVars, reapVars, Open

\* Steps that neither start nor end a spawn and add no instance keep the
\* spawning counters right.
LEMMA SpawnsKept ==
    ASSUME SpawnsCounted,
           \A p \in Requests : Spawners(p)' = Spawners(p),
           \A p \in Requests : instances'[p] \subseteq instances[p],
           spawning' = spawning
    PROVE  SpawnsCounted'
  BY FS_Subset DEF SpawnsCounted

\* The counter of a pool for which a spawn is under way is positive: the
\* decrement after Spawn cannot take it below zero.
LEMMA SpawnerCounted ==
    ASSUME IInv, NEW r \in Requests, pc[r] = "spawn"
    PROVE  spawning[rpool[r]] - 1 \in Nat
<1>1. rpool[r] \in Requests /\ r \in Spawners(rpool[r])
  BY DEF IInv, PoolsAllocated, Spawners
<1>2. /\ IsFiniteSet(Spawners(rpool[r]))
      /\ spawning[rpool[r]] = Cardinality(Spawners(rpool[r]))
  BY <1>1 DEF IInv, SpawnsCounted
<1>3. Cardinality(Spawners(rpool[r])) \in Nat /\ Cardinality(Spawners(rpool[r])) # 0
  BY <1>1, <1>2, FS_CardinalityType, FS_EmptySet
<1>. QED BY <1>2, <1>3

\* The counters of instances of one pool have a sum.
LEMMA PoolSums ==
    ASSUME IInv, NEW p \in Requests, NEW V \in SUBSET instances[p]
    PROVE  /\ IsFiniteSet(V) /\ \A i \in V : invokes[i] \in Nat /\ errors[i] \in Nat
           /\ InvokesOf(V) = SumOver(invokes, V) /\ InvokesOf(V) \in Nat
           /\ ErrorsOf(V) = SumOver(errors, V) /\ ErrorsOf(V) \in Nat
<1>1. IsFiniteSet(V)
  <2>1. IsFiniteSet(instances[p])
    BY DEF IInv, SpawnsCounted
  <2>. QED BY <2>1, FS_Subset
<1>2. \A i \in V : invokes[i] \in Nat /\ errors[i] \in Nat
  BY DEF IInv, TypeOK
<1>3. InvokesOf(V) = SumOver(invokes, V) /\ ErrorsOf(V) = SumOver(errors, V)
  BY DEF InvokesOf, ErrorsOf, SumOver
<1>4. SumOver(invokes, V) \in Nat /\ SumOver(errors, V) \in Nat
  BY <1>1, <1>2, SumType
<1>. QED BY <1>1, <1>2, <1>3, <1>4

\* acquire on a name that is not registered.
LEMMA AcquireMissingStep ==
    ASSUME IInv, NEW r \in Requests, AcquireMissing(r)
    PROVE  IInv'
<1>1. TypeOK'
  BY PoolAssumption DEF IInv, TypeOK, Pcs, Defs, AcquireMissing
<1>2. PoolsAllocated'
  BY PoolAssumption DEF IInv, TypeOK, PoolsAllocated, AcquireMissing
<1>3. SpawnsCounted'
  <2>1. ASSUME NEW p \in Requests PROVE Spawners(p)' = Spawners(p)
    BY DEF IInv, TypeOK, PoolsAllocated, Spawners, AcquireMissing
  <2>2. ASSUME NEW p \in Requests PROVE instances'[p] \subseteq instances[p]
    BY DEF IInv, TypeOK, PoolsAllocated, AcquireMissing
  <2>3. spawning' = spawning
    BY DEF AcquireMissing
  <2>. QED BY <2>1, <2>2, <2>3, SpawnsKept DEF IInv
<1>4. ProcessPlaced'
  BY PoolAssumption DEF IInv, TypeOK, PoolsAllocated, ProcessPlaced, HeldPlaced, Holding, AcquireMissing
<1>5. HeldPlaced'
  BY PoolAssumption DEF IInv, TypeOK, PoolsAllocated, ProcessPlaced, HeldPlaced, Holding, Exclusive, AcquireMissing
<1>6. Capacity'
  BY PoolAssumption DEF IInv, TypeOK, Capacity, AcquireMissing
<1>7. Exclusive'
  BY PoolAssumption DEF IInv, TypeOK, ProcessPlaced, HeldPlaced, Exclusive, Holding, AcquireMissing
<1>8. MappedPoolIsFresh'
  BY PoolAssumption DEF IInv, TypeOK, PoolsAllocated, MappedPoolIsFresh, AcquireMissing
<1>9. Accounted'
  BY PoolAssumption DEF IInv, TypeOK, PoolsAllocated, ProcessPlaced, AcquiringPlaced, Accounted, AwaitsTeardown, AcquireMissing
<1>10. AcquiringPlaced'
  BY PoolAssumption DEF IInv, TypeOK, PoolsAllocated, AcquiringPlaced, Acquiring, AcquireMissing
<1>. QED BY <1>1, <1>2, <1>3, <1>4, <1>5, <1>6, <1>7, <1>8, <1>9, <1>10 DEF IInv

\* acquire's g.mu section: a fresh pool is one nobody knows yet.
LEMMA AcquirePoolStep ==
    ASSUME IInv, NEW r \in Requests, AcquirePool(r)
    PROVE  IInv'
<1>1. TypeOK'
  BY PoolAssumption DEF IInv, TypeOK, Pcs, Defs, AcquirePool
<1>2. PoolsAllocated'
  BY PoolAssumption DEF IInv, TypeOK, PoolsAllocated, AcquirePool
<1>3. SpawnsCounted'
  <2>1. ASSUME NEW p \in Requests PROVE Spawners(p)' = Spawners(p)
    BY DEF IInv, TypeOK, PoolsAllocated, Spawners, AcquirePool
  <2>2. ASSUME NEW p \in Requests PROVE instances'[p] \subseteq instances[p]
    BY DEF IInv, TypeOK, PoolsAllocated, AcquirePool
  <2>3. spawning' = spawning
    BY DEF AcquirePool
  <2>. QED BY <2>1, <2>2, <2>3, SpawnsKept DEF IInv
<1>4. ProcessPlaced'
  BY PoolAssumption DEF IInv, TypeOK, PoolsAllocated, ProcessPlaced, HeldPlaced, Holding, AcquirePool
<1>5. HeldPlaced'
  BY PoolAssumption DEF IInv, TypeOK, PoolsAllocated, ProcessPlaced, HeldPlaced, Holding, Exclusive, AcquirePool
<1>6. Capacity'
  <2>1. CASE cur # None
    BY <2>1 DEF IInv, TypeOK, Capacity, AcquirePool
  <2>2. CASE cur = None
    <3>1. instances[r] = {}
      BY PoolAssumption DEF IInv, TypeOK, PoolsAllocated, ProcessPlaced, AcquirePool
    <3>2. Spawners(r) = {}
      BY PoolAssumption DEF IInv, TypeOK, PoolsAllocated, Spawners, AcquirePool
    <3>3. Cardinality(instances[r]) = 0 /\ spawning[r] = 0
      BY <3>1, <3>2, FS_EmptySet DEF IInv, SpawnsCounted
    <3>. QED BY <2>2, <3>3 DEF IInv, TypeOK, Capacity, Defs, AcquirePool
  <2>. QED BY <2>1, <2>2
<1>7. Exclusive'
  BY PoolAssumption DEF IInv, TypeOK, ProcessPlaced, HeldPlaced, Exclusive, Holding, AcquirePool
<1>8. MappedPoolIsFresh'
  BY PoolAssumption DEF IInv, TypeOK, PoolsAllocated, MappedPoolIsFresh, AcquirePool
<1>9. Accounted'
  BY PoolAssumption DEF IInv, TypeOK, PoolsAllocated, ProcessPlaced, AcquiringPlaced, Accounted, AwaitsTeardown, AcquirePool
<1>10. AcquiringPlaced'
  BY PoolAssumption DEF IInv, TypeOK, PoolsAllocated, AcquiringPlaced, Acquiring, AcquirePool
<1>. QED BY <1>1, <1>2, <1>3, <1>4, <1>5, <1>6, <1>7, <1>8, <1>9, <1>10 DEF IInv

\* busy.TryLock succeeded under p.mu.
LEMMA GrabStep ==
    ASSUME IInv, NEW r \in Requests, Grab(r)
    PROVE  IInv'
<1>1. TypeOK'
  <2>1. PICK i \in Requests : held' = [held EXCEPT ![r] = i] /\ busy' = busy \cup {i}
    BY DEF IInv, TypeOK, PoolsAllocated, Grab, Free
  <2>. QED BY <2>1 DEF IInv, TypeOK, Pcs, Defs, Grab, Free
<1>2. PoolsAllocated'
  BY PoolAssumption DEF IInv, TypeOK, PoolsAllocated, Grab, Free
<1>3. SpawnsCounted'
  <2>1. ASSUME NEW p \in Requests PROVE Spawners(p)' = Spawners(p)
    BY DEF IInv, TypeOK, PoolsAllocated, Spawners, Grab, Free
  <2>2. ASSUME NEW p \in Requests PROVE instances'[p] \subseteq instances[p]
    BY DEF IInv, TypeOK, PoolsAllocated, Grab, Free
  <2>3. spawning' = spawning
    BY DEF Grab, Free
  <2>. QED BY <2>1, <2>2, <2>3, SpawnsKept DEF IInv
<1>4. ProcessPlaced'
  BY PoolAssumption DEF IInv, TypeOK, PoolsAllocated, ProcessPlaced, HeldPlaced, Holding, Grab, Free
<1>5. HeldPlaced'
  BY PoolAssumption DEF IInv, TypeOK, PoolsAllocated, ProcessPlaced, HeldPlaced, Holding, Exclusive, Grab, Free
<1>6. Capacity'
  BY PoolAssumption DEF IInv, TypeOK, Capacity, Grab, Free
<1>7. Exclusive'
  BY PoolAssumption DEF IInv, TypeOK, ProcessPlaced, HeldPlaced, Exclusive, Holding, Grab, Free
<1>8. MappedPoolIsFresh'
  BY PoolAssumption DEF IInv, TypeOK, PoolsAllocated, MappedPoolIsFresh, Grab, Free
<1>9. Accounted'
  BY PoolAssumption DEF IInv, TypeOK, PoolsAllocated, ProcessPlaced, AcquiringPlaced, Accounted, AwaitsTeardown, Grab, Free
<1>10. AcquiringPlaced'
  BY PoolAssumption DEF IInv, TypeOK, PoolsAllocated, AcquiringPlaced, Acquiring, Grab, Free
<1>. QED BY <1>1, <1>2, <1>3, <1>4, <1>5, <1>6, <1>7, <1>8, <1>9, <1>10 DEF IInv

\* spawning++ under the size test.
LEMMA ReserveStep ==
    ASSUME IInv, NEW r \in Requests, Reserve(r)
    PROVE  IInv'
<1>1. TypeOK'
  <2>1. rpool[r] \in Requests
    BY DEF IInv, PoolsAllocated, Reserve
  <2>. QED BY <2>1, PoolAssumption DEF IInv, TypeOK, Pcs, Defs, Reserve
<1>2. PoolsAllocated'
  BY PoolAssumption DEF IInv, TypeOK, PoolsAllocated, Reserve, HasRoom
<1>3. SpawnsCounted'
  <2>1. PICK q \in Requests : q = rpool[r]
    BY DEF IInv, PoolsAllocated, Reserve, HasRoom
  <2>2. r \notin Spawners(q) /\ Spawners(q)' = Spawners(q) \cup {r}
    BY <2>1 DEF IInv, TypeOK, Spawners, Reserve, HasRoom
  <2>3. ASSUME NEW p \in Requests, p # q PROVE Spawners(p)' = Spawners(p)
    BY <2>1, <2>3 DEF IInv, TypeOK, Spawners, Reserve, HasRoom
  <2>4. spawning' = [spawning EXCEPT ![q] = @ + 1] /\ instances' = instances
    BY <2>1 DEF Reserve, HasRoom
  <2>5. IsFiniteSet(Spawners(q)) /\ spawning[q] = Cardinality(Spawners(q))
    BY <2>1 DEF IInv, SpawnsCounted
  <2>6. IsFiniteSet(Spawners(q)') /\ Cardinality(Spawners(q)') = spawning[q] + 1
    BY <2>2, <2>5, FS_AddElement
  <2>. QED BY <2>3, <2>4, <2>6 DEF IInv, TypeOK, SpawnsCounted
<1>4. ProcessPlaced'
  BY PoolAssumption DEF IInv, TypeOK, PoolsAllocated, ProcessPlaced, HeldPlaced, Holding, Reserve, HasRoom
<1>5. HeldPlaced'
  BY PoolAssumption DEF IInv, TypeOK, PoolsAllocated, ProcessPlaced, HeldPlaced, Holding, Exclusive, Reserve, HasRoom
<1>6. Capacity'
  <2>1. \A p \in Requests : Cardinality(instances[p]) \in Nat
    BY FS_CardinalityType DEF IInv, SpawnsCounted
  <2>2. rpool[r] \in Requests
    BY DEF IInv, PoolsAllocated, Reserve, HasRoom
  <2>. QED BY <2>1, <2>2 DEF IInv, TypeOK, Capacity, Reserve, HasRoom
<1>7. Exclusive'
  BY PoolAssumption DEF IInv, TypeOK, ProcessPlaced, HeldPlaced, Exclusive, Holding, Reserve, HasRoom
<1>8. MappedPoolIsFresh'
  BY PoolAssumption DEF IInv, TypeOK, PoolsAllocated, MappedPoolIsFresh, Reserve, HasRoom
<1>9. Accounted'
  BY PoolAssumption DEF IInv, TypeOK, PoolsAllocated, ProcessPlaced, AcquiringPlaced, Accounted, AwaitsTeardown, Reserve, HasRoom
<1>10. AcquiringPlaced'
  BY PoolAssumption DEF IInv, TypeOK, PoolsAllocated, AcquiringPlaced, Acquiring, Reserve, HasRoom
<1>. QED BY <1>1, <1>2, <1>3, <1>4, <1>5, <1>6, <1>7, <1>8, <1>9, <1>10 DEF IInv

\* p.cond.Wait().
LEMMA BlockStep ==
    ASSUME IInv, NEW r \in Requests, Block(r)
    PROVE  IInv'
<1>1. TypeOK'
  BY PoolAssumption DEF IInv, TypeOK, Pcs, Defs, Block
<1>2. PoolsAllocated'
  BY PoolAssumption DEF IInv, TypeOK, PoolsAllocated, Block
<1>3. SpawnsCounted'
  <2>1. ASSUME NEW p \in Requests PROVE Spawners(p)' = Spawners(p)
    BY DEF IInv, TypeOK, PoolsAllocated, Spawners, Block
  <2>2. ASSUME NEW p \in Requests PROVE instances'[p] \subseteq instances[p]
    BY DEF IInv, TypeOK, PoolsAllocated, Block
  <2>3. spawning' = spawning
    BY DEF Block
  <2>. QED BY <2>1, <2>2, <2>3, SpawnsKept DEF IInv
<1>4. ProcessPlaced'
  BY PoolAssumption DEF IInv, TypeOK, PoolsAllocated, ProcessPlaced, HeldPlaced, Holding, Block
<1>5. HeldPlaced'
  BY PoolAssumption DEF IInv, TypeOK, PoolsAllocated, ProcessPlaced, HeldPlaced, Holding, Exclusive, Block
<1>6. Capacity'
  BY PoolAssumption DEF IInv, TypeOK, Capacity, Block
<1>7. Exclusive'
  BY PoolAssumption DEF IInv, TypeOK, ProcessPlaced, HeldPlaced, Exclusive, Holding, Block
<1>8. MappedPoolIsFresh'
  BY PoolAssumption DEF IInv, TypeOK, PoolsAllocated, MappedPoolIsFresh, Block
<1>9. Accounted'
  BY PoolAssumption DEF IInv, TypeOK, PoolsAllocated, ProcessPlaced, AcquiringPlaced, Accounted, AwaitsTeardown, Block
<1>10. AcquiringPlaced'
  BY PoolAssumption DEF IInv, TypeOK, PoolsAllocated, AcquiringPlaced, Acquiring, Block
<1>. QED BY <1>1, <1>2, <1>3, <1>4, <1>5, <1>6, <1>7, <1>8, <1>9, <1>10 DEF IInv

\* The slot of a failed spawn is given back: spawning counted it.
LEMMA SpawnFailedStep ==
    ASSUME IInv, NEW r \in Requests, SpawnFailed(r)
    PROVE  IInv'
<1>1. TypeOK'
  <2>1. rpool[r] \in Requests /\ spawning[rpool[r]] - 1 \in Nat
    BY SpawnerCounted DEF IInv, PoolsAllocated, SpawnFailed, WakeAll
  <2>. QED BY <2>1, PoolAssumption DEF IInv, TypeOK, Pcs, Defs, SpawnFailed, WakeAll
<1>2. PoolsAllocated'
  BY PoolAssumption DEF IInv, TypeOK, PoolsAllocated, SpawnFailed, WakeAll
<1>3. SpawnsCounted'
  <2>1. PICK q \in Requests : q = rpool[r]
    BY DEF IInv, PoolsAllocated, SpawnFailed, WakeAll
  <2>2. r \in Spawners(q) /\ Spawners(q)' = Spawners(q) \ {r}
    BY <2>1 DEF IInv, TypeOK, Spawners, SpawnFailed, WakeAll
  <2>3. ASSUME NEW p \in Requests, p # q PROVE Spawners(p)' = Spawners(p)
    BY <2>1, <2>3 DEF IInv, TypeOK, Spawners, SpawnFailed, WakeAll
  <2>4. spawning' = [spawning EXCEPT ![q] = @ - 1] /\ instances' = instances
    BY <2>1 DEF SpawnFailed, WakeAll
  <2>5. IsFiniteSet(Spawners(q)) /\ spawning[q] = Cardinality(Spawners(q))
    BY DEF IInv, SpawnsCounted
  <2>6. IsFiniteSet(Spawners(q)') /\ Cardinality(Spawners(q)') = spawning[q] - 1
    BY <2>2, <2>5, FS_RemoveElement
  <2>7. \A p \in Requests : IsFiniteSet(instances'[p])
    BY <2>4, FS_AddElement DEF IInv, TypeOK, SpawnsCounted
  <2>. QED BY <2>3, <2>4, <2>6, <2>7 DEF IInv, TypeOK, SpawnsCounted
<1>4. ProcessPlaced'
  BY PoolAssumption DEF IInv, TypeOK, PoolsAllocated, ProcessPlaced, HeldPlaced, Holding, SpawnFailed, WakeAll
<1>5. HeldPlaced'
  BY PoolAssumption DEF IInv, TypeOK, PoolsAllocated, ProcessPlaced, HeldPlaced, Holding, Exclusive, SpawnFailed, WakeAll
<1>6. Capacity'
  <2>1. \A p \in Requests : Cardinality(instances[p]) \in Nat
    BY FS_CardinalityType DEF IInv, SpawnsCounted
  <2>. QED BY <2>1 DEF IInv, TypeOK, PoolsAllocated, Capacity, SpawnFailed, WakeAll
<1>7. Exclusive'
  BY PoolAssumption DEF IInv, TypeOK, ProcessPlaced, HeldPlaced, Exclusive, Holding, SpawnFailed, WakeAll
<1>8. MappedPoolIsFresh'
  BY PoolAssumption DEF IInv, TypeOK, PoolsAllocated, MappedPoolIsFresh, SpawnFailed, WakeAll
<1>9. Accounted'
  BY PoolAssumption DEF IInv, TypeOK, PoolsAllocated, ProcessPlaced, AcquiringPlaced, Accounted, AwaitsTeardown, SpawnFailed, WakeAll
<1>10. AcquiringPlaced'
  BY PoolAssumption DEF IInv, TypeOK, PoolsAllocated, AcquiringPlaced, Acquiring, SpawnFailed, WakeAll
<1>. QED BY <1>1, <1>2, <1>3, <1>4, <1>5, <1>6, <1>7, <1>8, <1>9, <1>10 DEF IInv

\* The reserved slot becomes a listed instance.
LEMMA SpawnedStep ==
    ASSUME IInv, NEW r \in Requests, Spawned(r)
    PROVE  IInv'
<1>1. TypeOK'
  <2>1. rpool[r] \in Requests /\ spawning[rpool[r]] - 1 \in Nat
    BY SpawnerCounted DEF IInv, PoolsAllocated, Spawned, Enter
  <2>. QED BY <2>1, PoolAssumption DEF IInv, TypeOK, Pcs, Defs, Spawned, Enter
<1>2. PoolsAllocated'
  BY PoolAssumption DEF IInv, TypeOK, PoolsAllocated, Spawned, Enter
<1>3. SpawnsCounted'
  <2>1. PICK q \in Requests : q = rpool[r]
    BY DEF IInv, PoolsAllocated, Spawned, Enter
  <2>2. r \in Spawners(q) /\ Spawners(q)' = Spawners(q) \ {r}
    BY <2>1 DEF IInv, TypeOK, Spawners, Spawned, Enter
  <2>3. ASSUME NEW p \in Requests, p # q PROVE Spawners(p)' = Spawners(p)
    BY <2>1, <2>3 DEF IInv, TypeOK, Spawners, Spawned, Enter
  <2>4. spawning' = [spawning EXCEPT ![q] = @ - 1] /\ instances' = [instances EXCEPT ![q] = @ \cup {r}]
    BY <2>1 DEF Spawned, Enter
  <2>5. IsFiniteSet(Spawners(q)) /\ spawning[q] = Cardinality(Spawners(q))
    BY DEF IInv, SpawnsCounted
  <2>6. IsFiniteSet(Spawners(q)') /\ Cardinality(Spawners(q)') = spawning[q] - 1
    BY <2>2, <2>5, FS_RemoveElement
  <2>7. \A p \in Requests : IsFiniteSet(instances'[p])
    BY <2>4, FS_AddElement DEF IInv, TypeOK, SpawnsCounted
  <2>. QED BY <2>3, <2>4, <2>6, <2>7 DEF IInv, TypeOK, SpawnsCounted
<1>4. ProcessPlaced'
  BY PoolAssumption DEF IInv, TypeOK, PoolsAllocated, ProcessPlaced, HeldPlaced, Holding, Spawned, Enter
<1>5. HeldPlaced'
  BY PoolAssumption DEF IInv, TypeOK, PoolsAllocated, ProcessPlaced, HeldPlaced, Holding, Exclusive, Spawned, Enter
<1>6. Capacity'
  <2>1. rpool[r] \in Requests /\ IsFiniteSet(instances[rpool[r]]) /\ r \notin instances[rpool[r]]
    BY DEF IInv, SpawnsCounted, PoolsAllocated, ProcessPlaced, Spawned, Enter
  <2>2. Cardinality(instances[rpool[r]] \cup {r}) = Cardinality(instances[rpool[r]]) + 1
    BY <2>1, FS_AddElement
  <2>3. Cardinality(instances[rpool[r]]) \in Nat
    BY <2>1, FS_CardinalityType
  <2>. QED BY <2>1, <2>2, <2>3 DEF IInv, TypeOK, Capacity, Spawned, Enter
<1>7. Exclusive'
  BY PoolAssumption DEF IInv, TypeOK, ProcessPlaced, HeldPlaced, Exclusive, Holding, Spawned, Enter
<1>8. MappedPoolIsFresh'
  BY PoolAssumption DEF IInv, TypeOK, PoolsAllocated, MappedPoolIsFresh, Spawned, Enter
<1>9. Accounted'
  <2>. SUFFICES ASSUME NEW i \in Requests, (ist[i] \in Open)'
                PROVE  \/ cur' # None /\ i \in instances'[cur']
                       \/ AwaitsTeardown(i)'
                       \/ i \in victims'
                       \/ \E u \in Updaters : i \in closing'[u]
                       \/ i \in late' /\ i \in instances'[rpool'[i]]
    BY DEF Accounted
  <2>1. /\ rpool[r] \in Requests /\ pc[r] = "spawn"
        /\ instances' = [instances EXCEPT ![rpool[r]] = @ \cup {r}]
        /\ UNCHANGED <<rpool, cur, upc, upool, closing, victims, late>>
        /\ i # r => ist'[i] = ist[i]
    BY DEF IInv, TypeOK, PoolsAllocated, Spawned, Enter, gwVars, updVars, reapVars
  <2>2. CASE i = r
    <3>1. i \in instances'[rpool[i]]
      BY <2>1, <2>2 DEF IInv, TypeOK
    <3>2. \/ rpool[i] = cur
          \/ \E u \in Updaters : upc[u] = "detach" /\ upool[u] = rpool[i]
          \/ i \in late
      BY <2>1, <2>2 DEF IInv, AcquiringPlaced
    <3>. QED BY <2>1, <2>2, <3>1, <3>2, PoolAssumption DEF AwaitsTeardown
  <2>3. CASE i # r
    <3>1. \/ cur # None /\ i \in instances[cur]
          \/ AwaitsTeardown(i)
          \/ i \in victims
          \/ \E u \in Updaters : i \in closing[u]
          \/ i \in late /\ i \in instances[rpool[i]]
      BY <2>1, <2>3 DEF IInv, Accounted
    <3>2. \A p \in Requests : instances[p] \subseteq instances'[p]
      BY <2>1 DEF IInv, TypeOK
    <3>3. AwaitsTeardown(i) => rpool[i] \in Requests
      BY DEF IInv, TypeOK, PoolsAllocated, AwaitsTeardown
    <3>4. i \in late => rpool[i] \in Requests
      BY DEF IInv, AcquiringPlaced
    <3>5. cur # None => cur \in Requests
      BY DEF IInv, TypeOK
    <3>. QED BY <2>1, <3>1, <3>2, <3>3, <3>4, <3>5 DEF AwaitsTeardown
  <2>. QED BY <2>2, <2>3
<1>10. AcquiringPlaced'
  BY PoolAssumption DEF IInv, TypeOK, PoolsAllocated, AcquiringPlaced, Acquiring, Spawned, Enter
<1>. QED BY <1>1, <1>2, <1>3, <1>4, <1>5, <1>6, <1>7, <1>8, <1>9, <1>10 DEF IInv

\* The three ends of an invocation touch no placement.
LEMMA BodyRejectedStep ==
    ASSUME IInv, NEW r \in Requests, BodyRejected(r)
    PROVE  IInv'
<1>1. TypeOK'
  BY PoolAssumption DEF IInv, TypeOK, Pcs, Defs, BodyRejected
<1>2. PoolsAllocated'
  BY PoolAssumption DEF IInv, TypeOK, PoolsAllocated, BodyRejected
<1>3. SpawnsCounted'
  <2>1. ASSUME NEW p \in Requests PROVE Spawners(p)' = Spawners(p)
    BY DEF IInv, TypeOK, PoolsAllocated, Spawners, BodyRejected
  <2>2. ASSUME NEW p \in Requests PROVE instances'[p] \subseteq instances[p]
    BY DEF IInv, TypeOK, PoolsAllocated, BodyRejected
  <2>3. spawning' = spawning
    BY DEF BodyRejected
  <2>. QED BY <2>1, <2>2, <2>3, SpawnsKept DEF IInv
<1>4. ProcessPlaced'
  BY PoolAssumption DEF IInv, TypeOK, PoolsAllocated, ProcessPlaced, HeldPlaced, Holding, BodyRejected
<1>5. HeldPlaced'
  BY PoolAssumption DEF IInv, TypeOK, PoolsAllocated, ProcessPlaced, HeldPlaced, Holding, Exclusive, BodyRejected
<1>6. Capacity'
  BY PoolAssumption DEF IInv, TypeOK, Capacity, BodyRejected
<1>7. Exclusive'
  BY PoolAssumption DEF IInv, TypeOK, ProcessPlaced, HeldPlaced, Exclusive, Holding, BodyRejected
<1>8. MappedPoolIsFresh'
  BY PoolAssumption DEF IInv, TypeOK, PoolsAllocated, MappedPoolIsFresh, BodyRejected
<1>9. Accounted'
  BY PoolAssumption DEF IInv, TypeOK, PoolsAllocated, ProcessPlaced, AcquiringPlaced, Accounted, AwaitsTeardown, BodyRejected
<1>10. AcquiringPlaced'
  BY PoolAssumption DEF IInv, TypeOK, PoolsAllocated, AcquiringPlaced, Acquiring, BodyRejected
<1>. QED BY <1>1, <1>2, <1>3, <1>4, <1>5, <1>6, <1>7, <1>8, <1>9, <1>10 DEF IInv

\* A failed invocation leaves the instance where it is.
LEMMA InvokeFailedStep ==
    ASSUME IInv, NEW r \in Requests, InvokeFailed(r)
    PROVE  IInv'
<1>1. TypeOK'
  BY PoolAssumption DEF IInv, TypeOK, Pcs, Defs, HeldPlaced, Holding, InvokeFailed
<1>2. PoolsAllocated'
  BY PoolAssumption DEF IInv, TypeOK, PoolsAllocated, InvokeFailed
<1>3. SpawnsCounted'
  <2>1. ASSUME NEW p \in Requests PROVE Spawners(p)' = Spawners(p)
    BY DEF IInv, TypeOK, PoolsAllocated, Spawners, InvokeFailed
  <2>2. ASSUME NEW p \in Requests PROVE instances'[p] \subseteq instances[p]
    BY DEF IInv, TypeOK, PoolsAllocated, InvokeFailed
  <2>3. spawning' = spawning
    BY DEF InvokeFailed
  <2>. QED BY <2>1, <2>2, <2>3, SpawnsKept DEF IInv
<1>4. ProcessPlaced'
  BY PoolAssumption DEF IInv, TypeOK, PoolsAllocated, ProcessPlaced, HeldPlaced, Holding, InvokeFailed
<1>5. HeldPlaced'
  BY PoolAssumption DEF IInv, TypeOK, PoolsAllocated, ProcessPlaced, HeldPlaced, Holding, Exclusive, InvokeFailed
<1>6. Capacity'
  BY PoolAssumption DEF IInv, TypeOK, Capacity, InvokeFailed
<1>7. Exclusive'
  BY PoolAssumption DEF IInv, TypeOK, ProcessPlaced, HeldPlaced, Exclusive, Holding, InvokeFailed
<1>8. MappedPoolIsFresh'
  BY PoolAssumption DEF IInv, TypeOK, PoolsAllocated, MappedPoolIsFresh, InvokeFailed
<1>9. Accounted'
  BY PoolAssumption DEF IInv, TypeOK, PoolsAllocated, ProcessPlaced, AcquiringPlaced, Accounted, AwaitsTeardown, InvokeFailed
<1>10. AcquiringPlaced'
  BY PoolAssumption DEF IInv, TypeOK, PoolsAllocated, AcquiringPlaced, Acquiring, InvokeFailed
<1>. QED BY <1>1, <1>2, <1>3, <1>4, <1>5, <1>6, <1>7, <1>8, <1>9, <1>10 DEF IInv

\* A successful one does, too.
LEMMA InvokeOkStep ==
    ASSUME IInv, NEW r \in Requests, InvokeOk(r)
    PROVE  IInv'
<1>1. TypeOK'
  BY PoolAssumption DEF IInv, TypeOK, Pcs, Defs, HeldPlaced, Holding, InvokeOk
<1>2. PoolsAllocated'
  BY PoolAssumption DEF IInv, TypeOK, PoolsAllocated, InvokeOk
<1>3. SpawnsCounted'
  <2>1. ASSUME NEW p \in Requests PROVE Spawners(p)' = Spawners(p)
    BY DEF IInv, TypeOK, PoolsAllocated, Spawners, InvokeOk
  <2>2. ASSUME NEW p \in Requests PROVE instances'[p] \subseteq instances[p]
    BY DEF IInv, TypeOK, PoolsAllocated, InvokeOk
  <2>3. spawning' = spawning
    BY DEF InvokeOk
  <2>. QED BY <2>1, <2>2, <2>3, SpawnsKept DEF IInv
<1>4. ProcessPlaced'
  BY PoolAssumption DEF IInv, TypeOK, PoolsAllocated, ProcessPlaced, HeldPlaced, Holding, InvokeOk
<1>5. HeldPlaced'
  BY PoolAssumption DEF IInv, TypeOK, PoolsAllocated, ProcessPlaced, HeldPlaced, Holding, Exclusive, InvokeOk
<1>6. Capacity'
  BY PoolAssumption DEF IInv, TypeOK, Capacity, InvokeOk
<1>7. Exclusive'
  BY PoolAssumption DEF IInv, TypeOK, ProcessPlaced, HeldPlaced, Exclusive, Holding, InvokeOk
<1>8. MappedPoolIsFresh'
  BY PoolAssumption DEF IInv, TypeOK, PoolsAllocated, MappedPoolIsFresh, InvokeOk
<1>9. Accounted'
  BY PoolAssumption DEF IInv, TypeOK, PoolsAllocated, ProcessPlaced, AcquiringPlaced, Accounted, AwaitsTeardown, InvokeOk
<1>10. AcquiringPlaced'
  BY PoolAssumption DEF IInv, TypeOK, PoolsAllocated, AcquiringPlaced, Acquiring, InvokeOk
<1>. QED BY <1>1, <1>2, <1>3, <1>4, <1>5, <1>6, <1>7, <1>8, <1>9, <1>10 DEF IInv

\* Unlocking one's own instance unlocks no victim.
LEMMA UnlockStep ==
    ASSUME IInv, NEW r \in Requests, Unlock(r)
    PROVE  IInv'
<1>1. TypeOK'
  BY PoolAssumption DEF IInv, TypeOK, Pcs, Defs, Unlock
<1>2. PoolsAllocated'
  BY PoolAssumption DEF IInv, TypeOK, PoolsAllocated, Unlock
<1>3. SpawnsCounted'
  <2>1. ASSUME NEW p \in Requests PROVE Spawners(p)' = Spawners(p)
    BY DEF IInv, TypeOK, PoolsAllocated, Spawners, Unlock
  <2>2. ASSUME NEW p \in Requests PROVE instances'[p] \subseteq instances[p]
    BY DEF IInv, TypeOK, PoolsAllocated, Unlock
  <2>3. spawning' = spawning
    BY DEF Unlock
  <2>. QED BY <2>1, <2>2, <2>3, SpawnsKept DEF IInv
<1>4. ProcessPlaced'
  BY PoolAssumption DEF IInv, TypeOK, PoolsAllocated, ProcessPlaced, HeldPlaced, Holding, Exclusive, Unlock
<1>5. HeldPlaced'
  BY PoolAssumption DEF IInv, TypeOK, PoolsAllocated, ProcessPlaced, HeldPlaced, Holding, Exclusive, Unlock
<1>6. Capacity'
  BY PoolAssumption DEF IInv, TypeOK, Capacity, Unlock
<1>7. Exclusive'
  BY PoolAssumption DEF IInv, TypeOK, ProcessPlaced, HeldPlaced, Exclusive, Holding, Unlock
<1>8. MappedPoolIsFresh'
  BY PoolAssumption DEF IInv, TypeOK, PoolsAllocated, MappedPoolIsFresh, Unlock
<1>9. Accounted'
  BY PoolAssumption DEF IInv, TypeOK, PoolsAllocated, ProcessPlaced, AcquiringPlaced, Accounted, AwaitsTeardown, Unlock
<1>10. AcquiringPlaced'
  BY PoolAssumption DEF IInv, TypeOK, PoolsAllocated, AcquiringPlaced, Acquiring, Unlock
<1>. QED BY <1>1, <1>2, <1>3, <1>4, <1>5, <1>6, <1>7, <1>8, <1>9, <1>10 DEF IInv

\* The Broadcast of release.
LEMMA SignalStep ==
    ASSUME IInv, NEW r \in Requests, Signal(r)
    PROVE  IInv'
<1>1. TypeOK'
  BY PoolAssumption DEF IInv, TypeOK, Pcs, Defs, Signal, WakeAll
<1>2. PoolsAllocated'
  BY PoolAssumption DEF IInv, TypeOK, PoolsAllocated, Signal, WakeAll
<1>3. SpawnsCounted'
  <2>1. ASSUME NEW p \in Requests PROVE Spawners(p)' = Spawners(p)
    BY DEF IInv, TypeOK, PoolsAllocated, Spawners, Signal, WakeAll
  <2>2. ASSUME NEW p \in Requests PROVE instances'[p] \subseteq instances[p]
    BY DEF IInv, TypeOK, PoolsAllocated, Signal, WakeAll
  <2>3. spawning' = spawning
    BY DEF Signal, WakeAll
  <2>. QED BY <2>1, <2>2, <2>3, SpawnsKept DEF IInv
<1>4. ProcessPlaced'
  BY PoolAssumption DEF IInv, TypeOK, PoolsAllocated, ProcessPlaced, HeldPlaced, Holding, Signal, WakeAll
<1>5. HeldPlaced'
  BY PoolAssumption DEF IInv, TypeOK, PoolsAllocated, ProcessPlaced, HeldPlaced, Holding, Exclusive, Signal, WakeAll
<1>6. Capacity'
  BY PoolAssumption DEF IInv, TypeOK, Capacity, Signal, WakeAll
<1>7. Exclusive'
  BY PoolAssumption DEF IInv, TypeOK, ProcessPlaced, HeldPlaced, Exclusive, Holding, Signal, WakeAll
<1>8. MappedPoolIsFresh'
  BY PoolAssumption DEF IInv, TypeOK, PoolsAllocated, MappedPoolIsFresh, Signal, WakeAll
<1>9. Accounted'
  BY PoolAssumption DEF IInv, TypeOK, PoolsAllocated, ProcessPlaced, AcquiringPlaced, Accounted, AwaitsTeardown, Signal, WakeAll
<1>10. AcquiringPlaced'
  BY PoolAssumption DEF IInv, TypeOK, PoolsAllocated, AcquiringPlaced, Acquiring, Signal, WakeAll
<1>. QED BY <1>1, <1>2, <1>3, <1>4, <1>5, <1>6, <1>7, <1>8, <1>9, <1>10 DEF IInv

\* Time passes.
LEMMA AgeStep ==
    ASSUME IInv, NEW i \in Requests, Age(i)
    PROVE  IInv'
<1>1. TypeOK'
  BY PoolAssumption DEF IInv, TypeOK, Pcs, Defs, Age
<1>2. PoolsAllocated'
  BY PoolAssumption DEF IInv, TypeOK, PoolsAllocated, Age
<1>3. SpawnsCounted'
  <2>1. ASSUME NEW p \in Requests PROVE Spawners(p)' = Spawners(p)
    BY DEF IInv, TypeOK, PoolsAllocated, Spawners, Age
  <2>2. ASSUME NEW p \in Requests PROVE instances'[p] \subseteq instances[p]
    BY DEF IInv, TypeOK, PoolsAllocated, Age
  <2>3. spawning' = spawning
    BY DEF Age
  <2>. QED BY <2>1, <2>2, <2>3, SpawnsKept DEF IInv
<1>4. ProcessPlaced'
  BY PoolAssumption DEF IInv, TypeOK, PoolsAllocated, ProcessPlaced, HeldPlaced, Holding, Age
<1>5. HeldPlaced'
  BY PoolAssumption DEF IInv, TypeOK, PoolsAllocated, ProcessPlaced, HeldPlaced, Holding, Exclusive, Age
<1>6. Capacity'
  BY PoolAssumption DEF IInv, TypeOK, Capacity, Age
<1>7. Exclusive'
  BY PoolAssumption DEF IInv, TypeOK, ProcessPlaced, HeldPlaced, Exclusive, Holding, Age
<1>8. MappedPoolIsFresh'
  BY PoolAssumption DEF IInv, TypeOK, PoolsAllocated, MappedPoolIsFresh, Age
<1>9. Accounted'
  BY PoolAssumption DEF IInv, TypeOK, PoolsAllocated, ProcessPlaced, AcquiringPlaced, Accounted, AwaitsTeardown, Age
<1>10. AcquiringPlaced'
  BY PoolAssumption DEF IInv, TypeOK, PoolsAllocated, AcquiringPlaced, Acquiring, Age
<1>. QED BY <1>1, <1>2, <1>3, <1>4, <1>5, <1>6, <1>7, <1>8, <1>9, <1>10 DEF IInv

\* A process that ends by itself is where it was.
LEMMA DieStep ==
    ASSUME IInv, NEW i \in Requests, Die(i)
    PROVE  IInv'
<1>1. TypeOK'
  BY PoolAssumption DEF IInv, TypeOK, Pcs, Defs, Die
<1>2. PoolsAllocated'
  BY PoolAssumption DEF IInv, TypeOK, PoolsAllocated, Die
<1>3. SpawnsCounted'
  <2>1. ASSUME NEW p \in Requests PROVE Spawners(p)' = Spawners(p)
    BY DEF IInv, TypeOK, PoolsAllocated, Spawners, Die
  <2>2. ASSUME NEW p \in Requests PROVE instances'[p] \subseteq instances[p]
    BY DEF IInv, TypeOK, PoolsAllocated, Die
  <2>3. spawning' = spawning
    BY DEF Die
  <2>. QED BY <2>1, <2>2, <2>3, SpawnsKept DEF IInv
<1>4. ProcessPlaced'
  BY PoolAssumption DEF IInv, TypeOK, PoolsAllocated, ProcessPlaced, HeldPlaced, Holding, Die
<1>5. HeldPlaced'
  BY PoolAssumption DEF IInv, TypeOK, PoolsAllocated, ProcessPlaced, HeldPlaced, Holding, Exclusive, Die
<1>6. Capacity'
  BY PoolAssumption DEF IInv, TypeOK, Capacity, Die
<1>7. Exclusive'
  BY PoolAssumption DEF IInv, TypeOK, ProcessPlaced, HeldPlaced, Exclusive, Holding, Die
<1>8. MappedPoolIsFresh'
  BY PoolAssumption DEF IInv, TypeOK, PoolsAllocated, MappedPoolIsFresh, Die
<1>9. Accounted'
  BY PoolAssumption DEF IInv, TypeOK, PoolsAllocated, ProcessPlaced, AcquiringPlaced, Accounted, AwaitsTeardown, Die
<1>10. AcquiringPlaced'
  BY PoolAssumption DEF IInv, TypeOK, PoolsAllocated, AcquiringPlaced, Acquiring, Die
<1>. QED BY <1>1, <1>2, <1>3, <1>4, <1>5, <1>6, <1>7, <1>8, <1>9, <1>10 DEF IInv

\* The reaper evicts only what is not locked.
LEMMA ReapStep ==
    ASSUME IInv, Reap
    PROVE  IInv'
<1>b. PICK V \in SUBSET (instances[cur] \ busy) : Evict(V)
  BY DEF Reap, Expired, Free
<1>a. cur \in Requests /\ victims = {}
  BY DEF Reap, IInv, TypeOK
<1>1. TypeOK'
  <2>1. InvokesOf(V) \in Nat /\ ErrorsOf(V) \in Nat
    BY <1>a, PoolSums
  <2>. QED BY <2>1, <1>b, <1>a, PoolAssumption
           DEF IInv, TypeOK, Pcs, Defs, Evict, RollUp, WakeAll
<1>2. PoolsAllocated'
  BY <1>b, <1>a, PoolAssumption DEF IInv, TypeOK, PoolsAllocated, Evict, RollUp, WakeAll
<1>3. SpawnsCounted'
  <2>1. ASSUME NEW p \in Requests PROVE Spawners(p)' = Spawners(p)
    BY <1>b, <1>a DEF IInv, TypeOK, PoolsAllocated, Spawners, Evict, RollUp, WakeAll
  <2>2. ASSUME NEW p \in Requests PROVE instances'[p] \subseteq instances[p]
    BY <1>b, <1>a DEF IInv, TypeOK, PoolsAllocated, Evict, RollUp, WakeAll
  <2>3. spawning' = spawning
    BY <1>b, <1>a DEF Evict, RollUp, WakeAll
  <2>. QED BY <2>1, <2>2, <2>3, SpawnsKept DEF IInv
<1>4. ProcessPlaced'
  BY <1>b, <1>a, PoolAssumption DEF IInv, TypeOK, PoolsAllocated, ProcessPlaced, HeldPlaced, Holding, Evict, RollUp, WakeAll
<1>5. HeldPlaced'
  BY <1>b, <1>a, PoolAssumption DEF IInv, TypeOK, PoolsAllocated, ProcessPlaced, HeldPlaced, Holding, Exclusive, Evict, RollUp, WakeAll
<1>6. Capacity'
  <2>1. spawning' = spawning /\ maxSize' = maxSize
    BY <1>b, <1>a DEF Evict, RollUp, WakeAll
  <2>2. ASSUME NEW p \in Requests PROVE instances'[p] \subseteq instances[p]
    BY <1>b, <1>a DEF IInv, TypeOK, PoolsAllocated, Evict, RollUp, WakeAll
  <2>3. ASSUME NEW p \in Requests
        PROVE  /\ Cardinality(instances[p]) \in Nat /\ Cardinality(instances'[p]) \in Nat
               /\ Cardinality(instances'[p]) <= Cardinality(instances[p])
    BY <2>2, FS_Subset, FS_CardinalityType DEF IInv, SpawnsCounted
  <2>. QED BY <2>1, <2>3 DEF IInv, TypeOK, Capacity
<1>7. Exclusive'
  BY <1>b, <1>a, PoolAssumption DEF IInv, TypeOK, ProcessPlaced, HeldPlaced, Exclusive, Holding, Evict, RollUp, WakeAll
<1>8. MappedPoolIsFresh'
  BY <1>b, <1>a, PoolAssumption DEF IInv, TypeOK, PoolsAllocated, MappedPoolIsFresh, Evict, RollUp, WakeAll
<1>9. Accounted'
  BY <1>b, <1>a, PoolAssumption DEF IInv, TypeOK, PoolsAllocated, ProcessPlaced, AcquiringPlaced, Accounted, AwaitsTeardown, Evict, RollUp, WakeAll
<1>10. AcquiringPlaced'
  BY <1>b, <1>a, PoolAssumption DEF IInv, TypeOK, PoolsAllocated, AcquiringPlaced, Acquiring, Evict, RollUp, WakeAll
<1>. QED BY <1>1, <1>2, <1>3, <1>4, <1>5, <1>6, <1>7, <1>8, <1>9, <1>10 DEF IInv

\* Closing a victim, which nobody else holds.
LEMMA CloseVictimStep ==
    ASSUME IInv, NEW i \in Requests, CloseVictim(i)
    PROVE  IInv'
<1>1. TypeOK'
  BY PoolAssumption DEF IInv, TypeOK, Pcs, Defs, CloseVictim
<1>2. PoolsAllocated'
  BY PoolAssumption DEF IInv, TypeOK, PoolsAllocated, CloseVictim
<1>3. SpawnsCounted'
  <2>1. ASSUME NEW p \in Requests PROVE Spawners(p)' = Spawners(p)
    BY DEF IInv, TypeOK, PoolsAllocated, Spawners, CloseVictim
  <2>2. ASSUME NEW p \in Requests PROVE instances'[p] \subseteq instances[p]
    BY DEF IInv, TypeOK, PoolsAllocated, CloseVictim
  <2>3. spawning' = spawning
    BY DEF CloseVictim
  <2>. QED BY <2>1, <2>2, <2>3, SpawnsKept DEF IInv
<1>4. ProcessPlaced'
  BY PoolAssumption DEF IInv, TypeOK, PoolsAllocated, ProcessPlaced, HeldPlaced, Holding, CloseVictim
<1>5. HeldPlaced'
  BY PoolAssumption DEF IInv, TypeOK, PoolsAllocated, ProcessPlaced, HeldPlaced, Holding, Exclusive, CloseVictim
<1>6. Capacity'
  BY PoolAssumption DEF IInv, TypeOK, Capacity, CloseVictim
<1>7. Exclusive'
  BY PoolAssumption DEF IInv, TypeOK, ProcessPlaced, HeldPlaced, Exclusive, Holding, CloseVictim
<1>8. MappedPoolIsFresh'
  BY PoolAssumption DEF IInv, TypeOK, PoolsAllocated, MappedPoolIsFresh, CloseVictim
<1>9. Accounted'
  BY PoolAssumption DEF IInv, TypeOK, PoolsAllocated, ProcessPlaced, AcquiringPlaced, Accounted, AwaitsTeardown, CloseVictim
<1>10. AcquiringPlaced'
  BY PoolAssumption DEF IInv, TypeOK, PoolsAllocated, AcquiringPlaced, Acquiring, CloseVictim
<1>. QED BY <1>1, <1>2, <1>3, <1>4, <1>5, <1>6, <1>7, <1>8, <1>9, <1>10 DEF IInv

\* The pool leaves the map together with its definition.
LEMMA ApplyPutStep ==
    ASSUME IInv, NEW u \in Updaters, NEW m \in Sizes, ApplyPut(u, m)
    PROVE  IInv'
<1>1. TypeOK'
  BY PoolAssumption DEF IInv, TypeOK, Pcs, Defs, ApplyPut, Unmap, Definition, Normalise
<1>2. PoolsAllocated'
  BY PoolAssumption DEF IInv, TypeOK, PoolsAllocated, ApplyPut, Unmap, Definition, Normalise
<1>3. SpawnsCounted'
  <2>1. ASSUME NEW p \in Requests PROVE Spawners(p)' = Spawners(p)
    BY DEF IInv, TypeOK, PoolsAllocated, Spawners, ApplyPut, Unmap, Definition, Normalise
  <2>2. ASSUME NEW p \in Requests PROVE instances'[p] \subseteq instances[p]
    BY DEF IInv, TypeOK, PoolsAllocated, ApplyPut, Unmap, Definition, Normalise
  <2>3. spawning' = spawning
    BY DEF ApplyPut, Unmap, Definition, Normalise
  <2>. QED BY <2>1, <2>2, <2>3, SpawnsKept DEF IInv
<1>4. ProcessPlaced'
  BY PoolAssumption DEF IInv, TypeOK, PoolsAllocated, ProcessPlaced, HeldPlaced, Holding, ApplyPut, Unmap, Definition, Normalise
<1>5. HeldPlaced'
  BY PoolAssumption DEF IInv, TypeOK, PoolsAllocated, ProcessPlaced, HeldPlaced, Holding, Exclusive, ApplyPut, Unmap, Definition, Normalise
<1>6. Capacity'
  BY PoolAssumption DEF IInv, TypeOK, Capacity, ApplyPut, Unmap, Definition, Normalise
<1>7. Exclusive'
  BY PoolAssumption DEF IInv, TypeOK, ProcessPlaced, HeldPlaced, Exclusive, Holding, ApplyPut, Unmap, Definition, Normalise
<1>8. MappedPoolIsFresh'
  BY PoolAssumption DEF IInv, TypeOK, PoolsAllocated, MappedPoolIsFresh, ApplyPut, Unmap, Definition, Normalise
<1>9. Accounted'
  BY PoolAssumption DEF IInv, TypeOK, PoolsAllocated, ProcessPlaced, AcquiringPlaced, Accounted, AwaitsTeardown, ApplyPut, Unmap, Definition, Normalise
<1>10. AcquiringPlaced'
  BY PoolAssumption DEF IInv, TypeOK, PoolsAllocated, AcquiringPlaced, Acquiring, ApplyPut, Unmap, Definition, Normalise
<1>. QED BY <1>1, <1>2, <1>3, <1>4, <1>5, <1>6, <1>7, <1>8, <1>9, <1>10 DEF IInv

\* A deletion, as a replacement.
LEMMA ApplyDeleteStep ==
    ASSUME IInv, NEW u \in Updaters, ApplyDelete(u)
    PROVE  IInv'
<1>1. TypeOK'
  BY PoolAssumption DEF IInv, TypeOK, Pcs, Defs, ApplyDelete, Unmap, NoDef
<1>2. PoolsAllocated'
  BY PoolAssumption DEF IInv, TypeOK, PoolsAllocated, ApplyDelete, Unmap, NoDef
<1>3. SpawnsCounted'
  <2>1. ASSUME NEW p \in Requests PROVE Spawners(p)' = Spawners(p)
    BY DEF IInv, TypeOK, PoolsAllocated, Spawners, ApplyDelete, Unmap, NoDef
  <2>2. ASSUME NEW p \in Requests PROVE instances'[p] \subseteq instances[p]
    BY DEF IInv, TypeOK, PoolsAllocated, ApplyDelete, Unmap, NoDef
  <2>3. spawning' = spawning
    BY DEF ApplyDelete, Unmap, NoDef
  <2>. QED BY <2>1, <2>2, <2>3, SpawnsKept DEF IInv
<1>4. ProcessPlaced'
  BY PoolAssumption DEF IInv, TypeOK, PoolsAllocated, ProcessPlaced, HeldPlaced, Holding, ApplyDelete, Unmap, NoDef
<1>5. HeldPlaced'
  BY PoolAssumption DEF IInv, TypeOK, PoolsAllocated, ProcessPlaced, HeldPlaced, Holding, Exclusive, ApplyDelete, Unmap, NoDef
<1>6. Capacity'
  BY PoolAssumption DEF IInv, TypeOK, Capacity, ApplyDelete, Unmap, NoDef
<1>7. Exclusive'
  BY PoolAssumption DEF IInv, TypeOK, ProcessPlaced, HeldPlaced, Exclusive, Holding, ApplyDelete, Unmap, NoDef
<1>8. MappedPoolIsFresh'
  BY PoolAssumption DEF IInv, TypeOK, PoolsAllocated, MappedPoolIsFresh, ApplyDelete, Unmap, NoDef
<1>9. Accounted'
  BY PoolAssumption DEF IInv, TypeOK, PoolsAllocated, ProcessPlaced, AcquiringPlaced, Accounted, AwaitsTeardown, ApplyDelete, Unmap, NoDef
<1>10. AcquiringPlaced'
  BY PoolAssumption DEF IInv, TypeOK, PoolsAllocated, AcquiringPlaced, Acquiring, ApplyDelete, Unmap, NoDef
<1>. QED BY <1>1, <1>2, <1>3, <1>4, <1>5, <1>6, <1>7, <1>8, <1>9, <1>10 DEF IInv

\* Close unmaps the pool and keeps the definition.
LEMMA CloseStep ==
    ASSUME IInv, NEW u \in Updaters, Close(u)
    PROVE  IInv'
<1>1. TypeOK'
  BY PoolAssumption DEF IInv, TypeOK, Pcs, Defs, Close, Unmap
<1>2. PoolsAllocated'
  BY PoolAssumption DEF IInv, TypeOK, PoolsAllocated, Close, Unmap
<1>3. SpawnsCounted'
  <2>1. ASSUME NEW p \in Requests PROVE Spawners(p)' = Spawners(p)
    BY DEF IInv, TypeOK, PoolsAllocated, Spawners, Close, Unmap
  <2>2. ASSUME NEW p \in Requests PROVE instances'[p] \subseteq instances[p]
    BY DEF IInv, TypeOK, PoolsAllocated, Close, Unmap
  <2>3. spawning' = spawning
    BY DEF Close, Unmap
  <2>. QED BY <2>1, <2>2, <2>3, SpawnsKept DEF IInv
<1>4. ProcessPlaced'
  BY PoolAssumption DEF IInv, TypeOK, PoolsAllocated, ProcessPlaced, HeldPlaced, Holding, Close, Unmap
<1>5. HeldPlaced'
  BY PoolAssumption DEF IInv, TypeOK, PoolsAllocated, ProcessPlaced, HeldPlaced, Holding, Exclusive, Close, Unmap
<1>6. Capacity'
  BY PoolAssumption DEF IInv, TypeOK, Capacity, Close, Unmap
<1>7. Exclusive'
  BY PoolAssumption DEF IInv, TypeOK, ProcessPlaced, HeldPlaced, Exclusive, Holding, Close, Unmap
<1>8. MappedPoolIsFresh'
  BY PoolAssumption DEF IInv, TypeOK, PoolsAllocated, MappedPoolIsFresh, Close, Unmap
<1>9. Accounted'
  BY PoolAssumption DEF IInv, TypeOK, PoolsAllocated, ProcessPlaced, AcquiringPlaced, Accounted, AwaitsTeardown, Close, Unmap
<1>10. AcquiringPlaced'
  BY PoolAssumption DEF IInv, TypeOK, PoolsAllocated, AcquiringPlaced, Acquiring, Close, Unmap
<1>. QED BY <1>1, <1>2, <1>3, <1>4, <1>5, <1>6, <1>7, <1>8, <1>9, <1>10 DEF IInv

\* closeAll empties a pool that is not mapped.
LEMMA DetachStep ==
    ASSUME IInv, NEW u \in Updaters, Detach(u)
    PROVE  IInv'
<1>1. TypeOK'
  BY PoolAssumption DEF IInv, TypeOK, Pcs, Defs, PoolsAllocated, Acquiring, Detach
<1>2. PoolsAllocated'
  BY PoolAssumption DEF IInv, TypeOK, PoolsAllocated, Detach
<1>3. SpawnsCounted'
  <2>1. ASSUME NEW p \in Requests PROVE Spawners(p)' = Spawners(p)
    BY DEF IInv, TypeOK, PoolsAllocated, Spawners, Detach
  <2>2. ASSUME NEW p \in Requests PROVE instances'[p] \subseteq instances[p]
    BY DEF IInv, TypeOK, PoolsAllocated, Detach
  <2>3. spawning' = spawning
    BY DEF Detach
  <2>. QED BY <2>1, <2>2, <2>3, SpawnsKept DEF IInv
<1>4. ProcessPlaced'
  BY PoolAssumption DEF IInv, TypeOK, PoolsAllocated, ProcessPlaced, HeldPlaced, Holding, Detach
<1>5. HeldPlaced'
  BY PoolAssumption DEF IInv, TypeOK, PoolsAllocated, ProcessPlaced, HeldPlaced, Holding, Exclusive, Detach
<1>6. Capacity'
  <2>1. spawning' = spawning /\ maxSize' = maxSize
    BY DEF Detach
  <2>2. ASSUME NEW p \in Requests PROVE instances'[p] \subseteq instances[p]
    BY DEF IInv, TypeOK, PoolsAllocated, Detach
  <2>3. ASSUME NEW p \in Requests
        PROVE  /\ Cardinality(instances[p]) \in Nat /\ Cardinality(instances'[p]) \in Nat
               /\ Cardinality(instances'[p]) <= Cardinality(instances[p])
    BY <2>2, FS_Subset, FS_CardinalityType DEF IInv, SpawnsCounted
  <2>. QED BY <2>1, <2>3 DEF IInv, TypeOK, Capacity
<1>7. Exclusive'
  BY PoolAssumption DEF IInv, TypeOK, ProcessPlaced, HeldPlaced, Exclusive, Holding, Detach
<1>8. MappedPoolIsFresh'
  BY PoolAssumption DEF IInv, TypeOK, PoolsAllocated, MappedPoolIsFresh, Detach
<1>9. Accounted'
  <2> SUFFICES ASSUME NEW i \in Requests, ist[i] \in Open
               PROVE  \/ cur # None /\ i \in instances'[cur]
                      \/ AwaitsTeardown(i)'
                      \/ i \in victims
                      \/ \E v \in Updaters : i \in closing'[v]
                      \/ i \in late' /\ i \in instances'[rpool[i]]
    BY DEF Accounted, Detach
  <2>1. /\ upool[u] \in Requests /\ upool[u] # cur /\ upc[u] = "detach"
        /\ closing' = [closing EXCEPT ![u] = instances[upool[u]]]
        /\ instances' = [instances EXCEPT ![upool[u]] = {}]
        /\ late \subseteq late' /\ rpool' = rpool /\ upool' = upool
        /\ upc' = [upc EXCEPT ![u] = "close"] /\ closing[u] = {}
    BY DEF IInv, PoolsAllocated, Detach
  <2>2. rpool[i] \in Requests \/ rpool[i] = None
    BY DEF IInv, TypeOK
  <2>3. CASE i \in instances[upool[u]]
    BY <2>1, <2>3 DEF IInv, TypeOK
  <2>4. CASE i \notin instances[upool[u]]
    <3>1. CASE cur # None /\ i \in instances[cur]
      BY <2>1, <3>1 DEF IInv, TypeOK
    <3>2. CASE i \in victims
      BY <3>2
    <3>3. CASE \E v \in Updaters : i \in closing[v]
      BY <2>1, <3>3 DEF IInv, TypeOK
    <3>4. CASE i \in instances[rpool[i]] /\ (i \in late \/ AwaitsTeardown(i))
      <4>1. rpool[i] # upool[u] /\ rpool[i] \in Requests
        BY <2>1, <2>4, <3>4 DEF IInv, PoolsAllocated, AcquiringPlaced, AwaitsTeardown
      <4>2. i \in instances'[rpool[i]]
        BY <2>1, <3>4, <4>1 DEF IInv, TypeOK
      <4>3. CASE i \in late
        BY <2>1, <4>2, <4>3
      <4>4. CASE AwaitsTeardown(i)
        <5>1. PICK v \in Updaters : upc[v] = "detach" /\ upool[v] = rpool[i]
          BY <4>4 DEF AwaitsTeardown
        <5>2. v # u /\ upc'[v] = "detach" /\ upool'[v] = rpool'[i]
          BY <2>1, <4>1, <5>1 DEF IInv, TypeOK
        <5>. QED BY <2>1, <4>2, <5>2 DEF AwaitsTeardown
      <4>. QED BY <3>4, <4>3, <4>4
    <3>. QED BY <3>1, <3>2, <3>3, <3>4 DEF IInv, Accounted, AwaitsTeardown
  <2>. QED BY <2>3, <2>4
<1>10. AcquiringPlaced'
  BY PoolAssumption DEF IInv, TypeOK, PoolsAllocated, AcquiringPlaced, Acquiring, Detach
<1>. QED BY <1>1, <1>2, <1>3, <1>4, <1>5, <1>6, <1>7, <1>8, <1>9, <1>10 DEF IInv

\* Closing a detached instance.
LEMMA CloseInstanceStep ==
    ASSUME IInv, NEW u \in Updaters, NEW i \in Requests, CloseInstance(u, i)
    PROVE  IInv'
<1>1. TypeOK'
  BY PoolAssumption DEF IInv, TypeOK, Pcs, Defs, CloseInstance
<1>2. PoolsAllocated'
  BY PoolAssumption DEF IInv, TypeOK, PoolsAllocated, CloseInstance
<1>3. SpawnsCounted'
  <2>1. ASSUME NEW p \in Requests PROVE Spawners(p)' = Spawners(p)
    BY DEF IInv, TypeOK, PoolsAllocated, Spawners, CloseInstance
  <2>2. ASSUME NEW p \in Requests PROVE instances'[p] \subseteq instances[p]
    BY DEF IInv, TypeOK, PoolsAllocated, CloseInstance
  <2>3. spawning' = spawning
    BY DEF CloseInstance
  <2>. QED BY <2>1, <2>2, <2>3, SpawnsKept DEF IInv
<1>4. ProcessPlaced'
  <2>1. /\ UNCHANGED <<pc, rpool, instances, victims, busy>>
        /\ ist' = [ist EXCEPT ![i] = "closed"]
        /\ i \in closing[u] /\ closing' = [closing EXCEPT ![u] = @ \ {i}]
    BY DEF CloseInstance
  <2>2. \A v \in Updaters : closing'[v] \subseteq closing[v] /\ i \notin closing'[v]
    BY <2>1 DEF IInv, TypeOK, ProcessPlaced
  <2>3. \A j \in Requests : j # i => ist'[j] = ist[j]
    BY <2>1 DEF IInv, TypeOK
  <2>4. i \notin victims /\ \A p \in Requests : i \notin instances[p]
    BY <2>1 DEF IInv, ProcessPlaced
  <2>5. pc[i] \notin {"start", "scan", "wait", "spawn"}
    BY <2>1 DEF IInv, ProcessPlaced
  <2>6. \A v \in Updaters : closing[v] \subseteq Requests
    BY DEF IInv, TypeOK
  <2>. QED BY <2>1, <2>2, <2>3, <2>4, <2>5, <2>6 DEF IInv, TypeOK, ProcessPlaced
<1>5. HeldPlaced'
  BY PoolAssumption DEF IInv, TypeOK, PoolsAllocated, ProcessPlaced, HeldPlaced, Holding, Exclusive, CloseInstance
<1>6. Capacity'
  BY PoolAssumption DEF IInv, TypeOK, Capacity, CloseInstance
<1>7. Exclusive'
  BY PoolAssumption DEF IInv, TypeOK, ProcessPlaced, HeldPlaced, Exclusive, Holding, CloseInstance
<1>8. MappedPoolIsFresh'
  BY PoolAssumption DEF IInv, TypeOK, PoolsAllocated, MappedPoolIsFresh, CloseInstance
<1>9. Accounted'
  BY PoolAssumption DEF IInv, TypeOK, PoolsAllocated, ProcessPlaced, AcquiringPlaced, Accounted, AwaitsTeardown, CloseInstance
<1>10. AcquiringPlaced'
  BY PoolAssumption DEF IInv, TypeOK, PoolsAllocated, AcquiringPlaced, Acquiring, CloseInstance
<1>. QED BY <1>1, <1>2, <1>3, <1>4, <1>5, <1>6, <1>7, <1>8, <1>9, <1>10 DEF IInv

\* Every initial state of the gateway satisfies the invariant.
LEMMA InitIInv == Init => IInv
<1> SUFFICES ASSUME Init PROVE IInv
  OBVIOUS
<1>1. TypeOK
  <2>1. \A m \in Sizes : Definition(None, m) \in Defs
    BY PoolAssumption DEF Defs, Definition, Normalise
  <2>2. def \in Defs
    BY <2>1 DEF Init, Defs, NoDef
  <2>3. NoDef \in Defs
    BY DEF Defs, NoDef
  <2>. QED BY <2>2, <2>3 DEF Init, TypeOK, Pcs
<1>2. PoolsAllocated
  BY PoolAssumption DEF Init, PoolsAllocated
<1>3. SpawnsCounted
  <2>1. \A p \in Requests : Spawners(p) = {}
    BY DEF Init, Spawners
  <2>. QED BY <2>1, FS_EmptySet DEF Init, SpawnsCounted
<1>4. ProcessPlaced /\ HeldPlaced /\ Exclusive /\ MappedPoolIsFresh
      /\ AcquiringPlaced /\ Accounted
  BY DEF Init, ProcessPlaced, HeldPlaced, Exclusive, Holding, MappedPoolIsFresh,
         AcquiringPlaced, Accounted
<1>5. Capacity
  BY FS_EmptySet DEF Init, Capacity
<1>. QED BY <1>1, <1>2, <1>3, <1>4, <1>5 DEF IInv

\* A step that changes nothing keeps the invariant.
LEMMA StutterStep == IInv /\ UNCHANGED vars => IInv'
<1> SUFFICES ASSUME IInv, UNCHANGED vars PROVE IInv'
  OBVIOUS
<1>. USE DEF vars
<1>1. TypeOK' /\ PoolsAllocated' /\ ProcessPlaced' /\ HeldPlaced'
  BY DEF IInv, TypeOK, Pcs, Defs, PoolsAllocated, ProcessPlaced, HeldPlaced, Holding
<1>2. SpawnsCounted'
  <2>1. \A p \in Requests : Spawners(p)' = Spawners(p)
    BY DEF Spawners
  <2>. QED BY <2>1, SpawnsKept DEF IInv
<1>3. Capacity' /\ Exclusive' /\ MappedPoolIsFresh' /\ AcquiringPlaced' /\ Accounted'
  BY DEF IInv, Capacity, Exclusive, Holding, MappedPoolIsFresh, AcquiringPlaced, Accounted,
         AwaitsTeardown
<1>. QED BY <1>1, <1>2, <1>3 DEF IInv

\* Every step of requests, reaper and updaters keeps the invariant.
LEMMA NextIInv == IInv /\ [Next]_vars => IInv'
<1> SUFFICES ASSUME IInv, [Next]_vars PROVE IInv'
  OBVIOUS
<1>1. ASSUME NEW r \in Requests, RequestStep(r) PROVE IInv'
  BY <1>1, AcquireMissingStep, AcquirePoolStep, GrabStep, ReserveStep, BlockStep,
     SpawnFailedStep, SpawnedStep, BodyRejectedStep, InvokeFailedStep, InvokeOkStep,
     UnlockStep, SignalStep DEF RequestStep
<1>2. ASSUME NEW u \in Updaters, UpdaterStep(u) PROVE IInv'
  BY <1>2, ApplyPutStep, ApplyDeleteStep, CloseStep, DetachStep, CloseInstanceStep
     DEF UpdaterStep
<1>3. ASSUME NEW i \in Requests, Age(i) \/ Die(i) PROVE IInv'
  BY <1>3, AgeStep, DieStep
<1>4. ASSUME ReaperStep PROVE IInv'
  BY <1>4, ReapStep, CloseVictimStep DEF ReaperStep
<1>5. ASSUME UNCHANGED vars PROVE IInv'
  BY <1>5, StutterStep
<1>. QED BY <1>1, <1>2, <1>3, <1>4, <1>5 DEF Next, Quiescent

\* The pool's bookkeeping is always as IInv describes it.
THEOREM InductiveInvariant == Spec => []IInv
  BY InitIInv, NextIInv, PTL DEF Spec

\* Type correctness of the pool's state.
THEOREM TypeCorrect == Spec => []TypeOK
<1>1. IInv => TypeOK
  BY DEF IInv
<1>. QED BY <1>1, InductiveInvariant, PTL

\* max_concurrency: acquire never lets warm instances and spawns under way
\* exceed the size of their pool.
THEOREM CapacityHolds == Spec => []Capacity
<1>1. IInv => Capacity
  BY DEF IInv
<1>. QED BY <1>1, InductiveInvariant, PTL

\* Mutual exclusion: one request per instance, none on a reaper's victim.
THEOREM ExclusiveHolds == Spec => []Exclusive
<1>1. IInv => Exclusive
  BY DEF IInv
<1>. QED BY <1>1, InductiveInvariant, PTL

\* acquire never hands out an instance that the reaper or closeAll closed.
THEOREM ListedAreOpenHolds == Spec => []ListedAreOpen
<1>1. IInv => ListedAreOpen
  BY DEF IInv, ProcessPlaced, ListedAreOpen
<1>. QED BY <1>1, InductiveInvariant, PTL

\* The reaper never closes the process of a request whose pool is mapped.
THEOREM NotReapedInUseHolds == Spec => []NotReapedInUse
<1>1. IInv => NotReapedInUse
  BY PoolAssumption DEF IInv, TypeOK, PoolsAllocated, HeldPlaced, ProcessPlaced, Holding, NotReapedInUse
<1>. QED BY <1>1, InductiveInvariant, PTL

\* Users of the mapped pool run the cached definition.
THEOREM MappedPoolIsFreshHolds == Spec => []MappedPoolIsFresh
<1>1. IInv => MappedPoolIsFresh
  BY DEF IInv
<1>. QED BY <1>1, InductiveInvariant, PTL

\* Every instance that is not closed is in reach of the reaper or a teardown,
\* unless its request was in acquire while closeAll emptied the pool.
THEOREM AccountedHolds == Spec => []Accounted
<1>1. IInv => Accounted
  BY DEF IInv
<1>. QED BY <1>1, InductiveInvariant, PTL

-----------------------------------------------------------------------------
(***************************************************************************)
(* The wake-ups.                                                           *)
(***************************************************************************)
\* A request that will Broadcast on p when it gets there: it is spawning for p,
\* or on its way through an invocation to release.
Waker(s, p) == rpool[s] = p /\ pc[s] \in {"spawn", "invoke", "unlock", "signal"}

\* acquire's Wait is never for nothing: as long as a request waits on a pool,
\* torn down or not, another one will still Broadcast there.  (What `Answered`
\* needs besides fairness; closeAll itself wakes nobody.)
NoLostWakeup == \A r \in Requests : pc[r] = "wait" => \E s \in Requests : Waker(s, rpool[r])

\* A pool that a request can be on has room for an instance.
SizesPositive ==
    /\ def # NoDef => def.max > 0
    /\ cur # None => maxSize[cur] > 0
    /\ \A r \in Requests : rpool[r] # None => maxSize[rpool[r]] > 0

\* Whatever is listed and locked, a request holds.
LockedIsHeld ==
    \A p \in Requests : \A i \in instances[p] \cap busy :
        \E s \in Requests : Holding(s) /\ held[s] = i

\* What the wake-ups rest on.
WakeInv == SizesPositive /\ LockedIsHeld /\ NoLostWakeup

\* acquire on a name that is not registered: nobody is waiting in it.
LEMMA AcquireMissingWakes ==
    ASSUME IInv, WakeInv, NEW r \in Requests, AcquireMissing(r)
    PROVE  WakeInv'
<1>1. SizesPositive'
  BY PoolAssumption DEF IInv, TypeOK, Defs, PoolsAllocated, WakeInv, SizesPositive, AcquireMissing
<1>2. LockedIsHeld'
  BY PoolAssumption DEF IInv, TypeOK, PoolsAllocated, ProcessPlaced, Exclusive, WakeInv, LockedIsHeld, Holding, AcquireMissing
<1>3. NoLostWakeup'
  <2>. SUFFICES ASSUME NEW q \in Requests, pc'[q] = "wait"
                PROVE  \E t \in Requests : Waker(t, rpool[q])'
    BY DEF NoLostWakeup
  <2>1. pc[q] = "wait" /\ rpool'[q] = rpool[q]
    BY DEF IInv, TypeOK, AcquireMissing
  <2>2. PICK t \in Requests : Waker(t, rpool[q])
    BY <2>1 DEF WakeInv, NoLostWakeup
  <2>3. Waker(t, rpool[q])'
    BY <2>1, <2>2 DEF Waker, IInv, TypeOK, AcquireMissing
  <2>. QED BY <2>3
<1>. QED BY <1>1, <1>2, <1>3 DEF WakeInv

\* The pool a request enters has the size of the cached definition.
LEMMA AcquirePoolWakes ==
    ASSUME IInv, WakeInv, NEW r \in Requests, AcquirePool(r)
    PROVE  WakeInv'
<1>1. SizesPositive'
  BY PoolAssumption DEF IInv, TypeOK, Defs, PoolsAllocated, WakeInv, SizesPositive, AcquirePool
<1>2. LockedIsHeld'
  BY PoolAssumption DEF IInv, TypeOK, PoolsAllocated, ProcessPlaced, Exclusive, WakeInv, LockedIsHeld, Holding, AcquirePool
<1>3. NoLostWakeup'
  <2>. SUFFICES ASSUME NEW q \in Requests, pc'[q] = "wait"
                PROVE  \E t \in Requests : Waker(t, rpool[q])'
    BY DEF NoLostWakeup
  <2>1. pc[q] = "wait" /\ rpool'[q] = rpool[q]
    BY DEF IInv, TypeOK, AcquirePool
  <2>2. PICK t \in Requests : Waker(t, rpool[q])
    BY <2>1 DEF WakeInv, NoLostWakeup
  <2>3. Waker(t, rpool[q])'
    BY <2>1, <2>2 DEF Waker, IInv, TypeOK, AcquirePool
  <2>. QED BY <2>3
<1>. QED BY <1>1, <1>2, <1>3 DEF WakeInv

\* The instance is locked by the request that takes it.
LEMMA GrabWakes ==
    ASSUME IInv, WakeInv, NEW r \in Requests, Grab(r)
    PROVE  WakeInv'
<1>1. SizesPositive'
  BY PoolAssumption DEF IInv, TypeOK, Defs, PoolsAllocated, WakeInv, SizesPositive, Grab, Free
<1>2. LockedIsHeld'
  BY PoolAssumption DEF IInv, TypeOK, PoolsAllocated, ProcessPlaced, Exclusive, WakeInv, LockedIsHeld, Holding, Grab, Free
<1>3. NoLostWakeup'
  <2>. SUFFICES ASSUME NEW q \in Requests, pc'[q] = "wait"
                PROVE  \E t \in Requests : Waker(t, rpool[q])'
    BY DEF NoLostWakeup
  <2>1. pc[q] = "wait" /\ rpool'[q] = rpool[q]
    BY DEF IInv, TypeOK, Grab, Free
  <2>2. PICK t \in Requests : Waker(t, rpool[q])
    BY <2>1 DEF WakeInv, NoLostWakeup
  <2>3. Waker(t, rpool[q])'
    BY <2>1, <2>2 DEF Waker, IInv, TypeOK, Grab, Free
  <2>. QED BY <2>3
<1>. QED BY <1>1, <1>2, <1>3 DEF WakeInv

\* Who reserves a slot will Broadcast.
LEMMA ReserveWakes ==
    ASSUME IInv, WakeInv, NEW r \in Requests, Reserve(r)
    PROVE  WakeInv'
<1>1. SizesPositive'
  BY PoolAssumption DEF IInv, TypeOK, Defs, PoolsAllocated, WakeInv, SizesPositive, Reserve
<1>2. LockedIsHeld'
  BY PoolAssumption DEF IInv, TypeOK, PoolsAllocated, ProcessPlaced, Exclusive, WakeInv, LockedIsHeld, Holding, Reserve
<1>3. NoLostWakeup'
  <2>. SUFFICES ASSUME NEW q \in Requests, pc'[q] = "wait"
                PROVE  \E t \in Requests : Waker(t, rpool[q])'
    BY DEF NoLostWakeup
  <2>1. pc[q] = "wait" /\ rpool'[q] = rpool[q]
    BY DEF IInv, TypeOK, Reserve
  <2>2. PICK t \in Requests : Waker(t, rpool[q])
    BY <2>1 DEF WakeInv, NoLostWakeup
  <2>3. Waker(t, rpool[q])'
    BY <2>1, <2>2 DEF Waker, IInv, TypeOK, Reserve
  <2>. QED BY <2>3
<1>. QED BY <1>1, <1>2, <1>3 DEF WakeInv

\* All instances are locked, so held; or a spawn is under way: either will Broadcast.
LEMMA BlockWakes ==
    ASSUME IInv, WakeInv, NEW r \in Requests, Block(r)
    PROVE  WakeInv'
<1>1. SizesPositive'
  BY PoolAssumption DEF IInv, TypeOK, Defs, PoolsAllocated, WakeInv, SizesPositive, Block
<1>2. LockedIsHeld'
  BY PoolAssumption DEF IInv, TypeOK, PoolsAllocated, ProcessPlaced, Exclusive, WakeInv, LockedIsHeld, Holding, Block
<1>3. NoLostWakeup'
  <2>. DEFINE p == rpool[r]
  <2>0. p \in Requests /\ pc[r] = "scan" /\ instances[p] \subseteq busy
    BY DEF IInv, PoolsAllocated, Block, Free
  <2>1. PICK s \in Requests : Waker(s, p)
    <3>1. CASE instances[p] # {}
      <4>1. PICK i \in instances[p] : TRUE
        BY <3>1
      <4>2. PICK s \in Requests : Holding(s) /\ held[s] = i
        BY <2>0, <4>1 DEF WakeInv, LockedIsHeld
      <4>3. rpool[s] = p
        BY <2>0, <4>1, <4>2 DEF IInv, HeldPlaced, ProcessPlaced
      <4>. QED BY <4>2, <4>3 DEF Waker, Holding
    <3>2. CASE instances[p] = {}
      <4>1. Cardinality(instances[p]) = 0
        BY <3>2, FS_EmptySet
      <4>2. maxSize[p] > 0 /\ maxSize[p] \in Nat /\ spawning[p] \in Nat
        BY <2>0, PoolAssumption DEF WakeInv, SizesPositive, IInv, TypeOK
      <4>3. spawning[p] # 0
        BY <4>1, <4>2 DEF Block, HasRoom
      <4>4. Spawners(p) # {}
        BY <2>0, <4>3, FS_EmptySet DEF IInv, SpawnsCounted
      <4>. QED BY <4>4 DEF Spawners, Waker
    <3>. QED BY <3>1, <3>2
  <2>2. ASSUME NEW q \in Requests, pc'[q] = "wait" PROVE \E t \in Requests : Waker(t, rpool[q])'
    <3>1. CASE q = r
      BY <2>0, <2>1, <3>1 DEF Waker, Block, IInv, TypeOK
    <3>2. CASE q # r
      <4>1. PICK t \in Requests : Waker(t, rpool[q])
        BY <2>2, <3>2 DEF WakeInv, NoLostWakeup, Block, IInv, TypeOK
      <4>. QED BY <2>0, <4>1 DEF Waker, Block, IInv, TypeOK
    <3>. QED BY <3>1, <3>2
  <2>. QED BY <2>2 DEF NoLostWakeup
<1>. QED BY <1>1, <1>2, <1>3 DEF WakeInv

\* A failed spawn wakes all that wait.
LEMMA SpawnFailedWakes ==
    ASSUME IInv, WakeInv, NEW r \in Requests, SpawnFailed(r)
    PROVE  WakeInv'
<1>1. SizesPositive'
  BY PoolAssumption DEF IInv, TypeOK, Defs, PoolsAllocated, WakeInv, SizesPositive, SpawnFailed, WakeAll
<1>2. LockedIsHeld'
  BY PoolAssumption DEF IInv, TypeOK, PoolsAllocated, ProcessPlaced, Exclusive, WakeInv, LockedIsHeld, Holding, SpawnFailed, WakeAll
<1>3. NoLostWakeup'
  <2>. SUFFICES ASSUME NEW q \in Requests, pc'[q] = "wait"
                PROVE  \E t \in Requests : Waker(t, rpool[q])'
    BY DEF NoLostWakeup
  <2>1. pc[q] = "wait" /\ rpool'[q] = rpool[q]
    BY DEF IInv, TypeOK, SpawnFailed, WakeAll
  <2>2. PICK t \in Requests : Waker(t, rpool[q])
    BY <2>1 DEF WakeInv, NoLostWakeup
  <2>3. Waker(t, rpool[q])'
    BY <2>1, <2>2 DEF Waker, IInv, TypeOK, SpawnFailed, WakeAll
  <2>. QED BY <2>3
<1>. QED BY <1>1, <1>2, <1>3 DEF WakeInv

\* The new instance is held by its spawner.
LEMMA SpawnedWakes ==
    ASSUME IInv, WakeInv, NEW r \in Requests, Spawned(r)
    PROVE  WakeInv'
<1>1. SizesPositive'
  BY PoolAssumption DEF IInv, TypeOK, Defs, PoolsAllocated, WakeInv, SizesPositive, Spawned, Enter
<1>2. LockedIsHeld'
  BY PoolAssumption DEF IInv, TypeOK, PoolsAllocated, ProcessPlaced, Exclusive, WakeInv, LockedIsHeld, Holding, Spawned, Enter
<1>3. NoLostWakeup'
  <2>. SUFFICES ASSUME NEW q \in Requests, pc'[q] = "wait"
                PROVE  \E t \in Requests : Waker(t, rpool[q])'
    BY DEF NoLostWakeup
  <2>1. pc[q] = "wait" /\ rpool'[q] = rpool[q]
    BY DEF IInv, TypeOK, Spawned, Enter
  <2>2. PICK t \in Requests : Waker(t, rpool[q])
    BY <2>1 DEF WakeInv, NoLostWakeup
  <2>3. Waker(t, rpool[q])'
    BY <2>1, <2>2 DEF Waker, IInv, TypeOK, Spawned, Enter
  <2>. QED BY <2>3
<1>. QED BY <1>1, <1>2, <1>3 DEF WakeInv

\* Without an Invoke the request still comes to release.
LEMMA BodyRejectedWakes ==
    ASSUME IInv, WakeInv, NEW r \in Requests, BodyRejected(r)
    PROVE  WakeInv'
<1>1. SizesPositive'
  BY PoolAssumption DEF IInv, TypeOK, Defs, PoolsAllocated, WakeInv, SizesPositive, BodyRejected
<1>2. LockedIsHeld'
  BY PoolAssumption DEF IInv, TypeOK, PoolsAllocated, ProcessPlaced, Exclusive, WakeInv, LockedIsHeld, Holding, BodyRejected
<1>3. NoLostWakeup'
  <2>. SUFFICES ASSUME NEW q \in Requests, pc'[q] = "wait"
                PROVE  \E t \in Requests : Waker(t, rpool[q])'
    BY DEF NoLostWakeup
  <2>1. pc[q] = "wait" /\ rpool'[q] = rpool[q]
    BY DEF IInv, TypeOK, BodyRejected
  <2>2. PICK t \in Requests : Waker(t, rpool[q])
    BY <2>1 DEF WakeInv, NoLostWakeup
  <2>3. Waker(t, rpool[q])'
    BY <2>1, <2>2 DEF Waker, IInv, TypeOK, BodyRejected
  <2>. QED BY <2>3
<1>. QED BY <1>1, <1>2, <1>3 DEF WakeInv

\* After a failed Invoke the request still comes to release.
LEMMA InvokeFailedWakes ==
    ASSUME IInv, WakeInv, NEW r \in Requests, InvokeFailed(r)
    PROVE  WakeInv'
<1>1. SizesPositive'
  BY PoolAssumption DEF IInv, TypeOK, Defs, PoolsAllocated, WakeInv, SizesPositive, InvokeFailed
<1>2. LockedIsHeld'
  BY PoolAssumption DEF IInv, TypeOK, PoolsAllocated, ProcessPlaced, Exclusive, WakeInv, LockedIsHeld, Holding, InvokeFailed
<1>3. NoLostWakeup'
  <2>. SUFFICES ASSUME NEW q \in Requests, pc'[q] = "wait"
                PROVE  \E t \in Requests : Waker(t, rpool[q])'
    BY DEF NoLostWakeup
  <2>1. pc[q] = "wait" /\ rpool'[q] = rpool[q]
    BY DEF IInv, TypeOK, InvokeFailed
  <2>2. PICK t \in Requests : Waker(t, rpool[q])
    BY <2>1 DEF WakeInv, NoLostWakeup
  <2>3. Waker(t, rpool[q])'
    BY <2>1, <2>2 DEF Waker, IInv, TypeOK, InvokeFailed
  <2>. QED BY <2>3
<1>. QED BY <1>1, <1>2, <1>3 DEF WakeInv

\* After a reply the request comes to release.
LEMMA InvokeOkWakes ==
    ASSUME IInv, WakeInv, NEW r \in Requests, InvokeOk(r)
    PROVE  WakeInv'
<1>1. SizesPositive'
  BY PoolAssumption DEF IInv, TypeOK, Defs, PoolsAllocated, WakeInv, SizesPositive, InvokeOk
<1>2. LockedIsHeld'
  BY PoolAssumption DEF IInv, TypeOK, PoolsAllocated, ProcessPlaced, Exclusive, WakeInv, LockedIsHeld, Holding, InvokeOk
<1>3. NoLostWakeup'
  <2>. SUFFICES ASSUME NEW q \in Requests, pc'[q] = "wait"
                PROVE  \E t \in Requests : Waker(t, rpool[q])'
    BY DEF NoLostWakeup
  <2>1. pc[q] = "wait" /\ rpool'[q] = rpool[q]
    BY DEF IInv, TypeOK, InvokeOk
  <2>2. PICK t \in Requests : Waker(t, rpool[q])
    BY <2>1 DEF WakeInv, NoLostWakeup
  <2>3. Waker(t, rpool[q])'
    BY <2>1, <2>2 DEF Waker, IInv, TypeOK, InvokeOk
  <2>. QED BY <2>3
<1>. QED BY <1>1, <1>2, <1>3 DEF WakeInv

\* Between Unlock and Signal the request is still going to Broadcast.
LEMMA UnlockWakes ==
    ASSUME IInv, WakeInv, NEW r \in Requests, Unlock(r)
    PROVE  WakeInv'
<1>1. SizesPositive'
  BY PoolAssumption DEF IInv, TypeOK, Defs, PoolsAllocated, WakeInv, SizesPositive, Unlock
<1>2. LockedIsHeld'
  BY PoolAssumption DEF IInv, TypeOK, PoolsAllocated, ProcessPlaced, Exclusive, WakeInv, LockedIsHeld, Holding, Unlock
<1>3. NoLostWakeup'
  <2>. SUFFICES ASSUME NEW q \in Requests, pc'[q] = "wait"
                PROVE  \E t \in Requests : Waker(t, rpool[q])'
    BY DEF NoLostWakeup
  <2>1. pc[q] = "wait" /\ rpool'[q] = rpool[q]
    BY DEF IInv, TypeOK, Unlock
  <2>2. PICK t \in Requests : Waker(t, rpool[q])
    BY <2>1 DEF WakeInv, NoLostWakeup
  <2>3. Waker(t, rpool[q])'
    BY <2>1, <2>2 DEF Waker, IInv, TypeOK, Unlock
  <2>. QED BY <2>3
<1>. QED BY <1>1, <1>2, <1>3 DEF WakeInv

\* Signal wakes all that wait.
LEMMA SignalWakes ==
    ASSUME IInv, WakeInv, NEW r \in Requests, Signal(r)
    PROVE  WakeInv'
<1>1. SizesPositive'
  BY PoolAssumption DEF IInv, TypeOK, Defs, PoolsAllocated, WakeInv, SizesPositive, Signal, WakeAll
<1>2. LockedIsHeld'
  BY PoolAssumption DEF IInv, TypeOK, PoolsAllocated, ProcessPlaced, Exclusive, WakeInv, LockedIsHeld, Holding, Signal, WakeAll
<1>3. NoLostWakeup'
  <2>. SUFFICES ASSUME NEW q \in Requests, pc'[q] = "wait"
                PROVE  \E t \in Requests : Waker(t, rpool[q])'
    BY DEF NoLostWakeup
  <2>1. pc[q] = "wait" /\ rpool'[q] = rpool[q]
    BY DEF IInv, TypeOK, Signal, WakeAll
  <2>2. PICK t \in Requests : Waker(t, rpool[q])
    BY <2>1 DEF WakeInv, NoLostWakeup
  <2>3. Waker(t, rpool[q])'
    BY <2>1, <2>2 DEF Waker, IInv, TypeOK, Signal, WakeAll
  <2>. QED BY <2>3
<1>. QED BY <1>1, <1>2, <1>3 DEF WakeInv

\* A replacement moves no request.
LEMMA ApplyPutWakes ==
    ASSUME IInv, WakeInv, NEW u \in Updaters, NEW m \in Sizes, ApplyPut(u, m)
    PROVE  WakeInv'
<1>1. SizesPositive'
  BY PoolAssumption DEF IInv, TypeOK, Defs, PoolsAllocated, WakeInv, SizesPositive, ApplyPut, Unmap, Definition, NoDef, Normalise
<1>2. LockedIsHeld'
  BY PoolAssumption DEF IInv, TypeOK, PoolsAllocated, ProcessPlaced, Exclusive, WakeInv, LockedIsHeld, Holding, ApplyPut, Unmap, Definition, NoDef, Normalise
<1>3. NoLostWakeup'
  <2>. SUFFICES ASSUME NEW q \in Requests, pc'[q] = "wait"
                PROVE  \E t \in Requests : Waker(t, rpool[q])'
    BY DEF NoLostWakeup
  <2>1. pc[q] = "wait" /\ rpool'[q] = rpool[q]
    BY DEF IInv, TypeOK, ApplyPut, Unmap, Definition, NoDef, Normalise
  <2>2. PICK t \in Requests : Waker(t, rpool[q])
    BY <2>1 DEF WakeInv, NoLostWakeup
  <2>3. Waker(t, rpool[q])'
    BY <2>1, <2>2 DEF Waker, IInv, TypeOK, ApplyPut, Unmap, Definition, NoDef, Normalise
  <2>. QED BY <2>3
<1>. QED BY <1>1, <1>2, <1>3 DEF WakeInv

\* A deletion moves no request.
LEMMA ApplyDeleteWakes ==
    ASSUME IInv, WakeInv, NEW u \in Updaters, ApplyDelete(u)
    PROVE  WakeInv'
<1>1. SizesPositive'
  BY PoolAssumption DEF IInv, TypeOK, Defs, PoolsAllocated, WakeInv, SizesPositive, ApplyDelete, Unmap, NoDef
<1>2. LockedIsHeld'
  BY PoolAssumption DEF IInv, TypeOK, PoolsAllocated, ProcessPlaced, Exclusive, WakeInv, LockedIsHeld, Holding, ApplyDelete, Unmap, NoDef
<1>3. NoLostWakeup'
  <2>. SUFFICES ASSUME NEW q \in Requests, pc'[q] = "wait"
                PROVE  \E t \in Requests : Waker(t, rpool[q])'
    BY DEF NoLostWakeup
  <2>1. pc[q] = "wait" /\ rpool'[q] = rpool[q]
    BY DEF IInv, TypeOK, ApplyDelete, Unmap, NoDef
  <2>2. PICK t \in Requests : Waker(t, rpool[q])
    BY <2>1 DEF WakeInv, NoLostWakeup
  <2>3. Waker(t, rpool[q])'
    BY <2>1, <2>2 DEF Waker, IInv, TypeOK, ApplyDelete, Unmap, NoDef
  <2>. QED BY <2>3
<1>. QED BY <1>1, <1>2, <1>3 DEF WakeInv

\* A shutdown moves no request.
LEMMA CloseWakes ==
    ASSUME IInv, WakeInv, NEW u \in Updaters, Close(u)
    PROVE  WakeInv'
<1>1. SizesPositive'
  BY PoolAssumption DEF IInv, TypeOK, Defs, PoolsAllocated, WakeInv, SizesPositive, Close, Unmap
<1>2. LockedIsHeld'
  BY PoolAssumption DEF IInv, TypeOK, PoolsAllocated, ProcessPlaced, Exclusive, WakeInv, LockedIsHeld, Holding, Close, Unmap
<1>3. NoLostWakeup'
  <2>. SUFFICES ASSUME NEW q \in Requests, pc'[q] = "wait"
                PROVE  \E t \in Requests : Waker(t, rpool[q])'
    BY DEF NoLostWakeup
  <2>1. pc[q] = "wait" /\ rpool'[q] = rpool[q]
    BY DEF IInv, TypeOK, Close, Unmap
  <2>2. PICK t \in Requests : Waker(t, rpool[q])
    BY <2>1 DEF WakeInv, NoLostWakeup
  <2>3. Waker(t, rpool[q])'
    BY <2>1, <2>2 DEF Waker, IInv, TypeOK, Close, Unmap
  <2>. QED BY <2>3
<1>. QED BY <1>1, <1>2, <1>3 DEF WakeInv

\* closeAll empties the list, but who holds an instance still comes to release.
LEMMA DetachWakes ==
    ASSUME IInv, WakeInv, NEW u \in Updaters, Detach(u)
    PROVE  WakeInv'
<1>1. SizesPositive'
  BY PoolAssumption DEF IInv, TypeOK, Defs, PoolsAllocated, WakeInv, SizesPositive, Detach
<1>2. LockedIsHeld'
  BY PoolAssumption DEF IInv, TypeOK, PoolsAllocated, ProcessPlaced, Exclusive, WakeInv, LockedIsHeld, Holding, Detach
<1>3. NoLostWakeup'
  <2>. SUFFICES ASSUME NEW q \in Requests, pc'[q] = "wait"
                PROVE  \E t \in Requests : Waker(t, rpool[q])'
    BY DEF NoLostWakeup
  <2>1. pc[q] = "wait" /\ rpool'[q] = rpool[q]
    BY DEF IInv, TypeOK, Detach
  <2>2. PICK t \in Requests : Waker(t, rpool[q])
    BY <2>1 DEF WakeInv, NoLostWakeup
  <2>3. Waker(t, rpool[q])'
    BY <2>1, <2>2 DEF Waker, IInv, TypeOK, Detach
  <2>. QED BY <2>3
<1>. QED BY <1>1, <1>2, <1>3 DEF WakeInv

\* Closing a process moves no request.
LEMMA CloseInstanceWakes ==
    ASSUME IInv, WakeInv, NEW u \in Updaters, NEW i \in Requests, CloseInstance(u, i)
    PROVE  WakeInv'
<1>1. SizesPositive'
  BY PoolAssumption DEF IInv, TypeOK, Defs, PoolsAllocated, WakeInv, SizesPositive, CloseInstance
<1>2. LockedIsHeld'
  BY PoolAssumption DEF IInv, TypeOK, PoolsAllocated, ProcessPlaced, Exclusive, WakeInv, LockedIsHeld, Holding, CloseInstance
<1>3. NoLostWakeup'
  <2>. SUFFICES ASSUME NEW q \in Requests, pc'[q] = "wait"
                PROVE  \E t \in Requests : Waker(t, rpool[q])'
    BY DEF NoLostWakeup
  <2>1. pc[q] = "wait" /\ rpool'[q] = rpool[q]
    BY DEF IInv, TypeOK, CloseInstance
  <2>2. PICK t \in Requests : Waker(t, rpool[q])
    BY <2>1 DEF WakeInv, NoLostWakeup
  <2>3. Waker(t, rpool[q])'
    BY <2>1, <2>2 DEF Waker, IInv, TypeOK, CloseInstance
  <2>. QED BY <2>3
<1>. QED BY <1>1, <1>2, <1>3 DEF WakeInv

\* Time moves no request.
LEMMA AgeWakes ==
    ASSUME IInv, WakeInv, NEW i \in Requests, Age(i)
    PROVE  WakeInv'
<1>1. SizesPositive'
  BY PoolAssumption DEF IInv, TypeOK, Defs, PoolsAllocated, WakeInv, SizesPositive, Age
<1>2. LockedIsHeld'
  BY PoolAssumption DEF IInv, TypeOK, PoolsAllocated, ProcessPlaced, Exclusive, WakeInv, LockedIsHeld, Holding, Age
<1>3. NoLostWakeup'
  <2>. SUFFICES ASSUME NEW q \in Requests, pc'[q] = "wait"
                PROVE  \E t \in Requests : Waker(t, rpool[q])'
    BY DEF NoLostWakeup
  <2>1. pc[q] = "wait" /\ rpool'[q] = rpool[q]
    BY DEF IInv, TypeOK, Age
  <2>2. PICK t \in Requests : Waker(t, rpool[q])
    BY <2>1 DEF WakeInv, NoLostWakeup
  <2>3. Waker(t, rpool[q])'
    BY <2>1, <2>2 DEF Waker, IInv, TypeOK, Age
  <2>. QED BY <2>3
<1>. QED BY <1>1, <1>2, <1>3 DEF WakeInv

\* A process that ends by itself keeps its place, and its lock.
LEMMA DieWakes ==
    ASSUME IInv, WakeInv, NEW i \in Requests, Die(i)
    PROVE  WakeInv'
<1>1. SizesPositive'
  BY PoolAssumption DEF IInv, TypeOK, Defs, PoolsAllocated, WakeInv, SizesPositive, Die
<1>2. LockedIsHeld'
  BY PoolAssumption DEF IInv, TypeOK, PoolsAllocated, ProcessPlaced, Exclusive, WakeInv, LockedIsHeld, Holding, Die
<1>3. NoLostWakeup'
  <2>. SUFFICES ASSUME NEW q \in Requests, pc'[q] = "wait"
                PROVE  \E t \in Requests : Waker(t, rpool[q])'
    BY DEF NoLostWakeup
  <2>1. pc[q] = "wait" /\ rpool'[q] = rpool[q]
    BY DEF IInv, TypeOK, Die
  <2>2. PICK t \in Requests : Waker(t, rpool[q])
    BY <2>1 DEF WakeInv, NoLostWakeup
  <2>3. Waker(t, rpool[q])'
    BY <2>1, <2>2 DEF Waker, IInv, TypeOK, Die
  <2>. QED BY <2>3
<1>. QED BY <1>1, <1>2, <1>3 DEF WakeInv

\* The reaper locks only what it takes off the list, and wakes all that wait.
LEMMA ReapWakes ==
    ASSUME IInv, WakeInv, Reap
    PROVE  WakeInv'
<1>1. SizesPositive'
  BY PoolAssumption DEF IInv, TypeOK, Defs, PoolsAllocated, WakeInv, SizesPositive, Reap, Expired, Free, Evict, WakeAll
<1>2. LockedIsHeld'
  <2>. SUFFICES ASSUME NEW p \in Requests, NEW i \in instances'[p], i \in busy'
                PROVE  \E s \in Requests : Holding(s)' /\ held'[s] = i
    BY DEF LockedIsHeld
  <2>1. PICK V \in SUBSET instances[cur] : Evict(V)
    BY DEF Reap, Expired, Free
  <2>2. cur \in Requests /\ i \in instances[p] /\ i \notin V
    BY <2>1 DEF Reap, IInv, TypeOK, ProcessPlaced, Evict
  <2>3. PICK s \in Requests : Holding(s) /\ held[s] = i
    BY <2>1, <2>2 DEF Evict, WakeInv, LockedIsHeld
  <2>4. Holding(s)' /\ held'[s] = i
    BY <2>1, <2>3 DEF Evict, WakeAll, Holding
  <2>. QED BY <2>4
<1>3. NoLostWakeup'
  <2>. SUFFICES ASSUME NEW q \in Requests, pc'[q] = "wait"
                PROVE  \E t \in Requests : Waker(t, rpool[q])'
    BY DEF NoLostWakeup
  <2>1. pc[q] = "wait" /\ rpool'[q] = rpool[q]
    BY DEF IInv, TypeOK, Reap, Evict, WakeAll
  <2>2. PICK t \in Requests : Waker(t, rpool[q])
    BY <2>1 DEF WakeInv, NoLostWakeup
  <2>3. Waker(t, rpool[q])'
    BY <2>1, <2>2 DEF Waker, IInv, TypeOK, Reap, Evict, WakeAll
  <2>. QED BY <2>3
<1>. QED BY <1>1, <1>2, <1>3 DEF WakeInv

\* Unlocking what is not listed any more.
LEMMA CloseVictimWakes ==
    ASSUME IInv, WakeInv, NEW i \in Requests, CloseVictim(i)
    PROVE  WakeInv'
<1>1. SizesPositive'
  BY PoolAssumption DEF IInv, TypeOK, Defs, PoolsAllocated, WakeInv, SizesPositive, CloseVictim
<1>2. LockedIsHeld'
  BY PoolAssumption DEF IInv, TypeOK, PoolsAllocated, ProcessPlaced, Exclusive, WakeInv, LockedIsHeld, Holding, CloseVictim
<1>3. NoLostWakeup'
  <2>. SUFFICES ASSUME NEW q \in Requests, pc'[q] = "wait"
                PROVE  \E t \in Requests : Waker(t, rpool[q])'
    BY DEF NoLostWakeup
  <2>1. pc[q] = "wait" /\ rpool'[q] = rpool[q]
    BY DEF IInv, TypeOK, CloseVictim
  <2>2. PICK t \in Requests : Waker(t, rpool[q])
    BY <2>1 DEF WakeInv, NoLostWakeup
  <2>3. Waker(t, rpool[q])'
    BY <2>1, <2>2 DEF Waker, IInv, TypeOK, CloseVictim
  <2>. QED BY <2>3
<1>. QED BY <1>1, <1>2, <1>3 DEF WakeInv

\* The pool's bookkeeping and the wake-ups, together.
THEOREM WakeInvariant == Spec => [](IInv /\ WakeInv)
<1>1. Init => WakeInv
  BY PoolAssumption DEF Init, WakeInv, SizesPositive, LockedIsHeld, NoLostWakeup, Definition, NoDef, Normalise
<1>2. IInv /\ WakeInv /\ [Next]_vars => WakeInv'
  <2>. SUFFICES ASSUME IInv, WakeInv, [Next]_vars PROVE WakeInv'
    OBVIOUS
  <2>1. ASSUME NEW r \in Requests, RequestStep(r) PROVE WakeInv'
    BY <2>1, AcquireMissingWakes, AcquirePoolWakes, GrabWakes, ReserveWakes, BlockWakes, SpawnFailedWakes,
       SpawnedWakes, BodyRejectedWakes, InvokeFailedWakes, InvokeOkWakes, UnlockWakes, SignalWakes DEF RequestStep
  <2>2. ASSUME NEW u \in Updaters, UpdaterStep(u) PROVE WakeInv'
    BY <2>2, ApplyPutWakes, ApplyDeleteWakes, CloseWakes, DetachWakes, CloseInstanceWakes DEF UpdaterStep
  <2>3. ASSUME NEW i \in Requests, Age(i) \/ Die(i) PROVE WakeInv'
    BY <2>3, AgeWakes, DieWakes
  <2>4. CASE ReaperStep
    BY <2>4, ReapWakes, CloseVictimWakes DEF ReaperStep
  <2>5. CASE UNCHANGED vars
    BY <2>5 DEF vars, WakeInv, SizesPositive, LockedIsHeld, Holding, NoLostWakeup, Waker
  <2>. QED BY <2>1, <2>2, <2>3, <2>4, <2>5 DEF Next, Quiescent
<1>. QED BY <1>1, <1>2, InitIInv, NextIInv, PTL DEF Spec

\* No wake-up is lost, for any number of requests, sizes, replacements and
\* teardowns: who waits on a pool is waited for by a Broadcast to come.
THEOREM NoLostWakeupHolds == Spec => []NoLostWakeup
<1>1. WakeInv => NoLostWakeup
  BY DEF WakeInv
<1>. QED BY <1>1, WakeInvariant, PTL

-----------------------------------------------------------------------------
(***************************************************************************)
(* The counters that Stats reports.                                        *)
(***************************************************************************)
\* What Stats adds up: the totals of the mapped pool and the counters of its
\* instances.
StatsSummed ==
    cur # None =>
        /\ cur \in Requests /\ IsFiniteSet(instances[cur])
        /\ lifetimeInvokes[cur] \in Nat /\ lifetimeErrors[cur] \in Nat
        /\ \A i \in instances[cur] : invokes[i] \in Nat /\ errors[i] \in Nat
        /\ SumOver(invokes, instances[cur]) \in Nat
        /\ SumOver(errors, instances[cur]) \in Nat
        /\ StatsInvokes = IF instances[cur] # {}
                          THEN SumOver(invokes, instances[cur]) + lifetimeInvokes[cur]
                          ELSE lifetimeInvokes[cur]
        /\ StatsErrors = IF instances[cur] # {}
                         THEN SumOver(errors, instances[cur]) + lifetimeErrors[cur]
                         ELSE IF lifetimeInvokes[cur] > 0 THEN lifetimeErrors[cur] ELSE 0

\* In every state of the pool.
LEMMA StatsParts == IInv => StatsSummed
<1>. SUFFICES ASSUME IInv, cur # None PROVE StatsSummed
  BY DEF StatsSummed
<1>1. cur \in Requests
  BY DEF IInv, TypeOK
<1>2. lifetimeInvokes[cur] \in Nat /\ lifetimeErrors[cur] \in Nat
  BY <1>1 DEF IInv, TypeOK
<1>3. /\ IsFiniteSet(instances[cur])
      /\ \A i \in instances[cur] : invokes[i] \in Nat /\ errors[i] \in Nat
      /\ InvokesOf(instances[cur]) = SumOver(invokes, instances[cur])
      /\ ErrorsOf(instances[cur]) = SumOver(errors, instances[cur])
      /\ InvokesOf(instances[cur]) \in Nat /\ ErrorsOf(instances[cur]) \in Nat
  BY <1>1, PoolSums
<1>4. StatsInvokes = IF instances[cur] # {}
                     THEN SumOver(invokes, instances[cur]) + lifetimeInvokes[cur]
                     ELSE lifetimeInvokes[cur]
  BY <1>2, <1>3 DEF StatsInvokes, StatsOf
<1>5. StatsErrors = IF instances[cur] # {}
                    THEN SumOver(errors, instances[cur]) + lifetimeErrors[cur]
                    ELSE IF lifetimeInvokes[cur] > 0 THEN lifetimeErrors[cur] ELSE 0
  BY <1>3 DEF StatsErrors, StatsOf
<1>. QED BY <1>1, <1>2, <1>3, <1>4, <1>5 DEF StatsSummed

\* Hence also after a step.
LEMMA StatsPartsNext == IInv' => StatsSummed'
  BY StatsParts, PTL

\* What StatsNeverReset says of a step that leaves the pool mapped.
StatsGrow ==
    /\ StatsInvokes' >= StatsInvokes
    /\ StatsInvokes > 0 => StatsErrors' >= StatsErrors

\* Everything but a spawn and the reaper leaves the instances of the mapped
\* pool and its totals alone; an invocation counts once more.
LEMMA StatsAside ==
    ASSUME StatsSummed, StatsSummed', cur' = cur, cur # None,
           instances'[cur] = instances[cur],
           lifetimeInvokes' = lifetimeInvokes, lifetimeErrors' = lifetimeErrors,
           \A i \in instances[cur] : invokes[i] <= invokes'[i] /\ errors[i] <= errors'[i]
    PROVE  StatsGrow
<1>. DEFINE S == instances[cur]
<1>1. /\ IsFiniteSet(S)
      /\ \A i \in S : invokes[i] \in Nat /\ errors[i] \in Nat
      /\ \A i \in S : invokes'[i] \in Nat /\ errors'[i] \in Nat
  BY DEF StatsSummed
<1>2. SumOver(invokes, S) <= SumOver(invokes', S) /\ SumOver(errors, S) <= SumOver(errors', S)
  <2>1. \A i \in S : invokes[i] <= invokes'[i] /\ errors[i] <= errors'[i]
    OBVIOUS
  <2>. HIDE DEF S
  <2>. QED BY <1>1, <2>1, SumMonotone
<1>3. instances'[cur'] = S /\ lifetimeInvokes'[cur'] = lifetimeInvokes[cur]
      /\ lifetimeErrors'[cur'] = lifetimeErrors[cur]
  OBVIOUS
<1>. QED BY <1>2, <1>3 DEF StatsSummed, StatsGrow

\* A new instance brings its counters along.
LEMMA StatsSpawned ==
    ASSUME IInv, StatsSummed, StatsSummed', cur' = cur, cur # None,
           NEW r \in Requests, Spawned(r)
    PROVE  StatsGrow
<1>0. cur \in Requests /\ rpool[r] \in Requests
  BY DEF IInv, PoolsAllocated, StatsSummed, Spawned
<1>1. CASE rpool[r] # cur
  <2>1. /\ instances'[cur] = instances[cur]
        /\ lifetimeInvokes' = lifetimeInvokes /\ lifetimeErrors' = lifetimeErrors
        /\ invokes' = invokes /\ errors' = errors
    BY <1>0, <1>1 DEF IInv, TypeOK, Spawned, Enter
  <2>2. \A i \in instances[cur] : invokes[i] <= invokes'[i] /\ errors[i] <= errors'[i]
    BY <2>1 DEF StatsSummed
  <2>. QED BY <2>1, <2>2, StatsAside
<1>2. CASE rpool[r] = cur
  <2>. DEFINE S == instances[cur]
              T == S \cup {r}
  <2>1. instances'[cur'] = T
    BY <1>0, <1>2 DEF IInv, TypeOK, Spawned, Enter
  <2>2. /\ lifetimeInvokes' = lifetimeInvokes /\ lifetimeErrors' = lifetimeErrors
        /\ invokes' = invokes /\ errors' = errors
    BY DEF Spawned
  <2>3. IsFiniteSet(T) /\ S \in SUBSET T /\ IsFiniteSet(T \ S) /\ T # {}
    BY FS_AddElement, FS_Subset DEF StatsSummed
  <2>4. \A i \in T : invokes[i] \in Nat /\ errors[i] \in Nat
    BY DEF IInv, TypeOK, StatsSummed
  <2>5. SumOver(invokes, S) <= SumOver(invokes, T) /\ SumOver(errors, S) <= SumOver(errors, T)
    <3>1. /\ SumOver(invokes, T) = SumOver(invokes, S) + SumOver(invokes, T \ S)
          /\ SumOver(errors, T) = SumOver(errors, S) + SumOver(errors, T \ S)
      <4>. HIDE DEF S, T
      <4>. QED BY <2>3, <2>4, SumParts
    <3>2. SumOver(invokes, T \ S) \in Nat /\ SumOver(errors, T \ S) \in Nat
      <4>1. \A i \in T \ S : invokes[i] \in Nat /\ errors[i] \in Nat
        BY <2>4
      <4>. HIDE DEF S, T
      <4>. QED BY <2>3, <4>1, SumType
    <3>3. SumOver(invokes, S) \in Nat /\ SumOver(errors, S) \in Nat
      BY DEF StatsSummed
    <3>. HIDE DEF S, T
    <3>. QED BY <3>1, <3>2, <3>3
  <2>6. /\ StatsInvokes' = SumOver(invokes, T) + lifetimeInvokes[cur]
        /\ StatsErrors' = SumOver(errors, T) + lifetimeErrors[cur]
        /\ SumOver(invokes, T) \in Nat /\ SumOver(errors, T) \in Nat
    <3>. HIDE DEF T
    <3>. QED BY <2>1, <2>2, <2>3 DEF StatsSummed
  <2>. HIDE DEF T
  <2>. QED BY <2>5, <2>6 DEF StatsSummed, StatsGrow
<1>. QED BY <1>1, <1>2

\* The reaper moves the counters of what it evicts into the totals; without
\* instances the totals alone are shown, if there was an invocation.
LEMMA StatsReap ==
    ASSUME IInv, StatsSummed, StatsSummed', cur' = cur, cur # None, Reap
    PROVE  StatsGrow
<1>. DEFINE S == instances[cur]
<1>0. cur \in Requests
  BY DEF StatsSummed
<1>1. PICK V \in SUBSET S : Evict(V)
  BY DEF Reap, Expired, Free
<1>2. /\ instances'[cur'] = S \ V
      /\ lifetimeInvokes'[cur'] = lifetimeInvokes[cur] + InvokesOf(V)
      /\ lifetimeErrors'[cur'] = lifetimeErrors[cur] + ErrorsOf(V)
      /\ invokes' = invokes /\ errors' = errors
  BY <1>0, <1>1 DEF IInv, TypeOK, Evict, RollUp
<1>3. /\ InvokesOf(V) = SumOver(invokes, V) /\ ErrorsOf(V) = SumOver(errors, V)
      /\ SumOver(invokes, V) \in Nat /\ SumOver(errors, V) \in Nat
  BY <1>0, PoolSums
<1>4. /\ SumOver(invokes, S) = SumOver(invokes, V) + SumOver(invokes, S \ V)
      /\ SumOver(errors, S) = SumOver(errors, V) + SumOver(errors, S \ V)
  <2>1. IsFiniteSet(S) /\ \A i \in S : invokes[i] \in Nat /\ errors[i] \in Nat
    BY DEF StatsSummed
  <2>. HIDE DEF S
  <2>. QED BY <2>1, SumParts
<1>5. S # {}
  BY <1>1 DEF Evict
<1>6. /\ StatsInvokes = SumOver(invokes, S) + lifetimeInvokes[cur]
      /\ StatsErrors = SumOver(errors, S) + lifetimeErrors[cur]
      /\ lifetimeInvokes[cur] \in Nat /\ lifetimeErrors[cur] \in Nat
  BY <1>5 DEF StatsSummed
<1>7. /\ SumOver(invokes, S \ V) \in Nat /\ SumOver(errors, S \ V) \in Nat
      /\ StatsInvokes' = IF S \ V # {}
                         THEN SumOver(invokes, S \ V) + lifetimeInvokes'[cur']
                         ELSE lifetimeInvokes'[cur']
      /\ StatsErrors' = IF S \ V # {}
                        THEN SumOver(errors, S \ V) + lifetimeErrors'[cur']
                        ELSE IF lifetimeInvokes'[cur'] > 0 THEN lifetimeErrors'[cur'] ELSE 0
  <2>. HIDE DEF S
  <2>. QED BY <1>2 DEF StatsSummed
<1>. HIDE DEF S
<1>8. CASE S \ V # {}
  BY <1>2, <1>3, <1>4, <1>6, <1>7, <1>8 DEF StatsGrow
<1>9. CASE S \ V = {}
  <2>1. SumOver(invokes, S \ V) = 0 /\ SumOver(errors, S \ V) = 0
    BY <1>9, SumEmpty
  <2>. QED BY <1>2, <1>3, <1>4, <1>6, <1>7, <1>9, <2>1 DEF StatsGrow
<1>. QED BY <1>8, <1>9

\* Every step that leaves the pool mapped.
LEMMA StatsStep ==
    ASSUME IInv, IInv', [Next]_vars, cur' = cur
    PROVE  StatsGrow
<1>1. CASE cur = None
  BY <1>1 DEF StatsGrow, StatsInvokes, StatsErrors, StatsOf
<1>2. CASE cur # None
  <2>0. StatsSummed /\ StatsSummed'
    BY StatsParts, StatsPartsNext
  <2>1. ASSUME NEW r \in Requests, Spawned(r) PROVE StatsGrow
    BY <1>2, <2>0, <2>1, StatsSpawned
  <2>2. CASE Reap
    BY <1>2, <2>0, <2>2, StatsReap
  <2>3. ASSUME ~Reap, \A r \in Requests : ~Spawned(r) PROVE StatsGrow
    <3>1. /\ instances'[cur] = instances[cur]
          /\ lifetimeInvokes' = lifetimeInvokes /\ lifetimeErrors' = lifetimeErrors
      <4>1. ASSUME NEW r \in Requests, RequestStep(r)
            PROVE  instances' = instances /\ lifetimeInvokes' = lifetimeInvokes
                   /\ lifetimeErrors' = lifetimeErrors
        BY <2>3, <4>1 DEF RequestStep, AcquireMissing, AcquirePool, Grab, Reserve, Block, SpawnFailed,
           BodyRejected, InvokeFailed, InvokeOk, Unlock, Signal
      <4>2. ASSUME NEW u \in Updaters, UpdaterStep(u)
            PROVE  instances'[cur] = instances[cur] /\ lifetimeInvokes' = lifetimeInvokes
                   /\ lifetimeErrors' = lifetimeErrors
        <5>1. CASE Detach(u)
          BY <1>2, <5>1 DEF IInv, TypeOK, PoolsAllocated, Detach
        <5>2. CASE ~Detach(u)
          BY <4>2, <5>2 DEF UpdaterStep, ApplyPut, ApplyDelete, Close, Unmap, CloseInstance
        <5>. QED BY <5>1, <5>2
      <4>3. CASE ReaperStep
        BY <2>3, <4>3 DEF ReaperStep, CloseVictim
      <4>4. CASE \E i \in Requests : Age(i) \/ Die(i)
        BY <4>4 DEF Age, Die
      <4>5. CASE UNCHANGED vars
        BY <4>5 DEF vars
      <4>. QED BY <4>1, <4>2, <4>3, <4>4, <4>5 DEF Next, Quiescent
    <3>2. \A i \in Requests : invokes[i] <= invokes'[i] /\ errors[i] <= errors'[i]
      <4>0. /\ \A i \in Requests : invokes[i] \in Nat /\ errors[i] \in Nat
            /\ DOMAIN invokes = Requests /\ DOMAIN errors = Requests
        BY DEF IInv, TypeOK
      <4>1. ASSUME NEW r \in Requests, InvokeOk(r)
            PROVE  \A i \in Requests : invokes[i] <= invokes'[i] /\ errors[i] <= errors'[i]
        BY <4>0, <4>1 DEF InvokeOk, IInv, TypeOK
      <4>2. ASSUME NEW r \in Requests, InvokeFailed(r)
            PROVE  \A i \in Requests : invokes[i] <= invokes'[i] /\ errors[i] <= errors'[i]
        BY <4>0, <4>2 DEF InvokeFailed, IInv, TypeOK
      <4>3. ASSUME \A r \in Requests : ~InvokeOk(r) /\ ~InvokeFailed(r)
            PROVE  invokes' = invokes /\ errors' = errors
        <5>1. ASSUME NEW r \in Requests, RequestStep(r) PROVE invokes' = invokes /\ errors' = errors
          BY <2>3, <4>3, <5>1 DEF RequestStep, AcquireMissing, AcquirePool, Grab, Reserve, Block,
             SpawnFailed, BodyRejected, Unlock, Signal
        <5>2. ASSUME NEW u \in Updaters, UpdaterStep(u) PROVE invokes' = invokes /\ errors' = errors
          BY <5>2 DEF UpdaterStep, ApplyPut, ApplyDelete, Close, Unmap, Detach, CloseInstance
        <5>3. CASE ReaperStep
          BY <2>3, <5>3 DEF ReaperStep, CloseVictim
        <5>4. CASE \E i \in Requests : Age(i) \/ Die(i)
          BY <5>4 DEF Age, Die
        <5>5. CASE UNCHANGED vars
          BY <5>5 DEF vars
        <5>. QED BY <5>1, <5>2, <5>3, <5>4, <5>5 DEF Next, Quiescent
      <4>. QED BY <4>0, <4>1, <4>2, <4>3
    <3>3. instances[cur] \subseteq Requests
      BY <1>2 DEF IInv, TypeOK
    <3>. QED BY <1>2, <2>0, <3>1, <3>2, <3>3, StatsAside
  <2>. QED BY <2>1, <2>2, <2>3
<1>. QED BY <1>1, <1>2

\* As long as a pool stays mapped, neither the reaper nor a spawn nor anything
\* else takes invocations back from what Stats reports, nor the errors of a
\* function that ever answered.
THEOREM StatsNeverResetHolds == Spec => StatsNeverReset
<1>1. IInv /\ IInv' /\ [Next]_vars =>
        [cur' = cur => /\ StatsInvokes' >= StatsInvokes
                       /\ StatsInvokes > 0 => StatsErrors' >= StatsErrors]_vars
  BY StatsStep DEF StatsGrow
<1>. QED BY <1>1, InductiveInvariant, PTL DEF Spec, StatsNeverReset

-----------------------------------------------------------------------------
(***************************************************************************)
(* The rate limiter.                                                       *)
(***************************************************************************)
USE DEF callVars, flushVars, histVars

\* Of what g admitted in this minute, and did not misdate, the part that a
\* flush has taken out of the local counter (never more: the counter may
\* still hold requests of the minute before).
Taken(g) == admitted[g] - misdated[g] - local[g]

\* A swapped count is pushed, or given up, before the flush goes on.
DeltaInv == \A g \in Gateways : fpc[g] # "push" => delta[g] = 0

\* What a flush has taken is in the row of this minute, or about to be, and
\* the flush that publishes has seen it there.
PushedInv ==
    \A g \in Gateways : impaired[g] = {} =>
        /\ Taken(g) <= usage[minute] + (IF bucket[g] = minute THEN delta[g] ELSE 0)
        /\ fpc[g] = "publish" => Taken(g) <= seen[g]

\* How far the aggregates that decisions are made on lag behind: between
\* flushes the published one has all that was taken; during a flush it misses
\* at most one full counter, and so does what a call under way has read, unless
\* a second flush has overtaken it.
LagInv ==
    \A g \in Gateways : impaired[g] = {} =>
        /\ local[g] <= Limit /\ delta[g] <= Limit
        /\ Taken(g) <= remote[g] + (IF fpc[g] \in {"idle", "swap"} THEN 0 ELSE Limit)
        /\ \A c \in Callers : GatewayOf[c] = g /\ cpc[c] = "decide" /\ c \notin passed =>
              /\ Taken(g) <= cremote[c] + Limit
              /\ fpc[g] # "idle" => cremote[c] = remote[g]

\* The inductive invariant of the limiter.
QuotaInv == QuotaTypeOK /\ DeltaInv /\ PushedInv /\ LagInv /\ OvershootBound /\ Conserved

\* The clock and the buckets are minutes.
LEMMA Times ==
    ASSUME QuotaTypeOK
    PROVE  /\ minute \in Nat /\ minute \in Minutes
           /\ \A g \in Gateways : bucket[g] \in Nat /\ bucket[g] \in Minutes /\ bucket[g] \in 0..minute
  BY QuotaAssumption DEF QuotaTypeOK, Minutes

\* The rows since the bucket of a flush include that of the current minute.
LEMMA SinceMinute ==
    ASSUME QuotaTypeOK, NEW f \in Gateways
    PROVE  UsageSince(bucket[f]) \in Nat /\ usage[minute] <= UsageSince(bucket[f])
<1>. DEFINE since == bucket[f]..MaxMinute
<1>1. minute \in since /\ since \subseteq Minutes
  BY QuotaAssumption DEF QuotaTypeOK, Minutes
<1>2. IsFiniteSet(since)
  BY QuotaAssumption, FS_Interval DEF QuotaTypeOK, Minutes
<1>3. \A m \in since : usage[m] \in Nat
  BY <1>1 DEF QuotaTypeOK
<1>4. UsageSince(bucket[f]) = SumOver(usage, since)
  BY DEF UsageSince, SumOver
<1>. HIDE DEF since
<1>5. SumOver(usage, since) \in Nat /\ usage[minute] <= SumOver(usage, since)
  BY <1>1, <1>2, <1>3, SumType, SumMember
<1>. QED BY <1>4, <1>5

\* Counts that only move, between the places of one gateway and one row, keep
\* the balance.
LEMMA CountsMove ==
    ASSUME QuotaTypeOK, QuotaTypeOK', Conserved, NEW g \in Gateways, NEW m \in Minutes,
           \A h \in Gateways : h # g =>
             /\ total'[h] = total[h] /\ local'[h] = local[h]
             /\ delta'[h] = delta[h] /\ lost'[h] = lost[h],
           \A k \in Minutes : k # m => usage'[k] = usage[k],
           total'[g] - total[g] =
             (usage'[m] - usage[m]) + (local'[g] - local[g])
             + (delta'[g] - delta[g]) + (lost'[g] - lost[g])
    PROVE  Conserved'
<1>1. IsFiniteSet(Gateways) /\ IsFiniteSet(Minutes)
  BY QuotaAssumption, FS_Interval DEF Minutes
<1>2. /\ \A h \in Gateways : total[h] \in Nat /\ total'[h] \in Nat
      /\ \A h \in Gateways : local[h] \in Nat /\ local'[h] \in Nat
      /\ \A h \in Gateways : delta[h] \in Nat /\ delta'[h] \in Nat
      /\ \A h \in Gateways : lost[h] \in Nat /\ lost'[h] \in Nat
      /\ \A k \in Minutes : usage[k] \in Nat /\ usage'[k] \in Nat
  BY DEF QuotaTypeOK
<1>3. SumOver(total', Gateways) = SumOver(total, Gateways) + total'[g] - total[g]
  BY <1>1, <1>2, SumChange
<1>4. SumOver(local', Gateways) = SumOver(local, Gateways) + local'[g] - local[g]
  BY <1>1, <1>2, SumChange
<1>5. SumOver(delta', Gateways) = SumOver(delta, Gateways) + delta'[g] - delta[g]
  BY <1>1, <1>2, SumChange
<1>6. SumOver(lost', Gateways) = SumOver(lost, Gateways) + lost'[g] - lost[g]
  BY <1>1, <1>2, SumChange
<1>7. SumOver(usage', Minutes) = SumOver(usage, Minutes) + usage'[m] - usage[m]
  <2>1. \A k \in Minutes : usage[k] \in Nat
    BY <1>2
  <2>2. \A k \in Minutes : usage'[k] \in Nat
    BY <1>2
  <2>3. \A k \in Minutes : k # m => usage'[k] = usage[k]
    OBVIOUS
  <2>4. IsFiniteSet(Minutes)
    BY <1>1
  <2>. QED BY <2>1, <2>2, <2>3, <2>4, SumChange
<1>8. /\ SumOver(total, Gateways) \in Nat /\ SumOver(local, Gateways) \in Nat
      /\ SumOver(delta, Gateways) \in Nat /\ SumOver(lost, Gateways) \in Nat
      /\ SumOver(usage, Minutes) \in Nat
  BY <1>1, <1>2, SumType
<1>. QED BY <1>2, <1>3, <1>4, <1>5, <1>6, <1>7, <1>8 DEF Conserved

\* Before the first call everything is zero.
LEMMA InitQuota == QuotaInit => QuotaInv
<1>. SUFFICES ASSUME QuotaInit PROVE QuotaInv
  OBVIOUS
<1>1. QuotaTypeOK
  BY QuotaAssumption DEF QuotaInit, QuotaTypeOK, Minutes
<1>2. DeltaInv /\ OvershootBound
  BY QuotaAssumption DEF QuotaInit, DeltaInv, OvershootBound
<1>3. PushedInv /\ LagInv
  BY QuotaAssumption DEF QuotaInit, PushedInv, LagInv, Taken, Minutes
<1>4. Conserved
  <2>1. IsFiniteSet(Gateways) /\ IsFiniteSet(Minutes)
    BY QuotaAssumption, FS_Interval DEF Minutes
  <2>2. /\ SumOver(total, Gateways) = 0 /\ SumOver(local, Gateways) = 0
        /\ SumOver(delta, Gateways) = 0 /\ SumOver(lost, Gateways) = 0
        /\ SumOver(usage, Minutes) = 0
    BY <2>1, SumZeros DEF QuotaInit
  <2>. QED BY <2>2 DEF Conserved
<1>. QED BY <1>1, <1>2, <1>3, <1>4 DEF QuotaInv

\* Allow reads limit and aggregate: as fresh as they get.
LEMMA ReadLimitsKeeps ==
    ASSUME QuotaInv, NEW c \in Callers, ReadLimits(c)
    PROVE  QuotaInv'
<1>0. GatewayOf[c] \in Gateways
  BY QuotaAssumption
<1>1. QuotaTypeOK'
  BY <1>0, Times, QuotaAssumption DEF QuotaInv, QuotaTypeOK, ReadLimits
<1>2. DeltaInv'
  BY <1>0, QuotaAssumption DEF QuotaInv, QuotaTypeOK, DeltaInv, ReadLimits
<1>3. PushedInv'
  BY <1>0, Times, QuotaAssumption DEF QuotaInv, QuotaTypeOK, DeltaInv, PushedInv, Taken, ReadLimits
<1>4. LagInv'
  BY <1>0, QuotaAssumption DEF QuotaInv, QuotaTypeOK, DeltaInv, PushedInv, LagInv, Taken, ReadLimits
<1>5. OvershootBound'
  BY <1>0, QuotaAssumption DEF QuotaInv, QuotaTypeOK, LagInv, Taken, OvershootBound, ReadLimits
<1>6. Conserved'
  BY DEF QuotaInv, Conserved, ReadLimits
<1>. QED BY <1>1, <1>2, <1>3, <1>4, <1>5, <1>6 DEF QuotaInv

\* Without a known limit everything is admitted; the gateway counts as impaired.
LEMMA AdmitUnlimitedKeeps ==
    ASSUME QuotaInv, NEW c \in Callers, AdmitUnlimited(c)
    PROVE  QuotaInv'
<1>0. GatewayOf[c] \in Gateways
  BY QuotaAssumption
<1>1. QuotaTypeOK'
  BY <1>0, Times, QuotaAssumption DEF QuotaInv, QuotaTypeOK, AdmitUnlimited, Count
<1>2. DeltaInv'
  BY <1>0, QuotaAssumption DEF QuotaInv, QuotaTypeOK, DeltaInv, AdmitUnlimited, Count
<1>3. PushedInv'
  BY <1>0, Times, QuotaAssumption DEF QuotaInv, QuotaTypeOK, DeltaInv, PushedInv, Taken, AdmitUnlimited, Count
<1>4. LagInv'
  BY <1>0, QuotaAssumption DEF QuotaInv, QuotaTypeOK, DeltaInv, PushedInv, LagInv, Taken, AdmitUnlimited, Count
<1>5. OvershootBound'
  BY <1>0, QuotaAssumption DEF QuotaInv, QuotaTypeOK, LagInv, Taken, OvershootBound, AdmitUnlimited, Count
<1>6. Conserved'
  <2>1. minute \in Minutes
    BY QuotaAssumption DEF QuotaInv, QuotaTypeOK, Minutes
  <2>2. /\ \A h \in Gateways : h # GatewayOf[c] =>
             /\ total'[h] = total[h] /\ local'[h] = local[h]
             /\ delta'[h] = delta[h] /\ lost'[h] = lost[h]
        /\ \A k \in Minutes : k # minute => usage'[k] = usage[k]
    BY <1>0, <2>1 DEF QuotaInv, QuotaTypeOK, AdmitUnlimited, Count
  <2>3. total'[GatewayOf[c]] - total[GatewayOf[c]] =
          (usage'[minute] - usage[minute]) + (local'[GatewayOf[c]] - local[GatewayOf[c]])
          + (delta'[GatewayOf[c]] - delta[GatewayOf[c]]) + (lost'[GatewayOf[c]] - lost[GatewayOf[c]])
    BY <1>0, <2>1 DEF QuotaInv, QuotaTypeOK, DeltaInv, AdmitUnlimited, Count
  <2>. QED BY <1>0, <1>1, <2>1, <2>2, <2>3, CountsMove DEF QuotaInv
<1>. QED BY <1>1, <1>2, <1>3, <1>4, <1>5, <1>6 DEF QuotaInv

\* The counter fits under the limit with what was read, and that lags by at most
\* one counter: at most twice the limit, or the call counts as overtaken.
LEMMA AdmitKeeps ==
    ASSUME QuotaInv, NEW c \in Callers, Admit(c)
    PROVE  QuotaInv'
<1>0. GatewayOf[c] \in Gateways
  BY QuotaAssumption
<1>1. QuotaTypeOK'
  BY <1>0, Times, QuotaAssumption DEF QuotaInv, QuotaTypeOK, Admit, Count
<1>2. DeltaInv'
  BY <1>0, QuotaAssumption DEF QuotaInv, QuotaTypeOK, DeltaInv, Admit, Count
<1>3. PushedInv'
  BY <1>0, Times, QuotaAssumption DEF QuotaInv, QuotaTypeOK, DeltaInv, PushedInv, Taken, Admit, Count
<1>4. LagInv'
  BY <1>0, QuotaAssumption DEF QuotaInv, QuotaTypeOK, DeltaInv, PushedInv, LagInv, Taken, Admit, Count
<1>5. OvershootBound'
  BY <1>0, QuotaAssumption DEF QuotaInv, QuotaTypeOK, LagInv, Taken, OvershootBound, Admit, Count
<1>6. Conserved'
  <2>1. minute \in Minutes
    BY QuotaAssumption DEF QuotaInv, QuotaTypeOK, Minutes
  <2>2. /\ \A h \in Gateways : h # GatewayOf[c] =>
             /\ total'[h] = total[h] /\ local'[h] = local[h]
             /\ delta'[h] = delta[h] /\ lost'[h] = lost[h]
        /\ \A k \in Minutes : k # minute => usage'[k] = usage[k]
    BY <1>0, <2>1 DEF QuotaInv, QuotaTypeOK, Admit, Count
  <2>3. total'[GatewayOf[c]] - total[GatewayOf[c]] =
          (usage'[minute] - usage[minute]) + (local'[GatewayOf[c]] - local[GatewayOf[c]])
          + (delta'[GatewayOf[c]] - delta[GatewayOf[c]]) + (lost'[GatewayOf[c]] - lost[GatewayOf[c]])
    BY <1>0, <2>1 DEF QuotaInv, QuotaTypeOK, DeltaInv, Admit, Count
  <2>. QED BY <1>0, <1>1, <2>1, <2>2, <2>3, CountsMove DEF QuotaInv
<1>. QED BY <1>1, <1>2, <1>3, <1>4, <1>5, <1>6 DEF QuotaInv

\* A denial counts nothing.
LEMMA DenyKeeps ==
    ASSUME QuotaInv, NEW c \in Callers, Deny(c)
    PROVE  QuotaInv'
<1>0. GatewayOf[c] \in Gateways
  BY QuotaAssumption
<1>1. QuotaTypeOK'
  BY <1>0, Times, QuotaAssumption DEF QuotaInv, QuotaTypeOK, Deny
<1>2. DeltaInv'
  BY <1>0, QuotaAssumption DEF QuotaInv, QuotaTypeOK, DeltaInv, Deny
<1>3. PushedInv'
  BY <1>0, Times, QuotaAssumption DEF QuotaInv, QuotaTypeOK, DeltaInv, PushedInv, Taken, Deny
<1>4. LagInv'
  BY <1>0, QuotaAssumption DEF QuotaInv, QuotaTypeOK, DeltaInv, PushedInv, LagInv, Taken, Deny
<1>5. OvershootBound'
  BY <1>0, QuotaAssumption DEF QuotaInv, QuotaTypeOK, LagInv, Taken, OvershootBound, Deny
<1>6. Conserved'
  BY DEF QuotaInv, Conserved, Deny
<1>. QED BY <1>1, <1>2, <1>3, <1>4, <1>5, <1>6 DEF QuotaInv

\* A call under way that has not read the aggregate published last is overtaken.
LEMMA FlushBeginKeeps ==
    ASSUME QuotaInv, NEW f \in Gateways, FlushBegin(f)
    PROVE  QuotaInv'
<1>1. QuotaTypeOK'
  BY Times, QuotaAssumption DEF QuotaInv, QuotaTypeOK, FlushBegin, Behind
<1>2. DeltaInv'
  BY QuotaAssumption DEF QuotaInv, QuotaTypeOK, DeltaInv, FlushBegin
<1>3. PushedInv'
  BY Times, QuotaAssumption DEF QuotaInv, QuotaTypeOK, DeltaInv, PushedInv, Taken, FlushBegin, Behind
<1>4. LagInv'
  BY QuotaAssumption DEF QuotaInv, QuotaTypeOK, DeltaInv, PushedInv, LagInv, Taken, FlushBegin, Behind
<1>5. OvershootBound'
  BY QuotaAssumption DEF QuotaInv, QuotaTypeOK, LagInv, Taken, OvershootBound, FlushBegin
<1>6. Conserved'
  BY DEF QuotaInv, Conserved, FlushBegin
<1>. QED BY <1>1, <1>2, <1>3, <1>4, <1>5, <1>6 DEF QuotaInv

\* The counter, at most one limit, becomes the delta; after a minute boundary all
\* that was admitted since is dated back.
LEMMA FlushSwapKeeps ==
    ASSUME QuotaInv, NEW f \in Gateways, FlushSwap(f)
    PROVE  QuotaInv'
<1>1. QuotaTypeOK'
  BY Times, QuotaAssumption DEF QuotaInv, QuotaTypeOK, FlushSwap
<1>2. DeltaInv'
  BY QuotaAssumption DEF QuotaInv, QuotaTypeOK, DeltaInv, FlushSwap
<1>3. PushedInv'
  BY Times, QuotaAssumption DEF QuotaInv, QuotaTypeOK, DeltaInv, PushedInv, Taken, FlushSwap
<1>4. LagInv'
  BY QuotaAssumption DEF QuotaInv, QuotaTypeOK, DeltaInv, PushedInv, LagInv, Taken, FlushSwap
<1>5. OvershootBound'
  BY QuotaAssumption DEF QuotaInv, QuotaTypeOK, LagInv, Taken, OvershootBound, FlushSwap
<1>6. Conserved'
  <2>1. minute \in Minutes
    BY QuotaAssumption DEF QuotaInv, QuotaTypeOK, Minutes
  <2>2. /\ \A h \in Gateways : h # f =>
             /\ total'[h] = total[h] /\ local'[h] = local[h]
             /\ delta'[h] = delta[h] /\ lost'[h] = lost[h]
        /\ \A k \in Minutes : k # minute => usage'[k] = usage[k]
    BY <2>1 DEF QuotaInv, QuotaTypeOK, FlushSwap
  <2>3. total'[f] - total[f] =
          (usage'[minute] - usage[minute]) + (local'[f] - local[f])
          + (delta'[f] - delta[f]) + (lost'[f] - lost[f])
    BY <2>1 DEF QuotaInv, QuotaTypeOK, DeltaInv, FlushSwap
  <2>. QED BY <1>1, <2>1, <2>2, <2>3, CountsMove DEF QuotaInv
<1>. QED BY <1>1, <1>2, <1>3, <1>4, <1>5, <1>6 DEF QuotaInv

\* The delta goes to the row of its bucket.
LEMMA FlushPushKeeps ==
    ASSUME QuotaInv, NEW f \in Gateways, FlushPush(f)
    PROVE  QuotaInv'
<1>1. QuotaTypeOK'
  BY Times, QuotaAssumption DEF QuotaInv, QuotaTypeOK, FlushPush
<1>2. DeltaInv'
  BY QuotaAssumption DEF QuotaInv, QuotaTypeOK, DeltaInv, FlushPush
<1>3. PushedInv'
  BY Times, QuotaAssumption DEF QuotaInv, QuotaTypeOK, DeltaInv, PushedInv, Taken, FlushPush
<1>4. LagInv'
  BY QuotaAssumption DEF QuotaInv, QuotaTypeOK, DeltaInv, PushedInv, LagInv, Taken, FlushPush
<1>5. OvershootBound'
  BY QuotaAssumption DEF QuotaInv, QuotaTypeOK, LagInv, Taken, OvershootBound, FlushPush
<1>6. Conserved'
  <2>1. bucket[f] \in Minutes
    BY QuotaAssumption DEF QuotaInv, QuotaTypeOK, Minutes
  <2>2. /\ \A h \in Gateways : h # f =>
             /\ total'[h] = total[h] /\ local'[h] = local[h]
             /\ delta'[h] = delta[h] /\ lost'[h] = lost[h]
        /\ \A k \in Minutes : k # bucket[f] => usage'[k] = usage[k]
    BY <2>1 DEF QuotaInv, QuotaTypeOK, FlushPush
  <2>3. total'[f] - total[f] =
          (usage'[bucket[f]] - usage[bucket[f]]) + (local'[f] - local[f])
          + (delta'[f] - delta[f]) + (lost'[f] - lost[f])
    BY <2>1 DEF QuotaInv, QuotaTypeOK, DeltaInv, FlushPush
  <2>. QED BY <1>1, <2>1, <2>2, <2>3, CountsMove DEF QuotaInv
<1>. QED BY <1>1, <1>2, <1>3, <1>4, <1>5, <1>6 DEF QuotaInv

\* The delta is lost, and the gateway impaired.
LEMMA FlushPushFailsKeeps ==
    ASSUME QuotaInv, NEW f \in Gateways, FlushPushFails(f)
    PROVE  QuotaInv'
<1>1. QuotaTypeOK'
  BY Times, QuotaAssumption DEF QuotaInv, QuotaTypeOK, FlushPushFails
<1>2. DeltaInv'
  BY QuotaAssumption DEF QuotaInv, QuotaTypeOK, DeltaInv, FlushPushFails
<1>3. PushedInv'
  BY Times, QuotaAssumption DEF QuotaInv, QuotaTypeOK, DeltaInv, PushedInv, Taken, FlushPushFails
<1>4. LagInv'
  BY QuotaAssumption DEF QuotaInv, QuotaTypeOK, DeltaInv, PushedInv, LagInv, Taken, FlushPushFails
<1>5. OvershootBound'
  BY QuotaAssumption DEF QuotaInv, QuotaTypeOK, LagInv, Taken, OvershootBound, FlushPushFails
<1>6. Conserved'
  <2>1. minute \in Minutes
    BY QuotaAssumption DEF QuotaInv, QuotaTypeOK, Minutes
  <2>2. /\ \A h \in Gateways : h # f =>
             /\ total'[h] = total[h] /\ local'[h] = local[h]
             /\ delta'[h] = delta[h] /\ lost'[h] = lost[h]
        /\ \A k \in Minutes : k # minute => usage'[k] = usage[k]
    BY <2>1 DEF QuotaInv, QuotaTypeOK, FlushPushFails
  <2>3. total'[f] - total[f] =
          (usage'[minute] - usage[minute]) + (local'[f] - local[f])
          + (delta'[f] - delta[f]) + (lost'[f] - lost[f])
    BY <2>1 DEF QuotaInv, QuotaTypeOK, DeltaInv, FlushPushFails
  <2>. QED BY <1>1, <2>1, <2>2, <2>3, CountsMove DEF QuotaInv
<1>. QED BY <1>1, <1>2, <1>3, <1>4, <1>5, <1>6 DEF QuotaInv

\* The limits are refreshed.
LEMMA FlushLimitsKeeps ==
    ASSUME QuotaInv, NEW f \in Gateways, FlushLimits(f)
    PROVE  QuotaInv'
<1>1. QuotaTypeOK'
  BY Times, QuotaAssumption DEF QuotaInv, QuotaTypeOK, FlushLimits
<1>2. DeltaInv'
  BY QuotaAssumption DEF QuotaInv, QuotaTypeOK, DeltaInv, FlushLimits
<1>3. PushedInv'
  BY Times, QuotaAssumption DEF QuotaInv, QuotaTypeOK, DeltaInv, PushedInv, Taken, FlushLimits
<1>4. LagInv'
  BY QuotaAssumption DEF QuotaInv, QuotaTypeOK, DeltaInv, PushedInv, LagInv, Taken, FlushLimits
<1>5. OvershootBound'
  BY QuotaAssumption DEF QuotaInv, QuotaTypeOK, LagInv, Taken, OvershootBound, FlushLimits
<1>6. Conserved'
  BY DEF QuotaInv, Conserved, FlushLimits
<1>. QED BY <1>1, <1>2, <1>3, <1>4, <1>5, <1>6 DEF QuotaInv

\* The sum since the bucket includes the row of this minute.
LEMMA FlushUsageKeeps ==
    ASSUME QuotaInv, NEW f \in Gateways, FlushUsage(f)
    PROVE  QuotaInv'
<1>0. UsageSince(bucket[f]) \in Nat /\ usage[minute] <= UsageSince(bucket[f])
  BY SinceMinute DEF QuotaInv
<1>1. QuotaTypeOK'
  BY <1>0, Times, QuotaAssumption DEF QuotaInv, QuotaTypeOK, FlushUsage
<1>2. DeltaInv'
  BY <1>0, QuotaAssumption DEF QuotaInv, QuotaTypeOK, DeltaInv, FlushUsage
<1>3. PushedInv'
  BY <1>0, Times, QuotaAssumption DEF QuotaInv, QuotaTypeOK, DeltaInv, PushedInv, Taken, FlushUsage
<1>4. LagInv'
  BY <1>0, QuotaAssumption DEF QuotaInv, QuotaTypeOK, DeltaInv, PushedInv, LagInv, Taken, FlushUsage
<1>5. OvershootBound'
  BY <1>0, QuotaAssumption DEF QuotaInv, QuotaTypeOK, LagInv, Taken, OvershootBound, FlushUsage
<1>6. Conserved'
  BY DEF QuotaInv, Conserved, FlushUsage
<1>. QED BY <1>1, <1>2, <1>3, <1>4, <1>5, <1>6 DEF QuotaInv

\* A refresh that fails impairs the gateway.
LEMMA FlushAbortsKeeps ==
    ASSUME QuotaInv, NEW f \in Gateways, FlushAborts(f)
    PROVE  QuotaInv'
<1>1. QuotaTypeOK'
  BY Times, QuotaAssumption DEF QuotaInv, QuotaTypeOK, FlushAborts
<1>2. DeltaInv'
  BY QuotaAssumption DEF QuotaInv, QuotaTypeOK, DeltaInv, FlushAborts
<1>3. PushedInv'
  BY Times, QuotaAssumption DEF QuotaInv, QuotaTypeOK, DeltaInv, PushedInv, Taken, FlushAborts
<1>4. LagInv'
  BY QuotaAssumption DEF QuotaInv, QuotaTypeOK, DeltaInv, PushedInv, LagInv, Taken, FlushAborts
<1>5. OvershootBound'
  BY QuotaAssumption DEF QuotaInv, QuotaTypeOK, LagInv, Taken, OvershootBound, FlushAborts
<1>6. Conserved'
  BY DEF QuotaInv, Conserved, FlushAborts
<1>. QED BY <1>1, <1>2, <1>3, <1>4, <1>5, <1>6 DEF QuotaInv

\* What was seen includes all that was taken.
LEMMA FlushPublishKeeps ==
    ASSUME QuotaInv, NEW f \in Gateways, FlushPublish(f)
    PROVE  QuotaInv'
<1>1. QuotaTypeOK'
  BY Times, QuotaAssumption DEF QuotaInv, QuotaTypeOK, FlushPublish
<1>2. DeltaInv'
  BY QuotaAssumption DEF QuotaInv, QuotaTypeOK, DeltaInv, FlushPublish
<1>3. PushedInv'
  BY Times, QuotaAssumption DEF QuotaInv, QuotaTypeOK, DeltaInv, PushedInv, Taken, FlushPublish
<1>4. LagInv'
  BY QuotaAssumption DEF QuotaInv, QuotaTypeOK, DeltaInv, PushedInv, LagInv, Taken, FlushPublish
<1>5. OvershootBound'
  BY QuotaAssumption DEF QuotaInv, QuotaTypeOK, LagInv, Taken, OvershootBound, FlushPublish
<1>6. Conserved'
  BY DEF QuotaInv, Conserved, FlushPublish
<1>. QED BY <1>1, <1>2, <1>3, <1>4, <1>5, <1>6 DEF QuotaInv

\* In a new minute nothing was admitted yet.
LEMMA NewMinuteKeeps ==
    ASSUME QuotaInv, NewMinute
    PROVE  QuotaInv'
<1>1. QuotaTypeOK'
  BY QuotaAssumption DEF QuotaInv, QuotaTypeOK, Minutes, NewMinute
<1>2. DeltaInv'
  BY QuotaAssumption DEF QuotaInv, QuotaTypeOK, DeltaInv, NewMinute
<1>3. PushedInv'
  BY QuotaAssumption DEF QuotaInv, QuotaTypeOK, DeltaInv, PushedInv, Taken, Minutes, NewMinute
<1>4. LagInv'
  BY QuotaAssumption DEF QuotaInv, QuotaTypeOK, DeltaInv, PushedInv, LagInv, Taken, NewMinute
<1>5. OvershootBound'
  BY QuotaAssumption DEF QuotaInv, QuotaTypeOK, LagInv, Taken, OvershootBound, NewMinute
<1>6. Conserved'
  BY DEF QuotaInv, Conserved, NewMinute
<1>. QED BY <1>1, <1>2, <1>3, <1>4, <1>5, <1>6 DEF QuotaInv

\* The invariant of the limiter is one.
THEOREM QuotaInvariant == QuotaSpec => []QuotaInv
<1>1. QuotaInv /\ [QuotaNext]_quotaVars => QuotaInv'
  <2>. SUFFICES ASSUME QuotaInv, [QuotaNext]_quotaVars PROVE QuotaInv'
    OBVIOUS
  <2>1. ASSUME NEW c \in Callers, AllowStep(c) PROVE QuotaInv'
    BY <2>1, ReadLimitsKeeps, AdmitUnlimitedKeeps, AdmitKeeps, DenyKeeps DEF AllowStep
  <2>2. ASSUME NEW f \in Gateways, FlushStep(f) PROVE QuotaInv'
    BY <2>2, FlushBeginKeeps, FlushSwapKeeps, FlushPushKeeps, FlushPushFailsKeeps,
       FlushLimitsKeeps, FlushUsageKeeps, FlushAbortsKeeps, FlushPublishKeeps DEF FlushStep
  <2>3. CASE NewMinute
    BY <2>3, NewMinuteKeeps
  <2>4. CASE UNCHANGED quotaVars
    BY <2>4 DEF quotaVars, QuotaInv, QuotaTypeOK, DeltaInv, PushedInv, LagInv, Taken,
                OvershootBound, Conserved
  <2>. QED BY <2>1, <2>2, <2>3, <2>4 DEF QuotaNext
<1>. QED BY <1>1, InitQuota, PTL DEF QuotaSpec

\* The limiter's maps, the usage rows and the variables of Allow and flush stay
\* within their types; a flush never works on a bucket of the future.
THEOREM QuotaTypeCorrect == QuotaSpec => []QuotaTypeOK
<1>1. QuotaInv => QuotaTypeOK
  BY DEF QuotaInv
<1>. QED BY <1>1, QuotaInvariant, PTL

\* A gateway that knows its limit and reaches the store admits at most twice
\* the limit in a minute, plus what a minute boundary within flush dates back
\* and the calls that two flushes overtake, however many gateways and callers
\* there are.
THEOREM OvershootBoundHolds == QuotaSpec => []OvershootBound
<1>1. QuotaInv => OvershootBound
  BY DEF QuotaInv
<1>. QED BY <1>1, QuotaInvariant, PTL

\* Every admission of every gateway is in exactly one of the usage rows, the
\* flushes under way, the local counters and the failed pushes.
THEOREM ConservedHolds == QuotaSpec => []Conserved
<1>1. QuotaInv => Conserved
  BY DEF QuotaInv
<1>. QED BY <1>1, QuotaInvariant, PTL
=============================================================================
