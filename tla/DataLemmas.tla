---------------------------- MODULE DataLemmas -----------------------------
(***************************************************************************)
(* Least and greatest elements of sets of natural numbers, folds over      *)
(* finite sets and sums, for the proofs about the other modules.           *)
(***************************************************************************)
EXTENDS Integers, FiniteSetsExt, FiniteSetTheorems, TLAPS

(* Every non-empty set of natural numbers has a least element.             *)
LEMMA LeastExists ==
  ASSUME NEW T, T \subseteq Nat, T # {}
  PROVE  \E x \in T : \A y \in T : x <= y
<1>1. PICK x \in T : \A y \in T : ~ (<<y, x>> \in OpToRel(<, Nat))
  BY NatLessThanWellFounded, WFMin
<1>2. \A y \in T : ~ (y < x)
  BY <1>1 DEF OpToRel
<1> QED
  BY <1>2

(* A set of natural numbers with an upper bound has a greatest element,    *)
(* and Max is that.                                                        *)
LEMMA MaxOfBounded ==
  ASSUME NEW S, S \subseteq Nat, S # {}, NEW b \in Nat, \A y \in S : y <= b
  PROVE  Max(S) \in S /\ \A y \in S : y <= Max(S)
<1> DEFINE T == {b - y : y \in S}
<1>1. T \subseteq Nat /\ T # {}
  <2>1. PICK x \in S : TRUE
    OBVIOUS
  <2>2. b - x \in T
    OBVIOUS
  <2>3. ASSUME NEW t \in T PROVE t \in Nat
    <3>1. PICK y \in S : t = b - y
      OBVIOUS
    <3>2. y \in Nat /\ y <= b
      OBVIOUS
    <3> QED
      BY <3>1, <3>2
  <2> QED
    BY <2>2, <2>3
<1>2. PICK t \in T : \A u \in T : t <= u
  BY <1>1, LeastExists
<1>3. PICK x \in S : t = b - x
  <2>1. t \in T
    BY <1>2
  <2> QED
    BY <2>1
<1>4. \A y \in S : x >= y
  BY <1>2, <1>3
<1> QED
  BY <1>4 DEF Max

(* The values of a function on the first n natural numbers are bounded.    *)
LEMMA ValuesAreBounded ==
  ASSUME NEW n \in Nat, NEW f, \A i \in 0 .. n - 1 : f[i] \in Nat
  PROVE  \E b \in Nat : \A i \in 0 .. n - 1 : f[i] <= b
<1> DEFINE Bounds(k) == {b \in Nat : \A i \in 0 .. k - 1 : f[i] <= b}
           T == {k \in 0 .. n : Bounds(k) = {}}
<1>1. ASSUME NEW k \in T, \A j \in T : k <= j PROVE FALSE
  <2>1. k \in 0 .. n /\ Bounds(k) = {}
    OBVIOUS
  <2>2. 0 \in Bounds(0)
    OBVIOUS
  <2>3. k - 1 \in 0 .. n /\ k - 1 \notin T
    <3>1. k # 0
      BY <2>1, <2>2
    <3>2. k - 1 \in 0 .. n /\ ~ (k <= k - 1)
      BY <2>1, <3>1
    <3> HIDE DEF T
    <3> QED
      BY <1>1, <3>2
  <2>4. PICK b \in Bounds(k - 1) : TRUE
    BY <2>3
  <2>5. f[k - 1] \in Nat /\ b \in Nat
    BY <2>1, <2>3
  <2>6. \A i \in 0 .. k - 1 : f[i] <= b + f[k - 1]
    <3> TAKE i \in 0 .. k - 1
    <3>1. CASE i = k - 1
      BY <3>1, <2>5
    <3>2. CASE i \in 0 .. (k - 1) - 1
      <4>1. f[i] <= b /\ f[i] \in Nat
        BY <3>2, <2>1
      <4> QED
        BY <4>1, <2>5
    <3> QED
      BY <3>1, <3>2, <2>1
  <2>7. b + f[k - 1] \in Bounds(k)
    BY <2>5, <2>6
  <2> QED
    BY <2>1, <2>7
<1>2. T = {}
  <2> HIDE DEF T
  <2>1. T \subseteq Nat
    BY DEF T
  <2> QED
    BY <1>1, <2>1, LeastExists
<1>3. n \notin T
  BY <1>2
<1>4. PICK b \in Bounds(n) : TRUE
  BY <1>3
<1> QED
  BY <1>4

-----------------------------------------------------------------------------
(* Of a family of subsets of a finite set, one includes no other.          *)
LEMMA SmallestSet ==
  ASSUME NEW U, IsFiniteSet(U), NEW T, T \subseteq SUBSET U, T # {}
  PROVE  \E t \in T : \A u \in T : u \subseteq t => u = t
<1>1. IsWellFoundedOn(StrictSubsetOrdering(U), FiniteSubsetsOf(U))
  BY FS_StrictSubsetOrderingWellFounded
<1>2. FiniteSubsetsOf(U) = SUBSET U
  BY FS_FiniteSubsetsOfFinite
<1>3. PICK t \in T : \A u \in T : ~ (<<u, t>> \in StrictSubsetOrdering(U))
  BY <1>1, <1>2, WFMin
<1>4. ASSUME NEW u \in T, u \subseteq t PROVE u = t
  BY <1>3, <1>4 DEF StrictSubsetOrdering
<1> QED
  BY <1>4

(***************************************************************************)
(* The folds of the community modules: the elements of U are combined with *)
(* base one by one, ch says which of a set comes last.                     *)
(***************************************************************************)
IsFold(f, U, base, st, ch) ==
  \A t \in SUBSET U : f[t] = IF t = {} THEN base ELSE st[<<f[t \ {ch[t]}], ch[t]>>]

Chooses(ch, U) == \A t \in SUBSET U : t # {} => ch[t] \in t

FoldTable(f, U, R, base, st, ch) ==
  /\ IsFiniteSet(U) /\ base \in R /\ Chooses(ch, U)
  /\ f \in [SUBSET U -> R] /\ IsFold(f, U, base, st, ch)

LEMMA FoldExists ==
  ASSUME NEW U, IsFiniteSet(U), NEW R, NEW base \in R, NEW st \in [R \X U -> R],
         NEW ch, Chooses(ch, U)
  PROVE  \E f : FoldTable(f, U, R, base, st, ch)
<1> DEFINE Upto(n) == {t \in SUBSET U : Cardinality(t) <= n}
           Value(f, t) == IF t = {} THEN base ELSE st[<<f[t \ {ch[t]}], ch[t]>>]
           Good(f, n) == f \in [Upto(n) -> R] /\ \A t \in Upto(n) : f[t] = Value(f, t)
           T == {n \in Nat : ~ \E f : Good(f, n)}
<1>1. ASSUME NEW t \in SUBSET U
      PROVE  /\ Cardinality(t) \in Nat /\ (Cardinality(t) = 0 <=> t = {})
             /\ t # {} => /\ ch[t] \in t /\ ch[t] \in U /\ t \ {ch[t]} \in SUBSET U
                          /\ Cardinality(t \ {ch[t]}) = Cardinality(t) - 1
  <2>1. IsFiniteSet(t)
    BY FS_Subset
  <2>2. Cardinality(t) \in Nat /\ (Cardinality(t) = 0 <=> t = {})
    BY <2>1, FS_CardinalityType, FS_EmptySet
  <2>3. ASSUME t # {} PROVE Cardinality(t \ {ch[t]}) = Cardinality(t) - 1
    <3>1. ch[t] \in t
      BY <2>3 DEF Chooses
    <3> QED
      BY <2>1, <3>1, FS_RemoveElement
  <2> QED
    BY <2>2, <2>3 DEF Chooses
<1>2. ASSUME T # {} PROVE FALSE
  <2>1. PICK n \in T : \A m \in T : n <= m
    <3>1. T \subseteq Nat
      OBVIOUS
    <3> HIDE DEF T
    <3> QED
      BY <1>2, <3>1, LeastExists
  <2>2. n \in Nat /\ ~ \E f : Good(f, n)
    OBVIOUS
  <2>3. CASE n = 0
    <3> DEFINE g == [t \in Upto(0) |-> base]
    <3>1. \A t \in Upto(0) : t = {}
      <4> TAKE t \in Upto(0)
      <4>1. t \in SUBSET U /\ Cardinality(t) <= 0
        OBVIOUS
      <4>2. Cardinality(t) \in Nat /\ (Cardinality(t) = 0 <=> t = {})
        BY <1>1, <4>1
      <4> QED
        BY <4>1, <4>2
    <3>2. Good(g, 0)
      BY <3>1
    <3> QED
      BY <2>2, <2>3, <3>2
  <2>4. CASE n # 0
    <3>1. n - 1 \in Nat /\ n - 1 \notin T
      <4>1. n - 1 \in Nat /\ ~ (n <= n - 1)
        BY <2>2, <2>4
      <4> HIDE DEF T
      <4> QED
        BY <2>1, <4>1
    <3>2. PICK f : Good(f, n - 1)
      BY <3>1
    <3> DEFINE g == [t \in Upto(n) |-> Value(f, t)]
    <3> HIDE DEF T
    <3>3. ASSUME NEW t \in Upto(n), t # {} PROVE t \ {ch[t]} \in Upto(n - 1)
      <4>1. t \in SUBSET U /\ Cardinality(t) <= n
        OBVIOUS
      <4>2. /\ Cardinality(t) \in Nat /\ t \ {ch[t]} \in SUBSET U
            /\ Cardinality(t \ {ch[t]}) = Cardinality(t) - 1
        BY <1>1, <3>3, <4>1
      <4> QED
        BY <2>2, <4>1, <4>2
    <3>4. \A t \in Upto(n - 1) : t \in Upto(n)
      <4> TAKE t \in Upto(n - 1)
      <4>1. t \in SUBSET U /\ Cardinality(t) <= n - 1 /\ Cardinality(t) \in Nat
        BY <1>1
      <4> QED
        BY <2>2, <4>1
    <3>5. ASSUME NEW t \in Upto(n) PROVE Value(f, t) \in R
      <4>1. CASE t = {}
        BY <4>1
      <4>2. CASE t # {}
        <5>1. f[t \ {ch[t]}] \in R
          BY <3>2, <3>3, <4>2
        <5>2. ch[t] \in U
          BY <1>1, <4>2
        <5> QED
          BY <4>2, <5>1, <5>2
      <4> QED
        BY <4>1, <4>2
    <3>6. ASSUME NEW t \in Upto(n - 1) PROVE g[t] = f[t]
      BY <3>2, <3>4
    <3>7. ASSUME NEW t \in Upto(n) PROVE g[t] = Value(g, t)
      <4>1. CASE t = {}
        BY <4>1
      <4>2. CASE t # {}
        <5>1. g[t \ {ch[t]}] = f[t \ {ch[t]}]
          BY <3>3, <3>6, <4>2
        <5> QED
          BY <4>2, <5>1
      <4> QED
        BY <4>1, <4>2
    <3>8. g \in [Upto(n) -> R]
      BY <3>5
    <3>9. Good(g, n)
      BY <3>7, <3>8
    <3> HIDE DEF g
    <3> QED
      BY <2>2, <3>9
  <2> QED
    BY <2>3, <2>4
<1>3. Cardinality(U) \in Nat /\ Cardinality(U) \notin T
  BY <1>2, FS_CardinalityType
<1>4. PICK f : Good(f, Cardinality(U))
  BY <1>3
<1>5. Upto(Cardinality(U)) = SUBSET U
  <2>1. \A t \in SUBSET U : Cardinality(t) <= Cardinality(U)
    BY FS_Subset
  <2> QED
    BY <2>1
<1>6. f \in [SUBSET U -> R] /\ \A t \in SUBSET U : f[t] = Value(f, t)
  BY <1>4, <1>5
<1> QED
  BY <1>6 DEF IsFold, FoldTable

(* There is no other, even if st says nothing of values outside R.         *)
LikeFold(g, U, R, base, st, ch) ==
  /\ g[{}] = base
  /\ \A t \in SUBSET U : t # {} /\ g[t \ {ch[t]}] \in R
                        => g[t] = st[<<g[t \ {ch[t]}], ch[t]>>]

LEMMA FoldUnique ==
  ASSUME NEW U, NEW R, NEW base, NEW st, NEW ch, NEW f, NEW g,
         FoldTable(f, U, R, base, st, ch), LikeFold(g, U, R, base, st, ch)
  PROVE  \A t \in SUBSET U : g[t] = f[t]
<1> USE DEF FoldTable
<1> DEFINE T == {t \in SUBSET U : g[t] # f[t]}
<1>1. ASSUME T # {} PROVE FALSE
  <2>1. PICK t \in T : \A u \in T : u \subseteq t => u = t
    <3>1. T \subseteq SUBSET U
      OBVIOUS
    <3> HIDE DEF T
    <3> QED
      BY <1>1, <3>1, SmallestSet
  <2>2. t \in SUBSET U /\ g[t] # f[t]
    OBVIOUS
  <2>3. t # {}
    BY <2>2 DEF IsFold, LikeFold
  <2>4. ch[t] \in t
    BY <2>2, <2>3 DEF Chooses
  <2>5. t \ {ch[t]} \in SUBSET U /\ t \ {ch[t]} \notin T
    BY <2>1, <2>2, <2>4
  <2>6. g[t \ {ch[t]}] = f[t \ {ch[t]}] /\ f[t \ {ch[t]}] \in R
    BY <2>5
  <2>7. g[t] = st[<<f[t \ {ch[t]}], ch[t]>>]
    BY <2>2, <2>3, <2>6 DEF LikeFold
  <2>8. f[t] = st[<<f[t \ {ch[t]}], ch[t]>>]
    BY <2>2, <2>3 DEF IsFold
  <2> QED
    BY <2>2, <2>7, <2>8
<1> QED
  BY <1>1

-----------------------------------------------------------------------------
(* The sum of the levels in the places S of a list.                        *)
LevelSum(list, S) == MapThenSumSet(LAMBDA x : list[x].rssi, S)

IsSum(f, list, S) ==
  f = [t \in SUBSET S |->
         IF t = {} THEN 0
         ELSE list[CHOOSE x \in t : TRUE].rssi + f[t \ {CHOOSE x \in t : TRUE}]]

LEMMA SumDefined ==
  ASSUME NEW list, NEW S, NEW f, IsSum(f, list, S)
  PROVE  \E g : IsSum(g, list, S) /\ LevelSum(list, S) = g[S]
BY DEF LevelSum, IsSum, MapThenSumSet, MapThenFoldSet

(* The order of the terms does not matter.                                 *)
SumTable(f, list, U) ==
  /\ f \in [SUBSET U -> Int] /\ f[{}] = 0
  /\ \A t \in SUBSET U : /\ LevelSum(list, t) = f[t]
                         /\ \A x \in t : f[t] = list[x].rssi + f[t \ {x}]

LEMMA SumAnyOrder ==
  ASSUME NEW list, NEW U, IsFiniteSet(U), \A x \in U : list[x].rssi \in Int
  PROVE  \E f : SumTable(f, list, U)
<1> DEFINE ch == [t \in SUBSET U |-> CHOOSE x \in t : TRUE]
           st == [p \in Int \X U |-> list[p[2]].rssi + p[1]]
<1>1. \A t \in SUBSET U : t # {} => ch[t] \in t /\ ch[t] = CHOOSE x \in t : TRUE
  OBVIOUS
<1>2. Chooses(ch, U)
  BY <1>1 DEF Chooses
<1>3. st \in [Int \X U -> Int]
  OBVIOUS
<1>4. \A n \in Int, x \in U : st[<<n, x>>] = list[x].rssi + n
  OBVIOUS
<1> HIDE DEF ch, st
<1> DEFINE I == Int
           z == 0
<1>a. z \in I /\ st \in [I \X U -> I]
  BY <1>3
<1>5. PICK f : FoldTable(f, U, I, z, st, ch)
  <2> HIDE DEF I, z
  <2> QED
    BY <1>2, <1>a, FoldExists
<1>b. f \in [SUBSET U -> Int] /\ IsFold(f, U, 0, st, ch)
  BY <1>5 DEF FoldTable
<1>6. f[{}] = 0 /\ \A t \in SUBSET U : t # {} => f[t] = list[ch[t]].rssi + f[t \ {ch[t]}]
  <2>1. f[{}] = 0
    BY <1>b DEF IsFold
  <2>2. ASSUME NEW t \in SUBSET U, t # {} PROVE f[t] = list[ch[t]].rssi + f[t \ {ch[t]}]
    <3>1. f[t] = st[<<f[t \ {ch[t]}], ch[t]>>]
      BY <1>b, <2>2 DEF IsFold
    <3>2. ch[t] \in U /\ f[t \ {ch[t]}] \in Int
      BY <1>1, <1>b, <2>2
    <3> QED
      BY <1>4, <3>1, <3>2
  <2> QED
    BY <2>1, <2>2
<1>7. ASSUME NEW t \in SUBSET U PROVE LevelSum(list, t) = f[t]
  <2> DEFINE h == [u \in SUBSET t |-> f[u]]
  <2>1. \A u \in SUBSET t : u \in SUBSET U /\ (u # {} => u \ {ch[u]} \in SUBSET t)
    OBVIOUS
  <2>2. IsSum(h, list, t)
    <3>1. \A u \in SUBSET t :
             h[u] = IF u = {} THEN 0
                    ELSE list[CHOOSE x \in u : TRUE].rssi + h[u \ {CHOOSE x \in u : TRUE}]
      <4> TAKE u \in SUBSET t
      <4>1. CASE u = {}
        BY <1>6, <4>1
      <4>2. CASE u # {}
        <5>1. h[u] = list[ch[u]].rssi + h[u \ {ch[u]}]
          BY <1>6, <2>1, <4>2
        <5>2. ch[u] = CHOOSE x \in u : TRUE
          BY <1>1, <2>1, <4>2
        <5> HIDE DEF h
        <5> QED
          BY <4>2, <5>1, <5>2
      <4> QED
        BY <4>1, <4>2
    <3> QED
      BY <3>1 DEF IsSum
  <2>3. PICK g : IsSum(g, list, t) /\ LevelSum(list, t) = g[t]
    <3> HIDE DEF h
    <3> QED
      BY <2>2, SumDefined
  <2>4. /\ g[{}] = 0
        /\ \A u \in SUBSET t : u # {} => g[u] = list[ch[u]].rssi + g[u \ {ch[u]}]
    <3>1. \A u \in SUBSET t :
             g[u] = IF u = {} THEN 0
                    ELSE list[CHOOSE x \in u : TRUE].rssi + g[u \ {CHOOSE x \in u : TRUE}]
      BY <2>3, Zenon DEF IsSum
    <3>2. \A u \in SUBSET t : u # {} => ch[u] = CHOOSE x \in u : TRUE
      BY <1>1, <2>1
    <3>3. g[{}] = 0
      BY <3>1
    <3>4. ASSUME NEW u \in SUBSET t, u # {} PROVE g[u] = list[ch[u]].rssi + g[u \ {ch[u]}]
      <4>1. g[u] = list[CHOOSE x \in u : TRUE].rssi + g[u \ {CHOOSE x \in u : TRUE}]
        BY <3>1, <3>4
      <4> QED
        BY <3>2, <3>4, <4>1
    <3> QED
      BY <3>3, <3>4
  <2>5. \A u \in SUBSET t : u # {} /\ g[u \ {ch[u]}] \in Int
                            => g[u] = st[<<g[u \ {ch[u]}], ch[u]>>]
    <3> SUFFICES ASSUME NEW u \in SUBSET t, u # {}, g[u \ {ch[u]}] \in Int
                 PROVE  g[u] = st[<<g[u \ {ch[u]}], ch[u]>>]
      OBVIOUS
    <3>1. ch[u] \in U
      BY <1>1, <2>1
    <3> QED
      BY <1>4, <2>4, <3>1
  <2>6. IsFiniteSet(t) /\ Chooses(ch, t) /\ h \in [SUBSET t -> Int]
    BY <1>2, <1>b, <2>1, FS_Subset DEF Chooses
  <2>7. IsFold(h, t, 0, st, ch)
    BY <1>b, <2>1 DEF IsFold
  <2>8. h[t] = f[t]
    OBVIOUS
  <2> HIDE DEF h
  <2>9. g[t] = h[t]
    <3>1. FoldTable(h, t, I, z, st, ch) /\ LikeFold(g, t, I, z, st, ch)
      BY <2>4, <2>5, <2>6, <2>7 DEF LikeFold, FoldTable
    <3> HIDE DEF I, z
    <3>2. \A u \in SUBSET t : g[u] = h[u]
      BY <3>1, FoldUnique
    <3> QED
      BY <3>2
  <2> QED
    BY <2>3, <2>8, <2>9
<1>8. \A t \in SUBSET U : \A x \in t : f[t] = list[x].rssi + f[t \ {x}]
  <2> DEFINE T == {t \in SUBSET U : \E x \in t : f[t] # list[x].rssi + f[t \ {x}]}
  <2>1. ASSUME T # {} PROVE FALSE
    <3>1. PICK t \in T : \A u \in T : u \subseteq t => u = t
      <4>1. T \subseteq SUBSET U
        OBVIOUS
      <4> HIDE DEF T
      <4> QED
        BY <2>1, <4>1, SmallestSet
    <3>2. PICK x \in t : f[t] # list[x].rssi + f[t \ {x}]
      OBVIOUS
    <3> DEFINE c == ch[t]
    <3>3. t \in SUBSET U /\ t # {} /\ c \in t
      BY <1>1
    <3>4. f[t] = list[c].rssi + f[t \ {c}]
      BY <1>6, <3>3
    <3>5. x # c
      BY <3>2, <3>4
    <3>6. t \ {c} \notin T /\ t \ {x} \notin T
      BY <3>1, <3>3
    <3>7. f[t \ {c}] = list[x].rssi + f[(t \ {c}) \ {x}]
      BY <3>3, <3>5, <3>6
    <3>8. f[t \ {x}] = list[c].rssi + f[(t \ {x}) \ {c}]
      BY <3>3, <3>5, <3>6
    <3>9. (t \ {x}) \ {c} = (t \ {c}) \ {x} /\ (t \ {c}) \ {x} \in SUBSET U
      BY <3>3
    <3>10. f[(t \ {c}) \ {x}] \in Int /\ list[x].rssi \in Int /\ list[c].rssi \in Int
      BY <1>b, <3>3, <3>9
    <3> DEFINE y == list[x].rssi
               d == list[c].rssi
               e == f[(t \ {c}) \ {x}]
    <3>11. f[t] = d + (y + e) /\ f[t \ {x}] = d + e /\ y \in Int /\ d \in Int /\ e \in Int
      BY <3>4, <3>7, <3>8, <3>9, <3>10
    <3> HIDE DEF y, d, e, T, c
    <3>12. f[t] = y + f[t \ {x}]
      BY <3>11
    <3> QED
      BY <3>2, <3>12 DEF y
  <2> QED
    BY <2>1
<1> QED
  BY <1>b, <1>6, <1>7, <1>8 DEF SumTable

(***************************************************************************)
(* Lists whose places correspond one to one, with equal levels, have equal *)
(* sums.                                                                   *)
(***************************************************************************)
SameLevels(b, U, V, l, m) ==
  /\ IsFiniteSet(U) /\ b \in [U -> V]
  /\ \A x, y \in U : b[x] = b[y] => x = y
  /\ \A v \in V : \E x \in U : b[x] = v
  /\ \A x \in U : l[x].rssi = m[b[x]].rssi /\ l[x].rssi \in Int

LEMMA SumsAgree ==
  ASSUME NEW U, NEW V, NEW b, NEW l, NEW m, SameLevels(b, U, V, l, m)
  PROVE  /\ LevelSum(l, U) = LevelSum(m, V)
         /\ IsFiniteSet(V) /\ Cardinality(V) = Cardinality(U)
<1>. USE DEF SameLevels
<1>1. b \in Bijection(U, V)
  BY DEF Bijection, Injection, Surjection, IsInjective
<1>2. IsFiniteSet(V) /\ Cardinality(V) = Cardinality(U)
  BY <1>1, FS_Bijection DEF ExistsBijection
<1>3. \A v \in V : m[v].rssi \in Int
  OBVIOUS
<1>4. PICK f : SumTable(f, l, U)
  BY SumAnyOrder
<1>5. PICK g : SumTable(g, m, V)
  BY <1>2, <1>3, SumAnyOrder
<1> DEFINE Image(t) == {b[x] : x \in t}
           T == {t \in SUBSET U : f[t] # g[Image(t)]}
<1>6. ASSUME T # {} PROVE FALSE
  <2>1. PICK t \in T : \A u \in T : u \subseteq t => u = t
    <3>1. T \subseteq SUBSET U
      OBVIOUS
    <3> HIDE DEF T
    <3> QED
      BY <1>6, <3>1, SmallestSet
  <2>2. t \in SUBSET U /\ f[t] # g[Image(t)]
    OBVIOUS
  <2>3. t # {}
    <3>1. Image({}) = {}
      OBVIOUS
    <3> HIDE DEF Image
    <3> QED
      BY <1>4, <1>5, <2>2, <3>1 DEF SumTable
  <2>4. PICK x \in t : TRUE
    BY <2>3
  <2>5. t \ {x} \notin T /\ t \ {x} \in SUBSET U
    BY <2>1, <2>2, <2>4
  <2>6. f[t \ {x}] = g[Image(t \ {x})]
    BY <2>5
  <2>7. Image(t \ {x}) = Image(t) \ {b[x]} /\ b[x] \in Image(t) /\ Image(t) \in SUBSET V
    BY <2>2
  <2>8. f[t] = l[x].rssi + f[t \ {x}]
    BY <1>4, <2>2 DEF SumTable
  <2>9. g[Image(t)] = m[b[x]].rssi + g[Image(t) \ {b[x]}]
    BY <1>5, <2>7 DEF SumTable
  <2>10. l[x].rssi = m[b[x]].rssi
    BY <2>2
  <2> HIDE DEF Image, T
  <2> QED
    BY <2>2, <2>6, <2>7, <2>8, <2>9, <2>10
<1>7. f[U] = g[Image(U)]
  BY <1>6
<1>8. Image(U) = V
  OBVIOUS
<1> HIDE DEF Image
<1> QED
  BY <1>2, <1>4, <1>5, <1>7, <1>8 DEF SumTable

-----------------------------------------------------------------------------
(***************************************************************************)
(* A property of what is combined so far, P[t] after the elements of t,    *)
(* holds of the whole fold when every step keeps it.                       *)
(***************************************************************************)
FoldKeeps(P, U, R, base, st, ch) ==
  /\ IsFiniteSet(U) /\ base \in R /\ st \in [R \X U -> R] /\ Chooses(ch, U)
  /\ base \in P[{}]
  /\ \A t \in SUBSET U : t # {} =>
       \A v \in R : v \in P[t \ {ch[t]}] => st[<<v, ch[t]>>] \in P[t]

LEMMA FoldSatisfies ==
  ASSUME NEW P, NEW U, NEW R, NEW base, NEW st, NEW ch, FoldKeeps(P, U, R, base, st, ch)
  PROVE  \E f : FoldTable(f, U, R, base, st, ch) /\ f[U] \in P[U]
<1>1. PICK f : FoldTable(f, U, R, base, st, ch)
  BY FoldExists DEF FoldKeeps
<1> DEFINE T == {t \in SUBSET U : f[t] \notin P[t]}
<1>2. ASSUME T # {} PROVE FALSE
  <2>1. PICK t \in T : \A u \in T : u \subseteq t => u = t
    <3>1. T \subseteq SUBSET U /\ IsFiniteSet(U)
      BY DEF FoldKeeps
    <3> HIDE DEF T
    <3> QED
      BY <1>2, <3>1, SmallestSet
  <2>2. t \in SUBSET U /\ f[t] \notin P[t]
    OBVIOUS
  <2>3. t # {}
    BY <1>1, <2>2 DEF FoldTable, IsFold, FoldKeeps
  <2> DEFINE c == ch[t]
  <2>4. c \in t
    BY <2>2, <2>3 DEF FoldKeeps, Chooses
  <2>5. t \ {c} \in SUBSET U /\ t \ {c} \notin T
    BY <2>1, <2>2, <2>4
  <2>6. f[t \ {c}] \in P[t \ {c}] /\ f[t \ {c}] \in R
    BY <1>1, <2>5 DEF FoldTable
  <2>7. f[t] = st[<<f[t \ {c}], c>>]
    BY <1>1, <2>2, <2>3 DEF FoldTable, IsFold
  <2> HIDE DEF T
  <2> QED
    BY <2>2, <2>3, <2>6, <2>7 DEF FoldKeeps
<1>3. f[U] \in P[U]
  BY <1>2
<1> QED
  BY <1>1, <1>3

(* The same for the folds over a sequence of n elements, which go from the *)
(* first to the last.                                                      *)
LastOf(n) == [t \in SUBSET (1 .. n) |-> Max(t)]

LEMMA LastIsMax ==
  ASSUME NEW n \in Nat
  PROVE  /\ IsFiniteSet(1 .. n) /\ Chooses(LastOf(n), 1 .. n)
         /\ \A k \in 1 .. n : LastOf(n)[1 .. k] = k
<1>1. ASSUME NEW t \in SUBSET (1 .. n), t # {}
      PROVE  Max(t) \in t /\ \A y \in t : y <= Max(t)
  <2>1. t \subseteq Nat /\ \A y \in t : y <= n
    OBVIOUS
  <2> QED
    BY <1>1, <2>1, MaxOfBounded
<1>2. Chooses(LastOf(n), 1 .. n)
  BY <1>1 DEF Chooses, LastOf
<1>3. IsFiniteSet(1 .. n)
  BY FS_Interval
<1>4. ASSUME NEW k \in 1 .. n PROVE LastOf(n)[1 .. k] = k
  <2>1. 1 .. k \in SUBSET (1 .. n) /\ k \in 1 .. k
    OBVIOUS
  <2>2. Max(1 .. k) \in 1 .. k /\ k <= Max(1 .. k)
    BY <1>1, <2>1
  <2> QED
    BY <2>1, <2>2 DEF LastOf
<1> QED
  BY <1>2, <1>3, <1>4

WalkKeeps(P, n, R, base, st) ==
  /\ n \in Nat /\ base \in R /\ st \in [R \X (1 .. n) -> R]
  /\ base \in P[0]
  /\ \A k \in 1 .. n : \A v \in R : v \in P[k - 1] => st[<<v, k>>] \in P[k]

LEMMA WalkSatisfies ==
  ASSUME NEW P, NEW n, NEW R, NEW base, NEW st, WalkKeeps(P, n, R, base, st)
  PROVE  \E f : FoldTable(f, 1 .. n, R, base, st, LastOf(n)) /\ f[1 .. n] \in P[n]
<1>1. n \in Nat /\ base \in R /\ st \in [R \X (1 .. n) -> R]
  BY DEF WalkKeeps
<1> DEFINE U == 1 .. n
           ch == LastOf(n)
<1>2. IsFiniteSet(U) /\ Chooses(ch, U) /\ \A k \in 1 .. n : ch[1 .. k] = k
  BY <1>1, LastIsMax
<1>3. PICK f : FoldTable(f, U, R, base, st, ch)
  <2>1. st \in [R \X U -> R]
    BY <1>1
  <2> HIDE DEF U, ch
  <2> QED
    BY <1>1, <1>2, <2>1, FoldExists
<1>4. /\ f \in [SUBSET U -> R] /\ f[{}] = base
      /\ \A t \in SUBSET U : t # {} => f[t] = st[<<f[t \ {ch[t]}], ch[t]>>]
  <2> HIDE DEF U, ch
  <2>1. f \in [SUBSET U -> R] /\ IsFold(f, U, base, st, ch)
    BY <1>3 DEF FoldTable
  <2> QED
    BY <2>1 DEF IsFold
<1> HIDE DEF ch
<1> DEFINE T == {k \in 0 .. n : f[1 .. k] \notin P[k]}
<1>5. ASSUME T # {} PROVE FALSE
  <2>1. PICK k \in T : \A j \in T : k <= j
    <3>1. T \subseteq Nat
      BY <1>1
    <3> HIDE DEF T
    <3> QED
      BY <1>5, <3>1, LeastExists
  <2>2. k \in 0 .. n /\ f[1 .. k] \notin P[k]
    OBVIOUS
  <2>3. k # 0
    <3>1. 1 .. 0 = {}
      OBVIOUS
    <3> QED
      BY <1>4, <2>2, <3>1 DEF WalkKeeps
  <2>4. k \in 1 .. n /\ k - 1 \in 0 .. n /\ ~ (k <= k - 1)
    BY <1>1, <2>2, <2>3
  <2>5. k - 1 \notin T
    <3> HIDE DEF T
    <3> QED
      BY <2>1, <2>4
  <2>6. f[1 .. k - 1] \in P[k - 1]
    BY <2>4, <2>5
  <2>7. /\ 1 .. k \in SUBSET U /\ 1 .. k - 1 \in SUBSET U /\ 1 .. k # {}
        /\ (1 .. k) \ {k} = 1 .. k - 1
    BY <1>1, <2>4
  <2>8. f[1 .. k] = st[<<f[1 .. k - 1], k>>] /\ f[1 .. k - 1] \in R
    BY <1>2, <1>4, <2>4, <2>7
  <2> HIDE DEF T
  <2> QED
    BY <2>2, <2>4, <2>6, <2>8 DEF WalkKeeps
<1>6. n \in 0 .. n /\ f[1 .. n] \in P[n]
  BY <1>1, <1>5
<1> QED
  BY <1>3, <1>6 DEF ch

(* The least element.                                                      *)
LEMMA MinOfNat ==
  ASSUME NEW S, S \subseteq Nat, S # {}
  PROVE  Min(S) \in S /\ \A y \in S : Min(S) <= y
<1>1. PICK x \in S : \A y \in S : x <= y
  BY LeastExists
<1> QED
  BY <1>1 DEF Min
=============================================================================
