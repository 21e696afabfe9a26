--------------------------- MODULE TabularProofs ---------------------------
(***************************************************************************)
(* The tabular steps for every source: any number of rows, any columns,    *)
(* labels and groups, and any order the seed puts the groups in. What a    *)
(* fold computes is shown by induction over the subsets of its domain.     *)
(***************************************************************************)
EXTENDS MCTabularData, DecisionsProofs

-----------------------------------------------------------------------------
(* Folds.                                                                  *)

\* f is the running fold over the subsets of K: pick names the element that is
\* taken last, step what it makes of the result for the others.
IsFold(f, step, pick, base, K) ==
    f = [s \in SUBSET K |-> IF s = {} THEN base ELSE step[<<pick[s], f[s \ {pick[s]}]>>]]

\* Two running folds agree where both are defined.
LEMMA FoldsAgree ==
    ASSUME NEW step, NEW pick, NEW base, NEW K, NEW M, NEW U, IsFiniteSet(U),
           U \subseteq K, U \subseteq M,
           \A s \in SUBSET K : s # {} => pick[s] \in s,
           NEW f, IsFold(f, step, pick, base, K), NEW g, IsFold(g, step, pick, base, M)
    PROVE  f[U] = g[U]
<1> DEFINE T == {s \in SUBSET U : f[s] # g[s]}
<1> SUFFICES ASSUME T # {} PROVE FALSE
  OBVIOUS
<1>a. T \in SUBSET SUBSET U
  OBVIOUS
<1>1. PICK s \in T : \A t \in T : t \subseteq s => t = s
  <2> HIDE DEF T
  <2> QED
    BY <1>a, SmallestSubset
<1>2. s \in SUBSET U /\ s \in SUBSET K /\ s \in SUBSET M
  OBVIOUS
<1>3. s # {}
  BY <1>1, <1>2 DEF IsFold
<1>4. pick[s] \in s
  BY <1>2, <1>3
<1>5. f[s \ {pick[s]}] = g[s \ {pick[s]}]
  BY <1>1, <1>2, <1>4
<1>6. /\ f[s] = step[<<pick[s], f[s \ {pick[s]}]>>]
      /\ g[s] = step[<<pick[s], g[s \ {pick[s]}]>>]
  BY <1>2, <1>3 DEF IsFold
<1> QED
  BY <1>1, <1>5, <1>6

\* There is a running fold over every finite set.
LEMMA FoldExists ==
    ASSUME NEW step, NEW pick, NEW base, NEW D, IsFiniteSet(D),
           \A s \in SUBSET D : s # {} => pick[s] \in s
    PROVE  \E f : IsFold(f, step, pick, base, D)
<1> DEFINE Has(K) == \E f : IsFold(f, step, pick, base, K)
           T == {K \in SUBSET D : ~Has(K)}
<1> SUFFICES ASSUME T # {} PROVE FALSE
  BY DEF Has
<1>a. T \in SUBSET SUBSET D
  OBVIOUS
<1>1. PICK K \in T : \A t \in T : t \subseteq K => t = K
  <2> HIDE DEF T
  <2> QED
    BY <1>a, SmallestSubset
<1> DEFINE Fun(s) == CHOOSE f : IsFold(f, step, pick, base, s)
           Rest(s) == s \ {pick[s]}
           f == [s \in SUBSET K |->
                   IF s = {} THEN base ELSE step[<<pick[s], Fun(Rest(s))[Rest(s)]>>]]
<1>2. \A s \in SUBSET K : s # K => IsFold(Fun(s), step, pick, base, s)
  <2> TAKE s \in SUBSET K
  <2>1. s # K => Has(s)
    BY <1>1
  <2> QED
    BY <2>1
<1> HIDE DEF Fun
<1>3. \A s \in SUBSET K : s # {} => Rest(s) \in SUBSET K /\ Rest(s) # K /\ pick[s] \in s
  <2> TAKE s \in SUBSET K
  <2>1. s \in SUBSET D
    BY <1>1
  <2> QED
    BY <2>1
<1>4. ASSUME NEW s \in SUBSET K, s # {}
      PROVE  f[Rest(s)] = Fun(Rest(s))[Rest(s)]
  <2> DEFINE r == Rest(s)
  <2>1. r \in SUBSET K /\ r # K
    BY <1>3, <1>4
  <2>2. IsFold(Fun(r), step, pick, base, r)
    BY <1>2, <2>1
  <2> HIDE DEF r
  <2>3. CASE r = {}
    <3>1. f[r] = base
      BY <2>1, <2>3
    <3>2. Fun(r)[r] = base
      BY <2>2, <2>3 DEF IsFold
    <3> QED
      BY <3>1, <3>2 DEF r
  <2>4. CASE r # {}
    <3> DEFINE q == Rest(r)
    <3>1. q \in SUBSET K /\ q # K /\ pick[r] \in r
      BY <1>3, <2>1, <2>4
    <3>2. IsFold(Fun(q), step, pick, base, q)
      BY <1>2, <3>1
    <3>3. IsFiniteSet(q) /\ q \subseteq r
      BY <3>1, <1>1, FS_Subset
    <3>4. \A t \in SUBSET r : t # {} => pick[t] \in t
      BY <1>3, <2>1
    <3>5. Fun(r)[q] = Fun(q)[q]
      <4> HIDE DEF q
      <4> QED
        BY <2>2, <3>2, <3>3, <3>4, FoldsAgree
    <3>6. Fun(r)[r] = step[<<pick[r], Fun(r)[q]>>]
      BY <2>2, <2>4 DEF IsFold
    <3>7. f[r] = step[<<pick[r], Fun(q)[q]>>]
      BY <2>1, <2>4
    <3> QED
      BY <3>5, <3>6, <3>7 DEF r
  <2> QED
    BY <2>3, <2>4 DEF r
<1>5. IsFold(f, step, pick, base, K)
  BY <1>3, <1>4 DEF IsFold
<1> QED
  BY <1>1, <1>5

\* A fold whose steps stay in V stays in V.
LEMMA FoldStays ==
    ASSUME NEW step, NEW pick, NEW V, NEW base \in V, NEW K, IsFiniteSet(K),
           \A s \in SUBSET K : s # {} => pick[s] \in s,
           \A x \in K, v \in V : step[<<x, v>>] \in V,
           NEW f, IsFold(f, step, pick, base, K)
    PROVE  \A s \in SUBSET K : f[s] \in V
<1> DEFINE T == {s \in SUBSET K : f[s] \notin V}
<1> SUFFICES ASSUME T # {} PROVE FALSE
  OBVIOUS
<1>a. T \in SUBSET SUBSET K
  OBVIOUS
<1>1. PICK s \in T : \A t \in T : t \subseteq s => t = s
  <2> HIDE DEF T
  <2> QED
    BY <1>a, SmallestSubset
<1>2. s # {} /\ s \in SUBSET K
  BY <1>1 DEF IsFold
<1>3. pick[s] \in s
  BY <1>2
<1>4. f[s \ {pick[s]}] \in V /\ pick[s] \in K
  BY <1>1, <1>2, <1>3
<1>5. f[s] = step[<<pick[s], f[s \ {pick[s]}]>>]
  BY <1>2 DEF IsFold
<1> QED
  BY <1>1, <1>4, <1>5

-----------------------------------------------------------------------------
(* Sums.                                                                   *)

\* Whatever element is taken out of a sum, it is the rest and this element.
LEMMA SumWithout ==
    ASSUME NEW D, IsFiniteSet(D), NEW c \in [D -> Int], NEW f, IsSum(f, c, D)
    PROVE  \A s \in SUBSET D : /\ f[s] \in Int
                               /\ \A x \in s : f[s] = c[x] + f[s \ {x}]
<1> DEFINE Good(s) == f[s] \in Int /\ \A x \in s : f[s] = c[x] + f[s \ {x}]
           T == {s \in SUBSET D : ~Good(s)}
<1> SUFFICES ASSUME T # {} PROVE FALSE
  OBVIOUS
<1>a. T \in SUBSET SUBSET D
  OBVIOUS
<1>1. PICK s \in T : \A t \in T : t \subseteq s => t = s
  <2> HIDE DEF T
  <2> QED
    BY <1>a, SmallestSubset
<1> DEFINE p == Picked(s)
<1>2. s \in SUBSET D /\ ~Good(s)
  BY <1>1
<1>3. Good({})
  <2>1. f[{}] = 0
    BY DEF IsSum
  <2> QED
    BY <2>1
<1>4. s # {}
  <2> HIDE DEF Good
  <2> QED
    BY <1>2, <1>3
<1>5. p \in s
  BY <1>4 DEF Picked
<1>6. f[s] = c[p] + f[s \ {p}]
  BY <1>2, <1>4 DEF IsSum
<1> HIDE DEF p
<1>7. ASSUME NEW x \in s PROVE Good(s \ {x})
  <2>1. s \ {x} \in SUBSET D /\ s \ {x} \subseteq s /\ s \ {x} # s
    BY <1>2
  <2> HIDE DEF Good
  <2> QED
    BY <1>1, <2>1
<1>8. f[s] \in Int
  <2>1. f[s \ {p}] \in Int
    BY <1>5, <1>7
  <2>2. c[p] \in Int
    BY <1>2, <1>5
  <2> QED
    BY <1>6, <2>1, <2>2
<1>9. ASSUME NEW x \in s, x # p PROVE f[s] = c[x] + f[s \ {x}]
  <2>1. f[s \ {p}] = c[x] + f[(s \ {p}) \ {x}]
    BY <1>5, <1>7, <1>9
  <2>2. f[s \ {x}] = c[p] + f[(s \ {x}) \ {p}]
    BY <1>5, <1>7, <1>9
  <2>3. (s \ {p}) \ {x} = (s \ {x}) \ {p}
    OBVIOUS
  <2>4. f[(s \ {p}) \ {x}] \in Int
    <3>1. (s \ {p}) \ {x} \in SUBSET D /\ (s \ {p}) \ {x} \subseteq s /\ (s \ {p}) \ {x} # s
      BY <1>2, <1>9
    <3> DEFINE u == (s \ {p}) \ {x}
    <3> HIDE DEF u
    <3>2. u \notin T
      BY <1>1, <3>1 DEF u
    <3> QED
      BY <3>1, <3>2 DEF u
  <2>5. c[p] \in Int /\ c[x] \in Int
    BY <1>2, <1>5
  <2>6. f[s] = c[p] + (c[x] + f[(s \ {p}) \ {x}])
    BY <1>6, <2>1
  <2>7. f[s \ {x}] = c[p] + f[(s \ {p}) \ {x}]
    BY <2>2, <2>3
  <2> DEFINE rest == f[(s \ {p}) \ {x}]
             before == f[s \ {x}]
  <2> HIDE DEF rest, before
  <2>8. rest \in Int /\ f[s] = c[p] + (c[x] + rest) /\ before = c[p] + rest
    BY <2>4, <2>6, <2>7 DEF rest, before
  <2>9. f[s] = c[x] + before
    BY <2>5, <2>8
  <2> QED
    BY <2>9 DEF before
<1> QED
  BY <1>2, <1>6, <1>8, <1>9

\* SumFunction is the running sum of its whole domain.
LEMMA SumIsRunning ==
    ASSUME NEW D, IsFiniteSet(D), NEW c \in [D -> Int]
    PROVE  \E f : IsSum(f, c, D) /\ SumFunction(c) = f[D]
<1> DEFINE total == CHOOSE f : IsSum(f, c, D)
<1>1. SumFunction(c) = total[D]
  BY DEF SumFunction, SumFunctionOnSet, FoldFunctionOnSet, MapThenFoldSet, IsSum, Picked
<1>2. IsSum(total, c, D)
  BY SumExists
<1> QED
  BY <1>1, <1>2

\* The classes of a finite set have as many members as the set.
LEMMA PartitionSum ==
    ASSUME NEW D, IsFiniteSet(D), NEW K, IsFiniteSet(K), NEW at \in [D -> K],
           NEW c \in [K -> Int], \A k \in K : c[k] = Cardinality({i \in D : at[i] = k})
    PROVE  SumFunction(c) = Cardinality(D)
<1> DEFINE In(s) == {i \in D : at[i] \in s}
           Class(k) == {i \in D : at[i] = k}
<1>1. \A s : IsFiniteSet(In(s)) /\ Cardinality(In(s)) \in Nat
  BY FS_Subset, FS_CardinalityType
<1>2. \A k : IsFiniteSet(Class(k)) /\ Cardinality(Class(k)) \in Nat
  BY FS_Subset, FS_CardinalityType
<1>4. PICK f : IsSum(f, c, K) /\ SumFunction(c) = f[K]
  BY SumIsRunning
<1>5. \A s \in SUBSET K : \A x \in s : f[s] = c[x] + f[s \ {x}]
  <2>1. IsSum(f, c, K)
    BY <1>4
  <2> HIDE DEF In, Class
  <2>2. \A s \in SUBSET K : /\ f[s] \in Int
                           /\ \A x \in s : f[s] = c[x] + f[s \ {x}]
    BY <2>1, SumWithout
  <2> QED
    BY <2>2
<1> DEFINE T == {s \in SUBSET K : f[s] # Cardinality(In(s))}
<1>6. ASSUME T # {} PROVE FALSE
  <2>a. T \in SUBSET SUBSET K
    OBVIOUS
  <2>1. PICK s \in T : \A t \in T : t \subseteq s => t = s
    <3> HIDE DEF T
    <3> QED
      BY <1>6, <2>a, SmallestSubset
  <2>2. s \in SUBSET K /\ f[s] # Cardinality(In(s))
    BY <2>1
  <2>3. s # {}
    <3>1. f[{}] = 0
      BY <1>4 DEF IsSum
    <3>2. In({}) = {}
      OBVIOUS
    <3> QED
      BY <2>2, <3>1, <3>2, FS_EmptySet
  <2>4. PICK x \in s : TRUE
    BY <2>3
  <2> DEFINE r == s \ {x}
  <2>5. r \in SUBSET K /\ r \subseteq s /\ r # s
    BY <2>2, <2>4
  <2>6. f[r] = Cardinality(In(r))
    <3> HIDE DEF r
    <3> QED
      BY <2>1, <2>5
  <2>7. f[s] = c[x] + f[r]
    BY <1>5, <2>2, <2>4
  <2>8. c[x] = Cardinality(Class(x))
    BY <2>2, <2>4
  <2>9. In(s) = In(r) \cup Class(x) /\ In(r) \cap Class(x) = {}
    BY <2>4
  <2>10. Cardinality(In(s)) = Cardinality(In(r)) + Cardinality(Class(x))
    <3> HIDE DEF In, Class, r
    <3>1. Cardinality(In(r) \cup Class(x)) =
             Cardinality(In(r)) + Cardinality(Class(x)) - Cardinality(In(r) \cap Class(x))
      BY <1>1, <1>2, FS_Union
    <3>2. Cardinality(In(r) \cap Class(x)) = 0
      BY <2>9, FS_EmptySet
    <3>3. In(s) = In(r) \cup Class(x)
      BY <2>9
    <3>4. Cardinality(In(r)) \in Nat /\ Cardinality(Class(x)) \in Nat
      BY <1>1, <1>2
    <3> QED
      BY <3>1, <3>2, <3>3, <3>4
  <2> HIDE DEF In, Class, r
  <2> QED
    BY <1>1, <1>2, <2>2, <2>6, <2>7, <2>8, <2>10
<1>7. f[K] = Cardinality(In(K))
  BY <1>6
<1>8. In(K) = D
  OBVIOUS
<1> QED
  BY <1>4, <1>7, <1>8

\* Sums of functions that agree on a set agree on it.
LEMMA SumsOfEquals ==
    ASSUME NEW K, NEW U \in SUBSET K, IsFiniteSet(U),
           NEW c, NEW f, IsSum(f, c, K), NEW d, NEW g, IsSum(g, d, K),
           \A x \in U : c[x] = d[x]
    PROVE  f[U] = g[U]
<1> DEFINE T == {s \in SUBSET U : f[s] # g[s]}
<1> SUFFICES ASSUME T # {} PROVE FALSE
  OBVIOUS
<1>a. T \in SUBSET SUBSET U
  OBVIOUS
<1>1. PICK s \in T : \A t \in T : t \subseteq s => t = s
  <2> HIDE DEF T
  <2> QED
    BY <1>a, SmallestSubset
<1>2. s \in SUBSET U /\ s \in SUBSET K
  OBVIOUS
<1>3. s # {}
  BY <1>1, <1>2 DEF IsSum
<1>4. Picked(s) \in s
  BY <1>3 DEF Picked
<1>5. f[s \ {Picked(s)}] = g[s \ {Picked(s)}]
  BY <1>1, <1>2, <1>4
<1>6. /\ f[s] = c[Picked(s)] + f[s \ {Picked(s)}]
      /\ g[s] = d[Picked(s)] + g[s \ {Picked(s)}]
  BY <1>2, <1>3 DEF IsSum
<1>7. c[Picked(s)] = d[Picked(s)]
  BY <1>2, <1>4
<1> QED
  BY <1>1, <1>5, <1>6, <1>7

\* Changing one value changes the sum by as much.
LEMMA SumChanged ==
    ASSUME NEW D, IsFiniteSet(D), NEW c \in [D -> Int], NEW x \in D, NEW v \in Int
    PROVE  SumFunction([c EXCEPT ![x] = v]) = SumFunction(c) + (v - c[x])
<1> DEFINE d == [c EXCEPT ![x] = v]
<1>1. d \in [D -> Int] /\ d[x] = v /\ \A y \in D \ {x} : c[y] = d[y]
  OBVIOUS
<1> HIDE DEF d
<1>2. PICK f : IsSum(f, c, D) /\ SumFunction(c) = f[D]
  BY SumIsRunning
<1>3. PICK g : IsSum(g, d, D) /\ SumFunction(d) = g[D]
  BY <1>1, SumIsRunning
<1>4. \A s \in SUBSET D : /\ f[s] \in Int
                         /\ \A y \in s : f[s] = c[y] + f[s \ {y}]
  <2>1. IsSum(f, c, D)
    BY <1>2
  <2> QED
    BY <2>1, SumWithout
<1>5. \A s \in SUBSET D : /\ g[s] \in Int
                         /\ \A y \in s : g[s] = d[y] + g[s \ {y}]
  <2>1. IsSum(g, d, D) /\ d \in [D -> Int]
    BY <1>1, <1>3
  <2> QED
    BY <2>1, SumWithout
<1> DEFINE rest == D \ {x}
<1>6. rest \in SUBSET D /\ IsFiniteSet(rest)
  BY FS_RemoveElement
<1>7. \A y \in rest : c[y] = d[y]
  BY <1>1
<1>8. f[D] = c[x] + f[rest] /\ g[D] = d[x] + g[rest]
  BY <1>4, <1>5
<1>9. f[rest] \in Int
  BY <1>4, <1>6
<1> HIDE DEF rest
<1>10. f[rest] = g[rest]
  BY <1>2, <1>3, <1>6, <1>7, SumsOfEquals
<1>11. c[x] \in Int
  OBVIOUS
<1>12. SumFunction(d) = SumFunction(c) + (v - c[x])
  BY <1>1, <1>2, <1>3, <1>8, <1>9, <1>10, <1>11
<1> QED
  BY <1>12 DEF d

-----------------------------------------------------------------------------
(* The number of rows each split should get.                               *)

\* The larger of two numbers is one of them.
LEMMA MaxOfTwo ==
    ASSUME NEW a \in Int, NEW b \in Int
    PROVE  Max({a, b}) \in Int /\ Max({a, b}) >= a /\ Max({a, b}) >= b
<1>1. \E x \in {a, b} : \A y \in {a, b} : x >= y
  OBVIOUS
<1> DEFINE m == CHOOSE x \in {a, b} : \A y \in {a, b} : x >= y
<1>2. m \in {a, b} /\ \A y \in {a, b} : m >= y
  BY <1>1
<1> HIDE DEF m
<1>3. m \in Int /\ m >= a /\ m >= b
  BY <1>2
<1> QED
  BY <1>3 DEF m, Max

\* The three splits, in their order.
LEMMA SplitsInOrder ==
    /\ SplitNames = {"train", "validation", "test"} /\ IsFiniteSet(SplitNames)
    /\ Before("train", "validation") /\ Before("train", "test") /\ Before("validation", "test")
<1>1. SplitNames = {"train", "validation", "test"}
  <2>1. DOMAIN SplitOrder = {1, 2, 3}
    BY DEF SplitOrder
  <2>2. SplitOrder[1] = "train" /\ SplitOrder[2] = "validation" /\ SplitOrder[3] = "test"
    BY DEF SplitOrder
  <2> QED
    BY <2>1, <2>2 DEF SplitNames, ToSet
<1>2. IsFiniteSet(SplitNames)
  <2>1. IsFiniteSet({"train"} \cup {"validation"})
    BY FS_Singleton, FS_Union
  <2>2. IsFiniteSet(({"train"} \cup {"validation"}) \cup {"test"})
    BY <2>1, FS_Singleton, FS_Union
  <2>3. SplitNames = ({"train"} \cup {"validation"}) \cup {"test"}
    BY <1>1
  <2> QED
    BY <2>2, <2>3
<1>3. 1 \in 1..3 /\ 2 \in 1..3 /\ 3 \in 1..3 /\ 1 < 2 /\ 1 < 3 /\ 2 < 3
  OBVIOUS
<1>4. SplitOrder[1] = "train" /\ SplitOrder[2] = "validation" /\ SplitOrder[3] = "test"
  BY DEF SplitOrder
<1> QED
  BY <1>1, <1>2, <1>3, <1>4 DEF Before

\* One of the splits comes first among those with the largest number.
LEMMA FirstLargestIsSplit ==
    ASSUME NEW f \in [SplitNames -> Int]
    PROVE  FirstLargest(f) \in SplitNames
<1>1. /\ f["train"] \in Int /\ f["validation"] \in Int /\ f["test"] \in Int
  BY SplitsInOrder
<1>2. \E s \in SplitNames : \A t \in SplitNames \ {s} :
         f[t] < f[s] \/ (f[t] = f[s] /\ Before(s, t))
  <2>1. CASE f["validation"] <= f["train"] /\ f["test"] <= f["train"]
    <3>1. \A t \in SplitNames \ {"train"} :
             f[t] < f["train"] \/ (f[t] = f["train"] /\ Before("train", t))
      BY <1>1, <2>1, SplitsInOrder
    <3> QED
      BY <3>1, SplitsInOrder
  <2>2. CASE f["train"] < f["validation"] /\ f["test"] <= f["validation"]
    <3>1. \A t \in SplitNames \ {"validation"} :
             f[t] < f["validation"] \/ (f[t] = f["validation"] /\ Before("validation", t))
      BY <1>1, <2>2, SplitsInOrder
    <3> QED
      BY <3>1, SplitsInOrder
  <2>3. CASE f["train"] < f["test"] /\ f["validation"] < f["test"]
    <3>1. \A t \in SplitNames \ {"test"} :
             f[t] < f["test"] \/ (f[t] = f["test"] /\ Before("test", t))
      BY <1>1, <2>3, SplitsInOrder
    <3> QED
      BY <3>1, SplitsInOrder
  <2> QED
    BY <1>1, <2>1, <2>2, <2>3
<1> QED
  BY <1>2 DEF FirstLargest

\* A pass of the loop brings the targets one row nearer to the rows there are.
LEMMA RebalancedFacts ==
    ASSUME NEW target \in [SplitNames -> Int], NEW total \in Int
    PROVE  /\ Rebalanced(target, total) \in [SplitNames -> Int]
           /\ SumFunction(target) > total =>
                 SumFunction(Rebalanced(target, total)) = SumFunction(target) - 1
           /\ SumFunction(target) < total =>
                 SumFunction(Rebalanced(target, total)) = SumFunction(target) + 1
<1> DEFINE sum == SumFunction(target)
           negated == [s \in SplitNames |-> -target[s]]
           large == FirstLargest(target)
           small == FirstLargest(negated)
<1>1. sum \in Int
  BY SplitsInOrder, SumIsInteger
<1>2. large \in SplitNames
  BY FirstLargestIsSplit
<1>3. small \in SplitNames
  <2>1. negated \in [SplitNames -> Int]
    OBVIOUS
  <2> HIDE DEF negated
  <2> QED
    BY <2>1, FirstLargestIsSplit
<1>4. small = FirstSmallest(target)
  BY DEF FirstSmallest
<1> HIDE DEF small, large
<1>5. /\ sum > total => Rebalanced(target, total) = [target EXCEPT ![large] = @ - 1]
      /\ sum < total => Rebalanced(target, total) = [target EXCEPT ![small] = @ + 1]
      /\ sum = total => Rebalanced(target, total) = target
  BY <1>1, <1>4 DEF Rebalanced, large
<1>6. \A x \in SplitNames, v \in Int :
         /\ [target EXCEPT ![x] = v] \in [SplitNames -> Int]
         /\ SumFunction([target EXCEPT ![x] = v]) = sum + (v - target[x])
  BY SplitsInOrder, SumChanged
<1>7. /\ [target EXCEPT ![large] = @ - 1] = [target EXCEPT ![large] = target[large] - 1]
      /\ [target EXCEPT ![small] = @ + 1] = [target EXCEPT ![small] = target[small] + 1]
  OBVIOUS
<1>8. target[large] \in Int /\ target[small] \in Int
  BY <1>2, <1>3
<1> HIDE DEF sum
<1>9. CASE sum > total
  BY <1>1, <1>2, <1>5, <1>6, <1>7, <1>8, <1>9 DEF sum
<1>10. CASE sum < total
  BY <1>1, <1>3, <1>5, <1>6, <1>7, <1>8, <1>10 DEF sum
<1>11. CASE sum = total
  BY <1>1, <1>5, <1>11 DEF sum
<1> QED
  BY <1>1, <1>9, <1>10, <1>11

\* What holds of the empty set, and of a set when it holds of the set without
\* the element picked from it, holds of every subset of a finite set.
LEMMA PickInduction ==
    ASSUME NEW K, IsFiniteSet(K), NEW pick, \A s \in SUBSET K : s # {} => pick[s] \in s,
           NEW G, {} \in G,
           \A s \in SUBSET K : s # {} /\ s \ {pick[s]} \in G => s \in G
    PROVE  \A s \in SUBSET K : s \in G
<1> DEFINE T == (SUBSET K) \ G
<1> SUFFICES ASSUME T # {} PROVE FALSE
  OBVIOUS
<1>a. T \in SUBSET SUBSET K
  OBVIOUS
<1>1. PICK s \in T : \A t \in T : t \subseteq s => t = s
  <2> HIDE DEF T
  <2> QED
    BY <1>a, SmallestSubset
<1>2. s # {} /\ pick[s] \in s
  OBVIOUS
<1>3. s \ {pick[s]} \in G
  BY <1>1, <1>2
<1> QED
  BY <1>2, <1>3

\* The targets start as whole numbers of rows, at least one for each split.
LEMMA RoundedTargets ==
    ASSUME NEW total \in Nat
    PROVE  [s \in SplitNames |-> Max({1, RoundTwentieths(total * Twentieths[s])})]
              \in [SplitNames -> Int]
<1>1. \A x \in Int : RoundTwentieths(x) \in Int
  BY DEF RoundTwentieths
<1>2. ASSUME NEW s \in SplitNames PROVE Twentieths[s] \in Int
  <2>1. Twentieths["train"] = 14 /\ Twentieths["validation"] = 3 /\ Twentieths["test"] = 3
    BY DEF Twentieths
  <2> QED
    BY <2>1, SplitsInOrder
<1>3. ASSUME NEW s \in SplitNames PROVE total * Twentieths[s] \in Int
  BY <1>2
<1>4. ASSUME NEW s \in SplitNames
      PROVE  Max({1, RoundTwentieths(total * Twentieths[s])}) \in Int
  <2> DEFINE x == RoundTwentieths(total * Twentieths[s])
  <2>1. x \in Int /\ 1 \in Int
    BY <1>1, <1>3
  <2> HIDE DEF x
  <2>2. Max({1, x}) \in Int
    BY <2>1, MaxOfTwo
  <2> QED
    BY <2>2 DEF x
<1> QED
  BY <1>4

\* splits.py:339, _rebalance_targets: for any number of rows the split targets are
\* whole numbers that add up to it, although each is rounded by itself and is
\* at least one; the correcting loop needs one pass for each row they are off.
THEOREM TargetsAddUp ==
    ASSUME NEW total \in Nat
    PROVE  /\ TargetCounts(total) \in [SplitNames -> Int]
           /\ SumFunction(TargetCounts(total)) = total
<1> DEFINE V == [SplitNames -> Int]
           rounded == [s \in SplitNames |-> Max({1, RoundTwentieths(total * Twentieths[s])})]
           d == Distance(SumFunction(rounded), total)
           K == 1..d
           step == [q \in K \X V |-> Rebalanced(q[2], total)]
           pick == [s \in SUBSET K |-> CHOOSE x \in s : TRUE]
           Runs(f) == f = [s \in SUBSET K |->
                             IF s = {} THEN rounded
                             ELSE Rebalanced(f[s \ {CHOOSE x \in s : TRUE}], total)]
<1>1. rounded \in V
  BY RoundedTargets
<1> DEFINE run == CHOOSE f : Runs(f)
<1>2. TargetCounts(total) = run[K]
  BY DEF TargetCounts, FoldSet, MapThenFoldSet
<1> HIDE DEF rounded
<1>3. \A t \in V : SumFunction(t) \in Int
  BY SplitsInOrder, SumIsInteger
<1>4. d \in Nat
  BY <1>1, <1>3 DEF Distance
<1>5. IsFiniteSet(K) /\ Cardinality(K) = d
  <2> HIDE DEF d
  <2>1. 1 \in Int /\ d \in Int
    BY <1>4
  <2>2. IsFiniteSet(1..d) /\ Cardinality(1..d) = IF 1 > d THEN 0 ELSE d - 1 + 1
    BY <2>1, FS_Interval
  <2> QED
    BY <1>4, <2>2
<1> HIDE DEF d, K
<1>6. \A s \in SUBSET K : s # {} => pick[s] \in s
  OBVIOUS
<1>7. \A t \in V : Rebalanced(t, total) \in V
  BY RebalancedFacts
<1>8. \E f : Runs(f)
  <2>1. PICK f : IsFold(f, step, pick, rounded, K)
    <3> HIDE DEF step, pick
    <3> QED
      BY <1>5, <1>6, FoldExists
  <2>2. \A s \in SUBSET K : f[s] \in V
    <3>1. \A x \in K, v \in V : step[<<x, v>>] \in V
      BY <1>7
    <3> HIDE DEF step, pick, V
    <3> QED
      BY <1>1, <1>5, <1>6, <2>1, <3>1, FoldStays
  <2>3. ASSUME NEW s \in SUBSET K, s # {}
        PROVE  step[<<pick[s], f[s \ {pick[s]}]>>] = Rebalanced(f[s \ {CHOOSE x \in s : TRUE}], total)
    <3>1. pick[s] \in K /\ s \ {pick[s]} \in SUBSET K
      BY <1>6, <2>3
    <3>2. f[s \ {pick[s]}] \in V
      BY <2>2, <3>1
    <3>3. pick[s] = CHOOSE x \in s : TRUE
      OBVIOUS
    <3> HIDE DEF pick, V
    <3> QED
      BY <3>1, <3>2, <3>3
  <2>4. Runs(f)
    <3> HIDE DEF step
    <3> QED
      BY <2>1, <2>3 DEF IsFold
  <2> QED
    BY <2>4
<1>9. Runs(run)
  BY <1>8
<1> HIDE DEF run
<1> DEFINE Off(t) == Distance(SumFunction(t), total)
           G == {s \in SUBSET K : run[s] \in V /\ Off(run[s]) = d - Cardinality(s)}
<1>10. {} \in G
  <2>1. run[{}] = rounded
    BY <1>9
  <2> QED
    BY <1>1, <1>4, <2>1, FS_EmptySet DEF d
<1>11. \A s \in SUBSET K : s # {} /\ s \ {pick[s]} \in G => s \in G
  <2> SUFFICES ASSUME NEW s \in SUBSET K, s # {}, s \ {pick[s]} \in G
               PROVE  s \in G
    OBVIOUS
  <2> DEFINE t == run[s \ {pick[s]}]
  <2>1. t \in V /\ Off(t) = d - Cardinality(s \ {pick[s]})
    OBVIOUS
  <2>2. run[s] = Rebalanced(t, total)
    BY <1>9
  <2>3. pick[s] \in s /\ IsFiniteSet(s)
    BY <1>5, <1>6, FS_Subset
  <2> HIDE DEF pick, t
  <2>4. Cardinality(s \ {pick[s]}) = Cardinality(s) - 1 /\ Cardinality(s) \in Nat
    BY <2>3, FS_RemoveElement, FS_CardinalityType
  <2>5. Cardinality(s) <= d
    BY <1>5, FS_Subset
  <2>6. SumFunction(t) \in Int /\ SumFunction(t) # total
    <3>1. Off(t) > 0
      BY <1>4, <2>1, <2>4, <2>5
    <3> QED
      BY <1>3, <2>1, <3>1 DEF Distance
  <2>7. /\ Rebalanced(t, total) \in V
        /\ SumFunction(t) > total => SumFunction(Rebalanced(t, total)) = SumFunction(t) - 1
        /\ SumFunction(t) < total => SumFunction(Rebalanced(t, total)) = SumFunction(t) + 1
    BY <2>1, RebalancedFacts
  <2>8. Off(Rebalanced(t, total)) = Off(t) - 1
    <3> DEFINE u == SumFunction(Rebalanced(t, total))
               w == SumFunction(t)
    <3>1. w \in Int /\ w # total /\ (w > total => u = w - 1) /\ (w < total => u = w + 1)
      BY <2>6, <2>7
    <3> HIDE DEF u, w
    <3>2. Distance(u, total) = Distance(w, total) - 1
      BY <3>1 DEF Distance
    <3> QED
      BY <3>2 DEF u, w
  <2>9. Off(run[s]) = d - Cardinality(s)
    <3> DEFINE o == Off(t)
               c == Cardinality(s)
    <3>1. o = d - (c - 1) /\ c \in Nat /\ Off(run[s]) = o - 1
      BY <2>1, <2>2, <2>4, <2>8
    <3> HIDE DEF o, c, Off
    <3> QED
      BY <1>4, <3>1 DEF c
  <2> QED
    BY <2>2, <2>7, <2>9
<1>12. K \in G
  <2>1. IsFiniteSet(K)
    BY <1>5
  <2> HIDE DEF G, pick, step, V, Runs, Off
  <2>2. \A s \in SUBSET K : s \in G
    BY <2>1, <1>6, <1>10, <1>11, PickInduction
  <2> QED
    BY <2>2
<1>13. run[K] \in V /\ Off(run[K]) = 0
  BY <1>4, <1>5, <1>12
<1>14. SumFunction(run[K]) = total
  BY <1>3, <1>13 DEF Distance
<1> QED
  BY <1>2, <1>13, <1>14

\* A finite set of numbers has a largest one.
LEMMA MaxOfFinite ==
    ASSUME NEW S, IsFiniteSet(S), S # {}, \A x \in S : x \in Int
    PROVE  Max(S) \in S /\ \A y \in S : Max(S) >= y
<1> DEFINE HasMax(s) == \E x \in s : \A y \in s : x >= y
           T == {s \in SUBSET S : s # {} /\ ~HasMax(s)}
<1>1. T = {}
  <2> SUFFICES ASSUME T # {} PROVE FALSE
    OBVIOUS
  <2>a. T \in SUBSET SUBSET S
    OBVIOUS
  <2>1. PICK s \in T : \A t \in T : t \subseteq s => t = s
    <3> HIDE DEF T, HasMax
    <3>1. IsFiniteSet(S) /\ T # {}
      OBVIOUS
    <3> QED
      BY <2>a, <3>1, SmallestSubset
  <2>2. PICK x \in s : TRUE
    OBVIOUS
  <2>3. s \in SUBSET Int
    OBVIOUS
  <2>4. s \ {x} # {}
    <3>1. s = {x} => \A y \in s : x >= y
      BY <2>3
    <3> QED
      BY <2>2, <3>1
  <2>5. PICK m \in s \ {x} : \A y \in s \ {x} : m >= y
    <3>1. s \ {x} \in SUBSET S /\ s \ {x} \subseteq s /\ s \ {x} # s
      BY <2>2
    <3> QED
      BY <2>1, <2>4, <3>1
  <2>6. m \in Int /\ x \in Int
    BY <2>3
  <2>7. CASE m >= x
    <3>1. \A y \in s : m >= y
      BY <2>5, <2>7
    <3> QED
      BY <3>1
  <2>8. CASE ~(m >= x)
    <3>1. \A y \in s : x >= y
      BY <2>3, <2>5, <2>6, <2>8
    <3> QED
      BY <3>1
  <2> QED
    BY <2>7, <2>8
<1>2. HasMax(S)
  BY <1>1
<1> QED
  BY <1>2 DEF Max

-----------------------------------------------------------------------------
(* The split of a group.                                                   *)

Fractions == Int \X {n \in Int : n > 0}

\* Being less, for fractions of positive denominators, is a strict weak order.
LEMMA LessIsAnOrder ==
    ASSUME NEW p \in Fractions, NEW q \in Fractions, NEW r \in Fractions
    PROVE  /\ Less(p, q) => ~Less(q, p)
           /\ Less(p, q) /\ ~Less(r, q) => Less(p, r)
<1> DEFINE a == p[1]   b == p[2]
           c == q[1]   d == q[2]
           e == r[1]   f == r[2]
<1>1. /\ a \in Int /\ b \in Int /\ b > 0
      /\ c \in Int /\ d \in Int /\ d > 0
      /\ e \in Int /\ f \in Int /\ f > 0
  BY DEF Fractions
<1>2. /\ Less(p, q) <=> a * d < c * b
      /\ Less(q, p) <=> c * b < a * d
      /\ Less(r, q) <=> e * d < c * f
      /\ Less(p, r) <=> a * f < e * b
  BY DEF Less
<1> HIDE DEF a, b, c, d, e, f
<1>3. a * d < c * b => ~(c * b < a * d)
  BY <1>1
<1>4. ASSUME a * d < c * b, ~(e * d < c * f) PROVE a * f < e * b
  <2>1. (a * d) * f < (c * b) * f
    BY <1>1, <1>4, Z3
  <2>2. (c * f) * b <= (e * d) * b
    BY <1>1, <1>4, Z3
  <2>3. (a * f) * d < (e * b) * d
    BY <1>1, <2>1, <2>2, Z3
  <2> QED
    BY <1>1, <2>3, Z3
<1> QED
  BY <1>2, <1>3, <1>4

\* One of the splits comes first among those with the least score.
LEMMA FirstLeastIsSplit ==
    ASSUME NEW score \in [SplitNames -> Fractions]
    PROVE  FirstLeast(score) \in SplitNames
<1> DEFINE Beats(s, t) == Less(score[s], score[t]) \/ (~Less(score[t], score[s]) /\ Before(s, t))
<1>1. /\ score["train"] \in Fractions /\ score["validation"] \in Fractions
      /\ score["test"] \in Fractions
  BY SplitsInOrder
<1>2. \E s \in SplitNames : \A t \in SplitNames \ {s} : Beats(s, t)
  <2> DEFINE x == score["train"]   y == score["validation"]   z == score["test"]
  <2>1. CASE ~Less(y, x) /\ ~Less(z, x)
    <3>1. Beats("train", "validation") /\ Beats("train", "test")
      BY <2>1, SplitsInOrder
    <3> QED
      BY <3>1, SplitsInOrder
  <2>2. CASE Less(y, x) /\ ~Less(z, y)
    <3>1. Beats("validation", "train") /\ Beats("validation", "test")
      BY <2>2, SplitsInOrder
    <3> QED
      BY <3>1, SplitsInOrder
  <2>3. CASE (Less(y, x) /\ Less(z, y)) \/ (~Less(y, x) /\ Less(z, x))
    <3>1. Less(z, x) /\ Less(z, y)
      BY <1>1, <2>3, LessIsAnOrder
    <3>2. Beats("test", "train") /\ Beats("test", "validation")
      BY <3>1
    <3> QED
      BY <3>2, SplitsInOrder
  <2> QED
    BY <2>1, <2>2, <2>3
<1> QED
  BY <1>2 DEF FirstLeast

\* The image of a finite set under a function is finite.
LEMMA ImageIsFinite ==
    ASSUME NEW S, IsFiniteSet(S), NEW f, DOMAIN f = S
    PROVE  IsFiniteSet({f[i] : i \in S})
<1> DEFINE T == {f[i] : i \in S}
           g == [i \in S |-> f[i]]
<1>1. g \in [S -> T] /\ \A t \in T : \E i \in S : g[i] = t
  OBVIOUS
<1>2. g \in Surjection(S, T)
  BY <1>1 DEF Surjection
<1> HIDE DEF g, T
<1>3. IsFiniteSet(T)
  BY <1>2, FS_Surjection
<1> QED
  BY <1>3 DEF T

\* A source has a sequence of rows.
IsSource(source) == \E RowType : source.rows \in Seq(RowType)

\* The rows of a source are finitely many.
LEMMA RowsAreFinite ==
    ASSUME NEW source, IsSource(source)
    PROVE  /\ Len(source.rows) \in Nat /\ DOMAIN source.rows = 1..Len(source.rows)
           /\ IsFiniteSet(DOMAIN source.rows)
           /\ Cardinality(DOMAIN source.rows) = Len(source.rows)
<1> DEFINE n == Len(source.rows)
<1>1. n \in Nat /\ DOMAIN source.rows = 1..n
  BY DEF IsSource
<1> HIDE DEF n
<1>2. IsFiniteSet(1..n) /\ Cardinality(1..n) = n
  <2>1. 1 \in Int /\ n \in Int
    BY <1>1
  <2>2. IsFiniteSet(1..n) /\ Cardinality(1..n) = IF 1 > n THEN 0 ELSE n - 1 + 1
    BY <2>1, FS_Interval
  <2> QED
    BY <1>1, <2>2
<1> QED
  BY <1>1, <1>2 DEF n

\* splits.py, score: a distance to a target over a positive number, for the
\* rows and for each label of the group.
LEMMA ScoreIsFraction ==
    ASSUME NEW source, IsSource(source), NEW target,
           NEW done, \A g \in DOMAIN done : g \subseteq DOMAIN source.rows,
           NEW group \in SUBSET DOMAIN source.rows, NEW split \in SplitNames
    PROVE  SplitScore(source, target, done, group, split) \in Fractions
<1> DEFINE D == DOMAIN source.rows
           placed == group \cup UNION {g \in DOMAIN done : done[g] = split}
           goal == TargetCounts(Len(source.rows))[split]
           expected(label) == Twentieths[split] * LabelCount(source, target, D, label)
           Penalty(label) == <<Distance(expected(label), 20 * LabelCount(source, target, placed, label)),
                               Max({20, expected(label)})>>
           base == <<Distance(goal, Cardinality(placed)), Max({1, goal})>>
           labels == {source.rows[i][target] : i \in group}
           pick == [s \in SUBSET labels |-> CHOOSE x \in s : TRUE]
           step == [q \in labels \X Fractions |-> Plus(q[2], Penalty(q[1]))]
           Runs(f) == f = [s \in SUBSET labels |->
                             IF s = {} THEN base
                             ELSE Plus(f[s \ {CHOOSE x \in s : TRUE}], Penalty(CHOOSE x \in s : TRUE))]
           run == CHOOSE f : Runs(f)
<1>1. SplitScore(source, target, done, group, split) = run[labels]
  BY DEF SplitScore, FoldSet, MapThenFoldSet
<1>2. IsFiniteSet(D) /\ Len(source.rows) \in Nat
  BY RowsAreFinite
<1>3. placed \in SUBSET D
  OBVIOUS
<1> HIDE DEF placed, D
<1>4. Cardinality(placed) \in Nat
  BY <1>2, <1>3, FS_Subset, FS_CardinalityType
<1>5. goal \in Int
  BY <1>2, TargetsAddUp
<1>6. ASSUME NEW l, NEW R \in SUBSET D PROVE LabelCount(source, target, R, l) \in Nat
  <2> DEFINE C == {i \in R : source.rows[i][target] = l}
  <2>1. C \in SUBSET D
    OBVIOUS
  <2>2. LabelCount(source, target, R, l) = Cardinality(C)
    BY DEF LabelCount
  <2> HIDE DEF C
  <2> QED
    BY <1>2, <2>1, <2>2, FS_Subset, FS_CardinalityType
<1>7. Twentieths[split] \in Int
  <2>1. Twentieths["train"] = 14 /\ Twentieths["validation"] = 3 /\ Twentieths["test"] = 3
    BY DEF Twentieths
  <2> QED
    BY <2>1, SplitsInOrder
<1>8. ASSUME NEW l PROVE Penalty(l) \in Fractions
  <2> DEFINE e == expected(l)
             c == LabelCount(source, target, placed, l)
  <2>1. e \in Int
    BY <1>6, <1>7
  <2>2. c \in Nat
    BY <1>3, <1>6
  <2>3. Penalty(l) = <<Distance(e, 20 * c), Max({20, e})>>
    OBVIOUS
  <2> HIDE DEF e, c, Penalty
  <2>4. Max({20, e}) \in Int /\ Max({20, e}) > 0
    <3>1. 20 \in Int
      OBVIOUS
    <3>2. Max({20, e}) \in Int /\ Max({20, e}) >= 20 /\ Max({20, e}) >= e
      BY <2>1, <3>1, MaxOfTwo
    <3> QED
      BY <3>2
  <2>5. Distance(e, 20 * c) \in Int
    BY <2>1, <2>2 DEF Distance
  <2> QED
    BY <2>3, <2>4, <2>5 DEF Fractions
<1>9. base \in Fractions
  <2> HIDE DEF goal
  <2>1. Max({1, goal}) \in Int /\ Max({1, goal}) > 0
    <3>1. 1 \in Int
      OBVIOUS
    <3>2. Max({1, goal}) \in Int /\ Max({1, goal}) >= 1 /\ Max({1, goal}) >= goal
      BY <1>5, <3>1, MaxOfTwo
    <3> QED
      BY <3>2
  <2>2. Distance(goal, Cardinality(placed)) \in Int
    BY <1>4, <1>5 DEF Distance
  <2> QED
    BY <2>1, <2>2 DEF Fractions
<1> HIDE DEF Penalty, base
<1>10. \A p, q \in Fractions : Plus(p, q) \in Fractions
  <2> SUFFICES ASSUME NEW p \in Fractions, NEW q \in Fractions PROVE Plus(p, q) \in Fractions
    OBVIOUS
  <2> DEFINE a == p[1]   b == p[2]   c == q[1]   d == q[2]
  <2>1. a \in Int /\ b \in Int /\ b > 0 /\ c \in Int /\ d \in Int /\ d > 0
    BY DEF Fractions
  <2>2. Plus(p, q) = <<a * d + c * b, b * d>>
    BY DEF Plus
  <2> HIDE DEF a, b, c, d
  <2>3. a * d + c * b \in Int /\ b * d \in Int /\ b * d > 0
    BY <2>1, Z3
  <2> QED
    BY <2>2, <2>3 DEF Fractions
<1>11. IsFiniteSet(labels)
  <2> DEFINE f == [i \in group |-> source.rows[i][target]]
  <2>1. IsFiniteSet(group)
    BY <1>2, FS_Subset DEF D
  <2>2. DOMAIN f = group
    OBVIOUS
  <2>3. labels = {f[i] : i \in group}
    OBVIOUS
  <2> HIDE DEF f, labels
  <2> QED
    BY <2>1, <2>2, <2>3, ImageIsFinite
<1> HIDE DEF labels
<1>12. \A s \in SUBSET labels : s # {} => pick[s] \in s
  OBVIOUS
<1>13. \A x \in labels, v \in Fractions : step[<<x, v>>] \in Fractions
  BY <1>8, <1>10
<1>14. \E f : Runs(f)
  <2>1. PICK f : IsFold(f, step, pick, base, labels)
    <3> HIDE DEF step, pick
    <3> QED
      BY <1>11, <1>12, FoldExists
  <2>2. \A s \in SUBSET labels : f[s] \in Fractions
    <3> HIDE DEF step, pick
    <3> QED
      BY <1>9, <1>11, <1>12, <1>13, <2>1, FoldStays
  <2>3. ASSUME NEW s \in SUBSET labels, s # {}
        PROVE  step[<<pick[s], f[s \ {pick[s]}]>>] =
               Plus(f[s \ {CHOOSE x \in s : TRUE}], Penalty(CHOOSE x \in s : TRUE))
    <3>1. pick[s] \in labels /\ s \ {pick[s]} \in SUBSET labels
      BY <1>12, <2>3
    <3>2. f[s \ {pick[s]}] \in Fractions
      BY <2>2, <3>1
    <3>3. pick[s] = CHOOSE x \in s : TRUE
      OBVIOUS
    <3> HIDE DEF pick
    <3> QED
      BY <3>1, <3>2, <3>3
  <2>4. Runs(f)
    <3> HIDE DEF step
    <3> QED
      BY <2>1, <2>3 DEF IsFold
  <2> QED
    BY <2>4
<1>15. Runs(run)
  BY <1>14
<1> HIDE DEF run
<1> DEFINE T == {s \in SUBSET labels : run[s] \notin Fractions}
<1>16. ASSUME T # {} PROVE FALSE
  <2>a. T \in SUBSET SUBSET labels
    OBVIOUS
  <2>1. PICK s \in T : \A t \in T : t \subseteq s => t = s
    <3> HIDE DEF T
    <3> QED
      BY <1>11, <1>16, <2>a, SmallestSubset
  <2>2. s # {} /\ s \in SUBSET labels
    BY <1>9, <1>15
  <2> DEFINE x == CHOOSE x \in s : TRUE
  <2>3. x \in s
    BY <2>2
  <2>4. run[s] = Plus(run[s \ {x}], Penalty(x))
    BY <1>15, <2>2
  <2> HIDE DEF x
  <2>5. run[s \ {x}] \in Fractions
    BY <2>1, <2>2, <2>3
  <2> QED
    BY <1>8, <1>10, <2>1, <2>4, <2>5
<1>17. run[labels] \in Fractions
  BY <1>16
<1> QED
  BY <1>1, <1>17

\* The groups placed so far, with their splits.
Placements(source) == UNION {[D -> SplitNames] : D \in SUBSET SUBSET DOMAIN source.rows}

\* splits.py:348, _best_split: the next group gets one of the three splits.
LEMMA NextGroupIsPlaced ==
    ASSUME NEW source, IsSource(source), NEW target
    PROVE  \A done \in Placements(source), group \in SUBSET DOMAIN source.rows :
              /\ Place(done, group, BestSplit(source, target, done, group)) \in Placements(source)
              /\ \A g : g \in DOMAIN Place(done, group, BestSplit(source, target, done, group))
                          <=> g \in DOMAIN done \/ g = group
<1> SUFFICES ASSUME NEW done \in Placements(source), NEW group \in SUBSET DOMAIN source.rows
             PROVE  /\ Place(done, group, BestSplit(source, target, done, group)) \in Placements(source)
                    /\ \A g : g \in DOMAIN Place(done, group, BestSplit(source, target, done, group))
                                <=> g \in DOMAIN done \/ g = group
  OBVIOUS
<1>1. PICK D \in SUBSET SUBSET DOMAIN source.rows : done \in [D -> SplitNames]
  BY DEF Placements
<1>2. \A g \in DOMAIN done : g \subseteq DOMAIN source.rows
  BY <1>1
<1> DEFINE score == [s \in SplitNames |-> SplitScore(source, target, done, group, s)]
           best == FirstLeast(score)
<1>3. best \in SplitNames
  <2>1. \A s \in SplitNames : SplitScore(source, target, done, group, s) \in Fractions
    BY <1>2, ScoreIsFraction
  <2>2. score \in [SplitNames -> Fractions]
    BY <2>1
  <2> HIDE DEF score
  <2> QED
    BY <2>2, FirstLeastIsSplit
<1>4. BestSplit(source, target, done, group) = best
  BY DEF BestSplit
<1> HIDE DEF score, best
<1> DEFINE next == Place(done, group, best)
           E == D \cup {group}
<1>5. next \in [E -> SplitNames] /\ \A g : g \in DOMAIN next <=> g \in DOMAIN done \/ g = group
  BY <1>1, <1>3 DEF Place
<1>6. E \in SUBSET SUBSET DOMAIN source.rows
  BY <1>1
<1> HIDE DEF E, next
<1>7. next \in Placements(source)
  BY <1>5, <1>6 DEF Placements
<1> QED
  BY <1>4, <1>5, <1>7 DEF next

\* splits.py:269, _assign_splits: in the end every group has one of the splits.
LEMMA GroupsArePlaced ==
    ASSUME NEW source, IsSource(source), NEW target, NEW n \in Nat,
           NEW order, DOMAIN order = 1..n,
           \A k \in 1..n : order[k] \in SUBSET DOMAIN source.rows
    PROVE  /\ DOMAIN PlacedGroups(source, target, order) = {order[k] : k \in 1..n}
           /\ \A g \in {order[k] : k \in 1..n} : PlacedGroups(source, target, order)[g] \in SplitNames
<1> DEFINE K == 1..n
           V == Placements(source)
           Next(done, g) == Place(done, g, BestSplit(source, target, done, g))
           pick == [s \in SUBSET K |-> Max(s)]
           step == [q \in K \X V |-> Next(q[2], order[q[1]])]
           Runs(f) == f = [s \in SUBSET K |->
                             IF s = {} THEN <<>> ELSE Next(f[s \ {Max(s)}], order[Max(s)])]
           run == CHOOSE f : Runs(f)
<1>1. PlacedGroups(source, target, order) = run[K]
  <2>1. DOMAIN order = K
    OBVIOUS
  <2> QED
    BY <2>1 DEF PlacedGroups, FoldLeft, MapThenFoldSet
<1>2. IsFiniteSet(K)
  <2>1. 1 \in Int /\ n \in Int
    OBVIOUS
  <2> QED
    BY <2>1, FS_Interval
<1>3. \A s \in SUBSET K : s # {} => Max(s) \in s
  <2> SUFFICES ASSUME NEW s \in SUBSET K, s # {} PROVE Max(s) \in s
    OBVIOUS
  <2>1. \A x \in s : x \in Int
    OBVIOUS
  <2>2. IsFiniteSet(s)
    BY <1>2, FS_Subset
  <2> QED
    BY <2>1, <2>2, MaxOfFinite
<1>4. \A x \in K : order[x] \in SUBSET DOMAIN source.rows
  OBVIOUS
<1> HIDE DEF K
<1>5. <<>> \in V /\ DOMAIN <<>> = {}
  <2>1. <<>> \in [{} -> SplitNames]
    OBVIOUS
  <2>2. {} \in SUBSET SUBSET DOMAIN source.rows
    OBVIOUS
  <2> QED
    BY <2>1, <2>2 DEF Placements
<1>6. \A done \in V, x \in K :
         /\ Next(done, order[x]) \in V
         /\ \A g : g \in DOMAIN Next(done, order[x]) <=> g \in DOMAIN done \/ g = order[x]
  BY <1>4, NextGroupIsPlaced
<1> HIDE DEF Next, V
<1>7. \A s \in SUBSET K : s # {} => pick[s] \in s
  BY <1>3
<1>8. \A x \in K, v \in V : step[<<x, v>>] \in V
  BY <1>6
<1>9. \E f : Runs(f)
  <2>1. PICK f : IsFold(f, step, pick, <<>>, K)
    <3> HIDE DEF step, pick
    <3> QED
      BY <1>2, <1>7, FoldExists
  <2>2. \A s \in SUBSET K : f[s] \in V
    <3> HIDE DEF step, pick
    <3> QED
      BY <1>2, <1>5, <1>7, <1>8, <2>1, FoldStays
  <2>3. ASSUME NEW s \in SUBSET K, s # {}
        PROVE  step[<<pick[s], f[s \ {pick[s]}]>>] = Next(f[s \ {Max(s)}], order[Max(s)])
    <3>1. pick[s] \in K /\ s \ {pick[s]} \in SUBSET K
      BY <1>7, <2>3
    <3>2. f[s \ {pick[s]}] \in V
      BY <2>2, <3>1
    <3>3. pick[s] = Max(s)
      OBVIOUS
    <3> HIDE DEF pick
    <3> QED
      BY <3>1, <3>2, <3>3
  <2>4. Runs(f)
    <3> HIDE DEF step
    <3> QED
      BY <2>1, <2>3 DEF IsFold
  <2> QED
    BY <2>4
<1>10. Runs(run)
  BY <1>9
<1> HIDE DEF run
<1> DEFINE Placed(s) == {order[k] : k \in s}
           T == {s \in SUBSET K : ~(run[s] \in V /\ DOMAIN run[s] = Placed(s))}
<1>11. ASSUME T # {} PROVE FALSE
  <2>a. T \in SUBSET SUBSET K
    OBVIOUS
  <2>1. PICK s \in T : \A t \in T : t \subseteq s => t = s
    <3> HIDE DEF T
    <3> QED
      BY <1>2, <1>11, <2>a, SmallestSubset
  <2>2. s # {} /\ s \in SUBSET K
    BY <1>5, <1>10
  <2> DEFINE x == Max(s)
  <2>3. x \in s
    BY <1>3, <2>2
  <2>4. run[s] = Next(run[s \ {x}], order[x])
    BY <1>10, <2>2
  <2> HIDE DEF x
  <2>5. run[s \ {x}] \in V /\ DOMAIN run[s \ {x}] = Placed(s \ {x})
    BY <2>1, <2>2, <2>3
  <2>6. run[s] \in V /\ DOMAIN run[s] = Placed(s \ {x}) \cup {order[x]}
    <3>1. x \in K
      BY <2>2, <2>3
    <3> DEFINE rest == run[s \ {x}]
               placed == Placed(s \ {x})
    <3>2. rest \in V /\ DOMAIN rest = placed /\ run[s] = Next(rest, order[x])
      BY <2>4, <2>5
    <3> HIDE DEF rest, placed, T
    <3>3. /\ Next(rest, order[x]) \in V
          /\ \A g : g \in DOMAIN Next(rest, order[x]) <=> g \in DOMAIN rest \/ g = order[x]
      BY <1>6, <3>1, <3>2
    <3>4. DOMAIN run[s] = placed \cup {order[x]}
      BY <3>2, <3>3
    <3> QED
      BY <3>2, <3>3, <3>4 DEF placed
  <2>7. Placed(s \ {x}) \cup {order[x]} = Placed(s)
    BY <2>3
  <2> QED
    BY <2>1, <2>6, <2>7
<1>12. run[K] \in V /\ DOMAIN run[K] = Placed(K)
  BY <1>11
<1>13. \A g \in DOMAIN run[K] : run[K][g] \in SplitNames
  BY <1>12 DEF V, Placements
<1> QED
  BY <1>1, <1>12, <1>13 DEF K

-----------------------------------------------------------------------------
(* The assignments.                                                        *)

\* Every group has its place in the order.
LEMMA OrdersCoverGroups ==
    ASSUME NEW source, IsSource(source), NEW target, NEW key,
           NEW order \in GroupOrders(source, target, key)
    PROVE  \E n \in Nat : /\ DOMAIN order = 1..n
                          /\ \A k \in 1..n : order[k] \in SUBSET DOMAIN source.rows
                          /\ \A i \in DOMAIN source.rows : \E k \in 1..n : i \in order[k]
<1> DEFINE D == DOMAIN source.rows
           GroupWith(i) == {j \in D : j = i \/ (GroupValue(source, key, i) # Missing
                                              /\ GroupValue(source, key, i) = GroupValue(source, key, j))}
           f == [i \in D |-> GroupWith(i)]
           all == Groups(source, key)
           n == Cardinality(all)
<1>1. \A i \in D : f[i] \in SUBSET D /\ i \in f[i]
  OBVIOUS
<1>2. all = {f[i] : i \in D}
  BY DEF Groups
<1>3. IsFiniteSet(all)
  <2>1. IsFiniteSet(D)
    BY RowsAreFinite
  <2>2. DOMAIN f = D
    OBVIOUS
  <2> HIDE DEF f, D, all
  <2>3. IsFiniteSet({f[i] : i \in D})
    BY <2>1, <2>2, ImageIsFinite
  <2> QED
    BY <1>2, <2>3
<1>4. order \in [1..n -> all] /\ \A i, j \in 1..n : i # j => order[i] # order[j]
  BY DEF GroupOrders, SetToSeqs
<1> HIDE DEF D, f, all
<1>5. n \in Nat
  BY <1>3, FS_CardinalityType
<1>6. \A g \in all : \E k \in 1..n : order[k] = g
  <2> DEFINE K == 1..n
  <2>1. order \in Injection(K, all)
    BY <1>4 DEF Injection, IsInjective
  <2>2. IsFiniteSet(K) /\ Cardinality(K) = n
    <3> HIDE DEF n
    <3>1. 1 \in Int /\ n \in Int
      BY <1>5
    <3>2. IsFiniteSet(1..n) /\ Cardinality(1..n) = IF 1 > n THEN 0 ELSE n - 1 + 1
      BY <3>1, FS_Interval
    <3> QED
      BY <1>5, <3>2
  <2> HIDE DEF K
  <2>3. Cardinality(K) = Cardinality(all)
    BY <2>2
  <2>4. order \in Surjection(K, all)
    BY <1>3, <2>1, <2>3, FS_Injection
  <2> QED
    BY <2>4 DEF Surjection, K
<1> HIDE DEF n
<1>7. \A k \in 1..n : order[k] \in SUBSET D
  BY <1>1, <1>2, <1>4
<1>8. \A i \in D : \E k \in 1..n : i \in order[k]
  <2> SUFFICES ASSUME NEW i \in D PROVE \E k \in 1..n : i \in order[k]
    OBVIOUS
  <2>1. PICK k \in 1..n : order[k] = f[i]
    BY <1>2, <1>6
  <2> QED
    BY <1>1, <2>1
<1>9. DOMAIN order = 1..n
  BY <1>4
<1> QED
  BY <1>5, <1>7, <1>8, <1>9 DEF D

\* splits.py:269, _assign_splits: every row is assigned to one of the splits,
\* and rows that share a group value to the same.
LEMMA RowsAreAssigned ==
    ASSUME NEW source, IsSource(source), NEW target, NEW key,
           NEW order \in GroupOrders(source, target, key)
    PROVE  /\ AssignSplits(source, target, key, order) \in [DOMAIN source.rows -> SplitNames]
           /\ \A i, j \in DOMAIN source.rows :
                 GroupValue(source, key, i) = GroupValue(source, key, j) =>
                 AssignSplits(source, target, key, order)[i] = AssignSplits(source, target, key, order)[j]
<1> DEFINE D == DOMAIN source.rows
           placed == PlacedGroups(source, target, order)
           With(value) == {k \in DOMAIN order : \E i \in order[k] : GroupValue(source, key, i) = value}
           SplitOf(value) == placed[order[Max(With(value))]]
           split == [i \in D |-> SplitOf(GroupValue(source, key, i))]
<1>1. AssignSplits(source, target, key, order) = split
  BY DEF AssignSplits
<1>2. PICK n \in Nat : /\ DOMAIN order = 1..n
                       /\ \A k \in 1..n : order[k] \in SUBSET D
                       /\ \A i \in D : \E k \in 1..n : i \in order[k]
  BY OrdersCoverGroups
<1>3. \A k \in 1..n : placed[order[k]] \in SplitNames
  <2>1. \A g \in {order[k] : k \in 1..n} : placed[g] \in SplitNames
    BY <1>2, GroupsArePlaced
  <2> QED
    BY <2>1
<1>4. ASSUME NEW i \in D PROVE SplitOf(GroupValue(source, key, i)) \in SplitNames
  <2> DEFINE W == With(GroupValue(source, key, i))
  <2>1. W # {}
    <3>1. PICK k \in 1..n : i \in order[k]
      BY <1>2, <1>4
    <3>2. k \in W
      BY <1>2, <3>1
    <3> QED
      BY <3>2
  <2>2. \A k \in W : k \in 1..n /\ k \in Int
    BY <1>2
  <2>3. IsFiniteSet(W)
    <3>1. 1 \in Int /\ n \in Int
      BY <1>2
    <3>2. IsFiniteSet(1..n)
      BY <3>1, FS_Interval
    <3>3. W \in SUBSET (1..n)
      BY <2>2
    <3> HIDE DEF W
    <3> QED
      BY <3>2, <3>3, FS_Subset
  <2> HIDE DEF W
  <2>4. Max(W) \in W
    BY <2>1, <2>2, <2>3, MaxOfFinite
  <2>5. Max(W) \in 1..n
    BY <2>2, <2>4
  <2> QED
    BY <1>3, <2>5 DEF W
<1>5. \A i, j \in D : GroupValue(source, key, i) = GroupValue(source, key, j) => split[i] = split[j]
  <2> HIDE DEF SplitOf
  <2> QED
    OBVIOUS
<1>6. split \in [D -> SplitNames]
  <2> HIDE DEF SplitOf
  <2> QED
    BY <1>4
<1> QED
  BY <1>1, <1>5, <1>6

\* What the split step has to work with: rows with a label each, and the groups
\* in an order the seed allows. Ids that repeat are told apart by nothing but
\* the place of their row, so that groups are only checked without them.
IsSplitCase(s) ==
    LET key == GroupKey(s.source, SplitStep)
    IN  /\ IsSource(s.source)
        /\ "label" \in s.source.columns /\ s.source.rows # <<>>
        /\ \A i \in DOMAIN s.source.rows : s.source.rows[i]["label"] # Missing
        /\ DistinctIds(s.source) \/ key = Missing
        /\ s.order \in GroupOrders(s.source, "label", key)

\* The manifest lists the rows with the split, label and group of each.
Lists(m, source, split) ==
    /\ m.failure = Missing /\ m.target = "label" /\ m.key = GroupKey(source, SplitStep)
    /\ DOMAIN m.assignments = DOMAIN source.rows
    /\ \A i \in DOMAIN source.rows :
          /\ m.assignments[i].id = ObjectId(source, i)
          /\ m.assignments[i].split = split[i]
          /\ m.assignments[i].label = source.rows[i]["label"]
          /\ m.assignments[i].group = GroupValue(source, m.key, i)
    /\ m.distribution = ClassDistribution(m.assignments)

\* splits.py:135: the manifest of a source that can be split.
LEMMA NewManifest ==
    ASSUME NEW s, IsSplitCase(s)
    PROVE  Lists(SplitOfCase(s), s.source,
                 AssignSplits(s.source, "label", GroupKey(s.source, SplitStep), s.order))
<1> DEFINE source == s.source
           key == GroupKey(source, SplitStep)
           split == AssignSplits(source, "label", key, s.order)
           A == [i \in DOMAIN source.rows |->
                   [id |-> ObjectId(source, i), split |-> split[i], label |-> source.rows[i]["label"],
                    group |-> GroupValue(source, key, i)]]
           m == [failure |-> Missing, target |-> "label", key |-> key, assignments |-> A,
                 distribution |-> ClassDistribution(A)]
<1>1. ReadFailure(source, "label") = Missing
  BY DEF IsSplitCase, ReadFailure
<1>2. /\ SplitStep.type = "CREATE_SPLIT" /\ SplitStep.strategy = "group_stratified"
      /\ SplitStep.group = Missing
  BY DEF SplitStep
<1>3. ~ \E i \in DOMAIN source.rows : source.rows[i]["label"] = Missing
  BY DEF IsSplitCase
<1>4. SplitFailure(source, "label", SplitStep) = Missing
  BY <1>1, <1>2, <1>3 DEF SplitFailure
<1> HIDE DEF key, split
<1>5. SplitOfCase(s) = m
  BY <1>4 DEF SplitOfCase, CreateSplit, key, split
<1>6. DOMAIN A = DOMAIN source.rows /\ \A i \in DOMAIN source.rows :
         /\ A[i].id = ObjectId(source, i) /\ A[i].split = split[i]
         /\ A[i].label = source.rows[i]["label"] /\ A[i].group = GroupValue(source, key, i)
  OBVIOUS
<1> HIDE DEF A
<1>7. m.failure = Missing /\ m.target = "label" /\ m.key = key /\ m.assignments = A
      /\ m.distribution = ClassDistribution(A)
  OBVIOUS
<1> HIDE DEF m
<1> QED
  BY <1>5, <1>6, <1>7 DEF Lists, key, split

\* leakage_checks.py: the new manifest can be checked against its source.
LEMMA NewManifestIsChecked ==
    ASSUME NEW s, IsSplitCase(s), NEW split, NEW m, Lists(m, s.source, split)
    PROVE  LeakageFailure(s.source, m) = Missing
<1> DEFINE source == s.source
           D == DOMAIN source.rows
<1>1. ReadFailure(source, "label") = Missing
  BY DEF IsSplitCase, ReadFailure
<1>2. D # {}
  <2>1. Len(source.rows) \in Nat /\ D = 1..Len(source.rows) /\ source.rows # <<>>
    BY RowsAreFinite DEF IsSplitCase
  <2>2. PICK RowType : source.rows \in Seq(RowType)
    BY DEF IsSplitCase, IsSource
  <2>3. Len(source.rows) # 0
    BY <2>1, <2>2
  <2>4. 1 \in 1..Len(source.rows)
    BY <2>1, <2>3
  <2> QED
    BY <2>1, <2>4
<1>3. m.assignments # <<>>
  <2>1. DOMAIN m.assignments = D
    BY DEF Lists
  <2>2. DOMAIN <<>> = {}
    OBVIOUS
  <2> QED
    BY <1>2, <2>1, <2>2
<1>4. AssignedIds(m) \subseteq Range(ObjectIds(source))
  <2> SUFFICES ASSUME NEW id \in AssignedIds(m) PROVE id \in Range(ObjectIds(source))
    OBVIOUS
  <2>1. PICK a \in ToSet(m.assignments) : id = a.id
    BY DEF AssignedIds
  <2>2. PICK i \in D : a = m.assignments[i]
    BY <2>1 DEF ToSet, Lists
  <2>3. id = ObjectId(source, i)
    BY <2>1, <2>2 DEF Lists
  <2> QED
    BY <2>3 DEF Range, ObjectIds
<1>5. m.target = "label"
  BY DEF Lists
<1> QED
  BY <1>1, <1>3, <1>4, <1>5 DEF LeakageFailure

\* A number is the largest of itself.
LEMMA MaxOfOne ==
    ASSUME NEW i \in Int
    PROVE  Max({i}) = i
<1>1. i \in {i} /\ \A y \in {i} : i >= y
  OBVIOUS
<1> QED
  BY <1>1 DEF Max

\* leakage_checks.py:375: rows of one group have one split, so that the group
\* check has nothing to report when every row has an id of its own.
LEMMA NewGroupsDoNotLeak ==
    ASSUME NEW s, IsSplitCase(s), NEW split, NEW m, Lists(m, s.source, split),
           \A i, j \in DOMAIN s.source.rows :
              GroupValue(s.source, m.key, i) = GroupValue(s.source, m.key, j) => split[i] = split[j]
    PROVE  GroupKeyCheck(s.source, m).status # "failed"
<1> DEFINE source == s.source
           D == DOMAIN source.rows
           key == m.key
<1>1. CASE key = Missing
  <2>1. GroupKeyCheck(source, m) = Check("not_applicable", "info", Missing)
    BY <1>1 DEF GroupKeyCheck
  <2> QED
    BY <2>1 DEF Check
<1>2. CASE key # Missing
  <2>1. key \in source.columns
    <3>1. SplitStep.group = Missing
      BY DEF SplitStep
    <3>2. key = GroupKey(source, SplitStep)
      BY DEF Lists
    <3> QED
      BY <1>2, <3>1, <3>2 DEF GroupKey
  <2>2. \A i, j \in D : ObjectId(source, i) = ObjectId(source, j) => i = j
    <3>1. DistinctIds(source)
      BY <1>2 DEF IsSplitCase, Lists
    <3>2. DOMAIN ObjectIds(source) = D /\ \A i \in D : ObjectIds(source)[i] = ObjectId(source, i)
      BY DEF ObjectIds
    <3> QED
      BY <3>1, <3>2 DEF DistinctIds, IsInjective
  <2>3. ASSUME NEW i \in D PROVE AssignedSplit(m, ObjectId(source, i)) = split[i]
    <3> DEFINE W == {k \in DOMAIN m.assignments : m.assignments[k].id = ObjectId(source, i)}
    <3>1. W = {i}
      BY <2>2, <2>3 DEF Lists
    <3>2. i \in Int
      BY <2>3, RowsAreFinite DEF IsSplitCase
    <3>3. Max(W) = i
      <4>1. Max({i}) = i
        BY <3>2, MaxOfOne
      <4> HIDE DEF W
      <4> QED
        BY <3>1, <4>1
    <3>4. AssignedSplit(m, ObjectId(source, i)) = m.assignments[Max(W)].split
      BY DEF AssignedSplit
    <3> HIDE DEF W
    <3> QED
      BY <3>3, <3>4 DEF Lists
  <2> DEFINE keys == [i \in D |-> IF key \in source.columns THEN source.rows[i][key] ELSE Missing]
  <2>4. \A i \in D : keys[i] = GroupValue(source, key, i)
    BY <1>2, <2>1 DEF GroupValue
  <2> HIDE DEF keys
  <2>5. CrossSplitFindings(source, m, keys) = {}
    <3> SUFFICES ASSUME NEW c \in CrossSplitFindings(source, m, keys) PROVE FALSE
      OBVIOUS
    <3> DEFINE assigned == {i \in D : ObjectId(source, i) \in AssignedIds(m)}
               splits == {AssignedSplit(m, ObjectId(source, i)) : i \in c}
    <3>1. PICK i \in assigned : c = {j \in assigned : keys[j] = keys[i]}
      BY DEF CrossSplitFindings
    <3>2. Cardinality(splits) > 1
      BY DEF CrossSplitFindings
    <3>3. i \in c /\ \A j \in c : j \in D /\ split[j] = split[i]
      BY <2>4, <3>1
    <3>4. splits = {split[i]}
      BY <2>3, <3>3
    <3> HIDE DEF splits
    <3>5. Cardinality(splits) = 1
      BY <3>4, FS_Singleton
    <3> QED
      BY <3>2, <3>5
  <2>6. GroupKeyCheck(source, m) = CrossSplitCheck(CrossSplitFindings(source, m, keys))
    BY <1>2 DEF GroupKeyCheck, keys
  <2>7. GroupKeyCheck(source, m) = Check("passed", "info", Missing)
    BY <2>5, <2>6 DEF CrossSplitCheck
  <2> QED
    BY <2>7 DEF Check
<1> QED
  BY <1>1, <1>2

\* splits.py:402, _class_distribution: the totals of the splits add up to the
\* rows, and the labels of a split to its total.
LEMMA DistributionAddsUp ==
    ASSUME NEW source, IsSource(source), NEW split \in [DOMAIN source.rows -> SplitNames],
           NEW m, Lists(m, source, split)
    PROVE  /\ SumFunction([t \in SplitNames |-> m.distribution[t].total]) = Len(source.rows)
           /\ \A t \in SplitNames : SumFunction(m.distribution[t].labels) = m.distribution[t].total
<1> DEFINE D == DOMAIN source.rows
           A == m.assignments
           labels == {a.label : a \in ToSet(A)}
           In(t) == {i \in D : A[i].split = t}
           Count(t, l) == Cardinality({i \in In(t) : A[i].label = l})
           total == [t \in SplitNames |-> Cardinality(In(t))]
           counts(t) == [l \in labels |-> Count(t, l)]
<1>1. IsFiniteSet(D) /\ Cardinality(D) = Len(source.rows)
  BY RowsAreFinite
<1>2. DOMAIN A = D /\ \A i \in D : A[i].split = split[i]
  BY DEF Lists
<1>3. \A t \in SplitNames : /\ m.distribution[t].total = Cardinality(In(t))
                            /\ m.distribution[t].labels = counts(t)
  <2>1. m.distribution = ClassDistribution(A)
    BY DEF Lists
  <2>2. ASSUME NEW t \in SplitNames
        PROVE  ClassDistribution(A)[t] = [total |-> Cardinality(In(t)), labels |-> counts(t)]
    BY <1>2 DEF ClassDistribution
  <2> SUFFICES ASSUME NEW t \in SplitNames
               PROVE  m.distribution[t].total = Cardinality(In(t)) /\ m.distribution[t].labels = counts(t)
    OBVIOUS
  <2> DEFINE x == Cardinality(In(t))
             y == counts(t)
             d == m.distribution
  <2>3. d[t] = [total |-> x, labels |-> y]
    BY <2>1, <2>2
  <2> HIDE DEF x, y, d
  <2>4. d[t].total = x /\ d[t].labels = y
    BY <2>3
  <2> QED
    BY <2>4 DEF x, y, d
<1>4. \A t : In(t) \in SUBSET D /\ IsFiniteSet(In(t))
  <2> SUFFICES ASSUME NEW t PROVE In(t) \in SUBSET D /\ IsFiniteSet(In(t))
    OBVIOUS
  <2> DEFINE I == In(t)
  <2>1. I \in SUBSET D
    OBVIOUS
  <2> HIDE DEF I, D
  <2>2. IsFiniteSet(I)
    BY <1>1, <2>1, FS_Subset
  <2> QED
    BY <2>1, <2>2 DEF I
<1>5. SumFunction(total) = Cardinality(D)
  <2>1. total \in [SplitNames -> Int]
    <3>1. ASSUME NEW t \in SplitNames PROVE Cardinality(In(t)) \in Int
      <4> HIDE DEF In
      <4> QED
        BY <1>4, FS_CardinalityType
    <3> HIDE DEF In
    <3> QED
      BY <3>1
  <2>2. ASSUME NEW t \in SplitNames PROVE total[t] = Cardinality({i \in D : split[i] = t})
    <3>1. In(t) = {i \in D : split[i] = t}
      BY <1>2
    <3>2. total[t] = Cardinality(In(t))
      OBVIOUS
    <3> HIDE DEF In, total
    <3> QED
      BY <3>1, <3>2
  <2>3. split \in [D -> SplitNames] /\ IsFiniteSet(SplitNames) /\ IsFiniteSet(D)
    BY <1>1, SplitsInOrder
  <2> HIDE DEF total, D
  <2> QED
    BY <2>1, <2>2, <2>3, PartitionSum
<1>6. IsFiniteSet(labels)
  <2> DEFINE f == [i \in D |-> A[i].label]
  <2>1. DOMAIN f = D
    OBVIOUS
  <2>2. labels = {f[i] : i \in D}
    BY <1>2 DEF ToSet
  <2> HIDE DEF f, labels, D
  <2> QED
    BY <1>1, <2>1, <2>2, ImageIsFinite
<1>7. ASSUME NEW t \in SplitNames PROVE SumFunction(counts(t)) = Cardinality(In(t))
  <2> DEFINE I == In(t)
             at == [i \in I |-> A[i].label]
             c == counts(t)
  <2>1. IsFiniteSet(I) /\ I \in SUBSET D
    BY <1>4
  <2>2. at \in [I -> labels]
    <3>1. \A i \in D : A[i].label \in labels
      BY <1>2 DEF ToSet
    <3> HIDE DEF I, labels
    <3> QED
      BY <2>1, <3>1
  <2>3. ASSUME NEW l \in labels PROVE Count(t, l) \in Int /\ Count(t, l) = Cardinality({i \in I : at[i] = l})
    <3> DEFINE C == {i \in I : A[i].label = l}
    <3>1. C \in SUBSET I
      OBVIOUS
    <3>2. C = {i \in I : at[i] = l}
      OBVIOUS
    <3>3. Count(t, l) = Cardinality(C)
      OBVIOUS
    <3> HIDE DEF C, I, at, Count
    <3>4. Cardinality(C) \in Int
      BY <2>1, <3>1, FS_Subset, FS_CardinalityType
    <3> QED
      BY <3>2, <3>3, <3>4
  <2>4. c \in [labels -> Int] /\ \A l \in labels : c[l] = Cardinality({i \in I : at[i] = l})
    <3> HIDE DEF Count, labels, I, at
    <3> QED
      BY <2>3
  <2> HIDE DEF c, at, labels, I
  <2>5. SumFunction(c) = Cardinality(I)
    BY <1>6, <2>1, <2>2, <2>4, PartitionSum
  <2> QED
    BY <2>5 DEF c, I
<1>8. [t \in SplitNames |-> m.distribution[t].total] = total
  <2> HIDE DEF In
  <2> QED
    BY <1>3
<1> HIDE DEF In, counts, total
<1> QED
  BY <1>1, <1>3, <1>5, <1>7, <1>8

\* leakage_checks.py: when the groups do not leak, leakage is what equal rows
\* in two splits and a column that gives the target away make it.
LEMMA LeakageVerdict ==
    ASSUME NEW source, NEW m, NEW candidates, LeakageFailure(source, m) = Missing,
           GroupKeyCheck(source, m).status # "failed"
    PROVE  LET report == LeakageReport(source, m, candidates)
           IN  /\ report.failure = Missing /\ report.group # "failed"
               /\ report.detected <=> \/ report.exact = "failed"
                                      \/ candidates # Missing /\ "high_target_match_rate" \in candidates
<1> DEFINE exact == ExactHashCheck(source, m)
           group == GroupKeyCheck(source, m)
           target == TargetLeakageCheck(candidates)
           checks == {exact, group, target}
           Blocks(c) == c.status = "failed" /\ c.severity = "blocker"
           blocks == {c.blocks : c \in {d \in checks : d.status = "failed" /\ d.severity = "blocker"}}
           gives == candidates # Missing /\ "high_target_match_rate" \in candidates
           report == LeakageReport(source, m, candidates)
<1>1. Blocks(exact) <=> exact.status = "failed"
  <2>1. \/ exact = Check("passed", "info", Missing)
        \/ exact = Check("failed", "blocker", "BLOCK_MODEL_EVALUATION")
    BY DEF ExactHashCheck, CrossSplitCheck
  <2> HIDE DEF exact
  <2> QED
    BY <2>1 DEF Check
<1>2. ~Blocks(group)
  OBVIOUS
<1>3. Blocks(target) <=> gives
  <2>1. CASE candidates = Missing \/ candidates = {}
    <3>1. \/ target = Check("not_applicable", "info", Missing)
          \/ target = Check("passed", "info", Missing)
      BY <2>1 DEF TargetLeakageCheck
    <3>2. ~gives
      BY <2>1
    <3> HIDE DEF target
    <3> QED
      BY <3>1, <3>2 DEF Check
  <2>2. CASE candidates # Missing /\ candidates # {}
    <3>1. target = IF "high_target_match_rate" \in candidates
                   THEN Check("failed", "blocker", "BLOCK_TRAINING")
                   ELSE Check("failed", "warning", Missing)
      BY <2>2 DEF TargetLeakageCheck
    <3> HIDE DEF target
    <3> QED
      BY <2>2, <3>1 DEF Check
  <2> QED
    BY <2>1, <2>2
<1> HIDE DEF gives
<1>4. blocks # {} <=> Blocks(exact) \/ Blocks(group) \/ Blocks(target)
  <2> HIDE DEF exact, group, target
  <2> QED
    OBVIOUS
<1>5. report = [failure |-> Missing, exact |-> exact.status, group |-> group.status,
                detected |-> blocks # {}, risk |-> RiskScore(checks),
                blockEvaluation |-> "BLOCK_MODEL_EVALUATION" \in blocks,
                blockTraining |-> "BLOCK_TRAINING" \in blocks]
  BY DEF LeakageReport
<1> HIDE DEF report, blocks, checks, exact, group, target, Blocks
<1>6. /\ report.failure = Missing /\ report.exact = exact.status /\ report.group = group.status
      /\ report.detected = (blocks # {})
  BY <1>5
<1>7. group.status # "failed"
  BY DEF group
<1>8. report.detected <=> report.exact = "failed" \/ gives
  BY <1>1, <1>2, <1>3, <1>4, <1>6
<1> QED
  BY <1>6, <1>7, <1>8 DEF report, gives

\* splits.py, leakage_checks.py: for every source the split step accepts, and
\* every order the seed puts its groups in, the new manifest assigns each row
\* to one split, keeps groups whole, counts what it lists, has targets that add
\* up, and fails its own leakage check for equal rows or a telling column only.
THEOREM NewSplitsKeepGroupsWhole == IsSplitCase(subject) => SplitsKeepGroupsWhole
<1> SUFFICES ASSUME IsSplitCase(subject), subject.kind = "split" PROVE SplitsKeepGroupsWhole
  BY DEF SplitsKeepGroupsWhole, SplitStepKeepsGroups
<1> DEFINE s == subject
           source == s.source
           D == DOMAIN source.rows
           key == GroupKey(source, SplitStep)
           split == AssignSplits(source, "label", key, s.order)
           m == SplitOfCase(s)
           report == LeakageReport(source, m, s.candidates)
           assigned == [i \in DOMAIN m.assignments |-> m.assignments[i].split]
<1>1. /\ split \in [D -> SplitNames]
      /\ \A i, j \in D : GroupValue(source, key, i) = GroupValue(source, key, j) => split[i] = split[j]
  BY RowsAreAssigned DEF IsSplitCase
<1>2. Lists(m, source, split)
  BY NewManifest
<1>3. IsSource(source) /\ Len(source.rows) \in Nat
  BY RowsAreFinite DEF IsSplitCase
<1>4. m.failure = Missing /\ m.key = key
  BY <1>2 DEF Lists
<1> HIDE DEF split, m, key
<1>5. \A a, b \in ToSet(m.assignments) :
         a.group = b.group /\ a.group # Missing => a.split = b.split
  <2> SUFFICES ASSUME NEW a \in ToSet(m.assignments), NEW b \in ToSet(m.assignments), a.group = b.group
               PROVE  a.split = b.split
    OBVIOUS
  <2>1. PICK i \in D : a = m.assignments[i]
    BY <1>2 DEF Lists, ToSet
  <2>2. PICK j \in D : b = m.assignments[j]
    BY <1>2 DEF Lists, ToSet
  <2> QED
    BY <1>1, <1>2, <1>4, <2>1, <2>2 DEF Lists
<1>6. LeakageFailure(source, m) = Missing
  BY <1>2, NewManifestIsChecked
<1>7. GroupKeyCheck(source, m).status # "failed"
  BY <1>1, <1>2, <1>4, NewGroupsDoNotLeak
<1>8. /\ report.failure = Missing /\ report.group # "failed"
      /\ report.detected <=> \/ report.exact = "failed"
                             \/ s.candidates # Missing /\ "high_target_match_rate" \in s.candidates
  BY <1>6, <1>7, LeakageVerdict
<1>9. /\ SumFunction([t \in SplitNames |-> m.distribution[t].total]) = Len(source.rows)
      /\ \A t \in SplitNames : SumFunction(m.distribution[t].labels) = m.distribution[t].total
  BY <1>1, <1>2, <1>3, DistributionAddsUp
<1>10. SumFunction(TargetCounts(Len(source.rows))) = Len(source.rows)
  BY <1>3, TargetsAddUp
<1>11. assigned \in [D -> SplitNames]
  BY <1>1, <1>2 DEF Lists
<1> HIDE DEF report, assigned
<1>12. SplitKeepsGroupsWhole(s, m, report)
  BY <1>4, <1>5, <1>8, <1>9, <1>10, <1>11 DEF SplitKeepsGroupsWhole, assigned
<1> QED
  BY <1>12 DEF SplitsKeepGroupsWhole, SplitStepKeepsGroups, m, report

-----------------------------------------------------------------------------
(* Imputation.                                                             *)

\* A finite set of numbers has a smallest one.
LEMMA MinOfFinite ==
    ASSUME NEW S, IsFiniteSet(S), S # {}, \A x \in S : x \in Int
    PROVE  Min(S) \in S /\ \A y \in S : Min(S) <= y
<1> DEFINE f == [x \in S |-> -x]
           N == {f[x] : x \in S}
<1>1. IsFiniteSet(N)
  BY ImageIsFinite
<1>2. N # {} /\ \A n \in N : n \in Int
  OBVIOUS
<1>3. Max(N) \in N /\ \A n \in N : Max(N) >= n
  <2> HIDE DEF N
  <2> QED
    BY <1>1, <1>2, MaxOfFinite
<1>4. PICK x \in S : Max(N) = -x
  BY <1>3
<1>5. ASSUME NEW y \in S PROVE x <= y
  <2>1. -y \in N /\ Max(N) >= -y
    BY <1>3
  <2> HIDE DEF N
  <2> QED
    BY <1>4, <2>1
<1> QED
  BY <1>5 DEF Min

\* The median of some numbers lies between any bounds they have.
LEMMA MedianIsBetween ==
    ASSUME NEW source, NEW column, NEW rows, IsFiniteSet(rows), rows # {},
           NEW low \in Int, NEW high \in Int,
           \A i \in rows : source.rows[i][column] \in low..high
    PROVE  Median(source, column, rows) \in low..high
<1> DEFINE Cell(i) == source.rows[i][column]
           n == Cardinality(rows)
           V == {Cell(i) : i \in rows}
           W(k) == {v \in V : Cardinality({i \in rows : Cell(i) <= v}) >= k}
           At(k) == Min(W(k))
           middle == n \div 2
<1>1. n \in Nat /\ n >= 1
  BY FS_CardinalityType, FS_EmptySet
<1>2. IsFiniteSet(V) /\ V # {} /\ \A v \in V : v \in Int /\ v \in low..high
  <2> DEFINE f == [i \in rows |-> Cell(i)]
  <2>1. IsFiniteSet({f[i] : i \in rows})
    BY ImageIsFinite
  <2>2. V = {f[i] : i \in rows}
    OBVIOUS
  <2>3. V # {} /\ \A v \in V : v \in Int /\ v \in low..high
    OBVIOUS
  <2> HIDE DEF V, f
  <2> QED
    BY <2>1, <2>2, <2>3
<1>3. ASSUME NEW k \in 1..n PROVE At(k) \in low..high
  <2>1. Max(V) \in V /\ \A v \in V : Max(V) >= v
    <3> HIDE DEF V
    <3> QED
      BY <1>2, MaxOfFinite
  <2>2. {i \in rows : Cell(i) <= Max(V)} = rows
    <3>1. \A i \in rows : Cell(i) \in V /\ Cell(i) \in Int
      BY <1>2
    <3>2. Max(V) \in Int
      BY <1>2, <2>1
    <3> HIDE DEF V, Cell
    <3>3. \A i \in rows : Cell(i) <= Max(V)
      BY <2>1, <3>1, <3>2
    <3> QED
      BY <3>3
  <2>3. Max(V) \in W(k)
    <3> HIDE DEF V
    <3>1. Cardinality({i \in rows : Cell(i) <= Max(V)}) = n
      BY <2>2
    <3> HIDE DEF Cell
    <3> QED
      BY <1>1, <1>3, <2>1, <3>1
  <2>4. W(k) \in SUBSET V
    OBVIOUS
  <2> HIDE DEF W, V
  <2>5. IsFiniteSet(W(k)) /\ W(k) # {} /\ \A v \in W(k) : v \in Int
    BY <1>2, <2>3, <2>4, FS_Subset
  <2> DEFINE S == W(k)
  <2>6. Min(S) \in S
    <3> HIDE DEF S
    <3>1. IsFiniteSet(S) /\ S # {} /\ \A v \in S : v \in Int
      BY <2>5 DEF S
    <3> QED
      BY <3>1, MinOfFinite
  <2> QED
    BY <1>2, <2>4, <2>6
<1>4. Median(source, column, rows) =
        IF n % 2 = 1 THEN At(middle + 1) ELSE (At(middle) + At(middle + 1)) \div 2
  BY DEF Median
<1> HIDE DEF At
<1>5. CASE n % 2 = 1
  <2>1. middle + 1 \in 1..n
    BY <1>1, <1>5
  <2>2. At(middle + 1) \in low..high
    BY <1>3, <2>1
  <2> QED
    BY <1>4, <1>5, <2>2
<1>6. CASE n % 2 # 1
  <2>1. middle \in 1..n /\ middle + 1 \in 1..n
    BY <1>1, <1>6
  <2> DEFINE a == At(middle)
             b == At(middle + 1)
  <2>2. a \in low..high /\ b \in low..high
    BY <1>3, <2>1
  <2> HIDE DEF a, b
  <2>3. (a + b) \div 2 \in low..high
    BY <2>2
  <2> QED
    BY <1>4, <1>6, <2>3 DEF a, b
<1> QED
  BY <1>5, <1>6

\* None is a value of its own, neither a number nor a word nor a record, and a
\* cell that is no number is none.
NoneIsApart ==
    /\ Missing \notin Int \cup {"no_non_missing_values", "KeyError", "is_fraud", "label", "target"}
    /\ Word \notin Int
    /\ \A S : Missing # [x \in S |-> Missing[x]]

\* A table has a cell for every row and column.
IsTable(source) ==
    /\ source = [columns |-> source.columns, rows |-> source.rows]
    /\ \E Values : source.rows \in Seq([source.columns -> Values])

\* What an imputation has to work with: a table with the column to fill, whose
\* cells are numbers or gaps, with a group column and with a target.
IsImputationCase(s) ==
    /\ s.kind = "impute"
    /\ NoneIsApart /\ IsTable(s.source)
    /\ {"x", "customer_id_hash", "label"} \subseteq s.source.columns
    /\ \A i \in DOMAIN s.source.rows : s.source.rows[i]["x"] \in Int \cup {Missing}
    /\ \E i \in DOMAIN s.source.rows : s.source.rows[i][TargetColumn(s.source)] # Missing
    /\ \E m \in ImputationMethods : s.step = ImputationStep(m)

GapsOf(s) == {i \in DOMAIN s.source.rows : s.source.rows[i]["x"] = Missing}

MethodFills(s) == s.step.method # "missingness_indicator"

\* A table is a source, and its rows are functions of its columns.
LEMMA TableFacts ==
    ASSUME NEW source, IsTable(source)
    PROVE  /\ IsSource(source)
           /\ \A i \in DOMAIN source.rows :
                 /\ DOMAIN source.rows[i] = source.columns
                 /\ source.rows[i] = [c \in source.columns |-> source.rows[i][c]]
<1>1. PICK Values : source.rows \in Seq([source.columns -> Values])
  BY DEF IsTable
<1>2. IsSource(source)
  BY <1>1 DEF IsSource
<1>3. \A i \in DOMAIN source.rows : source.rows[i] \in [source.columns -> Values]
  BY <1>1
<1> QED
  BY <1>2, <1>3

\* The step of a case, and the rows that have a number.
LEMMA ImputationStepFacts ==
    ASSUME NEW s, IsImputationCase(s)
    PROVE  /\ s.step.type = "IMPUTE_MISSING_VALUES" /\ s.step.method \in ImputationMethods
           /\ s.step.column = "x" /\ s.step.group = "customer_id_hash"
           /\ Present(s.source, "x", DOMAIN s.source.rows) = DOMAIN s.source.rows \ GapsOf(s)
           /\ \A i \in DOMAIN s.source.rows \ GapsOf(s) : s.source.rows[i]["x"] \in Int
           /\ IsFiniteSet(DOMAIN s.source.rows) /\ IsFiniteSet(GapsOf(s))
<1>1. PICK m \in ImputationMethods : s.step = ImputationStep(m)
  BY DEF IsImputationCase
<1>2. /\ s.step.type = "IMPUTE_MISSING_VALUES" /\ s.step.method = m
      /\ s.step.column = "x" /\ s.step.group = "customer_id_hash"
  BY <1>1 DEF ImputationStep
<1>3. IsFiniteSet(DOMAIN s.source.rows) /\ IsFiniteSet(GapsOf(s))
  <2>1. IsFiniteSet(DOMAIN s.source.rows)
    BY TableFacts, RowsAreFinite DEF IsImputationCase
  <2>2. GapsOf(s) \in SUBSET DOMAIN s.source.rows
    BY DEF GapsOf
  <2> QED
    BY <2>1, <2>2, FS_Subset
<1>4. Present(s.source, "x", DOMAIN s.source.rows) = DOMAIN s.source.rows \ GapsOf(s)
  BY DEF Present, GapsOf
<1>5. \A i \in DOMAIN s.source.rows \ GapsOf(s) : s.source.rows[i]["x"] \in Int
  BY DEF GapsOf, IsImputationCase
<1> QED
  BY <1>2, <1>3, <1>4, <1>5

\* When an imputation is refused.
LEMMA ImputationRefusals ==
    ASSUME NEW s, IsImputationCase(s)
    PROVE  LET failure == ImputationFailure(s.source, "label", s.step)
               numbers == DOMAIN s.source.rows \ GapsOf(s)
           IN  /\ failure = Missing => /\ MethodFills(s) => numbers # {}
                                       /\ s.step.method \in {"median", "mode"} => GapsOf(s) = {}
               /\ s.step.method = "group_median" /\ numbers # {} => failure = Missing
<1> DEFINE source == s.source
           step == s.step
           D == DOMAIN source.rows
           numbers == D \ GapsOf(s)
           cells == {source.rows[i]["x"] : i \in numbers}
           fit == FitFailure(source, step)
           lookup == LookupFailure(source, step)
<1>1. /\ step.type = "IMPUTE_MISSING_VALUES" /\ step.method \in ImputationMethods
      /\ step.column = "x" /\ step.group = "customer_id_hash"
  BY ImputationStepFacts
<1>2. ImputationFailure(source, "label", step) = IF fit # Missing THEN fit ELSE lookup
  <2>1. ~(source.columns = {} \/ source.rows = <<>>)
    <3>1. PICK i \in D : TRUE
      BY DEF IsImputationCase
    <3>2. source.rows # <<>>
      BY <3>1
    <3> QED
      BY <3>2 DEF IsImputationCase
  <2>2. {step.column, "label"} \subseteq source.columns /\ step.group \in source.columns
    BY <1>1 DEF IsImputationCase
  <2>3. step.column # "label"
    BY <1>1
  <2> HIDE DEF source, step, fit, lookup
  <2> QED
    BY <1>1, <2>1, <2>2, <2>3, Zenon DEF ImputationFailure, fit, lookup
<1>3. /\ step.method = "missingness_indicator" => fit = Missing
      /\ step.method # "missingness_indicator" /\ cells = {} => fit = "no_non_missing_values"
      /\ step.method # "missingness_indicator" /\ cells # {} =>
            fit = IF step.method # "mode" /\ Word \in cells
                  THEN "non_numeric_imputation_value" ELSE Missing
  <2>1. cells = {source.rows[i][step.column] : i \in Present(source, step.column, D)}
    BY <1>1, ImputationStepFacts
  <2> HIDE DEF source, step, cells, D, numbers
  <2> QED
    BY <2>1, Zenon DEF FitFailure, fit, D
<1>4. lookup = IF step.method \in {"median", "mode"} /\ GapsOf(s) # {} THEN "KeyError" ELSE Missing
  BY <1>1 DEF LookupFailure, GapsOf
<1>5. cells = {} <=> numbers = {}
  OBVIOUS
<1>6. Word \notin cells
  BY ImputationStepFacts DEF IsImputationCase, NoneIsApart
<1>7. Missing # "KeyError" /\ Missing # "no_non_missing_values"
  BY DEF IsImputationCase, NoneIsApart
<1> HIDE DEF cells, fit, lookup, numbers
<1> QED
  BY <1>2, <1>3, <1>4, <1>5, <1>6, <1>7 DEF MethodFills, numbers

\* Rows that have a number and the group of row i.
GroupNumbers(s, i) ==
    (DOMAIN s.source.rows \ GapsOf(s)) \cap GroupRows(s.source, "customer_id_hash", i)

\* A group median fills a gap with a number between those of its group, if the
\* group has any.
LEMMA GapsGetNumbers ==
    ASSUME NEW s, IsImputationCase(s), s.step.method = "group_median",
           DOMAIN s.source.rows \ GapsOf(s) # {}, NEW i \in DOMAIN s.source.rows
    PROVE  /\ FillValue(s.source, s.step, i) \in Int
           /\ \A low, high \in Int :
                 /\ GroupNumbers(s, i) # {}
                 /\ \A k \in GroupNumbers(s, i) : s.source.rows[k]["x"] \in low..high
                 => FillValue(s.source, s.step, i) \in low..high
<1> DEFINE source == s.source
           numbers == DOMAIN source.rows \ GapsOf(s)
           group == GroupNumbers(s, i)
           fill == FillValue(source, s.step, i)
           Cell(k) == source.rows[k]["x"]
<1>1. /\ numbers = Present(source, s.step.column, DOMAIN source.rows) /\ IsFiniteSet(numbers)
      /\ \A k \in numbers : Cell(k) \in Int
      /\ s.step.column = "x" /\ s.step.group = "customer_id_hash"
  BY ImputationStepFacts, FS_Difference
<1>2. IsFiniteSet(group) /\ group \subseteq numbers
  BY <1>1, FS_Subset DEF GroupNumbers
<1>3. group = numbers \cap GroupRows(source, s.step.group, i)
  BY <1>1 DEF GroupNumbers
<1> HIDE DEF group
<1>4. /\ group # {} => fill = Median(source, "x", group)
      /\ group = {} => fill = Median(source, "x", numbers)
  <2>1. s.step.method # "mode"
    OBVIOUS
  <2> HIDE DEF numbers
  <2>2. /\ group # {} => fill = Median(source, s.step.column, group)
        /\ group = {} => fill = Median(source, s.step.column, numbers)
    BY <1>1, <1>3, <2>1, Zenon DEF FillValue
  <2> QED
    BY <1>1, <2>2
<1>5. ASSUME NEW rows, IsFiniteSet(rows), rows # {}, \A k \in rows : Cell(k) \in Int
      PROVE  Median(source, "x", rows) \in Int
  <2> DEFINE V == {Cell(k) : k \in rows}
             f == [k \in rows |-> Cell(k)]
  <2>1. IsFiniteSet({f[k] : k \in rows})
    BY <1>5, ImageIsFinite
  <2>2. V = {f[k] : k \in rows}
    OBVIOUS
  <2>3. V # {} /\ \A v \in V : v \in Int
    BY <1>5
  <2> HIDE DEF f
  <2>4. IsFiniteSet(V)
    BY <2>1, <2>2
  <2>5. \A k \in rows : Cell(k) \in V
    OBVIOUS
  <2> HIDE DEF V, Cell
  <2>6. /\ Min(V) \in V /\ \A v \in V : Min(V) <= v
        /\ Max(V) \in V /\ \A v \in V : Max(V) >= v
    BY <2>3, <2>4, MinOfFinite, MaxOfFinite
  <2> DEFINE low == Min(V)
             high == Max(V)
  <2>7. low \in Int /\ high \in Int /\ \A k \in rows : Cell(k) \in low..high
    BY <2>3, <2>5, <2>6
  <2> HIDE DEF low, high
  <2>8. Median(source, "x", rows) \in low..high
    <3>1. \A k \in rows : source.rows[k]["x"] \in low..high
      BY <2>7 DEF Cell
    <3> QED
      BY <1>5, <2>7, <3>1, MedianIsBetween
  <2> QED
    BY <2>7, <2>8
<1>6. fill \in Int
  BY <1>1, <1>2, <1>4, <1>5
<1>7. ASSUME NEW low \in Int, NEW high \in Int, group # {}, \A k \in group : Cell(k) \in low..high
      PROVE  fill \in low..high
  BY <1>2, <1>4, <1>7, MedianIsBetween
<1> QED
  BY <1>6, <1>7 DEF group

\* The rows and the numbers of an accepted imputation.
FilledRows(s, r) ==
    /\ r.before = Cardinality(GapsOf(s))
    /\ r.imputed = IF MethodFills(s) THEN Cardinality(GapsOf(s)) ELSE 0
    /\ r.after = IF MethodFills(s) THEN 0 ELSE Cardinality(GapsOf(s))
    /\ r.rows = [i \in DOMAIN s.source.rows |->
          IF MethodFills(s) /\ i \in GapsOf(s)
          THEN [s.source.rows[i] EXCEPT !["x"] = FillValue(s.source, s.step, i)]
          ELSE s.source.rows[i]]

LEMMA ImputationResult ==
    ASSUME NEW s, IsImputationCase(s)
    PROVE  /\ Imputed(s).failure = ImputationFailure(s.source, "label", s.step)
           /\ Imputed(s).failure = Missing => FilledRows(s, Imputed(s))
<1> DEFINE failure == ImputationFailure(s.source, "label", s.step)
<1>1. s.step.column = "x"
  BY ImputationStepFacts
<1>2. CASE failure # Missing
  BY <1>2 DEF Imputed, Impute, Refused
<1>3. CASE failure = Missing
  BY <1>1, <1>3 DEF Imputed, Impute, FilledRows, MethodFills, GapsOf
<1> QED
  BY <1>2, <1>3

\* A row of an accepted imputation: a gap is filled with a number, if the method
\* fills, and everything else is as it was.
LEMMA FilledCells ==
    ASSUME NEW s, IsImputationCase(s), Imputed(s).failure = Missing,
           NEW i \in DOMAIN s.source.rows
    PROVE  LET row == s.source.rows[i]
               new == Imputed(s).rows[i]
           IN  /\ new = [c \in s.source.columns |-> new[c]]
               /\ \A c \in s.source.columns \ {"x"} : new[c] = row[c]
               /\ IF MethodFills(s) /\ i \in GapsOf(s)
                  THEN new["x"] = FillValue(s.source, s.step, i) /\ new["x"] \in Int
                  ELSE new["x"] = row["x"]
<1> DEFINE row == s.source.rows[i]
           new == Imputed(s).rows[i]
           fill == FillValue(s.source, s.step, i)
<1>1. new = IF MethodFills(s) /\ i \in GapsOf(s) THEN [row EXCEPT !["x"] = fill] ELSE row
  BY ImputationResult DEF FilledRows
<1>2. row = [c \in s.source.columns |-> row[c]] /\ "x" \in s.source.columns
  BY TableFacts DEF IsImputationCase
<1>3. ASSUME MethodFills(s), i \in GapsOf(s) PROVE fill \in Int
  <2>1. DOMAIN s.source.rows \ GapsOf(s) # {} /\ s.step.method \notin {"median", "mode"}
    BY <1>3, ImputationResult, ImputationRefusals
  <2>2. s.step.method = "group_median"
    BY <1>3, <2>1, ImputationStepFacts DEF MethodFills, ImputationMethods
  <2> QED
    BY <2>1, <2>2, GapsGetNumbers
<1> HIDE DEF new, row, fill
<1>4. CASE MethodFills(s) /\ i \in GapsOf(s)
  <2>1. new = [row EXCEPT !["x"] = fill]
    BY <1>1, <1>4
  <2>2. new["x"] = fill /\ \A c \in s.source.columns \ {"x"} : new[c] = row[c]
    BY <1>2, <2>1
  <2>3. new = [c \in s.source.columns |-> new[c]]
    BY <1>2, <2>1
  <2> QED
    BY <1>3, <1>4, <2>2, <2>3 DEF new, row, fill
<1>5. CASE ~(MethodFills(s) /\ i \in GapsOf(s))
  BY <1>1, <1>2, <1>5 DEF new, row, fill
<1> QED
  BY <1>4, <1>5

\* Imputation fills its gaps as it says.
LEMMA ImputationFillsGaps ==
    ASSUME NEW s, IsImputationCase(s)
    PROVE  GapsAreFilled(s)
<1> DEFINE r == Impute(s.source, "label", s.step)
           D == DOMAIN s.source.rows
           Cell(i) == s.source.rows[i]["x"]
           group(i) == {Cell(j) : j \in {k \in D :
                          /\ Cell(k) # Missing
                          /\ s.source.rows[k]["customer_id_hash"] = s.source.rows[i]["customer_id_hash"]}}
           Filled(i) == r.rows[i]["x"]
<1>1. r = Imputed(s)
  BY DEF Imputed
<1>2. ASSUME r.failure = Missing, NEW i \in D
      PROVE  /\ [r.rows[i] EXCEPT !["x"] = Missing] = [s.source.rows[i] EXCEPT !["x"] = Missing]
             /\ Cell(i) # Missing => Filled(i) = Cell(i)
             /\ Filled(i) = Missing <=> ~MethodFills(s) /\ Cell(i) = Missing
  <2>1. /\ Imputed(s).failure = Missing
        /\ r.rows[i] = Imputed(s).rows[i]
    BY <1>1, <1>2
  <2> HIDE DEF r
  <2> DEFINE row == s.source.rows[i]
             new == r.rows[i]
  <2>2. /\ new = [c \in s.source.columns |-> new[c]]
        /\ \A c \in s.source.columns \ {"x"} : new[c] = row[c]
        /\ IF MethodFills(s) /\ i \in GapsOf(s) THEN new["x"] \in Int ELSE new["x"] = row["x"]
    BY <2>1, FilledCells
  <2>3. row = [c \in s.source.columns |-> row[c]] /\ "x" \in s.source.columns
    BY TableFacts DEF IsImputationCase
  <2>4. i \in GapsOf(s) <=> row["x"] = Missing
    BY DEF GapsOf
  <2>5. Missing \notin Int
    BY DEF IsImputationCase, NoneIsApart
  <2> HIDE DEF row, new
  <2>6. [new EXCEPT !["x"] = Missing] = [row EXCEPT !["x"] = Missing]
    BY <2>2, <2>3
  <2>7. row["x"] # Missing => new["x"] = row["x"]
    BY <2>2, <2>4
  <2>8. new["x"] = Missing <=> ~MethodFills(s) /\ row["x"] = Missing
    BY <2>2, <2>4, <2>5
  <2> QED
    BY <2>6, <2>7, <2>8 DEF row, new
<1>3. ASSUME r.failure = Missing, NEW i \in D, s.step.method = "group_median", group(i) # {}
      PROVE  Filled(i) \in Min(group(i))..Max(group(i))
  <2> DEFINE numbers == D \ GapsOf(s)
  <2>1. /\ IsFiniteSet(D) /\ \A k \in numbers : Cell(k) \in Int
    BY ImputationStepFacts
  <2>2. \A k \in D : k \in numbers <=> Cell(k) # Missing
    BY DEF GapsOf
  <2>3. \A k : k \in GroupNumbers(s, i) <=>
                  /\ k \in numbers
                  /\ s.source.rows[k]["customer_id_hash"] = s.source.rows[i]["customer_id_hash"]
    BY DEF GroupNumbers, GroupRows
  <2>4. group(i) = {Cell(j) : j \in GroupNumbers(s, i)}
    <3>1. GroupNumbers(s, i) = {k \in D :
              /\ Cell(k) # Missing
              /\ s.source.rows[k]["customer_id_hash"] = s.source.rows[i]["customer_id_hash"]}
      BY <2>2, <2>3
    <3> QED
      BY <3>1
  <2> DEFINE f == [k \in GroupNumbers(s, i) |-> Cell(k)]
             V == {Cell(j) : j \in GroupNumbers(s, i)}
  <2>5. IsFiniteSet(V)
    <3>1. IsFiniteSet(GroupNumbers(s, i))
      BY <2>1, FS_Subset DEF GroupNumbers
    <3>2. IsFiniteSet({f[k] : k \in GroupNumbers(s, i)})
      BY <3>1, ImageIsFinite
    <3>3. V = {f[k] : k \in GroupNumbers(s, i)}
      OBVIOUS
    <3> HIDE DEF V, f
    <3> QED
      BY <3>2, <3>3
  <2>6. V # {} /\ \A v \in V : v \in Int
    <3>1. \A k \in GroupNumbers(s, i) : Cell(k) \in Int
      BY <2>1, <2>3
    <3> QED
      BY <1>3, <2>4, <3>1
  <2>7. GroupNumbers(s, i) # {} /\ \A k \in GroupNumbers(s, i) : Cell(k) \in V
    BY <2>6
  <2> HIDE DEF V
  <2>8. /\ Min(V) \in V /\ \A v \in V : Min(V) <= v
        /\ Max(V) \in V /\ \A v \in V : Max(V) >= v
    BY <2>5, <2>6, MinOfFinite, MaxOfFinite
  <2> DEFINE low == Min(V)
             high == Max(V)
  <2>9. low \in Int /\ high \in Int /\ \A k \in GroupNumbers(s, i) : Cell(k) \in low..high
    <3> HIDE DEF Cell
    <3> QED
      BY <2>6, <2>7, <2>8
  <2> HIDE DEF low, high
  <2>10. Filled(i) \in low..high
    <3>1. Imputed(s).failure = Missing /\ Imputed(s).rows[i] = r.rows[i]
      BY <1>1, <1>3
    <3> HIDE DEF r
    <3>2. CASE i \in GapsOf(s)
      <4>1. MethodFills(s)
        BY <1>3 DEF MethodFills
      <4>2. Filled(i) = FillValue(s.source, s.step, i)
        BY <3>1, <3>2, <4>1, FilledCells
      <4>3. numbers # {}
        BY <2>3, <2>7
      <4>4. \A k \in GroupNumbers(s, i) : s.source.rows[k]["x"] \in low..high
        BY <2>9
      <4>5. FillValue(s.source, s.step, i) \in low..high
        BY <1>3, <2>7, <2>9, <4>3, <4>4, GapsGetNumbers
      <4> QED
        BY <4>2, <4>5
    <3>3. CASE i \notin GapsOf(s)
      <4>1. Imputed(s).rows[i]["x"] = s.source.rows[i]["x"]
        BY <3>1, <3>3, FilledCells
      <4>2. i \in GroupNumbers(s, i)
        BY <2>3, <3>3
      <4> QED
        BY <2>9, <3>1, <4>1, <4>2
    <3> QED
      BY <3>2, <3>3
  <2> QED
    BY <2>4, <2>10 DEF low, high, V
<1>4. ASSUME r.failure = Missing
      PROVE  /\ DOMAIN r.rows = D
             /\ r.after = Cardinality({i \in DOMAIN r.rows : Filled(i) = Missing})
             /\ r.before = r.imputed + r.after
  <2>1. FilledRows(s, r)
    BY <1>1, <1>4, ImputationResult
  <2> HIDE DEF r
  <2>2. DOMAIN r.rows = D
    BY <2>1 DEF FilledRows
  <2>3. {i \in D : Filled(i) = Missing} = IF MethodFills(s) THEN {} ELSE GapsOf(s)
    BY <1>2, <1>4 DEF GapsOf
  <2>4. Cardinality(GapsOf(s)) \in Nat /\ Cardinality({}) = 0
    BY ImputationStepFacts, FS_CardinalityType, FS_EmptySet
  <2>5. /\ r.before = Cardinality(GapsOf(s))
        /\ r.imputed = IF MethodFills(s) THEN Cardinality(GapsOf(s)) ELSE 0
        /\ r.after = IF MethodFills(s) THEN 0 ELSE Cardinality(GapsOf(s))
    BY <2>1 DEF FilledRows
  <2>6. {i \in DOMAIN r.rows : Filled(i) = Missing} = IF MethodFills(s) THEN {} ELSE GapsOf(s)
    BY <2>2, <2>3
  <2> HIDE DEF D, Filled
  <2>7. r.after = Cardinality({i \in DOMAIN r.rows : Filled(i) = Missing})
    BY <2>4, <2>5, <2>6
  <2>8. r.before = r.imputed + r.after
    BY <2>4, <2>5
  <2> QED
    BY <2>2, <2>7, <2>8
<1>5. ASSUME s.step.method = "group_median", \E i \in D : Cell(i) # Missing
      PROVE  r.failure = Missing
  <2>1. D \ GapsOf(s) # {}
    BY <1>5 DEF GapsOf
  <2> QED
    BY <1>1, <1>5, <2>1, ImputationRefusals, ImputationResult
<1>6. GapsAreFilled(s) <=>
        /\ r.failure = Missing =>
              /\ \A i \in DOMAIN r.rows :
                    /\ [r.rows[i] EXCEPT !["x"] = Missing] = [s.source.rows[i] EXCEPT !["x"] = Missing]
                    /\ Cell(i) # Missing => Filled(i) = Cell(i)
                    /\ s.step.method = "group_median" /\ group(i) # {} =>
                          Filled(i) \in Min(group(i))..Max(group(i))
              /\ r.after = Cardinality({i \in DOMAIN r.rows : Filled(i) = Missing})
              /\ r.before = r.imputed + r.after
        /\ s.step.method = "group_median" /\ (\E i \in D : Cell(i) # Missing) => r.failure = Missing
  BY DEF GapsAreFilled
<1> HIDE DEF r, D, Cell, group, Filled
<1> QED
  BY <1>2, <1>3, <1>4, <1>5, <1>6

-----------------------------------------------------------------------------
(* What a comparison says of a step.                                       *)

\* f adds the values of c over the subsets of K, in whatever order.
Totals(f, c, K) ==
    /\ f[{}] = 0 /\ SumFunction(c) = f[K]
    /\ \A s \in SUBSET K : /\ f[s] \in Int
                           /\ \A x \in s : f[s] = c[x] + f[s \ {x}]

LEMMA SumHasTotals ==
    ASSUME NEW K, IsFiniteSet(K), NEW c \in [K -> Int]
    PROVE  \E f : Totals(f, c, K)
<1>1. PICK f : IsSum(f, c, K) /\ SumFunction(c) = f[K]
  BY SumIsRunning
<1>2. \A s \in SUBSET K : f[s] \in Int /\ \A x \in s : f[s] = c[x] + f[s \ {x}]
  <2>1. IsSum(f, c, K)
    BY <1>1
  <2> QED
    BY <2>1, SumWithout
<1>3. f[{}] = 0
  BY <1>1 DEF IsSum
<1>4. Totals(f, c, K)
  BY <1>1, <1>2, <1>3 DEF Totals
<1> QED
  BY <1>4

\* The sum of differences is the difference of the sums.
LEMMA SumOfDifferences ==
    ASSUME NEW K, IsFiniteSet(K), NEW c \in [K -> Int], NEW d \in [K -> Int],
           NEW e \in [K -> Int], \A k \in K : e[k] = c[k] - d[k]
    PROVE  SumFunction(e) = SumFunction(c) - SumFunction(d)
<1>1. PICK f : Totals(f, c, K)
  BY SumHasTotals
<1>2. PICK g : Totals(g, d, K)
  BY SumHasTotals
<1>3. PICK h : Totals(h, e, K)
  BY SumHasTotals
<1> DEFINE T == {s \in SUBSET K : h[s] # f[s] - g[s]}
<1>5. ASSUME T # {} PROVE FALSE
  <2>a. T \in SUBSET SUBSET K
    OBVIOUS
  <2>1. PICK s \in T : \A t \in T : t \subseteq s => t = s
    <3> HIDE DEF T
    <3> QED
      BY <1>5, <2>a, SmallestSubset
  <2>2. s \in SUBSET K /\ h[s] # f[s] - g[s]
    BY <2>1
  <2>3. s # {}
    <3>1. f[{}] = 0 /\ g[{}] = 0 /\ h[{}] = 0
      BY <1>1, <1>2, <1>3 DEF Totals
    <3>2. s = {} => h[s] = 0 /\ f[s] = 0 /\ g[s] = 0
      BY <3>1, Zenon
    <3>3. h[s] = 0 /\ f[s] = 0 /\ g[s] = 0 => h[s] = f[s] - g[s]
      OBVIOUS
    <3> QED
      BY <2>2, <3>2, <3>3, Zenon
  <2>4. PICK x \in s : TRUE
    BY <2>3
  <2> DEFINE r == s \ {x}
  <2>5. r \in SUBSET K /\ r \subseteq s /\ r # s
    BY <2>2, <2>4
  <2>6. h[r] = f[r] - g[r]
    <3> HIDE DEF r
    <3> QED
      BY <2>1, <2>5
  <2>7. f[s] = c[x] + f[r] /\ g[s] = d[x] + g[r] /\ h[s] = e[x] + h[r]
    BY <1>1, <1>2, <1>3, <2>2, <2>4 DEF Totals
  <2>8. c[x] \in Int /\ d[x] \in Int /\ e[x] = c[x] - d[x] /\ f[r] \in Int /\ g[r] \in Int
    BY <1>1, <1>2, <2>2, <2>4, <2>5 DEF Totals
  <2> HIDE DEF r
  <2> QED
    BY <2>2, <2>6, <2>7, <2>8
<1>6. h[K] = f[K] - g[K]
  BY <1>5
<1> QED
  BY <1>1, <1>2, <1>3, <1>6 DEF Totals

\* By how much the classes of a comparison change together.
ClassChange(classes) ==
    MapThenSumSet(LAMBDA l : classes[l].after - classes[l].before, DOMAIN classes)

\* The classes of a comparison change by as much as their counts.
LEMMA ClassesAddUp ==
    ASSUME NEW classes, IsFiniteSet(DOMAIN classes),
           NEW c \in [DOMAIN classes -> Int], NEW d \in [DOMAIN classes -> Int],
           \A l \in DOMAIN classes : classes[l].after = c[l] /\ classes[l].before = d[l]
    PROVE  ClassChange(classes) = SumFunction(c) - SumFunction(d)
<1> DEFINE K == DOMAIN classes
           e == [l \in K |-> c[l] - d[l]]
           IsTotal(f) == f = [s \in SUBSET K |-> IF s = {} THEN 0
                                ELSE (classes[Picked(s)].after - classes[Picked(s)].before)
                                       + f[s \ {Picked(s)}]]
           total == CHOOSE f : IsTotal(f)
<1>1. ClassChange(classes) = total[K]
  BY DEF ClassChange, MapThenSumSet, MapThenFoldSet, Picked
<1>2. e \in [K -> Int] /\ \A k \in K : e[k] = c[k] - d[k]
  OBVIOUS
<1>3. \A s \in SUBSET K : s # {} =>
         e[Picked(s)] = classes[Picked(s)].after - classes[Picked(s)].before
  <2> SUFFICES ASSUME NEW s \in SUBSET K, s # {}
               PROVE  e[Picked(s)] = classes[Picked(s)].after - classes[Picked(s)].before
    OBVIOUS
  <2>1. Picked(s) \in s
    BY DEF Picked
  <2>2. Picked(s) \in K
    BY <2>1
  <2> QED
    BY <1>2, <2>2
<1> HIDE DEF e
<1>4. \A f : IsSum(f, e, K) <=> IsTotal(f)
  <2> SUFFICES ASSUME NEW f PROVE IsSum(f, e, K) <=> IsTotal(f)
    OBVIOUS
  <2>1. [s \in SUBSET K |-> IF s = {} THEN 0 ELSE e[Picked(s)] + f[s \ {Picked(s)}]] =
        [s \in SUBSET K |-> IF s = {} THEN 0
            ELSE (classes[Picked(s)].after - classes[Picked(s)].before) + f[s \ {Picked(s)}]]
    BY <1>3
  <2> QED
    BY <2>1 DEF IsSum
<1> HIDE DEF IsTotal
<1>5. IsTotal(total)
  BY <1>4, SumExists
<1> HIDE DEF total
<1>6. IsSum(total, e, K)
  BY <1>4, <1>5
<1>7. PICK f : IsSum(f, e, K) /\ SumFunction(e) = f[K]
  BY <1>2, SumIsRunning
<1>8. total[K] = f[K]
  BY <1>6, <1>7, SumsOfEquals
<1>9. SumFunction(e) = SumFunction(c) - SumFunction(d)
  BY <1>2, SumOfDifferences
<1> QED
  BY <1>1, <1>7, <1>8, <1>9

\* What the comparison reads from a profile.
LEMMA ProfileFacts ==
    ASSUME NEW source, NoneIsApart
    PROVE  /\ ProfileOf(source) # Missing
           /\ ProfileOf(source).rows = Len(source.rows)
           /\ ProfileOf(source).imbalance = ClassImbalance(source)
           /\ ProfileOf(source).duplicates = DuplicateDiagnostics(source)
  BY DEF ProfileOf, Profile, NoneIsApart

\* The label counts of a source with a labelled row.
ClassCounts(source) ==
    LET target == TargetColumn(source)
    IN  [l \in Cells(source, target) |-> LabelCount(source, target, DOMAIN source.rows, l)]

\* A source with a target column and a row that has a label.
IsLabelled(source) ==
    TargetColumn(source) # Missing /\ source.rows # <<>> /\ Cells(source, TargetColumn(source)) # {}

LEMMA ImbalanceFacts ==
    ASSUME NEW source, NoneIsApart, IsLabelled(source)
    PROVE  /\ ClassImbalance(source) # Missing
           /\ ClassImbalance(source).counts = ClassCounts(source)
  BY DEF ClassImbalance, ClassCounts, NoneIsApart, MapThenSumSet, MapThenFoldSet, IsLabelled

\* The rows of a label in one of two sources with the same target column.
CountsOver(source, labels) ==
    [l \in labels |-> LabelCount(source, TargetColumn(source), DOMAIN source.rows, l)]

\* The labels of two sources.
LabelsOf(source, candidate) ==
    Cells(source, TargetColumn(source)) \cup Cells(candidate, TargetColumn(candidate))

LEMMA LabelCountFacts ==
    ASSUME NEW source, IsFiniteSet(DOMAIN source.rows), NEW target
    PROVE  /\ \A l : LabelCount(source, target, DOMAIN source.rows, l) \in Nat
           /\ \A l : l # Missing /\ l \notin Cells(source, target) =>
                        LabelCount(source, target, DOMAIN source.rows, l) = 0
           /\ IsFiniteSet(Cells(source, target))
<1> DEFINE D == DOMAIN source.rows
           With(l) == {i \in D : source.rows[i][target] = l}
<1>1. \A l : IsFiniteSet(With(l)) /\ Cardinality(With(l)) \in Nat
  BY FS_Subset, FS_CardinalityType
<1>2. \A l : l # Missing /\ l \notin Cells(source, target) => With(l) = {}
  BY DEF Cells
<1>3. IsFiniteSet(Cells(source, target))
  <2> DEFINE f == [i \in D |-> source.rows[i][target]]
             V == {f[i] : i \in D}
  <2>1. IsFiniteSet(V)
    BY ImageIsFinite
  <2>2. Cells(source, target) \in SUBSET V
    BY DEF Cells
  <2> HIDE DEF V
  <2> QED
    BY <2>1, <2>2, FS_Subset
<1>4. \A l : LabelCount(source, target, D, l) = Cardinality(With(l))
  BY DEF LabelCount
<1> HIDE DEF With
<1> QED
  BY <1>1, <1>2, <1>3, <1>4, FS_EmptySet

\* The classes a comparison lists, and by how much they change together.
LEMMA ComparedClasses ==
    ASSUME NEW source, NEW candidate, NEW reports, NoneIsApart,
           IsLabelled(source), IsLabelled(candidate),
           IsFiniteSet(DOMAIN source.rows), IsFiniteSet(DOMAIN candidate.rows),
           NEW classes,
           classes = VersionCompareReport(ProfileOf(source), ProfileOf(candidate),
                                          reports, NoTexts).classes.classes
    PROVE  ClassChange(classes) =
             SumFunction(CountsOver(candidate, LabelsOf(source, candidate)))
               - SumFunction(CountsOver(source, LabelsOf(source, candidate)))
<1> DEFINE labels == LabelsOf(source, candidate)
           base == ProfileOf(source)
           other == ProfileOf(candidate)
           before == ClassImbalance(source)
           after == ClassImbalance(candidate)
           old == ClassCounts(source)
           new == ClassCounts(candidate)
<1>1. /\ FieldOr(base, "imbalance", Missing) = before /\ before # Missing /\ before.counts = old
      /\ FieldOr(other, "imbalance", Missing) = after /\ after # Missing /\ after.counts = new
  BY ProfileFacts, ImbalanceFacts DEF FieldOr
<1>2. DOMAIN old = Cells(source, TargetColumn(source)) /\ DOMAIN new = Cells(candidate, TargetColumn(candidate))
  BY DEF ClassCounts
<1>3. classes = ClassBalance(base, other).classes
  BY DEF VersionCompareReport
<1> HIDE DEF base, other, before, after, old, new
<1>4. classes = [l \in DOMAIN old \cup DOMAIN new |->
                   [before |-> IF l \in DOMAIN old THEN old[l] ELSE 0,
                    after |-> IF l \in DOMAIN new THEN new[l] ELSE 0]]
  BY <1>1, <1>3 DEF ClassBalance, FieldOr
<1>5. DOMAIN old \cup DOMAIN new = labels
  BY <1>2 DEF LabelsOf
<1> DEFINE c == CountsOver(candidate, labels)
           d == CountsOver(source, labels)
<1>6. \A l \in labels : l # Missing
  BY DEF LabelsOf, Cells
<1>7. c \in [labels -> Int] /\ d \in [labels -> Int] /\ IsFiniteSet(labels)
  <2>1. IsFiniteSet(labels)
    BY LabelCountFacts, FS_Union DEF LabelsOf
  <2> HIDE DEF labels
  <2>2. \A l : LabelCount(source, TargetColumn(source), DOMAIN source.rows, l) \in Nat
    BY LabelCountFacts
  <2>3. \A l : LabelCount(candidate, TargetColumn(candidate), DOMAIN candidate.rows, l) \in Nat
    BY LabelCountFacts
  <2> QED
    BY <2>1, <2>2, <2>3 DEF CountsOver
<1>8. \A l \in labels : (IF l \in DOMAIN old THEN old[l] ELSE 0) = d[l]
  BY <1>2, <1>6, LabelCountFacts DEF old, ClassCounts, CountsOver
<1>9. \A l \in labels : (IF l \in DOMAIN new THEN new[l] ELSE 0) = c[l]
  BY <1>2, <1>6, LabelCountFacts DEF new, ClassCounts, CountsOver
<1> HIDE DEF labels, c, d
<1>10. DOMAIN classes = labels
  BY <1>4, <1>5
<1>11. \A l \in DOMAIN classes : classes[l].after = c[l] /\ classes[l].before = d[l]
  BY <1>4, <1>5, <1>8, <1>9
<1>12. ClassChange(classes) =
         SumFunction(c) - SumFunction(d)
  BY <1>7, <1>10, <1>11, ClassesAddUp
<1> QED
  BY <1>12 DEF labels, c, d

\* The target column is a column with one of three names.
LEMMA TargetColumnFacts ==
    ASSUME NEW source, NoneIsApart, "label" \in source.columns
    PROVE  /\ TargetColumn(source) \in source.columns \cap {"is_fraud", "label", "target"}
           /\ TargetColumn(source) # Missing
<1> DEFINE present == {k \in DOMAIN TargetNames : TargetNames[k] \in source.columns}
<1>1. 2 \in present /\ present \in SUBSET {1, 2, 3}
  BY DEF TargetNames
<1>2. TargetColumn(source) = TargetNames[Min(present)]
  BY <1>1 DEF TargetColumn
<1>3. \A k \in present : TargetNames[k] \in source.columns \cap {"is_fraud", "label", "target"}
  BY DEF TargetNames
<1> HIDE DEF present
<1>4. IsFiniteSet({1, 2, 3})
  <2>1. IsFiniteSet({1}) /\ {1, 2} = {1} \cup {2} /\ {1, 2, 3} = {1, 2} \cup {3}
    BY FS_Singleton
  <2>2. IsFiniteSet({1, 2})
    BY <2>1, FS_AddElement
  <2> QED
    BY <2>1, <2>2, FS_AddElement
<1>5. IsFiniteSet(present) /\ present # {} /\ \A k \in present : k \in Int
  <2>1. IsFiniteSet(present)
    BY <1>1, <1>4, FS_Subset
  <2> QED
    BY <1>1, <2>1
<1>6. Min(present) \in present
  BY <1>5, MinOfFinite
<1>7. TargetColumn(source) \in source.columns \cap {"is_fraud", "label", "target"}
  BY <1>2, <1>3, <1>6
<1> QED
  BY <1>7 DEF NoneIsApart

\* An accepted imputation makes a candidate that differs in the filled gaps only.
LEMMA ImputationCandidate ==
    ASSUME NEW s, IsImputationCase(s), Imputed(s).failure = Missing
    PROVE  LET source == s.source
               candidate == [source EXCEPT !.rows = Imputed(s).rows]
               target == TargetColumn(source)
               Filled(i) == MethodFills(s) /\ i \in GapsOf(s)
           IN  /\ candidate.columns = source.columns
               /\ DOMAIN candidate.rows = DOMAIN source.rows
               /\ Len(candidate.rows) = Len(source.rows) /\ Len(source.rows) \in Nat
               /\ TargetColumn(candidate) = target
               /\ IsLabelled(source) /\ IsLabelled(candidate)
               /\ Cells(candidate, target) = Cells(source, target)
               /\ \A l : LabelCount(candidate, target, DOMAIN source.rows, l) =
                         LabelCount(source, target, DOMAIN source.rows, l)
               /\ \A i \in DOMAIN source.rows :
                     /\ candidate.rows[i]["x"] # source.rows[i]["x"] <=> Filled(i)
                     /\ \A c \in source.columns \ {"x"} : candidate.rows[i][c] = source.rows[i][c]
<1> DEFINE source == s.source
           candidate == [source EXCEPT !.rows = Imputed(s).rows]
           target == TargetColumn(source)
           D == DOMAIN source.rows
<1>1. source = [columns |-> source.columns, rows |-> source.rows]
  BY DEF IsImputationCase, IsTable
<1>2. candidate.columns = source.columns /\ candidate.rows = Imputed(s).rows
  BY <1>1
<1>3. DOMAIN Imputed(s).rows = D
  BY ImputationResult DEF FilledRows
<1>4. PICK n \in Nat : Len(source.rows) = n /\ D = 1..n
  BY DEF IsImputationCase, IsTable
<1>5. Len(Imputed(s).rows) = Len(source.rows)
  <2>1. Imputed(s).rows = [i \in D |-> Imputed(s).rows[i]]
    BY ImputationResult DEF FilledRows
  <2> QED
    BY <1>3, <1>4, <2>1
<1>6. TargetColumn(candidate) = target
  BY <1>2 DEF TargetColumn
<1>7. \A i \in D : /\ \A c \in source.columns \ {"x"} : Imputed(s).rows[i][c] = source.rows[i][c]
                   /\ Imputed(s).rows[i]["x"] # source.rows[i]["x"] <=> MethodFills(s) /\ i \in GapsOf(s)
  <2> SUFFICES ASSUME NEW i \in D
               PROVE  /\ \A c \in source.columns \ {"x"} : Imputed(s).rows[i][c] = source.rows[i][c]
                      /\ Imputed(s).rows[i]["x"] # source.rows[i]["x"] <=> MethodFills(s) /\ i \in GapsOf(s)
    OBVIOUS
  <2>1. /\ \A c \in source.columns \ {"x"} : Imputed(s).rows[i][c] = source.rows[i][c]
        /\ IF MethodFills(s) /\ i \in GapsOf(s) THEN Imputed(s).rows[i]["x"] \in Int
           ELSE Imputed(s).rows[i]["x"] = source.rows[i]["x"]
    <3>1. LET row == s.source.rows[i]
              new == Imputed(s).rows[i]
          IN  /\ new = [c \in s.source.columns |-> new[c]]
              /\ \A c \in s.source.columns \ {"x"} : new[c] = row[c]
              /\ IF MethodFills(s) /\ i \in GapsOf(s)
                 THEN new["x"] = FillValue(s.source, s.step, i) /\ new["x"] \in Int
                 ELSE new["x"] = row["x"]
      BY FilledCells, Zenon
    <3> QED
      BY <3>1
  <2>2. i \in GapsOf(s) => source.rows[i]["x"] = Missing
    BY DEF GapsOf
  <2>3. Missing \notin Int
    BY DEF IsImputationCase, NoneIsApart
  <2> QED
    BY <2>1, <2>2, <2>3
<1>8. target \in source.columns \cap {"is_fraud", "label", "target"} /\ target # Missing
  <2>1. "label" \in source.columns /\ NoneIsApart
    BY DEF IsImputationCase
  <2> HIDE DEF source
  <2> QED
    BY <2>1, TargetColumnFacts
<1>10. \A i \in D : Imputed(s).rows[i][target] = source.rows[i][target]
  <2>1. target \in source.columns \ {"x"}
    BY <1>8
  <2> HIDE DEF target
  <2> QED
    BY <1>7, <2>1
<1> HIDE DEF target, candidate, source
<1>11. Cells(candidate, target) = Cells(source, target)
  BY <1>2, <1>3, <1>10 DEF Cells
<1>12. \A l : LabelCount(candidate, target, D, l) = LabelCount(source, target, D, l)
  BY <1>2, <1>3, <1>10 DEF LabelCount
<1>13. IsLabelled(source) /\ IsLabelled(candidate)
  <2>1. PICK i \in D : source.rows[i][target] # Missing
    BY DEF IsImputationCase, target, source
  <2>2. Cells(source, target) # {}
    BY <2>1 DEF Cells
  <2>3. source.rows # <<>> /\ candidate.rows # <<>>
    BY <1>2, <1>3, <2>1
  <2> QED
    BY <1>6, <1>8, <1>11, <2>2, <2>3 DEF IsLabelled, target
<1>14. /\ candidate.columns = source.columns /\ DOMAIN candidate.rows = D
       /\ Len(candidate.rows) = Len(source.rows) /\ Len(source.rows) \in Nat
  BY <1>2, <1>3, <1>4, <1>5
<1>15. \A i \in D :
         /\ candidate.rows[i]["x"] # source.rows[i]["x"] <=> MethodFills(s) /\ i \in GapsOf(s)
         /\ \A c \in source.columns \ {"x"} : candidate.rows[i][c] = source.rows[i][c]
  BY <1>2, <1>7
<1> QED
  BY <1>6, <1>11, <1>12, <1>13, <1>14, <1>15 DEF target, candidate, source

\* The comparison of an imputation accounts for every row.
LEMMA ImputationComparesRight ==
    ASSUME NEW s, IsImputationCase(s)
    PROVE  ComparisonsAddUp(s)
<1> DEFINE r == Imputed(s)
           source == s.source
           candidate == [source EXCEPT !.rows = r.rows]
           reports == [NoStep EXCEPT !.imputation = r]
           step == Applied(s)
           D == DOMAIN source.rows
<1>1. step = IF r.failure # Missing THEN r
             ELSE [failure |-> Missing, candidate |-> candidate, reports |-> reports]
  BY DEF Applied, IsImputationCase
<1>2. CASE r.failure # Missing
  <2>1. step.failure # Missing
    BY <1>1, <1>2
  <2> QED
    BY <2>1 DEF ComparisonsAddUp
<1>3. CASE r.failure = Missing
  <2>1. step.candidate = candidate /\ step.reports = reports
    BY <1>1, <1>3
  <2> DEFINE report == VersionCompareReport(ProfileOf(source), ProfileOf(candidate), reports, NoTexts)
             counts == ObjectCounts(ProfileOf(source), ProfileOf(candidate))
             changed == ChangedObjects(reports, NoTexts, counts)
             labels == LabelsOf(source, candidate)
             classes == report.classes.classes
             target == TargetColumn(source)
             Filled(i) == MethodFills(s) /\ i \in GapsOf(s)
  <2>2. /\ candidate.columns = source.columns
        /\ DOMAIN candidate.rows = D
        /\ Len(candidate.rows) = Len(source.rows) /\ Len(source.rows) \in Nat
        /\ TargetColumn(candidate) = target
        /\ IsLabelled(source) /\ IsLabelled(candidate)
        /\ Cells(candidate, target) = Cells(source, target)
        /\ \A l : LabelCount(candidate, target, D, l) = LabelCount(source, target, D, l)
        /\ \A i \in D :
              /\ candidate.rows[i]["x"] # source.rows[i]["x"] <=> Filled(i)
              /\ \A c \in source.columns \ {"x"} : candidate.rows[i][c] = source.rows[i][c]
    BY <1>3, ImputationCandidate
  <2>3. report.counts = counts /\ report.changed = changed
    BY DEF VersionCompareReport
  <2>4. NoneIsApart /\ "x" \in source.columns /\ s.kind = "impute"
    BY DEF IsImputationCase
  <2>5. r # Missing
    <3>1. ASSUME NEW rows, NEW before, NEW imputed, NEW after, NEW indicator
          PROVE  Missing # [failure |-> Missing, before |-> before, imputed |-> imputed,
                            after |-> after, indicator |-> indicator, rows |-> rows]
      BY <2>4 DEF NoneIsApart
    <3>2. ImputationFailure(source, "label", s.step) = Missing
      BY <1>3, ImputationResult
    <3> QED
      BY <3>1, <3>2, Zenon DEF Imputed, Impute
  <2>6. /\ reports.imputation = r /\ reports.duplicates = Missing /\ reports.synthetic = Missing
    BY DEF NoStep
  <2>7. IsFiniteSet(D) /\ IsFiniteSet(GapsOf(s))
    BY ImputationStepFacts
  <2>8. r.imputed = IF MethodFills(s) THEN Cardinality(GapsOf(s)) ELSE 0
    BY <1>3, ImputationResult DEF FilledRows
  <2>9. "x" # "object_id"
    OBVIOUS
  <2> HIDE DEF r, source, reports, step, D
  <2> HIDE DEF candidate
  <2>10. counts.delta = 0
    <3>1. FieldOr(ProfileOf(source), "rows", 0) = Len(source.rows)
      BY <2>4, ProfileFacts DEF FieldOr
    <3>2. FieldOr(ProfileOf(candidate), "rows", Len(source.rows)) = Len(source.rows)
      BY <2>2, <2>4, ProfileFacts DEF FieldOr
    <3>3. Len(source.rows) - Len(source.rows) = 0
      BY <2>2
    <3> QED
      BY <3>1, <3>2, <3>3 DEF ObjectCounts
  <2> HIDE DEF counts
  <2>11. changed.added = 0 /\ changed.removed = 0 /\ changed.blocked = 0 /\ changed.total = r.imputed
    <3>1. /\ FieldOr(reports.imputation, "imputed", 0) = r.imputed
          /\ FieldOr(reports.duplicates, "changed", 0) = 0
          /\ FieldOr(reports.synthetic, "generated", 0) = 0
      BY <2>5, <2>6 DEF FieldOr
    <3>2. RedactedDelta(NoTexts) = 0
      BY DEF RedactedDelta, NoTexts
    <3>3. RemovedOrBlocked(0, 0, 0) = 0
      <4>1. Max({0}) = 0
        BY MaxOfOne
      <4>2. {0, (IF 0 = 0 THEN -0 ELSE 0) - 0} = {0}
        OBVIOUS
      <4>3. ~(0 > 0)
        OBVIOUS
      <4> QED
        BY <4>1, <4>2, <4>3 DEF RemovedOrBlocked
    <3>4. r.imputed \in Nat
      BY <2>7, <2>8, FS_CardinalityType
    <3>5. changed = [imputed |-> r.imputed, removed |-> 0, added |-> 0, blocked |-> 0, marked |-> 0 - 0,
                     redacted |-> 0, total |-> r.imputed + 0 + 0 + 0 + 0]
      BY <2>10, <3>1, <3>2, <3>3, Zenon DEF ChangedObjects
    <3> QED
      BY <3>4, <3>5
  <2>12. ClassChange(classes) = 0
    <3>1. CountsOver(candidate, labels) = CountsOver(source, labels)
      BY <2>2 DEF CountsOver
    <3>2. IsFiniteSet(labels) /\ \A l : LabelCount(source, target, D, l) \in Nat
      <4>1. IsFiniteSet(Cells(source, target)) /\ \A l : LabelCount(source, target, D, l) \in Nat
        BY <2>7, LabelCountFacts DEF D
      <4>2. labels = Cells(source, target)
        BY <2>2 DEF LabelsOf
      <4> QED
        BY <4>1, <4>2
    <3> HIDE DEF labels
    <3>3. CountsOver(source, labels) \in [labels -> Int]
      BY <3>2 DEF CountsOver, D
    <3>4. SumFunction(CountsOver(source, labels)) \in Int
      BY <3>2, <3>3, SumIsInteger
    <3>5. IsFiniteSet(DOMAIN source.rows) /\ IsFiniteSet(DOMAIN candidate.rows)
      BY <2>2, <2>7 DEF D
    <3>6. ClassChange(classes) =
            SumFunction(CountsOver(candidate, labels)) - SumFunction(CountsOver(source, labels))
      <4>1. classes = VersionCompareReport(ProfileOf(source), ProfileOf(candidate),
                                           reports, NoTexts).classes.classes
        OBVIOUS
      <4> HIDE DEF classes
      <4> QED
        BY <2>2, <2>4, <3>5, <4>1, ComparedClasses DEF labels
    <3>7. SumFunction(CountsOver(source, labels)) - SumFunction(CountsOver(source, labels)) = 0
      BY <3>4
    <3> QED
      BY <3>1, <3>6, <3>7, Zenon
  <2> DEFINE common == D \cap DOMAIN candidate.rows
             refilled == {i \in common : \E c \in source.columns \ {"object_id"} :
                            candidate.rows[i][c] # source.rows[i][c]}
  <2>13. changed.total = Cardinality(refilled)
    <3>1. refilled = {i \in D : Filled(i)}
      BY <2>2, <2>4, <2>9
    <3>2. {i \in D : Filled(i)} = IF MethodFills(s) THEN GapsOf(s) ELSE {}
      BY DEF GapsOf, D, source
    <3>3. Cardinality({}) = 0
      BY FS_EmptySet
    <3> HIDE DEF refilled, Filled
    <3> QED
      BY <2>8, <2>11, <3>1, <3>2, <3>3
  <2> HIDE DEF report, changed
  <2>14. /\ report.counts.delta = report.changed.added - report.changed.removed
         /\ report.changed.blocked = 0 /\ report.counts.delta = 0
         /\ report.changed.total = Cardinality(refilled)
         /\ s.kind # "duplicates" /\ s.kind # "synthetic"
    BY <2>3, <2>4, <2>10, <2>11, <2>13
  <2>15. ComparisonAddsUp(s, step, report)
    BY <2>1, <2>12, <2>14, Zenon DEF ComparisonAddsUp, ClassChange, source, D
  <2> QED
    BY <2>1, <2>15 DEF ComparisonsAddUp, report, step, source
<1> QED
  BY <1>2, <1>3

\* imputation.py, version_compare.py: an imputation of any table, with any group
\* column and any method, fills the gaps of its column and nothing else, with a
\* value between those of the group; it reports the gaps that are left; and the
\* comparison of the candidate counts as changed the rows that are.
THEOREM ImputationsKeepTheirWord == IsImputationCase(subject) => TabularStepsKeepTheirWord
<1> SUFFICES ASSUME IsImputationCase(subject) PROVE TabularStepsKeepTheirWord
  OBVIOUS
<1>1. GapsAreFilled(subject) /\ ComparisonsAddUp(subject)
  BY ImputationFillsGaps, ImputationComparesRight
<1>2. subject.kind = "impute"
  BY DEF IsImputationCase
<1> QED
  BY <1>1, <1>2, Zenon DEF TabularStepsKeepTheirWord, StepKeepsItsWord

-----------------------------------------------------------------------------
(* Duplicates.                                                             *)

\* The rows of a set in their order are the rows of the set, each of them once.
LEMMA InOrderLists ==
    ASSUME NEW rows \in SUBSET Int, IsFiniteSet(rows)
    PROVE  /\ DOMAIN InOrder(rows) = 1..Cardinality(rows) /\ Cardinality(rows) \in Nat
           /\ \A k \in DOMAIN InOrder(rows) : InOrder(rows)[k] \in rows
           /\ \A k, l \in DOMAIN InOrder(rows) : InOrder(rows)[k] = InOrder(rows)[l] => k = l
           /\ Range(InOrder(rows)) = rows
<1> DEFINE n == Cardinality(rows)
           Smaller(i) == {j \in rows : j < i}
           rank == [i \in rows |-> Cardinality(Smaller(i)) + 1]
<1>1. n \in Nat
  BY FS_CardinalityType
<1>2. \A i : IsFiniteSet(Smaller(i)) /\ Cardinality(Smaller(i)) \in Nat
  BY FS_Subset, FS_CardinalityType
<1>3. \A i \in rows : rank[i] \in 1..n
  <2> SUFFICES ASSUME NEW i \in rows PROVE rank[i] \in 1..n
    OBVIOUS
  <2>1. Smaller(i) \in SUBSET rows /\ Smaller(i) # rows
    OBVIOUS
  <2> HIDE DEF Smaller
  <2>2. Cardinality(Smaller(i)) <= n /\ Cardinality(Smaller(i)) # n
    BY <2>1, FS_Subset
  <2> QED
    BY <1>1, <1>2, <2>2
<1>4. \A i, j \in rows : i < j => rank[i] < rank[j]
  <2> SUFFICES ASSUME NEW i \in rows, NEW j \in rows, i < j PROVE rank[i] < rank[j]
    OBVIOUS
  <2>1. Smaller(i) \in SUBSET Smaller(j) /\ i \in Smaller(j) /\ i \notin Smaller(i)
    <3>1. i \in Int /\ j \in Int /\ ~(i < i)
      OBVIOUS
    <3>2. \A h \in rows : h < i => h < j
      <4> TAKE h \in rows
      <4>1. h \in Int
        OBVIOUS
      <4> QED
        BY <3>1, <4>1
    <3> QED
      BY <3>1, <3>2
  <2> HIDE DEF Smaller
  <2>2. Cardinality(Smaller(i)) <= Cardinality(Smaller(j)) /\ Cardinality(Smaller(j)) # Cardinality(Smaller(i))
    BY <1>2, <2>1, FS_Subset
  <2> QED
    BY <1>2, <2>2
<1>5. \A i, j \in rows : rank[i] = rank[j] => i = j
  <2> SUFFICES ASSUME NEW i \in rows, NEW j \in rows, rank[i] = rank[j] PROVE i = j
    OBVIOUS
  <2>1. i \in Int /\ j \in Int /\ rank[i] \in 1..n /\ rank[j] \in 1..n
    BY <1>3
  <2> HIDE DEF rank
  <2>2. ~(i < j) /\ ~(j < i)
    BY <1>4, <2>1
  <2> QED
    BY <2>1, <2>2
<1>6. \A k \in 1..n : \E i \in rows : rank[i] = k
  <2>1. rank \in Injection(rows, 1..n)
    <3>1. rank \in [rows -> 1..n]
      BY <1>3
    <3> HIDE DEF rank
    <3> QED
      BY <1>5, <3>1 DEF Injection, IsInjective
  <2>2. IsFiniteSet(1..n) /\ Cardinality(1..n) = n
    <3>1. 1 \in Int /\ n \in Int
      BY <1>1
    <3>2. IsFiniteSet(1..n) /\ Cardinality(1..n) = IF 1 > n THEN 0 ELSE n - 1 + 1
      BY <3>1, FS_Interval
    <3> QED
      BY <1>1, <3>2
  <2> HIDE DEF rank
  <2>3. rank \in Surjection(rows, 1..n)
    BY <2>1, <2>2, FS_Injection
  <2> QED
    BY <2>3 DEF Surjection
<1> DEFINE order == InOrder(rows)
<1>7. order = [k \in 1..n |-> CHOOSE i \in rows : Cardinality({j \in rows : j < i}) = k - 1]
  BY DEF InOrder
<1>8. \A k \in 1..n : order[k] \in rows /\ rank[order[k]] = k
  <2> SUFFICES ASSUME NEW k \in 1..n PROVE order[k] \in rows /\ rank[order[k]] = k
    OBVIOUS
  <2>1. PICK i \in rows : rank[i] = k
    BY <1>6
  <2>2. Cardinality({j \in rows : j < i}) = k - 1
    <3>1. rank[i] = Cardinality(Smaller(i)) + 1 /\ Cardinality(Smaller(i)) \in Nat
      BY <1>2
    <3>2. Cardinality(Smaller(i)) = k - 1
      <4> HIDE DEF Smaller, rank
      <4> QED
        BY <2>1, <3>1
    <3> QED
      BY <3>2
  <2>3. order[k] \in rows /\ Cardinality({j \in rows : j < order[k]}) = k - 1
    BY <1>7, <2>2, Zenon
  <2> QED
    BY <2>3
<1> HIDE DEF order, rank
<1>9. DOMAIN order = 1..n
  BY <1>7
<1>10. \A k, l \in DOMAIN order : order[k] = order[l] => k = l
  BY <1>8, <1>9
<1>11. Range(order) = rows
  <2>1. ASSUME NEW i \in rows PROVE \E k \in DOMAIN order : order[k] = i
    <3>1. rank[i] \in 1..n
      BY <1>3
    <3>2. order[rank[i]] \in rows /\ rank[order[rank[i]]] = rank[i]
      BY <1>8, <3>1
    <3>3. order[rank[i]] = i
      BY <1>5, <3>2
    <3> QED
      BY <1>9, <3>1, <3>3
  <2>2. \A k \in DOMAIN order : order[k] \in rows
    BY <1>8, <1>9
  <2> QED
    BY <2>1, <2>2 DEF Range
<1> QED
  BY <1>1, <1>8, <1>9, <1>10, <1>11 DEF order

\* What removing or marking duplicates has to work with: a table with ids that
\* can be compared, a signature and a label in every row.
IsDuplicateCase(s) ==
    /\ s.kind = "duplicates"
    /\ NoneIsApart /\ IsTable(s.source) /\ s.source.rows # <<>>
    /\ {"object_id", "label"} \subseteq s.source.columns
    /\ SignatureColumns(s.source, s.columns) # {}
    /\ \A i \in DOMAIN s.source.rows : /\ s.source.rows[i]["object_id"] \in Int \cup {Missing}
                                       /\ s.source.rows[i][TargetColumn(s.source)] # Missing

\* The pairs that some groups make.
PairsOf(groups) == MapThenSumSet(LAMBDA g : Cardinality(g) - 1, groups)

LEMMA PairsAddUp ==
    ASSUME NEW G, IsFiniteSet(G), \A g \in G : IsFiniteSet(g)
    PROVE  PairsOf(G) = SumFunction([g \in G |-> Cardinality(g) - 1])
<1> DEFINE c == [g \in G |-> Cardinality(g) - 1]
           IsTotal(f) == f = [s \in SUBSET G |-> IF s = {} THEN 0
                                ELSE (Cardinality(Picked(s)) - 1) + f[s \ {Picked(s)}]]
           total == CHOOSE f : IsTotal(f)
<1>1. PairsOf(G) = total[G]
  BY DEF PairsOf, MapThenSumSet, MapThenFoldSet, Picked
<1>2. c \in [G -> Int]
  <2>1. \A g \in G : Cardinality(g) \in Nat
    BY FS_CardinalityType
  <2> QED
    BY <2>1
<1>3. \A s \in SUBSET G : s # {} => c[Picked(s)] = Cardinality(Picked(s)) - 1
  BY DEF Picked
<1> HIDE DEF c
<1>4. \A f : IsSum(f, c, G) <=> IsTotal(f)
  <2> SUFFICES ASSUME NEW f PROVE IsSum(f, c, G) <=> IsTotal(f)
    OBVIOUS
  <2>1. [s \in SUBSET G |-> IF s = {} THEN 0 ELSE c[Picked(s)] + f[s \ {Picked(s)}]] =
        [s \in SUBSET G |-> IF s = {} THEN 0
            ELSE (Cardinality(Picked(s)) - 1) + f[s \ {Picked(s)}]]
    BY <1>3
  <2> QED
    BY <2>1 DEF IsSum
<1> HIDE DEF IsTotal
<1>5. IsTotal(total)
  BY <1>4, SumExists
<1> HIDE DEF total
<1>6. IsSum(total, c, G)
  BY <1>4, <1>5
<1>7. PICK f : IsSum(f, c, G) /\ SumFunction(c) = f[G]
  BY <1>2, SumIsRunning
<1>8. total[G] = f[G]
  BY <1>6, <1>7, SumsOfEquals
<1> QED
  BY <1>1, <1>7, <1>8 DEF c

\* Every row has an id that can be compared.
LEMMA ObjectIdsCompare ==
    ASSUME NEW s, IsDuplicateCase(s)
    PROVE  /\ IsFiniteSet(DOMAIN s.source.rows) /\ DOMAIN s.source.rows \in SUBSET Int
           /\ DOMAIN s.source.rows = 1..Len(s.source.rows) /\ Len(s.source.rows) \in Nat
           /\ Cardinality(DOMAIN s.source.rows) = Len(s.source.rows)
           /\ \A i \in DOMAIN s.source.rows : ObjectId(s.source, i) \in Int
<1> DEFINE D == DOMAIN s.source.rows
<1>1. /\ IsFiniteSet(D) /\ Len(s.source.rows) \in Nat /\ D = 1..Len(s.source.rows)
      /\ Cardinality(D) = Len(s.source.rows)
  BY TableFacts, RowsAreFinite DEF IsDuplicateCase
<1>2. D \in SUBSET Int
  BY <1>1
<1>3. \A i \in D : ObjectId(s.source, i) \in Int
  BY <1>2 DEF ObjectId, GeneratedId, IsDuplicateCase
<1> QED
  BY <1>1, <1>2, <1>3

\* duplicates.py:469: the canonical member is one of its group.
LEMMA CanonicalIsMember ==
    ASSUME NEW s, IsDuplicateCase(s), NEW group \in SUBSET DOMAIN s.source.rows, group # {}
    PROVE  CanonicalMember(s.source, group) \in group
<1> DEFINE Id(i) == ObjectId(s.source, i)
           id == [i \in group |-> Id(i)]
           ids == {id[i] : i \in group}
           least == Min(ids)
           first == {i \in group : Id(i) = least}
<1>1. IsFiniteSet(group) /\ \A i \in group : i \in Int /\ Id(i) \in Int
  BY ObjectIdsCompare, FS_Subset
<1>2. ids # {} /\ (\A v \in ids : v \in Int) /\ \A i \in group : Id(i) \in ids
  BY <1>1
<1>3. IsFiniteSet(ids)
  BY <1>1, ImageIsFinite
<1>4. \A v \in ids : \E i \in group : Id(i) = v
  OBVIOUS
<1> HIDE DEF ids
<1>5. least \in ids /\ \A v \in ids : least <= v
  BY <1>2, <1>3, MinOfFinite
<1>6. first # {} /\ first \in SUBSET group
  BY <1>4, <1>5
<1>7. IsFiniteSet(first) /\ \A i \in first : i \in Int
  BY <1>1, <1>6, FS_Subset
<1> HIDE DEF least
<1> DEFINE m == Min(first)
<1>8. m \in first /\ \A i \in first : m <= i
  <2> HIDE DEF first
  <2> QED
    BY <1>6, <1>7, MinOfFinite
<1> HIDE DEF m
<1>9. m \in group /\ \A j \in group \ {m} : Id(m) < Id(j) \/ (Id(m) = Id(j) /\ m < j)
  <2>1. m \in group /\ m \in Int /\ Id(m) = least /\ least \in Int
    BY <1>1, <1>2, <1>5, <1>8
  <2> SUFFICES ASSUME NEW j \in group \ {m}
               PROVE  Id(m) < Id(j) \/ (Id(m) = Id(j) /\ m < j)
    BY <2>1
  <2>2. j \in Int /\ Id(j) \in Int /\ least <= Id(j)
    BY <1>1, <1>2, <1>5
  <2>3. Id(j) = least => m <= j
    BY <1>8
  <2> HIDE DEF Id, first
  <2> QED
    BY <2>1, <2>2, <2>3
<1> QED
  BY <1>9 DEF CanonicalMember

\* The rows that removal keeps.
KeptRows(source, columns) == DOMAIN source.rows \ RemovedRows(source, columns)

\* Removal keeps one row of each signature and removes as many as there are
\* pairs; with distinct ids the rows it removes are those that marking marks.
LEMMA RemovedFacts ==
    ASSUME NEW s, IsDuplicateCase(s)
    PROVE  LET source == s.source
               removed == RemovedRows(source, s.columns)
               kept == KeptRows(source, s.columns)
               Sig(i) == Signature(source, s.columns, i)
           IN  /\ removed \in SUBSET DOMAIN source.rows
               /\ \A i \in DOMAIN source.rows : \E k \in kept : Sig(k) = Sig(i)
               /\ \A k, l \in kept : Sig(k) = Sig(l) => k = l
               /\ DuplicatePairs(source, s.columns) = Cardinality(removed)
               /\ DistinctIds(source) => MarkedRows(source, s.columns) = removed
<1> DEFINE source == s.source
           D == DOMAIN source.rows
           Sig(i) == Signature(source, s.columns, i)
           Class(i) == {j \in D : Sig(j) = Sig(i)}
           G == DuplicateGroups(source, s.columns)
           Canon(g) == CanonicalMember(source, g)
           R == RemovedRows(source, s.columns)
           kept == KeptRows(source, s.columns)
<1>1. IsFiniteSet(D)
  BY ObjectIdsCompare
<1>2. \A i \in D : i \in Class(i) /\ Class(i) \in SUBSET D /\ IsFiniteSet(Class(i))
  <2>1. \A i \in D : i \in Class(i) /\ Class(i) \in SUBSET D
    OBVIOUS
  <2> HIDE DEF Class
  <2> QED
    BY <1>1, <2>1, FS_Subset
<1>3. \A i \in D : \A j \in Class(i) : j \in D /\ Class(j) = Class(i)
  OBVIOUS
<1>4. \A k, l \in D : Sig(k) = Sig(l) => k \in Class(l) /\ Class(k) = Class(l)
  OBVIOUS
<1>5. \A g : g \in G <=> \E i \in D : g = Class(i) /\ Cardinality(g) > 1
  BY DEF DuplicateGroups
<1>6. R = UNION {g \ {Canon(g)} : g \in G}
  BY DEF RemovedRows
<1> HIDE DEF G, R
<1> DEFINE class == [i \in D |-> Class(i)]
<1>7. IsFiniteSet(G)
  <2>1. IsFiniteSet({class[i] : i \in D})
    BY <1>1, ImageIsFinite
  <2>2. G \in SUBSET {class[i] : i \in D}
    BY <1>5
  <2> QED
    BY <2>1, <2>2, FS_Subset
<1> HIDE DEF Sig, class
<1>8. \A g \in G : g \in SUBSET D /\ IsFiniteSet(g) /\ Cardinality(g) > 1 /\ g # {} /\ \A i \in g : g = Class(i)
  <2> SUFFICES ASSUME NEW g \in G
               PROVE  g \in SUBSET D /\ IsFiniteSet(g) /\ Cardinality(g) > 1 /\ g # {} /\ \A i \in g : g = Class(i)
    OBVIOUS
  <2>1. PICK i \in D : g = Class(i) /\ Cardinality(g) > 1
    BY <1>5
  <2> HIDE DEF Class
  <2> QED
    BY <1>2, <1>3, <2>1
<1>9. \A g \in G : Canon(g) \in g
  BY <1>8, CanonicalIsMember
<1> HIDE DEF Class, Canon
<1>10. \A i : i \in R <=> i \in D /\ Class(i) \in G /\ i # Canon(Class(i))
  <2>1. ASSUME NEW i \in R PROVE i \in D /\ Class(i) \in G /\ i # Canon(Class(i))
    <3>1. PICK g \in G : i \in g /\ i # Canon(g)
      BY <1>6
    <3> QED
      BY <1>8, <3>1
  <2>2. ASSUME NEW i \in D, Class(i) \in G, i # Canon(Class(i)) PROVE i \in R
    BY <1>2, <1>6, <2>2
  <2> QED
    BY <2>1, <2>2
<1>11. R \in SUBSET D
  BY <1>10
<1>12. ASSUME NEW i \in D PROVE \E k \in kept : Sig(k) = Sig(i)
  <2>1. CASE Class(i) \in G
    <3>1. Canon(Class(i)) \in Class(i)
      BY <1>9, <2>1
    <3>2. Canon(Class(i)) \in D /\ Class(Canon(Class(i))) = Class(i)
      BY <1>3, <3>1
    <3>3. Canon(Class(i)) \in kept
      BY <1>10, <3>2 DEF KeptRows, R
    <3>4. Sig(Canon(Class(i))) = Sig(i)
      BY <3>1 DEF Class
    <3> QED
      BY <3>3, <3>4
  <2>2. CASE Class(i) \notin G
    BY <1>10, <2>2 DEF KeptRows, R
  <2> QED
    BY <2>1, <2>2
<1>13. ASSUME NEW k \in kept, NEW l \in kept, Sig(k) = Sig(l) PROVE k = l
  <2>1. k \in D /\ l \in D /\ k \notin R /\ l \notin R
    BY DEF KeptRows, R
  <2>2. k \in Class(l) /\ l \in Class(l) /\ Class(k) = Class(l)
    BY <1>2, <1>4, <1>13, <2>1
  <2>3. CASE Class(l) \in G
    BY <1>10, <2>1, <2>2, <2>3
  <2>4. CASE Class(l) \notin G
    <3>1. ~(Cardinality(Class(l)) > 1)
      BY <1>5, <2>1, <2>4
    <3>2. IsFiniteSet(Class(l)) /\ Cardinality(Class(l)) \in Nat /\ Cardinality(Class(l)) # 0
      BY <1>2, <2>1, <2>2, FS_CardinalityType, FS_EmptySet
    <3>3. Cardinality(Class(l)) = 1
      BY <3>1, <3>2
    <3>4. PICK x : Class(l) = {x}
      BY <3>2, <3>3, FS_Singleton
    <3> QED
      BY <2>2, <3>4
  <2> QED
    BY <2>3, <2>4
<1>14. DuplicatePairs(source, s.columns) = Cardinality(R)
  <2> DEFINE c == [g \in G |-> Cardinality(g) - 1]
             at == [i \in R |-> Class(i)]
  <2>1. DuplicatePairs(source, s.columns) = SumFunction(c)
    <3>1. PairsOf(G) = SumFunction(c)
      BY <1>7, <1>8, PairsAddUp
    <3> HIDE DEF c
    <3> QED
      BY <3>1 DEF DuplicatePairs, PairsOf, G
  <2>2. at \in [R -> G]
    BY <1>10
  <2>3. IsFiniteSet(R)
    BY <1>1, <1>11, FS_Subset
  <2>4. \A g \in G : Cardinality(g) \in Nat
    BY <1>8, FS_CardinalityType
  <2>5. \A g \in G : c[g] = Cardinality({i \in R : at[i] = g})
    <3> SUFFICES ASSUME NEW g \in G PROVE c[g] = Cardinality({i \in R : at[i] = g})
      OBVIOUS
    <3>1. {i \in R : at[i] = g} = g \ {Canon(g)}
      <4>1. ASSUME NEW i \in R, Class(i) = g PROVE i \in g \ {Canon(g)}
        BY <1>2, <1>10, <4>1
      <4>2. ASSUME NEW i \in g \ {Canon(g)} PROVE i \in R /\ Class(i) = g
        BY <1>8, <1>10, <4>2
      <4> QED
        BY <4>1, <4>2
    <3>2. Cardinality(g \ {Canon(g)}) = Cardinality(g) - 1
      BY <1>8, <1>9, FS_RemoveElement
    <3> QED
      BY <3>1, <3>2
  <2>6. c \in [G -> Int]
    BY <2>4
  <2> HIDE DEF c, at
  <2>7. SumFunction(c) = Cardinality(R)
    BY <1>7, <2>2, <2>3, <2>5, <2>6, PartitionSum
  <2> QED
    BY <2>1, <2>7
<1>15. ASSUME DistinctIds(source) PROVE MarkedRows(source, s.columns) = R
  <2>1. \A i, j \in D : ObjectId(source, i) = ObjectId(source, j) => i = j
    <3>1. DOMAIN ObjectIds(source) = D /\ \A i \in D : ObjectIds(source)[i] = ObjectId(source, i)
      BY DEF ObjectIds
    <3> QED
      BY <1>15, <3>1 DEF DistinctIds, IsInjective
  <2>2. \A g \in G : {i \in g : ObjectId(source, i) # ObjectId(source, Canon(g))} = g \ {Canon(g)}
    BY <1>8, <1>9, <2>1
  <2>3. MarkedRows(source, s.columns) =
          UNION {{i \in g : ObjectId(source, i) # ObjectId(source, Canon(g))} : g \in G}
    BY DEF MarkedRows, G, Canon
  <2> QED
    BY <1>6, <2>2, <2>3
<1> HIDE DEF kept
<1> QED
  BY <1>11, <1>12, <1>13, <1>14, <1>15 DEF R, kept, Sig

\* duplicates.py:114: both modes accept the case; what they report.
LEMMA DuplicateResults ==
    ASSUME NEW s, IsDuplicateCase(s)
    PROVE  LET removal == Duplicates(s.source, "REMOVE_DUPLICATES", s.columns)
               marking == Duplicates(s.source, "MARK_DUPLICATE_CANDIDATES", s.columns)
               removed == RemovedRows(s.source, s.columns)
           IN  /\ removal.failure = Missing /\ removal # Missing /\ removal.mode = "REMOVE_DUPLICATES"
               /\ removal.before = DuplicatePairs(s.source, s.columns) /\ removal.after = 0
               /\ removal.changed = Cardinality(removed) /\ removal.removed = removed
               /\ removal.candidate = InOrder(KeptRows(s.source, s.columns))
               /\ marking.before = removal.before
               /\ marking.marked = {ObjectId(s.source, i) : i \in MarkedRows(s.source, s.columns)}
<1> DEFINE source == s.source
           columns == s.columns
           removal == Duplicates(source, "REMOVE_DUPLICATES", columns)
           marking == Duplicates(source, "MARK_DUPLICATE_CANDIDATES", columns)
           removed == RemovedRows(source, columns)
           marked == MarkedRows(source, columns)
           pairs == DuplicatePairs(source, columns)
<1>1. /\ ~(source.columns = {} \/ source.rows = <<>>) /\ "object_id" \in source.columns
      /\ SignatureColumns(source, columns) # {}
  BY DEF IsDuplicateCase
<1>2. \A mode \in {"MARK_DUPLICATE_CANDIDATES", "REMOVE_DUPLICATES"} :
        Duplicates(source, mode, columns) =
          [failure |-> Missing, mode |-> mode, before |-> pairs,
           after |-> IF mode = "MARK_DUPLICATE_CANDIDATES" THEN pairs ELSE 0,
           changed |-> IF mode = "MARK_DUPLICATE_CANDIDATES" THEN Cardinality(marked) ELSE Cardinality(removed),
           candidate |-> InOrder(IF mode = "MARK_DUPLICATE_CANDIDATES" THEN DOMAIN source.rows
                                 ELSE DOMAIN source.rows \ removed),
           marked |-> IF mode = "MARK_DUPLICATE_CANDIDATES"
                      THEN {ObjectId(source, i) : i \in marked} ELSE {},
           removed |-> IF mode = "MARK_DUPLICATE_CANDIDATES" THEN {} ELSE removed]
  BY <1>1, Zenon DEF Duplicates
<1>3. "MARK_DUPLICATE_CANDIDATES" # "REMOVE_DUPLICATES"
  OBVIOUS
<1>4. ASSUME NEW mode, NEW before, NEW after, NEW changed, NEW candidate, NEW ids, NEW rows
      PROVE  Missing # [failure |-> Missing, mode |-> mode, before |-> before, after |-> after,
                        changed |-> changed, candidate |-> candidate, marked |-> ids, removed |-> rows]
  BY DEF IsDuplicateCase, NoneIsApart
<1> HIDE DEF source, columns, removed, marked, pairs
<1>5. removal =
        [failure |-> Missing, mode |-> "REMOVE_DUPLICATES", before |-> pairs, after |-> 0,
         changed |-> Cardinality(removed), candidate |-> InOrder(DOMAIN source.rows \ removed),
         marked |-> {}, removed |-> removed]
  BY <1>2, <1>3
<1>6. marking.before = pairs /\ marking.marked = {ObjectId(source, i) : i \in marked}
  BY <1>2, <1>3
<1>7. removal # Missing
  BY <1>4, <1>5, Zenon
<1> HIDE DEF removal, marking
<1>8. /\ removal.failure = Missing /\ removal.mode = "REMOVE_DUPLICATES"
      /\ removal.before = pairs /\ removal.after = 0
      /\ removal.changed = Cardinality(removed) /\ removal.removed = removed
      /\ removal.candidate = InOrder(DOMAIN source.rows \ removed)
  BY <1>5
<1> QED
  BY <1>6, <1>7, <1>8 DEF KeptRows, removal, marking, source, columns, removed, marked, pairs

\* What removal leaves: the kept rows in a table of their own.
LEMMA RowsLeft ==
    ASSUME NEW s, IsDuplicateCase(s)
    PROVE  LET source == s.source
               order == InOrder(KeptRows(source, s.columns))
               left == Rows(source, order)
           IN  /\ left.columns = source.columns /\ left.rows # <<>>
               /\ DOMAIN left.rows = 1..Len(left.rows) /\ Len(left.rows) \in Nat \ {0}
               /\ Len(left.rows) = Len(source.rows) - Cardinality(RemovedRows(source, s.columns))
               /\ Cardinality(RemovedRows(source, s.columns)) \in Nat
               /\ \A k \in DOMAIN left.rows :
                     order[k] \in DOMAIN source.rows /\ left.rows[k] = source.rows[order[k]]
               /\ \A k, l \in DOMAIN left.rows :
                     Signature(left, s.columns, k) = Signature(left, s.columns, l) => k = l
<1> DEFINE source == s.source
           D == DOMAIN source.rows
           R == RemovedRows(source, s.columns)
           kept == KeptRows(source, s.columns)
           order == InOrder(kept)
           left == Rows(source, order)
           n == Cardinality(kept)
<1>1. /\ IsFiniteSet(D) /\ D \in SUBSET Int /\ D = 1..Len(source.rows)
      /\ Len(source.rows) \in Nat /\ Cardinality(D) = Len(source.rows)
  BY ObjectIdsCompare
<1>2. /\ R \in SUBSET D
      /\ \A i \in D : \E k \in kept : Signature(source, s.columns, k) = Signature(source, s.columns, i)
      /\ \A k, l \in kept : Signature(source, s.columns, k) = Signature(source, s.columns, l) => k = l
  BY RemovedFacts
<1>3. kept = D \ R /\ kept \in SUBSET Int /\ IsFiniteSet(kept) /\ kept \in SUBSET D
  <2>1. kept = D \ R
    BY DEF KeptRows
  <2> HIDE DEF R, D, kept
  <2>2. kept \in SUBSET D /\ kept \in SUBSET Int
    BY <1>1, <2>1
  <2> QED
    BY <1>1, <2>1, <2>2, FS_Subset
<1>4. /\ DOMAIN order = 1..n /\ n \in Nat
      /\ \A k \in 1..n : order[k] \in kept
      /\ \A k, l \in 1..n : order[k] = order[l] => k = l
  <2> HIDE DEF kept
  <2>1. /\ DOMAIN InOrder(kept) = 1..Cardinality(kept) /\ Cardinality(kept) \in Nat
        /\ \A k \in DOMAIN InOrder(kept) : InOrder(kept)[k] \in kept
        /\ \A k, l \in DOMAIN InOrder(kept) : InOrder(kept)[k] = InOrder(kept)[l] => k = l
        /\ Range(InOrder(kept)) = kept
    BY <1>3, InOrderLists
  <2> QED
    BY <2>1
<1>5. source = [columns |-> source.columns, rows |-> source.rows]
  BY DEF IsDuplicateCase, IsTable
<1> HIDE DEF order, n
<1>6. left.columns = source.columns /\ left.rows = [k \in 1..n |-> source.rows[order[k]]]
  BY <1>4, <1>5 DEF Rows
<1>7. DOMAIN left.rows = 1..n /\ Len(left.rows) = n
  BY <1>4, <1>6
<1> HIDE DEF left
<1>8. n # 0
  <2>1. source.rows # <<>>
    BY DEF IsDuplicateCase
  <2>2. source.rows \in Seq(Range(source.rows))
    <3>1. PICK Values : source.rows \in Seq([source.columns -> Values])
      BY DEF IsDuplicateCase, IsTable
    <3> QED
      BY <3>1 DEF Range
  <2>3. Len(source.rows) # 0
    BY <2>1, <2>2
  <2>4. 1 \in D
    BY <1>1, <2>3
  <2>5. kept # {}
    BY <1>2, <2>4
  <2> HIDE DEF kept
  <2> QED
    BY <1>3, <2>5, FS_EmptySet DEF n
<1>9. left.rows # <<>>
  BY <1>4, <1>7, <1>8
<1>10. n = Len(source.rows) - Cardinality(R) /\ Cardinality(R) \in Nat
  <2>1. IsFiniteSet(R) /\ Cardinality(R) \in Nat
    BY <1>1, <1>2, FS_Subset, FS_CardinalityType
  <2>2. kept \cup R = D /\ kept \cap R = {}
    BY <1>2, <1>3
  <2> HIDE DEF kept, R, D
  <2>3. Cardinality(kept \cup R) = Cardinality(kept) + Cardinality(R) - Cardinality(kept \cap R)
    BY <1>3, <2>1, FS_Union
  <2>4. Cardinality(kept \cap R) = 0
    BY <2>2, FS_EmptySet
  <2>5. Cardinality(kept \cup R) = Len(source.rows) /\ Cardinality(kept) \in Nat
    BY <1>1, <1>4, <2>2 DEF n
  <2> DEFINE a == Cardinality(kept)
             b == Cardinality(R)
             c == Len(source.rows)
  <2>6. c = a + b - 0 /\ a \in Nat /\ b \in Nat
    BY <2>1, <2>3, <2>4, <2>5
  <2> HIDE DEF a, b, c
  <2>7. a = c - b
    BY <2>6
  <2> QED
    BY <2>1, <2>7 DEF a, b, c, n
<1>11. \A k \in 1..n : Signature(left, s.columns, k) = Signature(source, s.columns, order[k])
  BY <1>6 DEF Signature, SignatureColumns
<1>12. \A k, l \in DOMAIN left.rows :
         Signature(left, s.columns, k) = Signature(left, s.columns, l) => k = l
  <2> HIDE DEF kept, source
  <2> QED
    BY <1>2, <1>4, <1>7, <1>11
<1>13. \A k \in DOMAIN left.rows : order[k] \in D /\ left.rows[k] = source.rows[order[k]]
  BY <1>3, <1>4, <1>6, <1>7
<1> HIDE DEF D, R, kept, source
<1> QED
  BY <1>4, <1>6, <1>7, <1>8, <1>9, <1>10, <1>12, <1>13 DEF left, order, kept, R, D, source

\* The source a removal leaves.
LeftOf(s) == Rows(s.source, InOrder(KeptRows(s.source, s.columns)))

\* No two of its rows are duplicates.
LEMMA NoPairsLeft ==
    ASSUME NEW s, IsDuplicateCase(s)
    PROVE  DuplicatePairs(LeftOf(s), s.columns) = 0
<1> DEFINE left == LeftOf(s)
           Sig(i) == Signature(left, s.columns, i)
           Class(i) == {j \in DOMAIN left.rows : Sig(j) = Sig(i)}
<1>1. \A k, l \in DOMAIN left.rows : Sig(k) = Sig(l) => k = l
  BY RowsLeft DEF LeftOf
<1> HIDE DEF left, Sig
<1>2. \A i \in DOMAIN left.rows : Class(i) = {i}
  BY <1>1
<1>3. \A i \in DOMAIN left.rows : Cardinality(Class(i)) = 1
  BY <1>2, FS_Singleton
<1>4. DuplicateGroups(left, s.columns) = {}
  <2>1. DuplicateGroups(left, s.columns) = {g \in {Class(i) : i \in DOMAIN left.rows} : Cardinality(g) > 1}
    BY DEF DuplicateGroups, Sig
  <2> HIDE DEF Class
  <2> QED
    BY <1>3, <2>1
<1> DEFINE c == [g \in {} |-> Cardinality(g) - 1]
<1>5. PairsOf({}) = SumFunction(c)
  BY PairsAddUp, FS_EmptySet
<1>6. SumFunction(c) = 0
  <2>1. c \in [{} -> Int] /\ IsFiniteSet({})
    BY FS_EmptySet
  <2> HIDE DEF c
  <2>2. PICK f : Totals(f, c, {})
    BY <2>1, SumHasTotals
  <2> QED
    BY <2>2 DEF Totals
<1> HIDE DEF c
<1>7. DuplicatePairs(left, s.columns) = PairsOf({})
  BY <1>4 DEF DuplicatePairs, PairsOf
<1> QED
  BY <1>5, <1>6, <1>7 DEF left

\* leakage_checks.py:307: no split of what is left can separate equal rows.
LEMMA NoEqualRowsLeft ==
    ASSUME NEW s, IsDuplicateCase(s), NEW splits, DOMAIN splits = DOMAIN LeftOf(s).rows
    PROVE  LeakageReport(LeftOf(s), ManifestOf(LeftOf(s), splits), Missing).exact # "failed"
<1> DEFINE left == LeftOf(s)
           m == ManifestOf(left, splits)
           D == DOMAIN left.rows
           keys == [i \in D |-> RowContent(left, i)]
<1>1. /\ left.columns = s.source.columns /\ left.rows # <<>>
      /\ D = 1..Len(left.rows) /\ Len(left.rows) \in Nat
      /\ \A k, l \in D : Signature(left, s.columns, k) = Signature(left, s.columns, l) => k = l
  BY RowsLeft DEF LeftOf
<1>2. "label" \in left.columns /\ left.columns # {}
  BY <1>1 DEF IsDuplicateCase
<1> HIDE DEF left
<1>3. /\ m.target = "label" /\ DOMAIN m.assignments = D
      /\ \A i \in D : m.assignments[i].id = ObjectId(left, i)
  BY DEF ManifestOf, left
<1> HIDE DEF m
<1>4. LeakageFailure(left, m) = Missing
  <2>1. ReadFailure(left, "label") = Missing
    BY <1>1, <1>2, Zenon DEF ReadFailure
  <2>2. D # {}
    BY <1>1
  <2>3. m.assignments # <<>>
    BY <1>3, <2>2
  <2>4. AssignedIds(m) \subseteq Range(ObjectIds(left))
    <3>1. \A i \in D : ObjectId(left, i) \in Range(ObjectIds(left))
      BY DEF Range, ObjectIds
    <3>2. \A id \in AssignedIds(m) : \E i \in D : id = ObjectId(left, i)
      BY <1>3 DEF AssignedIds, ToSet
    <3> QED
      BY <3>1, <3>2
  <2> QED
    BY <1>3, <2>1, <2>3, <2>4, Zenon DEF LeakageFailure
<1>5. \A k, l \in D : keys[k] = keys[l] => k = l
  <2> SUFFICES ASSUME NEW k \in D, NEW l \in D, RowContent(left, k) = RowContent(left, l) PROVE k = l
    OBVIOUS
  <2>1. SignatureColumns(left, s.columns) \subseteq left.columns \ {"object_id"}
    BY DEF SignatureColumns
  <2>2. \A c \in left.columns \ {"object_id"} : left.rows[k][c] = left.rows[l][c]
    <3>1. \A c \in left.columns \ {"object_id"} :
             RowContent(left, k)[c] = left.rows[k][c] /\ RowContent(left, l)[c] = left.rows[l][c]
      BY DEF RowContent
    <3> QED
      BY <3>1
  <2>3. Signature(left, s.columns, k) = Signature(left, s.columns, l)
    BY <2>1, <2>2 DEF Signature
  <2> QED
    BY <1>1, <2>3
<1> HIDE DEF keys
<1>6. CrossSplitFindings(left, m, keys) = {}
  <2> SUFFICES ASSUME NEW c \in CrossSplitFindings(left, m, keys) PROVE FALSE
    OBVIOUS
  <2> DEFINE assigned == {i \in D : ObjectId(left, i) \in AssignedIds(m)}
             found == {AssignedSplit(m, ObjectId(left, i)) : i \in c}
  <2>1. PICK i \in assigned : c = {j \in assigned : keys[j] = keys[i]}
    BY DEF CrossSplitFindings
  <2>2. Cardinality(found) > 1
    BY DEF CrossSplitFindings
  <2>3. c = {i}
    BY <1>5, <2>1
  <2>4. found = {AssignedSplit(m, ObjectId(left, i))}
    BY <2>3
  <2> HIDE DEF found
  <2>5. Cardinality(found) = 1
    BY <2>4, FS_Singleton
  <2> QED
    BY <2>2, <2>5
<1>7. ExactHashCheck(left, m) = Check("passed", "info", Missing)
  BY <1>6 DEF ExactHashCheck, CrossSplitCheck, keys
<1>8. LeakageReport(left, m, Missing).exact = ExactHashCheck(left, m).status
  BY <1>4 DEF LeakageReport
<1>9. LeakageReport(left, m, Missing).exact = "passed"
  BY <1>7, <1>8 DEF Check
<1> QED
  BY <1>9 DEF m, left

\* Removal and marking agree, and removal leaves one row of each signature.
LEMMA DuplicateStepsAgree ==
    ASSUME NEW s, IsDuplicateCase(s)
    PROVE  DuplicatesAgree(s)
<1> DEFINE source == s.source
           D == DOMAIN source.rows
           removed == RemovedRows(source, s.columns)
           kept == KeptRows(source, s.columns)
           removal == Duplicates(source, "REMOVE_DUPLICATES", s.columns)
           marking == Duplicates(source, "MARK_DUPLICATE_CANDIDATES", s.columns)
           left == Rows(source, removal.candidate)
           Sig(i) == Signature(source, s.columns, i)
           Kept(i) == {k \in Range(removal.candidate) : Sig(k) = Sig(i)}
<1>1. /\ removal.before = DuplicatePairs(source, s.columns) /\ removal.after = 0
      /\ removal.removed = removed /\ removal.candidate = InOrder(kept)
      /\ marking.before = removal.before
      /\ marking.marked = {ObjectId(source, i) : i \in MarkedRows(source, s.columns)}
  BY DuplicateResults
<1>2. left = LeftOf(s)
  BY <1>1 DEF LeftOf
<1>3. /\ \A i \in D : \E k \in kept : Sig(k) = Sig(i)
      /\ \A k, l \in kept : Sig(k) = Sig(l) => k = l
      /\ DuplicatePairs(source, s.columns) = Cardinality(removed)
      /\ DistinctIds(source) => MarkedRows(source, s.columns) = removed
  BY RemovedFacts
<1>4. Range(removal.candidate) = kept
  <2>1. kept \in SUBSET Int /\ IsFiniteSet(kept)
    BY ObjectIdsCompare, FS_Subset DEF KeptRows
  <2> HIDE DEF kept, removal
  <2>2. Range(InOrder(kept)) = kept
    BY <2>1, InOrderLists
  <2> QED
    BY <1>1, <2>2
<1>5. /\ Len(LeftOf(s).rows) = Len(source.rows) - Cardinality(removed)
      /\ Len(LeftOf(s).rows) \in Nat /\ Len(source.rows) \in Nat /\ Cardinality(removed) \in Nat
  BY RowsLeft, ObjectIdsCompare DEF LeftOf
<1> HIDE DEF removal, marking, kept, removed
<1>6. ASSUME NEW i \in D PROVE Cardinality(Kept(i)) = 1
  <2>1. PICK k \in kept : Sig(k) = Sig(i)
    BY <1>3
  <2> HIDE DEF Sig
  <2>2. Kept(i) = {k}
    BY <1>3, <1>4, <2>1
  <2> QED
    BY <2>2, FS_Singleton
<1>7. removal.after = DuplicatePairs(left, s.columns)
  BY <1>1, <1>2, NoPairsLeft
<1>8. removal.before = Len(source.rows) - Len(left.rows) /\ marking.before = removal.before
  BY <1>1, <1>2, <1>3, <1>5
<1>9. DistinctIds(source) => marking.marked = {ObjectId(source, i) : i \in removal.removed}
  BY <1>1, <1>3
<1>10. \A splits \in [DOMAIN left.rows -> {"train", "test"}] :
         LeakageReport(left, ManifestOf(left, splits), Missing).exact # "failed"
  BY <1>2, NoEqualRowsLeft
<1> HIDE DEF Sig, Kept, left
<1> QED
  BY <1>6, <1>7, <1>8, <1>9, <1>10 DEF DuplicatesAgree, removal, marking, left, Sig, Kept

\* The labels of a source whose rows all have one add up to its rows.
LEMMA LabelsAddUp ==
    ASSUME NEW source, NEW n \in Nat, DOMAIN source.rows = 1..n,
           NEW labels, IsFiniteSet(labels), Cells(source, TargetColumn(source)) \subseteq labels,
           \A i \in DOMAIN source.rows : source.rows[i][TargetColumn(source)] # Missing
    PROVE  SumFunction(CountsOver(source, labels)) = n
<1> DEFINE D == DOMAIN source.rows
           target == TargetColumn(source)
           at == [i \in D |-> source.rows[i][target]]
           c == CountsOver(source, labels)
<1>1. IsFiniteSet(D) /\ Cardinality(D) = n
  <2>1. 1 \in Int /\ n \in Int
    OBVIOUS
  <2>2. IsFiniteSet(1..n) /\ Cardinality(1..n) = IF 1 > n THEN 0 ELSE n - 1 + 1
    BY <2>1, FS_Interval
  <2> QED
    BY <2>2
<1>2. at \in [D -> labels]
  BY DEF Cells
<1>3. \A l : LabelCount(source, target, D, l) \in Nat
  BY <1>1, LabelCountFacts
<1>4. c \in [labels -> Int] /\ \A l \in labels : c[l] = LabelCount(source, target, D, l)
  <2> HIDE DEF at, target
  <2> QED
    BY <1>3 DEF CountsOver, target
<1>5. \A l : LabelCount(source, target, D, l) = Cardinality({i \in D : at[i] = l})
  <2> SUFFICES ASSUME NEW l
               PROVE  LabelCount(source, target, D, l) = Cardinality({i \in D : at[i] = l})
    OBVIOUS
  <2>1. {i \in D : at[i] = l} = {i \in D : source.rows[i][target] = l}
    OBVIOUS
  <2> QED
    BY <2>1 DEF LabelCount
<1> HIDE DEF at, c, D, target
<1>6. SumFunction(c) = Cardinality(D)
  <2>1. \A l \in labels : c[l] = Cardinality({i \in D : at[i] = l})
    BY <1>4, <1>5
  <2>2. c \in [labels -> Int]
    BY <1>4
  <2> QED
    BY <1>1, <1>2, <2>1, <2>2, PartitionSum, SMTT(60)
<1> QED
  BY <1>1, <1>6 DEF c

\* A source with a target column and a label in every one of its rows.
LEMMA LabelledSource ==
    ASSUME NEW source, NoneIsApart, "label" \in source.columns, source.rows # <<>>,
           NEW i \in DOMAIN source.rows, source.rows[i][TargetColumn(source)] # Missing
    PROVE  IsLabelled(source)
<1>1. Cells(source, TargetColumn(source)) # {}
  BY DEF Cells
<1> QED
  BY <1>1, TargetColumnFacts DEF IsLabelled

\* The comparison of a removal accounts for every row.
LEMMA RemovalComparesRight ==
    ASSUME NEW s, IsDuplicateCase(s)
    PROVE  ComparisonsAddUp(s)
<1> DEFINE source == s.source
           r == Duplicates(source, "REMOVE_DUPLICATES", s.columns)
           left == LeftOf(s)
           reports == [NoStep EXCEPT !.duplicates = r]
           step == Applied(s)
           n == Len(source.rows)
           gone == Cardinality(RemovedRows(source, s.columns))
           target == TargetColumn(source)
<1>1. /\ r.failure = Missing /\ r # Missing /\ r.mode = "REMOVE_DUPLICATES"
      /\ r.changed = gone /\ r.candidate = InOrder(KeptRows(source, s.columns))
  BY DuplicateResults
<1>2. step.candidate = left /\ step.reports = reports
  <2>1. step = [failure |-> r.failure, candidate |-> Rows(s.source, r.candidate), reports |-> reports]
    BY DEF Applied, IsDuplicateCase
  <2> HIDE DEF r, step, reports
  <2> QED
    BY <1>1, <2>1 DEF LeftOf
<1>3. /\ left.columns = source.columns /\ left.rows # <<>>
      /\ DOMAIN left.rows = 1..Len(left.rows) /\ Len(left.rows) \in Nat \ {0}
      /\ Len(left.rows) = n - gone /\ gone \in Nat
      /\ \A k \in DOMAIN left.rows : \E i \in DOMAIN source.rows : left.rows[k] = source.rows[i]
  BY RowsLeft, SMTT(30) DEF LeftOf
<1>4. /\ DOMAIN source.rows = 1..n /\ n \in Nat /\ IsFiniteSet(DOMAIN source.rows)
  BY ObjectIdsCompare
<1>5. /\ NoneIsApart /\ "label" \in source.columns /\ source.rows # <<>> /\ s.kind = "duplicates"
      /\ \A i \in DOMAIN source.rows : source.rows[i][target] # Missing
      /\ SignatureColumns(source, s.columns) # {}
  BY DEF IsDuplicateCase
<1>6. reports.imputation = Missing /\ reports.duplicates = r /\ reports.synthetic = Missing
  BY DEF NoStep
<1>7. DuplicatePairs(source, s.columns) = gone /\ DuplicatePairs(left, s.columns) = 0
  BY RemovedFacts, NoPairsLeft
<1> HIDE DEF r, reports, step, left, n, gone, source
<1>8. TargetColumn(left) = target
  BY <1>3 DEF TargetColumn
<1> HIDE DEF target
<1>9. \A k \in DOMAIN left.rows : left.rows[k][TargetColumn(left)] # Missing
  BY <1>3, <1>5, <1>8
<1>10. IsLabelled(source) /\ IsLabelled(left)
  <2>1. 1 \in DOMAIN left.rows
    BY <1>3
  <2>2. IsLabelled(left)
    BY <1>3, <1>5, <1>9, <2>1, LabelledSource
  <2>3. \E i \in DOMAIN source.rows : TRUE
    BY <1>3, <2>1
  <2> QED
    BY <1>5, <2>2, <2>3, LabelledSource DEF target
<1> DEFINE base == ProfileOf(source)
           other == ProfileOf(left)
           report == VersionCompareReport(base, other, reports, NoTexts)
           counts == ObjectCounts(base, other)
           changed == ChangedObjects(reports, NoTexts, counts)
           labels == LabelsOf(source, left)
           classes == report.classes.classes
<1>11. report.counts = counts /\ report.changed = changed /\ report.duplicates = DuplicateDiff(base, other)
  BY DEF VersionCompareReport
<1>12. /\ base # Missing /\ base.rows = n /\ base.duplicates = DuplicateDiagnostics(source)
       /\ other # Missing /\ other.rows = Len(left.rows) /\ other.duplicates = DuplicateDiagnostics(left)
  BY <1>5, ProfileFacts DEF n
<1>13. classes = VersionCompareReport(ProfileOf(source), ProfileOf(left), reports, NoTexts).classes.classes
  OBVIOUS
<1> HIDE DEF base, other, report
<1>14. counts.delta = -gone
  <2>1. FieldOr(base, "rows", 0) = n /\ FieldOr(other, "rows", n) = Len(left.rows)
    BY <1>12 DEF FieldOr
  <2>2. Len(left.rows) - n = -gone
    BY <1>3, <1>4
  <2> QED
    BY <2>1, <2>2 DEF ObjectCounts
<1> HIDE DEF counts
<1>15. changed.added = 0 /\ changed.removed = gone /\ changed.blocked = 0
  <2>1. /\ FieldOr(reports.imputation, "imputed", 0) = 0
        /\ FieldOr(reports.duplicates, "changed", 0) = gone
        /\ FieldOr(reports.duplicates, "mode", Missing) = "REMOVE_DUPLICATES"
        /\ FieldOr(reports.synthetic, "generated", 0) = 0
    BY <1>1, <1>6 DEF FieldOr
  <2>2. RemovedOrBlocked(-gone, 0, gone) = 0
    <3>1. Max({0}) = 0
      BY MaxOfOne
    <3>2. {0, (IF 0 = 0 THEN -(-gone) ELSE 0) - gone} = {0} /\ {0, -(-gone) - gone} = {0}
      BY <1>3
    <3> QED
      BY <3>1, <3>2 DEF RemovedOrBlocked
  <2>3. changed = [imputed |-> 0, removed |-> gone, added |-> 0, blocked |-> 0, marked |-> gone - gone,
                   redacted |-> RedactedDelta(NoTexts),
                   total |-> 0 + gone + RedactedDelta(NoTexts) + 0 + 0]
    BY <1>14, <2>1, <2>2, Zenon DEF ChangedObjects
  <2> QED
    BY <2>3
<1> HIDE DEF changed
<1>16. ClassChange(classes) = -gone
  <2>1. IsFiniteSet(DOMAIN left.rows)
    <3>1. 1 \in Int /\ Len(left.rows) \in Int
      BY <1>3
    <3>2. IsFiniteSet(1..Len(left.rows))
      BY <3>1, FS_Interval
    <3> QED
      BY <1>3, <3>2
  <2>2. IsFiniteSet(labels)
    BY <1>4, <2>1, LabelCountFacts, FS_Union DEF LabelsOf
  <2>3. /\ Cells(source, TargetColumn(source)) \subseteq labels
        /\ Cells(left, TargetColumn(left)) \subseteq labels
    BY DEF LabelsOf
  <2>4. ClassChange(classes) = SumFunction(CountsOver(left, LabelsOf(source, left)))
                               - SumFunction(CountsOver(source, LabelsOf(source, left)))
    <3> HIDE DEF classes
    <3> QED
      BY <1>4, <1>5, <1>10, <1>13, <2>1, ComparedClasses
  <2>5. SumFunction(CountsOver(source, labels)) = n
    <3> HIDE DEF labels
    <3> QED
      BY <1>4, <1>5, <2>2, <2>3, LabelsAddUp DEF target
  <2>6. SumFunction(CountsOver(left, labels)) = Len(left.rows)
    <3> HIDE DEF labels
    <3> QED
      BY <1>3, <1>9, <2>2, <2>3, LabelsAddUp
  <2>7. Len(left.rows) - n = -gone
    BY <1>3, <1>4
  <2> QED
    BY <2>4, <2>5, <2>6, <2>7
<1>17. s.columns = Missing => report.duplicates.delta = -gone
  <2> SUFFICES ASSUME s.columns = Missing PROVE report.duplicates.delta = -gone
    OBVIOUS
  <2>1. source.columns \ {"object_id"} # {} /\ left.columns \ {"object_id"} # {}
    BY <1>3, <1>5 DEF SignatureColumns
  <2>2. /\ DuplicateDiagnostics(source).pairs = gone
        /\ DuplicateDiagnostics(left).pairs = 0
    BY <1>7, <2>1 DEF DuplicateDiagnostics, DuplicatePairs
  <2>3. DuplicatePairCount(base) = gone /\ DuplicatePairCount(other) = 0
    BY <1>12, <2>2 DEF DuplicatePairCount
  <2>4. {base, other} # {Missing}
    BY <1>12
  <2>5. DuplicateDiff(base, other).delta = 0 - gone
    BY <2>3, <2>4 DEF DuplicateDiff
  <2> QED
    BY <1>3, <1>11, <2>5
<1>18. /\ report.counts.delta = report.changed.added - report.changed.removed
       /\ report.changed.blocked = 0 /\ report.counts.delta = -gone /\ report.changed.removed = gone
       /\ s.kind # "impute" /\ s.kind # "synthetic"
  BY <1>3, <1>5, <1>11, <1>14, <1>15
<1>19. ComparisonAddsUp(s, step, report)
  BY <1>16, <1>17, <1>18, Zenon DEF ComparisonAddsUp, ClassChange
<1> QED
  BY <1>2, <1>19 DEF ComparisonsAddUp, report, base, other, step, source

\* duplicates.py, version_compare.py: for any table with ids and labels and any
\* signature columns, removal keeps one row of each kind, so that no split of
\* what is left can separate equal rows; marking finds the rows that removal
\* removes when ids tell them apart; and the comparison of the candidate counts
\* the rows that are gone.
THEOREM DuplicateStepsKeepTheirWord == IsDuplicateCase(subject) => TabularStepsKeepTheirWord
<1> SUFFICES ASSUME IsDuplicateCase(subject) PROVE TabularStepsKeepTheirWord
  OBVIOUS
<1>1. DuplicatesAgree(subject) /\ ComparisonsAddUp(subject)
  BY DuplicateStepsAgree, RemovalComparesRight
<1>2. subject.kind = "duplicates"
  BY DEF IsDuplicateCase
<1> QED
  BY <1>1, <1>2, Zenon DEF TabularStepsKeepTheirWord, StepKeepsItsWord

=============================================================================
