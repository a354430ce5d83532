------------------------------ MODULE SumTheorems ------------------------------
(***************************************************************************)
(* Sums over a finite set: what SumFunction of the community module        *)
(* Functions gives for a finite domain.  The balances, totals and postings *)
(* of the models are such sums, and their proofs need three facts: a sum   *)
(* is a number, it changes by as much as one summand does, and it is 0     *)
(* when every summand is.                                                  *)
(*                                                                         *)
(* The sum is a fold, defined by recursion over subsets.  Its induction is *)
(* first-order: a non-empty set of subsets of a finite set has a smallest  *)
(* member (FS_StrictSubsetOrderingWellFounded and WFMin), so a claim that  *)
(* fails of some subset fails of a smallest one.                           *)
(***************************************************************************)
EXTENDS Integers, Functions, FiniteSets, FiniteSetTheorems, WellFoundedInduction, TLAPS

(* The member the fold takes next. *)
Pick(s) == CHOOSE x \in s : TRUE

(* A set of subsets of a finite set has a smallest member. *)
LEMMA SmallestSubset ==
  ASSUME NEW S, IsFiniteSet(S), NEW T \in SUBSET SUBSET S, T # {}
  PROVE  \E m \in T : \A n \in T : n \subseteq m => n = m
<1>1. IsWellFoundedOn(StrictSubsetOrdering(S), FiniteSubsetsOf(S))
  BY FS_StrictSubsetOrderingWellFounded
<1>2. T \subseteq FiniteSubsetsOf(S)
  BY FS_Subset DEF FiniteSubsetsOf
<1>3. PICK m \in T : \A n \in T : ~ (<<n, m>> \in StrictSubsetOrdering(S))
  BY <1>1, <1>2, WFMin
<1>4. QED
  BY <1>3 DEF StrictSubsetOrdering

(* A set of numbers has a least one. *)
LEMMA SmallestNumber ==
  ASSUME NEW N \in SUBSET Nat, N # {}
  PROVE  \E n \in N : \A m \in N : n <= m
<1>1. PICK k \in N : TRUE
  OBVIOUS
<1>2. IsFiniteSet(0 .. k)
  BY FS_Interval
<1> DEFINE T == {0 .. n : n \in N \cap 0 .. k}
<1>3. T \in SUBSET SUBSET (0 .. k) /\ T # {}
  BY <1>1
<1>4. PICK m \in T : \A n \in T : n \subseteq m => n = m
  <2> DEFINE I == 0 .. k
  <2>1. IsFiniteSet(I) /\ T \in SUBSET SUBSET I /\ T # {}
    BY <1>2, <1>3
  <2> HIDE DEF T, I
  <2> QED BY <2>1, SmallestSubset
<1>5. PICK n \in N \cap 0 .. k : m = 0 .. n
  BY <1>4
<1>6. \A p \in N : n <= p
  <2> SUFFICES ASSUME NEW p \in N, p < n PROVE FALSE
    OBVIOUS
  <2>1. 0 .. p \in T
    BY <1>5
  <2>2. 0 .. p \subseteq 0 .. n /\ n \notin 0 .. p
    BY <1>5
  <2>3. 0 .. p = 0 .. n
    BY <2>1, <2>2, <1>4, <1>5
  <2>4. QED
    BY <2>2, <2>3, <1>5
<1>7. QED
  BY <1>5, <1>6

(* One step of the fold that sums f, from what g gives of the smaller set. *)
Step(f, g, s) == IF s = {} THEN 0 ELSE f[Pick(s)] + g[s \ {Pick(s)}]

(* The member taken is one of the set. *)
LEMMA PickIn == ASSUME NEW s, s # {} PROVE Pick(s) \in s
BY DEF Pick

(* Induction over the subsets of a finite set, one member at a time. *)
LEMMA SubsetInduction ==
  ASSUME NEW S, IsFiniteSet(S), NEW Q,
         {} \in Q, \A s \in SUBSET S : s # {} /\ s \ {Pick(s)} \in Q => s \in Q
  PROVE  \A s \in SUBSET S : s \in Q
<1> DEFINE Bad == {s \in SUBSET S : s \notin Q}
<1>1. SUFFICES ASSUME Bad # {} PROVE FALSE
  OBVIOUS
<1>2. Bad \in SUBSET SUBSET S
  OBVIOUS
<1>3. PICK m \in Bad : \A n \in Bad : n \subseteq m => n = m
  <2> HIDE DEF Bad
  <2> QED BY <1>1, <1>2, SmallestSubset
<1>4. m # {} /\ m \in SUBSET S /\ m \notin Q
  BY <1>3
<1>5. m \ {Pick(m)} # m
  BY <1>4, PickIn
<1>6. m \ {Pick(m)} \in Q
  BY <1>3, <1>4, <1>5
<1> QED BY <1>4, <1>6

(* The recursive definition has a solution. *)
LEMMA IterExists ==
  ASSUME NEW f, NEW S, IsFiniteSet(S)
  PROVE  \E g : g = [s \in SUBSET S |-> Step(f, g, s)]
<1> DEFINE Sized(n) == {s \in SUBSET S : Cardinality(s) <= n}
           Good(g, n) == \A s \in Sized(n) : g[s] = Step(f, g, s)
           Bad == {n \in Nat : ~ \E g : Good(g, n)}
<1>0. \A s \in SUBSET S : IsFiniteSet(s) /\ Cardinality(s) \in Nat
  BY FS_Subset, FS_CardinalityType
<1>1. Bad = {}
  <2> SUFFICES ASSUME Bad # {} PROVE FALSE
    OBVIOUS
  <2>1. PICK n \in Bad : \A m \in Bad : n <= m
    BY SmallestNumber
  <2>2. n # 0
    <3> SUFFICES ASSUME n = 0 PROVE FALSE
      OBVIOUS
    <3> DEFINE g == [s \in SUBSET S |-> 0]
    <3>1. \A s \in Sized(0) : s = {}
      BY <1>0, FS_EmptySet
    <3>2. Good(g, 0)
      BY <3>1 DEF Step
    <3> QED BY <3>2, <2>1
  <2>3. n - 1 \in Nat /\ n - 1 \notin Bad
    BY <2>1, <2>2
  <2>4. PICK g : Good(g, n - 1)
    BY <2>3
  <2> DEFINE h == [s \in SUBSET S |-> IF s \in Sized(n - 1) THEN g[s] ELSE Step(f, g, s)]
  <2>5. ASSUME NEW s \in Sized(n), s # {}
        PROVE  s \ {Pick(s)} \in Sized(n - 1) /\ s \ {Pick(s)} \in SUBSET S
    <3>1. Cardinality(s \ {Pick(s)}) = Cardinality(s) - 1
      BY <2>5, <1>0, FS_RemoveElement, PickIn
    <3>2. QED
      BY <3>1, <1>0, <2>1
  <2>6. ASSUME NEW s \in Sized(n)
        PROVE  h[s] = Step(f, g, s) /\ Step(f, g, s) = Step(f, h, s)
    <3>1. h[s] = Step(f, g, s)
      BY <2>4
    <3>2. CASE s = {}
      BY <3>1, <3>2 DEF Step
    <3>3. CASE s # {}
      BY <2>5, <3>3, <3>1 DEF Step
    <3> QED BY <3>2, <3>3
  <2>7. Good(h, n)
    BY <2>6
  <2> QED BY <2>7, <2>1
<1>2. PICK g : Good(g, Cardinality(S))
  BY <1>0, <1>1
<1> DEFINE h == [s \in SUBSET S |-> g[s]]
<1>3. ASSUME NEW s \in SUBSET S
      PROVE  h[s] = Step(f, h, s)
  <2>1. s \in Sized(Cardinality(S))
    BY FS_Subset
  <2>2. g[s] = Step(f, g, s)
    BY <2>1, <1>2
  <2>3. Step(f, g, s) = Step(f, h, s)
    BY DEF Step
  <2> QED BY <2>2, <2>3
<1>4. h = [s \in SUBSET S |-> Step(f, h, s)]
  BY <1>3
<1> QED BY <1>4

(* g[s] is the sum of f over s. *)
Accumulates(g, f, S) ==
  /\ g[{}] = 0
  /\ \A s \in SUBSET S : s # {} => g[s] = f[Pick(s)] + g[s \ {Pick(s)}]

(* SumFunction is the last value of such a g. *)
LEMMA SumAccumulates ==
  ASSUME NEW S, IsFiniteSet(S), NEW f, DOMAIN f = S
  PROVE  \E g : SumFunction(f) = g[S] /\ Accumulates(g, f, S)
<1> DEFINE iter == CHOOSE g : g = [s \in SUBSET S |-> Step(f, g, s)]
<1>1. SumFunction(f) = iter[S]
  BY DEF SumFunction, SumFunctionOnSet, FoldFunctionOnSet, MapThenFoldSet, Pick, Step
<1>2. iter = [s \in SUBSET S |-> Step(f, iter, s)]
  BY IterExists
<1>3. \A s \in SUBSET S : iter[s] = Step(f, iter, s)
  BY <1>2
<1>4. Accumulates(iter, f, S)
  BY <1>3 DEF Step, Accumulates
<1> QED BY <1>1, <1>4

(* Numbers add up to a number no smaller than any of them: balances and totals
   of the models are natural numbers. *)
LEMMA SumNatural ==
  ASSUME NEW S, IsFiniteSet(S), NEW f \in [S -> Nat]
  PROVE  SumFunction(f) \in Nat /\ \A x \in S : f[x] <= SumFunction(f)
<1>1. DOMAIN f = S
  OBVIOUS
<1>2. PICK g : SumFunction(f) = g[S] /\ Accumulates(g, f, S)
  BY <1>1, SumAccumulates
<1> DEFINE Q == {s \in SUBSET S : g[s] \in Nat /\ \A x \in s : f[x] <= g[s]}
<1>3. {} \in Q
  BY <1>2 DEF Accumulates
<1>4. ASSUME NEW s \in SUBSET S, s # {}, s \ {Pick(s)} \in Q PROVE s \in Q
  <2>1. Pick(s) \in s /\ f[Pick(s)] \in Nat
    BY <1>4, PickIn
  <2>2. g[s] = f[Pick(s)] + g[s \ {Pick(s)}]
    BY <1>2, <1>4 DEF Accumulates
  <2>3. g[s \ {Pick(s)}] \in Nat /\ \A x \in s \ {Pick(s)} : f[x] <= g[s \ {Pick(s)}]
    BY <1>4
  <2>4. g[s] \in Nat /\ \A x \in s : f[x] <= g[s]
    BY <2>1, <2>2, <2>3
  <2> QED BY <2>4
<1>5. S \in Q
  <2> HIDE DEF Q
  <2> QED BY <1>3, <1>4, SubsetInduction
<1> QED BY <1>2, <1>5

(* Integers add up to an integer. *)
LEMMA SumInteger ==
  ASSUME NEW S, IsFiniteSet(S), NEW f \in [S -> Int]
  PROVE  SumFunction(f) \in Int
<1>1. DOMAIN f = S
  OBVIOUS
<1>2. PICK g : SumFunction(f) = g[S] /\ Accumulates(g, f, S)
  BY <1>1, SumAccumulates
<1> DEFINE Q == {s \in SUBSET S : g[s] \in Int}
<1>3. {} \in Q
  BY <1>2 DEF Accumulates
<1>4. ASSUME NEW s \in SUBSET S, s # {}, s \ {Pick(s)} \in Q PROVE s \in Q
  <2>1. f[Pick(s)] \in Int
    BY <1>4, PickIn
  <2>2. g[s] = f[Pick(s)] + g[s \ {Pick(s)}]
    BY <1>2, <1>4 DEF Accumulates
  <2> QED BY <1>4, <2>1, <2>2
<1>5. S \in Q
  <2> HIDE DEF Q
  <2> QED BY <1>3, <1>4, SubsetInduction
<1> QED BY <1>2, <1>5

(* Sums of two functions add up to the sum of both. *)
THEOREM SumPlus ==
  ASSUME NEW S, IsFiniteSet(S), NEW f \in [S -> Int], NEW h \in [S -> Int],
         NEW k \in [S -> Int], \A x \in S : k[x] = f[x] + h[x]
  PROVE  SumFunction(k) = SumFunction(f) + SumFunction(h)
<1>1. DOMAIN f = S /\ DOMAIN h = S /\ DOMAIN k = S
  OBVIOUS
<1>2. PICK F : SumFunction(f) = F[S] /\ Accumulates(F, f, S)
  BY <1>1, SumAccumulates
<1>3. PICK H : SumFunction(h) = H[S] /\ Accumulates(H, h, S)
  BY <1>1, SumAccumulates
<1>4. PICK K : SumFunction(k) = K[S] /\ Accumulates(K, k, S)
  BY <1>1, SumAccumulates
<1> DEFINE Q == {s \in SUBSET S : F[s] \in Int /\ H[s] \in Int /\ K[s] = F[s] + H[s]}
<1>5. {} \in Q
  BY <1>2, <1>3, <1>4 DEF Accumulates
<1>6. ASSUME NEW s \in SUBSET S, s # {}, s \ {Pick(s)} \in Q PROVE s \in Q
  <2> DEFINE x == Pick(s)  r == s \ {x}
  <2>1. f[x] \in Int /\ h[x] \in Int /\ k[x] = f[x] + h[x]
    BY <1>6, PickIn
  <2>2. F[s] = f[x] + F[r] /\ H[s] = h[x] + H[r] /\ K[s] = k[x] + K[r]
    BY <1>2, <1>3, <1>4, <1>6 DEF Accumulates
  <2>3. F[r] \in Int /\ H[r] \in Int /\ K[r] = F[r] + H[r]
    BY <1>6
  <2>4. F[s] \in Int /\ H[s] \in Int /\ K[s] = F[s] + H[s]
    <3> HIDE DEF x, r, Q
    <3> QED BY <2>1, <2>2, <2>3
  <2> QED BY <2>4
<1>7. S \in Q
  <2> HIDE DEF Q
  <2> QED BY <1>5, <1>6, SubsetInduction
<1> QED BY <1>2, <1>3, <1>4, <1>7

(* Where only one summand is not 0, the sum is that summand. *)
LEMMA SumPoint ==
  ASSUME NEW S, IsFiniteSet(S), NEW a \in S, NEW f \in [S -> Int], \A x \in S \ {a} : f[x] = 0
  PROVE  SumFunction(f) = f[a]
<1>1. DOMAIN f = S
  OBVIOUS
<1>2. PICK g : SumFunction(f) = g[S] /\ Accumulates(g, f, S)
  BY <1>1, SumAccumulates
<1> DEFINE Q == {s \in SUBSET S : g[s] = IF a \in s THEN f[a] ELSE 0}
<1>3. {} \in Q
  BY <1>2 DEF Accumulates
<1>4. ASSUME NEW s \in SUBSET S, s # {}, s \ {Pick(s)} \in Q PROVE s \in Q
  <2>1. Pick(s) \in s /\ f[Pick(s)] = IF Pick(s) = a THEN f[a] ELSE 0
    BY <1>4, PickIn
  <2>2. g[s] = f[Pick(s)] + g[s \ {Pick(s)}]
    BY <1>2, <1>4 DEF Accumulates
  <2>3. g[s \ {Pick(s)}] = IF a \in s \ {Pick(s)} THEN f[a] ELSE 0
    BY <1>4
  <2>4. f[a] \in Int
    OBVIOUS
  <2>5. g[s] = IF a \in s THEN f[a] ELSE 0
    BY <2>1, <2>2, <2>3, <2>4
  <2> QED BY <2>5
<1>5. S \in Q
  <2> HIDE DEF Q
  <2> QED BY <1>3, <1>4, SubsetInduction
<1> QED BY <1>2, <1>5

(* Where every summand is 0, so is the sum: empty books have empty totals. *)
THEOREM SumZero ==
  ASSUME NEW S, IsFiniteSet(S), NEW f \in [S -> Int], \A x \in S : f[x] = 0
  PROVE  SumFunction(f) = 0
<1>1. \A x \in S : f[x] = f[x] + f[x]
  OBVIOUS
<1>2. SumFunction(f) = SumFunction(f) + SumFunction(f)
  BY <1>1, SumPlus
<1>3. SumFunction(f) \in Int
  BY SumInteger
<1> DEFINE n == SumFunction(f)
<1> HIDE DEF n
<1>4. n \in Int /\ n = n + n
  BY <1>2, <1>3 DEF n
<1>5. n = 0
  BY <1>4
<1> QED BY <1>5 DEF n

(* A sum changes by what one summand changes: one row written, one posting made. *)
THEOREM SumUpdate ==
  ASSUME NEW S, IsFiniteSet(S), NEW f \in [S -> Int], NEW h \in [S -> Int], NEW a \in S,
         \A x \in S \ {a} : h[x] = f[x]
  PROVE  SumFunction(h) = SumFunction(f) + h[a] - f[a]
<1> DEFINE d == [x \in S |-> IF x = a THEN h[a] - f[a] ELSE 0]
<1>1. d \in [S -> Int] /\ d[a] = h[a] - f[a] /\ (\A x \in S \ {a} : d[x] = 0)
      /\ (\A x \in S : h[x] = f[x] + d[x])
  OBVIOUS
<1> HIDE DEF d
<1>2. SumFunction(d) = d[a]
  BY <1>1, SumPoint
<1>3. SumFunction(h) = SumFunction(f) + SumFunction(d)
  <2>1. d \in [S -> Int]
    BY <1>1
  <2>2. \A x \in S : h[x] = f[x] + d[x]
    BY <1>1
  <2> QED BY <2>1, <2>2, SumPlus
<1>4. SumFunction(f) \in Int /\ f[a] \in Int /\ h[a] \in Int
  BY SumInteger
<1> QED BY <1>1, <1>2, <1>3, <1>4

(* Whichever member is taken, g[s] is it and the rest. *)
AnyOrder(g, f, S) ==
  /\ \A s \in SUBSET S : g[s] \in Int
  /\ \A s \in SUBSET S : \A a \in s : g[s] = f[a] + g[s \ {a}]

(* The members may be taken in any order. *)
LEMMA SumInAnyOrder ==
  ASSUME NEW S, IsFiniteSet(S), NEW f \in [S -> Int]
  PROVE  \E g : SumFunction(f) = g[S] /\ Accumulates(g, f, S) /\ AnyOrder(g, f, S)
<1>a. DOMAIN f = S
  OBVIOUS
<1>b. PICK g : SumFunction(f) = g[S] /\ Accumulates(g, f, S)
  BY <1>a, SumAccumulates
<1>c. \A s \in SUBSET S : g[s] \in Int
  <2> DEFINE Q == {s \in SUBSET S : g[s] \in Int}
  <2>1. {} \in Q
    BY <1>b DEF Accumulates
  <2>2. ASSUME NEW s \in SUBSET S, s # {}, s \ {Pick(s)} \in Q PROVE s \in Q
    <3>1. f[Pick(s)] \in Int
      BY <2>2, PickIn
    <3>2. g[s] = f[Pick(s)] + g[s \ {Pick(s)}]
      BY <1>b, <2>2 DEF Accumulates
    <3> QED BY <2>2, <3>1, <3>2
  <2>3. \A s \in SUBSET S : s \in Q
    <3> HIDE DEF Q
    <3> QED BY <2>1, <2>2, SubsetInduction
  <2> QED BY <2>3
<1> SUFFICES \A s \in SUBSET S : \A a \in s : g[s] = f[a] + g[s \ {a}]
  BY <1>b, <1>c DEF AnyOrder
<1> DEFINE Bad == {s \in SUBSET S : ~ \A a \in s : g[s] = f[a] + g[s \ {a}]}
<1>1. SUFFICES ASSUME Bad # {} PROVE FALSE
  OBVIOUS
<1>2. PICK s \in Bad : \A t \in Bad : t \subseteq s => s = t
  <2>1. Bad \in SUBSET SUBSET S
    OBVIOUS
  <2> HIDE DEF Bad
  <2>2. \E m \in Bad : \A t \in Bad : t \subseteq m => t = m
    BY <1>1, <2>1, SmallestSubset
  <2> QED BY <2>2
<1>3. s \in SUBSET S
  BY <1>2
<1>4. PICK a \in s : g[s] # f[a] + g[s \ {a}]
  BY <1>2
<1>5. \A t \in SUBSET s : t # s => \A b \in t : g[t] = f[b] + g[t \ {b}]
  BY <1>2, <1>3
<1> HIDE DEF Bad
<1> DEFINE x == Pick(s)
<1>6. x \in s /\ g[s] = f[x] + g[s \ {x}]
  BY <1>3, <1>4, <1>b, PickIn DEF Accumulates
<1> HIDE DEF x
<1>7. x # a
  BY <1>4, <1>6
<1>8. g[s \ {x}] = f[a] + g[(s \ {x}) \ {a}]
  BY <1>4, <1>5, <1>6, <1>7
<1>9. g[s \ {a}] = f[x] + g[(s \ {a}) \ {x}]
  BY <1>4, <1>5, <1>6, <1>7
<1>10. (s \ {x}) \ {a} = (s \ {a}) \ {x} /\ (s \ {a}) \ {x} \in SUBSET S
  BY <1>3
<1>11. f[a] \in Int /\ f[x] \in Int /\ g[(s \ {a}) \ {x}] \in Int
  BY <1>3, <1>4, <1>6, <1>10, <1>c
<1>12. g[s] = f[x] + (f[a] + g[(s \ {a}) \ {x}])
  BY <1>6, <1>8, <1>10
<1>13. g[s] # f[a] + (f[x] + g[(s \ {a}) \ {x}])
  BY <1>4, <1>9
<1> DEFINE u == f[a]  v == f[x]  w == g[(s \ {a}) \ {x}]
<1>14. u \in Int /\ v \in Int /\ w \in Int /\ v + (u + w) # u + (v + w)
  BY <1>11, <1>12, <1>13
<1> HIDE DEF u, v, w
<1> QED BY <1>14

(* A sum is one of its summands and the sum of the others. *)
THEOREM SumRemove ==
  ASSUME NEW S, IsFiniteSet(S), NEW a \in S, NEW some, some = S \ {a}, NEW f \in [S -> Int],
         NEW h \in [some -> Int], \A x \in some : h[x] = f[x]
  PROVE  SumFunction(f) = SumFunction(h) + f[a]
<1>1. IsFiniteSet(some) /\ some \in SUBSET S
  BY FS_Subset
<1>3. DOMAIN f = S /\ DOMAIN h = some
  BY <1>1
<1>4. PICK F : SumFunction(f) = F[S] /\ Accumulates(F, f, S) /\ AnyOrder(F, f, S)
  BY SumInAnyOrder
<1>5. PICK H : SumFunction(h) = H[some] /\ Accumulates(H, h, some)
  BY <1>1, <1>3, SumAccumulates
<1>7. \A s \in SUBSET some : F[s] = H[s]
  <2> DEFINE Q == {s \in SUBSET some : F[s] = H[s]}
  <2>1. {} \in Q
    BY <1>4, <1>5 DEF Accumulates
  <2>2. ASSUME NEW s \in SUBSET some, s # {}, s \ {Pick(s)} \in Q PROVE s \in Q
    <3>1. h[Pick(s)] = f[Pick(s)]
      BY <1>1, <2>2, PickIn
    <3>2. F[s] = f[Pick(s)] + F[s \ {Pick(s)}]
      BY <1>1, <1>4, <2>2 DEF Accumulates
    <3>3. H[s] = h[Pick(s)] + H[s \ {Pick(s)}]
      BY <1>5, <2>2 DEF Accumulates
    <3> QED BY <2>2, <3>1, <3>2, <3>3
  <2>3. \A s \in SUBSET some : s \in Q
    <3> HIDE DEF Q
    <3> QED BY <1>1, <2>1, <2>2, SubsetInduction
  <2> QED BY <2>3
<1>8. F[S] = f[a] + F[S \ {a}]
  BY <1>4 DEF AnyOrder
<1>9. F[S \ {a}] = H[some] /\ F[S \ {a}] \in Int
  BY <1>1, <1>4, <1>7 DEF AnyOrder
<1>10. f[a] \in Int
  OBVIOUS
<1> QED BY <1>4, <1>5, <1>8, <1>9, <1>10

(* A sum over the indices of a sequence grows by the summand that is appended. *)
THEOREM SumExtend ==
  ASSUME NEW n \in Nat, NEW f \in [1 .. n + 1 -> Int], NEW h \in [1 .. n -> Int],
         \A i \in 1 .. n : h[i] = f[i]
  PROVE  SumFunction(f) = SumFunction(h) + f[n + 1]
<1> DEFINE last == n + 1
           some == 1 .. n
           all == 1 .. last
<1>1. IsFiniteSet(some) /\ IsFiniteSet(all)
  BY FS_Interval
<1>2. last \in all /\ some = all \ {last} /\ some \in SUBSET all
      /\ f \in [all -> Int] /\ h \in [some -> Int] /\ \A i \in some : h[i] = f[i]
  OBVIOUS
<1> SUFFICES SumFunction(f) = SumFunction(h) + f[last]
  OBVIOUS
<1> HIDE DEF last, some, all
<1>3. DOMAIN f = all /\ DOMAIN h = some
  BY <1>2
<1>4. PICK F : SumFunction(f) = F[all] /\ Accumulates(F, f, all) /\ AnyOrder(F, f, all)
  BY <1>1, <1>2, SumInAnyOrder
<1>5. PICK H : SumFunction(h) = H[some] /\ Accumulates(H, h, some)
  BY <1>1, <1>3, SumAccumulates
<1>7. \A s \in SUBSET some : F[s] = H[s]
  <2> DEFINE Q == {s \in SUBSET some : F[s] = H[s]}
  <2>1. {} \in Q
    BY <1>4, <1>5 DEF Accumulates
  <2>2. ASSUME NEW s \in SUBSET some, s # {}, s \ {Pick(s)} \in Q PROVE s \in Q
    <3>1. h[Pick(s)] = f[Pick(s)]
      BY <1>2, <2>2, PickIn
    <3>2. F[s] = f[Pick(s)] + F[s \ {Pick(s)}]
      BY <1>2, <1>4, <2>2 DEF Accumulates
    <3>3. H[s] = h[Pick(s)] + H[s \ {Pick(s)}]
      BY <1>5, <2>2 DEF Accumulates
    <3> QED BY <2>2, <3>1, <3>2, <3>3
  <2>3. \A s \in SUBSET some : s \in Q
    <3> HIDE DEF Q
    <3> QED BY <1>1, <2>1, <2>2, SubsetInduction
  <2> QED BY <2>3
<1>8. F[all] = f[last] + F[all \ {last}]
  <2>1. all \in SUBSET all
    OBVIOUS
  <2> QED BY <1>2, <1>4, <2>1 DEF AnyOrder
<1>9. F[all \ {last}] = H[some] /\ F[all \ {last}] \in Int
  BY <1>2, <1>4, <1>7 DEF AnyOrder
<1>10. f[last] \in Int
  BY <1>2
<1> QED BY <1>4, <1>5, <1>8, <1>9, <1>10

(* So many summands of 1 add up to so many. *)
LEMMA SumCounts ==
  ASSUME NEW S, IsFiniteSet(S)
  PROVE  SumFunction([x \in S |-> 1]) = Cardinality(S)
<1> DEFINE ones(s) == [x \in s |-> 1]
           Q == {s \in SUBSET S : SumFunction(ones(s)) = Cardinality(s)}
<1>1. {} \in Q
  <2>1. SumFunction(ones({})) = 0
    <3>1. ones({}) \in [{} -> Int] /\ \A x \in {} : ones({})[x] = 0
      OBVIOUS
    <3> HIDE DEF ones
    <3> QED BY <3>1, FS_EmptySet, SumZero
  <2> QED BY <2>1, FS_EmptySet
<1>2. ASSUME NEW s \in SUBSET S, s # {}, s \ {Pick(s)} \in Q PROVE s \in Q
  <2>1. PICK a \in s : a = Pick(s)
    BY <1>2, PickIn
  <2>2. PICK some : some = s \ {a}
    OBVIOUS
  <2>3. IsFiniteSet(s)
    BY FS_Subset
  <2>4. ones(s) \in [s -> Int] /\ ones(some) \in [some -> Int]
        /\ (\A x \in some : ones(some)[x] = ones(s)[x]) /\ ones(s)[a] = 1
    BY <2>2
  <2>5. SumFunction(ones(some)) = Cardinality(some)
    BY <1>2, <2>1, <2>2
  <2>6. Cardinality(some) = Cardinality(s) - 1 /\ Cardinality(s) \in Nat
    BY <2>2, <2>3, FS_RemoveElement, FS_CardinalityType
  <2> HIDE DEF ones
  <2>7. SumFunction(ones(s)) = SumFunction(ones(some)) + ones(s)[a]
    BY <2>2, <2>3, <2>4, SumRemove
  <2>8. SumFunction(ones(s)) = Cardinality(s)
    BY <2>4, <2>5, <2>6, <2>7
  <2> QED BY <2>8
<1> HIDE DEF Q
<1>3. \A s \in SUBSET S : s \in Q
  BY <1>1, <1>2, SubsetInduction
<1> QED BY <1>3 DEF Q

(* Summands may be sorted by a key first, and each heap summed on its own: the movements
   of all sheets are the sheets' movements, the lines of a ledger its accounts' lines. *)
THEOREM SumByKey ==
  ASSUME NEW P, IsFiniteSet(P), NEW S, IsFiniteSet(S), NEW key \in [P -> S],
         NEW f \in [P -> Int], NEW h \in [S -> Int],
         \A s \in S : h[s] = SumFunction([x \in {p \in P : key[p] = s} |-> f[x]])
  PROVE  SumFunction(f) = SumFunction(h)
<1> DEFINE heap(T, s) == {p \in T : key[p] = s}
           part(T) == [x \in T |-> f[x]]
           heaps(T) == [s \in S |-> SumFunction(part(heap(T, s)))]
           Q == {T \in SUBSET P : SumFunction(part(T)) = SumFunction(heaps(T))}
<1>1. ASSUME NEW T \in SUBSET P
      PROVE  IsFiniteSet(T) /\ part(T) \in [T -> Int] /\ SumFunction(part(T)) \in Int
  <2>1. IsFiniteSet(T) /\ part(T) \in [T -> Int]
    BY FS_Subset
  <2> HIDE DEF part
  <2> QED BY <2>1, SumInteger
<1>2. ASSUME NEW T \in SUBSET P
      PROVE  heaps(T) \in [S -> Int]
  <2>1. \A s \in S : heap(T, s) \in SUBSET P
    OBVIOUS
  <2> HIDE DEF heap, part
  <2> QED BY <2>1, <1>1
<1>3. {} \in Q
  <2> DEFINE none == {}  e == part(none)  g == heaps(none)
  <2>1. \A s \in S : heap(none, s) = none
    OBVIOUS
  <2>2. IsFiniteSet(none) /\ e \in [none -> Int] /\ \A x \in none : e[x] = 0
    BY FS_EmptySet
  <2> HIDE DEF none, heap, part
  <2>3. SumFunction(e) = 0
    <3> HIDE DEF e
    <3> QED BY <2>2, SumZero
  <2>4. g \in [S -> Int] /\ \A s \in S : g[s] = 0
    BY <2>1, <2>3
  <2>5. SumFunction(g) = 0
    <3> HIDE DEF g
    <3> QED BY <2>4, SumZero
  <2>6. none \in SUBSET P
    BY DEF none
  <2>7. none \in Q
    BY <2>3, <2>5, <2>6
  <2> QED BY <2>7 DEF none
<1>4. ASSUME NEW T \in SUBSET P, T # {}, T \ {Pick(T)} \in Q PROVE T \in Q
  <2> DEFINE x == Pick(T)  R == T \ {x}  k == key[x]
  <2>1. x \in T /\ x \in P /\ f[x] \in Int /\ k \in S /\ R \in SUBSET P
    BY <1>4, PickIn
  <2>2. \A s \in S \ {k} : heap(T, s) = heap(R, s)
    OBVIOUS
  <2>3. x \in heap(T, k) /\ heap(R, k) = heap(T, k) \ {x} /\ heap(T, k) \in SUBSET P
        /\ heap(R, k) \in SUBSET P
    BY <2>1
  <2> HIDE DEF x, k, heap
  <2>4. ASSUME NEW U \in SUBSET P, x \in U
        PROVE  SumFunction(part(U)) = SumFunction(part(U \ {x})) + f[x]
    <3> DEFINE V == U \ {x}  g == part(U)  e == part(V)
    <3>1. V = U \ {x} /\ V \in SUBSET P
      OBVIOUS
    <3> HIDE DEF V
    <3>2. IsFiniteSet(U) /\ g \in [U -> Int] /\ e \in [V -> Int]
      BY <1>1, <3>1
    <3>3. g[x] = f[x] /\ \A y \in V : e[y] = g[y]
      BY <2>4, <3>1
    <3> HIDE DEF part, g, e
    <3>4. SumFunction(g) = SumFunction(e) + g[x]
      BY <2>4, <3>1, <3>2, <3>3, SumRemove, SMTT(30)
    <3> QED BY <3>3, <3>4 DEF g, e, V
  <2>5. SumFunction(part(T)) = SumFunction(part(R)) + f[x]
    BY <2>1, <2>4
  <2>6. heaps(T) \in [S -> Int] /\ heaps(R) \in [S -> Int]
    BY <2>1, <1>2
  <2>7. \A s \in S \ {k} : heaps(T)[s] = heaps(R)[s]
    BY <2>2
  <2>8. heaps(T)[k] = heaps(R)[k] + f[x]
    <3>1. SumFunction(part(heap(T, k))) = SumFunction(part(heap(R, k))) + f[x]
      BY <2>3, <2>4
    <3> QED BY <3>1, <2>1
  <2> HIDE DEF heaps, part
  <2>9. SumFunction(heaps(T)) = SumFunction(heaps(R)) + heaps(T)[k] - heaps(R)[k]
    <3> DEFINE g == heaps(T)  e == heaps(R)
    <3>1. g \in [S -> Int] /\ e \in [S -> Int] /\ \A s \in S \ {k} : g[s] = e[s]
      BY <2>6, <2>7
    <3> HIDE DEF g, e
    <3>2. SumFunction(g) = SumFunction(e) + g[k] - e[k]
      BY <2>1, <3>1, SumUpdate
    <3> QED BY <3>2 DEF g, e
  <2>10. SumFunction(heaps(R)) \in Int /\ heaps(R)[k] \in Int
    BY <2>1, <2>6, SumInteger
  <2>11. SumFunction(part(R)) = SumFunction(heaps(R))
    BY <1>4 DEF x, R
  <2>12. SumFunction(part(T)) = SumFunction(heaps(T))
    BY <2>1, <2>5, <2>8, <2>9, <2>10, <2>11
  <2> QED BY <2>12
<1>5. P \in Q
  <2>1. \A T \in SUBSET P : T \in Q
    <3> HIDE DEF Q
    <3> QED BY <1>3, <1>4, SubsetInduction
  <2> HIDE DEF Q
  <2> QED BY <2>1
<1>6. part(P) = f /\ heaps(P) = h
  BY DEF heap
<1> QED BY <1>5, <1>6

(* The summands may go by other names. *)
LEMMA SumRename ==
  ASSUME NEW P, IsFiniteSet(P), NEW S, IsFiniteSet(S), NEW key \in [P -> S], NEW back \in [S -> P],
         NEW f \in [P -> Int], NEW h \in [S -> Int],
         \A p \in P : back[key[p]] = p /\ f[p] = h[key[p]],
         \A s \in S : key[back[s]] = s
  PROVE  SumFunction(f) = SumFunction(h)
<1>1. ASSUME NEW s \in S
      PROVE  h[s] = SumFunction([x \in {p \in P : key[p] = s} |-> f[x]])
  <2> DEFINE p == back[s]
             one == {p}
             g == [x \in one |-> f[x]]
  <2>1. p \in P /\ {q \in P : key[q] = s} = one /\ h[s] = f[p]
    OBVIOUS
  <2>2. IsFiniteSet(one) /\ p \in one /\ g \in [one -> Int] /\ \A x \in one \ {p} : g[x] = 0
    BY <2>1, FS_Singleton
  <2>3. SumFunction(g) = g[p]
    <3> HIDE DEF one, g, p
    <3> QED BY <2>2, SumPoint
  <2> QED BY <2>1, <2>3
<1> QED BY <1>1, SumByKey

(* A sum over a part of a set is one over the set, where the rest counts for nothing. *)
THEOREM SumSubset ==
  ASSUME NEW S, IsFiniteSet(S), NEW T \in SUBSET S, NEW f \in [T -> Int], NEW h \in [S -> Int],
         \A x \in S : h[x] = IF x \in T THEN f[x] ELSE 0
  PROVE  SumFunction(f) = SumFunction(h)
<1> DEFINE key == [x \in T |-> x]
<1>1. IsFiniteSet(T) /\ key \in [T -> S]
  BY FS_Subset
<1>2. ASSUME NEW s \in S
      PROVE  h[s] = SumFunction([x \in {p \in T : key[p] = s} |-> f[x]])
  <2> DEFINE heap == {p \in T : key[p] = s}  g == [x \in heap |-> f[x]]
  <2>1. IsFiniteSet(heap) /\ g \in [heap -> Int]
    BY FS_Subset
  <2>2. CASE s \in T
    <3>1. s \in heap /\ (\A x \in heap \ {s} : g[x] = 0) /\ g[s] = h[s]
      BY <2>2
    <3> HIDE DEF heap, g
    <3>2. SumFunction(g) = g[s]
      BY <2>1, <3>1, SumPoint
    <3> QED BY <3>1, <3>2 DEF heap, g
  <2>3. CASE s \notin T
    <3>1. (\A x \in heap : g[x] = 0) /\ h[s] = 0
      BY <2>3
    <3> HIDE DEF heap, g
    <3>2. SumFunction(g) = 0
      BY <2>1, <3>1, SumZero
    <3> QED BY <3>1, <3>2 DEF heap, g
  <2> QED BY <2>2, <2>3
<1> HIDE DEF key
<1> QED BY <1>1, <1>2, SumByKey

(* A sum over a set of indices is the sum of the function over that set. *)
THEOREM SumOnSet ==
  ASSUME NEW S, IsFiniteSet(S), NEW T, S \subseteq T, NEW f \in [T -> Int]
  PROVE  SumFunctionOnSet(f, S) = SumFunction([x \in S |-> f[x]])
<1> DEFINE h == [x \in S |-> f[x]]
           iter == CHOOSE g : g = [s \in SUBSET S |-> Step(f, g, s)]
<1>1. SumFunctionOnSet(f, S) = iter[S]
  BY DEF SumFunctionOnSet, FoldFunctionOnSet, MapThenFoldSet, Pick, Step
<1>2. iter = [s \in SUBSET S |-> Step(f, iter, s)]
  BY IterExists
<1>3. \A s \in SUBSET S : iter[s] = Step(f, iter, s)
  BY <1>2
<1>4. PICK g : SumFunction(h) = g[S] /\ Accumulates(g, h, S)
  BY SumAccumulates
<1> HIDE DEF iter
<1> DEFINE Q == {s \in SUBSET S : iter[s] = g[s]}
<1>5. {} \in Q
  BY <1>3, <1>4 DEF Step, Accumulates
<1>6. ASSUME NEW s \in SUBSET S, s # {}, s \ {Pick(s)} \in Q PROVE s \in Q
  <2>1. Pick(s) \in S
    BY <1>6, PickIn
  <2>2. iter[s] = f[Pick(s)] + iter[s \ {Pick(s)}]
    BY <1>3, <1>6 DEF Step
  <2>3. g[s] = h[Pick(s)] + g[s \ {Pick(s)}]
    BY <1>4, <1>6 DEF Accumulates
  <2> QED BY <1>6, <2>1, <2>2, <2>3
<1> HIDE DEF Q
<1>7. \A s \in SUBSET S : s \in Q
  BY <1>5, <1>6, SubsetInduction
<1>8. iter[S] = g[S]
  BY <1>7 DEF Q
<1> QED BY <1>1, <1>4, <1>8

(* A and B are the two parts of S. *)
DisjointUnion(S, A, B) == S = A \cup B /\ A \cap B = {}

(* The sum over two separate parts is the sum of their sums: what was posted up to a
   day, and after it. *)
THEOREM SumSplit ==
  ASSUME NEW S, IsFiniteSet(S), NEW A, NEW B, DisjointUnion(S, A, B),
         NEW f \in [S -> Int], NEW g \in [A -> Int], NEW h \in [B -> Int],
         \A x \in A : g[x] = f[x], \A x \in B : h[x] = f[x]
  PROVE  SumFunction(f) = SumFunction(g) + SumFunction(h)
<1> DEFINE inA == [x \in S |-> IF x \in A THEN g[x] ELSE 0]
           inB == [x \in S |-> IF x \in B THEN h[x] ELSE 0]
<1>1. inA \in [S -> Int] /\ inB \in [S -> Int]
  OBVIOUS
<1>2. A \in SUBSET S /\ B \in SUBSET S
  BY DEF DisjointUnion
<1>3. \A x \in S : inA[x] = IF x \in A THEN g[x] ELSE 0
  OBVIOUS
<1>4. \A x \in S : inB[x] = IF x \in B THEN h[x] ELSE 0
  OBVIOUS
<1>5. \A x \in S : f[x] = inA[x] + inB[x]
  BY DEF DisjointUnion
<1> HIDE DEF inA, inB
<1>6. SumFunction(f) = SumFunction(inA) + SumFunction(inB)
  BY <1>1, <1>5, SumPlus
<1>7. SumFunction(g) = SumFunction(inA)
  BY <1>1, <1>2, <1>3, SumSubset
<1>8. SumFunction(h) = SumFunction(inB)
  BY <1>1, <1>2, <1>4, SumSubset
<1> QED BY <1>6, <1>7, <1>8

(* The same two facts of sums over a set of indices: it changes by what one summand
   changes, if that is in the set ... *)
THEOREM SumOnSetUpdate ==
  ASSUME NEW T, NEW S, IsFiniteSet(S), S \subseteq T, NEW f \in [T -> Int], NEW h \in [T -> Int],
         NEW a \in T, \A x \in T \ {a} : h[x] = f[x]
  PROVE  SumFunctionOnSet(h, S) = SumFunctionOnSet(f, S) + IF a \in S THEN h[a] - f[a] ELSE 0
<1> DEFINE fS == [x \in S |-> f[x]]
           hS == [x \in S |-> h[x]]
<1>1. /\ fS \in [S -> Int] /\ hS \in [S -> Int]
      /\ \A x \in S : fS[x] = f[x] /\ hS[x] = h[x]
      /\ \A x \in S \ {a} : hS[x] = fS[x]
      /\ a \notin S => hS = fS
  OBVIOUS
<1>2. SumFunctionOnSet(h, S) = SumFunction(hS) /\ SumFunctionOnSet(f, S) = SumFunction(fS)
  BY SumOnSet
<1> HIDE DEF fS, hS
<1>3. SumFunction(fS) \in Int
  BY <1>1, SumInteger
<1>4. CASE a \in S
  <2>1. SumFunction(hS) = SumFunction(fS) + hS[a] - fS[a]
    BY <1>1, <1>4, SumUpdate
  <2>2. hS[a] = h[a] /\ fS[a] = f[a] /\ f[a] \in Int /\ h[a] \in Int
    BY <1>1, <1>4
  <2> QED BY <1>2, <1>3, <1>4, <2>1, <2>2
<1>5. CASE a \notin S
  BY <1>1, <1>2, <1>3, <1>5
<1> QED BY <1>4, <1>5

(* A sum over a set of indices is a number. *)
LEMMA SumOnSetInteger ==
  ASSUME NEW T, NEW S, IsFiniteSet(S), S \subseteq T, NEW f \in [T -> Int]
  PROVE  SumFunctionOnSet(f, S) \in Int
<1> DEFINE g == [x \in S |-> f[x]]
<1>1. g \in [S -> Int]
  OBVIOUS
<1>2. SumFunctionOnSet(f, S) = SumFunction(g)
  BY SumOnSet
<1> HIDE DEF g
<1> QED BY <1>1, <1>2, SumInteger

(* h is f with n more at a. *)
Bumped(T, f, h, a, n) ==
  /\ f \in [T -> Int] /\ h \in [T -> Int] /\ a \in T /\ n \in Int
  /\ h[a] = f[a] + n /\ \A x \in T \ {a} : h[x] = f[x]

(* A sum over S then changes by n, if a is in S. *)
SumIsBumped(S, f, h, a, n) ==
  /\ SumFunctionOnSet(f, S) \in Int
  /\ SumFunctionOnSet(h, S) = SumFunctionOnSet(f, S) + IF a \in S THEN n ELSE 0

(* The sum changes by what is added at one index. *)
LEMMA SumBumped ==
  ASSUME NEW T, NEW S, IsFiniteSet(S), S \subseteq T, NEW f, NEW h, NEW a, NEW n, Bumped(T, f, h, a, n)
  PROVE  SumIsBumped(S, f, h, a, n)
<1>1. SumFunctionOnSet(h, S) = SumFunctionOnSet(f, S) + IF a \in S THEN h[a] - f[a] ELSE 0
  <2>1. /\ f \in [T -> Int] /\ h \in [T -> Int] /\ a \in T /\ \A x \in T \ {a} : h[x] = f[x]
    BY DEF Bumped
  <2> QED BY <2>1, SumOnSetUpdate
<1>2. h[a] - f[a] = n
  BY DEF Bumped
<1>3. SumFunctionOnSet(f, S) \in Int
  BY SumOnSetInteger DEF Bumped
<1> QED BY <1>1, <1>2, <1>3 DEF SumIsBumped

(* The sum over S is that over A and that over B. *)
SumSplits(f, S, A, B) == SumFunctionOnSet(f, S) = SumFunctionOnSet(f, A) + SumFunctionOnSet(f, B)

(* ... and it comes apart as the set does. *)
THEOREM SumOnSetSplit ==
  ASSUME NEW T, NEW S, IsFiniteSet(S), S \subseteq T, NEW A, NEW B, DisjointUnion(S, A, B),
         NEW f \in [T -> Int]
  PROVE  SumSplits(f, S, A, B)
<1> DEFINE fS == [x \in S |-> f[x]]
           fA == [x \in A |-> f[x]]
           fB == [x \in B |-> f[x]]
<1>1. IsFiniteSet(A) /\ IsFiniteSet(B) /\ A \subseteq T /\ B \subseteq T
  BY FS_Subset DEF DisjointUnion
<1>2. /\ SumFunctionOnSet(f, S) = SumFunction(fS)
      /\ SumFunctionOnSet(f, A) = SumFunction(fA)
      /\ SumFunctionOnSet(f, B) = SumFunction(fB)
  BY <1>1, SumOnSet
<1>3. /\ fS \in [S -> Int] /\ fA \in [A -> Int] /\ fB \in [B -> Int]
      /\ (\A x \in A : fA[x] = fS[x]) /\ \A x \in B : fB[x] = fS[x]
  BY <1>1 DEF DisjointUnion
<1> HIDE DEF fS, fA, fB
<1>4. SumFunction(fS) = SumFunction(fA) + SumFunction(fB)
  BY <1>3, SumSplit
<1> QED BY <1>2, <1>4 DEF SumSplits

(* F has numbers for two indices; rows are its sums over the second. *)
RowSums(S, A, F, rows) ==
  /\ IsFiniteSet(S) /\ IsFiniteSet(A) /\ F \in [S \X A -> Int] /\ rows \in [S -> Int]
  /\ \A s \in S : rows[s] = SumFunction([a \in A |-> F[<<s, a>>]])

(* A sum of sums sorted by the first of two indices ... *)
LEMMA SumRows ==
  ASSUME NEW S, NEW A, NEW F, NEW rows, RowSums(S, A, F, rows)
  PROVE  SumFunction(F) = SumFunction(rows)
<1> DEFINE P == S \X A
           key == [p \in P |-> p[1]]
<1>1. IsFiniteSet(P) /\ key \in [P -> S]
  BY FS_Product DEF RowSums
<1>2. ASSUME NEW s \in S
      PROVE  rows[s] = SumFunction([p \in {q \in P : key[q] = s} |-> F[p]])
  <2> DEFINE R == {q \in P : key[q] = s}
             f == [p \in R |-> F[p]]
             h == [a \in A |-> F[<<s, a>>]]
             to == [p \in R |-> p[2]]
             back == [a \in A |-> <<s, a>>]
  <2>1. IsFiniteSet(R)
    <3>1. R \subseteq P
      OBVIOUS
    <3> HIDE DEF R, P
    <3> QED BY <1>1, <3>1, FS_Subset
  <2>2. \A p \in R : p = <<s, p[2]>> /\ p[2] \in A /\ p \in S \X A
    OBVIOUS
  <2>3. \A a \in A : <<s, a>> \in R
    OBVIOUS
  <2>4. rows[s] = SumFunction(h)
    BY DEF RowSums
  <2>5. IsFiniteSet(A) /\ f \in [R -> Int] /\ h \in [A -> Int]
    BY DEF RowSums
  <2>6. to \in [R -> A] /\ back \in [A -> R]
    BY <2>2, <2>3
  <2>7. \A p \in R : back[to[p]] = p /\ f[p] = h[to[p]]
    BY <2>2
  <2>8. \A a \in A : to[back[a]] = a
    BY <2>3
  <2> HIDE DEF R, f, h, to, back
  <2>9. SumFunction(f) = SumFunction(h)
    BY <2>1, <2>5, <2>6, <2>7, <2>8, SumRename
  <2> QED BY <2>4, <2>9 DEF f, R
<1>3. IsFiniteSet(S) /\ F \in [P -> Int] /\ rows \in [S -> Int]
  BY DEF RowSums
<1> HIDE DEF P, key
<1> QED BY <1>1, <1>2, <1>3, SumByKey

(* ... or by the second comes to the same: a trial balance adds up by account as the
   journals do by entry. *)
THEOREM SumSwap ==
  ASSUME NEW S, NEW A, NEW F, NEW G, NEW rows, NEW cols,
         RowSums(S, A, F, rows), RowSums(A, S, G, cols), \A s \in S, a \in A : G[<<a, s>>] = F[<<s, a>>]
  PROVE  SumFunction(rows) = SumFunction(cols)
<1> DEFINE P == S \X A
           R == A \X S
           to == [p \in P |-> <<p[2], p[1]>>]
           back == [p \in R |-> <<p[2], p[1]>>]
<1>1. SumFunction(F) = SumFunction(rows) /\ SumFunction(G) = SumFunction(cols)
  BY SumRows
<1>2. IsFiniteSet(P) /\ IsFiniteSet(R) /\ F \in [P -> Int] /\ G \in [R -> Int]
  BY FS_Product DEF RowSums
<1>3. \A p \in P : p = <<p[1], p[2]>> /\ <<p[2], p[1]>> \in R
  OBVIOUS
<1>4. \A p \in R : p = <<p[1], p[2]>> /\ <<p[2], p[1]>> \in P
  OBVIOUS
<1>5. to \in [P -> R] /\ back \in [R -> P]
  BY <1>3, <1>4
<1>6. \A p \in P : back[to[p]] = p /\ F[p] = G[to[p]]
  BY <1>3
<1>7. \A p \in R : to[back[p]] = p
  BY <1>4
<1> HIDE DEF P, R, to, back
<1>8. SumFunction(F) = SumFunction(G)
  BY <1>2, <1>5, <1>6, <1>7, SumRename
<1> QED BY <1>1, <1>8

(* Induction over the indices of a sequence. *)
LEMMA IndexInduction ==
  ASSUME NEW n \in Nat, NEW Q, 0 \in Q, \A i \in 1 .. n : i - 1 \in Q => i \in Q
  PROVE  \A i \in 0 .. n : i \in Q
<1> DEFINE Bad == {i \in 0 .. n : i \notin Q}
<1>1. SUFFICES ASSUME Bad # {} PROVE FALSE
  OBVIOUS
<1>2. PICK m \in Bad : \A i \in Bad : m <= i
  <2>1. Bad \in SUBSET Nat
    OBVIOUS
  <2> HIDE DEF Bad
  <2> QED BY <1>1, <2>1, SmallestNumber
<1>3. m \in 1 .. n /\ m - 1 \in 0 .. n
  BY <1>2
<1>4. m - 1 \in Q
  BY <1>2, <1>3
<1> QED BY <1>2, <1>3, <1>4
=============================================================================
