------------------------------ MODULE SumLemmas ------------------------------
(***************************************************************************)
(* Sums over finite sets, the SumFunctionOnSet of the community modules.   *)
(* It is a recursive function that takes one index after the other out of  *)
(* a set.  Its induction is on the number of indices, in the form that a   *)
(* set of natural numbers that is not empty has a smallest member.         *)
(***************************************************************************)
EXTENDS FiniteSetTheorems, TLAPS

(* Any set of natural numbers but the empty one has a smallest member.     *)
LEMMA SmallestMember ==
  ASSUME NEW T \in SUBSET Nat, T # {}
  PROVE  \E n \in T : \A m \in T : n <= m
<1>1. PICK n \in T : \A m \in T : ~(<<m, n>> \in OpToRel(<, Nat))
  BY NatLessThanWellFounded, WFMin, Zenon
<1>2. \A m \in T : ~(m < n)
  BY <1>1 DEF OpToRel
<1> QED
  BY <1>2

(* There are no more values of a function than arguments.                  *)
LEMMA FiniteImage ==
  ASSUME NEW f, NEW S, IsFiniteSet(S)
  PROVE  IsFiniteSet({f[x] : x \in S})
<1> DEFINE T == {f[x] : x \in S}
           g == [x \in S |-> f[x]]
<1>1. g \in Surjection(S, T)
  BY DEF Surjection
<1> QED
  BY <1>1, FS_Surjection

(* Intervals are finite.                                                   *)
LEMMA IntervalsAreFinite == \A a, b \in Int : IsFiniteSet(a..b)
BY FS_Interval

(* Whoever is the last of an interval leaves an interval.                  *)
LEMMA IntervalButLast ==
  ASSUME NEW a \in Int, NEW b \in Int, a <= b
  PROVE  IsFiniteSet(a..b) /\ b \in a..b /\ (a..b) \ {b} = a..(b - 1)
BY IntervalsAreFinite

(* A set P of subsets of S that holds s whenever it holds the subsets of s *)
(* with fewer members holds S.                                             *)
LEMMA SubsetInduction ==
  ASSUME NEW S, IsFiniteSet(S), NEW P,
         \A s \in SUBSET S : (\A t \in SUBSET s : t # s => t \in P) => s \in P
  PROVE  S \in P
<1> DEFINE T == {n \in Nat : \E s \in SUBSET S : Cardinality(s) = n /\ s \notin P}
<1>1. \A s \in SUBSET S : IsFiniteSet(s) /\ Cardinality(s) \in Nat
  BY FS_Subset, FS_CardinalityType
<1>2. ASSUME T # {} PROVE FALSE
  <2>1. PICK n \in T : \A m \in T : n <= m
    BY <1>2, SmallestMember
  <2>2. PICK s \in SUBSET S : Cardinality(s) = n /\ s \notin P
    BY <2>1
  <2>3. PICK t \in SUBSET s : t # s /\ t \notin P
    BY <2>2
  <2>4. Cardinality(t) < n /\ Cardinality(t) \in Nat
    BY <1>1, <2>2, <2>3, FS_Subset, FS_CardinalityType
  <2>5. Cardinality(t) \in T
    BY <2>3, <2>4
  <2> QED
    BY <2>1, <2>4, <2>5
<1> QED
  BY <1>1, <1>2

-----------------------------------------------------------------------------
(* The index SumFunctionOnSet takes out of a set first, and the equation   *)
(* of the function g of partial sums on the sets in D.                     *)
First(s) == CHOOSE x \in s : TRUE
Sums(f, g, D) == g = [s \in D |-> IF s = {} THEN 0 ELSE f[First(s)] + g[s \ {First(s)}]]

(* What the definition says.                                               *)
LEMMA SumUnfolds ==
  ASSUME NEW f, NEW S
  PROVE  SumFunctionOnSet(f, S) = (CHOOSE g : Sums(f, g, SUBSET S))[S]
BY DEF SumFunctionOnSet, FoldFunctionOnSet, MapThenFoldSet, Sums, First

(* There is a function of partial sums.                                    *)
LEMMA SumsExist ==
  ASSUME NEW f, NEW S, IsFiniteSet(S)
  PROVE  \E g : Sums(f, g, SUBSET S)
<1> DEFINE Small(n) == {s \in SUBSET S : Cardinality(s) <= n}
           T == {n \in Nat : ~\E g : Sums(f, g, Small(n))}
<1>1. \A s \in SUBSET S : IsFiniteSet(s) /\ Cardinality(s) \in Nat
  BY FS_Subset, FS_CardinalityType
<1>5. ASSUME NEW s \in SUBSET S, s # {}
      PROVE  /\ First(s) \in s
             /\ Cardinality(s \ {First(s)}) = Cardinality(s) - 1
             /\ Cardinality(s) >= 1
  <2>1. First(s) \in s
    BY <1>5 DEF First
  <2>2. Cardinality(s \ {First(s)}) = Cardinality(s) - 1
    BY <1>1, <2>1, FS_RemoveElement
  <2>3. Cardinality(s) # 0
    BY <1>1, <1>5, FS_EmptySet
  <2> QED
    BY <1>1, <2>1, <2>2, <2>3
<1>2. ASSUME T # {} PROVE FALSE
  <2>1. PICK n \in T : \A m \in T : n <= m
    BY <1>2, SmallestMember
  <2>2. CASE n = 0
    <3>1. ASSUME NEW s \in Small(0) PROVE s = {}
      <4>1. s \in SUBSET S /\ Cardinality(s) <= 0
        OBVIOUS
      <4>2. Cardinality(s) \in Nat
        BY <1>1, <4>1
      <4>3. ASSUME s # {} PROVE Cardinality(s) >= 1
        BY <1>5, <4>1, <4>3
      <4> QED
        BY <4>1, <4>2, <4>3
    <3> HIDE DEF Small
    <3>2. Sums(f, [s \in Small(0) |-> 0], Small(0))
      BY <3>1 DEF Sums
    <3> QED
      BY <2>1, <2>2, <3>2
  <2>3. CASE n # 0
    <3>a. n \in Nat
      BY <2>1
    <3>0. n - 1 \in Nat /\ n - 1 \notin T /\ n \in Nat
      <4> HIDE DEF T
      <4> QED
        BY <2>1, <2>3, <3>a
    <3>1. PICK g : Sums(f, g, Small(n - 1))
      <4> HIDE DEF Small
      <4> QED
        BY <3>0
    <3> DEFINE h == [s \in Small(n) |-> IF s = {} THEN 0 ELSE f[First(s)] + g[s \ {First(s)}]]
    <3>2. ASSUME NEW s \in Small(n - 1) PROVE s \in Small(n) /\ h[s] = g[s]
      <4>0. s \in SUBSET S /\ Cardinality(s) <= n - 1 /\ Cardinality(s) \in Nat
        BY <1>1
      <4>1. s \in Small(n)
        BY <3>0, <4>0
      <4> HIDE DEF Small
      <4>2. g[s] = IF s = {} THEN 0 ELSE f[First(s)] + g[s \ {First(s)}]
        BY <3>1 DEF Sums
      <4> QED
        BY <4>1, <4>2
    <3>3. ASSUME NEW s \in Small(n), s # {} PROVE s \ {First(s)} \in Small(n - 1)
      <4>1. Cardinality(s \ {First(s)}) <= n - 1 /\ s \ {First(s)} \in SUBSET S
        BY <1>1, <1>5, <3>0, <3>3
      <4> QED
        BY <4>1
    <3>4. h = [s \in Small(n) |-> IF s = {} THEN 0 ELSE f[First(s)] + h[s \ {First(s)}]]
      BY <3>2, <3>3
    <3> QED
      BY <2>1, <3>4 DEF Sums
  <2> QED
    BY <2>2, <2>3
<1>3. Small(Cardinality(S)) = SUBSET S
  BY <1>1, FS_Subset
<1>4. Cardinality(S) \in Nat /\ Cardinality(S) \notin T
  BY <1>1, <1>2
<1> QED
  BY <1>3, <1>4

(* It is the same on every set that holds the indices.                     *)
LEMMA SumsAreUnique ==
  ASSUME NEW f, NEW S, IsFiniteSet(S), NEW R, S \subseteq R, NEW g, NEW h,
         Sums(f, g, SUBSET S), Sums(f, h, SUBSET R)
  PROVE  g[S] = h[S]
<1> DEFINE P == {s \in SUBSET S : g[s] = h[s]}
<1>1. ASSUME NEW s \in SUBSET S, \A t \in SUBSET s : t # s => t \in P
      PROVE  s \in P
  <2>1. s \in SUBSET R
    OBVIOUS
  <2>2. CASE s = {}
    BY <2>1, <2>2 DEF Sums
  <2>3. CASE s # {}
    <3>1. First(s) \in s
      BY <2>3 DEF First
    <3>2. g[s \ {First(s)}] = h[s \ {First(s)}]
      BY <1>1, <3>1
    <3> QED
      BY <2>1, <2>3, <3>2 DEF Sums
  <2> QED
    BY <2>2, <2>3
<1>2. S \in P
  <2> HIDE DEF P
  <2> QED
    BY <1>1, SubsetInduction
<1> QED
  BY <1>2

(* The first index comes out.                                              *)
LEMMA SumTakesOutFirst ==
  ASSUME NEW f, NEW S, IsFiniteSet(S)
  PROVE  /\ S = {} => SumFunctionOnSet(f, S) = 0
         /\ S # {} => SumFunctionOnSet(f, S) = f[First(S)] + SumFunctionOnSet(f, S \ {First(S)})
<1> DEFINE G(Q) == CHOOSE g : Sums(f, g, SUBSET Q)
           R == S \ {First(S)}
<1>1. Sums(f, G(S), SUBSET S) /\ SumFunctionOnSet(f, S) = G(S)[S]
  BY SumsExist, SumUnfolds
<1>2. IsFiniteSet(R) /\ R \subseteq S
  BY FS_Subset
<1>3. Sums(f, G(R), SUBSET R) /\ SumFunctionOnSet(f, R) = G(R)[R]
  BY <1>2, SumsExist, SumUnfolds
<1>5. G(S)[S] = IF S = {} THEN 0 ELSE f[First(S)] + G(S)[R]
  <2> HIDE DEF G
  <2> QED
    BY <1>1 DEF Sums
<1> HIDE DEF G, R
<1>4. G(R)[R] = G(S)[R]
  BY <1>1, <1>2, <1>3, SumsAreUnique
<1> USE DEF R
<1> QED
  BY <1>1, <1>3, <1>4, <1>5

(* Nothing sums up to zero.                                                *)
LEMMA SumOfNone ==
  ASSUME NEW f
  PROVE  SumFunctionOnSet(f, {}) = 0
BY SumTakesOutFirst, FS_EmptySet

-----------------------------------------------------------------------------
(* A sum of integers is an integer.                                        *)
LEMMA SumIsInt ==
  ASSUME NEW f, NEW S, IsFiniteSet(S), \A x \in S : f[x] \in Int
  PROVE  SumFunctionOnSet(f, S) \in Int
<1> DEFINE P == {s \in SUBSET S : SumFunctionOnSet(f, s) \in Int}
<1>1. ASSUME NEW s \in SUBSET S, \A t \in SUBSET s : t # s => t \in P
      PROVE  s \in P
  <2>1. IsFiniteSet(s)
    BY FS_Subset
  <2>2. CASE s = {}
    BY <2>2, SumOfNone
  <2>3. CASE s # {}
    <3>1. First(s) \in s /\ f[First(s)] \in Int
      BY <2>3 DEF First
    <3>2. SumFunctionOnSet(f, s \ {First(s)}) \in Int
      BY <1>1, <3>1
    <3> QED
      BY <2>1, <2>3, <3>1, <3>2, SumTakesOutFirst
  <2> QED
    BY <2>2, <2>3
<1>2. S \in P
  <2> HIDE DEF P
  <2> QED
    BY <1>1, SubsetInduction
<1> QED
  BY <1>2

(* Any index comes out.                                                    *)
LEMMA SumTakesOut ==
  ASSUME NEW f, NEW S, IsFiniteSet(S), \A x \in S : f[x] \in Int, NEW a \in S
  PROVE  SumFunctionOnSet(f, S) = f[a] + SumFunctionOnSet(f, S \ {a})
<1> DEFINE Total(s) == SumFunctionOnSet(f, s)
           P == {s \in SUBSET S : \A x \in s : Total(s) = f[x] + Total(s \ {x})}
<1>1. ASSUME NEW s \in SUBSET S, \A t \in SUBSET s : t # s => t \in P, NEW x \in s
      PROVE  Total(s) = f[x] + Total(s \ {x})
  <2> DEFINE y == First(s)
             rest == s \ {x, y}
  <2>1. IsFiniteSet(s) /\ y \in s
    BY FS_Subset DEF First
  <2>2. f[x] \in Int /\ f[y] \in Int /\ Total(rest) \in Int
    BY <2>1, FS_Subset, SumIsInt
  <2>3. Total(s) = f[y] + Total(s \ {y})
    BY <2>1, SumTakesOutFirst
  <2>4. CASE x = y
    BY <2>3, <2>4
  <2>5. CASE x # y
    <3>1. (s \ {y}) \ {x} = rest /\ (s \ {x}) \ {y} = rest
      OBVIOUS
    <3>2. s \ {y} \in P /\ s \ {x} \in P /\ x \in s \ {y} /\ y \in s \ {x}
      BY <1>1, <2>1, <2>5
    <3>3. Total(s \ {y}) = f[x] + Total(rest) /\ Total(s \ {x}) = f[y] + Total(rest)
      BY <3>1, <3>2
    <3> HIDE DEF Total, y, rest
    <3> QED
      BY <2>2, <2>3, <3>3
  <2> QED
    BY <2>4, <2>5
<1>2. S \in P
  <2>1. \A s \in SUBSET S : (\A t \in SUBSET s : t # s => t \in P) => s \in P
    BY <1>1
  <2> HIDE DEF P
  <2> QED
    BY <2>1, SubsetInduction
<1> QED
  BY <1>2

(* One index more adds its value.                                          *)
LEMMA SumAdds ==
  ASSUME NEW f, NEW S, IsFiniteSet(S), \A x \in S : f[x] \in Int, NEW a, a \notin S, f[a] \in Int
  PROVE  SumFunctionOnSet(f, S \cup {a}) = SumFunctionOnSet(f, S) + f[a]
<1>1. IsFiniteSet(S \cup {a}) /\ (S \cup {a}) \ {a} = S
  BY FS_AddElement
<1>2. SumFunctionOnSet(f, S \cup {a}) = f[a] + SumFunctionOnSet(f, S)
  BY <1>1, SumTakesOut
<1> QED
  BY <1>2, SumIsInt

(* A sum depends on the values at its indices only, and no value smaller   *)
(* than another makes it larger.                                           *)
LEMMA SumMonotone ==
  ASSUME NEW f, NEW g, NEW S, IsFiniteSet(S),
         \A x \in S : f[x] \in Int /\ g[x] \in Int /\ f[x] <= g[x]
  PROVE  SumFunctionOnSet(f, S) <= SumFunctionOnSet(g, S)
<1> DEFINE P == {s \in SUBSET S : SumFunctionOnSet(f, s) <= SumFunctionOnSet(g, s)}
<1>1. ASSUME NEW s \in SUBSET S, \A t \in SUBSET s : t # s => t \in P
      PROVE  s \in P
  <2>1. IsFiniteSet(s)
    BY FS_Subset
  <2>2. CASE s = {}
    BY <2>2, SumOfNone
  <2>3. CASE s # {}
    <3> DEFINE x == First(s)
               rest == s \ {x}
    <3>1. x \in s
      BY <2>3 DEF First
    <3>2. SumFunctionOnSet(f, rest) <= SumFunctionOnSet(g, rest)
      BY <1>1, <3>1
    <3>3. f[x] \in Int /\ g[x] \in Int /\ f[x] <= g[x]
      BY <3>1
    <3>4. SumFunctionOnSet(f, rest) \in Int /\ SumFunctionOnSet(g, rest) \in Int
      BY <2>1, FS_Subset, SumIsInt
    <3>5. /\ SumFunctionOnSet(f, s) = f[x] + SumFunctionOnSet(f, rest)
          /\ SumFunctionOnSet(g, s) = g[x] + SumFunctionOnSet(g, rest)
      BY <2>1, <2>3, SumTakesOutFirst
    <3> HIDE DEF x, rest
    <3> QED
      BY <3>2, <3>3, <3>4, <3>5
  <2> QED
    BY <2>2, <2>3
<1>2. S \in P
  <2> HIDE DEF P
  <2> QED
    BY <1>1, SubsetInduction
<1> QED
  BY <1>2

LEMMA SumSame ==
  ASSUME NEW f, NEW g, NEW S, IsFiniteSet(S), \A x \in S : f[x] \in Int /\ g[x] = f[x]
  PROVE  SumFunctionOnSet(f, S) = SumFunctionOnSet(g, S)
<1>1. SumFunctionOnSet(f, S) <= SumFunctionOnSet(g, S)
  BY SumMonotone
<1>2. SumFunctionOnSet(g, S) <= SumFunctionOnSet(f, S)
  BY SumMonotone
<1> QED
  BY <1>1, <1>2, SumIsInt

(* A sum of natural numbers is one.                                        *)
LEMMA SumIsNat ==
  ASSUME NEW f, NEW S, IsFiniteSet(S), \A x \in S : f[x] \in Nat
  PROVE  SumFunctionOnSet(f, S) \in Nat
<1> DEFINE P == {s \in SUBSET S : SumFunctionOnSet(f, s) \in Nat}
<1>1. ASSUME NEW s \in SUBSET S, \A t \in SUBSET s : t # s => t \in P
      PROVE  s \in P
  <2>1. IsFiniteSet(s)
    BY FS_Subset
  <2>2. CASE s = {}
    BY <2>2, SumOfNone
  <2>3. CASE s # {}
    <3>1. First(s) \in s /\ f[First(s)] \in Nat
      BY <2>3 DEF First
    <3>2. SumFunctionOnSet(f, s \ {First(s)}) \in Nat
      BY <1>1, <3>1
    <3> QED
      BY <2>1, <2>3, <3>1, <3>2, SumTakesOutFirst
  <2> QED
    BY <2>2, <2>3
<1>2. S \in P
  <2> HIDE DEF P
  <2> QED
    BY <1>1, SubsetInduction
<1> QED
  BY <1>2

(* One value that changes changes the sum by as much.                      *)
LEMMA SumUpdates ==
  ASSUME NEW f, NEW g, NEW S, IsFiniteSet(S), NEW a \in S,
         \A x \in S : f[x] \in Int /\ g[x] \in Int,
         \A x \in S \ {a} : g[x] = f[x]
  PROVE  SumFunctionOnSet(g, S) = SumFunctionOnSet(f, S) - f[a] + g[a]
<1> DEFINE rest == S \ {a}
<1>1. IsFiniteSet(rest)
  BY FS_Subset
<1>2. SumFunctionOnSet(f, rest) = SumFunctionOnSet(g, rest) /\ SumFunctionOnSet(f, rest) \in Int
  BY <1>1, SumSame, SumIsInt
<1>3. /\ SumFunctionOnSet(f, S) = f[a] + SumFunctionOnSet(f, rest)
      /\ SumFunctionOnSet(g, S) = g[a] + SumFunctionOnSet(g, rest)
  BY SumTakesOut
<1> HIDE DEF rest
<1> QED
  BY <1>2, <1>3

(* Indices with a value of zero count for nothing.                         *)
LEMMA SumIsZero ==
  ASSUME NEW f, NEW S, IsFiniteSet(S), \A x \in S : f[x] = 0
  PROVE  SumFunctionOnSet(f, S) = 0
<1> DEFINE P == {s \in SUBSET S : SumFunctionOnSet(f, s) = 0}
<1>1. ASSUME NEW s \in SUBSET S, \A t \in SUBSET s : t # s => t \in P
      PROVE  s \in P
  <2>1. IsFiniteSet(s)
    BY FS_Subset
  <2>2. CASE s = {}
    BY <2>2, SumOfNone
  <2>3. CASE s # {}
    <3>1. First(s) \in s /\ f[First(s)] = 0
      BY <2>3 DEF First
    <3>2. SumFunctionOnSet(f, s \ {First(s)}) = 0
      BY <1>1, <3>1
    <3> QED
      BY <2>1, <2>3, <3>1, <3>2, SumTakesOutFirst
  <2> QED
    BY <2>2, <2>3
<1>2. S \in P
  <2> HIDE DEF P
  <2> QED
    BY <1>1, SubsetInduction
<1> QED
  BY <1>2

(* The sum over some of the indices of natural numbers is no larger.       *)
LEMMA SumOfPart ==
  ASSUME NEW f, NEW S, IsFiniteSet(S), \A x \in S : f[x] \in Nat, NEW R, R \subseteq S
  PROVE  SumFunctionOnSet(f, R) <= SumFunctionOnSet(f, S)
<1> DEFINE P == {s \in SUBSET S : R \subseteq s => SumFunctionOnSet(f, R) <= SumFunctionOnSet(f, s)}
<1>1. ASSUME NEW s \in SUBSET S, \A t \in SUBSET s : t # s => t \in P
      PROVE  s \in P
  <2>1. IsFiniteSet(s) /\ IsFiniteSet(R)
    BY FS_Subset
  <2>2. SumFunctionOnSet(f, R) \in Nat
    BY <2>1, SumIsNat
  <2>3. CASE R = s \/ ~(R \subseteq s)
    BY <2>2, <2>3
  <2>4. CASE R # s /\ R \subseteq s
    <3>1. PICK x \in s : x \notin R
      BY <2>4
    <3>2. SumFunctionOnSet(f, R) <= SumFunctionOnSet(f, s \ {x})
      BY <1>1, <2>4, <3>1
    <3>3. SumFunctionOnSet(f, s) = f[x] + SumFunctionOnSet(f, s \ {x})
      BY <2>1, SumTakesOut
    <3>4. f[x] \in Nat /\ SumFunctionOnSet(f, s \ {x}) \in Nat
      BY <2>1, FS_Subset, SumIsNat
    <3> QED
      BY <2>2, <3>2, <3>3, <3>4
  <2> QED
    BY <2>3, <2>4
<1>2. S \in P
  <2> HIDE DEF P
  <2> QED
    BY <1>1, SubsetInduction
<1> QED
  BY <1>2

(* What each is worth that c counts, at the value v, and a count of one    *)
(* more at a.                                                              *)
Worth(c, v, M) == [x \in M |-> c[x] * v[x]]
OneMore(d, c, a) == d = [c EXCEPT ![a] = @ + 1]

(* The worth of what is counted is a number.                               *)
LEMMA SumOfWorth ==
  ASSUME NEW M, NEW S \in SUBSET M, IsFiniteSet(S), NEW c \in [M -> Nat], NEW v \in [M -> Nat]
  PROVE  SumFunctionOnSet(Worth(c, v, M), S) \in Nat
<1> DEFINE f == Worth(c, v, M)
<1>1. ASSUME NEW x \in M PROVE f[x] \in Nat
  <2>1. c[x] \in Nat /\ v[x] \in Nat
    OBVIOUS
  <2> QED
    BY <2>1 DEF Worth
<1> HIDE DEF f
<1>2. SumFunctionOnSet(f, S) \in Nat
  BY <1>1, SumIsNat
<1> QED
  BY <1>2 DEF f

(* One more of it adds the value of one.                                   *)
LEMMA SumCountsOneMore ==
  ASSUME NEW M, NEW S \in SUBSET M, IsFiniteSet(S),
         NEW c \in [M -> Nat], NEW v \in [M -> Nat], NEW a \in S,
         NEW d, OneMore(d, c, a)
  PROVE  SumFunctionOnSet(Worth(d, v, M), S) = SumFunctionOnSet(Worth(c, v, M), S) + v[a]
<1> DEFINE f == Worth(c, v, M)
           g == Worth(d, v, M)
<1>1. d \in [M -> Nat] /\ d[a] = c[a] + 1 /\ \A x \in M \ {a} : d[x] = c[x]
  BY DEF OneMore
<1>2. ASSUME NEW x \in M PROVE f[x] \in Nat /\ g[x] \in Nat
  <2>1. c[x] \in Nat /\ v[x] \in Nat /\ d[x] \in Nat
    BY <1>1
  <2> QED
    BY <2>1 DEF Worth
<1>3. ASSUME NEW x \in S \ {a} PROVE g[x] = f[x]
  BY <1>1 DEF Worth
<1>4. g[a] = f[a] + v[a]
  <2>1. c[a] \in Nat /\ v[a] \in Nat
    OBVIOUS
  <2>2. (c[a] + 1) * v[a] = c[a] * v[a] + v[a]
    BY <2>1
  <2> QED
    BY <1>1, <2>2 DEF Worth
<1> HIDE DEF f, g
<1>5. SumFunctionOnSet(g, S) = SumFunctionOnSet(f, S) - f[a] + g[a]
  <2>1. \A x \in S : f[x] \in Int /\ g[x] \in Int
    BY <1>2
  <2> QED
    BY <1>3, <2>1, SumUpdates
<1>6. f[a] \in Nat /\ v[a] \in Nat /\ SumFunctionOnSet(f, S) \in Nat
  BY <1>2, SumIsNat
<1> QED
  BY <1>4, <1>5, <1>6 DEF f, g

(* Elsewhere it adds nothing.                                              *)
LEMMA SumCountsElsewhere ==
  ASSUME NEW M, NEW S \in SUBSET M, IsFiniteSet(S),
         NEW c \in [M -> Nat], NEW v \in [M -> Nat], NEW a \in M \ S,
         NEW d, OneMore(d, c, a)
  PROVE  SumFunctionOnSet(Worth(d, v, M), S) = SumFunctionOnSet(Worth(c, v, M), S)
<1> DEFINE f == Worth(c, v, M)
           g == Worth(d, v, M)
<1>1. \A x \in S : d[x] = c[x]
  BY DEF OneMore
<1>2. ASSUME NEW x \in S PROVE f[x] \in Int /\ g[x] = f[x]
  <2>1. c[x] \in Nat /\ v[x] \in Nat /\ d[x] = c[x]
    BY <1>1
  <2> QED
    BY <2>1 DEF Worth
<1> HIDE DEF f, g
<1>3. SumFunctionOnSet(f, S) = SumFunctionOnSet(g, S)
  BY <1>2, SumSame
<1> QED
  BY <1>3 DEF f, g

(* Sums add up by index.                                                   *)
LEMMA SumOfSums ==
  ASSUME NEW f, NEW g, NEW h, NEW S, IsFiniteSet(S),
         \A x \in S : f[x] \in Int /\ g[x] \in Int /\ h[x] = f[x] + g[x]
  PROVE  SumFunctionOnSet(h, S) = SumFunctionOnSet(f, S) + SumFunctionOnSet(g, S)
<1> DEFINE P == {s \in SUBSET S : SumFunctionOnSet(h, s)
                                    = SumFunctionOnSet(f, s) + SumFunctionOnSet(g, s)}
<1>1. ASSUME NEW s \in SUBSET S, \A t \in SUBSET s : t # s => t \in P
      PROVE  s \in P
  <2>1. IsFiniteSet(s)
    BY FS_Subset
  <2>2. CASE s = {}
    BY <2>2, SumOfNone
  <2>3. CASE s # {}
    <3> DEFINE x == First(s)
               rest == s \ {x}
    <3>1. x \in s
      BY <2>3 DEF First
    <3>2. SumFunctionOnSet(h, rest) = SumFunctionOnSet(f, rest) + SumFunctionOnSet(g, rest)
      BY <1>1, <3>1
    <3>3. f[x] \in Int /\ g[x] \in Int /\ h[x] = f[x] + g[x]
      BY <3>1
    <3>4. SumFunctionOnSet(f, rest) \in Int /\ SumFunctionOnSet(g, rest) \in Int
      BY <2>1, FS_Subset, SumIsInt
    <3>5. /\ SumFunctionOnSet(f, s) = f[x] + SumFunctionOnSet(f, rest)
          /\ SumFunctionOnSet(g, s) = g[x] + SumFunctionOnSet(g, rest)
          /\ SumFunctionOnSet(h, s) = h[x] + SumFunctionOnSet(h, rest)
      BY <2>1, <2>3, SumTakesOutFirst
    <3> HIDE DEF x, rest
    <3> QED
      BY <3>2, <3>3, <3>4, <3>5
  <2> QED
    BY <2>2, <2>3
<1>2. S \in P
  <2> HIDE DEF P
  <2> QED
    BY <1>1, SubsetInduction
<1> QED
  BY <1>2

(* The sums over two sets without a common index add up.                   *)
LEMMA SumOfUnion ==
  ASSUME NEW f, NEW S, IsFiniteSet(S), NEW R, IsFiniteSet(R), S \cap R = {},
         \A x \in S \cup R : f[x] \in Int
  PROVE  SumFunctionOnSet(f, S \cup R) = SumFunctionOnSet(f, S) + SumFunctionOnSet(f, R)
<1> DEFINE P == {s \in SUBSET S : SumFunctionOnSet(f, s \cup R)
                                    = SumFunctionOnSet(f, s) + SumFunctionOnSet(f, R)}
<1>1. ASSUME NEW s \in SUBSET S, \A t \in SUBSET s : t # s => t \in P
      PROVE  s \in P
  <2>1. IsFiniteSet(s) /\ SumFunctionOnSet(f, R) \in Int
    BY FS_Subset, SumIsInt
  <2>2. CASE s = {}
    BY <2>1, <2>2, SumOfNone
  <2>3. CASE s # {}
    <3> DEFINE x == First(s)
               rest == s \ {x}
    <3>1. x \in s
      BY <2>3 DEF First
    <3>2. SumFunctionOnSet(f, rest \cup R) = SumFunctionOnSet(f, rest) + SumFunctionOnSet(f, R)
      BY <1>1, <3>1
    <3>3. f[x] \in Int /\ x \in s \cup R /\ (s \cup R) \ {x} = rest \cup R
      BY <3>1
    <3>4. SumFunctionOnSet(f, rest) \in Int
      BY <2>1, FS_Subset, SumIsInt
    <3>5. SumFunctionOnSet(f, s) = f[x] + SumFunctionOnSet(f, rest)
      BY <2>1, <2>3, SumTakesOutFirst
    <3>6. IsFiniteSet(s \cup R) /\ \A y \in s \cup R : f[y] \in Int
      BY <2>1, FS_Union
    <3> HIDE DEF x, rest
    <3>7. SumFunctionOnSet(f, s \cup R) = f[x] + SumFunctionOnSet(f, rest \cup R)
      BY <3>3, <3>6, SumTakesOut
    <3> QED
      BY <2>1, <3>2, <3>3, <3>4, <3>5, <3>7
  <2> QED
    BY <2>2, <2>3
<1>2. S \in P
  <2> HIDE DEF P
  <2> QED
    BY <1>1, SubsetInduction
<1> QED
  BY <1>2

(* Renaming the indices changes nothing.                                   *)
LEMMA SumOfImage ==
  ASSUME NEW f, NEW g, NEW p, NEW S, IsFiniteSet(S),
         \A x \in S : f[x] \in Int /\ g[p[x]] = f[x],
         \A x, y \in S : p[x] = p[y] => x = y
  PROVE  SumFunctionOnSet(f, S) = SumFunctionOnSet(g, {p[x] : x \in S})
<1> DEFINE Image(s) == {p[x] : x \in s}
           P == {s \in SUBSET S : SumFunctionOnSet(f, s) = SumFunctionOnSet(g, Image(s))}
<1>1. ASSUME NEW s \in SUBSET S, \A t \in SUBSET s : t # s => t \in P
      PROVE  s \in P
  <2>1. IsFiniteSet(s) /\ IsFiniteSet(Image(s))
    BY FS_Subset, FiniteImage
  <2>2. CASE s = {}
    <3>1. Image(s) = {}
      BY <2>2
    <3> QED
      BY <2>2, <3>1, SumOfNone
  <2>3. CASE s # {}
    <3> DEFINE x == First(s)
               rest == s \ {x}
    <3>1. x \in s
      BY <2>3 DEF First
    <3>2. SumFunctionOnSet(f, rest) = SumFunctionOnSet(g, Image(rest))
      BY <1>1, <3>1
    <3>3. SumFunctionOnSet(f, s) = f[x] + SumFunctionOnSet(f, rest)
      BY <2>1, <2>3, SumTakesOutFirst
    <3>4. p[x] \in Image(s) /\ Image(s) \ {p[x]} = Image(rest)
      BY <3>1
    <3>5. \A y \in Image(s) : g[y] \in Int
      OBVIOUS
    <3>6. g[p[x]] = f[x]
      BY <3>1
    <3> HIDE DEF x, rest, Image
    <3>7. SumFunctionOnSet(g, Image(s)) = g[p[x]] + SumFunctionOnSet(g, Image(rest))
      BY <2>1, <3>4, <3>5, SumTakesOut
    <3> QED
      BY <3>2, <3>3, <3>6, <3>7
  <2> QED
    BY <2>2, <2>3
<1>2. S \in P
  <2> HIDE DEF P
  <2> QED
    BY <1>1, SubsetInduction
<1> QED
  BY <1>2

(* Sums over the parts into which to splits the indices add up.            *)
LEMMA SumOfFibers ==
  ASSUME NEW f, NEW to, NEW S, IsFiniteSet(S), NEW H, IsFiniteSet(H),
         \A x \in S : f[x] \in Int /\ to[x] \in H
  PROVE  SumFunctionOnSet([h \in H |-> SumFunctionOnSet(f, {x \in S : to[x] = h})], H)
           = SumFunctionOnSet(f, S)
<1> DEFINE Fiber(s, h) == {y \in s : to[y] = h}
           Parts(s) == [h \in H |-> SumFunctionOnSet(f, Fiber(s, h))]
           P == {s \in SUBSET S : SumFunctionOnSet(Parts(s), H) = SumFunctionOnSet(f, s)}
<1>0. ASSUME NEW s \in SUBSET S
      PROVE  IsFiniteSet(s) /\ \A h \in H : IsFiniteSet(Fiber(s, h)) /\ Parts(s)[h] \in Int
  <2>1. IsFiniteSet(s)
    BY FS_Subset
  <2>2. ASSUME NEW h \in H PROVE IsFiniteSet(Fiber(s, h)) /\ SumFunctionOnSet(f, Fiber(s, h)) \in Int
    <3>1. Fiber(s, h) \subseteq s /\ \A y \in Fiber(s, h) : f[y] \in Int
      OBVIOUS
    <3> HIDE DEF Fiber
    <3>2. IsFiniteSet(Fiber(s, h))
      BY <2>1, <3>1, FS_Subset
    <3> QED
      BY <3>1, <3>2, SumIsInt
  <2> HIDE DEF Fiber
  <2> QED
    BY <2>1, <2>2
<1>1. ASSUME NEW s \in SUBSET S, \A t \in SUBSET s : t # s => t \in P
      PROVE  s \in P
  <2>1. CASE s = {}
    <3>1. \A h \in H : Fiber(s, h) = {}
      BY <2>1
    <3> HIDE DEF Fiber
    <3>2. \A h \in H : Parts(s)[h] = 0
      BY <3>1, SumOfNone
    <3> HIDE DEF Parts
    <3> QED
      BY <2>1, <3>2, SumOfNone, SumIsZero
  <2>2. CASE s # {}
    <3> DEFINE x == First(s)
               rest == s \ {x}
               a == to[x]
    <3>1. x \in s /\ a \in H /\ f[x] \in Int
      BY <2>2 DEF First
    <3>2. SumFunctionOnSet(Parts(rest), H) = SumFunctionOnSet(f, rest)
      BY <1>1, <3>1
    <3>3. SumFunctionOnSet(f, s) = f[x] + SumFunctionOnSet(f, rest)
      BY <1>0, <2>2, SumTakesOutFirst
    <3>4. rest \in SUBSET S
      OBVIOUS
    <3>5. /\ Fiber(s, a) = Fiber(rest, a) \cup {x} /\ x \notin Fiber(rest, a)
          /\ \A h \in H \ {a} : Fiber(s, h) = Fiber(rest, h)
          /\ \A y \in Fiber(rest, a) : f[y] \in Int
      BY <3>1
    <3> HIDE DEF x, rest, a, Fiber
    <3>6. SumFunctionOnSet(f, Fiber(s, a)) = SumFunctionOnSet(f, Fiber(rest, a)) + f[x]
      BY <1>0, <3>1, <3>4, <3>5, SumAdds
    <3>7. /\ Parts(s)[a] = Parts(rest)[a] + f[x]
          /\ \A h \in H \ {a} : Parts(s)[h] = Parts(rest)[h]
      BY <3>1, <3>5, <3>6
    <3>8. \A h \in H : Parts(s)[h] \in Int /\ Parts(rest)[h] \in Int
      BY <1>0, <3>4
    <3> HIDE DEF Parts
    <3>9. SumFunctionOnSet(Parts(s), H) = SumFunctionOnSet(Parts(rest), H) - Parts(rest)[a] + Parts(s)[a]
      BY <3>1, <3>7, <3>8, SumUpdates
    <3>10. SumFunctionOnSet(Parts(rest), H) \in Int /\ Parts(rest)[a] \in Int
      BY <3>1, <3>8, SumIsInt
    <3>11. SumFunctionOnSet(Parts(s), H) = SumFunctionOnSet(f, s)
      BY <3>1, <3>2, <3>3, <3>7, <3>9, <3>10
    <3> QED
      BY <3>11
  <2> QED
    BY <2>1, <2>2
<1>2. S \in P
  <2> HIDE DEF P
  <2> QED
    BY <1>1, SubsetInduction
<1> QED
  BY <1>2

(* A sum of equal values is a product.                                     *)
LEMMA SumOfEqual ==
  ASSUME NEW f, NEW S, IsFiniteSet(S), NEW c \in Int, \A x \in S : f[x] = c
  PROVE  SumFunctionOnSet(f, S) = c * Cardinality(S)
<1> DEFINE P == {s \in SUBSET S : SumFunctionOnSet(f, s) = c * Cardinality(s)}
<1>1. ASSUME NEW s \in SUBSET S, \A t \in SUBSET s : t # s => t \in P
      PROVE  s \in P
  <2>1. IsFiniteSet(s)
    BY FS_Subset
  <2>2. CASE s = {}
    BY <2>2, SumOfNone, FS_EmptySet
  <2>3. CASE s # {}
    <3> DEFINE x == First(s)
               rest == s \ {x}
    <3>1. x \in s /\ f[x] = c
      BY <2>3 DEF First
    <3>2. SumFunctionOnSet(f, rest) = c * Cardinality(rest)
      BY <1>1, <3>1
    <3>3. SumFunctionOnSet(f, s) = f[x] + SumFunctionOnSet(f, rest)
      BY <2>1, <2>3, SumTakesOutFirst
    <3>4. Cardinality(rest) = Cardinality(s) - 1 /\ Cardinality(s) \in Nat
      BY <2>1, <3>1, FS_RemoveElement, FS_CardinalityType
    <3> HIDE DEF x, rest
    <3>5. c + c * (Cardinality(s) - 1) = c * Cardinality(s)
      BY <3>4
    <3> QED
      BY <3>1, <3>2, <3>3, <3>4, <3>5
  <2> QED
    BY <2>2, <2>3
<1>2. S \in P
  <2> HIDE DEF P
  <2> QED
    BY <1>1, SubsetInduction
<1> QED
  BY <1>2

-----------------------------------------------------------------------------
(* Quotients and remainders, for a divisor that is a constant or variable. *)

(* What division leaves.                                                   *)
LEMMA QuotientAndRemainder ==
  ASSUME NEW w \in Nat \ {0}, NEW x \in Int
  PROVE  x = w * (x \div w) + (x % w) /\ x % w \in 0..w - 1 /\ x \div w \in Int
OBVIOUS

(* They are the only ones.                                                 *)
LEMMA OnlyRemainder ==
  ASSUME NEW w \in Nat \ {0}, NEW q \in Int, NEW r \in 0..w - 1
  PROVE  (w * q + r) % w = r /\ (w * q + r) \div w = q
<1> DEFINE x == w * q + r
           y == x \div w
           z == x % w
<1>1. x \in Int
  <2>1. w * q \in Int
    OBVIOUS
  <2> QED
    BY <2>1
<1> HIDE DEF x
<1>2. y \in Int /\ x = w * y + z /\ z \in 0..w - 1
  BY <1>1, QuotientAndRemainder
<1> HIDE DEF y, z
<1>3. w * (q - y) = z - r
  BY <1>2 DEF x
<1>4. q = y
  <2>1. ASSUME q - y >= 1 PROVE FALSE
    <3>1. w * (q - y - 1) >= 0
      BY <1>2, <2>1
    <3> QED
      BY <1>2, <1>3, <3>1
  <2>2. ASSUME y - q >= 1 PROVE FALSE
    <3>1. w * (y - q - 1) >= 0
      BY <1>2, <2>2
    <3> QED
      BY <1>2, <1>3, <3>1
  <2> QED
    BY <1>2, <2>1, <2>2
<1> QED
  BY <1>2, <1>3, <1>4 DEF x, y, z

(* To take the remainder of a part of a sum before changes nothing.        *)
LEMMA RemainderOfSum ==
  ASSUME NEW w \in Nat \ {0}, NEW x \in Int, NEW y \in Int
  PROVE  ((x % w) + y) % w = (x + y) % w
<1> DEFINE q == x \div w
           r == x % w
           p == (r + y) \div w
           s == (r + y) % w
<1>1. q \in Int /\ r \in 0..w - 1 /\ x = w * q + r
  BY QuotientAndRemainder
<1>2. r + y \in Int
  BY <1>1
<1>3. p \in Int /\ s \in 0..w - 1 /\ r + y = w * p + s
  BY <1>2, QuotientAndRemainder
<1> HIDE DEF q, r, p, s
<1>4. x + y = w * (q + p) + s
  BY <1>1, <1>3
<1>5. (w * (q + p) + s) % w = s
  BY <1>1, <1>3, OnlyRemainder
<1> QED
  BY <1>4, <1>5 DEF r, s
=============================================================================
