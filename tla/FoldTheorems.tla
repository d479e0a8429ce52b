---------------------------- MODULE FoldTheorems ----------------------------
(* What a fold of the community modules is: of the values of a function at  *)
(* the elements of a finite set, taken in some order, and of the elements   *)
(* of a sequence from the first to the last.  Induction needs a formula,    *)
(* and a fold an operation, that the provers cannot find on their own, so   *)
(* both are constants here, and an INSTANCE says what they are.             *)
EXTENDS Integers, Sequences, FiniteSets, Folds, FiniteSetTheorems

CONSTANTS
  Op(_, _, _),   \* what the next value makes of the result, given a parameter
  Pick(_),       \* the element of a set that is taken last
  Inv(_, _, _)   \* what is so of what was folded and of the result

FoldOf(p, base, f, S) ==
  MapThenFoldSet(LAMBDA x, a : Op(p, a, x), base, LAMBDA i : f[i], LAMBDA T : Pick(T), S)

Folded(p, base, s) == FoldOf(p, base, s, DOMAIN s)

Picks(S) == \A T \in SUBSET S : T # {} => Pick(T) \in T
PicksLast == \A n \in Nat \ {0} : Pick(1..n) = n /\ Picks(1..n)

-----------------------------------------------------------------------------
(* A set of numbers has a least one.                                       *)
LEMMA LeastExists ==
  ASSUME NEW T \in SUBSET Nat, T # {}
  PROVE  \E x \in T : \A y \in T : x <= y
<1>1. PICK x \in T : \A y \in T : ~(<<y, x>> \in OpToRel(<, Nat))
  BY NatLessThanWellFounded, WFMin
<1>2. ASSUME NEW y \in T PROVE x <= y
  <2>1. ~(<<y, x>> \in OpToRel(<, Nat))
    BY <1>1
  <2>2. ~(y < x)
    BY <2>1 DEF OpToRel
  <2>3. QED
    BY <2>2
<1>3. QED
  BY <1>2

(* And a greatest one, where they are bounded.                             *)
LEMMA GreatestExists ==
  ASSUME NEW n \in Nat, NEW T \in SUBSET (0..n), T # {}
  PROVE  \E x \in T : \A y \in T : x >= y
<1> DEFINE U == {n - x : x \in T}
<1>1. U \in SUBSET Nat /\ U # {}
  <2>1. \A x \in T : n - x \in Nat
    OBVIOUS
  <2>2. QED
    BY <2>1
<1> HIDE DEF U
<1>2. PICK u \in U : \A v \in U : u <= v
  BY <1>1, LeastExists
<1>3. PICK x \in T : u = n - x
  BY <1>2 DEF U
<1>4. ASSUME NEW y \in T PROVE x >= y
  <2>1. n - y \in U
    BY DEF U
  <2>2. n - x <= n - y
    BY <1>2, <1>3, <2>1
  <2>3. QED
    BY <2>2
<1>5. QED
  BY <1>4

-----------------------------------------------------------------------------
(* A table of the folds of all subsets, and of those of n elements at most. *)
Folding(g, p, base, f, T) == IF T = {} THEN base ELSE Op(p, g[T \ {Pick(T)}], f[Pick(T)])
IsTable(g, p, base, f, S) == g = [T \in SUBSET S |-> Folding(g, p, base, f, T)]

Small(S, n) == {T \in SUBSET S : Cardinality(T) <= n}
IsPart(g, p, base, f, S, n) == g = [T \in Small(S, n) |-> Folding(g, p, base, f, T)]

(* What is left of a set is smaller.                                       *)
LEMMA Smaller ==
  ASSUME NEW S, IsFiniteSet(S), Picks(S), NEW T \in SUBSET S, T # {}
  PROVE  /\ Pick(T) \in T /\ T \ {Pick(T)} \in SUBSET S
         /\ IsFiniteSet(T) /\ IsFiniteSet(T \ {Pick(T)})
         /\ Cardinality(T) \in Nat /\ Cardinality(T \ {Pick(T)}) \in Nat
         /\ Cardinality(T \ {Pick(T)}) = Cardinality(T) - 1
<1>1. Pick(T) \in T
  BY DEF Picks
<1>2. IsFiniteSet(T)
  BY FS_Subset
<1>3. /\ IsFiniteSet(T \ {Pick(T)})
      /\ Cardinality(T \ {Pick(T)}) = Cardinality(T) - 1
  BY <1>1, <1>2, FS_RemoveElement
<1>4. Cardinality(T) \in Nat /\ Cardinality(T \ {Pick(T)}) \in Nat
  BY <1>2, <1>3, FS_CardinalityType
<1>5. QED
  BY <1>1, <1>2, <1>3, <1>4

(* A table of the smaller sets gives one of those with one element more.   *)
LEMMA PartGrows ==
  ASSUME NEW S, IsFiniteSet(S), Picks(S), NEW p, NEW base, NEW f, NEW n \in Nat,
         NEW g, IsPart(g, p, base, f, S, n)
  PROVE  \E h : IsPart(h, p, base, f, S, n + 1)
<1> DEFINE h == [T \in Small(S, n + 1) |-> Folding(g, p, base, f, T)]
<1>1. \A T \in Small(S, n) : g[T] = Folding(g, p, base, f, T)
  BY DEF IsPart
<1>2. \A T \in Small(S, n) : T \in Small(S, n + 1)
  <2>1. ASSUME NEW T \in Small(S, n) PROVE T \in Small(S, n + 1)
    <3>1. T \in SUBSET S /\ Cardinality(T) <= n
      BY DEF Small
    <3>2. Cardinality(T) \in Nat
      BY <3>1, FS_Subset, FS_CardinalityType
    <3>3. QED
      BY <3>1, <3>2 DEF Small
  <2>2. QED
    BY <2>1
<1>3. \A T \in Small(S, n) : h[T] = g[T]
  BY <1>1, <1>2
<1>4. ASSUME NEW T \in Small(S, n + 1), T # {} PROVE T \ {Pick(T)} \in Small(S, n)
  <2>1. T \in SUBSET S /\ Cardinality(T) <= n + 1
    BY DEF Small
  <2>2. /\ T \ {Pick(T)} \in SUBSET S
        /\ Cardinality(T) \in Nat /\ Cardinality(T \ {Pick(T)}) = Cardinality(T) - 1
    BY <1>4, <2>1, Smaller
  <2>3. QED
    BY <2>1, <2>2 DEF Small
<1>5. \A T \in Small(S, n + 1) : h[T] = Folding(g, p, base, f, T)
  OBVIOUS
<1>6. h = [T \in Small(S, n + 1) |-> h[T]]
  OBVIOUS
<1> HIDE DEF h
<1>7. ASSUME NEW T \in Small(S, n + 1) PROVE h[T] = Folding(h, p, base, f, T)
  <2>1. CASE T = {}
    BY <1>5, <2>1 DEF Folding
  <2>2. CASE T # {}
    <3>1. h[T \ {Pick(T)}] = g[T \ {Pick(T)}]
      BY <1>3, <1>4, <2>2
    <3>2. QED
      BY <1>5, <2>2, <3>1 DEF Folding
  <2>3. QED
    BY <2>1, <2>2
<1>8. h = [T \in Small(S, n + 1) |-> Folding(h, p, base, f, T)]
  BY <1>6, <1>7
<1>9. QED
  BY <1>8 DEF IsPart

(* So there is one of any size, or there were a least size without.        *)
LEMMA PartExists ==
  ASSUME NEW S, IsFiniteSet(S), Picks(S), NEW p, NEW base, NEW f, NEW n \in Nat
  PROVE  \E g : IsPart(g, p, base, f, S, n)
<1> DEFINE Lacks == {m \in Nat : ~ \E g : IsPart(g, p, base, f, S, m)}
<1>1. SUFFICES ASSUME Lacks # {} PROVE FALSE
  OBVIOUS
<1>2. PICK m \in Lacks : \A k \in Lacks : m <= k
  <2>1. Lacks \in SUBSET Nat
    OBVIOUS
  <2> HIDE DEF Lacks
  <2>2. QED
    BY <1>1, <2>1, LeastExists
<1>3. CASE m = 0
  <2> DEFINE g == [T \in Small(S, 0) |-> base]
  <2>1. ASSUME NEW T \in Small(S, 0) PROVE T = {}
    <3>1. T \in SUBSET S /\ Cardinality(T) <= 0
      BY DEF Small
    <3>2. IsFiniteSet(T)
      BY <3>1, FS_Subset
    <3>3. Cardinality(T) \in Nat
      BY <3>2, FS_CardinalityType
    <3>4. Cardinality(T) = 0
      BY <3>1, <3>3
    <3>5. QED
      BY <3>2, <3>4, FS_EmptySet
  <2>2. \A T \in Small(S, 0) : Folding(g, p, base, f, T) = base
    BY <2>1 DEF Folding
  <2>3. g = [T \in Small(S, 0) |-> Folding(g, p, base, f, T)]
    <3>1. g = [T \in Small(S, 0) |-> base]
      OBVIOUS
    <3> HIDE DEF g
    <3>2. QED
      BY <2>2, <3>1
  <2>4. IsPart(g, p, base, f, S, 0)
    <3> HIDE DEF g
    <3> QED BY <2>3 DEF IsPart
  <2>5. QED
    BY <1>3, <2>4
<1>4. CASE m # 0
  <2>1. m \in Nat /\ m - 1 \in Nat /\ m = (m - 1) + 1 /\ ~(m <= m - 1)
    BY <1>4
  <2>2. \E g : IsPart(g, p, base, f, S, m - 1)
    BY <1>2, <2>1
  <2>3. \E h : IsPart(h, p, base, f, S, (m - 1) + 1)
    BY <2>1, <2>2, PartGrows
  <2>4. QED
    BY <2>1, <2>3
<1>5. QED
  BY <1>3, <1>4

(* The fold is what a table of it says.                                    *)
LEMMA FoldByTable ==
  ASSUME NEW S, IsFiniteSet(S), Picks(S), NEW p, NEW base, NEW f
  PROVE  \E g : IsTable(g, p, base, f, S) /\ FoldOf(p, base, f, S) = g[S]
<1> DEFINE g == CHOOSE h : h = [T \in SUBSET S |->
                   IF T = {} THEN base ELSE Op(p, h[T \ {Pick(T)}], f[Pick(T)])]
<1>1. FoldOf(p, base, f, S) = g[S]
  BY DEF FoldOf, MapThenFoldSet
<1>2. Cardinality(S) \in Nat
  BY FS_CardinalityType
<1>3. PICK h : IsPart(h, p, base, f, S, Cardinality(S))
  BY <1>2, PartExists
<1>4. Small(S, Cardinality(S)) = SUBSET S
  BY FS_Subset DEF Small
<1>5. h = [T \in SUBSET S |-> IF T = {} THEN base ELSE Op(p, h[T \ {Pick(T)}], f[Pick(T)])]
  BY <1>3, <1>4 DEF IsPart, Folding
<1>6. g = [T \in SUBSET S |-> IF T = {} THEN base ELSE Op(p, g[T \ {Pick(T)}], f[Pick(T)])]
  BY <1>5
<1> HIDE DEF g
<1>7. IsTable(g, p, base, f, S)
  BY <1>6 DEF IsTable, Folding
<1>8. QED
  BY <1>1, <1>7

(* Two tables agree where their functions do.                              *)
LEMMA TableSame ==
  ASSUME NEW p, NEW base,
         NEW S, IsFiniteSet(S), Picks(S), NEW f, NEW g, IsTable(g, p, base, f, S),
         NEW U \in SUBSET S, NEW k, NEW h, IsTable(h, p, base, k, U), \A x \in U : f[x] = k[x]
  PROVE  g[U] = h[U]
<1> DEFINE Bad == {Cardinality(R) : R \in {Q \in SUBSET U : g[Q] # h[Q]}}
<1>1. SUFFICES ASSUME g[U] # h[U] PROVE FALSE
  OBVIOUS
<1>2. Bad \in SUBSET Nat
  <2>1. IsFiniteSet(U)
    BY FS_Subset
  <2>2. QED
    BY <2>1, FS_Subset, FS_CardinalityType
<1>3. Cardinality(U) \in Bad
  BY <1>1
<1> HIDE DEF Bad
<1>4. PICK n \in Bad : \A m \in Bad : n <= m
  BY <1>2, <1>3, LeastExists
<1>5. PICK R \in SUBSET U : g[R] # h[R] /\ n = Cardinality(R)
  BY DEF Bad
<1>6. g[R] = Folding(g, p, base, f, R) /\ h[R] = Folding(h, p, base, k, R)
  <2>1. R \in SUBSET S
    OBVIOUS
  <2>2. QED
    BY <2>1 DEF IsTable
<1>7. R # {}
  BY <1>5, <1>6 DEF Folding
<1>8. /\ Pick(R) \in R /\ R \ {Pick(R)} \in SUBSET U
      /\ Cardinality(R) \in Nat /\ Cardinality(R \ {Pick(R)}) = Cardinality(R) - 1
  <2>1. R \in SUBSET S
    OBVIOUS
  <2>2. QED
    BY <1>7, <2>1, Smaller
<1>9. g[R \ {Pick(R)}] = h[R \ {Pick(R)}]
  <2>1. Cardinality(R \ {Pick(R)}) \notin Bad
    BY <1>4, <1>5, <1>8
  <2>2. QED
    BY <1>8, <2>1 DEF Bad
<1>10. f[Pick(R)] = k[Pick(R)]
  BY <1>8
<1>11. QED
  BY <1>5, <1>6, <1>9, <1>10 DEF Folding

-----------------------------------------------------------------------------
(* Folding a set.                                                          *)

(* A fold depends on what its function is at the elements of its set.      *)
THEOREM FoldSame ==
  ASSUME NEW S, IsFiniteSet(S), Picks(S), NEW p, NEW base, NEW f, NEW k,
         \A x \in S : f[x] = k[x]
  PROVE  FoldOf(p, base, f, S) = FoldOf(p, base, k, S)
<1>1. PICK g : IsTable(g, p, base, f, S) /\ FoldOf(p, base, f, S) = g[S]
  BY FoldByTable
<1>2. PICK h : IsTable(h, p, base, k, S) /\ FoldOf(p, base, k, S) = h[S]
  BY FoldByTable
<1>3. g[S] = h[S]
  <2>1. S \in SUBSET S
    OBVIOUS
  <2>2. QED
    BY <1>1, <1>2, <2>1, TableSame
<1>4. QED
  BY <1>1, <1>2, <1>3

(* The fold of nothing.                                                    *)
THEOREM FoldNothing ==
  ASSUME NEW p, NEW base, NEW f
  PROVE  FoldOf(p, base, f, {}) = base
<1>1. IsFiniteSet({}) /\ Picks({})
  BY FS_EmptySet DEF Picks
<1>2. PICK g : IsTable(g, p, base, f, {}) /\ FoldOf(p, base, f, {}) = g[{}]
  BY <1>1, FoldByTable
<1>3. g[{}] = base
  BY <1>2 DEF IsTable, Folding
<1>4. QED
  BY <1>2, <1>3

(* The fold of a set is that of all but one, and then that one.            *)
THEOREM FoldStep ==
  ASSUME NEW S, IsFiniteSet(S), Picks(S), S # {}, NEW p, NEW base, NEW f
  PROVE  FoldOf(p, base, f, S)
           = Op(p, FoldOf(p, base, f, S \ {Pick(S)}), f[Pick(S)])
<1> DEFINE T == S \ {Pick(S)}
<1>1. T \in SUBSET S /\ IsFiniteSet(T) /\ Picks(T)
  BY Smaller DEF Picks
<1>2. PICK g : IsTable(g, p, base, f, S) /\ FoldOf(p, base, f, S) = g[S]
  BY FoldByTable
<1>3. g[S] = Op(p, g[T], f[Pick(S)])
  <2>1. S \in SUBSET S
    OBVIOUS
  <2>2. g[S] = Folding(g, p, base, f, S)
    BY <1>2, <2>1 DEF IsTable
  <2>3. QED
    BY <2>2 DEF Folding
<1> HIDE DEF T
<1>4. PICK h : IsTable(h, p, base, f, T) /\ FoldOf(p, base, f, T) = h[T]
  BY <1>1, FoldByTable
<1>5. g[T] = h[T]
  BY <1>1, <1>2, <1>4, TableSame
<1>6. QED
  BY <1>2, <1>3, <1>4, <1>5 DEF T

(* What holds of nothing, and is kept by each element, holds of the whole.  *)
THEOREM FoldInduction ==
  ASSUME NEW S, IsFiniteSet(S), Picks(S), NEW p, NEW base, NEW f, NEW q,
         Inv(q, {}, base),
         \A T \in SUBSET S : \A a :
            T # {} /\ Inv(q, T \ {Pick(T)}, a) => Inv(q, T, Op(p, a, f[Pick(T)]))
  PROVE  Inv(q, S, FoldOf(p, base, f, S))
<1> DEFINE Bad == {Cardinality(R) : R \in {Q \in SUBSET S : ~Inv(q, Q, FoldOf(p, base, f, Q))}}
<1>1. SUFFICES ASSUME ~Inv(q, S, FoldOf(p, base, f, S)) PROVE FALSE
  OBVIOUS
<1>2. Bad \in SUBSET Nat
  BY FS_Subset, FS_CardinalityType
<1>3. Cardinality(S) \in Bad
  <2>1. S \in SUBSET S
    OBVIOUS
  <2>2. QED
    BY <1>1, <2>1
<1> HIDE DEF Bad
<1>4. PICK n \in Bad : \A m \in Bad : n <= m
  BY <1>2, <1>3, LeastExists
<1>5. PICK R \in SUBSET S : ~Inv(q, R, FoldOf(p, base, f, R)) /\ n = Cardinality(R)
  BY DEF Bad
<1>6. R # {}
  <2>1. FoldOf(p, base, f, {}) = base
    BY FoldNothing
  <2>2. QED
    BY <1>5, <2>1
<1> DEFINE P == R \ {Pick(R)}
<1>7. /\ P \in SUBSET S /\ Picks(R) /\ IsFiniteSet(R)
      /\ Cardinality(R) \in Nat /\ Cardinality(P) = Cardinality(R) - 1
  BY <1>6, Smaller DEF Picks
<1>8. FoldOf(p, base, f, R) = Op(p, FoldOf(p, base, f, P), f[Pick(R)])
  BY <1>6, <1>7, FoldStep
<1>9. Inv(q, P, FoldOf(p, base, f, P))
  <2>1. Cardinality(P) \notin Bad
    BY <1>4, <1>5, <1>7
  <2> HIDE DEF P
  <2>2. QED
    BY <1>7, <2>1 DEF Bad
<1>10. QED
  BY <1>5, <1>6, <1>8, <1>9

(* The order of two elements does not matter to a result in A.              *)
Commutes(p, base, f, S, A) ==
  /\ base \in A
  /\ \A x \in S, a \in A : Op(p, a, f[x]) \in A
  /\ \A x, y \in S, a \in A : Op(p, Op(p, a, f[x]), f[y]) = Op(p, Op(p, a, f[y]), f[x])

(* When no order matters, any element may be the last one.                 *)
THEOREM FoldTake ==
  ASSUME NEW S, IsFiniteSet(S), Picks(S), NEW p, NEW base, NEW A, NEW f,
         Commutes(p, base, f, S, A)
  PROVE  /\ FoldOf(p, base, f, S) \in A
         /\ \A x \in S : FoldOf(p, base, f, S) = Op(p, FoldOf(p, base, f, S \ {x}), f[x])
<1> DEFINE F(T) == FoldOf(p, base, f, T)
           Good(T) == F(T) \in A /\ \A y \in T : F(T) = Op(p, F(T \ {y}), f[y])
           Bad == {Cardinality(R) : R \in {Q \in SUBSET S : ~Good(Q)}}
<1> HIDE DEF Good
<1>1. SUFFICES ASSUME ~Good(S) PROVE FALSE
  BY DEF Good
<1> USE DEF Commutes
<1>2. Bad \in SUBSET Nat
  BY FS_Subset, FS_CardinalityType
<1>3. Cardinality(S) \in Bad
  <2>1. S \in SUBSET S
    OBVIOUS
  <2>2. QED
    BY <1>1, <2>1
<1> HIDE DEF Bad
<1>4. PICK n \in Bad : \A m \in Bad : n <= m
  BY <1>2, <1>3, LeastExists
<1>5. PICK R \in SUBSET S : ~Good(R) /\ n = Cardinality(R)
  BY DEF Bad
<1>6. ASSUME NEW y \in R PROVE R \ {y} \in SUBSET S /\ Good(R \ {y})
  <2>1. IsFiniteSet(R)
    BY FS_Subset
  <2>2. Cardinality(R) \in Nat /\ Cardinality(R \ {y}) = Cardinality(R) - 1
    BY <2>1, FS_RemoveElement, FS_CardinalityType
  <2>3. Cardinality(R \ {y}) \notin Bad
    BY <1>4, <1>5, <2>2
  <2>4. QED
    BY <2>3 DEF Bad
<1>7. R # {}
  <2>1. F({}) = base
    BY FoldNothing
  <2>2. Good({})
    BY <2>1 DEF Good
  <2>3. QED
    BY <1>5, <2>2
<1> DEFINE z == Pick(R)
<1>8. z \in R /\ F(R) = Op(p, F(R \ {z}), f[z])
  <2>1. z \in R /\ Picks(R) /\ IsFiniteSet(R)
    BY <1>7, Smaller DEF Picks
  <2>2. QED
    BY <1>7, <2>1, FoldStep
<1> HIDE DEF z, F
<1>9. F(R) \in A
  BY <1>6, <1>8 DEF Good
<1>10. ASSUME NEW y \in R PROVE F(R) = Op(p, F(R \ {y}), f[y])
  <2>1. CASE y = z
    BY <1>8, <2>1
  <2>2. CASE y # z
    <3> DEFINE Q == (R \ {z}) \ {y}
    <3>1. Q = (R \ {y}) \ {z} /\ Q \in SUBSET S /\ y \in R \ {z} /\ z \in R \ {y}
      BY <1>8, <2>2
    <3>2. F(R \ {z}) = Op(p, F(Q), f[y]) /\ F(R \ {y}) = Op(p, F(Q), f[z])
      BY <1>6, <1>8, <3>1 DEF Good
    <3>3. F(Q) \in A
      <4>1. Q = R \ {z, y} /\ IsFiniteSet(R) /\ z \in R
        BY <1>8, FS_Subset
      <4>2. Cardinality(R) \in Nat /\ Cardinality(R \ {z}) = Cardinality(R) - 1
            /\ IsFiniteSet(R \ {z})
        BY <4>1, FS_RemoveElement, FS_CardinalityType
      <4>3. Cardinality(Q) = Cardinality(R \ {z}) - 1
        BY <3>1, <4>2, FS_RemoveElement
      <4>4. Cardinality(Q) \notin Bad
        <5> HIDE DEF Q
        <5> QED BY <1>4, <1>5, <4>2, <4>3
      <4> HIDE DEF Q
      <4>5. Good(Q)
        BY <3>1, <4>4 DEF Bad
      <4>6. QED
        BY <4>5 DEF Good
    <3> HIDE DEF Q
    <3>4. Op(p, Op(p, F(Q), f[y]), f[z]) = Op(p, Op(p, F(Q), f[z]), f[y])
      BY <1>8, <3>3
    <3>5. QED
      BY <1>8, <3>2, <3>4
  <2>3. QED
    BY <2>1, <2>2
<1>11. QED
  BY <1>5, <1>9, <1>10 DEF Good

-----------------------------------------------------------------------------
(* Folding a sequence.                                                     *)

(* The fold of the empty sequence.                                         *)
THEOREM FoldEmpty ==
  ASSUME NEW p, NEW base
  PROVE  Folded(p, base, <<>>) = base
<1>1. DOMAIN <<>> = {}
  OBVIOUS
<1>2. QED
  BY <1>1, FoldNothing DEF Folded

(* The last element is folded last.                                        *)
THEOREM FoldAppend ==
  ASSUME PicksLast, NEW X, NEW s \in Seq(X), NEW x \in X, NEW p, NEW base
  PROVE  Folded(p, base, Append(s, x)) = Op(p, Folded(p, base, s), x)
<1> DEFINE t == Append(s, x)
           n == Len(s) + 1
<1>1. /\ n \in Nat \ {0} /\ DOMAIN s = 1..(n - 1) /\ DOMAIN t = 1..n
      /\ t[n] = x /\ \A i \in 1..(n - 1) : t[i] = s[i]
  OBVIOUS
<1> HIDE DEF t, n
<1>2. Picks(1..n) /\ Pick(1..n) = n
  BY <1>1 DEF PicksLast
<1>a. 1..n # {} /\ (1..n) \ {n} = 1..(n - 1) /\ n \in Int /\ n - 1 \in Int /\ 1 \in Int
  <2>1. n \in Nat \ {0}
    BY <1>1
  <2>2. n \in Int /\ n - 1 \in Int /\ 1 \in Int /\ n \in 1..n
    BY <2>1
  <2>3. \A i \in Int : i \in 1..n /\ i # n <=> i \in 1..(n - 1)
    BY <2>1
  <2>4. (1..n) \ {n} \subseteq 1..(n - 1)
    BY <2>1, <2>3
  <2>5. 1..(n - 1) \subseteq (1..n) \ {n}
    BY <2>1, <2>3
  <2>6. QED
    BY <2>2, <2>4, <2>5
<1>3. IsFiniteSet(1..n) /\ IsFiniteSet(1..(n - 1)) /\ Picks(1..(n - 1))
  <2>1. IsFiniteSet(1..n) /\ IsFiniteSet(1..(n - 1))
    BY <1>a, FS_Interval
  <2>2. 1..(n - 1) \subseteq 1..n
    BY <1>a
  <2>3. QED
    BY <1>2, <2>1, <2>2 DEF Picks
<1>4. FoldOf(p, base, t, 1..n) = Op(p, FoldOf(p, base, t, 1..(n - 1)), t[n])
  BY <1>2, <1>3, <1>a, FoldStep
<1>5. FoldOf(p, base, t, 1..(n - 1)) = FoldOf(p, base, s, 1..(n - 1))
  BY <1>1, <1>3, FoldSame
<1>6. QED
  BY <1>1, <1>4, <1>5 DEF Folded, t

(* What holds at the start, and is kept by each element, holds at the end.  *)
THEOREM SeqInduction ==
  ASSUME PicksLast, NEW X, NEW p, NEW base, NEW q,
         Inv(q, <<>>, base),
         \A s \in Seq(X), x \in X : \A a : Inv(q, s, a) => Inv(q, Append(s, x), Op(p, a, x))
  PROVE  \A s \in Seq(X) : Inv(q, s, Folded(p, base, s))
<1> DEFINE Bad == {Len(s) : s \in {t \in Seq(X) : ~Inv(q, t, Folded(p, base, t))}}
<1>1. SUFFICES ASSUME Bad # {} PROVE FALSE
  OBVIOUS
<1>2. Bad \in SUBSET Nat
  OBVIOUS
<1> HIDE DEF Bad
<1>3. PICK n \in Bad : \A m \in Bad : n <= m
  BY <1>1, <1>2, LeastExists
<1>4. PICK s \in Seq(X) : ~Inv(q, s, Folded(p, base, s)) /\ n = Len(s)
  BY <1>3 DEF Bad
<1>5. s # <<>>
  BY <1>4, FoldEmpty
<1> DEFINE r == SubSeq(s, 1, Len(s) - 1)
           x == s[Len(s)]
<1>6. r \in Seq(X) /\ x \in X /\ Len(r) = Len(s) - 1 /\ Append(r, x) = s
  <2>1. Len(s) \in Nat \ {0} /\ DOMAIN s = 1..Len(s) /\ s = [i \in 1..Len(s) |-> s[i]]
    BY <1>5
  <2>2. x \in X /\ r \in Seq(X) /\ Len(r) = Len(s) - 1
    BY <2>1
  <2>3. \A i \in 1..(Len(s) - 1) : r[i] = s[i]
    BY <2>1
  <2> HIDE DEF r
  <2>4. /\ Append(r, x) \in Seq(X) /\ Len(Append(r, x)) = Len(s)
        /\ \A i \in 1..Len(s) : Append(r, x)[i] = s[i]
    <3>1. x = s[Len(s)]
      OBVIOUS
    <3> HIDE DEF x
    <3>2. Append(r, x) \in Seq(X) /\ Len(Append(r, x)) = Len(r) + 1
      BY <2>2
    <3>3. ASSUME NEW i \in 1..Len(s) PROVE Append(r, x)[i] = s[i]
      <4>1. CASE i = Len(s)
        BY <2>1, <2>2, <3>1, <4>1
      <4>2. CASE i # Len(s)
        <5>1. i \in 1..(Len(s) - 1) /\ i \in 1..Len(r)
          BY <2>1, <2>2, <4>2
        <5>2. QED
          BY <2>2, <2>3, <5>1
      <4>3. QED
        BY <4>1, <4>2
    <3>4. QED
      BY <2>1, <2>2, <3>2, <3>3
  <2> HIDE DEF x
  <2>5. QED
    <3>1. Append(r, x) = s
      <4> DEFINE t == Append(r, x)
      <4>1. t \in Seq(X) /\ Len(t) = Len(s) /\ \A i \in 1..Len(s) : t[i] = s[i]
        BY <2>4
      <4> HIDE DEF t
      <4>2. t = s
        BY <4>1
      <4> QED BY <4>2 DEF t
    <3>2. QED
      BY <2>2, <3>1
<1> HIDE DEF r, x
<1>7. Inv(q, r, Folded(p, base, r))
  <2>1. Len(r) \notin Bad
    BY <1>3, <1>4, <1>6
  <2>2. QED
    BY <1>6, <2>1 DEF Bad
<1>8. Folded(p, base, s) = Op(p, Folded(p, base, r), x)
  BY <1>6, FoldAppend
<1>9. QED
  BY <1>4, <1>6, <1>7, <1>8
=============================================================================
