----------------------------- MODULE SumProofs -----------------------------
(***************************************************************************)
(* Numbers, finite sets and sums: what the proofs about different          *)
(* components share.  A sum is over a finite family in any commutative     *)
(* monoid; it is a function defined by recursion on the subsets, of which  *)
(* there is one by the least number of elements at which it could fail.    *)
(***************************************************************************)
EXTENDS Integers, FiniteSets, FiniteSetTheorems, TLAPS

-----------------------------------------------------------------------------
(* Numbers.                                                                *)

LEMMA Least ==
  ASSUME NEW T \in SUBSET Nat, T # {}
  PROVE  \E m \in T : \A n \in T : m <= n
<1>1. PICK m \in T : \A n \in T : ~(<<n, m>> \in OpToRel(<, Nat))
  BY WFMin, NatLessThanWellFounded
<1>2. \A n \in T : ~(n < m)
  BY <1>1 DEF OpToRel
<1>. QED  BY <1>2

LEMMA Division ==
  ASSUME NEW a \in Nat, NEW b \in Nat, b > 0
  PROVE  /\ a \div b \in Nat /\ a % b \in 0 .. b - 1
         /\ a = b * (a \div b) + (a % b)
  BY Z3

\* Quotient and remainder are determined.
LEMMA DivisionIs ==
  ASSUME NEW a \in Int, NEW b \in Nat, b > 0, NEW k \in Int, NEW r \in 0 .. b - 1,
         a = b * k + r
  PROVE  a % b = r /\ a \div b = k
  BY Z3

\* A power of two counts the subsets.
LEMMA Subsets ==
  ASSUME NEW n \in Nat
  PROVE  IsFiniteSet(SUBSET (1 .. n)) /\ Cardinality(SUBSET (1 .. n)) = 2^n
<1>1. IsFiniteSet(1 .. n) /\ Cardinality(1 .. n) = n
  BY FS_Interval
<1>. QED  BY <1>1, FS_SUBSET

LEMMA PowerType ==
  ASSUME NEW n \in Nat
  PROVE  2^n \in Nat /\ 2^n > 0
<1>. DEFINE S == SUBSET (1 .. n)
<1>1. IsFiniteSet(S) /\ Cardinality(S) = 2^n /\ S # {}
  BY Subsets
<1>. HIDE DEF S
<1>2. Cardinality(S) \in Nat /\ Cardinality(S) # 0
  BY <1>1, FS_CardinalityType, FS_EmptySet
<1>. QED  BY <1>1, <1>2

\* The subsets with n + 1 and those without it.
LEMMA PowerDoubles ==
  ASSUME NEW n \in Nat
  PROVE  2^(n + 1) = 2 * 2^n
<1>. DEFINE A == SUBSET (1 .. n)
            B == {s \in SUBSET (1 .. n + 1) : n + 1 \in s}
            f == [s \in A |-> s \cup {n + 1}]
<1>1. IsFiniteSet(A) /\ Cardinality(A) = 2^n
  BY Subsets
<1>2. 1 .. n + 1 = (1 .. n) \cup {n + 1} /\ n + 1 \notin 1 .. n
  OBVIOUS
<1>3. A \cup B = SUBSET (1 .. n + 1) /\ A \cap B = {}
  BY <1>2, Zenon
<1>4. \A s \in A : f[s] \in B
  BY <1>2
<1>5. \A s \in A, t \in A : f[s] = f[t] => s = t
  <2>1. ASSUME NEW s \in A, NEW t \in A, s \cup {n + 1} = t \cup {n + 1}
        PROVE  s = t
    BY <1>2, <2>1, Zenon
  <2>. QED  BY <2>1
<1>6. \A t \in B : \E s \in A : f[s] = t
  <2>1. ASSUME NEW t \in B
        PROVE  t \ {n + 1} \in A /\ (t \ {n + 1}) \cup {n + 1} = t
    BY <1>2
  <2>. QED  BY <2>1
<1>7. f \in Bijection(A, B)
  <2>1. f \in [A -> B]
    BY <1>4
  <2>. HIDE DEF f, A, B
  <2>2. f \in Injection(A, B)
    BY <1>5, <2>1 DEF Injection, IsInjective
  <2>3. f \in Surjection(A, B)
    BY <1>6, <2>1 DEF Surjection
  <2>. QED  BY <2>2, <2>3 DEF Bijection
<1>. HIDE DEF A, B, f
<1>8. IsFiniteSet(B) /\ Cardinality(B) = 2^n
  BY <1>1, <1>7, FS_Bijection DEF ExistsBijection
<1>9. Cardinality(A \cup B) = 2^n + 2^n - 0
  BY <1>1, <1>3, <1>8, FS_Union, FS_EmptySet
<1>10. Cardinality(SUBSET (1 .. n + 1)) = 2^(n + 1)
  <2>1. n + 1 \in Nat
    OBVIOUS
  <2>. QED  BY <2>1, Subsets
<1>11. 2^(n + 1) = Cardinality(A \cup B)
  BY <1>3, <1>10
<1>12. 2^n \in Nat
  BY PowerType
<1>. QED  BY <1>9, <1>11, <1>12

\* Powers of two grow.
LEMMA PowersGrow ==
  ASSUME NEW m \in Nat, NEW n \in Nat, m <= n
  PROVE  2^m <= 2^n
<1>. DEFINE T == {k \in Nat : k >= m /\ 2^k < 2^m}
<1>1. SUFFICES ASSUME T # {} PROVE FALSE
  BY PowerType
<1>2. PICK k \in T : \A x \in T : k <= x
  BY <1>1, Least
<1>3. k # m
  BY <1>2, PowerType
<1>4. k - 1 \in Nat /\ k - 1 >= m /\ k - 1 \notin T
  BY <1>2, <1>3
<1>5. 2^(k - 1) >= 2^m /\ 2^(k - 1) \in Nat /\ 2^m \in Nat /\ 2^k \in Nat
  BY <1>4, PowerType
<1>6. 2^((k - 1) + 1) = 2 * 2^(k - 1) /\ (k - 1) + 1 = k
  BY <1>4, PowerDoubles
<1>. QED  BY <1>2, <1>5, <1>6

-----------------------------------------------------------------------------
(* Sums over finite sets, in any commutative monoid.                       *)

\* A family of subsets of S with the empty set, and with each set also that set
\* and one element more, has S.
LEMMA Grown ==
  ASSUME NEW S, IsFiniteSet(S), NEW X \in SUBSET SUBSET S, {} \in X,
         \A t \in X : \A a \in S \ t : t \cup {a} \in X
  PROVE  S \in X
<1>. DEFINE T == {Cardinality(s) : s \in (SUBSET S) \ X}
<1>1. \A s \in SUBSET S : IsFiniteSet(s) /\ Cardinality(s) \in Nat
  BY FS_Subset, FS_CardinalityType
<1>2. SUFFICES ASSUME S \notin X PROVE FALSE
  OBVIOUS
<1>3. PICK n \in T : \A m \in T : n <= m
  <2>1. T \in SUBSET Nat
    BY <1>1
  <2>2. T # {}
    BY <1>2
  <2>. HIDE DEF T
  <2>. QED  BY <2>1, <2>2, Least
<1>4. PICK s \in (SUBSET S) \ X : Cardinality(s) = n
  BY <1>3
<1>5. PICK a \in s : TRUE
  BY <1>4
<1>. DEFINE t == s \ {a}
<1>6. t \in SUBSET S /\ Cardinality(t) = Cardinality(s) - 1 /\ Cardinality(s) \in Nat
  BY <1>1, <1>5, FS_RemoveElement
<1>7. t \in X
  <2>1. SUFFICES ASSUME t \notin X PROVE FALSE
    OBVIOUS
  <2>2. Cardinality(t) \in T
    BY <1>6, <2>1
  <2>. HIDE DEF t, T
  <2>3. n <= Cardinality(t)
    BY <1>3, <2>2
  <2>. QED  BY <1>4, <1>6, <2>3
<1>8. t \cup {a} = s /\ a \in S \ t
  BY <1>5
<1>. QED  BY <1>7, <1>8

-----------------------------------------------------------------------------
(* Sums in a commutative monoid.                                           *)

IsMonoid(G, P, e) ==
  /\ P \in [G \X G -> G] /\ e \in G
  /\ \A x \in G : P[<<e, x>>] = x
  /\ \A x, y \in G : P[<<x, y>>] = P[<<y, x>>]
  /\ \A x, y, u \in G : P[<<x, P[<<y, u>>]>>] = P[<<P[<<x, y>>], u>>]

Pick(s) == CHOOSE x \in s : TRUE

FoldsOn(F, P, e, f, h) ==
  \A s \in F : h[s] = IF s = {} THEN e ELSE P[<<f[Pick(s)], h[s \ {Pick(s)}]>>]

IsFold(P, e, f, h) ==
  h = [s \in SUBSET DOMAIN f |-> IF s = {} THEN e ELSE P[<<f[Pick(s)], h[s \ {Pick(s)}]>>]]

SumOf(P, e, f) == (CHOOSE h : IsFold(P, e, f, h))[DOMAIN f]

UpTo(S, n) == {s \in SUBSET S : Cardinality(s) <= n}

LEMMA PickedOut ==
  ASSUME NEW S, IsFiniteSet(S), NEW s \in SUBSET S, s # {}
  PROVE  /\ Pick(s) \in s /\ s \ {Pick(s)} \in SUBSET S
         /\ Cardinality(s) \in Nat \ {0} /\ Cardinality(s \ {Pick(s)}) = Cardinality(s) - 1
<1>1. Pick(s) \in s
  BY DEF Pick
<1>2. IsFiniteSet(s)
  BY FS_Subset
<1>3. Cardinality(s) \in Nat /\ Cardinality(s) # 0
  BY <1>2, FS_CardinalityType, FS_EmptySet
<1>. QED  BY <1>1, <1>2, <1>3, FS_RemoveElement

LEMMA FoldsUpTo ==
  ASSUME NEW G, NEW P, NEW e, IsMonoid(G, P, e), NEW S, IsFiniteSet(S), NEW f \in [S -> G]
  PROVE  \A n \in Nat : \E h \in [UpTo(S, n) -> G] : FoldsOn(UpTo(S, n), P, e, f, h)
<1>. DEFINE Good(n) == \E h \in [UpTo(S, n) -> G] : FoldsOn(UpTo(S, n), P, e, f, h)
            T == {n \in Nat : ~Good(n)}
<1>1. SUFFICES ASSUME T # {} PROVE FALSE
  OBVIOUS
<1>2. PICK n \in T : \A m \in T : n <= m
  BY <1>1, Least
<1>e. e \in G
  BY DEF IsMonoid
<1>3. CASE n = 0
  <2>. DEFINE h == [s \in UpTo(S, 0) |-> e]
  <2>1. \A s \in UpTo(S, 0) : s = {}
    <3>1. ASSUME NEW s \in SUBSET S, Cardinality(s) <= 0, s # {} PROVE FALSE
      <4>1. Cardinality(s) \in Nat \ {0}
        BY <3>1, PickedOut
      <4>. QED  BY <3>1, <4>1
    <3>. QED  BY <3>1 DEF UpTo
  <2>2. h \in [UpTo(S, 0) -> G] /\ FoldsOn(UpTo(S, 0), P, e, f, h)
    BY <1>e, <2>1 DEF FoldsOn
  <2>3. Good(0)
    <3>. HIDE DEF h
    <3>. QED  BY <2>2
  <2>. QED  BY <1>3, <2>3
<1>4. CASE n # 0
  <2>1. n - 1 \in Nat /\ n - 1 \notin T
    BY <1>2, <1>4
  <2>2. PICK g \in [UpTo(S, n - 1) -> G] : FoldsOn(UpTo(S, n - 1), P, e, f, g)
    BY <2>1
  <2>. DEFINE h == [s \in UpTo(S, n) |-> IF s = {} THEN e ELSE P[<<f[Pick(s)], g[s \ {Pick(s)}]>>]]
  <2>3. \A s \in UpTo(S, n) : s # {} => f[Pick(s)] \in G /\ s \ {Pick(s)} \in UpTo(S, n - 1)
    BY PickedOut DEF UpTo
  <2>4. h \in [UpTo(S, n) -> G]
    <3>1. ASSUME NEW s \in UpTo(S, n), s # {}
          PROVE  P[<<f[Pick(s)], g[s \ {Pick(s)}]>>] \in G
      <4>1. f[Pick(s)] \in G /\ g[s \ {Pick(s)}] \in G
        BY <2>2, <2>3, <3>1
      <4>. QED  BY <4>1 DEF IsMonoid
    <3>. QED  BY <1>e, <3>1
  <2>5. UpTo(S, n - 1) \subseteq UpTo(S, n)
    <3>1. \A s \in SUBSET S : Cardinality(s) \in Nat
      BY FS_Subset, FS_CardinalityType
    <3>. QED  BY <3>1 DEF UpTo
  <2>6. \A s \in UpTo(S, n - 1) : h[s] = g[s]
    BY <2>2, <2>5 DEF FoldsOn
  <2>7. FoldsOn(UpTo(S, n), P, e, f, h)
    BY <2>3, <2>6 DEF FoldsOn
  <2>8. Good(n)
    <3>. HIDE DEF h
    <3>. QED  BY <2>4, <2>7
  <2>. QED  BY <2>8
<1>. QED  BY <1>3, <1>4

\* The fold is defined, and in the monoid.
LEMMA FoldExists ==
  ASSUME NEW G, NEW P, NEW e, IsMonoid(G, P, e), NEW S, IsFiniteSet(S), NEW f \in [S -> G]
  PROVE  \E h : IsFold(P, e, f, h)
<1>1. Cardinality(S) \in Nat
  BY FS_CardinalityType
<1>2. UpTo(S, Cardinality(S)) = SUBSET S
  BY FS_Subset DEF UpTo
<1>3. PICK h \in [SUBSET S -> G] : FoldsOn(SUBSET S, P, e, f, h)
  <2>1. \E h \in [UpTo(S, Cardinality(S)) -> G] : FoldsOn(UpTo(S, Cardinality(S)), P, e, f, h)
    BY <1>1, FoldsUpTo
  <2>. QED  BY <1>2, <2>1
<1>4. IsFold(P, e, f, h)
  <2>. DEFINE k == [s \in SUBSET DOMAIN f |-> IF s = {} THEN e ELSE P[<<f[Pick(s)], h[s \ {Pick(s)}]>>]]
  <2>1. \A s \in SUBSET S : h[s] = k[s]
    BY <1>3 DEF FoldsOn
  <2>2. h = k
    BY <2>1
  <2>. QED  BY <2>2 DEF IsFold
<1>. QED  BY <1>4

LEMMA FoldsInside ==
  ASSUME NEW G, NEW P, NEW e, IsMonoid(G, P, e), NEW S, IsFiniteSet(S), NEW f \in [S -> G],
         NEW h, FoldsOn(SUBSET S, P, e, f, h)
  PROVE  \A s \in SUBSET S : h[s] \in G
<1>. DEFINE Good(n) == \A s \in SUBSET S : Cardinality(s) = n => h[s] \in G
            T == {n \in Nat : ~Good(n)}
<1>1. SUFFICES ASSUME T # {} PROVE FALSE
  BY FS_Subset, FS_CardinalityType
<1>2. PICK n \in T : \A m \in T : n <= m
  BY <1>1, Least
<1>3. PICK s \in SUBSET S : Cardinality(s) = n /\ h[s] \notin G
  BY <1>2
<1>4. s # {}
  BY <1>3 DEF FoldsOn, IsMonoid
<1>5. /\ Pick(s) \in S /\ s \ {Pick(s)} \in SUBSET S
      /\ n \in Nat \ {0} /\ Cardinality(s \ {Pick(s)}) = n - 1
  BY <1>3, <1>4, PickedOut
<1>6. n - 1 \in Nat /\ n - 1 \notin T
  BY <1>2, <1>5
<1>7. f[Pick(s)] \in G /\ h[s \ {Pick(s)}] \in G
  BY <1>5, <1>6
<1>8. h[s] = P[<<f[Pick(s)], h[s \ {Pick(s)}]>>]
  BY <1>4 DEF FoldsOn
<1>9. h[s] \in G
  BY <1>7, <1>8 DEF IsMonoid
<1>. QED  BY <1>3, <1>9

\* The order in which elements are taken does not matter.
LEMMA FoldsTakeOut ==
  ASSUME NEW G, NEW P, NEW e, IsMonoid(G, P, e), NEW S, IsFiniteSet(S), NEW f \in [S -> G],
         NEW h, FoldsOn(SUBSET S, P, e, f, h)
  PROVE  \A s \in SUBSET S : \A x \in s : h[s] = P[<<f[x], h[s \ {x}]>>]
<1>. DEFINE Good(n) == \A s \in SUBSET S : Cardinality(s) = n =>
                         \A x \in s : h[s] = P[<<f[x], h[s \ {x}]>>]
            T == {n \in Nat : ~Good(n)}
<1>1. SUFFICES ASSUME T # {} PROVE FALSE
  BY FS_Subset, FS_CardinalityType
<1>2. PICK n \in T : \A m \in T : n <= m
  BY <1>1, Least
<1>3. PICK s \in SUBSET S : Cardinality(s) = n /\ ~\A x \in s : h[s] = P[<<f[x], h[s \ {x}]>>]
  BY <1>2
<1>4. PICK x \in s : h[s] # P[<<f[x], h[s \ {x}]>>]
  BY <1>3
<1>. DEFINE y == Pick(s)
<1>5. /\ y \in s /\ n \in Nat \ {0}
  BY <1>3, <1>4, PickedOut
<1>6. h[s] = P[<<f[y], h[s \ {y}]>>]
  BY <1>4 DEF FoldsOn
<1>. HIDE DEF y
<1>7. x # y
  BY <1>4, <1>6
<1>8. n - 1 \in Nat /\ n - 1 \notin T
  BY <1>2, <1>5
<1>9. \A v \in s : Cardinality(s \ {v}) = n - 1
  <2>1. IsFiniteSet(s)
    BY FS_Subset
  <2>. QED  BY <1>3, <2>1, FS_RemoveElement
<1>. DEFINE rest == h[(s \ {y}) \ {x}]
<1>10. h[s \ {y}] = P[<<f[x], rest>>]
  BY <1>5, <1>7, <1>8, <1>9
<1>11. h[s \ {x}] = P[<<f[y], rest>>]
  <2>1. (s \ {x}) \ {y} = (s \ {y}) \ {x}
    OBVIOUS
  <2>2. h[s \ {x}] = P[<<f[y], h[(s \ {x}) \ {y}]>>]
    BY <1>5, <1>7, <1>8, <1>9
  <2>. QED  BY <2>1, <2>2
<1>12. f[x] \in G /\ f[y] \in G /\ rest \in G
  BY <1>5, FoldsInside
<1>. HIDE DEF rest
<1>13. P[<<f[y], P[<<f[x], rest>>]>>] = P[<<f[x], P[<<f[y], rest>>]>>]
  <2>. DEFINE a == f[x]
              b == f[y]
  <2>1. a \in G /\ b \in G /\ rest \in G
    BY <1>12
  <2>. HIDE DEF a, b
  <2>2. P[<<b, P[<<a, rest>>]>>] = P[<<P[<<b, a>>], rest>>]
    BY <2>1 DEF IsMonoid
  <2>3. P[<<a, P[<<b, rest>>]>>] = P[<<P[<<a, b>>], rest>>]
    BY <2>1 DEF IsMonoid
  <2>4. P[<<a, b>>] = P[<<b, a>>]
    BY <2>1 DEF IsMonoid
  <2>. QED  BY <2>2, <2>3, <2>4 DEF a, b
<1>. QED  BY <1>4, <1>6, <1>10, <1>11, <1>13

Part(f, s) == [x \in s |-> f[x]]

\* What a fold is on a subset is the sum of the part of f there.
LEMMA FoldIsSum ==
  ASSUME NEW G, NEW P, NEW e, IsMonoid(G, P, e), NEW S, IsFiniteSet(S), NEW f \in [S -> G],
         NEW s \in SUBSET S
  PROVE  \A h : IsFold(P, e, f, h) => h[s] = SumOf(P, e, Part(f, s))
<1>. SUFFICES ASSUME NEW h, IsFold(P, e, f, h) PROVE h[s] = SumOf(P, e, Part(f, s))
  OBVIOUS
<1>h. \A u \in SUBSET S : \A x \in u : h[u] = P[<<f[x], h[u \ {x}]>>]
  <2>1. \A t \in SUBSET DOMAIN f : h[t] = IF t = {} THEN e ELSE P[<<f[Pick(t)], h[t \ {Pick(t)}]>>]
    BY DEF IsFold
  <2>2. FoldsOn(SUBSET S, P, e, f, h)
    BY <2>1 DEF FoldsOn
  <2>. QED  BY <2>2, FoldsTakeOut
<1>. DEFINE p == Part(f, s)
<1>0. IsFiniteSet(s)
  BY FS_Subset
<1>1. p \in [s -> G] /\ DOMAIN p = s /\ \A x \in s : p[x] = f[x]
  BY DEF Part
<1>. HIDE DEF p
<1>2. PICK k : IsFold(P, e, p, k) /\ SumOf(P, e, p) = k[s]
  <2>1. \E k : IsFold(P, e, p, k)
    BY <1>0, <1>1, FoldExists
  <2>2. IsFold(P, e, p, CHOOSE k : IsFold(P, e, p, k))
    BY <2>1, Zenon
  <2>. QED  BY <1>1, <2>2 DEF SumOf
<1>. DEFINE X == {t \in SUBSET s : h[t] = k[t]}
<1>3. FoldsOn(SUBSET S, P, e, f, h) /\ FoldsOn(SUBSET s, P, e, p, k)
  <2>1. \A t \in SUBSET DOMAIN f : h[t] = IF t = {} THEN e ELSE P[<<f[Pick(t)], h[t \ {Pick(t)}]>>]
    BY DEF IsFold
  <2>2. \A t \in SUBSET DOMAIN p : k[t] = IF t = {} THEN e ELSE P[<<p[Pick(t)], k[t \ {Pick(t)}]>>]
    BY <1>2 DEF IsFold
  <2>. QED  BY <1>1, <2>1, <2>2 DEF FoldsOn
<1>4. {} \in X
  BY <1>3 DEF FoldsOn
<1>5. ASSUME NEW t \in X, NEW a \in s \ t PROVE t \cup {a} \in X
  <2>. DEFINE u == t \cup {a}
  <2>0. u \in SUBSET S /\ u \in SUBSET s /\ a \in u
    OBVIOUS
  <2>. HIDE DEF u
  <2>1. h[u] = P[<<f[a], h[u \ {a}]>>]
    BY <1>h, <2>0
  <2>2. k[u] = P[<<p[a], k[u \ {a}]>>]
    <3>1. \A v \in SUBSET s : \A x \in v : k[v] = P[<<p[x], k[v \ {x}]>>]
      BY <1>0, <1>1, <1>3, FoldsTakeOut
    <3>. QED  BY <2>0, <3>1
  <2>. USE DEF u
  <2>3. (t \cup {a}) \ {a} = t
    OBVIOUS
  <2>. QED  BY <1>1, <2>1, <2>2, <2>3
<1>6. s \in X
  <2>1. X \in SUBSET SUBSET s
    OBVIOUS
  <2>. HIDE DEF X
  <2>. QED  BY <1>0, <1>4, <1>5, <2>1, Grown
<1>. QED  BY <1>2, <1>6 DEF p

-----------------------------------------------------------------------------
(* Sums over finite sets: one more term, a split, by fibers.               *)
LEMMA SumBasics ==
  ASSUME NEW G, NEW P, NEW e, IsMonoid(G, P, e), NEW S, IsFiniteSet(S), NEW f \in [S -> G]
  PROVE  /\ SumOf(P, e, f) \in G
         /\ S = {} => SumOf(P, e, f) = e
         /\ \A a \in S : SumOf(P, e, f) = P[<<f[a], SumOf(P, e, Part(f, S \ {a}))>>]
<1>1. PICK h : IsFold(P, e, f, h) /\ SumOf(P, e, f) = h[S]
  <2>1. \E h : IsFold(P, e, f, h)
    BY FoldExists
  <2>2. IsFold(P, e, f, CHOOSE h : IsFold(P, e, f, h))
    BY <2>1, Zenon
  <2>. QED  BY <2>2 DEF SumOf
<1>2. FoldsOn(SUBSET S, P, e, f, h)
  <2>1. \A t \in SUBSET DOMAIN f : h[t] = IF t = {} THEN e ELSE P[<<f[Pick(t)], h[t \ {Pick(t)}]>>]
    BY <1>1 DEF IsFold
  <2>. QED  BY <2>1 DEF FoldsOn
<1>3. h[S] \in G
  BY <1>2, FoldsInside
<1>4. S = {} => h[S] = e
  BY <1>2 DEF FoldsOn
<1>5. \A a \in S : h[S] = P[<<f[a], h[S \ {a}]>>]
  BY <1>2, FoldsTakeOut
<1>6. \A a \in S : h[S \ {a}] = SumOf(P, e, Part(f, S \ {a}))
  BY <1>1, FoldIsSum
<1>. QED  BY <1>1, <1>3, <1>4, <1>5, <1>6

LEMMA PartPart ==
  ASSUME NEW f, NEW u, NEW t \in SUBSET u
  PROVE  Part(Part(f, u), t) = Part(f, t)
  BY DEF Part

LEMMA PartOf ==
  ASSUME NEW G, NEW S, IsFiniteSet(S), NEW f \in [S -> G]
  PROVE  /\ Part(f, S) = f
         /\ \A t \in SUBSET S : /\ IsFiniteSet(t) /\ Part(f, t) \in [t -> G]
                                /\ \A x \in t : Part(f, t)[x] = f[x]
                                /\ \A u \in SUBSET t : Part(Part(f, t), u) = Part(f, u)
  BY FS_Subset DEF Part

\* The sum of a part of f, with one element more.
LEMMA SumOneMore ==
  ASSUME NEW G, NEW P, NEW e, IsMonoid(G, P, e), NEW S, IsFiniteSet(S), NEW f \in [S -> G]
  PROVE  /\ SumOf(P, e, Part(f, {})) = e
         /\ \A t \in SUBSET S : SumOf(P, e, Part(f, t)) \in G
         /\ \A t \in SUBSET S : \A a \in S \ t :
              SumOf(P, e, Part(f, t \cup {a})) = P[<<f[a], SumOf(P, e, Part(f, t))>>]
<1>1. ASSUME NEW t \in SUBSET S
      PROVE  /\ SumOf(P, e, Part(f, t)) \in G
             /\ t = {} => SumOf(P, e, Part(f, t)) = e
             /\ \A a \in t : SumOf(P, e, Part(f, t)) = P[<<f[a], SumOf(P, e, Part(f, t \ {a}))>>]
  <2>1. IsFiniteSet(t) /\ Part(f, t) \in [t -> G] /\ \A x \in t : Part(f, t)[x] = f[x]
    BY PartOf
  <2>2. \A a \in t : Part(Part(f, t), t \ {a}) = Part(f, t \ {a})
    BY PartOf
  <2>. QED  BY <2>1, <2>2, SumBasics
<1>2. {} \in SUBSET S
  OBVIOUS
<1>3. ASSUME NEW t \in SUBSET S, NEW a \in S \ t
      PROVE  SumOf(P, e, Part(f, t \cup {a})) = P[<<f[a], SumOf(P, e, Part(f, t))>>]
  <2>1. (t \cup {a}) \ {a} = t /\ t \cup {a} \in SUBSET S /\ a \in t \cup {a}
    OBVIOUS
  <2>. QED  BY <1>1, <2>1
<1>. QED  BY <1>1, <1>2, <1>3

\* Three facts about a commutative monoid.
LEMMA MonoidLaws ==
  ASSUME NEW G, NEW P, NEW e, IsMonoid(G, P, e)
  PROVE  /\ e \in G
         /\ \A x, y \in G : P[<<x, y>>] \in G
         /\ \A x \in G : P[<<e, x>>] = x /\ P[<<x, e>>] = x
         /\ \A x, y, u \in G : P[<<x, P[<<y, u>>]>>] = P[<<P[<<x, y>>], u>>]
         /\ \A x, y, u \in G : P[<<x, P[<<y, u>>]>>] = P[<<y, P[<<x, u>>]>>]
         /\ \A x, y, u, v \in G : P[<<P[<<x, y>>], P[<<u, v>>]>>] = P[<<P[<<x, u>>], P[<<y, v>>]>>]
<1>1. /\ \A x, y \in G : P[<<x, y>>] \in G
      /\ \A x, y \in G : P[<<x, y>>] = P[<<y, x>>]
      /\ \A x, y, u \in G : P[<<x, P[<<y, u>>]>>] = P[<<P[<<x, y>>], u>>]
  BY DEF IsMonoid
<1>2. e \in G /\ \A x \in G : P[<<e, x>>] = x /\ P[<<x, e>>] = x
  BY DEF IsMonoid
<1>3. \A x, y, u \in G : P[<<x, P[<<y, u>>]>>] = P[<<y, P[<<x, u>>]>>]
  <2>1. ASSUME NEW x \in G, NEW y \in G, NEW u \in G
        PROVE  P[<<x, P[<<y, u>>]>>] = P[<<y, P[<<x, u>>]>>]
    <3>1. P[<<x, P[<<y, u>>]>>] = P[<<P[<<x, y>>], u>>] /\ P[<<y, P[<<x, u>>]>>] = P[<<P[<<y, x>>], u>>]
      BY <1>1
    <3>2. P[<<x, y>>] = P[<<y, x>>]
      BY <1>1
    <3>. QED  BY <3>1, <3>2
  <2>. QED  BY <2>1
<1>4. ASSUME NEW x \in G, NEW y \in G, NEW u \in G, NEW v \in G
      PROVE  P[<<P[<<x, y>>], P[<<u, v>>]>>] = P[<<P[<<x, u>>], P[<<y, v>>]>>]
  <2>1. P[<<P[<<x, y>>], P[<<u, v>>]>>] = P[<<x, P[<<y, P[<<u, v>>]>>]>>]
    BY <1>1
  <2>2. P[<<P[<<x, u>>], P[<<y, v>>]>>] = P[<<x, P[<<u, P[<<y, v>>]>>]>>]
    BY <1>1
  <2>3. P[<<y, P[<<u, v>>]>>] = P[<<u, P[<<y, v>>]>>]
    BY <1>3
  <2>. QED  BY <2>1, <2>2, <2>3
<1>. QED  BY <1>1, <1>2, <1>3, <1>4

LEMMA SumSplit ==
  ASSUME NEW G, NEW P, NEW e, IsMonoid(G, P, e), NEW S, IsFiniteSet(S), NEW f \in [S -> G],
         NEW t \in SUBSET S
  PROVE  SumOf(P, e, f) = P[<<SumOf(P, e, Part(f, t)), SumOf(P, e, Part(f, S \ t))>>]
<1>. DEFINE Sum(u) == SumOf(P, e, Part(f, u))
            X == {u \in SUBSET t : Sum(S) = P[<<Sum(u), Sum(S \ u)>>]}
<1>1. /\ Sum({}) = e
      /\ \A u \in SUBSET S : Sum(u) \in G
      /\ \A u \in SUBSET S : \A a \in S \ u : Sum(u \cup {a}) = P[<<f[a], Sum(u)>>]
  BY SumOneMore
<1>2. Sum(S) = SumOf(P, e, f)
  BY PartOf
<1>. HIDE DEF Sum
<1>3. {} \in X
  <2>1. S \ {} = S /\ S \in SUBSET S /\ {} \in SUBSET t
    OBVIOUS
  <2>2. P[<<e, Sum(S)>>] = Sum(S)
    <3>1. Sum(S) \in G
      BY <1>1, <2>1
    <3>. QED  BY <3>1 DEF IsMonoid
  <2>. QED  BY <1>1, <2>1, <2>2
<1>4. ASSUME NEW u \in X, NEW a \in t \ u PROVE u \cup {a} \in X
  <2>. DEFINE v == S \ (u \cup {a})
  <2>1. v \in SUBSET S /\ a \in S \ v /\ v \cup {a} = S \ u /\ u \in SUBSET S /\ a \in S \ u
    OBVIOUS
  <2>2. Sum(S \ u) = P[<<f[a], Sum(v)>>] /\ Sum(u \cup {a}) = P[<<f[a], Sum(u)>>]
    BY <1>1, <2>1
  <2>3. f[a] \in G /\ Sum(u) \in G /\ Sum(v) \in G
    BY <1>1, <2>1
  <2>. HIDE DEF v
  <2>4. Sum(S) = P[<<Sum(u), P[<<f[a], Sum(v)>>]>>]
    BY <2>2
  <2>5. P[<<Sum(u), P[<<f[a], Sum(v)>>]>>] = P[<<f[a], P[<<Sum(u), Sum(v)>>]>>]
    BY <2>3, MonoidLaws
  <2>6. P[<<P[<<f[a], Sum(u)>>], Sum(v)>>] = P[<<f[a], P[<<Sum(u), Sum(v)>>]>>]
    BY <2>3, MonoidLaws
  <2>7. Sum(S) = P[<<Sum(u \cup {a}), Sum(v)>>]
    BY <2>2, <2>4, <2>5, <2>6
  <2>. QED  BY <2>7 DEF v
<1>5. t \in X
  <2>1. X \in SUBSET SUBSET t /\ IsFiniteSet(t)
    BY FS_Subset
  <2>. HIDE DEF X
  <2>. QED  BY <1>3, <1>4, <2>1, Grown
<1>. QED  BY <1>2, <1>5 DEF Sum

\* By the values of a function g.
LEMMA SumFibers ==
  ASSUME NEW G, NEW P, NEW e, IsMonoid(G, P, e), NEW S, IsFiniteSet(S), NEW f \in [S -> G],
         NEW J, IsFiniteSet(J), NEW g \in [S -> J]
  PROVE  LET fibers == [j \in J |-> SumOf(P, e, Part(f, {x \in S : g[x] = j}))]
         IN  fibers \in [J -> G] /\ SumOf(P, e, f) = SumOf(P, e, fibers)
<1>. DEFINE fibers == [j \in J |-> SumOf(P, e, Part(f, {x \in S : g[x] = j}))]
            Over(t) == {x \in S : g[x] \in t}
            X == {t \in SUBSET J : SumOf(P, e, Part(f, Over(t))) = SumOf(P, e, Part(fibers, t))}
<1>1. fibers \in [J -> G]
  <2>1. \A j \in J : {x \in S : g[x] = j} \in SUBSET S
    OBVIOUS
  <2>. QED  BY <2>1, SumOneMore
<1>2. {} \in X
  <2>1. Over({}) = {}
    OBVIOUS
  <2>. HIDE DEF Over, fibers
  <2>2. SumOf(P, e, Part(f, {})) = e /\ SumOf(P, e, Part(fibers, {})) = e
    BY <1>1, SumOneMore
  <2>. QED  BY <2>1, <2>2
<1>3. ASSUME NEW t \in X, NEW a \in J \ t PROVE t \cup {a} \in X
  <2>. DEFINE u == Over(t \cup {a})
              k == Part(f, u)
  <2>1. Over(t) \in SUBSET u /\ u \in SUBSET S /\ u \ Over(t) = {x \in S : g[x] = a}
    OBVIOUS
  <2>2. IsFiniteSet(u) /\ k \in [u -> G]
    BY <2>1, PartOf
  <2>3. Part(k, Over(t)) = Part(f, Over(t)) /\ Part(k, u \ Over(t)) = Part(f, u \ Over(t))
    <3>1. Over(t) \in SUBSET u /\ u \ Over(t) \in SUBSET u /\ u \in SUBSET S
      BY <2>1
    <3>. HIDE DEF u, Over
    <3>. QED  BY <3>1, PartPart
  <2>4. fibers[a] = SumOf(P, e, Part(f, u \ Over(t)))
    BY <2>1
  <2>. HIDE DEF Over, fibers, u
  <2>5. SumOf(P, e, k) = P[<<SumOf(P, e, Part(f, Over(t))), fibers[a]>>]
    <3>. HIDE DEF k
    <3>1. SumOf(P, e, k) = P[<<SumOf(P, e, Part(k, Over(t))), SumOf(P, e, Part(k, u \ Over(t)))>>]
      BY <2>1, <2>2, SumSplit
    <3>. QED  BY <2>3, <2>4, <3>1
  <2>6. SumOf(P, e, Part(fibers, t \cup {a})) = P[<<fibers[a], SumOf(P, e, Part(fibers, t))>>]
        /\ SumOf(P, e, Part(fibers, t)) \in G
    BY <1>1, SumOneMore
  <2>7. fibers[a] \in G
    BY <1>1
  <2>8. P[<<SumOf(P, e, Part(fibers, t)), fibers[a]>>] = P[<<fibers[a], SumOf(P, e, Part(fibers, t))>>]
    BY <2>6, <2>7 DEF IsMonoid
  <2>9. t \cup {a} \in SUBSET J /\ SumOf(P, e, Part(f, Over(t))) = SumOf(P, e, Part(fibers, t))
    OBVIOUS
  <2>. QED  BY <2>5, <2>6, <2>8, <2>9 DEF u
<1>4. J \in X
  <2>1. X \in SUBSET SUBSET J
    OBVIOUS
  <2>. HIDE DEF X
  <2>. QED  BY <1>2, <1>3, <2>1, Grown
<1>5. Over(J) = S
  OBVIOUS
<1>. HIDE DEF fibers, Over
<1>6. Part(f, S) = f /\ Part(fibers, J) = fibers
  BY <1>1, PartOf
<1>7. SumOf(P, e, f) = SumOf(P, e, fibers)
  BY <1>4, <1>5, <1>6
<1>. QED  BY <1>1, <1>7 DEF fibers

-----------------------------------------------------------------------------
(* Sums renumbered, sums of sums, and sums through an additive map.        *)
LEMMA SumOfOne ==
  ASSUME NEW G, NEW P, NEW e, IsMonoid(G, P, e), NEW a, NEW f, f[a] \in G
  PROVE  SumOf(P, e, Part(f, {a})) = f[a]
<1>. DEFINE h == Part(f, {a})
<1>1. h \in [{a} -> G] /\ IsFiniteSet({a}) /\ h[a] = f[a]
  BY FS_Singleton DEF Part
<1>. HIDE DEF h
<1>2. Part(h, {} \cup {a}) = h /\ SumOf(P, e, Part(h, {})) = e
      /\ SumOf(P, e, Part(h, {} \cup {a})) = P[<<h[a], SumOf(P, e, Part(h, {}))>>]
  BY <1>1, SumOneMore, PartOf
<1>3. P[<<f[a], e>>] = f[a]
  BY DEF IsMonoid
<1>. QED  BY <1>1, <1>2, <1>3 DEF h

\* p numbers the elements of S anew.
Renumbers(p, T, S) ==
  /\ p \in [T -> S]
  /\ \A a, b \in T : p[a] = p[b] => a = b
  /\ \A x \in S : \E a \in T : p[a] = x

LEMMA SumReindex ==
  ASSUME NEW G, NEW P, NEW e, IsMonoid(G, P, e), NEW S, IsFiniteSet(S), NEW f \in [S -> G],
         NEW T, IsFiniteSet(T), NEW p, Renumbers(p, T, S),
         NEW g \in [T -> G], \A t \in T : g[t] = f[p[t]]
  PROVE  SumOf(P, e, g) = SumOf(P, e, f)
<1>. DEFINE fibers == [j \in S |-> SumOf(P, e, Part(g, {x \in T : p[x] = j}))]
<1>1. p \in [T -> S]
  BY DEF Renumbers
<1>2. SumOf(P, e, g) = SumOf(P, e, fibers)
  BY <1>1, SumFibers
<1>3. ASSUME NEW j \in S PROVE fibers[j] = f[j]
  <2>1. PICK a \in T : p[a] = j
    BY DEF Renumbers
  <2>2. {x \in T : p[x] = j} = {a}
    BY <2>1 DEF Renumbers
  <2>3. g[a] = f[j] /\ g[a] \in G
    BY <2>1
  <2>4. SumOf(P, e, Part(g, {a})) = g[a]
    <3>. HIDE DEF fibers
    <3>. QED  BY <2>3, SumOfOne
  <2>. QED  BY <2>2, <2>3, <2>4
<1>4. fibers = f
  <2>1. fibers = [j \in S |-> fibers[j]] /\ f = [j \in S |-> f[j]]
    OBVIOUS
  <2>. HIDE DEF fibers
  <2>. QED  BY <1>3, <2>1
<1>. HIDE DEF fibers
<1>. QED  BY <1>2, <1>4

LEMMA SumOfUnits ==
  ASSUME NEW G, NEW P, NEW e, IsMonoid(G, P, e), NEW S, IsFiniteSet(S)
  PROVE  SumOf(P, e, [x \in S |-> e]) = e
<1>. DEFINE f == [x \in S |-> e]
            X == {t \in SUBSET S : SumOf(P, e, Part(f, t)) = e}
<1>1. f \in [S -> G] /\ e \in G /\ P[<<e, e>>] = e
  BY MonoidLaws
<1>2. {} \in X
  BY <1>1, SumOneMore
<1>3. ASSUME NEW t \in X, NEW a \in S \ t PROVE t \cup {a} \in X
  <2>1. t \in SUBSET S /\ SumOf(P, e, Part(f, t)) = e /\ f[a] = e
    OBVIOUS
  <2>. HIDE DEF f
  <2>2. SumOf(P, e, Part(f, t \cup {a})) = P[<<f[a], SumOf(P, e, Part(f, t))>>]
    BY <1>1, <2>1, SumOneMore
  <2>. QED  BY <1>1, <2>1, <2>2
<1>4. S \in X
  <2>1. X \in SUBSET SUBSET S
    OBVIOUS
  <2>. HIDE DEF X
  <2>. QED  BY <1>2, <1>3, <2>1, Grown
<1>5. Part(f, S) = f
  BY DEF Part
<1>. QED  BY <1>4, <1>5

\* Only the elements of t count.
LEMMA SumOutside ==
  ASSUME NEW G, NEW P, NEW e, IsMonoid(G, P, e), NEW S, IsFiniteSet(S), NEW f \in [S -> G],
         NEW t \in SUBSET S, \A x \in S \ t : f[x] = e
  PROVE  SumOf(P, e, f) = SumOf(P, e, Part(f, t))
<1>1. SumOf(P, e, f) = P[<<SumOf(P, e, Part(f, t)), SumOf(P, e, Part(f, S \ t))>>]
  BY SumSplit
<1>2. Part(f, S \ t) = [x \in S \ t |-> e]
  BY DEF Part
<1>3. SumOf(P, e, Part(f, S \ t)) = e
  <2>1. IsFiniteSet(S \ t)
    BY FS_Subset
  <2>. QED  BY <1>2, <2>1, SumOfUnits
<1>4. SumOf(P, e, Part(f, t)) \in G
  BY SumOneMore
<1>5. \A x \in G : P[<<x, e>>] = x
  BY DEF IsMonoid
<1>. QED  BY <1>1, <1>3, <1>4, <1>5

LEMMA SumOfSums ==
  ASSUME NEW G, NEW P, NEW e, IsMonoid(G, P, e), NEW S, IsFiniteSet(S),
         NEW f \in [S -> G], NEW g \in [S -> G],
         NEW h \in [S -> G], \A x \in S : h[x] = P[<<f[x], g[x]>>]
  PROVE  SumOf(P, e, h) = P[<<SumOf(P, e, f), SumOf(P, e, g)>>]
<1>. DEFINE X == {t \in SUBSET S : SumOf(P, e, Part(h, t)) =
                                     P[<<SumOf(P, e, Part(f, t)), SumOf(P, e, Part(g, t))>>]}
<1>2. {} \in X
  <2>1. P[<<e, e>>] = e
    BY MonoidLaws
  <2>2. SumOf(P, e, Part(h, {})) = e
    BY SumOneMore
  <2>3. SumOf(P, e, Part(f, {})) = e /\ SumOf(P, e, Part(g, {})) = e
    BY SumOneMore
  <2>. QED  BY <2>1, <2>2, <2>3
<1>3. ASSUME NEW t \in X, NEW a \in S \ t PROVE t \cup {a} \in X
  <2>. DEFINE F == SumOf(P, e, Part(f, t))
              H == SumOf(P, e, Part(g, t))
  <2>1. t \in SUBSET S /\ SumOf(P, e, Part(h, t)) = P[<<F, H>>]
    OBVIOUS
  <2>2. SumOf(P, e, Part(h, t \cup {a})) = P[<<h[a], SumOf(P, e, Part(h, t))>>]
    BY <2>1, SumOneMore
  <2>3. SumOf(P, e, Part(f, t \cup {a})) = P[<<f[a], F>>] /\ F \in G
    BY <2>1, SumOneMore
  <2>4. SumOf(P, e, Part(g, t \cup {a})) = P[<<g[a], H>>] /\ H \in G
    BY <2>1, SumOneMore
  <2>. HIDE DEF F, H
  <2>5. f[a] \in G /\ g[a] \in G
    OBVIOUS
  <2>6. P[<<P[<<f[a], g[a]>>], P[<<F, H>>]>>] = P[<<P[<<f[a], F>>], P[<<g[a], H>>]>>]
    BY <2>3, <2>4, <2>5, MonoidLaws
  <2>. QED  BY <2>1, <2>2, <2>3, <2>4, <2>6
<1>4. S \in X
  <2>1. X \in SUBSET SUBSET S
    OBVIOUS
  <2>. HIDE DEF X
  <2>. QED  BY <1>2, <1>3, <2>1, Grown
<1>5. Part(h, S) = h /\ Part(f, S) = f /\ Part(g, S) = g
  BY DEF Part
<1>. QED  BY <1>4, <1>5

IsAdditive(H, G, P, e, G2, P2, e2) ==
  /\ H \in [G -> G2] /\ H[e] = e2
  /\ \A x, y \in G : H[P[<<x, y>>]] = P2[<<H[x], H[y]>>]

\* An additive function of a sum is the sum of its values.
LEMMA SumThrough ==
  ASSUME NEW G, NEW P, NEW e, IsMonoid(G, P, e), NEW G2, NEW P2, NEW e2, IsMonoid(G2, P2, e2),
         NEW H, IsAdditive(H, G, P, e, G2, P2, e2),
         NEW S, IsFiniteSet(S), NEW f \in [S -> G],
         NEW h \in [S -> G2], \A x \in S : h[x] = H[f[x]]
  PROVE  H[SumOf(P, e, f)] = SumOf(P2, e2, h)
<1>. DEFINE X == {t \in SUBSET S : H[SumOf(P, e, Part(f, t))] = SumOf(P2, e2, Part(h, t))}
<1>2. {} \in X
  <2>2. SumOf(P2, e2, Part(h, {})) = e2
    BY SumOneMore
  <2>3. SumOf(P, e, Part(f, {})) = e
    BY SumOneMore
  <2>. QED  BY <2>2, <2>3 DEF IsAdditive
<1>3. ASSUME NEW t \in X, NEW a \in S \ t PROVE t \cup {a} \in X
  <2>1. t \in SUBSET S /\ SumOf(P2, e2, Part(h, t)) = H[SumOf(P, e, Part(f, t))]
    OBVIOUS
  <2>2. SumOf(P2, e2, Part(h, t \cup {a})) = P2[<<h[a], SumOf(P2, e2, Part(h, t))>>]
    BY <2>1, SumOneMore
  <2>3. SumOf(P, e, Part(f, t \cup {a})) = P[<<f[a], SumOf(P, e, Part(f, t))>>]
        /\ SumOf(P, e, Part(f, t)) \in G
    BY <2>1, SumOneMore
  <2>4. H[P[<<f[a], SumOf(P, e, Part(f, t))>>]] = P2[<<H[f[a]], H[SumOf(P, e, Part(f, t))]>>]
    BY <2>3 DEF IsAdditive
  <2>. QED  BY <2>1, <2>2, <2>3, <2>4
<1>4. S \in X
  <2>1. X \in SUBSET SUBSET S
    OBVIOUS
  <2>. HIDE DEF X
  <2>. QED  BY <1>2, <1>3, <2>1, Grown
<1>5. Part(h, S) = h /\ Part(f, S) = f
  BY DEF Part
<1>. QED  BY <1>4, <1>5

\* The sum over some of the elements, numbered anew.
LEMMA SumOfSome ==
  ASSUME NEW G, NEW P, NEW e, IsMonoid(G, P, e), NEW S, IsFiniteSet(S), NEW f \in [S -> G],
         NEW u \in SUBSET S, NEW T, IsFiniteSet(T), NEW p, Renumbers(p, T, u),
         NEW g \in [T -> G], \A t \in T : g[t] = f[p[t]]
  PROVE  SumOf(P, e, g) = SumOf(P, e, Part(f, u)) /\ SumOf(P, e, g) \in G
<1>1. IsFiniteSet(u) /\ Part(f, u) \in [u -> G] /\ \A x \in u : Part(f, u)[x] = f[x]
  BY PartOf, SMTT(30)
<1>2. \A t \in T : g[t] = Part(f, u)[p[t]]
  BY <1>1, SMTT(30) DEF Renumbers
<1>. DEFINE h == Part(f, u)
<1>. HIDE DEF h
<1>3. SumOf(P, e, g) = SumOf(P, e, h)
  BY <1>1, <1>2, SumReindex DEF h
<1>4. SumOf(P, e, g) \in G
  BY SumBasics
<1>. QED  BY <1>3, <1>4 DEF h

IsFamily(f, S, G) == IsFiniteSet(S) /\ f \in [S -> G]

Fiber(g, j) == {x \in DOMAIN g : g[x] = j}

\* y is the sum over u of f, numbered anew.
SumsTo(G, P, e, f, u, y) ==
  \E T, p, row : /\ IsFamily(row, T, G) /\ Renumbers(p, T, u)
                 /\ \A t \in T : row[t] = f[p[t]]
                 /\ y = SumOf(P, e, row)

LEMMA SumsToBy ==
  ASSUME NEW G, NEW P, NEW e, NEW f, NEW u, NEW T, NEW p, NEW row, IsFamily(row, T, G),
         Renumbers(p, T, u), \A t \in T : row[t] = f[p[t]]
  PROVE  SumsTo(G, P, e, f, u, SumOf(P, e, row))
  BY Zenon DEF SumsTo

\* A sum over fibers, each numbered anew.
LEMMA SumOfFibers ==
  ASSUME NEW G, NEW P, NEW e, IsMonoid(G, P, e), NEW S, NEW f, IsFamily(f, S, G),
         NEW J, IsFiniteSet(J), NEW g, IsFamily(g, S, J),
         NEW sums, IsFamily(sums, J, G), \A j \in J : SumsTo(G, P, e, f, Fiber(g, j), sums[j])
  PROVE  SumOf(P, e, f) = SumOf(P, e, sums)
<1>. DEFINE fibers == [j \in J |-> SumOf(P, e, Part(f, {x \in S : g[x] = j}))]
<1>0. IsFiniteSet(S) /\ f \in [S -> G] /\ g \in [S -> J] /\ sums \in [J -> G]
  BY DEF IsFamily
<1>1. SumOf(P, e, f) = SumOf(P, e, fibers)
  BY <1>0, SumFibers
<1>2. ASSUME NEW j \in J PROVE sums[j] = SumOf(P, e, Part(f, {x \in S : g[x] = j}))
  <2>. DEFINE u == {x \in S : g[x] = j}
  <2>0. u = Fiber(g, j) /\ u \in SUBSET S
    BY <1>0 DEF Fiber
  <2>. HIDE DEF u, fibers
  <2>1. SumsTo(G, P, e, f, u, sums[j])
    BY <2>0
  <2>2. PICK T, p, row : /\ IsFamily(row, T, G) /\ Renumbers(p, T, u)
                         /\ \A t \in T : row[t] = f[p[t]]
                         /\ sums[j] = SumOf(P, e, row)
    BY <2>1, Zenon DEF SumsTo
  <2>3. SumOf(P, e, row) = SumOf(P, e, Part(f, u))
    BY <1>0, <2>0, <2>2, SumOfSome DEF IsFamily
  <2>. QED  BY <2>2, <2>3 DEF u
<1>3. fibers = sums
  BY <1>0, <1>2
<1>. HIDE DEF fibers
<1>. QED  BY <1>1, <1>3

\* The rows of a family of pairs, and their sums.
Rows2(row, f, S, J, G) ==
  \A i \in S : IsFamily(row[i], J, G) /\ \A j \in J : row[i][j] = f[<<i, j>>]
Columns2(col, f, S, J, G) ==
  \A j \in J : IsFamily(col[j], S, G) /\ \A i \in S : col[j][i] = f[<<i, j>>]
AreSums(sums, row, S, P, e) == \A i \in S : sums[i] = SumOf(P, e, row[i])

\* A sum over pairs is a sum of sums.
LEMMA SumOfPairs ==
  ASSUME NEW G, NEW P, NEW e, IsMonoid(G, P, e), NEW S, IsFiniteSet(S), NEW J, IsFiniteSet(J),
         NEW f, IsFamily(f, S \X J, G), NEW row, Rows2(row, f, S, J, G),
         NEW sums, IsFamily(sums, S, G), AreSums(sums, row, S, P, e)
  PROVE  SumOf(P, e, f) = SumOf(P, e, sums)
<1>. DEFINE R == S \X J
            fst == [x \in R |-> x[1]]
<1>1. IsFamily(fst, R, S) /\ IsFamily(f, R, G)
  BY FS_Product DEF IsFamily
<1>3. ASSUME NEW i \in S PROVE SumsTo(G, P, e, f, Fiber(fst, i), sums[i])
  <2>. DEFINE p == [j \in J |-> <<i, j>>]
              u == Fiber(fst, i)
  <2>1. Renumbers(p, J, u)
    BY DEF Renumbers, Fiber
  <2>2. \A j \in J : p[j] = <<i, j>>
    OBVIOUS
  <2>. HIDE DEF p, u
  <2>3. IsFamily(row[i], J, G) /\ \A j \in J : row[i][j] = f[p[j]]
    BY <2>2 DEF Rows2
  <2>4. sums[i] = SumOf(P, e, row[i])
    BY DEF AreSums
  <2>5. SumsTo(G, P, e, f, u, sums[i])
    BY <2>1, <2>3, <2>4, SumsToBy
  <2>. QED  BY <2>5 DEF u
<1>. HIDE DEF fst, R
<1>. QED  BY <1>1, <1>3, SumOfFibers

LEMMA SumSwap ==
  ASSUME NEW G, NEW P, NEW e, IsMonoid(G, P, e), NEW S, IsFiniteSet(S), NEW J, IsFiniteSet(J),
         NEW f, IsFamily(f, S \X J, G),
         NEW row, Rows2(row, f, S, J, G), NEW col, Columns2(col, f, S, J, G),
         NEW sums, IsFamily(sums, S, G), AreSums(sums, row, S, P, e),
         NEW tots, IsFamily(tots, J, G), AreSums(tots, col, J, P, e)
  PROVE  SumOf(P, e, sums) = SumOf(P, e, tots)
<1>. DEFINE T == J \X S
            R == S \X J
            p == [x \in T |-> <<x[2], x[1]>>]
            g == [x \in T |-> f[p[x]]]
<1>1. Renumbers(p, T, R)
  <2>1. p \in [T -> R]
    OBVIOUS
  <2>2. \A a, b \in T : p[a] = p[b] => a = b
    OBVIOUS
  <2>3. ASSUME NEW x \in R PROVE \E a \in T : p[a] = x
    <3>1. <<x[2], x[1]>> \in T /\ p[<<x[2], x[1]>>] = x
      OBVIOUS
    <3>. QED  BY <3>1
  <2>. QED  BY <2>1, <2>2, <2>3 DEF Renumbers
<1>2. \A j \in J, i \in S : p[<<j, i>>] = <<i, j>> /\ g[<<j, i>>] = f[<<i, j>>]
  OBVIOUS
<1>3. IsFiniteSet(T) /\ IsFiniteSet(R)
  BY FS_Product
<1>0. f \in [R -> G]
  BY DEF IsFamily
<1>4. g \in [T -> G] /\ \A x \in T : g[x] = f[p[x]]
  BY <1>0, <1>1 DEF Renumbers
<1>5. SumOf(P, e, g) = SumOf(P, e, f)
  <2>. HIDE DEF p, g, T, R
  <2>. QED  BY <1>0, <1>1, <1>3, <1>4, SumReindex
<1>. HIDE DEF g, p
<1>6. SumOf(P, e, f) = SumOf(P, e, sums)
  BY SumOfPairs
<1>7. Rows2(col, g, J, S, G)
  BY <1>2, ZenonT(40) DEF Rows2, Columns2
<1>8. SumOf(P, e, g) = SumOf(P, e, tots)
  <2>1. IsFamily(g, T, G)
    BY <1>3, <1>4 DEF IsFamily
  <2>. QED  BY <1>7, <2>1, SumOfPairs
<1>. QED  BY <1>5, <1>6, <1>8

-----------------------------------------------------------------------------
(* Sums of integers, picking one element after another.                    *)
PlusZ == [y \in Int \X Int |-> y[1] + y[2]]
SumZ(c) == SumOf(PlusZ, 0, c)

LEMMA Ints == IsMonoid(Int, PlusZ, 0)
<1>1. PlusZ \in [Int \X Int -> Int] /\ \A u, v \in Int : PlusZ[<<u, v>>] = u + v
  BY DEF PlusZ
<1>. QED  BY <1>1 DEF IsMonoid

LEMMA ByPicks ==
  ASSUME NEW S, IsFiniteSet(S), NEW X, {} \in X,
         \A s \in SUBSET S : s # {} /\ s \ {Pick(s)} \in X => s \in X
  PROVE  SUBSET S \subseteq X
<1>. DEFINE T == {Cardinality(s) : s \in (SUBSET S) \ X}
<1>1. \A s \in SUBSET S : IsFiniteSet(s) /\ Cardinality(s) \in Nat
  BY FS_Subset, FS_CardinalityType
<1>2. SUFFICES ASSUME NEW s0 \in (SUBSET S) \ X PROVE FALSE
  OBVIOUS
<1>3. PICK n \in T : \A m \in T : n <= m
  <2>1. T \in SUBSET Nat
    BY <1>1
  <2>2. T # {}
    BY <1>2
  <2>. HIDE DEF T
  <2>. QED  BY <2>1, <2>2, Least
<1>4. PICK s \in (SUBSET S) \ X : Cardinality(s) = n
  BY <1>3
<1>5. s # {} /\ s \in SUBSET S
  BY <1>4
<1>6. s \ {Pick(s)} \in SUBSET S /\ n \in Nat /\ Cardinality(s \ {Pick(s)}) = n - 1
  BY <1>4, <1>5, PickedOut
<1>7. s \ {Pick(s)} \in X
  <2>1. SUFFICES ASSUME s \ {Pick(s)} \notin X PROVE FALSE
    OBVIOUS
  <2>2. Cardinality(s \ {Pick(s)}) \in T
    BY <1>6, <2>1
  <2>. HIDE DEF T
  <2>. QED  BY <1>3, <1>6, <2>2
<1>. QED  BY <1>4, <1>5, <1>7

\* h adds up c over each subset of S, picking one element after another.
AddsUp(h, c, S) == h = [s \in SUBSET S |-> IF s = {} THEN 0 ELSE c[Pick(s)] + h[s \ {Pick(s)}]]

LEMMA AddedUp ==
  ASSUME NEW S, NEW c, IsFamily(c, S, Int)
  PROVE  /\ \E h : AddsUp(h, c, S)
         /\ \A h : AddsUp(h, c, S) => h[S] = SumZ(c)
         /\ SumZ(c) \in Int
<1>1. IsFiniteSet(S) /\ c \in [S -> Int] /\ DOMAIN c = S
  BY DEF IsFamily
<1>2. PICK h : IsFold(PlusZ, 0, c, h)
  BY <1>1, Ints, FoldExists
<1>3. FoldsOn(SUBSET S, PlusZ, 0, c, h)
  BY <1>1, <1>2 DEF IsFold, FoldsOn
<1>4. \A s \in SUBSET S : h[s] \in Int
  BY <1>1, <1>3, Ints, FoldsInside
<1>5. AddsUp(h, c, S)
  BY <1>1, <1>2, <1>4, PickedOut DEF IsFold, PlusZ, AddsUp
<1>6. h[S] \in Int /\ h[S] = SumZ(c)
  <2>1. h[S] = SumOf(PlusZ, 0, Part(c, S)) /\ Part(c, S) = c
    BY <1>1, <1>2, Ints, FoldIsSum, PartOf
  <2>. QED  BY <1>4, <2>1 DEF SumZ
<1>7. ASSUME NEW l, AddsUp(l, c, S) PROVE l[S] = h[S]
  <2>1. \A s \in SUBSET S : l[s] = IF s = {} THEN 0 ELSE c[Pick(s)] + l[s \ {Pick(s)}]
    BY <1>7 DEF AddsUp
  <2>2. \A s \in SUBSET S : h[s] = IF s = {} THEN 0 ELSE c[Pick(s)] + h[s \ {Pick(s)}]
    BY <1>5 DEF AddsUp
  <2>. DEFINE X == {s \in SUBSET S : l[s] = h[s]}
  <2>3. {} \in X
    BY <2>1, <2>2
  <2>4. \A s \in SUBSET S : s # {} /\ s \ {Pick(s)} \in X => s \in X
    BY <2>1, <2>2
  <2>. HIDE DEF X
  <2>5. SUBSET S \subseteq X
    BY <1>1, <2>3, <2>4, ByPicks
  <2>. QED  BY <2>5 DEF X
<1>. QED  BY <1>5, <1>6, <1>7
=============================================================================
