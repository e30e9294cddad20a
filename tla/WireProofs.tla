------------------------------ MODULE WireProofs -----------------------------
(***************************************************************************)
(* Theorems about wire.rs, for every width of a word, modulus and degree.  *)
(* A code of one value is read back (WireScalars), wherever it stands in a *)
(* stream; so are, field by field, the iterations of every proof that      *)
(* ProofWire describes, and unpack undoes pack.  Under the codes,          *)
(* BitWriter and BitReader implement a queue of bits (BitStream): flushing *)
(* a word appends exactly its bits, and a value joined to or split from a  *)
(* word is a concatenation.                                                *)
(*                                                                         *)
(* What a reader returns is stated for a stream that holds a code at a     *)
(* place (Stands), whatever is before and after it, so that the lemmas     *)
(* hold for each field of a proof as well as for a value alone.            *)
(***************************************************************************)
EXTENDS BitStream, ProofWire, WireScalars, FiniteSetTheorems, SequenceTheorems, TLAPS

-----------------------------------------------------------------------------
(* Numbers.                                                                *)

LEMMA LeastNumber ==
  ASSUME NEW T \in SUBSET Nat, T # {}
  PROVE  \E m \in T : \A n \in T : m <= n
<1>1. PICK m \in T : \A n \in T : ~(<<n, m>> \in OpToRel(<, Nat))
  BY WFMin, NatLessThanWellFounded
<1>2. \A n \in T : ~(n < m)
  BY <1>1 DEF OpToRel
<1>. QED  BY <1>2

LEMMA Division ==
  ASSUME NEW a \in Nat, NEW b \in Nat, b > 0
  PROVE  /\ a \div b \in Nat /\ a % b \in 0 .. b - 1
         /\ a = b * (a \div b) + (a % b)
  BY Z3

\* Quotient and remainder are determined.
LEMMA DivisionIs ==
  ASSUME NEW a \in Int, NEW b \in Nat, b > 0, NEW k \in Int, NEW r \in 0 .. b - 1,
         a = b * k + r
  PROVE  a % b = r /\ a \div b = k
  BY Z3

\* A power of two counts the subsets.
LEMMA Subsets ==
  ASSUME NEW n \in Nat
  PROVE  IsFiniteSet(SUBSET (1 .. n)) /\ Cardinality(SUBSET (1 .. n)) = 2^n
<1>1. IsFiniteSet(1 .. n) /\ Cardinality(1 .. n) = n
  BY FS_Interval
<1>. QED  BY <1>1, FS_SUBSET

LEMMA PowerType ==
  ASSUME NEW n \in Nat
  PROVE  2^n \in Nat /\ 2^n > 0
<1>. DEFINE S == SUBSET (1 .. n)
<1>1. IsFiniteSet(S) /\ Cardinality(S) = 2^n /\ S # {}
  BY Subsets
<1>. HIDE DEF S
<1>2. Cardinality(S) \in Nat /\ Cardinality(S) # 0
  BY <1>1, FS_CardinalityType, FS_EmptySet
<1>. QED  BY <1>1, <1>2

\* The subsets with n + 1 and those without it.
LEMMA PowerDoubles ==
  ASSUME NEW n \in Nat
  PROVE  2^(n + 1) = 2 * 2^n
<1>. DEFINE A == SUBSET (1 .. n)
            B == {s \in SUBSET (1 .. n + 1) : n + 1 \in s}
            f == [s \in A |-> s \cup {n + 1}]
<1>1. IsFiniteSet(A) /\ Cardinality(A) = 2^n
  BY Subsets
<1>2. 1 .. n + 1 = (1 .. n) \cup {n + 1} /\ n + 1 \notin 1 .. n
  OBVIOUS
<1>3. A \cup B = SUBSET (1 .. n + 1) /\ A \cap B = {}
  BY <1>2, Zenon
<1>4. \A s \in A : f[s] \in B
  BY <1>2
<1>5. \A s \in A, t \in A : f[s] = f[t] => s = t
  <2>1. ASSUME NEW s \in A, NEW t \in A, s \cup {n + 1} = t \cup {n + 1}
        PROVE  s = t
    BY <1>2, <2>1, Zenon
  <2>. QED  BY <2>1
<1>6. \A t \in B : \E s \in A : f[s] = t
  <2>1. ASSUME NEW t \in B
        PROVE  t \ {n + 1} \in A /\ (t \ {n + 1}) \cup {n + 1} = t
    BY <1>2
  <2>. QED  BY <2>1
<1>7. f \in Bijection(A, B)
  <2>1. f \in [A -> B]
    BY <1>4
  <2>. HIDE DEF f, A, B
  <2>2. f \in Injection(A, B)
    BY <1>5, <2>1 DEF Injection, IsInjective
  <2>3. f \in Surjection(A, B)
    BY <1>6, <2>1 DEF Surjection
  <2>. QED  BY <2>2, <2>3 DEF Bijection
<1>. HIDE DEF A, B, f
<1>8. IsFiniteSet(B) /\ Cardinality(B) = 2^n
  BY <1>1, <1>7, FS_Bijection DEF ExistsBijection
<1>9. Cardinality(A \cup B) = 2^n + 2^n - 0
  BY <1>1, <1>3, <1>8, FS_Union, FS_EmptySet
<1>10. Cardinality(SUBSET (1 .. n + 1)) = 2^(n + 1)
  <2>1. n + 1 \in Nat
    OBVIOUS
  <2>. QED  BY <2>1, Subsets
<1>11. 2^(n + 1) = Cardinality(A \cup B)
  BY <1>3, <1>10
<1>12. 2^n \in Nat
  BY PowerType
<1>. QED  BY <1>9, <1>11, <1>12

\* Powers of two grow.
LEMMA PowersGrow ==
  ASSUME NEW m \in Nat, NEW n \in Nat, m <= n
  PROVE  2^m <= 2^n
<1>. DEFINE T == {k \in Nat : k >= m /\ 2^k < 2^m}
<1>1. SUFFICES ASSUME T # {} PROVE FALSE
  BY PowerType
<1>2. PICK k \in T : \A x \in T : k <= x
  BY <1>1, LeastNumber
<1>3. k # m
  BY <1>2, PowerType
<1>4. k - 1 \in Nat /\ k - 1 >= m /\ k - 1 \notin T
  BY <1>2, <1>3
<1>5. 2^(k - 1) >= 2^m /\ 2^(k - 1) \in Nat /\ 2^m \in Nat /\ 2^k \in Nat
  BY <1>4, PowerType
<1>6. 2^((k - 1) + 1) = 2 * 2^(k - 1) /\ (k - 1) + 1 = k
  BY <1>4, PowerDoubles
<1>. QED  BY <1>2, <1>5, <1>6

-----------------------------------------------------------------------------
(* Sums over finite sets.                                                  *)

Pick(s) == CHOOSE x \in s : TRUE

\* g gives on each of the sets the sum of f, element by element.
SumsOn(F, f, g) ==
  \A s \in F : g[s] = IF s = {} THEN 0 ELSE f[Pick(s)] + g[s \ {Pick(s)}]

UpTo(S, n) == {s \in SUBSET S : Cardinality(s) <= n}

LEMMA PickedOut ==
  ASSUME NEW S, IsFiniteSet(S), NEW s \in SUBSET S, s # {}
  PROVE  /\ Pick(s) \in s /\ s \ {Pick(s)} \in SUBSET S
         /\ Cardinality(s) \in Nat \ {0} /\ Cardinality(s \ {Pick(s)}) = Cardinality(s) - 1
<1>1. Pick(s) \in s
  BY DEF Pick
<1>2. IsFiniteSet(s)
  BY FS_Subset
<1>3. Cardinality(s) \in Nat /\ Cardinality(s) # 0
  BY <1>2, FS_CardinalityType, FS_EmptySet
<1>. QED  BY <1>1, <1>2, <1>3, FS_RemoveElement

LEMMA SumsUpTo ==
  ASSUME NEW S, IsFiniteSet(S), NEW f \in [S -> Int]
  PROVE  \A n \in Nat : \E g \in [UpTo(S, n) -> Int] : SumsOn(UpTo(S, n), f, g)
<1>. DEFINE Good(n) == \E g \in [UpTo(S, n) -> Int] : SumsOn(UpTo(S, n), f, g)
            T == {n \in Nat : ~Good(n)}
<1>1. SUFFICES ASSUME T # {} PROVE FALSE
  OBVIOUS
<1>2. PICK n \in T : \A m \in T : n <= m
  BY <1>1, LeastNumber
<1>3. CASE n = 0
  <2>. DEFINE g == [s \in UpTo(S, 0) |-> 0]
  <2>1. \A s \in UpTo(S, 0) : s = {}
    <3>1. ASSUME NEW s \in SUBSET S, Cardinality(s) <= 0, s # {} PROVE FALSE
      <4>1. Cardinality(s) \in Nat \ {0}
        BY <3>1, PickedOut
      <4>. QED  BY <3>1, <4>1
    <3>. QED  BY <3>1 DEF UpTo
  <2>2. g \in [UpTo(S, 0) -> Int] /\ SumsOn(UpTo(S, 0), f, g)
    BY <2>1 DEF SumsOn
  <2>3. Good(0)
    <3>. HIDE DEF g
    <3>. QED  BY <2>2
  <2>. QED  BY <1>3, <2>3
<1>4. CASE n # 0
  <2>1. n - 1 \in Nat /\ n - 1 \notin T
    BY <1>2, <1>4
  <2>2. PICK g \in [UpTo(S, n - 1) -> Int] : SumsOn(UpTo(S, n - 1), f, g)
    BY <2>1
  <2>. DEFINE h == [s \in UpTo(S, n) |-> IF s = {} THEN 0 ELSE f[Pick(s)] + g[s \ {Pick(s)}]]
  <2>3. \A s \in UpTo(S, n) : s # {} => f[Pick(s)] \in Int /\ s \ {Pick(s)} \in UpTo(S, n - 1)
    BY PickedOut DEF UpTo
  <2>4. h \in [UpTo(S, n) -> Int]
    BY <2>3
  <2>5. UpTo(S, n - 1) \subseteq UpTo(S, n)
    <3>1. \A s \in SUBSET S : Cardinality(s) \in Nat
      BY FS_Subset, FS_CardinalityType
    <3>. QED  BY <3>1 DEF UpTo
  <2>6. \A s \in UpTo(S, n - 1) : h[s] = g[s]
    BY <2>2, <2>5 DEF SumsOn
  <2>7. SumsOn(UpTo(S, n), f, h)
    BY <2>3, <2>6 DEF SumsOn
  <2>8. Good(n)
    <3>. HIDE DEF h
    <3>. QED  BY <2>4, <2>7
  <2>. QED  BY <2>8
<1>. QED  BY <1>3, <1>4

LEMMA SumsExist ==
  ASSUME NEW S, IsFiniteSet(S), NEW f \in [S -> Int]
  PROVE  \E g \in [SUBSET S -> Int] : SumsOn(SUBSET S, f, g)
<1>1. Cardinality(S) \in Nat
  BY FS_CardinalityType
<1>2. UpTo(S, Cardinality(S)) = SUBSET S
  BY FS_Subset DEF UpTo
<1>3. \E g \in [UpTo(S, Cardinality(S)) -> Int] : SumsOn(UpTo(S, Cardinality(S)), f, g)
  BY <1>1, SumsUpTo
<1>. QED  BY <1>2, <1>3

LEMMA SumsAreIntegers ==
  ASSUME NEW S, IsFiniteSet(S), NEW f \in [S -> Int], NEW g, SumsOn(SUBSET S, f, g)
  PROVE  \A s \in SUBSET S : g[s] \in Int
<1>. DEFINE Bad == {s \in SUBSET S : g[s] \notin Int}
            T == {Cardinality(s) : s \in Bad}
<1>1. \A s \in SUBSET S : IsFiniteSet(s) /\ Cardinality(s) \in Nat
  BY FS_Subset, FS_CardinalityType
<1>2. SUFFICES ASSUME T # {} PROVE FALSE
  OBVIOUS
<1>3. PICK n \in T : \A m \in T : n <= m
  <2>1. T \in SUBSET Nat
    BY <1>1
  <2>. HIDE DEF T
  <2>. QED  BY <1>2, <2>1, LeastNumber
<1>4. PICK s \in Bad : Cardinality(s) = n
  BY <1>3
<1>5. s # {}
  <2>1. {} \in SUBSET S
    OBVIOUS
  <2>2. g[{}] = 0
    BY <2>1 DEF SumsOn
  <2>3. g[s] \notin Int
    BY <1>4
  <2>4. 0 \in Int
    OBVIOUS
  <2>. QED  BY <2>2, <2>3, <2>4, Zenon
<1>. DEFINE y == Pick(s)
            t == s \ {y}
<1>6. y \in s /\ t \in SUBSET S /\ Cardinality(t) = Cardinality(s) - 1 /\ Cardinality(s) \in Nat
  BY <1>1, <1>5, PickedOut
<1>7. g[s] = f[y] + g[t]
  BY <1>5 DEF SumsOn
<1>8. t \notin Bad
  <2>1. SUFFICES ASSUME t \in Bad PROVE FALSE
    OBVIOUS
  <2>. HIDE DEF t, y
  <2>2. Cardinality(t) \in T
    BY <2>1
  <2>3. n <= Cardinality(t)
    BY <1>3, <2>2
  <2>. QED  BY <1>4, <1>6, <2>3
<1>9. f[y] \in Int /\ g[t] \in Int
  BY <1>6, <1>8
<1>. HIDE DEF t, y
<1>. QED  BY <1>4, <1>7, <1>9

TakesOut(S, f, g) == \A s \in SUBSET S : \A x \in s : g[s] = f[x] + g[s \ {x}]

\* A sum does not depend on the order of its terms.
LEMMA SumTakesOut ==
  ASSUME NEW S, IsFiniteSet(S), NEW f \in [S -> Int], NEW g \in [SUBSET S -> Int],
         SumsOn(SUBSET S, f, g)
  PROVE  TakesOut(S, f, g)
<1>. DEFINE Good(s) == \A x \in s : g[s] = f[x] + g[s \ {x}]
            Bad == {s \in SUBSET S : ~Good(s)}
            T == {Cardinality(s) : s \in Bad}
<1>1. \A s \in SUBSET S : IsFiniteSet(s) /\ Cardinality(s) \in Nat
  BY FS_Subset, FS_CardinalityType
<1>2. SUFFICES ASSUME T # {} PROVE FALSE
  BY DEF TakesOut
<1>3. PICK n \in T : \A m \in T : n <= m
  <2>1. T \in SUBSET Nat
    BY <1>1
  <2>. HIDE DEF T
  <2>. QED  BY <1>2, <2>1, LeastNumber
<1>4. PICK s \in Bad : Cardinality(s) = n
  BY <1>3
<1>5. PICK x \in s : g[s] # f[x] + g[s \ {x}]
  BY <1>4
<1>. DEFINE y == Pick(s)
<1>6. y \in s /\ s \ {y} \in SUBSET S /\ Cardinality(s \ {y}) = Cardinality(s) - 1
  BY <1>5, PickedOut
<1>7. g[s] = f[y] + g[s \ {y}]
  BY <1>5 DEF SumsOn
<1>. HIDE DEF y
<1>8. x # y
  BY <1>5, <1>7
<1>9. \A z \in s : Good(s \ {z})
  <2>1. ASSUME NEW z \in s PROVE s \ {z} \in SUBSET S /\ Cardinality(s \ {z}) < Cardinality(s)
    <3>1. IsFiniteSet(s) /\ Cardinality(s) \in Nat
      BY <1>1
    <3>2. Cardinality(s \ {z}) = Cardinality(s) - 1
      BY <3>1, FS_RemoveElement
    <3>. QED  BY <3>1, <3>2
  <2>2. ASSUME NEW t \in Bad PROVE Cardinality(s) <= Cardinality(t)
    BY <1>3, <1>4
  <2>3. ASSUME NEW z \in s PROVE s \ {z} \notin Bad
    <3>1. SUFFICES ASSUME s \ {z} \in Bad PROVE FALSE
      OBVIOUS
    <3>2. Cardinality(s) <= Cardinality(s \ {z}) /\ Cardinality(s \ {z}) < Cardinality(s)
      BY <2>1, <2>2, <3>1
    <3>3. Cardinality(s) \in Nat /\ Cardinality(s \ {z}) \in Nat
      BY <1>1, <2>1
    <3>. QED  BY <3>2, <3>3
  <2>4. \A z \in s : s \ {z} \in SUBSET S /\ s \ {z} \notin Bad
    BY <2>1, <2>3
  <2>. QED  BY <2>4
<1>10. g[s \ {y}] = f[x] + g[(s \ {y}) \ {x}]
  BY <1>6, <1>8, <1>9
<1>11. g[s \ {x}] = f[y] + g[(s \ {x}) \ {y}]
  BY <1>6, <1>8, <1>9
<1>. DEFINE G == g[(s \ {y}) \ {x}]
<1>12. g[s \ {x}] = f[y] + G /\ g[s \ {y}] = f[x] + G
  <2>1. (s \ {x}) \ {y} = (s \ {y}) \ {x}
    OBVIOUS
  <2>. QED  BY <1>10, <1>11, <2>1
<1>13. /\ f[x] \in Int /\ f[y] \in Int /\ (s \ {y}) \ {x} \in SUBSET S
       /\ G \in Int
  BY <1>6
<1>. HIDE DEF G
<1>14. g[s] = f[y] + (f[x] + G) /\ g[s] # f[x] + (f[y] + G)
  BY <1>5, <1>7, <1>12
<1>. QED  BY <1>13, <1>14

-----------------------------------------------------------------------------
(* The digits of a number.                                                 *)

Digit(v, i) == (v \div 2^(i - 1)) % 2

\* One more digit.
LEMMA OneMoreDigit ==
  ASSUME NEW v \in Nat, NEW p \in Nat, p > 0
  PROVE  /\ v % (2 * p) = (v % p) + ((v \div p) % 2) * p
         /\ (v \div p) % 2 \in {0, 1} /\ v % p \in Nat
<1>. DEFINE a == v \div p
            c == a \div 2
            d == a % 2
            e == v % p
<1>1. a \in Nat /\ e \in 0 .. p - 1 /\ v = p * a + e
  BY Division
<1>. HIDE DEF a, e
<1>2. c \in Nat /\ d \in {0, 1} /\ a = 2 * c + d
  BY <1>1, Z3
<1>. HIDE DEF c, d
<1>3. CASE d = 0
  <2>1. v = (2 * p) * c + e
    BY <1>1, <1>2, <1>3, Z3
  <2>2. e \in 0 .. 2 * p - 1 /\ 2 * p \in Nat /\ 2 * p > 0
    BY <1>1
  <2>3. v % (2 * p) = e
    BY <1>2, <2>1, <2>2, DivisionIs
  <2>4. 0 * p = 0
    OBVIOUS
  <2>. QED  BY <1>1, <1>2, <1>3, <2>3, <2>4 DEF a, e, d
<1>4. CASE d = 1
  <2>1. v = (2 * p) * c + (e + p)
    BY <1>1, <1>2, <1>4, Z3
  <2>2. e + p \in 0 .. 2 * p - 1 /\ 2 * p \in Nat /\ 2 * p > 0
    BY <1>1
  <2>3. v % (2 * p) = e + p
    BY <1>2, <2>1, <2>2, DivisionIs
  <2>4. 1 * p = p
    OBVIOUS
  <2>. QED  BY <1>1, <1>2, <1>4, <2>3, <2>4 DEF a, e, d
<1>. QED  BY <1>2, <1>3, <1>4

\* The lowest n digits are the remainder modulo 2^n.
LEMMA DigitsSum ==
  ASSUME NEW v \in Nat, NEW n \in Nat, NEW f \in [1 .. n -> Int],
         \A i \in 1 .. n : f[i] = Digit(v, i) * 2^(i - 1),
         NEW g \in [SUBSET (1 .. n) -> Int], SumsOn(SUBSET (1 .. n), f, g)
  PROVE  g[1 .. n] = v % 2^n
<1>. DEFINE T == {m \in 0 .. n : g[1 .. m] # v % 2^m}
<1>1. SUFFICES ASSUME T # {} PROVE FALSE
  OBVIOUS
<1>2. PICK m \in T : \A k \in T : m <= k
  <2>1. T \in SUBSET Nat
    OBVIOUS
  <2>. HIDE DEF T
  <2>. QED  BY <1>1, <2>1, LeastNumber
<1>3. CASE m = 0
  <2>1. g[1 .. 0] = 0
    <3>1. 1 .. 0 = {} /\ {} \in SUBSET (1 .. n)
      OBVIOUS
    <3>2. g[{}] = 0
      BY <3>1 DEF SumsOn
    <3>. QED  BY <3>1, <3>2
  <2>2. v % 2^0 = 0
    BY Z3
  <2>. QED  BY <1>2, <1>3, <2>1, <2>2
<1>4. CASE m # 0
  <2>. DEFINE p == 2^(m - 1)
  <2>1. m - 1 \in 0 .. n /\ m - 1 \notin T /\ m \in 1 .. n /\ m - 1 \in Nat
    BY <1>2, <1>4
  <2>2. p \in Nat /\ p > 0
    BY <2>1, PowerType
  <2>3. 2^m = 2 * p
    <3>1. (m - 1) + 1 = m
      BY <2>1
    <3>. QED  BY <2>1, <3>1, PowerDoubles
  <2>. HIDE DEF p
  <2>4. g[1 .. m - 1] = v % p
    BY <2>1 DEF p
  <2>5. (1 .. m) \ {m} = 1 .. m - 1 /\ m \in 1 .. m /\ 1 .. m \in SUBSET (1 .. n)
    BY <2>1
  <2>6. g[1 .. m] = f[m] + g[1 .. m - 1]
    <3>1. IsFiniteSet(1 .. n)
      BY FS_Interval
    <3>2. \A s \in SUBSET (1 .. n) : \A x \in s : g[s] = f[x] + g[s \ {x}]
      <4>. DEFINE S == 1 .. n
      <4>1. IsFiniteSet(S) /\ f \in [S -> Int] /\ g \in [SUBSET S -> Int] /\ SumsOn(SUBSET S, f, g)
        BY <3>1
      <4>. HIDE DEF S
      <4>2. TakesOut(S, f, g)
        BY ONLY <4>1, SumTakesOut
      <4>. QED  BY <4>2 DEF S, TakesOut
    <3>3. g[1 .. m] = f[m] + g[(1 .. m) \ {m}]
      BY <2>5, <3>2
    <3>. QED  BY <2>5, <3>3
  <2>7. f[m] = ((v \div p) % 2) * p
    BY <2>1 DEF Digit, p
  <2>8. v % (2 * p) = (v % p) + ((v \div p) % 2) * p
    BY <2>2, OneMoreDigit
  <2>9. v % p \in Nat /\ f[m] \in Int
    BY <2>1, <2>2, OneMoreDigit
  <2>10. g[1 .. m] = v % 2^m
    BY <2>3, <2>4, <2>6, <2>7, <2>8, <2>9
  <2>. QED  BY <1>2, <2>10
<1>. QED  BY <1>3, <1>4

\* Reading n places whose bits are the digits of v.
LEMMA ReadDigits ==
  ASSUME NEW s, NEW a \in Nat, NEW v \in Nat, NEW n \in Nat,
         Len(s) \in Nat, a + n <= Len(s),
         \A i \in 1 .. n : s[a + i] = Digit(v, i)
  PROVE  ReadBits(s, a, n) = Ok(v % 2^n, a + n)
<1>. DEFINE f == [i \in 1 .. n |-> s[a + i] * 2^(i - 1)]
            IsSum(h) == h = [t \in SUBSET (1 .. n) |->
                               IF t = {} THEN 0 ELSE s[a + Pick(t)] * 2^(Pick(t) - 1) + h[t \ {Pick(t)}]]
            total == CHOOSE h : IsSum(h)
<1>1. ReadBits(s, a, n) = Ok(total[1 .. n], a + n)
  BY DEF ReadBits, MapThenSumSet, MapThenFoldSet, Pick
<1>2. f \in [1 .. n -> Int] /\ \A i \in 1 .. n : f[i] = Digit(v, i) * 2^(i - 1)
  <2>1. ASSUME NEW i \in 1 .. n
        PROVE  /\ s[a + i] * 2^(i - 1) = Digit(v, i) * 2^(i - 1)
               /\ s[a + i] * 2^(i - 1) \in Int
    <3>1. i - 1 \in Nat
      OBVIOUS
    <3>. DEFINE p == 2^(i - 1)
    <3>2. p \in Nat /\ p > 0
      BY <3>1, PowerType
    <3>3. Digit(v, i) \in {0, 1}
      <4>. HIDE DEF p
      <4>1. (v \div p) % 2 \in {0, 1}
        BY <3>2, OneMoreDigit
      <4>. QED  BY <4>1 DEF Digit, p
    <3>. HIDE DEF p
    <3>4. Digit(v, i) * p \in Int
      BY <3>2, <3>3
    <3>. QED  BY <3>4 DEF p
  <2>. QED  BY <2>1
<1>3. IsFiniteSet(1 .. n)
  BY FS_Interval
<1>4. \A t \in SUBSET (1 .. n) : t # {} => f[Pick(t)] = s[a + Pick(t)] * 2^(Pick(t) - 1)
  BY DEF Pick
<1>. HIDE DEF f
<1>5. \E h \in [SUBSET (1 .. n) -> Int] : SumsOn(SUBSET (1 .. n), f, h)
  <2>. DEFINE S == 1 .. n
  <2>1. IsFiniteSet(S) /\ f \in [S -> Int]
    BY <1>2, <1>3
  <2>. HIDE DEF S
  <2>2. \E h \in [SUBSET S -> Int] : SumsOn(SUBSET S, f, h)
    BY ONLY <2>1, SumsExist
  <2>. QED  BY <2>2 DEF S
<1>6. \E h : IsSum(h)
  BY <1>4, <1>5, ZenonT(60) DEF SumsOn
<1>7. IsSum(total)
  <2>. HIDE DEF IsSum
  <2>. QED  BY ONLY <1>6, ZenonT(60) DEF total
<1>. HIDE DEF total
<1>8. SumsOn(SUBSET (1 .. n), f, total) /\ DOMAIN total = SUBSET (1 .. n)
      /\ total = [t \in SUBSET (1 .. n) |-> total[t]]
  BY <1>4, <1>7 DEF SumsOn
<1>9. total \in [SUBSET (1 .. n) -> Int]
  <2>. DEFINE S == 1 .. n
  <2>1. IsFiniteSet(S) /\ f \in [S -> Int] /\ SumsOn(SUBSET S, f, total)
    BY <1>2, <1>3, <1>8
  <2>. HIDE DEF S
  <2>2. \A t \in SUBSET S : total[t] \in Int
    BY ONLY <2>1, SumsAreIntegers
  <2>. QED  BY <1>8, <2>2 DEF S
<1>10. total[1 .. n] = v % 2^n
  BY <1>2, <1>8, <1>9, DigitsSum
<1>. QED  BY <1>1, <1>10

-----------------------------------------------------------------------------
(* Codes in a stream.                                                      *)

Bit == {0, 1}

\* The stream holds c after its first a bits.
Stands(s, a, c) ==
  /\ a \in Nat /\ Len(s) \in Nat /\ a + Len(c) <= Len(s)
  /\ \A i \in 1 .. Len(c) : s[a + i] = c[i]

LEMMA StandsInTurn ==
  ASSUME NEW s, NEW a, NEW S, NEW c \in Seq(S), NEW d \in Seq(S), Stands(s, a, c \o d)
  PROVE  Stands(s, a, c) /\ Stands(s, a + Len(c), d)
<1>1. /\ Len(c) \in Nat /\ Len(d) \in Nat /\ Len(c \o d) = Len(c) + Len(d)
      /\ \A i \in 1 .. Len(c) + Len(d) : (c \o d)[i] = IF i <= Len(c) THEN c[i] ELSE d[i - Len(c)]
  BY ConcatProperties, LenProperties
<1>. DEFINE m == Len(c)
            n == Len(d)
            e == c \o d
<1>2. /\ m \in Nat /\ n \in Nat /\ a \in Nat /\ Len(s) \in Nat /\ a + (m + n) <= Len(s)
      /\ \A i \in 1 .. m + n : s[a + i] = e[i] /\ e[i] = IF i <= m THEN c[i] ELSE d[i - m]
  BY <1>1 DEF Stands
<1>. HIDE DEF m, n, e
<1>3. \A i \in 1 .. m : s[a + i] = c[i]
  BY <1>2
<1>4. \A i \in 1 .. n : s[(a + m) + i] = d[i]
  <2>1. ASSUME NEW i \in 1 .. n
        PROVE  s[(a + m) + i] = d[i]
    <3>1. m + i \in 1 .. m + n /\ ~(m + i <= m) /\ (m + i) - m = i /\ a + (m + i) = (a + m) + i
      BY <1>2
    <3>2. s[a + (m + i)] = e[m + i] /\ e[m + i] = d[(m + i) - m]
      BY <1>2, <3>1
    <3>. QED  BY <3>1, <3>2
  <2>. QED  BY <2>1
<1>5. a + m \in Nat /\ a + m <= Len(s) /\ (a + m) + n <= Len(s)
  BY <1>2
<1>6. Stands(s, a, c)
  BY <1>2, <1>3, <1>5 DEF Stands, m
<1>7. Stands(s, a + m, d)
  BY <1>2, <1>4, <1>5 DEF Stands, n
<1>. QED  BY <1>6, <1>7 DEF m

LEMMA DigitType ==
  ASSUME NEW v \in Nat, NEW i \in Nat, i > 0
  PROVE  Digit(v, i) \in Bit
<1>. DEFINE p == 2^(i - 1)
<1>1. p \in Nat /\ p > 0
  BY PowerType
<1>. HIDE DEF p
<1>2. (v \div p) % 2 \in {0, 1}
  BY <1>1, OneMoreDigit
<1>. QED  BY <1>2 DEF Digit, Bit, p

LEMMA BitsType ==
  ASSUME NEW v \in Nat, NEW n \in Nat
  PROVE  /\ Bits(v, n) \in Seq(Bit) /\ Len(Bits(v, n)) = n
         /\ \A i \in 1 .. n : Bits(v, n)[i] = Digit(v, i)
<1>1. Bits(v, n) = [i \in 1 .. n |-> Digit(v, i)]
  BY DEF Bits, Digit
<1>2. \A i \in 1 .. n : Digit(v, i) \in Bit
  BY DigitType
<1>. QED  BY <1>1, <1>2

LEMMA BitsRead ==
  ASSUME NEW s, NEW a, NEW v \in Nat, NEW n \in Nat, Stands(s, a, Bits(v, n))
  PROVE  ReadBits(s, a, n) = Ok(v % 2^n, a + n)
<1>1. /\ a \in Nat /\ Len(s) \in Nat /\ a + n <= Len(s)
      /\ \A i \in 1 .. n : s[a + i] = Digit(v, i)
  BY BitsType DEF Stands
<1>. QED  BY <1>1, ReadDigits

LEMMA Modulo ==
  ASSUME NEW v \in Nat, NEW b \in Nat, v < b
  PROVE  v % b = v
  BY Z3

\* A number that fits its bits.
LEMMA NumberRead ==
  ASSUME NEW s, NEW a, NEW n \in Nat, NEW v \in Nat, v < 2^n, Stands(s, a, Bits(v, n))
  PROVE  ReadBits(s, a, n) = Ok(v, a + n)
<1>1. v % 2^n = v
  BY PowerType, Modulo
<1>. QED  BY <1>1, BitsRead

-----------------------------------------------------------------------------
(* write_len and read_len.                                                 *)

LEMMA BitLengthIs ==
  ASSUME NEW v \in Nat, NEW w \in Nat, w <= Word, v < 2^w
  PROVE  /\ BitLength(v) \in 0 .. w /\ v < 2^BitLength(v)
         /\ BitLength(v) = 0 => v = 0
<1>. DEFINE T == {n \in Nat : v < 2^n}
            IsLength(n) == v < 2^n /\ (n > 0 => 2^(n - 1) <= v)
<1>1. T \in SUBSET Nat /\ w \in T
  OBVIOUS
<1>2. PICK n \in T : \A m \in T : n <= m
  <2>. HIDE DEF T
  <2>. QED  BY <1>1, LeastNumber
<1>3. n \in 0 .. w /\ n \in 0 .. Word
  BY <1>1, <1>2, CodesAssumption
<1>4. IsLength(n)
  <2>1. CASE n > 0
    <3>1. n - 1 \in Nat /\ n - 1 \notin T
      BY <1>2, <2>1
    <3>. QED  BY <1>2, <3>1, PowerType
  <2>. QED  BY <1>2, <2>1
<1>5. BitLength(v) \in 0 .. Word /\ IsLength(BitLength(v))
  BY <1>3, <1>4, Zenon DEF BitLength
<1>. DEFINE b == BitLength(v)
<1>6. b \in Nat /\ v < 2^b /\ (b > 0 => 2^(b - 1) <= v)
  BY <1>5
<1>. HIDE DEF b
<1>7. b <= w
  <2>1. SUFFICES ASSUME w < b PROVE FALSE
    BY <1>6
  <2>2. b - 1 \in Nat /\ w <= b - 1
    BY <1>6, <2>1
  <2>3. 2^w <= 2^(b - 1) /\ 2^w \in Nat /\ 2^(b - 1) \in Nat
    BY <2>2, PowersGrow, PowerType
  <2>. QED  BY <1>6, <2>1, <2>3
<1>8. b = 0 => v = 0
  BY <1>6
<1>. QED  BY <1>6, <1>7, <1>8 DEF b

LEMMA LenCodeType ==
  ASSUME NEW v \in Nat, NEW w \in Nat, w <= Word, v < 2^w
  PROVE  LenCode(v) \in Seq(Bit) /\ Len(LenCode(v)) = LenWidth + BitLength(v)
<1>. DEFINE b == BitLength(v)
<1>1. b \in Nat
  BY BitLengthIs
<1>. HIDE DEF b
<1>2. /\ Bits(b, LenWidth) \in Seq(Bit) /\ Len(Bits(b, LenWidth)) = LenWidth
      /\ Bits(v, b) \in Seq(Bit) /\ Len(Bits(v, b)) = b
  BY <1>1, BitsType, CodesAssumption
<1>3. LenCode(v) = Bits(b, LenWidth) \o Bits(v, b)
  BY DEF LenCode, b
<1>. QED  BY <1>2, <1>3, ConcatProperties DEF b

\* A length shorter than a word is read back.
LEMMA LenRead ==
  ASSUME NEW s, NEW a, NEW v \in Nat, v < 2^(Word - 1), Stands(s, a, LenCode(v))
  PROVE  ReadLen(s, a) = Ok(v, a + Len(LenCode(v)))
<1>. DEFINE b == BitLength(v)
<1>1. Word - 1 \in Nat /\ Word \in Nat /\ LenWidth \in Nat
  BY CodesAssumption
<1>2. b \in 0 .. Word - 1 /\ v < 2^b /\ (b = 0 => v = 0)
  BY <1>1, BitLengthIs
<1>3. Len(LenCode(v)) = LenWidth + b
  BY <1>1, LenCodeType
<1>. HIDE DEF b
<1>4. b < 2^LenWidth /\ b \in Nat
  <2>1. Word <= 2^LenWidth
    BY CodesAssumption
  <2>2. 2^LenWidth \in Nat
    BY <1>1, PowerType
  <2>. QED  BY <1>1, <1>2, <2>1, <2>2
<1>5. /\ Bits(b, LenWidth) \in Seq(Bit) /\ Len(Bits(b, LenWidth)) = LenWidth
      /\ Bits(v, b) \in Seq(Bit) /\ Len(Bits(v, b)) = b
  BY <1>1, <1>4, BitsType
<1>6. LenCode(v) = Bits(b, LenWidth) \o Bits(v, b)
  BY DEF LenCode, b
<1>7. Stands(s, a, Bits(b, LenWidth)) /\ Stands(s, a + LenWidth, Bits(v, b))
  BY <1>5, <1>6, StandsInTurn
<1>8. ReadBits(s, a, LenWidth) = Ok(b, a + LenWidth)
  BY <1>1, <1>4, <1>7, NumberRead
<1>9. ReadBits(s, a + LenWidth, b) = Ok(v, (a + LenWidth) + b)
  BY <1>2, <1>4, <1>7, NumberRead
<1>10. a \in Nat /\ (a + LenWidth) + b = a + (LenWidth + b)
  BY <1>1, <1>4, <1>7 DEF Stands
<1>11. /\ ReadBits(s, a, LenWidth).ok /\ ReadBits(s, a, LenWidth).value = b
       /\ ReadBits(s, a, LenWidth).at = a + LenWidth
  BY <1>8 DEF Ok
<1>12. CASE b = 0
  <2>1. ReadLen(s, a) = Ok(0, a + LenWidth)
    BY <1>8, <1>11, <1>12 DEF ReadLen
  <2>. QED  BY <1>1, <1>2, <1>3, <1>10, <1>12, <2>1
<1>13. CASE b # 0
  <2>1. ~(b > Word)
    BY <1>1, <1>2
  <2>2. ReadLen(s, a) = ReadBits(s, a + LenWidth, b)
    BY <1>11, <1>13, <2>1 DEF ReadLen
  <2>. QED  BY <1>3, <1>9, <1>10, <2>2
<1>. QED  BY <1>12, <1>13

-----------------------------------------------------------------------------
(* write_gr and read_gr.                                                   *)

Quotient(v, k) == v \div 2^k

LEMMA QuotientIs ==
  ASSUME NEW v \in Nat, NEW k \in Nat
  PROVE  /\ Quotient(v, k) \in Nat /\ v % 2^k \in Nat /\ v % 2^k < 2^k
         /\ v = Quotient(v, k) * 2^k + (v % 2^k) /\ Quotient(v, k) * 2^k \in Nat
<1>. DEFINE p == 2^k
            q == v \div p
            e == v % p
<1>1. p \in Nat /\ p > 0
  BY PowerType
<1>. HIDE DEF p
<1>2. q \in Nat /\ e \in 0 .. p - 1 /\ v = p * q + e
  BY <1>1, Division
<1>. HIDE DEF q, e
<1>3. p * q = q * p /\ q * p \in Nat
  BY <1>1, <1>2, SMT
<1>4. v = q * p + e
  BY <1>2, <1>3
<1>5. e \in Nat /\ e < p
  BY <1>1, <1>2
<1>. QED  BY <1>2, <1>3, <1>4, <1>5 DEF Quotient, q, e, p

LEMMA OnesType ==
  ASSUME NEW n \in Nat
  PROVE  /\ Ones(n) \in Seq(Bit) /\ Len(Ones(n)) = n /\ \A i \in 1 .. n : Ones(n)[i] = 1
BY DEF Ones, Bit

LEMMA RiceCodeType ==
  ASSUME NEW v \in Nat, NEW k \in Nat
  PROVE  RiceCode(v, k) \in Seq(Bit) /\ Len(RiceCode(v, k)) = Quotient(v, k) + 1 + k
<1>. DEFINE q == Quotient(v, k)
            e == v % 2^k
<1>1. q \in Nat /\ e \in Nat
  BY QuotientIs
<1>2. RiceCode(v, k) = Ones(q) \o <<0>> \o Bits(e, k)
  BY DEF RiceCode, Quotient
<1>. HIDE DEF q, e
<1>3. Ones(q) \in Seq(Bit) /\ Len(Ones(q)) = q
  BY <1>1, OnesType
<1>4. <<0>> \in Seq(Bit) /\ Len(<<0>>) = 1
  BY DEF Bit
<1>5. Bits(e, k) \in Seq(Bit) /\ Len(Bits(e, k)) = k
  BY <1>1, BitsType
<1>6. Ones(q) \o <<0>> \in Seq(Bit) /\ Len(Ones(q) \o <<0>>) = q + 1
  BY <1>3, <1>4, ConcatProperties
<1>7. /\ (Ones(q) \o <<0>>) \o Bits(e, k) \in Seq(Bit)
      /\ Len((Ones(q) \o <<0>>) \o Bits(e, k)) = q + 1 + k
  BY <1>5, <1>6, ConcatProperties
<1>. QED  BY <1>2, <1>7 DEF q

\* Where the first zero is.
LEMMA FirstZero ==
  ASSUME NEW s, NEW a \in Nat, NEW q \in Nat, Len(s) \in Nat, a + q + 1 <= Len(s),
         \A i \in 1 .. q : s[a + i] = 1, s[a + q + 1] = 0
  PROVE  LET zeros == {i \in a + 1 .. Len(s) : s[i] = 0}
         IN  zeros # {} /\ Min(zeros) = a + q + 1
<1>. DEFINE zeros == {i \in a + 1 .. Len(s) : s[i] = 0}
            z == a + q + 1
<1>1. z \in zeros
  OBVIOUS
<1>2. ASSUME NEW i \in zeros PROVE z <= i
  <2>1. SUFFICES ASSUME i < z PROVE FALSE
    OBVIOUS
  <2>2. i - a \in 1 .. q /\ a + (i - a) = i
    BY <2>1
  <2>3. s[i] = 1
    BY <2>2
  <2>. QED  BY <2>3
<1>3. \A i \in zeros : i \in Int
  OBVIOUS
<1>. HIDE DEF zeros
<1>4. \E x \in zeros : \A y \in zeros : x =< y
  BY <1>1, <1>2
<1>5. Min(zeros) \in zeros /\ \A y \in zeros : Min(zeros) =< y
  BY <1>4, Zenon DEF Min
<1>6. Min(zeros) = z
  BY <1>1, <1>2, <1>3, <1>5
<1>. QED  BY <1>1, <1>6 DEF zeros

\* A Golomb-Rice code is read back unless its quotient is over the limit.
LEMMA RiceRead ==
  ASSUME NEW s, NEW a, NEW v \in Nat, NEW k \in Nat, v < 2^Word, Stands(s, a, RiceCode(v, k))
  PROVE  ReadRice(s, a, k) = IF Quotient(v, k) > UnaryMax THEN Refused(a)
                             ELSE Ok(v, a + Len(RiceCode(v, k)))
<1>. DEFINE q == Quotient(v, k)
            e == v % 2^k
            c == Ones(q) \o <<0>>
<1>1. q \in Nat /\ e \in Nat /\ e < 2^k /\ v = q * 2^k + e /\ q * 2^k \in Nat
  BY QuotientIs
<1>2. RiceCode(v, k) = c \o Bits(e, k)
  BY DEF RiceCode, Quotient
<1>3. Len(RiceCode(v, k)) = q + 1 + k
  BY RiceCodeType
<1>. HIDE DEF q, e
<1>4. /\ Ones(q) \in Seq(Bit) /\ Len(Ones(q)) = q /\ \A i \in 1 .. q : Ones(q)[i] = 1
      /\ <<0>> \in Seq(Bit) /\ Len(<<0>>) = 1 /\ <<0>>[1] = 0
  BY <1>1, OnesType DEF Bit
<1>5. c \in Seq(Bit) /\ Len(c) = q + 1
  BY <1>4, ConcatProperties
<1>6. Bits(e, k) \in Seq(Bit)
  BY <1>1, BitsType
<1>. HIDE DEF c
<1>7. Stands(s, a, c) /\ Stands(s, a + (q + 1), Bits(e, k))
  BY <1>2, <1>5, <1>6, StandsInTurn
<1>8. Stands(s, a, Ones(q)) /\ Stands(s, a + q, <<0>>)
  BY <1>4, <1>7, StandsInTurn DEF c
<1>9. /\ a \in Nat /\ Len(s) \in Nat /\ a + q + 1 <= Len(s)
      /\ \A i \in 1 .. q : s[a + i] = 1
  BY <1>1, <1>4, <1>8 DEF Stands
<1>10. s[a + q + 1] = 0
  BY <1>4, <1>8 DEF Stands
<1>. DEFINE zeros == {i \in a + 1 .. Len(s) : s[i] = 0}
<1>11. zeros # {} /\ Min(zeros) = a + q + 1
  BY <1>1, <1>9, <1>10, FirstZero
<1>12. ReadBits(s, a + (q + 1), k) = Ok(e, (a + (q + 1)) + k)
  BY <1>1, <1>7, NumberRead
<1>13. a + q + 1 = a + (q + 1) /\ (a + q + 1) - a - 1 = q /\ (a + (q + 1)) + k = a + (q + 1 + k)
  BY <1>1, <1>9
<1>14. ((q * 2^k) % 2^Word) + e = v
  <2>1. q * 2^k < 2^Word /\ 2^Word \in Nat
    BY <1>1, PowerType, CodesAssumption
  <2>2. (q * 2^k) % 2^Word = q * 2^k
    BY <1>1, <2>1, Modulo
  <2>. QED  BY <1>1, <2>2
<1>. DEFINE rest == ReadBits(s, a + q + 1, k)
<1>15. rest.ok /\ rest.value = e /\ rest.at = a + (q + 1 + k)
  BY <1>12, <1>13 DEF Ok
<1>16. ReadRice(s, a, k) = IF q > UnaryMax THEN Refused(a)
                           ELSE Ok(((q * 2^k) % 2^Word) + e, a + (q + 1 + k))
  <2>1. ReadRice(s, a, k) =
          IF (a + q + 1) - a - 1 > UnaryMax \/ ~rest.ok THEN Refused(a)
          ELSE Ok(((((a + q + 1) - a - 1) * 2^k) % 2^Word) + rest.value, rest.at)
    BY <1>11 DEF ReadRice
  <2>. HIDE DEF rest
  <2>. QED  BY <1>13, <1>15, <2>1
<1>. QED  BY <1>3, <1>14, <1>16 DEF q

-----------------------------------------------------------------------------
(* Signed numbers.                                                         *)

LEMMA WordDoubles ==
  /\ 2^Word = 2 * 2^(Word - 1) /\ 2^(Word - 1) \in Nat /\ 2^(Word - 1) > 0
  /\ 2^Word \in Nat /\ 2^Word > 0
<1>1. Word - 1 \in Nat /\ (Word - 1) + 1 = Word /\ Word \in Nat
  BY CodesAssumption
<1>2. 2^((Word - 1) + 1) = 2 * 2^(Word - 1)
  BY <1>1, PowerDoubles
<1>. QED  BY <1>1, <1>2, PowerType

\* The double of a negative word loses its sign, and its complement is odd.
LEMMA ZigzagIs ==
  ASSUME NEW x \in Signed
  PROVE  ZigzagEncode(x) = IF x < 0 THEN -(2 * x) - 1 ELSE 2 * x
<1>. DEFINE h == 2^(Word - 1)
            w == 2^Word
<1>1. h \in Nat /\ h > 0 /\ w = 2 * h /\ w \in Nat /\ w > 0
  BY WordDoubles
<1>2. x \in Int /\ -h <= x /\ x < h
  BY <1>1 DEF Signed
<1>3. ZigzagEncode(x) = IF x < 0 THEN w - 1 - ((2 * x) % w) ELSE (2 * x) % w
  BY DEF ZigzagEncode, Complement
<1>. HIDE DEF h, w
<1>4. CASE x < 0
  <2>1. 2 * x + w \in 0 .. w - 1 /\ 2 * x = w * (-1) + (2 * x + w)
    BY <1>1, <1>2, <1>4
  <2>. DEFINE y == 2 * x
              e == 2 * x + w
  <2>2. y \in Int /\ e \in 0 .. w - 1 /\ y = w * (-1) + e /\ -1 \in Int
    BY <1>2, <2>1
  <2>. HIDE DEF y, e
  <2>3. y % w = e
    BY <1>1, <2>2, DivisionIs
  <2>4. (2 * x) % w = 2 * x + w
    BY <2>3 DEF y, e
  <2>. QED  BY <1>1, <1>2, <1>3, <1>4, <2>4
<1>5. CASE x >= 0
  <2>1. 2 * x \in Nat /\ 2 * x < w
    BY <1>1, <1>2, <1>5
  <2>2. (2 * x) % w = 2 * x
    BY <1>1, <2>1, Modulo
  <2>. QED  BY <1>2, <1>3, <1>5, <2>2
<1>. QED  BY <1>2, <1>4, <1>5

LEMMA ZigzagInverse ==
  ASSUME NEW x \in Signed
  PROVE  ZigzagEncode(x) \in Unsigned /\ ZigzagDecode(ZigzagEncode(x)) = x
<1>. DEFINE h == 2^(Word - 1)
            u == ZigzagEncode(x)
<1>1. h \in Nat /\ h > 0 /\ 2^Word = 2 * h
  BY WordDoubles
<1>2. x \in Int /\ -h <= x /\ x < h
  BY <1>1 DEF Signed
<1>3. u = IF x < 0 THEN -(2 * x) - 1 ELSE 2 * x
  BY ZigzagIs
<1>. HIDE DEF h, u
<1>4. u \in Unsigned
  BY <1>1, <1>2, <1>3 DEF Unsigned
<1>5. CASE x < 0
  <2>1. u = 2 * (-x - 1) + 1 /\ -x - 1 \in Int
    BY <1>2, <1>3, <1>5
  <2>2. u % 2 = 1 /\ u \div 2 = -x - 1
    BY <2>1, Z3
  <2>3. ZigzagDecode(u) = -(-x - 1) - 1
    BY <2>2 DEF ZigzagDecode
  <2>. QED  BY <1>2, <1>4, <2>3 DEF u
<1>6. CASE x >= 0
  <2>1. u = 2 * x
    BY <1>2, <1>3, <1>6
  <2>2. u % 2 = 0 /\ u \div 2 = x
    BY <1>2, <2>1, Z3
  <2>3. ZigzagDecode(u) = x
    BY <2>2 DEF ZigzagDecode
  <2>. QED  BY <1>4, <2>3 DEF u
<1>. QED  BY <1>2, <1>5, <1>6

\* A residue is centered on the same side by writer and reader.
LEMMA ResidueInverse ==
  ASSUME NEW q \in 1 .. 2^Word - 1, NEW u \in 0 .. q - 1
  PROVE  SignedOf(u, q) \in Signed /\ SignedResidue(SignedOf(u, q), q) = u
<1>. DEFINE h == 2^(Word - 1)
            m == q \div 2
<1>1. h \in Nat /\ h > 0 /\ 2^Word = 2 * h
  BY WordDoubles
<1>2. q \in Nat /\ q > 0 /\ q <= 2 * h - 1 /\ u \in Nat /\ u < q
  BY <1>1
<1>3. m \in Nat /\ 2 * m <= q /\ q <= 2 * m + 1
  BY <1>2, Z3
<1>. HIDE DEF h, m
<1>4. CASE u <= m
  <2>1. SignedOf(u, q) = u
    BY <1>4 DEF SignedOf, m
  <2>2. u % q = u
    BY <1>2, Modulo
  <2>3. u \in Signed
    BY <1>1, <1>2, <1>3, <1>4 DEF Signed, h
  <2>. QED  BY <2>1, <2>2, <2>3 DEF SignedResidue
<1>5. CASE ~(u <= m)
  <2>1. SignedOf(u, q) = u - q
    BY <1>5 DEF SignedOf, m
  <2>. DEFINE x == u - q
  <2>2. x \in Int /\ x = q * (-1) + u /\ -1 \in Int /\ u \in 0 .. q - 1
    BY <1>2
  <2>3. x % q = u
    <3>. HIDE DEF x
    <3>. QED  BY <1>2, <2>2, DivisionIs
  <2>4. x \in Signed
    BY <1>1, <1>2, <1>3, <1>5 DEF Signed, h
  <2>. QED  BY <2>1, <2>3, <2>4 DEF SignedResidue
<1>. QED  BY <1>4, <1>5

-----------------------------------------------------------------------------
(* One value through one code (WireScalars).                               *)

\* What the reader of a code returns: u is the word that is coded.
Answer(u, k, back, b) ==
  IF Quotient(u, k) > UnaryMax THEN Refused(3) ELSE Ok(back, b)

LEMMA RiceAnswer ==
  ASSUME NEW s, NEW u \in Unsigned, NEW k \in Nat, Stands(s, 3, RiceCode(u, k))
  PROVE  ReadRice(s, 3, k) = Answer(u, k, u, 3 + Len(RiceCode(u, k)))
<1>1. u \in Nat /\ u < 2^Word
  BY WordDoubles DEF Unsigned
<1>. QED  BY <1>1, RiceRead DEF Answer

KindOK ==
  \/ kind = "len" /\ value \in Unsigned /\ param = 0
  \/ kind = "rice" /\ value \in Unsigned /\ param \in Params
  \/ kind = "signed" /\ value \in Signed /\ param \in Params
  \/ kind = "coefficient" /\ param \in Moduli /\ value \in 0 .. param - 1

Held == stream = <<>> \/ stream = Before \o Code \o After

\* What is written holds still, and is all that was read.
ScalarsInv == KindOK /\ Held /\ (stream = <<>> => answer = Unread) /\ ReadsBack

\* The word that a code other than a length's is for.
Coded ==
  IF kind = "rice" THEN value
  ELSE IF kind = "signed" THEN ZigzagEncode(value)
  ELSE ZigzagEncode(SignedOf(value, param))

Width == IF kind = "coefficient" THEN 1 ELSE param

LEMMA CodeIs ==
  ASSUME ScalarsAssumption, KindOK
  PROVE  /\ kind = "len" => Code = LenCode(value)
         /\ kind # "len" => /\ Code = RiceCode(Coded, Width)
                            /\ Coded \in Unsigned /\ Width \in Nat
<1>1. kind = "len" => Code = LenCode(value)
  BY DEF Code
<1>2. kind = "rice" => Code = RiceCode(value, param)
  BY DEF Code
<1>3. kind = "signed" => Code = RiceCode(ZigzagEncode(value), param)
  BY DEF Code
<1>4. kind = "coefficient" => Code = RiceCode(ZigzagEncode(SignedOf(value, param)), 1)
  BY DEF Code
<1>5. kind = "coefficient" => SignedOf(value, param) \in Signed
  <2>1. kind = "coefficient" => param \in 1 .. 2^Word - 1 /\ value \in 0 .. param - 1
    BY DEF KindOK, ScalarsAssumption
  <2>. QED  BY <2>1, ResidueInverse
<1>6. kind \in {"rice", "signed"} => param \in Nat
  BY DEF KindOK, ScalarsAssumption
<1>7. kind # "len" => Coded \in Unsigned
  BY <1>5, ZigzagInverse DEF KindOK, Coded
<1>. QED  BY <1>1, <1>2, <1>3, <1>4, <1>6, <1>7 DEF KindOK, Coded, Width

\* The code stands after the first three bits, and two bits follow it.
LEMMA CodeStands ==
  ASSUME NEW c \in Seq(Bit), stream = Before \o c \o After
  PROVE  Stands(stream, 3, c) /\ Len(stream) - 2 = 3 + Len(c)
<1>. DEFINE b == Before
            d == After
<1>1. b \in Seq(Bit) /\ d \in Seq(Bit) /\ Len(b) = 3 /\ Len(d) = 2
  BY DEF Before, After, Bit
<1>. HIDE DEF b, d
<1>2. /\ b \o c \in Seq(Bit) /\ Len(b \o c) = 3 + Len(c) /\ Len(c) \in Nat
      /\ \A i \in 1 .. 3 + Len(c) : (b \o c)[i] = IF i <= 3 THEN b[i] ELSE c[i - 3]
  <2>1. /\ b \o c \in Seq(Bit) /\ Len(b \o c) = Len(b) + Len(c)
        /\ \A i \in 1 .. Len(b) + Len(c) : (b \o c)[i] = IF i <= Len(b) THEN b[i] ELSE c[i - Len(b)]
    BY <1>1, ConcatProperties
  <2>2. Len(c) \in Nat
    BY LenProperties
  <2>. QED  BY <1>1, <2>1, <2>2
<1>. DEFINE e == b \o c
            n == Len(c)
            s == e \o d
<1>3. /\ Len(s) = (3 + n) + 2
      /\ \A i \in 1 .. (3 + n) + 2 : s[i] = IF i <= 3 + n THEN e[i] ELSE d[i - (3 + n)]
  <2>1. e \in Seq(Bit) /\ Len(e) = 3 + n
    BY <1>2
  <2>2. /\ Len(e \o d) = Len(e) + Len(d)
        /\ \A i \in 1 .. Len(e) + Len(d) : (e \o d)[i] = IF i <= Len(e) THEN e[i] ELSE d[i - Len(e)]
    <3>. HIDE DEF e
    <3>. QED  BY <1>1, <2>1, ConcatProperties
  <2>. HIDE DEF e, n
  <2>. QED  BY <1>1, <2>1, <2>2
<1>4. n \in Nat /\ \A i \in 1 .. 3 + n : e[i] = IF i <= 3 THEN b[i] ELSE c[i - 3]
  BY <1>2
<1>5. stream = s
  BY DEF b, d
<1>. HIDE DEF e, n, s
<1>6. \A i \in 1 .. n : s[3 + i] = c[i]
  <2>1. ASSUME NEW i \in 1 .. n PROVE s[3 + i] = c[i]
    <3>1. 3 + i \in 1 .. (3 + n) + 2 /\ 3 + i \in 1 .. 3 + n /\ 3 + i <= 3 + n /\ ~(3 + i <= 3) /\ (3 + i) - 3 = i
      BY <1>4
    <3>2. s[3 + i] = e[3 + i] /\ e[3 + i] = c[(3 + i) - 3]
      BY <1>3, <1>4, <3>1
    <3>. QED  BY <3>1, <3>2
  <2>. QED  BY <2>1
<1>. QED  BY <1>3, <1>4, <1>5, <1>6 DEF Stands, n

LEMMA ReadStep ==
  ASSUME ScalarsAssumption, ScalarsInv, Read
  PROVE  ReadsBack'
<1>. DEFINE c == Code
<1>1. KindOK /\ stream = Before \o c \o After
  BY DEF ScalarsInv, Held, Read
<1>2. UNCHANGED <<kind, value, param, stream>>
  BY DEF Read
<1>3. Len(Before) = 3 /\ Len(After) = 2
  BY DEF Before, After
<1>4. CASE kind = "len"
  <2>1. SUFFICES ASSUME value < 2^(Word - 1)
                 PROVE  answer' = Ok(value, Len(stream) - 2)
    BY <1>2, <1>3, <1>4 DEF ReadsBack, TooLong, Exact
  <2>2. value \in Nat /\ value < 2^Word /\ c = LenCode(value)
    BY <1>1, <1>4, CodeIs, WordDoubles DEF KindOK, Unsigned
  <2>3. c \in Seq(Bit)
    BY <2>2, LenCodeType, CodesAssumption
  <2>4. Stands(stream, 3, c) /\ Len(stream) - 2 = 3 + Len(c)
    <3>. HIDE DEF c
    <3>. QED  BY <1>1, <2>3, CodeStands
  <2>5. answer' = ReadLen(stream, 3)
    BY <1>3, <1>4 DEF Read
  <2>. HIDE DEF c
  <2>. QED  BY <2>1, <2>2, <2>4, <2>5, LenRead
<1>5. CASE kind # "len"
  <2>. DEFINE u == Coded
              k == Width
              r == ReadRice(stream, 3, k)
  <2>1. c = RiceCode(u, k) /\ u \in Unsigned /\ k \in Nat
    BY <1>1, <1>5, CodeIs
  <2>. HIDE DEF u, k
  <2>2. u \in Nat
    BY <2>1, WordDoubles DEF Unsigned
  <2>3. c \in Seq(Bit)
    BY <2>1, <2>2, RiceCodeType
  <2>4. Stands(stream, 3, c) /\ Len(stream) - 2 = 3 + Len(c)
    <3>. HIDE DEF c
    <3>. QED  BY <1>1, <2>3, CodeStands
  <2>. DEFINE b == Len(stream) - 2
  <2>5. r = Answer(u, k, u, b)
    BY <2>1, <2>4, RiceAnswer
  <2>. HIDE DEF c, b, r
  <2>6. /\ Quotient(u, k) > UnaryMax => r = Refused(3) /\ ~r.ok
        /\ ~(Quotient(u, k) > UnaryMax) => r.ok /\ r.value = u /\ r.at = b
    BY <2>5 DEF Answer, Ok, Refused
  <2>7. (Quotient(u, k) > UnaryMax)
           <=> TooLong
    <3>1. 2^1 = 2
      BY Z3
    <3>. QED  BY <1>1, <1>5, <3>1 DEF TooLong, Quotient, u, k, Coded, Width, KindOK
  <2>8. (TooLong)' <=> TooLong
    BY <1>2 DEF TooLong
  <2>9. answer' = IF r.ok THEN Ok(value, b) ELSE r
    <3>1. CASE kind = "rice"
      <4>1. answer' = r
        BY <1>3, <3>1 DEF Read, r, k, Width
      <4>2. u = value
        BY <3>1 DEF u, Coded
      <4>. QED  BY <2>5, <2>6, <4>1, <4>2 DEF Answer
    <3>2. CASE kind = "signed"
      <4>1. answer' = IF r.ok THEN Ok(ZigzagDecode(r.value), r.at) ELSE r
        BY <1>3, <3>2 DEF Read, Through, r, k, Width
      <4>2. ZigzagDecode(u) = value
        BY <1>1, <3>2, ZigzagInverse DEF u, Coded, KindOK
      <4>. QED  BY <2>6, <4>1, <4>2
    <3>3. CASE kind = "coefficient"
      <4>1. answer' = IF r.ok THEN Ok(SignedResidue(ZigzagDecode(r.value), param), r.at) ELSE r
        BY <1>3, <3>3 DEF Read, Through, r, k, Width
      <4>2. param \in 1 .. 2^Word - 1 /\ value \in 0 .. param - 1
        BY <1>1, <3>3 DEF KindOK, ScalarsAssumption
      <4>3. ZigzagDecode(u) = SignedOf(value, param)
        BY <3>3, <4>2, ResidueInverse, ZigzagInverse DEF u, Coded
      <4>4. SignedResidue(ZigzagDecode(u), param) = value
        BY <4>2, <4>3, ResidueInverse
      <4>. QED  BY <2>6, <4>1, <4>4
    <3>. QED  BY <1>1, <1>5, <3>1, <3>2, <3>3 DEF KindOK
  <2>10. (Quotient(u, k) > UnaryMax) => ~(answer'.ok)
    BY <2>6, <2>9
  <2>11. ~(Quotient(u, k) > UnaryMax) => answer' = Ok(value, Len(stream) - 2)
    BY <2>6, <2>9 DEF b
  <2>. QED  BY <1>2, <1>3, <2>7, <2>8, <2>10, <2>11 DEF ReadsBack, Exact
<1>. QED  BY <1>4, <1>5

LEMMA ScalarsInvStep ==
  ASSUME ScalarsAssumption, ScalarsInv, [ScalarNext]_scalarVars
  PROVE  ScalarsInv'
<1>1. CASE Read
  <2>1. UNCHANGED <<kind, value, param, stream>> /\ stream # <<>>
    BY <1>1 DEF Read
  <2>2. Code' = Code
    BY <2>1 DEF Code
  <2>. QED  BY <1>1, <2>1, <2>2, ReadStep DEF ScalarsInv, KindOK, Held
<1>2. CASE Write
  <2>1. UNCHANGED <<kind, value, param, answer>> /\ answer = Unread
    BY <1>2 DEF Write, ScalarsInv
  <2>2. Code' = Code
    BY <2>1 DEF Code
  <2>3. stream' = Before \o Code \o After
    BY <1>2 DEF Write
  <2>4. ReadsBack'
    BY <2>1 DEF ReadsBack, Done, Unread
  <2>. QED  BY <2>1, <2>2, <2>3, <2>4 DEF ScalarsInv, KindOK, Held
<1>3. CASE UNCHANGED scalarVars
  <2>1. UNCHANGED <<kind, value, param, stream, answer>>
    BY <1>3 DEF scalarVars
  <2>2. Code' = Code /\ (ReadsBack' <=> ReadsBack)
    BY <2>1 DEF Code, ReadsBack, Done, TooLong, Exact
  <2>. QED  BY <2>1, <2>2 DEF ScalarsInv, KindOK, Held
<1>. QED  BY <1>1, <1>2, <1>3 DEF ScalarNext

\* For every width of a word and every parameter, each code gives back its value
\* or, when its quotient is over the limit, is refused (write_len to
\* decode_signed_modq of wire.rs).
THEOREM CodesReadBack ==
  ASSUME ScalarsAssumption
  PROVE  ScalarSpec => []ReadsBack
<1>1. ScalarInit => ScalarsInv
  BY DEF ScalarInit, ScalarsInv, KindOK, Held, ReadsBack, Done
<1>2. ScalarsInv /\ [ScalarNext]_scalarVars => ScalarsInv'
  BY ScalarsInvStep
<1>3. ScalarsInv => ReadsBack
  BY DEF ScalarsInv
<1>. QED  BY <1>1, <1>2, <1>3, PTL DEF ScalarSpec

-----------------------------------------------------------------------------
(* Sequences of codes, one after the other.                                *)

\* g[i] is the first i sequences of cs, joined.
Joins(cs, g) == g = [i \in 1 .. Len(cs) |-> IF i = 1 THEN cs[i] ELSE g[i - 1] \o cs[i]]

LEMMA JoinsExist ==
  ASSUME NEW cs, Len(cs) \in Nat
  PROVE  \E g : Joins(cs, g)
<1>. DEFINE Good(n) == \E g : g = [i \in 1 .. n |-> IF i = 1 THEN cs[i] ELSE g[i - 1] \o cs[i]]
            T == {n \in Nat : ~Good(n)}
<1>1. SUFFICES ASSUME T # {} PROVE FALSE
  BY DEF Joins
<1>. HIDE DEF Good
<1>2. PICK n \in T : \A m \in T : n <= m
  <2>1. T \in SUBSET Nat
    OBVIOUS
  <2>. HIDE DEF T
  <2>. QED  BY <1>1, <2>1, LeastNumber
<1>3. CASE n = 0
  <2>. DEFINE g == [i \in 1 .. 0 |-> cs[i]]
  <2>1. g = [i \in 1 .. 0 |-> IF i = 1 THEN cs[i] ELSE g[i - 1] \o cs[i]]
    OBVIOUS
  <2>2. Good(0)
    <3>. HIDE DEF g
    <3>. QED  BY <2>1 DEF Good
  <2>. QED  BY <1>2, <1>3, <2>2
<1>4. CASE n # 0
  <2>1. n - 1 \in Nat /\ n - 1 \notin T
    BY <1>2, <1>4
  <2>2. PICK g : g = [i \in 1 .. n - 1 |-> IF i = 1 THEN cs[i] ELSE g[i - 1] \o cs[i]]
    BY <2>1 DEF Good
  <2>. DEFINE h == [i \in 1 .. n |-> IF i = 1 THEN cs[i] ELSE g[i - 1] \o cs[i]]
  <2>3. \A i \in 1 .. n - 1 : i \in 1 .. n /\ h[i] = g[i]
    <3>1. \A i \in 1 .. n - 1 : i \in 1 .. n
      BY <2>1
    <3>2. \A i \in 1 .. n - 1 : g[i] = IF i = 1 THEN cs[i] ELSE g[i - 1] \o cs[i]
      BY <2>2
    <3>. QED  BY <3>1, <3>2
  <2>4. \A i \in 1 .. n : i # 1 => h[i - 1] = g[i - 1]
    <3>1. \A i \in 1 .. n : i # 1 => i - 1 \in 1 .. n - 1
      BY <2>1
    <3>. QED  BY <2>3, <3>1
  <2>5. h = [i \in 1 .. n |-> IF i = 1 THEN cs[i] ELSE h[i - 1] \o cs[i]]
    BY <2>4
  <2>6. Good(n)
    <3>. HIDE DEF h
    <3>. QED  BY <2>5 DEF Good
  <2>. QED  BY <1>2, <2>6
<1>. QED  BY <1>3, <1>4

LEMMA JoinsPieces ==
  ASSUME NEW S, NEW cs \in Seq(Seq(S)), NEW g, Joins(cs, g)
  PROVE  \A i \in 1 .. Len(cs) : g[i] \in Seq(S)
<1>. DEFINE n == Len(cs)
            T == {i \in 1 .. n : g[i] \notin Seq(S)}
<1>1. n \in Nat /\ \A i \in 1 .. n : cs[i] \in Seq(S)
  BY LenProperties
<1>2. \A i \in 1 .. n : g[i] = IF i = 1 THEN cs[i] ELSE g[i - 1] \o cs[i]
  BY DEF Joins
<1>. HIDE DEF n
<1>3. SUFFICES ASSUME T # {} PROVE FALSE
  BY DEF n
<1>4. PICK i \in T : \A m \in T : i <= m
  <2>1. T \in SUBSET Nat
    OBVIOUS
  <2>. HIDE DEF T
  <2>. QED  BY <1>3, <2>1, LeastNumber
<1>5. CASE i = 1
  BY <1>1, <1>2, <1>4, <1>5
<1>6. CASE i # 1
  <2>1. i - 1 \in 1 .. n /\ i - 1 \notin T
    BY <1>1, <1>4, <1>6
  <2>2. g[i - 1] \in Seq(S) /\ cs[i] \in Seq(S) /\ g[i] = g[i - 1] \o cs[i]
    BY <1>1, <1>2, <1>4, <1>6, <2>1
  <2>3. g[i - 1] \o cs[i] \in Seq(S)
    BY <2>2, ConcatProperties
  <2>. QED  BY <1>4, <2>2, <2>3
<1>. QED  BY <1>5, <1>6

LEMMA FlattenIs ==
  ASSUME NEW S, NEW cs \in Seq(Seq(S))
  PROVE  /\ Len(cs) = 0 => cs = <<>> /\ FlattenSeq(cs) = <<>>
         /\ Len(cs) # 0 => \E g : Joins(cs, g) /\ FlattenSeq(cs) = g[Len(cs)]
         /\ FlattenSeq(cs) \in Seq(S)
<1>. DEFINE flatten == CHOOSE g : g = [i \in 1 .. Len(cs) |-> IF i = 1 THEN cs[i] ELSE g[i - 1] \o cs[i]]
<1>1. FlattenSeq(cs) = IF Len(cs) = 0 THEN cs ELSE flatten[Len(cs)]
  BY DEF FlattenSeq
<1>2. Len(cs) \in Nat
  BY LenProperties
<1>3. Joins(cs, flatten)
  BY <1>2, JoinsExist DEF Joins
<1>. HIDE DEF flatten
<1>4. CASE Len(cs) = 0
  <2>1. cs = <<>> /\ <<>> \in Seq(S)
    BY <1>4, EmptySeq
  <2>. QED  BY <1>1, <1>4, <2>1
<1>5. CASE Len(cs) # 0
  <2>1. Len(cs) \in 1 .. Len(cs)
    BY <1>2, <1>5
  <2>2. flatten[Len(cs)] \in Seq(S)
    BY <1>3, <2>1, JoinsPieces
  <2>. QED  BY <1>1, <1>3, <1>5, <2>2
<1>. QED  BY <1>4, <1>5

LEMMA FlattenAppend ==
  ASSUME NEW S, NEW cs \in Seq(Seq(S)), NEW c \in Seq(S)
  PROVE  FlattenSeq(Append(cs, c)) = FlattenSeq(cs) \o c
<1>. DEFINE ds == Append(cs, c)
            n == Len(cs)
<1>1. n \in Nat
  BY LenProperties
<1>2. ds \in Seq(Seq(S)) /\ Len(ds) = n + 1 /\ ds[n + 1] = c /\ \A i \in 1 .. n : ds[i] = cs[i]
  BY AppendProperties
<1>. HIDE DEF ds, n
<1>3. PICK h : Joins(ds, h) /\ FlattenSeq(ds) = h[n + 1]
  <2>1. Len(ds) # 0
    BY <1>1, <1>2
  <2>2. \E h : Joins(ds, h) /\ FlattenSeq(ds) = h[Len(ds)]
    BY <1>2, <2>1, FlattenIs
  <2>. QED  BY <1>2, <2>2
<1>4. \A i \in 1 .. n + 1 : h[i] = IF i = 1 THEN ds[i] ELSE h[i - 1] \o ds[i]
  BY <1>2, <1>3 DEF Joins
<1>5. CASE n = 0
  <2>1. FlattenSeq(cs) = <<>>
    BY <1>5, FlattenIs DEF n
  <2>2. h[n + 1] = c
    BY <1>2, <1>4, <1>5
  <2>3. <<>> \o c = c
    BY ConcatEmptySeq
  <2>. QED  BY <1>3, <2>1, <2>2, <2>3 DEF ds
<1>6. CASE n # 0
  <2>1. PICK g : Joins(cs, g) /\ FlattenSeq(cs) = g[n]
    BY <1>6, FlattenIs DEF n
  <2>2. \A i \in 1 .. n : g[i] = IF i = 1 THEN cs[i] ELSE g[i - 1] \o cs[i]
    BY <2>1 DEF Joins, n
  <2>. DEFINE T == {i \in 1 .. n : h[i] # g[i]}
  <2>3. T = {}
    <3>1. SUFFICES ASSUME T # {} PROVE FALSE
      OBVIOUS
    <3>2. PICK i \in T : \A m \in T : i <= m
      <4>1. T \in SUBSET Nat
        OBVIOUS
      <4>. HIDE DEF T
      <4>. QED  BY <3>1, <4>1, LeastNumber
    <3>3. i \in 1 .. n + 1 /\ h[i] = IF i = 1 THEN cs[i] ELSE h[i - 1] \o cs[i]
      BY <1>1, <1>2, <1>4, <3>2
    <3>4. i # 1 => i - 1 \in 1 .. n /\ i - 1 \notin T
      BY <1>1, <3>2
    <3>. QED  BY <2>2, <3>2, <3>3, <3>4
  <2>4. h[n] = g[n]
    BY <1>1, <1>6, <2>3
  <2>5. h[n + 1] = h[n] \o c
    <3>1. n + 1 \in 1 .. n + 1 /\ n + 1 # 1 /\ (n + 1) - 1 = n
      BY <1>1, <1>6
    <3>. QED  BY <1>2, <1>4, <3>1
  <2>. QED  BY <1>3, <2>1, <2>4, <2>5 DEF ds
<1>. QED  BY <1>5, <1>6

\* The first m of them.
Joined(cs, m) == FlattenSeq(SubSeq(cs, 1, m))

LEMMA JoinedIs ==
  ASSUME NEW S, NEW cs \in Seq(Seq(S))
  PROVE  /\ Joined(cs, 0) = <<>> /\ Joined(cs, Len(cs)) = FlattenSeq(cs)
         /\ \A m \in 0 .. Len(cs) : Joined(cs, m) \in Seq(S)
         /\ \A m \in 1 .. Len(cs) : Joined(cs, m) = Joined(cs, m - 1) \o cs[m]
         /\ \A m \in 1 .. Len(cs) : Len(Joined(cs, m)) = Len(Joined(cs, m - 1)) + Len(cs[m])
<1>1. Len(cs) \in Nat /\ \A m \in 1 .. Len(cs) : cs[m] \in Seq(S)
  BY LenProperties
<1>2. \A m \in 0 .. Len(cs) : SubSeq(cs, 1, m) \in Seq(Seq(S))
  BY <1>1
<1>3. \A m \in 0 .. Len(cs) : Joined(cs, m) \in Seq(S)
  BY <1>2, FlattenIs DEF Joined
<1>4. Joined(cs, 0) = <<>>
  <2>1. SubSeq(cs, 1, 0) = <<>>
    OBVIOUS
  <2>2. <<>> \in Seq(Seq(S)) /\ Len(<<>>) = 0
    OBVIOUS
  <2>. QED  BY <2>1, <2>2, FlattenIs DEF Joined
<1>5. Joined(cs, Len(cs)) = FlattenSeq(cs)
  BY SubSeqFull DEF Joined
<1>6. ASSUME NEW m \in 1 .. Len(cs)
      PROVE  /\ Joined(cs, m) = Joined(cs, m - 1) \o cs[m]
             /\ Len(Joined(cs, m)) = Len(Joined(cs, m - 1)) + Len(cs[m])
  <2>. DEFINE ds == SubSeq(cs, 1, m - 1)
  <2>1. m - 1 \in 0 .. Len(cs) /\ cs[m] \in Seq(S)
    BY <1>1
  <2>2. ds \in Seq(Seq(S))
    BY <1>2, <2>1
  <2>3. SubSeq(cs, 1, m) = Append(ds, cs[m])
    <3>. DEFINE X == Seq(S)
    <3>1. cs \in Seq(X)
      OBVIOUS
    <3>. HIDE DEF X
    <3>2. SubSeq(cs, 1, m) = Append(SubSeq(cs, 1, m - 1), cs[m])
      BY <1>1, <3>1, SMT
    <3>. QED  BY <3>2
  <2>. HIDE DEF ds
  <2>4. FlattenSeq(SubSeq(cs, 1, m)) = FlattenSeq(ds) \o cs[m]
    BY <2>1, <2>2, <2>3, FlattenAppend
  <2>5. Joined(cs, m) = Joined(cs, m - 1) \o cs[m]
    BY <2>4 DEF Joined, ds
  <2>6. Joined(cs, m - 1) \in Seq(S)
    BY <1>3, <2>1
  <2>. QED  BY <2>1, <2>5, <2>6, ConcatProperties
<1>. QED  BY <1>3, <1>4, <1>5, <1>6

\* Each stands where those before it end.
LEMMA JoinedStands ==
  ASSUME NEW S, NEW cs \in Seq(Seq(S)), NEW s, NEW a, Stands(s, a, FlattenSeq(cs))
  PROVE  /\ \A m \in 0 .. Len(cs) : Stands(s, a, Joined(cs, m))
         /\ \A m \in 1 .. Len(cs) : Stands(s, a + Len(Joined(cs, m - 1)), cs[m])
<1>. DEFINE n == Len(cs)
<1>1. n \in Nat /\ \A m \in 1 .. n : cs[m] \in Seq(S)
  BY LenProperties
<1>2. /\ Joined(cs, n) = FlattenSeq(cs)
      /\ \A m \in 0 .. n : Joined(cs, m) \in Seq(S)
      /\ \A m \in 1 .. n : Joined(cs, m) = Joined(cs, m - 1) \o cs[m]
  BY JoinedIs
<1>. HIDE DEF n
<1>3. \A m \in 1 .. n : Stands(s, a, Joined(cs, m)) =>
        Stands(s, a, Joined(cs, m - 1)) /\ Stands(s, a + Len(Joined(cs, m - 1)), cs[m])
  <2>1. ASSUME NEW m \in 1 .. n, Stands(s, a, Joined(cs, m))
        PROVE  Stands(s, a, Joined(cs, m - 1)) /\ Stands(s, a + Len(Joined(cs, m - 1)), cs[m])
    <3>1. Joined(cs, m - 1) \in Seq(S) /\ cs[m] \in Seq(S)
      BY <1>1, <1>2
    <3>2. Stands(s, a, Joined(cs, m - 1) \o cs[m])
      BY <1>2, <2>1
    <3>. QED  BY <3>1, <3>2, StandsInTurn
  <2>. QED  BY <2>1
<1>. DEFINE T == {d \in 0 .. n : ~Stands(s, a, Joined(cs, n - d))}
<1>4. T = {}
  <2>1. SUFFICES ASSUME T # {} PROVE FALSE
    OBVIOUS
  <2>2. PICK d \in T : \A m \in T : d <= m
    <3>1. T \in SUBSET Nat
      OBVIOUS
    <3>. HIDE DEF T
    <3>. QED  BY <2>1, <3>1, LeastNumber
  <2>3. d # 0
    BY <1>1, <1>2, <2>2
  <2>4. d - 1 \in 0 .. n /\ d - 1 \notin T /\ n - (d - 1) \in 1 .. n /\ (n - (d - 1)) - 1 = n - d
    <3>1. d \in 1 .. n
      BY <1>1, <2>2, <2>3
    <3>2. ~(d <= d - 1)
      BY <1>1, <3>1
    <3>. HIDE DEF T
    <3>. QED  BY <1>1, <2>2, <3>1, <3>2
  <2>5. Stands(s, a, Joined(cs, n - (d - 1)))
    BY <2>4
  <2>6. Stands(s, a, Joined(cs, n - d))
    BY <1>3, <2>4, <2>5
  <2>. QED  BY <2>2, <2>6
<1>5. \A m \in 0 .. n : Stands(s, a, Joined(cs, m))
  <2>1. ASSUME NEW m \in 0 .. n PROVE Stands(s, a, Joined(cs, m))
    <3>1. n - m \in 0 .. n /\ n - (n - m) = m
      BY <1>1
    <3>2. n - m \notin T
      BY <1>4
    <3>. QED  BY <3>1, <3>2
  <2>. QED  BY <2>1
<1>6. \A m \in 1 .. n : m \in 0 .. n
  BY <1>1
<1>. QED  BY <1>3, <1>5, <1>6 DEF n

-----------------------------------------------------------------------------
(* Loops of readers.  F is a reader at the positions it comes to.          *)

LEMMA GreatestOf ==
  ASSUME NEW n \in Nat, NEW t \in SUBSET (1 .. n), t # {}
  PROVE  Max(t) \in t /\ \A x \in t : x <= Max(t)
<1>. DEFINE T == {n - x : x \in t}
<1>1. T \in SUBSET Nat /\ T # {}
  <2>1. \A x \in t : n - x \in Nat
    OBVIOUS
  <2>. QED  BY <2>1
<1>2. PICK d \in T : \A e \in T : d <= e
  <2>. HIDE DEF T
  <2>. QED  BY <1>1, LeastNumber
<1>3. PICK m \in t : d = n - m
  BY <1>2
<1>4. \A x \in t : n - x \in T
  OBVIOUS
<1>5. \A x \in t : m >= x
  <2>. HIDE DEF T
  <2>. QED  BY <1>2, <1>3, <1>4
<1>6. \E y \in t : \A x \in t : y >= x
  BY <1>5
<1>7. Max(t) \in t /\ \A x \in t : Max(t) >= x
  BY <1>6, Zenon DEF Max
<1>. QED  BY <1>7

LEMMA GreatestUpTo ==
  ASSUME NEW m \in Nat, m # 0
  PROVE  Max(1 .. m) = m /\ (1 .. m) \ {m} = 1 .. m - 1 /\ 1 .. m # {}
<1>1. m \in 1 .. m
  OBVIOUS
<1>2. Max(1 .. m) \in 1 .. m /\ \A x \in 1 .. m : x <= Max(1 .. m)
  <2>. DEFINE t == 1 .. m
  <2>1. t \in SUBSET (1 .. m) /\ t # {}
    BY <1>1
  <2>. HIDE DEF t
  <2>2. Max(t) \in t /\ \A x \in t : x <= Max(t)
    BY <2>1, GreatestOf
  <2>. QED  BY <2>2 DEF t
<1>. QED  BY <1>1, <1>2

\* One more value, as ReadMany takes it.
Taken(r, x) == IF ~r.ok THEN r ELSE IF x.ok THEN Ok(Append(r.value, x.value), x.at) ELSE x

TakenFrom(F, r) == Taken(r, F[r.at])

IsRun(F, n, from, h) ==
  h = [t \in SUBSET (1 .. n) |-> IF t = {} THEN Ok(<<>>, from) ELSE TakenFrom(F, h[t \ {Max(t)}])]

\* F reads the n values one after the other, P[m] being where m of them end.
InTurn(F, n, P, vals) == \A m \in 1 .. n : F[P[m - 1]] = Ok(vals[m], P[m])

Positions(P, n) == {P[m] : m \in 0 .. n}

LEMMA TakenInTurn ==
  ASSUME NEW n \in Nat, NEW P, NEW S, NEW vals \in Seq(S), Len(vals) = n,
         NEW F, InTurn(F, n, P, vals), NEW m \in 1 .. n
  PROVE  TakenFrom(F, Ok(SubSeq(vals, 1, m - 1), P[m - 1])) = Ok(SubSeq(vals, 1, m), P[m])
<1>. DEFINE r == Ok(SubSeq(vals, 1, m - 1), P[m - 1])
            x == F[P[m - 1]]
<1>1. r.ok /\ r.value = SubSeq(vals, 1, m - 1) /\ r.at = P[m - 1]
  BY DEF Ok
<1>2. x = Ok(vals[m], P[m])
  BY DEF InTurn
<1>3. x.ok /\ x.value = vals[m] /\ x.at = P[m]
  BY <1>2 DEF Ok
<1>4. SubSeq(vals, 1, m) = Append(SubSeq(vals, 1, m - 1), vals[m])
  BY SMT
<1>. HIDE DEF r, x
<1>5. F[r.at] = x
  BY <1>1 DEF x
<1>6. TakenFrom(F, r) = Ok(Append(r.value, x.value), x.at)
  BY <1>1, <1>3, <1>5 DEF Taken, TakenFrom
<1>. QED  BY <1>1, <1>3, <1>4, <1>6 DEF r

LEMMA RunExists ==
  ASSUME NEW n \in Nat, NEW P, NEW S, NEW vals \in Seq(S), Len(vals) = n,
         NEW F, InTurn(F, n, P, vals)
  PROVE  \E h : IsRun(F, n, P[0], h) /\ \A t \in SUBSET (1 .. n) : h[t].at \in Positions(P, n)
<1>. DEFINE h == [t \in SUBSET (1 .. n) |-> Ok(SubSeq(vals, 1, Cardinality(t)), P[Cardinality(t)])]
<1>1. \A t \in SUBSET (1 .. n) : Cardinality(t) \in 0 .. n /\ IsFiniteSet(t)
  <2>1. IsFiniteSet(1 .. n) /\ Cardinality(1 .. n) = n
    BY FS_Interval
  <2>2. ASSUME NEW t \in SUBSET (1 .. n) PROVE Cardinality(t) \in 0 .. n /\ IsFiniteSet(t)
    <3>1. IsFiniteSet(t) /\ Cardinality(t) <= n
      BY <2>1, FS_Subset
    <3>. QED  BY <3>1, FS_CardinalityType
  <2>. QED  BY <2>2
<1>2. \A t \in SUBSET (1 .. n) : h[t].at \in Positions(P, n)
  BY <1>1 DEF Ok, Positions
<1>3. h[{}] = Ok(<<>>, P[0])
  <2>1. Cardinality({}) = 0 /\ {} \in SUBSET (1 .. n)
    BY FS_EmptySet
  <2>2. SubSeq(vals, 1, 0) = <<>>
    OBVIOUS
  <2>. QED  BY <2>1, <2>2
<1>4. ASSUME NEW t \in SUBSET (1 .. n), t # {}
      PROVE  h[t] = TakenFrom(F, h[t \ {Max(t)}])
  <2>. DEFINE u == t \ {Max(t)}
              m == Cardinality(t)
  <2>1. Max(t) \in t
    BY <1>4, GreatestOf
  <2>2. u \in SUBSET (1 .. n) /\ Cardinality(u) = m - 1
    BY <1>1, <2>1, FS_RemoveElement
  <2>3. m \in 1 .. n
    <3>1. m # 0
      BY <1>1, <1>4, FS_EmptySet
    <3>. QED  BY <1>1, <3>1
  <2>4. h[t] = Ok(SubSeq(vals, 1, m), P[m])
    OBVIOUS
  <2>5. h[u] = Ok(SubSeq(vals, 1, m - 1), P[m - 1])
    BY <2>2
  <2>. HIDE DEF h, u, m
  <2>6. h[t] = TakenFrom(F, h[u])
    BY <2>3, <2>4, <2>5, TakenInTurn
  <2>. QED  BY <2>6 DEF u
<1>5. IsRun(F, n, P[0], h)
  BY <1>3, <1>4 DEF IsRun
<1>. HIDE DEF h
<1>. QED  BY <1>2, <1>5

LEMMA RunReads ==
  ASSUME NEW n \in Nat, NEW P, NEW S, NEW vals \in Seq(S), Len(vals) = n,
         NEW F, InTurn(F, n, P, vals), NEW h, IsRun(F, n, P[0], h)
  PROVE  h[1 .. n] = Ok(vals, P[n])
<1>. DEFINE T == {m \in 0 .. n : h[1 .. m] # Ok(SubSeq(vals, 1, m), P[m])}
<1>1. T = {}
  <2>1. SUFFICES ASSUME T # {} PROVE FALSE
    OBVIOUS
  <2>2. PICK m \in T : \A k \in T : m <= k
    <3>1. T \in SUBSET Nat
      OBVIOUS
    <3>. HIDE DEF T
    <3>. QED  BY <2>1, <3>1, LeastNumber
  <2>3. 1 .. m \in SUBSET (1 .. n) /\ m \in Nat
    OBVIOUS
  <2>4. CASE m = 0
    <3>1. 1 .. 0 = {} /\ SubSeq(vals, 1, 0) = <<>>
      OBVIOUS
    <3>2. h[{}] = Ok(<<>>, P[0])
      BY DEF IsRun
    <3>. QED  BY <2>2, <2>4, <3>1, <3>2
  <2>5. CASE m # 0
    <3>1. m \in 1 .. n /\ m - 1 \in 0 .. n /\ ~(m <= m - 1)
      BY <2>3, <2>5
    <3>2. m - 1 \notin T
      <4>. HIDE DEF T
      <4>. QED  BY <2>2, <3>1
    <3>3. h[1 .. m - 1] = Ok(SubSeq(vals, 1, m - 1), P[m - 1])
      BY <3>1, <3>2
    <3>4. h[1 .. m] = TakenFrom(F, h[1 .. m - 1])
      <4>1. Max(1 .. m) = m /\ (1 .. m) \ {m} = 1 .. m - 1 /\ 1 .. m # {}
        BY <2>3, <2>5, GreatestUpTo
      <4>2. h[1 .. m] = TakenFrom(F, h[(1 .. m) \ {Max(1 .. m)}])
        BY <2>3, <4>1 DEF IsRun
      <4>. QED  BY <4>1, <4>2
    <3>5. h[1 .. m] = Ok(SubSeq(vals, 1, m), P[m])
      BY <3>1, <3>3, <3>4, TakenInTurn
    <3>. QED  BY <2>2, <3>5
  <2>. QED  BY <2>4, <2>5
<1>2. n \notin T /\ n \in 0 .. n
  BY <1>1
<1>3. SubSeq(vals, 1, n) = vals
  BY SubSeqFull
<1>. QED  BY <1>2, <1>3

-----------------------------------------------------------------------------
(* The loops of read_iter.                                                 *)

BitsInTurn(s, P, vals) == \A m \in 1 .. D : ReadBits(s, P[m - 1], QBits) = Ok(vals[m], P[m])

LEMMA ManyBits ==
  ASSUME NEW s, NEW P, NEW S, NEW vals \in Seq(S), Len(vals) = D,
         BitsInTurn(s, P, vals)
  PROVE  ReadPacked(s, P[0]) = Ok(vals, P[D])
<1>. DEFINE IsIt(h) == h = [t \in SUBSET DOMAIN [i \in 1 .. D |-> i] |->
                              IF t = {} THEN Ok(<<>>, P[0])
                              ELSE Taken(h[t \ {Max(t)}], ReadBits(s, h[t \ {Max(t)}].at, QBits))]
            total == CHOOSE h : IsIt(h)
<1>1. ReadPacked(s, P[0]) = total[DOMAIN [i \in 1 .. D |-> i]]
  BY DEF ReadPacked, ReadMany, FoldLeft, MapThenFoldSet, Taken
<1>. DEFINE A == Positions(P, D) \cup {total[t].at : t \in SUBSET (1 .. D)}
            F == [a \in A |-> ReadBits(s, a, QBits)]
<1>2. InTurn(F, D, P, vals)
  <2>1. \A m \in 1 .. D : P[m - 1] \in A
    BY DEF Positions
  <2>. HIDE DEF A
  <2>. QED  BY <2>1 DEF InTurn, BitsInTurn
<1>3. /\ \A a \in Positions(P, D) : F[a] = ReadBits(s, a, QBits)
      /\ \A t \in SUBSET (1 .. D) : F[total[t].at] = ReadBits(s, total[t].at, QBits)
  OBVIOUS
<1>. HIDE DEF F
<1>4. PICK h : IsRun(F, D, P[0], h) /\ \A t \in SUBSET (1 .. D) : h[t].at \in Positions(P, D)
  BY <1>2, RunExists, WireAssumption
<1>5. IsIt(h)
  <2>1. \A t \in SUBSET (1 .. D) : F[h[t].at] = ReadBits(s, h[t].at, QBits)
    BY <1>3, <1>4
  <2>. QED  BY <1>4, <2>1 DEF IsRun, TakenFrom
<1>6. IsIt(total)
  <2>. HIDE DEF IsIt
  <2>. QED  BY <1>5
<1>. HIDE DEF total
<1>7. IsRun(F, D, P[0], total)
  BY <1>3, <1>6 DEF IsRun, TakenFrom
<1>8. total[1 .. D] = Ok(vals, P[D])
  BY <1>2, <1>7, RunReads, WireAssumption
<1>. QED  BY <1>1, <1>8

\* One coefficient of read_ring_elem_gr.
ReadCoefficient(s, a, k) ==
  Then(ReadSigned(s, a, k), LAMBDA x, b : Ok(SignedResidue(x, Q), b))

CoefficientsInTurn(s, k, P, vals) == \A m \in 1 .. D : ReadCoefficient(s, P[m - 1], k) = Ok(vals[m], P[m])

LEMMA ManyCoefficients ==
  ASSUME NEW s, NEW k, NEW P, NEW S, NEW vals \in Seq(S), Len(vals) = D,
         CoefficientsInTurn(s, k, P, vals)
  PROVE  ReadRiceElem(s, P[0], k) = Ok(vals, P[D])
<1>. DEFINE IsIt(h) == h = [t \in SUBSET DOMAIN [i \in 1 .. D |-> i] |->
                              IF t = {} THEN Ok(<<>>, P[0])
                              ELSE Taken(h[t \ {Max(t)}], ReadCoefficient(s, h[t \ {Max(t)}].at, k))]
            total == CHOOSE h : IsIt(h)
<1>1. ReadRiceElem(s, P[0], k) = total[DOMAIN [i \in 1 .. D |-> i]]
  BY DEF ReadRiceElem, ReadCoefficient, ReadMany, FoldLeft, MapThenFoldSet, Taken
<1>. DEFINE A == Positions(P, D) \cup {total[t].at : t \in SUBSET (1 .. D)}
            F == [a \in A |-> ReadCoefficient(s, a, k)]
<1>2. InTurn(F, D, P, vals)
  <2>1. \A m \in 1 .. D : P[m - 1] \in A
    BY DEF Positions
  <2>. HIDE DEF A
  <2>. QED  BY <2>1 DEF InTurn, CoefficientsInTurn
<1>3. /\ \A a \in Positions(P, D) : F[a] = ReadCoefficient(s, a, k)
      /\ \A t \in SUBSET (1 .. D) : F[total[t].at] = ReadCoefficient(s, total[t].at, k)
  OBVIOUS
<1>. HIDE DEF F
<1>4. PICK h : IsRun(F, D, P[0], h) /\ \A t \in SUBSET (1 .. D) : h[t].at \in Positions(P, D)
  BY <1>2, RunExists, WireAssumption
<1>5. IsIt(h)
  <2>1. \A t \in SUBSET (1 .. D) : F[h[t].at] = ReadCoefficient(s, h[t].at, k)
    BY <1>3, <1>4
  <2>. QED  BY <1>4, <2>1 DEF IsRun, TakenFrom
<1>6. IsIt(total)
  <2>. HIDE DEF IsIt
  <2>. QED  BY <1>5
<1>. HIDE DEF total
<1>7. IsRun(F, D, P[0], total)
  BY <1>3, <1>6 DEF IsRun, TakenFrom
<1>8. total[1 .. D] = Ok(vals, P[D])
  BY <1>2, <1>7, RunReads, WireAssumption
<1>. QED  BY <1>1, <1>8

\* Vectors of elements: packed, signed words, Golomb-Rice; and the rows of v.
ReadRow(s, a, n) == ReadMany(n, a, LAMBDA b : ReadPacked(s, b))
ReadSignedVec(s, a, n, k) == ReadMany(n, a, LAMBDA b : ReadSigned(s, b, k))
ReadRiceVec(s, a, n, k) == ReadMany(n, a, LAMBDA b : ReadRiceElem(s, b, k))
ReadRows(s, a, n, kappa) ==
  ReadMany(n, a, LAMBDA c : ReadMany(kappa, c, LAMBDA d : ReadPacked(s, d)))

PackedInTurn(s, n, P, vals) == \A m \in 1 .. n : ReadPacked(s, P[m - 1]) = Ok(vals[m], P[m])

LEMMA ManyPacked ==
  ASSUME NEW s, NEW n \in Nat, NEW P, NEW S, NEW vals \in Seq(S), Len(vals) = n,
         PackedInTurn(s, n, P, vals)
  PROVE  ReadRow(s, P[0], n) = Ok(vals, P[n])
<1>. DEFINE IsIt(h) == h = [t \in SUBSET DOMAIN [i \in 1 .. n |-> i] |->
                              IF t = {} THEN Ok(<<>>, P[0])
                              ELSE Taken(h[t \ {Max(t)}], ReadPacked(s, h[t \ {Max(t)}].at))]
            total == CHOOSE h : IsIt(h)
<1>1. ReadRow(s, P[0], n) = total[DOMAIN [i \in 1 .. n |-> i]]
  BY DEF ReadRow, ReadMany, FoldLeft, MapThenFoldSet, Taken
<1>. DEFINE A == Positions(P, n) \cup {total[t].at : t \in SUBSET (1 .. n)}
            F == [a \in A |-> ReadPacked(s, a)]
<1>2. InTurn(F, n, P, vals)
  <2>1. \A m \in 1 .. n : P[m - 1] \in A
    BY DEF Positions
  <2>. HIDE DEF A
  <2>. QED  BY <2>1 DEF InTurn, PackedInTurn
<1>3. /\ \A a \in Positions(P, n) : F[a] = ReadPacked(s, a)
      /\ \A t \in SUBSET (1 .. n) : F[total[t].at] = ReadPacked(s, total[t].at)
  OBVIOUS
<1>. HIDE DEF F
<1>4. PICK h : IsRun(F, n, P[0], h) /\ \A t \in SUBSET (1 .. n) : h[t].at \in Positions(P, n)
  BY <1>2, RunExists
<1>5. IsIt(h)
  <2>1. \A t \in SUBSET (1 .. n) : F[h[t].at] = ReadPacked(s, h[t].at)
    BY <1>3, <1>4
  <2>. QED  BY <1>4, <2>1 DEF IsRun, TakenFrom
<1>6. IsIt(total)
  <2>. HIDE DEF IsIt
  <2>. QED  BY <1>5
<1>. HIDE DEF total
<1>7. IsRun(F, n, P[0], total)
  BY <1>3, <1>6 DEF IsRun, TakenFrom
<1>8. total[1 .. n] = Ok(vals, P[n])
  BY <1>2, <1>7, RunReads
<1>. QED  BY <1>1, <1>8

SignedInTurn(s, k, n, P, vals) == \A m \in 1 .. n : ReadSigned(s, P[m - 1], k) = Ok(vals[m], P[m])

LEMMA ManySigned ==
  ASSUME NEW s, NEW k, NEW n \in Nat, NEW P, NEW S, NEW vals \in Seq(S), Len(vals) = n,
         SignedInTurn(s, k, n, P, vals)
  PROVE  ReadSignedVec(s, P[0], n, k) = Ok(vals, P[n])
<1>. DEFINE IsIt(h) == h = [t \in SUBSET DOMAIN [i \in 1 .. n |-> i] |->
                              IF t = {} THEN Ok(<<>>, P[0])
                              ELSE Taken(h[t \ {Max(t)}], ReadSigned(s, h[t \ {Max(t)}].at, k))]
            total == CHOOSE h : IsIt(h)
<1>1. ReadSignedVec(s, P[0], n, k) = total[DOMAIN [i \in 1 .. n |-> i]]
  BY DEF ReadSignedVec, ReadMany, FoldLeft, MapThenFoldSet, Taken
<1>. DEFINE A == Positions(P, n) \cup {total[t].at : t \in SUBSET (1 .. n)}
            F == [a \in A |-> ReadSigned(s, a, k)]
<1>2. InTurn(F, n, P, vals)
  <2>1. \A m \in 1 .. n : P[m - 1] \in A
    BY DEF Positions
  <2>. HIDE DEF A
  <2>. QED  BY <2>1 DEF InTurn, SignedInTurn
<1>3. /\ \A a \in Positions(P, n) : F[a] = ReadSigned(s, a, k)
      /\ \A t \in SUBSET (1 .. n) : F[total[t].at] = ReadSigned(s, total[t].at, k)
  OBVIOUS
<1>. HIDE DEF F
<1>4. PICK h : IsRun(F, n, P[0], h) /\ \A t \in SUBSET (1 .. n) : h[t].at \in Positions(P, n)
  BY <1>2, RunExists
<1>5. IsIt(h)
  <2>1. \A t \in SUBSET (1 .. n) : F[h[t].at] = ReadSigned(s, h[t].at, k)
    BY <1>3, <1>4
  <2>. QED  BY <1>4, <2>1 DEF IsRun, TakenFrom
<1>6. IsIt(total)
  <2>. HIDE DEF IsIt
  <2>. QED  BY <1>5
<1>. HIDE DEF total
<1>7. IsRun(F, n, P[0], total)
  BY <1>3, <1>6 DEF IsRun, TakenFrom
<1>8. total[1 .. n] = Ok(vals, P[n])
  BY <1>2, <1>7, RunReads
<1>. QED  BY <1>1, <1>8

RiceInTurn(s, k, n, P, vals) == \A m \in 1 .. n : ReadRiceElem(s, P[m - 1], k) = Ok(vals[m], P[m])

LEMMA ManyRice ==
  ASSUME NEW s, NEW k, NEW n \in Nat, NEW P, NEW S, NEW vals \in Seq(S), Len(vals) = n,
         RiceInTurn(s, k, n, P, vals)
  PROVE  ReadRiceVec(s, P[0], n, k) = Ok(vals, P[n])
<1>. DEFINE IsIt(h) == h = [t \in SUBSET DOMAIN [i \in 1 .. n |-> i] |->
                              IF t = {} THEN Ok(<<>>, P[0])
                              ELSE Taken(h[t \ {Max(t)}], ReadRiceElem(s, h[t \ {Max(t)}].at, k))]
            total == CHOOSE h : IsIt(h)
<1>1. ReadRiceVec(s, P[0], n, k) = total[DOMAIN [i \in 1 .. n |-> i]]
  BY DEF ReadRiceVec, ReadMany, FoldLeft, MapThenFoldSet, Taken
<1>. DEFINE A == Positions(P, n) \cup {total[t].at : t \in SUBSET (1 .. n)}
            F == [a \in A |-> ReadRiceElem(s, a, k)]
<1>2. InTurn(F, n, P, vals)
  <2>1. \A m \in 1 .. n : P[m - 1] \in A
    BY DEF Positions
  <2>. HIDE DEF A
  <2>. QED  BY <2>1 DEF InTurn, RiceInTurn
<1>3. /\ \A a \in Positions(P, n) : F[a] = ReadRiceElem(s, a, k)
      /\ \A t \in SUBSET (1 .. n) : F[total[t].at] = ReadRiceElem(s, total[t].at, k)
  OBVIOUS
<1>. HIDE DEF F
<1>4. PICK h : IsRun(F, n, P[0], h) /\ \A t \in SUBSET (1 .. n) : h[t].at \in Positions(P, n)
  BY <1>2, RunExists
<1>5. IsIt(h)
  <2>1. \A t \in SUBSET (1 .. n) : F[h[t].at] = ReadRiceElem(s, h[t].at, k)
    BY <1>3, <1>4
  <2>. QED  BY <1>4, <2>1 DEF IsRun, TakenFrom
<1>6. IsIt(total)
  <2>. HIDE DEF IsIt
  <2>. QED  BY <1>5
<1>. HIDE DEF total
<1>7. IsRun(F, n, P[0], total)
  BY <1>3, <1>6 DEF IsRun, TakenFrom
<1>8. total[1 .. n] = Ok(vals, P[n])
  BY <1>2, <1>7, RunReads
<1>. QED  BY <1>1, <1>8

RowsInTurn(s, kappa, n, P, vals) == \A m \in 1 .. n : ReadRow(s, P[m - 1], kappa) = Ok(vals[m], P[m])

LEMMA ManyRows ==
  ASSUME NEW s, NEW kappa, NEW n \in Nat, NEW P, NEW S, NEW vals \in Seq(S), Len(vals) = n,
         RowsInTurn(s, kappa, n, P, vals)
  PROVE  ReadRows(s, P[0], n, kappa) = Ok(vals, P[n])
<1>. DEFINE IsIt(h) == h = [t \in SUBSET DOMAIN [i \in 1 .. n |-> i] |->
                              IF t = {} THEN Ok(<<>>, P[0])
                              ELSE Taken(h[t \ {Max(t)}], ReadRow(s, h[t \ {Max(t)}].at, kappa))]
            total == CHOOSE h : IsIt(h)
<1>1. ReadRows(s, P[0], n, kappa) = total[DOMAIN [i \in 1 .. n |-> i]]
  BY DEF ReadRows, ReadRow, ReadMany, FoldLeft, MapThenFoldSet, Taken
<1>. DEFINE A == Positions(P, n) \cup {total[t].at : t \in SUBSET (1 .. n)}
            F == [a \in A |-> ReadRow(s, a, kappa)]
<1>2. InTurn(F, n, P, vals)
  <2>1. \A m \in 1 .. n : P[m - 1] \in A
    BY DEF Positions
  <2>. HIDE DEF A
  <2>. QED  BY <2>1 DEF InTurn, RowsInTurn
<1>3. /\ \A a \in Positions(P, n) : F[a] = ReadRow(s, a, kappa)
      /\ \A t \in SUBSET (1 .. n) : F[total[t].at] = ReadRow(s, total[t].at, kappa)
  OBVIOUS
<1>. HIDE DEF F
<1>4. PICK h : IsRun(F, n, P[0], h) /\ \A t \in SUBSET (1 .. n) : h[t].at \in Positions(P, n)
  BY <1>2, RunExists
<1>5. IsIt(h)
  <2>1. \A t \in SUBSET (1 .. n) : F[h[t].at] = ReadRow(s, h[t].at, kappa)
    BY <1>3, <1>4
  <2>. QED  BY <1>4, <2>1 DEF IsRun, TakenFrom
<1>6. IsIt(total)
  <2>. HIDE DEF IsIt
  <2>. QED  BY <1>5
<1>. HIDE DEF total
<1>7. IsRun(F, n, P[0], total)
  BY <1>3, <1>6 DEF IsRun, TakenFrom
<1>8. total[1 .. n] = Ok(vals, P[n])
  BY <1>2, <1>7, RunReads
<1>. QED  BY <1>1, <1>8

-----------------------------------------------------------------------------
(* The codes of the values of a proof, read back.                          *)

LEMMA SequenceOf ==
  ASSUME NEW n \in Nat, NEW S, NEW f \in [1 .. n -> S]
  PROVE  f \in Seq(S) /\ Len(f) = n
<1>1. f \in Seq(S)
  BY SeqDef
<1>2. Len(f) \in Nat /\ 1 .. Len(f) = 1 .. n
  BY <1>1, LenProperties
<1>. QED  BY <1>1, <1>2

\* Where the codes cs end that begin after a bits.
Places(cs, a) == [m \in 0 .. Len(cs) |-> a + Len(Joined(cs, m))]

\* The n codes cs, together c, stand after the first a bits, and end at P.
Placed(s, a, n, cs, c, P) ==
  /\ P[0] = a /\ P[n] = a + Len(c)
  /\ \A m \in 1 .. n : Stands(s, P[m - 1], cs[m]) /\ P[m] = P[m - 1] + Len(cs[m])

LEMMA PlacesAre ==
  ASSUME NEW cs \in Seq(Seq(Bit)), NEW s, NEW a, Stands(s, a, FlattenSeq(cs))
  PROVE  Placed(s, a, Len(cs), cs, FlattenSeq(cs), Places(cs, a))
<1>. DEFINE n == Len(cs)
            P == Places(cs, a)
<1>1. n \in Nat /\ a \in Nat
  BY LenProperties DEF Stands
<1>2. \A m \in 0 .. n : P[m] = a + Len(Joined(cs, m))
  BY DEF Places
<1>3. /\ Joined(cs, 0) = <<>> /\ Joined(cs, n) = FlattenSeq(cs)
      /\ \A m \in 1 .. n : Len(Joined(cs, m)) = Len(Joined(cs, m - 1)) + Len(cs[m])
      /\ \A m \in 1 .. n : Stands(s, a + Len(Joined(cs, m - 1)), cs[m])
  BY JoinedIs, JoinedStands
<1>4. /\ \A m \in 0 .. n : Len(Joined(cs, m)) \in Nat
      /\ \A m \in 1 .. n : Len(cs[m]) \in Nat
  <2>1. \A m \in 0 .. n : Joined(cs, m) \in Seq(Bit)
    BY JoinedIs
  <2>2. \A m \in 1 .. n : cs[m] \in Seq(Bit)
    OBVIOUS
  <2>. QED  BY <2>1, <2>2, LenProperties
<1>. HIDE DEF P, n
<1>5. 0 \in 0 .. n /\ n \in 0 .. n /\ Len(<<>>) = 0
  BY <1>1
<1>6. P[0] = a /\ P[n] = a + Len(FlattenSeq(cs))
  <2>1. P[0] = a + Len(Joined(cs, 0)) /\ P[n] = a + Len(Joined(cs, n))
    BY <1>2, <1>5
  <2>2. Len(Joined(cs, 0)) = 0
    <3>1. <<>> \in Seq(Bit) /\ Len(<<>>) = 0
      OBVIOUS
    <3>. QED  BY <1>3, <3>1
  <2>3. Len(Joined(cs, n)) = Len(FlattenSeq(cs))
    BY <1>3
  <2>4. P[0] = a + 0
    BY <2>1, <2>2
  <2>5. P[0] = a
    BY <1>1, <2>4
  <2>. QED  BY <2>1, <2>3, <2>5
<1>7. ASSUME NEW m \in 1 .. n
      PROVE  Stands(s, P[m - 1], cs[m]) /\ P[m] = P[m - 1] + Len(cs[m])
  <2>1. m \in 0 .. n /\ m - 1 \in 0 .. n
    BY <1>1
  <2>2. P[m - 1] = a + Len(Joined(cs, m - 1)) /\ P[m] = a + Len(Joined(cs, m))
    BY <1>2, <2>1
  <2>3. /\ Len(Joined(cs, m)) = Len(Joined(cs, m - 1)) + Len(cs[m])
        /\ Len(Joined(cs, m - 1)) \in Nat /\ Len(cs[m]) \in Nat
    BY <1>3, <1>4, <2>1
  <2>4. Stands(s, P[m - 1], cs[m])
    BY <1>3, <2>2
  <2>. DEFINE x == Len(Joined(cs, m - 1))
              y == Len(cs[m])
  <2>5. P[m - 1] = a + x /\ P[m] = a + (x + y) /\ x \in Nat /\ y \in Nat
    BY <2>2, <2>3
  <2>. HIDE DEF x, y
  <2>6. P[m] = P[m - 1] + y
    BY <1>1, <2>5
  <2>. QED  BY <2>4, <2>6 DEF y
<1>. QED  BY <1>6, <1>7 DEF P, n, Placed

LEMMA PlacesOf ==
  ASSUME NEW cs \in Seq(Seq(Bit)), NEW n, Len(cs) = n, NEW c, c = FlattenSeq(cs),
         NEW s, NEW a, Stands(s, a, c)
  PROVE  Placed(s, a, n, cs, c, Places(cs, a))
<1>1. Stands(s, a, FlattenSeq(cs))
  OBVIOUS
<1>2. Placed(s, a, Len(cs), cs, FlattenSeq(cs), Places(cs, a))
  BY <1>1, PlacesAre
<1>. QED  BY <1>2

LEMMA CodesOf ==
  ASSUME NEW S, NEW x \in Seq(S), NEW cs, cs = [i \in DOMAIN x |-> cs[i]],
         \A i \in 1 .. Len(x) : cs[i] \in Seq(Bit)
  PROVE  cs \in Seq(Seq(Bit)) /\ Len(cs) = Len(x) /\ FlattenSeq(cs) \in Seq(Bit)
<1>. DEFINE B == Seq(Bit)
<1>1. Len(x) \in Nat /\ DOMAIN x = 1 .. Len(x)
  BY LenProperties
<1>2. cs \in [1 .. Len(x) -> B]
  BY <1>1
<1>. HIDE DEF B
<1>3. cs \in Seq(B) /\ Len(cs) = Len(x)
  BY <1>1, <1>2, SequenceOf
<1>. QED  BY <1>3, FlattenIs DEF B

LEMMA QBitsAre ==
  QBits \in Nat /\ \A c \in 0 .. Q - 1 : c \in Nat /\ c < 2^QBits
<1>1. Q \in Nat /\ Q >= 2 /\ Q - 1 \in Nat /\ Q - 1 < 2^Word
  BY WireAssumption, WordDoubles
<1>2. QBits = BitLength(Q - 1)
  BY <1>1 DEF QBits, CeilLog2
<1>3. Word \in Nat /\ Word <= Word
  BY CodesAssumption
<1>4. QBits \in 0 .. Word /\ Q - 1 < 2^QBits
  BY <1>1, <1>2, <1>3, BitLengthIs
<1>5. 2^QBits \in Nat
  BY <1>3, <1>4, PowerType
<1>. QED  BY <1>1, <1>3, <1>4, <1>5

LEMMA PackedElemCode ==
  ASSUME NEW e \in Element
  PROVE  LET cs == [i \in DOMAIN e |-> Bits(e[i], QBits)]
         IN  /\ cs \in Seq(Seq(Bit)) /\ Len(cs) = D /\ PackedElem(e) = FlattenSeq(cs)
             /\ \A i \in 1 .. D : cs[i] = Bits(e[i], QBits) /\ e[i] \in 0 .. Q - 1
             /\ PackedElem(e) \in Seq(Bit) /\ e \in Seq(0 .. Q - 1) /\ Len(e) = D
<1>. DEFINE cs == [i \in DOMAIN e |-> Bits(e[i], QBits)]
<1>1. D \in Nat /\ DOMAIN e = 1 .. D /\ \A i \in 1 .. D : e[i] \in 0 .. Q - 1
  BY WireAssumption DEF Element
<1>2. \A i \in 1 .. D : Bits(e[i], QBits) \in Seq(Bit)
  BY <1>1, QBitsAre, BitsType
<1>3. cs = [i \in 1 .. D |-> Bits(e[i], QBits)]
  BY <1>1
<1>4. cs \in Seq(Seq(Bit)) /\ Len(cs) = D
  BY <1>1, <1>2, <1>3
<1>5. PackedElem(e) = FlattenSeq(cs)
  BY DEF PackedElem, Concat
<1>6. e \in Seq(0 .. Q - 1) /\ Len(e) = D
  BY <1>1, SequenceOf DEF Element
<1>7. \A i \in 1 .. D : cs[i] = Bits(e[i], QBits)
  BY <1>3
<1>. HIDE DEF cs
<1>8. FlattenSeq(cs) \in Seq(Bit)
  BY <1>4, FlattenIs
<1>. QED  BY <1>1, <1>4, <1>5, <1>6, <1>7, <1>8 DEF cs

LEMMA PackedElemRead ==
  ASSUME NEW e \in Element, NEW s, NEW a, Stands(s, a, PackedElem(e))
  PROVE  ReadPacked(s, a) = Ok(e, a + Len(PackedElem(e)))
<1>. DEFINE cs == [i \in DOMAIN e |-> Bits(e[i], QBits)]
            P == Places(cs, a)
<1>1. /\ cs \in Seq(Seq(Bit)) /\ Len(cs) = D /\ PackedElem(e) = FlattenSeq(cs)
      /\ \A i \in 1 .. D : cs[i] = Bits(e[i], QBits) /\ e[i] \in 0 .. Q - 1
      /\ e \in Seq(0 .. Q - 1) /\ Len(e) = D /\ D \in Nat
  BY PackedElemCode, WireAssumption
<1>. HIDE DEF cs
<1>2. Placed(s, a, D, cs, PackedElem(e), P)
  BY <1>1, PlacesOf
<1>. HIDE DEF P
<1>3. ASSUME NEW m \in 1 .. D
      PROVE  ReadBits(s, P[m - 1], QBits) = Ok(e[m], P[m])
  <2>1. e[m] \in 0 .. Q - 1
    BY <1>1
  <2>2. QBits \in Nat /\ e[m] \in Nat /\ e[m] < 2^QBits
    BY <2>1, QBitsAre
  <2>3. Len(cs[m]) = QBits /\ Stands(s, P[m - 1], Bits(e[m], QBits))
    BY <1>1, <1>2, <2>2, BitsType DEF Placed
  <2>. QED  BY <1>2, <2>2, <2>3, NumberRead DEF Placed
<1>4. ReadPacked(s, P[0]) = Ok(e, P[D])
  BY <1>1, <1>3, ManyBits DEF BitsInTurn
<1>. QED  BY <1>2, <1>4 DEF Placed

LEMMA SignedCode ==
  ASSUME NEW x \in Signed, NEW k \in Nat
  PROVE  RiceCode(ZigzagEncode(x), k) \in Seq(Bit)
<1>1. ZigzagEncode(x) \in Nat
  BY ZigzagInverse, WordDoubles DEF Unsigned
<1>. QED  BY <1>1, RiceCodeType

LEMMA SignedRead ==
  ASSUME NEW x \in Signed, NEW k \in Nat, Within(x, k),
         NEW s, NEW a, Stands(s, a, RiceCode(ZigzagEncode(x), k))
  PROVE  ReadSigned(s, a, k) = Ok(x, a + Len(RiceCode(ZigzagEncode(x), k)))
<1>. DEFINE u == ZigzagEncode(x)
            b == a + Len(RiceCode(u, k))
            r == ReadRice(s, a, k)
<1>1. u \in Nat /\ u < 2^Word /\ ZigzagDecode(u) = x
  BY ZigzagInverse, WordDoubles DEF Unsigned
<1>2. Quotient(u, k) \in Nat /\ Quotient(u, k) <= UnaryMax /\ UnaryMax \in Nat
  BY <1>1, QuotientIs, CodesAssumption DEF Within, Quotient
<1>3. Stands(s, a, RiceCode(u, k))
  OBVIOUS
<1>. HIDE DEF u
<1>4. r = Ok(u, b)
  BY <1>1, <1>2, <1>3, RiceRead
<1>. HIDE DEF r, b
<1>5. r.ok /\ r.value = u /\ r.at = b
  BY <1>4 DEF Ok
<1>6. ReadSigned(s, a, k) = IF r.ok THEN Ok(ZigzagDecode(r.value), r.at) ELSE r
  BY DEF ReadSigned, Then, r
<1>. QED  BY <1>1, <1>5, <1>6 DEF b, u

LEMMA CoefficientRead ==
  ASSUME NEW c \in 0 .. Q - 1, NEW k \in Nat, Within(SignedOf(c, Q), k),
         NEW s, NEW a, Stands(s, a, RiceCode(ZigzagEncode(SignedOf(c, Q)), k))
  PROVE  ReadCoefficient(s, a, k) = Ok(c, a + Len(RiceCode(ZigzagEncode(SignedOf(c, Q)), k)))
<1>. DEFINE x == SignedOf(c, Q)
            b == a + Len(RiceCode(ZigzagEncode(x), k))
            r == ReadSigned(s, a, k)
<1>1. Q \in 1 .. 2^Word - 1
  BY WireAssumption
<1>2. x \in Signed /\ SignedResidue(x, Q) = c
  BY <1>1, ResidueInverse
<1>3. Within(x, k) /\ Stands(s, a, RiceCode(ZigzagEncode(x), k))
  OBVIOUS
<1>. HIDE DEF x
<1>4. r = Ok(x, b)
  BY <1>2, <1>3, SignedRead
<1>. HIDE DEF r, b
<1>5. r.ok /\ r.value = x /\ r.at = b
  BY <1>4 DEF Ok
<1>6. ReadCoefficient(s, a, k) = IF r.ok THEN Ok(SignedResidue(r.value, Q), r.at) ELSE r
  BY DEF ReadCoefficient, Then, r
<1>. QED  BY <1>2, <1>5, <1>6 DEF b, x

LEMMA RiceElemCode ==
  ASSUME NEW k \in Nat, NEW e \in RiceElement(k)
  PROVE  LET cs == [i \in DOMAIN e |-> RiceCode(ZigzagEncode(SignedOf(e[i], Q)), k)]
         IN  /\ cs \in Seq(Seq(Bit)) /\ Len(cs) = D /\ RiceElem(e, k) = FlattenSeq(cs)
             /\ \A i \in 1 .. D : cs[i] = RiceCode(ZigzagEncode(SignedOf(e[i], Q)), k)
             /\ \A i \in 1 .. D : e[i] \in 0 .. Q - 1 /\ Within(SignedOf(e[i], Q), k)
             /\ RiceElem(e, k) \in Seq(Bit) /\ e \in Seq(0 .. Q - 1) /\ Len(e) = D
<1>. DEFINE code(c) == RiceCode(ZigzagEncode(SignedOf(c, Q)), k)
            cs == [i \in DOMAIN e |-> code(e[i])]
<1>1. /\ D \in Nat /\ DOMAIN e = 1 .. D /\ e \in Element
      /\ \A i \in 1 .. D : e[i] \in 0 .. Q - 1 /\ Within(SignedOf(e[i], Q), k)
  BY WireAssumption DEF Element, RiceElement
<1>2. Q \in 1 .. 2^Word - 1
  BY WireAssumption
<1>3. \A i \in 1 .. D : code(e[i]) \in Seq(Bit)
  BY <1>1, <1>2, ResidueInverse, SignedCode
<1>4. RiceElem(e, k) = FlattenSeq(cs)
  BY DEF RiceElem, Concat
<1>. HIDE DEF code
<1>5. cs = [i \in 1 .. D |-> code(e[i])]
  BY <1>1
<1>6. cs \in Seq(Seq(Bit)) /\ Len(cs) = D
  BY <1>1, <1>3, <1>5
<1>7. e \in Seq(0 .. Q - 1) /\ Len(e) = D
  BY <1>1, SequenceOf DEF Element
<1>8. \A i \in 1 .. D : cs[i] = code(e[i])
  BY <1>5
<1>. HIDE DEF cs
<1>9. FlattenSeq(cs) \in Seq(Bit)
  BY <1>6, FlattenIs
<1>. QED  BY <1>1, <1>4, <1>6, <1>7, <1>8, <1>9 DEF cs, code

LEMMA RiceElemRead ==
  ASSUME NEW k \in Nat, NEW e \in RiceElement(k), NEW s, NEW a, Stands(s, a, RiceElem(e, k))
  PROVE  ReadRiceElem(s, a, k) = Ok(e, a + Len(RiceElem(e, k)))
<1>. DEFINE cs == [i \in DOMAIN e |-> RiceCode(ZigzagEncode(SignedOf(e[i], Q)), k)]
            P == Places(cs, a)
<1>1. /\ cs \in Seq(Seq(Bit)) /\ Len(cs) = D /\ RiceElem(e, k) = FlattenSeq(cs)
      /\ \A i \in 1 .. D : cs[i] = RiceCode(ZigzagEncode(SignedOf(e[i], Q)), k)
      /\ \A i \in 1 .. D : e[i] \in 0 .. Q - 1 /\ Within(SignedOf(e[i], Q), k)
      /\ e \in Seq(0 .. Q - 1) /\ Len(e) = D /\ D \in Nat
  BY RiceElemCode, WireAssumption
<1>. HIDE DEF cs
<1>2. Placed(s, a, D, cs, RiceElem(e, k), P)
  BY <1>1, PlacesOf
<1>. HIDE DEF P
<1>3. ASSUME NEW m \in 1 .. D
      PROVE  ReadCoefficient(s, P[m - 1], k) = Ok(e[m], P[m])
  <2>1. e[m] \in 0 .. Q - 1 /\ Within(SignedOf(e[m], Q), k)
    BY <1>1
  <2>2. /\ Stands(s, P[m - 1], RiceCode(ZigzagEncode(SignedOf(e[m], Q)), k))
        /\ P[m] = P[m - 1] + Len(RiceCode(ZigzagEncode(SignedOf(e[m], Q)), k))
    BY <1>1, <1>2 DEF Placed
  <2>3. ReadCoefficient(s, P[m - 1], k)
          = Ok(e[m], P[m - 1] + Len(RiceCode(ZigzagEncode(SignedOf(e[m], Q)), k)))
    BY <2>1, <2>2, CoefficientRead, ZenonT(40)
  <2>. QED  BY <2>2, <2>3
<1>4. ReadRiceElem(s, P[0], k) = Ok(e, P[D])
  <2>1. CoefficientsInTurn(s, k, P, e)
    BY <1>3 DEF CoefficientsInTurn
  <2>2. e \in Seq(0 .. Q - 1) /\ Len(e) = D
    BY <1>1
  <2>. QED  BY <2>1, <2>2, ManyCoefficients
<1>. QED  BY <1>2, <1>4 DEF Placed

-----------------------------------------------------------------------------
(* Vectors and matrices, read back.                                        *)

LEMMA PackedVecCode ==
  ASSUME NEW x \in Seq(Element)
  PROVE  LET cs == [i \in DOMAIN x |-> PackedElem(x[i])]
         IN  /\ cs \in Seq(Seq(Bit)) /\ Len(cs) = Len(x) /\ PackedVec(x) = FlattenSeq(cs)
             /\ \A i \in 1 .. Len(x) : cs[i] = PackedElem(x[i]) /\ x[i] \in Element
             /\ PackedVec(x) \in Seq(Bit) /\ Len(x) \in Nat
<1>. DEFINE cs == [i \in DOMAIN x |-> PackedElem(x[i])]
<1>1. DOMAIN x = 1 .. Len(x) /\ Len(x) \in Nat /\ \A i \in 1 .. Len(x) : x[i] \in Element
  BY LenProperties
<1>2. \A i \in 1 .. Len(x) : PackedElem(x[i]) \in Seq(Bit)
  BY <1>1, PackedElemCode
<1>3. \A i \in 1 .. Len(x) : cs[i] = PackedElem(x[i])
  BY <1>1
<1>4. cs = [i \in DOMAIN x |-> cs[i]]
  OBVIOUS
<1>5. PackedVec(x) = FlattenSeq(cs)
  BY DEF PackedVec, Concat
<1>. HIDE DEF cs
<1>6. \A i \in 1 .. Len(x) : cs[i] \in Seq(Bit)
  BY <1>2, <1>3
<1>7. cs \in Seq(Seq(Bit)) /\ Len(cs) = Len(x) /\ FlattenSeq(cs) \in Seq(Bit)
  BY <1>4, <1>6, CodesOf
<1>. QED  BY <1>1, <1>3, <1>5, <1>7 DEF cs

LEMMA PackedVecRead ==
  ASSUME NEW x \in Seq(Element), NEW s, NEW a, Stands(s, a, PackedVec(x))
  PROVE  ReadRow(s, a, Len(x)) = Ok(x, a + Len(PackedVec(x)))
<1>. DEFINE cs == [i \in DOMAIN x |-> PackedElem(x[i])]
            P == Places(cs, a)
            n == Len(x)
<1>1. /\ cs \in Seq(Seq(Bit)) /\ Len(cs) = n /\ PackedVec(x) = FlattenSeq(cs)
      /\ \A i \in 1 .. n : cs[i] = PackedElem(x[i]) /\ x[i] \in Element
      /\ n \in Nat
  BY PackedVecCode
<1>. HIDE DEF cs, n
<1>2. Placed(s, a, n, cs, PackedVec(x), P)
  BY <1>1, PlacesOf
<1>. HIDE DEF P
<1>3. ASSUME NEW m \in 1 .. n
      PROVE  ReadPacked(s, P[m - 1]) = Ok(x[m], P[m])
  <2>1. /\ x[m] \in Element /\ Stands(s, P[m - 1], PackedElem(x[m]))
        /\ P[m] = P[m - 1] + Len(PackedElem(x[m]))
    BY <1>1, <1>2 DEF Placed
  <2>. QED  BY <2>1, PackedElemRead
<1>4. PackedInTurn(s, n, P, x)
  BY <1>3 DEF PackedInTurn
<1>5. ReadRow(s, P[0], n) = Ok(x, P[n])
  BY <1>1, <1>4, ManyPacked DEF n
<1>6. P[0] = a /\ P[n] = a + Len(PackedVec(x))
  BY <1>2 DEF Placed
<1>. QED  BY <1>5, <1>6 DEF n

RowsCode(x) == FlattenSeq([i \in DOMAIN x |-> PackedVec(x[i])])

LEMMA RowsCodes ==
  ASSUME NEW x \in Seq(Seq(Element))
  PROVE  LET cs == [i \in DOMAIN x |-> PackedVec(x[i])]
         IN  /\ cs \in Seq(Seq(Bit)) /\ Len(cs) = Len(x) /\ RowsCode(x) = FlattenSeq(cs)
             /\ \A i \in 1 .. Len(x) : cs[i] = PackedVec(x[i]) /\ x[i] \in Seq(Element)
             /\ RowsCode(x) \in Seq(Bit) /\ Len(x) \in Nat
<1>. DEFINE cs == [i \in DOMAIN x |-> PackedVec(x[i])]
<1>1. DOMAIN x = 1 .. Len(x) /\ Len(x) \in Nat /\ \A i \in 1 .. Len(x) : x[i] \in Seq(Element)
  BY LenProperties
<1>2. \A i \in 1 .. Len(x) : PackedVec(x[i]) \in Seq(Bit)
  BY <1>1, PackedVecCode
<1>3. \A i \in 1 .. Len(x) : cs[i] = PackedVec(x[i])
  BY <1>1
<1>4. cs = [i \in DOMAIN x |-> cs[i]]
  OBVIOUS
<1>5. RowsCode(x) = FlattenSeq(cs)
  BY DEF RowsCode
<1>. HIDE DEF cs
<1>6. \A i \in 1 .. Len(x) : cs[i] \in Seq(Bit)
  BY <1>2, <1>3
<1>7. cs \in Seq(Seq(Bit)) /\ Len(cs) = Len(x) /\ FlattenSeq(cs) \in Seq(Bit)
  BY <1>4, <1>6, CodesOf
<1>. QED  BY <1>1, <1>3, <1>5, <1>7 DEF cs

LEMMA RowsRead ==
  ASSUME NEW x \in Seq(Seq(Element)), NEW kappa, \A i \in 1 .. Len(x) : Len(x[i]) = kappa,
         NEW s, NEW a, Stands(s, a, RowsCode(x))
  PROVE  ReadRows(s, a, Len(x), kappa) = Ok(x, a + Len(RowsCode(x)))
<1>. DEFINE cs == [i \in DOMAIN x |-> PackedVec(x[i])]
            P == Places(cs, a)
            n == Len(x)
<1>1. /\ cs \in Seq(Seq(Bit)) /\ Len(cs) = n /\ RowsCode(x) = FlattenSeq(cs)
      /\ \A i \in 1 .. n : cs[i] = PackedVec(x[i]) /\ x[i] \in Seq(Element)
      /\ n \in Nat
  BY RowsCodes
<1>. HIDE DEF cs, n
<1>2. Placed(s, a, n, cs, RowsCode(x), P)
  BY <1>1, PlacesOf
<1>. HIDE DEF P
<1>3. ASSUME NEW m \in 1 .. n
      PROVE  ReadRow(s, P[m - 1], kappa) = Ok(x[m], P[m])
  <2>1. /\ x[m] \in Seq(Element) /\ Len(x[m]) = kappa /\ Stands(s, P[m - 1], PackedVec(x[m]))
        /\ P[m] = P[m - 1] + Len(PackedVec(x[m]))
    BY <1>1, <1>2 DEF Placed, n
  <2>. QED  BY <2>1, PackedVecRead
<1>4. RowsInTurn(s, kappa, n, P, x)
  BY <1>3 DEF RowsInTurn
<1>5. ReadRows(s, P[0], n, kappa) = Ok(x, P[n])
  BY <1>1, <1>4, ManyRows DEF n
<1>6. P[0] = a /\ P[n] = a + Len(RowsCode(x))
  BY <1>2 DEF Placed
<1>. QED  BY <1>5, <1>6 DEF n

RiceVec(x, k) == FlattenSeq([i \in DOMAIN x |-> RiceElem(x[i], k)])

LEMMA RiceVecCode ==
  ASSUME NEW k \in Nat, NEW x \in Seq(RiceElement(k))
  PROVE  LET cs == [i \in DOMAIN x |-> RiceElem(x[i], k)]
         IN  /\ cs \in Seq(Seq(Bit)) /\ Len(cs) = Len(x) /\ RiceVec(x, k) = FlattenSeq(cs)
             /\ \A i \in 1 .. Len(x) : cs[i] = RiceElem(x[i], k) /\ x[i] \in RiceElement(k)
             /\ RiceVec(x, k) \in Seq(Bit) /\ Len(x) \in Nat
<1>. DEFINE cs == [i \in DOMAIN x |-> RiceElem(x[i], k)]
<1>1. DOMAIN x = 1 .. Len(x) /\ Len(x) \in Nat /\ \A i \in 1 .. Len(x) : x[i] \in RiceElement(k)
  BY LenProperties
<1>2. \A i \in 1 .. Len(x) : RiceElem(x[i], k) \in Seq(Bit)
  BY <1>1, RiceElemCode
<1>3. \A i \in 1 .. Len(x) : cs[i] = RiceElem(x[i], k)
  BY <1>1
<1>4. cs = [i \in DOMAIN x |-> cs[i]]
  OBVIOUS
<1>5. RiceVec(x, k) = FlattenSeq(cs)
  BY DEF RiceVec
<1>. HIDE DEF cs
<1>6. \A i \in 1 .. Len(x) : cs[i] \in Seq(Bit)
  BY <1>2, <1>3
<1>7. cs \in Seq(Seq(Bit)) /\ Len(cs) = Len(x) /\ FlattenSeq(cs) \in Seq(Bit)
  BY <1>4, <1>6, CodesOf
<1>. QED  BY <1>1, <1>3, <1>5, <1>7 DEF cs

LEMMA RiceVecRead ==
  ASSUME NEW k \in Nat, NEW x \in Seq(RiceElement(k)), NEW s, NEW a, Stands(s, a, RiceVec(x, k))
  PROVE  ReadRiceVec(s, a, Len(x), k) = Ok(x, a + Len(RiceVec(x, k)))
<1>. DEFINE cs == [i \in DOMAIN x |-> RiceElem(x[i], k)]
            P == Places(cs, a)
            n == Len(x)
<1>1. /\ cs \in Seq(Seq(Bit)) /\ Len(cs) = n /\ RiceVec(x, k) = FlattenSeq(cs)
      /\ \A i \in 1 .. n : cs[i] = RiceElem(x[i], k) /\ x[i] \in RiceElement(k)
      /\ n \in Nat
  BY RiceVecCode
<1>. HIDE DEF cs, n
<1>2. Placed(s, a, n, cs, RiceVec(x, k), P)
  BY <1>1, PlacesOf
<1>. HIDE DEF P
<1>3. ASSUME NEW m \in 1 .. n
      PROVE  ReadRiceElem(s, P[m - 1], k) = Ok(x[m], P[m])
  <2>1. /\ x[m] \in RiceElement(k) /\ Stands(s, P[m - 1], RiceElem(x[m], k))
        /\ P[m] = P[m - 1] + Len(RiceElem(x[m], k))
    BY <1>1, <1>2 DEF Placed
  <2>. QED  BY <2>1, RiceElemRead
<1>4. RiceInTurn(s, k, n, P, x)
  BY <1>3 DEF RiceInTurn
<1>5. ReadRiceVec(s, P[0], n, k) = Ok(x, P[n])
  BY <1>1, <1>4, ManyRice DEF n
<1>6. P[0] = a /\ P[n] = a + Len(RiceVec(x, k))
  BY <1>2 DEF Placed
<1>. QED  BY <1>5, <1>6 DEF n

SignedVec(x, k) == FlattenSeq([i \in DOMAIN x |-> RiceCode(ZigzagEncode(Clamp(x[i])), k)])

LEMMA SignedVecCode ==
  ASSUME NEW k \in Nat, NEW x \in Seq(Signed)
  PROVE  LET cs == [i \in DOMAIN x |-> RiceCode(ZigzagEncode(Clamp(x[i])), k)]
         IN  /\ cs \in Seq(Seq(Bit)) /\ Len(cs) = Len(x) /\ SignedVec(x, k) = FlattenSeq(cs)
             /\ \A i \in 1 .. Len(x) : cs[i] = RiceCode(ZigzagEncode(x[i]), k) /\ x[i] \in Signed
             /\ SignedVec(x, k) \in Seq(Bit) /\ Len(x) \in Nat
<1>. DEFINE cs == [i \in DOMAIN x |-> RiceCode(ZigzagEncode(Clamp(x[i])), k)]
<1>1. DOMAIN x = 1 .. Len(x) /\ Len(x) \in Nat /\ \A i \in 1 .. Len(x) : x[i] \in Signed
  BY LenProperties
<1>2. \A i \in 1 .. Len(x) : RiceCode(ZigzagEncode(x[i]), k) \in Seq(Bit)
  BY <1>1, SignedCode
<1>3. \A y \in Signed : Clamp(y) = y
  <2>. DEFINE h == 2^(Word - 1)
  <2>1. h \in Nat
    BY WordDoubles
  <2>2. Signed = -h .. h - 1 /\ \A y : Clamp(y) = IF y >= h THEN h - 1 ELSE IF y < -h THEN -h ELSE y
    BY DEF Signed, Clamp
  <2>. HIDE DEF h
  <2>. QED  BY <2>1, <2>2
<1>4. \A i \in 1 .. Len(x) : cs[i] = RiceCode(ZigzagEncode(x[i]), k)
  <2>1. \A i \in 1 .. Len(x) : cs[i] = RiceCode(ZigzagEncode(Clamp(x[i])), k)
    BY <1>1
  <2>2. \A i \in 1 .. Len(x) : Clamp(x[i]) = x[i]
    BY <1>1, <1>3
  <2>. HIDE DEF cs
  <2>. QED  BY <2>1, <2>2
<1>5. cs = [i \in DOMAIN x |-> cs[i]]
  OBVIOUS
<1>6. SignedVec(x, k) = FlattenSeq(cs)
  BY DEF SignedVec
<1>. HIDE DEF cs
<1>7. \A i \in 1 .. Len(x) : cs[i] \in Seq(Bit)
  BY <1>2, <1>4
<1>8. cs \in Seq(Seq(Bit)) /\ Len(cs) = Len(x) /\ FlattenSeq(cs) \in Seq(Bit)
  BY <1>5, <1>7, CodesOf
<1>. QED  BY <1>1, <1>4, <1>6, <1>8 DEF cs

LEMMA SignedVecRead ==
  ASSUME NEW k \in Nat, NEW x \in Seq(Signed), \A i \in DOMAIN x : Within(x[i], k),
         NEW s, NEW a, Stands(s, a, SignedVec(x, k))
  PROVE  ReadSignedVec(s, a, Len(x), k) = Ok(x, a + Len(SignedVec(x, k)))
<1>. DEFINE cs == [i \in DOMAIN x |-> RiceCode(ZigzagEncode(Clamp(x[i])), k)]
            P == Places(cs, a)
            n == Len(x)
<1>1. /\ cs \in Seq(Seq(Bit)) /\ Len(cs) = n /\ SignedVec(x, k) = FlattenSeq(cs)
      /\ \A i \in 1 .. n : cs[i] = RiceCode(ZigzagEncode(x[i]), k) /\ x[i] \in Signed
      /\ n \in Nat
  BY SignedVecCode
<1>2. \A i \in 1 .. n : Within(x[i], k)
  OBVIOUS
<1>. HIDE DEF cs, n
<1>3. Placed(s, a, n, cs, SignedVec(x, k), P)
  BY <1>1, PlacesOf
<1>. HIDE DEF P
<1>4. ASSUME NEW m \in 1 .. n
      PROVE  ReadSigned(s, P[m - 1], k) = Ok(x[m], P[m])
  <2>1. /\ x[m] \in Signed /\ Within(x[m], k)
        /\ Stands(s, P[m - 1], RiceCode(ZigzagEncode(x[m]), k))
        /\ P[m] = P[m - 1] + Len(RiceCode(ZigzagEncode(x[m]), k))
    BY <1>1, <1>2, <1>3 DEF Placed
  <2>. QED  BY <2>1, SignedRead
<1>5. SignedInTurn(s, k, n, P, x)
  BY <1>4 DEF SignedInTurn
<1>6. ReadSignedVec(s, P[0], n, k) = Ok(x, P[n])
  BY <1>1, <1>5, ManySigned DEF n
<1>7. P[0] = a /\ P[n] = a + Len(SignedVec(x, k))
  BY <1>3 DEF Placed
<1>. QED  BY <1>6, <1>7 DEF n

LEMMA OneBit ==
  ASSUME NEW b \in Bit, NEW s, NEW a, Stands(s, a, <<b>>)
  PROVE  ReadBits(s, a, 1) = Ok(b, a + 1) /\ Len(<<b>>) = 1 /\ <<b>> \in Seq(Bit)
<1>1. a \in Nat /\ Len(s) \in Nat /\ a + 1 <= Len(s) /\ s[a + 1] = b
  BY DEF Stands
<1>2. 2^0 = 1 /\ 2^1 = 2
  BY PowerDoubles
<1>3. b \in {0, 1}
  BY DEF Bit
<1>4. b \div 1 = b /\ b % 2 = b
  BY <1>3
<1>5. \A i \in 1 .. 1 : s[a + i] = Digit(b, i)
  <2>1. Digit(b, 1) = b
    BY <1>2, <1>4 DEF Digit
  <2>. QED  BY <1>1, <2>1
<1>6. ReadBits(s, a, 1) = Ok(b % 2^1, a + 1)
  <2>1. b \in Nat /\ 1 \in Nat
    BY <1>3
  <2>. QED  BY <1>1, <1>5, <2>1, ReadDigits
<1>. QED  BY <1>2, <1>4, <1>6

LEMMA GaussVecIs ==
  ASSUME NEW k \in Nat, NEW x \in Seq(RiceElement(k))
  PROVE  /\ GaussVec(x, k) = IF \A i \in DOMAIN x : x[i] = Zero THEN <<1>> ELSE <<0>> \o RiceVec(x, k)
         /\ GaussVec(x, k) \in Seq(Bit)
<1>1. GaussVec(x, k) = IF \A i \in DOMAIN x : x[i] = Zero THEN <<1>> ELSE <<0>> \o RiceVec(x, k)
  BY DEF GaussVec, RiceVec, Concat
<1>2. RiceVec(x, k) \in Seq(Bit)
  BY RiceVecCode
<1>3. <<0>> \in Seq(Bit) /\ <<1>> \in Seq(Bit)
  BY DEF Bit
<1>4. <<0>> \o RiceVec(x, k) \in Seq(Bit)
  BY <1>2, <1>3, ConcatProperties
<1>. QED  BY <1>1, <1>3, <1>4

LEMMA GaussVecRead ==
  ASSUME NEW k \in Nat, NEW x \in Seq(RiceElement(k)), NEW s, NEW a, Stands(s, a, GaussVec(x, k))
  PROVE  ReadGaussVec(s, a, Len(x), k) = Ok(x, a + Len(GaussVec(x, k)))
<1>. DEFINE n == Len(x)
            r == ReadBits(s, a, 1)
<1>1. n \in Nat /\ DOMAIN x = 1 .. n /\ x = [i \in 1 .. n |-> x[i]] /\ a \in Nat
  BY LenProperties DEF Stands
<1>2. ReadGaussVec(s, a, n, k) =
        IF r.ok THEN IF r.value = 1 THEN Ok([i \in 1 .. n |-> Zero], r.at) ELSE ReadRiceVec(s, r.at, n, k)
        ELSE r
  BY DEF ReadGaussVec, Then, ReadRiceVec, ReadMany, FoldLeft, MapThenFoldSet
<1>3. CASE \A i \in DOMAIN x : x[i] = Zero
  <2>1. GaussVec(x, k) = <<1>>
    BY <1>3, GaussVecIs
  <2>2. r = Ok(1, a + 1) /\ Len(GaussVec(x, k)) = 1
    <3>1. 1 \in Bit /\ Stands(s, a, <<1>>)
      BY <2>1 DEF Bit
    <3>. QED  BY <2>1, <3>1, OneBit
  <2>. HIDE DEF r
  <2>3. r.ok /\ r.value = 1 /\ r.at = a + 1
    BY <2>2 DEF Ok
  <2>4. x = [i \in 1 .. n |-> Zero]
    BY <1>1, <1>3
  <2>. QED  BY <1>2, <2>2, <2>3, <2>4
<1>4. CASE ~\A i \in DOMAIN x : x[i] = Zero
  <2>. DEFINE c == RiceVec(x, k)
              o == <<0>>
  <2>1. GaussVec(x, k) = o \o c /\ c \in Seq(Bit) /\ o \in Seq(Bit)
    <3>1. GaussVec(x, k) = o \o c
      BY <1>4, GaussVecIs
    <3>2. c \in Seq(Bit)
      BY RiceVecCode
    <3>3. o \in Seq(Bit)
      BY DEF Bit
    <3>. QED  BY <3>1, <3>2, <3>3
  <2>2. Len(o) = 1
    OBVIOUS
  <2>. HIDE DEF c
  <2>3. Stands(s, a, o) /\ Stands(s, a + 1, c) /\ Len(o \o c) = 1 + Len(c) /\ Len(c) \in Nat
    <3>. HIDE DEF o
    <3>1. Stands(s, a, o) /\ Stands(s, a + Len(o), c)
      BY <2>1, StandsInTurn
    <3>2. Len(o \o c) = Len(o) + Len(c) /\ Len(c) \in Nat
      BY <2>1, ConcatProperties, LenProperties
    <3>. QED  BY <2>2, <3>1, <3>2
  <2>4. r = Ok(0, a + 1)
    <3>1. 0 \in Bit
      BY DEF Bit
    <3>. QED  BY <2>3, <3>1, OneBit
  <2>. HIDE DEF r
  <2>5. r.ok /\ r.value = 0 /\ r.at = a + 1
    BY <2>4 DEF Ok
  <2>6. ReadRiceVec(s, a + 1, n, k) = Ok(x, (a + 1) + Len(c))
    BY <2>3, RiceVecRead DEF c
  <2>7. a + Len(GaussVec(x, k)) = (a + 1) + Len(c)
    <3>. DEFINE l == Len(c)
    <3>1. Len(GaussVec(x, k)) = 1 + l /\ l \in Nat
      BY <2>1, <2>3
    <3>. HIDE DEF l
    <3>2. a + (1 + l) = (a + 1) + l
      BY <1>1, <3>1
    <3>. QED  BY <3>1, <3>2 DEF l
  <2>. QED  BY <1>2, <2>5, <2>6, <2>7
<1>. QED  BY <1>3, <1>4

-----------------------------------------------------------------------------
(* The upper triangle of a square matrix.                                  *)

\* Entries of the first i rows of r, r - 1, ... entries.
RowsBefore(r, i) == i * r - (i * (i - 1)) \div 2

LEMMA Neighbours ==
  ASSUME NEW i \in Nat
  PROVE  2 * ((i * (i - 1)) \div 2) = i * (i - 1) /\ (i * (i - 1)) \div 2 \in Int
<1>. DEFINE X(n) == n * (n - 1)
            Good(n) == 2 * (X(n) \div 2) = X(n)
            T == {n \in Nat : ~Good(n)}
<1>1. \A n \in Nat : X(n) \in Int /\ X(n + 1) = X(n) + 2 * n
  BY Z3
<1>2. X(0) = 0
  OBVIOUS
<1>. HIDE DEF X
<1>3. T = {}
  <2>1. SUFFICES ASSUME T # {} PROVE FALSE
    OBVIOUS
  <2>2. PICK n \in T : \A m \in T : n <= m
    <3>1. T \in SUBSET Nat
      OBVIOUS
    <3>. HIDE DEF T
    <3>. QED  BY <2>1, <3>1, LeastNumber
  <2>3. CASE n = 0
    BY <1>2, <2>2, <2>3
  <2>4. CASE n # 0
    <3>1. n - 1 \in Nat /\ (n - 1) + 1 = n /\ ~(n <= n - 1)
      BY <2>2, <2>4
    <3>2. n - 1 \notin T
      <4>. HIDE DEF T
      <4>. QED  BY <2>2, <3>1
    <3>3. Good(n - 1)
      BY <3>1, <3>2
    <3>. DEFINE y == X(n - 1)
                w == n - 1
    <3>4. X(n) = y + 2 * w /\ y \in Int /\ w \in Nat /\ 2 * (y \div 2) = y
      BY <1>1, <3>1, <3>3
    <3>. HIDE DEF y, w
    <3>5. 2 * ((y + 2 * w) \div 2) = y + 2 * w
      BY <3>4
    <3>. QED  BY <2>2, <3>4, <3>5
  <2>. QED  BY <2>3, <2>4
<1>4. Good(i) /\ X(i) \in Int
  BY <1>1, <1>3
<1>. QED  BY <1>4 DEF X

LEMMA RowsBeforeIs ==
  ASSUME NEW r \in Nat
  PROVE  /\ RowsBefore(r, 0) = 0 /\ RowsBefore(r, r) = Triangle(r)
         /\ \A i \in Nat : /\ RowsBefore(r, i + 1) = RowsBefore(r, i) + (r - i)
                           /\ RowsBefore(r, i) \in Int
<1>. DEFINE H(i) == (i * (i - 1)) \div 2
<1>1. \A i \in Nat : 2 * H(i) = i * (i - 1) /\ H(i) \in Int
  BY Neighbours
<1>. HIDE DEF H
<1>2. \A i \in Nat : H(i + 1) = H(i) + i
  <2>1. ASSUME NEW i \in Nat PROVE H(i + 1) = H(i) + i
    <3>1. i + 1 \in Nat
      OBVIOUS
    <3>2. 2 * H(i + 1) = (i + 1) * ((i + 1) - 1) /\ 2 * H(i) = i * (i - 1)
      BY <1>1, <3>1
    <3>3. (i + 1) * ((i + 1) - 1) = i * (i - 1) + 2 * i
      BY Z3
    <3>4. H(i) \in Int /\ H(i + 1) \in Int /\ i * (i - 1) \in Int
      BY <1>1, <3>1
    <3>. DEFINE y == i * (i - 1)
                u == H(i)
                v == H(i + 1)
    <3>5. 2 * v = y + 2 * i /\ 2 * u = y /\ y \in Int /\ u \in Int /\ v \in Int
      BY <3>2, <3>3, <3>4
    <3>. HIDE DEF y, u, v
    <3>6. v = u + i
      BY <3>5
    <3>. QED  BY <3>6 DEF u, v
  <2>. QED  BY <2>1
<1>3. \A i : RowsBefore(r, i) = i * r - H(i)
  BY DEF RowsBefore, H
<1>4. RowsBefore(r, 0) = 0
  <2>1. 2 * H(0) = 0 * (0 - 1) /\ H(0) \in Int
    BY <1>1
  <2>2. H(0) = 0 /\ 0 * r = 0
    BY <2>1
  <2>. QED  BY <1>3, <2>2
<1>5. RowsBefore(r, r) = Triangle(r)
  <2>1. Triangle(r) = H(r + 1)
    <3>1. (r + 1) * ((r + 1) - 1) = r * (r + 1)
      BY Z3
    <3>. QED  BY <3>1 DEF Triangle, H
  <2>2. H(r + 1) = H(r) + r /\ 2 * H(r) = r * (r - 1) /\ H(r) \in Int
    BY <1>1, <1>2
  <2>3. r * (r - 1) = r * r - r /\ r * r \in Int
    BY Z3
  <2>. DEFINE y == r * r
              u == H(r)
  <2>4. 2 * u = y - r /\ y \in Int /\ u \in Int
    BY <2>2, <2>3
  <2>5. RowsBefore(r, r) = y - u
    BY <1>3
  <2>6. Triangle(r) = u + r
    BY <2>1, <2>2
  <2>. HIDE DEF y, u
  <2>7. y - u = u + r
    BY <2>4
  <2>. QED  BY <2>5, <2>6, <2>7
<1>6. ASSUME NEW i \in Nat
      PROVE  RowsBefore(r, i + 1) = RowsBefore(r, i) + (r - i) /\ RowsBefore(r, i) \in Int
  <2>1. (i + 1) * r = i * r + r /\ i * r \in Int
    BY Z3
  <2>. DEFINE y == i * r
              u == H(i)
  <2>2. RowsBefore(r, i) = y - u /\ RowsBefore(r, i + 1) = (y + r) - (u + i) /\ u \in Int /\ y \in Int
    BY <1>1, <1>2, <1>3, <2>1
  <2>. HIDE DEF y, u
  <2>3. (y + r) - (u + i) = (y - u) + (r - i) /\ y - u \in Int
    BY <2>2
  <2>. QED  BY <2>2, <2>3
<1>. QED  BY <1>4, <1>5, <1>6

\* The rows of Upper(m).
RowsFrom(m) == [i \in DOMAIN m |-> SubSeq(m[i], i, Len(m))]

LEMMA UpperRows ==
  ASSUME NEW S, NEW m, IsTriangular(m, S)
  PROVE  LET cs == RowsFrom(m)
             r  == Len(m)
         IN  /\ r \in Nat /\ cs \in Seq(Seq(S)) /\ Len(cs) = r /\ Upper(m) = FlattenSeq(cs)
             /\ Upper(m) \in Seq(S)
             /\ \A i \in 1 .. r : /\ Len(cs[i]) = r - i + 1
                                  /\ \A t \in 1 .. r - i + 1 : cs[i][t] = m[i][i + t - 1]
<1>. DEFINE r == Len(m)
            cs == RowsFrom(m)
            V == Seq(Element)
<1>1. /\ m \in Seq(V)
      /\ \A i \in DOMAIN m : Len(m[i]) = Len(m)
      /\ \A i \in DOMAIN m : \A j \in DOMAIN m : ~(j < i) => m[i][j] \in S
  BY DEF IsTriangular, IsVector
<1>2. r \in Nat /\ DOMAIN m = 1 .. r
  <2>. HIDE DEF V
  <2>. QED  BY <1>1, LenProperties
<1>3. \A i \in 1 .. r : m[i] \in Seq(Element) /\ Len(m[i]) = r
  <2>1. \A i \in 1 .. Len(m) : m[i] \in V
    <3>. HIDE DEF V
    <3>. QED  BY <1>1
  <2>. QED  BY <1>1, <1>2, <2>1
<1>4. ASSUME NEW i \in 1 .. r
      PROVE  /\ cs[i] \in Seq(S) /\ Len(cs[i]) = r - i + 1
             /\ \A t \in 1 .. r - i + 1 : cs[i][t] = m[i][i + t - 1]
  <2>. DEFINE row == m[i]
              c == SubSeq(row, i, r)
              l == r - i + 1
  <2>1. cs[i] = c
    BY <1>2 DEF RowsFrom
  <2>2. row \in Seq(Element) /\ Len(row) = r
    BY <1>3
  <2>3. l \in Nat /\ i \in 1 .. r + 1 /\ \A t \in 1 .. l : i + t - 1 \in i .. r
    BY <1>2
  <2>4. \A t \in 1 .. l : row[i + t - 1] \in S
    <3>1. \A j \in i .. r : j \in DOMAIN m /\ i \in DOMAIN m /\ ~(j < i)
      BY <1>2
    <3>2. \A j \in i .. r : row[j] \in S
      BY <1>1, <3>1
    <3>. HIDE DEF row
    <3>. QED  BY <2>3, <3>2
  <2>. HIDE DEF row
  <2>5. c = [t \in 1 .. l |-> row[i + t - 1]]
    <3>1. c = [t \in 1 .. l |-> row[t + i - 1]]
      BY <1>2
    <3>2. \A t \in 1 .. l : t + i - 1 = i + t - 1
      BY <1>2
    <3>. QED  BY <3>1, <3>2
  <2>. HIDE DEF c, l
  <2>6. c \in [1 .. l -> S]
    BY <2>4, <2>5
  <2>7. c \in Seq(S) /\ Len(c) = l
    BY <2>3, <2>6, SequenceOf
  <2>8. \A t \in 1 .. l : c[t] = row[i + t - 1]
    BY <2>5
  <2>. QED  BY <2>1, <2>7, <2>8 DEF l, row
<1>5. Upper(m) = FlattenSeq(cs) /\ cs = [i \in 1 .. r |-> cs[i]]
  BY <1>2 DEF Upper, RowsFrom
<1>. HIDE DEF cs
<1>6. cs \in Seq(Seq(S)) /\ Len(cs) = r
  <2>. DEFINE B == Seq(S)
  <2>1. \A i \in 1 .. r : cs[i] \in B
    BY <1>4
  <2>. HIDE DEF B
  <2>2. cs \in [1 .. r -> B]
    BY <1>5, <2>1
  <2>3. cs \in Seq(B) /\ Len(cs) = r
    <3>. HIDE DEF r
    <3>. QED  BY <1>2, <2>2, SequenceOf
  <2>. QED  BY <2>3 DEF B
<1>7. FlattenSeq(cs) \in Seq(S)
  BY <1>6, FlattenIs
<1>. QED  BY <1>2, <1>4, <1>5, <1>6, <1>7 DEF cs

\* Row i of Upper(m) stands where the rows before it end.
LEMMA UpperPlaces ==
  ASSUME NEW S, NEW m, IsTriangular(m, S)
  PROVE  LET r == Len(m)
         IN  /\ Len(Upper(m)) = Triangle(r)
             /\ \A i \in 1 .. r : \A j \in i .. r :
                  Upper(m)[RowsBefore(r, i - 1) + j - i + 1] = m[i][j]
<1>. DEFINE r == Len(m)
            cs == RowsFrom(m)
            u == Upper(m)
            B(i) == RowsBefore(r, i)
<1>1. /\ r \in Nat /\ cs \in Seq(Seq(S)) /\ Len(cs) = r /\ u = FlattenSeq(cs) /\ u \in Seq(S)
      /\ \A i \in 1 .. r : /\ Len(cs[i]) = r - i + 1
                           /\ \A t \in 1 .. r - i + 1 : cs[i][t] = m[i][i + t - 1]
  BY UpperRows
<1>. HIDE DEF r, cs, u
<1>2. B(0) = 0 /\ B(r) = Triangle(r) /\ \A i \in Nat : B(i + 1) = B(i) + (r - i) /\ B(i) \in Int
  BY <1>1, RowsBeforeIs
<1>. HIDE DEF B
<1>3. Stands(u, 0, FlattenSeq(cs))
  <2>1. Len(u) \in Nat
    BY <1>1, LenProperties
  <2>. QED  BY <1>1, <2>1 DEF Stands
<1>4. /\ Joined(cs, 0) = <<>> /\ Joined(cs, r) = u
      /\ \A i \in 1 .. r : Len(Joined(cs, i)) = Len(Joined(cs, i - 1)) + Len(cs[i])
  BY <1>1, JoinedIs
<1>5. \A i \in 1 .. r : Stands(u, 0 + Len(Joined(cs, i - 1)), cs[i])
  BY <1>1, <1>3, JoinedStands
<1>. DEFINE T == {i \in 0 .. r : Len(Joined(cs, i)) # B(i)}
<1>6. T = {}
  <2>1. SUFFICES ASSUME T # {} PROVE FALSE
    OBVIOUS
  <2>2. PICK i \in T : \A k \in T : i <= k
    <3>1. T \in SUBSET Nat
      OBVIOUS
    <3>. HIDE DEF T
    <3>. QED  BY <2>1, <3>1, LeastNumber
  <2>3. CASE i = 0
    <3>1. Len(Joined(cs, 0)) = 0
      BY <1>4
    <3>. QED  BY <1>2, <2>2, <2>3, <3>1
  <2>4. CASE i # 0
    <3>1. i \in 1 .. r /\ i - 1 \in 0 .. r /\ ~(i <= i - 1) /\ i - 1 \in Nat /\ (i - 1) + 1 = i
      BY <1>1, <2>2, <2>4
    <3>2. i - 1 \notin T
      <4>. HIDE DEF T
      <4>. QED  BY <2>2, <3>1
    <3>3. Len(Joined(cs, i - 1)) = B(i - 1)
      BY <3>1, <3>2
    <3>4. Len(Joined(cs, i)) = B(i - 1) + (r - i + 1)
      BY <1>1, <1>4, <3>1, <3>3
    <3>5. B(i) = B(i - 1) + (r - (i - 1)) /\ r - (i - 1) = r - i + 1
      BY <1>1, <1>2, <3>1
    <3>. QED  BY <2>2, <3>4, <3>5
  <2>. QED  BY <2>3, <2>4
<1>7. \A i \in 0 .. r : Len(Joined(cs, i)) = B(i)
  BY <1>6
<1>. HIDE DEF T
<1>8. Len(u) = Triangle(r)
  <2>1. r \in 0 .. r
    BY <1>1
  <2>2. Len(Joined(cs, r)) = B(r)
    BY <1>7, <2>1
  <2>. QED  BY <1>2, <1>4, <2>2
<1>9. ASSUME NEW i \in 1 .. r, NEW j \in i .. r
      PROVE  u[B(i - 1) + j - i + 1] = m[i][j]
  <2>. DEFINE t == j - i + 1
              b == B(i - 1)
  <2>1. t \in 1 .. r - i + 1 /\ i + t - 1 = j /\ i - 1 \in 0 .. r /\ i - 1 \in Nat
    BY <1>1
  <2>2. cs[i][t] = m[i][j] /\ Len(cs[i]) = r - i + 1
    BY <1>1, <2>1
  <2>3. Stands(u, 0 + b, cs[i])
    BY <1>5, <1>7, <2>1
  <2>4. u[(0 + b) + t] = cs[i][t]
    BY <2>1, <2>2, <2>3 DEF Stands
  <2>5. b \in Int
    BY <1>2, <2>1
  <2>6. (0 + b) + t = b + j - i + 1
    <3>. HIDE DEF b
    <3>. QED  BY <1>1, <2>5
  <2>. QED  BY <2>2, <2>4, <2>6
<1>. QED  BY <1>8, <1>9 DEF r, u, B

\* The entries written are put back in their places.
LEMMA SquareOfUpper ==
  ASSUME NEW S, NEW m, IsTriangular(m, S)
  PROVE  Square(Upper(m), Len(m)) = m
<1>. DEFINE r == Len(m)
            u == Upper(m)
            entry(i, j) == IF j < i THEN Zero
                           ELSE u[(i - 1) * r - ((i - 1) * (i - 2)) \div 2 + j - i + 1]
<1>1. r \in Nat
  BY UpperRows
<1>2. \A i \in 1 .. r : \A j \in 1 .. r : j < i => m[i][j] = Zero
  <2>1. DOMAIN m = 1 .. r
    BY LenProperties DEF IsTriangular, IsVector
  <2>. QED  BY <2>1 DEF IsTriangular
<1>3. \A i \in 1 .. r : \A j \in i .. r : u[RowsBefore(r, i - 1) + j - i + 1] = m[i][j]
  BY UpperPlaces
<1>4. \A i \in 1 .. r : RowsBefore(r, i - 1) = (i - 1) * r - ((i - 1) * (i - 2)) \div 2
  <2>1. \A i \in 1 .. r : (i - 1) - 1 = i - 2
    BY <1>1
  <2>. QED  BY <2>1 DEF RowsBefore
<1>5. \A i \in 1 .. r : \A j \in 1 .. r : entry(i, j) = m[i][j]
  <2>1. ASSUME NEW i \in 1 .. r, NEW j \in 1 .. r PROVE entry(i, j) = m[i][j]
    <3>1. CASE j < i
      BY <1>2, <3>1
    <3>2. CASE ~(j < i)
      <4>1. j \in i .. r
        BY <1>1, <3>2
      <4>2. u[RowsBefore(r, i - 1) + j - i + 1] = m[i][j]
        BY <1>3, <4>1
      <4>. QED  BY <1>4, <3>2, <4>2
    <3>. QED  BY <3>1, <3>2
  <2>. QED  BY <2>1
<1>6. Square(u, r) = [i \in 1 .. r |-> [j \in 1 .. r |-> entry(i, j)]]
  BY DEF Square
<1>. HIDE DEF entry, u
<1>7. Square(u, r) = [i \in 1 .. r |-> [j \in 1 .. r |-> m[i][j]]]
  BY <1>5, <1>6
<1>8. \A i \in 1 .. r : m[i] = [j \in 1 .. r |-> m[i][j]]
  <2>. DEFINE V == Seq(Element)
  <2>1. m \in Seq(V) /\ \A i \in DOMAIN m : Len(m[i]) = r
    BY DEF IsTriangular, IsVector
  <2>2. DOMAIN m = 1 .. r /\ \A i \in 1 .. r : m[i] \in V
    <3>. HIDE DEF V
    <3>. QED  BY <2>1, LenProperties
  <2>3. \A i \in 1 .. r : m[i] \in Seq(Element) /\ Len(m[i]) = r
    BY <2>1, <2>2
  <2>. QED  BY <2>3, LenProperties
<1>9. m = [i \in 1 .. r |-> m[i]]
  <2>1. m \in Seq(Seq(Element))
    BY DEF IsTriangular, IsVector
  <2>. QED  BY <2>1, LenProperties
<1>10. m = [i \in 1 .. r |-> [j \in 1 .. r |-> m[i][j]]]
  <2>. HIDE DEF r
  <2>. QED  BY <1>8, <1>9
<1>. QED  BY <1>7, <1>10 DEF u

-----------------------------------------------------------------------------
(* The fields of an iteration.                                             *)

Parameters == [p : Nat, z : Nat, g : Nat]

\* A field reads back, wherever its code stands.
ReadsField(f, x, k) ==
  /\ FieldCode(f, x, k) \in Seq(Bit)
  /\ \A s, a : Stands(s, a, FieldCode(f, x, k)) =>
       ReadField(f, s, a, k) = Ok(x, a + Len(FieldCode(f, x, k)))

LEMMA AfterLength ==
  ASSUME NEW n \in Nat, n < 2^(Word - 1), NEW c \in Seq(Bit)
  PROVE  /\ LenCode(n) \o c \in Seq(Bit)
         /\ \A s, a : Stands(s, a, LenCode(n) \o c) =>
              \E b : /\ ReadLen(s, a) = Ok(n, b) /\ Stands(s, b, c)
                     /\ b + Len(c) = a + Len(LenCode(n) \o c)
<1>. DEFINE l == LenCode(n)
<1>1. Word - 1 \in Nat /\ Word - 1 <= Word
  BY CodesAssumption
<1>2. l \in Seq(Bit)
  BY <1>1, LenCodeType
<1>3. l \o c \in Seq(Bit) /\ Len(l \o c) = Len(l) + Len(c) /\ Len(l) \in Nat /\ Len(c) \in Nat
  <2>. HIDE DEF l
  <2>. QED  BY <1>2, ConcatProperties, LenProperties
<1>4. ASSUME NEW s, NEW a, Stands(s, a, l \o c)
      PROVE  \E b : ReadLen(s, a) = Ok(n, b) /\ Stands(s, b, c) /\ b + Len(c) = a + Len(l \o c)
  <2>1. Stands(s, a, l) /\ Stands(s, a + Len(l), c)
    <3>. HIDE DEF l
    <3>. QED  BY <1>2, <1>4, StandsInTurn
  <2>2. ReadLen(s, a) = Ok(n, a + Len(l))
    BY <2>1, LenRead
  <2>3. a \in Nat
    BY <1>4 DEF Stands
  <2>4. (a + Len(l)) + Len(c) = a + Len(l \o c)
    <3>. DEFINE x == Len(l)
                y == Len(c)
    <3>1. Len(l \o c) = x + y /\ x \in Nat /\ y \in Nat
      BY <1>3
    <3>. HIDE DEF x, y
    <3>2. (a + x) + y = a + (x + y)
      BY <2>3, <3>1
    <3>. QED  BY <3>1, <3>2 DEF x, y
  <2>. QED  BY <2>1, <2>2, <2>4
<1>. QED  BY <1>3, <1>4

LEMMA PackedField ==
  ASSUME NEW f \in {"u1", "b", "u2"}, NEW k \in Parameters, NEW x, FieldFits(f, x, k)
  PROVE  ReadsField(f, x, k)
<1>. DEFINE n == Len(x)
            c == PackedVec(x)
<1>1. x \in Seq(Element) /\ n < 2^(Word - 1)
  BY DEF FieldFits, IsVector
<1>2. n \in Nat /\ c \in Seq(Bit)
  BY <1>1, PackedVecCode
<1>3. FieldCode(f, x, k) = LenCode(n) \o c
  BY DEF FieldCode
<1>4. ASSUME NEW s, NEW a
      PROVE  ReadField(f, s, a, k) = LET r == ReadLen(s, a)
                                     IN  IF r.ok THEN ReadRow(s, r.at, r.value) ELSE r
  BY DEF ReadField, Then, ReadRow, ReadMany, FoldLeft, MapThenFoldSet
<1>. HIDE DEF c
<1>5. LenCode(n) \o c \in Seq(Bit)
  BY <1>1, <1>2, AfterLength
<1>6. ASSUME NEW s, NEW a, Stands(s, a, LenCode(n) \o c)
      PROVE  ReadField(f, s, a, k) = Ok(x, a + Len(LenCode(n) \o c))
  <2>1. PICK b : ReadLen(s, a) = Ok(n, b) /\ Stands(s, b, c) /\ b + Len(c) = a + Len(LenCode(n) \o c)
    BY <1>1, <1>2, <1>6, AfterLength
  <2>2. ReadRow(s, b, n) = Ok(x, b + Len(c))
    BY <1>1, <2>1, PackedVecRead DEF c
  <2>3. Ok(n, b).ok /\ Ok(n, b).value = n /\ Ok(n, b).at = b
    BY DEF Ok
  <2>. QED  BY <1>4, <2>1, <2>2, <2>3
<1>. QED  BY <1>3, <1>5, <1>6 DEF ReadsField

LEMMA ProjectionField ==
  ASSUME NEW k \in Parameters, NEW x, FieldFits("p", x, k)
  PROVE  ReadsField("p", x, k)
<1>. DEFINE n == Len(x)
            kp == k.p
            c == SignedVec(x, kp)
<1>1. x \in Seq(Signed) /\ n < 2^(Word - 1) /\ kp \in Nat /\ \A i \in DOMAIN x : Within(x[i], kp)
  BY DEF FieldFits, IsVector, Parameters
<1>2. FieldCode("p", x, k) = LenCode(n) \o c
  BY DEF FieldCode, Concat, SignedVec
<1>3. ASSUME NEW s, NEW a
      PROVE  ReadField("p", s, a, k) = LET r == ReadLen(s, a)
                                       IN  IF r.ok THEN ReadSignedVec(s, r.at, r.value, kp) ELSE r
  BY DEF ReadField, Then, ReadSignedVec, ReadMany, FoldLeft, MapThenFoldSet
<1>. HIDE DEF kp
<1>4. n \in Nat /\ c \in Seq(Bit)
  BY <1>1, SignedVecCode
<1>. HIDE DEF c
<1>5. LenCode(n) \o c \in Seq(Bit)
  BY <1>1, <1>4, AfterLength
<1>6. ASSUME NEW s, NEW a, Stands(s, a, LenCode(n) \o c)
      PROVE  ReadField("p", s, a, k) = Ok(x, a + Len(LenCode(n) \o c))
  <2>1. PICK b : ReadLen(s, a) = Ok(n, b) /\ Stands(s, b, c) /\ b + Len(c) = a + Len(LenCode(n) \o c)
    BY <1>1, <1>4, <1>6, AfterLength
  <2>2. ReadSignedVec(s, b, n, kp) = Ok(x, b + Len(c))
    BY <1>1, <2>1, SignedVecRead DEF c
  <2>3. Ok(n, b).ok /\ Ok(n, b).value = n /\ Ok(n, b).at = b
    BY DEF Ok
  <2>. QED  BY <1>3, <2>1, <2>2, <2>3
<1>. QED  BY <1>2, <1>5, <1>6 DEF ReadsField

LEMMA FlagField ==
  ASSUME NEW k \in Parameters, NEW x, FieldFits("last", x, k)
  PROVE  ReadsField("last", x, k)
<1>. DEFINE bit == IF x THEN 1 ELSE 0
<1>1. x \in BOOLEAN
  BY DEF FieldFits
<1>2. bit \in Bit /\ (bit = 1) = x
  BY <1>1 DEF Bit
<1>3. FieldCode("last", x, k) = <<bit>>
  BY <1>1 DEF FieldCode
<1>4. ASSUME NEW s, NEW a
      PROVE  ReadField("last", s, a, k) = LET r == ReadBits(s, a, 1)
                                          IN  IF r.ok THEN Ok(r.value = 1, r.at) ELSE r
  BY DEF ReadField, Then
<1>. HIDE DEF bit
<1>5. <<bit>> \in Seq(Bit) /\ Len(<<bit>>) = 1
  BY <1>2
<1>6. ASSUME NEW s, NEW a, Stands(s, a, <<bit>>)
      PROVE  ReadField("last", s, a, k) = Ok(x, a + Len(<<bit>>))
  <2>1. ReadBits(s, a, 1) = Ok(bit, a + 1)
    BY <1>2, <1>6, OneBit
  <2>2. Ok(bit, a + 1).ok /\ Ok(bit, a + 1).value = bit /\ Ok(bit, a + 1).at = a + 1
    BY DEF Ok
  <2>3. ReadField("last", s, a, k) = Ok(bit = 1, a + 1)
    BY <1>4, <2>1, <2>2
  <2>. QED  BY <1>2, <1>5, <2>3
<1>. QED  BY <1>3, <1>5, <1>6 DEF ReadsField

LEMMA OpeningField ==
  ASSUME NEW f \in {"z0", "z1"}, NEW k \in Parameters, NEW x, FieldFits(f, x, k)
  PROVE  ReadsField(f, x, k)
<1>. DEFINE n == Len(x)
            kz == k.z
            c == GaussVec(x, kz)
<1>1. x \in Seq(RiceElement(kz)) /\ n < 2^(Word - 1) /\ kz \in Nat
  BY DEF FieldFits, IsVector, Parameters
<1>2. FieldCode(f, x, k) = LenCode(n) \o c
  BY DEF FieldCode
<1>3. ASSUME NEW s, NEW a
      PROVE  ReadField(f, s, a, k) = LET r == ReadLen(s, a)
                                     IN  IF r.ok THEN ReadGaussVec(s, r.at, r.value, kz) ELSE r
  BY DEF ReadField, Then
<1>. HIDE DEF kz
<1>4. n \in Nat /\ c \in Seq(Bit)
  BY <1>1, GaussVecIs, LenProperties
<1>. HIDE DEF c
<1>5. LenCode(n) \o c \in Seq(Bit)
  BY <1>1, <1>4, AfterLength
<1>6. ASSUME NEW s, NEW a, Stands(s, a, LenCode(n) \o c)
      PROVE  ReadField(f, s, a, k) = Ok(x, a + Len(LenCode(n) \o c))
  <2>1. PICK b : ReadLen(s, a) = Ok(n, b) /\ Stands(s, b, c) /\ b + Len(c) = a + Len(LenCode(n) \o c)
    BY <1>1, <1>4, <1>6, AfterLength
  <2>2. ReadGaussVec(s, b, n, kz) = Ok(x, b + Len(c))
    BY <1>1, <2>1, GaussVecRead DEF c
  <2>3. Ok(n, b).ok /\ Ok(n, b).value = n /\ Ok(n, b).at = b
    BY DEF Ok
  <2>. QED  BY <1>3, <2>1, <2>2, <2>3
<1>. QED  BY <1>2, <1>5, <1>6 DEF ReadsField

LEMMA RowsField ==
  ASSUME NEW k \in Parameters, NEW x, FieldFits("v", x, k)
  PROVE  ReadsField("v", x, k)
<1>. DEFINE n == Len(x)
            kappa == IF x = <<>> THEN 0 ELSE Len(x[1])
            c == RowsCode(x)
            d == LenCode(kappa) \o c
<1>1. /\ x \in Seq(Seq(Element)) /\ n < 2^(Word - 1)
      /\ \A i \in DOMAIN x : Len(x[i]) < 2^(Word - 1) /\ Len(x[i]) = Len(x[1])
  BY DEF FieldFits, IsVector
<1>2. /\ n \in Nat /\ DOMAIN x = 1 .. n /\ (x = <<>> \/ 1 \in 1 .. n)
      /\ \A i \in 1 .. n : x[i] \in Seq(Element) /\ Len(x[i]) \in Nat
  <2>. DEFINE V == Seq(Element)
  <2>1. x \in Seq(V)
    BY <1>1
  <2>. HIDE DEF V
  <2>2. n \in Nat /\ DOMAIN x = 1 .. n /\ (x = <<>> \/ 1 \in 1 .. n) /\ \A i \in 1 .. n : x[i] \in V
    BY <2>1, LenProperties
  <2>3. \A y \in V : Len(y) \in Nat
    BY LenProperties DEF V
  <2>. QED  BY <2>2, <2>3 DEF V
<1>3. \A i \in 1 .. n : Len(x[i]) = kappa
  <2>1. ASSUME NEW i \in 1 .. n PROVE Len(x[i]) = kappa
    <3>1. x # <<>>
      BY <1>2
    <3>. QED  BY <1>1, <1>2, <3>1
  <2>. QED  BY <2>1
<1>4. kappa \in Nat /\ kappa < 2^(Word - 1)
  <2>1. CASE x = <<>>
    BY <2>1, WordDoubles
  <2>2. CASE x # <<>>
    BY <1>1, <1>2, <2>2
  <2>. QED  BY <2>1, <2>2
<1>5. FieldCode("v", x, k) = (LenCode(n) \o LenCode(kappa)) \o c
  <2>1. FieldCode("v", x, k) = LenCode(n) \o LenCode(kappa) \o Concat(PackedVec, x)
    BY ZenonT(40) DEF FieldCode
  <2>2. Concat(PackedVec, x) = c
    BY DEF RowsCode, Concat
  <2>. QED  BY <2>1, <2>2, ZenonT(40)
<1>6. ASSUME NEW s, NEW a
      PROVE  ReadField("v", s, a, k) =
               LET r == ReadLen(s, a)
                   q == ReadLen(s, r.at)
               IN  IF r.ok THEN IF q.ok THEN ReadRows(s, q.at, r.value, q.value) ELSE q ELSE r
  BY ZenonT(40) DEF ReadField, Then, ReadRows, ReadMany, FoldLeft, MapThenFoldSet
<1>7. c \in Seq(Bit)
  BY <1>1, RowsCodes
<1>. HIDE DEF c, kappa
<1>8. d \in Seq(Bit)
  BY <1>4, <1>7, AfterLength
<1>9. FieldCode("v", x, k) = LenCode(n) \o d
  <2>1. LenCode(n) \in Seq(Bit) /\ LenCode(kappa) \in Seq(Bit)
    <3>1. Word - 1 \in Nat /\ Word - 1 <= Word
      BY CodesAssumption
    <3>. QED  BY <1>1, <1>2, <1>4, <3>1, LenCodeType
  <2>. DEFINE l == LenCode(n)
              m == LenCode(kappa)
  <2>2. l \in Seq(Bit) /\ m \in Seq(Bit)
    BY <2>1
  <2>. HIDE DEF l, m
  <2>3. (l \o m) \o c = l \o (m \o c)
    BY <1>7, <2>2, ConcatAssociative
  <2>. QED  BY <1>5, <2>3 DEF l, m
<1>10. LenCode(n) \o d \in Seq(Bit)
  <2>. HIDE DEF d
  <2>. QED  BY <1>1, <1>2, <1>8, AfterLength
<1>11. ASSUME NEW s, NEW a, Stands(s, a, LenCode(n) \o d)
       PROVE  ReadField("v", s, a, k) = Ok(x, a + Len(LenCode(n) \o d))
  <2>1. PICK b : ReadLen(s, a) = Ok(n, b) /\ Stands(s, b, d) /\ b + Len(d) = a + Len(LenCode(n) \o d)
    <3>. HIDE DEF d
    <3>. QED  BY <1>1, <1>2, <1>8, <1>11, AfterLength
  <2>2. PICK e : ReadLen(s, b) = Ok(kappa, e) /\ Stands(s, e, c) /\ e + Len(c) = b + Len(d)
    BY <1>4, <1>7, <2>1, AfterLength
  <2>3. ReadRows(s, e, n, kappa) = Ok(x, e + Len(c))
    BY <1>1, <1>3, <2>2, RowsRead DEF c
  <2>4. /\ Ok(n, b).ok /\ Ok(n, b).value = n /\ Ok(n, b).at = b
        /\ Ok(kappa, e).ok /\ Ok(kappa, e).value = kappa /\ Ok(kappa, e).at = e
    BY DEF Ok
  <2>5. ReadField("v", s, a, k) = ReadRows(s, e, n, kappa)
    BY <1>6, <2>1, <2>2, <2>4
  <2>. QED  BY <2>1, <2>2, <2>3, <2>5
<1>. QED  BY <1>9, <1>10, <1>11 DEF ReadsField

LEMMA QuadraticField ==
  ASSUME NEW k \in Parameters, NEW x, FieldFits("g", x, k)
  PROVE  ReadsField("g", x, k)
<1>. DEFINE n == Len(x)
            kg == k.g
            u == Upper(x)
            c == GaussVec(u, kg)
<1>1. IsTriangular(x, RiceElement(kg)) /\ n < 2^(Word - 1) /\ kg \in Nat
  BY DEF FieldFits, IsTriangular, IsVector, Parameters
<1>2. FieldCode("g", x, k) = LenCode(n) \o c
  BY DEF FieldCode
<1>3. ASSUME NEW s, NEW a
      PROVE  ReadField("g", s, a, k) =
               LET r == ReadLen(s, a)
                   q == ReadGaussVec(s, r.at, Triangle(r.value), kg)
               IN  IF r.ok THEN IF q.ok THEN Ok(Square(q.value, r.value), q.at) ELSE q ELSE r
  BY DEF ReadField, Then
<1>. HIDE DEF kg
<1>4. n \in Nat /\ u \in Seq(RiceElement(kg)) /\ Len(u) = Triangle(n) /\ Square(u, n) = x
  BY <1>1, UpperRows, UpperPlaces, SquareOfUpper
<1>. HIDE DEF u
<1>5. c \in Seq(Bit)
  BY <1>1, <1>4, GaussVecIs
<1>. HIDE DEF c
<1>6. LenCode(n) \o c \in Seq(Bit)
  BY <1>1, <1>4, <1>5, AfterLength
<1>7. ASSUME NEW s, NEW a, Stands(s, a, LenCode(n) \o c)
      PROVE  ReadField("g", s, a, k) = Ok(x, a + Len(LenCode(n) \o c))
  <2>1. PICK b : ReadLen(s, a) = Ok(n, b) /\ Stands(s, b, c) /\ b + Len(c) = a + Len(LenCode(n) \o c)
    BY <1>1, <1>4, <1>5, <1>7, AfterLength
  <2>2. ReadGaussVec(s, b, Triangle(n), kg) = Ok(u, b + Len(c))
    BY <1>1, <1>4, <2>1, GaussVecRead DEF c
  <2>. DEFINE e == b + Len(c)
  <2>3. /\ Ok(n, b).ok /\ Ok(n, b).value = n /\ Ok(n, b).at = b
        /\ Ok(u, e).ok /\ Ok(u, e).value = u /\ Ok(u, e).at = e
    BY DEF Ok
  <2>4. ReadField("g", s, a, k) = Ok(Square(u, n), e)
    BY <1>3, <2>1, <2>2, <2>3
  <2>. QED  BY <1>4, <2>1, <2>4
<1>. QED  BY <1>2, <1>6, <1>7 DEF ReadsField

LEMMA LinearField ==
  ASSUME NEW k \in Parameters, NEW x, FieldFits("h", x, k)
  PROVE  ReadsField("h", x, k)
<1>. DEFINE n == Len(x)
            u == Upper(x)
            c == PackedVec(u)
<1>1. IsTriangular(x, Element) /\ n < 2^(Word - 1)
  BY DEF FieldFits, IsTriangular, IsVector
<1>2. FieldCode("h", x, k) = LenCode(n) \o c
  BY DEF FieldCode
<1>3. ASSUME NEW s, NEW a
      PROVE  ReadField("h", s, a, k) =
               LET r == ReadLen(s, a)
                   q == ReadRow(s, r.at, Triangle(r.value))
               IN  IF r.ok THEN IF q.ok THEN Ok(Square(q.value, r.value), q.at) ELSE q ELSE r
  BY DEF ReadField, Then, ReadRow, ReadMany, FoldLeft, MapThenFoldSet
<1>4. n \in Nat /\ u \in Seq(Element) /\ Len(u) = Triangle(n) /\ Square(u, n) = x
  BY <1>1, UpperRows, UpperPlaces, SquareOfUpper
<1>. HIDE DEF u
<1>5. c \in Seq(Bit)
  BY <1>4, PackedVecCode
<1>. HIDE DEF c
<1>6. LenCode(n) \o c \in Seq(Bit)
  BY <1>1, <1>4, <1>5, AfterLength
<1>7. ASSUME NEW s, NEW a, Stands(s, a, LenCode(n) \o c)
      PROVE  ReadField("h", s, a, k) = Ok(x, a + Len(LenCode(n) \o c))
  <2>1. PICK b : ReadLen(s, a) = Ok(n, b) /\ Stands(s, b, c) /\ b + Len(c) = a + Len(LenCode(n) \o c)
    BY <1>1, <1>4, <1>5, <1>7, AfterLength
  <2>2. ReadRow(s, b, Triangle(n)) = Ok(u, b + Len(c))
    BY <1>4, <2>1, PackedVecRead DEF c
  <2>. DEFINE e == b + Len(c)
  <2>3. /\ Ok(n, b).ok /\ Ok(n, b).value = n /\ Ok(n, b).at = b
        /\ Ok(u, e).ok /\ Ok(u, e).value = u /\ Ok(u, e).at = e
    BY DEF Ok
  <2>4. ReadField("h", s, a, k) = Ok(Square(u, n), e)
    BY <1>3, <2>1, <2>2, <2>3
  <2>. QED  BY <1>4, <2>1, <2>4
<1>. QED  BY <1>2, <1>6, <1>7 DEF ReadsField

\* Every field of an iteration is read back.
LEMMA FieldsReadBack ==
  ASSUME NEW i \in 1 .. Len(Fields), NEW k \in Parameters, NEW x, FieldFits(Fields[i], x, k)
  PROVE  ReadsField(Fields[i], x, k)
<1>1. Fields[i] \in {"u1", "p", "b", "u2", "last", "z0", "z1", "v", "g", "h"}
  BY DEF Fields
<1>2. CASE Fields[i] \in {"u1", "b", "u2"}
  BY <1>2, PackedField
<1>3. CASE Fields[i] = "p"
  BY <1>3, ProjectionField
<1>4. CASE Fields[i] = "last"
  BY <1>4, FlagField
<1>5. CASE Fields[i] \in {"z0", "z1"}
  BY <1>5, OpeningField
<1>6. CASE Fields[i] = "v"
  BY <1>6, RowsField
<1>7. CASE Fields[i] = "g"
  BY <1>7, QuadraticField
<1>8. CASE Fields[i] = "h"
  BY <1>8, LinearField
<1>. QED  BY <1>1, <1>2, <1>3, <1>4, <1>5, <1>6, <1>7, <1>8

-----------------------------------------------------------------------------
(* The stream of a proof, and where its fields stand.                      *)

Items(s) == {s[i] : i \in 1 .. Len(s)}

LEMMA SequenceIs ==
  ASSUME NEW s, IsSequence(s)
  PROVE  s \in Seq(Items(s)) /\ Len(s) \in Nat /\ DOMAIN s = 1 .. Len(s)
<1>. DEFINE n == Len(s)
            S == Items(s)
<1>1. n \in Nat /\ s = [i \in 1 .. n |-> s[i]]
  BY DEF IsSequence
<1>2. \A i \in 1 .. n : s[i] \in S
  BY DEF Items
<1>. HIDE DEF n, S
<1>3. s \in [1 .. n -> S]
  BY <1>1, <1>2
<1>4. s \in Seq(S)
  BY <1>1, <1>3, SequenceOf
<1>. QED  BY <1>1, <1>4, LenProperties DEF n, S

\* As ProofsAssumption has it.
IsIteration(it, last, k) ==
  /\ IsSequence(it)
  /\ Len(it) = IF last THEN Len(Fields) ELSE LastField
  /\ it[LastField] = last
  /\ \A i \in DOMAIN it : FieldFits(Fields[i], it[i], k)

FieldCodes(it, k) == [i \in DOMAIN it |-> FieldCode(Fields[i], it[i], k)]

LEMMA IterationCode ==
  ASSUME NEW it, NEW last \in BOOLEAN, NEW k \in Parameters, IsIteration(it, last, k)
  PROVE  /\ it \in Seq(Items(it)) /\ Len(it) \in LastField .. Len(Fields) /\ DOMAIN it = 1 .. Len(it)
         /\ FieldCodes(it, k) \in Seq(Seq(Bit)) /\ Len(FieldCodes(it, k)) = Len(it)
         /\ IterCode(it, k) = FlattenSeq(FieldCodes(it, k)) /\ IterCode(it, k) \in Seq(Bit)
         /\ \A i \in 1 .. Len(it) : /\ FieldCodes(it, k)[i] = FieldCode(Fields[i], it[i], k)
                                    /\ ReadsField(Fields[i], it[i], k)
<1>. DEFINE cs == FieldCodes(it, k)
<1>1. it \in Seq(Items(it)) /\ Len(it) \in Nat /\ DOMAIN it = 1 .. Len(it)
  BY SequenceIs DEF IsIteration
<1>2. Len(Fields) = 10 /\ LastField = 5
  BY DEF Fields, LastField
<1>3. Len(it) \in LastField .. Len(Fields)
  BY <1>1, <1>2 DEF IsIteration
<1>4. ASSUME NEW i \in 1 .. Len(it)
      PROVE  ReadsField(Fields[i], it[i], k)
  <2>1. i \in 1 .. Len(Fields)
    BY <1>1, <1>2, <1>3
  <2>2. FieldFits(Fields[i], it[i], k)
    BY <1>1 DEF IsIteration
  <2>. QED  BY <2>1, <2>2, FieldsReadBack
<1>5. \A i \in 1 .. Len(it) : cs[i] = FieldCode(Fields[i], it[i], k)
  BY <1>1 DEF FieldCodes
<1>6. \A i \in 1 .. Len(it) : cs[i] \in Seq(Bit)
  BY <1>4, <1>5 DEF ReadsField
<1>7. cs = [i \in DOMAIN it |-> cs[i]]
  BY DEF FieldCodes
<1>8. IterCode(it, k) = FlattenSeq(cs)
  BY DEF IterCode, FieldCodes
<1>. HIDE DEF cs
<1>9. cs \in Seq(Seq(Bit)) /\ Len(cs) = Len(it) /\ FlattenSeq(cs) \in Seq(Bit)
  BY <1>1, <1>6, <1>7, CodesOf
<1>. QED  BY <1>1, <1>3, <1>4, <1>5, <1>8, <1>9 DEF cs

IterCodes(pf) == [k \in DOMAIN pf.iters |-> IterCode(pf.iters[k], ParamsFor[pf.n_sigs][k])]

LEMMA ProofIs ==
  ASSUME NEW pf \in Proofs
  PROVE  LET n     == pf.n_sigs
             iters == pf.iters
             N     == Len(iters)
         IN  /\ n \in DOMAIN ParamsFor /\ N \in Nat \ {0} /\ N = Depth(n)
             /\ iters \in Seq(Items(iters)) /\ DOMAIN iters = 1 .. N
             /\ \A k \in 1 .. N : /\ ParamsFor[n][k] \in Parameters
                                  /\ IsIteration(iters[k], k = N, ParamsFor[n][k])
<1>. DEFINE n == pf.n_sigs
            iters == pf.iters
            N == Len(iters)
<1>1. /\ n \in DOMAIN ParamsFor
      /\ IsSequence(iters) /\ iters # <<>> /\ N = Depth(n)
      /\ \A k \in DOMAIN iters : IsIteration(iters[k], k = Depth(n), ParamsFor[n][k])
  BY ProofsAssumption DEF IsIteration
<1>. HIDE DEF n, iters
<1>2. iters \in Seq(Items(iters)) /\ N \in Nat /\ DOMAIN iters = 1 .. N
  BY <1>1, SequenceIs
<1>3. N # 0
  BY <1>1, <1>2
<1>4. ParamsFor[n] \in Seq(Parameters)
  BY <1>1, WireAssumption DEF Parameters
<1>5. \A k \in 1 .. N : ParamsFor[n][k] \in Parameters
  BY <1>1, <1>4 DEF Depth
<1>. QED  BY <1>1, <1>2, <1>3, <1>5 DEF n, iters

LEMMA StreamIs ==
  ASSUME NEW pf \in Proofs
  PROVE  LET cs == IterCodes(pf)
             N  == Len(pf.iters)
         IN  /\ cs \in Seq(Seq(Bit)) /\ Len(cs) = N
             /\ Stream(pf.iters, pf.n_sigs) = FlattenSeq(cs)
             /\ Stream(pf.iters, pf.n_sigs) \in Seq(Bit)
             /\ \A k \in 1 .. N : cs[k] = FlattenSeq(FieldCodes(pf.iters[k], ParamsFor[pf.n_sigs][k]))
<1>. DEFINE iters == pf.iters
            N == Len(iters)
            K(k) == ParamsFor[pf.n_sigs][k]
            cs == IterCodes(pf)
<1>1. /\ N \in Nat /\ iters \in Seq(Items(iters)) /\ DOMAIN iters = 1 .. N
      /\ \A k \in 1 .. N : K(k) \in Parameters /\ IsIteration(iters[k], k = N, K(k))
  BY ProofIs
<1>2. cs = [k \in DOMAIN iters |-> IterCode(iters[k], K(k))]
  BY DEF IterCodes
<1>3. Stream(iters, pf.n_sigs) = FlattenSeq(cs)
  BY DEF Stream, IterCodes
<1>. HIDE DEF cs, iters, K
<1>4. \A k \in 1 .. N : cs[k] = IterCode(iters[k], K(k))
  BY <1>1, <1>2
<1>5. \A k \in 1 .. N : /\ IterCode(iters[k], K(k)) \in Seq(Bit)
                        /\ IterCode(iters[k], K(k)) = FlattenSeq(FieldCodes(iters[k], K(k)))
  <2>1. ASSUME NEW k \in 1 .. N
        PROVE  /\ IterCode(iters[k], K(k)) \in Seq(Bit)
               /\ IterCode(iters[k], K(k)) = FlattenSeq(FieldCodes(iters[k], K(k)))
    <3>1. (k = N) \in BOOLEAN
      OBVIOUS
    <3>. QED  BY <1>1, <3>1, IterationCode
  <2>. QED  BY <2>1
<1>6. cs = [k \in DOMAIN iters |-> cs[k]]
  BY <1>2
<1>7. cs \in Seq(Seq(Bit)) /\ Len(cs) = Len(iters) /\ FlattenSeq(cs) \in Seq(Bit)
  BY <1>1, <1>4, <1>5, <1>6, CodesOf
<1>. QED  BY <1>3, <1>4, <1>5, <1>7 DEF cs, iters, K

\* Bits before field j + 1 of iteration m + 1.
Position(pf, m, j) ==
  Len(Joined(IterCodes(pf), m))
    + Len(Joined(FieldCodes(pf.iters[m + 1], ParamsFor[pf.n_sigs][m + 1]), j))

\* The stream up to there.
Passed(pf, m, j) ==
  Joined(IterCodes(pf), m)
    \o Joined(FieldCodes(pf.iters[m + 1], ParamsFor[pf.n_sigs][m + 1]), j)

LEMMA Positioned ==
  ASSUME NEW pf \in Proofs, NEW m \in 0 .. Len(pf.iters) - 1
  PROVE  LET it == pf.iters[m + 1]
             fs == FieldCodes(it, ParamsFor[pf.n_sigs][m + 1])
         IN  /\ Position(pf, 0, 0) = 0
             /\ \A j \in 0 .. Len(it) : /\ Position(pf, m, j) \in Nat
                                        /\ Passed(pf, m, j) \in Seq(Bit)
                                        /\ Len(Passed(pf, m, j)) = Position(pf, m, j)
             /\ \A j \in 1 .. Len(it) : Position(pf, m, j) = Position(pf, m, j - 1) + Len(fs[j])
             /\ m + 1 < Len(pf.iters) => Position(pf, m, Len(it)) = Position(pf, m + 1, 0)
             /\ m + 1 = Len(pf.iters) =>
                  Position(pf, m, Len(it)) = Len(Stream(pf.iters, pf.n_sigs))
<1>. DEFINE iters == pf.iters
            N == Len(iters)
            K(k) == ParamsFor[pf.n_sigs][k]
            cs == IterCodes(pf)
            F(k) == FieldCodes(iters[k], K(k))
            it == iters[m + 1]
            fs == F(m + 1)
<1>1. /\ N \in Nat \ {0} /\ \A k \in 1 .. N : K(k) \in Parameters /\ IsIteration(iters[k], k = N, K(k))
  BY ProofIs
<1>2. /\ cs \in Seq(Seq(Bit)) /\ Len(cs) = N /\ Stream(iters, pf.n_sigs) = FlattenSeq(cs)
      /\ \A k \in 1 .. N : cs[k] = FlattenSeq(F(k))
  BY StreamIs
<1>3. \A k \in 1 .. N : F(k) \in Seq(Seq(Bit)) /\ Len(F(k)) = Len(iters[k]) /\ Len(iters[k]) \in Nat
  <2>1. ASSUME NEW k \in 1 .. N
        PROVE  F(k) \in Seq(Seq(Bit)) /\ Len(F(k)) = Len(iters[k]) /\ Len(iters[k]) \in Nat
    <3>1. (k = N) \in BOOLEAN /\ K(k) \in Parameters /\ IsIteration(iters[k], k = N, K(k))
      BY <1>1
    <3>. HIDE DEF K, iters
    <3>2. FieldCodes(iters[k], K(k)) \in Seq(Seq(Bit)) /\ Len(FieldCodes(iters[k], K(k))) = Len(iters[k])
      BY <3>1, IterationCode
    <3>3. Len(iters[k]) \in Nat
      BY <3>1, SequenceIs DEF IsIteration
    <3>. QED  BY <3>2, <3>3
  <2>. QED  BY <2>1
<1>4. \A i, j : Position(pf, i, j) = Len(Joined(cs, i)) + Len(Joined(F(i + 1), j))
  BY DEF Position
<1>5. \A j : Passed(pf, m, j) = Joined(cs, m) \o Joined(fs, j)
  BY DEF Passed
<1>. HIDE DEF iters, cs, F
<1>6. /\ m + 1 \in 1 .. N /\ m \in 0 .. N /\ 0 + 1 \in 1 .. N /\ m + 1 \in 0 .. N
      /\ (m + 1) - 1 = m /\ 0 \in 0 .. N
  <2>1. m \in 0 .. N - 1
    BY DEF iters
  <2>. QED  BY <1>1, <2>1
<1>7. /\ Joined(cs, 0) = <<>> /\ Joined(cs, N) = FlattenSeq(cs)
      /\ \A k \in 0 .. N : Joined(cs, k) \in Seq(Bit) /\ Len(Joined(cs, k)) \in Nat
      /\ \A k \in 1 .. N : Len(Joined(cs, k)) = Len(Joined(cs, k - 1)) + Len(cs[k])
  BY <1>2, JoinedIs, LenProperties
<1>8. \A k \in 1 .. N : Joined(F(k), 0) = <<>>
  BY <1>3, JoinedIs
<1>9. Len(<<>>) = 0
  OBVIOUS
<1>10. /\ Joined(fs, Len(it)) = FlattenSeq(fs)
       /\ \A j \in 0 .. Len(it) : Joined(fs, j) \in Seq(Bit) /\ Len(Joined(fs, j)) \in Nat
       /\ \A j \in 1 .. Len(it) : Len(Joined(fs, j)) = Len(Joined(fs, j - 1)) + Len(fs[j])
  <2>1. fs \in Seq(Seq(Bit)) /\ Len(fs) = Len(it)
    BY <1>3, <1>6
  <2>. HIDE DEF fs, it
  <2>. QED  BY <2>1, JoinedIs, LenProperties
<1>11. Position(pf, 0, 0) = 0
  <2>1. Len(Joined(cs, 0)) = 0 /\ Len(Joined(F(0 + 1), 0)) = 0
    BY <1>6, <1>7, <1>8, <1>9
  <2>. QED  BY <1>4, <2>1
<1>12. \A j \in 0 .. Len(it) : /\ Position(pf, m, j) \in Nat /\ Passed(pf, m, j) \in Seq(Bit)
                               /\ Len(Passed(pf, m, j)) = Position(pf, m, j)
  <2>1. ASSUME NEW j \in 0 .. Len(it)
        PROVE  /\ Position(pf, m, j) \in Nat /\ Passed(pf, m, j) \in Seq(Bit)
               /\ Len(Passed(pf, m, j)) = Position(pf, m, j)
    <3>. DEFINE x == Joined(cs, m)
                y == Joined(fs, j)
    <3>1. x \in Seq(Bit) /\ y \in Seq(Bit) /\ Len(x) \in Nat /\ Len(y) \in Nat
      BY <1>6, <1>7, <1>10
    <3>2. Passed(pf, m, j) = x \o y /\ Position(pf, m, j) = Len(x) + Len(y)
      BY <1>4, <1>5
    <3>. HIDE DEF x, y
    <3>3. x \o y \in Seq(Bit) /\ Len(x \o y) = Len(x) + Len(y)
      BY <3>1, ConcatProperties
    <3>. QED  BY <3>1, <3>2, <3>3
  <2>. QED  BY <2>1
<1>13. \A j \in 1 .. Len(it) : Position(pf, m, j) = Position(pf, m, j - 1) + Len(fs[j])
  <2>1. ASSUME NEW j \in 1 .. Len(it)
        PROVE  Position(pf, m, j) = Position(pf, m, j - 1) + Len(fs[j])
    <3>1. Len(it) \in Nat /\ fs \in Seq(Seq(Bit)) /\ Len(fs) = Len(it)
      BY <1>3, <1>6
    <3>2. j - 1 \in 0 .. Len(it) /\ fs[j] \in Seq(Bit)
      BY <3>1
    <3>. DEFINE x == Len(Joined(cs, m))
                y == Len(Joined(fs, j - 1))
                z == Len(fs[j])
    <3>3. x \in Nat /\ y \in Nat
      BY <1>6, <1>7, <1>10, <3>2
    <3>4. z \in Nat
      BY <3>2, LenProperties
    <3>5. Position(pf, m, j) = x + (y + z) /\ Position(pf, m, j - 1) = x + y
      BY <1>4, <1>10
    <3>. HIDE DEF x, y, z
    <3>6. x + (y + z) = (x + y) + z
      BY <3>3, <3>4
    <3>. QED  BY <3>5, <3>6 DEF z
  <2>. QED  BY <2>1
<1>14. Position(pf, m, Len(it)) = Len(Joined(cs, m + 1))
  <2>1. cs[m + 1] = FlattenSeq(fs)
    BY <1>2, <1>6
  <2>2. Len(Joined(cs, m + 1)) = Len(Joined(cs, m)) + Len(cs[m + 1])
    BY <1>6, <1>7
  <2>3. Position(pf, m, Len(it)) = Len(Joined(cs, m)) + Len(Joined(fs, Len(it)))
    BY <1>4
  <2>. QED  BY <1>10, <2>1, <2>2, <2>3
<1>15. m + 1 < N => Position(pf, m, Len(it)) = Position(pf, m + 1, 0)
  <2>1. SUFFICES ASSUME m + 1 < N
                 PROVE  Position(pf, m + 1, 0) = Len(Joined(cs, m + 1))
    BY <1>14
  <2>2. (m + 1) + 1 \in 1 .. N
    BY <1>1, <1>6, <2>1
  <2>3. Len(Joined(F((m + 1) + 1), 0)) = 0
    BY <1>8, <1>9, <2>2
  <2>4. Position(pf, m + 1, 0) = Len(Joined(cs, m + 1)) + 0
    BY <1>4, <2>3
  <2>5. Len(Joined(cs, m + 1)) \in Nat
    BY <1>6, <1>7
  <2>. QED  BY <2>4, <2>5
<1>16. m + 1 = N => Position(pf, m, Len(it)) = Len(Stream(iters, pf.n_sigs))
  BY <1>2, <1>7, <1>14
<1>. QED  BY <1>11, <1>12, <1>13, <1>15, <1>16 DEF iters, F

LEMMA PackedIs ==
  ASSUME NEW pf \in Proofs
  PROVE  LET f == Packed(pf)
             s == Stream(pf.iters, pf.n_sigs)
         IN  /\ f.n_sigs = pf.n_sigs /\ f.n_inter = Len(pf.iters) - 1
             /\ f.len \in Nat /\ f.bytes = HeaderLen + f.len /\ f.bytes \in Nat
             /\ f.payload \in Seq(Bit) /\ Stands(f.payload, 0, s)
             /\ Len(s) \in Nat /\ Len(f.payload) \in Nat
             /\ Len(s) <= Len(f.payload) /\ Len(f.payload) - Len(s) < Byte
             /\ \A i \in 1 .. Len(f.payload) - Len(s) : f.payload[Len(s) + i] = 0
<1>. DEFINE f == Packed(pf)
            s == Stream(pf.iters, pf.n_sigs)
            t == Padding(s)
            w == s \o t
            pad == (-Len(s)) % Byte
<1>1. s \in Seq(Bit)
  BY StreamIs
<1>2. f = [n_sigs |-> pf.n_sigs, n_inter |-> Len(pf.iters) - 1, len |-> Len(w) \div Byte,
           bytes |-> HeaderLen + (Len(w) \div Byte), payload |-> w]
  BY DEF Packed
<1>. HIDE DEF f, s
<1>3. Len(s) \in Nat /\ Byte \in Nat /\ Byte > 0 /\ HeaderLen \in Nat
  BY <1>1, LenProperties, WireAssumption
<1>4. pad \in 0 .. Byte - 1
  <2>. DEFINE a == -Len(s)
  <2>1. a \in Int
    BY <1>3
  <2>. HIDE DEF a
  <2>2. a % Byte \in 0 .. Byte - 1
    BY <1>3, <2>1, Z3
  <2>. QED  BY <2>2 DEF a
<1>5. t = [i \in 1 .. pad |-> 0]
  BY DEF Padding
<1>. HIDE DEF pad, t
<1>6. t \in Seq(Bit) /\ Len(t) = pad /\ pad \in Nat /\ \A i \in 1 .. pad : t[i] = 0
  <2>1. pad \in Nat /\ 0 \in Bit
    BY <1>3, <1>4 DEF Bit
  <2>2. t \in [1 .. pad -> Bit] /\ \A i \in 1 .. pad : t[i] = 0
    BY <1>5, <2>1
  <2>3. t \in Seq(Bit) /\ Len(t) = pad
    BY <2>1, <2>2, SequenceOf
  <2>. QED  BY <2>1, <2>2, <2>3
<1>7. /\ w \in Seq(Bit) /\ Len(w) = Len(s) + Len(t)
      /\ \A i \in 1 .. Len(s) + Len(t) : w[i] = IF i <= Len(s) THEN s[i] ELSE t[i - Len(s)]
  BY <1>1, <1>6, ConcatProperties
<1>. HIDE DEF w
<1>8. Len(w) \in Nat /\ Len(w) \div Byte \in Nat
  <2>1. Len(w) \in Nat
    BY <1>7, LenProperties
  <2>. QED  BY <1>3, <2>1, Division
<1>9. Stands(w, 0, s)
  <2>1. \A i \in 1 .. Len(s) : w[0 + i] = s[i]
    <3>1. \A i \in 1 .. Len(s) : i \in 1 .. Len(s) + Len(t) /\ i <= Len(s) /\ 0 + i = i
      BY <1>3, <1>6
    <3>. QED  BY <1>7, <3>1
  <2>2. 0 + Len(s) <= Len(w)
    BY <1>3, <1>6, <1>7
  <2>. QED  BY <1>8, <2>1, <2>2 DEF Stands
<1>10. /\ Len(s) <= Len(w) /\ Len(w) - Len(s) < Byte
       /\ \A i \in 1 .. Len(w) - Len(s) : w[Len(s) + i] = 0
  <2>1. Len(w) - Len(s) = pad
    BY <1>3, <1>6, <1>7
  <2>2. \A i \in 1 .. pad : /\ Len(s) + i \in 1 .. Len(s) + Len(t) /\ ~(Len(s) + i <= Len(s))
                            /\ (Len(s) + i) - Len(s) = i
    BY <1>3, <1>6
  <2>3. \A i \in 1 .. pad : w[Len(s) + i] = t[i]
    BY <1>7, <2>2
  <2>. QED  BY <1>3, <1>4, <1>6, <1>7, <2>1, <2>3
<1>11. /\ f.n_sigs = pf.n_sigs /\ f.n_inter = Len(pf.iters) - 1 /\ f.len = Len(w) \div Byte
       /\ f.bytes = HeaderLen + (Len(w) \div Byte) /\ f.payload = w
  BY <1>2
<1>. HIDE DEF w
<1>12. f.len \in Nat /\ f.bytes = HeaderLen + f.len /\ f.bytes \in Nat
  BY <1>3, <1>8, <1>11
<1>. QED  BY <1>3, <1>7, <1>8, <1>9, <1>10, <1>11, <1>12 DEF f, s

\* Where the reader is, the next field is read back.
LEMMA NextFieldRead ==
  ASSUME NEW pf \in Proofs, NEW m \in 0 .. Len(pf.iters) - 1,
         NEW j \in 0 .. Len(pf.iters[m + 1]) - 1
  PROVE  ReadField(Fields[j + 1], Packed(pf).payload, Position(pf, m, j), ParamsFor[pf.n_sigs][m + 1])
           = Ok(pf.iters[m + 1][j + 1], Position(pf, m, j + 1))
<1>. DEFINE N == Len(pf.iters)
            k == ParamsFor[pf.n_sigs][m + 1]
            it == pf.iters[m + 1]
            fs == FieldCodes(it, k)
            cs == IterCodes(pf)
            w == Packed(pf).payload
            a == Len(Joined(cs, m))
<1>1. N \in Nat \ {0} /\ m + 1 \in 1 .. N /\ (m + 1) - 1 = m
  BY ProofIs
<1>2. k \in Parameters /\ IsIteration(it, m + 1 = N, k)
  BY <1>1, ProofIs
<1>3. /\ cs \in Seq(Seq(Bit)) /\ Len(cs) = N /\ Stream(pf.iters, pf.n_sigs) = FlattenSeq(cs)
      /\ cs[m + 1] = FlattenSeq(fs)
  BY <1>1, StreamIs
<1>4. Stands(w, 0, FlattenSeq(cs))
  BY <1>3, PackedIs
<1>5. Position(pf, m, j) = a + Len(Joined(fs, j))
  BY DEF Position
<1>6. Position(pf, m, j + 1) = Position(pf, m, (j + 1) - 1) + Len(fs[j + 1])
  <2>1. Len(it) \in Nat
    BY <1>2, SequenceIs DEF IsIteration
  <2>2. j + 1 \in 1 .. Len(it)
    BY <2>1
  <2>. QED  BY <2>2, Positioned
<1>. HIDE DEF cs, w, k, it
<1>7. /\ fs \in Seq(Seq(Bit)) /\ Len(fs) = Len(it) /\ Len(it) \in Nat
      /\ \A i \in 1 .. Len(it) : fs[i] = FieldCode(Fields[i], it[i], k) /\ ReadsField(Fields[i], it[i], k)
  <2>1. (m + 1 = N) \in BOOLEAN
    OBVIOUS
  <2>2. Len(it) \in Nat
    BY <1>2, SequenceIs DEF IsIteration
  <2>. QED  BY <1>2, <2>1, <2>2, IterationCode
<1>. HIDE DEF fs, N
<1>8. j + 1 \in 1 .. Len(it) /\ (j + 1) - 1 = j
  <2>1. j \in 0 .. Len(it) - 1
    BY DEF it
  <2>. QED  BY <1>7, <2>1
<1>9. Stands(w, a, cs[m + 1])
  <2>1. Stands(w, 0 + a, cs[m + 1])
    <3>1. Stands(w, 0 + Len(Joined(cs, (m + 1) - 1)), cs[m + 1])
      BY <1>1, <1>3, <1>4, JoinedStands
    <3>. QED  BY <1>1, <3>1
  <2>2. a \in Nat
    <3>1. m \in 0 .. Len(cs)
      BY <1>1, <1>3
    <3>2. Joined(cs, m) \in Seq(Bit)
      BY <1>3, <3>1, JoinedIs
    <3>. QED  BY <3>2, LenProperties
  <2>3. 0 + a = a
    BY <2>2
  <2>. QED  BY <2>1, <2>3
<1>. HIDE DEF a
<1>10. Stands(w, a, FlattenSeq(fs))
  BY <1>3, <1>9
<1>11. Stands(w, a + Len(Joined(fs, (j + 1) - 1)), fs[j + 1])
  BY <1>7, <1>8, <1>10, JoinedStands
<1>12. Stands(w, Position(pf, m, j), FieldCode(Fields[j + 1], it[j + 1], k))
  BY <1>5, <1>7, <1>8, <1>11
<1>13. ReadField(Fields[j + 1], w, Position(pf, m, j), k)
         = Ok(it[j + 1], Position(pf, m, j) + Len(FieldCode(Fields[j + 1], it[j + 1], k)))
  BY <1>7, <1>8, <1>12 DEF ReadsField
<1>14. Position(pf, m, j + 1) = Position(pf, m, j) + Len(FieldCode(Fields[j + 1], it[j + 1], k))
  BY <1>6, <1>7, <1>8
<1>. QED  BY <1>13, <1>14 DEF w, k, it

\* What has been read, packed again.
LEMMA PackedAgain ==
  ASSUME NEW pf \in Proofs, NEW m \in 0 .. Len(pf.iters) - 1,
         NEW j \in 0 .. Len(pf.iters[m + 1])
  PROVE  Stream(Append(SubSeq(pf.iters, 1, m), SubSeq(pf.iters[m + 1], 1, j)), pf.n_sigs)
           = Passed(pf, m, j)
<1>. DEFINE iters == pf.iters
            N == Len(iters)
            K(i) == ParamsFor[pf.n_sigs][i]
            k == K(m + 1)
            it == iters[m + 1]
            fs == FieldCodes(it, k)
            cs == IterCodes(pf)
            some == SubSeq(it, 1, j)
            part == SubSeq(cs, 1, m)
            again == Append(SubSeq(iters, 1, m), some)
<1>1. N \in Nat \ {0} /\ m + 1 \in 1 .. N /\ iters \in Seq(Items(iters)) /\ DOMAIN iters = 1 .. N
  BY ProofIs
<1>2. k \in Parameters /\ IsIteration(it, m + 1 = N, k)
  BY <1>1, ProofIs
<1>3. cs \in Seq(Seq(Bit)) /\ Len(cs) = N
  BY StreamIs
<1>4. /\ it \in Seq(Items(it)) /\ Len(it) \in Nat /\ DOMAIN it = 1 .. Len(it)
      /\ fs \in Seq(Seq(Bit)) /\ Len(fs) = Len(it)
      /\ \A i \in 1 .. Len(it) : fs[i] = FieldCode(Fields[i], it[i], k)
  <2>1. (m + 1 = N) \in BOOLEAN
    OBVIOUS
  <2>. HIDE DEF k, it
  <2>2. it \in Seq(Items(it)) /\ Len(it) \in Nat /\ DOMAIN it = 1 .. Len(it)
    BY <1>2, SequenceIs DEF IsIteration
  <2>3. fs \in Seq(Seq(Bit)) /\ Len(fs) = Len(it)
    BY <1>2, <2>1, IterationCode
  <2>4. \A i \in 1 .. Len(it) : fs[i] = FieldCode(Fields[i], it[i], k)
    BY <2>2 DEF FieldCodes
  <2>. QED  BY <2>2, <2>3, <2>4
<1>5. Passed(pf, m, j) = FlattenSeq(part) \o FlattenSeq(SubSeq(fs, 1, j))
  BY DEF Passed, Joined
<1>6. \A i \in 1 .. N : cs[i] = IterCode(iters[i], K(i))
  BY <1>1 DEF IterCodes
<1>7. j \in 0 .. Len(it) /\ m \in 0 .. N
  BY <1>1
<1>. HIDE DEF cs, iters, K
<1>8. IterCode(some, k) = FlattenSeq(SubSeq(fs, 1, j))
  <2>. HIDE DEF k, it, fs
  <2>1. /\ Len(some) = j /\ DOMAIN some = 1 .. j /\ \A i \in 1 .. j : some[i] = it[i]
        /\ j \in Nat
    <3>1. some \in Seq(Items(it)) /\ Len(some) = j
      BY <1>4, <1>7
    <3>2. \A i \in 1 .. j : some[i] = it[i]
      BY <1>4, <1>7
    <3>. HIDE DEF some
    <3>. QED  BY <1>4, <1>7, <3>1, <3>2, LenProperties
  <2>. DEFINE gs == SubSeq(fs, 1, j)
  <2>2. gs = [i \in 1 .. j |-> fs[i]]
    <3>. DEFINE X == Seq(Bit)
    <3>1. fs \in Seq(X)
      BY <1>4
    <3>. HIDE DEF X
    <3>. QED  BY <1>4, <1>7, <3>1
  <2>3. \A i \in 1 .. j : fs[i] = FieldCode(Fields[i], some[i], k)
    BY <1>4, <1>7, <2>1
  <2>. HIDE DEF some, gs
  <2>4. gs = [i \in DOMAIN some |-> FieldCode(Fields[i], some[i], k)]
    BY <2>1, <2>2, <2>3
  <2>. QED  BY <2>4 DEF IterCode, gs
<1>9. FlattenSeq(SubSeq(fs, 1, j)) \in Seq(Bit)
  <2>. DEFINE X == Seq(Bit)
  <2>1. fs \in Seq(X) /\ Len(fs) = Len(it)
    BY <1>4
  <2>. HIDE DEF X, fs, it
  <2>2. SubSeq(fs, 1, j) \in Seq(X)
    BY <1>4, <1>7, <2>1
  <2>. QED  BY <2>2, FlattenIs DEF X
<1>10. part \in Seq(Seq(Bit)) /\ Len(part) = m /\ \A i \in 1 .. m : part[i] = cs[i]
  <2>. DEFINE X == Seq(Bit)
  <2>1. cs \in Seq(X)
    BY <1>3
  <2>. HIDE DEF X
  <2>2. part \in Seq(X) /\ Len(part) = m /\ \A i \in 1 .. m : part[i] = cs[i]
    BY <1>1, <1>3, <1>7, <2>1
  <2>. QED  BY <2>2 DEF X
<1>11. /\ Len(again) = m + 1 /\ DOMAIN again = 1 .. m + 1 /\ again[m + 1] = some
       /\ \A i \in 1 .. m : again[i] = iters[i]
  <2>. DEFINE head == SubSeq(iters, 1, m)
              S == Items(iters) \cup {some}
  <2>1. head \in Seq(Items(iters)) /\ Len(head) = m /\ \A i \in 1 .. m : head[i] = iters[i]
    BY <1>1, <1>7
  <2>. HIDE DEF head, some
  <2>2. head \in Seq(S) /\ some \in S
    <3>1. DOMAIN head = 1 .. m /\ head = [i \in 1 .. m |-> head[i]] /\ \A i \in 1 .. m : head[i] \in S
      BY <2>1, LenProperties
    <3>. HIDE DEF S
    <3>2. head \in [1 .. m -> S] /\ m \in Nat
      BY <1>7, <3>1
    <3>3. head \in Seq(S)
      BY <3>2, SequenceOf
    <3>4. some \in S
      BY DEF S
    <3>. QED  BY <3>3, <3>4
  <2>. HIDE DEF S
  <2>3. Append(head, some) \in Seq(S) /\ Len(Append(head, some)) = m + 1 /\ Append(head, some)[m + 1] = some
        /\ \A i \in 1 .. m : Append(head, some)[i] = head[i]
    BY <2>1, <2>2, AppendProperties
  <2>4. again = Append(head, some)
    BY DEF head
  <2>. HIDE DEF again
  <2>. QED  BY <2>1, <2>3, <2>4, LenProperties
<1>. DEFINE codes == [i \in DOMAIN again |-> IterCode(again[i], K(i))]
            c == IterCode(some, k)
<1>12. codes = Append(part, c)
  <2>1. DOMAIN codes = 1 .. m + 1 /\ codes[m + 1] = c /\ \A i \in 1 .. m : codes[i] = cs[i]
    <3>1. \A i \in 1 .. m : i \in 1 .. N /\ i \in 1 .. m + 1
      BY <1>1, <1>7
    <3>2. m + 1 \in 1 .. m + 1
      BY <1>7
    <3>. HIDE DEF again, some
    <3>3. codes[m + 1] = IterCode(again[m + 1], K(m + 1))
      BY <1>11, <3>2
    <3>4. \A i \in 1 .. m : codes[i] = IterCode(again[i], K(i))
      BY <1>11, <3>1
    <3>. QED  BY <1>6, <1>11, <3>1, <3>3, <3>4
  <2>2. codes = [i \in 1 .. m + 1 |-> codes[i]]
    BY <2>1
  <2>3. c \in Seq(Bit)
    BY <1>8, <1>9
  <2>. HIDE DEF codes, c, part
  <2>4. Append(part, c) \in Seq(Seq(Bit)) /\ Len(Append(part, c)) = m + 1 /\ Append(part, c)[m + 1] = c
        /\ \A i \in 1 .. m : Append(part, c)[i] = part[i]
    BY <1>10, <2>3, AppendProperties
  <2>5. Append(part, c) = [i \in 1 .. m + 1 |-> Append(part, c)[i]]
    BY <2>4, LenProperties
  <2>6. \A i \in 1 .. m + 1 : codes[i] = Append(part, c)[i]
    <3>1. \A i \in 1 .. m + 1 : i \in 1 .. m \/ i = m + 1
      BY <1>7
    <3>. QED  BY <1>10, <2>1, <2>4, <3>1
  <2>. DEFINE y == Append(part, c)
  <2>7. y = [i \in 1 .. m + 1 |-> y[i]] /\ \A i \in 1 .. m + 1 : codes[i] = y[i]
    BY <2>5, <2>6
  <2>. HIDE DEF y
  <2>8. codes = y
    BY <2>2, <2>7
  <2>. QED  BY <2>8 DEF y
<1>13. Stream(again, pf.n_sigs) = FlattenSeq(codes)
  BY DEF Stream, K
<1>14. FlattenSeq(Append(part, c)) = FlattenSeq(part) \o c
  <2>1. c \in Seq(Bit)
    BY <1>8, <1>9
  <2>. HIDE DEF c, part
  <2>. QED  BY <1>10, <2>1, FlattenAppend
<1>15. Stream(again, pf.n_sigs) = Passed(pf, m, j)
  <2>. HIDE DEF codes, part, again, fs, some, k
  <2>. QED  BY <1>5, <1>8, <1>12, <1>13, <1>14 DEF c
<1>. QED  BY <1>15 DEF iters

\* It is what stands at the front of the payload.
LEMMA PassedIsPrefix ==
  ASSUME NEW pf \in Proofs, NEW m \in 0 .. Len(pf.iters) - 1,
         NEW j \in 0 .. Len(pf.iters[m + 1])
  PROVE  IsPrefix(Passed(pf, m, j), Packed(pf).payload)
<1>. DEFINE N == Len(pf.iters)
            k == ParamsFor[pf.n_sigs][m + 1]
            it == pf.iters[m + 1]
            fs == FieldCodes(it, k)
            cs == IterCodes(pf)
            w == Packed(pf).payload
            x == Joined(cs, m)
            y == Joined(fs, j)
<1>1. N \in Nat \ {0} /\ m + 1 \in 1 .. N /\ (m + 1) - 1 = m /\ m \in 0 .. N
  BY ProofIs
<1>2. k \in Parameters /\ IsIteration(it, m + 1 = N, k)
  BY <1>1, ProofIs
<1>3. /\ cs \in Seq(Seq(Bit)) /\ Len(cs) = N /\ Stream(pf.iters, pf.n_sigs) = FlattenSeq(cs)
      /\ cs[m + 1] = FlattenSeq(fs)
  BY <1>1, StreamIs
<1>4. Stands(w, 0, FlattenSeq(cs)) /\ w \in Seq(Bit) /\ Len(w) \in Nat
  BY <1>3, PackedIs
<1>5. Passed(pf, m, j) = x \o y
  BY DEF Passed
<1>6. j \in 0 .. Len(it)
  OBVIOUS
<1>. HIDE DEF cs, w, k, it
<1>7. fs \in Seq(Seq(Bit)) /\ Len(fs) = Len(it)
  <2>1. (m + 1 = N) \in BOOLEAN
    OBVIOUS
  <2>. QED  BY <1>2, <2>1, IterationCode
<1>. HIDE DEF fs, N
<1>8. Stands(w, 0, x) /\ Stands(w, 0 + Len(x), cs[m + 1]) /\ x \in Seq(Bit)
  <2>1. Stands(w, 0 + Len(Joined(cs, (m + 1) - 1)), cs[m + 1]) /\ Stands(w, 0, Joined(cs, m))
    BY <1>1, <1>3, <1>4, JoinedStands
  <2>2. Joined(cs, m) \in Seq(Bit)
    BY <1>1, <1>3, JoinedIs
  <2>. QED  BY <1>1, <2>1, <2>2
<1>9. Stands(w, 0 + Len(x), y) /\ y \in Seq(Bit)
  <2>1. Stands(w, 0 + Len(x), FlattenSeq(fs))
    BY <1>3, <1>8
  <2>. HIDE DEF x
  <2>. QED  BY <1>6, <1>7, <2>1, JoinedStands, JoinedIs
<1>. HIDE DEF x, y
<1>10. /\ Len(x) \in Nat /\ Len(y) \in Nat /\ x \o y \in Seq(Bit) /\ Len(x \o y) = Len(x) + Len(y)
       /\ \A i \in 1 .. Len(x) + Len(y) : (x \o y)[i] = IF i <= Len(x) THEN x[i] ELSE y[i - Len(x)]
  BY <1>8, <1>9, ConcatProperties, LenProperties
<1>11. /\ 0 + Len(x) + Len(y) <= Len(w)
       /\ \A i \in 1 .. Len(x) : w[0 + i] = x[i]
       /\ \A i \in 1 .. Len(y) : w[(0 + Len(x)) + i] = y[i]
  BY <1>8, <1>9 DEF Stands
<1>12. \A i \in 1 .. Len(x) + Len(y) : w[i] = (x \o y)[i]
  <2>1. ASSUME NEW i \in 1 .. Len(x) + Len(y) PROVE w[i] = (x \o y)[i]
    <3>1. CASE i <= Len(x)
      <4>1. i \in 1 .. Len(x) /\ 0 + i = i
        BY <1>10, <3>1
      <4>. QED  BY <1>10, <1>11, <3>1, <4>1
    <3>2. CASE ~(i <= Len(x))
      <4>1. i - Len(x) \in 1 .. Len(y) /\ (0 + Len(x)) + (i - Len(x)) = i
        BY <1>10, <3>2
      <4>2. w[i] = y[i - Len(x)]
        BY <1>11, <4>1
      <4>. QED  BY <1>10, <3>2, <4>2
    <3>. QED  BY <3>1, <3>2
  <2>. QED  BY <2>1
<1>. DEFINE z == x \o y
<1>13. z \in Seq(Bit) /\ Len(z) \in Nat /\ Len(z) <= Len(w) /\ \A i \in 1 .. Len(z) : w[i] = z[i]
  BY <1>4, <1>10, <1>11, <1>12
<1>. HIDE DEF z
<1>14. IsPrefix(z, w)
  <2>. DEFINE n == Len(z)
  <2>1. SubSeq(w, 1, n) = [i \in 1 .. n |-> w[i]]
    BY <1>4, <1>13
  <2>2. SubSeq(z, 1, n) = z
    BY <1>13, SubSeqFull
  <2>3. z = [i \in 1 .. n |-> z[i]]
    BY <1>13, LenProperties
  <2>4. SubSeq(w, 1, n) = z
    BY <1>13, <2>1, <2>3
  <2>. QED  BY <1>13, <2>2, <2>4 DEF IsPrefix
<1>. QED  BY <1>5, <1>14 DEF z, w

-----------------------------------------------------------------------------
(* The reader of a file: an inductive invariant.                           *)

CarriedInv ==
  /\ carried \in {"nowhere", "whole", "longer", "cut", "relabelled"}
  /\ carried = "nowhere" <=> verdict \in {"packing", "packed"}
  /\ verdict \in {"packing", "packed", "delivered"} => parsed = <<>> /\ current = <<>> /\ at = 0

\* What the file has kept of what was packed.
FileInv ==
  LET f == Packed(proof)
  IN  /\ verdict = "packed" => file = f
      /\ carried \in {"whole", "longer", "relabelled"} =>
           /\ file.n_inter = f.n_inter /\ file.payload = f.payload /\ file.len = f.len
           /\ file.bytes \in Nat /\ file.bytes >= HeaderLen + file.len
      /\ Undamaged => file.n_sigs = f.n_sigs
      /\ carried = "cut" => /\ file.len = f.len
                            /\ file.bytes \in Nat /\ file.bytes < HeaderLen + file.len

\* Before field j + 1 of iteration m + 1 of the proof.
ReaderAt(m, j) ==
  /\ parsed = SubSeq(proof.iters, 1, m) /\ current = SubSeq(proof.iters[m + 1], 1, j)
  /\ at = Position(proof, m, j)

ReaderInv ==
  Undamaged =>
    /\ verdict \in {"delivered", "reading", "Ok"}
    /\ verdict = "reading" =>
         \E m \in 0 .. Len(proof.iters) - 1 : \E j \in 0 .. Len(proof.iters[m + 1]) : ReaderAt(m, j)
    /\ verdict = "Ok" => parsed = proof.iters /\ at = Len(Stream(proof.iters, proof.n_sigs))

DamageInv ==
  /\ carried = "cut" => verdict \in {"delivered", "Truncated"}
  /\ carried = "relabelled" /\ Depth(file.n_sigs) # Len(proof.iters) =>
       verdict \in {"delivered", "BadShape"}

WireInv == proof \in Proofs /\ CarriedInv /\ FileInv /\ ReaderInv /\ DamageInv

LEMMA WireInvInit == Init => WireInv
<1>. SUFFICES ASSUME Init PROVE WireInv
  OBVIOUS
<1>1. proof \in Proofs /\ carried = "nowhere" /\ verdict = "packing"
  BY DEF Init
<1>2. CarriedInv
  BY DEF Init, CarriedInv
<1>3. FileInv /\ ReaderInv /\ DamageInv
  BY <1>1 DEF FileInv, ReaderInv, DamageInv, Undamaged
<1>. QED  BY <1>1, <1>2, <1>3 DEF WireInv

LEMMA ReaderFacts ==
  ASSUME WireInv, Undamaged, verdict = "reading",
         NEW m \in 0 .. Len(proof.iters) - 1, NEW j \in 0 .. Len(proof.iters[m + 1]), ReaderAt(m, j)
  PROVE  LET N  == Len(proof.iters)
             it == proof.iters[m + 1]
         IN  /\ N \in Nat /\ m + 1 \in 1 .. N /\ Len(it) \in Nat
             /\ proof.iters \in Seq(Items(proof.iters)) /\ it \in Seq(Items(it))
             /\ Len(parsed) = m /\ Len(current) = j
             /\ Index = m + 1 /\ file.n_inter + 1 = N
             /\ IterDone <=> j = Len(it)
             /\ ~IterDone => FieldRead = Ok(it[j + 1], Position(proof, m, j + 1))
             /\ IterDone => current = it /\ current[LastField] = (m + 1 = N)
<1>. DEFINE iters == proof.iters
            N == Len(iters)
            it == iters[m + 1]
            k == ParamsFor[proof.n_sigs][m + 1]
            last == m + 1 = N
<1>1. proof \in Proofs
  BY DEF WireInv
<1>2. N \in Nat \ {0} /\ m + 1 \in 1 .. N /\ iters \in Seq(Items(iters)) /\ m \in 0 .. N
  BY <1>1, ProofIs
<1>3. k \in Parameters /\ IsIteration(it, last, k) /\ last \in BOOLEAN
  BY <1>1, <1>2, ProofIs
<1>4. /\ file.n_sigs = proof.n_sigs /\ file.n_inter = N - 1
      /\ file.payload = Packed(proof).payload
  <2>1. FileInv
    BY DEF WireInv
  <2>2. Packed(proof).n_sigs = proof.n_sigs /\ Packed(proof).n_inter = N - 1
    BY <1>1, PackedIs
  <2>. QED  BY <2>1, <2>2 DEF FileInv, Undamaged
<1>5. parsed = SubSeq(iters, 1, m) /\ current = SubSeq(it, 1, j) /\ at = Position(proof, m, j)
  BY DEF ReaderAt
<1>6. j \in 0 .. Len(it)
  OBVIOUS
<1>7. ~(j = Len(it)) /\ Len(it) \in Nat =>
        ReadField(Fields[j + 1], Packed(proof).payload, Position(proof, m, j), k)
          = Ok(it[j + 1], Position(proof, m, j + 1))
  <2>1. SUFFICES ASSUME ~(j = Len(it)), Len(it) \in Nat
                 PROVE  j \in 0 .. Len(it) - 1
    BY <1>1, NextFieldRead
  <2>. QED  BY <1>6, <2>1
<1>. HIDE DEF iters, it, k, last
<1>8. it \in Seq(Items(it)) /\ Len(it) \in Nat
  BY <1>3, SequenceIs DEF IsIteration
<1>9. Len(it) = (IF last THEN 10 ELSE 5) /\ it[5] = last /\ LastField = 5 /\ Len(Fields) = 10
  <2>1. LastField = 5 /\ Len(Fields) = 10
    BY DEF LastField, Fields
  <2>. QED  BY <1>3, <2>1 DEF IsIteration
<1>10. Len(parsed) = m
  BY <1>2, <1>5
<1>11. Len(current) = j /\ \A i \in 1 .. j : current[i] = it[i]
  BY <1>5, <1>6, <1>8
<1>12. Index = m + 1 /\ file.n_inter + 1 = N
  BY <1>2, <1>4, <1>10 DEF Index
<1>13. IterDone <=> j = Len(it)
  <2>1. IterDone <=> (j = 5 /\ ~current[5]) \/ j = 10
    BY <1>9, <1>11 DEF IterDone
  <2>2. j = 5 => current[5] = last
    BY <1>9, <1>11
  <2>3. CASE last
    <3>1. Len(it) = 10 /\ (j = 5 => current[5])
      BY <1>3, <1>9, <2>2, <2>3
    <3>. QED  BY <2>1, <3>1
  <2>4. CASE ~last
    <3>1. Len(it) = 5 /\ (j = 5 => ~current[5]) /\ j # 10
      BY <1>3, <1>6, <1>9, <2>2, <2>4
    <3>. QED  BY <2>1, <3>1
  <2>. QED  BY <2>3, <2>4
<1>14. ~IterDone => FieldRead = Ok(it[j + 1], Position(proof, m, j + 1))
  <2>1. FieldRead = ReadField(Fields[j + 1], Packed(proof).payload, Position(proof, m, j), k)
    BY <1>4, <1>5, <1>11, <1>12 DEF FieldRead, NextField, k
  <2>. QED  BY <1>7, <1>8, <1>13, <2>1
<1>15. IterDone => current = it /\ current[LastField] = last
  <2>1. SUFFICES ASSUME j = Len(it) PROVE current = it /\ current[LastField] = last
    BY <1>13
  <2>2. current = it
    BY <1>5, <1>8, <2>1, SubSeqFull
  <2>. QED  BY <1>9, <2>2
<1>. QED  BY <1>2, <1>8, <1>10, <1>11, <1>12, <1>13, <1>14, <1>15 DEF iters, it, last

\* A step of the reader leaves the file alone.
LEMMA ReaderStep ==
  ASSUME WireInv, verdict \in {"delivered", "reading"}, UNCHANGED <<proof, file, carried>>,
         verdict' \notin {"packing", "packed", "delivered"}, ReaderInv', DamageInv'
  PROVE  WireInv'
<1>1. proof' \in Proofs /\ Packed(proof)' = Packed(proof)
  BY DEF WireInv
<1>2. CarriedInv'
  BY DEF WireInv, CarriedInv
<1>3. FileInv'
  BY <1>1 DEF WireInv, FileInv, Undamaged
<1>. QED  BY <1>1, <1>2, <1>3 DEF WireInv

LEMMA DeliveryStep ==
  ASSUME WireInv, verdict = "packed", NEW how, Arrive(how), how \in {"whole", "longer", "cut", "relabelled"},
         FileInv'
  PROVE  WireInv'
<1>1. proof' = proof /\ carried' = how /\ verdict' = "delivered" /\ UNCHANGED <<parsed, current, at>>
  BY DEF Arrive
<1>2. proof' \in Proofs
  BY <1>1 DEF WireInv
<1>3. CarriedInv'
  BY <1>1 DEF WireInv, CarriedInv
<1>4. ReaderInv' /\ DamageInv'
  BY <1>1 DEF ReaderInv, DamageInv
<1>. QED  BY <1>2, <1>3, <1>4 DEF WireInv

LEMMA PackStep ==
  ASSUME WireInv, Pack
  PROVE  WireInv'
<1>1. proof' = proof /\ carried' = carried /\ verdict' = "packed" /\ verdict = "packing"
      /\ file' = Packed(proof) /\ UNCHANGED <<parsed, current, at>>
  BY DEF Pack
<1>2. proof' \in Proofs
  BY <1>1 DEF WireInv
<1>3. carried = "nowhere" /\ CarriedInv'
  BY <1>1 DEF WireInv, CarriedInv
<1>4. file' = Packed(proof')
  BY <1>1
<1>5. FileInv'
  BY <1>1, <1>3, <1>4 DEF FileInv, Undamaged
<1>6. ReaderInv' /\ DamageInv'
  BY <1>1, <1>3 DEF ReaderInv, DamageInv, Undamaged
<1>. QED  BY <1>2, <1>3, <1>5, <1>6 DEF WireInv

LEMMA ArriveStep ==
  ASSUME WireInv, Whole \/ Longer \/ (\E bytes \in 0 .. file.bytes - 1 : Cut(bytes))
                    \/ (\E n \in DOMAIN ParamsFor : Relabel(n))
  PROVE  WireInv'
<1>. DEFINE f == Packed(proof)
            s == Stream(proof.iters, proof.n_sigs)
            l == Len(s \o Padding(s)) \div Byte
<1>1. verdict = "packed" /\ verdict' = "delivered" /\ proof' = proof
  BY DEF Whole, Longer, Cut, Relabel, Arrive
<1>2. proof \in Proofs /\ file = f
  BY <1>1 DEF WireInv, FileInv
<1>3. /\ f.len \in Nat /\ f.bytes = HeaderLen + f.len /\ f.bytes \in Nat /\ HeaderLen \in Nat
  BY <1>2, PackedIs, WireAssumption
<1>4. f = [n_sigs |-> f.n_sigs, n_inter |-> f.n_inter, len |-> f.len, bytes |-> f.bytes,
           payload |-> f.payload]
  BY DEF Packed
<1>5. Packed(proof') = f
  BY <1>1
<1>. HIDE DEF f
<1>6. CASE Whole
  <2>1. Arrive("whole") /\ file' = f /\ carried' = "whole"
    BY <1>2, <1>6 DEF Whole, Arrive
  <2>2. FileInv'
    BY <1>1, <1>3, <1>5, <2>1 DEF FileInv, Undamaged
  <2>. QED  BY <1>1, <2>1, <2>2, DeliveryStep
<1>7. CASE Longer
  <2>. DEFINE b == f.bytes + 1
              g == [f EXCEPT !.bytes = b]
  <2>1. Arrive("longer") /\ file' = g /\ carried' = "longer"
    BY <1>2, <1>7 DEF Longer, Arrive
  <2>2. b \in Nat /\ b >= HeaderLen + f.len
    BY <1>3
  <2>. HIDE DEF b
  <2>3. g.n_sigs = f.n_sigs /\ g.n_inter = f.n_inter /\ g.len = f.len /\ g.bytes = b /\ g.payload = f.payload
    BY <1>4
  <2>. HIDE DEF g
  <2>4. FileInv'
    BY <1>1, <1>3, <1>5, <2>1, <2>2, <2>3 DEF FileInv, Undamaged
  <2>. QED  BY <1>1, <2>1, <2>4, DeliveryStep
<1>8. ASSUME NEW bytes \in 0 .. file.bytes - 1, Cut(bytes)
      PROVE  WireInv'
  <2>. DEFINE p == SubSeq(f.payload, 1, Byte * (bytes - HeaderLen))
              g == [f EXCEPT !.bytes = bytes, !.payload = p]
  <2>1. Arrive("cut") /\ file' = g /\ carried' = "cut"
    BY <1>2, <1>8 DEF Cut, Arrive
  <2>2. bytes \in Nat /\ bytes < HeaderLen + f.len
    BY <1>2, <1>3, <1>8
  <2>. HIDE DEF p
  <2>3. g.len = f.len /\ g.bytes = bytes
    BY <1>4
  <2>. HIDE DEF g
  <2>4. FileInv'
    BY <1>1, <1>3, <1>5, <2>1, <2>2, <2>3 DEF FileInv, Undamaged
  <2>. QED  BY <1>1, <2>1, <2>4, DeliveryStep
<1>9. ASSUME NEW n \in DOMAIN ParamsFor, Relabel(n)
      PROVE  WireInv'
  <2>. DEFINE g == [f EXCEPT !.n_sigs = n]
  <2>1. Arrive("relabelled") /\ file' = g /\ carried' = "relabelled"
    BY <1>2, <1>9 DEF Relabel, Arrive
  <2>3. g.n_inter = f.n_inter /\ g.len = f.len /\ g.bytes = f.bytes /\ g.payload = f.payload
    BY <1>4
  <2>. HIDE DEF g
  <2>4. FileInv'
    BY <1>1, <1>3, <1>5, <2>1, <2>3 DEF FileInv, Undamaged
  <2>. QED  BY <1>1, <2>1, <2>4, DeliveryStep
<1>. QED  BY <1>6, <1>7, <1>8, <1>9

LEMMA HeaderStep ==
  ASSUME WireInv, Header
  PROVE  WireInv'
<1>. DEFINE N == Len(proof.iters)
<1>1. /\ verdict = "delivered" /\ verdict' = HeaderVerdict
      /\ UNCHANGED <<proof, file, carried, parsed, current, at>>
  BY DEF Header, Finish
<1>2. proof \in Proofs /\ parsed = <<>> /\ current = <<>> /\ at = 0
  BY <1>1 DEF WireInv, CarriedInv
<1>3. N \in Nat \ {0} /\ N = Depth(proof.n_sigs) /\ HeaderLen \in Nat
  BY <1>2, ProofIs, WireAssumption
<1>4. /\ Packed(proof).n_sigs = proof.n_sigs /\ Packed(proof).n_inter = N - 1 /\ Packed(proof).len \in Nat
  BY <1>2, PackedIs
<1>5. carried \in {"whole", "longer", "cut", "relabelled"} /\ FileInv
  BY <1>1 DEF WireInv, CarriedInv
<1>6. HeaderVerdict \in {"Truncated", "BadShape", "reading"}
  BY DEF HeaderVerdict
<1>7. Undamaged => HeaderVerdict = "reading"
  <2>1. SUFFICES ASSUME Undamaged PROVE HeaderVerdict = "reading"
    OBVIOUS
  <2>2. /\ file.n_sigs = proof.n_sigs /\ file.n_inter = N - 1 /\ file.len \in Nat
        /\ file.bytes \in Nat /\ file.bytes >= HeaderLen + file.len
    BY <1>4, <1>5, <2>1 DEF FileInv, Undamaged
  <2>3. ~(file.bytes < HeaderLen) /\ ~(file.bytes < HeaderLen + file.len)
    BY <1>3, <2>2
  <2>4. Depth(file.n_sigs) = file.n_inter + 1
    BY <1>3, <2>2
  <2>. QED  BY <2>3, <2>4 DEF HeaderVerdict
<1>8. carried = "cut" => HeaderVerdict = "Truncated"
  BY <1>4, <1>5 DEF FileInv, HeaderVerdict
<1>9. carried = "relabelled" /\ Depth(file.n_sigs) # N => HeaderVerdict \in {"BadShape"}
  <2>1. SUFFICES ASSUME carried = "relabelled", Depth(file.n_sigs) # N
                 PROVE  HeaderVerdict = "BadShape"
    OBVIOUS
  <2>2. file.n_inter = N - 1 /\ file.len \in Nat /\ file.bytes \in Nat /\ file.bytes >= HeaderLen + file.len
    BY <1>4, <1>5, <2>1 DEF FileInv
  <2>3. ~(file.bytes < HeaderLen) /\ ~(file.bytes < HeaderLen + file.len) /\ file.n_inter + 1 = N
    BY <1>3, <2>2
  <2>. QED  BY <2>1, <2>3 DEF HeaderVerdict
<1>10. ReaderAt(0, 0)
  <2>1. Position(proof, 0, 0) = 0
    <3>1. 0 \in 0 .. N - 1
      BY <1>3
    <3>. QED  BY <1>2, <3>1, Positioned
  <2>2. SubSeq(proof.iters, 1, 0) = <<>> /\ SubSeq(proof.iters[0 + 1], 1, 0) = <<>>
    OBVIOUS
  <2>. QED  BY <1>2, <2>1, <2>2 DEF ReaderAt
<1>11. ReaderInv'
  <2>1. SUFFICES ASSUME Undamaged
                 PROVE  \E m \in 0 .. N - 1 : \E j \in 0 .. Len(proof.iters[m + 1]) : ReaderAt(m, j)'
    BY <1>1, <1>7 DEF ReaderInv, Undamaged
  <2>2. ReaderAt(0, 0)'
    BY <1>1, <1>10 DEF ReaderAt
  <2>3. 0 \in 0 .. N - 1 /\ 0 \in 0 .. Len(proof.iters[0 + 1])
    <3>1. 0 + 1 \in 1 .. N
      BY <1>3
    <3>2. Len(proof.iters[0 + 1]) \in Nat
      BY <1>2, <3>1, ProofIs, SequenceIs DEF IsIteration
    <3>. QED  BY <1>3, <3>2
  <2>. QED  BY <2>2, <2>3
<1>12. DamageInv'
  BY <1>1, <1>8, <1>9 DEF DamageInv
<1>. QED  BY <1>1, <1>6, <1>11, <1>12, ReaderStep

LEMMA ReadingUndamaged ==
  ASSUME WireInv, verdict = "reading"
  PROVE  /\ carried # "cut" /\ (carried = "relabelled" => Depth(file.n_sigs) = Len(proof.iters))
         /\ UNCHANGED <<proof, file, carried>> => DamageInv'
<1>1. carried # "cut" /\ (carried = "relabelled" => Depth(file.n_sigs) = Len(proof.iters))
  BY DEF WireInv, DamageInv
<1>. QED  BY <1>1 DEF DamageInv

LEMMA FieldStep ==
  ASSUME WireInv, TakeField
  PROVE  WireInv'
<1>1. /\ verdict = "reading" /\ ~IterDone /\ current' = Append(current, FieldRead.value)
      /\ at' = FieldRead.at /\ UNCHANGED <<proof, file, carried, parsed, verdict>>
  BY DEF TakeField
<1>2. DamageInv'
  BY <1>1, ReadingUndamaged
<1>3. ReaderInv'
  <2>1. SUFFICES ASSUME Undamaged
                 PROVE  \E m \in 0 .. Len(proof.iters) - 1 :
                          \E j \in 0 .. Len(proof.iters[m + 1]) : ReaderAt(m, j)'
    BY <1>1 DEF ReaderInv, Undamaged
  <2>2. PICK m \in 0 .. Len(proof.iters) - 1 :
          \E j \in 0 .. Len(proof.iters[m + 1]) : ReaderAt(m, j)
    BY <1>1, <2>1 DEF WireInv, ReaderInv
  <2>3. PICK j \in 0 .. Len(proof.iters[m + 1]) : ReaderAt(m, j)
    BY <2>2
  <2>. DEFINE it == proof.iters[m + 1]
  <2>4. /\ Len(it) \in Nat /\ it \in Seq(Items(it))
        /\ j # Len(it) /\ FieldRead = Ok(it[j + 1], Position(proof, m, j + 1))
    BY <1>1, <2>1, <2>3, ReaderFacts
  <2>5. j \in 0 .. Len(it) /\ current = SubSeq(it, 1, j) /\ parsed = SubSeq(proof.iters, 1, m)
    BY <2>3 DEF ReaderAt
  <2>6. FieldRead.value = it[j + 1] /\ FieldRead.at = Position(proof, m, j + 1)
    BY <2>4 DEF Ok
  <2>. HIDE DEF it
  <2>7. j + 1 \in 0 .. Len(it)
    BY <2>4, <2>5
  <2>8. SubSeq(it, 1, j + 1) = Append(SubSeq(it, 1, j), it[j + 1])
    BY <2>4, <2>5, <2>7
  <2>9. ReaderAt(m, j + 1)'
    <3>1. current' = SubSeq(it, 1, j + 1) /\ at' = Position(proof, m, j + 1)
      BY <1>1, <2>5, <2>6, <2>8
    <3>. QED  BY <1>1, <2>5, <3>1 DEF ReaderAt, it
  <2>. QED  BY <2>7, <2>9 DEF it
<1>. QED  BY <1>1, <1>2, <1>3, ReaderStep

LEMMA FieldFailsStep ==
  ASSUME WireInv, FieldFails
  PROVE  WireInv'
<1>1. /\ verdict = "reading" /\ ~IterDone /\ ~FieldRead.ok /\ verdict' = "Refused"
      /\ UNCHANGED <<proof, file, carried>>
  BY DEF FieldFails, Finish
<1>2. DamageInv'
  BY <1>1, ReadingUndamaged
<1>3. ~Undamaged
  <2>1. SUFFICES ASSUME Undamaged PROVE FALSE
    OBVIOUS
  <2>2. PICK m \in 0 .. Len(proof.iters) - 1 :
          \E j \in 0 .. Len(proof.iters[m + 1]) : ReaderAt(m, j)
    BY <1>1, <2>1 DEF WireInv, ReaderInv
  <2>3. PICK j \in 0 .. Len(proof.iters[m + 1]) : ReaderAt(m, j)
    BY <2>2
  <2>4. FieldRead = Ok(proof.iters[m + 1][j + 1], Position(proof, m, j + 1))
    BY <1>1, <2>1, <2>3, ReaderFacts
  <2>. QED  BY <1>1, <2>4 DEF Ok
<1>4. ReaderInv'
  BY <1>1, <1>3 DEF ReaderInv, Undamaged
<1>. QED  BY <1>1, <1>2, <1>4, ReaderStep

LEMMA IterStep ==
  ASSUME WireInv, TakeIter
  PROVE  WireInv'
<1>. DEFINE N == Len(proof.iters)
<1>1. /\ verdict = "reading" /\ IterDone /\ parsed' = Append(parsed, current) /\ current' = <<>>
      /\ verdict' = IF Index = file.n_inter + 1 THEN "Ok" ELSE "reading"
      /\ UNCHANGED <<proof, file, carried, at>>
  BY DEF TakeIter
<1>2. DamageInv'
  BY <1>1, ReadingUndamaged
<1>3. ReaderInv'
  <2>1. SUFFICES ASSUME Undamaged PROVE ReaderInv'
    BY <1>1 DEF ReaderInv, Undamaged
  <2>2. PICK m \in 0 .. N - 1 : \E j \in 0 .. Len(proof.iters[m + 1]) : ReaderAt(m, j)
    BY <1>1, <2>1 DEF WireInv, ReaderInv
  <2>3. PICK j \in 0 .. Len(proof.iters[m + 1]) : ReaderAt(m, j)
    BY <2>2
  <2>. DEFINE iters == proof.iters
              it == iters[m + 1]
  <2>4. /\ N \in Nat /\ m + 1 \in 1 .. N /\ iters \in Seq(Items(iters))
        /\ Index = m + 1 /\ file.n_inter + 1 = N /\ j = Len(it) /\ current = it
    BY <1>1, <2>1, <2>3, ReaderFacts
  <2>5. parsed = SubSeq(iters, 1, m) /\ at = Position(proof, m, Len(it))
    BY <2>3, <2>4 DEF ReaderAt
  <2>6. parsed' = SubSeq(iters, 1, m + 1)
    <3>1. m \in 0 .. N - 1
      OBVIOUS
    <3>. HIDE DEF iters
    <3>2. SubSeq(iters, 1, m + 1) = Append(SubSeq(iters, 1, m), it)
      BY <2>4, <3>1 DEF iters
    <3>. QED  BY <1>1, <2>4, <2>5, <3>2
  <2>7. proof \in Proofs
    BY DEF WireInv
  <2>8. CASE m + 1 = N
    <3>1. verdict' = "Ok"
      BY <1>1, <2>4, <2>8
    <3>2. parsed' = iters
      BY <2>4, <2>6, <2>8, SubSeqFull
    <3>3. at' = Len(Stream(iters, proof.n_sigs))
      BY <1>1, <2>5, <2>7, <2>8, Positioned
    <3>. QED  BY <1>1, <3>1, <3>2, <3>3 DEF ReaderInv
  <2>9. CASE m + 1 # N
    <3>1. verdict' = "reading" /\ m + 1 < N /\ m + 1 \in 0 .. N - 1 /\ (m + 1) + 1 \in 1 .. N
      BY <1>1, <2>4, <2>9
    <3>2. at' = Position(proof, m + 1, 0)
      BY <1>1, <2>5, <2>7, <3>1, Positioned
    <3>3. SubSeq(iters[(m + 1) + 1], 1, 0) = <<>>
      OBVIOUS
    <3>4. ReaderAt(m + 1, 0)'
      BY <1>1, <2>6, <3>2, <3>3 DEF ReaderAt
    <3>5. 0 \in 0 .. Len(iters[(m + 1) + 1])
      <4>1. Len(iters[(m + 1) + 1]) \in Nat
        BY <2>7, <3>1, ProofIs, SequenceIs DEF IsIteration
      <4>. QED  BY <4>1
    <3>6. \E i \in 0 .. N - 1 : \E l \in 0 .. Len(iters[i + 1]) : ReaderAt(i, l)'
      BY <3>1, <3>4, <3>5
    <3>. QED  BY <1>1, <3>1, <3>6 DEF ReaderInv
  <2>. QED  BY <2>8, <2>9
<1>4. verdict' \notin {"packing", "packed", "delivered"}
  BY <1>1
<1>. QED  BY <1>1, <1>2, <1>3, <1>4, ReaderStep

LEMMA IterFailsStep ==
  ASSUME WireInv, IterFails
  PROVE  WireInv'
<1>1. /\ verdict = "reading" /\ IterDone /\ ~(current[LastField] <=> Index = file.n_inter + 1)
      /\ verdict' = "BadShape" /\ UNCHANGED <<proof, file, carried>>
  BY DEF IterFails, Finish
<1>2. DamageInv'
  BY <1>1, ReadingUndamaged
<1>3. ~Undamaged
  <2>1. SUFFICES ASSUME Undamaged PROVE FALSE
    OBVIOUS
  <2>2. PICK m \in 0 .. Len(proof.iters) - 1 :
          \E j \in 0 .. Len(proof.iters[m + 1]) : ReaderAt(m, j)
    BY <1>1, <2>1 DEF WireInv, ReaderInv
  <2>3. PICK j \in 0 .. Len(proof.iters[m + 1]) : ReaderAt(m, j)
    BY <2>2
  <2>4. /\ Index = m + 1 /\ file.n_inter + 1 = Len(proof.iters)
        /\ current[LastField] = (m + 1 = Len(proof.iters))
    BY <1>1, <2>1, <2>3, ReaderFacts
  <2>. QED  BY <1>1, <2>4
<1>4. ReaderInv'
  BY <1>1, <1>3 DEF ReaderInv, Undamaged
<1>. QED  BY <1>1, <1>2, <1>4, ReaderStep

LEMMA WireInvStep == WireInv /\ [Next]_vars => WireInv'
<1>. SUFFICES ASSUME WireInv, [Next]_vars PROVE WireInv'
  OBVIOUS
<1>1. CASE UNCHANGED vars
  <2>1. Packed(proof') = Packed(proof) /\ proof' = proof
    BY <1>1 DEF vars
  <2>2. CarriedInv' /\ DamageInv'
    BY <1>1 DEF WireInv, vars, CarriedInv, DamageInv
  <2>3. FileInv'
    BY <1>1, <2>1 DEF WireInv, vars, FileInv, Undamaged
  <2>4. ReaderInv'
    BY <1>1 DEF WireInv, vars, ReaderInv, ReaderAt, Undamaged
  <2>. QED  BY <2>1, <2>2, <2>3, <2>4 DEF WireInv
<1>2. CASE Pack
  BY <1>2, PackStep
<1>3. CASE Whole \/ Longer \/ (\E bytes \in 0 .. file.bytes - 1 : Cut(bytes))
             \/ (\E n \in DOMAIN ParamsFor : Relabel(n))
  BY <1>3, ArriveStep
<1>4. CASE Header
  BY <1>4, HeaderStep
<1>5. CASE TakeField
  BY <1>5, FieldStep
<1>6. CASE FieldFails
  BY <1>6, FieldFailsStep
<1>7. CASE TakeIter
  BY <1>7, IterStep
<1>8. CASE IterFails
  BY <1>8, IterFailsStep
<1>. QED  BY <1>1, <1>2, <1>3, <1>4, <1>5, <1>6, <1>7, <1>8 DEF Next

LEMMA WireInvHolds == Spec => []WireInv
  BY WireInvInit, WireInvStep, PTL DEF Spec

LEMMA AllThere ==
  ASSUME WireInv
  PROVE  Reassembled
<1>1. SUFFICES ASSUME Undamaged, Finished PROVE Reassembled
  BY DEF Reassembled
<1>2. verdict = "Ok" /\ parsed = proof.iters /\ at = Len(Stream(proof.iters, proof.n_sigs))
  BY <1>1 DEF WireInv, ReaderInv, Finished
<1>. DEFINE w == file.payload
            s == Stream(proof.iters, proof.n_sigs)
            n == Len(w) - Len(s)
            rest == SubSeq(w, at + 1, Len(w))
<1>3. proof \in Proofs /\ w = Packed(proof).payload
  BY <1>1 DEF WireInv, FileInv, Undamaged
<1>4. /\ w \in Seq(Bit) /\ Len(s) \in Nat /\ Len(w) \in Nat /\ Len(s) <= Len(w) /\ n < Byte
      /\ \A i \in 1 .. n : w[Len(s) + i] = 0
  BY <1>3, PackedIs
<1>5. at = Len(s)
  BY <1>2
<1>6. Reassembled <=> (Undamaged /\ Finished =>
        verdict = "Ok" /\ parsed = proof.iters /\ Len(rest) < Byte /\ \A i \in DOMAIN rest : rest[i] = 0)
  BY DEF Reassembled
<1>. HIDE DEF w, s
<1>7. rest = [i \in 1 .. n |-> w[Len(s) + i]]
  <2>1. SubSeq(w, at + 1, Len(w)) = [i \in 1 .. (Len(w) - (Len(s) + 1) + 1) |-> w[i + (Len(s) + 1) - 1]]
    BY <1>4, <1>5
  <2>2. Len(w) - (Len(s) + 1) + 1 = n /\ \A i \in 1 .. n : i + (Len(s) + 1) - 1 = Len(s) + i
    BY <1>4
  <2>. HIDE DEF n
  <2>. QED  BY <2>1, <2>2
<1>. HIDE DEF rest
<1>8. n \in Nat /\ Len(rest) = n /\ DOMAIN rest = 1 .. n
  <2>1. n \in Nat
    BY <1>4
  <2>2. \A i \in 1 .. n : w[Len(s) + i] \in Bit
    BY <1>4 DEF Bit
  <2>. HIDE DEF n
  <2>3. rest \in [1 .. n -> Bit]
    BY <1>7, <2>2
  <2>4. Len(rest) = n
    BY <2>1, <2>3, SequenceOf
  <2>. QED  BY <1>7, <2>1, <2>4
<1>9. Len(rest) < Byte /\ \A i \in DOMAIN rest : rest[i] = 0
  BY <1>4, <1>7, <1>8
<1>. QED  BY <1>2, <1>6, <1>9

LEMMA Together ==
  ASSUME WireInv
  PROVE  InStep
<1>1. SUFFICES ASSUME Undamaged, verdict = "reading" PROVE InStep
  BY DEF InStep
<1>. DEFINE again == Stream(Append(parsed, current), file.n_sigs)
<1>2. PICK m \in 0 .. Len(proof.iters) - 1 :
        \E j \in 0 .. Len(proof.iters[m + 1]) : ReaderAt(m, j)
  BY <1>1 DEF WireInv, ReaderInv
<1>3. PICK j \in 0 .. Len(proof.iters[m + 1]) : ReaderAt(m, j)
  BY <1>2
<1>4. proof \in Proofs /\ file.payload = Packed(proof).payload /\ file.n_sigs = proof.n_sigs
  <2>1. proof \in Proofs /\ file.payload = Packed(proof).payload /\ file.n_sigs = Packed(proof).n_sigs
    BY <1>1 DEF WireInv, FileInv, Undamaged
  <2>. QED  BY <2>1, PackedIs
<1>5. again = Passed(proof, m, j)
  <2>1. parsed = SubSeq(proof.iters, 1, m) /\ current = SubSeq(proof.iters[m + 1], 1, j)
    BY <1>3 DEF ReaderAt
  <2>. QED  BY <1>4, <2>1, PackedAgain
<1>6. at = Len(again) /\ IsPrefix(again, file.payload)
  <2>1. at = Position(proof, m, j)
    BY <1>3 DEF ReaderAt
  <2>. HIDE DEF again
  <2>. QED  BY <1>4, <1>5, <2>1, Positioned, PassedIsPrefix
<1>. QED  BY <1>6 DEF InStep

\* unpack(pack(p)) = p for every proof whose fields have the types of proof.rs and
\* the shapes that write_iter asserts: an undamaged file, with or without bytes after
\* it, is never refused, gives every iteration back, and leaves only padding.
THEOREM UnpackInvertsPack == Spec => []Reassembled
<1>1. WireInv => Reassembled
  BY AllThere
<1>. QED  BY <1>1, WireInvHolds, PTL

\* read_iter is never out of step with write_iter: before every field it has taken
\* exactly the bits that write_iter has written for the fields before it.
THEOREM ReaderInStep == Spec => []InStep
<1>1. WireInv => InStep
  BY Together
<1>. QED  BY <1>1, WireInvHolds, PTL

\* unpack refuses every file that lost its end as truncated, and every file under a
\* number of signatures of another depth at its header, before it reads a field.
THEOREM DamagedFilesRefused == Spec => []DamageRefused
<1>1. WireInv => DamageRefused
  <2>1. SUFFICES ASSUME WireInv PROVE DamageRefused
    OBVIOUS
  <2>2. carried = "relabelled" => verdict \notin {"packing", "packed"}
    BY <2>1 DEF WireInv, CarriedInv
  <2>. QED  BY <2>1, <2>2 DEF WireInv, DamageInv, DamageRefused, Finished
<1>. QED  BY <1>1, WireInvHolds, PTL

-----------------------------------------------------------------------------
(* The bit stream is a queue of bits. *)

Low(v, n) == Queue!Low(v, n)
StreamBits(b, w, n) == BitsOf(b) \o Low(w, n)

LEMMA Sizes == Byte \in Nat /\ Byte > 0 /\ Word \in Nat /\ Word > 0 /\ Word % Byte = 0
BY StreamAssumption

LEMMA Rows ==
  ASSUME NEW b \in Nat, b > 0, NEW k \in Int, NEW l \in Int, NEW r \in 0..(b - 1)
  PROVE  /\ b * k + r < b * l <=> k < l
         /\ b * k \in Int /\ (k >= 0 => b * k >= 0)
         /\ b * (k - l) = b * k - b * l /\ b * (k + l) = b * k + b * l
<1>1. b * k \in Int /\ b * l \in Int /\ b * (k - l) = b * k - b * l /\ b * (k + l) = b * k + b * l
  BY Z3
<1>2. k >= 0 => b * k >= 0
  BY Z3
<1>3. k < l => b * k + b <= b * l
  BY Z3
<1>4. k >= l => b * k >= b * l
  BY Z3
<1> QED
  BY <1>1, <1>2, <1>3, <1>4

-----------------------------------------------------------------------------
(* Sequences of bits.                                                      *)

LEMMA TableIsSeq ==
  ASSUME NEW S, NEW n \in Nat, NEW f \in [1..n -> S]
  PROVE  f \in Seq(S) /\ Len(f) = n
<1>1. f \in Seq(S)
  BY SeqDef
<1>2. DOMAIN f = 1..Len(f) /\ Len(f) \in Nat
  BY <1>1, LenProperties
<1>3. 1..n = 1..Len(f)
  BY <1>2
<1> QED
  BY <1>1, <1>2, <1>3

LEMMA LowIs ==
  ASSUME NEW v, NEW n \in Nat
  PROVE  /\ Low(v, n) \in Seq(Bit) /\ Len(Low(v, n)) = n
         /\ \A i \in 1..n : Low(v, n)[i] = IF i - 1 \in v THEN 1 ELSE 0
<1>1. Low(v, n) \in [1..n -> Bit]
  BY DEF Low, Queue!Low, Bit
<1> QED
  BY <1>1, TableIsSeq DEF Low, Queue!Low

LEMMA BitsOfIs ==
  ASSUME NEW b \in Seq(Bytes)
  PROVE  /\ BitsOf(b) \in Seq(Bit) /\ Len(BitsOf(b)) = Byte * Len(b)
         /\ \A i \in 1..(Byte * Len(b)) :
              BitsOf(b)[i] = IF (i - 1) % Byte \in b[(i - 1) \div Byte + 1] THEN 1 ELSE 0
<1>1. Byte * Len(b) \in Nat
  BY Sizes, LenProperties, Rows
<1>2. BitsOf(b) \in [1..(Byte * Len(b)) -> Bit]
  BY DEF BitsOf, Bit
<1> QED
  BY <1>1, <1>2, TableIsSeq DEF BitsOf

\* Joining the low n bits of v to the low m of a gives the low m + n of what
\* has both.
LowBitsJoin(a, m, v, n, x) ==
  \A i \in 0..(m + n - 1) : i \in x <=> IF i < m THEN i \in a ELSE i - m \in v

LEMMA LowJoins ==
  ASSUME NEW a, NEW m \in Nat, NEW v, NEW n \in Nat, NEW x, LowBitsJoin(a, m, v, n, x)
  PROVE  Low(a, m) \o Low(v, n) = Low(x, m + n)
<1>1. /\ Low(a, m) \o Low(v, n) \in Seq(Bit) /\ Len(Low(a, m) \o Low(v, n)) = m + n
      /\ \A i \in 1..(m + n) : (Low(a, m) \o Low(v, n))[i] =
           IF i <= m THEN Low(a, m)[i] ELSE Low(v, n)[i - m]
  <2> DEFINE s == Low(a, m)
             t == Low(v, n)
  <2>1. s \in Seq(Bit) /\ t \in Seq(Bit) /\ Len(s) = m /\ Len(t) = n
    BY LowIs
  <2> HIDE DEF s, t
  <2>2. /\ s \o t \in Seq(Bit) /\ Len(s \o t) = m + n
        /\ \A i \in 1..(m + n) : (s \o t)[i] = IF i <= m THEN s[i] ELSE t[i - m]
    BY <2>1, ConcatProperties
  <2> QED
    BY <2>2 DEF s, t
<1>2. ASSUME NEW i \in 1..(m + n)
      PROVE  (Low(a, m) \o Low(v, n))[i] = Low(x, m + n)[i]
  <2>1. Low(x, m + n)[i] = IF i - 1 \in x THEN 1 ELSE 0
    BY LowIs
  <2>2. CASE i <= m
    BY <1>1, <2>1, <2>2, LowIs DEF LowBitsJoin
  <2>3. CASE ~(i <= m)
    <3>1. i - m \in 1..n /\ (i - m) - 1 = (i - 1) - m
      BY <2>3
    <3>2. Low(v, n)[i - m] = IF (i - 1) - m \in v THEN 1 ELSE 0
      BY <3>1, LowIs
    <3> QED
      BY <1>1, <2>1, <2>3, <3>2 DEF LowBitsJoin
  <2> QED
    BY <2>2, <2>3
<1>3. Low(x, m + n) \in Seq(Bit) /\ Len(Low(x, m + n)) = m + n
  BY LowIs
<1> QED
  BY <1>1, <1>2, <1>3, SeqEqual

LEMMA LeBytesIs ==
  ASSUME NEW w \in Words
  PROVE  /\ LeBytes(w) \in Seq(Bytes) /\ Len(LeBytes(w)) = Word \div Byte
         /\ Word \div Byte \in Nat /\ Word = Byte * (Word \div Byte)
         /\ \A j \in 1..(Word \div Byte) : \A r \in 0..(Byte - 1) :
              r \in LeBytes(w)[j] <=> Byte * (j - 1) + r \in w
<1>1. Word \div Byte \in Nat /\ Word = Byte * (Word \div Byte)
  BY Sizes, Division
<1>2. LeBytes(w) \in [1..(Word \div Byte) -> Bytes]
  BY DEF LeBytes, Mask, Bytes
<1>3. ASSUME NEW j \in 1..(Word \div Byte), NEW r \in 0..(Byte - 1)
      PROVE  r \in LeBytes(w)[j] <=> Byte * (j - 1) + r \in w
  <2>1. Byte * (j - 1) \in Nat
    BY <1>1, Sizes, Rows
  <2>2. r \in LeBytes(w)[j] <=> \E i \in w : i >= Byte * (j - 1) /\ r = i - Byte * (j - 1)
    BY Sizes DEF LeBytes, Mask, Shr
  <2>3. w \subseteq Int
    BY Sizes DEF Words
  <2> QED
    BY <2>1, <2>2, <2>3
<1> QED
  BY <1>1, <1>2, <1>3, TableIsSeq

\* Flushing the first m bytes of w appends its low Byte * m bits.
LEMMA Flushed ==
  ASSUME NEW b \in Seq(Bytes), NEW w \in Words, NEW m \in 0..(Word \div Byte)
  PROVE  LET c == b \o SubSeq(LeBytes(w), 1, m)
         IN /\ c \in Seq(Bytes) /\ Len(c) = Len(b) + m
            /\ BitsOf(c) = BitsOf(b) \o Low(w, Byte * m)
<1> DEFINE e == SubSeq(LeBytes(w), 1, m)
           c == b \o e
<1>1. /\ e \in Seq(Bytes) /\ Len(e) = m
      /\ \A j \in 1..m : e[j] = LeBytes(w)[j]
  <2>1. m \in Int /\ 1 \in Int /\ \A j \in 1..m : LeBytes(w)[j] \in Bytes
    BY LeBytesIs, ElementOfSeq
  <2>2. /\ e \in Seq(Bytes) /\ Len(e) = IF 1 <= m THEN m - 1 + 1 ELSE 0
        /\ \A j \in 1..(m - 1 + 1) : e[j] = LeBytes(w)[1 + j - 1]
    BY <2>1, SubSeqProperties
  <2> QED
    BY <2>2, LeBytesIs
<1> HIDE DEF e
<1>2. /\ c \in Seq(Bytes) /\ Len(c) = Len(b) + m /\ Len(b) \in Nat
      /\ \A j \in 1..(Len(b) + m) : c[j] = IF j <= Len(b) THEN b[j] ELSE e[j - Len(b)]
  BY <1>1, ConcatProperties, LenProperties
<1> HIDE DEF c
<1>3. /\ Byte * m \in Nat /\ Byte * Len(b) \in Nat
      /\ Byte * (Len(b) + m) = Byte * Len(b) + Byte * m
  BY <1>2, Sizes, Rows, LeBytesIs
<1> DEFINE t == BitsOf(b) \o Low(w, Byte * m)
<1>4. /\ t \in Seq(Bit) /\ Len(t) = Byte * Len(b) + Byte * m
      /\ \A i \in 1..(Byte * Len(b) + Byte * m) :
           t[i] = IF i <= Byte * Len(b) THEN BitsOf(b)[i] ELSE Low(w, Byte * m)[i - Byte * Len(b)]
  <2> DEFINE s1 == BitsOf(b)
             s2 == Low(w, Byte * m)
  <2>1. s1 \in Seq(Bit) /\ s2 \in Seq(Bit) /\ Len(s1) = Byte * Len(b) /\ Len(s2) = Byte * m
    BY <1>3, LowIs, BitsOfIs
  <2> HIDE DEF s1, s2
  <2>2. /\ s1 \o s2 \in Seq(Bit) /\ Len(s1 \o s2) = Len(s1) + Len(s2)
        /\ \A i \in 1..(Len(s1) + Len(s2)) :
             (s1 \o s2)[i] = IF i <= Len(s1) THEN s1[i] ELSE s2[i - Len(s1)]
    BY <2>1, ConcatProperties
  <2> QED
    BY <2>1, <2>2 DEF s1, s2
<1>5. /\ BitsOf(c) \in Seq(Bit) /\ Len(BitsOf(c)) = Byte * Len(b) + Byte * m
  BY <1>2, <1>3, BitsOfIs
<1>6. ASSUME NEW i \in 1..(Byte * Len(b) + Byte * m)
      PROVE  BitsOf(c)[i] = t[i]
  <2> DEFINE q == (i - 1) \div Byte
             r == (i - 1) % Byte
  <2>1. q \in Nat /\ r \in 0..(Byte - 1) /\ i - 1 = Byte * q + r
    BY <1>3, Sizes, Division
  <2>2. BitsOf(c)[i] = IF r \in c[q + 1] THEN 1 ELSE 0
    BY <1>2, <1>3, BitsOfIs
  <2>3. i <= Byte * Len(b) => BitsOf(b)[i] = IF r \in b[q + 1] THEN 1 ELSE 0
    BY <1>3, BitsOfIs
  <2> HIDE DEF q, r
  <2>7. /\ Byte * q + r < Byte * Len(b) <=> q < Len(b)
        /\ Byte * q + r < Byte * (Len(b) + m) <=> q < Len(b) + m
        /\ Byte * q \in Int
    <3>1. q \in Int /\ Len(b) \in Int /\ Len(b) + m \in Int
      BY <1>2, <2>1
    <3> QED
      BY <2>1, <3>1, Sizes, Rows
  <2>4. q < Len(b) + m
    BY <1>2, <1>3, <2>1, <2>7
  <2>5. CASE i <= Byte * Len(b)
    <3>1. q < Len(b)
      BY <1>2, <1>3, <2>1, <2>5, <2>7
    <3>2. c[q + 1] = b[q + 1]
      BY <1>2, <2>1, <2>4, <3>1
    <3> QED
      BY <1>4, <2>2, <2>3, <2>5, <3>2
  <2>6. CASE ~(i <= Byte * Len(b))
    <3>1. ~(q < Len(b))
      BY <1>2, <1>3, <2>1, <2>6, <2>7
    <3>2. q - Len(b) \in 0..(m - 1) /\ (q + 1) - Len(b) = (q - Len(b)) + 1
      BY <1>2, <2>1, <2>4, <3>1
    <3>3. c[q + 1] = LeBytes(w)[(q - Len(b)) + 1]
      BY <1>1, <1>2, <2>1, <2>4, <3>1, <3>2
    <3>4. Byte * (q - Len(b)) + r = i - 1 - Byte * Len(b)
      BY <1>2, <1>3, <2>1, Sizes, Rows
    <3>5. r \in c[q + 1] <=> (i - Byte * Len(b)) - 1 \in w
      <4>1. (q - Len(b)) + 1 \in 1..(Word \div Byte) /\ ((q - Len(b)) + 1) - 1 = q - Len(b)
        BY <3>2, LeBytesIs, <1>2, <2>1
      <4>2. r \in LeBytes(w)[(q - Len(b)) + 1] <=> Byte * (q - Len(b)) + r \in w
        BY <2>1, <4>1, LeBytesIs
      <4>3. i - 1 - Byte * Len(b) = (i - Byte * Len(b)) - 1
        BY <1>3
      <4> QED
        BY <3>3, <3>4, <4>2, <4>3
    <3>6. i - Byte * Len(b) \in 1..(Byte * m)
      BY <1>3, <2>6
    <3>7. Low(w, Byte * m)[i - Byte * Len(b)] = IF (i - Byte * Len(b)) - 1 \in w THEN 1 ELSE 0
      BY <1>3, <3>6, LowIs
    <3> QED
      BY <1>4, <2>2, <2>6, <3>5, <3>7
  <2> QED
    BY <2>5, <2>6
<1>7. BitsOf(c) = t
  BY <1>4, <1>5, <1>6, SeqEqual
<1> QED
  BY <1>2, <1>7 DEF c, e

-----------------------------------------------------------------------------
(***************************************************************************)
(* What every reachable state of the streams satisfies.  The writer's word *)
(* has no bits above curBits and is empty once finish has flushed it; the  *)
(* reader is never past the last byte; the chunks gathered in acc are the  *)
(* last got bits it went over; and no write is left when the reader starts.*)
(***************************************************************************)
StreamType ==
  /\ buf \in Seq(Bytes)
  /\ curBits \in 0..(Word - 1) /\ cur \subseteq 0..(curBits - 1)
  /\ bytePos \in Nat /\ bitPos \in 0..(Byte - 1)
  /\ call.op \in {"none", "write", "read"} /\ call.width \in 0..Word /\ call.value \in Words
  /\ got \in 0..nbits /\ (nbits > 0 => got < nbits)
  /\ mode \in {"writing", "reading", "truncated"}

OneAtATime ==
  IF mode = "writing"
  THEN bytePos = 0 /\ bitPos = 0 /\ call.op # "read"
  ELSE curBits = 0 /\ call.op # "write"

ReadPosition == Byte * bytePos + bitPos

\* Before the read that is going on.
TakenBits == ReadPosition - got

Gotten(b, t, n) == {i \in 0..(n - 1) : BitsOf(b)[t + i + 1] = 1}

InTheBuffer ==
  /\ bytePos <= Len(buf) /\ (bytePos = Len(buf) => bitPos = 0)
  /\ got <= ReadPosition

Gathered ==
  nbits > 0 => acc = Gotten(buf, TakenBits, got)

StreamInv == StreamType /\ OneAtATime /\ InTheBuffer /\ Gathered

LEMMA Calls ==
  /\ NoCall = Queue!NoCall /\ \A op, v, n : Calling(op, v, n) = Queue!Calling(op, v, n)
  /\ NoCall.op = "none" /\ NoCall.width \in 0..Word /\ NoCall.value \in Words
  /\ \A op, v, n : /\ Calling(op, v, n).op = op /\ Calling(op, v, n).width = n
                   /\ Calling(op, v, n).value = v
BY Sizes DEF NoCall, Calling, Queue!NoCall, Queue!Calling, Words

LEMMA WantIs ==
  ASSUME StreamType
  PROVE  /\ nbits \in 0..Word
         /\ call.op = "read" => nbits = call.width
         /\ call.op # "read" => nbits = 0
BY Sizes DEF StreamType, nbits

-----------------------------------------------------------------------------
(* The writer's steps.                                                     *)

\* The low n bits of v ORed above the first k of a word.
Filled(a, k, v, n) == a \cup Shl(Mask(v, n), k)

LEMMA BitsJoined ==
  ASSUME NEW k \in 0..(Word - 1), NEW a \in SUBSET (0..(k - 1)), NEW v \in Words,
         NEW n \in 0..(Word - k)
  PROVE  LET x == Filled(a, k, v, n)
         IN /\ x \in Words /\ x \subseteq 0..(k + n - 1)
            /\ LowBitsJoin(a, k, v, n, x)
<1> DEFINE x == a \cup Shl(Mask(v, n), k)
<1>1. \A i : i \in Shl(Mask(v, n), k) <=>
        i \in 0..(Word - 1) /\ \E j \in v : j \in 0..(n - 1) /\ i = j + k
  BY DEF Shl, Mask
<1>2. Word \in Nat
  BY Sizes
<1>3. x \in Words /\ x \subseteq 0..(k + n - 1)
  <2>1. ASSUME NEW i \in x
        PROVE  i \in 0..(Word - 1) /\ i \in 0..(k + n - 1)
    <3>1. CASE i \in a
      BY <1>2, <3>1
    <3>2. CASE i \in Shl(Mask(v, n), k)
      BY <1>1, <1>2, <3>2
    <3> QED
      BY <3>1, <3>2
  <2> QED
    BY <2>1 DEF Words
<1>4. ASSUME NEW i \in 0..(k + n - 1)
      PROVE  i \in x <=> IF i < k THEN i \in a ELSE i - k \in v
  <2>1. CASE i < k
    BY <1>1, <1>2, <2>1
  <2>2. CASE ~(i < k)
    <3>1. i - k \in 0..(n - 1) /\ i = (i - k) + k /\ i \in 0..(Word - 1) /\ i \notin a
      BY <1>2, <2>2
    <3>2. \A j \in 0..(n - 1) : i = j + k => j = i - k
      BY <2>2
    <3> QED
      BY <1>1, <2>2, <3>1, <3>2
  <2> QED
    BY <2>1, <2>2
<1> QED
  BY <1>3, <1>4 DEF Filled, LowBitsJoin

\* The low n bits of v are its low k ones and then those of v shifted by k.
LEMMA Parted ==
  ASSUME NEW v \in Words, NEW n \in 0..Word, NEW k \in 0..n
  PROVE  /\ Low(v, k) \o Low(Shr(Mask(v, n), k), n - k) = Low(v, n)
         /\ Shr(Mask(v, n), k) \subseteq 0..(n - k - 1)
<1>1. \A i : i \in Shr(Mask(v, n), k) <=> \E j \in v : j \in 0..(n - 1) /\ j >= k /\ i = j - k
  BY DEF Shr, Mask
<1>2. Word \in Nat /\ k \in Nat /\ n - k \in Nat /\ k + (n - k) = n
  BY Sizes
<1>3. ASSUME NEW i \in 0..(k + (n - k) - 1)
      PROVE  i \in v <=> IF i < k THEN i \in v ELSE i - k \in Shr(Mask(v, n), k)
  <2>1. CASE ~(i < k)
    <3>1. \A j \in 0..(n - 1) : i - k = j - k => j = i
      BY <1>2
    <3> QED
      BY <1>1, <1>2, <2>1, <3>1
  <2> QED
    BY <2>1
<1>4. LowBitsJoin(v, k, Shr(Mask(v, n), k), n - k, v)
  BY <1>3 DEF LowBitsJoin
<1>5. Low(v, k) \o Low(Shr(Mask(v, n), k), n - k) = Low(v, k + (n - k))
  BY <1>2, <1>4, LowJoins
<1> QED
  BY <1>1, <1>2, <1>5

LEMMA NoBits ==
  ASSUME NEW v
  PROVE  Low(v, 0) = << >>
BY LowIs, EmptySeq

\* Nothing is left in the writer's word.
LEMMA OnlyTheBuffer ==
  ASSUME NEW b \in Seq(Bytes), NEW v
  PROVE  StreamBits(b, v, 0) = BitsOf(b)
BY NoBits, BitsOfIs, ConcatEmptySeq DEF StreamBits

LEMMA StreamGrows ==
  ASSUME NEW b \in Seq(Bytes), NEW w, NEW k \in Nat, NEW v, NEW n \in Nat
  PROVE  BitsOf(b) \o (Low(w, k) \o Low(v, n)) = StreamBits(b, w, k) \o Low(v, n)
<1> DEFINE r == BitsOf(b)
           s == Low(w, k)
           t == Low(v, n)
<1>1. r \in Seq(Bit) /\ s \in Seq(Bit) /\ t \in Seq(Bit)
  BY LowIs, BitsOfIs
<1> HIDE DEF r, s, t
<1>2. (r \o s) \o t = r \o (s \o t)
  BY <1>1, ConcatAssociative
<1> QED
  BY <1>2 DEF r, s, t, StreamBits

LEMMA FlushedWord ==
  ASSUME NEW b \in Seq(Bytes), NEW w \in Words
  PROVE  /\ b \o LeBytes(w) \in Seq(Bytes)
         /\ BitsOf(b \o LeBytes(w)) = BitsOf(b) \o Low(w, Word)
<1>1. LeBytes(w) \in Seq(Bytes) /\ Len(LeBytes(w)) = Word \div Byte
      /\ Word \div Byte \in 0..(Word \div Byte) /\ Byte * (Word \div Byte) = Word
  BY LeBytesIs
<1>2. SubSeq(LeBytes(w), 1, Word \div Byte) = LeBytes(w)
  BY <1>1, SubSeqFull
<1>3. LET c == b \o SubSeq(LeBytes(w), 1, Word \div Byte)
      IN /\ c \in Seq(Bytes) /\ Len(c) = Len(b) + Word \div Byte
         /\ BitsOf(c) = BitsOf(b) \o Low(w, Byte * (Word \div Byte))
  BY <1>1, Flushed
<1> QED
  BY <1>1, <1>2, <1>3, Zenon

\* While it writes, nothing about the reader can go wrong.
LEMMA WriterKeepsInv ==
  ASSUME StreamInv, mode = "writing", UNCHANGED reader, call' = NoCall,
         buf' \in Seq(Bytes), curBits' \in 0..(Word - 1), cur' \subseteq 0..(curBits' - 1),
         mode' = "writing" \/ (mode' = "reading" /\ curBits' = 0)
  PROVE  StreamInv'
<1>1. bytePos' = 0 /\ bitPos' = 0 /\ nbits' = 0 /\ got' = 0 /\ call'.op = "none"
  <2>1. nbits = 0 /\ got = 0 /\ bytePos = 0 /\ bitPos = 0
    BY WantIs DEF StreamInv, StreamType, OneAtATime
  <2>2. call'.op = "none"
    BY Calls
  <2>3. nbits' = 0
    BY <2>2 DEF nbits
  <2> QED
    BY <2>1, <2>2, <2>3 DEF reader
<1>2. Byte \in Nat /\ Byte > 0 /\ Word \in Nat /\ Word > 0 /\ Byte * 0 + 0 = 0 /\ Len(buf') \in Nat
  BY Sizes, LenProperties
<1>3. StreamType'
  <2>1. 0 \in Nat /\ 0 \in 0..(Byte - 1) /\ 0 \in 0..Word /\ 0 \in 0..0
    BY <1>2
  <2>2. call'.width \in 0..Word /\ call'.value \in Words
    BY Calls
  <2> QED
    BY <1>1, <2>1, <2>2 DEF StreamType
<1>4. OneAtATime'
  BY <1>1 DEF OneAtATime
<1>5. InTheBuffer'
  BY <1>1, <1>2 DEF InTheBuffer, ReadPosition
<1>6. Gathered'
  BY <1>1 DEF Gathered
<1> QED
  BY <1>3, <1>4, <1>5, <1>6 DEF StreamInv

\* The word with the bits joined to it stands for the stream with the bits
\* appended to it.
LEMMA Appended ==
  ASSUME NEW b \in Seq(Bytes), NEW k \in 0..(Word - 1), NEW a \in SUBSET (0..(k - 1)),
         NEW v \in Words, NEW n \in 0..(Word - k)
  PROVE  LET x == Filled(a, k, v, n)
         IN /\ x \in Words /\ x \subseteq 0..(k + n - 1)
            /\ BitsOf(b) \o Low(x, k + n) = StreamBits(b, a, k) \o Low(v, n)
<1> DEFINE x == Filled(a, k, v, n)
<1>1. /\ x \in Words /\ x \subseteq 0..(k + n - 1)
      /\ LowBitsJoin(a, k, v, n, x)
  BY BitsJoined
<1> HIDE DEF x
<1>2. k \in Nat /\ n \in Nat
  BY Sizes
<1>3. Low(a, k) \o Low(v, n) = Low(x, k + n)
  BY <1>1, <1>2, LowJoins
<1>4. BitsOf(b) \o (Low(a, k) \o Low(v, n)) = StreamBits(b, a, k) \o Low(v, n)
  BY ONLY <1>2, b \in Seq(Bytes), StreamGrows, SMTT(60)
<1> QED
  BY <1>1, <1>3, <1>4 DEF x

\* write_bits answers with the bits of its own arguments appended.
LEMMA PutIs ==
  ASSUME call.op = "write", call' = NoCall, UNCHANGED <<reader, mode>>,
         StreamBits(buf', cur', curBits')
           = StreamBits(buf, cur, curBits) \o Low(call.value, call.width)
  PROVE  Queue!Put
BY Calls DEF Queue!Put, StreamBits, Low, Queue!Low, reader

LEMMA FitsPuts ==
  ASSUME StreamInv, WriteFits
  PROVE  StreamInv' /\ Queue!Put
<1> DEFINE v == call.value
           n == call.width
<1>0. /\ v \in Words /\ n \in 0..Word /\ mode = "writing" /\ call.op = "write" /\ call' = NoCall
  BY DEF StreamInv, StreamType, OneAtATime, WriteFits
<1>1. /\ buf \in Seq(Bytes) /\ curBits \in 0..(Word - 1) /\ cur \in SUBSET (0..(curBits - 1))
      /\ n \in 0..(Word - curBits) /\ Word \in Nat /\ curBits \in Nat /\ n \in Nat
  BY <1>0, Sizes DEF StreamInv, StreamType, WriteFits
<1> DEFINE x == Filled(cur, curBits, v, n)
<1>3. /\ mode = "writing" /\ UNCHANGED <<reader, mode>>
      /\ IF curBits + n = Word
         THEN buf' = buf \o LeBytes(x) /\ cur' = {} /\ curBits' = 0
         ELSE buf' = buf /\ cur' = x /\ curBits' = curBits + n
  BY <1>0 DEF WriteFits, Filled
<1> HIDE DEF v, n
<1>4. /\ x \in Words /\ x \subseteq 0..(curBits + n - 1)
      /\ BitsOf(buf) \o Low(x, curBits + n) = StreamBits(buf, cur, curBits) \o Low(v, n)
  BY <1>0, <1>1, Appended
<1> HIDE DEF x
<1>5. /\ buf' \in Seq(Bytes) /\ StreamBits(buf', cur', curBits') = StreamBits(buf, cur, curBits) \o Low(v, n)
      /\ curBits' \in 0..(Word - 1) /\ cur' \subseteq 0..(curBits' - 1)
  <2>1. CASE curBits + n = Word
    <3>1. buf' = buf \o LeBytes(x) /\ cur' = {} /\ curBits' = 0
      BY <1>3, <2>1
    <3>2. buf' \in Seq(Bytes) /\ BitsOf(buf') = BitsOf(buf) \o Low(x, Word)
      BY <1>1, <1>4, <3>1, FlushedWord
    <3>3. StreamBits(buf', {}, 0) = BitsOf(buf')
      BY <3>2, OnlyTheBuffer
    <3>4. 0 \in 0..(Word - 1)
      BY Sizes
    <3> QED
      BY <1>4, <2>1, <3>1, <3>2, <3>3, <3>4
  <2>2. CASE ~(curBits + n = Word)
    <3>1. buf' = buf /\ cur' = x /\ curBits' = curBits + n
      BY <1>3, <2>2
    <3>2. StreamBits(buf', cur', curBits') = BitsOf(buf) \o Low(x, curBits + n)
      BY <3>1 DEF StreamBits
    <3>3. curBits' \in 0..(Word - 1) /\ buf' \in Seq(Bytes)
      BY <1>1, <2>2, <3>1
    <3>4. cur' \subseteq 0..(curBits' - 1)
      BY ONLY <1>1, <1>4, <3>1
    <3> QED
      BY ONLY <1>4, <3>2, <3>3, <3>4
  <2> QED
    BY <2>1, <2>2
<1>6. StreamInv'
  <2>1. UNCHANGED reader /\ mode' = "writing"
    BY <1>3
  <2> QED
    BY <1>0, <1>3, <1>5, <2>1, WriterKeepsInv, Zenon
<1>7. Queue!Put
  BY <1>0, <1>3, <1>5, PutIs DEF v, n
<1> QED
  BY <1>6, <1>7

LEMMA SplitStream ==
  ASSUME NEW b \in Seq(Bytes), NEW k \in 0..(Word - 1), NEW a \in SUBSET (0..(k - 1)),
         NEW v \in Words, NEW n \in 0..Word, n > Word - k
  PROVE  LET c    == b \o LeBytes(Filled(a, k, v, Word - k))
             rest == Shr(Mask(v, n), Word - k)
         IN /\ c \in Seq(Bytes) /\ rest \subseteq 0..(n - (Word - k) - 1)
            /\ n - (Word - k) \in 0..(Word - 1)
            /\ StreamBits(c, rest, n - (Word - k)) = StreamBits(b, a, k) \o Low(v, n)
<1> DEFINE m    == Word - k
           x    == Filled(a, k, v, m)
           rest == Shr(Mask(v, n), m)
           s    == StreamBits(b, a, k)
           p    == Low(v, m)
           q    == Low(rest, n - m)
<1>1. /\ Word \in Nat /\ m \in 0..(Word - k) /\ m \in 0..n /\ k + m = Word /\ k \in Nat /\ m \in Nat
      /\ n - m \in 0..(Word - 1) /\ n - m \in Nat
  BY Sizes
<1>2. x \in Words /\ BitsOf(b) \o Low(x, k + m) = s \o p
  BY <1>1, Appended
<1>3. rest \subseteq 0..(n - m - 1) /\ p \o q = Low(v, n)
  BY <1>1, Parted
<1>4. /\ b \o LeBytes(x) \in Seq(Bytes)
      /\ BitsOf(b \o LeBytes(x)) = BitsOf(b) \o Low(x, Word)
  BY <1>2, FlushedWord
<1>5. s \in Seq(Bit) /\ p \in Seq(Bit) /\ q \in Seq(Bit)
  <2>1. BitsOf(b) \in Seq(Bit) /\ Low(a, k) \in Seq(Bit)
    BY <1>1, LowIs, BitsOfIs
  <2>2. s \in Seq(Bit)
    BY <2>1, ConcatProperties DEF StreamBits
  <2> QED
    BY <1>1, <2>2, LowIs
<1>6. (s \o p) \o q = s \o (p \o q)
  <2> HIDE DEF s, p, q
  <2> QED
    BY <1>5, ConcatAssociative
<1>7. StreamBits(b \o LeBytes(x), rest, n - m) = BitsOf(b \o LeBytes(x)) \o q
  BY DEF StreamBits
<1> HIDE DEF x, rest, s, p, q
<1>8. StreamBits(b \o LeBytes(x), rest, n - m) = s \o Low(v, n)
  BY <1>1, <1>2, <1>3, <1>4, <1>6, <1>7
<1> QED
  BY <1>1, <1>3, <1>4, <1>8 DEF x, rest, s

LEMMA SplitPuts ==
  ASSUME StreamInv, WriteSplit
  PROVE  StreamInv' /\ Queue!Put
<1> DEFINE v == call.value
           n == call.width
<1>0. /\ v \in Words /\ n \in 0..Word /\ mode = "writing" /\ call.op = "write" /\ call' = NoCall
  BY DEF StreamInv, StreamType, OneAtATime, WriteSplit
<1>1. /\ buf \in Seq(Bytes) /\ curBits \in 0..(Word - 1) /\ cur \in SUBSET (0..(curBits - 1))
      /\ n > Word - curBits
  BY DEF StreamInv, StreamType, WriteSplit
<1>2. /\ mode = "writing" /\ mode' = "writing" /\ UNCHANGED reader
      /\ buf' = buf \o LeBytes(Filled(cur, curBits, v, Word - curBits))
      /\ cur' = Shr(Mask(v, n), Word - curBits) /\ curBits' = n - (Word - curBits)
  BY <1>0 DEF WriteSplit, Filled
<1> HIDE DEF v, n
<1>3. /\ buf' \in Seq(Bytes) /\ cur' \subseteq 0..(curBits' - 1) /\ curBits' \in 0..(Word - 1)
      /\ StreamBits(buf', cur', curBits') = StreamBits(buf, cur, curBits) \o Low(v, n)
  BY <1>0, <1>1, <1>2, SplitStream
<1>4. StreamInv'
  BY <1>0, <1>2, <1>3, WriterKeepsInv
<1>5. Queue!Put
  BY <1>0, <1>2, <1>3, PutIs DEF v, n
<1> QED
  BY <1>4, <1>5

LEMMA ZerosAppended ==
  ASSUME NEW b \in Seq(Bytes), NEW k \in Nat, NEW a \in SUBSET (0..(k - 1)), NEW n \in Nat
  PROVE  BitsOf(b) \o Low(a, k + n) = StreamBits(b, a, k) \o Low({}, n)
<1>1. PICK v \in Words : v = {}
  BY DEF Words
<1>2. PICK x \in SUBSET (0..(k - 1)) : x = a
  OBVIOUS
<1>3. LowBitsJoin(a, k, v, n, x)
  BY <1>1, <1>2 DEF LowBitsJoin
<1>4. k \in Nat /\ n \in Nat
  OBVIOUS
<1>5. Low(a, k) \o Low(v, n) = Low(x, k + n)
  BY ONLY <1>3, <1>4, LowJoins
<1>6. BitsOf(b) \o (Low(a, k) \o Low(v, n)) = StreamBits(b, a, k) \o Low(v, n)
  BY ONLY <1>4, b \in Seq(Bytes), StreamGrows, SMTT(30)
<1> QED
  BY <1>1, <1>2, <1>5, <1>6

\* finish flushes the bytes that hold the bits left, and zeros in the rest of
\* the last one.
LEMMA Padded ==
  ASSUME NEW b \in Seq(Bytes), NEW k \in 0..(Word - 1), NEW a \in SUBSET (0..(k - 1))
  PROVE  LET m == (k + Byte - 1) \div Byte
             c == b \o SubSeq(LeBytes(a), 1, m)
         IN /\ c \in Seq(Bytes)
            /\ \E pad \in 0..(Byte - 1) :
                 /\ (Len(StreamBits(b, a, k)) + pad) % Byte = 0
                 /\ StreamBits(c, {}, 0) = StreamBits(b, a, k) \o Low({}, pad)
<1> DEFINE m   == (k + Byte - 1) \div Byte
           pad == Byte * m - k
           c   == b \o SubSeq(LeBytes(a), 1, m)
<1>1. /\ k + Byte - 1 \in Nat /\ m \in Nat /\ k \in Nat
      /\ \E r \in 0..(Byte - 1) : k + Byte - 1 = Byte * m + r
  <2>1. k + Byte - 1 \in Nat /\ k \in Nat
    BY Sizes
  <2> QED
    BY <2>1, Sizes, Division
<1>2. m \in 0..(Word \div Byte)
  <2>1. /\ Word \div Byte \in Nat /\ Word = Byte * (Word \div Byte)
        /\ Word \div Byte + 1 \in Nat /\ Word \div Byte - 1 \in Int
    BY Sizes, Division
  <2> HIDE DEF m
  <2>2. /\ Byte * m + 0 < Byte * (Word \div Byte + 1) <=> m < Word \div Byte + 1
        /\ Byte * (Word \div Byte + 1) = Byte * (Word \div Byte) + Byte * 1
        /\ Byte * 1 = Byte /\ Byte * m \in Int /\ 0 \in 0..(Byte - 1)
    BY <1>1, <2>1, Sizes, Rows
  <2> QED
    BY <1>1, <2>1, <2>2, Sizes
<1> HIDE DEF m
<1>3. /\ Byte * m \in Nat /\ pad \in 0..(Byte - 1) /\ Byte * m = k + pad /\ pad \in Nat
  BY <1>1, Sizes, Rows
<1>4. a \in Words
  BY Sizes DEF Words
<1>5. /\ c \in Seq(Bytes)
      /\ BitsOf(c) = BitsOf(b) \o Low(a, Byte * m)
  BY <1>2, <1>4, Flushed
<1> HIDE DEF pad, c
<1>6. BitsOf(b) \o Low(a, k + pad) = StreamBits(b, a, k) \o Low({}, pad)
  BY <1>1, <1>3, ZerosAppended
<1>7. StreamBits(c, {}, 0) = StreamBits(b, a, k) \o Low({}, pad)
  BY <1>3, <1>5, <1>6, OnlyTheBuffer
<1>8. (Len(StreamBits(b, a, k)) + pad) % Byte = 0
  <2> DEFINE l == Len(b)
  <2>1. Len(StreamBits(b, a, k)) = Byte * l + k /\ l \in Nat
    <3> DEFINE s == BitsOf(b)
               t == Low(a, k)
    <3>1. s \in Seq(Bit) /\ t \in Seq(Bit) /\ Len(s) = Byte * l /\ Len(t) = k /\ l \in Nat
      BY <1>1, LowIs, BitsOfIs, LenProperties
    <3> HIDE DEF s, t
    <3>2. Len(s \o t) = Len(s) + Len(t)
      BY <3>1, ConcatProperties
    <3> QED
      BY <3>1, <3>2 DEF s, t, StreamBits
  <2> HIDE DEF l
  <2>2. Byte * (l + m) = Byte * l + Byte * m /\ Byte * l \in Int /\ l + m \in Int
    BY <1>1, <2>1, Sizes, Rows
  <2>3. Len(StreamBits(b, a, k)) + pad = Byte * (l + m) + 0
    BY <1>1, <1>3, <2>1, <2>2
  <2>4. Byte * (l + m) + 0 \in Int /\ 0 \in 0..(Byte - 1)
    BY <1>3, <2>2, Sizes
  <2> QED
    BY <2>2, <2>3, <2>4, Sizes, DivisionIs
<1> QED
  BY <1>3, <1>5, <1>7, <1>8 DEF m, c

LEMMA FinishCloses ==
  ASSUME StreamInv, CloseStream
  PROVE  StreamInv' /\ Queue!Close
<1>1. /\ buf \in Seq(Bytes) /\ curBits \in 0..(Word - 1) /\ cur \in SUBSET (0..(curBits - 1))
  BY DEF StreamInv, StreamType
<1>2. /\ mode = "writing" /\ mode' = "reading" /\ UNCHANGED reader
      /\ call = NoCall /\ call' = NoCall
      /\ buf' = buf \o SubSeq(LeBytes(cur), 1, (curBits + Byte - 1) \div Byte)
      /\ cur' = {} /\ curBits' = 0
  BY DEF CloseStream
<1>3. /\ buf' \in Seq(Bytes)
      /\ \E pad \in 0..(Byte - 1) :
           /\ (Len(StreamBits(buf, cur, curBits)) + pad) % Byte = 0
           /\ StreamBits(buf', cur', curBits') = StreamBits(buf, cur, curBits) \o Low({}, pad)
  BY <1>1, <1>2, Padded
<1>4. StreamInv'
  <2>1. curBits' \in 0..(Word - 1) /\ cur' \subseteq 0..(curBits' - 1)
    BY <1>2, Sizes
  <2> QED
    BY <1>2, <1>3, <2>1, WriterKeepsInv
<1>5. Queue!Close
  BY <1>2, <1>3, Calls DEF Queue!Close, StreamBits, Low, Queue!Low, reader
<1> QED
  BY <1>4, <1>5

-----------------------------------------------------------------------------
(* The reader's steps.  Nothing is left in the writer's word, so the bits  *)
(* are those of the buffer.                                                *)

LEMMA Reading ==
  ASSUME StreamInv, mode # "writing"
  PROVE  /\ buf \in Seq(Bytes) /\ cur = {} /\ curBits = 0
         /\ StreamBits(buf, cur, curBits) = BitsOf(buf) /\ Len(BitsOf(buf)) = Byte * Len(buf)
         /\ Byte * Len(buf) \in Nat /\ Len(buf) \in Nat
         /\ bytePos \in Nat /\ bitPos \in 0..(Byte - 1) /\ Byte * bytePos \in Nat
         /\ nbits \in 0..Word /\ got \in 0..nbits /\ (nbits > 0 => got < nbits)
         /\ call.op # "write" /\ (nbits > 0 => call.op = "read")
         /\ bytePos <= Len(buf) /\ got <= ReadPosition /\ ReadPosition \in Nat
<1>1. /\ buf \in Seq(Bytes) /\ cur = {} /\ curBits = 0
      /\ bytePos \in Nat /\ bitPos \in 0..(Byte - 1)
      /\ nbits \in 0..Word /\ got \in 0..nbits /\ (nbits > 0 => got < nbits)
      /\ call.op # "write" /\ (nbits > 0 => call.op = "read")
      /\ bytePos <= Len(buf) /\ got <= ReadPosition
  <2>1. cur \subseteq 0..(curBits - 1) /\ curBits = 0 /\ call.op # "write"
    BY DEF StreamInv, StreamType, OneAtATime
  <2>2. nbits \in 0..Word /\ (nbits > 0 => call.op = "read")
    BY WantIs DEF StreamInv
  <2> QED
    BY <2>1, <2>2 DEF StreamInv, StreamType, InTheBuffer
<1>2. Byte * bytePos \in Nat /\ Byte * Len(buf) \in Nat /\ Len(buf) \in Nat
  BY <1>1, Sizes, Rows, LenProperties
<1>3. ReadPosition \in Nat
  BY <1>1, <1>2, Sizes DEF ReadPosition
<1>4. StreamBits(buf, cur, curBits) = BitsOf(buf) /\ Len(BitsOf(buf)) = Byte * Len(buf)
  BY <1>1, OnlyTheBuffer, BitsOfIs
<1> QED
  BY <1>1, <1>2, <1>3, <1>4

\* The reader is never past the end of the buffer.
LEMMA Fits ==
  ASSUME StreamInv, mode # "writing"
  PROVE  /\ ReadPosition <= Byte * Len(buf)
         /\ bytePos < Len(buf) => Byte * bytePos + Byte <= Byte * Len(buf)
<1>0. /\ bytePos \in Int /\ bytePos + 1 \in Int /\ Len(buf) \in Int /\ 1 \in Int
      /\ bitPos \in 0..(Byte - 1) /\ 0 \in 0..(Byte - 1) /\ Byte \in Nat /\ Byte > 0
  BY Reading, Sizes
<1>1. /\ Byte * bytePos + bitPos < Byte * Len(buf) <=> bytePos < Len(buf)
      /\ Byte * (bytePos + 1) = Byte * bytePos + Byte * 1 /\ Byte * 1 = Byte
  BY ONLY <1>0, Rows
<1>2. Byte * (bytePos + 1) + 0 < Byte * Len(buf) <=> bytePos + 1 < Len(buf)
  BY ONLY <1>0, Rows
<1>3. CASE bytePos = Len(buf)
  BY <1>3, Reading DEF ReadPosition, StreamInv, InTheBuffer
<1>4. CASE bytePos < Len(buf)
  <2>1. bytePos + 1 = Len(buf) \/ bytePos + 1 < Len(buf)
    BY <1>4, Reading
  <2> QED
    BY <1>1, <1>2, <1>4, <2>1, Reading, Sizes DEF ReadPosition
<1> QED
  BY <1>3, <1>4, Reading

\* The queue's reads in terms of the stream.
Streamed == StreamBits(buf, cur, curBits)

Placing == Byte * bytePos \in Int /\ bitPos \in Int /\ got \in Int

LEMMA GetIs ==
  ASSUME NEW n, n = call.width, call.op = "read", call' = NoCall,
         Placing, Placing', mode = "reading", mode' = "reading",
         Streamed' = Streamed, TakenBits + n <= Len(Streamed), TakenBits' = TakenBits + n,
         result' = {i \in 0..(n - 1) : Streamed[TakenBits + i + 1] = 1}
  PROVE  Queue!Get
<1> DEFINE q == BitsOf(buf) \o [i \in 1..curBits |-> IF i - 1 \in cur THEN 1 ELSE 0]
           t == Byte * bytePos + bitPos - got
<1>1. q = Streamed /\ q' = Streamed'
  BY DEF Streamed, StreamBits, Low, Queue!Low
<1>2. t = TakenBits /\ t' = TakenBits'
  BY SMT DEF Placing, TakenBits, ReadPosition
<1> HIDE DEF q, t
<1>3. result' = {i \in 0..(n - 1) : q[t + i + 1] = 1}
  BY <1>1, <1>2
<1>4. t + n <= Len(q) /\ t' = t + n /\ q' = q
  BY <1>1, <1>2
<1>5. call' = Queue!NoCall
  BY Calls
<1>6. /\ t + call.width <= Len(q) /\ t' = t + call.width
      /\ result' = {i \in 0..(call.width - 1) : q[t + i + 1] = 1}
  BY <1>3, <1>4
<1> QED
  BY <1>4, <1>5, <1>6, Zenon DEF Queue!Get, q, t

LEMMA GetTooMuchIs ==
  ASSUME NEW n, n = call.width, call.op = "read", call' = call,
         Placing, Placing', mode = "reading", mode' = "truncated",
         Streamed' = Streamed, ~(TakenBits + n <= Len(Streamed)), TakenBits + n \in Int,
         Len(Streamed) \in Int, TakenBits' = TakenBits, result' = result
  PROVE  Queue!GetTooMuch
<1> DEFINE q == BitsOf(buf) \o [i \in 1..curBits |-> IF i - 1 \in cur THEN 1 ELSE 0]
           t == Byte * bytePos + bitPos - got
<1>1. q = Streamed /\ q' = Streamed'
  BY DEF Streamed, StreamBits, Low, Queue!Low
<1>2. t = TakenBits /\ t' = TakenBits'
  BY SMT DEF Placing, TakenBits, ReadPosition
<1> HIDE DEF q, t
<1>3. t + call.width > Len(q) /\ t' = t /\ q' = q
  BY <1>1, <1>2
<1> QED
  BY <1>3, Zenon DEF Queue!GetTooMuch, q, t

LEMMA QueueStutters ==
  ASSUME Placing, Placing', Streamed' = Streamed, TakenBits' = TakenBits, mode' = mode,
         result' = result, call' = call
  PROVE  UNCHANGED Queue!vars
<1> DEFINE q == BitsOf(buf) \o [i \in 1..curBits |-> IF i - 1 \in cur THEN 1 ELSE 0]
           t == Byte * bytePos + bitPos - got
<1>1. q = Streamed /\ q' = Streamed'
  BY DEF Streamed, StreamBits, Low, Queue!Low
<1>2. t = TakenBits /\ t' = TakenBits'
  BY SMT DEF Placing, TakenBits, ReadPosition
<1> HIDE DEF q, t
<1>3. q' = q /\ t' = t
  BY <1>1, <1>2
<1> QED
  BY <1>3, Zenon DEF Queue!vars, q, t

\* A write is asked for.
LEMMA WriteAsked ==
  ASSUME StreamInv, NEW v \in Words, NEW n \in 0..Word, WriteCall(v, n)
  PROVE  StreamInv' /\ Queue!AskPut(v, n)
<1>1. /\ mode = "writing" /\ mode' = "writing" /\ call = NoCall /\ call' = Calling("write", v, n)
      /\ UNCHANGED <<buf, cur, curBits, bytePos, bitPos, acc, got, result>>
  BY DEF WriteCall, writer, reader
<1>2. /\ call.op # "read" /\ call'.op = "write" /\ call'.width = n /\ call'.value = v
  BY <1>1, Calls
<1>3. nbits = 0 /\ nbits' = 0
  BY <1>2 DEF nbits
<1>4. StreamInv'
  BY <1>1, <1>2, <1>3
     DEF StreamInv, StreamType, OneAtATime, InTheBuffer, Gathered, ReadPosition
<1>5. Queue!AskPut(v, n)
  BY <1>1, Calls DEF Queue!AskPut
<1> QED
  BY <1>4, <1>5

\* A read is asked for.
LEMMA ReadAsked ==
  ASSUME StreamInv, NEW n \in 0..Word, ReadCall(n)
  PROVE  StreamInv' /\ Queue!AskGet(n)
<1>1. /\ mode = "reading" /\ mode' = "reading" /\ call = NoCall /\ call' = Calling("read", {}, n)
      /\ acc' = {} /\ got' = 0
      /\ UNCHANGED <<buf, cur, curBits, bytePos, bitPos, result>>
  BY DEF ReadCall, writer
<1>2. /\ call.op = "none" /\ call'.op = "read" /\ call'.width = n /\ call'.value = {}
      /\ {} \in Words
  BY <1>1, Calls DEF Words
<1>3. nbits = 0 /\ nbits' = n
  BY <1>2 DEF nbits
<1>4. got = 0
  BY <1>1, <1>3, Reading
<1>5. StreamInv'
  <2>1. StreamType'
    <3>1. got' \in 0..nbits' /\ (nbits' > 0 => got' < nbits')
      BY <1>1, <1>3, Sizes
    <3>2. call'.op \in {"none", "write", "read"} /\ call'.width \in 0..Word /\ call'.value \in Words
      BY <1>2
    <3>3. /\ buf' \in Seq(Bytes)
          /\ curBits' \in 0..(Word - 1) /\ cur' \subseteq 0..(curBits' - 1)
          /\ bytePos' \in Nat /\ bitPos' \in 0..(Byte - 1)
      BY <1>1 DEF StreamInv, StreamType
    <3> QED
      BY <1>1, <3>1, <3>2, <3>3 DEF StreamType
  <2>5. OneAtATime'
    BY <1>1, <1>2 DEF StreamInv, OneAtATime
  <2>2. InTheBuffer'
    BY <1>1, Reading DEF StreamInv, InTheBuffer, ReadPosition
  <2>3. Gathered'
    BY <1>1 DEF Gathered, Gotten
  <2> QED
    BY <2>1, <2>2, <2>3, <2>5 DEF StreamInv
<1>6. Queue!AskGet(n)
  BY <1>1, <1>4, Calls, Zenon DEF Queue!AskGet
<1> QED
  BY <1>5, <1>6

\* A read of no bits takes none.
LEMMA NothingGets ==
  ASSUME StreamInv, ReadNothing
  PROVE  StreamInv' /\ Queue!Get
<1>1. /\ mode = "reading" /\ mode' = "reading" /\ call.op = "read" /\ nbits = 0 /\ call' = NoCall
      /\ result' = {} /\ UNCHANGED <<buf, cur, curBits, bytePos, bitPos, acc, got>>
  BY DEF ReadNothing, writer
<1>2. call.width = 0 /\ got = 0
  BY <1>1, Reading DEF nbits
<1>3. /\ call'.op = "none" /\ call'.width \in 0..Word /\ call'.value \in Words
  BY <1>1, Calls
<1>4. nbits' = 0
  BY <1>3 DEF nbits
<1>5. StreamInv'
  <2>1. StreamType' /\ OneAtATime'
    BY <1>1, <1>2, <1>3, <1>4, Sizes DEF StreamInv, StreamType, OneAtATime
  <2>2. InTheBuffer'
    BY <1>1, Reading DEF StreamInv, InTheBuffer, ReadPosition
  <2>3. Gathered'
    BY <1>4 DEF Gathered
  <2> QED
    BY <2>1, <2>2, <2>3 DEF StreamInv
<1>6. Streamed' = Streamed /\ TakenBits' = TakenBits + 0 /\ Placing /\ Placing'
  BY <1>1, Reading, Sizes DEF Streamed, ReadPosition, TakenBits, Placing
<1>7. TakenBits + 0 <= Len(Streamed)
  BY <1>1, <1>2, Fits, Reading DEF Streamed, TakenBits
<1>8. result' = {i \in 0..(0 - 1) : Streamed[TakenBits + i + 1] = 1}
  BY <1>1
<1> QED
  BY <1>1, <1>2, <1>5, <1>6, <1>7, <1>8, GetIs

\* The bits of a byte from o on are those of the stream from there.
LEMMA ByteIs ==
  ASSUME NEW b \in Seq(Bytes), NEW p \in 0..(Len(b) - 1), NEW o \in 0..(Byte - 1)
  PROVE  /\ Byte * p + o + 1 \in 1..(Byte * Len(b))
         /\ BitsOf(b)[Byte * p + o + 1] = 1 <=> o \in b[p + 1]
<1>1. /\ p \in Int /\ Len(b) \in Nat /\ Byte * p \in Nat /\ Byte * Len(b) \in Nat
      /\ Byte * p + o < Byte * Len(b) <=> p < Len(b)
  BY Sizes, Rows, LenProperties
<1>2. Byte * p + o + 1 \in 1..(Byte * Len(b)) /\ Byte * p + o \in Int
      /\ (Byte * p + o + 1) - 1 = Byte * p + o
  BY <1>1, Sizes
<1>3. (Byte * p + o) % Byte = o /\ (Byte * p + o) \div Byte = p
  BY <1>1, <1>2, Sizes, DivisionIs
<1>4. BitsOf(b)[Byte * p + o + 1] = IF o \in b[p + 1] THEN 1 ELSE 0
  BY <1>2, <1>3, BitsOfIs
<1> QED
  BY <1>2, <1>4

\* A chunk of k bits of a byte, ORed above the g bits read before it.
Chunk(b, p, o, k, g) == Shl(Mask(Shr(b[p + 1], o), k), g)

LEMMA ChunkGathers ==
  ASSUME NEW b \in Seq(Bytes), NEW p \in 0..(Len(b) - 1), NEW o \in 0..(Byte - 1),
         NEW g \in Nat, NEW k \in 1..(Byte - o), g + k <= Word, NEW s \in Int,
         s = Byte * p + o - g
  PROVE  Gotten(b, s, g) \cup Chunk(b, p, o, k, g) = Gotten(b, s, g + k)
<1> DEFINE c == Chunk(b, p, o, k, g)
           a == Gotten(b, s, g)
           d == Gotten(b, s, g + k)
<1>1. /\ Word \in Nat /\ Byte \in Nat /\ g \in Int /\ k \in Int /\ o \in Int /\ p \in Int
      /\ Byte * p \in Int
  BY Sizes, Rows
<1>2. \A j \in b[p + 1] : j \in 0..(Byte - 1)
  <2>1. b[p + 1] \in Bytes
    BY ElementOfSeq, LenProperties
  <2> QED
    BY <2>1 DEF Bytes
<1>3. \A i : i \in c <=>
        i \in 0..(Word - 1) /\ \E j \in b[p + 1] : j >= o /\ j - o \in 0..(k - 1) /\ i = (j - o) + g
  BY DEF Chunk, Shl, Mask, Shr
<1> HIDE DEF c
<1>4. ASSUME NEW i \in 0..(g + k - 1), ~(i < g)
      PROVE  i \in c <=> BitsOf(b)[s + i + 1] = 1
  <2> DEFINE e == o + (i - g)
  <2>1. /\ i - g \in 0..(k - 1) /\ e \in 0..(Byte - 1) /\ e >= o /\ e - o = i - g
        /\ i = (e - o) + g /\ i \in 0..(Word - 1) /\ e \in Int
    BY <1>1, <1>4
  <2>2. s + i + 1 = Byte * p + e + 1
    BY <1>1
  <2> HIDE DEF e
  <2>3. BitsOf(b)[s + i + 1] = 1 <=> e \in b[p + 1]
    <3>1. BitsOf(b)[Byte * p + e + 1] = 1 <=> e \in b[p + 1]
      BY <2>1, ByteIs
    <3> QED
      BY <2>2, <3>1, Zenon
  <2>4. ASSUME NEW j \in b[p + 1], i = (j - o) + g
        PROVE  j = e
    <3>1. j \in Int
      BY <1>2, Sizes
    <3>2. (j - o) + g = (e - o) + g
      BY <2>1, <2>4
    <3> QED
      BY ONLY <1>1, <2>1, <3>1, <3>2
  <2>5. i \in c <=> e \in b[p + 1]
    BY <1>3, <2>1, <2>4
  <2> QED
    BY <2>3, <2>5
<1>5. ASSUME NEW i \in c
      PROVE  i \in 0..(g + k - 1) /\ ~(i < g)
  BY <1>1, <1>2, <1>3
<1>6. ASSUME NEW i
      PROVE  i \in a \cup c <=> i \in d
  <2>1. CASE i \in 0..(g - 1)
    BY <1>1, <1>5, <2>1 DEF Gotten
  <2>2. CASE i \in 0..(g + k - 1) /\ ~(i < g)
    BY <1>1, <1>4, <2>2 DEF Gotten
  <2>3. CASE i \notin 0..(g + k - 1)
    BY <1>1, <1>5, <2>3 DEF Gotten
  <2> QED
    BY <1>1, <2>1, <2>2, <2>3
<1> QED
  BY <1>6, Zenon DEF c

LEMMA ChunkGets ==
  ASSUME StreamInv, ReadChunk
  PROVE  StreamInv' /\ (Queue!Get \/ UNCHANGED Queue!vars)
<1> DEFINE avail == Byte - bitPos
           chunk == Smaller(nbits - got, avail)
           acc1  == acc \cup Chunk(buf, bytePos, bitPos, chunk, got)
           read  == Gotten(buf, TakenBits, got + chunk)
<1>1. /\ mode = "reading" /\ nbits > 0 /\ bytePos < Len(buf)
      /\ acc' = acc1 /\ got' = (IF got + chunk = nbits THEN 0 ELSE got + chunk)
      /\ IF chunk = avail THEN bytePos' = bytePos + 1 /\ bitPos' = 0
                          ELSE bytePos' = bytePos /\ bitPos' = bitPos + chunk
      /\ IF got + chunk = nbits THEN call' = NoCall /\ result' = acc1
                               ELSE call' = call /\ result' = result
      /\ UNCHANGED <<buf, cur, curBits, mode>>
  BY Zenon DEF ReadChunk, writer, Chunk
<1>0. /\ call.op = "read" /\ nbits = call.width
      /\ call'.op \in {"none", "read"} /\ call'.width \in 0..Word /\ call'.value \in Words
      /\ nbits' = IF got + chunk = nbits THEN 0 ELSE nbits
  <2>1. call.op = "read" /\ nbits = call.width
    BY <1>1, Reading, WantIs DEF StreamInv
  <2>2. call.width \in 0..Word /\ call.value \in Words
    BY DEF StreamInv, StreamType
  <2>3. call' = NoCall \/ call' = call
    BY <1>1
  <2>4. call' = NoCall => nbits' = 0
    BY Calls DEF nbits
  <2>5. call' = call => nbits' = nbits
    BY DEF nbits
  <2> QED
    BY <1>1, <2>1, <2>2, <2>3, <2>4, <2>5, Calls
<1>2. /\ buf \in Seq(Bytes) /\ Len(buf) \in Nat /\ bytePos \in 0..(Len(buf) - 1)
      /\ bitPos \in 0..(Byte - 1) /\ nbits \in 0..Word /\ got \in 0..nbits /\ got < nbits
      /\ got \in Nat /\ Byte \in Nat /\ Word \in Nat /\ Byte > 0
  BY <1>1, Reading, Sizes
<1>3. /\ chunk \in 1..(Byte - bitPos) /\ chunk \in 1..(nbits - got) /\ got + chunk <= Word
      /\ (chunk = Byte - bitPos \/ chunk < Byte - bitPos)
  BY <1>2 DEF Smaller
<1>4. /\ Byte * bytePos \in Nat /\ Byte * (bytePos + 1) = Byte * bytePos + Byte
      /\ Byte * bytePos + Byte <= Byte * Len(buf) /\ Byte * Len(buf) \in Nat
  <2>1. Byte * (bytePos + 1) = Byte * bytePos + Byte * 1 /\ Byte * 1 = Byte
    BY <1>2, Rows
  <2> QED
    BY <1>1, <2>1, Fits, Reading
<1>5. acc1 = read
  <2>1. acc = Gotten(buf, TakenBits, got)
    BY <1>1 DEF StreamInv, Gathered
  <2>2. TakenBits \in Int /\ TakenBits = Byte * bytePos + bitPos - got
    BY <1>2, <1>4 DEF TakenBits, ReadPosition
  <2> HIDE DEF chunk
  <2> QED
    BY <1>2, <1>3, <2>1, <2>2, ChunkGathers
<1> HIDE DEF chunk, acc1, read
<1>6. ReadPosition' = ReadPosition + chunk /\ ReadPosition' \in Nat
  BY <1>1, <1>2, <1>3, <1>4 DEF ReadPosition
<1>7. StreamInv'
  <2>1. StreamType'
    BY <1>0, <1>1, <1>2, <1>3 DEF StreamInv, StreamType
  <2>2. OneAtATime'
    BY <1>0, <1>1 DEF StreamInv, OneAtATime
  <2>3. InTheBuffer'
    <3>1. bytePos' <= Len(buf') /\ (bytePos' = Len(buf') => bitPos' = 0)
      BY <1>1, <1>2, <1>3
    <3>2. got' <= ReadPosition'
      BY <1>1, <1>2, <1>3, <1>6, Reading
    <3> QED
      BY <3>1, <3>2 DEF InTheBuffer
  <2>4. Gathered'
    <3> SUFFICES ASSUME nbits' > 0
                 PROVE  acc' = Gotten(buf', TakenBits', got')
      BY DEF Gathered
    <3>1. got' = got + chunk
      BY <1>0, <1>1
    <3>2. TakenBits' = TakenBits
      BY <1>2, <1>3, <1>6, <3>1, Reading, <1>1 DEF TakenBits
    <3> QED
      BY <1>1, <1>5, <3>1, <3>2, Zenon DEF read
  <2> QED
    BY <2>1, <2>2, <2>3, <2>4 DEF StreamInv
<1>8. Streamed' = Streamed /\ Streamed = BitsOf(buf) /\ Placing /\ Placing'
  BY <1>1, <1>2, <1>3, <1>4, Reading DEF Streamed, Placing
<1>9. CASE got + chunk = nbits
  <2>1. TakenBits' = TakenBits + nbits /\ TakenBits + nbits <= Len(Streamed)
    BY <1>1, <1>2, <1>3, <1>4, <1>6, <1>8, <1>9, Reading DEF TakenBits, ReadPosition
  <2>2. result' = Gotten(buf, TakenBits, nbits)
    BY <1>1, <1>5, <1>9 DEF read
  <2>3. result' = {i \in 0..(nbits - 1) : Streamed[TakenBits + i + 1] = 1}
    BY <1>8, <2>2 DEF Gotten
  <2> QED
    BY <1>0, <1>1, <1>2, <1>7, <1>8, <1>9, <2>1, <2>3, GetIs
<1>10. CASE got + chunk # nbits
  <2>1. TakenBits' = TakenBits /\ mode' = mode /\ result' = result
    BY <1>1, <1>2, <1>3, <1>4, <1>6, <1>10 DEF TakenBits, ReadPosition
  <2>2. call' = call
    BY <1>1, <1>10
  <2> QED
    BY <1>7, <1>8, <2>1, <2>2, QueueStutters
<1> QED
  BY <1>9, <1>10

LEMMA PastEndIsTooMuch ==
  ASSUME StreamInv, ReadPastEnd
  PROVE  StreamInv' /\ Queue!GetTooMuch
<1>1. /\ mode = "reading" /\ mode' = "truncated" /\ nbits > 0 /\ bytePos >= Len(buf)
      /\ UNCHANGED <<buf, cur, curBits, bytePos, bitPos, call, acc, got, result>>
  BY DEF ReadPastEnd, writer, reader
<1>0. call.op = "read" /\ nbits = call.width /\ nbits' = nbits
  BY <1>1, Reading, WantIs DEF StreamInv, nbits
<1>2. StreamInv'
  BY <1>0, <1>1 DEF StreamInv, StreamType, OneAtATime, InTheBuffer, Gathered, TakenBits, ReadPosition
<1>3. Streamed' = Streamed /\ TakenBits' = TakenBits /\ Placing /\ Placing' /\ nbits \in 0..Word
      /\ Streamed = BitsOf(buf) /\ result' = result
  BY <1>1, Reading, Sizes DEF Streamed, TakenBits, ReadPosition, Placing
<1>4. ~(TakenBits + nbits <= Len(Streamed)) /\ TakenBits + nbits \in Int /\ Len(Streamed) \in Int
  <2>1. bytePos = Len(buf) /\ bitPos = 0
    BY <1>1, Reading DEF StreamInv, InTheBuffer
  <2> QED
    BY <1>1, <1>3, <2>1, Reading, Sizes DEF TakenBits, ReadPosition
<1> QED
  BY <1>0, <1>1, <1>2, <1>3, <1>4, GetTooMuchIs

-----------------------------------------------------------------------------

LEMMA InitIsQueue ==
  ASSUME StreamInit
  PROVE  StreamInv /\ Queue!Init
<1>1. /\ buf = << >> /\ cur = {} /\ curBits = 0 /\ bytePos = 0 /\ bitPos = 0
      /\ call = NoCall /\ acc = {} /\ got = 0 /\ mode = "writing" /\ result = {}
  BY DEF StreamInit
<1>6. /\ call.op = "none" /\ call.width \in 0..Word /\ call.value \in Words /\ nbits = 0
      /\ call = Queue!NoCall
  BY <1>1, Calls DEF nbits
<1>2. << >> \in Seq(Bytes) /\ Len(<< >>) = 0 /\ Byte * 0 = 0
  BY EmptySeq, Sizes
<1>3. StreamInv
  BY <1>1, <1>2, <1>6, Sizes DEF StreamInv, StreamType, OneAtATime, InTheBuffer, Gathered, TakenBits, ReadPosition
<1>4. StreamBits(<< >>, {}, 0) = << >>
  <2>1. BitsOf(<< >>) \in Seq(Bit) /\ Len(BitsOf(<< >>)) = 0
    BY <1>2, BitsOfIs
  <2>2. BitsOf(<< >>) = << >>
    BY <2>1, EmptySeq
  <2> QED
    BY <1>2, <2>2, OnlyTheBuffer
<1>5. Queue!Init
  <2> DEFINE q == BitsOf(buf) \o [i \in 1..curBits |-> IF i - 1 \in cur THEN 1 ELSE 0]
             t == Byte * bytePos + bitPos - got
  <2>1. q = << >>
    BY <1>1, <1>4 DEF StreamBits, Low, Queue!Low
  <2>2. t = 0
    BY <1>1, <1>2
  <2> HIDE DEF q, t
  <2> QED
    BY <1>1, <1>6, <2>1, <2>2, Zenon DEF Queue!Init, q, t
<1> QED
  BY <1>3, <1>5

LEMMA StepIsQueue ==
  ASSUME StreamInv, [StreamNext]_streamVars
  PROVE  StreamInv' /\ [Queue!Next]_(Queue!vars)
<1>1. ASSUME NEW n \in 0..Word, NEW v \in Words, WriteCall(v, n)
      PROVE  StreamInv' /\ Queue!Next
  <2>1. v \in Queue!Words
    BY DEF Words, Queue!Words
  <2> QED
    BY <1>1, <2>1, WriteAsked DEF Queue!Next
<1>2. CASE WriteFits
  BY <1>2, FitsPuts DEF Queue!Next
<1>3. CASE WriteSplit
  BY <1>3, SplitPuts DEF Queue!Next
<1>4. CASE CloseStream
  BY <1>4, FinishCloses DEF Queue!Next
<1>5. ASSUME NEW n \in 0..Word, ReadCall(n)
      PROVE  StreamInv' /\ Queue!Next
  BY <1>5, ReadAsked DEF Queue!Next
<1>6. CASE ReadNothing
  BY <1>6, NothingGets DEF Queue!Next
<1>7. CASE ReadChunk
  BY <1>7, ChunkGets DEF Queue!Next
<1>8. CASE ReadPastEnd
  BY <1>8, PastEndIsTooMuch DEF Queue!Next
<1>9. CASE UNCHANGED streamVars
  <2>1. /\ UNCHANGED <<buf, cur, curBits, bytePos, bitPos, call, acc, got, result, mode>>
    BY <1>9 DEF streamVars, writer, reader
  <2>2. nbits' = nbits
    BY <2>1 DEF nbits
  <2>3. StreamInv'
    BY <2>1, <2>2 DEF StreamInv, StreamType, OneAtATime, InTheBuffer, Gathered, TakenBits, ReadPosition
  <2> QED
    BY <2>1, <2>3 DEF Queue!vars
<1> QED
  BY <1>1, <1>2, <1>3, <1>4, <1>5, <1>6, <1>7, <1>8, <1>9 DEF StreamNext

\* The words of write_bits and finish and the bytes and positions of read_bits
\* are a queue of bits, for every size of word that is a whole number of bytes:
\* each call of write_bits appends the low bits of the value it was given, as
\* many as it was told, and each call of read_bits returns the next bits, as
\* many as it was asked for, or Truncated exactly when there are fewer; finish
\* pads with less than a byte of zeros.
THEOREM StreamIsQueue == StreamSpec => ImplementsQueue
<1>1. StreamInit => StreamInv /\ Queue!Init
  BY InitIsQueue
<1>2. StreamInv /\ [StreamNext]_streamVars => StreamInv' /\ [Queue!Next]_(Queue!vars)
  BY StepIsQueue
<1> QED
  BY <1>1, <1>2, PTL DEF StreamSpec, ImplementsQueue, Queue!Spec
=============================================================================
