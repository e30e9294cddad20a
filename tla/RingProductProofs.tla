-------------------------- MODULE RingProductProofs --------------------------
(***************************************************************************)
(* For every degree that is a power of two, every bound and whatever the   *)
(* elements: a search returns the prime nearest to its bound; the square   *)
(* root of Tonelli and Shanks is found where there is one; the blocks of   *)
(* the transforms are the residues they stand for; and both ways of        *)
(* Ring::mul end with the product modulo X^d + 1 (RingProduct).            *)
(*                                                                         *)
(* What is taken as given is that a candidate is_prime accepts is prime    *)
(* (MillerRabinExact): that twelve bases are enough for 64-bit numbers is  *)
(* a published computation.  That it accepts every prime is proved.        *)
(*                                                                         *)
(* Powers, sums and bit-reversed numbers are defined by recursion.  The    *)
(* argument is everywhere for the least number at which a fact could fail. *)
(* A block of l coefficients holds the element modulo X^l - rho (Coef,     *)
(* Holds); a butterfly cuts it into the residues modulo X^(l/2) - s and    *)
(* X^(l/2) + s, where s*s = rho, and an inverse one joins them again,      *)
(* doubled (Scaled).  The blocks are the nodes of a tree, whose roots are  *)
(* the twiddles and their negatives (NodeRoot).                            *)
(***************************************************************************)
EXTENDS RingProduct, SumProofs

-----------------------------------------------------------------------------
(* Arithmetic modulo n.                                                    *)
Positive(n) == n \in Nat /\ n > 0

LEMMA RemainderType ==
  ASSUME NEW n, Positive(n), NEW u \in Int
  PROVE  /\ u % n \in Residues(n) /\ u % n \in Int /\ u % n \in Nat /\ u % n < n
         /\ \E j \in Int : u = n * j + (u % n)
         /\ u \in Residues(n) => u % n = u
<1>0. n \in Nat /\ n > 0
  BY DEF Positive
<1>1. /\ u % n \in 0..(n - 1) /\ u \div n \in Int /\ u = n * (u \div n) + (u % n)
  BY <1>0, Z3
<1>2. u \in Residues(n) => u % n = u
  BY <1>0, u = n * 0 + u, DivisionIs DEF Residues
<1>3. u % n \in Residues(n) /\ u % n \in Int
  BY <1>0, <1>1 DEF Residues
<1>4. \E j \in Int : u = n * j + (u % n)
  <2>. DEFINE l == u \div n
              s == u % n
  <2>1. l \in Int /\ u = n * l + s
    BY <1>1
  <2>. HIDE DEF l
  <2>. QED  BY <2>1
<1>5. u % n \in Nat /\ u % n < n
  BY <1>0, <1>1
<1>. QED  BY <1>2, <1>3, <1>4, <1>5

\* Integers that differ by a multiple of n have the same residue.
LEMMA SameRemainder ==
  ASSUME NEW n, Positive(n), NEW u \in Int, NEW v \in Int, NEW j \in Int, u = v + n * j
  PROVE  u % n = v % n
<1>0. n \in Nat /\ n > 0
  BY DEF Positive
<1>1. PICK l \in Int : v = n * l + (v % n)
  BY RemainderType
<1>. DEFINE s == v % n
            jl == l + j
<1>2. s \in 0..(n - 1) /\ s \in Int
  BY RemainderType DEF Residues
<1>. HIDE DEF s
<1>3. u = n * jl + s /\ jl \in Int
  BY <1>0, <1>1, <1>2 DEF s
<1>. HIDE DEF jl
<1>4. u % n = s
  BY <1>0, <1>2, <1>3, DivisionIs
<1>. QED  BY <1>4 DEF s

LEMMA RemainderLaws ==
  ASSUME NEW n, Positive(n), NEW u \in Int, NEW v \in Int
  PROVE  /\ ((u % n) + v) % n = (u + v) % n /\ (u + (v % n)) % n = (u + v) % n
         /\ ((u % n) - v) % n = (u - v) % n /\ (u - (v % n)) % n = (u - v) % n
         /\ ((u % n) * v) % n = (u * v) % n /\ (u * (v % n)) % n = (u * v) % n
         /\ (-(u % n)) % n = (-u) % n /\ (u % n) % n = u % n
<1>0. n \in Nat /\ n > 0
  BY DEF Positive
<1>1. PICK j \in Int : u = n * j + (u % n)
  BY RemainderType
<1>2. PICK l \in Int : v = n * l + (v % n)
  BY RemainderType
<1>. DEFINE s == u % n
            t == v % n
<1>3. s \in Int /\ t \in Int
  BY RemainderType
<1>4. u = n * j + s /\ v = n * l + t
  BY <1>1, <1>2
<1>. HIDE DEF s, t
<1>a. s + v = (u + v) + n * (-j) /\ s + v \in Int /\ u + v \in Int /\ -j \in Int
  BY <1>0, <1>3, <1>4
<1>b. u + t = (u + v) + n * (-l) /\ u + t \in Int /\ -l \in Int
  BY <1>0, <1>3, <1>4
<1>c. s - v = (u - v) + n * (-j) /\ s - v \in Int /\ u - v \in Int
  BY <1>0, <1>3, <1>4
<1>d. u - t = (u - v) + n * l /\ u - t \in Int
  BY <1>0, <1>3, <1>4
<1>e. -s = -u + n * j /\ -s \in Int /\ -u \in Int
  BY <1>0, <1>3, <1>4
<1>f. s * v = u * v + n * (-(j * v)) /\ s * v \in Int /\ u * v \in Int /\ -(j * v) \in Int
  BY <1>0, <1>3, <1>4, Z3
<1>g. u * t = u * v + n * (-(u * l)) /\ u * t \in Int /\ -(u * l) \in Int
  BY <1>0, <1>3, <1>4, Z3
<1>h. s = u + n * (-j)
  BY <1>0, <1>3, <1>4
<1>5. (s + v) % n = (u + v) % n
  BY <1>a, SameRemainder
<1>6. (u + t) % n = (u + v) % n
  BY <1>a, <1>b, SameRemainder
<1>7. (s - v) % n = (u - v) % n
  BY <1>a, <1>c, SameRemainder
<1>8. (u - t) % n = (u - v) % n
  BY <1>c, <1>d, SameRemainder
<1>9. (-s) % n = (-u) % n
  BY <1>e, SameRemainder
<1>10. (s * v) % n = (u * v) % n
  BY <1>f, SameRemainder
<1>11. (u * t) % n = (u * v) % n
  BY <1>f, <1>g, SameRemainder
<1>12. s % n = u % n
  BY <1>3, <1>a, <1>h, SameRemainder
<1>. QED  BY <1>5, <1>6, <1>7, <1>8, <1>9, <1>10, <1>11, <1>12 DEF s, t

\* The product of two residues.
Times(n, u, v) == (u * v) % n

LEMMA TimesType ==
  ASSUME NEW n, Positive(n), NEW u \in Int, NEW v \in Int
  PROVE  Times(n, u, v) \in Residues(n) /\ Times(n, u, v) \in Int /\ Times(n, u, v) \in Nat
<1>1. u * v \in Int
  OBVIOUS
<1>. QED  BY <1>1, RemainderType DEF Times

LEMMA TimesCommutes ==
  ASSUME NEW n, Positive(n), NEW u \in Int, NEW v \in Int
  PROVE  Times(n, u, v) = Times(n, v, u)
  BY DEF Times

LEMMA TimesAssociates ==
  ASSUME NEW n, Positive(n), NEW u \in Int, NEW v \in Int, NEW w \in Int
  PROVE  Times(n, Times(n, u, v), w) = Times(n, u, Times(n, v, w))
<1>. DEFINE uv == u * v
            vw == v * w
<1>1. uv \in Int /\ vw \in Int /\ uv * w = u * vw
  BY Z3
<1>. HIDE DEF uv, vw
<1>2. ((uv % n) * w) % n = (uv * w) % n
  BY <1>1, RemainderLaws
<1>3. (u * (vw % n)) % n = (u * vw) % n
  BY <1>1, RemainderLaws
<1>. QED  BY <1>1, <1>2, <1>3 DEF Times, uv, vw

LEMMA TimesReduces ==
  ASSUME NEW n, Positive(n), NEW u \in Int, NEW v \in Int
  PROVE  /\ Times(n, u % n, v) = Times(n, u, v) /\ Times(n, u, v % n) = Times(n, u, v)
         /\ Times(n, u % n, v % n) = Times(n, u, v)
<1>1. u % n \in Int
  BY RemainderType
<1>2. Times(n, u % n, v) = Times(n, u, v) /\ Times(n, u, v % n) = Times(n, u, v)
  BY RemainderLaws DEF Times
<1>3. Times(n, u % n, v % n) = Times(n, u % n, v)
  BY <1>1, RemainderLaws DEF Times
<1>. QED  BY <1>2, <1>3

LEMMA TimesUnits ==
  ASSUME NEW n, Positive(n), NEW u \in Int
  PROVE  /\ Times(n, 1, u) = u % n /\ Times(n, u, 1) = u % n
         /\ Times(n, 0, u) = 0 /\ Times(n, u, 0) = 0
         /\ u \in Residues(n) => Times(n, 1, u) = u /\ Times(n, u, 1) = u
<1>1. 1 * u = u /\ u * 1 = u
  OBVIOUS
<1>2. 0 * u = 0 /\ u * 0 = 0 /\ 0 \in Residues(n) /\ 0 \in Int
  BY DEF Residues, Positive
<1>3. 0 % n = 0
  BY <1>2, RemainderType
<1>4. u \in Residues(n) => u % n = u
  BY RemainderType
<1>. QED  BY <1>1, <1>2, <1>3, <1>4 DEF Times

LEMMA TimesSwap ==
  ASSUME NEW n, Positive(n), NEW u \in Int, NEW v \in Int, NEW w \in Int, NEW y \in Int
  PROVE  Times(n, Times(n, u, v), Times(n, w, y)) = Times(n, Times(n, u, w), Times(n, v, y))
<1>. DEFINE uv == Times(n, u, v)
            uw == Times(n, u, w)
            vy == Times(n, v, y)
            wy == Times(n, w, y)
<1>0. uv \in Int /\ uw \in Int /\ vy \in Int /\ wy \in Int
  BY TimesType
<1>1. Times(n, uv, wy) = Times(n, u, Times(n, v, wy))
  BY <1>0, TimesAssociates
<1>2. Times(n, uw, vy) = Times(n, u, Times(n, w, vy))
  BY <1>0, TimesAssociates
<1>3. Times(n, v, wy) = Times(n, Times(n, v, w), y)
  BY TimesAssociates
<1>4. Times(n, w, vy) = Times(n, Times(n, w, v), y)
  BY TimesAssociates
<1>5. Times(n, v, w) = Times(n, w, v)
  BY TimesCommutes
<1>. QED  BY <1>1, <1>2, <1>3, <1>4, <1>5

-----------------------------------------------------------------------------
(* Powers modulo n: what squaring computes is the repeated product.        *)
AtLeastTwo(n) == n \in Nat /\ n >= 2

LEMMA TwoIsPositive ==
  ASSUME NEW n, AtLeastTwo(n)
  PROVE  Positive(n) /\ 1 \in Residues(n) /\ 0 \in Residues(n)
  BY DEF AtLeastTwo, Positive, Residues

IsPowers(h, n, u, e) ==
  h \in [0..e -> Int] /\ h[0] = 1 /\ \A i \in 1..e : h[i] = Times(n, h[i - 1], u)

LEMMA PowersExist ==
  ASSUME NEW n, Positive(n), NEW u \in Int
  PROVE  \A e \in Nat : \E h : IsPowers(h, n, u, e)
<1>. DEFINE T == {e \in Nat : ~\E h : IsPowers(h, n, u, e)}
<1>1. SUFFICES ASSUME T # {} PROVE FALSE
  OBVIOUS
<1>2. PICK e \in T : \A i \in T : e <= i
  <2>1. T \in SUBSET Nat
    OBVIOUS
  <2>. HIDE DEF T
  <2>. QED  BY <1>1, <2>1, Least
<1>3. e # 0
  <2>1. IsPowers([i \in 0..0 |-> 1], n, u, 0)
    BY DEF IsPowers
  <2>. QED  BY <1>2, <2>1
<1>4. e - 1 \in Nat /\ e - 1 \notin T /\ e \in Nat
  BY <1>2, <1>3
<1>5. PICK h : IsPowers(h, n, u, e - 1)
  BY <1>4
<1>. DEFINE l == [i \in 0..e |-> IF i = e THEN Times(n, h[e - 1], u) ELSE h[i]]
<1>6. h[e - 1] \in Int /\ \A i \in 0..(e - 1) : h[i] \in Int
  BY <1>4, <1>5 DEF IsPowers
<1>7. Times(n, h[e - 1], u) \in Int
  BY <1>6, TimesType
<1>8. l \in [0..e -> Int] /\ l[0] = 1
  BY <1>3, <1>4, <1>5, <1>6, <1>7 DEF IsPowers
<1>9. ASSUME NEW i \in 1..e PROVE l[i] = Times(n, l[i - 1], u)
  <2>1. CASE i = e
    BY <1>4, <2>1
  <2>2. CASE i # e
    <3>1. i \in 1..(e - 1) /\ i - 1 \in 0..e /\ i - 1 # e /\ i \in 0..e
      BY <1>4, <2>2
    <3>2. h[i] = Times(n, h[i - 1], u)
      BY <1>5, <3>1 DEF IsPowers
    <3>. QED  BY <2>2, <3>1, <3>2
  <2>. QED  BY <2>1, <2>2
<1>10. IsPowers(l, n, u, e)
  <2>. HIDE DEF l
  <2>. QED  BY <1>8, <1>9 DEF IsPowers
<1>. QED  BY <1>2, <1>10

LEMMA PowersAgree ==
  ASSUME NEW n, NEW u, NEW i \in Nat, NEW j \in Nat, NEW h, NEW l,
         IsPowers(h, n, u, i), IsPowers(l, n, u, j)
  PROVE  \A m \in Nat : m <= i /\ m <= j => h[m] = l[m]
<1>. DEFINE T == {m \in Nat : m <= i /\ m <= j /\ h[m] # l[m]}
<1>1. SUFFICES ASSUME T # {} PROVE FALSE
  OBVIOUS
<1>2. PICK m \in T : \A e \in T : m <= e
  <2>1. T \in SUBSET Nat
    OBVIOUS
  <2>. HIDE DEF T
  <2>. QED  BY <1>1, <2>1, Least
<1>3. m # 0
  BY <1>2 DEF IsPowers
<1>4. m - 1 \in Nat /\ m - 1 \notin T /\ m \in 1..i /\ m \in 1..j
  BY <1>2, <1>3
<1>5. h[m - 1] = l[m - 1]
  BY <1>4
<1>6. h[m] = Times(n, h[m - 1], u) /\ l[m] = Times(n, l[m - 1], u)
  BY <1>4 DEF IsPowers
<1>. QED  BY <1>2, <1>5, <1>6

Exp(n, u, e) == (CHOOSE h : IsPowers(h, n, u, e))[e]

LEMMA ExpIs ==
  ASSUME NEW n, Positive(n), NEW u \in Int, NEW e \in Nat, NEW i \in 0..e,
         NEW h, IsPowers(h, n, u, e)
  PROVE  h[i] = Exp(n, u, i)
<1>1. i \in Nat /\ i <= e /\ i <= i
  OBVIOUS
<1>2. IsPowers(CHOOSE l : IsPowers(l, n, u, i), n, u, i)
  <2>1. \E l : IsPowers(l, n, u, i)
    BY <1>1, PowersExist
  <2>. QED  BY <2>1, Zenon
<1>. DEFINE l == CHOOSE l : IsPowers(l, n, u, i)
<1>3. IsPowers(l, n, u, i) /\ Exp(n, u, i) = l[i]
  BY <1>2 DEF Exp
<1>. HIDE DEF l
<1>4. h[i] = l[i]
  BY <1>1, <1>3, PowersAgree
<1>. QED  BY <1>3, <1>4

LEMMA ExpSteps ==
  ASSUME NEW n, AtLeastTwo(n), NEW u \in Int, NEW e \in Nat
  PROVE  /\ Exp(n, u, 0) = 1 /\ Exp(n, u, e + 1) = Times(n, Exp(n, u, e), u)
         /\ Exp(n, u, e) \in Residues(n) /\ Exp(n, u, e) \in Int
<1>0. Positive(n)
  BY TwoIsPositive
<1>1. e + 1 \in Nat /\ e \in 0..(e + 1) /\ 0 \in 0..(e + 1) /\ e + 1 \in 1..(e + 1) /\ (e + 1) - 1 = e
      /\ e + 1 \in 0..(e + 1) /\ (e > 0 => e \in 1..(e + 1) /\ e - 1 \in 0..(e + 1))
  OBVIOUS
<1>2. PICK h : IsPowers(h, n, u, e + 1)
  BY <1>0, <1>1, PowersExist
<1>3. h[0] = Exp(n, u, 0)
  BY <1>0, <1>1, <1>2, ExpIs
<1>4. h[e] = Exp(n, u, e)
  BY <1>0, <1>1, <1>2, ExpIs
<1>5. h[e + 1] = Exp(n, u, e + 1)
  BY <1>0, <1>1, <1>2, ExpIs
<1>6. /\ h[0] = 1 /\ h[e + 1] = Times(n, h[e], u) /\ h[e] \in Int
      /\ e > 0 => h[e] = Times(n, h[e - 1], u) /\ h[e - 1] \in Int
  BY <1>1, <1>2 DEF IsPowers
<1>7. CASE e = 0
  BY <1>3, <1>4, <1>5, <1>6, <1>7, TwoIsPositive
<1>8. CASE e > 0
  <2>1. Times(n, h[e - 1], u) \in Residues(n)
    BY <1>0, <1>6, <1>8, TimesType
  <2>. QED  BY <1>3, <1>4, <1>5, <1>6, <1>8, <2>1
<1>. QED  BY <1>7, <1>8

LEMMA ExpOfSum ==
  ASSUME NEW n, AtLeastTwo(n), NEW u \in Int, NEW i \in Nat, NEW j \in Nat
  PROVE  Exp(n, u, i + j) = Times(n, Exp(n, u, i), Exp(n, u, j))
<1>. DEFINE T == {m \in Nat : Exp(n, u, i + m) # Times(n, Exp(n, u, i), Exp(n, u, m))}
<1>1. SUFFICES ASSUME T # {} PROVE FALSE
  OBVIOUS
<1>2. PICK m \in T : \A e \in T : m <= e
  <2>1. T \in SUBSET Nat
    OBVIOUS
  <2>. HIDE DEF T
  <2>. QED  BY <1>1, <2>1, Least
<1>0. Positive(n)
  BY TwoIsPositive
<1>3. m # 0
  <2>1. Exp(n, u, 0) = 1 /\ Exp(n, u, i) \in Residues(n) /\ Exp(n, u, i) \in Int
    BY ExpSteps
  <2>2. Times(n, Exp(n, u, i), 1) = Exp(n, u, i)
    BY <1>0, <2>1, TimesUnits
  <2>. QED  BY <1>2, <2>1, <2>2
<1>. DEFINE l == m - 1
<1>4. l \in Nat /\ l \notin T /\ m = l + 1 /\ i + m = (i + l) + 1 /\ i + l \in Nat
  BY <1>2, <1>3
<1>5. Exp(n, u, i + l) = Times(n, Exp(n, u, i), Exp(n, u, l))
  BY <1>4
<1>. HIDE DEF l
<1>6. Exp(n, u, m) = Times(n, Exp(n, u, l), u) /\ Exp(n, u, l) \in Int /\ Exp(n, u, i) \in Int
  BY <1>4, ExpSteps
<1>7. Exp(n, u, i + m) = Times(n, Exp(n, u, i + l), u)
  BY <1>4, ExpSteps
<1>8. Times(n, Times(n, Exp(n, u, i), Exp(n, u, l)), u) = Times(n, Exp(n, u, i), Times(n, Exp(n, u, l), u))
  BY <1>0, <1>6, TimesAssociates
<1>. QED  BY <1>2, <1>5, <1>6, <1>7, <1>8

\* What Power computes.
SquareStep(n, w, h, i) ==
  IF i = 0 THEN 1 ELSE IF i % 2 = 1 THEN Times(n, h[i - 1], w) ELSE Times(n, h[i \div 2], h[i \div 2])

BySquaring(h, n, w, e) == h = [i \in 0..e |-> SquareStep(n, w, h, i)]

LEMMA SquaringExists ==
  ASSUME NEW n, AtLeastTwo(n), NEW w \in Int, NEW e \in Nat
  PROVE  BySquaring([i \in 0..e |-> Exp(n, w, i)], n, w, e)
<1>. DEFINE h == [i \in 0..e |-> Exp(n, w, i)]
<1>1. ASSUME NEW i \in 0..e PROVE Exp(n, w, i) = SquareStep(n, w, h, i)
  <2>0. i \in Nat /\ 0 \in Nat
    OBVIOUS
  <2>1. CASE i = 0
    <3>1. Exp(n, w, 0) = 1
      BY <2>0, ExpSteps
    <3>. QED  BY <2>1, <3>1 DEF SquareStep
  <2>2. CASE i # 0 /\ i % 2 = 1
    <3>1. i - 1 \in Nat /\ (i - 1) + 1 = i /\ i - 1 \in 0..e
      BY <2>2
    <3>2. Exp(n, w, (i - 1) + 1) = Times(n, Exp(n, w, i - 1), w)
      BY <3>1, ExpSteps
    <3>. QED  BY <2>2, <3>1, <3>2 DEF SquareStep
  <2>3. CASE i # 0 /\ i % 2 # 1
    <3>. DEFINE j == i \div 2
    <3>1. j \in Nat /\ j + j = i /\ j \in 0..e
      BY <2>3, Z3
    <3>. HIDE DEF j
    <3>2. Exp(n, w, j + j) = Times(n, Exp(n, w, j), Exp(n, w, j))
      BY <3>1, ExpOfSum
    <3>3. h[j] = Exp(n, w, j)
      BY <3>1
    <3>. HIDE DEF h
    <3>4. SquareStep(n, w, h, i) = Times(n, h[j], h[j])
      BY <2>3 DEF SquareStep, j
    <3>. QED  BY <3>1, <3>2, <3>3, <3>4
  <2>. QED  BY <2>1, <2>2, <2>3
<1>2. h = [i \in 0..e |-> SquareStep(n, w, h, i)]
  BY <1>1
<1>. QED  BY <1>2 DEF BySquaring

LEMMA SquaringIs ==
  ASSUME NEW n, AtLeastTwo(n), NEW w \in Int, NEW e \in Nat, NEW h, BySquaring(h, n, w, e)
  PROVE  \A i \in 0..e : h[i] = Exp(n, w, i)
<1>. DEFINE T == {m \in Nat : m \in 0..e /\ h[m] # Exp(n, w, m)}
<1>1. SUFFICES ASSUME T # {} PROVE FALSE
  OBVIOUS
<1>2. PICK m \in T : \A i \in T : m <= i
  <2>1. T \in SUBSET Nat
    OBVIOUS
  <2>. HIDE DEF T
  <2>. QED  BY <1>1, <2>1, Least
<1>. DEFINE l == [i \in 0..e |-> Exp(n, w, i)]
<1>3. BySquaring(l, n, w, e)
  BY SquaringExists
<1>4. h[m] = SquareStep(n, w, h, m) /\ l[m] = SquareStep(n, w, l, m)
  <2>1. m \in 0..e
    BY <1>2
  <2>2. h = [i \in 0..e |-> SquareStep(n, w, h, i)] /\ l = [i \in 0..e |-> SquareStep(n, w, l, i)]
    BY <1>3 DEF BySquaring
  <2>. HIDE DEF l
  <2>. QED  BY <2>1, <2>2
<1>5. \A i \in 0..e : i < m => h[i] = l[i]
  BY <1>2
<1>6. m \in 0..e /\ (m # 0 => m - 1 \in 0..e /\ m - 1 < m /\ m \div 2 \in 0..e /\ m \div 2 < m)
  <2>1. m \in Nat /\ m <= e
    BY <1>2
  <2>2. m # 0 => m \div 2 \in Nat /\ m \div 2 < m
    BY <2>1, Z3
  <2>. QED  BY <2>1, <2>2
<1>7. l[m] = Exp(n, w, m)
  BY <1>6
<1>. HIDE DEF l
<1>8. SquareStep(n, w, h, m) = SquareStep(n, w, l, m)
  BY <1>5, <1>6 DEF SquareStep
<1>. QED  BY <1>2, <1>4, <1>7, <1>8

LEMMA ExpReduces ==
  ASSUME NEW n, AtLeastTwo(n), NEW u \in Int, NEW e \in Nat
  PROVE  Exp(n, u % n, e) = Exp(n, u, e)
<1>0. Positive(n) /\ u % n \in Int
  BY TwoIsPositive, RemainderType
<1>1. PICK h : IsPowers(h, n, u % n, e)
  BY <1>0, PowersExist
<1>2. IsPowers(h, n, u, e)
  <2>1. ASSUME NEW i \in 1..e PROVE h[i] = Times(n, h[i - 1], u)
    <3>1. h[i - 1] \in Int /\ h[i] = Times(n, h[i - 1], u % n)
      BY <1>1 DEF IsPowers
    <3>. QED  BY <1>0, <3>1, TimesReduces
  <2>. QED  BY <1>1, <2>1 DEF IsPowers
<1>3. e \in 0..e
  OBVIOUS
<1>4. h[e] = Exp(n, u, e)
  BY <1>0, <1>2, <1>3, ExpIs
<1>5. h[e] = Exp(n, u % n, e)
  BY <1>0, <1>1, <1>3, ExpIs
<1>. QED  BY <1>4, <1>5

LEMMA PowerIsExp ==
  ASSUME NEW n, AtLeastTwo(n), NEW u \in Int, NEW e \in Nat
  PROVE  Power(n, u, e) = Exp(n, u, e)
<1>. DEFINE w == u % n
            Body(h) == h = [i \in 0..e |->
                              IF i = 0 THEN 1
                              ELSE IF i % 2 = 1 THEN (h[i - 1] * w) % n
                              ELSE LET z == h[i \div 2] IN (z * z) % n]
<1>0. w \in Int
  BY TwoIsPositive, RemainderType
<1>1. Power(n, u, e) = (CHOOSE h : Body(h))[e]
  BY DEF Power
<1>2. \A h : Body(h) <=> BySquaring(h, n, w, e)
  BY DEF BySquaring, SquareStep, Times
<1>. HIDE DEF w, Body
<1>3. \E h : Body(h)
  BY <1>0, <1>2, SquaringExists
<1>4. Body(CHOOSE h : Body(h))
  BY <1>3, Zenon
<1>5. BySquaring(CHOOSE h : Body(h), n, w, e)
  BY <1>2, <1>4
<1>6. e \in 0..e
  OBVIOUS
<1>. DEFINE l == CHOOSE h : Body(h)
<1>. HIDE DEF l
<1>7. l[e] = Exp(n, w, e)
  BY <1>0, <1>5, <1>6, SquaringIs DEF l
<1>. QED  BY <1>1, <1>7, ExpReduces DEF w, l

LEMMA PowerSteps ==
  ASSUME NEW n, AtLeastTwo(n), NEW u \in Int, NEW e \in Nat
  PROVE  /\ Power(n, u, 0) = 1 /\ Power(n, u, 1) = u % n
         /\ Power(n, u, e + 1) = Times(n, Power(n, u, e), u)
         /\ Power(n, u, e) \in Residues(n) /\ Power(n, u, e) \in Int
         /\ Power(n, u % n, e) = Power(n, u, e)
<1>1. 0 \in Nat /\ 1 \in Nat /\ e + 1 \in Nat /\ 0 + 1 = 1
  OBVIOUS
<1>2. Positive(n) /\ u % n \in Int
  BY TwoIsPositive, RemainderType
<1>3. Power(n, u, 0) = Exp(n, u, 0) /\ Power(n, u, 1) = Exp(n, u, 1)
  BY <1>1, PowerIsExp
<1>4. Power(n, u, e) = Exp(n, u, e) /\ Power(n, u, e + 1) = Exp(n, u, e + 1)
  BY <1>1, PowerIsExp
<1>5. Power(n, u % n, e) = Exp(n, u, e)
  BY <1>2, PowerIsExp, ExpReduces
<1>6. Exp(n, u, 0) = 1 /\ Exp(n, u, 0 + 1) = Times(n, Exp(n, u, 0), u)
  BY <1>1, ExpSteps
<1>7. /\ Exp(n, u, e + 1) = Times(n, Exp(n, u, e), u)
      /\ Exp(n, u, e) \in Residues(n) /\ Exp(n, u, e) \in Int
  BY ExpSteps
<1>8. Times(n, 1, u) = u % n
  BY <1>2, TimesUnits
<1>. QED  BY <1>1, <1>3, <1>4, <1>5, <1>6, <1>7, <1>8

LEMMA PowerOfSum ==
  ASSUME NEW n, AtLeastTwo(n), NEW u \in Int, NEW i \in Nat, NEW j \in Nat
  PROVE  Power(n, u, i + j) = Times(n, Power(n, u, i), Power(n, u, j))
<1>1. i + j \in Nat
  OBVIOUS
<1>2. Power(n, u, i) = Exp(n, u, i) /\ Power(n, u, j) = Exp(n, u, j)
  BY PowerIsExp
<1>3. Power(n, u, i + j) = Exp(n, u, i + j)
  BY <1>1, PowerIsExp
<1>. QED  BY <1>2, <1>3, ExpOfSum

LEMMA PowerOfPower ==
  ASSUME NEW n, AtLeastTwo(n), NEW u \in Int, NEW i \in Nat, NEW j \in Nat
  PROVE  Power(n, u, i * j) = Power(n, Power(n, u, i), j)
<1>. DEFINE T == {m \in Nat : Power(n, u, i * m) # Power(n, Power(n, u, i), m)}
            w == Power(n, u, i)
<1>0. w \in Int /\ Positive(n)
  BY PowerSteps, TwoIsPositive
<1>1. SUFFICES ASSUME T # {} PROVE FALSE
  OBVIOUS
<1>2. PICK m \in T : \A e \in T : m <= e
  <2>1. T \in SUBSET Nat
    OBVIOUS
  <2>. HIDE DEF T
  <2>. QED  BY <1>1, <2>1, Least
<1>. HIDE DEF w
<1>3. m # 0
  <2>1. Power(n, u, 0) = 1 /\ Power(n, w, 0) = 1 /\ i * 0 = 0 /\ 0 \in Nat
    BY <1>0, PowerSteps
  <2>. QED  BY <1>2, <2>1 DEF w
<1>. DEFINE l == m - 1
            il == i * l
<1>4. l \in Nat /\ l \notin T /\ m = l + 1 /\ il \in Nat /\ i * m = il + i
  <2>1. m \in Nat /\ l \in Nat /\ m = l + 1
    BY <1>2, <1>3
  <2>2. l \notin T
    BY <1>2, <2>1
  <2>. HIDE DEF l
  <2>3. i * l \in Nat /\ i * (l + 1) = i * l + i
    BY <2>1, Z3
  <2>. QED  BY <2>1, <2>2, <2>3
<1>5. Power(n, u, il) = Power(n, w, l)
  BY <1>4 DEF w
<1>. HIDE DEF l, il
<1>6. Power(n, u, il + i) = Times(n, Power(n, u, il), w)
  BY <1>4, PowerOfSum DEF w
<1>7. Power(n, w, l + 1) = Times(n, Power(n, w, l), w)
  BY <1>0, <1>4, PowerSteps
<1>. QED  BY <1>2, <1>4, <1>5, <1>6, <1>7 DEF w

LEMMA PowerOfProduct ==
  ASSUME NEW n, AtLeastTwo(n), NEW u \in Int, NEW v \in Int, NEW j \in Nat
  PROVE  Power(n, Times(n, u, v), j) = Times(n, Power(n, u, j), Power(n, v, j))
<1>. DEFINE w == Times(n, u, v)
            T == {m \in Nat : Power(n, w, m) # Times(n, Power(n, u, m), Power(n, v, m))}
<1>0. w \in Int /\ Positive(n)
  BY TimesType, TwoIsPositive
<1>1. SUFFICES ASSUME T # {} PROVE FALSE
  OBVIOUS
<1>2. PICK m \in T : \A e \in T : m <= e
  <2>1. T \in SUBSET Nat
    OBVIOUS
  <2>. HIDE DEF T
  <2>. QED  BY <1>1, <2>1, Least
<1>. HIDE DEF w
<1>3. m # 0
  <2>1. Power(n, u, 0) = 1 /\ Power(n, w, 0) = 1 /\ Power(n, v, 0) = 1 /\ 0 \in Nat
    BY <1>0, PowerSteps
  <2>2. Times(n, 1, 1) = 1
    BY <1>0, TimesUnits, TwoIsPositive
  <2>. QED  BY <1>2, <2>1, <2>2
<1>. DEFINE l == m - 1
<1>4. l \in Nat /\ l \notin T /\ m = l + 1
  BY <1>2, <1>3
<1>5. Power(n, w, l) = Times(n, Power(n, u, l), Power(n, v, l))
  BY <1>4
<1>. HIDE DEF l
<1>6. Power(n, u, l + 1) = Times(n, Power(n, u, l), u) /\ Power(n, u, l) \in Int
  BY <1>4, PowerSteps
<1>7. Power(n, v, l + 1) = Times(n, Power(n, v, l), v) /\ Power(n, v, l) \in Int
  BY <1>4, PowerSteps
<1>8. Power(n, w, l + 1) = Times(n, Power(n, w, l), w)
  BY <1>0, <1>4, PowerSteps
<1>9. Times(n, Times(n, Power(n, u, l), Power(n, v, l)), Times(n, u, v))
      = Times(n, Times(n, Power(n, u, l), u), Times(n, Power(n, v, l), v))
  BY <1>0, <1>6, <1>7, TimesSwap
<1>. QED  BY <1>2, <1>4, <1>5, <1>6, <1>7, <1>8, <1>9 DEF w

LEMMA PowerOfOne ==
  ASSUME NEW n, AtLeastTwo(n), NEW j \in Nat
  PROVE  Power(n, 1, j) = 1
<1>. DEFINE T == {m \in Nat : Power(n, 1, m) # 1}
<1>0. Positive(n) /\ Times(n, 1, 1) = 1
  BY TimesUnits, TwoIsPositive
<1>1. SUFFICES ASSUME T # {} PROVE FALSE
  OBVIOUS
<1>2. PICK m \in T : \A e \in T : m <= e
  <2>1. T \in SUBSET Nat
    OBVIOUS
  <2>. HIDE DEF T
  <2>. QED  BY <1>1, <2>1, Least
<1>3. m # 0
  <2>1. Power(n, 1, 0) = 1 /\ 0 \in Nat
    BY PowerSteps
  <2>. QED  BY <1>2, <2>1
<1>. DEFINE l == m - 1
<1>4. l \in Nat /\ l \notin T /\ m = l + 1
  BY <1>2, <1>3
<1>5. Power(n, 1, l) = 1
  BY <1>4
<1>. HIDE DEF l
<1>6. Power(n, 1, l + 1) = Times(n, Power(n, 1, l), 1)
  BY <1>4, PowerSteps
<1>. QED  BY <1>0, <1>2, <1>4, <1>5, <1>6

\* Doubling the exponent squares the power.
LEMMA PowerOfDouble ==
  ASSUME NEW n, AtLeastTwo(n), NEW u \in Int, NEW j \in Nat
  PROVE  /\ Power(n, u, 2 * j) = Times(n, Power(n, u, j), Power(n, u, j))
         /\ Power(n, Times(n, u, u), j) = Power(n, u, 2 * j)
<1>1. 2 * j = j + j
  OBVIOUS
<1>. QED  BY <1>1, PowerOfSum, PowerOfProduct

-----------------------------------------------------------------------------
(* Arithmetic modulo a prime.                                              *)
IsPrime(n) == n \in Nat /\ n >= 2 /\ \A m \in 2..(n - 1) : n % m # 0

\* The residues other than 0.
Units(n) == 1..(n - 1)

LEMMA PrimeIsTwo ==
  ASSUME NEW n, IsPrime(n)
  PROVE  AtLeastTwo(n) /\ Positive(n)
  BY DEF IsPrime, AtLeastTwo, Positive

LEMMA UnitsAre ==
  ASSUME NEW n, AtLeastTwo(n)
  PROVE  /\ \A u \in Units(n) : u \in Int /\ u \in Residues(n) /\ u # 0 /\ u \in Nat
         /\ \A u \in Residues(n) : u # 0 => u \in Units(n)
         /\ 1 \in Units(n) /\ n - 1 \in Units(n) /\ 0 \notin Units(n)
         /\ Residues(n) \subseteq Int /\ n - 1 \in Int /\ n \in Int /\ 0 \in Residues(n)
  BY DEF Units, Residues, AtLeastTwo

\* Modulo a prime every residue but 0 has an inverse.
LEMMA InverseExists ==
  ASSUME NEW n, IsPrime(n), NEW u \in Units(n)
  PROVE  \E v \in Units(n) : Times(n, u, v) = 1
<1>. DEFINE T == {t \in Nat : t > 0 /\ \E i \in Int, j \in Int : t = u * i + n * j}
<1>0. n \in Nat /\ n >= 2 /\ u \in Nat /\ u > 0 /\ u < n /\ Positive(n)
  BY DEF IsPrime, Units, Positive
<1>1. u \in T
  <2>1. u = u * 1 + n * 0
    BY <1>0
  <2>. QED  BY <1>0, <2>1
<1>2. PICK m \in T : \A t \in T : m <= t
  <2>1. T \in SUBSET Nat /\ T # {}
    BY <1>1
  <2>. HIDE DEF T
  <2>. QED  BY <2>1, Least
<1>3. m \in Nat /\ m > 0 /\ m <= u
  BY <1>1, <1>2
<1>4. PICK i \in Int, j \in Int : m = u * i + n * j
  BY <1>2
<1>5. n % m = 0
  <2>. DEFINE s == n % m
              l == n \div m
  <2>1. s \in 0..(m - 1) /\ l \in Int /\ n = m * l + s
    BY <1>0, <1>3, Division
  <2>. HIDE DEF s, l
  <2>2. s = u * (-(i * l)) + n * (1 - j * l)
    <3>1. m * l = u * (i * l) + n * (j * l)
      <4>. DEFINE il == i * l
                  jl == j * l
      <4>1. (u * i + n * j) * l = u * il + n * jl
        BY <1>0, <2>1, Z3
      <4>. QED  BY <1>4, <4>1
    <3>. DEFINE il == i * l
                jl == j * l
    <3>2. il \in Int /\ jl \in Int /\ m * l = u * il + n * jl
      BY <2>1, <3>1
    <3>. HIDE DEF il, jl
    <3>3. s = n - (u * il + n * jl)
      BY <1>0, <1>3, <2>1, <3>2
    <3>4. u * (-il) = -(u * il) /\ n * (1 - jl) = n - n * jl
      BY <1>0, <3>2, Z3
    <3>5. s = u * (-il) + n * (1 - jl)
      BY <1>0, <3>2, <3>3, <3>4
    <3>. QED  BY <3>5 DEF il, jl
  <2>3. -(i * l) \in Int /\ 1 - j * l \in Int
    BY <2>1
  <2>4. s > 0 => s \in T
    BY <1>3, <2>1, <2>2, <2>3
  <2>5. s = 0
    <3>. HIDE DEF T
    <3>1. s > 0 => m <= s
      BY <1>2, <2>4
    <3>. QED  BY <1>3, <2>1, <3>1
  <2>. QED  BY <2>5 DEF s
<1>6. m = 1
  BY <1>0, <1>3, <1>5 DEF IsPrime
<1>. DEFINE v == i % n
<1>7. v \in Residues(n) /\ v \in Int
  BY <1>0, RemainderType
<1>8. Times(n, u, v) = 1
  <2>1. Times(n, u, v) = Times(n, u, i)
    BY <1>0, TimesReduces
  <2>2. u * i = 1 + n * (-j) /\ u * i \in Int /\ -j \in Int
    BY <1>0, <1>4, <1>6
  <2>3. (u * i) % n = 1 % n
    BY <1>0, <2>2, SameRemainder
  <2>4. 1 \in Residues(n)
    BY <1>0 DEF Residues
  <2>5. 1 % n = 1
    BY <1>0, <2>4, RemainderType
  <2>. QED  BY <2>1, <2>3, <2>5 DEF Times
<1>9. v # 0
  <2>1. Times(n, u, 0) = 0
    BY <1>0, TimesUnits
  <2>. QED  BY <1>8, <2>1
<1>10. v \in Units(n)
  BY <1>7, <1>9, <1>0 DEF Units, Residues
<1>. QED  BY <1>8, <1>10

LEMMA UnitsClosed ==
  ASSUME NEW n, IsPrime(n), NEW u \in Units(n), NEW v \in Units(n)
  PROVE  Times(n, u, v) \in Units(n)
<1>0. Positive(n) /\ AtLeastTwo(n) /\ u \in Int /\ v \in Int
  BY PrimeIsTwo, UnitsAre
<1>1. PICK w \in Units(n) : Times(n, u, w) = 1
  BY InverseExists
<1>2. Times(n, u, v) # 0
  <2>1. SUFFICES ASSUME Times(n, u, v) = 0 PROVE FALSE
    OBVIOUS
  <2>2. w \in Int
    BY <1>0, UnitsAre
  <2>3. Times(n, Times(n, w, u), v) = Times(n, w, Times(n, u, v))
    BY <1>0, <2>2, TimesAssociates
  <2>4. Times(n, w, u) = 1
    BY <1>0, <1>1, <2>2, TimesCommutes
  <2>5. Times(n, w, 0) = 0 /\ Times(n, 1, v) = v
    BY <1>0, <2>2, TimesUnits, UnitsAre
  <2>6. v # 0
    BY <1>0, UnitsAre
  <2>. QED  BY <2>1, <2>3, <2>4, <2>5, <2>6
<1>3. Times(n, u, v) \in Residues(n)
  BY <1>0, TimesType
<1>. QED  BY <1>0, <1>2, <1>3, UnitsAre

LEMMA Cancel ==
  ASSUME NEW n, IsPrime(n), NEW u \in Units(n), NEW v \in Residues(n), NEW w \in Residues(n),
         Times(n, u, v) = Times(n, u, w)
  PROVE  v = w
<1>0. Positive(n) /\ AtLeastTwo(n) /\ u \in Int /\ v \in Int /\ w \in Int
  BY PrimeIsTwo, UnitsAre
<1>1. PICK y \in Units(n) : Times(n, u, y) = 1
  BY InverseExists
<1>2. y \in Int
  BY <1>0, UnitsAre
<1>3. Times(n, y, u) = 1
  BY <1>0, <1>1, <1>2, TimesCommutes
<1>4. Times(n, Times(n, y, u), v) = Times(n, y, Times(n, u, v))
  BY <1>0, <1>2, TimesAssociates
<1>5. Times(n, Times(n, y, u), w) = Times(n, y, Times(n, u, w))
  BY <1>0, <1>2, TimesAssociates
<1>6. Times(n, 1, v) = v
  BY <1>0, TimesUnits
<1>7. Times(n, 1, w) = w
  BY <1>0, TimesUnits
<1>. QED  BY <1>3, <1>4, <1>5, <1>6, <1>7

-----------------------------------------------------------------------------
(* The units modulo a prime, and products of them.                         *)
LEMMA PowersAreUnits ==
  ASSUME NEW n, IsPrime(n), NEW u \in Units(n)
  PROVE  \A e \in Nat : Power(n, u, e) \in Units(n)
<1>. DEFINE T == {m \in Nat : Power(n, u, m) \notin Units(n)}
<1>0. AtLeastTwo(n) /\ 1 \in Units(n) /\ u \in Int
  BY PrimeIsTwo, UnitsAre
<1>1. SUFFICES ASSUME T # {} PROVE FALSE
  OBVIOUS
<1>2. PICK m \in T : \A e \in T : m <= e
  <2>1. T \in SUBSET Nat
    OBVIOUS
  <2>. HIDE DEF T
  <2>. QED  BY <1>1, <2>1, Least
<1>3. m # 0
  <2>1. Power(n, u, 0) = 1 /\ 0 \in Nat
    BY <1>0, PowerSteps
  <2>. QED  BY <1>0, <1>2, <2>1
<1>. DEFINE l == m - 1
<1>4. l \in Nat /\ l \notin T /\ m = l + 1
  BY <1>2, <1>3
<1>5. Power(n, u, l) \in Units(n)
  BY <1>4
<1>. HIDE DEF l
<1>6. Power(n, u, l + 1) = Times(n, Power(n, u, l), u)
  BY <1>0, <1>4, PowerSteps
<1>7. Times(n, Power(n, u, l), u) \in Units(n)
  BY <1>5, UnitsClosed
<1>. QED  BY <1>2, <1>4, <1>6, <1>7

TimesIn(n) == [y \in Units(n) \X Units(n) |-> Times(n, y[1], y[2])]

LEMMA UnitMonoid ==
  ASSUME NEW n, IsPrime(n)
  PROVE  /\ IsMonoid(Units(n), TimesIn(n), 1)
         /\ \A u, v \in Units(n) : TimesIn(n)[<<u, v>>] = Times(n, u, v)
<1>. DEFINE P == TimesIn(n)
            U == Units(n)
<1>0. /\ AtLeastTwo(n) /\ Positive(n) /\ 1 \in U
      /\ \A u \in U : u \in Int /\ u \in Residues(n)
  BY PrimeIsTwo, UnitsAre
<1>1. \A u, v \in U : P[<<u, v>>] = Times(n, u, v)
  BY DEF TimesIn
<1>2. \A u, v \in U : Times(n, u, v) \in U
  BY UnitsClosed
<1>3. P \in [U \X U -> U]
  BY <1>2 DEF TimesIn
<1>4. \A u \in U : Times(n, 1, u) = u
  BY <1>0, TimesUnits
<1>5. \A u, v \in U : Times(n, u, v) = Times(n, v, u)
  BY <1>0, TimesCommutes
<1>6. \A u, v, w \in U : Times(n, Times(n, u, v), w) = Times(n, u, Times(n, v, w))
  BY <1>0, TimesAssociates
<1>. HIDE DEF P, U
<1>7. \A u, v, w \in U : P[<<u, P[<<v, w>>]>>] = P[<<P[<<u, v>>], w>>]
  <2>1. ASSUME NEW u \in U, NEW v \in U, NEW w \in U
        PROVE  P[<<u, P[<<v, w>>]>>] = P[<<P[<<u, v>>], w>>]
    <3>1. P[<<v, w>>] = Times(n, v, w) /\ P[<<u, v>>] = Times(n, u, v)
      BY <1>1
    <3>2. Times(n, v, w) \in U /\ Times(n, u, v) \in U
      BY <1>2
    <3>3. /\ P[<<u, Times(n, v, w)>>] = Times(n, u, Times(n, v, w))
          /\ P[<<Times(n, u, v), w>>] = Times(n, Times(n, u, v), w)
      BY <1>1, <3>2
    <3>. QED  BY <1>6, <3>1, <3>3
  <2>. QED  BY <2>1
<1>8. IsMonoid(U, P, 1)
  BY <1>0, <1>1, <1>3, <1>4, <1>5, <1>7 DEF IsMonoid
<1>. QED  BY <1>1, <1>8 DEF P, U

ProductOf(n, c) == SumOf(TimesIn(n), 1, c)

LEMMA ProductIn ==
  ASSUME NEW n, IsPrime(n), NEW S, NEW c, IsFamily(c, S, Units(n))
  PROVE  ProductOf(n, c) \in Units(n)
  BY UnitMonoid, SumBasics DEF IsFamily, ProductOf

LEMMA ProductSplits ==
  ASSUME NEW n, IsPrime(n), NEW S, NEW c, IsFamily(c, S, Units(n)), NEW T \in SUBSET S
  PROVE  /\ ProductOf(n, c) = Times(n, ProductOf(n, Part(c, T)), ProductOf(n, Part(c, S \ T)))
         /\ IsFamily(Part(c, T), T, Units(n)) /\ IsFamily(Part(c, S \ T), S \ T, Units(n))
<1>0. IsFiniteSet(S) /\ c \in [S -> Units(n)]
  BY DEF IsFamily
<1>1. IsMonoid(Units(n), TimesIn(n), 1)
  BY UnitMonoid
<1>2. SumOf(TimesIn(n), 1, c) = TimesIn(n)[<<SumOf(TimesIn(n), 1, Part(c, T)), SumOf(TimesIn(n), 1, Part(c, S \ T))>>]
  BY <1>0, <1>1, SumSplit
<1>3. IsFamily(Part(c, T), T, Units(n)) /\ IsFamily(Part(c, S \ T), S \ T, Units(n))
  BY <1>0, FS_Subset DEF IsFamily, Part
<1>4. ProductOf(n, Part(c, T)) \in Units(n)
  BY <1>3, ProductIn
<1>5. ProductOf(n, Part(c, S \ T)) \in Units(n)
  BY <1>3, ProductIn
<1>. QED  BY <1>2, <1>3, <1>4, <1>5, UnitMonoid DEF ProductOf

LEMMA ProductRenumbered ==
  ASSUME NEW n, IsPrime(n), NEW S, NEW c, IsFamily(c, S, Units(n)),
         NEW T, NEW b, IsFamily(b, T, Units(n)), NEW p, Renumbers(p, T, S),
         \A t \in T : b[t] = c[p[t]]
  PROVE  ProductOf(n, b) = ProductOf(n, c)
<1>1. IsMonoid(Units(n), TimesIn(n), 1)
  BY UnitMonoid
<1>. QED  BY <1>1, SumReindex DEF IsFamily, ProductOf

LEMMA ProductOfProducts ==
  ASSUME NEW n, IsPrime(n), NEW S, NEW b, IsFamily(b, S, Units(n)),
         NEW c, IsFamily(c, S, Units(n)), NEW h, IsFamily(h, S, Units(n)),
         \A s \in S : h[s] = Times(n, b[s], c[s])
  PROVE  ProductOf(n, h) = Times(n, ProductOf(n, b), ProductOf(n, c))
<1>1. /\ IsMonoid(Units(n), TimesIn(n), 1)
      /\ \A u, v \in Units(n) : TimesIn(n)[<<u, v>>] = Times(n, u, v)
  BY UnitMonoid
<1>2. \A s \in S : h[s] = TimesIn(n)[<<b[s], c[s]>>]
  BY <1>1 DEF IsFamily
<1>3. SumOf(TimesIn(n), 1, h) = TimesIn(n)[<<SumOf(TimesIn(n), 1, b), SumOf(TimesIn(n), 1, c)>>]
  BY <1>1, <1>2, SumOfSums DEF IsFamily
<1>4. ProductOf(n, b) \in Units(n)
  BY ProductIn
<1>5. ProductOf(n, c) \in Units(n)
  BY ProductIn
<1>. QED  BY <1>1, <1>3, <1>4, <1>5 DEF ProductOf

LEMMA ConstantProduct ==
  ASSUME NEW n, IsPrime(n), NEW u \in Units(n), NEW S, IsFiniteSet(S)
  PROVE  /\ ProductOf(n, [s \in S |-> u]) = Power(n, u, Cardinality(S))
         /\ IsFamily([s \in S |-> u], S, Units(n))
<1>. DEFINE c == [s \in S |-> u]
            X == {t \in SUBSET S : SumOf(TimesIn(n), 1, Part(c, t)) = Power(n, u, Cardinality(t))}
<1>0. AtLeastTwo(n) /\ Positive(n) /\ u \in Int
  BY PrimeIsTwo, UnitsAre
<1>1. c \in [S -> Units(n)] /\ \A s \in S : c[s] = u
  OBVIOUS
<1>2. IsMonoid(Units(n), TimesIn(n), 1)
  BY UnitMonoid
<1>. HIDE DEF c
<1>3. {} \in X
  <2>1. SumOf(TimesIn(n), 1, Part(c, {})) = 1
    BY <1>1, <1>2, SumOneMore
  <2>2. Cardinality({}) = 0 /\ Power(n, u, 0) = 1
    BY <1>0, FS_EmptySet, PowerSteps, 0 \in Nat
  <2>. QED  BY <2>1, <2>2
<1>4. ASSUME NEW t \in X, NEW s \in S \ t PROVE t \cup {s} \in X
  <2>1. SumOf(TimesIn(n), 1, Part(c, t \cup {s})) = TimesIn(n)[<<c[s], SumOf(TimesIn(n), 1, Part(c, t))>>]
    BY <1>1, <1>2, SumOneMore
  <2>2. IsFiniteSet(t) /\ Cardinality(t) \in Nat /\ Cardinality(t \cup {s}) = Cardinality(t) + 1
    BY FS_Subset, FS_CardinalityType, FS_AddElement
  <2>. DEFINE m == Cardinality(t)
  <2>. HIDE DEF m
  <2>3. m \in Nat
    BY <2>2 DEF m
  <2>4. Power(n, u, m + 1) = Times(n, Power(n, u, m), u) /\ Power(n, u, m) \in Int
    BY <1>0, <2>3, PowerSteps
  <2>5. Power(n, u, m) \in Units(n)
    BY <2>3, PowersAreUnits
  <2>6. TimesIn(n)[<<u, Power(n, u, m)>>] = Times(n, u, Power(n, u, m))
    BY <2>5, UnitMonoid
  <2>7. Times(n, u, Power(n, u, m)) = Times(n, Power(n, u, m), u)
    BY <1>0, <2>4, TimesCommutes
  <2>8. t \cup {s} \in SUBSET S /\ SumOf(TimesIn(n), 1, Part(c, t)) = Power(n, u, m) /\ c[s] = u
    BY <1>1 DEF m
  <2>. QED  BY <2>1, <2>2, <2>4, <2>6, <2>7, <2>8 DEF m
<1>5. S \in X
  <2>1. X \in SUBSET SUBSET S
    OBVIOUS
  <2>. HIDE DEF X
  <2>. QED  BY <1>3, <1>4, <2>1, Grown
<1>6. Part(c, S) = c
  BY <1>1, PartOf
<1>. QED  BY <1>1, <1>5, <1>6 DEF c, ProductOf, IsFamily

\* The product of the elements of S.
Members(S) == [s \in S |-> s]

LEMMA UnitsFinite ==
  ASSUME NEW n, IsPrime(n)
  PROVE  /\ IsFiniteSet(Units(n)) /\ Cardinality(Units(n)) = n - 1 /\ n - 1 \in Nat /\ n \in Nat
         /\ \A S \in SUBSET Units(n) : IsFamily(Members(S), S, Units(n)) /\ IsFiniteSet(S)
<1>1. n \in Nat /\ n >= 2 /\ 1 \in Int /\ n - 1 \in Int
  BY DEF IsPrime
<1>2. IsFiniteSet(Units(n)) /\ Cardinality(Units(n)) = n - 1
  BY <1>1, FS_Interval DEF Units
<1>3. \A S \in SUBSET Units(n) : IsFamily(Members(S), S, Units(n)) /\ IsFiniteSet(S)
  BY <1>2, FS_Subset DEF IsFamily, Members
<1>. QED  BY <1>1, <1>2, <1>3

LEMMA Fermat ==
  ASSUME NEW n, IsPrime(n), NEW u \in Units(n)
  PROVE  Power(n, u, n - 1) = 1
<1>. DEFINE U == Units(n)
            c == [s \in U |-> u]
            m == Members(U)
            h == [s \in U |-> Times(n, u, s)]
<1>0. AtLeastTwo(n) /\ Positive(n) /\ \A s \in U : s \in Int /\ s \in Residues(n)
  BY PrimeIsTwo, UnitsAre
<1>1. IsFamily(m, U, U) /\ IsFiniteSet(U) /\ Cardinality(U) = n - 1
  BY UnitsFinite
<1>2. IsFamily(c, U, U) /\ ProductOf(n, c) = Power(n, u, n - 1)
  BY <1>1, ConstantProduct
<1>3. IsFamily(h, U, U)
  BY <1>1, UnitsClosed DEF IsFamily
<1>4. \A s \in U : h[s] = Times(n, c[s], m[s]) /\ h[s] = m[h[s]]
  BY UnitsClosed DEF Members
<1>5. Renumbers(h, U, U)
  <2>1. h \in [U -> U]
    BY <1>3 DEF IsFamily
  <2>2. \A s, t \in U : h[s] = h[t] => s = t
    BY <1>0, Cancel
  <2>3. ASSUME NEW w \in U PROVE \E s \in U : h[s] = w
    <3>1. PICK v \in U : Times(n, u, v) = 1
      BY InverseExists
    <3>2. Times(n, v, w) \in U /\ Times(n, u, Times(n, v, w)) = Times(n, Times(n, u, v), w)
      BY <1>0, UnitsClosed, TimesAssociates
    <3>3. Times(n, 1, w) = w
      BY <1>0, TimesUnits
    <3>. QED  BY <3>1, <3>2, <3>3
  <2>. QED  BY <2>1, <2>2, <2>3 DEF Renumbers
<1>. HIDE DEF U, c, m, h
<1>6. ProductOf(n, h) = Times(n, ProductOf(n, c), ProductOf(n, m))
  BY <1>1, <1>2, <1>3, <1>4, ProductOfProducts DEF U
<1>7. ProductOf(n, h) = ProductOf(n, m)
  BY <1>1, <1>3, <1>4, <1>5, ProductRenumbered DEF U
<1>8. ProductOf(n, c) \in U /\ ProductOf(n, m) \in U
  BY <1>1, <1>2, ProductIn DEF U
<1>9. ProductOf(n, c) = 1
  <2>. DEFINE y == ProductOf(n, c)
              z == ProductOf(n, m)
  <2>1. y \in Units(n) /\ z \in Units(n) /\ z = Times(n, y, z)
    BY <1>6, <1>7, <1>8 DEF U
  <2>. HIDE DEF y, z
  <2>2. y \in Int /\ z \in Int /\ y \in Residues(n) /\ 1 \in Residues(n) /\ z \in Residues(n)
    BY <1>0, <2>1, UnitsAre
  <2>3. Times(n, z, y) = Times(n, y, z) /\ Times(n, z, 1) = z
    BY <1>0, <2>2, TimesCommutes, TimesUnits
  <2>4. y = 1
    BY <2>1, <2>2, <2>3, Cancel
  <2>. QED  BY <2>4 DEF y
<1>. QED  BY <1>2, <1>9

-----------------------------------------------------------------------------
(* Squares modulo a prime.                                                 *)

\* Elements paired by a product multiply to a power of it.
LEMMA PairsMultiply ==
  ASSUME NEW n, IsPrime(n), NEW S \in SUBSET Units(n), NEW p \in [S -> S], NEW u \in Units(n),
         \A y \in S : p[p[y]] = y /\ p[y] # y /\ Times(n, y, p[y]) = u
  PROVE  \E m \in Nat : Cardinality(S) = 2 * m /\ ProductOf(n, Members(S)) = Power(n, u, m)
<1>. DEFINE L == {y \in S : y < p[y]}
            M == S \ L
            l == [y \in L |-> p[y]]
            c == [y \in L |-> u]
<1>0. \A y \in Units(n) : y \in Int
  BY PrimeIsTwo, UnitsAre
<1>1. L \in SUBSET S /\ \A y \in S : p[y] \in S /\ y \in Int /\ p[y] \in Int
  BY <1>0
<1>2. \A y \in L : p[y] \in M
  <2>1. ASSUME NEW y \in L, p[y] \in L PROVE FALSE
    <3>1. y < p[y] /\ p[y] < p[p[y]] /\ p[p[y]] = y
      BY <2>1
    <3>. QED  BY <1>1, <3>1
  <2>. QED  BY <1>1, <2>1
<1>3. \A y \in M : p[y] \in L /\ p[p[y]] = y
  <2>1. ASSUME NEW y \in M PROVE p[y] < p[p[y]] /\ p[p[y]] = y /\ p[y] \in S
    <3>1. ~(y < p[y]) /\ p[y] # y /\ p[p[y]] = y /\ p[y] \in Int /\ y \in Int /\ p[y] \in S
      BY <1>1
    <3>. QED  BY <3>1
  <2>. QED  BY <2>1
<1>4. Renumbers(l, L, M)
  <2>1. l \in [L -> M]
    BY <1>2
  <2>2. \A y, z \in L : l[y] = l[z] => y = z
    <3>1. ASSUME NEW y \in L, NEW z \in L, p[y] = p[z] PROVE y = z
      <4>1. y = p[p[y]] /\ z = p[p[z]]
        BY <1>1
      <4>. QED  BY <3>1, <4>1
    <3>. QED  BY <3>1
  <2>3. \A z \in M : \E y \in L : l[y] = z
    BY <1>3
  <2>. QED  BY <2>1, <2>2, <2>3 DEF Renumbers
<1>5. IsFiniteSet(S) /\ IsFiniteSet(L) /\ IsFiniteSet(M)
  BY UnitsFinite, FS_Subset
<1>6. IsFamily(l, L, Units(n)) /\ IsFamily(c, L, Units(n)) /\ ProductOf(n, c) = Power(n, u, Cardinality(L))
  <2>1. IsFamily(c, L, Units(n)) /\ ProductOf(n, c) = Power(n, u, Cardinality(L))
    BY <1>5, ConstantProduct
  <2>. QED  BY <1>1, <1>5, <2>1 DEF IsFamily
<1>7. /\ IsFamily(Members(L), L, Units(n)) /\ IsFamily(Members(M), M, Units(n))
      /\ IsFamily(Members(S), S, Units(n))
  <2>1. L \in SUBSET Units(n) /\ M \in SUBSET Units(n)
    BY <1>1
  <2>. HIDE DEF L, M
  <2>. QED  BY <2>1, UnitsFinite
<1>8. \A y \in L : l[y] = Members(M)[l[y]] /\ c[y] = Times(n, Members(L)[y], l[y])
  BY <1>1, <1>2 DEF Members
<1>9. Part(Members(S), L) = Members(L) /\ Part(Members(S), S \ L) = Members(M)
  BY <1>1 DEF Part, Members
<1>10. Cardinality(S) = 2 * Cardinality(L) /\ Cardinality(L) \in Nat
  <2>1. l \in [L -> M] /\ (\A y, z \in L : l[y] = l[z] => y = z) /\ \A z \in M : \E y \in L : l[y] = z
    BY <1>4 DEF Renumbers
  <2>2. L \cup M = S /\ L \cap M = {}
    BY <1>1
  <2>. HIDE DEF L, M, l
  <2>3. l \in Injection(L, M)
    BY <2>1 DEF Injection, IsInjective
  <2>4. l \in Surjection(L, M)
    BY <2>1 DEF Surjection
  <2>5. ExistsBijection(L, M)
    BY <2>3, <2>4 DEF Bijection, ExistsBijection
  <2>6. Cardinality(M) = Cardinality(L)
    BY <1>5, <2>5, FS_Bijection
  <2>7. Cardinality(L \cup M) = Cardinality(L) + Cardinality(M) - Cardinality(L \cap M)
    BY <1>5, FS_Union
  <2>8. Cardinality(L) \in Nat /\ Cardinality({}) = 0
    BY <1>5, FS_CardinalityType, FS_EmptySet
  <2>9. Cardinality(L \cup M) = Cardinality(S) /\ Cardinality(L \cap M) = 0
    BY <2>2, <2>8
  <2>. QED  BY <2>6, <2>7, <2>8, <2>9
<1>. HIDE DEF l, c
<1>11. ProductOf(n, l) = ProductOf(n, Members(M))
  <2>. HIDE DEF L, M
  <2>. QED  BY <1>4, <1>6, <1>7, <1>8, ProductRenumbered
<1>12. ProductOf(n, c) = Times(n, ProductOf(n, Members(L)), ProductOf(n, l))
  <2>. HIDE DEF L, M
  <2>. QED  BY <1>6, <1>7, <1>8, ProductOfProducts
<1>13. ProductOf(n, Members(S)) = Times(n, ProductOf(n, Members(L)), ProductOf(n, Members(M)))
  <2>1. L \in SUBSET S
    BY <1>1
  <2>. HIDE DEF L
  <2>2. ProductOf(n, Members(S))
        = Times(n, ProductOf(n, Part(Members(S), L)), ProductOf(n, Part(Members(S), S \ L)))
    BY <1>7, <2>1, ProductSplits
  <2>. QED  BY <1>9, <2>2
<1>14. ProductOf(n, Members(S)) = Power(n, u, Cardinality(L))
  BY <1>6, <1>11, <1>12, <1>13
<1>. HIDE DEF L
<1>. QED  BY <1>10, <1>14

\* Those that are not square roots of u come in pairs with the product u.
LEMMA NonRootsMultiply ==
  ASSUME NEW n, IsPrime(n), NEW u \in Units(n), NEW S, S = {y \in Units(n) : Times(n, y, y) # u}
  PROVE  \E m \in Nat : Cardinality(S) = 2 * m /\ ProductOf(n, Members(S)) = Power(n, u, m)
<1>. DEFINE Other(y) == CHOOSE v \in Units(n) : Times(n, y, v) = u
            p == [y \in S |-> Other(y)]
<1>0. /\ AtLeastTwo(n) /\ Positive(n)
      /\ \A y \in Units(n) : y \in Int /\ y \in Residues(n)
  BY PrimeIsTwo, UnitsAre
<1>1. ASSUME NEW y \in Units(n) PROVE Other(y) \in Units(n) /\ Times(n, y, Other(y)) = u
  <2>1. PICK w \in Units(n) : Times(n, y, w) = 1
    BY InverseExists
  <2>2. Times(n, w, u) \in Units(n)
    BY UnitsClosed
  <2>3. Times(n, y, Times(n, w, u)) = Times(n, Times(n, y, w), u)
    BY <1>0, TimesAssociates
  <2>4. Times(n, 1, u) = u
    BY <1>0, TimesUnits
  <2>5. \E v \in Units(n) : Times(n, y, v) = u
    BY <2>1, <2>2, <2>3, <2>4
  <2>. QED  BY <2>5, Zenon
<1>. HIDE DEF Other
<1>2. \A y \in Units(n) : Other(Other(y)) = y
  <2>1. ASSUME NEW y \in Units(n) PROVE Other(Other(y)) = y
    <3>. DEFINE z == Other(y)
    <3>1. z \in Units(n) /\ Times(n, y, z) = u
      BY <1>1
    <3>. HIDE DEF z
    <3>2. Other(z) \in Units(n) /\ Times(n, z, Other(z)) = u
      BY <1>1, <3>1
    <3>3. Times(n, z, y) = u
      BY <1>0, <3>1, TimesCommutes
    <3>4. Other(z) = y
      BY <1>0, <3>1, <3>2, <3>3, Cancel
    <3>. QED  BY <3>4 DEF z
  <2>. QED  BY <2>1
<1>3. S \in SUBSET Units(n) /\ \A y \in S : Times(n, y, y) # u
  OBVIOUS
<1>4. \A y \in S : Other(y) # y
  BY <1>1, <1>3
<1>5. \A y \in S : Other(y) \in S
  <2>1. ASSUME NEW y \in S, Times(n, Other(y), Other(y)) = u PROVE FALSE
    <3>. DEFINE z == Other(y)
    <3>1. z \in Units(n) /\ Other(z) = y /\ z # y
      BY <1>1, <1>2, <1>3, <1>4
    <3>2. Times(n, z, z) = u
      BY <2>1
    <3>. HIDE DEF z
    <3>3. Times(n, z, Other(z)) = u
      BY <1>1, <3>1
    <3>4. z = y
      BY <1>0, <1>3, <3>1, <3>2, <3>3, Cancel
    <3>. QED  BY <3>1, <3>4
  <2>. QED  BY <1>1, <2>1
<1>6. p \in [S -> S] /\ \A y \in S : p[y] = Other(y) /\ p[y] \in S
  BY <1>5
<1>7. \A y \in S : p[p[y]] = y /\ p[y] # y /\ Times(n, y, p[y]) = u
  BY <1>1, <1>2, <1>3, <1>4, <1>6
<1>. HIDE DEF p
<1>. QED  BY <1>3, <1>6, <1>7, PairsMultiply

LEMMA OddPrime ==
  ASSUME NEW n, IsPrime(n), n >= 3
  PROVE  /\ n \in Nat /\ (n - 1) \div 2 \in Nat /\ n - 1 = 2 * ((n - 1) \div 2) /\ n % 2 = 1
         /\ (n - 1) \div 2 > 0
<1>1. n \in Nat /\ n % 2 # 0
  BY DEF IsPrime
<1>. QED  BY <1>1, Z3

LEMMA MinusOne ==
  ASSUME NEW n, AtLeastTwo(n)
  PROVE  /\ Times(n, n - 1, n - 1) = 1 /\ n - 1 \in Int
         /\ \A y \in Int : Times(n, n - 1, y) = (-y) % n
<1>0. n \in Nat /\ n >= 2 /\ Positive(n) /\ 1 \in Residues(n)
  BY TwoIsPositive DEF AtLeastTwo
<1>1. (n - 1) * (n - 1) = 1 + n * (n - 2)
  BY <1>0, Z3
<1>2. (n - 1) * (n - 1) \in Int /\ n - 2 \in Int
  BY <1>0
<1>3. ((n - 1) * (n - 1)) % n = 1 % n
  BY <1>0, <1>1, <1>2, SameRemainder
<1>4. 1 % n = 1
  BY <1>0, RemainderType
<1>5. ASSUME NEW y \in Int PROVE Times(n, n - 1, y) = (-y) % n
  <2>1. (n - 1) * y = -y + n * y /\ (n - 1) * y \in Int /\ -y \in Int
    BY <1>0, Z3
  <2>. QED  BY <1>0, <2>1, SameRemainder DEF Times
<1>. QED  BY <1>0, <1>3, <1>4, <1>5 DEF Times

\* Modulo a prime 1 has no square roots but 1 and -1.
LEMMA RootsOfOne ==
  ASSUME NEW n, IsPrime(n), NEW y \in Units(n), Times(n, y, y) = 1
  PROVE  y = 1 \/ y = n - 1
<1>0. n \in Nat /\ n >= 2 /\ Positive(n) /\ y \in Nat /\ y >= 1 /\ y <= n - 1
  BY PrimeIsTwo DEF IsPrime, Units
<1>1. SUFFICES ASSUME y # 1, y # n - 1 PROVE FALSE
  OBVIOUS
<1>2. y - 1 \in Units(n) /\ y + 1 \in Units(n)
  BY <1>0, <1>1 DEF Units
<1>3. Times(n, y - 1, y + 1) \in Units(n)
  BY <1>2, UnitsClosed
<1>4. (y - 1) * (y + 1) = y * y - 1 /\ y * y \in Int
  BY <1>0, Z3
<1>5. (y * y - 1) % n = (((y * y) % n) - 1) % n
  BY <1>0, <1>4, RemainderLaws
<1>6. (y * y) % n = 1
  BY DEF Times
<1>7. (1 - 1) % n = 0
  <2>1. 1 - 1 = 0 /\ 0 \in Residues(n)
    BY <1>0 DEF Residues
  <2>. QED  BY <1>0, <2>1, RemainderType
<1>8. Times(n, y - 1, y + 1) = 0
  BY <1>4, <1>5, <1>6, <1>7 DEF Times
<1>. QED  BY <1>3, <1>8 DEF Units

\* Wilson's theorem.
LEMMA Wilson ==
  ASSUME NEW n, IsPrime(n), n >= 3
  PROVE  ProductOf(n, Members(Units(n))) = n - 1
<1>. DEFINE S == {y \in Units(n) : Times(n, y, y) # 1}
            U == Units(n)
            T == {1, n - 1}
<1>0. /\ AtLeastTwo(n) /\ Positive(n) /\ 1 \in U /\ n - 1 \in U /\ 1 \in Residues(n)
      /\ n - 1 \in Int /\ n - 1 \in Residues(n) /\ n \in Nat
  BY PrimeIsTwo, UnitsAre, TwoIsPositive DEF IsPrime
<1>1. Times(n, 1, 1) = 1 /\ Times(n, n - 1, n - 1) = 1
  BY <1>0, MinusOne, TimesUnits
<1>2. S \in SUBSET U /\ U \ S = T
  <2>1. \A y \in U : Times(n, y, y) = 1 <=> y \in T
    BY <1>1, RootsOfOne
  <2>. QED  BY <1>0, <2>1
<1>3. ProductOf(n, Members(S)) = 1
  <2>1. PICK m \in Nat : Cardinality(S) = 2 * m /\ ProductOf(n, Members(S)) = Power(n, 1, m)
    BY <1>0, NonRootsMultiply
  <2>. QED  BY <1>0, <2>1, PowerOfOne
<1>. HIDE DEF S
<1>4. IsFamily(Members(U), U, U) /\ IsFamily(Members(T), T, U)
  <2>1. T \in SUBSET U
    BY <1>0
  <2>. HIDE DEF T
  <2>. QED  BY <2>1, UnitsFinite
<1>5. Part(Members(U), S) = Members(S) /\ Part(Members(U), U \ S) = Members(T)
  BY <1>2 DEF Part, Members
<1>6. ProductOf(n, Members(U)) = Times(n, ProductOf(n, Members(S)), ProductOf(n, Members(T)))
  <2>1. ProductOf(n, Members(U)) = Times(n, ProductOf(n, Part(Members(U), S)), ProductOf(n, Part(Members(U), U \ S)))
    BY <1>2, <1>4, ProductSplits
  <2>. QED  BY <1>5, <2>1
<1>7. ProductOf(n, Members(T)) = n - 1
  <2>. DEFINE c == Members(T)
  <2>1. {1} \in SUBSET T /\ T \ {1} = {n - 1} /\ c[1] = 1 /\ c[n - 1] = n - 1
    BY <1>0 DEF Members
  <2>. HIDE DEF c, T
  <2>2. ProductOf(n, c) = Times(n, ProductOf(n, Part(c, {1})), ProductOf(n, Part(c, {n - 1})))
    BY <1>4, <2>1, ProductSplits DEF c
  <2>3. IsMonoid(U, TimesIn(n), 1)
    BY UnitMonoid
  <2>4. ProductOf(n, Part(c, {1})) = 1
    BY <1>0, <2>1, <2>3, SumOfOne DEF ProductOf
  <2>5. ProductOf(n, Part(c, {n - 1})) = n - 1
    <3>. DEFINE l == n - 1
    <3>1. c[l] = l /\ c[l] \in U
      BY <1>0, <2>1
    <3>. HIDE DEF l, U
    <3>2. SumOf(TimesIn(n), 1, Part(c, {l})) = c[l]
      BY <2>3, <3>1, SumOfOne
    <3>. QED  BY <3>1, <3>2 DEF ProductOf, l
  <2>6. Times(n, 1, n - 1) = n - 1
    BY <1>0, TimesUnits
  <2>. QED  BY <2>2, <2>4, <2>5, <2>6 DEF c
<1>8. Times(n, 1, n - 1) = n - 1
  BY <1>0, TimesUnits
<1>. QED  BY <1>3, <1>6, <1>7, <1>8

IsSquare(n, u) == \E y \in Units(n) : Times(n, y, y) = u

\* Euler's criterion.
LEMMA Euler ==
  ASSUME NEW n, IsPrime(n), n >= 3, NEW u \in Units(n)
  PROVE  /\ IsSquare(n, u) => Power(n, u, (n - 1) \div 2) = 1
         /\ ~IsSquare(n, u) => Power(n, u, (n - 1) \div 2) = n - 1
<1>. DEFINE e == (n - 1) \div 2
<1>0. e \in Nat /\ n - 1 = 2 * e /\ AtLeastTwo(n)
  BY OddPrime, PrimeIsTwo
<1>. HIDE DEF e
<1>1. ASSUME NEW y \in Units(n), Times(n, y, y) = u PROVE Power(n, u, e) = 1
  <2>1. y \in Int
    BY <1>0, UnitsAre
  <2>2. Power(n, Times(n, y, y), e) = Power(n, y, 2 * e)
    BY <1>0, <2>1, PowerOfDouble
  <2>3. Power(n, y, n - 1) = 1
    BY Fermat
  <2>. QED  BY <1>0, <1>1, <2>2, <2>3
<1>2. ASSUME ~IsSquare(n, u) PROVE Power(n, u, e) = n - 1
  <2>1. Units(n) = {y \in Units(n) : Times(n, y, y) # u}
    BY <1>2 DEF IsSquare
  <2>2. PICK m \in Nat : Cardinality(Units(n)) = 2 * m /\ ProductOf(n, Members(Units(n))) = Power(n, u, m)
    BY <2>1, NonRootsMultiply
  <2>3. Cardinality(Units(n)) = n - 1
    BY UnitsFinite
  <2>4. m = e
    BY <1>0, <2>2, <2>3
  <2>. QED  BY <2>2, <2>4, Wilson
<1>. QED  BY <1>1, <1>2 DEF e, IsSquare

LEMMA NonResidueExists ==
  ASSUME NEW n, IsPrime(n), n >= 3
  PROVE  /\ LeastNonResidue(n) \in Units(n)
         /\ Power(n, LeastNonResidue(n), (n - 1) \div 2) = n - 1
<1>. DEFINE U == Units(n)
            p == [y \in U |-> Times(n, y, y)]
<1>0. /\ AtLeastTwo(n) /\ Positive(n) /\ 1 \in U /\ n - 1 \in U /\ n \in Nat
      /\ \A u \in U : u \in Nat
  BY PrimeIsTwo, UnitsAre DEF IsPrime
<1>1. \E u \in U : ~IsSquare(n, u)
  <2>1. SUFFICES ASSUME \A u \in U : IsSquare(n, u) PROVE FALSE
    OBVIOUS
  <2>2. p \in [U -> U]
    BY UnitsClosed
  <2>3. \A u \in U : \E y \in U : p[y] = u
    BY <2>1 DEF IsSquare
  <2>4. p[1] = 1 /\ p[n - 1] = 1
    BY <1>0, MinusOne, TimesUnits, TwoIsPositive
  <2>. HIDE DEF p, U
  <2>5. p \in Surjection(U, U)
    BY <2>2, <2>3 DEF Surjection
  <2>6. IsFiniteSet(U)
    BY UnitsFinite DEF U
  <2>7. p \in Injection(U, U)
    BY <2>5, <2>6, FS_SurjSameCardinalityImpliesInj
  <2>8. 1 = n - 1
    BY <1>0, <2>4, <2>7 DEF Injection, IsInjective
  <2>. QED  BY <1>0, <2>8
<1>2. PICK u \in U : ~IsSquare(n, u)
  BY <1>1
<1>3. NonResidue(n, u)
  BY <1>2, Euler DEF NonResidue, pow
<1>4. u # 1
  <2>1. Times(n, 1, 1) = 1
    BY <1>0, TimesUnits, TwoIsPositive
  <2>. QED  BY <1>0, <1>2, <2>1 DEF IsSquare
<1>. DEFINE T == {v \in 2..(n - 1) : NonResidue(n, v)}
<1>5. u \in T
  BY <1>3, <1>4 DEF Units
<1>6. PICK z \in T : \A y \in T : z <= y
  <2>1. T \in SUBSET Nat /\ T # {}
    BY <1>5
  <2>. HIDE DEF T
  <2>. QED  BY <2>1, Least
<1>7. z \in 2..(n - 1) /\ NonResidue(n, z) /\ \A y \in 2..(z - 1) : ~NonResidue(n, y)
  <2>1. z \in 2..(n - 1) /\ NonResidue(n, z)
    BY <1>6
  <2>2. ASSUME NEW y \in 2..(z - 1), NonResidue(n, y) PROVE FALSE
    <3>1. y \in T /\ y < z
      BY <1>0, <2>1, <2>2
    <3>. QED  BY <1>0, <1>6, <2>1, <3>1
  <2>. QED  BY <2>1, <2>2
<1>8. /\ LeastNonResidue(n) \in 2..(n - 1) /\ NonResidue(n, LeastNonResidue(n))
  BY <1>7, Zenon DEF LeastNonResidue
<1>. QED  BY <1>0, <1>8 DEF NonResidue, pow, Units

-----------------------------------------------------------------------------
(* Powers of two.                                                          *)
LEMMA TwoPowers ==
  ASSUME NEW n \in Nat
  PROVE  /\ 2^0 = 1 /\ 2^1 = 2 /\ 2^n \in Nat /\ 2^n > 0 /\ 2^(n + 1) = 2 * 2^n
         /\ n > 0 => 2^n = 2 * 2^(n - 1) /\ 2^n % 2 = 0
<1>1. 2^0 = 1
  <2>1. 1..0 = {} /\ SUBSET {} = {{}}
    OBVIOUS
  <2>2. Cardinality({{}}) = 1
    BY FS_Singleton
  <2>3. Cardinality(SUBSET (1..0)) = 2^0
    BY Subsets, 0 \in Nat
  <2>. QED  BY <2>1, <2>2, <2>3
<1>2. 2^1 = 2
  <2>1. 2^(0 + 1) = 2 * 2^0 /\ 0 + 1 = 1
    BY PowerDoubles, 0 \in Nat
  <2>. QED  BY <1>1, <2>1
<1>3. 2^n \in Nat /\ 2^n > 0 /\ 2^(n + 1) = 2 * 2^n
  BY PowerType, PowerDoubles
<1>4. ASSUME n > 0 PROVE 2^n = 2 * 2^(n - 1) /\ 2^n % 2 = 0
  <2>1. n - 1 \in Nat /\ (n - 1) + 1 = n
    BY <1>4
  <2>2. 2^((n - 1) + 1) = 2 * 2^(n - 1) /\ 2^(n - 1) \in Nat
    BY <2>1, PowerType, PowerDoubles
  <2>. DEFINE l == 2^(n - 1)
  <2>3. 2^n = 2 * l /\ l \in Nat
    BY <2>1, <2>2
  <2>. HIDE DEF l
  <2>4. (2 * l) % 2 = 0
    BY <2>3, Z3
  <2>. QED  BY <2>3, <2>4 DEF l
<1>. QED  BY <1>1, <1>2, <1>3, <1>4

LEMMA TwoPowerExceeds ==
  ASSUME NEW n \in Nat
  PROVE  2^n > n
<1>. DEFINE T == {m \in Nat : 2^m <= m}
<1>0. 2^n \in Nat
  BY TwoPowers
<1>1. SUFFICES ASSUME T # {} PROVE FALSE
  <2>1. n \notin T => 2^n > n
    BY <1>0
  <2>. HIDE DEF T
  <2>. QED  BY <2>1
<1>2. PICK m \in T : \A e \in T : m <= e
  <2>1. T \in SUBSET Nat
    OBVIOUS
  <2>. HIDE DEF T
  <2>. QED  BY <1>1, <2>1, Least
<1>3. m > 0 /\ m \in Nat
  BY <1>2, TwoPowers
<1>4. m - 1 \in Nat /\ m - 1 \notin T
  BY <1>2, <1>3
<1>5. 2^m = 2 * 2^(m - 1) /\ 2^(m - 1) \in Nat
  BY <1>3, <1>4, TwoPowers
<1>6. 2^(m - 1) > m - 1 /\ 2^m <= m
  BY <1>2, <1>4, <1>5
<1>. QED  BY <1>3, <1>5, <1>6

LEMMA TwoPowerOfSum ==
  ASSUME NEW i \in Nat, NEW j \in Nat
  PROVE  2^(i + j) = 2^i * 2^j
<1>. DEFINE T == {m \in Nat : 2^(i + m) # 2^i * 2^m}
<1>1. SUFFICES ASSUME T # {} PROVE FALSE
  OBVIOUS
<1>2. PICK m \in T : \A e \in T : m <= e
  <2>1. T \in SUBSET Nat
    OBVIOUS
  <2>. HIDE DEF T
  <2>. QED  BY <1>1, <2>1, Least
<1>3. m > 0 /\ m \in Nat
  <2>1. 2^0 = 1 /\ 2^i \in Nat /\ i + 0 = i
    BY TwoPowers
  <2>. DEFINE b == 2^i
  <2>. HIDE DEF b
  <2>2. b * 1 = b
    BY <2>1 DEF b
  <2>3. 0 \notin T
    BY <2>1, <2>2 DEF b
  <2>4. m \in Nat
    BY <1>2
  <2>. HIDE DEF T
  <2>. QED  BY <1>2, <2>3, <2>4
<1>. DEFINE l == m - 1
<1>4. l \in Nat /\ l \notin T /\ m = l + 1 /\ i + m = (i + l) + 1 /\ i + l \in Nat
  BY <1>2, <1>3
<1>5. 2^(i + l) = 2^i * 2^l
  BY <1>4
<1>. HIDE DEF l
<1>6. 2^(l + 1) = 2 * 2^l /\ 2^((i + l) + 1) = 2 * 2^(i + l)
  BY <1>4, TwoPowers
<1>7. 2^i \in Nat /\ 2^l \in Nat
  BY <1>4, TwoPowers
<1>8. ASSUME NEW b \in Nat, NEW c \in Nat PROVE 2 * (b * c) = b * (2 * c)
  BY Z3
<1>9. 2 * (2^i * 2^l) = 2^i * (2 * 2^l)
  BY <1>7, <1>8
<1>. QED  BY <1>2, <1>4, <1>5, <1>6, <1>9

-----------------------------------------------------------------------------
(* The odd part of n - 1, and the test of Miller and Rabin.                *)
LEMMA OddPartIs ==
  ASSUME NEW n, AtLeastTwo(n)
  PROVE  /\ TwoExponent(n) \in Nat /\ OddPart(n) \in Nat /\ OddPart(n) % 2 = 1
         /\ n - 1 = OddPart(n) * 2^TwoExponent(n)
         /\ n % 2 = 1 => TwoExponent(n) >= 1
<1>0. n \in Nat /\ n >= 2 /\ n - 1 \in Nat /\ n - 1 > 0
  BY DEF AtLeastTwo
<1>. DEFINE m == n - 1
            T == {s \in Nat : m % 2^s # 0}
<1>1. n \in T
  <2>1. 2^n > n /\ 2^n \in Nat
    BY <1>0, TwoPowerExceeds, TwoPowers
  <2>. DEFINE l == 2^n
  <2>. HIDE DEF l
  <2>2. m % l = m
    BY <1>0, <2>1, m = l * 0 + m, DivisionIs DEF l
  <2>. QED  BY <1>0, <2>2 DEF l
<1>2. PICK e \in T : \A s \in T : e <= s
  <2>1. T \in SUBSET Nat /\ T # {}
    BY <1>1
  <2>. HIDE DEF T
  <2>. QED  BY <2>1, Least
<1>3. e \in Nat /\ e > 0 /\ e <= n
  <2>1. m % 1 = 0
    BY <1>0, m = 1 * m + 0, DivisionIs
  <2>2. 2^0 = 1
    BY TwoPowers
  <2>3. 0 \notin T
    BY <2>1, <2>2
  <2>4. e \in Nat
    BY <1>2
  <2>. HIDE DEF T
  <2>5. e <= n /\ e # 0
    BY <1>1, <1>2, <2>3
  <2>. QED  BY <2>4, <2>5
<1>. DEFINE s == e - 1
            l == 2^s
            h == m \div l
<1>4. s \in 0..n /\ s \in Nat /\ s \notin T /\ e = s + 1
  BY <1>0, <1>2, <1>3
<1>5. l \in Nat /\ l > 0 /\ 2^e = 2 * l /\ m % l = 0
  BY <1>4, TwoPowers
<1>6. h \in Nat /\ m = l * h
  <2>. HIDE DEF l
  <2>1. m = l * (m \div l) + (m % l) /\ m \div l \in Nat
    BY <1>0, <1>5, Division
  <2>. QED  BY <1>5, <2>1
<1>7. h % 2 = 1
  <2>1. SUFFICES ASSUME h % 2 # 1 PROVE FALSE
    OBVIOUS
  <2>. DEFINE c == h \div 2
  <2>2. c \in Nat /\ h = 2 * c
    <3>. HIDE DEF h
    <3>. QED  BY <1>6, <2>1, Z3
  <2>. HIDE DEF c, h, l, m
  <2>. DEFINE b == 2 * l
  <2>3. m = b * c + 0 /\ b \in Nat /\ b > 0 /\ 0 \in 0..(b - 1) /\ m \in Int
    <3>1. m = (2 * l) * c
      BY <1>5, <1>6, <2>2, Z3
    <3>2. (2 * l) * c \in Int
      BY <1>5, <2>2
    <3>. QED  BY <1>5, <3>1, <3>2
  <2>. HIDE DEF b
  <2>5. m % b = 0
    BY <2>2, <2>3, DivisionIs
  <2>4. m % (2 * l) = 0
    BY <2>5 DEF b
  <2>. QED  BY <1>2, <1>5, <2>4 DEF m
<1>8. \E t \in 0..n : (n - 1) % 2 ^ t = 0 /\ ((n - 1) \div 2 ^ t) % 2 = 1
  BY <1>4, <1>5, <1>7
<1>. HIDE DEF s, l, h, m, T
<1>9. PICK t \in Nat : t = TwoExponent(n) /\ (n - 1) % 2 ^ t = 0 /\ ((n - 1) \div 2 ^ t) % 2 = 1
  <2>1. /\ TwoExponent(n) \in 0..n /\ (n - 1) % 2 ^ TwoExponent(n) = 0
        /\ ((n - 1) \div 2 ^ TwoExponent(n)) % 2 = 1
    BY <1>8, Zenon DEF TwoExponent
  <2>2. TwoExponent(n) \in Nat
    BY <1>0, <2>1
  <2>. QED  BY <2>1, <2>2, Zenon
<1>. DEFINE b == 2^t
<1>10. b \in Nat /\ b > 0 /\ OddPart(n) = (n - 1) \div b /\ (n - 1) % b = 0
  BY <1>9, TwoPowers DEF OddPart
<1>11. OddPart(n) \in Nat /\ n - 1 = b * OddPart(n)
  <2>. HIDE DEF b
  <2>. QED  BY <1>0, <1>10, Division
<1>12. b * OddPart(n) = OddPart(n) * b
  <2>. HIDE DEF b
  <2>. QED  BY <1>10, <1>11
<1>13. n % 2 = 1 => t >= 1
  <2>1. SUFFICES ASSUME n % 2 = 1, t = 0 PROVE FALSE
    BY <1>9
  <2>2. b = 1
    BY <2>1, TwoPowers
  <2>3. (n - 1) \div 1 = n - 1
    BY <1>0, n - 1 = 1 * (n - 1) + 0, DivisionIs
  <2>4. (n - 1) % 2 = 0
    BY <1>0, <2>1, Z3
  <2>. QED  BY <1>9, <2>2, <2>3, <2>4
<1>. QED  BY <1>9, <1>10, <1>11, <1>12, <1>13 DEF OddPart

\* A prime passes a round with any base it does not divide.
LEMMA PrimePasses ==
  ASSUME NEW n, IsPrime(n), NEW u \in Units(n)
  PROVE  PassesRound(n, u)
<1>. DEFINE c == OddPart(n)
            s == TwoExponent(n)
            T == {i \in Nat : Power(n, u, c * 2^i) = 1}
<1>0. /\ AtLeastTwo(n) /\ u \in Int /\ c \in Nat /\ s \in Nat /\ n - 1 = c * 2^s
  BY PrimeIsTwo, UnitsAre, OddPartIs
<1>. HIDE DEF c, s
<1>1. s \in T
  BY <1>0, Fermat
<1>2. PICK i \in T : \A j \in T : i <= j
  <2>1. T \in SUBSET Nat /\ T # {}
    BY <1>1
  <2>. HIDE DEF T
  <2>. QED  BY <2>1, Least
<1>3. CASE i = 0
  <2>1. c * 2^0 = c
    BY <1>0, TwoPowers, 0 \in Nat
  <2>. QED  BY <1>2, <1>3, <2>1 DEF PassesRound, c
<1>4. CASE i # 0
  <2>. DEFINE l == i - 1
              w == c * 2^l
  <2>1. l \in Nat /\ l \notin T /\ i = l + 1 /\ l \in 0..(s - 1)
    BY <1>0, <1>1, <1>2, <1>4
  <2>2. w \in Nat /\ c * 2^i = 2 * w
    <3>. HIDE DEF l
    <3>1. 2^(l + 1) = 2 * 2^l /\ 2^l \in Nat
      BY <2>1, TwoPowers
    <3>2. ASSUME NEW b \in Nat PROVE c * (2 * b) = 2 * (c * b) /\ c * b \in Nat
      BY <1>0, Z3
    <3>. QED  BY <2>1, <3>1, <3>2
  <2>3. Power(n, u, w) # 1 /\ Power(n, u, 2 * w) = 1
    <3>1. Power(n, u, c * 2^i) = 1
      BY <1>2
    <3>. QED  BY <2>1, <2>2, <3>1
  <2>. HIDE DEF w
  <2>4. Power(n, u, 2 * w) = Times(n, Power(n, u, w), Power(n, u, w))
    BY <1>0, <2>2, PowerOfDouble
  <2>5. Power(n, u, w) \in Units(n)
    BY <2>2, PowersAreUnits
  <2>6. Power(n, u, w) = n - 1
    BY <2>3, <2>4, <2>5, RootsOfOne
  <2>. QED  BY <2>1, <2>6 DEF PassesRound, c, s, w
<1>. QED  BY <1>3, <1>4

LEMMA RoundReduces ==
  ASSUME NEW n, AtLeastTwo(n), NEW u \in Int
  PROVE  PassesRound(n, u % n) <=> PassesRound(n, u)
<1>0. OddPart(n) \in Nat /\ TwoExponent(n) \in Nat
  BY OddPartIs
<1>1. Power(n, u % n, OddPart(n)) = Power(n, u, OddPart(n))
  BY <1>0, PowerSteps
<1>2. ASSUME NEW i \in 0..(TwoExponent(n) - 1)
      PROVE  Power(n, u % n, OddPart(n) * 2 ^ i) = Power(n, u, OddPart(n) * 2 ^ i)
  <2>1. 2^i \in Nat
    BY <1>0, TwoPowers
  <2>2. OddPart(n) * 2 ^ i \in Nat
    BY <1>0, <2>1
  <2>. QED  BY <2>2, PowerSteps
<1>. QED  BY <1>1, <1>2 DEF PassesRound

LEMMA SmallPrimes ==
  ASSUME NEW n, IsPrime(n), n <= 37
  PROVE  n \in Witnesses
<1>1. /\ n \in Nat /\ n >= 2 /\ (n > 2 => n % 2 # 0) /\ (n > 3 => n % 3 # 0) /\ (n > 5 => n % 5 # 0)
  BY DEF IsPrime
<1>2. n \in 2..37
  BY <1>1
<1>. QED  BY <1>1, <1>2, Z3 DEF Witnesses

\* The test rejects no prime.
LEMMA PrimesAreFound ==
  ASSUME NEW n, IsPrime(n)
  PROVE  is_prime(n)
<1>0. n \in Nat /\ n >= 2 /\ AtLeastTwo(n) /\ Positive(n)
  BY PrimeIsTwo DEF IsPrime
<1>1. CASE n <= 37
  BY <1>1, SmallPrimes DEF is_prime
<1>2. CASE n > 37
  <2>1. ASSUME NEW p \in Witnesses PROVE n % p # 0 /\ PassesRound(n, p)
    <3>1. p \in 2..(n - 1) /\ p \in Int
      BY <1>0, <1>2 DEF Witnesses
    <3>2. n % p # 0
      BY <3>1 DEF IsPrime
    <3>3. p \in Units(n)
      BY <1>0, <3>1 DEF Units
    <3>. QED  BY <3>2, <3>3, PrimePasses
  <2>. QED  BY <1>0, <2>1 DEF is_prime
<1>. QED  BY <1>0, <1>1, <1>2

-----------------------------------------------------------------------------
(* The search for a modulus.                                               *)

\* The candidates are the numbers of one residue class.
Stride == IF search.how = "ntt_friendly_below" THEN 2 * d ELSE 8
ClassOf == IF search.how = "ntt_friendly_below" THEN 1 ELSE 5
Upwards == search.how = "5mod8"

\* The numbers the search has gone past.
GonePast == IF Upwards THEN search.bound..(q - 1) ELSE (q + 1)..(search.bound - 1)

\* Candidates are of the class; what was gone past is not prime; what is found
\* passes the test.
SearchInv ==
  /\ search \in Searches
  /\ q \in Int /\ q % Stride = ClassOf
  /\ \A n \in GonePast : n \in Nat /\ n % Stride = ClassOf => ~IsPrime(n)
  /\ pc \notin {"search", "panic"} => q >= SmallestCandidate /\ is_prime(q)

\* Miller and Rabin's test with the twelve bases is exact at q.
MillerRabinExact == is_prime(q) => IsPrime(q)

LEMMA SearchFacts ==
  ASSUME search \in Searches
  PROVE  /\ d \in Nat /\ d >= 2 /\ d % 2 = 0 /\ d \div 2 \in Nat /\ d = 2 * (d \div 2)
         /\ LogD \in 1..d /\ d = 2^LogD /\ LogD \in Nat
         /\ search.how \in {"ntt_friendly_below", "5mod8_below", "5mod8"}
         /\ search.bound \in Nat /\ search.bound > 2 * d + 1
         /\ Stride \in Nat /\ Stride >= 4 /\ Stride % 4 = 0 /\ ClassOf \in Nat /\ ClassOf < Stride
         /\ ClassOf % 4 = 1
<1>1. PICK b \in 1..search.d : search.d = 2 ^ b
  BY SearchesAssumption
<1>2. /\ search.how \in {"ntt_friendly_below", "5mod8_below", "5mod8"}
      /\ search.bound \in Nat /\ search.bound > 2 * d + 1
  BY SearchesAssumption DEF d
<1>3. \E e \in 1..d : d = 2 ^ e
  BY <1>1 DEF d
<1>4. LogD \in 1..d /\ d = 2 ^ LogD
  BY <1>3, Zenon DEF LogD
<1>5. d \in Nat /\ d >= 1 /\ LogD \in Nat /\ LogD >= 1
  <2>2. d \in Nat
    <3>1. b \in 1..d
      BY <1>1 DEF d
    <3>2. CASE b \in Nat
      BY <1>1, <3>2, TwoPowers DEF d
    <3>. QED  BY <3>1, <3>2
  <2>. QED  BY <1>4, <2>2
<1>6. 2 ^ LogD = 2 * 2 ^ (LogD - 1) /\ 2 ^ LogD % 2 = 0 /\ 2 ^ (LogD - 1) \in Nat
  <2>1. LogD - 1 \in Nat
    BY <1>5
  <2>. QED  BY <1>5, <2>1, TwoPowers
<1>7. d >= 2 /\ d % 2 = 0 /\ d \div 2 \in Nat /\ d = 2 * (d \div 2)
  <2>. DEFINE h == 2 ^ (LogD - 1)
  <2>1. h \in Nat /\ d = 2 * h
    BY <1>4, <1>6
  <2>. HIDE DEF h
  <2>2. d % 2 = 0 /\ d \div 2 = h
    BY <1>5, <2>1, Z3
  <2>. QED  BY <1>5, <2>1, <2>2
<1>8. (2 * d) % 4 = 0
  BY <1>7, Z3
<1>9. 8 % 4 = 0 /\ 1 % 4 = 1 /\ 5 % 4 = 1
  BY Z3
<1>. QED  BY <1>2, <1>4, <1>5, <1>7, <1>8, <1>9 DEF Stride, ClassOf

\* What is known of a candidate that is not too small.
LEMMA CandidateFacts ==
  ASSUME search \in Searches, q \in Int, q % Stride = ClassOf, q >= SmallestCandidate
  PROVE  q \in Nat /\ q >= 5 /\ q % 4 = 1 /\ AtLeastTwo(q)
<1>1. /\ d \in Nat /\ d >= 2 /\ Stride \in Nat /\ Stride >= 4 /\ Stride % 4 = 0
      /\ ClassOf \in Nat /\ ClassOf % 4 = 1
  BY SearchFacts
<1>2. q \in Nat /\ q >= 5
  BY <1>1 DEF SmallestCandidate
<1>3. q % 4 = 1
  <2>. DEFINE j == q \div Stride
              i == Stride \div 4
              c == ClassOf
              e == c \div 4
  <2>1. q = Stride * j + c /\ j \in Nat
    BY <1>1, <1>2, Division
  <2>2. Stride = 4 * i /\ i \in Nat
    BY <1>1, Z3
  <2>3. c = 4 * e + 1 /\ e \in Nat
    <3>1. c \in Nat /\ c % 4 = 1
      BY <1>1
    <3>. HIDE DEF c
    <3>. QED  BY <3>1, Z3
  <2>. HIDE DEF i, j, c, e
  <2>4. (4 * i) * j = 4 * (i * j) /\ i * j \in Int
    BY <2>1, <2>2, Z3
  <2>5. q = 4 * (i * j + e) + 1 /\ i * j + e \in Int
    BY <1>2, <2>1, <2>2, <2>3, <2>4
  <2>. QED  BY <1>2, <2>5, DivisionIs
<1>. QED  BY <1>2, <1>3 DEF AtLeastTwo

\* The first candidates.
LEMMA FirstCandidateIs ==
  ASSUME search \in Searches, NEW n, n = FirstCandidate(search)
  PROVE  /\ n \in Int /\ n % Stride = ClassOf
         /\ Upwards => n >= search.bound /\ n < search.bound + Stride
         /\ ~Upwards => n < search.bound /\ search.bound - 1 - n < Stride
<1>. DEFINE m == search.bound
            s == Stride
            c == ClassOf
<1>1. m \in Nat /\ m > 2 * d + 1 /\ d \in Nat /\ s \in Nat /\ s >= 4 /\ c \in Nat /\ c < s
  BY SearchFacts
<1>2. /\ Upwards => n = m + ((c - m) % s)
      /\ ~Upwards => n = (m - 1) - ((m - 1 - c) % s)
  <2>1. search.how \in {"ntt_friendly_below", "5mod8_below", "5mod8"}
    BY SearchFacts
  <2>. QED  BY <2>1 DEF FirstCandidate, FirstBelow, FirstAbove, Upwards, Stride, ClassOf, d
<1>. HIDE DEF m, s, c
<1>3. ASSUME NEW e \in Int PROVE e % s \in 0..(s - 1) /\ e = s * (e \div s) + (e % s) /\ e \div s \in Int
  BY <1>1, Z3
<1>4. CASE Upwards
  <2>. DEFINE e == c - m
              j == e \div s
              i == e % s
  <2>1. e \in Int /\ i \in 0..(s - 1) /\ e = s * j + i /\ j \in Int
    BY <1>1, <1>3
  <2>2. n = m + i
    BY <1>2, <1>4
  <2>. HIDE DEF i, j
  <2>. DEFINE l == -j
  <2>3. n = s * l + c /\ l \in Int /\ n \in Int
    BY <1>1, <2>1, <2>2
  <2>. HIDE DEF l
  <2>4. n % s = c
    BY <1>1, <2>3, DivisionIs
  <2>. QED  BY <1>1, <1>4, <2>1, <2>2, <2>3, <2>4 DEF m, s, c
<1>5. CASE ~Upwards
  <2>. DEFINE e == m - 1 - c
              j == e \div s
              i == e % s
  <2>1. e \in Int /\ i \in 0..(s - 1) /\ e = s * j + i /\ j \in Int
    BY <1>1, <1>3
  <2>2. n = (m - 1) - i
    BY <1>2, <1>5
  <2>. HIDE DEF i, j
  <2>3. n = s * j + c /\ n \in Int
    BY <1>1, <2>1, <2>2
  <2>4. n % s = c
    BY <1>1, <2>1, <2>3, DivisionIs
  <2>. QED  BY <1>1, <1>5, <2>1, <2>2, <2>3, <2>4 DEF m, s, c
<1>. QED  BY <1>4, <1>5

\* Two numbers of the class that are less than a stride apart are the same.
LEMMA OneOfClass ==
  ASSUME NEW s \in Nat, s > 0, NEW m \in Int, NEW n \in Int, m % s = n % s, m - n < s, n - m < s
  PROVE  m = n
<1>. DEFINE i == m \div s
            j == n \div s
            e == m % s
<1>1. i \in Int /\ j \in Int /\ e \in Int /\ m = s * i + e /\ n = s * j + e
  BY Z3
<1>. HIDE DEF i, j, e
<1>2. m - n = s * (i - j) /\ i - j \in Int
  BY <1>1, Z3
<1>. DEFINE l == i - j
<1>3. l \in Int /\ s * l < s /\ -(s * l) < s
  BY <1>2
<1>. HIDE DEF l
<1>4. l = 0
  BY <1>3, Z3
<1>. QED  BY <1>1, <1>4 DEF l

LEMMA SearchStarts == Init => SearchInv
<1>. SUFFICES ASSUME Init PROVE SearchInv
  OBVIOUS
<1>1. search \in Searches /\ q = FirstCandidate(search) /\ pc = "search"
  BY DEF Init
<1>2. /\ q \in Int /\ q % Stride = ClassOf
      /\ Upwards => q >= search.bound /\ q < search.bound + Stride
      /\ ~Upwards => q < search.bound /\ search.bound - 1 - q < Stride
  BY <1>1, FirstCandidateIs
<1>3. search.bound \in Nat /\ Stride \in Nat /\ Stride >= 4
  BY <1>1, SearchFacts
<1>4. ASSUME NEW n \in GonePast, n \in Nat, n % Stride = ClassOf PROVE FALSE
  <2>1. CASE Upwards
    <3>1. n >= search.bound /\ n < q
      BY <1>2, <1>3, <1>4, <2>1 DEF GonePast
    <3>2. q - n < Stride /\ n - q < Stride
      BY <1>2, <1>3, <1>4, <2>1, <3>1
    <3>3. n = q
      BY <1>2, <1>3, <1>4, <3>2, OneOfClass
    <3>. QED  BY <1>2, <3>1, <3>3
  <2>2. CASE ~Upwards
    <3>1. n <= search.bound - 1 /\ n > q
      BY <1>2, <1>3, <1>4, <2>2 DEF GonePast
    <3>2. q - n < Stride /\ n - q < Stride
      BY <1>2, <1>3, <1>4, <2>2, <3>1
    <3>3. n = q
      BY <1>2, <1>3, <1>4, <3>2, OneOfClass
    <3>. QED  BY <1>2, <3>1, <3>3
  <2>. QED  BY <2>1, <2>2
<1>. QED  BY <1>1, <1>2, <1>4 DEF SearchInv

LEMMA SearchSteps == SearchInv /\ [Next]_vars => SearchInv'
<1>. SUFFICES ASSUME SearchInv, [Next]_vars PROVE SearchInv'
  OBVIOUS
<1>0. /\ search \in Searches /\ q \in Int /\ q % Stride = ClassOf
      /\ \A n \in GonePast : n \in Nat /\ n % Stride = ClassOf => ~IsPrime(n)
      /\ pc \notin {"search", "panic"} => q >= SmallestCandidate /\ is_prime(q)
  BY DEF SearchInv
<1>1. ASSUME search' = search, q' = q,
             pc' \notin {"search", "panic"} => pc \notin {"search", "panic"} \/ (q >= SmallestCandidate /\ is_prime(q))
      PROVE  SearchInv'
  <2>1. /\ Stride' = Stride /\ ClassOf' = ClassOf /\ GonePast' = GonePast
        /\ SmallestCandidate' = SmallestCandidate
    BY <1>1 DEF Stride, ClassOf, GonePast, Upwards, SmallestCandidate, d
  <2>. QED  BY <1>0, <1>1, <2>1, Zenon DEF SearchInv
<1>2. CASE Skip
  <2>1. /\ pc = "search" /\ q >= SmallestCandidate /\ ~is_prime(q) /\ q' = NextCandidate
        /\ search' = search /\ pc' = "search"
    BY <1>2 DEF Skip
  <2>2. Stride' = Stride /\ ClassOf' = ClassOf /\ Upwards' = Upwards /\ d' = d
    BY <2>1 DEF Stride, ClassOf, Upwards, d
  <2>3. /\ Stride \in Nat /\ Stride >= 4 /\ ClassOf \in Nat /\ ClassOf < Stride
        /\ search.how \in {"ntt_friendly_below", "5mod8_below", "5mod8"} /\ search.bound \in Nat
    BY <1>0, SearchFacts
  <2>. DEFINE s == Stride
              n == q'
  <2>4. n = IF Upwards THEN q + s ELSE q - s
    BY <2>1, <2>3 DEF NextCandidate, Upwards, Stride
  <2>5. n \in Int /\ n % s = ClassOf
    <3>1. s \in Nat /\ s > 0 /\ Positive(s)
      BY <2>3 DEF Positive
    <3>. HIDE DEF s
    <3>2. n \in Int /\ (n = q + s * 1 \/ n = q + s * (-1)) /\ 1 \in Int /\ -1 \in Int
      BY <1>0, <2>4, <3>1
    <3>3. n % s = q % s
      BY <1>0, <3>1, <3>2, SameRemainder
    <3>. QED  BY <1>0, <3>2, <3>3 DEF s
  <2>6. ~IsPrime(q)
    BY <2>1, PrimesAreFound
  <2>7. ASSUME NEW m \in GonePast', m \in Nat, m % s = ClassOf PROVE ~IsPrime(m)
    <3>1. CASE m \in GonePast
      BY <1>0, <2>7, <3>1
    <3>2. CASE m \notin GonePast
      <4>1. (q - m < s /\ m - q < s)
        <5>1. CASE Upwards
          <6>1. m \in search.bound..(n - 1) /\ m \notin search.bound..(q - 1)
            BY <2>1, <2>2, <2>7, <3>2, <5>1 DEF GonePast
          <6>. QED  BY <1>0, <2>3, <2>4, <5>1, <6>1
        <5>2. CASE ~Upwards
          <6>1. m \in (n + 1)..(search.bound - 1) /\ m \notin (q + 1)..(search.bound - 1)
            BY <2>1, <2>2, <2>7, <3>2, <5>2 DEF GonePast
          <6>. QED  BY <1>0, <2>3, <2>4, <5>2, <6>1
        <5>. QED  BY <5>1, <5>2
      <4>2. m = q
        BY <1>0, <2>3, <2>7, <4>1, OneOfClass
      <4>. QED  BY <2>6, <4>2
    <3>. QED  BY <3>1, <3>2
  <2>. HIDE DEF n
  <2>. QED  BY <1>0, <2>1, <2>2, <2>5, <2>7 DEF SearchInv, n
<1>3. CASE NoPrime
  BY <1>1, <1>3 DEF NoPrime
<1>4. CASE Found
  BY <1>1, <1>4 DEF Found
<1>5. CASE NoRoot \/ RootOfZero \/ StartRoot \/ RootRound \/ RootFound
  BY <1>1, <1>5 DEF NoRoot, RootOfZero, StartRoot, RootRound, RootFound
<1>6. CASE Call
  BY <1>1, <1>6 DEF Call
<1>7. CASE ForwardGroup \/ NextOperand \/ PointwiseProduct \/ InverseGroup \/ PostScale
  BY <1>1, <1>7 DEF ForwardGroup, NextOperand, PointwiseProduct, InverseGroup, PostScale
<1>8. CASE Split \/ MulHalves \/ Combine
  BY <1>1, <1>8 DEF Split, MulHalves, Combine
<1>9. CASE UNCHANGED vars
  BY <1>1, <1>9 DEF vars
<1>. QED  BY <1>2, <1>3, <1>4, <1>5, <1>6, <1>7, <1>8, <1>9 DEF Next

LEMMA SearchAlways == Spec => []SearchInv
  BY SearchStarts, SearchSteps, PTL DEF Spec

LEMMA NearestFollows == SearchInv /\ MillerRabinExact => NearestPrime
<1>. SUFFICES ASSUME SearchInv, MillerRabinExact PROVE NearestPrime
  OBVIOUS
<1>0. /\ search \in Searches /\ q \in Int /\ q % Stride = ClassOf
      /\ \A n \in GonePast : n \in Nat /\ n % Stride = ClassOf => ~IsPrime(n)
      /\ pc \notin {"search", "panic"} => q >= SmallestCandidate /\ is_prime(q)
  BY DEF SearchInv
<1>1. search.how \in {"ntt_friendly_below", "5mod8_below", "5mod8"} /\ d \in Nat /\ search.bound \in Nat
  BY <1>0, SearchFacts
<1>. DEFINE Class == IF search.how = "ntt_friendly_below" THEN {n \in Nat : n % (2 * d) = 1}
                     ELSE {n \in Nat : n % 8 = 5}
            Prime(n) == n >= 2 /\ \A m \in 2..(n - 1) : n % m # 0
            Passed == IF search.how = "5mod8" THEN search.bound..(q - 1) ELSE (q + 1)..(search.bound - 1)
<1>2. \A n : n \in Class <=> n \in Nat /\ n % Stride = ClassOf
  BY DEF Stride, ClassOf
<1>3. \A n \in Nat : Prime(n) <=> IsPrime(n)
  BY DEF IsPrime
<1>4. Passed = GonePast
  BY DEF GonePast, Upwards
<1>5. \A n \in Passed : n \in Class => ~Prime(n)
  <2>. HIDE DEF Class, Prime, Passed
  <2>. QED  BY <1>0, <1>2, <1>3, <1>4
<1>6. pc = "sqrt" => Prime(q) /\ q \in Class
  <2>1. SUFFICES ASSUME pc = "sqrt" PROVE Prime(q) /\ q \in Class
    OBVIOUS
  <2>2. q \in Nat /\ IsPrime(q)
    BY <1>0, <2>1, CandidateFacts DEF MillerRabinExact
  <2>. HIDE DEF Class, Prime
  <2>. QED  BY <1>0, <1>2, <1>3, <2>2
<1>. QED  BY <1>5, <1>6 DEF NearestPrime

\* Each search ends at a prime, the nearest to its bound in its residue class,
\* or where there is none, as long as the test with twelve bases is exact.
THEOREM NearestIsFound == Spec /\ []MillerRabinExact => []NearestPrime
  BY SearchAlways, NearestFollows, PTL

-----------------------------------------------------------------------------
(* The square root of Tonelli and Shanks.                                  *)

\* The loop's variables v on the way to a root of u: r*r = u*t, the order of t
\* divides 2^(s-1), and c is of the order 2^s.
IsRound(n, u, v) ==
  /\ v.s \in Nat /\ v.s >= 1
  /\ v.r \in Units(n) /\ v.c \in Units(n) /\ v.t \in Units(n)
  /\ Times(n, v.r, v.r) = Times(n, u, v.t)
  /\ Power(n, v.c, 2 ^ (v.s - 1)) = n - 1
  /\ Power(n, v.t, 2 ^ (v.s - 1)) = 1

Multiplying == {"forward", "inverse", "split", "halves", "combine", "done"}

RootInv ==
  /\ pc = "sqrt" => a \in Residues(q)
  /\ pc = "rounds" => a \in Units(q) /\ IsRound(q, a, root)
  /\ pc = "none" => a \in Units(q) /\ Power(q, a, (q - 1) \div 2) # 1
  /\ pc \in {"some"} \cup Multiplying => /\ root.r \in Residues(q) /\ Times(q, root.r, root.r) = a
                                         /\ a \in Residues(q)
  /\ pc \in Multiplying => a = q - 1

LEMMA RoundsStart ==
  ASSUME NEW n, IsPrime(n), n >= 3, NEW u \in Units(n), Power(n, u, (n - 1) \div 2) = 1, NEW v,
         v = [r |-> Power(n, u, (OddPart(n) + 1) \div 2), c |-> Power(n, LeastNonResidue(n), OddPart(n)),
              t |-> Power(n, u, OddPart(n)), s |-> TwoExponent(n)]
  PROVE  IsRound(n, u, v)
<1>. DEFINE o == OddPart(n)
            e == TwoExponent(n)
            z == LeastNonResidue(n)
            h == (n - 1) \div 2
<1>0. /\ AtLeastTwo(n) /\ Positive(n) /\ u \in Int /\ n % 2 = 1 /\ n - 1 = 2 * h /\ h \in Nat
      /\ n \in Nat
  BY PrimeIsTwo, UnitsAre, OddPrime
<1>1. o \in Nat /\ e \in Nat /\ e >= 1 /\ n - 1 = o * 2^e /\ o % 2 = 1
  BY <1>0, OddPartIs
<1>2. z \in Units(n) /\ z \in Int /\ Power(n, z, h) = n - 1
  BY <1>0, NonResidueExists, UnitsAre
<1>. DEFINE l == 2^(e - 1)
            m == (o + 1) \div 2
<1>3. l \in Nat /\ h = o * l
  <2>1. e - 1 \in Nat /\ 2^e = 2 * l /\ l \in Nat
    BY <1>1, TwoPowers
  <2>. HIDE DEF l, o
  <2>2. n - 1 = 2 * (o * l) /\ o * l \in Nat
    <3>1. o * (2 * l) = 2 * (o * l) /\ o * l \in Nat
      BY <1>1, <2>1, Z3
    <3>. QED  BY <1>1, <2>1, <3>1
  <2>. HIDE DEF h
  <2>3. h = o * l
    BY <1>0, <2>2
  <2>. QED  BY <2>1, <2>3
<1>4. m \in Nat /\ 2 * m = o + 1
  <2>. HIDE DEF o
  <2>. QED  BY <1>1, Z3
<1>5. v.r = Power(n, u, m) /\ v.c = Power(n, z, o) /\ v.t = Power(n, u, o) /\ v.s = e
  OBVIOUS
<1>. HIDE DEF o, e, z, h, l, m
<1>6. v.r \in Units(n) /\ v.c \in Units(n) /\ v.t \in Units(n)
  BY <1>1, <1>2, <1>4, <1>5, PowersAreUnits
<1>7. Times(n, v.r, v.r) = Times(n, u, v.t)
  <2>1. Power(n, u, 2 * m) = Times(n, Power(n, u, m), Power(n, u, m))
    BY <1>0, <1>4, PowerOfDouble
  <2>2. Power(n, u, o + 1) = Times(n, Power(n, u, o), u) /\ Power(n, u, o) \in Int
    BY <1>0, <1>1, PowerSteps
  <2>3. Times(n, Power(n, u, o), u) = Times(n, u, Power(n, u, o))
    BY <1>0, <2>2, TimesCommutes
  <2>. QED  BY <1>4, <1>5, <2>1, <2>2, <2>3
<1>8. Power(n, v.c, l) = n - 1
  <2>0. AtLeastTwo(n) /\ z \in Int /\ o \in Nat /\ l \in Nat
    BY <1>0, <1>1, <1>2, <1>3
  <2>1. Power(n, z, o * l) = Power(n, Power(n, z, o), l)
    BY ONLY <2>0, PowerOfPower
  <2>. QED  BY <1>2, <1>3, <1>5, <2>1
<1>9. Power(n, v.t, l) = 1
  <2>0. AtLeastTwo(n) /\ u \in Int /\ o \in Nat /\ l \in Nat
    BY <1>0, <1>1, <1>3
  <2>1. Power(n, u, o * l) = Power(n, Power(n, u, o), l)
    BY ONLY <2>0, PowerOfPower
  <2>2. Power(n, u, h) = 1
    BY DEF h
  <2>. QED  BY <1>3, <1>5, <2>1, <2>2
<1>. QED  BY <1>1, <1>5, <1>6, <1>7, <1>8, <1>9 DEF IsRound, l

LEMMA RoundGoesOn ==
  ASSUME NEW n, IsPrime(n), NEW u \in Units(n), NEW v, IsRound(n, u, v), v.t # 1,
         NEW i, i = CHOOSE m \in 0..v.s : Power(n, v.t, 2 ^ m) = 1
                                          /\ \A j \in 0..(m - 1) : Power(n, v.t, 2 ^ j) # 1,
         NEW b, b = Power(n, v.c, 2 ^ (v.s - i - 1)),
         NEW w, w = [r |-> Times(n, v.r, b), c |-> Times(n, b, b),
                     t |-> Times(n, v.t, Times(n, b, b)), s |-> i]
  PROVE  IsRound(n, u, w)
<1>0. /\ AtLeastTwo(n) /\ Positive(n) /\ u \in Int /\ 1 \in Residues(n)
      /\ \A y \in Units(n) : y \in Int /\ y \in Residues(n)
  BY PrimeIsTwo, UnitsAre, TwoIsPositive
<1>1. /\ v.s \in Nat /\ v.s >= 1
      /\ v.r \in Units(n) /\ v.c \in Units(n) /\ v.t \in Units(n)
      /\ Times(n, v.r, v.r) = Times(n, u, v.t)
      /\ Power(n, v.c, 2 ^ (v.s - 1)) = n - 1
      /\ Power(n, v.t, 2 ^ (v.s - 1)) = 1
  BY DEF IsRound
<1>. DEFINE T == {j \in Nat : Power(n, v.t, 2 ^ j) = 1}
<1>2. v.s - 1 \in T
  BY <1>1
<1>3. PICK m \in T : \A j \in T : m <= j
  <2>1. T \in SUBSET Nat /\ T # {}
    BY <1>2
  <2>. HIDE DEF T
  <2>. QED  BY <2>1, Least
<1>4. m \in 0..v.s /\ Power(n, v.t, 2 ^ m) = 1 /\ \A j \in 0..(m - 1) : Power(n, v.t, 2 ^ j) # 1
  <2>1. m \in Nat /\ m <= v.s - 1 /\ Power(n, v.t, 2 ^ m) = 1
    BY <1>2, <1>3
  <2>2. ASSUME NEW j \in 0..(m - 1), Power(n, v.t, 2 ^ j) = 1 PROVE FALSE
    <3>1. j \in T /\ j < m
      BY <2>1, <2>2
    <3>. QED  BY <1>3, <2>1, <3>1
  <2>. QED  BY <1>1, <2>1, <2>2
<1>5. /\ i \in 0..v.s /\ Power(n, v.t, 2 ^ i) = 1 /\ \A j \in 0..(i - 1) : Power(n, v.t, 2 ^ j) # 1
  BY <1>4, Zenon
<1>. HIDE DEF T
<1>s. v.s \in Nat /\ v.s >= 1
  BY <1>1
<1>6. i \in Nat /\ i >= 1 /\ i <= v.s - 1
  <2>1. i # 0
    <3>1. 2^0 = 1 /\ Power(n, v.t, 1) = v.t % n /\ v.t % n = v.t
      BY <1>0, <1>1, TwoPowers, PowerSteps, RemainderType, 0 \in Nat
    <3>. QED  BY <1>5, <3>1
  <2>2. i # v.s
    <3>1. SUFFICES ASSUME i = v.s PROVE FALSE
      OBVIOUS
    <3>2. v.s - 1 \in 0..(i - 1)
      BY ONLY <1>s, <3>1
    <3>. QED  BY ONLY <1>1, <1>5, <3>2
  <2>3. i \in 0..v.s
    BY ONLY <1>5
  <2>. QED  BY ONLY <1>s, <2>1, <2>2, <2>3
<1>. DEFINE p == 2 ^ (v.s - i - 1)
            l == 2 ^ (i - 1)
            g2 == 2 ^ (v.s - 1)
<1>7. p \in Nat /\ l \in Nat /\ 2 ^ i = 2 * l /\ g2 = p * (2 * l)
  <2>1. v.s - i - 1 \in Nat /\ i - 1 \in Nat /\ (v.s - i - 1) + i = v.s - 1
    BY <1>1, <1>6
  <2>2. p \in Nat /\ l \in Nat /\ 2 ^ i = 2 * l
    BY <1>6, <2>1, TwoPowers
  <2>3. 2 ^ ((v.s - i - 1) + i) = p * 2 ^ i
    BY <1>6, <2>1, TwoPowerOfSum
  <2>. QED  BY <2>1, <2>2, <2>3
<1>8. b = Power(n, v.c, p) /\ Power(n, v.c, g2) = n - 1 /\ Power(n, v.t, 2 * l) = 1 /\ Power(n, v.t, l) # 1
  <2>1. i - 1 \in 0..(i - 1)
    BY <1>6
  <2>. QED  BY <1>1, <1>5, <1>7, <2>1
<1>. HIDE DEF p, l, g2
<1>9. b \in Units(n) /\ b \in Int
  BY <1>0, <1>1, <1>7, <1>8, PowersAreUnits
<1>. DEFINE bb == Times(n, b, b)
<1>10. bb \in Units(n) /\ bb \in Int
  BY <1>0, <1>9, UnitsClosed
<1>11. Power(n, bb, l) = n - 1
  <2>1. Power(n, bb, l) = Power(n, b, 2 * l)
    BY <1>0, <1>7, <1>9, PowerOfDouble
  <2>2. Power(n, v.c, p * (2 * l)) = Power(n, Power(n, v.c, p), 2 * l)
    BY <1>0, <1>1, <1>7, PowerOfPower, 2 * l \in Nat
  <2>. QED  BY <1>7, <1>8, <2>1, <2>2
<1>12. Power(n, v.t, l) = n - 1
  <2>1. Power(n, v.t, 2 * l) = Times(n, Power(n, v.t, l), Power(n, v.t, l))
    BY <1>0, <1>1, <1>7, PowerOfDouble
  <2>2. Power(n, v.t, l) \in Units(n)
    BY <1>1, <1>7, PowersAreUnits
  <2>. QED  BY <1>8, <2>1, <2>2, RootsOfOne
<1>13. Power(n, Times(n, v.t, bb), l) = 1
  <2>1. Power(n, Times(n, v.t, bb), l) = Times(n, Power(n, v.t, l), Power(n, bb, l))
    BY <1>0, <1>1, <1>7, <1>10, PowerOfProduct
  <2>2. Times(n, n - 1, n - 1) = 1
    BY <1>0, MinusOne
  <2>. QED  BY <1>11, <1>12, <2>1, <2>2
<1>14. w.r = Times(n, v.r, b) /\ w.c = bb /\ w.t = Times(n, v.t, bb) /\ w.s = i
  OBVIOUS
<1>15. w.r \in Units(n) /\ w.t \in Units(n)
  BY <1>1, <1>9, <1>10, <1>14, UnitsClosed
<1>16. Times(n, w.r, w.r) = Times(n, u, w.t)
  <2>1. v.r \in Int /\ v.t \in Int
    BY <1>0, <1>1
  <2>2. Times(n, Times(n, v.r, b), Times(n, v.r, b)) = Times(n, Times(n, v.r, v.r), Times(n, b, b))
    BY <1>0, <1>9, <2>1, TimesSwap
  <2>3. Times(n, Times(n, u, v.t), bb) = Times(n, u, Times(n, v.t, bb))
    BY <1>0, <1>10, <2>1, TimesAssociates
  <2>. QED  BY <1>1, <1>14, <2>2, <2>3
<1>. HIDE DEF bb
<1>17. i - 1 >= 0 /\ l = 2 ^ (w.s - 1)
  BY <1>6, <1>14 DEF l
<1>. QED  BY <1>6, <1>10, <1>11, <1>13, <1>14, <1>15, <1>16, <1>17 DEF IsRound

LEMMA PrimeCandidate ==
  ASSUME SearchInv, MillerRabinExact, pc \notin {"search", "panic"}
  PROVE  IsPrime(q) /\ q >= 3 /\ q \in Nat /\ q % 4 = 1 /\ AtLeastTwo(q) /\ Positive(q)
<1>1. search \in Searches /\ q \in Int /\ q % Stride = ClassOf /\ q >= SmallestCandidate /\ is_prime(q)
  BY DEF SearchInv
<1>2. q \in Nat /\ q >= 5 /\ q % 4 = 1 /\ AtLeastTwo(q)
  BY <1>1, CandidateFacts
<1>. QED  BY <1>1, <1>2, TwoIsPositive DEF MillerRabinExact

LEMMA RootStarts == Init => RootInv
  BY DEF Init, RootInv, Multiplying

LEMMA RootSteps == SearchInv /\ MillerRabinExact /\ RootInv /\ [Next]_vars => RootInv'
<1>. SUFFICES ASSUME SearchInv, MillerRabinExact, RootInv, [Next]_vars PROVE RootInv'
  OBVIOUS
<1>1. CASE Skip \/ NoPrime
  BY <1>1 DEF Skip, NoPrime, RootInv, Multiplying
<1>2. CASE Found
  <2>1. pc' = "sqrt" /\ q' = q /\ a' \in {q - 1} \cup (Radicands \cap Residues(q)) /\ pc = "search"
        /\ q >= SmallestCandidate
    BY <1>2 DEF Found
  <2>2. AtLeastTwo(q)
    BY <2>1, CandidateFacts DEF SearchInv
  <2>3. a' \in Residues(q)
    BY <2>1, <2>2, UnitsAre
  <2>. QED  BY <2>1, <2>3 DEF RootInv, Multiplying
<1>3. CASE NoRoot
  <2>1. /\ pc = "sqrt" /\ a # 0 /\ pow(q, a, (q - 1) \div 2) # 1 /\ pc' = "none"
        /\ q' = q /\ a' = a
    BY <1>3 DEF NoRoot
  <2>2. a \in Units(q)
    BY <2>1, PrimeCandidate, UnitsAre DEF RootInv
  <2>. QED  BY <2>1, <2>2 DEF RootInv, Multiplying, pow
<1>4. CASE RootOfZero
  <2>1. /\ pc = "sqrt" /\ a = 0 /\ root' = [root EXCEPT !.r = 0] /\ pc' = "some" /\ q' = q /\ a' = a
    BY <1>4 DEF RootOfZero
  <2>2. Positive(q) /\ AtLeastTwo(q)
    BY <2>1, PrimeCandidate
  <2>3. Times(q, 0, 0) = 0 /\ 0 \in Residues(q)
    BY <2>2, TimesUnits, TwoIsPositive
  <2>4. root'.r = 0
    BY <2>1
  <2>. QED  BY <2>1, <2>3, <2>4 DEF RootInv, Multiplying
<1>5. CASE StartRoot
  <2>1. /\ pc = "sqrt" /\ a # 0 /\ Power(q, a, (q - 1) \div 2) = 1 /\ root' = RootStart /\ pc' = "rounds"
        /\ q' = q /\ a' = a
    BY <1>5 DEF StartRoot, pow
  <2>2. IsPrime(q) /\ q >= 3 /\ AtLeastTwo(q)
    BY <2>1, PrimeCandidate
  <2>3. a \in Units(q)
    BY <2>1, <2>2, UnitsAre DEF RootInv
  <2>4. RootStart = [r |-> Power(q, a, (OddPart(q) + 1) \div 2), c |-> Power(q, LeastNonResidue(q), OddPart(q)),
                     t |-> Power(q, a, OddPart(q)), s |-> TwoExponent(q)]
    BY DEF RootStart, pow
  <2>5. IsRound(q, a, RootStart)
    BY <2>1, <2>2, <2>3, <2>4, RoundsStart
  <2>. QED  BY <2>1, <2>3, <2>5 DEF RootInv, Multiplying
<1>6. CASE RootRound
  <2>. DEFINE i == Order2(root.t)
              b == pow(q, root.c, 2 ^ (root.s - i - 1))
  <2>1. /\ pc = "rounds" /\ root.t # 1 /\ pc' = "rounds" /\ q' = q /\ a' = a
        /\ root' = [r |-> (root.r * b) % q, c |-> (b * b) % q,
                    t |-> (root.t * ((b * b) % q)) % q, s |-> i]
    BY <1>6 DEF RootRound
  <2>2. i = CHOOSE m \in 0..root.s : Power(q, root.t, 2 ^ m) = 1
                                     /\ \A j \in 0..(m - 1) : Power(q, root.t, 2 ^ j) # 1
    BY DEF Order2, pow
  <2>3. b = Power(q, root.c, 2 ^ (root.s - i - 1))
    BY DEF pow
  <2>4. root' = [r |-> Times(q, root.r, b), c |-> Times(q, b, b),
                 t |-> Times(q, root.t, Times(q, b, b)), s |-> i]
    BY <2>1 DEF Times
  <2>5. IsPrime(q)
    BY <2>1, PrimeCandidate
  <2>6. a \in Units(q) /\ IsRound(q, a, root)
    BY <2>1 DEF RootInv
  <2>. HIDE DEF i, b
  <2>7. IsRound(q, a, root')
    BY <2>1, <2>2, <2>3, <2>4, <2>5, <2>6, RoundGoesOn
  <2>. QED  BY <2>1, <2>6, <2>7 DEF RootInv, Multiplying
<1>7. CASE RootFound
  <2>1. pc = "rounds" /\ root.t = 1 /\ pc' = "some" /\ q' = q /\ a' = a /\ root' = root
    BY <1>7 DEF RootFound
  <2>2. a \in Units(q) /\ IsRound(q, a, root)
    BY <2>1 DEF RootInv
  <2>3. AtLeastTwo(q) /\ Positive(q)
    BY <2>1, PrimeCandidate
  <2>4. a \in Residues(q) /\ a \in Int /\ root.r \in Residues(q)
    BY <2>2, <2>3, UnitsAre DEF IsRound
  <2>5. Times(q, a, 1) = a
    BY <2>3, <2>4, TimesUnits
  <2>. QED  BY <2>1, <2>2, <2>4, <2>5 DEF RootInv, Multiplying, IsRound
<1>8. CASE Call
  <2>1. pc = "some" /\ a = q - 1 /\ pc' \in Multiplying /\ q' = q /\ a' = a /\ root' = root
    BY <1>8 DEF Call, Multiplying
  <2>. QED  BY <2>1 DEF RootInv, Multiplying
<1>9. CASE ForwardGroup \/ NextOperand \/ PointwiseProduct \/ InverseGroup \/ PostScale \/ Split \/ MulHalves \/ Combine
  <2>1. pc \in Multiplying /\ pc' \in Multiplying /\ q' = q /\ a' = a /\ root' = root
    BY <1>9 DEF ForwardGroup, NextOperand, PointwiseProduct, InverseGroup, PostScale, Split, MulHalves,
                Combine, Multiplying
  <2>. QED  BY <2>1 DEF RootInv, Multiplying
<1>10. CASE UNCHANGED vars
  BY <1>10 DEF vars, RootInv
<1>. QED  BY <1>1, <1>2, <1>3, <1>4, <1>5, <1>6, <1>7, <1>8, <1>9, <1>10 DEF Next

LEMMA RootAlways == Spec /\ []MillerRabinExact => []RootInv
  BY SearchAlways, RootStarts, RootSteps, PTL DEF Spec

LEMMA RootFollows == SearchInv /\ MillerRabinExact /\ RootInv => RootsExist
<1>. SUFFICES ASSUME SearchInv, MillerRabinExact, RootInv PROVE RootsExist
  OBVIOUS
<1>1. pc = "some" => (r * r) % q = a
  BY DEF RootInv, r, Times
<1>2. ASSUME pc = "none"
      PROVE  /\ \A y \in Residues(q) : (y * y) % q # a
             /\ a # q - 1
  <2>1. /\ IsPrime(q) /\ q >= 3 /\ q \in Nat /\ q % 4 = 1 /\ AtLeastTwo(q) /\ Positive(q)
        /\ a \in Units(q) /\ Power(q, a, (q - 1) \div 2) # 1
    BY <1>2, PrimeCandidate DEF RootInv
  <2>2. ~IsSquare(q, a)
    BY <2>1, Euler
  <2>3. ASSUME NEW y \in Residues(q), (y * y) % q = a PROVE FALSE
    <3>1. y # 0
      <4>1. Times(q, 0, 0) = 0
        BY <2>1, TimesUnits
      <4>. QED  BY <2>1, <2>3, <4>1, UnitsAre DEF Times
    <3>2. y \in Units(q)
      BY <2>1, <3>1, UnitsAre
    <3>. QED  BY <2>2, <2>3, <3>2 DEF IsSquare, Times
  <2>4. a # q - 1
    <3>. DEFINE h == (q - 1) \div 2
                c == h \div 2
    <3>1. c \in Nat /\ h = 2 * c
      BY <2>1, Z3
    <3>. HIDE DEF c, h
    <3>2. q - 1 \in Int /\ Times(q, q - 1, q - 1) = 1
      BY <2>1, MinusOne
    <3>3. Power(q, Times(q, q - 1, q - 1), c) = Power(q, q - 1, 2 * c)
      BY <2>1, <3>1, <3>2, PowerOfDouble
    <3>4. Power(q, 1, c) = 1
      BY <2>1, <3>1, PowerOfOne
    <3>. QED  BY <2>1, <3>1, <3>2, <3>3, <3>4 DEF h
  <2>. QED  BY <2>3, <2>4
<1>. QED  BY <1>1, <1>2 DEF RootsExist

\* Modulus::sqrt returns a square root of every residue that has one, and None
\* only for one that has none; -1 has one for every modulus of the searches, so
\* that Ring::new gets the root it needs.
THEOREM RootsAreFound == Spec /\ []MillerRabinExact => []RootsExist
  BY SearchAlways, RootAlways, RootFollows, PTL

-----------------------------------------------------------------------------
(* Sums modulo n.                                                          *)

Plus(n, u, v) == (u + v) % n

LEMMA ResiduesAre ==
  ASSUME NEW n, Positive(n)
  PROVE  /\ Residues(n) \subseteq Int /\ 0 \in Residues(n)
         /\ \A u \in Residues(n) : u \in Int /\ u \in Nat /\ u % n = u
<1>1. \A u \in Residues(n) : u \in Int /\ u \in Nat
  BY DEF Residues, Positive
<1>2. ASSUME NEW u \in Residues(n) PROVE u % n = u
  BY <1>1, RemainderType
<1>3. 0 \in Residues(n)
  BY DEF Residues, Positive
<1>. QED  BY <1>1, <1>2, <1>3

LEMMA PlusLaws ==
  ASSUME NEW n, Positive(n), NEW u \in Int, NEW v \in Int, NEW w \in Int
  PROVE  /\ Plus(n, u, v) \in Residues(n) /\ Plus(n, u, v) \in Int
         /\ Plus(n, u, v) = Plus(n, v, u)
         /\ Plus(n, u, Plus(n, v, w)) = Plus(n, Plus(n, u, v), w)
         /\ Plus(n, u % n, v) = Plus(n, u, v) /\ Plus(n, u, v % n) = Plus(n, u, v)
         /\ Plus(n, 0, u) = u % n /\ Plus(n, u, 0) = u % n
         /\ Times(n, w, Plus(n, u, v)) = Plus(n, Times(n, w, u), Times(n, w, v))
<1>1. u + v \in Int /\ v + w \in Int /\ w * u \in Int /\ w * v \in Int
  OBVIOUS
<1>2. Plus(n, u, v) \in Residues(n) /\ Plus(n, u, v) \in Int
  BY <1>1, RemainderType DEF Plus
<1>3. Plus(n, u, v) = Plus(n, v, u)
  <2>1. u + v = v + u
    OBVIOUS
  <2>. QED  BY <2>1 DEF Plus
<1>4. Plus(n, u, Plus(n, v, w)) = Plus(n, Plus(n, u, v), w)
  <2>1. (u + ((v + w) % n)) % n = (u + (v + w)) % n
    BY <1>1, RemainderLaws
  <2>2. (((u + v) % n) + w) % n = ((u + v) + w) % n
    BY <1>1, RemainderLaws
  <2>3. u + (v + w) = (u + v) + w
    OBVIOUS
  <2>. QED  BY ONLY <2>1, <2>2, <2>3 DEF Plus
<1>5. Plus(n, u % n, v) = Plus(n, u, v) /\ Plus(n, u, v % n) = Plus(n, u, v)
  BY RemainderLaws DEF Plus
<1>6. Plus(n, 0, u) = u % n /\ Plus(n, u, 0) = u % n
  <2>1. 0 + u = u /\ u + 0 = u
    OBVIOUS
  <2>. QED  BY ONLY <2>1 DEF Plus
<1>7. Times(n, w, Plus(n, u, v)) = Plus(n, Times(n, w, u), Times(n, w, v))
  <2>1. (w * ((u + v) % n)) % n = (w * (u + v)) % n
    BY <1>1, RemainderLaws
  <2>2. (((w * u) % n) + ((w * v) % n)) % n = ((w * u) + ((w * v) % n)) % n
    <3>1. (w * v) % n \in Int
      BY <1>1, RemainderType
    <3>. QED  BY <1>1, <3>1, RemainderLaws
  <2>3. ((w * u) + ((w * v) % n)) % n = ((w * u) + (w * v)) % n
    BY <1>1, RemainderLaws
  <2>4. w * (u + v) = (w * u) + (w * v)
    OBVIOUS
  <2>. QED  BY ONLY <2>1, <2>2, <2>3, <2>4 DEF Plus, Times
<1>. QED  BY <1>2, <1>3, <1>4, <1>5, <1>6, <1>7

PlusIn(n) == [y \in Residues(n) \X Residues(n) |-> Plus(n, y[1], y[2])]

LEMMA PlusMonoid ==
  ASSUME NEW n, Positive(n)
  PROVE  /\ IsMonoid(Residues(n), PlusIn(n), 0)
         /\ \A u, v \in Residues(n) : PlusIn(n)[<<u, v>>] = Plus(n, u, v)
<1>. DEFINE P == PlusIn(n)
            U == Residues(n)
<1>0. 0 \in U /\ \A u \in U : u \in Int /\ u % n = u
  BY ResiduesAre
<1>1. \A u, v \in U : P[<<u, v>>] = Plus(n, u, v)
  BY DEF PlusIn
<1>2. \A u, v \in U : Plus(n, u, v) \in U
  BY <1>0, PlusLaws
<1>3. P \in [U \X U -> U]
  BY <1>2 DEF PlusIn
<1>4. \A u \in U : Plus(n, 0, u) = u
  BY <1>0, PlusLaws
<1>5. \A u, v \in U : Plus(n, u, v) = Plus(n, v, u)
  BY <1>0, PlusLaws
<1>6. \A u, v, w \in U : Plus(n, u, Plus(n, v, w)) = Plus(n, Plus(n, u, v), w)
  BY <1>0, PlusLaws
<1>. HIDE DEF P, U
<1>7. \A u, v, w \in U : P[<<u, P[<<v, w>>]>>] = P[<<P[<<u, v>>], w>>]
  <2>1. ASSUME NEW u \in U, NEW v \in U, NEW w \in U
        PROVE  P[<<u, P[<<v, w>>]>>] = P[<<P[<<u, v>>], w>>]
    <3>1. P[<<v, w>>] = Plus(n, v, w) /\ P[<<u, v>>] = Plus(n, u, v)
      BY <1>1
    <3>2. Plus(n, v, w) \in U /\ Plus(n, u, v) \in U
      BY <1>2
    <3>3. /\ P[<<u, Plus(n, v, w)>>] = Plus(n, u, Plus(n, v, w))
          /\ P[<<Plus(n, u, v), w>>] = Plus(n, Plus(n, u, v), w)
      BY <1>1, <3>2
    <3>. QED  BY <1>6, <3>1, <3>3
  <2>. QED  BY <2>1
<1>8. IsMonoid(U, P, 0)
  BY <1>0, <1>1, <1>3, <1>4, <1>5, <1>7 DEF IsMonoid
<1>. QED  BY <1>1, <1>8 DEF P, U

ModSum(n, c) == SumOf(PlusIn(n), 0, c)
IsRow(n, S, c) == IsFamily(c, S, Residues(n))

LEMMA ModSumIn ==
  ASSUME NEW n, Positive(n), NEW S, NEW c, IsRow(n, S, c)
  PROVE  ModSum(n, c) \in Residues(n) /\ ModSum(n, c) \in Int
  BY PlusMonoid, SumBasics, ResiduesAre DEF IsFamily, IsRow, ModSum

LEMMA ModSumSplits ==
  ASSUME NEW n, Positive(n), NEW S, NEW c, IsRow(n, S, c), NEW T \in SUBSET S
  PROVE  /\ ModSum(n, c) = Plus(n, ModSum(n, Part(c, T)), ModSum(n, Part(c, S \ T)))
         /\ IsRow(n, T, Part(c, T)) /\ IsRow(n, S \ T, Part(c, S \ T))
<1>0. IsFiniteSet(S) /\ c \in [S -> Residues(n)]
  BY DEF IsFamily, IsRow
<1>1. IsMonoid(Residues(n), PlusIn(n), 0)
  BY PlusMonoid
<1>2. SumOf(PlusIn(n), 0, c) = PlusIn(n)[<<SumOf(PlusIn(n), 0, Part(c, T)), SumOf(PlusIn(n), 0, Part(c, S \ T))>>]
  BY <1>0, <1>1, SumSplit
<1>3. IsRow(n, T, Part(c, T)) /\ IsRow(n, S \ T, Part(c, S \ T))
  BY <1>0, FS_Subset DEF IsFamily, Part, IsRow
<1>4. ModSum(n, Part(c, T)) \in Residues(n)
  BY <1>3, ModSumIn
<1>5. ModSum(n, Part(c, S \ T)) \in Residues(n)
  BY <1>3, ModSumIn
<1>. QED  BY <1>2, <1>3, <1>4, <1>5, PlusMonoid DEF ModSum

LEMMA ModSumRenumbered ==
  ASSUME NEW n, Positive(n), NEW S, NEW c, IsRow(n, S, c),
         NEW T, NEW b, IsRow(n, T, b), NEW p, Renumbers(p, T, S), \A t \in T : b[t] = c[p[t]]
  PROVE  ModSum(n, b) = ModSum(n, c)
<1>1. IsMonoid(Residues(n), PlusIn(n), 0)
  BY PlusMonoid
<1>. QED  BY <1>1, SumReindex DEF IsFamily, IsRow, ModSum

LEMMA ModSumOfSums ==
  ASSUME NEW n, Positive(n), NEW S, NEW b, IsRow(n, S, b), NEW c, IsRow(n, S, c),
         NEW h, IsRow(n, S, h), \A s \in S : h[s] = Plus(n, b[s], c[s])
  PROVE  ModSum(n, h) = Plus(n, ModSum(n, b), ModSum(n, c))
<1>1. /\ IsMonoid(Residues(n), PlusIn(n), 0)
      /\ \A u, v \in Residues(n) : PlusIn(n)[<<u, v>>] = Plus(n, u, v)
  BY PlusMonoid
<1>2. \A s \in S : h[s] = PlusIn(n)[<<b[s], c[s]>>]
  BY <1>1 DEF IsFamily, IsRow
<1>3. SumOf(PlusIn(n), 0, h) = PlusIn(n)[<<SumOf(PlusIn(n), 0, b), SumOf(PlusIn(n), 0, c)>>]
  BY <1>1, <1>2, SumOfSums DEF IsFamily, IsRow
<1>4. ModSum(n, b) \in Residues(n)
  BY ModSumIn
<1>5. ModSum(n, c) \in Residues(n)
  BY ModSumIn
<1>. QED  BY <1>1, <1>3, <1>4, <1>5 DEF ModSum

\* A factor in front of a sum.
LEMMA ModSumScaled ==
  ASSUME NEW n, Positive(n), NEW S, NEW c, IsRow(n, S, c), NEW w \in Int,
         NEW b, IsRow(n, S, b), \A s \in S : b[s] = Times(n, w, c[s])
  PROVE  Times(n, w, ModSum(n, c)) = ModSum(n, b)
<1>. DEFINE M == [u \in Residues(n) |-> Times(n, w, u)]
<1>1. /\ IsMonoid(Residues(n), PlusIn(n), 0)
      /\ \A u, v \in Residues(n) : PlusIn(n)[<<u, v>>] = Plus(n, u, v)
  BY PlusMonoid
<1>2. \A u \in Residues(n) : u \in Int
  BY ResiduesAre
<1>3. \A u \in Residues(n) : Times(n, w, u) \in Residues(n) /\ M[u] = Times(n, w, u)
  BY <1>2, TimesType
<1>4. M \in [Residues(n) -> Residues(n)] /\ M[0] = 0
  <2>1. 0 \in Residues(n) /\ Times(n, w, 0) = 0
    BY ResiduesAre, TimesUnits
  <2>. QED  BY <1>3, <2>1
<1>. HIDE DEF M
<1>5. ASSUME NEW u \in Residues(n), NEW v \in Residues(n)
      PROVE  M[PlusIn(n)[<<u, v>>]] = PlusIn(n)[<<M[u], M[v]>>]
  <2>1. Times(n, w, Plus(n, u, v)) = Plus(n, Times(n, w, u), Times(n, w, v)) /\ Plus(n, u, v) \in Residues(n)
    BY <1>2, PlusLaws
  <2>2. Times(n, w, u) \in Residues(n) /\ Times(n, w, v) \in Residues(n)
    BY <1>3
  <2>. QED  BY <1>1, <1>3, <2>1, <2>2
<1>6. IsAdditive(M, Residues(n), PlusIn(n), 0, Residues(n), PlusIn(n), 0)
  BY <1>4, <1>5 DEF IsAdditive
<1>7. IsFiniteSet(S) /\ c \in [S -> Residues(n)] /\ b \in [S -> Residues(n)]
  BY DEF IsRow, IsFamily
<1>8. \A s \in S : b[s] = M[c[s]]
  BY <1>3, <1>7
<1>9. M[SumOf(PlusIn(n), 0, c)] = SumOf(PlusIn(n), 0, b)
  BY ONLY <1>1, <1>6, <1>7, <1>8, SumThrough
<1>. QED  BY <1>3, <1>9, ModSumIn DEF ModSum

LEMMA ModSumOfOne ==
  ASSUME NEW n, Positive(n), NEW s, NEW c, IsRow(n, {s}, c)
  PROVE  ModSum(n, c) = c[s]
<1>1. IsMonoid(Residues(n), PlusIn(n), 0)
  BY PlusMonoid
<1>2. c[s] \in Residues(n) /\ Part(c, {s}) = c
  BY DEF IsRow, IsFamily, Part
<1>3. SumOf(PlusIn(n), 0, Part(c, {s})) = c[s]
  BY ONLY <1>1, <1>2, SumOfOne
<1>. QED  BY <1>2, <1>3 DEF ModSum

TableRows(n, row, b, S, J) ==
  \A i \in S : IsRow(n, J, row[i]) /\ \A j \in J : row[i][j] = b[<<i, j>>]
TableColumns(n, col, b, S, J) ==
  \A j \in J : IsRow(n, S, col[j]) /\ \A i \in S : col[j][i] = b[<<i, j>>]
SumsOfRows(n, c, row, S) == \A i \in S : c[i] = ModSum(n, row[i])

\* A table summed by rows and by columns, and as one sum.
LEMMA ModSumSwap ==
  ASSUME NEW n, Positive(n), NEW S, IsFiniteSet(S), NEW J, IsFiniteSet(J),
         NEW b, IsRow(n, S \X J, b),
         NEW row, TableRows(n, row, b, S, J), NEW col, TableColumns(n, col, b, S, J),
         NEW c, IsRow(n, S, c), SumsOfRows(n, c, row, S),
         NEW h, IsRow(n, J, h), SumsOfRows(n, h, col, J)
  PROVE  ModSum(n, c) = ModSum(n, h) /\ ModSum(n, b) = ModSum(n, c)
<1>1. IsMonoid(Residues(n), PlusIn(n), 0)
  BY PlusMonoid
<1>2. IsFamily(b, S \X J, Residues(n)) /\ IsFamily(c, S, Residues(n)) /\ IsFamily(h, J, Residues(n))
  BY DEF IsRow
<1>3. Rows2(row, b, S, J, Residues(n)) /\ Columns2(col, b, S, J, Residues(n))
  BY DEF IsRow, Rows2, Columns2, TableRows, TableColumns
<1>4. AreSums(c, row, S, PlusIn(n), 0) /\ AreSums(h, col, J, PlusIn(n), 0)
  BY DEF AreSums, ModSum, SumsOfRows
<1>5. SumOf(PlusIn(n), 0, c) = SumOf(PlusIn(n), 0, h)
  BY ONLY <1>1, <1>2, <1>3, <1>4, IsFiniteSet(S), IsFiniteSet(J), SumSwap
<1>6. SumOf(PlusIn(n), 0, b) = SumOf(PlusIn(n), 0, c)
  BY ONLY <1>1, <1>2, <1>3, <1>4, IsFiniteSet(S), IsFiniteSet(J), SumOfPairs
<1>. QED  BY <1>5, <1>6 DEF ModSum

-----------------------------------------------------------------------------
(* MapThenSumSet is a sum.                                                 *)

\* The sum of integers modulo n is the sum of their remainders.
LEMMA SumOfRemainders ==
  ASSUME NEW n, Positive(n), NEW S, NEW c, IsFamily(c, S, Int),
         NEW b, IsRow(n, S, b), \A s \in S : b[s] = c[s] % n
  PROVE  SumZ(c) % n = ModSum(n, b)
<1>. DEFINE M == [u \in Int |-> u % n]
<1>1. /\ IsMonoid(Residues(n), PlusIn(n), 0)
      /\ \A u, v \in Residues(n) : PlusIn(n)[<<u, v>>] = Plus(n, u, v)
  BY PlusMonoid
<1>2. \A u \in Int : u % n \in Residues(n) /\ u % n \in Int /\ M[u] = u % n
  BY RemainderType
<1>3. M \in [Int -> Residues(n)] /\ M[0] = 0
  <2>1. 0 % n = 0
    BY ResiduesAre
  <2>. QED  BY <1>2, <2>1
<1>. HIDE DEF M
<1>4. ASSUME NEW u \in Int, NEW v \in Int PROVE M[PlusZ[<<u, v>>]] = PlusIn(n)[<<M[u], M[v]>>]
  <2>1. PlusZ[<<u, v>>] = u + v /\ u + v \in Int
    BY DEF PlusZ
  <2>2. Plus(n, u % n, v % n) = Plus(n, u, v)
    <3>1. u % n \in Int /\ v % n \in Int /\ 0 \in Int
      BY <1>2
    <3>2. Plus(n, u % n, v % n) = Plus(n, u, v % n)
      BY <3>1, PlusLaws
    <3>3. Plus(n, u, v % n) = Plus(n, u, v)
      BY <3>1, PlusLaws
    <3>. QED  BY <3>2, <3>3
  <2>3. PlusIn(n)[<<u % n, v % n>>] = Plus(n, u % n, v % n)
    BY <1>1, <1>2
  <2>4. M[u + v] = (u + v) % n
    BY <1>2, <2>1
  <2>. QED  BY <1>2, <2>1, <2>2, <2>3, <2>4 DEF Plus
<1>5. IsAdditive(M, Int, PlusZ, 0, Residues(n), PlusIn(n), 0)
  BY <1>3, <1>4 DEF IsAdditive
<1>6. IsFiniteSet(S) /\ c \in [S -> Int] /\ b \in [S -> Residues(n)]
  BY DEF IsRow, IsFamily
<1>7. \A s \in S : b[s] = M[c[s]]
  BY <1>2, <1>6
<1>8. M[SumOf(PlusZ, 0, c)] = SumOf(PlusIn(n), 0, b)
  BY ONLY <1>1, <1>5, <1>6, <1>7, Ints, SumThrough
<1>9. SumZ(c) \in Int
  BY AddedUp
<1>. QED  BY <1>2, <1>8, <1>9 DEF ModSum, SumZ

\* A coefficient of Reduced, whose terms are b.
HasTerms(b, v, n, rho, j) ==
  /\ IsRow(q, 0..(d \div n - 1), b)
  /\ \A t \in 0..(d \div n - 1) : b[t] = (v[j + t * n] * pow(q, rho, t)) % q

LEMMA ReducedIs ==
  ASSUME Positive(q), NEW v, NEW n \in Nat, NEW rho, NEW j \in 0..(n - 1),
         NEW b, HasTerms(b, v, n, rho, j)
  PROVE  Reduced(v, n, rho)[j] = ModSum(q, b)
<1>0. /\ IsRow(q, 0..(d \div n - 1), b)
      /\ \A t \in 0..(d \div n - 1) : b[t] = (v[j + t * n] * pow(q, rho, t)) % q
  BY DEF HasTerms
<1>. DEFINE S == 0..(d \div n - 1)
            e(t) == (v[j + t * n] * pow(q, rho, t)) % q
            Is(h) == h = [s \in SUBSET S |-> IF s = {} THEN 0 ELSE e(Pick(s)) + h[s \ {Pick(s)}]]
            total == CHOOSE h : Is(h)
<1>1. Reduced(v, n, rho)[j] = total[S] % q
  BY Zenon DEF Reduced, MapThenSumSet, MapThenFoldSet, Pick
<1>2. \A s \in SUBSET S : s # {} => e(Pick(s)) = b[Pick(s)]
  BY <1>0 DEF Pick
<1>3. IsFamily(b, S, Int) /\ \A t \in S : b[t] % q = b[t]
  BY <1>0, ResiduesAre DEF IsRow, IsFamily
<1>. HIDE DEF e, S
<1>4. \A h : Is(h) <=> AddsUp(h, b, S)
  BY <1>0, <1>2 DEF AddsUp
<1>. HIDE DEF Is
<1>5. \E h : Is(h)
  BY <1>3, <1>4, AddedUp
<1>6. Is(total)
  BY <1>5, Zenon
<1>7. total[S] = SumZ(b)
  BY <1>3, <1>4, <1>6, AddedUp
<1>8. SumZ(b) % q = ModSum(q, b)
  BY <1>0, <1>3, SumOfRemainders DEF S
<1>. QED  BY <1>1, <1>7, <1>8

-----------------------------------------------------------------------------
(* Coefficients modulo X^l - rho, and how a block halves.                  *)

\* Coefficient j of v modulo X^l - rho, v being of e blocks of l.
Coef(n, e, v, l, rho, j) ==
  ModSum(n, [t \in 0..(e - 1) |-> Times(n, v[j + t * l], Power(n, rho, t))])

\* The coefficients that j is added up from are integers.
HasColumn(v, e, l, j) == \A t \in 0..(e - 1) : v[j + t * l] \in Int

LEMMA CoefRow ==
  ASSUME NEW n, AtLeastTwo(n), NEW e \in Nat, NEW v, NEW l, NEW rho \in Int, NEW j, HasColumn(v, e, l, j)
  PROVE  /\ IsRow(n, 0..(e - 1), [t \in 0..(e - 1) |-> Times(n, v[j + t * l], Power(n, rho, t))])
         /\ Coef(n, e, v, l, rho, j) \in Residues(n) /\ Coef(n, e, v, l, rho, j) \in Int
<1>0. Positive(n)
  BY TwoIsPositive
<1>. DEFINE b == [t \in 0..(e - 1) |-> Times(n, v[j + t * l], Power(n, rho, t))]
<1>1. ASSUME NEW t \in 0..(e - 1) PROVE Times(n, v[j + t * l], Power(n, rho, t)) \in Residues(n)
  <2>. DEFINE y == v[j + t * l]
  <2>1. y \in Int /\ t \in Nat
    BY DEF HasColumn
  <2>. HIDE DEF y
  <2>2. Power(n, rho, t) \in Int
    BY <2>1, PowerSteps
  <2>3. Times(n, y, Power(n, rho, t)) \in Residues(n)
    BY <1>0, <2>1, <2>2, TimesType
  <2>. QED  BY <2>3 DEF y
<1>2. IsFiniteSet(0..(e - 1))
  BY FS_Interval
<1>3. IsRow(n, 0..(e - 1), b)
  BY <1>1, <1>2 DEF IsRow, IsFamily
<1>. QED  BY <1>0, <1>3, ModSumIn DEF Coef

\* Twice as many coefficients modulo a square's root: the butterfly.
LEMMA HalvedBlock ==
  ASSUME NEW n, AtLeastTwo(n), NEW e \in Nat, NEW v, NEW l \in Nat, NEW z \in Int, NEW j \in Nat,
         HasColumn(v, 2 * e, l, j)
  PROVE  /\ Coef(n, 2 * e, v, l, z, j)
              = Plus(n, Coef(n, e, v, 2 * l, Times(n, z, z), j),
                        Times(n, z, Coef(n, e, v, 2 * l, Times(n, z, z), j + l)))
         /\ HasColumn(v, e, 2 * l, j) /\ HasColumn(v, e, 2 * l, j + l)
<1>. DEFINE rho == Times(n, z, z)
            S == 0..(2 * e - 1)
            U == 0..(e - 1)
            b == [t \in S |-> Times(n, v[j + t * l], Power(n, z, t))]
            c == [t \in U |-> Times(n, v[j + t * (2 * l)], Power(n, rho, t))]
            h == [t \in U |-> Times(n, v[(j + l) + t * (2 * l)], Power(n, rho, t))]
            w == [t \in U |-> b[2 * t + 1]]
            T == {t \in S : t % 2 = 0}
<1>0. Positive(n) /\ rho \in Int
  <2>1. Positive(n)
    BY TwoIsPositive
  <2>. QED  BY <2>1, TimesType
<1>1. ASSUME NEW t \in U
      PROVE  /\ 2 * t \in T /\ 2 * t + 1 \in S \ T /\ t \in Nat
             /\ j + (2 * t) * l = j + t * (2 * l)
             /\ j + (2 * t + 1) * l = (j + l) + t * (2 * l)
  <2>1. t \in Nat /\ t < e
    OBVIOUS
  <2>2. 2 * t \in S /\ 2 * t + 1 \in S /\ (2 * t) % 2 = 0 /\ (2 * t + 1) % 2 = 1
    BY <2>1
  <2>3. (2 * t) * l = t * (2 * l) /\ (2 * t + 1) * l = l + t * (2 * l)
    BY <2>1
  <2>4. t * (2 * l) \in Int
    BY <2>1
  <2>. HIDE DEF S
  <2>. QED  BY <2>1, <2>2, <2>3, <2>4
<1>2. HasColumn(v, e, 2 * l, j) /\ HasColumn(v, e, 2 * l, j + l)
  <2>1. \A t \in S : v[j + t * l] \in Int
    BY DEF HasColumn
  <2>2. ASSUME NEW t \in U PROVE v[j + t * (2 * l)] \in Int /\ v[(j + l) + t * (2 * l)] \in Int
    <3>1. 2 * t \in S /\ 2 * t + 1 \in S
      BY <1>1
    <3>2. v[j + (2 * t) * l] \in Int /\ v[j + (2 * t + 1) * l] \in Int
      BY <2>1, <3>1
    <3>. QED  BY <1>1, <3>2
  <2>. QED  BY <2>2 DEF HasColumn
<1>3. IsRow(n, S, b)
  <2>1. 2 * e \in Nat
    OBVIOUS
  <2>. QED  BY <2>1, CoefRow
<1>4. IsRow(n, U, c) /\ Coef(n, e, v, 2 * l, rho, j) = ModSum(n, c)
  BY <1>0, <1>2, CoefRow DEF Coef
<1>5. IsRow(n, U, h) /\ Coef(n, e, v, 2 * l, rho, j + l) = ModSum(n, h)
  BY <1>0, <1>2, CoefRow DEF Coef
<1>6. ASSUME NEW t \in U
      PROVE  b[2 * t] = c[t] /\ w[t] = Times(n, z, h[t])
  <2>. DEFINE y == v[j + (2 * t) * l]
              s == v[j + (2 * t + 1) * l]
  <2>1. 2 * t \in S /\ 2 * t + 1 \in S /\ t \in Nat /\ 2 * t \in Nat
    BY <1>1
  <2>2. y \in Int /\ s \in Int
    BY <2>1 DEF HasColumn
  <2>3. /\ b[2 * t] = Times(n, y, Power(n, z, 2 * t)) /\ w[t] = Times(n, s, Power(n, z, 2 * t + 1))
        /\ c[t] = Times(n, y, Power(n, rho, t)) /\ h[t] = Times(n, s, Power(n, rho, t))
    BY <1>1, <2>1
  <2>. HIDE DEF b, c, h, w, y, s
  <2>4. Power(n, rho, t) = Power(n, z, 2 * t) /\ Power(n, z, 2 * t + 1) = Times(n, Power(n, z, 2 * t), z)
    BY <2>1, PowerOfDouble, PowerSteps
  <2>. DEFINE g1 == Power(n, z, 2 * t)
  <2>5. g1 \in Int
    BY <2>1, PowerSteps
  <2>. HIDE DEF g1
  <2>6. Times(n, s, Times(n, g1, z)) = Times(n, z, Times(n, s, g1))
    <3>1. Times(n, Times(n, s, g1), z) = Times(n, s, Times(n, g1, z))
      BY <1>0, <2>2, <2>5, TimesAssociates
    <3>2. Times(n, s, g1) \in Int
      BY <1>0, <2>2, <2>5, TimesType
    <3>3. Times(n, Times(n, s, g1), z) = Times(n, z, Times(n, s, g1))
      BY <1>0, <3>2, TimesCommutes
    <3>. QED  BY <3>1, <3>3
  <2>. QED  BY <2>3, <2>4, <2>6 DEF g1
<1>7. ModSum(n, b) = Plus(n, ModSum(n, Part(b, T)), ModSum(n, Part(b, S \ T)))
      /\ IsRow(n, T, Part(b, T)) /\ IsRow(n, S \ T, Part(b, S \ T))
  <2>1. T \in SUBSET S
    OBVIOUS
  <2>. HIDE DEF b, T, S
  <2>. QED  BY <1>0, <1>3, <2>1, ModSumSplits
<1>8. ModSum(n, c) = ModSum(n, Part(b, T))
  <2>. DEFINE p == [t \in U |-> 2 * t]
  <2>1. Renumbers(p, U, T)
    <3>1. ASSUME NEW s \in T PROVE \E t \in U : p[t] = s
      <4>1. s \div 2 \in U /\ 2 * (s \div 2) = s
        OBVIOUS
      <4>. QED  BY <4>1
    <3>2. \A t \in U : p[t] \in T
      BY <1>1
    <3>3. \A s, t \in U : p[s] = p[t] => s = t
      OBVIOUS
    <3>. QED  BY <3>1, <3>2, <3>3 DEF Renumbers
  <2>2. \A t \in U : c[t] = Part(b, T)[p[t]]
    BY <1>1, <1>6 DEF Part
  <2>. HIDE DEF b, c, T, U, S, p
  <2>. QED  BY <1>0, <1>4, <1>7, <2>1, <2>2, ModSumRenumbered
<1>9. IsRow(n, U, w)
  <2>1. \A t \in U : w[t] \in Residues(n)
    BY <1>1, <1>3 DEF IsRow, IsFamily
  <2>. QED  BY <1>4, <2>1 DEF IsRow, IsFamily
<1>10. ModSum(n, w) = ModSum(n, Part(b, S \ T))
  <2>. DEFINE p == [t \in U |-> 2 * t + 1]
  <2>1. Renumbers(p, U, S \ T)
    <3>1. ASSUME NEW s \in S \ T PROVE \E t \in U : p[t] = s
      <4>1. s \div 2 \in U /\ 2 * (s \div 2) + 1 = s
        OBVIOUS
      <4>. QED  BY <4>1
    <3>2. \A t \in U : p[t] \in S \ T
      BY <1>1
    <3>3. \A s, t \in U : p[s] = p[t] => s = t
      OBVIOUS
    <3>. QED  BY <3>1, <3>2, <3>3 DEF Renumbers
  <2>2. \A t \in U : w[t] = Part(b, S \ T)[p[t]]
    BY <1>1 DEF Part
  <2>. HIDE DEF b, w, T, U, S, p
  <2>. QED  BY <1>0, <1>7, <1>9, <2>1, <2>2, ModSumRenumbered
<1>11. Times(n, z, ModSum(n, h)) = ModSum(n, w)
  <2>1. \A t \in U : w[t] = Times(n, z, h[t])
    BY <1>6
  <2>. HIDE DEF h, w, U
  <2>. QED  BY <1>0, <1>5, <1>9, <2>1, ModSumScaled
<1>12. Coef(n, 2 * e, v, l, z, j) = ModSum(n, b)
  BY DEF Coef
<1>. HIDE DEF b, c, h, w, T, U, S, rho
<1>13. Plus(n, ModSum(n, Part(b, T)), ModSum(n, Part(b, S \ T))) = Plus(n, ModSum(n, c), ModSum(n, w))
  BY <1>8, <1>10
<1>14. Coef(n, 2 * e, v, l, z, j)
         = Plus(n, Coef(n, e, v, 2 * l, rho, j), Times(n, z, Coef(n, e, v, 2 * l, rho, j + l)))
  BY <1>4, <1>5, <1>7, <1>11, <1>12, <1>13
<1>. QED  BY <1>2, <1>14 DEF rho

-----------------------------------------------------------------------------
(* The two halves of a block from the block, and the block from its halves.  *)

LEMMA NegatedRoot ==
  ASSUME NEW n, Positive(n), NEW z \in Int
  PROVE  /\ n - z \in Int /\ Times(n, n - z, n - z) = Times(n, z, z)
         /\ \A w \in Int : Times(n, n - z, w) = (-(z * w)) % n
<1>0. n \in Int /\ n - z \in Int
  BY DEF Positive
<1>1. Times(n, n - z, n - z) = Times(n, z, z)
  <2>. DEFINE u == (n - z) * (n - z)
              v == z * z
              j == n - 2 * z
  <2>1. u \in Int /\ v \in Int /\ j \in Int
    BY <1>0
  <2>2. u = v + n * j
    BY <1>0
  <2>. HIDE DEF u, v, j
  <2>3. u % n = v % n
    BY <2>1, <2>2, SameRemainder
  <2>. QED  BY <2>3 DEF Times, u, v
<1>2. ASSUME NEW w \in Int PROVE Times(n, n - z, w) = (-(z * w)) % n
  <2>. DEFINE u == (n - z) * w
              v == -(z * w)
  <2>1. u \in Int /\ v \in Int
    BY <1>0
  <2>2. u = v + n * w
    BY <1>0
  <2>. HIDE DEF u, v
  <2>3. u % n = v % n
    BY <2>1, <2>2, SameRemainder
  <2>. QED  BY <2>3 DEF Times, u, v
<1>. QED  BY <1>0, <1>1, <1>2

LEMMA BlockSplits ==
  ASSUME NEW n, AtLeastTwo(n), NEW e \in Nat, NEW v, NEW l \in Nat, NEW z \in Int, NEW j \in Nat,
         HasColumn(v, 2 * e, l, j), NEW rho, rho = Times(n, z, z),
         NEW u, u = Coef(n, e, v, 2 * l, rho, j), NEW w, w = Coef(n, e, v, 2 * l, rho, j + l)
  PROVE  /\ Coef(n, 2 * e, v, l, z, j) = (u + z * w) % n
         /\ Coef(n, 2 * e, v, l, n - z, j) = (u - z * w) % n
         /\ u \in Int /\ w \in Int /\ u \in Residues(n) /\ w \in Residues(n)
<1>0. Positive(n)
  BY TwoIsPositive
<1>1. n - z \in Int /\ Times(n, n - z, n - z) = rho /\ rho \in Int
  BY <1>0, NegatedRoot, TimesType
<1>2. HasColumn(v, e, 2 * l, j) /\ HasColumn(v, e, 2 * l, j + l)
  BY HalvedBlock
<1>3. u \in Int /\ w \in Int /\ u \in Residues(n) /\ w \in Residues(n)
  BY <1>1, <1>2, CoefRow
<1>4. Coef(n, 2 * e, v, l, z, j) = Plus(n, u, Times(n, z, w))
  BY HalvedBlock
<1>5. Coef(n, 2 * e, v, l, n - z, j) = Plus(n, u, Times(n, n - z, w))
  BY <1>1, HalvedBlock
<1>6. Times(n, n - z, w) = (-(z * w)) % n
  BY <1>0, <1>3, NegatedRoot
<1>7. z * w \in Int /\ -(z * w) \in Int
  BY <1>3
<1>8. (u + ((z * w) % n)) % n = (u + z * w) % n /\ (u + ((-(z * w)) % n)) % n = (u + (-(z * w))) % n
  <2>. DEFINE y == z * w
  <2>1. y \in Int /\ -y \in Int
    BY <1>7
  <2>. HIDE DEF y
  <2>2. (u + (y % n)) % n = (u + y) % n
    BY <1>0, <1>3, <2>1, RemainderLaws
  <2>3. (u + ((-y) % n)) % n = (u + (-y)) % n
    BY <1>0, <1>3, <2>1, RemainderLaws
  <2>. QED  BY <2>2, <2>3 DEF y
<1>9. u + (-(z * w)) = u - z * w
  BY <1>3, <1>7
<1>. QED  BY <1>3, <1>4, <1>5, <1>6, <1>8, <1>9 DEF Plus, Times

AreHalves(n, u, w, z, b, A, B) ==
  A = Times(n, b, (u + z * w) % n) /\ B = Times(n, b, (u - z * w) % n)

Join(n, u, w, z, b, A, B) ==
  /\ A \in Int /\ B \in Int
  /\ \A y \in Int : (y * (A + B)) % n = (y * (2 * b * u)) % n
  /\ \A y \in Int : (y * (A - B)) % n = (y * (2 * b * z * w)) % n

\* The sum and the difference of the halves, times b.
LEMMA HalvesJoin ==
  ASSUME NEW n, Positive(n), NEW u \in Int, NEW w \in Int, NEW z \in Int, NEW b \in Int,
         NEW A, NEW B, AreHalves(n, u, w, z, b, A, B)
  PROVE  Join(n, u, w, z, b, A, B)
<1>. DEFINE t == z * w
            s1 == u + t
            s2 == u - t
<1>0. t \in Int /\ s1 \in Int /\ s2 \in Int
  OBVIOUS
<1>1. A = (b * s1) % n /\ B = (b * s2) % n
  <2>0. A = Times(n, b, s1 % n) /\ B = Times(n, b, s2 % n)
    BY DEF AreHalves
  <2>. HIDE DEF s1, s2
  <2>1. Times(n, b, s1 % n) = Times(n, b, s1) /\ Times(n, b, s2 % n) = Times(n, b, s2)
    BY <1>0, TimesReduces
  <2>. QED  BY <2>0, <2>1 DEF Times
<1>. DEFINE p1 == b * s1
            p2 == b * s2
<1>2. p1 \in Int /\ p2 \in Int /\ p1 + p2 = 2 * b * u /\ p1 - p2 = 2 * b * t
  <2>1. b * (u + t) = b * u + b * t /\ b * (u - t) = b * u - b * t
    BY <1>0
  <2>. DEFINE bu == b * u
              bt == b * t
  <2>2. bu \in Int /\ bt \in Int /\ p1 = bu + bt /\ p2 = bu - bt
    BY <1>0, <2>1
  <2>3. 2 * b * u = 2 * bu /\ 2 * b * t = 2 * bt
    BY <1>0
  <2>. HIDE DEF t, bu, bt, p1, p2
  <2>. QED  BY <2>2, <2>3
<1>3. 2 * b * t = 2 * b * z * w
  <2>1. b * (z * w) = (b * z) * w
    OBVIOUS
  <2>. QED  OBVIOUS
<1>. HIDE DEF p1, p2, s1, s2, t
<1>4. PICK i \in Int : p1 = n * i + A
  BY <1>1, <1>2, RemainderType DEF p1
<1>5. PICK j \in Int : p2 = n * j + B
  BY <1>1, <1>2, RemainderType DEF p2
<1>6. A \in Int /\ B \in Int
  BY <1>1, <1>2, RemainderType DEF p1, p2
<1>7. ASSUME NEW y \in Int
      PROVE  (y * (A + B)) % n = (y * (p1 + p2)) % n /\ (y * (A - B)) % n = (y * (p1 - p2)) % n
  <2>. DEFINE l == -(i + j)
              m == j - i
  <2>1. n \in Int /\ l \in Int /\ m \in Int /\ y * l \in Int /\ y * m \in Int
    BY DEF Positive
  <2>2. A + B = (p1 + p2) + n * l /\ A - B = (p1 - p2) + n * m
    <3>. DEFINE ni == n * i
                nj == n * j
                nl == n * l
                nm == n * m
    <3>1. nl = -ni - nj /\ nm = nj - ni /\ ni \in Int /\ nj \in Int
      BY <2>1
    <3>2. p1 = ni + A /\ p2 = nj + B
      BY <1>4, <1>5
    <3>. HIDE DEF l, m, ni, nj, nl, nm
    <3>3. A + B = (p1 + p2) + nl /\ A - B = (p1 - p2) + nm
      BY <1>2, <1>6, <3>1, <3>2
    <3>. QED  BY <3>3 DEF nl, nm
  <2>. HIDE DEF l, m
  <2>3. y * (A + B) = y * (p1 + p2) + n * (y * l) /\ y * (A - B) = y * (p1 - p2) + n * (y * m)
    BY <1>2, <2>1, <2>2
  <2>4. y * (A + B) \in Int /\ y * (p1 + p2) \in Int /\ y * (A - B) \in Int /\ y * (p1 - p2) \in Int
    BY <1>2, <1>6
  <2>. DEFINE a1 == y * (A + B)
              a2 == y * (p1 + p2)
              a3 == y * (A - B)
              a4 == y * (p1 - p2)
              l1 == y * l
              m1 == y * m
  <2>5. /\ a1 \in Int /\ a2 \in Int /\ a3 \in Int /\ a4 \in Int /\ l1 \in Int /\ m1 \in Int
        /\ a1 = a2 + n * l1 /\ a3 = a4 + n * m1
    BY <2>1, <2>3, <2>4
  <2>. HIDE DEF a1, a2, a3, a4, l1, m1
  <2>6. a1 % n = a2 % n
    BY <2>5, SameRemainder
  <2>7. a3 % n = a4 % n
    BY <2>5, SameRemainder
  <2>. QED  BY <2>6, <2>7 DEF a1, a2, a3, a4
<1>. QED  BY <1>2, <1>3, <1>6, <1>7 DEF Join

-----------------------------------------------------------------------------
(* The coefficients of a product modulo X^m + 1, taken modulo X^l - rho.   *)

\* The factor of what wraps around.
Wrap(s, i, j) == IF j <= i THEN 1 ELSE s

\* Coefficient i of the product of v and w modulo X^l - s.
Conv(n, v, w, l, s, i) ==
  ModSum(n, [j \in 0..(l - 1) |-> Times(n, v[j], Times(n, Wrap(s, i, j), w[(i - j) % l]))])

Sized(n, m, v) == v \in [0..(m - 1) -> Residues(n)]

LEMMA WithinBlocks ==
  ASSUME NEW l \in Nat, l > 0, NEW e \in Nat, NEW j \in 0..(l - 1), NEW t \in 0..(e - 1)
  PROVE  /\ j + t * l \in 0..(l * e - 1) /\ t * l \in Nat /\ l * e \in Nat
         /\ (j + t * l) % l = j /\ (j + t * l) \div l = t
<1>1. t * l \in Nat /\ l * e \in Nat /\ t \in Nat /\ j \in Nat /\ j < l
  OBVIOUS
<1>2. t * l + l <= l * e
  <2>1. PICK k1 \in Nat : e = t + 1 + k1
    <3>1. e - t - 1 \in Nat /\ e = t + 1 + (e - t - 1)
      OBVIOUS
    <3>. QED  BY <3>1
  <2>2. l * e = t * l + l + l * k1 /\ l * k1 \in Nat
    BY <2>1
  <2>. DEFINE le == l * e
              tl == t * l
              lk == l * k1
  <2>3. le = tl + l + lk /\ lk \in Nat /\ tl \in Nat
    BY <1>1, <2>2
  <2>. HIDE DEF le, tl, lk
  <2>4. tl + l <= le
    BY <2>3
  <2>. QED  BY <2>4 DEF tl, le
<1>3. (j + t * l) % l = j /\ (j + t * l) \div l = t
  <2>. DEFINE u == j + t * l
  <2>1. u = l * t + j /\ u \in Int /\ t \in Int
    BY <1>1
  <2>. HIDE DEF u
  <2>2. u % l = j /\ u \div l = t
    BY <2>1, DivisionIs
  <2>. QED  BY <2>2 DEF u
<1>4. j + t * l \in 0..(l * e - 1)
  <2>. DEFINE le == l * e
              tl == t * l
  <2>1. le \in Nat /\ tl \in Nat /\ tl + l <= le
    BY <1>1, <1>2
  <2>. HIDE DEF le, tl
  <2>2. j + tl \in 0..(le - 1)
    BY <1>1, <2>1
  <2>. QED  BY <2>2 DEF le, tl
<1>. QED  BY <1>1, <1>3, <1>4

LEMMA BlockOf ==
  ASSUME NEW l \in Nat, l > 0, NEW e \in Nat, NEW u \in 0..(l * e - 1)
  PROVE  u % l \in 0..(l - 1) /\ u \div l \in 0..(e - 1) /\ u = (u % l) + (u \div l) * l
<1>1. l * e \in Nat
  OBVIOUS
<1>2. u \in Nat /\ u < l * e
  BY <1>1
<1>3. u \div l \in Nat /\ u % l \in 0..(l - 1) /\ u = l * (u \div l) + (u % l)
  BY <1>2, Division
<1>4. u \div l < e
  <2>1. SUFFICES ASSUME u \div l >= e PROVE FALSE
    BY <1>3
  <2>. DEFINE t == u \div l
              k1 == t - e
  <2>2. k1 \in Nat /\ t = e + k1 /\ t \in Nat
    BY <1>3, <2>1
  <2>. HIDE DEF k1, t
  <2>3. l * t = l * e + l * k1 /\ l * k1 \in Nat
    BY <2>2
  <2>. DEFINE le == l * e
              tl == l * t
              lk == l * k1
  <2>4. tl = le + lk /\ lk \in Nat /\ le \in Nat /\ u = tl + (u % l) /\ u < le
    BY <1>1, <1>2, <1>3, <2>3 DEF t
  <2>. HIDE DEF le, tl, lk
  <2>. QED  BY <1>3, <2>4
<1>5. (u \div l) * l = l * (u \div l)
  BY <1>3
<1>. QED  BY <1>3, <1>4, <1>5

\* How often what is at u goes around on the way to place i.
Carry(l, i, u) == (u \div l) + (IF u % l > i THEN 1 ELSE 0)

\* Place (i + t*l) - u is o + (t - c)*l, going around after l*e.
Rotates(l, e, i, u, o, c) ==
  /\ c \in 0..e /\ o \in 0..(l - 1)
  /\ \A t \in 0..(e - 1) :
       /\ u <= i + t * l <=> t >= c
       /\ ((i + t * l) - u) % (l * e) = o + (IF t >= c THEN t - c ELSE t - c + e) * l

LEMMA RotatedPlaces ==
  ASSUME NEW l \in Nat, l > 0, NEW e \in Nat, NEW i \in 0..(l - 1), NEW u \in 0..(l * e - 1)
  PROVE  /\ Rotates(l, e, i, u, (i - u) % l, Carry(l, i, u))
         /\ (i - u) % l = (i - (u % l)) % l
<1>. DEFINE o == (i - u) % l
            c == Carry(l, i, u)
            j == u % l
            s == u \div l
            b == IF j > i THEN 1 ELSE 0
            m == l * e
<1>1. j \in 0..(l - 1) /\ s \in 0..(e - 1) /\ u = j + s * l
  BY BlockOf
<1>. HIDE DEF j, s, o, c
<1>2. c = s + b
  BY DEF Carry, j, s, c
<1>3. c \in 0..e /\ c \in Nat
  BY <1>1, <1>2
<1>4. i - j + b * l \in 0..(l - 1)
  BY <1>1
<1>5. i - u = l * (-c) + (i - j + b * l)
  <2>1. CASE j > i
    <3>1. c = s + 1
      BY <1>2, <2>1
    <3>2. l * (-c) = -(s * l) - l
      BY <1>1, <3>1
    <3>. QED  BY <1>1, <2>1, <3>2
  <2>2. CASE ~(j > i)
    <3>1. c = s
      BY <1>1, <1>2, <2>2
    <3>2. l * (-c) = -(s * l)
      BY <1>1, <3>1
    <3>. QED  BY <1>1, <2>2, <3>2
  <2>. QED  BY <2>1, <2>2
<1>6. o = i - j + b * l
  <2>. DEFINE y == i - u
              k1 == -c
              o1 == i - j + b * l
  <2>1. y \in Int /\ k1 \in Int /\ o1 \in 0..(l - 1) /\ y = l * k1 + o1
    <3>1. l * e \in Nat
      OBVIOUS
    <3>. QED  BY <1>3, <1>4, <1>5, <3>1
  <2>. HIDE DEF y, k1, o1
  <2>2. y % l = o1
    BY <2>1, DivisionIs
  <2>. QED  BY <2>2 DEF y, o1, o
<1>7. o = (i - j) % l
  <2>. DEFINE y == i - j
              k1 == -b
  <2>1. y \in Int /\ k1 \in Int /\ o \in 0..(l - 1) /\ y = l * k1 + o
    BY <1>1, <1>4, <1>6
  <2>. HIDE DEF y, k1
  <2>2. y % l = o
    BY <2>1, DivisionIs
  <2>. QED  BY <2>2 DEF y
<1>8. i - u = o - c * l /\ o \in 0..(l - 1) /\ c * l \in Nat /\ m \in Nat /\ u \in Nat
  <2>1. l * (-c) = -(c * l) /\ c * l \in Nat /\ l * e \in Nat
    BY <1>3
  <2>. DEFINE y == i - j + b * l
              cl == c * l
              nl == l * (-c)
  <2>2. i - u = nl + y /\ nl = -cl /\ o = y /\ cl \in Nat /\ y \in 0..(l - 1)
    BY <1>4, <1>5, <1>6, <2>1
  <2>. HIDE DEF y, cl, nl
  <2>3. i - u = o - cl /\ o \in 0..(l - 1)
    BY <2>2
  <2>. QED  BY <2>1, <2>3 DEF cl
<1>9. ASSUME NEW t \in 0..(e - 1)
      PROVE  /\ u <= i + t * l <=> t >= c
             /\ ((i + t * l) - u) % (l * e) = o + (IF t >= c THEN t - c ELSE t - c + e) * l
  <2>. DEFINE y == (i + t * l) - u
  <2>1. y = o + (t - c) * l /\ y \in Int /\ t * l \in Nat
    <3>1. (t - c) * l = t * l - c * l /\ t * l \in Nat
      BY <1>3
    <3>. DEFINE tl == t * l
                cl == c * l
    <3>2. i - u = o - cl /\ cl \in Nat /\ tl \in Nat
      BY <1>8, <3>1
    <3>. HIDE DEF tl, cl
    <3>3. (i + tl) - u = o + (tl - cl) /\ (i + tl) - u \in Int
      BY <1>8, <3>2
    <3>. QED  BY <3>1, <3>3 DEF tl, cl
  <2>2. CASE t >= c
    <3>. DEFINE r1 == t - c
    <3>1. r1 \in 0..(e - 1) /\ r1 \in Nat
      BY <1>3, <2>2
    <3>2. o + r1 * l \in 0..(m - 1) /\ r1 * l \in Nat
      BY <1>8, <3>1, WithinBlocks
    <3>3. y = m * 0 + (o + r1 * l) /\ 0 \in Int /\ m > 0
      BY <1>8, <2>1, <3>2
    <3>. DEFINE z == o + r1 * l
                k1 == 0
    <3>. HIDE DEF y, r1, m
    <3>6. z \in 0..(m - 1) /\ y = m * k1 + z /\ k1 \in Int /\ y \in Int /\ m \in Nat /\ m > 0
      BY <1>8, <2>1, <3>2, <3>3
    <3>. HIDE DEF z, k1
    <3>7. y % m = z
      BY ONLY <3>6, DivisionIs
    <3>4. y % m = o + r1 * l
      BY <3>7 DEF z
    <3>5. u <= i + t * l
      <4>1. y >= 0
        BY <1>8, <3>2, <3>4, <2>1 DEF r1
      <4>. QED  BY <1>8, <2>1, <4>1 DEF y
    <3>. QED  BY <2>2, <3>4, <3>5 DEF y, r1, m
  <2>3. CASE ~(t >= c)
    <3>. DEFINE r1 == t - c + e
    <3>1. r1 \in 0..(e - 1) /\ r1 \in Nat
      BY <1>3, <2>3
    <3>2. o + r1 * l \in 0..(m - 1) /\ r1 * l \in Nat
      BY <1>8, <3>1, WithinBlocks
    <3>3. r1 * l = (t - c) * l + m
      BY <1>3
    <3>4. y = m * (-1) + (o + r1 * l) /\ -1 \in Int /\ m > 0
      <4>. DEFINE rl == r1 * l
                  tc == (t - c) * l
      <4>1. tc \in Int
        BY <1>3
      <4>2. y = o + tc /\ rl = tc + m /\ o + rl \in 0..(m - 1) /\ rl \in Nat
        BY <2>1, <3>2, <3>3
      <4>. HIDE DEF rl, tc, y, m
      <4>3. y = m * (-1) + (o + rl) /\ m > 0
        BY <1>8, <4>1, <4>2
      <4>. QED  BY <4>3 DEF rl
    <3>. DEFINE z == o + r1 * l
                k1 == -1
    <3>. HIDE DEF y, r1, m
    <3>8. z \in 0..(m - 1) /\ y = m * (-1) + z
      BY <3>2, <3>4
    <3>5. z \in 0..(m - 1) /\ y = m * k1 + z /\ k1 \in Int /\ y \in Int /\ m \in Nat /\ m > 0
      BY <1>8, <2>1, <3>4, <3>8
    <3>. HIDE DEF z, k1
    <3>6. y % m = z
      BY ONLY <3>5, DivisionIs
    <3>7. ~(u <= i + t * l)
      <4>1. y < 0
        BY <1>8, <3>8
      <4>. QED  BY <1>8, <2>1, <4>1 DEF y
    <3>. QED  BY <2>3, <3>6, <3>7 DEF y, r1, m, z
  <2>. QED  BY <2>2, <2>3
<1>10. Rotates(l, e, i, u, o, c)
  BY <1>3, <1>8, <1>9 DEF Rotates
<1>. QED  BY <1>7, <1>10 DEF j, o, c

-----------------------------------------------------------------------------
(* The two sides as sums over the places of one factor.                    *)

LEMMA SizedColumns ==
  ASSUME NEW n, AtLeastTwo(n), NEW l \in Nat, l > 0, NEW e \in Nat, NEW v, Sized(n, l * e, v)
  PROVE  /\ \A j \in 0..(l - 1) : HasColumn(v, e, l, j)
         /\ \A u \in 0..(l * e - 1) : v[u] \in Residues(n) /\ v[u] \in Int
<1>0. Positive(n)
  BY TwoIsPositive
<1>1. \A u \in 0..(l * e - 1) : v[u] \in Residues(n)
  BY DEF Sized
<1>2. \A u \in 0..(l * e - 1) : v[u] \in Int
  BY <1>0, <1>1, ResiduesAre
<1>3. ASSUME NEW j \in 0..(l - 1) PROVE HasColumn(v, e, l, j)
  BY <1>2, WithinBlocks DEF HasColumn
<1>. QED  BY <1>1, <1>2, <1>3

RotatedRow(n, l, e, w, rho, i, u) ==
  [t \in 0..(e - 1) |-> Times(n, Times(n, Power(n, rho, t), Wrap(n - 1, i + t * l, u)),
                              w[((i + t * l) - u) % (l * e)])]

LEMMA Rotated ==
  ASSUME NEW n, AtLeastTwo(n), NEW l \in Nat, l > 0, NEW e \in Nat,
         NEW i \in 0..(l - 1), NEW u \in 0..(l * e - 1),
         NEW w, Sized(n, l * e, w), NEW rho \in Int, Power(n, rho, e) = n - 1
  PROVE  /\ IsRow(n, 0..(e - 1), RotatedRow(n, l, e, w, rho, i, u))
         /\ ModSum(n, RotatedRow(n, l, e, w, rho, i, u))
              = Times(n, Power(n, rho, Carry(l, i, u)), Coef(n, e, w, l, rho, (i - u) % l))
<1>. DEFINE b == RotatedRow(n, l, e, w, rho, i, u)
            o == (i - u) % l
            c == Carry(l, i, u)
            U == 0..(e - 1)
            p == [t \in U |-> IF t >= c THEN t - c ELSE t - c + e]
            y == [t \in U |-> Times(n, w[o + t * l], Power(n, rho, t))]
            h == [t \in U |-> Times(n, Power(n, rho, c), y[t])]
<1>b. b = [t \in 0..(e - 1) |->
                       Times(n, Times(n, Power(n, rho, t), Wrap(n - 1, i + t * l, u)),
                             w[((i + t * l) - u) % (l * e)])]
  BY DEF RotatedRow
<1>. HIDE DEF b
<1>0. Positive(n) /\ n - 1 \in Int
  BY TwoIsPositive, MinusOne
<1>1. /\ c \in 0..e /\ o \in 0..(l - 1)
      /\ \A t \in U : /\ u <= i + t * l <=> t >= c
                      /\ ((i + t * l) - u) % (l * e) = o + p[t] * l
  <2>1. /\ c \in 0..e /\ o \in 0..(l - 1)
        /\ \A t \in 0..(e - 1) :
             /\ u <= i + t * l <=> t >= c
             /\ ((i + t * l) - u) % (l * e) = o + (IF t >= c THEN t - c ELSE t - c + e) * l
    <3>1. Rotates(l, e, i, u, o, c)
      BY RotatedPlaces
    <3>. HIDE DEF o, c
    <3>. QED  BY <3>1 DEF Rotates
  <2>2. \A t \in U : p[t] = IF t >= c THEN t - c ELSE t - c + e
    OBVIOUS
  <2>. HIDE DEF o, c, p
  <2>. QED  BY ONLY <2>1, <2>2
<1>. HIDE DEF o, c
<1>2. HasColumn(w, e, l, o)
  BY <1>1, SizedColumns
<1>3. IsRow(n, U, y) /\ Coef(n, e, w, l, rho, o) = ModSum(n, y)
  BY <1>2, CoefRow DEF Coef
<1>4. Renumbers(p, U, U)
  <2>1. \A t \in U : p[t] \in U
    BY <1>1
  <2>2. ASSUME NEW s \in U, NEW t \in U, p[s] = p[t] PROVE s = t
    <3>1. (IF s >= c THEN s - c ELSE s - c + e) = (IF t >= c THEN t - c ELSE t - c + e)
      BY <2>2
    <3>2. s \in Nat /\ t \in Nat /\ s < e /\ t < e /\ c \in Nat /\ e \in Nat
      BY <1>1
    <3>. HIDE DEF p, U
    <3>3. CASE s >= c /\ t >= c
      BY ONLY <3>1, <3>2, <3>3
    <3>4. CASE s >= c /\ ~(t >= c)
      BY ONLY <3>1, <3>2, <3>4
    <3>5. CASE ~(s >= c) /\ t >= c
      BY ONLY <3>1, <3>2, <3>5
    <3>6. CASE ~(s >= c) /\ ~(t >= c)
      BY ONLY <3>1, <3>2, <3>6
    <3>. QED  BY <3>3, <3>4, <3>5, <3>6
  <2>3. ASSUME NEW s \in U PROVE \E t \in U : p[t] = s
    <3>1. CASE s + c < e
      <4>1. s + c \in U /\ p[s + c] = s
        BY <1>1, <3>1
      <4>. QED  BY <4>1
    <3>2. CASE ~(s + c < e)
      <4>1. s + c - e \in U /\ p[s + c - e] = s
        BY <1>1, <3>2
      <4>. QED  BY <4>1
    <3>. QED  BY <3>1, <3>2
  <2>. QED  BY <2>1, <2>2, <2>3 DEF Renumbers
<1>5. c \in Nat /\ Power(n, rho, c) \in Int
  <2>1. c \in Nat
    BY <1>1
  <2>. QED  BY <2>1, PowerSteps
<1>6. ASSUME NEW t \in U PROVE h[t] \in Residues(n) /\ h[t] = Times(n, Power(n, rho, c), y[t])
  <2>1. y[t] \in Int
    BY <1>0, <1>3, ResiduesAre DEF IsRow, IsFamily
  <2>2. Times(n, Power(n, rho, c), y[t]) \in Residues(n)
    BY <1>0, <1>5, <2>1, TimesType
  <2>. QED  BY <2>2
<1>7. IsRow(n, U, h)
  BY <1>3, <1>6 DEF IsRow, IsFamily
<1>8. Times(n, Power(n, rho, c), ModSum(n, y)) = ModSum(n, h)
  <2>. DEFINE k2 == Power(n, rho, c)
  <2>1. k2 \in Int /\ \A s \in U : h[s] = Times(n, k2, y[s])
    BY <1>5, <1>6
  <2>2. IsRow(n, U, y)
    BY <1>3
  <2>. HIDE DEF h, y, U, k2
  <2>3. Times(n, k2, ModSum(n, y)) = ModSum(n, h)
    BY ONLY <1>0, <1>7, <2>1, <2>2, ModSumScaled
  <2>. QED  BY <2>3 DEF k2
<1>9. ASSUME NEW t \in U PROVE b[t] = h[p[t]]
  <2>. DEFINE s == p[t]
              g1 == w[o + s * l]
              k1 == Power(n, rho, t)
              k2 == Power(n, rho, c)
              k3 == Power(n, rho, s)
              k4 == Wrap(n - 1, i + t * l, u)
  <2>1. s \in U /\ s \in Nat /\ t \in Nat
    BY <1>4 DEF Renumbers
  <2>2. b[t] = Times(n, Times(n, k1, k4), g1)
    BY <1>1, <1>b
  <2>3. h[s] = Times(n, k2, Times(n, g1, k3))
    BY <2>1
  <2>4. g1 \in Int
    BY <1>2, <2>1 DEF HasColumn
  <2>5. k1 \in Int /\ k3 \in Int /\ k1 \in Residues(n)
    BY <2>1, PowerSteps
  <2>6. Times(n, k2, k3) = Power(n, rho, c + s)
    BY <1>5, <2>1, PowerOfSum
  <2>7. k4 \in Int /\ Times(n, k1, k4) = Times(n, k2, k3)
    <3>1. CASE t >= c
      <4>1. u <= i + t * l /\ c + s = t
        BY <1>1, <3>1
      <4>2. k4 = 1
        BY <4>1 DEF Wrap
      <4>3. Times(n, k1, 1) = k1
        BY <1>0, <2>5, TimesUnits
      <4>. HIDE DEF s, k4, k2, k3
      <4>. QED  BY <2>6, <4>1, <4>2, <4>3
    <3>2. CASE ~(t >= c)
      <4>1. ~(u <= i + t * l) /\ c + s = t + e
        BY <1>1, <3>2
      <4>2. k4 = n - 1
        BY <4>1 DEF Wrap
      <4>3. Power(n, rho, t + e) = Times(n, k1, Power(n, rho, e))
        BY <2>1, PowerOfSum
      <4>. HIDE DEF s, k4, k2, k3
      <4>. QED  BY <1>0, <2>6, <4>1, <4>2, <4>3
    <3>. QED  BY <3>1, <3>2
  <2>. HIDE DEF g1, k1, k2, k3, k4, s
  <2>8. k2 \in Int
    BY <1>5 DEF k2
  <2>9. Times(n, Times(n, k2, k3), g1) = Times(n, k2, Times(n, g1, k3))
    <3>1. Times(n, Times(n, k2, k3), g1) = Times(n, k2, Times(n, k3, g1))
      BY <1>0, <2>4, <2>5, <2>8, TimesAssociates
    <3>2. Times(n, k3, g1) = Times(n, g1, k3)
      BY <1>0, <2>4, <2>5, TimesCommutes
    <3>. QED  BY <3>1, <3>2
  <2>. QED  BY <2>2, <2>3, <2>7, <2>9 DEF s
<1>10. IsRow(n, U, b)
  <2>1. \A t \in U : b[t] \in Residues(n)
    <3>1. ASSUME NEW t \in U PROVE b[t] \in Residues(n)
      <4>1. p[t] \in U
        BY <1>4 DEF Renumbers
      <4>. HIDE DEF h, p
      <4>2. h[p[t]] \in Residues(n)
        BY <1>6, <4>1
      <4>. QED  BY <1>9, <4>2
    <3>. QED  BY <3>1
  <2>2. IsFiniteSet(U) /\ b = [t \in U |-> b[t]]
    BY <1>3, <1>b DEF IsRow, IsFamily
  <2>. QED  BY <2>1, <2>2 DEF IsRow, IsFamily
<1>11. ModSum(n, b) = ModSum(n, h)
  <2>1. \A t \in U : b[t] = h[p[t]]
    BY <1>9
  <2>. HIDE DEF h, y, U, p
  <2>. QED  BY ONLY <1>0, <1>4, <1>7, <1>10, <2>1, ModSumRenumbered
<1>. QED  BY <1>3, <1>8, <1>10, <1>11 DEF o, c, b

ConvTerms(n, v, w, l, s, i) ==
  [j \in 0..(l - 1) |-> Times(n, v[j], Times(n, Wrap(s, i, j), w[(i - j) % l]))]

ConvInts(v, w, l, s, i) ==
  \A j \in 0..(l - 1) : v[j] \in Int /\ Wrap(s, i, j) \in Int /\ w[(i - j) % l] \in Int

LEMMA ConvRow ==
  ASSUME NEW n, Positive(n), NEW l \in Nat, l > 0, NEW v, NEW w, Sized(n, l, v), Sized(n, l, w),
         NEW s \in Int, NEW i \in Int
  PROVE  /\ IsRow(n, 0..(l - 1), ConvTerms(n, v, w, l, s, i))
         /\ Conv(n, v, w, l, s, i) = ModSum(n, ConvTerms(n, v, w, l, s, i))
         /\ Conv(n, v, w, l, s, i) \in Residues(n)
         /\ ConvInts(v, w, l, s, i)
<1>. DEFINE b == ConvTerms(n, v, w, l, s, i)
<1>b. b = [j \in 0..(l - 1) |-> Times(n, v[j], Times(n, Wrap(s, i, j), w[(i - j) % l]))]
  BY DEF ConvTerms
<1>. HIDE DEF b
<1>1. ASSUME NEW j \in 0..(l - 1)
      PROVE  /\ v[j] \in Int /\ Wrap(s, i, j) \in Int /\ w[(i - j) % l] \in Int
             /\ b[j] \in Residues(n)
  <2>1. (i - j) % l \in 0..(l - 1)
    <3>1. i - j \in Int
      OBVIOUS
    <3>. QED  BY <3>1
  <2>2. v[j] \in Residues(n) /\ w[(i - j) % l] \in Residues(n)
    BY <2>1 DEF Sized
  <2>. DEFINE v1 == v[j]
              w1 == w[(i - j) % l]
              s1 == Wrap(s, i, j)
  <2>3. v1 \in Int /\ w1 \in Int /\ s1 \in Int
    BY <2>2, ResiduesAre DEF Wrap
  <2>4. b[j] = Times(n, v1, Times(n, s1, w1))
    BY <1>b
  <2>. HIDE DEF v1, w1, s1
  <2>5. Times(n, s1, w1) \in Int
    BY <2>3, TimesType
  <2>6. Times(n, v1, Times(n, s1, w1)) \in Residues(n)
    BY <2>3, <2>5, TimesType
  <2>. QED  BY <2>3, <2>4, <2>6 DEF v1, w1, s1
<1>2. IsFiniteSet(0..(l - 1))
  BY FS_Interval
<1>3. IsRow(n, 0..(l - 1), b)
  BY <1>1, <1>2, <1>b DEF IsRow, IsFamily
<1>4. Conv(n, v, w, l, s, i) = ModSum(n, b)
  BY <1>b DEF Conv
<1>. QED  BY <1>1, <1>3, <1>4, ModSumIn DEF b, ConvInts

\* What place u of v adds to coefficient i.
PlaceTerm(n, l, e, v, w, rho, i, u) ==
  Times(n, v[u], Times(n, Power(n, rho, Carry(l, i, u)), Coef(n, e, w, l, rho, (i - u) % l)))

PlaceTerms(n, l, e, v, w, rho, i) ==
  [u \in 0..(l * e - 1) |-> PlaceTerm(n, l, e, v, w, rho, i, u)]

\* h is the product of v and w modulo X^m - s.
IsProduct(n, m, s, h, v, w) ==
  Sized(n, m, h) /\ \A i \in 0..(m - 1) : h[i] = Conv(n, v, w, m, s, i)

LEMMA BlocksOfConv ==
  ASSUME NEW n, AtLeastTwo(n), NEW l \in Nat, l > 0, NEW e \in Nat, e > 0,
         NEW v, NEW w, NEW h, Sized(n, l * e, v), Sized(n, l * e, w),
         IsProduct(n, l * e, n - 1, h, v, w),
         NEW rho \in Int, Power(n, rho, e) = n - 1, NEW i \in 0..(l - 1)
  PROVE  /\ Coef(n, e, h, l, rho, i) = ModSum(n, PlaceTerms(n, l, e, v, w, rho, i))
         /\ IsRow(n, 0..(l * e - 1), PlaceTerms(n, l, e, v, w, rho, i))
<1>. DEFINE m == l * e
            U == 0..(e - 1)
            S == 0..(m - 1)
            T(t, u) == Times(n, v[u], Times(n, Wrap(n - 1, i + t * l, u), w[((i + t * l) - u) % m]))
            Q(t, u) == Times(n, Times(n, Power(n, rho, t), Wrap(n - 1, i + t * l, u)),
                                w[((i + t * l) - u) % m])
            b == [y \in U \X S |-> Times(n, Power(n, rho, y[1]), T(y[1], y[2]))]
            row == [t \in U |-> [u \in S |-> Times(n, Power(n, rho, t), T(t, u))]]
            col == [u \in S |-> [t \in U |-> Times(n, Power(n, rho, t), T(t, u))]]
            c == [t \in U |-> Times(n, h[i + t * l], Power(n, rho, t))]
            sums == PlaceTerms(n, l, e, v, w, rho, i)
<1>s. sums = [u \in 0..(l * e - 1) |-> PlaceTerm(n, l, e, v, w, rho, i, u)]
  BY DEF PlaceTerms
<1>. HIDE DEF sums
<1>0. /\ Positive(n) /\ n - 1 \in Int /\ m \in Nat /\ m > 0
      /\ IsFiniteSet(U) /\ IsFiniteSet(S)
  <2>1. m \in Nat /\ m > 0
    <3>1. l \in 0..(l - 1) \/ 0 \in 0..(l - 1)
      OBVIOUS
    <3>2. 0 + 0 * l \in 0..(l * e - 1) /\ l * e \in Nat
      <4>1. 0 \in 0..(l - 1) /\ 0 \in 0..(e - 1)
        OBVIOUS
      <4>. QED  BY <4>1, WithinBlocks
    <3>. QED  BY <3>2
  <2>2. Positive(n) /\ n - 1 \in Int
    BY TwoIsPositive, MinusOne
  <2>3. IsFiniteSet(U) /\ IsFiniteSet(S)
    <3>. HIDE DEF m
    <3>. QED  BY <2>1, FS_Interval
  <2>. QED  BY <2>1, <2>2, <2>3
<1>1. ASSUME NEW t \in U PROVE i + t * l \in S /\ i + t * l \in Int /\ Power(n, rho, t) \in Int
  <2>1. i + t * l \in S
    BY WithinBlocks
  <2>2. t \in Nat
    OBVIOUS
  <2>3. Power(n, rho, t) \in Int
    BY <2>2, PowerSteps
  <2>. HIDE DEF m
  <2>. QED  BY <1>0, <2>1, <2>3
<1>2. ASSUME NEW t \in U
      PROVE  /\ IsRow(n, S, [u \in S |-> T(t, u)])
             /\ h[i + t * l] = ModSum(n, [u \in S |-> T(t, u)])
             /\ \A u \in S : v[u] \in Int /\ Wrap(n - 1, i + t * l, u) \in Int
                             /\ w[((i + t * l) - u) % m] \in Int
  <2>. DEFINE k1 == i + t * l
              g1 == [u \in S |-> Times(n, v[u], Times(n, Wrap(n - 1, k1, u), w[(k1 - u) % m]))]
  <2>1. k1 \in S /\ k1 \in Int
    BY <1>1
  <2>2. Sized(n, m, v) /\ Sized(n, m, w) /\ h[k1] = Conv(n, v, w, m, n - 1, k1)
    BY <2>1 DEF IsProduct
  <2>g. g1 = ConvTerms(n, v, w, m, n - 1, k1)
    BY DEF ConvTerms
  <2>. HIDE DEF k1, m, g1
  <2>3. /\ IsRow(n, S, g1) /\ Conv(n, v, w, m, n - 1, k1) = ModSum(n, g1)
        /\ \A u \in S : v[u] \in Int /\ Wrap(n - 1, k1, u) \in Int /\ w[(k1 - u) % m] \in Int
    <3>. DEFINE n1 == n - 1
    <3>1. n1 \in Int /\ n1 = n - 1 /\ Sized(n, m, v) /\ Sized(n, m, w)
      BY <1>0, <2>2
    <3>. HIDE DEF n1
    <3>2. /\ IsRow(n, 0..(m - 1), ConvTerms(n, v, w, m, n1, k1))
          /\ Conv(n, v, w, m, n1, k1) = ModSum(n, ConvTerms(n, v, w, m, n1, k1))
          /\ ConvInts(v, w, m, n1, k1)
      BY ONLY <1>0, <2>1, <3>1, ConvRow
    <3>. QED  BY <2>g, <3>1, <3>2 DEF ConvInts
  <2>. QED  BY <2>2, <2>3 DEF k1, g1
<1>3. ASSUME NEW t \in U, NEW u \in S
      PROVE  /\ T(t, u) \in Residues(n) /\ T(t, u) \in Int
             /\ Times(n, Power(n, rho, t), T(t, u)) \in Residues(n)
             /\ Times(n, Power(n, rho, t), T(t, u)) = Times(n, v[u], Q(t, u))
             /\ v[u] \in Int /\ Q(t, u) \in Residues(n)
  <2>. DEFINE v1 == v[u]
              s1 == Wrap(n - 1, i + t * l, u)
              w1 == w[((i + t * l) - u) % m]
              p1 == Power(n, rho, t)
  <2>1. v1 \in Int /\ s1 \in Int /\ w1 \in Int /\ p1 \in Int
    BY <1>1, <1>2
  <2>. HIDE DEF v1, s1, w1, p1
  <2>2. Times(n, s1, w1) \in Int /\ Times(n, p1, s1) \in Int
    BY <1>0, <2>1, TimesType
  <2>3. Times(n, v1, Times(n, s1, w1)) \in Int /\ Times(n, v1, Times(n, s1, w1)) \in Residues(n)
        /\ Times(n, Times(n, p1, s1), w1) \in Residues(n)
    BY <1>0, <2>1, <2>2, TimesType
  <2>4. Times(n, p1, Times(n, v1, Times(n, s1, w1))) \in Residues(n)
    BY <1>0, <2>1, <2>3, TimesType
  <2>5. Times(n, p1, Times(n, v1, Times(n, s1, w1))) = Times(n, v1, Times(n, Times(n, p1, s1), w1))
    <3>1. Times(n, p1, Times(n, v1, Times(n, s1, w1))) = Times(n, Times(n, p1, v1), Times(n, s1, w1))
      BY <1>0, <2>1, <2>2, TimesAssociates
    <3>2. Times(n, p1, v1) = Times(n, v1, p1)
      BY <1>0, <2>1, TimesCommutes
    <3>3. Times(n, Times(n, v1, p1), Times(n, s1, w1)) = Times(n, v1, Times(n, p1, Times(n, s1, w1)))
      BY <1>0, <2>1, <2>2, TimesAssociates
    <3>4. Times(n, p1, Times(n, s1, w1)) = Times(n, Times(n, p1, s1), w1)
      BY <1>0, <2>1, TimesAssociates
    <3>. QED  BY <3>1, <3>2, <3>3, <3>4
  <2>. QED  BY <2>1, <2>3, <2>4, <2>5 DEF v1, s1, w1, p1
<1>. HIDE DEF T, Q, m
<1>4. IsRow(n, U \X S, b)
  <2>1. IsFiniteSet(U \X S)
    BY <1>0, FS_Product
  <2>. HIDE DEF U, S
  <2>2. \A y \in U \X S : Times(n, Power(n, rho, y[1]), T(y[1], y[2])) \in Residues(n)
    BY <1>3
  <2>. QED  BY <2>1, <2>2 DEF IsRow, IsFamily
<1>5. ASSUME NEW t \in U
      PROVE  /\ IsRow(n, S, row[t]) /\ \A u \in S : row[t][u] = b[<<t, u>>]
             /\ c[t] = ModSum(n, row[t]) /\ c[t] \in Residues(n)
  <2>. HIDE DEF S
  <2>1. /\ row[t] = [u \in S |-> Times(n, Power(n, rho, t), T(t, u))]
        /\ c[t] = Times(n, h[i + t * l], Power(n, rho, t))
    OBVIOUS
  <2>2. IsRow(n, S, row[t]) /\ \A u \in S : row[t][u] = b[<<t, u>>]
    BY <1>0, <1>3, <2>1 DEF IsRow, IsFamily
  <2>. DEFINE g1 == [u \in S |-> T(t, u)]
              p1 == Power(n, rho, t)
  <2>3. /\ IsRow(n, S, g1) /\ h[i + t * l] = ModSum(n, g1) /\ p1 \in Int
        /\ \A u \in S : row[t][u] = Times(n, p1, g1[u])
    BY <1>1, <1>2, <2>1
  <2>. HIDE DEF g1, p1, row
  <2>4. Times(n, p1, ModSum(n, g1)) = ModSum(n, row[t])
    BY ONLY <1>0, <2>2, <2>3, ModSumScaled
  <2>5. Times(n, h[i + t * l], p1) = Times(n, p1, h[i + t * l])
    BY <1>0, <2>3, ModSumIn, TimesCommutes
  <2>6. ModSum(n, row[t]) \in Residues(n)
    BY <1>0, <2>2, ModSumIn
  <2>. QED  BY <2>1, <2>2, <2>3, <2>4, <2>5, <2>6 DEF p1
<1>6. IsRow(n, U, c)
  <2>1. c = [t \in U |-> c[t]]
    OBVIOUS
  <2>. HIDE DEF c
  <2>. QED  BY <1>0, <1>5, <2>1 DEF IsRow, IsFamily
<1>7. ASSUME NEW u \in S
      PROVE  /\ IsRow(n, U, col[u]) /\ \A t \in U : col[u][t] = b[<<t, u>>]
             /\ sums[u] = ModSum(n, col[u]) /\ sums[u] \in Residues(n)
  <2>. HIDE DEF U
  <2>1. col[u] = [t \in U |-> Times(n, Power(n, rho, t), T(t, u))]
    OBVIOUS
  <2>2. IsRow(n, U, col[u]) /\ \A t \in U : col[u][t] = b[<<t, u>>]
    BY <1>0, <1>3, <2>1 DEF IsRow, IsFamily
  <2>. DEFINE g1 == [t \in U |-> Q(t, u)]
              v1 == v[u]
  <2>3. /\ IsRow(n, U, g1)
        /\ ModSum(n, g1) = Times(n, Power(n, rho, Carry(l, i, u)), Coef(n, e, w, l, rho, (i - u) % l))
    <3>1. g1 = RotatedRow(n, l, e, w, rho, i, u)
      BY DEF U, Q, m, RotatedRow
    <3>2. u \in 0..(l * e - 1)
      BY DEF m
    <3>. HIDE DEF g1
    <3>3. /\ IsRow(n, 0..(e - 1), RotatedRow(n, l, e, w, rho, i, u))
          /\ ModSum(n, RotatedRow(n, l, e, w, rho, i, u))
               = Times(n, Power(n, rho, Carry(l, i, u)), Coef(n, e, w, l, rho, (i - u) % l))
      BY <3>2, Rotated
    <3>. QED  BY <3>1, <3>3 DEF U
  <2>4. v1 \in Int /\ \A t \in U : col[u][t] = Times(n, v1, g1[t])
    <3>1. ASSUME NEW t \in U PROVE col[u][t] = Times(n, v1, g1[t])
      BY <1>3, <2>1
    <3>2. v1 \in Int
      BY <1>0, SizedColumns DEF m
    <3>. QED  BY <3>1, <3>2
  <2>5. sums[u] = Times(n, v1, ModSum(n, g1))
    <3>1. sums[u] = PlaceTerm(n, l, e, v, w, rho, i, u)
      BY <1>s DEF m
    <3>. QED  BY <2>3, <3>1 DEF PlaceTerm
  <2>. HIDE DEF g1, v1, col
  <2>6. Times(n, v1, ModSum(n, g1)) = ModSum(n, col[u])
    BY ONLY <1>0, <2>2, <2>3, <2>4, ModSumScaled
  <2>7. ModSum(n, col[u]) \in Residues(n)
    BY <1>0, <2>2, ModSumIn
  <2>. QED  BY <2>2, <2>5, <2>6, <2>7
<1>8. IsRow(n, S, sums)
  <2>1. sums = [u \in S |-> sums[u]]
    BY <1>s DEF m
  <2>. QED  BY <1>0, <1>7, <2>1 DEF IsRow, IsFamily
<1>9. Coef(n, e, h, l, rho, i) = ModSum(n, c)
  BY DEF Coef
<1>10. ModSum(n, c) = ModSum(n, sums)
  <2>1. TableRows(n, row, b, U, S)
    <3>. HIDE DEF row, b, U, S
    <3>. QED  BY <1>5 DEF TableRows
  <2>2. TableColumns(n, col, b, U, S)
    <3>. HIDE DEF col, b, U, S
    <3>. QED  BY <1>7 DEF TableColumns
  <2>3. SumsOfRows(n, c, row, U)
    <3>. HIDE DEF c, row, U, S
    <3>. QED  BY <1>5 DEF SumsOfRows
  <2>4. SumsOfRows(n, sums, col, S)
    <3>. HIDE DEF col, U, S
    <3>. QED  BY <1>7 DEF SumsOfRows
  <2>. HIDE DEF b, c, row, col, U, S
  <2>. QED  BY ONLY <1>0, <1>4, <1>6, <1>8, <2>1, <2>2, <2>3, <2>4, ModSumSwap
<1>. QED  BY <1>8, <1>9, <1>10 DEF m, sums

LEMMA ModSumOfPairs ==
  ASSUME NEW n, Positive(n), NEW S, IsFiniteSet(S), NEW J, IsFiniteSet(J),
         NEW b, IsRow(n, S \X J, b), NEW row, TableRows(n, row, b, S, J),
         NEW c, IsRow(n, S, c), SumsOfRows(n, c, row, S)
  PROVE  ModSum(n, b) = ModSum(n, c)
<1>1. IsMonoid(Residues(n), PlusIn(n), 0)
  BY PlusMonoid
<1>2. IsFamily(b, S \X J, Residues(n)) /\ IsFamily(c, S, Residues(n))
  BY DEF IsRow
<1>3. Rows2(row, b, S, J, Residues(n))
  BY DEF IsRow, Rows2, TableRows
<1>4. AreSums(c, row, S, PlusIn(n), 0)
  BY DEF AreSums, ModSum, SumsOfRows
<1>5. SumOf(PlusIn(n), 0, b) = SumOf(PlusIn(n), 0, c)
  BY ONLY <1>1, <1>2, <1>3, <1>4, IsFiniteSet(S), IsFiniteSet(J), SumOfPairs
<1>. QED  BY <1>5 DEF ModSum

\* The place j + t*l in the product modulo X^l - rho.
LEMMA PlaceInBlock ==
  ASSUME NEW n, AtLeastTwo(n), NEW l \in Nat, l > 0, NEW e \in Nat,
         NEW v, NEW w, Sized(n, l * e, v), Sized(n, l * e, w),
         NEW rho \in Int, NEW i \in 0..(l - 1), NEW j \in 0..(l - 1), NEW t \in 0..(e - 1)
  PROVE  PlaceTerm(n, l, e, v, w, rho, i, j + t * l)
           = Times(n, Times(n, Wrap(rho, i, j), Coef(n, e, w, l, rho, (i - j) % l)),
                      Times(n, v[j + t * l], Power(n, rho, t)))
<1>. DEFINE u == j + t * l
            v1 == v[u]
            s1 == Wrap(rho, i, j)
            p1 == Power(n, rho, t)
            w1 == Coef(n, e, w, l, rho, (i - j) % l)
            c1 == Power(n, rho, Carry(l, i, u))
<1>0. Positive(n)
  BY TwoIsPositive
<1>1. u \in 0..(l * e - 1) /\ u % l = j /\ u \div l = t /\ t \in Nat
  <2>1. t \in Nat
    OBVIOUS
  <2>. QED  BY <2>1, WithinBlocks
<1>2. (i - u) % l = (i - j) % l
  <2>1. (i - u) % l = (i - (u % l)) % l
    <3>. HIDE DEF u
    <3>. QED  BY <1>1, RotatedPlaces
  <2>. QED  BY <1>1, <2>1
<1>3. (i - j) % l \in 0..(l - 1)
  OBVIOUS
<1>4. v1 \in Int /\ s1 \in Int /\ p1 \in Int /\ w1 \in Int /\ p1 \in Residues(n)
  <2>1. v1 \in Int
    <3>. HIDE DEF u
    <3>. QED  BY <1>1, SizedColumns
  <2>2. HasColumn(w, e, l, (i - j) % l)
    BY <1>3, SizedColumns
  <2>. DEFINE o == (i - j) % l
  <2>. HIDE DEF o
  <2>3. Coef(n, e, w, l, rho, o) \in Int
    BY <2>2, CoefRow DEF o
  <2>4. p1 \in Int /\ p1 \in Residues(n)
    BY <1>1, PowerSteps
  <2>5. s1 \in Int
    BY DEF Wrap
  <2>. QED  BY <2>1, <2>3, <2>4, <2>5 DEF o
<1>5. c1 = Times(n, p1, s1)
  <2>. HIDE DEF u
  <2>1. CASE j > i
    <3>1. Carry(l, i, u) = t + 1 /\ s1 = rho
      BY <1>1, <2>1 DEF Carry, Wrap
    <3>2. Power(n, rho, t + 1) = Times(n, Power(n, rho, t), rho)
      BY <1>1, PowerSteps
    <3>. QED  BY <3>1, <3>2
  <2>2. CASE ~(j > i)
    <3>1. Carry(l, i, u) = t /\ s1 = 1
      BY <1>1, <2>2 DEF Carry, Wrap
    <3>2. Times(n, p1, 1) = p1
      BY <1>0, <1>4, TimesUnits
    <3>. QED  BY <3>1, <3>2
  <2>. QED  BY <2>1, <2>2
<1>6. PlaceTerm(n, l, e, v, w, rho, i, u) = Times(n, v1, Times(n, Times(n, p1, s1), w1))
  BY <1>2, <1>5 DEF PlaceTerm
<1>. HIDE DEF u, v1, s1, p1, w1, c1
<1>7. Times(n, v1, Times(n, Times(n, p1, s1), w1)) = Times(n, Times(n, s1, w1), Times(n, v1, p1))
  <2>1. Times(n, s1, w1) \in Int /\ Times(n, v1, p1) \in Int
    BY <1>0, <1>4, TimesType
  <2>2. Times(n, Times(n, p1, s1), w1) = Times(n, p1, Times(n, s1, w1))
    BY <1>0, <1>4, TimesAssociates
  <2>3. Times(n, Times(n, v1, p1), Times(n, s1, w1)) = Times(n, v1, Times(n, p1, Times(n, s1, w1)))
    BY <1>0, <1>4, <2>1, TimesAssociates
  <2>4. Times(n, Times(n, v1, p1), Times(n, s1, w1)) = Times(n, Times(n, s1, w1), Times(n, v1, p1))
    BY <1>0, <2>1, TimesCommutes
  <2>. QED  BY <2>2, <2>3, <2>4
<1>. QED  BY <1>6, <1>7 DEF u, v1, s1, p1, w1

\* V holds the coefficients of v modulo X^l - rho.
IsReduced(n, e, l, rho, V, v) ==
  Sized(n, l, V) /\ \A j \in 0..(l - 1) : V[j] = Coef(n, e, v, l, rho, j)

LEMMA ConvOfBlocks ==
  ASSUME NEW n, AtLeastTwo(n), NEW l \in Nat, l > 0, NEW e \in Nat,
         NEW v, NEW w, Sized(n, l * e, v), Sized(n, l * e, w),
         NEW rho \in Int, NEW i \in 0..(l - 1),
         NEW V, NEW W, IsReduced(n, e, l, rho, V, v), IsReduced(n, e, l, rho, W, w),
         IsRow(n, 0..(l * e - 1), PlaceTerms(n, l, e, v, w, rho, i))
  PROVE  Conv(n, V, W, l, rho, i) = ModSum(n, PlaceTerms(n, l, e, v, w, rho, i))
<1>. DEFINE U == 0..(l - 1)
            S == 0..(e - 1)
            M == 0..(l * e - 1)
            sums == PlaceTerms(n, l, e, v, w, rho, i)
            b == [y \in U \X S |-> sums[y[1] + y[2] * l]]
            row == [j \in U |-> [t \in S |-> sums[j + t * l]]]
            c == [j \in U |-> Times(n, V[j], Times(n, Wrap(rho, i, j), W[(i - j) % l]))]
            p == [y \in U \X S |-> y[1] + y[2] * l]
<1>s. sums = [u \in 0..(l * e - 1) |-> PlaceTerm(n, l, e, v, w, rho, i, u)]
  BY DEF PlaceTerms
<1>r. /\ Sized(n, l, V) /\ Sized(n, l, W) /\ IsRow(n, 0..(l * e - 1), sums)
      /\ \A j \in 0..(l - 1) : V[j] = Coef(n, e, v, l, rho, j) /\ W[j] = Coef(n, e, w, l, rho, j)
  BY DEF IsReduced
<1>. HIDE DEF sums
<1>0. Positive(n) /\ i \in Int /\ IsFiniteSet(U) /\ IsFiniteSet(S) /\ IsFiniteSet(U \X S)
  <2>1. Positive(n) /\ i \in Int
    BY TwoIsPositive
  <2>2. IsFiniteSet(U) /\ IsFiniteSet(S)
    <3>1. 0 \in Int /\ l - 1 \in Int /\ e - 1 \in Int
      OBVIOUS
    <3>2. IsFiniteSet(U)
      BY ONLY <3>1, FS_Interval
    <3>3. IsFiniteSet(S)
      BY ONLY <3>1, FS_Interval
    <3>. QED  BY <3>2, <3>3
  <2>. HIDE DEF U, S
  <2>3. IsFiniteSet(U \X S)
    BY <2>2, FS_Product
  <2>. QED  BY <2>1, <2>2, <2>3
<1>1. /\ IsRow(n, U, c) /\ Conv(n, V, W, l, rho, i) = ModSum(n, c)
      /\ \A j \in U : V[j] \in Int /\ Wrap(rho, i, j) \in Int /\ W[(i - j) % l] \in Int
  <2>1. c = ConvTerms(n, V, W, l, rho, i)
    BY DEF ConvTerms
  <2>2. /\ IsRow(n, 0..(l - 1), ConvTerms(n, V, W, l, rho, i))
        /\ Conv(n, V, W, l, rho, i) = ModSum(n, ConvTerms(n, V, W, l, rho, i))
        /\ ConvInts(V, W, l, rho, i)
    <3>1. l \in Nat /\ l > 0 /\ rho \in Int
      OBVIOUS
    <3>. QED  BY ONLY <1>0, <1>r, <3>1, ConvRow
  <2>. QED  BY <2>1, <2>2 DEF ConvInts
<1>2. ASSUME NEW j \in U, NEW t \in S
      PROVE  /\ j + t * l \in M /\ sums[j + t * l] \in Residues(n)
             /\ sums[j + t * l] = Times(n, Times(n, Wrap(rho, i, j), W[(i - j) % l]),
                                           Times(n, v[j + t * l], Power(n, rho, t)))
  <2>1. j + t * l \in M
    BY WithinBlocks
  <2>2. sums[j + t * l] = PlaceTerm(n, l, e, v, w, rho, i, j + t * l)
    BY <2>1, <1>s
  <2>3. (i - j) % l \in U
    OBVIOUS
  <2>4. Coef(n, e, w, l, rho, (i - j) % l) = W[(i - j) % l]
    BY <2>3, <1>r
  <2>5. sums[j + t * l] \in Residues(n)
    BY <2>1, <1>r DEF IsRow, IsFamily
  <2>6. PlaceTerm(n, l, e, v, w, rho, i, j + t * l)
           = Times(n, Times(n, Wrap(rho, i, j), Coef(n, e, w, l, rho, (i - j) % l)),
                      Times(n, v[j + t * l], Power(n, rho, t)))
    BY PlaceInBlock
  <2>. QED  BY ONLY <2>1, <2>2, <2>4, <2>5, <2>6
<1>3. IsRow(n, U \X S, b)
  <2>. HIDE DEF U, S
  <2>1. \A y \in U \X S : sums[y[1] + y[2] * l] \in Residues(n)
    BY <1>2
  <2>. QED  BY <1>0, <2>1 DEF IsRow, IsFamily
<1>4. ASSUME NEW j \in U
      PROVE  /\ IsRow(n, S, row[j]) /\ \A t \in S : row[j][t] = b[<<j, t>>]
             /\ c[j] = ModSum(n, row[j])
  <2>. HIDE DEF S
  <2>1. /\ row[j] = [t \in S |-> sums[j + t * l]]
        /\ c[j] = Times(n, V[j], Times(n, Wrap(rho, i, j), W[(i - j) % l]))
    OBVIOUS
  <2>2. IsRow(n, S, row[j]) /\ \A t \in S : row[j][t] = b[<<j, t>>]
    BY <1>0, <1>2, <2>1 DEF IsRow, IsFamily
  <2>. DEFINE g1 == [t \in S |-> Times(n, v[j + t * l], Power(n, rho, t))]
              k1 == Times(n, Wrap(rho, i, j), W[(i - j) % l])
  <2>3. IsRow(n, S, g1) /\ V[j] = ModSum(n, g1)
    <3>1. HasColumn(v, e, l, j)
      BY SizedColumns
    <3>. QED  BY <3>1, <1>r, CoefRow DEF S, Coef
  <2>4. k1 \in Int
    BY <1>0, <1>1, TimesType
  <2>5. \A t \in S : row[j][t] = Times(n, k1, g1[t])
    BY <1>2, <2>1
  <2>. HIDE DEF g1, k1, row
  <2>6. Times(n, k1, ModSum(n, g1)) = ModSum(n, row[j])
    BY ONLY <1>0, <2>2, <2>3, <2>4, <2>5, ModSumScaled
  <2>7. Times(n, V[j], k1) = Times(n, k1, V[j])
    BY <1>0, <1>1, <2>4, TimesCommutes
  <2>. QED  BY <2>1, <2>2, <2>3, <2>6, <2>7 DEF k1
<1>5. ModSum(n, b) = ModSum(n, c)
  <2>1. TableRows(n, row, b, U, S)
    <3>. HIDE DEF row, b, U, S
    <3>. QED  BY <1>4 DEF TableRows
  <2>2. SumsOfRows(n, c, row, U)
    <3>. HIDE DEF c, row, U, S
    <3>. QED  BY <1>4 DEF SumsOfRows
  <2>. HIDE DEF b, c, row, U, S
  <2>. QED  BY ONLY <1>0, <1>1, <1>3, <2>1, <2>2, ModSumOfPairs
<1>6. Renumbers(p, U \X S, M)
  <2>1. ASSUME NEW y \in U \X S PROVE p[y] \in M /\ p[y] % l = y[1] /\ p[y] \div l = y[2]
    <3>1. y[1] \in U /\ y[2] \in S /\ p[y] = y[1] + y[2] * l
      OBVIOUS
    <3>2. /\ y[1] + y[2] * l \in M /\ (y[1] + y[2] * l) % l = y[1] /\ (y[1] + y[2] * l) \div l = y[2]
      BY <3>1, WithinBlocks
    <3>. QED  BY <3>1, <3>2
  <2>2. ASSUME NEW y \in U \X S, NEW s \in U \X S, p[y] = p[s] PROVE y = s
    <3>1. y[1] = s[1] /\ y[2] = s[2]
      <4>. HIDE DEF p, U, S, M
      <4>. QED  BY <2>1, <2>2
    <3>. HIDE DEF U, S
    <3>. QED  BY <3>1
  <2>3. ASSUME NEW u \in M PROVE \E y \in U \X S : p[y] = u
    <3>1. u % l \in U /\ u \div l \in S /\ u = (u % l) + (u \div l) * l
      BY BlockOf
    <3>. DEFINE y == <<u % l, u \div l>>
    <3>2. y \in U \X S /\ p[y] = u
      BY <3>1
    <3>. QED  BY <3>2
  <2>4. p \in [U \X S -> M]
    <3>1. p = [y \in U \X S |-> p[y]]
      OBVIOUS
    <3>. HIDE DEF p, U, S, M
    <3>. QED  BY <2>1, <3>1
  <2>. HIDE DEF p, U, S, M
  <2>. QED  BY <2>2, <2>3, <2>4 DEF Renumbers
<1>7. ModSum(n, b) = ModSum(n, sums)
  <2>1. \A y \in U \X S : b[y] = sums[p[y]]
    OBVIOUS
  <2>2. IsRow(n, M, sums)
    BY <1>r
  <2>. HIDE DEF b, p, U, S, M
  <2>. QED  BY ONLY <1>0, <1>3, <1>6, <2>1, <2>2, ModSumRenumbered
<1>. QED  BY <1>1, <1>5, <1>7 DEF sums

\* The coefficients modulo X^l - rho of a product modulo X^(l*e) + 1, where
\* rho^e = -1, are those of the product of the factors' coefficients.
LEMMA ProductOfBlocks ==
  ASSUME NEW n, AtLeastTwo(n), NEW l \in Nat, l > 0, NEW e \in Nat, e > 0,
         NEW v, NEW w, NEW h, Sized(n, l * e, v), Sized(n, l * e, w),
         IsProduct(n, l * e, n - 1, h, v, w),
         NEW rho \in Int, Power(n, rho, e) = n - 1,
         NEW V, NEW W, IsReduced(n, e, l, rho, V, v), IsReduced(n, e, l, rho, W, w)
  PROVE  \A i \in 0..(l - 1) : Coef(n, e, h, l, rho, i) = Conv(n, V, W, l, rho, i)
<1>1. SUFFICES ASSUME NEW i \in 0..(l - 1)
               PROVE  Coef(n, e, h, l, rho, i) = Conv(n, V, W, l, rho, i)
  OBVIOUS
<1>2. /\ Coef(n, e, h, l, rho, i) = ModSum(n, PlaceTerms(n, l, e, v, w, rho, i))
      /\ IsRow(n, 0..(l * e - 1), PlaceTerms(n, l, e, v, w, rho, i))
  BY BlocksOfConv
<1>3. Conv(n, V, W, l, rho, i) = ModSum(n, PlaceTerms(n, l, e, v, w, rho, i))
  BY <1>2, ConvOfBlocks
<1>. QED  BY <1>2, <1>3

-----------------------------------------------------------------------------
(* The operators of the model as these sums.                               *)

\* The integers c(j), j in S, added up as MapThenSumSet does.
SumsLike(total, S, c) ==
  IsFamily(c, S, Int) /\ \E h : AddsUp(h, c, S) /\ total = h[S]

LEMMA SumsAre ==
  ASSUME NEW n, Positive(n), NEW S, NEW c, NEW total, SumsLike(total, S, c),
         NEW b, IsRow(n, S, b), \A s \in S : b[s] = c[s] % n
  PROVE  total % n = ModSum(n, b) /\ total \in Int
<1>1. total = SumZ(c) /\ total \in Int
  BY AddedUp DEF SumsLike
<1>2. IsFamily(c, S, Int)
  BY DEF SumsLike
<1>. QED  BY <1>1, <1>2, SumOfRemainders

\* Coefficient i of the product of the blocks at "from".
LEMMA BlockProductIs ==
  ASSUME Positive(q), NEW l \in Nat, l > 0, NEW from \in Int, NEW s \in Int, NEW i \in 0..(l - 1),
         NEW v, NEW w, NEW V, NEW W, Sized(q, l, V), Sized(q, l, W),
         \A j \in 0..(l - 1) : V[j] = v[from + j] /\ W[j] = w[from + j]
  PROVE  BlockProduct(v, w, from, l, s, i) = Conv(q, V, W, l, s, i)
<1>. DEFINE low == 0..i
            high == (i + 1)..(l - 1)
            S == 0..(l - 1)
            e1(j) == v[from + j] * w[from + i - j]
            e2(j) == v[from + j] * w[from + l + i - j]
            Is1(h) == h = [t \in SUBSET low |-> IF t = {} THEN 0 ELSE e1(Pick(t)) + h[t \ {Pick(t)}]]
            Is2(h) == h = [t \in SUBSET high |-> IF t = {} THEN 0 ELSE e2(Pick(t)) + h[t \ {Pick(t)}]]
            total1 == (CHOOSE h : Is1(h))[low]
            total2 == (CHOOSE h : Is2(h))[high]
            c1 == [j \in low |-> e1(j)]
            c2 == [j \in high |-> e2(j)]
            z2 == [j \in high |-> e2(j) % q]
            b == ConvTerms(q, V, W, l, s, i)
<1>1. BlockProduct(v, w, from, l, s, i) = (total1 + s * (total2 % q)) % q
  BY Zenon DEF BlockProduct, MapThenSumSet, MapThenFoldSet, Pick
<1>2. /\ IsRow(q, S, b) /\ Conv(q, V, W, l, s, i) = ModSum(q, b) /\ ConvInts(V, W, l, s, i)
      /\ i \in Int /\ i \in Nat
  <2>1. i \in Int /\ i \in Nat
    OBVIOUS
  <2>2. /\ IsRow(q, 0..(l - 1), ConvTerms(q, V, W, l, s, i)) /\ ConvInts(V, W, l, s, i)
        /\ Conv(q, V, W, l, s, i) = ModSum(q, ConvTerms(q, V, W, l, s, i))
    BY <2>1, ConvRow
  <2>. QED  BY <2>1, <2>2
<1>3. \A j \in S : b[j] = Times(q, V[j], Times(q, Wrap(s, i, j), W[(i - j) % l]))
  BY DEF ConvTerms
<1>. HIDE DEF b
<1>4. /\ low \in SUBSET S /\ S \ low = high /\ IsFiniteSet(low) /\ IsFiniteSet(high)
      /\ \A j \in low : j \in Int /\ j <= i /\ (i - j) % l = i - j /\ i - j \in S
      /\ \A j \in high : j \in Int /\ ~(j <= i) /\ (i - j) % l = l + i - j /\ l + i - j \in S /\ j \in S
  <2>1. low \in SUBSET S /\ S \ low = high
    OBVIOUS
  <2>2. IsFiniteSet(low) /\ IsFiniteSet(high)
    <3>1. IsFiniteSet(S)
      BY FS_Interval
    <3>. HIDE DEF low, high, S
    <3>. QED  BY <2>1, <3>1, FS_Subset
  <2>3. ASSUME NEW j \in low PROVE j \in Int /\ j <= i /\ (i - j) % l = i - j /\ i - j \in S
    <3>. DEFINE y == i - j
                k1 == 0
    <3>1. y \in 0..(l - 1) /\ y \in Int /\ k1 \in Int /\ y = l * k1 + y
      OBVIOUS
    <3>. HIDE DEF y, k1
    <3>2. y % l = y
      BY <3>1, DivisionIs
    <3>. QED  BY <3>1, <3>2 DEF y
  <2>4. ASSUME NEW j \in high
        PROVE  j \in Int /\ ~(j <= i) /\ (i - j) % l = l + i - j /\ l + i - j \in S /\ j \in S
    <3>. DEFINE y == i - j
                o == l + i - j
                k1 == -1
    <3>1. o \in 0..(l - 1) /\ y \in Int /\ k1 \in Int /\ y = l * k1 + o
      OBVIOUS
    <3>. HIDE DEF y, k1, o
    <3>2. y % l = o
      BY <3>1, DivisionIs
    <3>. QED  BY <3>1, <3>2 DEF y, o
  <2>. QED  BY <2>1, <2>2, <2>3, <2>4
<1>5. ASSUME NEW j \in low PROVE e1(j) \in Int /\ b[j] = e1(j) % q
  <2>. DEFINE v1 == V[j]
              w1 == W[i - j]
  <2>1. j \in S /\ i - j \in S /\ (i - j) % l = i - j /\ Wrap(s, i, j) = 1
    BY <1>4 DEF Wrap
  <2>2. v1 \in Int /\ w1 \in Int
    BY <1>2, <2>1 DEF ConvInts
  <2>3. e1(j) = v1 * w1
    <3>1. from + i - j = from + (i - j)
      BY <1>2, <1>4
    <3>. QED  BY <2>1, <3>1
  <2>4. b[j] = Times(q, v1, Times(q, 1, w1))
    BY <1>3, <2>1
  <2>. HIDE DEF v1, w1, e1
  <2>5. Times(q, 1, w1) = w1 % q /\ Times(q, v1, w1 % q) = Times(q, v1, w1)
    BY <2>2, TimesUnits, TimesReduces
  <2>6. v1 * w1 \in Int
    BY <2>2
  <2>. QED  BY <2>3, <2>4, <2>5, <2>6 DEF Times
<1>6. ASSUME NEW j \in high PROVE e2(j) \in Int /\ b[j] = Times(q, s, z2[j]) /\ z2[j] \in Residues(q)
  <2>. DEFINE v1 == V[j]
              w1 == W[l + i - j]
  <2>1. j \in S /\ l + i - j \in S /\ (i - j) % l = l + i - j /\ Wrap(s, i, j) = s
    BY <1>4 DEF Wrap
  <2>2. v1 \in Int /\ w1 \in Int
    <3>1. V[j] \in Int /\ W[(i - j) % l] \in Int
      BY <1>2, <2>1 DEF ConvInts
    <3>. QED  BY <2>1, <3>1
  <2>3. e2(j) = v1 * w1
    <3>1. from + l + i - j = from + (l + i - j)
      BY <1>2, <1>4
    <3>. QED  BY <2>1, <3>1
  <2>4. b[j] = Times(q, v1, Times(q, s, w1))
    BY <1>3, <2>1
  <2>5. z2[j] = e2(j) % q
    OBVIOUS
  <2>. HIDE DEF v1, w1, e2, z2
  <2>6. v1 * w1 \in Int
    BY <2>2
  <2>7. z2[j] = Times(q, v1, w1) /\ z2[j] \in Residues(q)
    BY <2>2, <2>3, <2>5, TimesType DEF Times
  <2>8. Times(q, v1, Times(q, s, w1)) = Times(q, s, Times(q, v1, w1))
    <3>1. Times(q, Times(q, v1, s), w1) = Times(q, v1, Times(q, s, w1))
      BY <2>2, TimesAssociates
    <3>2. Times(q, Times(q, s, v1), w1) = Times(q, s, Times(q, v1, w1))
      BY <2>2, TimesAssociates
    <3>3. Times(q, v1, s) = Times(q, s, v1)
      BY <2>2, TimesCommutes
    <3>. QED  BY <3>1, <3>2, <3>3
  <2>. QED  BY <2>3, <2>4, <2>6, <2>7, <2>8
<1>7. /\ IsFamily(c1, low, Int) /\ IsFamily(c2, high, Int) /\ IsRow(q, high, z2)
      /\ \A j \in low : c1[j] = e1(j)
      /\ \A j \in high : c2[j] = e2(j) /\ z2[j] = c2[j] % q
  <2>. HIDE DEF low, high, e1, e2
  <2>1. IsFamily(c1, low, Int) /\ IsFamily(c2, high, Int)
    BY <1>4, <1>5, <1>6 DEF IsFamily
  <2>2. z2 = [j \in high |-> z2[j]]
    OBVIOUS
  <2>3. IsRow(q, high, z2)
    <3>. HIDE DEF z2
    <3>. QED  BY <1>4, <1>6, <2>2 DEF IsRow, IsFamily
  <2>. QED  BY <2>1, <2>3
<1>8. SumsLike(total1, low, c1)
  <2>1. \A t \in SUBSET low : t # {} => e1(Pick(t)) = c1[Pick(t)]
    <3>. HIDE DEF low, e1, c1
    <3>1. \A t \in SUBSET low : t # {} => Pick(t) \in low
      BY DEF Pick
    <3>. QED  BY <1>7, <3>1
  <2>. HIDE DEF e1, low, c1
  <2>2. \A h : Is1(h) <=> AddsUp(h, c1, low)
    BY <2>1 DEF AddsUp
  <2>. HIDE DEF Is1
  <2>3. \E h : Is1(h)
    BY <1>7, <2>2, AddedUp
  <2>4. Is1(CHOOSE h : Is1(h))
    BY <2>3, Zenon
  <2>. QED  BY <1>7, <2>2, <2>4 DEF SumsLike
<1>9. SumsLike(total2, high, c2)
  <2>1. \A t \in SUBSET high : t # {} => e2(Pick(t)) = c2[Pick(t)]
    <3>. HIDE DEF high, e2, c2
    <3>1. \A t \in SUBSET high : t # {} => Pick(t) \in high
      BY DEF Pick
    <3>. QED  BY <1>7, <3>1
  <2>. HIDE DEF e2, high, c2
  <2>2. \A h : Is2(h) <=> AddsUp(h, c2, high)
    BY <2>1 DEF AddsUp
  <2>. HIDE DEF Is2
  <2>3. \E h : Is2(h)
    BY <1>7, <2>2, AddedUp
  <2>4. Is2(CHOOSE h : Is2(h))
    BY <2>3, Zenon
  <2>. QED  BY <1>7, <2>2, <2>4 DEF SumsLike
<1>10. /\ ModSum(q, b) = Plus(q, ModSum(q, Part(b, low)), ModSum(q, Part(b, high)))
       /\ IsRow(q, low, Part(b, low)) /\ IsRow(q, high, Part(b, high))
  <2>1. low \in SUBSET S /\ S \ low = high
    BY <1>4
  <2>. HIDE DEF low, high, S
  <2>2. /\ ModSum(q, b) = Plus(q, ModSum(q, Part(b, low)), ModSum(q, Part(b, S \ low)))
        /\ IsRow(q, low, Part(b, low)) /\ IsRow(q, S \ low, Part(b, S \ low))
    BY <1>2, <2>1, ModSumSplits
  <2>. QED  BY <2>1, <2>2
<1>. HIDE DEF total1, total2
<1>11. total1 % q = ModSum(q, Part(b, low)) /\ total1 \in Int
  <2>1. \A j \in low : Part(b, low)[j] = c1[j] % q
    BY <1>5, <1>7 DEF Part
  <2>. HIDE DEF low, c1, e1
  <2>. QED  BY <1>8, <1>10, <2>1, SumsAre
<1>12. total2 % q = ModSum(q, z2) /\ total2 \in Int
  <2>1. \A j \in high : z2[j] = c2[j] % q
    BY <1>7
  <2>. HIDE DEF high, c2, e2, z2
  <2>. QED  BY <1>7, <1>9, <2>1, SumsAre
<1>13. Times(q, s, ModSum(q, z2)) = ModSum(q, Part(b, high))
  <2>1. \A j \in high : Part(b, high)[j] = Times(q, s, z2[j])
    BY <1>6 DEF Part
  <2>. DEFINE p2 == Part(b, high)
  <2>2. IsRow(q, high, z2) /\ IsRow(q, high, p2) /\ s \in Int /\ Positive(q)
    BY <1>7, <1>10
  <2>3. \A j \in high : p2[j] = Times(q, s, z2[j])
    BY <2>1
  <2>. HIDE DEF high, z2, p2
  <2>4. Times(q, s, ModSum(q, z2)) = ModSum(q, p2)
    BY ONLY <2>2, <2>3, ModSumScaled
  <2>. QED  BY <2>4 DEF p2
<1>14. (total1 + s * (total2 % q)) % q = Plus(q, total1 % q, Times(q, s, total2 % q))
  <2>. DEFINE t2 == total2 % q
              y == s * t2
  <2>1. t2 \in Int
    BY <1>12, RemainderType
  <2>2. y \in Int
    <3>. HIDE DEF t2
    <3>. QED  BY <2>1
  <2>. HIDE DEF y
  <2>3. total1 % q \in Int
    BY <1>11, RemainderType
  <2>4. Plus(q, total1 % q, y % q) = Plus(q, total1 % q, y)
    BY <2>2, <2>3, PlusLaws, 0 \in Int
  <2>5. Plus(q, total1 % q, y) = Plus(q, total1, y)
    BY <1>11, <2>2, PlusLaws, 0 \in Int
  <2>. QED  BY <2>4, <2>5 DEF Plus, Times, y
<1>. QED  BY <1>1, <1>2, <1>10, <1>11, <1>12, <1>13, <1>14

-----------------------------------------------------------------------------
(* The CRT path: halves, their products, and the product from its halves.  *)

LEMMA InverseIs ==
  ASSUME NEW n, IsPrime(n), n >= 3, NEW u \in Units(n)
  PROVE  /\ Times(n, u, inv(n, u)) = 1 /\ Times(n, inv(n, u), u) = 1
         /\ inv(n, u) \in Residues(n) /\ inv(n, u) \in Int
<1>1. AtLeastTwo(n) /\ Positive(n) /\ u \in Int /\ n - 2 \in Nat /\ (n - 2) + 1 = n - 1
  <2>1. AtLeastTwo(n) /\ Positive(n)
    BY PrimeIsTwo
  <2>2. u \in Int
    BY <2>1, UnitsAre
  <2>. QED  BY <2>1, <2>2 DEF AtLeastTwo
<1>2. Power(n, u, n - 1) = 1
  BY Fermat
<1>. DEFINE m == n - 2
<1>. HIDE DEF m
<1>3. m \in Nat /\ m + 1 = n - 1
  BY <1>1 DEF m
<1>4. /\ Power(n, u, m + 1) = Times(n, Power(n, u, m), u)
      /\ Power(n, u, m) \in Residues(n) /\ Power(n, u, m) \in Int
  BY <1>1, <1>3, PowerSteps
<1>5. Times(n, Power(n, u, m), u) = Times(n, u, Power(n, u, m))
  BY <1>1, <1>4, TimesCommutes
<1>6. inv(n, u) = Power(n, u, m)
  BY DEF inv, pow, m
<1>. QED  BY <1>2, <1>3, <1>4, <1>5, <1>6

LEMMA WholeCoef ==
  ASSUME NEW n, AtLeastTwo(n), NEW v, NEW l \in Nat, NEW rho \in Int, NEW j \in Int, v[j] \in Residues(n)
  PROVE  Coef(n, 1, v, l, rho, j) = v[j] /\ HasColumn(v, 1, l, j)
<1>0. Positive(n)
  BY TwoIsPositive
<1>1. j + 0 * l = j /\ 0..(1 - 1) = {0} /\ v[j] \in Int /\ 0 \in 0..(1 - 1) /\ 0..(1 - 1) = {0}
  <2>1. v[j] \in Int
    BY <1>0, ResiduesAre
  <2>. QED  BY <2>1
<1>2. HasColumn(v, 1, l, j)
  BY <1>1 DEF HasColumn
<1>. DEFINE b == [t \in 0..(1 - 1) |-> Times(n, v[j + t * l], Power(n, rho, t))]
<1>3. IsRow(n, {0}, b)
  <2>1. IsRow(n, 0..(1 - 1), b)
    BY <1>2, CoefRow, 1 \in Nat
  <2>. HIDE DEF b
  <2>. QED  BY <1>1, <2>1
<1>4. b[0] = v[j]
  <2>1. b[0] = Times(n, v[j + 0 * l], Power(n, rho, 0))
    BY <1>1
  <2>2. Power(n, rho, 0) = 1
    BY PowerSteps, 0 \in Nat
  <2>3. Times(n, v[j], 1) = v[j]
    BY <1>0, <1>1, TimesUnits
  <2>. QED  BY <1>1, <2>1, <2>2, <2>3
<1>5. ModSum(n, b) = b[0]
  <2>. HIDE DEF b
  <2>. QED  BY <1>0, <1>3, ModSumOfOne
<1>. QED  BY <1>2, <1>4, <1>5 DEF Coef

\* The lower half of y has v modulo X^l - z, the upper half modulo X^l + z.
IsHalved(n, l, z, y, v) ==
  /\ Sized(n, 2 * l, y)
  /\ \A i \in 0..(l - 1) : y[i] = Coef(n, 2, v, l, z, i) /\ y[l + i] = Coef(n, 2, v, l, n - z, i)

LEMMA HalvesAre ==
  ASSUME NEW n, AtLeastTwo(n), NEW l \in Nat, NEW v, Sized(n, 2 * l, v), NEW z \in Int, NEW i \in 0..(l - 1)
  PROVE  /\ Coef(n, 2, v, l, z, i) = (v[i] + z * v[i + l]) % n
         /\ Coef(n, 2, v, l, n - z, i) = (v[i] - z * v[i + l]) % n
         /\ v[i] \in Residues(n) /\ v[i + l] \in Residues(n) /\ v[i] \in Int /\ v[i + l] \in Int
<1>0. Positive(n)
  BY TwoIsPositive
<1>1. /\ i \in 0..(2 * l - 1) /\ i + l \in 0..(2 * l - 1) /\ i \in Nat /\ i \in Int /\ i + l \in Int
      /\ 2 * 1 = 2 /\ 1 \in Nat
  OBVIOUS
<1>2. v[i] \in Residues(n) /\ v[i + l] \in Residues(n)
  BY <1>1 DEF Sized
<1>3. v[i] \in Int /\ v[i + l] \in Int
  BY <1>0, <1>2, ResiduesAre
<1>. DEFINE rho == Times(n, z, z)
<1>4. rho \in Int
  BY <1>0, TimesType
<1>. HIDE DEF rho
<1>5. Coef(n, 1, v, 2 * l, rho, i) = v[i] /\ Coef(n, 1, v, 2 * l, rho, i + l) = v[i + l]
  <2>. DEFINE l2 == 2 * l
              k1 == i + l
  <2>1. l2 \in Nat /\ k1 \in Int /\ v[k1] \in Residues(n)
    BY <1>1, <1>2
  <2>. HIDE DEF l2, k1
  <2>2. Coef(n, 1, v, l2, rho, i) = v[i]
    BY <1>1, <1>2, <1>4, <2>1, WholeCoef
  <2>3. Coef(n, 1, v, l2, rho, k1) = v[k1]
    BY <1>4, <2>1, WholeCoef
  <2>. QED  BY <2>2, <2>3 DEF l2, k1
<1>6. HasColumn(v, 2, l, i)
  <2>1. \A t \in 0..(2 - 1) : t = 0 \/ t = 1
    OBVIOUS
  <2>2. i + 0 * l = i /\ i + 1 * l = i + l
    BY <1>1
  <2>. QED  BY <1>3, <2>1, <2>2 DEF HasColumn
<1>7. HasColumn(v, 2 * 1, l, i)
  BY <1>1, <1>6
<1>8. /\ Coef(n, 2 * 1, v, l, z, i) = (v[i] + z * v[i + l]) % n
      /\ Coef(n, 2 * 1, v, l, n - z, i) = (v[i] - z * v[i + l]) % n
  <2>. DEFINE u == v[i]
              w == v[i + l]
  <2>1. u = Coef(n, 1, v, 2 * l, rho, i) /\ w = Coef(n, 1, v, 2 * l, rho, i + l) /\ rho = Times(n, z, z)
    BY <1>5 DEF rho
  <2>. HIDE DEF u, w
  <2>2. Coef(n, 2 * 1, v, l, z, i) = (u + z * w) % n /\ Coef(n, 2 * 1, v, l, n - z, i) = (u - z * w) % n
    BY <1>1, <1>7, <2>1, BlockSplits
  <2>. QED  BY <2>2 DEF u, w
<1>. QED  BY <1>1, <1>2, <1>3, <1>8

LEMMA SplitHalves ==
  ASSUME NEW n, AtLeastTwo(n), NEW l \in Nat, NEW v, Sized(n, 2 * l, v), NEW z \in Int, NEW y,
         y = [i \in 0..(2 * l - 1) |-> IF i < l THEN (v[i] + z * v[i + l]) % n
                                       ELSE (v[i - l] - z * v[i]) % n]
  PROVE  IsHalved(n, l, z, y, v)
<1>0. Positive(n)
  BY TwoIsPositive
<1>1. ASSUME NEW i \in 0..(l - 1)
      PROVE  y[i] = Coef(n, 2, v, l, z, i) /\ y[l + i] = Coef(n, 2, v, l, n - z, i)
  <2>1. /\ i \in 0..(2 * l - 1) /\ l + i \in 0..(2 * l - 1) /\ i < l /\ ~(l + i < l)
        /\ (l + i) - l = i /\ l + i = i + l
    OBVIOUS
  <2>2. y[i] = (v[i] + z * v[i + l]) % n /\ y[l + i] = (v[i] - z * v[i + l]) % n
    BY <2>1
  <2>. QED  BY <2>2, HalvesAre
<1>2. ASSUME NEW i \in 0..(2 * l - 1) PROVE y[i] \in Residues(n)
  <2>. DEFINE t1 == v[i] + z * v[i + l]
              t2 == v[i - l] - z * v[i]
  <2>1. CASE i < l
    <3>1. i \in 0..(l - 1)
      BY <2>1
    <3>2. v[i] \in Int /\ v[i + l] \in Int
      BY <3>1, HalvesAre
    <3>3. t1 \in Int /\ y[i] = t1 % n
      BY <2>1, <3>2
    <3>. HIDE DEF t1
    <3>. QED  BY <1>0, <3>3, RemainderType
  <2>2. CASE ~(i < l)
    <3>. DEFINE j == i - l
    <3>1. j \in 0..(l - 1) /\ j + l = i
      BY <2>2
    <3>2. v[j] \in Int /\ v[j + l] \in Int
      <4>. HIDE DEF j
      <4>. QED  BY <3>1, HalvesAre
    <3>3. t2 \in Int /\ y[i] = t2 % n
      BY <2>2, <3>1, <3>2
    <3>. HIDE DEF t2
    <3>. QED  BY <1>0, <3>3, RemainderType
  <2>. QED  BY <2>1, <2>2
<1>3. Sized(n, 2 * l, y)
  BY <1>2 DEF Sized
<1>. QED  BY <1>1, <1>3 DEF IsHalved

Low(l, v) == [j \in 0..(l - 1) |-> v[j]]
High(l, v) == [j \in 0..(l - 1) |-> v[l + j]]

LEMMA HalvesReduced ==
  ASSUME NEW n, NEW l \in Nat, NEW z \in Int, NEW v, NEW y, IsHalved(n, l, z, y, v)
  PROVE  /\ Sized(n, l, Low(l, y)) /\ Sized(n, l, High(l, y))
         /\ IsReduced(n, 2, l, z, Low(l, y), v) /\ IsReduced(n, 2, l, n - z, High(l, y), v)
<1>1. Sized(n, 2 * l, y)
  BY DEF IsHalved
<1>2. \A j \in 0..(l - 1) : j \in 0..(2 * l - 1) /\ l + j \in 0..(2 * l - 1)
  OBVIOUS
<1>3. Sized(n, l, Low(l, y)) /\ Sized(n, l, High(l, y))
  BY <1>1, <1>2 DEF Sized, Low, High
<1>4. \A j \in 0..(l - 1) : Low(l, y)[j] = y[j] /\ High(l, y)[j] = y[l + j]
  BY DEF Low, High
<1>5. \A j \in 0..(l - 1) : y[j] = Coef(n, 2, v, l, z, j) /\ y[l + j] = Coef(n, 2, v, l, n - z, j)
  BY DEF IsHalved
<1>. QED  BY <1>3, <1>4, <1>5 DEF IsReduced

\* The products of the halves are the halves of the product.
LEMMA HalvesMultiply ==
  ASSUME NEW n, AtLeastTwo(n), NEW l \in Nat, l > 0, NEW v, NEW w, NEW h,
         Sized(n, 2 * l, v), Sized(n, 2 * l, w), IsProduct(n, 2 * l, n - 1, h, v, w),
         NEW z \in Int, Times(n, z, z) = n - 1,
         NEW V, IsHalved(n, l, z, V, v), NEW W, IsHalved(n, l, z, W, w),
         NEW y, Sized(n, 2 * l, y),
         \A i \in 0..(l - 1) : /\ y[i] = Conv(n, Low(l, V), Low(l, W), l, z, i)
                               /\ y[l + i] = Conv(n, High(l, V), High(l, W), l, n - z, i)
  PROVE  IsHalved(n, l, z, y, h)
<1>0. Positive(n) /\ 2 \in Nat /\ 2 > 0 /\ l * 2 = 2 * l /\ 1 \in Nat /\ 2 * 1 = 2
  BY TwoIsPositive
<1>1. n - z \in Int /\ Times(n, n - z, n - z) = n - 1
  BY <1>0, NegatedRoot
<1>2. ASSUME NEW u \in Int, Times(n, u, u) = n - 1 PROVE Power(n, u, 2) = n - 1
  <2>1. Power(n, u, 2 * 1) = Times(n, Power(n, u, 1), Power(n, u, 1)) /\ Power(n, u, 1) = u % n
    BY <1>0, PowerOfDouble, PowerSteps
  <2>2. Times(n, u % n, u % n) = Times(n, u, u)
    BY <1>0, TimesReduces
  <2>. QED  BY <1>0, <1>2, <2>1, <2>2
<1>3. Power(n, z, 2) = n - 1 /\ Power(n, n - z, 2) = n - 1
  <2>. DEFINE z1 == n - z
  <2>1. z1 \in Int /\ Times(n, z1, z1) = n - 1
    BY <1>1
  <2>. HIDE DEF z1
  <2>2. Power(n, z, 2) = n - 1 /\ Power(n, z1, 2) = n - 1
    BY <1>2, <2>1
  <2>. QED  BY <2>2 DEF z1
<1>4. Sized(n, l * 2, v) /\ Sized(n, l * 2, w) /\ IsProduct(n, l * 2, n - 1, h, v, w)
  BY ONLY <1>0, Sized(n, 2 * l, v), Sized(n, 2 * l, w), IsProduct(n, 2 * l, n - 1, h, v, w)
<1>5. \A i \in 0..(l - 1) : Coef(n, 2, h, l, z, i) = Conv(n, Low(l, V), Low(l, W), l, z, i)
  <2>1. IsReduced(n, 2, l, z, Low(l, V), v) /\ IsReduced(n, 2, l, z, Low(l, W), w)
    BY HalvesReduced
  <2>2. AtLeastTwo(n) /\ l \in Nat /\ l > 0 /\ z \in Int
    OBVIOUS
  <2>. QED  BY ONLY <1>0, <1>3, <1>4, <2>1, <2>2, ProductOfBlocks
<1>6. \A i \in 0..(l - 1) : Coef(n, 2, h, l, n - z, i) = Conv(n, High(l, V), High(l, W), l, n - z, i)
  <2>. DEFINE z1 == n - z
  <2>1. IsReduced(n, 2, l, z1, High(l, V), v) /\ IsReduced(n, 2, l, z1, High(l, W), w)
    BY HalvesReduced
  <2>2. AtLeastTwo(n) /\ l \in Nat /\ l > 0 /\ z1 \in Int /\ Power(n, z1, 2) = n - 1
    BY <1>1, <1>3
  <2>. HIDE DEF z1
  <2>3. \A i \in 0..(l - 1) : Coef(n, 2, h, l, z1, i) = Conv(n, High(l, V), High(l, W), l, z1, i)
    BY ONLY <1>0, <1>4, <2>1, <2>2, ProductOfBlocks
  <2>. QED  BY <2>3 DEF z1
<1>. QED  BY <1>5, <1>6 DEF IsHalved

\* The product from its halves.
LEMMA HalvesCombine ==
  ASSUME NEW n, IsPrime(n), n >= 3, NEW l \in Nat, NEW h, Sized(n, 2 * l, h), NEW z \in Units(n),
         NEW y, IsHalved(n, l, z, y, h), NEW w,
         w = [i \in 0..(2 * l - 1) |->
                IF i < l THEN ((y[i] + y[i + l]) * inv(n, 2)) % n
                ELSE ((y[i - l] - y[i]) * inv(n, (2 * z) % n)) % n]
  PROVE  w = h
<1>0. AtLeastTwo(n) /\ Positive(n) /\ z \in Int /\ n \in Nat
  <2>1. AtLeastTwo(n) /\ Positive(n)
    BY PrimeIsTwo
  <2>. QED  BY <2>1, UnitsAre DEF AtLeastTwo
<1>1. 2 \in Units(n) /\ Times(n, 2, z) \in Units(n)
  <2>1. 2 \in Units(n)
    BY <1>0 DEF Units
  <2>. QED  BY <2>1, UnitsClosed
<1>. DEFINE i2 == inv(n, 2)
            i3 == inv(n, (2 * z) % n)
<1>2. Times(n, i2, 2) = 1 /\ i2 \in Int
  BY <1>1, InverseIs
<1>3. Times(n, i3, (2 * z) % n) = 1 /\ i3 \in Int
  <2>. DEFINE u == Times(n, 2, z)
  <2>1. u = (2 * z) % n /\ u \in Units(n)
    BY <1>1 DEF Times
  <2>. HIDE DEF u
  <2>2. Times(n, inv(n, u), u) = 1 /\ inv(n, u) \in Int
    BY <2>1, InverseIs
  <2>. QED  BY <2>1, <2>2
<1>. HIDE DEF i2, i3
<1>4. ASSUME NEW i \in 0..(l - 1)
      PROVE  ((y[i] + y[i + l]) * i2) % n = h[i] /\ ((y[i] - y[i + l]) * i3) % n = h[i + l]
  <2>. DEFINE u == h[i]
              t == h[i + l]
              y1 == y[i]
              y2 == y[i + l]
  <2>0. l + i = i + l
    OBVIOUS
  <2>1. /\ Coef(n, 2, h, l, z, i) = (u + z * t) % n /\ Coef(n, 2, h, l, n - z, i) = (u - z * t) % n
        /\ u \in Residues(n) /\ t \in Residues(n) /\ u \in Int /\ t \in Int
    BY <1>0, HalvesAre
  <2>2. y1 = (u + z * t) % n /\ y2 = (u - z * t) % n
    <3>1. y1 = Coef(n, 2, h, l, z, i) /\ y2 = Coef(n, 2, h, l, n - z, i)
      BY <2>0 DEF IsHalved
    <3>. QED  BY <2>1, <3>1
  <2>. HIDE DEF u, t, y1, y2
  <2>3. Times(n, 1, (u + z * t) % n) = y1 /\ Times(n, 1, (u - z * t) % n) = y2
    <3>. DEFINE s1 == u + z * t
                s2 == u - z * t
    <3>1. s1 \in Int /\ s2 \in Int
      BY <1>0, <2>1
    <3>. HIDE DEF s1, s2
    <3>2. s1 % n \in Residues(n) /\ s1 % n \in Int /\ s2 % n \in Residues(n) /\ s2 % n \in Int
      BY <1>0, <3>1, RemainderType
    <3>3. Times(n, 1, s1 % n) = s1 % n /\ Times(n, 1, s2 % n) = s2 % n
      BY <1>0, <3>2, TimesUnits
    <3>. QED  BY <2>2, <3>3 DEF s1, s2
  <2>4. /\ y1 \in Int /\ y2 \in Int
        /\ (i2 * (y1 + y2)) % n = (i2 * (2 * 1 * u)) % n
        /\ (i3 * (y1 - y2)) % n = (i3 * (2 * 1 * z * t)) % n
    <3>1. 1 \in Int /\ AreHalves(n, u, t, z, 1, y1, y2)
      BY <2>3 DEF AreHalves
    <3>2. Join(n, u, t, z, 1, y1, y2)
      BY <1>0, <2>1, <3>1, HalvesJoin
    <3>. QED  BY <1>2, <1>3, <3>2 DEF Join
  <2>5. (i2 * (2 * 1 * u)) % n = u
    <3>1. Times(n, Times(n, i2, 2), u) = Times(n, i2, Times(n, 2, u))
      BY <1>0, <1>2, <2>1, TimesAssociates, 2 \in Int
    <3>2. Times(n, 1, u) = u
      BY <1>0, <2>1, TimesUnits
    <3>3. Times(n, i2, (2 * u) % n) = Times(n, i2, 2 * u)
      <4>1. 2 * u \in Int
        BY <2>1
      <4>. QED  BY <1>0, <1>2, <4>1, TimesReduces
    <3>4. 2 * 1 * u = 2 * u
      BY <2>1
    <3>. QED  BY <1>2, <3>1, <3>2, <3>3, <3>4 DEF Times
  <2>6. (i3 * (2 * 1 * z * t)) % n = t
    <3>. DEFINE z2 == 2 * z
                z3 == z2 % n
                p == z2 * t
    <3>1. z2 \in Int
      BY <1>0
    <3>2. 2 * 1 * z * t = p
      BY <1>0, <2>1
    <3>. HIDE DEF z2
    <3>3. z3 \in Int /\ p \in Int
      BY <1>0, <2>1, <3>1, RemainderType
    <3>4. Times(n, z3, t) = Times(n, z2, t)
      BY <1>0, <2>1, <3>1, TimesReduces
    <3>5. Times(n, i3, z3) = 1
      BY <1>3 DEF z2
    <3>. HIDE DEF z3
    <3>6. Times(n, Times(n, i3, z3), t) = Times(n, i3, Times(n, z3, t))
      BY <1>0, <1>3, <2>1, <3>3, TimesAssociates
    <3>7. Times(n, 1, t) = t
      BY <1>0, <2>1, TimesUnits
    <3>. HIDE DEF p
    <3>8. Times(n, i3, p % n) = Times(n, i3, p)
      BY <1>0, <1>3, <3>3, TimesReduces
    <3>9. Times(n, z2, t) = p % n
      BY DEF Times, p
    <3>10. Times(n, i3, p) = t
      BY <3>4, <3>5, <3>6, <3>7, <3>8, <3>9
    <3>. QED  BY <3>2, <3>10 DEF Times
  <2>7. (y1 + y2) * i2 = i2 * (y1 + y2) /\ (y1 - y2) * i3 = i3 * (y1 - y2)
    BY <1>2, <1>3, <2>4
  <2>. QED  BY <2>4, <2>5, <2>6, <2>7 DEF y1, y2, u, t
<1>5. ASSUME NEW i \in 0..(2 * l - 1) PROVE w[i] = h[i]
  <2>1. CASE i < l
    <3>1. i \in 0..(l - 1)
      BY <2>1
    <3>. QED  BY <1>4, <2>1, <3>1 DEF i2
  <2>2. CASE ~(i < l)
    <3>. DEFINE j == i - l
    <3>1. j \in 0..(l - 1) /\ j + l = i
      BY <2>2
    <3>2. w[i] = ((y[j] - y[i]) * i3) % n
      BY <2>2 DEF i3
    <3>. HIDE DEF j
    <3>3. ((y[j] - y[j + l]) * i3) % n = h[j + l]
      BY <1>4, <3>1
    <3>. QED  BY <3>1, <3>2, <3>3
  <2>. QED  BY <2>1, <2>2
<1>6. h = [i \in 0..(2 * l - 1) |-> h[i]] /\ w = [i \in 0..(2 * l - 1) |-> w[i]]
  BY DEF Sized
<1>. QED  BY ONLY <1>5, <1>6

-----------------------------------------------------------------------------
(* The elements multiplied; the CRT path step by step.                     *)

Product(n, m, v, w) == [i \in 0..(m - 1) |-> Conv(n, v, w, m, n - 1, i)]

IsPair(y) == DOMAIN y = {1, 2}

\* Elements of d residues are multiplied, in two arrays.
ArrayInv == pc \in Multiplying => Sized(q, d, f) /\ Sized(q, d, g) /\ IsPair(x)

CrtInv ==
  /\ pc = "split" => x[1] = f /\ x[2] = g
  /\ pc = "halves" => IsHalved(q, H, r, x[1], f) /\ IsHalved(q, H, r, x[2], g)
  /\ pc = "combine" => IsHalved(q, H, r, x[1], Product(q, d, f, g))

LEMMA ProductIs ==
  ASSUME NEW n, AtLeastTwo(n), NEW m \in Nat, m > 0, NEW v, NEW w, Sized(n, m, v), Sized(n, m, w)
  PROVE  IsProduct(n, m, n - 1, Product(n, m, v, w), v, w) /\ Sized(n, m, Product(n, m, v, w))
<1>1. Positive(n) /\ n - 1 \in Int
  BY TwoIsPositive DEF AtLeastTwo
<1>2. ASSUME NEW i \in 0..(m - 1) PROVE Conv(n, v, w, m, n - 1, i) \in Residues(n)
  <2>1. i \in Int
    OBVIOUS
  <2>. QED  BY <1>1, <2>1, ConvRow
<1>. QED  BY <1>2 DEF Product, Sized, IsProduct

LEMMA InputsAreElements ==
  ASSUME Positive(q), d \in Nat, NEW v \in Inputs
  PROVE  Sized(q, d, v)
<1>1. \A t \in Terms : t[1] \in Index /\ t[2] \in Residues(q)
  <2>1. ASSUME NEW c \in Coefficients PROVE from_i64(q, c) \in Residues(q)
    <3>1. c \in Int
      BY CoefficientsAssumption
    <3>. QED  BY <3>1, RemainderType DEF from_i64
  <2>. QED  BY <2>1 DEF Terms
<1>2. PICK t \in Terms, u \in Terms : v = TwoTerms(t, u)
  BY DEF Inputs
<1>3. 0 \in Residues(q)
  BY ResiduesAre
<1>4. ZeroElement \in [Index -> Residues(q)]
  BY <1>3 DEF ZeroElement
<1>5. OneTerm(t) \in [Index -> Residues(q)]
  BY <1>1, <1>4 DEF OneTerm
<1>6. v \in [Index -> Residues(q)]
  BY <1>1, <1>2, <1>5 DEF TwoTerms
<1>. QED  BY <1>6 DEF Sized, Index

\* What is true of the modulus and the square root of -1 during a multiplication.
LEMMA RingFacts ==
  ASSUME SearchInv, MillerRabinExact, RootInv, pc \in Multiplying
  PROVE  /\ IsPrime(q) /\ q >= 3 /\ AtLeastTwo(q) /\ Positive(q) /\ q \in Nat
         /\ d \in Nat /\ d >= 2 /\ H \in Nat /\ H > 0 /\ d = 2 * H
         /\ r \in Int /\ r \in Units(q) /\ Times(q, r, r) = q - 1
         /\ LogD \in Nat /\ LogD >= 1 /\ d = 2^LogD
<1>1. IsPrime(q) /\ q >= 3 /\ q \in Nat /\ AtLeastTwo(q) /\ Positive(q)
  BY PrimeCandidate DEF Multiplying
<1>2. d \in Nat /\ d >= 2 /\ H \in Nat /\ d = 2 * H /\ LogD \in 1..d /\ d = 2^LogD /\ LogD \in Nat
  BY SearchFacts DEF SearchInv, H
<1>3. r \in Residues(q) /\ Times(q, r, r) = q - 1
  BY DEF RootInv, r
<1>4. r # 0
  <2>1. Times(q, 0, 0) = 0
    BY <1>1, TimesUnits, 0 \in Int
  <2>. QED  BY <1>1, <1>3, <2>1
<1>5. r \in Units(q) /\ r \in Int
  BY <1>1, <1>3, <1>4, UnitsAre
<1>. QED  BY <1>1, <1>2, <1>3, <1>5

LEMMA ArraysStart == Init => ArrayInv
  BY DEF Init, ArrayInv, Multiplying

LEMMA ArraySteps == SearchInv /\ MillerRabinExact /\ RootInv /\ ArrayInv /\ [Next]_vars => ArrayInv'
<1>. SUFFICES ASSUME SearchInv, MillerRabinExact, RootInv, ArrayInv, [Next]_vars PROVE ArrayInv'
  OBVIOUS
<1>1. CASE Skip \/ NoPrime \/ Found \/ NoRoot \/ RootOfZero \/ StartRoot \/ RootRound \/ RootFound
  <2>1. pc' \notin Multiplying
    BY <1>1 DEF Skip, NoPrime, Found, NoRoot, RootOfZero, StartRoot, RootRound, RootFound, Multiplying
  <2>. QED  BY <2>1 DEF ArrayInv, Multiplying
<1>2. CASE Call
  <2>1. pc = "some" /\ f' \in Inputs /\ g' \in Inputs /\ x' = <<f', g'>> /\ q' = q /\ search' = search
    BY <1>2 DEF Call
  <2>2. Positive(q)
    BY <2>1, PrimeCandidate
  <2>3. d \in Nat
    BY SearchFacts DEF SearchInv
  <2>4. Sized(q, d, f') /\ Sized(q, d, g')
    BY <2>1, <2>2, <2>3, InputsAreElements
  <2>5. IsPair(x')
    BY <2>1 DEF IsPair
  <2>. QED  BY <2>1, <2>4, <2>5 DEF ArrayInv, d
<1>3. CASE Split
  <2>1. pc = "split" /\ q' = q /\ search' = search /\ f' = f /\ g' = g
        /\ x' = <<split(x[1]), split(x[2])>>
    BY <1>3 DEF Split
  <2>2. IsPair(x')
    BY <2>1 DEF IsPair
  <2>. QED  BY <2>1, <2>2 DEF ArrayInv, d, Multiplying
<1>4. CASE ForwardGroup \/ NextOperand \/ PointwiseProduct \/ InverseGroup \/ PostScale \/ MulHalves \/ Combine
  <2>1. pc \in Multiplying /\ q' = q /\ search' = search /\ f' = f /\ g' = g
    BY <1>4 DEF ForwardGroup, NextOperand, PointwiseProduct, InverseGroup, PostScale, MulHalves,
                Combine, Multiplying
  <2>2. DOMAIN x' = DOMAIN x
    BY <1>4 DEF ForwardGroup, NextOperand, PointwiseProduct, InverseGroup, PostScale, MulHalves, Combine
  <2>. QED  BY <2>1, <2>2 DEF ArrayInv, d, IsPair
<1>5. CASE UNCHANGED vars
  BY <1>5 DEF vars, ArrayInv, d
<1>. QED  BY <1>1, <1>2, <1>3, <1>4, <1>5 DEF Next

LEMMA CrtStarts == Init => CrtInv
  BY DEF Init, CrtInv

LEMMA CrtSteps ==
  SearchInv /\ MillerRabinExact /\ RootInv /\ ArrayInv /\ CrtInv /\ [Next]_vars => CrtInv'
<1>. SUFFICES ASSUME SearchInv, MillerRabinExact, RootInv, ArrayInv, CrtInv, [Next]_vars PROVE CrtInv'
  OBVIOUS
<1>1. CASE \/ Skip \/ NoPrime \/ Found \/ NoRoot \/ RootOfZero \/ StartRoot \/ RootRound \/ RootFound
           \/ ForwardGroup \/ NextOperand \/ PointwiseProduct \/ InverseGroup \/ PostScale \/ Combine
  <2>1. pc' \notin {"split", "halves", "combine"}
    BY <1>1 DEF Skip, NoPrime, Found, NoRoot, RootOfZero, StartRoot, RootRound, RootFound,
                ForwardGroup, NextOperand, PointwiseProduct, InverseGroup, PostScale, Combine
  <2>. QED  BY <2>1 DEF CrtInv
<1>2. CASE Call
  <2>1. pc' \notin {"halves", "combine"} /\ x' = <<f', g'>>
    BY <1>2 DEF Call
  <2>2. x'[1] = f' /\ x'[2] = g'
    BY <2>1
  <2>. QED  BY <2>1, <2>2 DEF CrtInv
<1>3. CASE Split
  <2>1. pc = "split" /\ pc' = "halves" /\ q' = q /\ search' = search /\ f' = f /\ g' = g /\ root' = root
        /\ x' = <<split(x[1]), split(x[2])>>
    BY <1>3 DEF Split
  <2>2. x'[1] = split(f) /\ x'[2] = split(g)
    BY <2>1 DEF CrtInv
  <2>3. /\ AtLeastTwo(q) /\ d = 2 * H /\ H \in Nat /\ r \in Int
        /\ Sized(q, d, f) /\ Sized(q, d, g)
    BY <2>1, RingFacts DEF Multiplying, ArrayInv
  <2>4. ASSUME NEW v, Sized(q, d, v) PROVE IsHalved(q, H, r, split(v), v)
    <3>1. split(v) = [i \in 0..(2 * H - 1) |-> IF i < H THEN (v[i] + r * v[i + H]) % q
                                               ELSE (v[i - H] - r * v[i]) % q]
      BY <2>3 DEF split, Index
    <3>2. Sized(q, 2 * H, v)
      BY <2>3, <2>4
    <3>. QED  BY <2>3, <3>1, <3>2, SplitHalves
  <2>5. IsHalved(q, H, r, split(f), f) /\ IsHalved(q, H, r, split(g), g)
    BY <2>3, <2>4
  <2>6. IsHalved(q, H, r, x'[1], f') /\ IsHalved(q, H, r, x'[2], g')
    BY <2>1, <2>2, <2>5
  <2>7. H' = H /\ r' = r
    BY <2>1 DEF H, r, d
  <2>. QED  BY <2>1, <2>6, <2>7 DEF CrtInv
<1>4. CASE MulHalves
  <2>1. pc = "halves" /\ pc' = "combine" /\ q' = q /\ search' = search /\ f' = f /\ g' = g /\ root' = root
        /\ x' = [x EXCEPT ![1] = mul_half(x[1], x[2])]
    BY <1>4 DEF MulHalves
  <2>. DEFINE V == x[1]
              W == x[2]
              y == mul_half(V, W)
              h == Product(q, d, f, g)
  <2>2. x'[1] = y
    BY <2>1 DEF ArrayInv, IsPair, Multiplying
  <2>3. /\ AtLeastTwo(q) /\ Positive(q) /\ d = 2 * H /\ H \in Nat /\ H > 0 /\ d \in Nat /\ d > 0
        /\ r \in Int /\ q - r \in Int /\ Times(q, r, r) = q - 1
        /\ Sized(q, d, f) /\ Sized(q, d, g)
        /\ IsHalved(q, H, r, V, f) /\ IsHalved(q, H, r, W, g)
    <3>1. /\ AtLeastTwo(q) /\ Positive(q) /\ d = 2 * H /\ H \in Nat /\ H > 0 /\ d \in Nat /\ d > 0
          /\ r \in Int /\ q \in Nat /\ Times(q, r, r) = q - 1
      BY <2>1, RingFacts DEF Multiplying
    <3>2. /\ Sized(q, d, f) /\ Sized(q, d, g)
          /\ IsHalved(q, H, r, V, f) /\ IsHalved(q, H, r, W, g)
      BY <2>1 DEF Multiplying, ArrayInv, CrtInv
    <3>. QED  BY <3>1, <3>2
  <2>4. IsProduct(q, d, q - 1, h, f, g)
    BY <2>3, ProductIs
  <2>5. Sized(q, H, Low(H, V)) /\ Sized(q, H, High(H, V)) /\ Sized(q, H, Low(H, W)) /\ Sized(q, H, High(H, W))
    BY <2>3, HalvesReduced
  <2>6. ASSUME NEW i \in 0..(H - 1)
        PROVE  /\ y[i] = Conv(q, Low(H, V), Low(H, W), H, r, i)
               /\ y[H + i] = Conv(q, High(H, V), High(H, W), H, q - r, i)
               /\ y[i] \in Residues(q) /\ y[H + i] \in Residues(q)
    <3>1. i \in Index /\ H + i \in Index /\ i < H /\ ~(H + i < H) /\ (H + i) - H = i /\ i \in Int
      BY <2>3 DEF Index
    <3>2. y[i] = BlockProduct(V, W, 0, H, r, i) /\ y[H + i] = BlockProduct(V, W, H, H, q - r, i)
      BY <3>1 DEF mul_half
    <3>3. \A j \in 0..(H - 1) : /\ Low(H, V)[j] = V[0 + j] /\ Low(H, W)[j] = W[0 + j]
                                /\ High(H, V)[j] = V[H + j] /\ High(H, W)[j] = W[H + j]
      BY DEF Low, High
    <3>. HIDE DEF V, W, y
    <3>4. BlockProduct(V, W, 0, H, r, i) = Conv(q, Low(H, V), Low(H, W), H, r, i)
      BY <2>3, <2>5, <3>3, BlockProductIs, 0 \in Int
    <3>5. BlockProduct(V, W, H, H, q - r, i) = Conv(q, High(H, V), High(H, W), H, q - r, i)
      <4>. DEFINE s == q - r
                  o == H
      <4>1. s \in Int /\ o \in Int
        BY <2>3
      <4>2. \A j \in 0..(H - 1) : High(H, V)[j] = V[o + j] /\ High(H, W)[j] = W[o + j]
        BY <3>3
      <4>3. Positive(q) /\ H \in Nat /\ H > 0
        BY <2>3
      <4>. HIDE DEF s, o
      <4>4. BlockProduct(V, W, o, H, s, i) = Conv(q, High(H, V), High(H, W), H, s, i)
        BY ONLY <2>5, <4>1, <4>2, <4>3, i \in 0..(H - 1), BlockProductIs
      <4>. QED  BY <4>4 DEF s, o
    <3>6. /\ Conv(q, Low(H, V), Low(H, W), H, r, i) \in Residues(q)
          /\ Conv(q, High(H, V), High(H, W), H, q - r, i) \in Residues(q)
      BY <2>3, <2>5, <3>1, ConvRow
    <3>. QED  BY <3>2, <3>4, <3>5, <3>6
  <2>7. Sized(q, 2 * H, y)
    <3>1. y = [i \in 0..(2 * H - 1) |-> y[i]]
      BY <2>3 DEF mul_half, Index
    <3>2. ASSUME NEW i \in 0..(2 * H - 1) PROVE y[i] \in Residues(q)
      <4>1. CASE i < H
        <5>1. i \in 0..(H - 1)
          BY <2>3, <4>1
        <5>. HIDE DEF y
        <5>. QED  BY <2>6, <5>1
      <4>2. CASE ~(i < H)
        <5>1. i - H \in 0..(H - 1) /\ H + (i - H) = i
          BY <2>3, <4>2
        <5>. HIDE DEF y
        <5>2. y[H + (i - H)] \in Residues(q)
          BY <2>6, <5>1
        <5>. QED  BY <5>1, <5>2
      <4>. QED  BY <4>1, <4>2
    <3>. HIDE DEF y
    <3>. QED  BY <3>1, <3>2 DEF Sized
  <2>. HIDE DEF y, h, V, W
  <2>8. IsHalved(q, H, r, y, h)
    <3>1. /\ Sized(q, 2 * H, f) /\ Sized(q, 2 * H, g) /\ IsProduct(q, 2 * H, q - 1, h, f, g)
      BY <2>3, <2>4
    <3>2. \A i \in 0..(H - 1) : /\ y[i] = Conv(q, Low(H, V), Low(H, W), H, r, i)
                                /\ y[H + i] = Conv(q, High(H, V), High(H, W), H, q - r, i)
      BY <2>6
    <3>3. /\ AtLeastTwo(q) /\ H \in Nat /\ H > 0 /\ r \in Int /\ Times(q, r, r) = q - 1
          /\ IsHalved(q, H, r, V, f) /\ IsHalved(q, H, r, W, g)
      BY <2>3
    <3>. QED  BY ONLY <2>7, <3>1, <3>2, <3>3, HalvesMultiply
  <2>9. H' = H /\ r' = r /\ d' = d
    BY <2>1 DEF H, r, d
  <2>. QED  BY <2>1, <2>2, <2>8, <2>9 DEF CrtInv, h
<1>5. CASE UNCHANGED vars
  BY <1>5 DEF vars, CrtInv, d, H, r
<1>. QED  BY <1>1, <1>2, <1>3, <1>4, <1>5 DEF Next

\* The CRT path ends with the product.
LEMMA CombineIsProduct ==
  SearchInv /\ MillerRabinExact /\ RootInv /\ ArrayInv /\ CrtInv /\ Combine
    => x'[1] = Product(q, d, f, g)
<1>. SUFFICES ASSUME SearchInv, MillerRabinExact, RootInv, ArrayInv, CrtInv, Combine
              PROVE  x'[1] = Product(q, d, f, g)
  OBVIOUS
<1>. DEFINE y == x[1]
            h == Product(q, d, f, g)
            w == combine(y)
<1>1. pc = "combine" /\ x' = [x EXCEPT ![1] = w] /\ pc \in Multiplying
  BY DEF Combine, Multiplying
<1>2. x'[1] = w
  BY <1>1 DEF ArrayInv, IsPair
<1>3. /\ IsPrime(q) /\ q >= 3 /\ AtLeastTwo(q) /\ d = 2 * H /\ H \in Nat /\ d \in Nat /\ d > 0
      /\ r \in Units(q)
  BY <1>1, RingFacts
<1>4. Sized(q, d, f) /\ Sized(q, d, g) /\ IsHalved(q, H, r, y, h)
  BY <1>1 DEF ArrayInv, CrtInv
<1>5. Sized(q, 2 * H, h)
  <2>1. Sized(q, d, h)
    BY <1>3, <1>4, ProductIs
  <2>. HIDE DEF h
  <2>. QED  BY <1>3, <2>1
<1>6. w = [i \in 0..(2 * H - 1) |->
             IF i < H THEN ((y[i] + y[i + H]) * inv(q, 2)) % q
             ELSE ((y[i - H] - y[i]) * inv(q, (2 * r) % q)) % q]
  BY <1>3 DEF combine, Index
<1>. HIDE DEF y, h, w
<1>7. w = h
  BY ONLY <1>3, <1>4, <1>5, <1>6, HalvesCombine
<1>. QED  BY <1>2, <1>7 DEF h

-----------------------------------------------------------------------------
(* The order of the twiddles: numbers with their binary digits reversed.   *)

LEMMA SumZSplits ==
  ASSUME NEW S, NEW c, IsFamily(c, S, Int), NEW T \in SUBSET S
  PROVE  /\ SumZ(c) = SumZ(Part(c, T)) + SumZ(Part(c, S \ T))
         /\ IsFamily(Part(c, T), T, Int) /\ IsFamily(Part(c, S \ T), S \ T, Int)
<1>1. IsFiniteSet(S) /\ c \in [S -> Int] /\ S \ T \in SUBSET S
  BY DEF IsFamily
<1>2. IsFamily(Part(c, T), T, Int) /\ IsFamily(Part(c, S \ T), S \ T, Int)
  BY <1>1, PartOf DEF IsFamily
<1>3. SumZ(c) = PlusZ[<<SumZ(Part(c, T)), SumZ(Part(c, S \ T))>>]
  BY <1>1, Ints, SumSplit DEF SumZ
<1>4. SumZ(Part(c, T)) \in Int /\ SumZ(Part(c, S \ T)) \in Int
  BY <1>2, AddedUp
<1>. QED  BY <1>2, <1>3, <1>4 DEF PlusZ

LEMMA SumZTakesOut ==
  ASSUME NEW S, NEW c, IsFamily(c, S, Int), NEW s \in S
  PROVE  /\ SumZ(c) = c[s] + SumZ(Part(c, S \ {s}))
         /\ IsFamily(Part(c, S \ {s}), S \ {s}, Int)
         /\ SumZ(Part(c, S \ {s})) \in Int /\ c[s] \in Int
<1>1. c[s] \in Int
  BY DEF IsFamily
<1>2. SumZ(Part(c, {s})) = c[s]
  BY <1>1, Ints, SumOfOne DEF SumZ
<1>3. /\ SumZ(c) = SumZ(Part(c, {s})) + SumZ(Part(c, S \ {s}))
      /\ IsFamily(Part(c, S \ {s}), S \ {s}, Int)
  BY SumZSplits, {s} \in SUBSET S
<1>4. SumZ(Part(c, S \ {s})) \in Int
  BY <1>3, AddedUp
<1>. QED  BY <1>1, <1>2, <1>3, <1>4

LEMMA SumZRenumbered ==
  ASSUME NEW S, NEW c, IsFamily(c, S, Int), NEW T, NEW b, IsFamily(b, T, Int),
         NEW p, Renumbers(p, T, S), \A t \in T : b[t] = c[p[t]]
  PROVE  SumZ(b) = SumZ(c)
  BY Ints, SumReindex DEF SumZ, IsFamily

LEMMA SumZDoubles ==
  ASSUME NEW S, NEW c, IsFamily(c, S, Int), NEW b, IsFamily(b, S, Int), \A s \in S : b[s] = 2 * c[s]
  PROVE  SumZ(b) = 2 * SumZ(c)
<1>1. IsFiniteSet(S) /\ c \in [S -> Int] /\ b \in [S -> Int]
  BY DEF IsFamily
<1>2. \A s \in S : b[s] = PlusZ[<<c[s], c[s]>>]
  BY <1>1 DEF PlusZ
<1>3. SumZ(b) = PlusZ[<<SumZ(c), SumZ(c)>>]
  BY <1>1, <1>2, Ints, SumOfSums DEF SumZ
<1>4. SumZ(c) \in Int
  BY AddedUp
<1>. QED  BY <1>3, <1>4 DEF PlusZ

-----------------------------------------------------------------------------
Digit(i, b) == (i \div 2^b) % 2

LEMMA DigitType ==
  ASSUME NEW i \in Nat, NEW b \in Nat
  PROVE  Digit(i, b) \in {0, 1} /\ Digit(i, b) \in Int
<1>. DEFINE p == 2^b
<1>1. p \in Nat /\ p > 0
  BY TwoPowers
<1>. HIDE DEF p
<1>2. i \div p \in Nat
  BY <1>1, Division
<1>. DEFINE y == i \div p
<1>. HIDE DEF y
<1>3. y \in Nat
  BY <1>2 DEF y
<1>4. y % 2 \in 0..1
  BY <1>3
<1>. QED  BY <1>4 DEF Digit, y, p

LEMMA DigitShifts ==
  ASSUME NEW i \in Nat, NEW b \in Nat
  PROVE  Digit(i \div 2, b) = Digit(i, b + 1)
<1>. DEFINE p == 2^b
            p2 == 2^(b + 1)
            o == i % p2
            u == i \div p2
            y == i \div 2
            o2 == o \div 2
<1>1. p \in Nat /\ p > 0 /\ p2 = 2 * p /\ p2 \in Nat /\ p2 > 0
  <2>1. p \in Nat /\ p > 0 /\ p2 = 2 * p
    BY TwoPowers
  <2>. HIDE DEF p, p2
  <2>. QED  BY <2>1
<1>. HIDE DEF p, p2
<1>2. u \in Nat /\ o \in 0..(p2 - 1) /\ i = p2 * u + o
  BY <1>1, Division
<1>. DEFINE v == p * u
<1>3. v \in Nat /\ i = 2 * v + o
  <2>1. v \in Nat /\ p2 * u = 2 * v
    BY <1>1, <1>2
  <2>. HIDE DEF o, u, v
  <2>. QED  BY <1>2, <2>1
<1>4. y = v + o2 /\ o2 \in 0..(p - 1) /\ y \in Int
  <2>. HIDE DEF o, u, v
  <2>1. y = v + o2 /\ o2 \in Nat /\ 2 * o2 <= o /\ y \in Int
    BY <1>2, <1>3, Z3
  <2>. HIDE DEF o2, y
  <2>. QED  BY <1>1, <1>2, <2>1
<1>5. y \div p = u
  <2>1. y = p * u + o2 /\ u \in Int
    BY <1>2, <1>4
  <2>. HIDE DEF y, u, o2, o
  <2>. QED  BY <1>1, <1>4, <2>1, DivisionIs
<1>. QED  BY <1>5 DEF Digit, p, p2

LEMMA DigitAbove ==
  ASSUME NEW b \in Nat, NEW i \in 0..(2^b - 1)
  PROVE  Digit(i, b) = 0
<1>. DEFINE p == 2^b
<1>1. p \in Nat /\ p > 0 /\ i \in 0..(p - 1)
  BY TwoPowers
<1>. HIDE DEF p
<1>2. i \div p = 0
  <2>. DEFINE k1 == 0
  <2>1. i = p * k1 + i /\ k1 \in Int /\ i \in Int
    BY <1>1
  <2>. HIDE DEF k1
  <2>2. i \div p = k1
    BY <1>1, <2>1, DivisionIs
  <2>. QED  BY <2>2 DEF k1
<1>. QED  BY <1>2 DEF Digit, p

LEMMA DigitsOfUpper ==
  ASSUME NEW e \in Nat, NEW i \in 0..(2^e - 1)
  PROVE  /\ 2^e + i \in Nat /\ Digit(2^e + i, e) = 1
         /\ \A b \in 0..(e - 1) : Digit(2^e + i, b) = Digit(i, b)
<1>. DEFINE p == 2^e
            n == p + i
<1>1. p \in Nat /\ p > 0 /\ i \in 0..(p - 1) /\ n \in Nat
  <2>1. p \in Nat /\ p > 0
    BY TwoPowers
  <2>. HIDE DEF p
  <2>. QED  BY <2>1 DEF p
<1>2. Digit(n, e) = 1
  <2>. DEFINE k1 == 1
  <2>. HIDE DEF p
  <2>1. n = p * k1 + i /\ k1 \in Int
    BY <1>1
  <2>. HIDE DEF k1, n
  <2>2. n \div p = k1
    BY <1>1, <2>1, DivisionIs
  <2>. QED  BY <2>2 DEF Digit, k1, p
<1>3. ASSUME NEW b \in 0..(e - 1) PROVE Digit(n, b) = Digit(i, b)
  <2>. DEFINE s == 2^b
              m == 2^(e - 1 - b)
              o == i % s
              u == i \div s
  <2>1. s \in Nat /\ s > 0 /\ m \in Nat /\ p = s * (2 * m)
    <3>1. b \in Nat /\ e - 1 - b \in Nat /\ b + ((e - 1 - b) + 1) = e /\ (e - 1 - b) + 1 \in Nat
      OBVIOUS
    <3>2. s \in Nat /\ s > 0 /\ m \in Nat /\ 2^((e - 1 - b) + 1) = 2 * m
      BY <3>1, TwoPowers
    <3>3. 2^(b + ((e - 1 - b) + 1)) = s * 2^((e - 1 - b) + 1)
      BY <3>1, TwoPowerOfSum
    <3>4. p = s * 2^((e - 1 - b) + 1)
      BY <3>1, <3>3
    <3>. QED  BY <3>2, <3>4
  <2>. HIDE DEF s, m, p
  <2>2. u \in Nat /\ o \in 0..(s - 1) /\ i = s * u + o
    BY <2>1, Division
  <2>. DEFINE v == 2 * m + u
  <2>3. n = s * v + o /\ v \in Int
    <3>1. s * v = s * (2 * m) + s * u
      BY <2>1, <2>2
    <3>. DEFINE y1 == s * (2 * m)
                y2 == s * u
                y3 == s * v
    <3>2. y1 \in Int /\ y2 \in Int /\ y3 \in Int
      BY <2>1, <2>2
    <3>3. p = y1 /\ i = y2 + o /\ y3 = y1 + y2
      BY <2>1, <2>2, <3>1
    <3>. HIDE DEF y1, y2, y3, u, o
    <3>4. n = y3 + o
      BY <2>2, <3>2, <3>3
    <3>. QED  BY <2>1, <2>2, <3>4 DEF y3
  <2>4. n \div s = v
    <3>. HIDE DEF n, v, u, o
    <3>. QED  BY <1>1, <2>1, <2>2, <2>3, DivisionIs
  <2>5. v % 2 = u % 2
    <3>. HIDE DEF u
    <3>. QED  BY <2>1, <2>2, Z3
  <2>. QED  BY <2>4, <2>5 DEF Digit, s, u
<1>. QED  BY <1>1, <1>2, <1>3

-----------------------------------------------------------------------------
ReverseTerms(L, i) == [b \in 0..(L - 1) |-> Digit(i, b) * 2^(L - 1 - b)]
Reverse(L, i) == SumZ(ReverseTerms(L, i))

LEMMA ReverseRow ==
  ASSUME NEW L \in Nat, NEW i \in Nat
  PROVE  IsFamily(ReverseTerms(L, i), 0..(L - 1), Int) /\ Reverse(L, i) \in Int
<1>1. ASSUME NEW b \in 0..(L - 1) PROVE Digit(i, b) * 2^(L - 1 - b) \in Int
  <2>1. b \in Nat /\ L - 1 - b \in Nat
    OBVIOUS
  <2>. DEFINE p == 2^(L - 1 - b)
  <2>2. p \in Nat /\ Digit(i, b) \in Int
    BY <2>1, TwoPowers, DigitType
  <2>. HIDE DEF p
  <2>3. Digit(i, b) * p \in Int
    BY <2>2
  <2>. QED  BY <2>3 DEF p
<1>2. IsFiniteSet(0..(L - 1))
  BY FS_Interval
<1>3. IsFamily(ReverseTerms(L, i), 0..(L - 1), Int)
  BY <1>1, <1>2 DEF IsFamily, ReverseTerms
<1>. QED  BY <1>3, AddedUp DEF Reverse

LEMMA ReverseDoubles ==
  ASSUME NEW L \in Nat, L >= 1, NEW i \in 0..(2^L - 1)
  PROVE  2 * Reverse(L, i) = Reverse(L, i \div 2) + (i % 2) * 2^L
<1>. DEFINE S == 0..(L - 1)
            B == ReverseTerms(L, i)
            C == ReverseTerms(L, i \div 2)
            D == [b \in S |-> 2 * B[b]]
            high == S \ {0}
            low == S \ {L - 1}
            p == [b \in low |-> b + 1]
<1>1. i \in Nat /\ i \div 2 \in Nat
  <2>1. i \in Nat
    OBVIOUS
  <2>. QED  BY <2>1, Z3
<1>2. IsFamily(B, S, Int) /\ IsFamily(C, S, Int) /\ IsFiniteSet(S)
  BY <1>1, ReverseRow DEF IsFamily
<1>3. IsFamily(D, S, Int)
  <2>1. \A b \in S : 2 * B[b] \in Int
    BY <1>2 DEF IsFamily
  <2>. QED  BY <1>2, <2>1 DEF IsFamily
<1>4. SumZ(D) = 2 * SumZ(B)
  <2>1. \A b \in S : D[b] = 2 * B[b]
    OBVIOUS
  <2>. HIDE DEF D, B, S
  <2>. QED  BY <1>2, <1>3, <2>1, SumZDoubles
<1>5. 0 \in S /\ L - 1 \in S /\ \A b \in low : b \in Nat /\ b + 1 \in high /\ b + 1 \in S /\ L - 1 - (b + 1) \in Nat
  OBVIOUS
<1>6. D[0] = (i % 2) * 2^L
  <2>1. B[0] = Digit(i, 0) * 2^(L - 1 - 0) /\ D[0] = 2 * B[0]
    BY <1>5 DEF ReverseTerms
  <2>2. Digit(i, 0) = i % 2
    <3>1. 2^0 = 1 /\ i \div 1 = i
      BY TwoPowers, <1>1
    <3>. QED  BY <3>1 DEF Digit
  <2>3. 2^L = 2 * 2^(L - 1) /\ 2^(L - 1) \in Nat /\ L - 1 - 0 = L - 1
    BY TwoPowers
  <2>. DEFINE y == 2^(L - 1)
              z == i % 2
  <2>4. z \in Int /\ y \in Nat /\ B[0] = z * y /\ 2^L = 2 * y
    BY <1>1, <2>1, <2>2, <2>3
  <2>. HIDE DEF y, z
  <2>5. 2 * (z * y) = z * (2 * y)
    BY <2>4
  <2>. QED  BY <2>1, <2>4, <2>5 DEF z
<1>7. C[L - 1] = 0
  <2>1. C[L - 1] = Digit(i \div 2, L - 1) * 2^(L - 1 - (L - 1))
    BY <1>5 DEF ReverseTerms
  <2>2. Digit(i \div 2, L - 1) = Digit(i, L)
    <3>. DEFINE m == L - 1
    <3>1. m \in Nat /\ m + 1 = L
      OBVIOUS
    <3>. HIDE DEF m
    <3>2. Digit(i \div 2, m) = Digit(i, m + 1)
      BY <1>1, <3>1, DigitShifts
    <3>. QED  BY <3>1, <3>2 DEF m
  <2>3. Digit(i, L) = 0
    BY DigitAbove
  <2>4. L - 1 - (L - 1) = 0 /\ 2^0 = 1
    BY TwoPowers
  <2>. QED  BY <2>1, <2>2, <2>3, <2>4
<1>8. ASSUME NEW b \in low PROVE C[b] = D[b + 1]
  <2>1. C[b] = Digit(i \div 2, b) * 2^(L - 1 - b)
    BY <1>5 DEF ReverseTerms
  <2>2. D[b + 1] = 2 * B[b + 1] /\ B[b + 1] = Digit(i, b + 1) * 2^(L - 1 - (b + 1))
    BY <1>5 DEF ReverseTerms
  <2>3. Digit(i \div 2, b) = Digit(i, b + 1) /\ Digit(i, b + 1) \in Int
    BY <1>1, <1>5, DigitShifts, DigitType
  <2>. DEFINE y == 2^(L - 1 - (b + 1))
              z == Digit(i, b + 1)
  <2>4. y \in Nat /\ 2^(L - 1 - b) = 2 * y
    <3>1. L - 1 - b = (L - 1 - (b + 1)) + 1
      BY <1>5
    <3>. QED  BY <1>5, <3>1, TwoPowers
  <2>5. C[b] = z * (2 * y) /\ D[b + 1] = 2 * (z * y) /\ z \in Int
    BY <2>1, <2>2, <2>3, <2>4
  <2>. HIDE DEF C, D, y, z
  <2>6. z * (2 * y) = 2 * (z * y)
    BY <2>4, <2>5
  <2>. QED  BY <2>5, <2>6
<1>. HIDE DEF B, C, D
<1>9. /\ SumZ(D) = D[0] + SumZ(Part(D, high)) /\ IsFamily(Part(D, high), high, Int)
      /\ SumZ(Part(D, high)) \in Int /\ D[0] \in Int
  BY <1>3, <1>5, SumZTakesOut
<1>10. /\ SumZ(C) = C[L - 1] + SumZ(Part(C, low)) /\ IsFamily(Part(C, low), low, Int)
       /\ SumZ(Part(C, low)) \in Int
  <2>. DEFINE m == L - 1
  <2>1. m \in S
    BY <1>5
  <2>. HIDE DEF m, S
  <2>2. /\ SumZ(C) = C[m] + SumZ(Part(C, S \ {m})) /\ IsFamily(Part(C, S \ {m}), S \ {m}, Int)
        /\ SumZ(Part(C, S \ {m})) \in Int
    BY <1>2, <2>1, SumZTakesOut
  <2>. QED  BY <2>2 DEF m
<1>11. Renumbers(p, low, high)
  <2>1. \A y \in high : y - 1 \in low /\ (y - 1) + 1 = y
    OBVIOUS
  <2>2. p \in [low -> high]
    BY <1>5
  <2>3. \A b \in low : p[b] = b + 1
    OBVIOUS
  <2>4. \A u, v \in low : u + 1 = v + 1 => u = v
    OBVIOUS
  <2>. HIDE DEF p, low, high
  <2>. QED  BY <2>1, <2>2, <2>3, <2>4 DEF Renumbers
<1>12. SumZ(Part(C, low)) = SumZ(Part(D, high))
  <2>1. \A b \in low : Part(C, low)[b] = Part(D, high)[p[b]]
    BY <1>5, <1>8 DEF Part
  <2>. HIDE DEF p, low, high
  <2>. QED  BY <1>9, <1>10, <1>11, <2>1, SumZRenumbered
<1>. QED  BY <1>4, <1>6, <1>7, <1>9, <1>10, <1>12 DEF Reverse, B, C

LEMMA ReverseType ==
  ASSUME NEW L \in Nat, L >= 1
  PROVE  Reverse(L, 0) = 0 /\ \A i \in 0..(2^L - 1) : Reverse(L, i) \in Nat
<1>. DEFINE p == 2^L
            T == {m \in Nat : m < p /\ Reverse(L, m) \notin Nat}
<1>0. p \in Nat /\ p > 0
  BY TwoPowers
<1>1. Reverse(L, 0) = 0
  <2>1. 2 * Reverse(L, 0) = Reverse(L, 0 \div 2) + (0 % 2) * p
    <3>1. 0 \in 0..(2^L - 1)
      <4>. HIDE DEF p
      <4>1. 0 \in 0..(p - 1)
        BY <1>0
      <4>. QED  BY <4>1 DEF p
    <3>. QED  BY <3>1, ReverseDoubles
  <2>2. Reverse(L, 0) \in Int
    BY ReverseRow, 0 \in Nat
  <2>. HIDE DEF p
  <2>3. 0 \div 2 = 0 /\ (0 % 2) * p = 0
    BY <1>0
  <2>. QED  BY <2>1, <2>2, <2>3
<1>2. ASSUME T # {} PROVE FALSE
  <2>1. T \in SUBSET Nat
    OBVIOUS
  <2>2. PICK m \in T : \A n \in T : m <= n
    <3>. HIDE DEF T
    <3>. QED  BY <1>2, <2>1, Least
  <2>3. m \in Nat /\ m < p /\ Reverse(L, m) \notin Nat /\ m # 0
    BY <1>1, <2>2
  <2>. DEFINE h == m \div 2
              o == m % 2
  <2>4. h \in Nat /\ h < m /\ o \in {0, 1}
    BY <2>3, Z3
  <2>5. 2 * Reverse(L, m) = Reverse(L, h) + o * p
    <3>1. m \in 0..(2^L - 1)
      <4>. HIDE DEF p
      <4>1. m \in 0..(p - 1)
        BY <1>0, <2>3
      <4>. QED  BY <4>1 DEF p
    <3>. QED  BY <3>1, ReverseDoubles
  <2>. HIDE DEF h, o, p
  <2>6. Reverse(L, h) \in Nat
    <3>1. h \notin T
      BY <2>2, <2>3, <2>4
    <3>. QED  BY <1>0, <2>3, <2>4, <3>1
  <2>7. o * p \in Nat
    BY <1>0, <2>4
  <2>8. Reverse(L, m) \in Int
    BY <2>3, ReverseRow
  <2>. QED  BY <2>3, <2>5, <2>6, <2>7, <2>8
<1>3. ASSUME NEW i \in 0..(p - 1) PROVE Reverse(L, i) \in Nat
  <2>1. i \in Nat /\ i < p
    <3>. HIDE DEF p
    <3>. QED  BY <1>0
  <2>. HIDE DEF p
  <2>. QED  BY <1>2, <2>1
<1>. QED  BY <1>1, <1>3

LEMMA ReverseOfUpper ==
  ASSUME NEW e \in Nat, NEW i \in 0..(2^e - 1)
  PROVE  Reverse(e + 1, 2^e + i) = Reverse(e + 1, i) + 1
<1>. DEFINE L == e + 1
            S == 0..e
            n == 2^e + i
            B == ReverseTerms(L, n)
            C == ReverseTerms(L, i)
<1>1. n \in Nat /\ i \in Nat /\ L \in Nat /\ L - 1 = e /\ e \in S
  BY DigitsOfUpper
<1>2. IsFamily(B, S, Int) /\ IsFamily(C, S, Int)
  <2>1. IsFamily(B, 0..(L - 1), Int) /\ IsFamily(C, 0..(L - 1), Int)
    <3>. HIDE DEF n, L
    <3>. QED  BY <1>1, ReverseRow
  <2>2. L - 1 = e
    OBVIOUS
  <2>. HIDE DEF B, C, L
  <2>. QED  BY <2>1, <2>2
<1>3. \A b \in S : B[b] = Digit(n, b) * 2^(e - b) /\ C[b] = Digit(i, b) * 2^(e - b)
  <2>1. L - 1 = e
    OBVIOUS
  <2>. HIDE DEF n, L
  <2>. QED  BY <2>1 DEF ReverseTerms
<1>4. B[e] = 1 /\ C[e] = 0
  <2>1. Digit(n, e) = 1 /\ Digit(i, e) = 0 /\ e - e = 0 /\ 2^0 = 1
    BY DigitsOfUpper, DigitAbove, TwoPowers
  <2>2. B[e] = Digit(n, e) * 2^(e - e) /\ C[e] = Digit(i, e) * 2^(e - e)
    BY <1>1, <1>3
  <2>. HIDE DEF B, C, n
  <2>. QED  BY <2>1, <2>2
<1>5. \A b \in S \ {e} : B[b] = C[b]
  <2>1. \A b \in S \ {e} : b \in 0..(e - 1)
    OBVIOUS
  <2>2. \A b \in 0..(e - 1) : Digit(n, b) = Digit(i, b)
    BY DigitsOfUpper
  <2>. HIDE DEF B, C, n
  <2>. QED  BY <1>3, <2>1, <2>2
<1>. HIDE DEF B, C, L, n
<1>6. SumZ(B) = B[e] + SumZ(Part(B, S \ {e})) /\ SumZ(C) = C[e] + SumZ(Part(C, S \ {e}))
      /\ SumZ(Part(B, S \ {e})) \in Int
  <2>. HIDE DEF S
  <2>1. SumZ(B) = B[e] + SumZ(Part(B, S \ {e})) /\ SumZ(Part(B, S \ {e})) \in Int
    BY <1>1, <1>2, SumZTakesOut
  <2>2. SumZ(C) = C[e] + SumZ(Part(C, S \ {e}))
    BY <1>1, <1>2, SumZTakesOut
  <2>. QED  BY <2>1, <2>2
<1>7. Part(B, S \ {e}) = Part(C, S \ {e})
  BY <1>5 DEF Part
<1>8. SumZ(B) = SumZ(C) + 1
  BY <1>4, <1>6, <1>7
<1>. QED  BY <1>8 DEF Reverse, B, C, L, n

\* The model's bit_reverse.
LEMMA BitReverseIs ==
  ASSUME LogD \in Nat, NEW i \in Nat
  PROVE  bit_reverse(i) = Reverse(LogD, i)
<1>. DEFINE S == 0..(LogD - 1)
            c == ReverseTerms(LogD, i)
            e(b) == ((i \div 2 ^ b) % 2) * 2 ^ (LogD - 1 - b)
            Is(h) == h = [t \in SUBSET S |-> IF t = {} THEN 0 ELSE e(Pick(t)) + h[t \ {Pick(t)}]]
            total == CHOOSE h : Is(h)
<1>1. bit_reverse(i) = total[S]
  BY Zenon DEF bit_reverse, MapThenSumSet, MapThenFoldSet, Pick
<1>2. \A t \in SUBSET S : t # {} => e(Pick(t)) = c[Pick(t)]
  <2>1. \A t \in SUBSET S : t # {} => Pick(t) \in S
    BY DEF Pick
  <2>2. \A b \in S : c[b] = e(b)
    BY DEF ReverseTerms, Digit
  <2>. HIDE DEF S, e, c
  <2>. QED  BY <2>1, <2>2
<1>3. IsFamily(c, S, Int)
  BY ReverseRow
<1>. HIDE DEF e, S, c
<1>4. \A h : Is(h) <=> AddsUp(h, c, S)
  BY <1>2 DEF AddsUp
<1>. HIDE DEF Is
<1>5. \E h : Is(h)
  BY <1>3, <1>4, AddedUp
<1>6. Is(total)
  BY <1>5, Zenon
<1>7. total[S] = SumZ(c)
  BY <1>3, <1>4, <1>6, AddedUp
<1>. QED  BY <1>1, <1>7 DEF Reverse, c

-----------------------------------------------------------------------------
(* The twiddles: powers of psi, and the roots of the blocks.               *)

\* p is a root of X^(2^L) + 1 modulo the prime n.
IsRoot(n, L, p) ==
  IsPrime(n) /\ n >= 3 /\ L \in Nat /\ L >= 1 /\ p \in Units(n) /\ Power(n, p, 2^L) = n - 1

Twiddle(n, L, p, i) == Power(n, p, Reverse(L, i))

\* The root of node i of the tree of blocks, whose children are 2i and 2i + 1.
NodeRoot(n, L, p, i) ==
  IF i % 2 = 0 THEN Twiddle(n, L, p, i \div 2) ELSE n - Twiddle(n, L, p, i \div 2)

LEMMA RootFacts ==
  ASSUME NEW n, NEW L, NEW p, IsRoot(n, L, p)
  PROVE  /\ AtLeastTwo(n) /\ Positive(n) /\ n \in Nat /\ n \in Int /\ p \in Int
         /\ L \in Nat /\ L - 1 \in Nat /\ 2^L \in Nat /\ 2^L > 0 /\ 2^L = 2 * 2^(L - 1)
         /\ 2^(L - 1) \in Nat /\ 2^(L - 1) > 0 /\ (L - 1) + 1 = L
<1>1. AtLeastTwo(n) /\ Positive(n) /\ n \in Nat
  BY PrimeIsTwo DEF IsRoot, AtLeastTwo
<1>2. p \in Int
  BY <1>1, UnitsAre DEF IsRoot
<1>3. L \in Nat /\ L - 1 \in Nat /\ (L - 1) + 1 = L /\ L > 0
  BY DEF IsRoot
<1>4. 2^L \in Nat /\ 2^L > 0 /\ 2^L = 2 * 2^(L - 1)
  BY <1>3, TwoPowers
<1>. DEFINE m == L - 1
<1>5. 2^m \in Nat /\ 2^m > 0
  <2>. HIDE DEF m
  <2>1. m \in Nat
    BY <1>3 DEF m
  <2>. QED  BY <2>1, TwoPowers
<1>. QED  BY <1>1, <1>2, <1>3, <1>4, <1>5

LEMMA TwiddleType ==
  ASSUME NEW n, NEW L, NEW p, IsRoot(n, L, p), NEW i \in 0..(2^L - 1)
  PROVE  /\ Twiddle(n, L, p, i) \in Units(n) /\ Twiddle(n, L, p, i) \in Int
         /\ Reverse(L, i) \in Nat /\ i \in Nat
<1>1. Reverse(L, i) \in Nat
  BY ReverseType DEF IsRoot
<1>2. Twiddle(n, L, p, i) \in Units(n)
  BY <1>1, PowersAreUnits DEF Twiddle, IsRoot
<1>3. i \in Nat
  <2>. DEFINE m == 2^L
  <2>1. i \in 0..(m - 1) /\ m \in Nat
    BY RootFacts
  <2>. HIDE DEF m
  <2>. QED  BY <2>1
<1>. QED  BY <1>1, <1>2, <1>3, RootFacts, UnitsAre

LEMMA NegatedTwiddle ==
  ASSUME NEW n, AtLeastTwo(n), NEW u \in Units(n)
  PROVE  Times(n, u, n - 1) = n - u /\ n - u \in Int
<1>1. n \in Nat /\ u \in 1..(n - 1) /\ Positive(n) /\ u \in Int /\ n - 1 \in Int
  BY TwoIsPositive DEF AtLeastTwo, Units
<1>2. Times(n, u, n - 1) = Times(n, n - 1, u)
  BY <1>1, TimesCommutes
<1>3. Times(n, n - 1, u) = (-u) % n
  BY <1>1, MinusOne
<1>4. (-u) % n = n - u
  <2>. DEFINE y == -u
              o == n - u
              k1 == -1
  <2>1. y \in Int /\ o \in 0..(n - 1) /\ k1 \in Int /\ y = n * k1 + o
    BY <1>1
  <2>. HIDE DEF y, o, k1
  <2>2. y % n = o
    BY <1>1, <2>1, DivisionIs DEF Positive
  <2>. QED  BY <2>2 DEF y, o
<1>. QED  BY <1>1, <1>2, <1>3, <1>4

LEMMA NodeRootType ==
  ASSUME NEW n, NEW L, NEW p, IsRoot(n, L, p), NEW i \in 0..(2 * 2^L - 1)
  PROVE  /\ NodeRoot(n, L, p, i) \in Int /\ i \div 2 \in 0..(2^L - 1) /\ i \in Nat
         /\ i % 2 \in {0, 1}
         /\ i % 2 = 0 => NodeRoot(n, L, p, i) = Twiddle(n, L, p, i \div 2)
         /\ i % 2 = 1 => NodeRoot(n, L, p, i) = Times(n, Twiddle(n, L, p, i \div 2), n - 1)
<1>1. i \div 2 \in 0..(2^L - 1) /\ i \in Nat /\ i % 2 \in {0, 1}
  <2>. DEFINE m == 2^L
  <2>1. i \in 0..(2 * m - 1) /\ m \in Nat
    BY RootFacts
  <2>. HIDE DEF m
  <2>2. i \in Nat /\ i < 2 * m
    BY <2>1
  <2>3. i \div 2 \in Nat /\ i \div 2 < m /\ i % 2 \in {0, 1}
    BY <2>1, <2>2, Z3
  <2>4. i \div 2 \in 0..(m - 1)
    BY <2>1, <2>3
  <2>. QED  BY <2>2, <2>3, <2>4 DEF m
<1>. DEFINE j == i \div 2
<1>. HIDE DEF j
<1>2. Twiddle(n, L, p, j) \in Units(n) /\ Twiddle(n, L, p, j) \in Int
  BY <1>1, TwiddleType DEF j
<1>3. Times(n, Twiddle(n, L, p, j), n - 1) = n - Twiddle(n, L, p, j) /\ n - Twiddle(n, L, p, j) \in Int
  BY <1>2, NegatedTwiddle, RootFacts
<1>. QED  BY <1>1, <1>2, <1>3 DEF NodeRoot, j

\* The square of the twiddle of a group is the root of its block.
LEMMA TwiddleSquares ==
  ASSUME NEW n, NEW L, NEW p, IsRoot(n, L, p), NEW i \in 0..(2^L - 1)
  PROVE  Times(n, Twiddle(n, L, p, i), Twiddle(n, L, p, i)) = NodeRoot(n, L, p, i)
<1>. DEFINE m == 2^L
            j == i \div 2
            o == i % 2
            u == Reverse(L, i)
            v == Reverse(L, j)
<1>1. i \in 0..(2 * m - 1) /\ m \in Nat
  <2>1. m \in Nat /\ i \in 0..(m - 1)
    BY RootFacts
  <2>. HIDE DEF m
  <2>. QED  BY <2>1
<1>2. /\ j \in 0..(m - 1) /\ o \in {0, 1}
      /\ o = 0 => NodeRoot(n, L, p, i) = Twiddle(n, L, p, j)
      /\ o = 1 => NodeRoot(n, L, p, i) = Times(n, Twiddle(n, L, p, j), n - 1)
  BY <1>1, NodeRootType
<1>3. 2 * u = v + o * m
  BY ReverseDoubles DEF IsRoot
<1>4. u \in Nat /\ v \in Nat /\ AtLeastTwo(n) /\ p \in Int
  <2>. HIDE DEF j
  <2>. QED  BY <1>2, TwiddleType, RootFacts
<1>5. Power(n, p, m) = n - 1
  BY DEF IsRoot
<1>. HIDE DEF m, j, o, u, v
<1>6. Times(n, Power(n, p, u), Power(n, p, u)) = Power(n, p, 2 * u)
  BY <1>4, PowerOfDouble
<1>7. CASE o = 0
  <2>1. 2 * u = v
    BY <1>1, <1>3, <1>4, <1>7
  <2>. QED  BY <1>2, <1>6, <1>7, <2>1 DEF Twiddle, u, v
<1>8. CASE o = 1
  <2>1. 2 * u = v + m
    BY <1>1, <1>3, <1>4, <1>8
  <2>2. Power(n, p, v + m) = Times(n, Power(n, p, v), Power(n, p, m))
    BY <1>1, <1>4, PowerOfSum
  <2>. QED  BY <1>2, <1>5, <1>6, <1>8, <2>1, <2>2 DEF Twiddle, u, v
<1>. QED  BY <1>2, <1>7, <1>8

LEMMA TopRoot ==
  ASSUME NEW n, NEW L, NEW p, IsRoot(n, L, p)
  PROVE  NodeRoot(n, L, p, 1) = n - 1
<1>1. Reverse(L, 0) = 0
  BY ReverseType DEF IsRoot
<1>2. Power(n, p, 0) = 1
  BY RootFacts, PowerSteps, 0 \in Nat
<1>3. 1 % 2 = 1 /\ 1 \div 2 = 0
  OBVIOUS
<1>. QED  BY <1>1, <1>2, <1>3 DEF NodeRoot, Twiddle

\* The roots of the last level are the odd powers of p.
LEMMA LeafRoot ==
  ASSUME NEW n, NEW L, NEW p, IsRoot(n, L, p), NEW i \in 0..(2^L - 1)
  PROVE  /\ NodeRoot(n, L, p, 2^L + i) = Power(n, p, 2 * Reverse(L, i) + 1)
         /\ NodeRoot(n, L, p, 2^L + i) \in Int
         /\ Power(n, NodeRoot(n, L, p, 2^L + i), 2^L) = n - 1
<1>. DEFINE m == 2^L
            h == 2^(L - 1)
            j == i \div 2
            o == i % 2
            k1 == m + i
            u == Reverse(L, i)
            v == Reverse(L, j)
<1>0. /\ m \in Nat /\ m > 0 /\ m = 2 * h /\ h \in Nat /\ h > 0 /\ AtLeastTwo(n) /\ Positive(n)
      /\ p \in Int /\ L - 1 \in Nat /\ (L - 1) + 1 = L /\ n \in Int
  BY RootFacts
<1>1. i \in 0..(m - 1) /\ i \in Nat
  <2>1. i \in 0..(m - 1)
    OBVIOUS
  <2>. HIDE DEF m
  <2>. QED  BY <1>0, <2>1
<1>2. k1 \in 0..(2 * m - 1) /\ k1 \div 2 = h + j /\ k1 % 2 = o /\ j \in 0..(h - 1) /\ o \in {0, 1} /\ j \in 0..(m - 1)
  <2>. HIDE DEF m, h
  <2>. QED  BY <1>0, <1>1, Z3
<1>3. Reverse(L, h + j) = v + 1
  <2>. DEFINE e == L - 1
  <2>1. e \in Nat /\ e + 1 = L /\ j \in 0..(2^e - 1)
    BY <1>0, <1>2
  <2>. HIDE DEF e, j
  <2>2. Reverse(e + 1, 2^e + j) = Reverse(e + 1, j) + 1
    BY <2>1, ReverseOfUpper
  <2>3. h = 2^e
    BY DEF e
  <2>. HIDE DEF h
  <2>. QED  BY <2>1, <2>2, <2>3
<1>4. 2 * u = v + o * m
  BY ReverseDoubles DEF IsRoot
<1>5. u \in Nat /\ v \in Nat
  <2>. HIDE DEF j
  <2>. QED  BY <1>1, <1>2, TwiddleType
<1>6. /\ NodeRoot(n, L, p, k1) \in Int
      /\ o = 0 => NodeRoot(n, L, p, k1) = Power(n, p, v + 1)
      /\ o = 1 => NodeRoot(n, L, p, k1) = Times(n, Power(n, p, v + 1), n - 1)
  <2>. HIDE DEF k1, o
  <2>1. k1 \in 0..(2 * 2^L - 1)
    BY <1>2
  <2>2. /\ NodeRoot(n, L, p, k1) \in Int
        /\ k1 % 2 = 0 => NodeRoot(n, L, p, k1) = Twiddle(n, L, p, k1 \div 2)
        /\ k1 % 2 = 1 => NodeRoot(n, L, p, k1) = Times(n, Twiddle(n, L, p, k1 \div 2), n - 1)
    BY <2>1, NodeRootType
  <2>3. Twiddle(n, L, p, k1 \div 2) = Power(n, p, v + 1)
    BY <1>2, <1>3 DEF Twiddle
  <2>. QED  BY <1>2, <2>2, <2>3
<1>7. Power(n, p, m) = n - 1
  BY DEF IsRoot
<1>. HIDE DEF m, h, j, o, k1, u, v
<1>8. NodeRoot(n, L, p, k1) = Power(n, p, 2 * u + 1)
  <2>1. CASE o = 0
    <3>1. 2 * u + 1 = v + 1
      BY <1>0, <1>4, <1>5, <2>1
    <3>. QED  BY <1>6, <2>1, <3>1
  <2>2. CASE o = 1
    <3>1. 2 * u + 1 = (v + 1) + m /\ v + 1 \in Nat
      BY <1>0, <1>4, <1>5, <2>2
    <3>. DEFINE v1 == v + 1
    <3>. HIDE DEF v1
    <3>2. Power(n, p, v1 + m) = Times(n, Power(n, p, v1), Power(n, p, m))
      BY <1>0, <3>1, PowerOfSum DEF v1
    <3>. QED  BY <1>6, <1>7, <2>2, <3>1, <3>2 DEF v1
  <2>. QED  BY <1>2, <2>1, <2>2
<1>9. Power(n, NodeRoot(n, L, p, k1), m) = n - 1
  <2>. DEFINE e == 2 * u + 1
              u2 == 2 * u
  <2>1. e \in Nat /\ e * m = m * e /\ e = u2 + 1 /\ u2 \in Nat
    BY <1>0, <1>5
  <2>. HIDE DEF e
  <2>2. Power(n, p, e * m) = Power(n, Power(n, p, e), m) /\ Power(n, p, m * e) = Power(n, Power(n, p, m), e)
    BY <1>0, <2>1, PowerOfPower
  <2>. DEFINE w == n - 1
  <2>3. w \in Int /\ Times(n, w, w) = 1 /\ w \in Residues(n)
    BY <1>0, MinusOne, UnitsAre
  <2>. HIDE DEF w
  <2>4. Power(n, Times(n, w, w), u) = Power(n, w, u2)
    BY <1>0, <1>5, <2>3, PowerOfDouble
  <2>5. Power(n, 1, u) = 1
    BY <1>0, <1>5, PowerOfOne
  <2>. HIDE DEF u2
  <2>6. Power(n, w, u2 + 1) = Times(n, Power(n, w, u2), w)
    BY <1>0, <2>1, <2>3, PowerSteps
  <2>7. Times(n, 1, w) = w
    BY <1>0, <2>3, TimesUnits
  <2>8. Power(n, w, e) = w
    BY <2>1, <2>3, <2>4, <2>5, <2>6, <2>7
  <2>9. Power(n, Power(n, p, e), m) = w
    BY <1>7, <2>1, <2>2, <2>8 DEF w
  <2>. QED  BY <1>8, <2>9 DEF e, w
<1>. QED  BY <1>6, <1>8, <1>9 DEF m, k1, u

-----------------------------------------------------------------------------
(* The tables of the model.                                                *)
LEMMA PsiIsRoot ==
  ASSUME SearchInv, MillerRabinExact, pc \notin {"search", "panic"}, HasNtt
  PROVE  IsRoot(q, LogD, psi) /\ d = 2^LogD /\ d \in Units(q) /\ d \div 2 = 2^(LogD - 1)
<1>1. /\ IsPrime(q) /\ q >= 3 /\ AtLeastTwo(q) /\ q \in Nat
      /\ d \in Nat /\ d >= 2 /\ LogD \in Nat /\ LogD >= 1 /\ d = 2^LogD
  <2>1. IsPrime(q) /\ q >= 3 /\ AtLeastTwo(q) /\ q \in Nat
    BY PrimeCandidate
  <2>2. d \in Nat /\ d >= 2 /\ LogD \in 1..d /\ LogD \in Nat /\ d = 2^LogD
    BY SearchFacts DEF SearchInv
  <2>. QED  BY <2>1, <2>2
<1>. DEFINE d2 == 2 * d
            m == (q - 1) \div d2
            z == LeastNonResidue(q)
            h == (q - 1) \div 2
<1>2. d2 \in Nat /\ d2 > 0 /\ q - 1 \in Nat /\ q - 1 > 0
  BY <1>1
<1>. HIDE DEF d2
<1>3. m \in Nat /\ q - 1 = d2 * m
  <2>. DEFINE y == q - 1
  <2>1. y \in Nat /\ y % d2 = 0
    BY <1>2 DEF HasNtt, d2
  <2>. HIDE DEF y
  <2>2. y \div d2 \in Nat /\ y = d2 * (y \div d2) + (y % d2)
    BY <1>2, <2>1, Division
  <2>. DEFINE o == y \div d2
  <2>. HIDE DEF o
  <2>3. y = d2 * o /\ o \in Nat
    BY <1>2, <2>1, <2>2 DEF o
  <2>. QED  BY <2>3 DEF y, o
<1>. HIDE DEF m
<1>4. m > 0 /\ m * d \in Nat /\ h = m * d /\ d < q
  <2>. DEFINE y == d * m
  <2>1. d2 * m = 2 * y /\ y \in Nat /\ m * d = y
    BY <1>1, <1>3 DEF d2
  <2>2. m > 0
    BY <1>2, <1>3
  <2>3. y >= d
    BY <1>1, <1>3, <2>2
  <2>. HIDE DEF y
  <2>4. q - 1 = 2 * y
    BY <1>3, <2>1
  <2>5. h = y
    BY <1>1, <2>1, <2>4
  <2>6. d < q
    BY <1>1, <2>1, <2>3, <2>4
  <2>. QED  BY <2>1, <2>2, <2>5, <2>6
<1>5. z \in Units(q) /\ z \in Int /\ Power(q, z, h) = q - 1
  BY <1>1, NonResidueExists, UnitsAre
<1>6. psi = Power(q, z, m)
  BY DEF psi, primitive_root_of_unity, pow, z, m, d2
<1>. HIDE DEF z, h
<1>7. psi \in Units(q)
  BY <1>1, <1>3, <1>5, <1>6, PowersAreUnits
<1>8. Power(q, psi, d) = q - 1
  <2>1. Power(q, z, m * d) = Power(q, Power(q, z, m), d)
    BY <1>1, <1>3, <1>5, PowerOfPower
  <2>. QED  BY <1>4, <1>5, <1>6, <2>1
<1>9. d \in Units(q)
  BY <1>1, <1>4 DEF Units
<1>10. d \div 2 = 2^(LogD - 1)
  <2>. DEFINE y == 2^(LogD - 1)
  <2>1. d = 2 * y /\ y \in Nat
    <3>1. 2^LogD = 2 * y
      BY <1>1, TwoPowers
    <3>2. y \in Nat
      <4>. DEFINE e == LogD - 1
      <4>1. e \in Nat
        BY <1>1
      <4>. HIDE DEF e
      <4>2. 2^e \in Nat
        BY <4>1, TwoPowers
      <4>. QED  BY <4>2 DEF e
    <3>. QED  BY <1>1, <3>1, <3>2
  <2>. HIDE DEF y
  <2>2. d \div 2 = y
    BY <2>1, Z3
  <2>. QED  BY <2>2 DEF y
<1>. QED  BY <1>1, <1>7, <1>8, <1>9, <1>10 DEF IsRoot

LEMMA TablesAre ==
  ASSUME IsRoot(q, LogD, psi), NEW i \in 0..(2^LogD - 1)
  PROVE  /\ fwd(i) = Twiddle(q, LogD, psi, i)
         /\ inverse(i) \in Int /\ Times(q, inverse(i), fwd(i)) = 1
<1>. DEFINE e == Reverse(LogD, i)
            p == psi
            p1 == inv(q, psi)
<1>1. e \in Nat /\ i \in Nat /\ LogD \in Nat
  BY TwiddleType, RootFacts
<1>2. bit_reverse(i) = e
  BY <1>1, BitReverseIs
<1>3. /\ IsPrime(q) /\ q >= 3 /\ AtLeastTwo(q) /\ Positive(q) /\ p \in Units(q) /\ p \in Int
      /\ Times(q, p1, p) = 1 /\ p1 \in Int
  <2>1. IsPrime(q) /\ q >= 3 /\ AtLeastTwo(q) /\ Positive(q) /\ p \in Units(q) /\ p \in Int
    BY RootFacts DEF IsRoot
  <2>. HIDE DEF p
  <2>2. Times(q, inv(q, p), p) = 1 /\ inv(q, p) \in Int
    BY <2>1, InverseIs
  <2>. QED  BY <2>1, <2>2 DEF p
<1>4. fwd(i) = Power(q, p, e) /\ inverse(i) = Power(q, p1, e)
  BY <1>2 DEF fwd, inverse, pow
<1>. HIDE DEF e, p, p1
<1>5. Power(q, Times(q, p1, p), e) = Times(q, Power(q, p1, e), Power(q, p, e))
  BY <1>1, <1>3, PowerOfProduct
<1>6. Power(q, 1, e) = 1
  BY <1>1, <1>3, PowerOfOne
<1>7. Power(q, p1, e) \in Int
  BY <1>1, <1>3, PowerSteps
<1>. QED  BY <1>3, <1>4, <1>5, <1>6, <1>7 DEF Twiddle, e, p

-----------------------------------------------------------------------------
(* The forward transform: a tree of blocks, level by level.                *)

LEMMA Multiples ==
  ASSUME NEW c \in Nat, NEW i \in Nat, NEW j \in Nat
  PROVE  /\ c * i \in Nat /\ c * j \in Nat
         /\ i <= j => c * i <= c * j
         /\ i < j => \A o \in 0..(c - 1) : c * i + o < c * j
         /\ c * (i + 1) = c * i + c
<1>1. c * i \in Nat /\ c * j \in Nat /\ c * (i + 1) = c * i + c
  OBVIOUS
<1>2. ASSUME i <= j PROVE c * i <= c * j
  <2>. DEFINE m == j - i
  <2>1. m \in Nat /\ j = i + m
    BY <1>2
  <2>. HIDE DEF m
  <2>2. c * (i + m) = c * i + c * m /\ c * m \in Nat
    BY <2>1
  <2>. DEFINE y1 == c * i
              y2 == c * m
  <2>3. y1 <= y1 + y2
    <3>1. y1 \in Nat /\ y2 \in Nat
      BY <1>1, <2>2
    <3>. HIDE DEF y1, y2
    <3>. QED  BY <3>1
  <2>. QED  BY <2>1, <2>2, <2>3
<1>3. ASSUME i < j, NEW o \in 0..(c - 1) PROVE c * i + o < c * j
  <2>. DEFINE m == j - (i + 1)
  <2>1. m \in Nat /\ j = (i + 1) + m
    BY <1>3
  <2>. HIDE DEF m
  <2>2. c * ((i + 1) + m) = c * i + c + c * m /\ c * m \in Nat
    BY <2>1
  <2>. DEFINE y1 == c * i
              y2 == c * m
  <2>3. y1 + o < y1 + c + y2
    <3>1. y1 \in Nat /\ y2 \in Nat
      BY <1>1, <2>2
    <3>. HIDE DEF y1, y2
    <3>. QED  BY <3>1
  <2>. QED  BY <2>1, <2>2, <2>3
<1>. QED  BY <1>1, <1>2, <1>3

\* A level of 2^L places: G groups, each of two blocks of l.
IsLevel(L, l, G) == \E b \in 0..(L - 1) : l = 2^b /\ G = 2^(L - 1 - b)

LEMMA LevelFacts ==
  ASSUME NEW L \in Nat, NEW l, NEW G, IsLevel(L, l, G)
  PROVE  /\ l \in Nat /\ l > 0 /\ G \in Nat /\ G > 0
         /\ 2 * (l * G) = 2^L /\ l * (2 * G) = 2^L /\ (2 * l) * G = 2^L
         /\ l = 1 => 2 * G = 2^L
         /\ l # 1 => IsLevel(L, l \div 2, 2 * G) /\ 2 * (l \div 2) = l
         /\ G = 1 => 2 * l = 2^L
         /\ G # 1 => IsLevel(L, 2 * l, G \div 2) /\ 2 * (G \div 2) = G
<1>1. PICK b \in 0..(L - 1) : l = 2^b /\ G = 2^(L - 1 - b)
  BY DEF IsLevel
<1>. DEFINE c == L - 1 - b
<1>2. b \in Nat /\ c \in Nat /\ (b + c) + 1 = L /\ b + c \in Nat
  OBVIOUS
<1>. HIDE DEF c
<1>3. l \in Nat /\ l > 0 /\ G \in Nat /\ G > 0 /\ G = 2^c
  BY <1>1, <1>2, TwoPowers DEF c
<1>4. 2 * (l * G) = 2^L /\ l * (2 * G) = 2^L /\ (2 * l) * G = 2^L
  <2>1. 2^(b + c) = l * G
    BY <1>1, <1>2, <1>3, TwoPowerOfSum
  <2>2. 2^((b + c) + 1) = 2 * 2^(b + c)
    BY <1>2, TwoPowers
  <2>3. 2^L = 2 * (l * G)
    BY <1>2, <2>1, <2>2
  <2>4. 2 * (l * G) = l * (2 * G) /\ 2 * (l * G) = (2 * l) * G
    BY <1>3
  <2>. QED  BY <2>3, <2>4
<1>5. l = 1 => 2 * G = 2^L
  <2>1. 2 * (1 * G) = 2 * G
    BY <1>3
  <2>. QED  BY <1>4, <2>1
<1>6. G = 1 => 2 * l = 2^L
  <2>1. 2 * (l * 1) = 2 * l
    BY <1>3
  <2>. QED  BY <1>4, <2>1
<1>7. ASSUME l # 1 PROVE IsLevel(L, l \div 2, 2 * G) /\ 2 * (l \div 2) = l
  <2>1. b # 0
    <3>1. 2^0 = 1
      BY TwoPowers
    <3>. QED  BY <1>1, <1>7, <3>1
  <2>. DEFINE b1 == b - 1
  <2>2. b1 \in 0..(L - 1) /\ L - 1 - b1 = c + 1 /\ b > 0
    BY <1>2, <2>1 DEF c
  <2>3. l = 2 * 2^b1 /\ 2^(c + 1) = 2 * 2^c /\ 2^b1 \in Nat
    <3>. HIDE DEF b1
    <3>1. 2^b = 2 * 2^(b - 1)
      BY <1>2, <2>2, TwoPowers
    <3>2. 2^(c + 1) = 2 * 2^c /\ 2^b1 \in Nat
      <4>1. b1 \in Nat
        BY <2>2
      <4>. QED  BY <1>2, <4>1, TwoPowers
    <3>. QED  BY <1>1, <3>1, <3>2 DEF b1
  <2>. HIDE DEF b1
  <2>. DEFINE y == 2^b1
  <2>4. l = 2 * y /\ y \in Nat
    BY <2>3
  <2>. HIDE DEF y
  <2>5. l \div 2 = y
    BY <1>3, <2>4, Z3
  <2>6. l \div 2 = 2^b1 /\ 2 * G = 2^(L - 1 - b1)
    BY <1>3, <2>2, <2>3, <2>5 DEF y
  <2>. QED  BY <2>2, <2>4, <2>5, <2>6 DEF IsLevel
<1>8. ASSUME G # 1 PROVE IsLevel(L, 2 * l, G \div 2) /\ 2 * (G \div 2) = G
  <2>1. c # 0
    <3>1. 2^0 = 1
      BY TwoPowers
    <3>. QED  BY <1>3, <1>8, <3>1
  <2>. DEFINE b1 == b + 1
              c1 == c - 1
  <2>2. b1 \in 0..(L - 1) /\ L - 1 - b1 = c1 /\ c > 0 /\ c1 \in Nat
    BY <1>2, <2>1 DEF c
  <2>3. G = 2 * 2^c1 /\ 2^b1 = 2 * l /\ 2^c1 \in Nat
    <3>1. 2^c = 2 * 2^(c - 1) /\ 2^(b + 1) = 2 * 2^b
      BY <1>2, <2>2, TwoPowers
    <3>2. 2^c1 \in Nat
      <4>. HIDE DEF c1
      <4>. QED  BY <2>2, TwoPowers
    <3>. QED  BY <1>1, <1>3, <3>1, <3>2
  <2>. HIDE DEF b1, c1
  <2>. DEFINE y == 2^c1
  <2>4. G = 2 * y /\ y \in Nat
    BY <2>3
  <2>. HIDE DEF y
  <2>5. G \div 2 = y
    BY <1>3, <2>4, Z3
  <2>6. G \div 2 = 2^(L - 1 - b1) /\ 2 * l = 2^b1
    BY <2>2, <2>3, <2>5 DEF y
  <2>. QED  BY <2>2, <2>4, <2>5, <2>6 DEF IsLevel
<1>. QED  BY <1>3, <1>4, <1>5, <1>6, <1>7, <1>8

LEMMA FirstLevel ==
  ASSUME NEW L \in Nat, L >= 1
  PROVE  IsLevel(L, 2^(L - 1), 1) /\ IsLevel(L, 1, 2^(L - 1))
<1>1. L - 1 \in 0..(L - 1) /\ L - 1 - (L - 1) = 0 /\ 2^0 = 1 /\ 0 \in 0..(L - 1) /\ L - 1 - 0 = L - 1
  BY TwoPowers
<1>. QED  BY <1>1 DEF IsLevel

\* All of the block of c places at c * t is below s, or none of it.
Before(N, s, c, t) == \A j \in 0..(c - 1) : c * t + j \in 0..(N - 1) /\ c * t + j < s
After(N, s, c, t) == \A j \in 0..(c - 1) : c * t + j \in 0..(N - 1) /\ c * t + j >= s

\* The places of group m, and of the blocks before and after it.
LEMMA GroupPlaces ==
  ASSUME NEW L \in Nat, NEW l, NEW G, IsLevel(L, l, G), NEW m \in 0..(G - 1), NEW s, s = 2 * (l * m)
  PROVE  /\ s \in Nat /\ m \in Nat
         /\ s = l * (2 * m) /\ s = (2 * l) * m /\ s + l = l * (2 * m + 1)
         /\ s + 2 * l = l * (2 * (m + 1)) /\ s + 2 * l = (2 * l) * (m + 1)
         /\ s + 2 * l <= 2^L /\ (s + 2 * l = 2^L <=> m + 1 = G)
         /\ \A t \in 0..(2 * m - 1) : Before(2^L, s, l, t)
         /\ \A t \in (2 * (m + 1))..(2 * G - 1) : After(2^L, s + 2 * l, l, t)
         /\ \A t \in 0..(m - 1) : Before(2^L, s, 2 * l, t)
         /\ \A t \in (m + 1)..(G - 1) : After(2^L, s + 2 * l, 2 * l, t)
<1>. DEFINE N == 2^L
            l2 == 2 * l
            m2 == 2 * m
            n2 == 2 * (m + 1)
            g2 == 2 * G
<1>1. l \in Nat /\ l > 0 /\ G \in Nat /\ G > 0 /\ l * g2 = N /\ l2 * G = N
  BY LevelFacts
<1>2. N \in Nat
  BY TwoPowers
<1>. HIDE DEF N
<1>3. m \in Nat /\ m + 1 <= G /\ m2 \in Nat /\ n2 \in Nat /\ n2 <= g2 /\ l2 \in Nat /\ g2 \in Nat
      /\ m + 1 \in Nat /\ m2 < g2 /\ m < G /\ G \in Nat
  BY <1>1
<1>4. s \in Nat /\ s = l * m2 /\ s = l2 * m /\ s + l = l * (m2 + 1) /\ s + l2 = l * n2 /\ s + l2 = l2 * (m + 1)
  <2>. DEFINE y == l * m
  <2>1. y \in Nat /\ l * m2 = 2 * y /\ l2 * m = 2 * y
    BY <1>1, <1>3
  <2>2. l * (m2 + 1) = l * m2 + l /\ l2 * (m + 1) = l2 * m + l2 /\ l * n2 = 2 * y + l2
    BY <1>1, <1>3
  <2>. QED  BY <2>1, <2>2
<1>5. s + l2 <= N /\ (s + l2 = N <=> m + 1 = G)
  <2>1. l2 * (m + 1) <= l2 * G
    BY <1>1, <1>3, Multiples
  <2>2. ASSUME m + 1 < G PROVE l2 * (m + 1) + 0 < l2 * G
    <3>1. 0 \in 0..(l2 - 1)
      BY <1>1
    <3>. HIDE DEF l2
    <3>. QED  BY <1>1, <1>3, <2>2, <3>1, Multiples
  <2>. DEFINE y == l2 * (m + 1)
  <2>3. y \in Nat /\ (m + 1 < G => y + 0 < N) /\ y <= N /\ y = s + l2
    BY <1>1, <1>3, <1>4, <2>1, <2>2
  <2>. HIDE DEF y
  <2>. QED  BY <1>1, <1>2, <1>3, <1>4, <2>3
<1>. HIDE DEF l2, m2, n2, g2
<1>6. ASSUME NEW t \in 0..(m2 - 1), NEW j \in 0..(l - 1) PROVE l * t + j \in 0..(N - 1) /\ l * t + j < s
  <2>1. t \in Nat /\ t < m2 /\ t < g2
    BY <1>3
  <2>2. l * t \in Nat /\ l * t + j < l * m2 /\ l * t + j < l * g2
    BY <1>1, <1>3, <2>1, Multiples
  <2>. DEFINE y == l * t
  <2>3. y \in Nat /\ y + j < s /\ y + j < N
    BY <1>1, <1>4, <2>2
  <2>. HIDE DEF y
  <2>4. y + j \in 0..(N - 1) /\ y + j < s
    BY <1>1, <1>2, <1>4, <2>3
  <2>. QED  BY <2>4 DEF y
<1>7. ASSUME NEW t \in n2..(g2 - 1), NEW j \in 0..(l - 1)
      PROVE  l * t + j \in 0..(N - 1) /\ l * t + j >= s + l2
  <2>1. t \in Nat /\ n2 <= t /\ t < g2
    BY <1>3
  <2>2. l * t \in Nat /\ l * n2 <= l * t /\ l * t + j < l * g2
    BY <1>1, <1>3, <2>1, Multiples
  <2>. DEFINE y == l * t
  <2>3. y \in Nat /\ s + l2 <= y /\ y + j < N
    BY <1>1, <1>4, <2>2
  <2>. HIDE DEF y
  <2>4. y + j \in 0..(N - 1) /\ y + j >= s + l2
    BY <1>1, <1>2, <1>3, <1>4, <2>3
  <2>. QED  BY <2>4 DEF y
<1>8. ASSUME NEW t \in 0..(m - 1), NEW j \in 0..(l2 - 1) PROVE l2 * t + j \in 0..(N - 1) /\ l2 * t + j < s
  <2>1. t \in Nat /\ t < m /\ t < G
    BY <1>3
  <2>2. l2 * t \in Nat /\ l2 * t + j < l2 * m /\ l2 * t + j < l2 * G
    BY <1>1, <1>3, <2>1, Multiples
  <2>. DEFINE y == l2 * t
  <2>3. y \in Nat /\ y + j < s /\ y + j < N
    BY <1>1, <1>4, <2>2
  <2>. HIDE DEF y
  <2>4. y + j \in 0..(N - 1) /\ y + j < s
    BY <1>2, <1>3, <1>4, <2>3
  <2>. QED  BY <2>4 DEF y
<1>9. ASSUME NEW t \in (m + 1)..(G - 1), NEW j \in 0..(l2 - 1)
      PROVE  l2 * t + j \in 0..(N - 1) /\ l2 * t + j >= s + l2
  <2>1. t \in Nat /\ m + 1 <= t /\ t < G
    BY <1>3
  <2>2. l2 * t \in Nat /\ l2 * (m + 1) <= l2 * t /\ l2 * t + j < l2 * G
    BY <1>1, <1>3, <2>1, Multiples
  <2>. DEFINE y == l2 * t
  <2>3. y \in Nat /\ s + l2 <= y /\ y + j < N
    BY <1>1, <1>4, <2>2
  <2>. HIDE DEF y
  <2>4. y + j \in 0..(N - 1) /\ y + j >= s + l2
    BY <1>2, <1>3, <1>4, <2>3
  <2>. QED  BY <2>4 DEF y
<1>10. /\ \A t \in 0..(m2 - 1) : Before(N, s, l, t)
       /\ \A t \in n2..(g2 - 1) : After(N, s + l2, l, t)
       /\ \A t \in 0..(m - 1) : Before(N, s, l2, t)
       /\ \A t \in (m + 1)..(G - 1) : After(N, s + l2, l2, t)
  BY <1>6, <1>7, <1>8, <1>9 DEF Before, After
<1>. QED  BY <1>3, <1>4, <1>5, <1>10 DEF N, l2, m2, n2, g2

-----------------------------------------------------------------------------
(* One group of the forward transform.                                     *)

\* The block of l residues of y at o is v modulo X^l - rho.
Holds(n, e, l, rho, y, o, v) == \A j \in 0..(l - 1) : y[o + j] = Coef(n, e, v, l, rho, j)

\* The first m of G groups have cut their blocks of 2*l in two.
ForwardAt(n, L, p, l, G, m, y, v) ==
  /\ Sized(n, 2^L, y)
  /\ \A t \in m..(G - 1) : Holds(n, G, 2 * l, NodeRoot(n, L, p, G + t), y, (2 * l) * t, v)
  /\ \A t \in 0..(2 * m - 1) : Holds(n, 2 * G, l, NodeRoot(n, L, p, 2 * G + t), y, l * t, v)

ForwardDone(n, L, p, y, v) ==
  /\ Sized(n, 2^L, y)
  /\ \A t \in 0..(2^L - 1) : y[t] = Coef(n, 2^L, v, 1, NodeRoot(n, L, p, 2^L + t), 0)

ButterflyOf(n, N, s, l, z, y) ==
  [i \in 0..(N - 1) |->
     CASE i \in s..(s + l - 1) -> (y[i] + z * y[i + l]) % n
       [] i \in (s + l)..(s + 2 * l - 1) -> (y[i - l] - z * y[i]) % n
       [] OTHER -> y[i]]

\* What a butterfly does at the places of its group, and elsewhere.
Butterflied(n, N, s, l, z, y, w) ==
  /\ \A j \in 0..(l - 1) : /\ w[s + j] = (y[s + j] + z * y[(s + l) + j]) % n
                           /\ w[(s + l) + j] = (y[s + j] - z * y[(s + l) + j]) % n
  /\ \A i \in 0..(N - 1) : i < s \/ i >= s + 2 * l => w[i] = y[i]
  /\ Sized(n, N, w)

LEMMA ButterflyPlaces ==
  ASSUME NEW n, Positive(n), NEW N \in Nat, NEW s \in Nat, NEW l \in Nat, s + 2 * l <= N,
         NEW z \in Int, NEW y, Sized(n, N, y), NEW w, w = ButterflyOf(n, N, s, l, z, y)
  PROVE  Butterflied(n, N, s, l, z, y, w)
<1>1. ASSUME NEW j \in 0..(l - 1)
      PROVE  /\ s + j \in 0..(N - 1) /\ (s + l) + j \in 0..(N - 1)
             /\ w[s + j] = (y[s + j] + z * y[(s + l) + j]) % n
             /\ w[(s + l) + j] = (y[s + j] - z * y[(s + l) + j]) % n
  <2>. DEFINE i1 == s + j
              i2 == (s + l) + j
  <2>1. /\ i1 \in 0..(N - 1) /\ i2 \in 0..(N - 1) /\ i1 \in s..(s + l - 1)
        /\ i2 \notin s..(s + l - 1) /\ i2 \in (s + l)..(s + 2 * l - 1)
        /\ i1 + l = i2 /\ i2 - l = i1
    OBVIOUS
  <2>. HIDE DEF i1, i2
  <2>2. w[i1] = (y[i1] + z * y[i1 + l]) % n /\ w[i2] = (y[i2 - l] - z * y[i2]) % n
    BY <2>1 DEF ButterflyOf
  <2>3. w[i1] = (y[i1] + z * y[i2]) % n /\ w[i2] = (y[i1] - z * y[i2]) % n
    BY <2>1, <2>2
  <2>. QED  BY <2>1, <2>3 DEF i1, i2
<1>2. ASSUME NEW i \in 0..(N - 1), i < s \/ i >= s + 2 * l PROVE w[i] = y[i]
  <2>1. i \notin s..(s + l - 1) /\ i \notin (s + l)..(s + 2 * l - 1)
    BY <1>2
  <2>. QED  BY <2>1 DEF ButterflyOf
<1>3. Residues(n) \subseteq Int
  BY ResiduesAre
<1>4. ASSUME NEW i \in 0..(N - 1) PROVE w[i] \in Residues(n)
  <2>1. CASE i < s \/ i >= s + 2 * l
    BY <1>2, <2>1 DEF Sized
  <2>2. CASE ~(i < s \/ i >= s + 2 * l)
    <3>1. PICK j \in 0..(l - 1) : i = s + j \/ i = (s + l) + j
      <4>1. CASE i < s + l
        <5>1. i - s \in 0..(l - 1) /\ i = s + (i - s)
          BY <2>2, <4>1
        <5>. QED  BY <5>1
      <4>2. CASE ~(i < s + l)
        <5>1. i - (s + l) \in 0..(l - 1) /\ i = (s + l) + (i - (s + l))
          BY <2>2, <4>2
        <5>. QED  BY <5>1
      <4>. QED  BY <4>1, <4>2
    <3>. DEFINE y1 == y[s + j]
                y2 == y[(s + l) + j]
                a1 == y1 + z * y2
                a2 == y1 - z * y2
    <3>2. w[s + j] = a1 % n /\ w[(s + l) + j] = a2 % n
      BY <1>1
    <3>3. y1 \in Int /\ y2 \in Int
      <4>1. y1 \in Residues(n) /\ y2 \in Residues(n)
        <5>1. s + j \in 0..(N - 1) /\ (s + l) + j \in 0..(N - 1)
          BY <1>1
        <5>. QED  BY <5>1 DEF Sized
      <4>. HIDE DEF y1, y2
      <4>. QED  BY <1>3, <4>1
    <3>4. a1 \in Int /\ a2 \in Int
      <4>. HIDE DEF y1, y2
      <4>. QED  BY <3>3
    <3>. HIDE DEF a1, a2
    <3>5. a1 % n \in Residues(n) /\ a2 % n \in Residues(n)
      BY <3>4, RemainderType
    <3>. QED  BY <3>1, <3>2, <3>5
  <2>. QED  BY <2>1, <2>2
<1>5. w = [i \in 0..(N - 1) |-> w[i]]
  BY DEF ButterflyOf
<1>6. Sized(n, N, w)
  BY <1>4, <1>5 DEF Sized
<1>. QED  BY <1>1, <1>2, <1>6 DEF Butterflied

LEMMA NodeKids ==
  ASSUME NEW n, NEW L, NEW p, NEW i \in Nat
  PROVE  /\ NodeRoot(n, L, p, 2 * i) = Twiddle(n, L, p, i)
         /\ NodeRoot(n, L, p, 2 * i + 1) = n - Twiddle(n, L, p, i)
<1>1. (2 * i) % 2 = 0 /\ (2 * i) \div 2 = i /\ (2 * i + 1) % 2 = 1 /\ (2 * i + 1) \div 2 = i
  BY Z3
<1>. DEFINE u == 2 * i
            v == 2 * i + 1
<1>2. u % 2 = 0 /\ u \div 2 = i /\ v % 2 = 1 /\ v \div 2 = i
  BY <1>1
<1>. HIDE DEF u, v
<1>3. NodeRoot(n, L, p, u) = Twiddle(n, L, p, i) /\ NodeRoot(n, L, p, v) = n - Twiddle(n, L, p, i)
  BY <1>2 DEF NodeRoot
<1>. QED  BY <1>3 DEF u, v

\* The columns of a level.
LEMMA LevelColumns ==
  ASSUME NEW n, AtLeastTwo(n), NEW L \in Nat, NEW l, NEW G, IsLevel(L, l, G), NEW v, Sized(n, 2^L, v)
  PROVE  \A j \in 0..(l - 1) : HasColumn(v, 2 * G, l, j)
<1>1. l \in Nat /\ l > 0 /\ 2 * G \in Nat /\ l * (2 * G) = 2^L
  <2>1. l \in Nat /\ l > 0 /\ G \in Nat /\ l * (2 * G) = 2^L
    BY LevelFacts
  <2>. QED  BY <2>1
<1>. DEFINE e == 2 * G
<1>. HIDE DEF e
<1>2. e \in Nat /\ Sized(n, l * e, v)
  BY <1>1 DEF e
<1>3. \A j \in 0..(l - 1) : HasColumn(v, e, l, j)
  BY <1>1, <1>2, SizedColumns
<1>. QED  BY <1>3 DEF e

\* Untouched places keep their blocks.
LEMMA HoldsOn ==
  ASSUME NEW n, NEW e, NEW l, NEW rho, NEW y, NEW o, NEW v, Holds(n, e, l, rho, y, o, v),
         NEW w, \A j \in 0..(l - 1) : w[o + j] = y[o + j]
  PROVE  Holds(n, e, l, rho, w, o, v)
  BY DEF Holds

LEMMA GroupForward ==
  ASSUME NEW n, NEW L, NEW p, IsRoot(n, L, p), NEW l, NEW G, IsLevel(L, l, G), NEW m \in 0..(G - 1),
         NEW v, Sized(n, 2^L, v), NEW y, ForwardAt(n, L, p, l, G, m, y, v),
         NEW s, s = 2 * (l * m), NEW w, w = ButterflyOf(n, 2^L, s, l, Twiddle(n, L, p, G + m), y)
  PROVE  ForwardAt(n, L, p, l, G, m + 1, w, v)
<1>. DEFINE N == 2^L
            k1 == G + m
            z == Twiddle(n, L, p, k1)
            rho == NodeRoot(n, L, p, k1)
            g2 == 2 * G
            l2 == 2 * l
<1>0. /\ AtLeastTwo(n) /\ Positive(n) /\ n \in Int /\ L \in Nat /\ N \in Nat
      /\ l \in Nat /\ l > 0 /\ G \in Nat /\ G > 0 /\ 2 * (l * G) = N
  BY RootFacts, LevelFacts
<1>1. s \in Nat /\ m \in Nat /\ s + 2 * l <= N
  BY <1>0, GroupPlaces
<1>2. k1 \in 0..(N - 1) /\ 2 * k1 = g2 + 2 * m /\ 2 * k1 + 1 = g2 + (2 * m + 1) /\ k1 \in Nat
  <2>1. k1 <= 2 * G - 1 /\ k1 \in Nat
    BY <1>0
  <2>2. G <= l * G
    <3>1. 1 <= l /\ 1 \in Nat
      BY <1>0
    <3>2. G * 1 <= G * l
      BY <1>0, <3>1, Multiples
    <3>. QED  BY <1>0, <3>2
  <2>3. 2 * G <= N
    <3>. DEFINE u == l * G
    <3>1. u \in Nat /\ G <= u /\ 2 * u = N
      BY <1>0, <2>2
    <3>. HIDE DEF u, N
    <3>. QED  BY <1>0, <3>1
  <2>. HIDE DEF N
  <2>. QED  BY <1>0, <2>1, <2>3
<1>3. z \in Int /\ Times(n, z, z) = rho
  <2>. HIDE DEF k1
  <2>. QED  BY <1>2, TwiddleType, TwiddleSquares
<1>4. NodeRoot(n, L, p, g2 + 2 * m) = z /\ NodeRoot(n, L, p, g2 + (2 * m + 1)) = n - z
  <2>1. NodeRoot(n, L, p, 2 * k1) = z /\ NodeRoot(n, L, p, 2 * k1 + 1) = n - z
    <3>. HIDE DEF k1
    <3>. QED  BY <1>2, NodeKids
  <2>. HIDE DEF k1, z, g2
  <2>. QED  BY <1>2, <2>1
<1>5. /\ Sized(n, N, y)
      /\ \A t \in m..(G - 1) : Holds(n, G, l2, NodeRoot(n, L, p, G + t), y, l2 * t, v)
      /\ \A t \in 0..(2 * m - 1) : Holds(n, g2, l, NodeRoot(n, L, p, g2 + t), y, l * t, v)
  BY DEF ForwardAt
<1>. HIDE DEF N, z, rho, g2, k1, l2
<1>6. Butterflied(n, N, s, l, z, y, w)
  <2>1. w = ButterflyOf(n, N, s, l, z, y)
    BY DEF N, z, k1
  <2>. QED  BY <1>0, <1>1, <1>3, <1>5, <2>1, ButterflyPlaces
<1>7. ASSUME NEW j \in 0..(l - 1)
      PROVE  /\ w[s + j] = Coef(n, g2, v, l, z, j)
             /\ w[(s + l) + j] = Coef(n, g2, v, l, n - z, j)
  <2>. DEFINE u == y[s + j]
              u2 == y[(s + l) + j]
  <2>1. Holds(n, G, l2, rho, y, l2 * m, v) /\ l2 * m = s
    <3>1. m \in m..(G - 1)
      BY <1>1
    <3>2. l2 * m = s
      BY <1>0, GroupPlaces DEF l2
    <3>. QED  BY <1>5, <3>1, <3>2 DEF rho, k1
  <2>2. u = Coef(n, G, v, l2, rho, j)
    <3>1. j \in 0..(l2 - 1)
      BY <1>0 DEF l2
    <3>. QED  BY <2>1, <3>1 DEF Holds
  <2>3. u2 = Coef(n, G, v, l2, rho, j + l)
    <3>1. j + l \in 0..(l2 - 1) /\ s + (j + l) = (s + l) + j
      BY <1>0, <1>1 DEF l2
    <3>2. y[s + (j + l)] = Coef(n, G, v, l2, rho, j + l)
      BY <2>1, <3>1 DEF Holds
    <3>. QED  BY <3>1, <3>2
  <2>4. HasColumn(v, 2 * G, l, j)
    BY <1>0, LevelColumns
  <2>5. w[s + j] = (u + z * u2) % n /\ w[(s + l) + j] = (u - z * u2) % n
    BY <1>6 DEF Butterflied
  <2>. HIDE DEF u, u2
  <2>6. j \in Nat
    OBVIOUS
  <2>7. u = Coef(n, G, v, 2 * l, rho, j) /\ u2 = Coef(n, G, v, 2 * l, rho, j + l)
    BY <2>2, <2>3 DEF l2
  <2>8. /\ Coef(n, 2 * G, v, l, z, j) = (u + z * u2) % n
        /\ Coef(n, 2 * G, v, l, n - z, j) = (u - z * u2) % n
    BY <1>0, <1>3, <2>4, <2>6, <2>7, BlockSplits
  <2>. QED  BY <2>5, <2>8 DEF g2
<1>8. ASSUME NEW t \in (m + 1)..(G - 1)
      PROVE  Holds(n, G, l2, NodeRoot(n, L, p, G + t), w, l2 * t, v)
  <2>1. Holds(n, G, l2, NodeRoot(n, L, p, G + t), y, l2 * t, v)
    <3>1. t \in m..(G - 1)
      BY <1>1
    <3>. QED  BY <1>5, <3>1
  <2>2. After(N, s + 2 * l, l2, t)
    BY <1>0, GroupPlaces DEF N, l2
  <2>3. \A j \in 0..(l2 - 1) : w[l2 * t + j] = y[l2 * t + j]
    BY <1>6, <2>2 DEF After, Butterflied
  <2>. QED  BY <2>1, <2>3, HoldsOn
<1>9. ASSUME NEW t \in 0..(2 * (m + 1) - 1)
      PROVE  Holds(n, g2, l, NodeRoot(n, L, p, g2 + t), w, l * t, v)
  <2>1. t \in 0..(2 * m - 1) \/ t = 2 * m \/ t = 2 * m + 1
    BY <1>1
  <2>2. CASE t \in 0..(2 * m - 1)
    <3>1. Holds(n, g2, l, NodeRoot(n, L, p, g2 + t), y, l * t, v)
      BY <1>5, <2>2
    <3>2. Before(N, s, l, t)
      BY <1>0, <2>2, GroupPlaces DEF N
    <3>3. \A j \in 0..(l - 1) : w[l * t + j] = y[l * t + j]
      BY <1>6, <3>2 DEF Before, Butterflied
    <3>. QED  BY <3>1, <3>3, HoldsOn
  <2>3. s = l * (2 * m) /\ s + l = l * (2 * m + 1)
    BY <1>0, GroupPlaces
  <2>4. CASE t = 2 * m
    <3>1. \A j \in 0..(l - 1) : w[s + j] = Coef(n, g2, v, l, z, j)
      BY <1>7
    <3>. QED  BY <1>4, <2>3, <2>4, <3>1 DEF Holds
  <2>5. CASE t = 2 * m + 1
    <3>1. \A j \in 0..(l - 1) : w[(s + l) + j] = Coef(n, g2, v, l, n - z, j)
      BY <1>7
    <3>. QED  BY <1>4, <2>3, <2>5, <3>1 DEF Holds
  <2>. QED  BY <2>1, <2>2, <2>4, <2>5
<1>. QED  BY <1>6, <1>8, <1>9 DEF ForwardAt, Butterflied, N, g2, l2

-----------------------------------------------------------------------------
(* The levels of the forward transform, and the products of the values.    *)

LEMMA ForwardStarts ==
  ASSUME NEW n, NEW L, NEW p, IsRoot(n, L, p), NEW v, Sized(n, 2^L, v)
  PROVE  ForwardAt(n, L, p, 2^(L - 1), 1, 0, v, v) /\ IsLevel(L, 2^(L - 1), 1)
<1>. DEFINE N == 2^L
            l2 == 2 * 2^(L - 1)
            rho == NodeRoot(n, L, p, 1)
<1>1. AtLeastTwo(n) /\ N \in Nat /\ l2 = N /\ n \in Int /\ L \in Nat /\ L >= 1
  BY RootFacts DEF IsRoot
<1>2. rho \in Int
  <2>1. rho = n - 1 /\ n - 1 \in Int
    BY <1>1, TopRoot
  <2>. HIDE DEF rho
  <2>. QED  BY <2>1
<1>. HIDE DEF N, l2, rho
<1>3. ASSUME NEW j \in 0..(N - 1) PROVE v[j] = Coef(n, 1, v, N, rho, j)
  <2>1. v[j] \in Residues(n) /\ j \in Int
    BY DEF Sized, N
  <2>. QED  BY <1>1, <1>2, <2>1, WholeCoef
<1>4. Holds(n, 1, l2, NodeRoot(n, L, p, 1 + 0), v, l2 * 0, v)
  <2>1. l2 * 0 = 0 /\ 1 + 0 = 1
    BY <1>1
  <2>2. \A j \in 0..(l2 - 1) : 0 + j = j /\ j \in 0..(N - 1)
    BY <1>1
  <2>. QED  BY <1>1, <1>3, <2>1, <2>2 DEF Holds, rho
<1>5. \A t \in 0..(1 - 1) : t = 0
  OBVIOUS
<1>6. 0..(2 * 0 - 1) = {}
  OBVIOUS
<1>7. IsLevel(L, 2^(L - 1), 1)
  BY <1>1, FirstLevel
<1>. QED  BY <1>4, <1>5, <1>6, <1>7 DEF ForwardAt, l2

LEMMA ForwardDescends ==
  ASSUME NEW n, NEW L, NEW p, IsRoot(n, L, p), NEW l, NEW G, IsLevel(L, l, G), l # 1,
         NEW v, NEW y, ForwardAt(n, L, p, l, G, G, y, v)
  PROVE  ForwardAt(n, L, p, l \div 2, 2 * G, 0, y, v) /\ IsLevel(L, l \div 2, 2 * G)
<1>1. IsLevel(L, l \div 2, 2 * G) /\ 2 * (l \div 2) = l
  BY LevelFacts DEF IsRoot
<1>2. 0..(2 * 0 - 1) = {}
  OBVIOUS
<1>3. \A t \in 0..(2 * G - 1) : Holds(n, 2 * G, l, NodeRoot(n, L, p, 2 * G + t), y, l * t, v)
  BY DEF ForwardAt
<1>. DEFINE g2 == 2 * G
            h == l \div 2
            l2 == 2 * h
<1>4. \A t \in 0..(g2 - 1) : Holds(n, g2, l2, NodeRoot(n, L, p, g2 + t), y, l2 * t, v)
  <2>1. l2 = l
    BY <1>1
  <2>. HIDE DEF l2
  <2>. QED  BY <1>3, <2>1
<1>. HIDE DEF g2, h
<1>5. Sized(n, 2^L, y)
  BY DEF ForwardAt
<1>6. ForwardAt(n, L, p, h, g2, 0, y, v)
  BY <1>2, <1>4, <1>5 DEF ForwardAt
<1>. QED  BY <1>1, <1>6 DEF g2, h

LEMMA ForwardEnds ==
  ASSUME NEW n, NEW L, NEW p, IsRoot(n, L, p), NEW G, IsLevel(L, 1, G),
         NEW v, NEW y, ForwardAt(n, L, p, 1, G, G, y, v)
  PROVE  ForwardDone(n, L, p, y, v)
<1>. DEFINE N == 2^L
            g2 == 2 * G
<1>1. g2 = N
  BY LevelFacts DEF IsRoot
<1>2. ASSUME NEW t \in 0..(N - 1) PROVE y[t] = Coef(n, N, v, 1, NodeRoot(n, L, p, N + t), 0)
  <2>1. Holds(n, g2, 1, NodeRoot(n, L, p, g2 + t), y, 1 * t, v)
    BY <1>1 DEF ForwardAt
  <2>2. 1 * t + 0 = t /\ 0 \in 0..(1 - 1)
    OBVIOUS
  <2>. HIDE DEF g2, N
  <2>3. y[1 * t + 0] = Coef(n, g2, v, 1, NodeRoot(n, L, p, g2 + t), 0)
    BY <2>1, <2>2 DEF Holds
  <2>. QED  BY <1>1, <2>2, <2>3
<1>. QED  BY <1>2 DEF ForwardAt, ForwardDone

\* The value of a product is the product of the values.
LEMMA ValuesMultiply ==
  ASSUME NEW n, NEW L, NEW p, IsRoot(n, L, p), NEW v, NEW w, NEW h, Sized(n, 2^L, v), Sized(n, 2^L, w),
         IsProduct(n, 2^L, n - 1, h, v, w),
         NEW y, NEW u, ForwardDone(n, L, p, y, v), ForwardDone(n, L, p, u, w), NEW t \in 0..(2^L - 1)
  PROVE  Times(n, y[t], u[t]) = Coef(n, 2^L, h, 1, NodeRoot(n, L, p, 2^L + t), 0)
<1>. DEFINE N == 2^L
            rho == NodeRoot(n, L, p, 2^L + t)
            V == [j \in 0..(1 - 1) |-> y[t]]
            W == [j \in 0..(1 - 1) |-> u[t]]
<1>1. AtLeastTwo(n) /\ Positive(n) /\ N \in Nat /\ N > 0 /\ 1 * N = N
  BY RootFacts
<1>2. rho \in Int /\ Power(n, rho, N) = n - 1
  BY LeafRoot
<1>3. /\ y[t] \in Residues(n) /\ u[t] \in Residues(n)
      /\ y[t] = Coef(n, N, v, 1, rho, 0) /\ u[t] = Coef(n, N, w, 1, rho, 0)
  BY DEF ForwardDone, Sized
<1>. HIDE DEF rho
<1>4. /\ Sized(n, 1 * N, v) /\ Sized(n, 1 * N, w) /\ IsProduct(n, 1 * N, n - 1, h, v, w)
  BY <1>1
<1>. HIDE DEF N
<1>5. \A j \in 0..(1 - 1) : j = 0 /\ V[j] = y[t] /\ W[j] = u[t]
  OBVIOUS
<1>6. Sized(n, 1, V) /\ Sized(n, 1, W) /\ IsReduced(n, N, 1, rho, V, v) /\ IsReduced(n, N, 1, rho, W, w)
  <2>1. Sized(n, 1, V) /\ Sized(n, 1, W)
    BY <1>3 DEF Sized
  <2>. HIDE DEF V, W
  <2>. QED  BY <1>3, <1>5, <2>1 DEF IsReduced
<1>. HIDE DEF V, W
<1>. DEFINE one == 1
<1>7. /\ one \in Nat /\ one > 0 /\ Sized(n, one * N, v) /\ Sized(n, one * N, w)
      /\ IsProduct(n, one * N, n - 1, h, v, w)
      /\ IsReduced(n, N, one, rho, V, v) /\ IsReduced(n, N, one, rho, W, w)
  BY <1>4, <1>6
<1>8. \A i \in 0..(one - 1) : Coef(n, N, h, one, rho, i) = Conv(n, V, W, one, rho, i)
  <2>. HIDE DEF one
  <2>. QED  BY <1>1, <1>2, <1>7, ProductOfBlocks
<1>9. Coef(n, N, h, 1, rho, 0) = Conv(n, V, W, 1, rho, 0)
  <2>1. 0 \in 0..(1 - 1)
    OBVIOUS
  <2>. QED  BY <1>8, <2>1
<1>. DEFINE b == ConvTerms(n, V, W, 1, rho, 0)
<1>10. /\ IsRow(n, {0}, b) /\ Conv(n, V, W, 1, rho, 0) = ModSum(n, b)
  <2>1. IsRow(n, 0..(1 - 1), b) /\ Conv(n, V, W, 1, rho, 0) = ModSum(n, b)
    <3>. DEFINE zero == 0
    <3>1. Sized(n, one, V) /\ Sized(n, one, W) /\ one \in Nat /\ one > 0 /\ zero \in Int
      BY <1>6
    <3>. HIDE DEF one, zero, b
    <3>2. /\ IsRow(n, 0..(one - 1), ConvTerms(n, V, W, one, rho, zero))
          /\ Conv(n, V, W, one, rho, zero) = ModSum(n, ConvTerms(n, V, W, one, rho, zero))
      BY <1>1, <1>2, <3>1, ConvRow
    <3>. QED  BY <3>2 DEF one, zero, b
  <2>2. 0..(1 - 1) = {0}
    OBVIOUS
  <2>. HIDE DEF b
  <2>. QED  BY <2>1, <2>2
<1>11. b[0] = Times(n, y[t], u[t])
  <2>1. b[0] = Times(n, V[0], Times(n, Wrap(rho, 0, 0), W[(0 - 0) % 1]))
    <3>1. 0 \in 0..(1 - 1)
      OBVIOUS
    <3>. QED  BY <3>1 DEF ConvTerms
  <2>2. (0 - 0) % 1 = 0 /\ Wrap(rho, 0, 0) = 1 /\ V[0] = y[t] /\ W[0] = u[t]
    <3>1. (0 - 0) % 1 = 0 /\ 0 \in 0..(1 - 1) /\ 0 <= 0
      OBVIOUS
    <3>. QED  BY <1>5, <3>1 DEF Wrap
  <2>3. Times(n, 1, u[t]) = u[t]
    <3>1. u[t] \in Int
      BY <1>1, <1>3, ResiduesAre
    <3>. QED  BY <1>1, <1>3, <3>1, TimesUnits
  <2>. HIDE DEF b
  <2>. QED  BY <2>1, <2>2, <2>3
<1>12. ModSum(n, b) = b[0]
  <2>. HIDE DEF b
  <2>. QED  BY <1>1, <1>10, ModSumOfOne
<1>. QED  BY <1>9, <1>10, <1>11, <1>12 DEF N, rho

-----------------------------------------------------------------------------
(* The inverse transform: blocks joined two by two, scaled by their size.  *)

\* The block of l residues of y at o is l times v modulo X^l - rho.
Scaled(n, e, l, rho, y, o, v) == \A j \in 0..(l - 1) : y[o + j] = Times(n, l, Coef(n, e, v, l, rho, j))

\* The first m of G groups have joined their blocks of l.
InverseAt(n, L, p, l, G, m, y, v) ==
  /\ Sized(n, 2^L, y)
  /\ \A t \in 0..(m - 1) : Scaled(n, G, 2 * l, NodeRoot(n, L, p, G + t), y, (2 * l) * t, v)
  /\ \A t \in (2 * m)..(2 * G - 1) : Scaled(n, 2 * G, l, NodeRoot(n, L, p, 2 * G + t), y, l * t, v)

InverseDone(n, N, y, v) == Sized(n, N, y) /\ \A j \in 0..(N - 1) : y[j] = Times(n, N, v[j])

InverseButterflyOf(n, N, s, l, z, y) ==
  [i \in 0..(N - 1) |->
     CASE i \in s..(s + l - 1) -> (y[i] + y[i + l]) % n
       [] i \in (s + l)..(s + 2 * l - 1) -> (z * (y[i - l] - y[i])) % n
       [] OTHER -> y[i]]

InverseButterflied(n, N, s, l, z, y, w) ==
  /\ \A j \in 0..(l - 1) : /\ w[s + j] = (y[s + j] + y[(s + l) + j]) % n
                           /\ w[(s + l) + j] = (z * (y[s + j] - y[(s + l) + j])) % n
  /\ \A i \in 0..(N - 1) : i < s \/ i >= s + 2 * l => w[i] = y[i]
  /\ Sized(n, N, w)

LEMMA InverseButterflyPlaces ==
  ASSUME NEW n, Positive(n), NEW N \in Nat, NEW s \in Nat, NEW l \in Nat, s + 2 * l <= N,
         NEW z \in Int, NEW y, Sized(n, N, y), NEW w, w = InverseButterflyOf(n, N, s, l, z, y)
  PROVE  InverseButterflied(n, N, s, l, z, y, w)
<1>1. ASSUME NEW j \in 0..(l - 1)
      PROVE  /\ s + j \in 0..(N - 1) /\ (s + l) + j \in 0..(N - 1)
             /\ w[s + j] = (y[s + j] + y[(s + l) + j]) % n
             /\ w[(s + l) + j] = (z * (y[s + j] - y[(s + l) + j])) % n
  <2>. DEFINE i1 == s + j
              i2 == (s + l) + j
  <2>1. /\ i1 \in 0..(N - 1) /\ i2 \in 0..(N - 1) /\ i1 \in s..(s + l - 1)
        /\ i2 \notin s..(s + l - 1) /\ i2 \in (s + l)..(s + 2 * l - 1)
        /\ i1 + l = i2 /\ i2 - l = i1
    OBVIOUS
  <2>. HIDE DEF i1, i2
  <2>2. w[i1] = (y[i1] + y[i1 + l]) % n /\ w[i2] = (z * (y[i2 - l] - y[i2])) % n
    BY <2>1 DEF InverseButterflyOf
  <2>3. w[i1] = (y[i1] + y[i2]) % n /\ w[i2] = (z * (y[i1] - y[i2])) % n
    BY <2>1, <2>2
  <2>. QED  BY <2>1, <2>3 DEF i1, i2
<1>2. ASSUME NEW i \in 0..(N - 1), i < s \/ i >= s + 2 * l PROVE w[i] = y[i]
  <2>1. i \notin s..(s + l - 1) /\ i \notin (s + l)..(s + 2 * l - 1)
    BY <1>2
  <2>. QED  BY <2>1 DEF InverseButterflyOf
<1>3. Residues(n) \subseteq Int
  BY ResiduesAre
<1>4. ASSUME NEW i \in 0..(N - 1) PROVE w[i] \in Residues(n)
  <2>1. CASE i < s \/ i >= s + 2 * l
    BY <1>2, <2>1 DEF Sized
  <2>2. CASE ~(i < s \/ i >= s + 2 * l)
    <3>1. PICK j \in 0..(l - 1) : i = s + j \/ i = (s + l) + j
      <4>1. CASE i < s + l
        <5>1. i - s \in 0..(l - 1) /\ i = s + (i - s)
          BY <2>2, <4>1
        <5>. QED  BY <5>1
      <4>2. CASE ~(i < s + l)
        <5>1. i - (s + l) \in 0..(l - 1) /\ i = (s + l) + (i - (s + l))
          BY <2>2, <4>2
        <5>. QED  BY <5>1
      <4>. QED  BY <4>1, <4>2
    <3>. DEFINE y1 == y[s + j]
                y2 == y[(s + l) + j]
                a1 == y1 + y2
                a2 == z * (y1 - y2)
    <3>2. w[s + j] = a1 % n /\ w[(s + l) + j] = a2 % n
      BY <1>1
    <3>3. y1 \in Int /\ y2 \in Int
      <4>1. y1 \in Residues(n) /\ y2 \in Residues(n)
        <5>1. s + j \in 0..(N - 1) /\ (s + l) + j \in 0..(N - 1)
          BY <1>1
        <5>. QED  BY <5>1 DEF Sized
      <4>. HIDE DEF y1, y2
      <4>. QED  BY <1>3, <4>1
    <3>4. a1 \in Int /\ a2 \in Int
      <4>. HIDE DEF y1, y2
      <4>. QED  BY <3>3
    <3>. HIDE DEF a1, a2
    <3>5. a1 % n \in Residues(n) /\ a2 % n \in Residues(n)
      BY <3>4, RemainderType
    <3>. QED  BY <3>1, <3>2, <3>5
  <2>. QED  BY <2>1, <2>2
<1>5. w = [i \in 0..(N - 1) |-> w[i]]
  BY DEF InverseButterflyOf
<1>6. Sized(n, N, w)
  BY <1>4, <1>5 DEF Sized
<1>. QED  BY <1>1, <1>2, <1>6 DEF InverseButterflied

LEMMA ScaledOn ==
  ASSUME NEW n, NEW e, NEW l, NEW rho, NEW y, NEW o, NEW v, Scaled(n, e, l, rho, y, o, v),
         NEW w, \A j \in 0..(l - 1) : w[o + j] = y[o + j]
  PROVE  Scaled(n, e, l, rho, w, o, v)
  BY DEF Scaled

\* The nodes of level G.
LEMMA NodesOfLevel ==
  ASSUME NEW L \in Nat, NEW l, NEW G, IsLevel(L, l, G), NEW m \in 0..(G - 1)
  PROVE  /\ G + m \in 0..(2^L - 1) /\ G + m \in Nat
         /\ 2 * (G + m) = 2 * G + 2 * m /\ 2 * (G + m) + 1 = 2 * G + (2 * m + 1)
<1>. DEFINE N == 2^L
            u == l * G
<1>1. l \in Nat /\ l > 0 /\ G \in Nat /\ G > 0 /\ 2 * u = N
  BY LevelFacts
<1>2. G <= u /\ u \in Nat
  <2>1. 1 <= l /\ 1 \in Nat
    BY <1>1
  <2>2. G * 1 <= G * l
    BY <1>1, <2>1, Multiples
  <2>. QED  BY <1>1, <2>2
<1>. HIDE DEF u, N
<1>3. G + m \in 0..(N - 1) /\ G + m \in Nat
  BY <1>1, <1>2
<1>. QED  BY <1>1, <1>3 DEF N

LEMMA GroupInverse ==
  ASSUME NEW n, NEW L, NEW p, IsRoot(n, L, p), NEW l, NEW G, IsLevel(L, l, G), NEW m \in 0..(G - 1),
         NEW v, Sized(n, 2^L, v), NEW y, InverseAt(n, L, p, l, G, m, y, v),
         NEW s, s = 2 * (l * m),
         NEW i2 \in Int, Times(n, i2, Twiddle(n, L, p, G + m)) = 1,
         NEW w, w = InverseButterflyOf(n, 2^L, s, l, i2, y)
  PROVE  InverseAt(n, L, p, l, G, m + 1, w, v)
<1>. DEFINE N == 2^L
            k1 == G + m
            z == Twiddle(n, L, p, k1)
            rho == NodeRoot(n, L, p, k1)
            g2 == 2 * G
            l2 == 2 * l
<1>0. /\ AtLeastTwo(n) /\ Positive(n) /\ n \in Int /\ L \in Nat /\ N \in Nat
      /\ l \in Nat /\ l > 0 /\ G \in Nat /\ G > 0 /\ 2 * (l * G) = N
  BY RootFacts, LevelFacts
<1>1. s \in Nat /\ m \in Nat /\ s + 2 * l <= N /\ s = l * (2 * m) /\ s = (2 * l) * m /\ s + l = l * (2 * m + 1)
  BY <1>0, GroupPlaces
<1>2. k1 \in 0..(N - 1) /\ 2 * k1 = g2 + 2 * m /\ 2 * k1 + 1 = g2 + (2 * m + 1) /\ k1 \in Nat
  BY <1>0, NodesOfLevel
<1>3. z \in Int /\ Times(n, z, z) = rho /\ Times(n, i2, z) = 1
  <2>1. Times(n, i2, z) = 1
    OBVIOUS
  <2>. HIDE DEF k1
  <2>. QED  BY <1>2, <2>1, TwiddleType, TwiddleSquares
<1>4. NodeRoot(n, L, p, g2 + 2 * m) = z /\ NodeRoot(n, L, p, g2 + (2 * m + 1)) = n - z
  <2>1. NodeRoot(n, L, p, 2 * k1) = z /\ NodeRoot(n, L, p, 2 * k1 + 1) = n - z
    <3>. HIDE DEF k1
    <3>. QED  BY <1>2, NodeKids
  <2>. HIDE DEF k1, z, g2
  <2>. QED  BY <1>2, <2>1
<1>5. /\ Sized(n, N, y)
      /\ \A t \in 0..(m - 1) : Scaled(n, G, l2, NodeRoot(n, L, p, G + t), y, l2 * t, v)
      /\ \A t \in (2 * m)..(2 * G - 1) : Scaled(n, g2, l, NodeRoot(n, L, p, g2 + t), y, l * t, v)
  BY DEF InverseAt
<1>. HIDE DEF N, z, rho, g2, k1, l2
<1>6. InverseButterflied(n, N, s, l, i2, y, w)
  <2>1. w = InverseButterflyOf(n, N, s, l, i2, y)
    BY DEF N
  <2>. QED  BY <1>0, <1>1, <1>5, <2>1, InverseButterflyPlaces
<1>7. Scaled(n, g2, l, z, y, s, v) /\ Scaled(n, g2, l, n - z, y, s + l, v)
  <2>. DEFINE t1 == 2 * m
              t2 == 2 * m + 1
  <2>1. t1 \in (2 * m)..(2 * G - 1) /\ t2 \in (2 * m)..(2 * G - 1)
    BY <1>0, <1>1
  <2>2. l * t1 = s /\ l * t2 = s + l
    BY <1>1
  <2>3. NodeRoot(n, L, p, g2 + t1) = z /\ NodeRoot(n, L, p, g2 + t2) = n - z
    BY <1>4
  <2>. HIDE DEF t1, t2
  <2>. QED  BY <1>5, <2>1, <2>2, <2>3
<1>8. ASSUME NEW j \in 0..(l - 1)
      PROVE  /\ w[s + j] = Times(n, l2, Coef(n, G, v, l2, rho, j))
             /\ w[(s + l) + j] = Times(n, l2, Coef(n, G, v, l2, rho, j + l))
  <2>. DEFINE u == Coef(n, G, v, l2, rho, j)
              u2 == Coef(n, G, v, l2, rho, j + l)
              y1 == y[s + j]
              y2 == y[(s + l) + j]
  <2>1. HasColumn(v, 2 * G, l, j) /\ j \in Nat
    BY <1>0, LevelColumns
  <2>2. u = Coef(n, G, v, 2 * l, rho, j) /\ u2 = Coef(n, G, v, 2 * l, rho, j + l)
    BY DEF l2
  <2>. HIDE DEF u, u2
  <2>3. /\ Coef(n, 2 * G, v, l, z, j) = (u + z * u2) % n
        /\ Coef(n, 2 * G, v, l, n - z, j) = (u - z * u2) % n
        /\ u \in Int /\ u2 \in Int
    BY <1>0, <1>3, <2>1, <2>2, BlockSplits
  <2>4. y1 = Times(n, l, (u + z * u2) % n) /\ y2 = Times(n, l, (u - z * u2) % n)
    BY <1>7, <2>3 DEF Scaled, g2
  <2>5. w[s + j] = (y1 + y2) % n /\ w[(s + l) + j] = (i2 * (y1 - y2)) % n
    BY <1>6 DEF InverseButterflied
  <2>. HIDE DEF y1, y2
  <2>6. AreHalves(n, u, u2, z, l, y1, y2) /\ l \in Int
    BY <1>0, <2>4 DEF AreHalves
  <2>7. Join(n, u, u2, z, l, y1, y2)
    BY <1>0, <1>3, <2>3, <2>6, HalvesJoin
  <2>8. /\ y1 \in Int /\ y2 \in Int
        /\ (1 * (y1 + y2)) % n = (1 * (2 * l * u)) % n
        /\ (i2 * (y1 - y2)) % n = (i2 * (2 * l * z * u2)) % n
    BY <2>7, 1 \in Int DEF Join
  <2>9. (1 * (2 * l * u)) % n = Times(n, l2, u) /\ 1 * (y1 + y2) = y1 + y2
    <3>. DEFINE a1 == l2 * u
    <3>1. 2 * l * u = a1 /\ a1 \in Int
      BY <1>0, <2>3 DEF l2
    <3>2. 1 * a1 = a1
      BY <3>1
    <3>3. 1 * (y1 + y2) = y1 + y2
      BY <2>8
    <3>. QED  BY <3>1, <3>2, <3>3 DEF Times
  <2>10. (i2 * (2 * l * z * u2)) % n = Times(n, l2, u2)
    <3>. DEFINE a1 == l2 * u2
                a2 == i2 * z
    <3>1. a1 \in Int /\ a2 \in Int /\ l2 \in Int
      BY <1>0, <1>3, <2>3 DEF l2
    <3>2. i2 * (2 * l * z * u2) = a2 * a1
      <4>1. 2 * l * z * u2 = (l2 * z) * u2
        BY <1>0 DEF l2
      <4>2. (l2 * z) * u2 = z * (l2 * u2)
        BY <1>3, <2>3, <3>1
      <4>3. i2 * (z * a1) = (i2 * z) * a1
        <5>. HIDE DEF a1
        <5>. QED  BY <1>3, <3>1
      <4>. QED  BY <4>1, <4>2, <4>3
    <3>. HIDE DEF a1, a2
    <3>3. Times(n, a2 % n, a1) = Times(n, a2, a1)
      BY <1>0, <3>1, TimesReduces
    <3>4. a2 % n = 1
      BY <1>3 DEF Times, a2
    <3>5. Times(n, 1, a1) = a1 % n
      BY <1>0, <3>1, TimesUnits
    <3>6. Times(n, a2, a1) = (i2 * (2 * l * z * u2)) % n
      BY <3>2 DEF Times
    <3>. QED  BY <3>3, <3>4, <3>5, <3>6 DEF Times, a1
  <2>. QED  BY <2>5, <2>8, <2>9, <2>10 DEF u, u2
<1>9. ASSUME NEW t \in (2 * (m + 1))..(2 * G - 1)
      PROVE  Scaled(n, g2, l, NodeRoot(n, L, p, g2 + t), w, l * t, v)
  <2>1. Scaled(n, g2, l, NodeRoot(n, L, p, g2 + t), y, l * t, v)
    <3>1. t \in (2 * m)..(2 * G - 1)
      BY <1>0, <1>1
    <3>. QED  BY <1>5, <3>1
  <2>2. After(N, s + 2 * l, l, t)
    BY <1>0, GroupPlaces DEF N
  <2>3. \A j \in 0..(l - 1) : w[l * t + j] = y[l * t + j]
    BY <1>6, <2>2 DEF After, InverseButterflied
  <2>. QED  BY <2>1, <2>3, ScaledOn
<1>10. ASSUME NEW t \in 0..((m + 1) - 1)
       PROVE  Scaled(n, G, l2, NodeRoot(n, L, p, G + t), w, l2 * t, v)
  <2>1. t \in 0..(m - 1) \/ t = m
    BY <1>1
  <2>2. CASE t \in 0..(m - 1)
    <3>1. Scaled(n, G, l2, NodeRoot(n, L, p, G + t), y, l2 * t, v)
      BY <1>5, <2>2
    <3>2. Before(N, s, l2, t)
      BY <1>0, <2>2, GroupPlaces DEF N, l2
    <3>3. \A j \in 0..(l2 - 1) : w[l2 * t + j] = y[l2 * t + j]
      BY <1>6, <3>2 DEF Before, InverseButterflied
    <3>. QED  BY <3>1, <3>3, ScaledOn
  <2>3. CASE t = m
    <3>1. l2 * m = s
      BY <1>1 DEF l2
    <3>2. ASSUME NEW j \in 0..(l2 - 1) PROVE w[s + j] = Times(n, l2, Coef(n, G, v, l2, rho, j))
      <4>1. CASE j < l
        <5>1. j \in 0..(l - 1)
          BY <1>0, <4>1 DEF l2
        <5>. QED  BY <1>8, <5>1
      <4>2. CASE ~(j < l)
        <5>. DEFINE j1 == j - l
        <5>1. j1 \in 0..(l - 1) /\ j1 + l = j /\ (s + l) + j1 = s + j
          BY <1>0, <1>1, <4>2 DEF l2
        <5>. HIDE DEF j1
        <5>2. w[(s + l) + j1] = Times(n, l2, Coef(n, G, v, l2, rho, j1 + l))
          BY <1>8, <5>1
        <5>. QED  BY <5>1, <5>2
      <4>. QED  BY <4>1, <4>2
    <3>. QED  BY <2>3, <3>1, <3>2 DEF Scaled, rho, k1
  <2>. QED  BY <2>1, <2>2, <2>3
<1>. QED  BY <1>6, <1>9, <1>10 DEF InverseAt, InverseButterflied, N, g2, l2

LEMMA InverseAscends ==
  ASSUME NEW n, NEW L, NEW p, IsRoot(n, L, p), NEW l, NEW G, IsLevel(L, l, G), G # 1,
         NEW v, NEW y, InverseAt(n, L, p, l, G, G, y, v)
  PROVE  InverseAt(n, L, p, 2 * l, G \div 2, 0, y, v) /\ IsLevel(L, 2 * l, G \div 2)
<1>1. IsLevel(L, 2 * l, G \div 2) /\ 2 * (G \div 2) = G /\ G \in Nat
  BY LevelFacts DEF IsRoot
<1>2. \A t \in 0..(G - 1) : Scaled(n, G, 2 * l, NodeRoot(n, L, p, G + t), y, (2 * l) * t, v)
  BY DEF InverseAt
<1>. DEFINE h == G \div 2
            l2 == 2 * l
<1>3. \A t \in (2 * 0)..(2 * h - 1) : Scaled(n, 2 * h, l2, NodeRoot(n, L, p, 2 * h + t), y, l2 * t, v)
  <2>1. 2 * h = G /\ 2 * 0 = 0
    BY <1>1
  <2>. HIDE DEF h, l2
  <2>. QED  BY <1>2, <2>1 DEF l2
<1>. HIDE DEF h, l2
<1>4. Sized(n, 2^L, y) /\ 0..(0 - 1) = {}
  BY DEF InverseAt
<1>5. InverseAt(n, L, p, l2, h, 0, y, v)
  BY <1>3, <1>4 DEF InverseAt
<1>. QED  BY <1>1, <1>5 DEF h, l2

LEMMA InverseEnds ==
  ASSUME NEW n, NEW L, NEW p, IsRoot(n, L, p), NEW l, IsLevel(L, l, 1),
         NEW v, Sized(n, 2^L, v), NEW y, InverseAt(n, L, p, l, 1, 1, y, v)
  PROVE  InverseDone(n, 2^L, y, v) /\ 2 * l = 2^L
<1>. DEFINE N == 2^L
            rho == NodeRoot(n, L, p, 1)
            l2 == 2 * l
<1>1. AtLeastTwo(n) /\ N \in Nat /\ n \in Int /\ l2 = N
  BY RootFacts, LevelFacts DEF IsRoot
<1>2. rho \in Int
  <2>1. rho = n - 1 /\ n - 1 \in Int
    BY <1>1, TopRoot
  <2>. HIDE DEF rho
  <2>. QED  BY <2>1
<1>3. Scaled(n, 1, l2, NodeRoot(n, L, p, 1 + 0), y, l2 * 0, v)
  <2>1. 0 \in 0..(1 - 1)
    OBVIOUS
  <2>. QED  BY <2>1 DEF InverseAt
<1>4. l2 * 0 = 0 /\ 1 + 0 = 1
  BY <1>1
<1>5. Sized(n, N, y)
  BY DEF InverseAt
<1>. HIDE DEF N, rho, l2
<1>6. ASSUME NEW j \in 0..(N - 1) PROVE y[j] = Times(n, N, v[j])
  <2>1. v[j] \in Residues(n) /\ j \in Int /\ 0 + j = j
    BY DEF Sized, N
  <2>2. Coef(n, 1, v, N, rho, j) = v[j]
    BY <1>1, <1>2, <2>1, WholeCoef
  <2>. QED  BY <1>1, <1>3, <1>4, <2>1, <2>2 DEF Scaled, rho
<1>. QED  BY <1>1, <1>5, <1>6 DEF InverseDone, N, l2

LEMMA InverseStarts ==
  ASSUME NEW n, NEW L, NEW p, IsRoot(n, L, p), NEW v, NEW w, NEW h, Sized(n, 2^L, v), Sized(n, 2^L, w),
         IsProduct(n, 2^L, n - 1, h, v, w),
         NEW y, NEW u, ForwardDone(n, L, p, y, v), ForwardDone(n, L, p, u, w),
         NEW o, o = [i \in 0..(2^L - 1) |-> Times(n, y[i], u[i])]
  PROVE  InverseAt(n, L, p, 1, 2^(L - 1), 0, o, h) /\ IsLevel(L, 1, 2^(L - 1))
<1>. DEFINE N == 2^L
            G == 2^(L - 1)
            g2 == 2 * G
<1>1. Positive(n) /\ AtLeastTwo(n) /\ N = g2 /\ L \in Nat /\ L >= 1 /\ N \in Nat
  BY RootFacts DEF IsRoot
<1>2. \A t \in 0..(N - 1) : o[t] = Coef(n, N, h, 1, NodeRoot(n, L, p, N + t), 0)
  BY ValuesMultiply
<1>. HIDE DEF G
<1>3. Sized(n, N, o)
  <2>1. ASSUME NEW t \in 0..(N - 1) PROVE Times(n, y[t], u[t]) \in Residues(n)
    <3>1. y[t] \in Residues(n) /\ u[t] \in Residues(n)
      BY DEF ForwardDone, Sized
    <3>2. y[t] \in Int /\ u[t] \in Int
      BY <1>1, <3>1, ResiduesAre
    <3>. QED  BY <1>1, <3>2, TimesType
  <2>. QED  BY <2>1 DEF Sized
<1>. HIDE DEF N, g2
<1>4. ASSUME NEW t \in (2 * 0)..(g2 - 1)
      PROVE  Scaled(n, g2, 1, NodeRoot(n, L, p, g2 + t), o, 1 * t, h)
  <2>1. t \in 0..(N - 1) /\ 1 * t = t /\ \A j \in 0..(1 - 1) : j = 0
    BY <1>1
  <2>2. o[t] \in Residues(n) /\ o[t] \in Int /\ t + 0 = t
    <3>1. o[t] \in Residues(n)
      BY <1>3, <2>1 DEF Sized
    <3>. QED  BY <1>1, <2>1, <3>1, ResiduesAre
  <2>3. Times(n, 1, o[t]) = o[t]
    BY <1>1, <2>2, TimesUnits
  <2>4. o[t] = Coef(n, N, h, 1, NodeRoot(n, L, p, N + t), 0)
    BY <1>2, <2>1
  <2>. QED  BY <1>1, <2>1, <2>2, <2>3, <2>4 DEF Scaled
<1>5. 0..(0 - 1) = {}
  OBVIOUS
<1>6. IsLevel(L, 1, G)
  BY <1>1, FirstLevel DEF G
<1>. QED  BY <1>3, <1>4, <1>5, <1>6 DEF InverseAt, N, G, g2

\* Divided by N, what the inverse transform leaves is the product.
LEMMA ScaledBack ==
  ASSUME NEW n, IsPrime(n), n >= 3, NEW N, N \in Units(n), NEW v, Sized(n, N, v),
         NEW y, InverseDone(n, N, y, v), NEW w, w = [i \in 0..(N - 1) |-> (y[i] * inv(n, N)) % n]
  PROVE  w = v
<1>. DEFINE i2 == inv(n, N)
<1>1. AtLeastTwo(n) /\ Positive(n) /\ N \in Int /\ i2 \in Int /\ Times(n, i2, N) = 1
  BY PrimeIsTwo, UnitsAre, InverseIs
<1>. HIDE DEF i2
<1>2. ASSUME NEW i \in 0..(N - 1) PROVE w[i] = v[i]
  <2>. DEFINE u == v[i]
              t == y[i]
  <2>1. u \in Residues(n) /\ t = Times(n, N, u) /\ w[i] = (t * i2) % n
    BY DEF Sized, InverseDone, i2
  <2>. HIDE DEF u, t
  <2>2. u \in Int /\ t \in Int
    BY <1>1, <2>1, ResiduesAre, TimesType
  <2>3. Times(n, t, i2) = Times(n, i2, t)
    BY <1>1, <2>2, TimesCommutes
  <2>4. Times(n, Times(n, i2, N), u) = Times(n, i2, Times(n, N, u))
    BY <1>1, <2>2, TimesAssociates
  <2>5. Times(n, 1, u) = u
    BY <1>1, <2>1, <2>2, TimesUnits
  <2>. QED  BY <1>1, <2>1, <2>3, <2>4, <2>5 DEF Times, u
<1>3. w = [i \in 0..(N - 1) |-> w[i]] /\ v = [i \in 0..(N - 1) |-> v[i]]
  BY DEF Sized
<1>. QED  BY <1>2, <1>3

-----------------------------------------------------------------------------
(* The loops of the two transforms.                                        *)

ForwardState(n, L, p, y, v, l, s, c) ==
  \/ l = 0 /\ ForwardDone(n, L, p, y, v)
  \/ \E G, m : /\ IsLevel(L, l, G) /\ m \in 0..(G - 1) /\ s = 2 * (l * m) /\ c = G + m
               /\ ForwardAt(n, L, p, l, G, m, y, v)

InverseState(n, L, p, y, v, l, s, c) ==
  \/ l = 2^L /\ InverseDone(n, 2^L, y, v)
  \/ \E G, m : /\ IsLevel(L, l, G) /\ m \in 0..(G - 1) /\ s = 2 * (l * m) /\ c = m
               /\ InverseAt(n, L, p, l, G, m, y, v)

LEMMA ForwardFirst ==
  ASSUME NEW n, NEW L, NEW p, IsRoot(n, L, p), NEW v, Sized(n, 2^L, v)
  PROVE  ForwardState(n, L, p, v, v, 2^(L - 1), 0, 1)
<1>. DEFINE l == 2^(L - 1)
<1>1. ForwardAt(n, L, p, l, 1, 0, v, v) /\ IsLevel(L, l, 1)
  BY ForwardStarts
<1>2. l \in Nat
  BY RootFacts
<1>. HIDE DEF l
<1>3. 0 \in 0..(1 - 1) /\ 0 = 2 * (l * 0) /\ 1 = 1 + 0
  BY <1>2
<1>4. ForwardState(n, L, p, v, v, l, 0, 1)
  BY <1>1, <1>3 DEF ForwardState
<1>. QED  BY <1>4 DEF l

LEMMA ForwardNext ==
  ASSUME NEW n, NEW L, NEW p, IsRoot(n, L, p), NEW v, Sized(n, 2^L, v), NEW y, NEW l, NEW s, NEW c,
         ForwardState(n, L, p, y, v, l, s, c), l # 0,
         NEW w, w = ButterflyOf(n, 2^L, s, l, Twiddle(n, L, p, c), y)
  PROVE  /\ c \in 0..(2^L - 1)
         /\ s + 2 * l >= 2^L => ForwardState(n, L, p, w, v, l \div 2, 0, c + 1)
         /\ ~(s + 2 * l >= 2^L) => ForwardState(n, L, p, w, v, l, s + 2 * l, c + 1)
<1>1. PICK G, m : /\ IsLevel(L, l, G) /\ m \in 0..(G - 1) /\ s = 2 * (l * m) /\ c = G + m
                  /\ ForwardAt(n, L, p, l, G, m, y, v)
  BY DEF ForwardState
<1>2. ForwardAt(n, L, p, l, G, m + 1, w, v)
  BY <1>1, GroupForward
<1>. DEFINE N == 2^L
<1>3. /\ l \in Nat /\ l > 0 /\ G \in Nat /\ G > 0 /\ L \in Nat /\ N \in Nat
  <2>1. L \in Nat /\ N \in Nat
    BY RootFacts
  <2>. QED  BY <1>1, <2>1, LevelFacts
<1>4. c \in 0..(N - 1)
  BY <1>1, <1>3, NodesOfLevel
<1>5. s \in Nat /\ m \in Nat /\ s + 2 * l <= N /\ (s + 2 * l = N <=> m + 1 = G)
  BY <1>1, <1>3, GroupPlaces
<1>. HIDE DEF N
<1>6. ASSUME s + 2 * l >= N PROVE ForwardState(n, L, p, w, v, l \div 2, 0, c + 1)
  <2>1. m + 1 = G /\ c + 1 = 2 * G
    BY <1>1, <1>3, <1>5, <1>6
  <2>2. ForwardAt(n, L, p, l, G, G, w, v)
    BY <1>2, <2>1
  <2>3. CASE l = 1
    <3>1. ForwardDone(n, L, p, w, v)
      BY <1>1, <2>2, <2>3, ForwardEnds
    <3>2. 1 \div 2 = 0
      OBVIOUS
    <3>. QED  BY <2>3, <3>1, <3>2 DEF ForwardState
  <2>4. CASE l # 1
    <3>. DEFINE h == l \div 2
                g2 == 2 * G
    <3>1. ForwardAt(n, L, p, h, g2, 0, w, v) /\ IsLevel(L, h, g2)
      BY <1>1, <2>2, <2>4, ForwardDescends
    <3>2. 0 \in 0..(g2 - 1) /\ c + 1 = g2 + 0
      BY <1>3, <2>1
    <3>3. 2 * (h * 0) = 0
      <4>1. h \in Int
        BY <1>3
      <4>. HIDE DEF h
      <4>. QED  BY <4>1
    <3>. HIDE DEF h, g2
    <3>4. ForwardState(n, L, p, w, v, h, 0, c + 1)
      BY <3>1, <3>2, <3>3 DEF ForwardState
    <3>. QED  BY <3>4 DEF h
  <2>. QED  BY <2>3, <2>4
<1>7. ASSUME ~(s + 2 * l >= N) PROVE ForwardState(n, L, p, w, v, l, s + 2 * l, c + 1)
  <2>1. m + 1 \in 0..(G - 1) /\ c + 1 = G + (m + 1)
    BY <1>1, <1>3, <1>5, <1>7
  <2>2. s + 2 * l = 2 * (l * (m + 1))
    <3>1. l * (m + 1) = l * m + l /\ l * m \in Nat
      BY <1>3, <1>5
    <3>. DEFINE u == l * m
    <3>. HIDE DEF u
    <3>2. l * (m + 1) = u + l /\ u \in Nat /\ s = 2 * u
      BY <1>1, <3>1 DEF u
    <3>. QED  BY <1>3, <3>2
  <2>. DEFINE m1 == m + 1
  <2>3. m1 \in 0..(G - 1) /\ c + 1 = G + m1 /\ s + 2 * l = 2 * (l * m1) /\ ForwardAt(n, L, p, l, G, m1, w, v)
    BY <1>2, <2>1, <2>2
  <2>. HIDE DEF m1
  <2>. QED  BY <1>1, <2>3 DEF ForwardState
<1>. QED  BY <1>4, <1>6, <1>7 DEF N

LEMMA InverseFirst ==
  ASSUME NEW n, NEW L, NEW p, IsRoot(n, L, p), NEW v, NEW w, NEW h, Sized(n, 2^L, v), Sized(n, 2^L, w),
         IsProduct(n, 2^L, n - 1, h, v, w),
         NEW y, NEW u, ForwardDone(n, L, p, y, v), ForwardDone(n, L, p, u, w),
         NEW o, o = [i \in 0..(2^L - 1) |-> Times(n, y[i], u[i])]
  PROVE  InverseState(n, L, p, o, h, 1, 0, 0)
<1>. DEFINE G == 2^(L - 1)
<1>1. InverseAt(n, L, p, 1, G, 0, o, h) /\ IsLevel(L, 1, G)
  BY InverseStarts
<1>2. G \in Nat /\ G > 0
  BY RootFacts
<1>. HIDE DEF G
<1>3. 0 \in 0..(G - 1) /\ 0 = 2 * (1 * 0)
  BY <1>2
<1>. QED  BY <1>1, <1>3 DEF InverseState

LEMMA GroupsOfLevel ==
  ASSUME NEW L \in Nat, NEW l, NEW G, IsLevel(L, l, G)
  PROVE  2^L \div (2 * l) = G /\ l # 2^L
<1>. DEFINE N == 2^L
            l2 == 2 * l
            k1 == 0
<1>1. l \in Nat /\ l > 0 /\ G \in Nat /\ G > 0 /\ l2 * G = N /\ l2 \in Nat /\ l2 > 0
  <2>1. l \in Nat /\ l > 0 /\ G \in Nat /\ G > 0 /\ l2 * G = N
    BY LevelFacts
  <2>. QED  BY <2>1
<1>2. N \in Int /\ k1 \in 0..(l2 - 1) /\ G \in Int
  BY <1>1, TwoPowers
<1>. HIDE DEF N, l2
<1>3. N = l2 * G + k1
  BY <1>1, <1>2
<1>. HIDE DEF k1
<1>4. N \div l2 = G
  BY <1>1, <1>2, <1>3, DivisionIs
<1>5. l # N
  <2>1. l2 * 1 <= l2 * G
    <3>1. 1 <= G /\ 1 \in Nat
      BY <1>1
    <3>. QED  BY <1>1, <3>1, Multiples
  <2>. QED  BY <1>1, <2>1 DEF l2
<1>. QED  BY <1>4, <1>5 DEF N, l2

LEMMA InverseNext ==
  ASSUME NEW n, NEW L, NEW p, IsRoot(n, L, p), NEW v, Sized(n, 2^L, v), NEW y, NEW l, NEW s, NEW c,
         InverseState(n, L, p, y, v, l, s, c), l # 2^L, NEW G, G = 2^L \div (2 * l)
  PROVE  /\ G + c \in 0..(2^L - 1)
         /\ \A i2 \in Int : \A w :
              Times(n, i2, Twiddle(n, L, p, G + c)) = 1 /\ w = InverseButterflyOf(n, 2^L, s, l, i2, y)
                => /\ c + 1 = G => InverseState(n, L, p, w, v, 2 * l, 0, 0)
                   /\ c + 1 # G => InverseState(n, L, p, w, v, l, s + 2 * l, c + 1)
<1>. DEFINE N == 2^L
<1>1. PICK m : /\ IsLevel(L, l, G) /\ m \in 0..(G - 1) /\ s = 2 * (l * m) /\ c = m
               /\ InverseAt(n, L, p, l, G, m, y, v)
  <2>1. PICK G1, m : /\ IsLevel(L, l, G1) /\ m \in 0..(G1 - 1) /\ s = 2 * (l * m) /\ c = m
                     /\ InverseAt(n, L, p, l, G1, m, y, v)
    BY DEF InverseState
  <2>2. G = G1
    BY <2>1, GroupsOfLevel DEF IsRoot
  <2>. QED  BY <2>1, <2>2
<1>2. l \in Nat /\ l > 0 /\ G \in Nat /\ G > 0 /\ L \in Nat
  <2>1. L \in Nat
    BY RootFacts
  <2>2. IsLevel(L, l, G)
    BY <1>1
  <2>. QED  BY ONLY <2>1, <2>2, LevelFacts
<1>3. G + c \in 0..(N - 1)
  BY <1>1, <1>2, NodesOfLevel
<1>4. ASSUME NEW i2 \in Int, NEW w,
             Times(n, i2, Twiddle(n, L, p, G + c)) = 1, w = InverseButterflyOf(n, 2^L, s, l, i2, y)
      PROVE  /\ c + 1 = G => InverseState(n, L, p, w, v, 2 * l, 0, 0)
             /\ c + 1 # G => InverseState(n, L, p, w, v, l, s + 2 * l, c + 1)
  <2>1. InverseAt(n, L, p, l, G, m + 1, w, v)
    BY <1>1, <1>4, GroupInverse
  <2>2. ASSUME c + 1 = G PROVE InverseState(n, L, p, w, v, 2 * l, 0, 0)
    <3>1. InverseAt(n, L, p, l, G, G, w, v)
      BY <1>1, <2>1, <2>2
    <3>2. CASE G = 1
      <4>1. InverseDone(n, 2^L, w, v) /\ 2 * l = 2^L
        BY <1>1, <3>1, <3>2, InverseEnds
      <4>. QED  BY <4>1 DEF InverseState
    <3>3. CASE G # 1
      <4>. DEFINE h == G \div 2
                  l2 == 2 * l
      <4>1. InverseAt(n, L, p, l2, h, 0, w, v) /\ IsLevel(L, l2, h)
        BY <1>1, <3>1, <3>3, InverseAscends
      <4>. HIDE DEF l2, h
      <4>2. h \in Nat /\ h > 0 /\ l2 \in Nat
        BY <1>2, <4>1, LevelFacts
      <4>3. 0 \in 0..(h - 1) /\ 0 = 2 * (l2 * 0)
        BY <4>2
      <4>4. InverseState(n, L, p, w, v, l2, 0, 0)
        BY <4>1, <4>3 DEF InverseState
      <4>. QED  BY <4>4 DEF l2
    <3>. QED  BY <3>2, <3>3
  <2>3. ASSUME c + 1 # G PROVE InverseState(n, L, p, w, v, l, s + 2 * l, c + 1)
    <3>1. m + 1 \in 0..(G - 1) /\ m \in Nat
      BY <1>1, <1>2, <2>3
    <3>2. s + 2 * l = 2 * (l * (m + 1))
      <4>1. l * (m + 1) = l * m + l /\ l * m \in Nat
        BY <1>2, <3>1
      <4>. DEFINE u == l * m
      <4>. HIDE DEF u
      <4>2. l * (m + 1) = u + l /\ u \in Nat /\ s = 2 * u
        BY <1>1, <4>1 DEF u
      <4>. QED  BY <1>2, <4>2
    <3>. DEFINE m1 == m + 1
    <3>3. m1 \in 0..(G - 1) /\ c + 1 = m1 /\ s + 2 * l = 2 * (l * m1) /\ InverseAt(n, L, p, l, G, m1, w, v)
      BY <1>1, <2>1, <3>1, <3>2
    <3>. HIDE DEF m1
    <3>. QED  BY <1>1, <3>3 DEF InverseState
  <2>. QED  BY <2>2, <2>3
<1>. QED  BY <1>3, <1>4 DEF N

-----------------------------------------------------------------------------
(* The NTT path.                                                           *)

Operand == IF cur = 1 THEN f ELSE g

NttInv ==
  /\ pc \in {"forward", "inverse"} => HasNtt
  /\ pc = "forward" =>
       /\ cur \in {1, 2}
       /\ cur = 1 => x[2] = g
       /\ cur = 2 => ForwardDone(q, LogD, psi, x[1], f)
       /\ ForwardState(q, LogD, psi, x[cur], Operand, len, start, k)
  /\ pc = "inverse" => InverseState(q, LogD, psi, x[1], Product(q, d, f, g), len, start, k)

DoneInv == pc = "done" => x[1] = Product(q, d, f, g)

LEMMA RingKept ==
  ASSUME search' = search, q' = q
  PROVE  d' = d /\ LogD' = LogD /\ psi' = psi /\ (HasNtt' <=> HasNtt)
<1>1. d' = d
  BY DEF d
<1>2. LogD' = LogD
  BY <1>1 DEF LogD
<1>. QED  BY <1>1, <1>2 DEF psi, HasNtt

\* What the transforms rest on.
LEMMA NttFacts ==
  ASSUME SearchInv, MillerRabinExact, RootInv, ArrayInv, pc \in Multiplying, HasNtt
  PROVE  /\ IsRoot(q, LogD, psi) /\ d = 2^LogD /\ d \in Units(q) /\ d \div 2 = 2^(LogD - 1)
         /\ IsPrime(q) /\ q >= 3 /\ AtLeastTwo(q) /\ Index = 0..(2^LogD - 1)
         /\ Sized(q, 2^LogD, f) /\ Sized(q, 2^LogD, g) /\ IsPair(x)
         /\ IsProduct(q, 2^LogD, q - 1, Product(q, d, f, g), f, g)
         /\ Sized(q, 2^LogD, Product(q, d, f, g))
<1>1. pc \notin {"search", "panic"}
  BY DEF Multiplying
<1>2. IsRoot(q, LogD, psi) /\ d = 2^LogD /\ d \in Units(q) /\ d \div 2 = 2^(LogD - 1)
  BY <1>1, PsiIsRoot
<1>3. IsPrime(q) /\ q >= 3 /\ AtLeastTwo(q) /\ d \in Nat /\ d > 0
  <2>1. IsPrime(q) /\ q >= 3 /\ AtLeastTwo(q) /\ d \in Nat /\ d >= 2
    BY RingFacts
  <2>. QED  BY ONLY <2>1
<1>4. Sized(q, d, f) /\ Sized(q, d, g) /\ IsPair(x)
  BY DEF ArrayInv
<1>. DEFINE h == Product(q, d, f, g)
<1>5. IsProduct(q, d, q - 1, h, f, g) /\ Sized(q, d, h)
  BY <1>3, <1>4, ProductIs
<1>. HIDE DEF h
<1>6. Index = 0..(2^LogD - 1)
  BY <1>2 DEF Index
<1>7. Sized(q, 2^LogD, f) /\ Sized(q, 2^LogD, g) /\ IsProduct(q, 2^LogD, q - 1, h, f, g) /\ Sized(q, 2^LogD, h)
  BY <1>2, <1>4, <1>5
<1>. QED  BY <1>2, <1>3, <1>4, <1>6, <1>7 DEF h

LEMMA NttStarts == Init => NttInv /\ DoneInv
  BY DEF Init, NttInv, DoneInv

LEMMA CallIsForward ==
  ASSUME SearchInv, MillerRabinExact, ArrayInv', Call
  PROVE  NttInv'
<1>1. /\ pc = "some" /\ x' = <<f', g'>> /\ search' = search /\ q' = q
      /\ pc' = IF HasNtt THEN "forward" ELSE "split"
      /\ cur' = 1 /\ len' = d \div 2 /\ start' = 0 /\ k' = 1
  BY DEF Call
<1>2. CASE ~HasNtt
  BY <1>1, <1>2 DEF NttInv
<1>3. CASE HasNtt
  <2>1. IsRoot(q, LogD, psi) /\ d = 2^LogD /\ d \div 2 = 2^(LogD - 1)
    BY <1>1, <1>3, PsiIsRoot
  <2>2. pc' = "forward"
    BY <1>1, <1>3
  <2>3. d' = d /\ LogD' = LogD /\ psi' = psi /\ HasNtt'
    BY <1>1, <1>3, RingKept
  <2>4. Sized(q, 2^LogD, f')
    <3>1. Sized(q', d', f')
      BY <2>2 DEF ArrayInv, Multiplying
    <3>. QED  BY <1>1, <2>1, <2>3, <3>1
  <2>5. ForwardState(q, LogD, psi, f', f', 2^(LogD - 1), 0, 1)
    BY <2>1, <2>4, ForwardFirst
  <2>6. x'[cur'] = f' /\ x'[2] = g' /\ Operand' = f'
    BY <1>1 DEF Operand
  <2>7. ForwardState(q', LogD', psi', x'[cur'], Operand', len', start', k')
    <3>1. len' = 2^(LogD - 1)
      BY <1>1, <2>1
    <3>2. ForwardState(q, LogD, psi, x'[cur'], Operand', len', 0, 1)
      BY <2>5, <2>6, <3>1
    <3>. QED  BY <1>1, <2>3, <3>2
  <2>8. cur' \in {1, 2} /\ cur' # 2
    BY <1>1
  <2>. QED  BY <2>2, <2>3, <2>6, <2>7, <2>8 DEF NttInv
<1>. QED  BY <1>2, <1>3

LEMMA ForwardKeeps ==
  ASSUME SearchInv, MillerRabinExact, RootInv, ArrayInv, NttInv, ForwardGroup
  PROVE  NttInv'
<1>. DEFINE N == 2^LogD
            zeta == fwd(k)
            y == x[cur]
            w == Butterfly(y, zeta)
            o == Operand
<1>1. /\ pc = "forward" /\ len >= 1 /\ x' = [x EXCEPT ![cur] = w] /\ k' = k + 1
      /\ start' = (IF start + 2 * len >= d THEN 0 ELSE start + 2 * len)
      /\ len' = (IF start + 2 * len >= d THEN len \div 2 ELSE len)
      /\ pc' = pc /\ cur' = cur /\ f' = f /\ g' = g /\ search' = search /\ q' = q /\ HasNtt
      /\ pc \in Multiplying /\ len # 0
  BY DEF ForwardGroup, NttInv, Multiplying
<1>2. /\ cur \in {1, 2} /\ (cur = 1 => x[2] = g) /\ (cur = 2 => ForwardDone(q, LogD, psi, x[1], f))
      /\ ForwardState(q, LogD, psi, y, o, len, start, k)
  BY <1>1 DEF NttInv
<1>3. /\ IsRoot(q, LogD, psi) /\ d = N /\ Index = 0..(N - 1) /\ IsPair(x)
      /\ Sized(q, 2^LogD, f) /\ Sized(q, 2^LogD, g)
  BY <1>1, NttFacts
<1>4. Sized(q, 2^LogD, o)
  BY <1>3 DEF Operand
<1>5. w = ButterflyOf(q, 2^LogD, start, len, zeta, y)
  BY <1>3 DEF Butterfly, ButterflyOf
<1>6. k \in 0..(2^LogD - 1)
  <2>. DEFINE w1 == ButterflyOf(q, 2^LogD, start, len, Twiddle(q, LogD, psi, k), y)
  <2>1. w1 = ButterflyOf(q, 2^LogD, start, len, Twiddle(q, LogD, psi, k), y)
    OBVIOUS
  <2>. HIDE DEF w1, y, o
  <2>. QED  BY ONLY <1>1, <1>2, <1>3, <1>4, <2>1, ForwardNext
<1>7. zeta = Twiddle(q, LogD, psi, k)
  BY <1>3, <1>6, TablesAre
<1>8. w = ButterflyOf(q, 2^LogD, start, len, Twiddle(q, LogD, psi, k), y)
  BY <1>5, <1>7
<1>. HIDE DEF y, o, w, zeta, N
<1>9. /\ start + 2 * len >= N => ForwardState(q, LogD, psi, w, o, len \div 2, 0, k + 1)
      /\ ~(start + 2 * len >= N) => ForwardState(q, LogD, psi, w, o, len, start + 2 * len, k + 1)
  BY ONLY <1>1, <1>2, <1>3, <1>4, <1>8, ForwardNext DEF N
<1>10. ForwardState(q, LogD, psi, w, o, len', start', k')
  <2>1. CASE start + 2 * len >= d
    <3>1. len' = len \div 2 /\ start' = 0 /\ k' = k + 1 /\ start + 2 * len >= N
      BY <1>1, <1>3, <2>1
    <3>2. ForwardState(q, LogD, psi, w, o, len \div 2, 0, k + 1)
      BY <1>9, <3>1
    <3>. QED  BY <3>1, <3>2
  <2>2. CASE ~(start + 2 * len >= d)
    <3>1. len' = len /\ start' = start + 2 * len /\ k' = k + 1 /\ ~(start + 2 * len >= N)
      BY <1>1, <1>3, <2>2
    <3>2. ForwardState(q, LogD, psi, w, o, len, start + 2 * len, k + 1)
      BY <1>9, <3>1
    <3>. QED  BY <3>1, <3>2
  <2>. QED  BY <2>1, <2>2
<1>11. x'[cur'] = w /\ (cur = 1 => x'[2] = x[2]) /\ (cur = 2 => x'[1] = x[1])
  BY <1>1, <1>2, <1>3 DEF IsPair
<1>12. d' = d /\ LogD' = LogD /\ psi' = psi /\ HasNtt'
  BY <1>1, RingKept
<1>13. Operand' = o
  BY <1>1 DEF Operand, o
<1>14. ForwardState(q', LogD', psi', x'[cur'], Operand', len', start', k')
  BY <1>1, <1>10, <1>11, <1>12, <1>13
<1>15. cur' = 2 => ForwardDone(q', LogD', psi', x'[1], f')
  BY <1>1, <1>2, <1>11, <1>12
<1>16. cur' \in {1, 2} /\ (cur' = 1 => x'[2] = g') /\ pc' = "forward"
  BY <1>1, <1>2, <1>11
<1>. QED  BY <1>12, <1>14, <1>15, <1>16 DEF NttInv

\* A transform that has ended has all its values.
LEMMA ForwardHasEnded ==
  ASSUME NEW n, NEW L, NEW p, IsRoot(n, L, p), NEW y, NEW v, NEW s, NEW c, ForwardState(n, L, p, y, v, 0, s, c)
  PROVE  ForwardDone(n, L, p, y, v)
<1>1. ASSUME NEW G, IsLevel(L, 0, G) PROVE FALSE
  <2>1. L \in Nat
    BY RootFacts
  <2>2. 0 > 0
    BY ONLY <1>1, <2>1, LevelFacts
  <2>. QED  BY <2>2
<1>. QED  BY <1>1 DEF ForwardState

LEMMA InverseHasEnded ==
  ASSUME NEW n, NEW L, NEW p, IsRoot(n, L, p), NEW y, NEW v, NEW l, l = 2^L, NEW s, NEW c,
         InverseState(n, L, p, y, v, l, s, c)
  PROVE  InverseDone(n, 2^L, y, v)
<1>1. ASSUME NEW G, IsLevel(L, l, G) PROVE FALSE
  <2>1. L \in Nat
    BY RootFacts
  <2>. QED  BY <1>1, <2>1, GroupsOfLevel
<1>. QED  BY <1>1 DEF InverseState

-----------------------------------------------------------------------------
(* The rest of the NTT path.                                               *)

LEMMA NextOperandKeeps ==
  ASSUME SearchInv, MillerRabinExact, RootInv, ArrayInv, NttInv, NextOperand
  PROVE  NttInv'
<1>1. /\ pc = "forward" /\ len = 0 /\ cur = 1 /\ cur' = 2 /\ len' = d \div 2 /\ start' = 0 /\ k' = 1
      /\ pc' = pc /\ f' = f /\ g' = g /\ search' = search /\ q' = q /\ x' = x /\ pc \in Multiplying
  BY DEF NextOperand, Multiplying
<1>2. x[2] = g /\ ForwardState(q, LogD, psi, x[1], f, 0, start, k) /\ HasNtt
  BY <1>1 DEF NttInv, Operand
<1>3. IsRoot(q, LogD, psi) /\ d \div 2 = 2^(LogD - 1) /\ Sized(q, 2^LogD, g)
  BY <1>1, <1>2, NttFacts
<1>4. ForwardDone(q, LogD, psi, x[1], f)
  BY <1>2, <1>3, ForwardHasEnded
<1>5. ForwardState(q, LogD, psi, g, g, 2^(LogD - 1), 0, 1)
  BY <1>3, ForwardFirst
<1>6. d' = d /\ LogD' = LogD /\ psi' = psi /\ HasNtt'
  BY <1>1, <1>2, RingKept
<1>7. Operand' = g /\ x'[cur'] = g
  BY <1>1, <1>2 DEF Operand
<1>8. ForwardState(q', LogD', psi', x'[cur'], Operand', len', start', k')
  <2>1. len' = 2^(LogD - 1)
    BY <1>1, <1>3
  <2>. QED  BY <1>1, <1>5, <1>6, <1>7, <2>1
<1>9. ForwardDone(q', LogD', psi', x'[1], f')
  BY <1>1, <1>4, <1>6
<1>10. cur' \in {1, 2} /\ cur' # 1 /\ pc' = "forward"
  BY <1>1
<1>. QED  BY <1>6, <1>8, <1>9, <1>10 DEF NttInv

LEMMA PointwiseKeeps ==
  ASSUME SearchInv, MillerRabinExact, RootInv, ArrayInv, NttInv, PointwiseProduct
  PROVE  NttInv'
<1>. DEFINE h == Product(q, d, f, g)
            y == x[1]
            u == x[2]
            o == [i \in Index |-> (x[1][i] * x[2][i]) % q]
<1>1. /\ pc = "forward" /\ len = 0 /\ cur = 2 /\ x' = [x EXCEPT ![1] = o]
      /\ pc' = "inverse" /\ cur' = 1 /\ len' = 1 /\ start' = 0 /\ k' = 0
      /\ f' = f /\ g' = g /\ search' = search /\ q' = q /\ pc \in Multiplying
  BY DEF PointwiseProduct, Multiplying
<1>2. ForwardDone(q, LogD, psi, y, f) /\ ForwardState(q, LogD, psi, u, g, 0, start, k) /\ HasNtt
  BY <1>1 DEF NttInv, Operand
<1>3. /\ IsRoot(q, LogD, psi) /\ Sized(q, 2^LogD, f) /\ Sized(q, 2^LogD, g) /\ Index = 0..(2^LogD - 1)
      /\ IsProduct(q, 2^LogD, q - 1, h, f, g) /\ IsPair(x)
  BY <1>1, <1>2, NttFacts
<1>4. ForwardDone(q, LogD, psi, u, g)
  BY <1>2, <1>3, ForwardHasEnded
<1>5. o = [i \in 0..(2^LogD - 1) |-> Times(q, y[i], u[i])]
  BY <1>3 DEF Times
<1>6. x'[1] = o
  BY <1>1, <1>3 DEF IsPair
<1>. HIDE DEF h, y, u, o
<1>7. InverseState(q, LogD, psi, o, h, 1, 0, 0)
  BY ONLY <1>2, <1>3, <1>4, <1>5, InverseFirst
<1>8. d' = d /\ LogD' = LogD /\ psi' = psi /\ HasNtt'
  BY <1>1, <1>2, RingKept
<1>9. InverseState(q', LogD', psi', x'[1], Product(q', d', f', g'), len', start', k')
  BY <1>1, <1>6, <1>7, <1>8 DEF h
<1>. QED  BY <1>1, <1>8, <1>9 DEF NttInv

LEMMA InverseKeeps ==
  ASSUME SearchInv, MillerRabinExact, RootInv, ArrayInv, NttInv, InverseGroup
  PROVE  NttInv'
<1>. DEFINE G == 2^LogD \div (2 * len)
            h == Product(q, d, f, g)
            i2 == inverse(G + k)
            y == x[1]
            w == InverseButterfly(y, i2)
<1>1. /\ IsRoot(q, LogD, psi) /\ d = 2^LogD /\ Index = 0..(2^LogD - 1) /\ IsPair(x) /\ Sized(q, 2^LogD, h)
      /\ HasNtt /\ pc = "inverse" /\ len < d
  <2>1. HasNtt /\ pc = "inverse" /\ pc \in Multiplying /\ len < d
    BY DEF InverseGroup, NttInv, Multiplying
  <2>. QED  BY <2>1, NttFacts
<1>2. /\ x' = [x EXCEPT ![1] = w]
      /\ k' = (IF k + 1 = G THEN 0 ELSE k + 1)
      /\ len' = (IF k + 1 = G THEN 2 * len ELSE len)
      /\ start' = (IF k + 1 = G THEN 0 ELSE start + 2 * len)
      /\ pc' = pc /\ f' = f /\ g' = g /\ search' = search /\ q' = q
  BY <1>1 DEF InverseGroup
<1>3. InverseState(q, LogD, psi, y, h, len, start, k)
  BY <1>1 DEF NttInv
<1>4. w = InverseButterflyOf(q, 2^LogD, start, len, i2, y)
  BY <1>1 DEF InverseButterfly, InverseButterflyOf
<1>5. G = 2^LogD \div (2 * len)
  OBVIOUS
<1>6. len # 2^LogD
  <2>1. len # d
    <3>1. d \in Nat
      BY SearchFacts DEF SearchInv
    <3>. QED  BY ONLY <1>1, <3>1
  <2>. QED  BY <1>1, <2>1
<1>7. x'[1] = w
  BY <1>1, <1>2 DEF IsPair
<1>. HIDE DEF G, h, y, w, i2
<1>8. /\ G + k \in 0..(2^LogD - 1)
      /\ \A j2 \in Int : \A o :
           Times(q, j2, Twiddle(q, LogD, psi, G + k)) = 1 /\ o = InverseButterflyOf(q, 2^LogD, start, len, j2, y)
             => /\ k + 1 = G => InverseState(q, LogD, psi, o, h, 2 * len, 0, 0)
                /\ k + 1 # G => InverseState(q, LogD, psi, o, h, len, start + 2 * len, k + 1)
  BY ONLY <1>1, <1>3, <1>5, <1>6, InverseNext
<1>9. i2 \in Int /\ Times(q, i2, Twiddle(q, LogD, psi, G + k)) = 1
  BY <1>1, <1>8, TablesAre DEF i2
<1>10. /\ k + 1 = G => InverseState(q, LogD, psi, w, h, 2 * len, 0, 0)
       /\ k + 1 # G => InverseState(q, LogD, psi, w, h, len, start + 2 * len, k + 1)
  BY ONLY <1>4, <1>8, <1>9
<1>11. InverseState(q, LogD, psi, w, h, len', start', k')
  <2>1. CASE k + 1 = G
    BY <1>2, <1>10, <2>1
  <2>2. CASE k + 1 # G
    BY <1>2, <1>10, <2>2
  <2>. QED  BY <2>1, <2>2
<1>12. d' = d /\ LogD' = LogD /\ psi' = psi /\ HasNtt'
  BY <1>1, <1>2, RingKept
<1>13. InverseState(q', LogD', psi', x'[1], Product(q', d', f', g'), len', start', k')
  BY <1>2, <1>7, <1>11, <1>12 DEF h
<1>. QED  BY <1>1, <1>2, <1>12, <1>13 DEF NttInv

LEMMA NttSteps ==
  SearchInv /\ MillerRabinExact /\ RootInv /\ ArrayInv /\ ArrayInv' /\ NttInv /\ [Next]_vars => NttInv'
<1>. SUFFICES ASSUME SearchInv, MillerRabinExact, RootInv, ArrayInv, ArrayInv', NttInv, [Next]_vars PROVE NttInv'
  OBVIOUS
<1>1. CASE \/ Skip \/ NoPrime \/ Found \/ NoRoot \/ RootOfZero \/ StartRoot \/ RootRound \/ RootFound
           \/ PostScale \/ Split \/ MulHalves \/ Combine
  <2>1. pc' \notin {"forward", "inverse"}
    BY <1>1 DEF Skip, NoPrime, Found, NoRoot, RootOfZero, StartRoot, RootRound, RootFound,
                PostScale, Split, MulHalves, Combine
  <2>. QED  BY <2>1 DEF NttInv
<1>2. CASE UNCHANGED vars
  BY <1>2 DEF vars, NttInv, HasNtt, d, LogD, psi, Operand
<1>. QED  BY <1>1, <1>2, CallIsForward, ForwardKeeps, NextOperandKeeps, PointwiseKeeps, InverseKeeps DEF Next

\* Both ways end with the product.
LEMMA DoneSteps ==
  SearchInv /\ MillerRabinExact /\ RootInv /\ ArrayInv /\ CrtInv /\ NttInv /\ DoneInv /\ [Next]_vars => DoneInv'
<1>. SUFFICES ASSUME SearchInv, MillerRabinExact, RootInv, ArrayInv, CrtInv, NttInv, DoneInv, [Next]_vars
              PROVE  DoneInv'
  OBVIOUS
<1>1. CASE \/ Skip \/ NoPrime \/ Found \/ NoRoot \/ RootOfZero \/ StartRoot \/ RootRound \/ RootFound
           \/ Call \/ ForwardGroup \/ NextOperand \/ PointwiseProduct \/ InverseGroup \/ Split \/ MulHalves
  <2>1. pc' # "done"
    BY <1>1 DEF Skip, NoPrime, Found, NoRoot, RootOfZero, StartRoot, RootRound, RootFound, Call,
                ForwardGroup, NextOperand, PointwiseProduct, InverseGroup, Split, MulHalves
  <2>. QED  BY <2>1 DEF DoneInv
<1>2. CASE PostScale
  <2>. DEFINE h == Product(q, d, f, g)
              y == x[1]
              w == [i \in Index |-> (x[1][i] * inv(q, d)) % q]
  <2>1. /\ pc = "inverse" /\ len = d /\ x' = [x EXCEPT ![1] = w] /\ pc \in Multiplying
        /\ search' = search /\ q' = q /\ f' = f /\ g' = g
    BY <1>2 DEF PostScale, Multiplying
  <2>2. HasNtt /\ InverseState(q, LogD, psi, y, h, len, start, k)
    BY <2>1 DEF NttInv
  <2>3. /\ IsRoot(q, LogD, psi) /\ d = 2^LogD /\ IsPair(x) /\ Sized(q, 2^LogD, h)
        /\ IsPrime(q) /\ q >= 3 /\ d \in Units(q) /\ Index = 0..(2^LogD - 1)
    BY <2>1, <2>2, NttFacts
  <2>4. w = [i \in 0..(d - 1) |-> (y[i] * inv(q, d)) % q]
    BY <2>3
  <2>5. x'[1] = w
    BY <2>1, <2>3 DEF IsPair
  <2>. HIDE DEF h, y, w
  <2>6. len = 2^LogD
    BY <2>1, <2>3
  <2>7. InverseDone(q, 2^LogD, y, h)
    BY ONLY <2>2, <2>3, <2>6, InverseHasEnded
  <2>8. InverseDone(q, d, y, h) /\ Sized(q, d, h)
    BY <2>3, <2>7
  <2>9. w = h
    BY ONLY <2>3, <2>4, <2>8, ScaledBack
  <2>10. d' = d
    BY <2>1, RingKept
  <2>. QED  BY <2>1, <2>5, <2>9, <2>10 DEF DoneInv, h
<1>3. CASE Combine
  <2>1. x'[1] = Product(q, d, f, g) /\ search' = search /\ q' = q /\ f' = f /\ g' = g
    BY <1>3, CombineIsProduct DEF Combine
  <2>2. d' = d
    BY <2>1, RingKept
  <2>. QED  BY <2>1, <2>2 DEF DoneInv
<1>4. CASE UNCHANGED vars
  BY <1>4 DEF vars, DoneInv, d
<1>. QED  BY <1>1, <1>2, <1>3, <1>4 DEF Next

LEMMA ProductAlways ==
  Spec /\ []MillerRabinExact => [](SearchInv /\ RootInv /\ ArrayInv /\ CrtInv /\ NttInv /\ DoneInv)
  BY SearchAlways, RootAlways, ArraysStart, ArraySteps, CrtStarts, CrtSteps, NttStarts, NttSteps, DoneSteps,
     PTL DEF Spec

LEMMA ProductIsFound ==
  SearchInv /\ MillerRabinExact /\ RootInv /\ ArrayInv /\ DoneInv => ProductIsSchoolbook
<1>. SUFFICES ASSUME SearchInv, MillerRabinExact, RootInv, ArrayInv, DoneInv, pc = "done"
              PROVE  x[1] = Schoolbook
  BY DEF ProductIsSchoolbook
<1>1. /\ Positive(q) /\ AtLeastTwo(q) /\ d \in Nat /\ d > 0 /\ q - 1 \in Int
      /\ Sized(q, d, f) /\ Sized(q, d, g) /\ x[1] = Product(q, d, f, g)
  <2>1. pc \in Multiplying
    BY DEF Multiplying
  <2>2. Positive(q) /\ AtLeastTwo(q) /\ d \in Nat /\ d >= 2 /\ q \in Nat
    BY <2>1, RingFacts
  <2>3. d > 0 /\ q - 1 \in Int
    BY ONLY <2>2
  <2>. QED  BY <2>1, <2>2, <2>3 DEF ArrayInv, DoneInv
<1>2. ASSUME NEW i \in Index PROVE BlockProduct(f, g, 0, d, q - 1, i) = Conv(q, f, g, d, q - 1, i)
  <2>. DEFINE o == 0
              s == q - 1
              N == d
  <2>1. o \in Int /\ s \in Int /\ N \in Nat /\ N > 0 /\ i \in 0..(N - 1) /\ Positive(q)
        /\ Sized(q, N, f) /\ Sized(q, N, g)
    BY <1>1, <1>2 DEF Index
  <2>2. \A j \in 0..(N - 1) : f[j] = f[o + j] /\ g[j] = g[o + j]
    OBVIOUS
  <2>. HIDE DEF o, s, N
  <2>3. BlockProduct(f, g, o, N, s, i) = Conv(q, f, g, N, s, i)
    BY ONLY <2>1, <2>2, BlockProductIs
  <2>. QED  BY <2>3 DEF o, s, N
<1>. QED  BY <1>1, <1>2 DEF Schoolbook, Product, Index

\* Whatever the modulus, the dimension and the elements, both ways of Ring::mul
\* (the NTT of ntt.rs, the two-splitting CRT of crt.rs) end with the product
\* modulo X^d + 1 that RingElem::mul of poly.rs computes.
THEOREM BothWaysMultiply == Spec /\ []MillerRabinExact => []ProductIsSchoolbook
  BY ProductAlways, ProductIsFound, PTL

-----------------------------------------------------------------------------
(* The blocks of an array are its element modulo smaller polynomials.      *)

SliceOf(y, o, l) == [j \in 0..(l - 1) |-> y[o + j]]

\* The residue class of the block at i among blocks of l.
ModuloOf(i, l) ==
  IF l = d THEN q - 1
  ELSE IF (d \div l + i \div l) % 2 = 0 THEN fwd((d \div l + i \div l) \div 2)
       ELSE q - fwd((d \div l + i \div l) \div 2)

LEMMA BlockIs ==
  ASSUME AtLeastTwo(q), NEW v, NEW e \in Nat, NEW l \in Nat, l > 0, e * l = d, Sized(q, d, v),
         NEW rho \in Int, NEW y, NEW o, Holds(q, e, l, rho, y, o, v)
  PROVE  SliceOf(y, o, l) = Reduced(v, l, rho)
<1>0. Positive(q)
  BY TwoIsPositive
<1>1. d \div l = e
  <2>1. d = l * e + 0 /\ 0 \in 0..(l - 1) /\ e \in Int /\ d \in Int
    <3>1. e * l = l * e /\ l * e \in Int
      OBVIOUS
    <3>. QED  BY <3>1
  <2>. QED  BY <2>1, DivisionIs
<1>2. ASSUME NEW j \in 0..(l - 1) PROVE y[o + j] = Reduced(v, l, rho)[j]
  <2>. DEFINE b == [t \in 0..(e - 1) |-> Times(q, v[j + t * l], Power(q, rho, t))]
  <2>1. HasColumn(v, e, l, j)
    <3>1. ASSUME NEW t \in 0..(e - 1) PROVE v[j + t * l] \in Int
      <4>1. t * l >= 0 /\ (t + 1) * l <= e * l /\ (t + 1) * l = t * l + l /\ t * l \in Int
        BY Z3
      <4>. DEFINE u == t * l
      <4>. HIDE DEF u
      <4>2. u >= 0 /\ u + l <= d /\ u \in Int /\ d \in Int
        <5>1. e * l \in Int
          OBVIOUS
        <5>. QED  BY <4>1, <5>1 DEF u
      <4>3. j + u \in 0..(d - 1)
        BY <4>2
      <4>4. v[j + u] \in Residues(q)
        BY <4>3 DEF Sized
      <4>. QED  BY <1>0, <4>4, ResiduesAre DEF u
    <3>. QED  BY <3>1 DEF HasColumn
  <2>2. j \in Int
    OBVIOUS
  <2>3. IsRow(q, 0..(e - 1), b)
    BY <2>1, <2>2, CoefRow
  <2>4. \A t \in 0..(e - 1) : b[t] = (v[j + t * l] * pow(q, rho, t)) % q
    BY DEF Times, pow
  <2>5. y[o + j] = ModSum(q, b)
    BY DEF Holds, Coef
  <2>. HIDE DEF b
  <2>6. Reduced(v, l, rho)[j] = ModSum(q, b)
    <3>1. HasTerms(b, v, l, rho, j)
      BY <1>1, <2>3, <2>4 DEF HasTerms
    <3>. QED  BY ONLY <1>0, <3>1, ReducedIs, l \in Nat, j \in 0..(l - 1)
  <2>. QED  BY <2>5, <2>6
<1>3. Reduced(v, l, rho) = [j \in 0..(l - 1) |-> Reduced(v, l, rho)[j]]
  BY DEF Reduced
<1>. DEFINE R == Reduced(v, l, rho)
<1>. HIDE DEF R
<1>. QED  BY ONLY <1>2, <1>3 DEF SliceOf, R

\* A block between two groups, and the node that it belongs to.
LEMMA BlockPlace ==
  ASSUME NEW N \in Nat, NEW l \in Nat, l > 0, NEW e \in Nat, e > 0, e * l = N, NEW i \in 0..(N - 1), i % l = 0
  PROVE  /\ N \div l = e /\ i \div l \in 0..(e - 1) /\ i = l * (i \div l)
         /\ e <= N /\ e + i \div l \in 0..(2 * N - 1) /\ (l = N => e = 1 /\ i \div l = 0)
<1>. DEFINE t == i \div l
<1>1. t \in Int /\ i = l * t
  <2>1. i \in Int /\ i = l * (i \div l) + (i % l) /\ i \div l \in Int
    BY Division
  <2>2. l * (i \div l) \in Int
    BY <2>1
  <2>. QED  BY <2>1, <2>2
<1>2. N \div l = e
  <2>1. N = l * e + 0 /\ 0 \in 0..(l - 1) /\ e \in Int
    <3>1. e * l = l * e /\ l * e \in Int
      OBVIOUS
    <3>. QED  BY <3>1
  <2>. QED  BY <2>1, DivisionIs
<1>. HIDE DEF t
<1>3. t >= 0 /\ t < e
  BY <1>1, Z3
<1>4. e <= N /\ (l = N => e = 1)
  BY Z3
<1>5. t \in 0..(e - 1) /\ e + t \in 0..(2 * N - 1) /\ (l = N => e = 1 /\ t = 0)
  BY <1>1, <1>3, <1>4
<1>. QED  BY <1>1, <1>2, <1>4, <1>5 DEF t

LEMMA ModuloIs ==
  ASSUME IsRoot(q, LogD, psi), d = 2^LogD, NEW l \in Nat, l > 0, NEW e \in Nat, e > 0, e * l = d,
         NEW i \in 0..(d - 1), i % l = 0
  PROVE  /\ d \div l = e /\ i \div l \in 0..(e - 1) /\ i = l * (i \div l)
         /\ ModuloOf(i, l) = NodeRoot(q, LogD, psi, e + i \div l)
         /\ ModuloOf(i, l) \in Int
<1>. DEFINE t == i \div l
            c == e + t
<1>0. d \in Nat
  BY RootFacts
<1>1. d \div l = e /\ t \in 0..(e - 1) /\ i = l * t /\ c \in 0..(2 * d - 1) /\ (l = d => c = 1)
  <2>1. d \div l = e /\ t \in 0..(e - 1) /\ i = l * t /\ c \in 0..(2 * d - 1) /\ (l = d => e = 1 /\ t = 0)
    BY <1>0, BlockPlace
  <2>. QED  BY <2>1
<1>2. NodeRoot(q, LogD, psi, c) \in Int /\ c \div 2 \in 0..(2^LogD - 1)
  <2>. HIDE DEF c
  <2>1. c \in 0..(2 * 2^LogD - 1)
    BY <1>1
  <2>. QED  BY <2>1, NodeRootType
<1>3. fwd(c \div 2) = Twiddle(q, LogD, psi, c \div 2)
  <2>. HIDE DEF c
  <2>. QED  BY <1>2, TablesAre
<1>4. ModuloOf(i, l) = NodeRoot(q, LogD, psi, c)
  <2>1. CASE l = d
    BY <1>1, <2>1, TopRoot DEF ModuloOf
  <2>2. CASE l # d
    BY <1>1, <1>3, <2>2 DEF ModuloOf, NodeRoot
  <2>. QED  BY <2>1, <2>2
<1>. QED  BY <1>1, <1>2, <1>4

-----------------------------------------------------------------------------
(* Between the groups of a transform.                                      *)

SizeOf(i) == IF len = 0 THEN 1 ELSE IF i < start THEN len ELSE 2 * len

\* A block of l among e is the element modulo X^l - ModuloOf.
LEMMA BlockOfLevel ==
  ASSUME IsRoot(q, LogD, psi), d = 2^LogD, NEW v, Sized(q, d, v), NEW y,
         NEW l \in Nat, l > 0, NEW e \in Nat, e > 0, e * l = d, NEW i \in 0..(d - 1), i % l = 0,
         Holds(q, e, l, NodeRoot(q, LogD, psi, e + i \div l), y, l * (i \div l), v)
  PROVE  SliceOf(y, i, l) = Reduced(v, l, ModuloOf(i, l))
<1>1. /\ i = l * (i \div l) /\ ModuloOf(i, l) = NodeRoot(q, LogD, psi, e + i \div l)
      /\ ModuloOf(i, l) \in Int
  BY ModuloIs
<1>2. AtLeastTwo(q)
  BY RootFacts
<1>. DEFINE rho == ModuloOf(i, l)
<1>3. Holds(q, e, l, rho, y, i, v) /\ rho \in Int
  BY <1>1
<1>. HIDE DEF rho
<1>4. SliceOf(y, i, l) = Reduced(v, l, rho)
  BY <1>2, <1>3, BlockIs
<1>. QED  BY <1>4 DEF rho

LEMMA Twofold ==
  ASSUME NEW l \in Nat, NEW m \in Nat
  PROVE  2 * (l * m) = l * (2 * m) /\ 2 * (l * m) = (2 * l) * m
  OBVIOUS

LEMMA ForwardBlocks ==
  ASSUME SearchInv, MillerRabinExact, RootInv, ArrayInv, NttInv, pc = "forward",
         NEW i \in Index, i % SizeOf(i) = 0
  PROVE  /\ SliceOf(x[cur], i, SizeOf(i)) = Reduced(Operand, SizeOf(i), ModuloOf(i, SizeOf(i)))
         /\ len = 0 => ModuloOf(i, 1) = pow(q, psi, 2 * bit_reverse(i) + 1)
<1>. DEFINE y == x[cur]
            v == Operand
            S == SizeOf(i)
            L == LogD
            p == psi
<1>1. /\ IsRoot(q, L, p) /\ d = 2^L /\ Index = 0..(d - 1) /\ Sized(q, d, v)
      /\ ForwardState(q, L, p, y, v, len, start, k)
  <2>1. HasNtt /\ pc \in Multiplying
    BY DEF NttInv, Multiplying
  <2>2. IsRoot(q, LogD, psi) /\ d = 2^LogD /\ Sized(q, 2^LogD, f) /\ Sized(q, 2^LogD, g)
    BY <2>1, NttFacts
  <2>. QED  BY <2>2 DEF NttInv, Index, Operand
<1>2. i \in 0..(d - 1) /\ d \in Nat /\ d > 0 /\ i \in Nat /\ L \in Nat
  <2>1. d \in Nat /\ d > 0 /\ L \in Nat
    BY <1>1, RootFacts
  <2>. QED  BY <1>1, <2>1
<1>3. i % S = 0
  OBVIOUS
<1>. HIDE DEF y, v, S
<1>4. ASSUME len = 0
      PROVE  SliceOf(y, i, S) = Reduced(v, S, ModuloOf(i, S)) /\ ModuloOf(i, 1) = pow(q, psi, 2 * bit_reverse(i) + 1)
  <2>. DEFINE l == 1
  <2>1. S = l /\ l \in Nat /\ l > 0 /\ d * l = d
    BY <1>2, <1>4 DEF S, SizeOf
  <2>2. ForwardDone(q, L, p, y, v)
    BY <1>1, <1>4, ForwardHasEnded
  <2>. HIDE DEF l
  <2>3. i % l = 0
    BY <1>3, <2>1
  <2>4. i = l * (i \div l) /\ i \div l \in 0..(d - 1) /\ ModuloOf(i, l) = NodeRoot(q, LogD, psi, d + i \div l)
    BY <1>1, <1>2, <2>1, <2>3, ModuloIs
  <2>5. i \div l = i
    BY <2>4 DEF l
  <2>6. Holds(q, d, l, NodeRoot(q, LogD, psi, d + i \div l), y, l * (i \div l), v)
    <3>1. y[i] = Coef(q, d, v, 1, NodeRoot(q, L, p, d + i), 0)
      <4>1. i \in 0..(2^L - 1)
        BY <1>1, <1>2
      <4>. QED  BY <1>1, <2>2, <4>1 DEF ForwardDone
    <3>2. ASSUME NEW j \in 0..(l - 1) PROVE j = 0 /\ i + j = i
      BY <1>2 DEF l
    <3>3. Holds(q, d, l, NodeRoot(q, L, p, d + i), y, i, v)
      BY <3>1, <3>2 DEF Holds, l
    <3>. QED  BY <2>4, <2>5, <3>3
  <2>7. SliceOf(y, i, l) = Reduced(v, l, ModuloOf(i, l))
    BY <1>1, <1>2, <2>1, <2>3, <2>6, BlockOfLevel
  <2>8. ModuloOf(i, l) = pow(q, psi, 2 * bit_reverse(i) + 1)
    <3>1. NodeRoot(q, LogD, psi, 2^LogD + i) = Power(q, psi, 2 * Reverse(LogD, i) + 1)
      <4>1. i \in 0..(2^LogD - 1) /\ IsRoot(q, LogD, psi)
        BY <1>1, <1>2
      <4>. QED  BY ONLY <4>1, LeafRoot
    <3>2. bit_reverse(i) = Reverse(LogD, i)
      BY <1>2, BitReverseIs
    <3>. QED  BY <1>1, <2>4, <2>5, <3>1, <3>2 DEF pow
  <2>. QED  BY <2>1, <2>7, <2>8 DEF l
<1>5. ASSUME len # 0
      PROVE  SliceOf(y, i, S) = Reduced(v, S, ModuloOf(i, S))
  <2>1. PICK G, m : /\ IsLevel(L, len, G) /\ m \in 0..(G - 1) /\ start = 2 * (len * m) /\ k = G + m
                    /\ ForwardAt(q, L, p, len, G, m, y, v)
    BY <1>1, <1>5 DEF ForwardState
  <2>2. /\ len \in Nat /\ len > 0 /\ G \in Nat /\ G > 0 /\ m \in Nat
        /\ len * (2 * G) = d /\ (2 * len) * G = d /\ start = len * (2 * m) /\ start = (2 * len) * m
    <3>1. /\ len \in Nat /\ len > 0 /\ G \in Nat /\ G > 0
          /\ len * (2 * G) = d /\ (2 * len) * G = d
      BY <1>1, <1>2, <2>1, LevelFacts
    <3>2. m \in Nat /\ start = len * (2 * m) /\ start = (2 * len) * m
      <4>1. m \in Nat /\ start = 2 * (len * m)
        BY <2>1, <3>1
      <4>. QED  BY ONLY <3>1, <4>1, Twofold
    <3>. QED  BY <3>1, <3>2
  <2>3. CASE i < start
    <3>. DEFINE l == len
                e == 2 * G
                t == i \div l
    <3>1. S = l /\ l \in Nat /\ l > 0 /\ e \in Nat /\ e > 0 /\ e * l = d
      <4>1. l * e = e * l
        BY <2>2
      <4>. QED  BY <1>5, <2>2, <2>3, <4>1 DEF S, SizeOf
    <3>. HIDE DEF e, l
    <3>2. i % l = 0 /\ i = l * t /\ t \in 0..(e - 1)
      <4>1. i % l = 0
        BY <1>3, <3>1
      <4>. QED  BY <1>1, <1>2, <3>1, <4>1, ModuloIs
    <3>. HIDE DEF t
    <3>3. t \in 0..(2 * m - 1)
      <4>. DEFINE m2 == 2 * m
      <4>1. m2 \in Int /\ l * t < l * m2 /\ t \in Nat
        BY <2>2, <2>3, <3>2 DEF l
      <4>. HIDE DEF m2
      <4>2. t < m2
        BY ONLY <3>1, <4>1, Z3
      <4>3. t \in 0..(m2 - 1)
        BY <4>1, <4>2
      <4>. QED  BY <4>3 DEF m2
    <3>4. Holds(q, e, l, NodeRoot(q, L, p, e + t), y, l * t, v)
      BY <2>1, <3>3 DEF ForwardAt, e, l
    <3>5. SliceOf(y, i, l) = Reduced(v, l, ModuloOf(i, l))
      BY <1>1, <1>2, <3>1, <3>2, <3>4, BlockOfLevel DEF t
    <3>. QED  BY <3>1, <3>5
  <2>4. CASE ~(i < start)
    <3>. DEFINE l == 2 * len
                e == G
                t == i \div l
    <3>1. S = l /\ l \in Nat /\ l > 0 /\ e \in Nat /\ e > 0 /\ e * l = d /\ start \in Int
      <4>1. l * e = e * l /\ start \in Int
        BY <2>2
      <4>. QED  BY <1>5, <2>2, <2>4, <4>1 DEF S, SizeOf
    <3>. HIDE DEF e, l
    <3>2. i % l = 0 /\ i = l * t /\ t \in 0..(e - 1)
      <4>1. i % l = 0
        BY <1>3, <3>1
      <4>. QED  BY <1>1, <1>2, <3>1, <4>1, ModuloIs
    <3>. HIDE DEF t
    <3>3. t \in m..(G - 1)
      <4>1. l * m <= l * t /\ t \in Nat
        BY <1>2, <2>2, <2>4, <3>1, <3>2 DEF l
      <4>2. m <= t
        BY ONLY <2>2, <3>1, <4>1, Z3
      <4>. QED  BY <2>2, <3>2, <4>2 DEF e
    <3>4. Holds(q, e, l, NodeRoot(q, L, p, e + t), y, l * t, v)
      BY <2>1, <3>3 DEF ForwardAt, e, l
    <3>5. SliceOf(y, i, l) = Reduced(v, l, ModuloOf(i, l))
      BY <1>1, <1>2, <3>1, <3>2, <3>4, BlockOfLevel DEF t
    <3>. QED  BY <3>1, <3>5
  <2>. QED  BY <2>3, <2>4
<1>. QED  BY <1>4, <1>5 DEF y, v, S

LEMMA HalfBlocks ==
  ASSUME SearchInv, MillerRabinExact, RootInv, ArrayInv, CrtInv, pc = "halves"
  PROVE  SliceOf(x[1], 0, H) = Reduced(f, H, r) /\ SliceOf(x[1], H, H) = Reduced(f, H, q - r)
<1>. DEFINE y == x[1]
            s == q - r
            o == 0
            u == H
<1>1. /\ AtLeastTwo(q) /\ H \in Nat /\ H > 0 /\ 2 \in Nat /\ 2 * H = d /\ r \in Int /\ s \in Int
      /\ Sized(q, d, f) /\ IsHalved(q, H, r, y, f)
  <2>1. pc \in Multiplying
    BY DEF Multiplying
  <2>2. AtLeastTwo(q) /\ H \in Nat /\ H > 0 /\ d = 2 * H /\ r \in Int /\ q \in Nat
    BY <2>1, RingFacts
  <2>3. Sized(q, d, f) /\ IsHalved(q, H, r, y, f)
    BY <2>1 DEF ArrayInv, CrtInv
  <2>. QED  BY <2>2, <2>3
<1>2. ASSUME NEW i \in 0..(H - 1) PROVE y[o + i] = Coef(q, 2, f, H, r, i) /\ y[u + i] = Coef(q, 2, f, H, s, i)
  <2>1. y[i] = Coef(q, 2, f, H, r, i) /\ y[H + i] = Coef(q, 2, f, H, q - r, i)
    BY <1>1 DEF IsHalved
  <2>. QED  BY <2>1
<1>. HIDE DEF y, s, o, u
<1>3. Holds(q, 2, H, r, y, o, f) /\ Holds(q, 2, H, s, y, u, f)
  BY <1>2 DEF Holds
<1>4. SliceOf(y, o, H) = Reduced(f, H, r) /\ SliceOf(y, u, H) = Reduced(f, H, s)
  <2>. DEFINE e == 2
  <2>1. e \in Nat /\ e * H = d /\ Holds(q, e, H, r, y, o, f) /\ Holds(q, e, H, s, y, u, f)
    BY <1>1, <1>3
  <2>. HIDE DEF e
  <2>. QED  BY <1>1, <2>1, BlockIs
<1>. QED  BY <1>4 DEF y, s, o, u

LEMMA BlocksAreFound ==
  SearchInv /\ MillerRabinExact /\ RootInv /\ ArrayInv /\ CrtInv /\ NttInv => BlocksAreResidues
<1>. SUFFICES ASSUME SearchInv, MillerRabinExact, RootInv, ArrayInv, CrtInv, NttInv
              PROVE  BlocksAreResidues
  OBVIOUS
<1>1. ASSUME pc = "forward", NEW i \in Index, i % SizeOf(i) = 0
      PROVE  /\ SliceOf(x[cur], i, SizeOf(i)) = Reduced(IF cur = 1 THEN f ELSE g, SizeOf(i), ModuloOf(i, SizeOf(i)))
             /\ len = 0 => ModuloOf(i, 1) = pow(q, psi, 2 * bit_reverse(i) + 1)
  BY <1>1, ForwardBlocks DEF Operand
<1>2. ASSUME pc = "halves"
      PROVE  SliceOf(x[1], 0, H) = Reduced(f, H, r) /\ SliceOf(x[1], H, H) = Reduced(f, H, q - r)
  BY <1>2, HalfBlocks
<1>. QED  BY <1>1, <1>2 DEF BlocksAreResidues, SliceOf, ModuloOf, SizeOf

\* At every level of the negacyclic NTT (ntt.rs:4-6) each block of the array is
\* the element modulo X^n - rho, rho being the twiddle of the group that made the
\* block or its negative, and the last level has the values at the odd powers of
\* psi; split (crt.rs) leaves the element modulo X^(d/2) - r and X^(d/2) + r.
THEOREM BlocksAlwaysResidues == Spec /\ []MillerRabinExact => []BlocksAreResidues
  BY ProductAlways, BlocksAreFound, PTL
=============================================================================
