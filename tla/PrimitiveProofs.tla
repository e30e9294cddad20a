--------------------------- MODULE PrimitiveProofs ---------------------------
(***************************************************************************)
(* Theorems about the parts of crates/labrador that stand alone: the plan  *)
(* and the shapes (Shapes), the samplers (ChallengeSampling) and the       *)
(* decomposition (Decomposition).                                          *)
(*                                                                         *)
(* For every number of signatures, every depth and whatever the estimator  *)
(* settles on, the fold is defined wherever the drivers ask for it, and no *)
(* statement is larger than the iteration was planned for.  The plan and   *)
(* the statements grow by the same arithmetic, so a statement that fits    *)
(* its iteration folds into one that fits the next (FoldFits): what is     *)
(* left is the first, where params.rs takes a square root rounded up and   *)
(* relation.rs one rounded to the nearest (GridFits).                      *)
(*                                                                         *)
(* For every word size, bound, degree and weight, the samplers favour no   *)
(* number and give up no earlier than their limits say; a challenge has    *)
(* exactly W coefficients other than zero, and its first attempt is        *)
(* accepted.                                                               *)
(*                                                                         *)
(* For every modulus, base, number of parts and coefficient, decomposition *)
(* loses nothing and keeps its digits within half the base.  The invariant *)
(* needs neither powers nor sums: each value of v is its digit plus base   *)
(* times the next one, so what recompose has added up plus scale times the *)
(* value of v at its loop variable is always x.                            *)
(***************************************************************************)
EXTENDS Shapes, ChallengeSampling, Decomposition, SumProofs, SequenceTheorems

(***************************************************************************)
(* The plan and the shapes.                                                *)
(***************************************************************************)
-----------------------------------------------------------------------------
(* Division.                                                               *)

\* Half of a product of neighbours is exact.
LEMMA Halves ==
  ASSUME NEW i \in Nat
  PROVE  /\ (i * (i - 1)) \div 2 \in Nat /\ 2 * ((i * (i - 1)) \div 2) = i * (i - 1)
         /\ (i * (i + 1)) \div 2 \in Nat /\ 2 * ((i * (i + 1)) \div 2) = i * (i + 1)
<1>1. ASSUME NEW z \in Nat, NEW h \in Nat, z = 2 * h
      PROVE  z \div 2 \in Nat /\ 2 * (z \div 2) = z
  BY <1>1, SMT
<1>2. PICK p \in Nat : i = 2 * p \/ i = 2 * p + 1
  <2>1. i \div 2 \in Nat /\ (i = 2 * (i \div 2) \/ i = 2 * (i \div 2) + 1)
    BY SMT
  <2>. QED  BY <2>1
<1>3. CASE i = 2 * p
  <2>1. i * (i - 1) = 2 * (p * (2 * p - 1)) /\ i * (i + 1) = 2 * (p * (2 * p + 1))
    BY <1>3, SMT
  <2>2. p * (2 * p - 1) \in Nat /\ p * (2 * p + 1) \in Nat
    BY SMT
  <2>3. i * (i - 1) \in Nat /\ i * (i + 1) \in Nat
    BY SMT
  <2>. QED  BY <1>1, <2>1, <2>2, <2>3
<1>4. CASE i = 2 * p + 1
  <2>1. i * (i - 1) = 2 * ((2 * p + 1) * p) /\ i * (i + 1) = 2 * ((2 * p + 1) * (p + 1))
    BY <1>4, SMT
  <2>2. (2 * p + 1) * p \in Nat /\ (2 * p + 1) * (p + 1) \in Nat
    BY SMT
  <2>3. i * (i - 1) \in Nat /\ i * (i + 1) \in Nat
    BY SMT
  <2>. QED  BY <1>1, <2>1, <2>2, <2>3
<1>. QED  BY <1>2, <1>3, <1>4

-----------------------------------------------------------------------------
\* Every positive number has a square root rounded up.
LEMMA RootExists ==
  ASSUME NEW n \in Nat, n > 0
  PROVE  \E p \in 0..n : n <= p * p /\ (p - 1) * (p - 1) < n
<1> DEFINE T == {p \in 0..n : n <= p * p}
<1>1. n <= n * n
  BY SMT
<1>2. n \in T /\ T \in SUBSET Nat
  BY <1>1
<1>3. PICK p \in T : \A j \in T : p <= j
  BY <1>2, Least
<1>4. p # 0
  BY <1>3
<1>5. p - 1 \in 0..n /\ p - 1 \notin T
  BY <1>3, <1>4
<1>6. (p - 1) * (p - 1) \in Int
  BY <1>5
<1>7. (p - 1) * (p - 1) < n
  BY <1>5, <1>6
<1> QED
  BY <1>3, <1>7

LEMMA CeilSqrtIs ==
  ASSUME NEW n \in Nat, n > 0
  PROVE  /\ CeilSqrt(n) \in 1..n
         /\ n <= CeilSqrt(n) * CeilSqrt(n)
         /\ (CeilSqrt(n) - 1) * (CeilSqrt(n) - 1) < n
<1> DEFINE g == CeilSqrt(n)
<1>1. g \in 0..n /\ n <= g * g /\ (g - 1) * (g - 1) < n
  BY RootExists, Zenon DEF CeilSqrt
<1> HIDE DEF g
<1>2. g # 0
  BY <1>1
<1> QED
  BY <1>1, <1>2 DEF g

-----------------------------------------------------------------------------
(* Rounded division.                                                       *)

LEMMA CeilDivIs ==
  ASSUME NEW a \in Nat, NEW d \in Nat, d > 0
  PROVE  /\ CeilDiv(a, d) \in Nat /\ CeilDiv(a, d) = PieceLen(a, d)
         /\ a <= d * CeilDiv(a, d)
         /\ \A p \in Nat : a <= d * p => CeilDiv(a, d) <= p
<1> DEFINE quo == (a + d - 1) \div d
<1>1. /\ a + d - 1 \in Nat /\ quo \in Nat
      /\ \E e \in 0..(d - 1) : a + d - 1 = d * quo + e
  <2>1. a + d - 1 \in Nat
    OBVIOUS
  <2> QED
    BY <2>1, Division
<1> HIDE DEF quo
<1>2. a <= d * quo
  BY <1>1
<1>3. ASSUME NEW p \in Nat, a <= d * p
      PROVE  quo <= p
  <2>1. CASE p < quo
    <3>1. d * p + d <= d * quo
      BY <2>1, <1>1, Z3
    <3>2. d * p \in Int /\ d * quo \in Int
      BY <1>1
    <3> QED
      BY <1>1, <1>3, <3>1, <3>2
  <2> QED
    BY <1>1, <2>1
<1> QED
  BY <1>1, <1>2, <1>3 DEF CeilDiv, PieceLen, quo

LEMMA CeilDivGrows ==
  ASSUME NEW a \in Nat, NEW b \in Nat, a <= b, NEW d \in Nat, d > 0
  PROVE  CeilDiv(a, d) <= CeilDiv(b, d)
<1>1. b <= d * CeilDiv(b, d) /\ CeilDiv(b, d) \in Nat /\ d * CeilDiv(b, d) \in Int
  BY CeilDivIs
<1> QED
  BY <1>1, CeilDivIs

\* Rows and columns of the grid of signatures, against the square root rounded
\* up: relation.rs rounds it to the nearest.
LEMMA GridFits ==
  ASSUME NEW n \in Nat, n > 0, NEW p \in 1..n, Falcon!IsRho(n, p)
  PROVE  /\ CeilDiv(n, p) \in Nat
         /\ CeilDiv(n, p) + p <= 2 * CeilSqrt(n)
<1> DEFINE g == CeilSqrt(n)
<1>1. g \in 1..n /\ n <= g * g /\ (g - 1) * (g - 1) < n
  BY CeilSqrtIs
<1>2. p * p - p < n /\ n <= p * p + p
  BY DEF Falcon!IsRho
<1>3. CeilDiv(n, p) \in Nat /\ \A j \in Nat : n <= p * j => CeilDiv(n, p) <= j
  BY CeilDivIs
<1> HIDE DEF g
<1>4. p <= g
  <2>1. CASE p > g
    <3>1. p * p - p >= g * g
      BY <1>1, <2>1, Z3
    <3>2. p * p \in Int /\ g * g \in Int
      BY <1>1
    <3> QED
      BY <1>1, <1>2, <3>1, <3>2
  <2> QED
    BY <1>1, <2>1
<1>5. CASE p = g
  <2>1. CeilDiv(n, p) <= g
    BY <1>1, <1>3, <1>5
  <2> QED
    BY <1>1, <1>3, <1>5, <2>1 DEF g
<1>6. CASE p < g
  <2>1. p * (p + 1) = p * p + p
    BY Z3
  <2>2. CeilDiv(n, p) <= p + 1
    BY <1>2, <1>3, <2>1
  <2> QED
    BY <1>1, <1>3, <1>6, <2>2 DEF g
<1> QED
  BY <1>1, <1>4, <1>5, <1>6

-----------------------------------------------------------------------------
(* The length of e, counted by ELayout and by the estimator.               *)

Triangle(r) == (r * (r + 1)) \div 2

LEMMA TriangleGrows ==
  ASSUME NEW a \in Nat, NEW b \in Nat, a <= b
  PROVE  Triangle(a) \in Nat /\ Triangle(b) \in Nat /\ 2 * Triangle(b) = b * b + b /\ Triangle(a) <= Triangle(b)
<1>1. /\ Triangle(a) \in Nat /\ 2 * Triangle(a) = a * (a + 1)
      /\ Triangle(b) \in Nat /\ 2 * Triangle(b) = b * (b + 1)
  BY Halves DEF Triangle
<1>2. a * (a + 1) <= b * (b + 1) /\ b * (b + 1) = b * b + b
  BY Z3
<1> QED
  BY <1>1, <1>2

Counted(r, t1, t2, kappa) == r * t1 * kappa + (t1 + t2) * Triangle(r)

LEMMA ELenIs ==
  ASSUME NEW s, s.r \in Nat, s.t1 \in Nat, s.t2 \in Nat, s.kappa \in Nat
  PROVE  ELen(s) = Counted(s.r, s.t1, s.t2, s.kappa)
<1>1. Triangle(s.r) \in Nat /\ NUpper(s) = Triangle(s.r)
  BY TriangleGrows DEF Triangle, NUpper
<1>2. s.r * s.t1 * s.kappa \in Int
  BY Z3
<1>3. ASSUME NEW h \in Nat, NEW a \in Nat, NEW b \in Nat
      PROVE  b * h + a * h = (a + b) * h /\ b * h \in Int /\ a * h \in Int /\ (a + b) * h \in Int
  BY Z3
<1>4. /\ s.t2 * Triangle(s.r) + s.t1 * Triangle(s.r) = (s.t1 + s.t2) * Triangle(s.r)
      /\ s.t2 * Triangle(s.r) \in Int /\ s.t1 * Triangle(s.r) \in Int
  BY <1>1, <1>3
<1> QED
  BY <1>1, <1>2, <1>4 DEF ELen, HOff, GOff, Counted

LEMMA mIs ==
  ASSUME NEW it, it.r \in Nat, it.t1 \in Nat, it.t2 \in Nat, it.kappa \in Nat
  PROVE  m(it) = Counted(it.r, it.t1, it.t2, it.kappa) /\ m(it) \in Nat
<1> DEFINE z == it.t1 + it.t2
           h == Triangle(it.r)
           y == it.r * it.r + it.r
<1>1. z \in Nat /\ h \in Nat /\ 2 * h = y /\ y \in Int
  <2>1. h \in Nat /\ 2 * h = y
    BY TriangleGrows
  <2> HIDE DEF h, y
  <2>2. y \in Int /\ z \in Nat
    BY <2>1
  <2> QED
    BY <2>1, <2>2
<1> HIDE DEF z, h, y
<1>2. z * y = 2 * (z * h) /\ z * h \in Nat
  BY <1>1, Z3
<1>3. (z * y) \div 2 = z * h
  BY <1>2
<1>4. it.t1 * it.r * it.kappa = it.r * it.t1 * it.kappa /\ it.r * it.t1 * it.kappa \in Nat
  <2>1. it.t1 * it.r = it.r * it.t1 /\ it.t1 * it.r \in Nat
    BY Z3
  <2>2. ASSUME NEW u \in Nat, NEW v \in Nat
        PROVE  u * v \in Nat
    BY Z3
  <2> QED
    BY <2>1, <2>2
<1> QED
  BY <1>2, <1>3, <1>4 DEF m, Counted, z, h, y

LEMMA CountedGrows ==
  ASSUME NEW a \in Nat, NEW b \in Nat, a <= b, NEW t1 \in Nat, NEW t2 \in Nat, NEW kappa \in Nat
  PROVE  /\ Counted(a, t1, t2, kappa) \in Nat /\ Counted(b, t1, t2, kappa) \in Nat
         /\ Counted(a, t1, t2, kappa) <= Counted(b, t1, t2, kappa)
<1>1. ASSUME NEW u \in Nat, NEW v \in Nat, u <= v, NEW w \in Nat
      PROVE  /\ u * w \in Nat /\ v * w \in Nat /\ u * w <= v * w
             /\ w * u \in Nat /\ w * v \in Nat /\ w * u <= w * v
  <2>1. PICK d \in Nat : v = u + d
    <3>1. v - u \in Nat /\ v = u + (v - u)
      BY <1>1
    <3> QED
      BY <3>1
  <2>2. u * w \in Nat /\ v * w \in Nat /\ d * w \in Nat
    BY Z3
  <2>3. (u + d) * w = u * w + d * w /\ w * u = u * w /\ w * v = v * w
    BY Z3
  <2> QED
    BY <2>1, <2>2, <2>3
<1>2. a * t1 \in Nat /\ b * t1 \in Nat /\ a * t1 <= b * t1
  BY <1>1
<1>3. a * t1 * kappa \in Nat /\ b * t1 * kappa \in Nat /\ a * t1 * kappa <= b * t1 * kappa
  BY <1>1, <1>2
<1>4. Triangle(a) \in Nat /\ Triangle(b) \in Nat /\ Triangle(a) <= Triangle(b) /\ t1 + t2 \in Nat
  BY TriangleGrows
<1>5. /\ (t1 + t2) * Triangle(a) \in Nat /\ (t1 + t2) * Triangle(b) \in Nat
      /\ (t1 + t2) * Triangle(a) <= (t1 + t2) * Triangle(b)
  BY <1>1, <1>4
<1> QED
  BY <1>3, <1>5 DEF Counted

-----------------------------------------------------------------------------
(* The plan.                                                               *)

Plans == [stage : {"First", "Mid", "SecLast"}, n : Nat, r : Nat, t : {1, 2}, t1 : Nat, t2 : Nat,
          kappa : Nat, prev_nu : Nat \ {0}, prev_mu : Nat \ {0}]

LEMMA IterationsAre ==
  ASSUME NEW stage \in {"First", "Mid", "SecLast"}, NEW n \in Nat, NEW ra \in Nat,
         NEW nu \in Nat \ {0}, NEW mu \in Nat \ {0}, NEW it \in IterationsOf(stage, n, ra, nu, mu)
  PROVE  /\ it \in Plans /\ it.stage = stage /\ it.n = n /\ it.r = ra
         /\ it.prev_nu = nu /\ it.prev_mu = mu
         /\ it.t = IF stage = "SecLast" THEN 1 ELSE 2
<1>1. PICK t1 \in T1s, t2 \in T2s, kappa \in Kappas :
        it = [stage |-> stage, n |-> n, r |-> ra, t |-> IF stage = "SecLast" THEN 1 ELSE 2,
              t1 |-> t1, t2 |-> t2, kappa |-> kappa, prev_nu |-> nu, prev_mu |-> mu]
  BY DEF IterationsOf
<1>2. t1 \in Nat /\ t2 \in Nat /\ kappa \in Nat
  BY ShapesAssumption
<1> QED
  BY <1>1, <1>2 DEF Plans

\* The iteration planned after it has the shape of its fold.
Follows(it, next) ==
  /\ next.n = Larger(CeilDiv(it.n, next.prev_nu), CeilDiv(m(it), next.prev_mu))
  /\ next.r = it.t * next.prev_nu + next.prev_mu

LEMMA NextIs ==
  ASSUME NEW it \in Plans, NEW stage \in {"Mid", "SecLast"}, NEW nu \in Nus, NEW mu \in Mus,
         NEW next \in next_it(it, stage, nu, mu)
  PROVE  /\ next \in Plans /\ next.stage = stage /\ Follows(it, next)
         /\ next.t = IF stage = "SecLast" THEN 1 ELSE 2
<1>1. /\ nu \in Nat \ {0} /\ mu \in Nat \ {0} /\ it.t \in Nat /\ it.n \in Nat /\ it.r \in Nat
      /\ it.t1 \in Nat /\ it.t2 \in Nat /\ it.kappa \in Nat
  BY ShapesAssumption DEF Plans
<1>2. m(it) \in Nat
  BY <1>1, mIs
<1>3. Larger(CeilDiv(it.n, nu), CeilDiv(m(it), mu)) \in Nat
  BY <1>1, <1>2, CeilDivIs DEF Larger
<1>4. it.t * nu + mu \in Nat
  BY <1>1 DEF Plans
<1> DEFINE n == Larger(CeilDiv(it.n, nu), CeilDiv(m(it), mu))
           ra == it.t * nu + mu
<1>5. next \in IterationsOf(stage, n, ra, nu, mu)
  BY DEF next_it
<1>6. n \in Nat /\ ra \in Nat /\ stage \in {"First", "Mid", "SecLast"}
  BY <1>3, <1>4
<1> HIDE DEF n, ra
<1>7. /\ next \in Plans /\ next.stage = stage /\ next.n = n /\ next.r = ra
      /\ next.prev_nu = nu /\ next.prev_mu = mu
      /\ next.t = IF stage = "SecLast" THEN 1 ELSE 2
  BY <1>1, <1>5, <1>6, IterationsAre
<1> QED
  BY <1>7 DEF Follows, n, ra

-----------------------------------------------------------------------------
(***************************************************************************)
(* What holds of every reachable state.  Each planned iteration has the    *)
(* shape the one before folds into, the last and only the last is SecLast, *)
(* and each statement fits its iteration.                                  *)
(***************************************************************************)
ShapesType ==
  /\ num_sigs \in Counts /\ depth \in DepthsKept
  /\ iterations \in Seq(Plans) /\ statements \in Seq([n : Nat, r : Nat])

LastIteration == mid_strategies(depth) + 2

Chained ==
  /\ Len(iterations) \in 1..LastIteration
  /\ iterations[1].n = 8 * num_sigs /\ iterations[1].r = initial_r(num_sigs)
  /\ \A p \in 1..Len(iterations) :
       /\ iterations[p].stage = "SecLast" <=> p = LastIteration
       /\ iterations[p].t = IF iterations[p].stage = "SecLast" THEN 1 ELSE 2
       /\ p + 1 <= Len(iterations) => Follows(iterations[p], iterations[p + 1])

FitsPlan(s, it) == s.n <= it.n /\ s.r <= it.r

Fitting ==
  /\ statements # << >> => Len(iterations) = LastIteration
  /\ Len(statements) <= depth
  /\ \A p \in 1..Len(statements) :
       /\ FitsPlan(statements[p], iterations[p])
       /\ p > 1 => statements[p].r = iterations[p].r

ShapesInv == ShapesType /\ Chained /\ Fitting

LEMMA Depths ==
  ASSUME ShapesInv
  PROVE  /\ num_sigs \in Nat /\ num_sigs > 0
         /\ depth \in Nat /\ depth >= 1 /\ LastIteration \in Nat /\ LastIteration >= 2 /\ depth <= LastIteration
         /\ depth > 1 => LastIteration = depth
         /\ Planned <=> Len(iterations) = LastIteration
         /\ Len(iterations) \in Nat /\ Len(statements) \in Nat
         /\ DOMAIN iterations = 1..Len(iterations) /\ DOMAIN statements = 1..Len(statements)
         /\ \A p \in 1..Len(iterations) : iterations[p] \in Plans
         /\ \A p \in 1..Len(statements) : statements[p] \in [n : Nat, r : Nat]
<1>1. num_sigs \in Nat /\ num_sigs > 0 /\ MAX_DEPTH \in Nat
  BY ShapesAssumption DEF ShapesInv, ShapesType
<1>2. /\ depth \in Nat /\ depth >= 1 /\ LastIteration \in Nat /\ LastIteration >= 2 /\ depth <= LastIteration
      /\ depth > 1 => LastIteration = depth
  BY <1>1 DEF ShapesInv, ShapesType, DepthsKept, LastIteration, mid_strategies
<1>3. /\ Len(iterations) \in Nat /\ Len(statements) \in Nat
      /\ DOMAIN iterations = 1..Len(iterations) /\ DOMAIN statements = 1..Len(statements)
      /\ \A p \in 1..Len(iterations) : iterations[p] \in Plans
      /\ \A p \in 1..Len(statements) : statements[p] \in [n : Nat, r : Nat]
  BY LenProperties, ElementOfSeq DEF ShapesInv, ShapesType
<1>4. Planned <=> Len(iterations) = LastIteration
  BY <1>3 DEF ShapesInv, Chained, Planned
<1> QED
  BY <1>1, <1>2, <1>3, <1>4

LEMMA InitShapes ==
  ASSUME ShapesInit
  PROVE  ShapesInv
<1>1. num_sigs \in Nat /\ num_sigs > 0 /\ num_sigs \in Counts /\ depth \in DepthsKept
  BY ShapesAssumption DEF ShapesInit
<1>2. PICK it \in IterationsOf("First", 8 * num_sigs, initial_r(num_sigs), 1, 1) : iterations = <<it>>
  BY DEF ShapesInit
<1>3. 8 * num_sigs \in Nat /\ initial_r(num_sigs) \in Nat /\ 1 \in Nat \ {0}
  BY <1>1, CeilSqrtIs DEF initial_r
<1>4. /\ it \in Plans /\ it.stage = "First" /\ it.n = 8 * num_sigs
      /\ it.r = initial_r(num_sigs) /\ it.t = 2
  BY <1>2, <1>3, IterationsAre
<1>5. statements = << >> /\ << >> \in Seq([n : Nat, r : Nat])
  BY DEF ShapesInit
<1>6. iterations \in Seq(Plans) /\ Len(iterations) = 1 /\ iterations[1] = it
  BY <1>2, <1>4
<1>7. LastIteration \in Nat /\ LastIteration >= 2 /\ depth \in Nat
  BY <1>1, ShapesAssumption DEF LastIteration, mid_strategies, DepthsKept
<1>8. Chained
  BY <1>4, <1>6, <1>7 DEF Chained
<1>9. Fitting
  BY <1>5, <1>7 DEF Fitting
<1> QED
  BY <1>1, <1>5, <1>6, <1>8, <1>9 DEF ShapesInv, ShapesType

LEMMA PlanStep ==
  ASSUME ShapesInv, Plan
  PROVE  ShapesInv'
<1> DEFINE l     == Len(iterations)
           last  == iterations[l]
           stage == IF l <= mid_strategies(depth) THEN "Mid" ELSE "SecLast"
<1>1. PICK nu \in Nus, mu \in Mus : \E it \in next_it(last, stage, nu, mu) :
        iterations' = Append(iterations, it)
  BY DEF Plan
<1>2. PICK it \in next_it(last, stage, nu, mu) : iterations' = Append(iterations, it)
  BY <1>1
<1>3. l \in 1..(LastIteration - 1) /\ last \in Plans /\ l \in Nat /\ LastIteration \in Nat
      /\ UNCHANGED <<num_sigs, depth, statements>>
  BY Depths DEF Plan, ShapesInv, Chained
<1>4. stage \in {"Mid", "SecLast"} /\ (stage = "SecLast" <=> l + 1 = LastIteration)
  BY <1>3, Depths DEF LastIteration, mid_strategies
<1> HIDE DEF stage
<1>5. /\ it \in Plans /\ it.stage = stage /\ Follows(last, it)
      /\ it.t = IF stage = "SecLast" THEN 1 ELSE 2
  BY <1>2, <1>3, <1>4, NextIs
<1>6. /\ iterations' \in Seq(Plans) /\ Len(iterations') = l + 1
      /\ \A p \in 1..l : iterations'[p] = iterations[p]
      /\ iterations'[l + 1] = it
  BY <1>2, <1>3, <1>5, AppendProperties DEF ShapesInv, ShapesType
<1>7. statements = << >>
  BY <1>3, Depths DEF ShapesInv, Fitting
<1>8. ShapesType'
  BY <1>3, <1>6 DEF ShapesInv, ShapesType
<1>9. Chained'
  <2>1. LastIteration' = LastIteration
    BY <1>3 DEF LastIteration, mid_strategies
  <2>2. Len(iterations') \in 1..LastIteration
    BY <1>3, <1>6
  <2>3. iterations'[1].n = 8 * num_sigs' /\ iterations'[1].r = initial_r(num_sigs')
    BY <1>3, <1>6 DEF ShapesInv, Chained
  <2>4. ASSUME NEW p \in 1..Len(iterations')
        PROVE  /\ iterations'[p].stage = "SecLast" <=> p = LastIteration
               /\ iterations'[p].t = IF iterations'[p].stage = "SecLast" THEN 1 ELSE 2
               /\ p + 1 <= Len(iterations') => Follows(iterations'[p], iterations'[p + 1])
    <3>1. CASE p = l + 1
      BY <1>3, <1>4, <1>5, <1>6, <3>1
    <3>2. CASE p = l
      BY <1>3, <1>5, <1>6, <3>2 DEF ShapesInv, Chained
    <3>3. CASE p < l
      <4>1. p \in 1..l /\ p + 1 \in 1..l
        BY <1>3, <3>3
      <4>2. iterations'[p] = iterations[p] /\ iterations'[p + 1] = iterations[p + 1]
        BY <1>6, <4>1
      <4> QED
        BY <1>3, <4>1, <4>2 DEF ShapesInv, Chained
    <3> QED
      BY <1>3, <1>6, <3>1, <3>2, <3>3
  <2> QED
    BY <2>1, <2>2, <2>3, <2>4 DEF Chained
<1>10. Fitting'
  <2>1. statements' = << >> /\ Len(statements') = 0 /\ depth' \in Nat
    BY <1>3, <1>7, EmptySeq, Depths
  <2> QED
    BY <2>1 DEF Fitting
<1> QED
  BY <1>8, <1>9, <1>10 DEF ShapesInv

LEMMA RelateStep ==
  ASSUME ShapesInv, Relate
  PROVE  ShapesInv'
<1>1. PICK L \in Falcon!LayoutsOf(num_sigs) :
        statements' = <<[n |-> Falcon!n_s(L), r |-> Falcon!r(L)]>>
  BY DEF Relate
<1>2. PICK p \in 1..num_sigs : /\ Falcon!IsRho(num_sigs, p)
                              /\ L = [n_sigs |-> num_sigs, rho |-> p,
                                      num_y |-> (num_sigs + p - 1) \div p, num_yp |-> p]
  BY <1>1 DEF Falcon!LayoutsOf
<1> DEFINE d == CeilDiv(num_sigs, p)
           s == [n |-> Falcon!n_s(L), r |-> Falcon!r(L)]
<1>3. Falcon!n_s(L) = 8 * num_sigs /\ Falcon!r(L) = 3 * d + 3 * p + 1
  BY <1>2 DEF Falcon!n_s, Falcon!r, CeilDiv
<1>4. d \in Nat /\ d + p <= 2 * CeilSqrt(num_sigs) /\ CeilSqrt(num_sigs) \in Nat
  <2>1. num_sigs \in Nat /\ num_sigs > 0
    BY Depths
  <2>2. Falcon!IsRho(num_sigs, p)
    BY <1>2
  <2> QED
    BY ONLY <2>1, <2>2, p \in 1..num_sigs, GridFits, CeilSqrtIs
<1> HIDE DEF d
<1>5. s \in [n : Nat, r : Nat] /\ s.n = 8 * num_sigs /\ s.r <= initial_r(num_sigs)
  <2>1. num_sigs \in Nat /\ p \in Nat
    BY Depths
  <2>2. 8 * num_sigs \in Nat /\ 3 * d + 3 * p + 1 \in Nat
        /\ 3 * d + 3 * p + 1 <= 6 * CeilSqrt(num_sigs) + 1
    BY <1>4, <2>1
  <2> QED
    BY <1>3, <2>2 DEF initial_r
<1> HIDE DEF s
<1>6. /\ UNCHANGED <<num_sigs, depth, iterations>> /\ statements' = <<s>>
      /\ Len(iterations) = LastIteration /\ LastIteration' = LastIteration
  BY <1>1, Depths DEF Relate, s, LastIteration, mid_strategies
<1>7. statements' \in Seq([n : Nat, r : Nat]) /\ Len(statements') = 1 /\ statements'[1] = s
  BY <1>5, <1>6
<1>8. ShapesType' /\ Chained'
  BY <1>6, <1>7 DEF ShapesInv, ShapesType, Chained
<1>9. FitsPlan(statements'[1], iterations'[1])
  BY <1>5, <1>6, <1>7, Depths DEF ShapesInv, Chained, FitsPlan
<1>10. Fitting'
  BY <1>6, <1>7, <1>9, Depths DEF Fitting
<1> QED
  BY <1>8, <1>10 DEF ShapesInv

\* A statement that fits its iteration folds into one that fits the next.
LEMMA FoldFits ==
  ASSUME NEW s \in [n : Nat, r : Nat], NEW it \in Plans, NEW next \in Plans,
         FitsPlan(s, it), Follows(it, next), it.t = 2,
         NEW f, f = [n |-> s.n, r |-> s.r, t1 |-> it.t1, t2 |-> it.t2,
                     kappa |-> it.kappa, nu |-> next.prev_nu, mu |-> next.prev_mu]
  PROVE  /\ NPrime(f) \in Nat /\ RPrime(f) \in Nat
         /\ NPrime(f) <= next.n /\ RPrime(f) = next.r
<1>1. /\ f.n = s.n /\ f.r = s.r /\ f.t1 = it.t1 /\ f.t2 = it.t2 /\ f.kappa = it.kappa
      /\ f.nu = next.prev_nu /\ f.mu = next.prev_mu
  OBVIOUS
<1>2. /\ s.n \in Nat /\ s.r \in Nat /\ it.n \in Nat /\ it.r \in Nat /\ it.t1 \in Nat
      /\ it.t2 \in Nat /\ it.kappa \in Nat /\ s.n <= it.n /\ s.r <= it.r
      /\ next.prev_nu \in Nat /\ next.prev_nu > 0 /\ next.prev_mu \in Nat /\ next.prev_mu > 0
  BY DEF Plans, FitsPlan
<1>3. ELen(f) \in Nat /\ m(it) \in Nat /\ ELen(f) <= m(it)
  <2>1. ELen(f) = Counted(s.r, it.t1, it.t2, it.kappa)
    BY <1>1, <1>2, ELenIs
  <2>2. m(it) = Counted(it.r, it.t1, it.t2, it.kappa)
    BY <1>2, mIs
  <2>3. /\ Counted(s.r, it.t1, it.t2, it.kappa) \in Nat
        /\ Counted(it.r, it.t1, it.t2, it.kappa) \in Nat
        /\ Counted(s.r, it.t1, it.t2, it.kappa) <= Counted(it.r, it.t1, it.t2, it.kappa)
    BY ONLY <1>2, CountedGrows
  <2> QED
    BY ONLY <2>1, <2>2, <2>3
<1>4. /\ ZLen(f) = CeilDiv(s.n, next.prev_nu) /\ ZLen(f) \in Nat
      /\ ZLen(f) <= CeilDiv(it.n, next.prev_nu) /\ CeilDiv(it.n, next.prev_nu) \in Nat
  <2>1. ZLen(f) = CeilDiv(s.n, next.prev_nu)
    BY ONLY <1>1 DEF ZLen, CeilDiv, PieceLen
  <2>2. /\ CeilDiv(s.n, next.prev_nu) \in Nat /\ CeilDiv(it.n, next.prev_nu) \in Nat
        /\ CeilDiv(s.n, next.prev_nu) <= CeilDiv(it.n, next.prev_nu)
    BY ONLY <1>2, CeilDivIs, CeilDivGrows
  <2> QED
    BY ONLY <2>1, <2>2
<1>5. /\ EPieceLen(f) = CeilDiv(ELen(f), next.prev_mu) /\ EPieceLen(f) \in Nat
      /\ EPieceLen(f) <= CeilDiv(m(it), next.prev_mu) /\ CeilDiv(m(it), next.prev_mu) \in Nat
  <2>1. EPieceLen(f) = CeilDiv(ELen(f), next.prev_mu)
    BY ONLY <1>1 DEF EPieceLen, CeilDiv, PieceLen
  <2>2. /\ CeilDiv(ELen(f), next.prev_mu) \in Nat /\ CeilDiv(m(it), next.prev_mu) \in Nat
        /\ CeilDiv(ELen(f), next.prev_mu) <= CeilDiv(m(it), next.prev_mu)
    BY ONLY <1>2, <1>3, CeilDivIs, CeilDivGrows
  <2> QED
    BY ONLY <2>1, <2>2
<1>6. NPrime(f) \in Nat /\ NPrime(f) <= next.n
  BY <1>4, <1>5 DEF NPrime, Follows, Larger
<1>7. RPrime(f) \in Nat /\ RPrime(f) = next.r
  BY <1>1, <1>2 DEF RPrime, Follows
<1> QED
  BY <1>6, <1>7

LEMMA FoldStep ==
  ASSUME ShapesInv, Fold
  PROVE  ShapesInv'
<1> DEFINE p == Len(statements)
           f == Folded(p)
           s == [n |-> NPrime(f), r |-> RPrime(f)]
<1>1. /\ p \in 1..(depth - 1) /\ p + 1 \in DOMAIN iterations /\ iterations[p].t = 2
      /\ statements' = Append(statements, s) /\ UNCHANGED <<num_sigs, depth, iterations>>
  BY DEF Fold, Foldable
<1>2. /\ p \in Nat /\ depth \in Nat /\ p \in 1..Len(iterations) /\ p + 1 \in 1..Len(iterations)
      /\ statements[p] \in [n : Nat, r : Nat]
      /\ iterations[p] \in Plans /\ iterations[p + 1] \in Plans
      /\ FitsPlan(statements[p], iterations[p]) /\ Follows(iterations[p], iterations[p + 1])
      /\ Len(iterations) = LastIteration
  <2>1. /\ p \in Nat /\ depth \in Nat /\ p \in 1..Len(iterations) /\ p + 1 \in 1..Len(iterations)
        /\ p \in 1..Len(statements) /\ p + 1 <= Len(iterations)
    BY <1>1, Depths
  <2>2. statements # << >>
    BY <1>1
  <2> QED
    BY <2>1, <2>2, Depths DEF ShapesInv, Chained, Fitting
<1>3. f = [n |-> statements[p].n, r |-> statements[p].r, t1 |-> iterations[p].t1,
           t2 |-> iterations[p].t2, kappa |-> iterations[p].kappa,
           nu |-> iterations[p + 1].prev_nu, mu |-> iterations[p + 1].prev_mu]
  BY DEF Folded
<1> HIDE DEF f
<1>4. /\ NPrime(f) \in Nat /\ RPrime(f) \in Nat
      /\ NPrime(f) <= iterations[p + 1].n /\ RPrime(f) = iterations[p + 1].r
  BY <1>1, <1>2, <1>3, FoldFits
<1>5. /\ s \in [n : Nat, r : Nat] /\ s.r = iterations[p + 1].r
      /\ FitsPlan(s, iterations[p + 1])
  BY <1>2, <1>4 DEF FitsPlan, Plans
<1> HIDE DEF s
<1>6. /\ statements' \in Seq([n : Nat, r : Nat]) /\ Len(statements') = p + 1
      /\ \A j \in 1..p : statements'[j] = statements[j]
      /\ statements'[p + 1] = s
  BY <1>1, <1>2, <1>5, AppendProperties DEF ShapesInv, ShapesType
<1>7. LastIteration' = LastIteration /\ Len(iterations') = LastIteration
  BY <1>1, <1>2 DEF LastIteration, mid_strategies
<1>8. ShapesType' /\ Chained'
  BY <1>1, <1>6, <1>7 DEF ShapesInv, ShapesType, Chained
<1>9. Fitting'
  <2>1. ASSUME NEW j \in 1..Len(statements')
        PROVE  /\ FitsPlan(statements'[j], iterations'[j])
               /\ j > 1 => statements'[j].r = iterations'[j].r
    <3>1. CASE j = p + 1
      BY <1>1, <1>5, <1>6, <3>1
    <3>2. CASE j \in 1..p
      BY <1>1, <1>6, <3>2 DEF ShapesInv, Fitting
    <3> QED
      BY <1>2, <1>6, <3>1, <3>2
  <2>2. Len(statements') <= depth'
    BY <1>1, <1>2, <1>6
  <2> QED
    BY <1>7, <2>1, <2>2 DEF Fitting
<1> QED
  BY <1>8, <1>9 DEF ShapesInv

LEMMA ShapesInvHolds == ShapesSpec => []ShapesInv
<1>1. ShapesInit => ShapesInv
  BY InitShapes
<1>2. ShapesInv /\ [ShapesNext]_shapesVars => ShapesInv'
  <2>1. CASE UNCHANGED shapesVars
    BY <2>1 DEF shapesVars, ShapesInv, ShapesType, Chained, Fitting, LastIteration, mid_strategies
  <2> QED
    BY <2>1, PlanStep, RelateStep, FoldStep DEF ShapesNext
<1> QED
  BY <1>1, <1>2, PTL DEF ShapesSpec

\* The asserts of fold.rs:424 and the indices p + 1 of aggregate_v2.rs cannot
\* fail, for any number of signatures and any depth the search keeps.
THEOREM FoldDefined == ShapesSpec => []FoldIsDefined
<1>1. ASSUME ShapesInv
      PROVE  FoldIsDefined
  <2> SUFFICES ASSUME Planned, statements # << >>
               PROVE  /\ Len(statements) < depth => Foldable(Len(statements))
                      /\ depth > 1 /\ Len(statements) = depth => iterations[depth].stage = "SecLast"
    BY DEF FoldIsDefined
  <2> USE <1>1
  <2>1. Len(iterations) = LastIteration /\ Len(statements) \in Nat /\ Len(statements) > 0
    <3>1. Len(statements) # 0
      BY EmptySeq DEF ShapesInv, ShapesType
    <3> QED
      BY <3>1, Depths
  <2>2. ASSUME Len(statements) < depth
        PROVE  Foldable(Len(statements))
    <3> DEFINE p == Len(statements)
    <3>1. p \in 1..Len(iterations) /\ p + 1 \in 1..Len(iterations) /\ p # LastIteration
      BY <2>1, <2>2, Depths
    <3>2. iterations[p].stage # "SecLast" /\ iterations[p].t = 2 /\ iterations[p] \in Plans
      BY <3>1, Depths DEF ShapesInv, Chained
    <3> QED
      BY <3>1, <3>2, Depths DEF Foldable, Plans
  <2>3. ASSUME depth > 1
        PROVE  iterations[depth].stage = "SecLast"
    BY <2>1, <2>3, Depths DEF ShapesInv, Chained
  <2> QED
    BY <2>2, <2>3
<1> QED
  BY <1>1, ShapesInvHolds, PTL

\* No statement is larger than its iteration was planned for, for any number of
\* signatures, depth, chunk counts, ranks and folding parameters.
THEOREM PlanIsLargeEnough == ShapesSpec => []NeverLargerThanAssumed
<1>1. ASSUME ShapesInv
      PROVE  NeverLargerThanAssumed
  <2> USE <1>1
  <2> SUFFICES ASSUME NEW p \in DOMAIN statements
               PROVE  LET it == iterations[p]  s == statements[p]
                      IN /\ s.n <= it.n /\ s.r <= it.r
                         /\ ELen([n |-> s.n, r |-> s.r, t1 |-> it.t1, t2 |-> it.t2,
                                  kappa |-> it.kappa]) <= m(it)
                         /\ p > 1 => s.r = it.r
    BY DEF NeverLargerThanAssumed
  <2> DEFINE it == iterations[p]
             s  == statements[p]
             e  == [n |-> s.n, r |-> s.r, t1 |-> it.t1, t2 |-> it.t2, kappa |-> it.kappa]
  <2>1. /\ s \in [n : Nat, r : Nat] /\ it \in Plans /\ FitsPlan(s, it)
        /\ p > 1 => s.r = it.r
    <3>1. p \in 1..Len(statements) /\ p \in 1..Len(iterations)
      BY Depths DEF ShapesInv, Fitting
    <3> QED
      BY <3>1, Depths DEF ShapesInv, Fitting
  <2>2. /\ s.n <= it.n /\ s.r <= it.r /\ s.r \in Nat /\ it.r \in Nat
        /\ it.t1 \in Nat /\ it.t2 \in Nat /\ it.kappa \in Nat
    BY <2>1 DEF FitsPlan, Plans
  <2>3. e.r = s.r /\ e.t1 = it.t1 /\ e.t2 = it.t2 /\ e.kappa = it.kappa
    OBVIOUS
  <2> HIDE DEF it, s, e
  <2>4. ELen(e) = Counted(s.r, it.t1, it.t2, it.kappa)
    BY <2>2, <2>3, ELenIs
  <2>5. m(it) = Counted(it.r, it.t1, it.t2, it.kappa)
    BY <2>2, mIs
  <2>6. ELen(e) <= m(it)
    <3>1. Counted(s.r, it.t1, it.t2, it.kappa) <= Counted(it.r, it.t1, it.t2, it.kappa)
      BY ONLY <2>2, CountedGrows
    <3> QED
      BY <2>4, <2>5, <3>1
  <2> QED
    BY <2>1, <2>2, <2>6 DEF it, s, e
<1> QED
  BY <1>1, ShapesInvHolds, PTL

(***************************************************************************)
(* The samplers.                                                           *)
(***************************************************************************)
-----------------------------------------------------------------------------
(* Numbers.                                                                *)

LEMMA Remainder ==
  ASSUME NEW b \in Nat, NEW i \in Nat, NEW u \in 0 .. b - 1
  PROVE  (b * i + u) % b = u /\ b * i + u \in Nat
<1>1. b * i \in Nat
  BY SMT
<1>2. (b * i + u) % b = u
  BY Z3
<1>. QED  BY <1>1, <1>2

-----------------------------------------------------------------------------
(* Sums over finite sets.                                                  *)

\* g gives on each of the sets the sum of f, element by element.
SumsOn(F, f, g) ==
  \A s \in F : g[s] = IF s = {} THEN 0 ELSE f[Pick(s)] + g[s \ {Pick(s)}]

LEMMA SumsUpTo ==
  ASSUME NEW S, IsFiniteSet(S), NEW f \in [S -> Int]
  PROVE  \A n \in Nat : \E g \in [UpTo(S, n) -> Int] : SumsOn(UpTo(S, n), f, g)
<1>. DEFINE Good(n) == \E g \in [UpTo(S, n) -> Int] : SumsOn(UpTo(S, n), f, g)
            T == {n \in Nat : ~Good(n)}
<1>1. SUFFICES ASSUME T # {} PROVE FALSE
  OBVIOUS
<1>2. PICK n \in T : \A l \in T : n <= l
  BY <1>1, Least
<1>3. CASE n = 0
  <2>. DEFINE g == [s \in UpTo(S, 0) |-> 0]
  <2>1. \A s \in UpTo(S, 0) : s = {}
    <3>1. ASSUME NEW s \in SUBSET S, Cardinality(s) <= 0, s # {} PROVE FALSE
      <4>1. Cardinality(s) \in Nat \ {0}
        BY <3>1, PickedOut
      <4>. QED  BY <3>1, <4>1
    <3>. QED  BY <3>1 DEF UpTo
  <2>2. g \in [UpTo(S, 0) -> Int] /\ SumsOn(UpTo(S, 0), f, g)
    BY <2>1 DEF SumsOn
  <2>3. Good(0)
    <3>. HIDE DEF g
    <3>. QED  BY <2>2
  <2>. QED  BY <1>3, <2>3
<1>4. CASE n # 0
  <2>1. n - 1 \in Nat /\ n - 1 \notin T
    BY <1>2, <1>4
  <2>2. PICK g \in [UpTo(S, n - 1) -> Int] : SumsOn(UpTo(S, n - 1), f, g)
    BY <2>1
  <2>. DEFINE h == [s \in UpTo(S, n) |-> IF s = {} THEN 0 ELSE f[Pick(s)] + g[s \ {Pick(s)}]]
  <2>3. \A s \in UpTo(S, n) : s # {} => f[Pick(s)] \in Int /\ s \ {Pick(s)} \in UpTo(S, n - 1)
    BY PickedOut DEF UpTo
  <2>4. h \in [UpTo(S, n) -> Int]
    BY <2>3
  <2>5. UpTo(S, n - 1) \subseteq UpTo(S, n)
    <3>1. \A s \in SUBSET S : Cardinality(s) \in Nat
      BY FS_Subset, FS_CardinalityType
    <3>. QED  BY <3>1 DEF UpTo
  <2>6. \A s \in UpTo(S, n - 1) : h[s] = g[s]
    BY <2>2, <2>5 DEF SumsOn
  <2>7. SumsOn(UpTo(S, n), f, h)
    BY <2>3, <2>6 DEF SumsOn
  <2>8. Good(n)
    <3>. HIDE DEF h
    <3>. QED  BY <2>4, <2>7
  <2>. QED  BY <2>8
<1>. QED  BY <1>3, <1>4

LEMMA SumsExist ==
  ASSUME NEW S, IsFiniteSet(S), NEW f \in [S -> Int]
  PROVE  \E g \in [SUBSET S -> Int] : SumsOn(SUBSET S, f, g)
<1>1. Cardinality(S) \in Nat
  BY FS_CardinalityType
<1>2. UpTo(S, Cardinality(S)) = SUBSET S
  BY FS_Subset DEF UpTo
<1>3. \E g \in [UpTo(S, Cardinality(S)) -> Int] : SumsOn(UpTo(S, Cardinality(S)), f, g)
  BY <1>1, SumsUpTo
<1>. QED  BY <1>2, <1>3

\* A sum of numbers, each at most l on the set A and zero elsewhere.
LEMMA SumIsBounded ==
  ASSUME NEW S, IsFiniteSet(S), NEW f, NEW g, SumsOn(SUBSET S, f, g), NEW l \in Nat, NEW A,
         \A u \in S : f[u] \in 0 .. l /\ (u \notin A => f[u] = 0)
  PROVE  \A s \in SUBSET S : g[s] \in Nat /\ g[s] <= l * Cardinality(s \cap A)
<1>. DEFINE Good(s) == g[s] \in Nat /\ g[s] <= l * Cardinality(s \cap A)
            Bad == {s \in SUBSET S : ~Good(s)}
            T == {Cardinality(s) : s \in Bad}
<1>0. \A s \in SUBSET S : IsFiniteSet(s) /\ Cardinality(s) \in Nat
  BY FS_Subset, FS_CardinalityType
<1>1. SUFFICES ASSUME T # {} PROVE FALSE
  OBVIOUS
<1>2. PICK n \in T : \A u \in T : n <= u
  BY <1>0, <1>1, Least
<1>3. PICK s \in Bad : Cardinality(s) = n
  BY <1>2
<1>4. CASE s = {}
  <2>1. g[s] = 0
    BY <1>4 DEF SumsOn
  <2>2. Cardinality(s \cap A) = 0
    BY <1>4, FS_EmptySet
  <2>3. l * 0 = 0
    OBVIOUS
  <2>. QED  BY <1>3, <2>1, <2>2, <2>3
<1>5. CASE s # {}
  <2>. DEFINE u == Pick(s)
              t == s \ {u}
  <2>1. u \in s /\ t \in SUBSET S /\ Cardinality(t) = Cardinality(s) - 1 /\ Cardinality(s) \in Nat
    BY <1>0, <1>5, PickedOut
  <2>2. g[s] = f[u] + g[t]
    BY <1>5 DEF SumsOn
  <2>. HIDE DEF u
  <2>3. Good(t)
    <3>1. t \notin Bad
      <4>1. SUFFICES ASSUME t \in Bad PROVE FALSE
        OBVIOUS
      <4>2. Cardinality(t) \in T
        BY <4>1
      <4>3. Cardinality(s) <= Cardinality(t)
        BY <1>2, <1>3, <4>2
      <4>. HIDE DEF t
      <4>. QED  BY <2>1, <4>3
    <3>. QED  BY <2>1, <3>1
  <2>4. IsFiniteSet(t \cap A) /\ Cardinality(t \cap A) \in Nat
    BY <1>0, <2>1, FS_Intersection, FS_CardinalityType
  <2>5. CASE u \in A
    <3>1. s \cap A = (t \cap A) \cup {u} /\ u \notin t \cap A
      BY <2>1, <2>5
    <3>2. Cardinality(s \cap A) = Cardinality(t \cap A) + 1
      BY <2>4, <3>1, FS_AddElement
    <3>3. \A a \in Nat : l * (a + 1) = l * a + l /\ l * a \in Nat
      BY SMT
    <3>4. f[u] \in 0 .. l
      BY <2>1
    <3>. DEFINE a == Cardinality(t \cap A)
                G == g[t]
    <3>5. a \in Nat /\ G \in Nat /\ G <= l * a /\ l * (a + 1) = l * a + l /\ l * a \in Nat
      BY <2>3, <2>4, <3>3
    <3>6. g[s] = f[u] + G /\ Cardinality(s \cap A) = a + 1
      BY <2>2, <3>2
    <3>. HIDE DEF a, G
    <3>7. g[s] \in Nat /\ g[s] <= l * Cardinality(s \cap A)
      BY <3>4, <3>5, <3>6
    <3>. QED  BY <1>3, <3>7
  <2>6. CASE u \notin A
    <3>1. s \cap A = t \cap A
      BY <2>1, <2>6
    <3>2. f[u] = 0
      BY <2>1, <2>6
    <3>3. g[s] = g[t]
      BY <2>2, <2>3, <3>2
    <3>. QED  BY <1>3, <2>3, <3>1, <3>3
  <2>. QED  BY <2>5, <2>6
<1>. QED  BY <1>4, <1>5

-----------------------------------------------------------------------------
(* The samplers.                                                           *)

\* Below the last multiple of b every remainder has the same number of words.
LEMMA EqualShares ==
  ASSUME NEW b \in 1 .. Top, NEW u \in 0 .. b - 1
  PROVE  Cardinality({w \in Words : w < Cap(b) /\ w % b = u}) = Top \div b
<1>. DEFINE y == Top \div b
            S == {w \in Words : w < Cap(b) /\ w % b = u}
            f == [i \in 0 .. y - 1 |-> b * i + u]
<1>1. b \in Nat /\ b > 0 /\ Top \in Nat /\ u \in Nat /\ u < b
  BY SamplingAssumption
<1>2. y \in Nat /\ Top = b * y + (Top % b) /\ Top % b \in 0 .. b - 1
  BY <1>1, Division
<1>3. b * y \in Nat
  BY <1>1, <1>2, SMT
<1>. HIDE DEF y
<1>4. Cap(b) = b * y /\ b * y <= Top
  BY <1>1, <1>2, <1>3 DEF Cap
<1>5. ASSUME NEW i \in Nat, i < y
      PROVE  b * i + b <= b * y /\ b * i \in Nat
  BY <1>1, <1>2, <1>5, SMT
<1>6. ASSUME NEW i \in 0 .. y - 1
      PROVE  f[i] \in S /\ f[i] = b * i + u
  <2>1. i \in Nat /\ i < y
    BY <1>2
  <2>2. b * i \in Nat /\ b * i + b <= b * y
    BY <1>5, <2>1
  <2>3. b * i + u \in Words /\ b * i + u < b * y
    BY <1>1, <1>3, <1>4, <2>2 DEF Words
  <2>4. (b * i + u) % b = u
    BY <1>1, <2>1, Remainder
  <2>. QED  BY <1>4, <2>3, <2>4
<1>7. ASSUME NEW w \in S
      PROVE  \E i \in 0 .. y - 1 : f[i] = w
  <2>. DEFINE i == w \div b
  <2>1. w \in Nat /\ w < b * y /\ w % b = u
    BY <1>4 DEF Words
  <2>2. i \in Nat /\ w = b * i + u
    BY <1>1, <2>1, Division
  <2>. HIDE DEF i
  <2>3. i < y
    <3>1. SUFFICES ASSUME y <= i PROVE FALSE
      BY <1>2, <2>2
    <3>2. b * y <= b * i /\ b * i \in Nat
      BY <1>1, <1>2, <2>2, <3>1, SMT
    <3>. QED  BY <1>1, <1>3, <2>1, <2>2, <3>2
  <2>4. i \in 0 .. y - 1
    BY <1>2, <2>2, <2>3
  <2>. QED  BY <1>6, <2>2, <2>4
<1>8. ASSUME NEW i \in 0 .. y - 1, NEW l \in 0 .. y - 1, f[i] = f[l]
      PROVE  i = l
  <2>1. b * i + u = b * l + u /\ i \in Nat /\ l \in Nat
    BY <1>2, <1>8
  <2>2. b * i = b * l
    <3>1. b * i \in Int /\ b * l \in Int
      BY <1>1, <2>1, SMT
    <3>. QED  BY <1>1, <2>1, <3>1
  <2>. QED  BY <1>1, <2>1, <2>2, SMT
<1>9. f \in Bijection(0 .. y - 1, S)
  <2>1. DOMAIN f = 0 .. y - 1 /\ f \in [0 .. y - 1 -> S]
    BY <1>6
  <2>. HIDE DEF f, S
  <2>2. f \in Injection(0 .. y - 1, S)
    BY <1>8, <2>1 DEF Injection, IsInjective
  <2>3. f \in Surjection(0 .. y - 1, S)
    BY <1>7, <2>1 DEF Surjection
  <2>. QED  BY <2>2, <2>3 DEF Bijection
<1>10. IsFiniteSet(0 .. y - 1) /\ Cardinality(0 .. y - 1) = y
  <2>1. 0 \in Int /\ y - 1 \in Int
    BY <1>2
  <2>2. IsFiniteSet(0 .. y - 1) /\ Cardinality(0 .. y - 1) = IF 0 > y - 1 THEN 0 ELSE (y - 1) - 0 + 1
    BY <2>1, FS_Interval
  <2>. QED  BY <1>2, <2>2
<1>11. Cardinality(S) = y
  <2>. HIDE DEF f, S
  <2>. QED  BY <1>9, <1>10, FS_Bijection DEF ExistsBijection
<1>. QED  BY <1>11 DEF y

\* A call in progress or over: what it has found, thrown away and counted.
Calls ==
  [function : {"below", "array"}, bound : 1 .. Top, n : Nat \ {0}, out : Seq(Nat),
   counter : Nat, rejected : Nat, verdict : {"drawing", "done", "panic"}]

DrawOK(d) ==
  /\ d \in Calls
  /\ d.function = "below" => d.n = 1
  /\ d.out \in Seq(0 .. d.bound - 1) /\ Len(d.out) <= d.n
  /\ d.counter <= d.rejected + Len(d.out)
  /\ d.verdict = "drawing" => Len(d.out) < d.n
  /\ d.verdict = "done" => Len(d.out) = d.n
  /\ d.verdict = "panic" =>
       d.rejected > IF d.function = "below" THEN MaxTries ELSE Guard + 3 * d.n

LEMMA CallOK ==
  ASSUME NEW function \in {"below", "array"}, NEW bound \in 1 .. Top, NEW n \in Nat \ {0},
         function = "below" => n = 1
  PROVE  DrawOK(Call(function, bound, n))
<1>1. <<>> \in Seq(Nat) /\ <<>> \in Seq(0 .. bound - 1) /\ Len(<<>>) = 0
  OBVIOUS
<1>2. bound = 1 => <<0>> \in Seq(Nat) /\ <<0>> \in Seq(0 .. bound - 1) /\ Len(<<0>>) = 1
  OBVIOUS
<1>. DEFINE now == function = "below" /\ bound = 1
            found == IF now THEN <<0>> ELSE <<>>
            verdict == IF now THEN "done" ELSE "drawing"
            d == Call(function, bound, n)
<1>3. d = [function |-> function, bound |-> bound, n |-> n, out |-> found,
           counter |-> 0, rejected |-> 0, verdict |-> verdict]
  BY DEF Call
<1>4. /\ found \in Seq(Nat) /\ found \in Seq(0 .. bound - 1) /\ Len(found) = (IF now THEN 1 ELSE 0)
      /\ verdict \in {"drawing", "done"}
  <2>1. CASE now
    <3>1. found = <<0>> /\ verdict = "done" /\ bound = 1
      BY <2>1
    <3>. QED  BY <1>2, <2>1, <3>1
  <2>2. CASE ~now
    <3>1. found = <<>> /\ verdict = "drawing"
      BY <2>2
    <3>. HIDE DEF now, found, verdict
    <3>. QED  BY <1>1, <2>2, <3>1
  <2>. QED  BY <2>1, <2>2
<1>5. /\ verdict = "done" <=> now
      /\ verdict = "drawing" <=> ~now
      /\ verdict # "panic" /\ (now => n = 1)
  OBVIOUS
<1>. HIDE DEF d, found, verdict, now
<1>6. d \in Calls
  BY <1>3, <1>4 DEF Calls
<1>7. /\ d.function = function /\ d.bound = bound /\ d.n = n /\ d.out = found
      /\ d.counter = 0 /\ d.rejected = 0 /\ d.verdict = verdict
  BY <1>3
<1>8. Len(found) <= n /\ Len(found) \in Nat /\ (~now => Len(found) < n) /\ (now => Len(found) = n)
  BY <1>4, <1>5
<1>9. DrawOK(d)
  <2>1. d.counter <= d.rejected + Len(d.out)
    BY <1>7, <1>8
  <2>2. /\ d.verdict = "drawing" => Len(d.out) < d.n
        /\ d.verdict = "done" => Len(d.out) = d.n
        /\ d.verdict # "panic" /\ Len(d.out) <= d.n
    BY <1>5, <1>7, <1>8
  <2>3. d.out \in Seq(0 .. d.bound - 1) /\ (d.function = "below" => d.n = 1)
    BY <1>4, <1>7
  <2>. QED  BY <1>6, <2>1, <2>2, <2>3 DEF DrawOK
<1>. QED  BY <1>9 DEF d

LEMMA CountsBelow ==
  ASSUME NEW g \in Nat, NEW n \in Nat, NEW count \in Nat, NEW rejected \in Nat, NEW found \in Nat,
         found < n, count <= rejected + found, count + 1 > g + 4 * n
  PROVE  rejected + 1 > g + 3 * n
OBVIOUS

LEMMA DrawStep ==
  ASSUME DrawOK(draw), NEW u \in Words, Draw(u)
  PROVE  /\ DrawOK(draw') /\ draw'.function = draw.function
         /\ draw'.bound = draw.bound /\ draw'.n = draw.n
<1>. DEFINE b == draw.bound
            found == draw.out
<1>1. /\ b \in Nat /\ b > 0 /\ draw.n \in Nat /\ draw.counter \in Nat /\ draw.rejected \in Nat
      /\ found \in Seq(0 .. b - 1) /\ found \in Seq(Nat) /\ Len(found) \in Nat /\ Len(found) < draw.n
      /\ draw.counter <= draw.rejected + Len(found)
      /\ draw.function = "below" => draw.n = 1
      /\ MaxTries \in Nat /\ Guard \in Nat
  BY SamplingAssumption DEF DrawOK, Calls, Draw
<1>2. CASE Accept(u)
  <2>1. Number(u) \in 0 .. b - 1 /\ Number(u) \in Nat
    <3>1. u \in Nat
      BY SamplingAssumption DEF Words
    <3>2. u % b \in 0 .. b - 1
      <4>. HIDE DEF b
      <4>. QED  BY <1>1, <3>1, Division
    <3>. QED  BY <1>1, <3>2 DEF Number
  <2>2. /\ Append(found, Number(u)) \in Seq(0 .. b - 1) /\ Append(found, Number(u)) \in Seq(Nat)
        /\ Len(Append(found, Number(u))) = Len(found) + 1
    <3>. HIDE DEF found, b
    <3>. QED  BY <1>1, <2>1
  <2>3. /\ draw'.function = draw.function /\ draw'.bound = b /\ draw'.n = draw.n
        /\ draw'.out = Append(found, Number(u)) /\ draw'.counter = draw.counter + 1
        /\ draw'.rejected = draw.rejected
        /\ draw'.verdict = IF draw.function = "array" /\ draw.counter + 1 > Limit THEN "panic"
                           ELSE IF Len(found) + 1 = draw.n THEN "done" ELSE "drawing"
        /\ draw' \in Calls
    <3>. DEFINE more == Append(found, Number(u))
                v == IF draw.function = "array" /\ draw.counter + 1 > Limit THEN "panic"
                     ELSE IF Len(found) + 1 = draw.n THEN "done" ELSE "drawing"
    <3>1. draw' = [draw EXCEPT !.out = more, !.counter = draw.counter + 1, !.verdict = v]
      BY <1>2 DEF Accept
    <3>2. v \in {"drawing", "done", "panic"} /\ draw \in Calls /\ draw.counter + 1 \in Nat
      BY <1>1 DEF DrawOK
    <3>. HIDE DEF more, v
    <3>3. /\ draw'.function = draw.function /\ draw'.bound = draw.bound /\ draw'.n = draw.n
          /\ draw'.out = more /\ draw'.counter = draw.counter + 1
          /\ draw'.rejected = draw.rejected /\ draw'.verdict = v
      BY <3>1, <3>2 DEF Calls
    <3>4. draw' \in Calls
      BY <2>2, <3>1, <3>2 DEF Calls, more
    <3>. QED  BY <3>3, <3>4 DEF more, v
  <2>4. draw'.verdict = "panic" => draw.rejected > Guard + 3 * draw.n /\ draw.function = "array"
    <3>1. draw'.verdict = "panic" => draw.function = "array" /\ draw.counter + 1 > Limit
      BY <2>3
    <3>2. draw.function = "array" => Limit = Guard + 4 * draw.n
      BY DEF Limit
    <3>. HIDE DEF found, b
    <3>. QED  BY <1>1, <3>1, <3>2
  <2>5. Len(draw'.out) <= draw.n /\ draw'.counter <= draw'.rejected + Len(draw'.out)
    <3>. HIDE DEF found, b
    <3>. QED  BY <1>1, <2>2, <2>3
  <2>. QED  BY <1>1, <2>2, <2>3, <2>4, <2>5 DEF DrawOK
<1>3. CASE Reject(u)
  <2>1. /\ draw'.function = draw.function /\ draw'.bound = b /\ draw'.n = draw.n
        /\ draw'.out = found /\ draw'.counter = draw.counter + 1
        /\ draw'.rejected = draw.rejected + 1
        /\ draw'.verdict = IF draw.counter + 1 > Limit THEN "panic" ELSE "drawing"
        /\ draw' \in Calls
    <3>. DEFINE v == IF draw.counter + 1 > Limit THEN "panic" ELSE "drawing"
    <3>1. draw' = [draw EXCEPT !.counter = draw.counter + 1, !.rejected = draw.rejected + 1, !.verdict = v]
      BY <1>3 DEF Reject
    <3>2. v \in {"drawing", "done", "panic"} /\ draw \in Calls /\ draw.counter + 1 \in Nat
          /\ draw.rejected + 1 \in Nat
      BY <1>1 DEF DrawOK
    <3>. HIDE DEF v
    <3>3. /\ draw'.function = draw.function /\ draw'.bound = draw.bound /\ draw'.n = draw.n
          /\ draw'.out = draw.out /\ draw'.counter = draw.counter + 1
          /\ draw'.rejected = draw.rejected + 1 /\ draw'.verdict = v
      BY <3>1, <3>2 DEF Calls
    <3>4. draw' \in Calls
      BY <3>1, <3>2 DEF Calls
    <3>. QED  BY <3>3, <3>4 DEF v
  <2>2. draw'.verdict = "panic" =>
          draw'.rejected > IF draw.function = "below" THEN MaxTries ELSE Guard + 3 * draw.n
    <3>1. draw'.verdict = "panic" => draw.counter + 1 > Limit
      BY <2>1
    <3>2. Limit = IF draw.function = "below" THEN MaxTries ELSE Guard + 4 * draw.n
      BY DEF Limit
    <3>3. draw.function = "below" => Len(found) = 0
      <4>. HIDE DEF found, b
      <4>. QED  BY <1>1
    <3>4. draw'.rejected = draw.rejected + 1
      BY <2>1
    <3>5. draw.function \in {"below", "array"}
      BY DEF DrawOK, Calls
    <3>. HIDE DEF found, b
    <3>6. CASE draw.function = "below"
      BY <1>1, <3>1, <3>2, <3>3, <3>4, <3>6
    <3>7. CASE draw.function = "array"
      <4>1. Limit = Guard + 4 * draw.n /\ Guard + 3 * draw.n \in Nat
        BY <1>1, <3>2, <3>7
      <4>2. draw'.verdict = "panic" => draw.counter + 1 > Guard + 4 * draw.n
        BY <3>1, <4>1
      <4>3. draw.counter + 1 > Guard + 4 * draw.n => draw.rejected + 1 > Guard + 3 * draw.n
        BY <1>1, CountsBelow
      <4>. QED  BY <3>4, <3>7, <4>2, <4>3
    <3>. QED  BY <3>5, <3>6, <3>7
  <2>. QED  BY <1>1, <2>1, <2>2 DEF DrawOK
<1>. QED  BY <1>2, <1>3 DEF Draw, Accept, Reject, DrawOK

LEMMA DrawOKSays ==
  ASSUME DrawOK(draw)
  PROVE  Unbiased /\ PanicsLate
<1>1. InRange /\ PanicsLate
  BY DEF DrawOK, InRange, PanicsLate
<1>. DEFINE b == draw.bound
            y == Top \div b
            from(u) == {w \in Words : w < Cap(b) /\ Number(w) = u}
<1>2. b \in 1 .. Top /\ Top \in Nat /\ b \in Nat /\ b > 0 /\ 0 \in 0 .. b - 1
  BY SamplingAssumption DEF DrawOK, Calls
<1>3. \A u \in 0 .. b - 1 : Cardinality(from(u)) = y
  <2>1. \A u : from(u) = {w \in Words : w < Cap(b) /\ w % b = u}
    BY DEF Number
  <2>. HIDE DEF b, from
  <2>. QED  BY <1>2, <2>1, EqualShares DEF b
<1>4. 2 * y * b >= Top
  <2>1. y \in Nat /\ Top = b * y + (Top % b) /\ Top % b \in 0 .. b - 1
    <3>. HIDE DEF b
    <3>. QED  BY <1>2, Division
  <2>. HIDE DEF b, y
  <2>2. y >= 1
    <3>1. SUFFICES ASSUME y = 0 PROVE FALSE
      BY <2>1
    <3>2. b * 0 = 0
      BY <1>2
    <3>. QED  BY <1>2, <2>1, <3>1, <3>2
  <2>3. b * y >= b /\ b * y \in Nat /\ 2 * y * b = 2 * (b * y)
    BY <1>2, <2>1, <2>2, SMT
  <2>. QED  BY <1>2, <2>1, <2>3
<1>5. ASSUME NEW s, s = Cardinality(from(0))
      PROVE  (\A u \in 0 .. b - 1 : Cardinality(from(u)) = s) /\ 2 * s * b >= Top
  <2>. HIDE DEF from, b, y
  <2>. QED  BY <1>2, <1>3, <1>4, <1>5
<1>6. LET fr(u) == {w \in Words : w < Cap(draw.bound) /\ Number(w) = u}
          share == Cardinality(fr(0))
      IN  /\ \A u \in 0 .. draw.bound - 1 : Cardinality(fr(u)) = share
          /\ 2 * share * draw.bound >= Top
  BY <1>5
<1>. QED  BY <1>1, <1>6 DEF Unbiased

-----------------------------------------------------------------------------
(* A challenge being built.                                                *)

Values == {Q - 2, Q - 1, 1, 2}
Open == IF step = "value" THEN {chosen} ELSE {}

\* The coefficients set are those of the places taken, less the one whose
\* value is still to be drawn, and the call made is the one that is due.
SampleOK ==
  /\ step \in {"position", "value", "judge", "accepted", "elsewhere"}
  /\ chosen \in Coordinates
  /\ c \in [Coordinates -> Values \cup {0}]
  /\ \A j \in Coordinates : c[j] # 0 <=> j \in taken \ Open
  /\ taken \in SUBSET Coordinates /\ Open \subseteq taken
  /\ Cardinality(taken) = k + Cardinality(Open)
  /\ k \in 0 .. W
  /\ step = "position" =>
       k < W /\ draw.function = "below" /\ draw.bound = D - k /\ draw.n = 1
  /\ step = "value" => k < W /\ draw.function = "below" /\ draw.bound = 4 /\ draw.n = 1
  /\ step \in {"judge", "accepted"} => k = W
  /\ counter = IF step = "accepted" THEN 1 ELSE 0

ChallengeInv == DrawOK(draw) /\ SampleOK

LEMMA Sizes ==
  /\ D \in Nat /\ D >= 1 /\ W \in Nat /\ W >= 1 /\ W <= D /\ Top \in Nat /\ D <= Top /\ 4 <= Top
  /\ Q \in Nat /\ Q >= 5 /\ Q % 2 = 1
  /\ IsFiniteSet(Coordinates) /\ Cardinality(Coordinates) = D /\ 0 \in Coordinates
  /\ Cardinality({}) = 0 /\ IsFiniteSet({})
<1>1. /\ D \in Nat /\ D >= 1 /\ W \in Nat /\ W >= 1 /\ W <= D /\ Top \in Nat /\ D <= Top /\ 4 <= Top
      /\ Q \in Nat /\ Q >= 5 /\ Q % 2 = 1
  BY SamplingAssumption, ChallengeAssumption DEF IsModulus
<1>2. IsFiniteSet(Coordinates) /\ Cardinality(Coordinates) = D /\ 0 \in Coordinates
  <2>1. 0 \in Int /\ D - 1 \in Int
    BY <1>1
  <2>2. IsFiniteSet(0 .. D - 1) /\ Cardinality(0 .. D - 1) = IF 0 > D - 1 THEN 0 ELSE (D - 1) - 0 + 1
    BY <2>1, FS_Interval
  <2>. QED  BY <1>1, <2>2 DEF Coordinates
<1>. QED  BY <1>1, <1>2, FS_EmptySet

\* The residues of the four values, and what they stand for.
LEMMA ValuesAre ==
  /\ \A u \in 0 .. 3 : from_i64(Q, Signed(u)) \in Values
  /\ 0 \notin Values
  /\ \A a \in Values \cup {0} : /\ centered(Q, a) \in {-2, -1, 0, 1, 2}
                                /\ centered(Q, a) = 0 <=> a = 0
<1>1. Q \in Nat /\ Q >= 5 /\ Q % 2 = 1
  BY Sizes
<1>2. ASSUME NEW u \in 0 .. 3
      PROVE  from_i64(Q, Signed(u)) \in Values
  <2>1. Signed(u) \in {-2, -1, 1, 2}
    BY DEF Signed
  <2>2. (-2) % Q = Q - 2 /\ (-1) % Q = Q - 1
    <3>1. \A z \in 0 .. Q - 1 : (z - Q) % Q = z
      BY <1>1, Z3
    <3>2. (Q - 2) - Q = -2 /\ (Q - 1) - Q = -1 /\ Q - 2 \in 0 .. Q - 1 /\ Q - 1 \in 0 .. Q - 1
      BY <1>1
    <3>3. ((Q - 2) - Q) % Q = Q - 2 /\ ((Q - 1) - Q) % Q = Q - 1
      BY <3>1, <3>2
    <3>. QED  BY <3>2, <3>3
  <2>3. 1 % Q = 1 /\ 2 % Q = 2
    BY <1>1
  <2>. QED  BY <2>1, <2>2, <2>3 DEF from_i64, Values
<1>3. 0 \notin Values
  BY <1>1 DEF Values
<1>4. Q \div 2 \in Nat /\ 2 <= Q \div 2 /\ Q \div 2 < Q - 2
  BY <1>1
<1>5. ASSUME NEW a \in Values \cup {0}
      PROVE  /\ centered(Q, a) \in {-2, -1, 0, 1, 2}
             /\ centered(Q, a) = 0 <=> a = 0
  BY <1>1, <1>4 DEF centered, Values
<1>. QED  BY <1>2, <1>3, <1>5

\* There is always a free place with a given number of free ones before it.
LEMMA FreePlace ==
  ASSUME NEW F \in SUBSET Coordinates, NEW pick \in Nat, pick < Cardinality(F)
  PROVE  \E j \in F : Cardinality({i \in F : i < j}) = pick
<1>. DEFINE Before(l) == {i \in F : i < l}
            T == {l \in 0 .. D : Cardinality(Before(l)) > pick}
<1>0. D \in Nat /\ IsFiniteSet(F) /\ \A i \in F : i \in Nat /\ i < D
  <2>1. IsFiniteSet(F) /\ D \in Nat
    BY Sizes, FS_Subset
  <2>2. \A i \in Coordinates : i \in Nat /\ i < D
    BY Sizes DEF Coordinates
  <2>. QED  BY <2>1, <2>2
<1>1. \A l : Before(l) \in SUBSET F /\ IsFiniteSet(Before(l)) /\ Cardinality(Before(l)) \in Nat
  <2>1. \A l : Before(l) \in SUBSET F
    OBVIOUS
  <2>. HIDE DEF Before
  <2>. QED  BY <1>0, <2>1, FS_Subset, FS_CardinalityType
<1>2. D \in T /\ T \in SUBSET Nat
  <2>1. Before(D) = F
    BY <1>0
  <2>. QED  BY <1>0, <2>1
<1>3. PICK l \in T : \A u \in T : l <= u
  BY <1>2, Least
<1>4. l # 0
  <2>1. Before(0) = {}
    <3>1. \A i \in F : ~(i < 0)
      BY <1>0
    <3>. QED  BY <3>1
  <2>2. Cardinality(Before(0)) = 0
    BY <2>1, FS_EmptySet
  <2>. QED  BY <1>3, <2>2
<1>5. l \in Nat /\ l - 1 \in 0 .. D /\ l - 1 \notin T /\ l - 1 \in Nat
  BY <1>0, <1>3, <1>4
<1>6. Before(l) \subseteq Before(l - 1) \cup {l - 1}
  <2>1. \A i \in F : i < l => i < l - 1 \/ i = l - 1
    BY <1>0, <1>5
  <2>. QED  BY <2>1
<1>7. l - 1 \in F
  <2>1. SUFFICES ASSUME l - 1 \notin F PROVE FALSE
    OBVIOUS
  <2>2. Before(l) = Before(l - 1)
    <3>1. \A i \in F : i < l <=> i < l - 1
      BY <1>0, <1>5, <2>1
    <3>. QED  BY <3>1
  <2>. QED  BY <1>3, <1>5, <2>2
<1>8. Before(l) = Before(l - 1) \cup {l - 1} /\ l - 1 \notin Before(l - 1)
  <2>1. \A i \in F : i < l - 1 => i < l
    BY <1>0, <1>5
  <2>2. l - 1 < l /\ ~(l - 1 < l - 1)
    BY <1>5
  <2>. QED  BY <1>6, <1>7, <2>1, <2>2
<1>. HIDE DEF Before
<1>9. Cardinality(Before(l)) = Cardinality(Before(l - 1)) + 1
  BY <1>1, <1>8, FS_AddElement
<1>10. Cardinality(Before(l)) > pick /\ ~(Cardinality(Before(l - 1)) > pick)
  BY <1>3, <1>5
<1>11. Cardinality(Before(l - 1)) = pick
  BY <1>1, <1>9, <1>10
<1>. QED  BY <1>7, <1>11 DEF Before

LEMMA Placed ==
  ASSUME taken \in SUBSET Coordinates, NEW pick \in 0 .. (D - Cardinality(taken)) - 1,
         Cardinality(taken) \in Nat
  PROVE  Place(pick) \in Coordinates \ taken
<1>. DEFINE F == Coordinates \ taken
<1>1. Cardinality(F) = D - Cardinality(taken)
  <2>1. Coordinates \cap taken = taken
    OBVIOUS
  <2>. QED  BY <2>1, Sizes, FS_Difference
<1>2. pick \in Nat /\ pick < Cardinality(F)
  BY <1>1, Sizes
<1>3. \E j \in F : Cardinality({i \in F : i < j}) = pick
  BY <1>2, FreePlace
<1>. QED  BY <1>3 DEF Place

-----------------------------------------------------------------------------
(* The norm of a finished attempt.                                         *)

LEMMA SupportIs ==
  ASSUME SampleOK
  PROVE  Support = taken \ Open /\ Cardinality(Open) = IF step = "value" THEN 1 ELSE 0
<1>1. \A j \in Coordinates : centered(Q, c[j]) # 0 <=> j \in taken \ Open
  BY ValuesAre DEF SampleOK
<1>2. Support = taken \ Open
  BY <1>1 DEF Support, SampleOK
<1>3. Cardinality(Open) = IF step = "value" THEN 1 ELSE 0
  BY FS_Singleton, FS_EmptySet DEF Open
<1>. QED  BY <1>2, <1>3

Square(j) == centered(Q, c[j]) * centered(Q, c[j])
IsL2(g) ==
  g = [s \in SUBSET Coordinates |-> IF s = {} THEN 0 ELSE Square(Pick(s)) + g[s \ {Pick(s)}]]

\* The fold is the value, at the set of all places, of a function that sums.
LEMMA L2Is == L2Sq = (CHOOSE g : IsL2(g))[Coordinates]
BY DEF L2Sq, MapThenSumSet, MapThenFoldSet, IsL2, Pick, Square

LEMMA L2Bounded ==
  ASSUME SampleOK
  PROVE  L2Sq <= 4 * Cardinality(Support)
<1>. DEFINE f == [j \in Coordinates |-> Square(j)]
            l2 == CHOOSE g : IsL2(g)
<1>1. \A j \in Coordinates : Square(j) \in 0 .. 4 /\ (j \notin Support => Square(j) = 0)
  <2>1. ASSUME NEW j \in Coordinates
        PROVE  Square(j) \in 0 .. 4 /\ (j \notin Support => Square(j) = 0)
    <3>. DEFINE u == centered(Q, c[j])
    <3>1. u \in {-2, -1, 0, 1, 2}
      BY ValuesAre DEF SampleOK
    <3>2. j \notin Support => u = 0
      BY DEF Support
    <3>3. Square(j) = u * u
      BY DEF Square
    <3>. HIDE DEF u
    <3>. QED  BY <3>1, <3>2, <3>3
  <2>. QED  BY <2>1
<1>2. IsFiniteSet(Coordinates) /\ f \in [Coordinates -> Int]
  BY <1>1, Sizes
<1>3. \A s \in SUBSET Coordinates : s # {} => f[Pick(s)] = Square(Pick(s))
  BY DEF Pick
<1>4. \E g : IsL2(g)
  <2>1. PICK g \in [SUBSET Coordinates -> Int] : SumsOn(SUBSET Coordinates, f, g)
    <3>. HIDE DEF f
    <3>. QED  BY <1>2, SumsExist
  <2>. HIDE DEF f
  <2>2. IsL2(g)
    BY <1>3, <2>1 DEF SumsOn, IsL2
  <2>. QED  BY <2>2
<1>5. IsL2(l2)
  BY <1>4
<1>. HIDE DEF l2
<1>6. SumsOn(SUBSET Coordinates, f, l2)
  <2>. HIDE DEF f
  <2>. QED  BY <1>3, <1>5 DEF SumsOn, IsL2
<1>7. \A u \in Coordinates : f[u] \in 0 .. 4 /\ (u \notin Support => f[u] = 0)
  BY <1>1
<1>8. l2[Coordinates] <= 4 * Cardinality(Coordinates \cap Support)
  <2>. HIDE DEF f
  <2>. QED  BY <1>2, <1>6, <1>7, SumIsBounded
<1>9. Coordinates \cap Support = Support
  BY DEF Support
<1>. QED  BY <1>8, <1>9, L2Is DEF l2

\* An attempt that has placed its W coefficients meets every check.
LEMMA NormsHold ==
  ASSUME SampleOK, step = "judge"
  PROVE  check_norms
<1>1. Open = {} /\ Support = taken /\ Cardinality(taken) = W
  <2>1. Open = {} /\ Cardinality(Open) = 0 /\ Support = taken \ Open
    BY SupportIs DEF Open
  <2>2. k = W /\ Cardinality(taken) = k + Cardinality(Open) /\ W \in Nat
    BY Sizes DEF SampleOK
  <2>. QED  BY <2>1, <2>2
<1>2. \A j \in Coordinates : Abs(centered(Q, c[j])) <= 2
  <2>1. \A j \in Coordinates : centered(Q, c[j]) \in {-2, -1, 0, 1, 2}
    BY ValuesAre DEF SampleOK
  <2>. QED  BY <2>1 DEF Abs
<1>3. L2Sq <= WorstCaseL2Sq
  BY <1>1, L2Bounded DEF WorstCaseL2Sq
<1>. QED  BY <1>1, <1>2, <1>3 DEF check_norms

-----------------------------------------------------------------------------
(* The invariant.                                                          *)

LEMMA ChallengeInit ==
  ASSUME SamplingInit
  PROVE  ChallengeInv
<1>1. DrawOK(draw) /\ (step = "position" => draw = Call("below", D, 1))
  <2>1. CASE step = "position" /\ draw = Call("below", D, 1)
    BY <2>1, CallOK, Sizes
  <2>2. CASE \E b \in 1 .. Top : step = "elsewhere" /\ draw = Call("below", b, 1)
    BY <2>2, CallOK
  <2>3. CASE \E b \in 2 .. Top, n \in Lengths : step = "elsewhere" /\ draw = Call("array", b, n)
    <3>1. PICK b \in 2 .. Top, n \in Lengths : step = "elsewhere" /\ draw = Call("array", b, n)
      BY <2>3
    <3>2. b \in 1 .. Top /\ n \in Nat \ {0}
      BY ChallengeAssumption, Sizes
    <3>. QED  BY <3>1, <3>2, CallOK
  <2>. QED  BY <2>1, <2>2, <2>3 DEF SamplingInit
<1>2. step \in {"position", "elsewhere"} /\ c = Blank /\ taken = {} /\ k = 0 /\ chosen = 0 /\ counter = 0
  BY DEF SamplingInit
<1>3. Open = {} /\ Cardinality(Open) = 0
  BY <1>2, FS_EmptySet DEF Open
<1>4. c \in [Coordinates -> Values \cup {0}] /\ \A j \in Coordinates : c[j] = 0
  BY <1>2 DEF Blank
<1>5. step = "position" => draw.function = "below" /\ draw.bound = D - k /\ draw.n = 1
  BY <1>1, <1>2, Sizes DEF Call
<1>6. SampleOK
  BY <1>2, <1>3, <1>4, <1>5, Sizes DEF SampleOK
<1>. QED  BY <1>1, <1>6 DEF ChallengeInv

\* The number a call below a bound has returned.
LEMMA ResultIs ==
  ASSUME DrawOK(draw), Drawn, draw.n = 1
  PROVE  Result \in 0 .. draw.bound - 1
<1>1. draw.out \in Seq(0 .. draw.bound - 1) /\ Len(draw.out) = 1
  BY DEF DrawOK, Drawn
<1>2. ASSUME NEW S, NEW s \in Seq(S), Len(s) = 1
      PROVE  s[1] \in S
  BY <1>2
<1>3. draw.out[1] \in 0 .. draw.bound - 1
  BY <1>1, <1>2
<1>. QED  BY <1>3 DEF Result

LEMMA PositionStep ==
  ASSUME ChallengeInv, PickPosition
  PROVE  ChallengeInv'
<1>1. /\ step = "position" /\ step' = "value" /\ draw' = Call("below", 4, 1)
      /\ chosen' = Place(Result) /\ taken' = taken \cup {chosen'}
      /\ c' = c /\ k' = k /\ counter' = counter
  BY DEF PickPosition
<1>2. Open = {} /\ Open' = {chosen'} /\ Cardinality(Open) = 0
  BY <1>1, FS_EmptySet DEF Open
<1>3. k \in Nat /\ k < W /\ Cardinality(taken) = k /\ taken \in SUBSET Coordinates
  BY <1>1, <1>2, Sizes DEF ChallengeInv, SampleOK
<1>4. Result \in 0 .. (D - k) - 1
  BY <1>1, ResultIs DEF ChallengeInv, SampleOK, PickPosition
<1>5. chosen' \in Coordinates \ taken
  BY <1>1, <1>3, <1>4, Placed
<1>6. IsFiniteSet(taken)
  BY <1>3, Sizes, FS_Subset
<1>7. Cardinality(taken') = k + 1 /\ Cardinality(Open') = 1
  BY <1>1, <1>2, <1>3, <1>5, <1>6, FS_AddElement, FS_Singleton
<1>8. DrawOK(draw') /\ draw'.function = "below" /\ draw'.bound = 4 /\ draw'.n = 1
  <2>1. 4 \in 1 .. Top
    BY Sizes
  <2>. QED  BY <1>1, <2>1, CallOK DEF Call
<1>9. \A j \in Coordinates : c'[j] # 0 <=> j \in taken' \ Open'
  BY <1>1, <1>2, <1>5 DEF ChallengeInv, SampleOK
<1>10. SampleOK'
  BY <1>1, <1>2, <1>3, <1>5, <1>7, <1>8, <1>9 DEF ChallengeInv, SampleOK
<1>. QED  BY <1>8, <1>10 DEF ChallengeInv

LEMMA ValueStep ==
  ASSUME ChallengeInv, PickValue
  PROVE  ChallengeInv'
<1>. DEFINE u == from_i64(Q, Signed(Result))
<1>1. /\ step = "value" /\ c' = [c EXCEPT ![chosen] = u] /\ k' = k + 1
      /\ taken' = taken /\ chosen' = chosen /\ counter' = counter
      /\ IF k' = W THEN step' = "judge" /\ draw' = draw
                   ELSE step' = "position" /\ draw' = Call("below", D - k', 1)
  BY DEF PickValue, Store
<1>2. Open = {chosen} /\ Open' = {} /\ Cardinality(Open) = 1 /\ Cardinality(Open') = 0
  BY <1>1, FS_EmptySet, FS_Singleton DEF Open
<1>3. /\ k \in Nat /\ k < W /\ Cardinality(taken) = k + 1 /\ taken \in SUBSET Coordinates
      /\ chosen \in taken /\ chosen \in Coordinates /\ counter = 0
      /\ c \in [Coordinates -> Values \cup {0}]
      /\ \A j \in Coordinates : c[j] # 0 <=> j \in taken \ {chosen}
  BY <1>1, <1>2, Sizes DEF ChallengeInv, SampleOK
<1>4. u \in Values /\ u # 0
  <2>1. Result \in 0 .. 4 - 1
    BY <1>1, ResultIs DEF ChallengeInv, SampleOK, PickValue
  <2>2. Result \in 0 .. 3
    BY <2>1
  <2>. QED  BY <2>2, ValuesAre
<1>. HIDE DEF u
<1>5. /\ c' \in [Coordinates -> Values \cup {0}]
      /\ \A j \in Coordinates : c'[j] # 0 <=> j \in taken' \ Open'
  BY <1>1, <1>2, <1>3, <1>4
<1>6. k' \in 0 .. W
  BY <1>1, <1>3, Sizes
<1>7. CASE k' = W
  <2>1. step' = "judge" /\ draw' = draw
    BY <1>1, <1>7
  <2>2. SampleOK'
    BY <1>1, <1>2, <1>3, <1>5, <1>6, <1>7, <2>1 DEF SampleOK
  <2>. QED  BY <2>1, <2>2 DEF ChallengeInv
<1>8. CASE k' # W
  <2>1. step' = "position" /\ draw' = Call("below", D - k', 1)
    BY <1>1, <1>8
  <2>2. D - k' \in 1 .. Top /\ k' < W
    <3>1. ASSUME NEW l \in 0 .. W, l # W
          PROVE  D - l \in 1 .. Top /\ l < W
      BY <3>1, Sizes
    <3>. QED  BY <1>6, <1>8, <3>1
  <2>3. DrawOK(draw') /\ draw'.function = "below" /\ draw'.bound = D - k' /\ draw'.n = 1
    BY <2>1, <2>2, CallOK DEF Call
  <2>4. SampleOK'
    BY <1>1, <1>2, <1>3, <1>5, <1>6, <2>1, <2>2, <2>3 DEF SampleOK
  <2>. QED  BY <2>3, <2>4 DEF ChallengeInv
<1>. QED  BY <1>7, <1>8

LEMMA JudgeStep ==
  ASSUME ChallengeInv, Judge
  PROVE  ChallengeInv'
<1>1. check_norms
  BY NormsHold DEF ChallengeInv, Judge
<1>2. /\ step = "judge" /\ step' = "accepted" /\ counter' = counter + 1 /\ chosen' = chosen
      /\ c' = c /\ taken' = taken /\ k' = k /\ draw' = draw
  BY <1>1 DEF Judge, element
<1>3. Open = {} /\ Open' = {} /\ counter = 0
  BY <1>2 DEF Open, ChallengeInv, SampleOK
<1>4. SampleOK'
  BY <1>2, <1>3 DEF ChallengeInv, SampleOK
<1>. QED  BY <1>2, <1>4 DEF ChallengeInv

LEMMA ChallengeStep ==
  ASSUME ChallengeInv, [SamplingNext]_samplingVars
  PROVE  ChallengeInv'
<1>1. CASE \E u \in Words : Draw(u) /\ UNCHANGED <<step, element, chosen, counter>>
  <2>1. /\ DrawOK(draw') /\ draw'.function = draw.function /\ draw'.bound = draw.bound /\ draw'.n = draw.n
        /\ step' = step /\ c' = c /\ taken' = taken /\ k' = k /\ chosen' = chosen /\ counter' = counter
    BY <1>1, DrawStep DEF ChallengeInv, element
  <2>2. Open' = Open
    BY <2>1 DEF Open
  <2>3. SampleOK'
    BY <2>1, <2>2 DEF ChallengeInv, SampleOK
  <2>. QED  BY <2>1, <2>3 DEF ChallengeInv
<1>2. CASE UNCHANGED samplingVars
  <2>1. /\ draw' = draw /\ step' = step /\ c' = c /\ taken' = taken /\ k' = k /\ chosen' = chosen
        /\ counter' = counter
    BY <1>2 DEF samplingVars, element
  <2>2. Open' = Open
    BY <2>1 DEF Open
  <2>. QED  BY <2>1, <2>2 DEF ChallengeInv, SampleOK
<1>. QED  BY <1>1, <1>2, PositionStep, ValueStep, JudgeStep DEF SamplingNext

LEMMA ChallengeInvariant == SamplingSpec => []ChallengeInv
<1>1. SamplingInit => ChallengeInv
  BY ChallengeInit
<1>2. ChallengeInv /\ [SamplingNext]_samplingVars => ChallengeInv'
  BY ChallengeStep
<1>. QED  BY <1>1, <1>2, PTL DEF SamplingSpec

-----------------------------------------------------------------------------
\* For every word size and bound, derive_below and derive_field_array return
\* numbers below the bound, as many as were asked for, and favour none: each
\* comes from equally many words, and half of all words or more are accepted.
THEOREM SamplersAreFair == SamplingSpec => []Unbiased
<1>1. ChallengeInv => Unbiased
  BY DrawOKSays DEF ChallengeInv
<1>. QED  BY <1>1, ChallengeInvariant, PTL

\* For every degree and weight, a place taken by sample_challenge is a new one
\* and gets a value that is not zero: the weight is the number of places.
THEOREM WeightIsExact == SamplingSpec => []WeightIsPlaces
<1>1. ChallengeInv => WeightIsPlaces
  <2>1. SUFFICES ASSUME SampleOK
                 PROVE  /\ Support = taken \ Open
                        /\ Open \subseteq taken
                        /\ Cardinality(taken) = k + Cardinality(Open)
    BY DEF ChallengeInv, WeightIsPlaces, Open
  <2>. QED  BY <2>1, SupportIs DEF SampleOK
<1>. QED  BY <1>1, ChallengeInvariant, PTL

\* For all limits, a sampler gives up only beyond its limit, and
\* sample_challenge accepts its first attempt: W coefficients of size at most 2
\* meet the three norm checks, whatever was drawn.
THEOREM FirstAttemptAccepted == SamplingSpec => []GivesUpLate
<1>1. ChallengeInv => GivesUpLate
  <2>1. ASSUME SampleOK
        PROVE  step # "panic" /\ (counter > 0 => step = "accepted" /\ counter = 1)
    BY <2>1 DEF SampleOK
  <2>. QED  BY <2>1, DrawOKSays DEF ChallengeInv, GivesUpLate
<1>. QED  BY <1>1, ChallengeInvariant, PTL

(***************************************************************************)
(* Decomposition.                                                          *)
(***************************************************************************)
-----------------------------------------------------------------------------
(* Arithmetic.                                                             *)

LEMMA CenteredRange ==
  ASSUME NEW n, IsModulus(n), NEW a \in Residues(n)
  PROVE  /\ centered(n, a) \in Int /\ 2 * Abs(centered(n, a)) < n
         /\ from_i64(n, centered(n, a)) = a
<1>1. n \in Nat /\ n >= 3 /\ n % 2 = 1 /\ a \in Nat /\ a < n
  BY DEF IsModulus, Residues
<1>2. PICK h \in Nat : n \div 2 = h /\ n = 2 * h + 1
  BY <1>1, Division
<1>3. CASE a > h
  <2>1. centered(n, a) = a - n /\ a - n \in Int /\ 2 * Abs(a - n) < n
    BY <1>1, <1>2, <1>3 DEF centered, Abs
  <2>2. (a - n) % n = a
    BY <1>1, DivisionIs, a - n = n * (-1) + a
  <2> QED
    BY <2>1, <2>2 DEF from_i64
<1>4. CASE ~(a > h)
  <2>1. centered(n, a) = a /\ 2 * Abs(a) < n
    BY <1>1, <1>2, <1>4 DEF centered, Abs
  <2>2. a % n = a
    BY <1>1, DivisionIs, a = n * 0 + a
  <2> QED
    BY <1>1, <2>1, <2>2 DEF from_i64
<1> QED
  BY <1>3, <1>4

\* from_i64 keeps every value that centered can return.
LEMMA Representable ==
  ASSUME NEW n, IsModulus(n), NEW v \in Int, 2 * Abs(v) < n
  PROVE  from_i64(n, v) \in Residues(n) /\ centered(n, from_i64(n, v)) = v
<1>1. n \in Nat /\ n >= 3 /\ n % 2 = 1
  BY DEF IsModulus
<1>2. PICK h \in Nat : n \div 2 = h /\ n = 2 * h + 1
  BY <1>1, Division
<1>3. CASE v >= 0
  <2>1. v \in 0..(n - 1) /\ ~(v > h)
    BY <1>1, <1>2, <1>3 DEF Abs
  <2>2. v % n = v
    BY <1>1, <2>1, DivisionIs, v = n * 0 + v
  <2> QED
    BY <1>2, <2>1, <2>2 DEF from_i64, centered, Residues
<1>4. CASE v < 0
  <2>1. v + n \in 0..(n - 1) /\ v + n > h
    BY <1>1, <1>2, <1>4 DEF Abs
  <2>2. v % n = v + n
    BY <1>1, <2>1, DivisionIs, v = n * (-1) + (v + n)
  <2> QED
    BY <1>1, <1>2, <2>1, <2>2 DEF from_i64, centered, Residues
<1> QED
  BY <1>3, <1>4

LEMMA ZeroIsZero ==
  ASSUME NEW n, IsModulus(n)
  PROVE  0 \in Residues(n) /\ centered(n, 0) = 0
BY DEF IsModulus, Residues, centered

\* One pass of the digit loop: the digit is within half the base and the rest
\* exact; neither exceeds v in magnitude.
LEMMA DigitStep ==
  ASSUME NEW b \in Nat, b >= 2, NEW v \in Int
  PROVE  /\ Digit(v, b) \in Int /\ Quotient(v, b) \in Int
         /\ v = Digit(v, b) + b * Quotient(v, b)
         /\ 2 * Abs(Digit(v, b)) <= b /\ Abs(Digit(v, b)) <= Abs(v)
         /\ Abs(Quotient(v, b)) <= Abs(v)
<1> DEFINE r == TruncRem(v, b)
           d == Digit(v, b)
<1>1. PICK h \in Nat : Half(b) = h /\ (b = 2 * h \/ b = 2 * h + 1) /\ h >= 1
  <2>1. b \div 2 \in Nat /\ (b = 2 * (b \div 2) \/ b = 2 * (b \div 2) + 1)
    BY Division
  <2> QED
    BY <2>1 DEF Half
<1> DEFINE i == IF v >= 0 THEN v \div b ELSE -((-v) \div b)
<1>2. /\ i \in Int /\ r \in Int /\ v = b * i + r /\ r < b /\ -b < r
      /\ (v >= 0 => r >= 0 /\ i >= 0) /\ (v <= 0 => r <= 0 /\ i <= 0)
  <2>1. CASE v >= 0
    <3>1. /\ v \div b \in Nat /\ v % b \in 0..(b - 1) /\ v = b * (v \div b) + (v % b)
          /\ r = v % b /\ i = v \div b
      BY <2>1, Division DEF TruncRem
    <3>2. v = 0 => v \div b = 0 /\ v % b = 0
      BY DivisionIs, 0 = b * 0 + 0
    <3> HIDE DEF i, r
    <3> QED
      BY <2>1, <3>1, <3>2
  <2>2. CASE v < 0
    <3> DEFINE w == -v
               n == w \div b
               s == w % b
    <3>1. w \in Nat /\ w > 0 /\ v = -w /\ r = -s /\ i = -n
      BY <2>2 DEF TruncRem
    <3> HIDE DEF w, i, r
    <3>2. n \in Nat /\ s \in 0..(b - 1) /\ w = b * n + s
      BY <3>1, Division
    <3> HIDE DEF n, s
    <3>3. b * i = -(b * n) /\ b * n \in Int
      BY <3>1, <3>2
    <3> QED
      BY <2>2, <3>1, <3>2, <3>3
  <2> QED
    BY <2>1, <2>2
<1>3. d = IF r > h THEN r - b ELSE IF r < -h THEN r + b ELSE r
  BY <1>1 DEF Digit
<1> HIDE DEF r, d, i
<1>4. d \in Int /\ 2 * Abs(d) <= b
  BY <1>1, <1>2, <1>3 DEF Abs
<1> DEFINE e == IF r > h THEN i + 1 ELSE IF r < -h THEN i - 1 ELSE i
<1>5. e \in Int /\ v = b * e + d
  <2>1. /\ b * (i + 1) = b * i + b /\ b * (i - 1) = b * i - b
        /\ b * i \in Int /\ i + 1 \in Int /\ i - 1 \in Int
    BY <1>2
  <2> QED
    BY <1>2, <1>3, <2>1
<1> HIDE DEF e
<1>6. Quotient(v, b) = e
  <2>1. v - d = b * e + 0 /\ v - d \in Int /\ b * e \in Int
    BY <1>4, <1>5
  <2>2. 0 \in 0..(b - 1)
    OBVIOUS
  <2>3. (v - d) \div b = e
    BY <1>5, <2>1, <2>2, DivisionIs
  <2> QED
    BY <2>3 DEF Quotient, d
<1>7. Abs(d) <= Abs(v)
  <2>1. i # 0 => Abs(b * i) >= b /\ b * i \in Int
    BY <1>2 DEF Abs
  <2>2. i = 0 => b * i = 0
    OBVIOUS
  <2> QED
    BY <1>1, <1>2, <1>3, <1>4, <2>1, <2>2 DEF Abs
<1>8. Abs(e) <= Abs(v)
  <2>1. Abs(b * e) <= 2 * Abs(v) /\ b * e \in Int
    BY <1>4, <1>5, <1>7 DEF Abs
  <2>2. Abs(b * e) >= 2 * Abs(e)
    BY <1>5 DEF Abs
  <2> QED
    BY <1>5, <2>1, <2>2 DEF Abs
<1> QED
  BY <1>4, <1>5, <1>6, <1>7, <1>8 DEF d

-----------------------------------------------------------------------------
(* The inductive invariant.                                                *)

\* Pass j of the digit loop is over.
Passed(j) == j < Last /\ (pc # "split" \/ j < part)

Value(j) == centered(q, chunks[j])

IInv ==
  /\ TypeOK
  /\ rest[0] = centered(q, x)
  /\ base = 1 => pc # "split" /\ chunks[0] = x
                 /\ \A j \in Chunks : j # 0 => rest[j] = 0 /\ chunks[j] = 0
  /\ \A j \in Chunks : Passed(j) => rest[j] = Value(j) + base * rest[j + 1]
  /\ pc = "split" => acc = 0 /\ scale = 1
  /\ pc # "split" => rest[Last] = Value(Last)
  /\ pc = "join" => IF part < parts THEN acc + scale * rest[part] = centered(q, x)
                                 ELSE acc = centered(q, x)
  /\ RoundTrip
  /\ WithinHalfBase

LEMMA Parameters ==
  ASSUME TypeOK
  PROVE  /\ IsModulus(q) /\ q \in Nat /\ base \in Nat /\ base >= 1
         /\ parts \in Nat /\ parts >= 1 /\ Last \in Chunks /\ Last \in Nat /\ 0 \in Chunks
         /\ \A j \in Chunks : j \in Nat /\ j <= Last /\ (j < Last => j + 1 \in Chunks)
         /\ part \in Nat /\ part <= parts /\ (part < parts => part \in Chunks)
BY ModuliAssumption, BasesAssumption, PartCountsAssumption
   DEF TypeOK, IsModulus, Chunks, Last

LEMMA InitInv == DecomposeInit => IInv
<1> SUFFICES ASSUME DecomposeInit PROVE IInv
  OBVIOUS
<1>1. /\ q \in Moduli /\ base \in Bases /\ parts \in PartCounts /\ x \in Residues(q) /\ part = 0
      /\ rest = [j \in Chunks |-> IF j = 0 THEN centered(q, x) ELSE 0]
      /\ chunks = [j \in Chunks |-> IF base = 1 /\ j = 0 THEN x ELSE 0]
      /\ pc = (IF base = 1 THEN "join" ELSE "split")
      /\ acc = 0 /\ scale = 1 /\ out = 0
  BY DEF DecomposeInit
<1>2. /\ IsModulus(q) /\ q \in Nat /\ q >= 3 /\ base \in Nat /\ parts \in Nat /\ parts >= 1
      /\ 0 \in Chunks /\ Last \in Chunks /\ Last \in Nat
      /\ \A j \in Chunks : j \in Nat /\ (j < Last => j + 1 \in Chunks /\ j + 1 # 0)
  BY <1>1, ModuliAssumption, BasesAssumption, PartCountsAssumption
     DEF IsModulus, Chunks, Last
<1>3. /\ centered(q, x) \in Int /\ 2 * Abs(centered(q, x)) < q
      /\ 0 \in Residues(q) /\ centered(q, 0) = 0 /\ Abs(0) = 0
  BY <1>1, <1>2, CenteredRange, ZeroIsZero DEF Abs
<1>4. TypeOK
  <2>1. rest \in [Chunks -> Int] /\ \A j \in Chunks : 2 * Abs(rest[j]) < q
    BY <1>1, <1>2, <1>3
  <2>2. chunks \in [Chunks -> Residues(q)]
    BY <1>1, <1>3
  <2> QED
    BY <1>1, <1>2, <1>3, <2>1, <2>2 DEF TypeOK
<1>5. rest[0] = centered(q, x) /\ \A j \in Chunks : j # 0 => rest[j] = 0 /\ chunks[j] = 0
  BY <1>1, <1>2
<1>6. base = 1 => chunks[0] = x /\ pc # "split"
  BY <1>1, <1>2
<1>7. \A j \in Chunks : Passed(j) => rest[j] = Value(j) + base * rest[j + 1]
  <2> SUFFICES ASSUME NEW j \in Chunks, Passed(j)
               PROVE  rest[j] = Value(j) + base * rest[j + 1]
    OBVIOUS
  <2>1. base = 1 /\ j < Last
    BY <1>1, <1>2 DEF Passed
  <2>2. rest[j + 1] = 0
    BY <1>2, <1>5, <2>1
  <2>3. Value(j) = rest[j]
    BY <1>1, <1>3, <1>5, <1>6, <2>1 DEF Value
  <2> QED
    BY <1>1, <1>2, <1>3, <2>1, <2>2, <2>3
<1>8. pc # "split" => rest[Last] = Value(Last)
  BY <1>1, <1>2, <1>3, <1>5, <1>6 DEF Value
<1>9. pc = "join" => part < parts /\ acc + scale * rest[part] = centered(q, x)
  BY <1>1, <1>2, <1>3, <1>5
<1>10. WithinHalfBase
  BY <1>1, <1>2, <1>3 DEF WithinHalfBase
<1> QED
  BY <1>1, <1>4, <1>5, <1>6, <1>7, <1>8, <1>9, <1>10 DEF IInv, RoundTrip

LEMMA SplitDigitInv == IInv /\ SplitDigit => IInv'
<1> SUFFICES ASSUME IInv, SplitDigit PROVE IInv'
  OBVIOUS
<1> DEFINE d == Digit(rest[part], base)
           e == Quotient(rest[part], base)
<1>1. /\ pc = "split" /\ part < Last /\ part' = part + 1
      /\ chunks' = [chunks EXCEPT ![part] = from_i64(q, d)]
      /\ rest' = [rest EXCEPT ![part + 1] = e]
      /\ UNCHANGED <<q, base, parts, x, pc, acc, scale, out>>
  BY DEF SplitDigit
<1>2. TypeOK
  BY DEF IInv
<1>3. /\ Chunks' = Chunks /\ Last' = Last /\ part \in Chunks /\ part + 1 \in Chunks /\ part + 1 # 0
      /\ part + 1 < parts /\ base >= 2 /\ base \in Nat /\ IsModulus(q) /\ part + 1 \in 0..parts
  BY <1>1, <1>2, Parameters DEF IInv, Chunks, Last
<1>4. /\ rest \in [Chunks -> Int] /\ \A j \in Chunks : 2 * Abs(rest[j]) < q
      /\ chunks \in [Chunks -> Residues(q)]
  BY <1>2 DEF TypeOK
<1>5. /\ d \in Int /\ e \in Int /\ rest[part] = d + base * e
      /\ 2 * Abs(d) <= base /\ Abs(d) <= Abs(rest[part]) /\ Abs(e) <= Abs(rest[part])
  BY <1>3, <1>4, DigitStep
<1> HIDE DEF d, e
<1>6. 2 * Abs(d) < q /\ 2 * Abs(e) < q
  <2>1. 2 * Abs(rest[part]) < q /\ rest[part] \in Int /\ q \in Nat
    BY <1>2, <1>3, <1>4, Parameters
  <2> QED
    BY <1>5, <2>1 DEF Abs
<1>7. from_i64(q, d) \in Residues(q) /\ centered(q, from_i64(q, d)) = d
  BY <1>3, <1>5, <1>6, Representable
<1>8. /\ \A j \in Chunks : chunks'[j] = IF j = part THEN from_i64(q, d) ELSE chunks[j]
      /\ \A j \in Chunks : rest'[j] = IF j = part + 1 THEN e ELSE rest[j]
      /\ rest' \in [Chunks -> Int] /\ chunks' \in [Chunks -> Residues(q)]
  BY <1>1, <1>3, <1>4, <1>5, <1>7
<1>9. \A j \in Chunks : Value(j)' = IF j = part THEN d ELSE Value(j)
  BY <1>1, <1>7, <1>8 DEF Value
<1>10. TypeOK'
  BY <1>1, <1>2, <1>3, <1>4, <1>6, <1>8 DEF TypeOK
<1>11. (\A j \in Chunks : Passed(j) => rest[j] = Value(j) + base * rest[j + 1])'
  <2> SUFFICES ASSUME NEW j \in Chunks, Passed(j)'
               PROVE  rest'[j] = Value(j)' + base * rest'[j + 1]
    BY <1>1, <1>3
  <2>1. j < Last /\ j < part + 1 /\ j + 1 \in Chunks /\ j \in Nat /\ j # part + 1
    BY <1>1, <1>2, <1>3, Parameters DEF Passed
  <2>2. CASE j = part
    BY <1>3, <1>5, <1>8, <1>9, <2>2
  <2>3. CASE j # part
    <3>1. j < part /\ Passed(j) /\ j + 1 # part + 1
      BY <1>2, <1>3, <2>1, <2>3, Parameters DEF Passed
    <3>2. rest[j] = Value(j) + base * rest[j + 1]
      BY <3>1 DEF IInv
    <3> QED
      BY <1>8, <1>9, <2>1, <2>3, <3>1, <3>2
  <2> QED
    BY <2>2, <2>3
<1>12. WithinHalfBase'
  <2>1. WithinHalfBase
    BY DEF IInv
  <2> QED
    BY <1>1, <1>3, <1>5, <1>9, <2>1 DEF WithinHalfBase, Value
<1>13. rest'[0] = centered(q, x)'
  BY <1>1, <1>2, <1>3, <1>8, Parameters DEF IInv
<1> QED
  BY <1>1, <1>3, <1>10, <1>11, <1>12, <1>13 DEF IInv, RoundTrip

LEMMA SplitLastInv == IInv /\ SplitLast => IInv'
<1> SUFFICES ASSUME IInv, SplitLast PROVE IInv'
  OBVIOUS
<1>1. /\ pc = "split" /\ part = Last /\ part' = 0 /\ pc' = "join"
      /\ chunks' = [chunks EXCEPT ![part] = from_i64(q, rest[part])]
      /\ UNCHANGED <<q, base, parts, x, rest, acc, scale, out>>
  BY DEF SplitLast
<1>2. TypeOK /\ base # 1 /\ acc = 0 /\ scale = 1
  BY <1>1 DEF IInv
<1>3. /\ Chunks' = Chunks /\ Last' = Last /\ part \in Chunks /\ 0 \in Chunks
      /\ 0 < parts /\ base \in Nat /\ IsModulus(q) /\ 0 \in 0..parts
  BY <1>1, <1>2, Parameters DEF Chunks, Last
<1>4. /\ rest \in [Chunks -> Int] /\ \A j \in Chunks : 2 * Abs(rest[j]) < q
      /\ chunks \in [Chunks -> Residues(q)]
  BY <1>2 DEF TypeOK
<1>5. /\ from_i64(q, rest[part]) \in Residues(q)
      /\ centered(q, from_i64(q, rest[part])) = rest[part]
  BY <1>3, <1>4, Representable
<1>6. /\ \A j \in Chunks : chunks'[j] = IF j = part THEN from_i64(q, rest[part]) ELSE chunks[j]
      /\ chunks' \in [Chunks -> Residues(q)]
  BY <1>1, <1>3, <1>4, <1>5
<1>7. \A j \in Chunks : Value(j)' = IF j = part THEN rest[part] ELSE Value(j)
  BY <1>1, <1>5, <1>6 DEF Value
<1>8. TypeOK'
  BY <1>1, <1>2, <1>3, <1>4, <1>6 DEF TypeOK
<1>9. (\A j \in Chunks : Passed(j) => rest[j] = Value(j) + base * rest[j + 1])'
  <2> SUFFICES ASSUME NEW j \in Chunks, Passed(j)'
               PROVE  rest[j] = Value(j)' + base * rest[j + 1]
    BY <1>1, <1>3
  <2>1. j # part /\ Passed(j)
    BY <1>1, <1>2, <1>3, Parameters DEF Passed
  <2> QED
    BY <1>7, <2>1 DEF IInv
<1>10. WithinHalfBase'
  <2>1. WithinHalfBase
    BY DEF IInv
  <2> QED
    BY <1>1, <1>2, <1>3, <1>7, <2>1, Parameters DEF WithinHalfBase, Value
<1>11. rest'[Last'] = Value(Last)'
  BY <1>1, <1>3, <1>7
<1>12. rest'[0] = centered(q, x)' /\ acc' + scale' * rest'[0] = centered(q, x)'
  BY <1>1, <1>2, <1>3, <1>4 DEF IInv
<1> QED
  BY <1>1, <1>2, <1>3, <1>8, <1>9, <1>10, <1>11, <1>12 DEF IInv, RoundTrip

LEMMA JoinChunkInv == IInv /\ JoinChunk => IInv'
<1> SUFFICES ASSUME IInv, JoinChunk PROVE IInv'
  OBVIOUS
<1> DEFINE val == centered(q, chunks[part])
<1>1. /\ pc = "join" /\ part < parts /\ part' = part + 1
      /\ acc' = acc + scale * val /\ scale' = scale * base
      /\ UNCHANGED <<q, base, parts, x, pc, rest, chunks, out>>
  BY DEF JoinChunk
<1>2. TypeOK
  BY DEF IInv
<1>3. /\ Chunks' = Chunks /\ Last' = Last /\ part \in Chunks /\ part \in Nat /\ Last \in Nat
      /\ part <= Last /\ (part < Last <=> part + 1 < parts) /\ (part < Last => part + 1 \in Chunks)
      /\ base \in Nat /\ IsModulus(q) /\ part + 1 \in 0..parts
  BY <1>1, <1>2, Parameters DEF Chunks, Last
<1>4. /\ rest \in [Chunks -> Int] /\ chunks \in [Chunks -> Residues(q)]
      /\ acc \in Int /\ scale \in Nat /\ x \in Residues(q)
  BY <1>2 DEF TypeOK
<1>5. val = Value(part) /\ val \in Int /\ centered(q, x) \in Int
  BY <1>3, <1>4, CenteredRange DEF Value
<1> HIDE DEF val
<1>6. acc' \in Int /\ scale' \in Nat
  BY <1>1, <1>3, <1>4, <1>5
<1>7. acc + scale * rest[part] = centered(q, x)
  BY <1>1 DEF IInv
<1>8. CASE part < Last
  <2>1. rest[part] = val + base * rest[part + 1] /\ rest[part + 1] \in Int
    BY <1>1, <1>3, <1>4, <1>5, <1>8 DEF IInv, Passed
  <2>2. scale * (val + base * rest[part + 1]) = scale * val + (scale * base) * rest[part + 1]
    BY <1>3, <1>4, <1>5, <2>1
  <2>3. acc' + scale' * rest[part + 1] = centered(q, x)
    <3>1. /\ scale * val \in Int /\ (scale * base) * rest[part + 1] \in Int
          /\ acc + (scale * val + (scale * base) * rest[part + 1]) = centered(q, x)
      BY <1>3, <1>4, <1>5, <1>7, <2>1, <2>2
    <3> QED
      BY <1>1, <1>4, <3>1
  <2> QED
    BY <1>1, <1>2, <1>3, <1>6, <1>8, <2>3
       DEF IInv, TypeOK, Passed, Value, RoundTrip, WithinHalfBase
<1>9. CASE part = Last
  <2>1. rest[part] = val
    BY <1>1, <1>5, <1>9 DEF IInv
  <2>2. acc' = centered(q, x) /\ ~(part + 1 < parts)
    BY <1>1, <1>3, <1>7, <1>9, <2>1
  <2> QED
    BY <1>1, <1>2, <1>3, <1>6, <2>2
       DEF IInv, TypeOK, Passed, Value, RoundTrip, WithinHalfBase
<1> QED
  BY <1>3, <1>8, <1>9

LEMMA JoinEndInv == IInv /\ JoinEnd => IInv'
<1> SUFFICES ASSUME IInv, JoinEnd PROVE IInv'
  OBVIOUS
<1>1. /\ pc = "join" /\ part = parts /\ pc' = "done" /\ out' = from_i64(q, acc)
      /\ UNCHANGED <<q, base, parts, x, part, rest, chunks, acc, scale>>
  BY DEF JoinEnd
<1>2. TypeOK
  BY DEF IInv
<1>3. acc = centered(q, x)
  BY <1>1, <1>2, Parameters DEF IInv
<1>4. x \in Residues(q) /\ IsModulus(q)
  BY <1>2, Parameters DEF TypeOK
<1>5. out' = x
  BY <1>1, <1>3, <1>4, CenteredRange
<1>6. Chunks' = Chunks /\ Last' = Last
  BY <1>1 DEF Chunks, Last
<1>7. TypeOK'
  BY <1>1, <1>2, <1>4, <1>5, <1>6 DEF TypeOK
<1> QED
  BY <1>1, <1>5, <1>6, <1>7 DEF IInv, Passed, Value, RoundTrip, WithinHalfBase

LEMMA StepInv == IInv /\ [DecomposeNext]_decomposeVars => IInv'
<1>1. IInv /\ UNCHANGED decomposeVars => IInv'
  BY DEF IInv, decomposeVars, TypeOK, Chunks, Last, Passed, Value, RoundTrip, WithinHalfBase
<1> QED
  BY <1>1, SplitDigitInv, SplitLastInv, JoinChunkInv, JoinEndInv DEF DecomposeNext

-----------------------------------------------------------------------------
(* The theorems.                                                           *)

LEMMA Invariance == DecomposeSpec => []IInv
BY InitInv, StepInv, PTL DEF DecomposeSpec

\* decompose and recompose (garbage.rs) never leave the residues, and v never
\* leaves the centered ones, so no conversion in them loses anything.
THEOREM NothingWraps == DecomposeSpec => []TypeOK
<1>1. IInv => TypeOK
  BY DEF IInv
<1> QED
  BY <1>1, Invariance, PTL

\* recompose undoes decompose for every modulus, base, number of parts and
\* coefficient, also when base^parts is below the modulus.
THEOREM Lossless == DecomposeSpec => []RoundTrip
<1>1. IInv => RoundTrip
  BY DEF IInv
<1> QED
  BY <1>1, Invariance, PTL

\* decompose leaves at most half the base in every chunk but the last.
THEOREM DigitsWithinHalfBase == DecomposeSpec => []WithinHalfBase
<1>1. IInv => WithinHalfBase
  BY DEF IInv
<1> QED
  BY <1>1, Invariance, PTL
=============================================================================
