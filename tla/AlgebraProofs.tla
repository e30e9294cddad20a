---------------------------- MODULE AlgebraProofs ----------------------------
(***************************************************************************)
(* The layout of the folded witness, and the algebra that an iteration is  *)
(* made of.                                                                *)
(*                                                                         *)
(* In this order: the layout and the loops that fill the folded witness;   *)
(* sums over finite sets, the residues, the ring of elements and its       *)
(* digits; what each operator of DotProducts, FoldedChecks and Iteration   *)
(* returns; the folded statement.                                          *)
(***************************************************************************)
EXTENDS FoldedWitness, Iteration, SumProofs

-----------------------------------------------------------------------------
(***************************************************************************)
(* build_folded_witness puts every opening in a slot of its own, for every  *)
(* shape.  First the layout: each numbering (the upper triangle, the mixed  *)
(* radix of v, the pieces of a vector) is shown to stay in its range and to *)
(* be injective, and the three compose.  So SlotOf is injective on the      *)
(* sources and into the slots, and the invariant says that what is in the   *)
(* witness is what the loops have passed, each source at its slot.          *)
(***************************************************************************)

Proper(s) == s \in Shape /\ s.n > 0 /\ s.r > 0 /\ s.t1 > 0 /\ s.t2 > 0
                         /\ s.kappa > 0 /\ s.nu > 0 /\ s.mu > 0

-----------------------------------------------------------------------------
(* Division and mixed radix.                                                *)

\* a * b + c counts 0..(x * b - 1) row by row.
LEMMA RadixRange ==
  ASSUME NEW x \in Nat, NEW b \in Nat, NEW a \in 0..(x - 1), NEW c \in 0..(b - 1)
  PROVE  a * b + c \in 0..(x * b - 1)
<1>1. (x - 1 - a) * b >= 0
  BY SMT
<1>2. x * b = (x - 1 - a) * b + a * b + b
  BY SMT
<1>3. a * b \in Nat /\ x * b \in Nat
  BY SMT
<1>. QED  BY <1>1, <1>2, <1>3, SMT

LEMMA RadixInjective ==
  ASSUME NEW b \in Nat, NEW a \in Nat, NEW a2 \in Nat, NEW c \in 0..(b - 1), NEW c2 \in 0..(b - 1),
         a * b + c = a2 * b + c2
  PROVE  a = a2 /\ c = c2
<1>1. ASSUME NEW u \in Nat, NEW v \in Nat, NEW d \in 0..(b - 1), NEW e \in 0..(b - 1), u < v
      PROVE  u * b + d < v * b + e
  <2>1. (v - u - 1) * b >= 0
    BY <1>1, SMT
  <2>2. v * b = (v - u - 1) * b + u * b + b
    BY SMT
  <2>3. u * b \in Nat /\ v * b \in Nat
    BY SMT
  <2>. QED  BY <2>1, <2>2, <2>3, SMT
<1>2. ~(a < a2) /\ ~(a2 < a)
  <2>1. a * b + c \in Nat /\ a2 * b + c2 \in Nat
    BY SMT
  <2>. QED  BY <1>1, <2>1, SMT
<1>3. a = a2
  BY <1>2, SMT
<1>4. a * b \in Nat
  BY SMT
<1>. QED  BY <1>3, <1>4, SMT

-----------------------------------------------------------------------------
(* The upper triangle.                                                      *)

\* Half of a product of neighbours is exact.
LEMMA Halves ==
  ASSUME NEW i \in Nat
  PROVE  /\ (i * (i - 1)) \div 2 \in Nat /\ 2 * ((i * (i - 1)) \div 2) = i * (i - 1)
         /\ (i * (i + 1)) \div 2 \in Nat /\ 2 * ((i * (i + 1)) \div 2) = i * (i + 1)
<1>1. ASSUME NEW x \in Nat, NEW h \in Nat, x = 2 * h
      PROVE  x \div 2 \in Nat /\ 2 * (x \div 2) = x
  BY <1>1, SMT
<1>2. PICK k \in Nat : i = 2 * k \/ i = 2 * k + 1
  <2>1. i \div 2 \in Nat /\ (i = 2 * (i \div 2) \/ i = 2 * (i \div 2) + 1)
    BY SMT
  <2>. QED  BY <2>1
<1>3. CASE i = 2 * k
  <2>1. i * (i - 1) = 2 * (k * (2 * k - 1)) /\ i * (i + 1) = 2 * (k * (2 * k + 1))
    BY <1>3, SMT
  <2>2. k * (2 * k - 1) \in Nat /\ k * (2 * k + 1) \in Nat
    BY SMT
  <2>3. i * (i - 1) \in Nat /\ i * (i + 1) \in Nat
    BY SMT
  <2>. QED  BY <1>1, <2>1, <2>2, <2>3
<1>4. CASE i = 2 * k + 1
  <2>1. i * (i - 1) = 2 * ((2 * k + 1) * k) /\ i * (i + 1) = 2 * ((2 * k + 1) * (k + 1))
    BY <1>4, SMT
  <2>2. (2 * k + 1) * k \in Nat /\ (2 * k + 1) * (k + 1) \in Nat
    BY SMT
  <2>3. i * (i - 1) \in Nat /\ i * (i + 1) \in Nat
    BY SMT
  <2>. QED  BY <1>1, <2>1, <2>2, <2>3
<1>. QED  BY <1>2, <1>3, <1>4

\* A row begins after the end of every row above it; the row r would begin at
\* the number of pairs.
LEMMA RowsApart ==
  ASSUME NEW s, Proper(s), NEW i \in 0..s.r, NEW i2 \in 0..s.r, i < i2
  PROVE  /\ RowOff(s, i) \in Int /\ RowOff(s, i2) \in Int
         /\ RowOff(s, i) + (s.r - i) <= RowOff(s, i2)
<1>. DEFINE r == s.r
<1>0. r \in Nat /\ i \in Nat /\ i2 \in Nat /\ i2 <= r /\ i < i2
  BY DEF Proper, Shape
<1>1. /\ (i * (i - 1)) \div 2 \in Nat /\ 2 * ((i * (i - 1)) \div 2) = i * (i - 1)
      /\ (i2 * (i2 - 1)) \div 2 \in Nat /\ 2 * ((i2 * (i2 - 1)) \div 2) = i2 * (i2 - 1)
  BY <1>0, Halves
<1>2. /\ RowOff(s, i) \in Int /\ 2 * RowOff(s, i) = 2 * (i * r) - i * (i - 1)
      /\ RowOff(s, i2) \in Int /\ 2 * RowOff(s, i2) = 2 * (i2 * r) - i2 * (i2 - 1)
  <2>1. i * r \in Nat /\ i2 * r \in Nat /\ i * (i - 1) \in Int /\ i2 * (i2 - 1) \in Int
    BY <1>0, SMT
  <2>. QED  BY <1>1, <2>1, SMT DEF RowOff
<1>. HIDE DEF r
<1>3. (2 * (i2 * r) - i2 * (i2 - 1)) - (2 * (i * r) - i * (i - 1)) - 2 * (r - i)
        = (i2 - i - 1) * ((r - i) + (r - i2))
  BY <1>0, SMT
<1>4. (i2 - i - 1) * ((r - i) + (r - i2)) >= 0
  BY <1>0, SMT
<1>5. 2 * RowOff(s, i2) - 2 * RowOff(s, i) - 2 * (r - i) >= 0
  BY <1>2, <1>3, <1>4
<1>. QED  BY <1>0, <1>2, <1>5 DEF r

LEMMA RowEnds ==
  ASSUME NEW s, Proper(s)
  PROVE  RowOff(s, 0) = 0 /\ RowOff(s, s.r) = NUpper(s) /\ NUpper(s) \in Nat
<1>. DEFINE r == s.r
<1>0. r \in Nat
  BY DEF Proper, Shape
<1>1. /\ (r * (r - 1)) \div 2 \in Nat /\ 2 * ((r * (r - 1)) \div 2) = r * (r - 1)
      /\ (r * (r + 1)) \div 2 \in Nat /\ 2 * ((r * (r + 1)) \div 2) = r * (r + 1)
  BY <1>0, Halves
<1>2. r * r \in Nat /\ r * (r - 1) = r * r - r /\ r * (r + 1) = r * r + r
  BY <1>0, SMT
<1>3. RowOff(s, r) = NUpper(s) /\ NUpper(s) \in Nat
  BY <1>0, <1>1, <1>2, SMT DEF RowOff, NUpper
<1>4. RowOff(s, 0) = 0
  BY <1>0, SMT DEF RowOff
<1>. QED  BY <1>3, <1>4

\* The rank of a pair is below the number of pairs.
LEMMA UpperRange ==
  ASSUME NEW s, Proper(s), NEW i \in 0..(s.r - 1), NEW j \in i..(s.r - 1)
  PROVE  Upper(s, i, j) \in 0..(NUpper(s) - 1)
<1>0. s.r \in Nat
  BY DEF Proper, Shape
<1>1. RowOff(s, i) \in Int /\ RowOff(s, i) + (s.r - i) <= NUpper(s)
  BY <1>0, RowsApart, RowEnds
<1>2. RowOff(s, i) >= 0
  <2>1. CASE i = 0
    BY <2>1, RowEnds
  <2>2. CASE i > 0
    BY <1>0, <2>2, RowsApart, RowEnds
  <2>. QED  BY <2>1, <2>2, <1>0
<1>. QED  BY <1>0, <1>1, <1>2, RowEnds DEF Upper

\* Two pairs of one rank are the same pair.
LEMMA UpperInjective ==
  ASSUME NEW s, Proper(s),
         NEW i \in 0..(s.r - 1), NEW j \in i..(s.r - 1),
         NEW i2 \in 0..(s.r - 1), NEW j2 \in i2..(s.r - 1),
         Upper(s, i, j) = Upper(s, i2, j2)
  PROVE  i = i2 /\ j = j2
<1>0. s.r \in Nat
  BY DEF Proper, Shape
<1>1. ASSUME NEW a \in 0..(s.r - 1), NEW b \in a..(s.r - 1),
             NEW a2 \in 0..(s.r - 1), NEW b2 \in a2..(s.r - 1), a < a2
      PROVE  Upper(s, a, b) < Upper(s, a2, b2)
  <2>1. RowOff(s, a) \in Int /\ RowOff(s, a2) \in Int
        /\ RowOff(s, a) + (s.r - a) <= RowOff(s, a2)
    BY <1>0, <1>1, RowsApart
  <2>. QED  BY <1>0, <2>1 DEF Upper
<1>2. Upper(s, i, j) \in Nat /\ Upper(s, i2, j2) \in Nat
  BY <1>0, UpperRange, RowEnds
<1>3. i = i2
  BY <1>0, <1>1, <1>2
<1>4. RowOff(s, i) \in Int
  BY <1>0, RowsApart, RowEnds
<1>. QED  BY <1>0, <1>3, <1>4 DEF Upper

-----------------------------------------------------------------------------
(* The positions of e.                                                      *)

\* What an entry is.
IsV(s, e) == /\ e = <<"V", e[2], e[3], e[4]>>
             /\ e[2] \in 0..(s.r - 1) /\ e[3] \in 0..(s.t1 - 1) /\ e[4] \in 0..(s.kappa - 1)
IsTriangle(s, e, kind, chunks) ==
  /\ e = <<kind, e[2], e[3], e[4]>> /\ e[2] <= e[3]
  /\ e[2] \in 0..(s.r - 1) /\ e[3] \in 0..(s.r - 1) /\ e[4] \in 0..(chunks - 1)

LEMMA EntryKinds ==
  ASSUME NEW s, NEW e \in Entries(s)
  PROVE  \/ e[1] = "V" /\ IsV(s, e)
         \/ e[1] = "G" /\ IsTriangle(s, e, "G", s.t2)
         \/ e[1] = "H" /\ IsTriangle(s, e, "H", s.t1)
<1>1. e \in VEntries(s) => e[1] = "V" /\ IsV(s, e)
  BY DEF VEntries, Below, IsV
<1>2. e \in GEntries(s) => e[1] = "G" /\ IsTriangle(s, e, "G", s.t2)
  BY DEF GEntries, Below, IsTriangle
<1>3. e \in HEntries(s) => e[1] = "H" /\ IsTriangle(s, e, "H", s.t1)
  BY DEF HEntries, Below, IsTriangle
<1>. QED  BY <1>1, <1>2, <1>3 DEF Entries

LEMMA Offsets ==
  ASSUME NEW s, Proper(s)
  PROVE  /\ s.n \in Nat /\ s.r \in Nat /\ s.t1 \in Nat /\ s.t2 \in Nat
         /\ s.kappa \in Nat /\ s.nu \in Nat /\ s.mu \in Nat
         /\ s.n > 0 /\ s.r > 0 /\ s.t1 > 0 /\ s.t2 > 0 /\ s.kappa > 0 /\ s.nu > 0 /\ s.mu > 0
         /\ s.r * s.t1 \in Nat /\ GOff(s) \in Nat /\ HOff(s) \in Nat /\ ELen(s) \in Nat
         /\ NUpper(s) \in Nat /\ s.t2 * NUpper(s) \in Nat /\ s.t1 * NUpper(s) \in Nat
         /\ HOff(s) = GOff(s) + s.t2 * NUpper(s)
         /\ ELen(s) = HOff(s) + s.t1 * NUpper(s)
<1>1. /\ s.n \in Nat /\ s.r \in Nat /\ s.t1 \in Nat /\ s.t2 \in Nat
      /\ s.kappa \in Nat /\ s.nu \in Nat /\ s.mu \in Nat
      /\ s.n > 0 /\ s.r > 0 /\ s.t1 > 0 /\ s.t2 > 0 /\ s.kappa > 0 /\ s.nu > 0 /\ s.mu > 0
  BY DEF Proper, Shape
<1>2. NUpper(s) \in Nat
  BY RowEnds
<1>3. /\ s.r * s.t1 \in Nat /\ GOff(s) \in Nat
      /\ s.t2 * NUpper(s) \in Nat /\ s.t1 * NUpper(s) \in Nat
  BY <1>1, <1>2, SMT DEF GOff
<1>. QED  BY <1>1, <1>2, <1>3 DEF HOff, ELen

\* Each kind of entry has a block of e of its own.
LEMMA PosOfV ==
  ASSUME NEW s, Proper(s),
         NEW i \in 0..(s.r - 1), NEW k \in 0..(s.t1 - 1), NEW p \in 0..(s.kappa - 1)
  PROVE  /\ Pos(s, <<"V", i, k, p>>) = (i * s.t1 + k) * s.kappa + p
         /\ i * s.t1 + k \in 0..(s.r * s.t1 - 1)
         /\ Pos(s, <<"V", i, k, p>>) \in 0..(GOff(s) - 1)
<1>0. /\ s.r \in Nat /\ s.t1 \in Nat /\ s.kappa \in Nat /\ s.r * s.t1 \in Nat
  BY Offsets
<1>1. i * s.t1 + k \in 0..(s.r * s.t1 - 1)
  BY <1>0, RadixRange
<1>2. (i * s.t1 + k) * s.kappa + p \in 0..(s.r * s.t1 * s.kappa - 1)
  BY <1>0, <1>1, RadixRange
<1>3. i * s.t1 * s.kappa + k * s.kappa + p = (i * s.t1 + k) * s.kappa + p
  BY <1>0, SMT
<1>4. Pos(s, <<"V", i, k, p>>) = i * s.t1 * s.kappa + k * s.kappa + p
  BY DEF Pos
<1>. QED  BY <1>1, <1>2, <1>3, <1>4 DEF GOff

InTriangle(s, e) == e[4] * NUpper(s) + Upper(s, e[2], e[3])

LEMMA PosOfG ==
  ASSUME NEW s, Proper(s),
         NEW i \in 0..(s.r - 1), NEW j \in 0..(s.r - 1), NEW k \in 0..(s.t2 - 1), i <= j
  PROVE  /\ Pos(s, <<"G", i, j, k>>) = GOff(s) + (k * NUpper(s) + Upper(s, i, j))
         /\ Upper(s, i, j) \in 0..(NUpper(s) - 1)
         /\ Pos(s, <<"G", i, j, k>>) \in GOff(s)..(HOff(s) - 1)
<1>0. /\ s.r \in Nat /\ s.t2 \in Nat /\ NUpper(s) \in Nat /\ GOff(s) \in Nat
      /\ HOff(s) = GOff(s) + s.t2 * NUpper(s) /\ s.t2 * NUpper(s) \in Nat
  BY Offsets
<1>1. Upper(s, i, j) \in 0..(NUpper(s) - 1)
  BY <1>0, UpperRange
<1>2. k * NUpper(s) + Upper(s, i, j) \in 0..(s.t2 * NUpper(s) - 1)
  BY <1>0, <1>1, RadixRange
<1>3. Pos(s, <<"G", i, j, k>>) = GOff(s) + k * NUpper(s) + Upper(s, i, j)
  BY DEF Pos
<1>4. k * NUpper(s) \in Nat
  BY <1>0, SMT
<1>. QED  BY <1>0, <1>1, <1>2, <1>3, <1>4

LEMMA PosOfH ==
  ASSUME NEW s, Proper(s),
         NEW i \in 0..(s.r - 1), NEW j \in 0..(s.r - 1), NEW k \in 0..(s.t1 - 1), i <= j
  PROVE  /\ Pos(s, <<"H", i, j, k>>) = HOff(s) + (k * NUpper(s) + Upper(s, i, j))
         /\ Upper(s, i, j) \in 0..(NUpper(s) - 1)
         /\ Pos(s, <<"H", i, j, k>>) \in HOff(s)..(ELen(s) - 1)
<1>0. /\ s.r \in Nat /\ s.t1 \in Nat /\ NUpper(s) \in Nat /\ HOff(s) \in Nat
      /\ ELen(s) = HOff(s) + s.t1 * NUpper(s) /\ s.t1 * NUpper(s) \in Nat
  BY Offsets
<1>1. Upper(s, i, j) \in 0..(NUpper(s) - 1)
  BY <1>0, UpperRange
<1>2. k * NUpper(s) + Upper(s, i, j) \in 0..(s.t1 * NUpper(s) - 1)
  BY <1>0, <1>1, RadixRange
<1>3. Pos(s, <<"H", i, j, k>>) = HOff(s) + k * NUpper(s) + Upper(s, i, j)
  BY DEF Pos
<1>4. k * NUpper(s) \in Nat
  BY <1>0, SMT
<1>. QED  BY <1>0, <1>1, <1>2, <1>3, <1>4

\* The three blocks of e.
LEMMA PosBlock ==
  ASSUME NEW s, Proper(s), NEW e \in Entries(s)
  PROVE  /\ e[1] \in {"V", "G", "H"}
         /\ Pos(s, e) \in 0..(ELen(s) - 1)
         /\ e[1] = "V" => Pos(s, e) < GOff(s)
         /\ e[1] = "G" => Pos(s, e) >= GOff(s) /\ Pos(s, e) < HOff(s)
         /\ e[1] = "H" => Pos(s, e) >= HOff(s)
<1>1. /\ GOff(s) \in Nat /\ HOff(s) \in Nat /\ ELen(s) \in Nat
      /\ GOff(s) <= HOff(s) /\ HOff(s) <= ELen(s)
  BY Offsets
<1>2. CASE e[1] = "V" /\ IsV(s, e)
  <2>1. Pos(s, e) \in 0..(GOff(s) - 1)
    BY <1>2, PosOfV DEF IsV
  <2>. QED  BY <1>1, <1>2, <2>1
<1>3. CASE e[1] = "G" /\ IsTriangle(s, e, "G", s.t2)
  <2>1. Pos(s, e) \in GOff(s)..(HOff(s) - 1)
    BY <1>3, PosOfG DEF IsTriangle
  <2>. QED  BY <1>1, <1>3, <2>1
<1>4. CASE e[1] = "H" /\ IsTriangle(s, e, "H", s.t1)
  <2>1. Pos(s, e) \in HOff(s)..(ELen(s) - 1)
    BY <1>4, PosOfH DEF IsTriangle
  <2>. QED  BY <1>1, <1>4, <2>1
<1>. QED  BY <1>2, <1>3, <1>4, EntryKinds

LEMMA SamePosV ==
  ASSUME NEW s, Proper(s),
         NEW i \in 0..(s.r - 1), NEW k \in 0..(s.t1 - 1), NEW p \in 0..(s.kappa - 1),
         NEW i2 \in 0..(s.r - 1), NEW k2 \in 0..(s.t1 - 1), NEW p2 \in 0..(s.kappa - 1),
         Pos(s, <<"V", i, k, p>>) = Pos(s, <<"V", i2, k2, p2>>)
  PROVE  i = i2 /\ k = k2 /\ p = p2
<1>0. /\ s.r \in Nat /\ s.t1 \in Nat /\ s.kappa \in Nat /\ s.r * s.t1 \in Nat
  BY Offsets
<1>1. (i * s.t1 + k) * s.kappa + p = (i2 * s.t1 + k2) * s.kappa + p2
      /\ i * s.t1 + k \in Nat /\ i2 * s.t1 + k2 \in Nat
  BY <1>0, PosOfV
<1>. DEFINE a == i * s.t1 + k
            a2 == i2 * s.t1 + k2
<1>. HIDE DEF a, a2
<1>2. a = a2 /\ p = p2
  <2>1. a \in Nat /\ a2 \in Nat /\ a * s.kappa + p = a2 * s.kappa + p2
    BY <1>1 DEF a, a2
  <2>. QED  BY <1>0, <2>1, RadixInjective
<1>. USE DEF a, a2
<1>. QED  BY <1>0, <1>2, RadixInjective

\* The same holds in either block of triangles.
LEMMA SameInTriangle ==
  ASSUME NEW s, Proper(s), NEW kind, NEW chunks \in Nat,
         NEW e, NEW f, IsTriangle(s, e, kind, chunks), IsTriangle(s, f, kind, chunks),
         InTriangle(s, e) = InTriangle(s, f)
  PROVE  e = f
<1>. DEFINE i == e[2]  j == e[3]  k == e[4]  i2 == f[2]  j2 == f[3]  k2 == f[4]
<1>0. s.r \in Nat /\ NUpper(s) \in Nat
  BY Offsets
<1>1. /\ i \in 0..(s.r - 1) /\ j \in i..(s.r - 1) /\ k \in Nat
      /\ i2 \in 0..(s.r - 1) /\ j2 \in i2..(s.r - 1) /\ k2 \in Nat
  BY <1>0 DEF IsTriangle
<1>2. k * NUpper(s) + Upper(s, i, j) = k2 * NUpper(s) + Upper(s, i2, j2)
  BY DEF InTriangle
<1>3. e = <<kind, i, j, k>> /\ f = <<kind, i2, j2, k2>>
  BY DEF IsTriangle
<1>. HIDE DEF i, j, k, i2, j2, k2
<1>4. Upper(s, i, j) \in 0..(NUpper(s) - 1) /\ Upper(s, i2, j2) \in 0..(NUpper(s) - 1)
  BY <1>1, UpperRange
<1>5. k = k2 /\ Upper(s, i, j) = Upper(s, i2, j2)
  <2>. DEFINE b == NUpper(s)  u == Upper(s, i, j)  u2 == Upper(s, i2, j2)
  <2>1. /\ b \in Nat /\ u \in 0..(b - 1) /\ u2 \in 0..(b - 1)
        /\ k * b + u = k2 * b + u2
    BY <1>0, <1>2, <1>4
  <2>. HIDE DEF b, u, u2
  <2>2. k = k2 /\ u = u2
    BY <1>1, <2>1, RadixInjective
  <2>. QED  BY <2>2 DEF u, u2
<1>6. i = i2 /\ j = j2
  BY <1>1, <1>5, UpperInjective
<1>. QED  BY <1>3, <1>5, <1>6

LEMMA TrianglePosG ==
  ASSUME NEW s, Proper(s), NEW e, IsTriangle(s, e, "G", s.t2)
  PROVE  Pos(s, e) = GOff(s) + InTriangle(s, e) /\ InTriangle(s, e) \in Nat
<1>1. /\ Pos(s, e) = GOff(s) + (e[4] * NUpper(s) + Upper(s, e[2], e[3]))
      /\ Upper(s, e[2], e[3]) \in 0..(NUpper(s) - 1)
  BY PosOfG DEF IsTriangle
<1>2. s.t2 \in Nat /\ NUpper(s) \in Nat
  BY Offsets
<1>3. e[4] \in Nat
  BY <1>2 DEF IsTriangle
<1>4. e[4] * NUpper(s) \in Nat
  BY <1>2, <1>3, SMT
<1>. QED  BY <1>1, <1>2, <1>4 DEF InTriangle

LEMMA TrianglePosH ==
  ASSUME NEW s, Proper(s), NEW e, IsTriangle(s, e, "H", s.t1)
  PROVE  Pos(s, e) = HOff(s) + InTriangle(s, e) /\ InTriangle(s, e) \in Nat
<1>1. /\ Pos(s, e) = HOff(s) + (e[4] * NUpper(s) + Upper(s, e[2], e[3]))
      /\ Upper(s, e[2], e[3]) \in 0..(NUpper(s) - 1)
  BY PosOfH DEF IsTriangle
<1>2. s.t1 \in Nat /\ NUpper(s) \in Nat
  BY Offsets
<1>3. e[4] \in Nat
  BY <1>2 DEF IsTriangle
<1>4. e[4] * NUpper(s) \in Nat
  BY <1>2, <1>3, SMT
<1>. QED  BY <1>1, <1>2, <1>4 DEF InTriangle

\* No two entries of e share a position.
LEMMA PosInjective ==
  ASSUME NEW s, Proper(s), NEW e \in Entries(s), NEW f \in Entries(s), Pos(s, e) = Pos(s, f)
  PROVE  e = f
<1>0. /\ GOff(s) \in Nat /\ HOff(s) \in Nat /\ GOff(s) <= HOff(s)
      /\ s.t1 \in Nat /\ s.t2 \in Nat
  BY Offsets
<1>1. e[1] = f[1] /\ e[1] \in {"V", "G", "H"}
  BY <1>0, PosBlock
<1>2. CASE e[1] = "V"
  <2>1. IsV(s, e) /\ IsV(s, f)
    BY <1>1, <1>2, EntryKinds
  <2>2. e[2] = f[2] /\ e[3] = f[3] /\ e[4] = f[4]
    BY <2>1, SamePosV DEF IsV
  <2>. QED  BY <2>1, <2>2 DEF IsV
<1>3. CASE e[1] = "G"
  <2>1. IsTriangle(s, e, "G", s.t2) /\ IsTriangle(s, f, "G", s.t2)
    BY <1>1, <1>3, EntryKinds
  <2>2. /\ Pos(s, e) = GOff(s) + InTriangle(s, e) /\ InTriangle(s, e) \in Nat
        /\ Pos(s, f) = GOff(s) + InTriangle(s, f) /\ InTriangle(s, f) \in Nat
    BY <2>1, TrianglePosG
  <2>3. InTriangle(s, e) = InTriangle(s, f)
    <3>1. GOff(s) + InTriangle(s, e) = GOff(s) + InTriangle(s, f)
      BY <2>2, Zenon
    <3>. QED  BY <1>0, <2>2, <3>1
  <2>. QED  BY <1>0, <2>1, <2>3, SameInTriangle
<1>4. CASE e[1] = "H"
  <2>1. IsTriangle(s, e, "H", s.t1) /\ IsTriangle(s, f, "H", s.t1)
    BY <1>1, <1>4, EntryKinds
  <2>2. /\ Pos(s, e) = HOff(s) + InTriangle(s, e) /\ InTriangle(s, e) \in Nat
        /\ Pos(s, f) = HOff(s) + InTriangle(s, f) /\ InTriangle(s, f) \in Nat
    BY <2>1, TrianglePosH
  <2>3. InTriangle(s, e) = InTriangle(s, f)
    <3>1. HOff(s) + InTriangle(s, e) = HOff(s) + InTriangle(s, f)
      BY <2>2, Zenon
    <3>. QED  BY <1>0, <2>2, <3>1
  <2>. QED  BY <1>0, <2>1, <2>3, SameInTriangle
<1>. QED  BY <1>1, <1>2, <1>3, <1>4

-----------------------------------------------------------------------------
(* The pieces.                                                              *)

\* The pieces are long enough for the vector they cut.
LEMMA PiecesCover ==
  ASSUME NEW total \in Nat, total > 0, NEW pieces \in Nat, pieces > 0
  PROVE  PieceLen(total, pieces) \in Nat /\ PieceLen(total, pieces) > 0
         /\ total <= pieces * PieceLen(total, pieces)
<1>. DEFINE a == total + pieces - 1
            quot == a \div pieces
<1>1. a \in Nat
  OBVIOUS
<1>2. quot \in Nat /\ a % pieces \in 0..(pieces - 1) /\ a = pieces * quot + (a % pieces)
  BY <1>1, Division
<1>3. pieces * quot \in Nat
  BY <1>2, SMT
<1>4. total <= pieces * quot
  BY <1>2, <1>3
<1>5. quot # 0
  BY <1>4, SMT
<1>. QED  BY <1>2, <1>4, <1>5 DEF PieceLen

\* A position falls in one of the pieces, below its length.
LEMMA LocateRange ==
  ASSUME NEW len \in Nat, len > 0, NEW pieces \in Nat, NEW p \in Nat, p < pieces * len
  PROVE  p \div len \in 0..(pieces - 1) /\ p % len \in 0..(len - 1)
<1>. DEFINE quot == p \div len
<1>1. quot \in Nat /\ p % len \in 0..(len - 1) /\ p = len * quot + (p % len)
  BY Division
<1>. HIDE DEF quot
<1>2. quot < pieces
  <2>1. SUFFICES ASSUME quot >= pieces PROVE FALSE
    BY <1>1
  <2>2. (quot - pieces) * len >= 0
    BY <1>1, <2>1, SMT
  <2>3. len * quot = (quot - pieces) * len + pieces * len /\ len * quot \in Nat /\ pieces * len \in Nat
    BY <1>1, SMT
  <2>. QED  BY <1>1, <2>2, <2>3
<1>. QED  BY <1>1, <1>2 DEF quot

\* Two positions of one piece and one offset are the same.
LEMMA LocateInjective ==
  ASSUME NEW len \in Nat, len > 0, NEW p \in Nat, NEW p2 \in Nat,
         p \div len = p2 \div len, p % len = p2 % len
  PROVE  p = p2
  BY Division

-----------------------------------------------------------------------------
(***************************************************************************)
(* The witness.                                                             *)
(***************************************************************************)

-----------------------------------------------------------------------------
(* The slots.                                                               *)

LEMMA Lengths ==
  ASSUME NEW s, Proper(s)
  PROVE  /\ s.n \in Nat /\ s.nu \in Nat /\ s.mu \in Nat
         /\ ZLen(s) \in Nat /\ ZLen(s) > 0 /\ s.n <= s.nu * ZLen(s)
         /\ EPieceLen(s) \in Nat /\ EPieceLen(s) > 0 /\ ELen(s) <= s.mu * EPieceLen(s)
         /\ NPrime(s) \in Nat /\ ZLen(s) <= NPrime(s) /\ EPieceLen(s) <= NPrime(s)
         /\ s.nu * ZLen(s) \in Nat /\ s.mu * EPieceLen(s) \in Nat
         /\ RPrime(s) = 2 * s.nu + s.mu
<1>1. /\ s.n \in Nat /\ s.n > 0 /\ s.nu \in Nat /\ s.nu > 0 /\ s.mu \in Nat /\ s.mu > 0
      /\ ELen(s) \in Nat
  BY Offsets
<1>2. ZLen(s) \in Nat /\ ZLen(s) > 0 /\ s.n <= s.nu * ZLen(s)
  BY <1>1, PiecesCover DEF ZLen
<1>3. ELen(s) > 0
  <2>1. NUpper(s) \in Nat /\ GOff(s) \in Nat /\ s.r \in Nat /\ s.r > 0 /\ s.t1 \in Nat /\ s.t1 > 0
        /\ s.kappa \in Nat /\ s.kappa > 0
    BY Offsets
  <2>2. Pos(s, <<"V", 0, 0, 0>>) \in 0..(GOff(s) - 1)
    BY <2>1, PosOfV
  <2>3. GOff(s) > 0
    BY <2>1, <2>2
  <2>. QED  BY <2>3, Offsets
<1>4. EPieceLen(s) \in Nat /\ EPieceLen(s) > 0 /\ ELen(s) <= s.mu * EPieceLen(s)
  BY <1>1, <1>3, PiecesCover DEF EPieceLen
<1>5. NPrime(s) \in Nat /\ ZLen(s) <= NPrime(s) /\ EPieceLen(s) <= NPrime(s)
  BY <1>2, <1>4 DEF NPrime
<1>6. s.nu * ZLen(s) \in Nat /\ s.mu * EPieceLen(s) \in Nat
  BY <1>1, <1>2, <1>4, SMT
<1>. QED  BY <1>1, <1>2, <1>4, <1>5, <1>6 DEF RPrime

LEMMA Z0Slot ==
  ASSUME NEW s, Proper(s), NEW p \in 0..(s.n - 1)
  PROVE  /\ Z0(s, p) = <<p \div ZLen(s), p % ZLen(s)>>
         /\ p \div ZLen(s) \in 0..(s.nu - 1) /\ p % ZLen(s) \in 0..(NPrime(s) - 1)
<1>1. p \in Nat /\ p < s.nu * ZLen(s)
  BY Lengths
<1>2. p \div ZLen(s) \in 0..(s.nu - 1) /\ p % ZLen(s) \in 0..(ZLen(s) - 1)
  BY <1>1, Lengths, LocateRange
<1>. QED  BY <1>2, Lengths DEF Z0, Locate

LEMMA Z1Slot ==
  ASSUME NEW s, Proper(s), NEW p \in 0..(s.n - 1)
  PROVE  /\ Z1(s, p) = <<s.nu + (p \div ZLen(s)), p % ZLen(s)>>
         /\ p \div ZLen(s) \in 0..(s.nu - 1) /\ p % ZLen(s) \in 0..(NPrime(s) - 1)
  BY Z0Slot DEF Z0, Z1, Shift, Locate

LEMMA ESlot ==
  ASSUME NEW s, Proper(s), NEW p \in 0..(ELen(s) - 1)
  PROVE  /\ E(s, p) = <<2 * s.nu + (p \div EPieceLen(s)), p % EPieceLen(s)>>
         /\ p \div EPieceLen(s) \in 0..(s.mu - 1) /\ p % EPieceLen(s) \in 0..(NPrime(s) - 1)
<1>1. ELen(s) \in Nat /\ p \in Nat /\ p < s.mu * EPieceLen(s)
  BY Offsets, Lengths
<1>2. p \div EPieceLen(s) \in 0..(s.mu - 1) /\ p % EPieceLen(s) \in 0..(EPieceLen(s) - 1)
  BY <1>1, Lengths, LocateRange
<1>. QED  BY <1>2, Lengths DEF E, Locate, Shift

\* The three kinds of source.
LEMMA SourceKinds ==
  ASSUME NEW s, NEW x \in Sources(s)
  PROVE  \/ x = ZEntry(0, x[3]) /\ x[1] = "z" /\ x[2] = 0 /\ x[3] \in 0..(s.n - 1)
         \/ x = ZEntry(1, x[3]) /\ x[1] = "z" /\ x[2] = 1 /\ x[3] \in 0..(s.n - 1)
         \/ x[1] # "z" /\ x \in Entries(s)
<1>1. CASE x \in Entries(s)
  <2>1. x[1] = "V" \/ x[1] = "G" \/ x[1] = "H"
    BY <1>1, EntryKinds
  <2>. QED  BY <1>1, <2>1
<1>2. CASE x \in {ZEntry(half, p) : half \in {0, 1}, p \in 0..(s.n - 1)}
  BY <1>2 DEF ZEntry
<1>. QED  BY <1>1, <1>2 DEF Sources

LEMMA SlotInside ==
  ASSUME NEW s, Proper(s), NEW x \in Sources(s)
  PROVE  SlotOf(s, x) \in Slots(s)
<1>0. RPrime(s) = 2 * s.nu + s.mu /\ s.nu \in Nat /\ s.mu \in Nat
  BY Lengths
<1>1. CASE x[1] = "z" /\ x[2] = 0 /\ x[3] \in 0..(s.n - 1)
  BY <1>0, <1>1, Z0Slot DEF SlotOf, Slots, Below
<1>2. CASE x[1] = "z" /\ x[2] = 1 /\ x[3] \in 0..(s.n - 1)
  BY <1>0, <1>2, Z1Slot DEF SlotOf, Slots, Below
<1>3. CASE x[1] # "z" /\ x \in Entries(s)
  <2>1. Pos(s, x) \in 0..(ELen(s) - 1)
    BY <1>3, PosBlock
  <2>. QED  BY <1>0, <1>3, <2>1, ESlot DEF SlotOf, Slots, Below
<1>. QED  BY <1>1, <1>2, <1>3, SourceKinds

\* Two sources never share a slot.
LEMMA SlotInjective ==
  ASSUME NEW s, Proper(s), NEW x \in Sources(s), NEW y \in Sources(s),
         SlotOf(s, x) = SlotOf(s, y)
  PROVE  x = y
<1>. DEFINE IsZ(u, half) == u = ZEntry(half, u[3]) /\ u[1] = "z" /\ u[2] = half /\ u[3] \in 0..(s.n - 1)
            IsE(u) == u[1] # "z" /\ u \in Entries(s)
<1>0. /\ s.nu \in Nat /\ s.mu \in Nat /\ ZLen(s) \in Nat /\ ZLen(s) > 0
      /\ EPieceLen(s) \in Nat /\ EPieceLen(s) > 0 /\ s.n \in Nat
  BY Lengths
<1>1. ASSUME NEW u, IsZ(u, 0)
      PROVE  SlotOf(s, u)[1] \in 0..(s.nu - 1)
  BY <1>0, <1>1, Z0Slot DEF SlotOf
<1>2. ASSUME NEW u, IsZ(u, 1)
      PROVE  SlotOf(s, u)[1] \in s.nu..(2 * s.nu - 1)
  <2>1. u[3] \div ZLen(s) \in 0..(s.nu - 1) /\ SlotOf(s, u)[1] = s.nu + (u[3] \div ZLen(s))
    BY <1>2, Z1Slot DEF SlotOf
  <2>. QED  BY <1>0, <2>1
<1>3. ASSUME NEW u, IsE(u)
      PROVE  SlotOf(s, u)[1] \in (2 * s.nu)..(2 * s.nu + s.mu - 1)
  <2>. DEFINE p == Pos(s, u)
  <2>1. p \in 0..(ELen(s) - 1)
    BY <1>3, PosBlock
  <2>2. p \div EPieceLen(s) \in 0..(s.mu - 1) /\ SlotOf(s, u)[1] = 2 * s.nu + (p \div EPieceLen(s))
    BY <1>3, <2>1, ESlot DEF SlotOf
  <2>. QED  BY <1>0, <2>2
<1>4. CASE IsZ(x, 0) /\ IsZ(y, 0)
  <2>1. x[3] \div ZLen(s) = y[3] \div ZLen(s) /\ x[3] % ZLen(s) = y[3] % ZLen(s)
    BY <1>4, Z0Slot DEF SlotOf
  <2>2. x[3] \in Nat /\ y[3] \in Nat
    BY <1>0, <1>4
  <2>3. x[3] = y[3]
    BY <1>0, <2>1, <2>2, LocateInjective
  <2>. QED  BY <1>4, <2>3 DEF ZEntry
<1>5. CASE IsZ(x, 1) /\ IsZ(y, 1)
  <2>1. /\ s.nu + (x[3] \div ZLen(s)) = s.nu + (y[3] \div ZLen(s))
        /\ x[3] % ZLen(s) = y[3] % ZLen(s)
        /\ x[3] \div ZLen(s) \in 0..(s.nu - 1) /\ y[3] \div ZLen(s) \in 0..(s.nu - 1)
    BY <1>5, Z1Slot DEF SlotOf
  <2>2. x[3] \in Nat /\ y[3] \in Nat
    BY <1>0, <1>5
  <2>3. x[3] \div ZLen(s) = y[3] \div ZLen(s)
    BY <1>0, <2>1
  <2>4. x[3] = y[3]
    BY <1>0, <2>1, <2>2, <2>3, LocateInjective
  <2>. QED  BY <1>5, <2>4 DEF ZEntry
<1>6. CASE IsE(x) /\ IsE(y)
  <2>. DEFINE p == Pos(s, x)
              p2 == Pos(s, y)
  <2>1. p \in 0..(ELen(s) - 1) /\ p2 \in 0..(ELen(s) - 1) /\ ELen(s) \in Nat
    BY <1>6, PosBlock, Offsets
  <2>2. SlotOf(s, x) = E(s, p) /\ SlotOf(s, y) = E(s, p2)
    BY <1>6 DEF SlotOf
  <2>. HIDE DEF p, p2
  <2>3. /\ 2 * s.nu + (p \div EPieceLen(s)) = 2 * s.nu + (p2 \div EPieceLen(s))
        /\ p % EPieceLen(s) = p2 % EPieceLen(s)
        /\ p \div EPieceLen(s) \in 0..(s.mu - 1) /\ p2 \div EPieceLen(s) \in 0..(s.mu - 1)
    <3>1. /\ E(s, p) = <<2 * s.nu + (p \div EPieceLen(s)), p % EPieceLen(s)>>
          /\ p \div EPieceLen(s) \in 0..(s.mu - 1)
      BY <2>1, ESlot
    <3>2. /\ E(s, p2) = <<2 * s.nu + (p2 \div EPieceLen(s)), p2 % EPieceLen(s)>>
          /\ p2 \div EPieceLen(s) \in 0..(s.mu - 1)
      BY <2>1, ESlot
    <3>3. E(s, p) = E(s, p2)
      BY <2>2, Zenon
    <3>. QED  BY <3>1, <3>2, <3>3
  <2>4. p \div EPieceLen(s) = p2 \div EPieceLen(s)
    BY <1>0, <2>3
  <2>5. p = p2
    BY <1>0, <2>1, <2>3, <2>4, LocateInjective
  <2>. QED  BY <1>6, <2>5, PosInjective DEF p, p2
<1>7. /\ IsZ(x, 0) \/ IsZ(x, 1) \/ IsE(x)
      /\ IsZ(y, 0) \/ IsZ(y, 1) \/ IsE(y)
  BY SourceKinds
<1>. HIDE DEF IsZ, IsE
<1>8. ASSUME NEW u, NEW v, SlotOf(s, u) = SlotOf(s, v)
      PROVE  /\ ~(IsZ(u, 0) /\ IsZ(v, 1))
             /\ ~(IsZ(u, 0) /\ IsE(v))
             /\ ~(IsZ(u, 1) /\ IsE(v))
  BY <1>0, <1>1, <1>2, <1>3, <1>8
<1>. QED  BY <1>4, <1>5, <1>6, <1>7, <1>8

-----------------------------------------------------------------------------
(* The loops.                                                               *)

Before(a, b) ==
  \/ a[1] < b[1]
  \/ a[1] = b[1] /\ (a[2] < b[2] \/ (a[2] = b[2] /\ a[3] < b[3]))

\* The sources the loops have passed.
Passed(x) ==
  \/ x[1] = "z" /\ x[3] < zNext
  \/ x[1] = "V" /\ Before(<<x[2], x[3], x[4]>>, vNext)
  \/ x[1] = "G" /\ Before(<<x[2], x[3], x[4]>>, ghNext)
  \/ x[1] = "H" /\ Before(<<x[2], x[3], x[4] + shape.t2>>, ghNext)

Copied == {x \in Sources(shape) : Passed(x)}

\* The slots hold the sources c, each at its own, and nothing else.
Contents(s, f, c) ==
  /\ DOMAIN f = Slots(s)
  /\ \A x \in c : f[SlotOf(s, x)] = x
  /\ \A slot \in Slots(s) : f[slot] # ZeroSlot => f[slot] \in c /\ SlotOf(s, f[slot]) = slot

\* A loop variable is within its loop, or past the last row; a loop starts
\* when the one before it is over.
Counters ==
  /\ shape \in Shapes
  /\ zNext \in 0..shape.n
  /\ vNext \in (0..shape.r) \X (0..(shape.t1 - 1)) \X (0..(shape.kappa - 1))
  /\ ghNext \in (0..shape.r) \X (0..shape.r) \X (0..(shape.t1 + shape.t2 - 1))
  /\ vNext[1] = shape.r => vNext[2] = 0 /\ vNext[3] = 0
  /\ ghNext[1] <= ghNext[2]
  /\ ghNext[1] < shape.r => ghNext[2] < shape.r
  /\ ghNext[1] = shape.r => ghNext[3] = 0
  /\ zNext < shape.n => vNext = <<0, 0, 0>>
  /\ vNext[1] < shape.r => ghNext = <<0, 0, 0>>

CopyInv == Counters /\ Contents(shape, witness, Copied)

\* Writing one more source disturbs none of the others.
LEMMA WriteKeeps ==
  ASSUME NEW s, Proper(s), NEW f, NEW c \in SUBSET Sources(s), NEW x \in Sources(s),
         x \notin c, Contents(s, f, c)
  PROVE  /\ Contents(s, Write(f, SlotOf(s, x), x), c \cup {x})
         /\ \A slot \in DOMAIN f : f[slot] # ZeroSlot => Write(f, SlotOf(s, x), x)[slot] = f[slot]
<1>. DEFINE g == Write(f, SlotOf(s, x), x)
<1>1. SlotOf(s, x) \in Slots(s) /\ DOMAIN f = Slots(s)
  BY SlotInside DEF Contents
<1>2. /\ DOMAIN g = Slots(s)
      /\ g[SlotOf(s, x)] = x
      /\ \A slot \in Slots(s) : slot # SlotOf(s, x) => g[slot] = f[slot]
  BY <1>1 DEF Write
<1>. HIDE DEF g
<1>3. \A y \in c : SlotOf(s, y) # SlotOf(s, x) /\ SlotOf(s, y) \in Slots(s)
  BY SlotInjective, SlotInside
<1>4. \A y \in c \cup {x} : g[SlotOf(s, y)] = y
  BY <1>2, <1>3 DEF Contents
<1>5. ASSUME NEW slot \in Slots(s), g[slot] # ZeroSlot
      PROVE  g[slot] \in c \cup {x} /\ SlotOf(s, g[slot]) = slot
  BY <1>2, <1>5 DEF Contents
<1>6. \A slot \in Slots(s) : f[slot] # ZeroSlot => slot # SlotOf(s, x)
  BY <1>3 DEF Contents
<1>7. Contents(s, g, c \cup {x})
  BY <1>2, <1>4, <1>5 DEF Contents
<1>8. \A slot \in DOMAIN f : f[slot] # ZeroSlot => g[slot] = f[slot]
  BY <1>1, <1>2, <1>6
<1>. QED  BY <1>7, <1>8 DEF g

LEMMA ShapeIsProper ==
  ASSUME shape \in Shapes
  PROVE  Proper(shape)
  BY ShapesAssumption DEF Proper

-----------------------------------------------------------------------------
(* One lemma per loop: the step passes just the source it copies.           *)

LEMMA AfterCopyZ ==
  ASSUME CopyInv, CopyZ
  PROVE  /\ Counters'
         /\ ZEntry(0, zNext) \in Sources(shape) \ Copied
         /\ ZEntry(1, zNext) \in Sources(shape) \ (Copied \cup {ZEntry(0, zNext)})
         /\ Copied' = Copied \cup {ZEntry(0, zNext)} \cup {ZEntry(1, zNext)}
<1>0. /\ Counters /\ Proper(shape) /\ shape.n \in Nat /\ zNext \in 0..(shape.n - 1)
      /\ UNCHANGED <<shape, vNext, ghNext>> /\ zNext' = zNext + 1
  <2>1. Counters /\ Proper(shape)
    BY ShapeIsProper DEF CopyInv, Counters
  <2>2. shape.n \in Nat
    BY <2>1, Offsets
  <2>. QED  BY <2>1, <2>2 DEF CopyZ, Counters
<1>1. Counters'
  <2>1. zNext' \in 0..shape'.n /\ shape' = shape /\ vNext' = vNext /\ ghNext' = ghNext
    BY <1>0
  <2>2. zNext' < shape'.n => zNext < shape.n
    BY <1>0
  <2>. QED  BY <1>0, <2>1, <2>2 DEF Counters
<1>2. ZEntry(0, zNext) \in Sources(shape) /\ ZEntry(1, zNext) \in Sources(shape)
  BY <1>0 DEF Sources
<1>3. ZEntry(0, zNext) \notin Copied /\ ZEntry(1, zNext) \notin Copied
      /\ ZEntry(0, zNext) # ZEntry(1, zNext)
  BY <1>0 DEF Copied, Passed, ZEntry
<1>4. ASSUME NEW x \in Sources(shape)
      PROVE  Passed(x)' <=> Passed(x) \/ x = ZEntry(0, zNext) \/ x = ZEntry(1, zNext)
  <2>1. CASE x[1] = "z"
    <3>1. x[3] \in 0..(shape.n - 1) /\ (x = ZEntry(0, x[3]) \/ x = ZEntry(1, x[3]))
      BY <2>1, SourceKinds
    <3>2. Passed(x) <=> x[3] < zNext
      BY <2>1 DEF Passed
    <3>3. Passed(x)' <=> x[3] < zNext + 1
      BY <1>0, <2>1 DEF Passed
    <3>4. x = ZEntry(0, zNext) \/ x = ZEntry(1, zNext) => x[3] = zNext
      BY DEF ZEntry
    <3>5. x[3] = zNext => x = ZEntry(0, zNext) \/ x = ZEntry(1, zNext)
      BY <3>1
    <3>6. x[3] < zNext + 1 <=> x[3] < zNext \/ x[3] = zNext
      BY <1>0, <3>1
    <3>. QED  BY <3>2, <3>3, <3>4, <3>5, <3>6
  <2>2. CASE x[1] # "z"
    BY <1>0, <2>2 DEF Passed, ZEntry
  <2>. QED  BY <2>1, <2>2
<1>5. Copied' = Copied \cup {ZEntry(0, zNext)} \cup {ZEntry(1, zNext)}
  BY <1>0, <1>2, <1>4 DEF Copied
<1>. QED  BY <1>1, <1>2, <1>3, <1>5

VAt == <<"V", vNext[1], vNext[2], vNext[3]>>

LEMMA AfterCopyV ==
  ASSUME CopyInv, CopyV
  PROVE  /\ Counters'
         /\ VAt \in Sources(shape) \ Copied
         /\ Copied' = Copied \cup {VAt}
<1>. DEFINE i == vNext[1]  k == vNext[2]  p == vNext[3]
<1>0. /\ Counters /\ Proper(shape) /\ UNCHANGED <<shape, zNext, ghNext>>
      /\ shape.r \in Nat /\ shape.t1 \in Nat /\ shape.kappa \in Nat /\ zNext = shape.n
  <2>1. Counters /\ Proper(shape)
    BY ShapeIsProper DEF CopyInv, Counters
  <2>. QED  BY <2>1, Offsets DEF CopyV
<1>1. i \in 0..(shape.r - 1) /\ k \in 0..(shape.t1 - 1) /\ p \in 0..(shape.kappa - 1)
  BY <1>0 DEF Counters, CopyV
<1>2. vNext' = IF p + 1 < shape.kappa THEN <<i, k, p + 1>>
               ELSE IF k + 1 < shape.t1 THEN <<i, k + 1, 0>> ELSE <<i + 1, 0, 0>>
  BY DEF CopyV
<1>3. ghNext = <<0, 0, 0>>
  BY <1>0, <1>1 DEF Counters
<1>. HIDE DEF i, k, p
<1>4. /\ vNext' \in (0..shape.r) \X (0..(shape.t1 - 1)) \X (0..(shape.kappa - 1))
      /\ vNext'[1] = shape.r => vNext'[2] = 0 /\ vNext'[3] = 0
  BY <1>0, <1>1, <1>2
<1>5. Counters'
  BY <1>0, <1>3, <1>4 DEF Counters
<1>6. VAt \in Sources(shape)
  BY <1>1 DEF VAt, i, k, p, Sources, Entries, VEntries, Below
<1>7. VAt \notin Copied
  BY <1>0, <1>1 DEF VAt, i, k, p, Copied, Passed, Before
<1>8. ASSUME NEW x \in Sources(shape)
      PROVE  Passed(x)' <=> Passed(x) \/ x = VAt
  <2>1. CASE x[1] = "V"
    <3>1. IsV(shape, x)
      BY <2>1, EntryKinds, SourceKinds
    <3>. DEFINE a == x[2]  b == x[3]  c == x[4]
    <3>2. /\ a \in 0..(shape.r - 1) /\ b \in 0..(shape.t1 - 1) /\ c \in 0..(shape.kappa - 1)
          /\ x = <<"V", a, b, c>>
      BY <3>1 DEF IsV
    <3>3. Passed(x) <=> (a < i \/ (a = i /\ (b < k \/ (b = k /\ c < p))))
      BY <2>1 DEF Passed, Before, i, k, p
    <3>4. Passed(x)' <=> (a < vNext'[1] \/ (a = vNext'[1]
                            /\ (b < vNext'[2] \/ (b = vNext'[2] /\ c < vNext'[3]))))
      BY <2>1 DEF Passed, Before
    <3>5. x = VAt <=> a = i /\ b = k /\ c = p
      BY <3>2 DEF VAt, i, k, p
    <3>. HIDE DEF a, b, c
    <3>6. CASE p + 1 < shape.kappa
      BY <1>0, <1>1, <1>2, <3>2, <3>3, <3>4, <3>5, <3>6
    <3>7. CASE ~(p + 1 < shape.kappa) /\ k + 1 < shape.t1
      BY <1>0, <1>1, <1>2, <3>2, <3>3, <3>4, <3>5, <3>7
    <3>8. CASE ~(p + 1 < shape.kappa) /\ ~(k + 1 < shape.t1)
      BY <1>0, <1>1, <1>2, <3>2, <3>3, <3>4, <3>5, <3>8
    <3>. QED  BY <3>6, <3>7, <3>8
  <2>2. CASE x[1] # "V"
    BY <1>0, <2>2 DEF Passed, VAt
  <2>. QED  BY <2>1, <2>2
<1>9. Copied' = Copied \cup {VAt}
  BY <1>0, <1>6, <1>8 DEF Copied
<1>. QED  BY <1>5, <1>6, <1>7, <1>9

GHAt ==
  IF ghNext[3] < shape.t2 THEN <<"G", ghNext[1], ghNext[2], ghNext[3]>>
  ELSE <<"H", ghNext[1], ghNext[2], ghNext[3] - shape.t2>>

LEMMA AfterCopyGH ==
  ASSUME CopyInv, CopyGH
  PROVE  /\ Counters'
         /\ GHAt \in Sources(shape) \ Copied
         /\ Copied' = Copied \cup {GHAt}
<1>. DEFINE i == ghNext[1]  j == ghNext[2]  n == ghNext[3]
<1>0. /\ Counters /\ Proper(shape) /\ UNCHANGED <<shape, zNext, vNext>>
      /\ shape.r \in Nat /\ shape.t1 \in Nat /\ shape.t2 \in Nat /\ vNext[1] = shape.r
  <2>1. Counters /\ Proper(shape)
    BY ShapeIsProper DEF CopyInv, Counters
  <2>. QED  BY <2>1, Offsets DEF CopyGH
<1>1. i \in 0..(shape.r - 1) /\ j \in 0..(shape.r - 1) /\ i <= j
      /\ n \in 0..(shape.t1 + shape.t2 - 1)
  BY <1>0 DEF Counters, CopyGH
<1>2. ghNext' = IF n + 1 < shape.t2 + shape.t1 THEN <<i, j, n + 1>>
                ELSE IF j + 1 < shape.r THEN <<i, j + 1, 0>> ELSE <<i + 1, i + 1, 0>>
  BY DEF CopyGH
<1>3. shape.t1 > 0 /\ shape.t2 > 0
  BY <1>0, Offsets
<1>. HIDE DEF i, j, n
<1>4. /\ ghNext' \in (0..shape.r) \X (0..shape.r) \X (0..(shape.t1 + shape.t2 - 1))
      /\ ghNext'[1] <= ghNext'[2]
      /\ ghNext'[1] < shape.r => ghNext'[2] < shape.r
      /\ ghNext'[1] = shape.r => ghNext'[3] = 0
  BY <1>0, <1>1, <1>2, <1>3
<1>5. Counters'
  BY <1>0, <1>4 DEF Counters
<1>6. GHAt \in Sources(shape)
  <2>1. CASE n < shape.t2
    BY <1>0, <1>1, <2>1 DEF GHAt, i, j, n, Sources, Entries, GEntries, Below
  <2>2. CASE ~(n < shape.t2)
    BY <1>0, <1>1, <2>2 DEF GHAt, i, j, n, Sources, Entries, HEntries, Below
  <2>. QED  BY <2>1, <2>2
<1>7. GHAt \notin Copied
  BY <1>0, <1>1 DEF GHAt, i, j, n, Copied, Passed, Before
<1>8. ASSUME NEW x \in Sources(shape)
      PROVE  Passed(x)' <=> Passed(x) \/ x = GHAt
  <2>. DEFINE a == x[2]  b == x[3]  c == IF x[1] = "G" THEN x[4] ELSE x[4] + shape.t2
  <2>1. CASE x[1] = "G" \/ x[1] = "H"
    <3>1. x[1] = "G" => IsTriangle(shape, x, "G", shape.t2)
      BY EntryKinds, SourceKinds
    <3>2. x[1] = "H" => IsTriangle(shape, x, "H", shape.t1)
      BY EntryKinds, SourceKinds
    <3>3. /\ a \in 0..(shape.r - 1) /\ b \in 0..(shape.r - 1) /\ a <= b
          /\ c \in 0..(shape.t1 + shape.t2 - 1)
          /\ x[1] = "G" <=> c < shape.t2
          /\ x[1] = "G" => x = <<"G", a, b, c>>
          /\ x[1] = "H" => x = <<"H", a, b, c - shape.t2>>
      <4>1. CASE x[1] = "G"
        BY <1>0, <3>1, <4>1 DEF IsTriangle
      <4>2. CASE x[1] = "H"
        BY <1>0, <3>2, <4>2 DEF IsTriangle
      <4>. QED  BY <2>1, <4>1, <4>2
    <3>4. Passed(x) <=> (a < i \/ (a = i /\ (b < j \/ (b = j /\ c < n))))
      BY <2>1 DEF Passed, Before, i, j, n
    <3>5. Passed(x)' <=> (a < ghNext'[1] \/ (a = ghNext'[1]
                            /\ (b < ghNext'[2] \/ (b = ghNext'[2] /\ c < ghNext'[3]))))
      BY <1>0, <2>1 DEF Passed, Before
    <3>6. x = GHAt <=> a = i /\ b = j /\ c = n
      <4>1. CASE n < shape.t2
        BY <1>0, <1>1, <2>1, <3>3, <4>1 DEF GHAt, i, j, n
      <4>2. CASE ~(n < shape.t2)
        BY <1>0, <1>1, <2>1, <3>3, <4>2 DEF GHAt, i, j, n
      <4>. QED  BY <4>1, <4>2
    <3>7. /\ a \in 0..(shape.r - 1) /\ b \in 0..(shape.r - 1) /\ a <= b
          /\ c \in 0..(shape.t1 + shape.t2 - 1)
      BY <3>3
    <3>. HIDE DEF a, b, c
    <3>8. CASE n + 1 < shape.t2 + shape.t1
      BY <1>0, <1>1, <1>2, <3>4, <3>5, <3>6, <3>7, <3>8
    <3>9. CASE ~(n + 1 < shape.t2 + shape.t1) /\ j + 1 < shape.r
      BY <1>0, <1>1, <1>2, <3>4, <3>5, <3>6, <3>7, <3>9
    <3>10. CASE ~(n + 1 < shape.t2 + shape.t1) /\ ~(j + 1 < shape.r)
      BY <1>0, <1>1, <1>2, <3>4, <3>5, <3>6, <3>7, <3>10
    <3>. QED  BY <3>8, <3>9, <3>10
  <2>2. CASE x[1] # "G" /\ x[1] # "H"
    BY <1>0, <2>2 DEF Passed, GHAt
  <2>. QED  BY <2>1, <2>2
<1>9. Copied' = Copied \cup {GHAt}
  BY <1>0, <1>6, <1>8 DEF Copied
<1>. QED  BY <1>5, <1>6, <1>7, <1>9

-----------------------------------------------------------------------------
(* The theorems.                                                            *)

\* What a step writes never replaces what was written.
Untouched == \A slot \in DOMAIN witness : witness[slot] # ZeroSlot => witness'[slot] = witness[slot]

LEMMA CopyInitHolds == CopyInit => CopyInv
<1>. SUFFICES ASSUME CopyInit PROVE CopyInv
  OBVIOUS
<1>0. Proper(shape) /\ shape \in Shapes
  BY ShapeIsProper DEF CopyInit
<1>1. /\ shape.n \in Nat /\ shape.r \in Nat /\ shape.t1 \in Nat /\ shape.t2 \in Nat
      /\ shape.kappa \in Nat /\ shape.r > 0 /\ shape.t1 > 0 /\ shape.t2 > 0 /\ shape.kappa > 0
  BY <1>0, Offsets
<1>2. Counters
  BY <1>0, <1>1 DEF CopyInit, Counters
<1>3. ASSUME NEW x \in Sources(shape)
      PROVE  ~Passed(x)
  <2>1. CASE x[1] = "z"
    <3>1. x[3] \in 0..(shape.n - 1)
      BY <2>1, SourceKinds
    <3>. QED  BY <1>1, <2>1, <3>1 DEF Passed, CopyInit
  <2>2. CASE x[1] # "z"
    <3>1. x \in Entries(shape)
      BY <2>2, SourceKinds
    <3>2. x[1] = "V" => ~Before(<<x[2], x[3], x[4]>>, vNext)
      <4>1. SUFFICES ASSUME x[1] = "V" PROVE ~Before(<<x[2], x[3], x[4]>>, vNext)
        OBVIOUS
      <4>2. IsV(shape, x)
        BY <3>1, <4>1, EntryKinds
      <4>. QED  BY <1>1, <4>2 DEF IsV, Before, CopyInit
    <3>3. x[1] = "G" => ~Before(<<x[2], x[3], x[4]>>, ghNext)
      <4>1. SUFFICES ASSUME x[1] = "G" PROVE ~Before(<<x[2], x[3], x[4]>>, ghNext)
        OBVIOUS
      <4>2. IsTriangle(shape, x, "G", shape.t2)
        BY <3>1, <4>1, EntryKinds
      <4>. QED  BY <1>1, <4>2 DEF IsTriangle, Before, CopyInit
    <3>4. x[1] = "H" => ~Before(<<x[2], x[3], x[4] + shape.t2>>, ghNext)
      <4>1. SUFFICES ASSUME x[1] = "H" PROVE ~Before(<<x[2], x[3], x[4] + shape.t2>>, ghNext)
        OBVIOUS
      <4>2. IsTriangle(shape, x, "H", shape.t1)
        BY <3>1, <4>1, EntryKinds
      <4>. QED  BY <1>1, <4>2 DEF IsTriangle, Before, CopyInit
    <3>. QED  BY <2>2, <3>2, <3>3, <3>4 DEF Passed
  <2>. QED  BY <2>1, <2>2
<1>4. Copied = {}
  BY <1>3 DEF Copied
<1>5. Contents(shape, witness, {})
  BY DEF Contents, CopyInit
<1>. QED  BY <1>2, <1>4, <1>5 DEF CopyInv

LEMMA CopyStepHolds == CopyInv /\ [CopyNext]_copyVars => CopyInv' /\ Untouched
<1>. SUFFICES ASSUME CopyInv, [CopyNext]_copyVars
              PROVE  CopyInv' /\ Untouched
  OBVIOUS
<1>0. /\ Proper(shape) /\ Contents(shape, witness, Copied) /\ Copied \in SUBSET Sources(shape)
      /\ shape.n \in Nat /\ Counters
  <2>1. Proper(shape) /\ Contents(shape, witness, Copied) /\ Counters
    BY ShapeIsProper DEF CopyInv, Counters
  <2>. QED  BY <2>1, Offsets DEF Copied
<1>1. CASE CopyZ
  <2>. DEFINE x == ZEntry(0, zNext)
              y == ZEntry(1, zNext)
              g == Write(witness, SlotOf(shape, x), x)
  <2>1. /\ Counters' /\ x \in Sources(shape) \ Copied
        /\ y \in Sources(shape) \ (Copied \cup {x})
        /\ Copied' = Copied \cup {x} \cup {y} /\ shape' = shape
    BY <1>1, AfterCopyZ DEF CopyZ
  <2>2. witness' = Write(g, SlotOf(shape, y), y)
    BY <1>1 DEF CopyZ, SlotOf, ZEntry
  <2>. HIDE DEF x, y
  <2>3. /\ Contents(shape, g, Copied \cup {x})
        /\ \A slot \in DOMAIN witness : witness[slot] # ZeroSlot => g[slot] = witness[slot]
    BY <1>0, <2>1, WriteKeeps
  <2>. HIDE DEF g
  <2>4. /\ Contents(shape, witness', Copied \cup {x} \cup {y})
        /\ \A slot \in DOMAIN g : g[slot] # ZeroSlot => witness'[slot] = g[slot]
    BY <1>0, <2>1, <2>2, <2>3, WriteKeeps
  <2>5. DOMAIN g = DOMAIN witness
    BY <1>0, <2>3 DEF Contents
  <2>6. CopyInv'
    BY <2>1, <2>4 DEF CopyInv
  <2>7. Untouched
    BY <2>3, <2>4, <2>5 DEF Untouched
  <2>. QED  BY <2>6, <2>7
<1>2. CASE CopyV
  <2>1. /\ Counters' /\ VAt \in Sources(shape) \ Copied
        /\ Copied' = Copied \cup {VAt} /\ shape' = shape
    BY <1>2, AfterCopyV DEF CopyV
  <2>2. witness' = Write(witness, SlotOf(shape, VAt), VAt)
    BY <1>2 DEF CopyV, SlotOf, VAt
  <2>3. /\ Contents(shape, witness', Copied \cup {VAt})
        /\ \A slot \in DOMAIN witness : witness[slot] # ZeroSlot => witness'[slot] = witness[slot]
    BY <1>0, <2>1, <2>2, WriteKeeps
  <2>. QED  BY <2>1, <2>3 DEF CopyInv, Untouched
<1>3. CASE CopyGH
  <2>1. /\ Counters' /\ GHAt \in Sources(shape) \ Copied
        /\ Copied' = Copied \cup {GHAt} /\ shape' = shape
    BY <1>3, AfterCopyGH DEF CopyGH
  <2>2. witness' = Write(witness, SlotOf(shape, GHAt), GHAt)
    <3>1. witness' = Write(witness, E(shape, Pos(shape, GHAt)), GHAt)
      BY <1>3 DEF CopyGH, GHAt
    <3>2. GHAt[1] # "z"
      BY DEF GHAt
    <3>. QED  BY <3>1, <3>2 DEF SlotOf
  <2>3. /\ Contents(shape, witness', Copied \cup {GHAt})
        /\ \A slot \in DOMAIN witness : witness[slot] # ZeroSlot => witness'[slot] = witness[slot]
    BY <1>0, <2>1, <2>2, WriteKeeps
  <2>. QED  BY <2>1, <2>3 DEF CopyInv, Untouched
<1>4. CASE UNCHANGED copyVars
  <2>1. Counters' /\ Copied' = Copied
    BY <1>0, <1>4 DEF copyVars, Counters, Copied, Passed, Before
  <2>. QED  BY <1>0, <1>4, <2>1 DEF copyVars, CopyInv, Untouched
<1>. QED  BY <1>1, <1>2, <1>3, <1>4 DEF CopyNext

\* The invariant is inductive.
LEMMA CopyInvariance == CopySpec => []CopyInv
  BY CopyInitHolds, CopyStepHolds, PTL DEF CopySpec

\* The types of the witness and of the loop variables: a filled slot holds a
\* source, and no loop runs past its last row.
THEOREM TypesHold == CopySpec => []TypeOK
<1>1. CopyInv => TypeOK
  BY DEF CopyInv, Counters, Contents, Copied, TypeOK
<1>. QED  BY <1>1, CopyInvariance, PTL

\* No write is outside the r' vectors of length n', for every shape: the
\* indexing of build_folded_witness never panics.
THEOREM AllWritesFit == CopySpec => []FitsVectors
<1>1. CopyInv => FitsVectors
  BY DEF CopyInv, Contents, FitsVectors
<1>. QED  BY <1>1, CopyInvariance, PTL

\* The claim of fold.rs:581, for every shape: no write hits a slot written before.
THEOREM WritesAreApart == CopySpec => NonOverlapping
<1>1. CopyInv /\ [CopyNext]_copyVars => [Untouched]_copyVars
  BY CopyStepHolds
<1>. QED  BY <1>1, CopyInvariance, PTL DEF CopySpec, NonOverlapping, Untouched

\* When the loops are over every opening is at the slot where the constraint
\* builders of fold.rs look it up, and every other slot is zero.
THEOREM AllPlaced == CopySpec => []Placed
<1>1. ASSUME CopyInv, Done, NEW x \in Sources(shape)
      PROVE  Passed(x)
  <2>0. /\ Counters /\ shape.n \in Nat /\ shape.r \in Nat /\ shape.t1 \in Nat /\ shape.t2 \in Nat
        /\ shape.kappa \in Nat /\ shape.r > 0
    <3>1. Counters /\ Proper(shape)
      BY <1>1, ShapeIsProper DEF CopyInv, Counters
    <3>. QED  BY <3>1, Offsets
  <2>1. ghNext[1] = shape.r /\ vNext[1] = shape.r /\ zNext = shape.n
    <3>1. ghNext[1] = shape.r
      BY <1>1 DEF Done
    <3>2. vNext[1] = shape.r
      BY <2>0, <3>1 DEF Counters
    <3>. QED  BY <2>0, <3>1, <3>2 DEF Counters
  <2>2. CASE x[1] = "z"
    <3>1. x[3] \in 0..(shape.n - 1)
      BY <2>2, SourceKinds
    <3>. QED  BY <2>0, <2>1, <2>2, <3>1 DEF Passed
  <2>3. CASE x[1] # "z"
    <3>1. x[1] = "V" \/ x[1] = "G" \/ x[1] = "H"
      BY <2>3, SourceKinds, EntryKinds
    <3>2. x[2] \in 0..(shape.r - 1)
      BY <2>3, SourceKinds, EntryKinds DEF IsV, IsTriangle
    <3>. QED  BY <2>0, <2>1, <3>1, <3>2 DEF Passed, Before
  <2>. QED  BY <2>2, <2>3
<1>2. CopyInv => Placed
  <2>1. SUFFICES ASSUME CopyInv, Done
                 PROVE  /\ \A x \in Sources(shape) : witness[SlotOf(shape, x)] = x
                        /\ \A slot \in DOMAIN witness : witness[slot] # ZeroSlot => SlotOf(shape, witness[slot]) = slot
    BY DEF Placed
  <2>2. Copied = Sources(shape) /\ Contents(shape, witness, Copied)
    BY <1>1, <2>1 DEF CopyInv, Copied
  <2>. QED  BY <2>2 DEF Contents
<1>. QED  BY <1>2, CopyInvariance, PTL

-----------------------------------------------------------------------------
(* The sums of integers and of elements, and FoldFunction as one of them.   *)
AddE == [x \in Elems \X Elems |-> Add(x[1], x[2])]
SumE(f) == SumOf(AddE, Zero, f)

LEMMA FoldFunctionIsSum ==
  ASSUME NEW S, NEW f, IsFamily(f, S, Int)
  PROVE  FoldFunction(+, 0, f) = SumZ(f) /\ SumZ(f) \in Int
<1>1. IsFiniteSet(S) /\ f \in [S -> Int] /\ DOMAIN f = S
  BY DEF IsFamily
<1>. DEFINE Body(h) == h = [s \in SUBSET S |-> IF s = {} THEN 0 ELSE f[Pick(s)] + h[s \ {Pick(s)}]]
            it0 == CHOOSE h : Body(h)
<1>2. PICK h : IsFold(PlusZ, 0, f, h)
  BY <1>1, Ints, FoldExists
<1>3. FoldsOn(SUBSET S, PlusZ, 0, f, h)
  BY <1>1, <1>2 DEF IsFold, FoldsOn
<1>4. \A s \in SUBSET S : h[s] \in Int
  BY <1>1, <1>3, Ints, FoldsInside
<1>5. Body(h)
  BY <1>1, <1>2, <1>4, PickedOut DEF IsFold, PlusZ
<1>6. Body(it0)
  BY <1>5, Zenon
<1>7. FoldFunction(+, 0, f) = it0[S]
  BY <1>1, Zenon DEF FoldFunction, FoldFunctionOnSet, MapThenFoldSet, Pick
<1>8. \A s \in SUBSET S : h[s] = IF s = {} THEN 0 ELSE f[Pick(s)] + h[s \ {Pick(s)}]
  BY <1>5
<1>9. \A s \in SUBSET S : it0[s] = IF s = {} THEN 0 ELSE f[Pick(s)] + it0[s \ {Pick(s)}]
  <2>. DEFINE k == it0
  <2>1. Body(k)
    BY <1>6
  <2>. HIDE DEF k
  <2>2. \A s \in SUBSET S : k[s] = IF s = {} THEN 0 ELSE f[Pick(s)] + k[s \ {Pick(s)}]
    BY <2>1
  <2>. QED  BY <2>2 DEF k
<1>. HIDE DEF Body, it0
<1>10. SUBSET S \subseteq {s \in SUBSET S : it0[s] = h[s]}
  <2>. DEFINE X == {s \in SUBSET S : it0[s] = h[s]}
  <2>1. {} \in X
    BY <1>8, <1>9
  <2>2. \A s \in SUBSET S : s # {} /\ s \ {Pick(s)} \in X => s \in X
    BY <1>8, <1>9
  <2>. HIDE DEF X
  <2>3. SUBSET S \subseteq X
    BY <1>1, <2>1, <2>2, ByPicks
  <2>. QED  BY <2>3 DEF X
<1>11. it0[S] = h[S] /\ h[S] \in Int
  BY <1>4, <1>10
<1>12. h[S] = SumOf(PlusZ, 0, Part(f, S)) /\ Part(f, S) = f
  BY <1>1, <1>2, Ints, FoldIsSum, PartOf
<1>. QED BY <1>7, <1>11, <1>12 DEF SumZ

LEMMA AddIn ==
  ASSUME NEW x \in Elems, NEW y \in Elems
  PROVE  Add(x, y) \in Elems /\ \A k \in Coeffs : Add(x, y)[k] = (x[k] + y[k]) % q
<1>1. q \in Nat \ {0}
  BY RingAssumption DEF IsModulus
<1>2. \A k \in Coeffs : x[k] \in Int /\ y[k] \in Int
  BY <1>1 DEF Elems, Residues
<1>. QED  BY <1>1, <1>2 DEF Elems, Add, Residues

-----------------------------------------------------------------------------
(* Remainders.                                                              *)
LEMMA ModIs ==
  ASSUME NEW a \in Int, NEW b \in Nat, b > 0, NEW k \in Int, NEW r \in 0..(b - 1),
         a = b * k + r
  PROVE  a % b = r /\ a \div b = k
BY Z3

LEMMA ModuloIs ==
  ASSUME NEW k \in Int, NEW r \in Residues(q), NEW a \in Int, a = q * k + r
  PROVE  a % q = r
<1>1. q \in Nat /\ q >= 3
  BY RingAssumption DEF IsModulus
<1>. QED  BY <1>1, ModIs DEF Residues

LEMMA Modulo ==
  ASSUME NEW a \in Int
  PROVE  /\ a % q \in Residues(q) /\ a % q \in Int
         /\ \E k \in Int : a = q * k + (a % q)
         /\ a \in Residues(q) => a % q = a
<1>1. q \in Nat /\ q >= 3
  BY RingAssumption DEF IsModulus
<1>2. /\ a % q \in 0..(q - 1) /\ a \div q \in Int /\ a = q * (a \div q) + (a % q)
  BY <1>1, Z3
<1>3. a \in Residues(q) => a % q = a
  BY <1>1, a = q * 0 + a, ModuloIs
<1>4. a % q \in Residues(q) /\ a % q \in Int
  BY <1>1, <1>2 DEF Residues
<1>5. \E k \in Int : a = q * k + (a % q)
  <2>. DEFINE d == a \div q
              r == a % q
  <2>1. d \in Int /\ a = q * d + r
    BY <1>2
  <2>. HIDE DEF d
  <2>. QED  BY <2>1
<1>. QED  BY <1>3, <1>4, <1>5

LEMMA ModuloOf ==
  ASSUME NEW a \in Int, NEW b \in Int, NEW k \in Int, a = b + q * k
  PROVE  a % q = b % q
<1>1. q \in Nat /\ q >= 3
  BY RingAssumption DEF IsModulus
<1>2. PICK j \in Int : b = q * j + (b % q)
  BY Modulo
<1>. DEFINE r == b % q
<1>3. r \in Residues(q) /\ r \in Int
  BY Modulo
<1>. HIDE DEF r
<1>4. a = q * (j + k) + r
  BY <1>1, <1>2, <1>3 DEF r
<1>5. a % q = r
  BY <1>3, <1>4, ModuloIs
<1>. QED  BY <1>5 DEF r

LEMMA ModuloLaws ==
  ASSUME NEW a \in Int, NEW b \in Int
  PROVE  /\ ((a % q) + b) % q = (a + b) % q /\ (a + (b % q)) % q = (a + b) % q
         /\ ((a % q) - b) % q = (a - b) % q /\ (a - (b % q)) % q = (a - b) % q
         /\ ((a % q) * b) % q = (a * b) % q /\ (a * (b % q)) % q = (a * b) % q
         /\ (-(a % q)) % q = (-a) % q
<1>1. q \in Nat /\ q >= 3
  BY RingAssumption DEF IsModulus
<1>2. PICK j \in Int, k \in Int : a = q * j + (a % q) /\ b = q * k + (b % q)
  BY Modulo
<1>. DEFINE r == a % q
            s == b % q
<1>3. r \in Int /\ s \in Int
  BY Modulo
<1>4. a = q * j + r /\ b = q * k + s
  BY <1>2
<1>. HIDE DEF r, s
<1>5. /\ r + b = (a + b) + q * (-j) /\ a + s = (a + b) + q * (-k)
      /\ r - b = (a - b) + q * (-j) /\ a - s = (a - b) + q * k
      /\ -r = -a + q * j
  BY <1>1, <1>3, <1>4
<1>6. r * b = a * b + q * (-(j * b)) /\ a * s = a * b + q * (-(a * k))
  BY <1>1, <1>3, <1>4, Z3
<1>7. /\ r + b \in Int /\ a + b \in Int /\ a + s \in Int /\ r - b \in Int /\ a - b \in Int /\ a - s \in Int
      /\ -r \in Int /\ -a \in Int /\ -j \in Int /\ -k \in Int /\ r * b \in Int /\ a * b \in Int
      /\ a * s \in Int /\ -(j * b) \in Int /\ -(a * k) \in Int
  BY <1>3
<1>8. (r + b) % q = (a + b) % q /\ (a + s) % q = (a + b) % q
  BY <1>5, <1>7, ModuloOf
<1>9. (r - b) % q = (a - b) % q /\ (a - s) % q = (a - b) % q /\ (-r) % q = (-a) % q
  BY <1>5, <1>7, ModuloOf
<1>10. (r * b) % q = (a * b) % q /\ (a * s) % q = (a * b) % q
  BY <1>6, <1>7, ModuloOf
<1>. QED  BY <1>8, <1>9, <1>10 DEF r, s

-----------------------------------------------------------------------------
(* The residues are a commutative ring.                                     *)
R == Residues(q)
Plus(a, b) == (a + b) % q
Times(a, b) == (a * b) % q
Minus(a) == (-a) % q

LEMMA ResidueFacts == q \in Nat /\ q >= 3 /\ q % 2 = 1 /\ R \subseteq Int /\ 0 \in R /\ 1 \in R
  BY RingAssumption DEF IsModulus, R, Residues

LEMMA ResiduesClosed ==
  ASSUME NEW a \in R, NEW b \in R
  PROVE  Plus(a, b) \in R /\ Times(a, b) \in R /\ Minus(a) \in R /\ a \in Int /\ a % q = a
<1>1. a \in Int /\ b \in Int /\ a + b \in Int /\ a * b \in Int /\ -a \in Int
  BY ResidueFacts
<1>2. (a + b) % q \in R /\ (a * b) % q \in R /\ (-a) % q \in R /\ a % q = a
  BY <1>1, Modulo DEF R
<1>. QED  BY <1>1, <1>2 DEF Plus, Times, Minus

LEMMA ResidueRing ==
  ASSUME NEW a \in R, NEW b \in R, NEW c \in R
  PROVE  /\ Plus(a, b) = Plus(b, a) /\ Plus(Plus(a, b), c) = Plus(a, Plus(b, c)) /\ Plus(0, a) = a
         /\ Times(a, b) = Times(b, a) /\ Times(Times(a, b), c) = Times(a, Times(b, c))
         /\ Times(1, a) = a /\ Times(0, a) = 0
         /\ Times(a, Plus(b, c)) = Plus(Times(a, b), Times(a, c))
         /\ Plus(a, Minus(a)) = 0 /\ Minus(Minus(a)) = a
         /\ Minus(Plus(a, b)) = Plus(Minus(a), Minus(b))
         /\ Times(a, Minus(b)) = Minus(Times(a, b)) /\ Minus(0) = 0
<1>1. a \in Int /\ b \in Int /\ c \in Int /\ a % q = a /\ q \in Int
  BY ResidueFacts, ResiduesClosed
<1>z. 0 % q = 0
  BY ResidueFacts, Modulo DEF R
<1>2. Plus(a, b) = Plus(b, a) /\ Plus(0, a) = a
  BY <1>1 DEF Plus
<1>3. Plus(Plus(a, b), c) = Plus(a, Plus(b, c))
  <2>0. a + b \in Int /\ b + c \in Int
    BY <1>1
  <2>1. (((a + b) % q) + c) % q = ((a + b) + c) % q
    BY <1>1, <2>0, ModuloLaws
  <2>2. (a + ((b + c) % q)) % q = (a + (b + c)) % q
    BY <1>1, <2>0, ModuloLaws
  <2>3. (a + b) + c = a + (b + c)
    BY <1>1
  <2>. QED  BY <2>1, <2>2, <2>3 DEF Plus
<1>4. Times(a, b) = Times(b, a) /\ Times(1, a) = a /\ Times(0, a) = 0
  <2>1. a * b = b * a /\ 1 * a = a /\ 0 * a = 0
    BY <1>1, Z3
  <2>. QED  BY <1>1, <1>z, <2>1 DEF Times
<1>5. Times(Times(a, b), c) = Times(a, Times(b, c))
  <2>0. a * b \in Int /\ b * c \in Int
    BY <1>1
  <2>1. (((a * b) % q) * c) % q = ((a * b) * c) % q
    BY <1>1, <2>0, ModuloLaws
  <2>2. (a * ((b * c) % q)) % q = (a * (b * c)) % q
    BY <1>1, <2>0, ModuloLaws
  <2>3. (a * b) * c = a * (b * c)
    BY <1>1, Z3
  <2>. QED  BY <2>1, <2>2, <2>3 DEF Times
<1>6. Times(a, Plus(b, c)) = Plus(Times(a, b), Times(a, c))
  <2>0. a * b \in Int /\ a * c \in Int /\ b + c \in Int /\ (a * c) % q \in Int
    BY <1>1, Modulo
  <2>1. (a * ((b + c) % q)) % q = (a * (b + c)) % q
    BY <1>1, <2>0, ModuloLaws
  <2>2. (((a * b) % q) + ((a * c) % q)) % q = (a * b + ((a * c) % q)) % q
    BY <1>1, <2>0, ModuloLaws
  <2>3. (a * b + ((a * c) % q)) % q = (a * b + a * c) % q
    BY <1>1, <2>0, ModuloLaws
  <2>4. a * (b + c) = a * b + a * c
    BY <1>1, Z3
  <2>. QED  BY <2>1, <2>2, <2>3, <2>4 DEF Plus, Times
<1>7. Plus(a, Minus(a)) = 0
  <2>1. (a + ((-a) % q)) % q = (a + (-a)) % q
    BY <1>1, ModuloLaws
  <2>2. a + (-a) = 0
    BY <1>1
  <2>. QED  BY <1>z, <2>1, <2>2 DEF Plus, Minus
<1>8. Minus(Minus(a)) = a /\ Minus(0) = 0
  <2>0. -a \in Int
    BY <1>1
  <2>1. (-((-a) % q)) % q = (-(-a)) % q
    BY <2>0, ModuloLaws
  <2>2. -(-a) = a
    BY <1>1, Z3
  <2>3. ASSUME NEW n \in Int, n >= 0, n <= 0 PROVE Minus(n) = n
    <3>1. -n = n
      BY <2>3
    <3>2. n % q = n
      BY <2>3, <1>z
    <3>. QED  BY <3>1, <3>2 DEF Minus
  <2>4. Minus(0) = 0
    BY <2>3
  <2>. QED  BY <1>1, <2>1, <2>2, <2>4 DEF Minus
<1>9. Minus(Plus(a, b)) = Plus(Minus(a), Minus(b))
  <2>0. a + b \in Int /\ -a \in Int /\ -b \in Int /\ (-b) % q \in Int
    BY <1>1, Modulo
  <2>1. (-((a + b) % q)) % q = (-(a + b)) % q
    BY <2>0, ModuloLaws
  <2>2. (((-a) % q) + ((-b) % q)) % q = (-a + ((-b) % q)) % q
    BY <2>0, ModuloLaws
  <2>3. (-a + ((-b) % q)) % q = (-a + -b) % q
    BY <2>0, ModuloLaws
  <2>4. -(a + b) = -a + -b
    BY <1>1
  <2>. QED  BY <2>1, <2>2, <2>3, <2>4 DEF Plus, Minus
<1>10. Times(a, Minus(b)) = Minus(Times(a, b))
  <2>0. a * b \in Int /\ -b \in Int
    BY <1>1
  <2>1. (a * ((-b) % q)) % q = (a * (-b)) % q
    BY <1>1, <2>0, ModuloLaws
  <2>2. (-((a * b) % q)) % q = (-(a * b)) % q
    BY <1>1, <2>0, ModuloLaws
  <2>3. a * (-b) = -(a * b)
    BY <1>1, Z3
  <2>. QED  BY <2>1, <2>2, <2>3 DEF Times, Minus
<1>. QED  BY <1>2, <1>3, <1>4, <1>5, <1>6, <1>7, <1>8, <1>9, <1>10

AddQ == [x \in R \X R |-> Plus(x[1], x[2])]
SumQ(f) == SumOf(AddQ, 0, f)

LEMMA ResidueSums == IsMonoid(R, AddQ, 0) /\ \A a, b \in R : AddQ[<<a, b>>] = Plus(a, b)
<1>1. AddQ \in [R \X R -> R] /\ \A a, b \in R : AddQ[<<a, b>>] = Plus(a, b)
  BY ResiduesClosed DEF AddQ
<1>2. \A a, b \in R : Plus(a, b) \in R
  BY ResiduesClosed
<1>3. \A a \in R : Plus(0, a) = a
  BY ResidueRing
<1>4. \A a, b \in R : Plus(a, b) = Plus(b, a)
  BY ResidueRing
<1>5. \A a, b, c \in R : Plus(a, Plus(b, c)) = Plus(Plus(a, b), c)
  BY ResidueRing
<1>6. ASSUME NEW a \in R, NEW b \in R, NEW c \in R
      PROVE  AddQ[<<a, AddQ[<<b, c>>]>>] = AddQ[<<AddQ[<<a, b>>], c>>]
  BY <1>1, <1>2, <1>5
<1>. QED  BY <1>1, <1>3, <1>4, <1>6, ResidueFacts DEF IsMonoid

\* A family, and a function of its members.
LEMMA FamilySums ==
  ASSUME NEW S, NEW f, IsFamily(f, S, R)
  PROVE  SumQ(f) \in R
  BY ResidueSums, SumBasics DEF IsFamily, SumQ

\* The residue of a sum of integers.
LEMMA SumModulo ==
  ASSUME NEW S, NEW f, IsFamily(f, S, Int), NEW g, IsFamily(g, S, R), \A x \in S : g[x] = f[x] % q
  PROVE  SumZ(f) % q = SumQ(g)
<1>. DEFINE H == [a \in Int |-> a % q]
<1>1. IsAdditive(H, Int, PlusZ, 0, R, AddQ, 0)
  <2>1. H \in [Int -> R] /\ \A a \in Int : H[a] = a % q
    BY Modulo DEF R
  <2>2. H[0] = 0
    BY <2>1, Modulo, ResidueFacts DEF R
  <2>. HIDE DEF H
  <2>3. ASSUME NEW a \in Int, NEW b \in Int PROVE H[PlusZ[<<a, b>>]] = AddQ[<<H[a], H[b]>>]
    <3>1. H[PlusZ[<<a, b>>]] = (a + b) % q
      BY <2>1 DEF PlusZ
    <3>2. AddQ[<<H[a], H[b]>>] = ((a % q) + (b % q)) % q
      BY <2>1, ResidueSums DEF Plus
    <3>3. ((a % q) + (b % q)) % q = (a + b) % q
      <4>0. b % q \in Int
        BY Modulo
      <4>1. ((a % q) + (b % q)) % q = (a + (b % q)) % q
        BY <4>0, ModuloLaws
      <4>2. (a + (b % q)) % q = (a + b) % q
        BY ModuloLaws
      <4>. QED  BY <4>1, <4>2
    <3>. QED  BY <3>1, <3>2, <3>3
  <2>. QED  BY <2>1, <2>2, <2>3 DEF IsAdditive
<1>2. H[SumZ(f)] = SumZ(f) % q
  BY FoldFunctionIsSum
<1>3. \A x \in S : g[x] = H[f[x]]
  BY DEF IsFamily
<1>4. IsFiniteSet(S) /\ f \in [S -> Int] /\ g \in [S -> R]
  BY DEF IsFamily
<1>. HIDE DEF H
<1>5. H[SumOf(PlusZ, 0, f)] = SumOf(AddQ, 0, g)
  BY <1>1, <1>3, <1>4, Ints, ResidueSums, SumThrough
<1>. QED  BY <1>2, <1>5 DEF SumZ, SumQ

-----------------------------------------------------------------------------
(* Elements add up coefficient by coefficient.                              *)
LEMMA ElemFacts ==
  /\ Elems = [Coeffs -> R] /\ 0 \in Coeffs /\ IsFiniteSet(Coeffs)
  /\ Zero \in Elems /\ \A k \in Coeffs : Zero[k] = 0
  /\ \A k \in Coeffs : k \in Nat /\ k < D /\ D \in Nat \ {0}
<1>1. D \in Nat \ {0}
  BY RingAssumption
<1>2. IsFiniteSet(Coeffs)
  BY <1>1, FS_Interval DEF Coeffs
<1>. QED  BY <1>1, <1>2, ResidueFacts DEF Coeffs, Elems, R, Zero

LEMMA AddLaws ==
  ASSUME NEW x \in Elems, NEW y \in Elems
  PROVE  Add(x, y) \in Elems /\ \A k \in Coeffs : Add(x, y)[k] = Plus(x[k], y[k])
<1>1. \A k \in Coeffs : x[k] \in R /\ y[k] \in R
  BY ElemFacts
<1>2. \A k \in Coeffs : Plus(x[k], y[k]) \in R
  BY <1>1, ResiduesClosed
<1>3. Add(x, y) = [k \in Coeffs |-> Plus(x[k], y[k])]
  BY DEF Add, Plus
<1>. QED  BY <1>2, <1>3, ElemFacts

LEMMA Alike ==
  ASSUME NEW x \in Elems, NEW y \in Elems, \A k \in Coeffs : x[k] = y[k]
  PROVE  x = y
  BY ElemFacts

LEMMA ElemSums == IsMonoid(Elems, AddE, Zero) /\ \A x, y \in Elems : AddE[<<x, y>>] = Add(x, y)
<1>1. AddE \in [Elems \X Elems -> Elems] /\ \A x, y \in Elems : AddE[<<x, y>>] = Add(x, y)
  BY AddLaws DEF AddE
<1>2. \A x, y \in Elems : Add(x, y) \in Elems
  BY AddLaws
<1>3. ASSUME NEW x \in Elems PROVE Add(Zero, x) = x
  <2>1. \A k \in Coeffs : x[k] \in R /\ Zero[k] = 0 /\ Plus(0, x[k]) = x[k]
    BY ElemFacts, ResidueRing
  <2>2. \A k \in Coeffs : Add(Zero, x)[k] = x[k]
    BY <2>1, AddLaws, ElemFacts
  <2>. QED  BY <1>2, <2>2, Alike, ElemFacts
<1>4. ASSUME NEW x \in Elems, NEW y \in Elems PROVE Add(x, y) = Add(y, x)
  <2>1. \A k \in Coeffs : x[k] \in R /\ y[k] \in R
    BY ElemFacts
  <2>2. \A k \in Coeffs : Add(x, y)[k] = Add(y, x)[k]
    BY <2>1, AddLaws, ResidueRing
  <2>. QED  BY <1>2, <2>2, Alike
<1>5. ASSUME NEW x \in Elems, NEW y \in Elems, NEW z1 \in Elems
      PROVE  Add(x, Add(y, z1)) = Add(Add(x, y), z1)
  <2>1. \A k \in Coeffs : x[k] \in R /\ y[k] \in R /\ z1[k] \in R
    BY ElemFacts
  <2>2. \A k \in Coeffs : Add(x, Add(y, z1))[k] = Plus(x[k], Plus(y[k], z1[k]))
    BY <1>2, AddLaws
  <2>3. \A k \in Coeffs : Add(Add(x, y), z1)[k] = Plus(Plus(x[k], y[k]), z1[k])
    BY <1>2, AddLaws
  <2>4. \A k \in Coeffs : Add(x, Add(y, z1))[k] = Add(Add(x, y), z1)[k]
    BY <2>1, <2>2, <2>3, ResidueRing
  <2>. QED  BY <1>2, <2>4, Alike
<1>6. ASSUME NEW x \in Elems, NEW y \in Elems, NEW z1 \in Elems
      PROVE  AddE[<<x, AddE[<<y, z1>>]>>] = AddE[<<AddE[<<x, y>>], z1>>]
  BY <1>1, <1>2, <1>5
<1>7. Zero \in Elems /\ \A x \in Elems : AddE[<<Zero, x>>] = x
  BY <1>1, <1>3, ElemFacts
<1>8. ASSUME NEW x \in Elems, NEW y \in Elems PROVE AddE[<<x, y>>] = AddE[<<y, x>>]
  <2>1. AddE[<<x, y>>] = Add(x, y) /\ AddE[<<y, x>>] = Add(y, x)
    BY <1>1
  <2>. QED  BY <1>4, <2>1
<1>. QED  BY <1>1, <1>6, <1>7, <1>8 DEF IsMonoid

LEMMA TotalIsSum ==
  ASSUME NEW S, NEW f, IsFamily(f, S, Elems)
  PROVE  Total(f) = SumE(f) /\ SumE(f) \in Elems
<1>1. IsFiniteSet(S) /\ f \in [S -> Elems] /\ DOMAIN f = S
  BY DEF IsFamily
<1>. DEFINE Body(h) == h = [s \in SUBSET S |-> IF s = {} THEN Zero ELSE Add(f[Pick(s)], h[s \ {Pick(s)}])]
            it0 == CHOOSE h : Body(h)
<1>2. PICK h : IsFold(AddE, Zero, f, h)
  BY <1>1, ElemSums, FoldExists
<1>3. FoldsOn(SUBSET S, AddE, Zero, f, h)
  BY <1>1, <1>2 DEF IsFold, FoldsOn
<1>4. \A s \in SUBSET S : h[s] \in Elems
  BY <1>1, <1>3, ElemSums, FoldsInside
<1>5. Body(h)
  <2>1. \A s \in SUBSET S : s # {} => f[Pick(s)] \in Elems /\ h[s \ {Pick(s)}] \in Elems
    BY <1>1, <1>4, PickedOut
  <2>2. \A s \in SUBSET S : s # {} => AddE[<<f[Pick(s)], h[s \ {Pick(s)}]>>] = Add(f[Pick(s)], h[s \ {Pick(s)}])
    BY <2>1, ElemSums
  <2>3. h = [s \in SUBSET S |-> IF s = {} THEN Zero ELSE AddE[<<f[Pick(s)], h[s \ {Pick(s)}]>>]]
    BY <1>1, <1>2 DEF IsFold
  <2>. QED  BY <2>2, <2>3
<1>6. Body(it0)
  BY <1>5, Zenon
<1>7. Total(f) = it0[S]
  BY <1>1, Zenon DEF Total, FoldFunction, FoldFunctionOnSet, MapThenFoldSet, Pick
<1>8. \A s \in SUBSET S : h[s] = IF s = {} THEN Zero ELSE Add(f[Pick(s)], h[s \ {Pick(s)}])
  BY <1>5
<1>9. \A s \in SUBSET S : it0[s] = IF s = {} THEN Zero ELSE Add(f[Pick(s)], it0[s \ {Pick(s)}])
  <2>. DEFINE k == it0
  <2>1. Body(k)
    BY <1>6
  <2>. HIDE DEF k
  <2>2. \A s \in SUBSET S : k[s] = IF s = {} THEN Zero ELSE Add(f[Pick(s)], k[s \ {Pick(s)}])
    BY <2>1
  <2>. QED  BY <2>2 DEF k
<1>. HIDE DEF Body, it0
<1>10. SUBSET S \subseteq {s \in SUBSET S : it0[s] = h[s]}
  <2>. DEFINE X == {s \in SUBSET S : it0[s] = h[s]}
  <2>1. {} \in X
    BY <1>8, <1>9
  <2>2. \A s \in SUBSET S : s # {} /\ s \ {Pick(s)} \in X => s \in X
    BY <1>8, <1>9
  <2>. HIDE DEF X
  <2>3. SUBSET S \subseteq X
    BY <1>1, <2>1, <2>2, ByPicks
  <2>. QED  BY <2>3 DEF X
<1>11. it0[S] = h[S] /\ h[S] \in Elems
  BY <1>4, <1>10
<1>12. h[S] = SumOf(AddE, Zero, Part(f, S)) /\ Part(f, S) = f
  BY <1>1, <1>2, ElemSums, FoldIsSum, PartOf
<1>. QED BY <1>7, <1>11, <1>12 DEF SumE

\* A coefficient of a sum.
LEMMA Coefficient ==
  ASSUME NEW S, NEW f, IsFamily(f, S, Elems), NEW k \in Coeffs,
         NEW g, IsFamily(g, S, R), \A x \in S : g[x] = f[x][k]
  PROVE  SumE(f)[k] = SumQ(g)
<1>. DEFINE H == [x \in Elems |-> x[k]]
<1>1. IsAdditive(H, Elems, AddE, Zero, R, AddQ, 0)
  <2>1. H \in [Elems -> R] /\ \A x \in Elems : H[x] = x[k]
    BY ElemFacts
  <2>2. H[Zero] = 0
    BY <2>1, ElemFacts
  <2>. HIDE DEF H
  <2>3. ASSUME NEW x \in Elems, NEW y \in Elems PROVE H[AddE[<<x, y>>]] = AddQ[<<H[x], H[y]>>]
    <3>1. AddE[<<x, y>>] = Add(x, y) /\ Add(x, y) \in Elems
      BY ElemSums, AddLaws
    <3>2. H[AddE[<<x, y>>]] = Plus(H[x], H[y])
      BY <2>1, <3>1, AddLaws
    <3>3. AddQ[<<H[x], H[y]>>] = Plus(H[x], H[y])
      BY <2>1, ResidueSums
    <3>. QED  BY <3>2, <3>3
  <2>. QED  BY <2>1, <2>2, <2>3 DEF IsAdditive
<1>2. SumE(f) \in Elems /\ H[SumE(f)] = SumE(f)[k]
  BY TotalIsSum
<1>3. \A x \in S : g[x] = H[f[x]]
  BY DEF IsFamily
<1>4. IsFiniteSet(S) /\ f \in [S -> Elems] /\ g \in [S -> R]
  BY DEF IsFamily
<1>. HIDE DEF H
<1>5. H[SumOf(AddE, Zero, f)] = SumOf(AddQ, 0, g)
  BY <1>1, <1>3, <1>4, ElemSums, ResidueSums, SumThrough
<1>. QED  BY <1>2, <1>5 DEF SumE, SumQ

-----------------------------------------------------------------------------
(* The negacyclic product: coefficients, commutativity, distributivity.     *)
Sg(k, i, v) == IF i <= k THEN v ELSE Minus(v)
Ix(k, i) == IF i <= k THEN k - i ELSE D + k - i
MulTerms(x, y, k) == [i \in Coeffs |-> Sg(k, i, Times(x[i], y[Ix(k, i)]))]

LEMMA Indices ==
  ASSUME NEW k \in Coeffs, NEW i \in Coeffs
  PROVE  Ix(k, i) \in Coeffs /\ Ix(k, Ix(k, i)) = i /\ (Ix(k, i) <= k <=> i <= k)
  BY ElemFacts DEF Coeffs, Ix

LEMMA SignedIn ==
  ASSUME NEW k, NEW i, NEW v \in R
  PROVE  Sg(k, i, v) \in R
  BY ResiduesClosed DEF Sg

LEMMA TermsOf ==
  ASSUME NEW x \in Elems, NEW y \in Elems, NEW k \in Coeffs
  PROVE  /\ IsFamily(MulTerms(x, y, k), Coeffs, R)
         /\ \A i \in Coeffs : /\ x[i] \in R /\ y[Ix(k, i)] \in R /\ Times(x[i], y[Ix(k, i)]) \in R
                              /\ MulTerms(x, y, k)[i] = Sg(k, i, Times(x[i], y[Ix(k, i)]))
<1>1. \A i \in Coeffs : x[i] \in R /\ y[Ix(k, i)] \in R
  BY ElemFacts, Indices
<1>2. \A i \in Coeffs : Times(x[i], y[Ix(k, i)]) \in R
  BY <1>1, ResiduesClosed
<1>3. \A i \in Coeffs : Sg(k, i, Times(x[i], y[Ix(k, i)])) \in R
  BY <1>2, SignedIn
<1>. QED  BY <1>1, <1>2, <1>3, ElemFacts DEF MulTerms, IsFamily

LEMMA MulIs ==
  ASSUME NEW x \in Elems, NEW y \in Elems
  PROVE  Mul(x, y) \in Elems /\ \A k \in Coeffs : Mul(x, y)[k] = SumQ(MulTerms(x, y, k))
<1>. DEFINE ints(k) == [i \in Coeffs |-> IF i <= k THEN x[i] * y[k - i] ELSE -(x[i] * y[D + k - i])]
<1>1. ASSUME NEW k \in Coeffs
      PROVE  FoldFunction(+, 0, ints(k)) % q = SumQ(MulTerms(x, y, k))
  <2>. DEFINE f == ints(k)
              g == MulTerms(x, y, k)
  <2>1. IsFamily(g, Coeffs, R)
    BY TermsOf
  <2>2. \A i \in Coeffs : x[i] \in Int /\ (i <= k => y[k - i] \in Int) /\ (i > k => y[D + k - i] \in Int)
    <3>1. \A i \in Coeffs : x[i] \in Int /\ y[Ix(k, i)] \in Int
      BY TermsOf, ResidueFacts
    <3>2. \A i \in Coeffs : i > k => ~(i <= k)
      BY ElemFacts
    <3>. QED  BY <3>1, <3>2 DEF Ix
  <2>3. ASSUME NEW i \in Coeffs PROVE f[i] \in Int /\ g[i] = f[i] % q
    <3>0. i \in Int /\ k \in Int
      BY ElemFacts
    <3>1. CASE i <= k
      <4>1. f[i] = x[i] * y[k - i]
        BY <3>1
      <4>2. g[i] = Times(x[i], y[k - i])
        BY <3>1, TermsOf DEF Sg, Ix
      <4>. QED  BY <2>2, <3>1, <4>1, <4>2 DEF Times
    <3>2. CASE ~(i <= k)
      <4>. DEFINE a == x[i] * y[D + k - i]
      <4>1. f[i] = -a
        BY <3>2
      <4>2. a \in Int
        BY <2>2, <3>0, <3>2
      <4>3. g[i] = Minus(Times(x[i], y[D + k - i]))
        BY <3>2, TermsOf DEF Sg, Ix
      <4>4. g[i] = (-(a % q)) % q
        BY <4>3 DEF Minus, Times
      <4>. HIDE DEF a, f, g
      <4>5. (-(a % q)) % q = (-a) % q
        BY <4>2, ModuloLaws
      <4>. QED  BY <4>1, <4>2, <4>4, <4>5
    <3>. QED  BY <3>1, <3>2
  <2>4. IsFamily(f, Coeffs, Int)
    <3>1. f = [i \in Coeffs |-> f[i]]
      OBVIOUS
    <3>. HIDE DEF f
    <3>. QED  BY <2>3, <3>1, ElemFacts DEF IsFamily
  <2>. HIDE DEF f, g
  <2>5. SumZ(f) % q = SumQ(g)
    BY <2>1, <2>3, <2>4, SumModulo
  <2>. QED  BY <2>4, <2>5, FoldFunctionIsSum DEF f, g
<1>2. \A k \in Coeffs : SumQ(MulTerms(x, y, k)) \in R
  BY TermsOf, FamilySums
<1>3. Mul(x, y) = [k \in Coeffs |-> FoldFunction(+, 0, ints(k)) % q]
  BY Zenon DEF Mul
<1>. HIDE DEF ints
<1>. QED  BY <1>1, <1>2, <1>3, ElemFacts

LEMMA MulCommutes ==
  ASSUME NEW x \in Elems, NEW y \in Elems
  PROVE  Mul(x, y) = Mul(y, x)
<1>1. ASSUME NEW k \in Coeffs PROVE SumQ(MulTerms(x, y, k)) = SumQ(MulTerms(y, x, k))
  <2>. DEFINE f == MulTerms(x, y, k)
              g == MulTerms(y, x, k)
              p == [i \in Coeffs |-> Ix(k, i)]
  <2>1. Renumbers(p, Coeffs, Coeffs)
    <3>1. p \in [Coeffs -> Coeffs] /\ \A i \in Coeffs : p[p[i]] = i
      BY Indices
    <3>. HIDE DEF p
    <3>2. \A a, b \in Coeffs : p[a] = p[b] => a = b
      BY <3>1
    <3>3. \A i \in Coeffs : p[i] \in Coeffs /\ p[p[i]] = i
      BY <3>1
    <3>. QED  BY <3>1, <3>2, <3>3 DEF Renumbers
  <2>2. f \in [Coeffs -> R] /\ g \in [Coeffs -> R]
    BY TermsOf DEF IsFamily
  <2>3. ASSUME NEW i \in Coeffs PROVE g[i] = f[p[i]]
    <3>1. Ix(k, i) \in Coeffs /\ Ix(k, Ix(k, i)) = i /\ (Ix(k, i) <= k <=> i <= k)
      BY Indices
    <3>2. g[i] = Sg(k, i, Times(y[i], x[Ix(k, i)])) /\ y[i] \in R /\ x[Ix(k, i)] \in R
      BY TermsOf
    <3>3. f[Ix(k, i)] = Sg(k, Ix(k, i), Times(x[Ix(k, i)], y[i]))
      BY <3>1, TermsOf
    <3>4. Times(y[i], x[Ix(k, i)]) = Times(x[Ix(k, i)], y[i])
      BY <3>2, ResidueRing
    <3>. QED  BY <3>1, <3>2, <3>3, <3>4 DEF Sg
  <2>. HIDE DEF f, g, p
  <2>4. SumOf(AddQ, 0, g) = SumOf(AddQ, 0, f)
    BY <2>1, <2>2, <2>3, ResidueSums, ElemFacts, SumReindex
  <2>. QED  BY <2>4 DEF SumQ, f, g
<1>. QED  BY <1>1, MulIs, Alike

LEMMA MulAdds ==
  ASSUME NEW x \in Elems, NEW y \in Elems, NEW u \in Elems
  PROVE  Mul(x, Add(y, u)) = Add(Mul(x, y), Mul(x, u))
<1>0. Add(y, u) \in Elems /\ Mul(x, y) \in Elems /\ Mul(x, u) \in Elems
  BY AddLaws, MulIs
<1>1. ASSUME NEW k \in Coeffs
      PROVE  SumQ(MulTerms(x, Add(y, u), k)) = Plus(SumQ(MulTerms(x, y, k)), SumQ(MulTerms(x, u, k)))
  <2>. DEFINE f == MulTerms(x, y, k)
              g == MulTerms(x, u, k)
              h == MulTerms(x, Add(y, u), k)
  <2>1. f \in [Coeffs -> R] /\ g \in [Coeffs -> R] /\ h \in [Coeffs -> R]
    BY <1>0, TermsOf DEF IsFamily
  <2>2. ASSUME NEW i \in Coeffs PROVE h[i] = AddQ[<<f[i], g[i]>>]
    <3>. DEFINE a == x[i]
                b == y[Ix(k, i)]
                c == u[Ix(k, i)]
    <3>1. a \in R /\ b \in R /\ c \in R /\ Times(a, b) \in R /\ Times(a, c) \in R
      BY TermsOf
    <3>2. Add(y, u)[Ix(k, i)] = Plus(b, c)
      BY AddLaws, Indices
    <3>3. h[i] = Sg(k, i, Times(a, Plus(b, c)))
      BY <1>0, <3>2, TermsOf
    <3>4. f[i] = Sg(k, i, Times(a, b)) /\ g[i] = Sg(k, i, Times(a, c)) /\ f[i] \in R /\ g[i] \in R
      BY TermsOf, <2>1
    <3>. HIDE DEF a, b, c, f, g, h
    <3>5. Times(a, Plus(b, c)) = Plus(Times(a, b), Times(a, c))
      BY <3>1, ResidueRing
    <3>6. Minus(Plus(Times(a, b), Times(a, c))) = Plus(Minus(Times(a, b)), Minus(Times(a, c)))
      BY <3>1, ResidueRing
    <3>7. h[i] = Plus(f[i], g[i])
      BY <3>3, <3>4, <3>5, <3>6 DEF Sg
    <3>. QED  BY <3>4, <3>7, ResidueSums
  <2>. HIDE DEF f, g, h
  <2>3. SumOf(AddQ, 0, h) = AddQ[<<SumOf(AddQ, 0, f), SumOf(AddQ, 0, g)>>]
    BY <2>1, <2>2, ResidueSums, ElemFacts, SumOfSums
  <2>4. SumOf(AddQ, 0, f) \in R /\ SumOf(AddQ, 0, g) \in R
    BY <2>1, ResidueSums, ElemFacts, SumBasics
  <2>. QED  BY <2>3, <2>4, ResidueSums DEF SumQ, f, g, h
<1>2. \A k \in Coeffs : Mul(x, Add(y, u))[k] = Add(Mul(x, y), Mul(x, u))[k]
  BY <1>0, <1>1, MulIs, AddLaws
<1>3. Mul(x, Add(y, u)) \in Elems /\ Add(Mul(x, y), Mul(x, u)) \in Elems
  BY <1>0, MulIs, AddLaws
<1>. QED  BY <1>2, <1>3, Alike

\* Multiplication by x, and its sums.
LEMMA MulOfSum ==
  ASSUME NEW x \in Elems, NEW S, NEW f, IsFamily(f, S, Elems),
         NEW g, IsFamily(g, S, Elems), \A s \in S : g[s] = Mul(x, f[s])
  PROVE  Mul(x, SumE(f)) = SumE(g)
<1>. DEFINE H == [y \in Elems |-> Mul(x, y)]
<1>1. H \in [Elems -> Elems] /\ \A y \in Elems : H[y] = Mul(x, y)
  BY MulIs
<1>. HIDE DEF H
<1>2. ASSUME NEW y \in Elems, NEW u \in Elems PROVE H[AddE[<<y, u>>]] = AddE[<<H[y], H[u]>>]
  <2>1. AddE[<<y, u>>] = Add(y, u) /\ Add(y, u) \in Elems
    BY ElemSums, AddLaws
  <2>2. AddE[<<H[y], H[u]>>] = Add(H[y], H[u])
    BY <1>1, ElemSums
  <2>. QED  BY <1>1, <2>1, <2>2, MulAdds
<1>3. H[Zero] = Zero
  <2>. DEFINE v == Mul(x, Zero)
  <2>1. v \in Elems /\ Zero \in Elems /\ H[Zero] = v
    BY <1>1, MulIs, ElemFacts
  <2>2. Add(Zero, Zero) = Zero
    BY ElemSums, ElemFacts DEF IsMonoid
  <2>3. v = Add(v, v)
    BY <2>1, <2>2, MulAdds
  <2>. HIDE DEF v
  <2>4. ASSUME NEW k \in Coeffs PROVE v[k] = 0
    <3>1. v[k] \in R /\ v[k] = Plus(v[k], v[k])
      BY <2>1, <2>3, AddLaws, ElemFacts
    <3>. DEFINE a == v[k]
    <3>. HIDE DEF a
    <3>2. a \in R /\ Plus(a, a) = a
      BY <3>1 DEF a
    <3>3. Plus(Plus(a, a), Minus(a)) = Plus(a, Plus(a, Minus(a))) /\ Plus(a, Minus(a)) = 0
      BY <3>2, ResiduesClosed, ResidueRing
    <3>4. Plus(a, 0) = a
      BY <3>2, ResidueRing, ResidueFacts
    <3>. QED  BY <3>2, <3>3, <3>4 DEF a
  <2>. QED  BY <2>1, <2>4, Alike, ElemFacts
<1>4. IsAdditive(H, Elems, AddE, Zero, Elems, AddE, Zero)
  BY <1>1, <1>2, <1>3 DEF IsAdditive
<1>5. IsFiniteSet(S) /\ f \in [S -> Elems] /\ g \in [S -> Elems]
  BY DEF IsFamily
<1>6. \A s \in S : g[s] = H[f[s]]
  BY <1>1, <1>5
<1>7. H[SumOf(AddE, Zero, f)] = SumOf(AddE, Zero, g)
  BY <1>4, <1>5, <1>6, ElemSums, SumThrough
<1>8. SumE(f) \in Elems
  BY TotalIsSum
<1>. QED  BY <1>1, <1>7, <1>8 DEF SumE

\* A residue times a sum of residues.
LEMMA TimesOfSum ==
  ASSUME NEW a \in R, NEW S, NEW f, IsFamily(f, S, R),
         NEW g, IsFamily(g, S, R), \A s \in S : g[s] = Times(a, f[s])
  PROVE  Times(a, SumQ(f)) = SumQ(g)
<1>. DEFINE H == [b \in R |-> Times(a, b)]
<1>1. H \in [R -> R] /\ \A b \in R : H[b] = Times(a, b)
  BY ResiduesClosed
<1>. HIDE DEF H
<1>2. ASSUME NEW b \in R, NEW c \in R PROVE H[AddQ[<<b, c>>]] = AddQ[<<H[b], H[c]>>]
  <2>1. AddQ[<<b, c>>] = Plus(b, c) /\ Plus(b, c) \in R
    BY ResidueSums, ResiduesClosed
  <2>2. AddQ[<<H[b], H[c]>>] = Plus(H[b], H[c])
    BY <1>1, ResidueSums
  <2>. QED  BY <1>1, <2>1, <2>2, ResidueRing
<1>3. H[0] = 0
  BY <1>1, ResidueRing, ResidueFacts
<1>4. IsAdditive(H, R, AddQ, 0, R, AddQ, 0)
  BY <1>1, <1>2, <1>3 DEF IsAdditive
<1>5. IsFiniteSet(S) /\ f \in [S -> R] /\ g \in [S -> R]
  BY DEF IsFamily
<1>6. \A s \in S : g[s] = H[f[s]]
  BY <1>1, <1>5
<1>7. H[SumOf(AddQ, 0, f)] = SumOf(AddQ, 0, g)
  BY <1>4, <1>5, <1>6, ResidueSums, SumThrough
<1>8. SumQ(f) \in R
  BY FamilySums
<1>. QED  BY <1>1, <1>7, <1>8 DEF SumQ

\* The negative of a sum of residues.
LEMMA MinusOfSum ==
  ASSUME NEW S, NEW f, IsFamily(f, S, R),
         NEW g, IsFamily(g, S, R), \A s \in S : g[s] = Minus(f[s])
  PROVE  Minus(SumQ(f)) = SumQ(g)
<1>. DEFINE H == [b \in R |-> Minus(b)]
<1>1. H \in [R -> R] /\ \A b \in R : H[b] = Minus(b)
  BY ResiduesClosed
<1>. HIDE DEF H
<1>2. ASSUME NEW b \in R, NEW c \in R PROVE H[AddQ[<<b, c>>]] = AddQ[<<H[b], H[c]>>]
  <2>1. AddQ[<<b, c>>] = Plus(b, c) /\ Plus(b, c) \in R
    BY ResidueSums, ResiduesClosed
  <2>2. AddQ[<<H[b], H[c]>>] = Plus(H[b], H[c])
    BY <1>1, ResidueSums
  <2>. QED  BY <1>1, <2>1, <2>2, ResidueRing
<1>3. H[0] = 0
  BY <1>1, ResidueRing, ResidueFacts
<1>4. IsAdditive(H, R, AddQ, 0, R, AddQ, 0)
  BY <1>1, <1>2, <1>3 DEF IsAdditive
<1>5. IsFiniteSet(S) /\ f \in [S -> R] /\ g \in [S -> R]
  BY DEF IsFamily
<1>6. \A s \in S : g[s] = H[f[s]]
  BY <1>1, <1>5
<1>7. H[SumOf(AddQ, 0, f)] = SumOf(AddQ, 0, g)
  BY <1>4, <1>5, <1>6, ResidueSums, SumThrough
<1>8. SumQ(f) \in R
  BY FamilySums
<1>. QED  BY <1>1, <1>7, <1>8 DEF SumQ

-----------------------------------------------------------------------------
(* The product is associative.                                              *)
LEMMA SignedTimesOfSum ==
  ASSUME NEW k, NEW i, NEW a \in R, NEW S, NEW f, IsFamily(f, S, R),
         NEW g, IsFamily(g, S, R), \A s \in S : g[s] = Sg(k, i, Times(a, f[s]))
  PROVE  Sg(k, i, Times(a, SumQ(f))) = SumQ(g)
<1>. DEFINE h == [s \in S |-> Times(a, f[s])]
<1>1. IsFamily(h, S, R) /\ \A s \in S : h[s] = Times(a, f[s])
  BY ResiduesClosed DEF IsFamily
<1>. HIDE DEF h
<1>2. Times(a, SumQ(f)) = SumQ(h)
  BY <1>1, TimesOfSum
<1>3. CASE i <= k
  <2>1. g = h
    BY <1>1, <1>3 DEF Sg, IsFamily
  <2>. QED  BY <1>2, <1>3, <2>1 DEF Sg
<1>4. CASE ~(i <= k)
  <2>1. \A s \in S : g[s] = Minus(h[s])
    BY <1>1, <1>4 DEF Sg
  <2>2. Minus(SumQ(h)) = SumQ(g)
    BY <1>1, <2>1, MinusOfSum
  <2>. QED  BY <1>2, <1>4, <2>2 DEF Sg
<1>. QED  BY <1>3, <1>4

\* Two signs.
LEMMA TwoSigns ==
  ASSUME NEW a \in R, NEW b \in R, NEW c \in R, NEW i \in Coeffs, NEW j \in Coeffs, NEW k \in Coeffs,
         NEW l \in Coeffs
  PROVE  /\ Sg(k, i, Times(a, Sg(l, j, Times(b, c)))) =
              IF i <= k <=> j <= l THEN Times(a, Times(b, c)) ELSE Minus(Times(a, Times(b, c)))
         /\ Sg(k, i, Times(c, Sg(l, j, Times(a, b)))) =
              IF i <= k <=> j <= l THEN Times(a, Times(b, c)) ELSE Minus(Times(a, Times(b, c)))
<1>1. Times(b, c) \in R /\ Times(a, Times(b, c)) \in R /\ Times(a, b) \in R
  BY ResiduesClosed
<1>2. Times(a, Minus(Times(b, c))) = Minus(Times(a, Times(b, c)))
      /\ Minus(Minus(Times(a, Times(b, c)))) = Times(a, Times(b, c))
  BY <1>1, ResidueRing
<1>3. Times(c, Times(a, b)) = Times(a, Times(b, c))
  BY <1>1, ResidueRing
<1>4. Times(c, Minus(Times(a, b))) = Minus(Times(c, Times(a, b)))
  BY <1>1, ResidueRing
<1>. QED  BY <1>2, <1>3, <1>4 DEF Sg

Up(i, j) == IF i + j < D THEN i + j ELSE i + j - D

LEMMA ThreeIndices ==
  ASSUME NEW i \in Coeffs, NEW j \in Coeffs, NEW k \in Coeffs
  PROVE  /\ Up(i, j) \in Coeffs /\ Ix(Up(i, j), i) = j
         /\ Ix(k, Up(i, j)) = Ix(Ix(k, i), j)
         /\ (i <= Up(i, j) <=> Up(i, j) <= k) <=> (i <= k <=> j <= Ix(k, i))
         /\ \A m \in Coeffs : Up(i, Ix(m, i)) = m
<1>1. /\ D \in Nat /\ i \in Nat /\ j \in Nat /\ k \in Nat /\ i < D /\ j < D /\ k < D
  BY ElemFacts
<1>2. Up(i, j) \in Coeffs
  BY <1>1 DEF Coeffs, Up
<1>3. Ix(Up(i, j), i) = j
  BY <1>1 DEF Ix, Up
<1>4. Ix(k, Up(i, j)) = Ix(Ix(k, i), j)
  <2>1. CASE i + j < D
    BY <1>1, <2>1 DEF Ix, Up
  <2>2. CASE ~(i + j < D)
    BY <1>1, <2>2 DEF Ix, Up
  <2>. QED  BY <2>1, <2>2
<1>5. (i <= Up(i, j) <=> Up(i, j) <= k) <=> (i <= k <=> j <= Ix(k, i))
  <2>1. CASE i + j < D
    BY <1>1, <2>1 DEF Ix, Up
  <2>2. CASE ~(i + j < D)
    BY <1>1, <2>2 DEF Ix, Up
  <2>. QED  BY <2>1, <2>2
<1>6. \A m \in Coeffs : Up(i, Ix(m, i)) = m
  BY <1>1 DEF Coeffs, Ix, Up
<1>. QED  BY <1>2, <1>3, <1>4, <1>5, <1>6

LEMMA MulAssociates ==
  ASSUME NEW x \in Elems, NEW y \in Elems, NEW u \in Elems
  PROVE  Mul(Mul(x, y), u) = Mul(x, Mul(y, u))
<1>0. Mul(x, y) \in Elems /\ Mul(y, u) \in Elems
  BY MulIs
<1>1. ASSUME NEW k \in Coeffs
      PROVE  SumQ(MulTerms(Mul(x, y), u, k)) = SumQ(MulTerms(x, Mul(y, u), k))
  <2>. DEFINE F(m, i) == Sg(k, m, Times(u[Ix(k, m)], Sg(m, i, Times(x[i], y[Ix(m, i)]))))
              pairs == [s \in Coeffs \X Coeffs |-> F(s[1], s[2])]
              row == [m \in Coeffs |-> [i \in Coeffs |-> F(m, i)]]
              col == [i \in Coeffs |-> [m \in Coeffs |-> F(m, i)]]
              sums == MulTerms(Mul(x, y), u, k)
              tots == MulTerms(x, Mul(y, u), k)
  <2>1. IsFamily(sums, Coeffs, R) /\ IsFamily(tots, Coeffs, R)
    BY <1>0, TermsOf
  <2>2. ASSUME NEW m \in Coeffs, NEW i \in Coeffs
        PROVE  /\ x[i] \in R /\ y[Ix(m, i)] \in R /\ u[Ix(k, m)] \in R
               /\ Sg(m, i, Times(x[i], y[Ix(m, i)])) \in R /\ F(m, i) \in R
    <3>1. x[i] \in R /\ y[Ix(m, i)] \in R /\ u[Ix(k, m)] \in R /\ Times(x[i], y[Ix(m, i)]) \in R
      BY TermsOf
    <3>2. Sg(m, i, Times(x[i], y[Ix(m, i)])) \in R
      BY <3>1, SignedIn
    <3>3. Times(u[Ix(k, m)], Sg(m, i, Times(x[i], y[Ix(m, i)]))) \in R
      BY <3>1, <3>2, ResiduesClosed
    <3>4. F(m, i) \in R
      BY <3>3, SignedIn
    <3>. QED  BY <3>1, <3>2, <3>4
  <2>3. IsFamily(pairs, Coeffs \X Coeffs, R)
    <3>. HIDE DEF F
    <3>. QED  BY <2>2, ElemFacts, FS_Product DEF IsFamily
  <2>4. Rows2(row, pairs, Coeffs, Coeffs, R) /\ Columns2(col, pairs, Coeffs, Coeffs, R)
    <3>. HIDE DEF F
    <3>. QED  BY <2>2, ElemFacts DEF IsFamily, Rows2, Columns2
  <2>5. AreSums(sums, row, Coeffs, AddQ, 0)
    <3>1. ASSUME NEW m \in Coeffs PROVE sums[m] = SumQ(row[m])
      <4>. DEFINE f == MulTerms(x, y, m)
                  g == row[m]
      <4>1. IsFamily(f, Coeffs, R) /\ \A i \in Coeffs : f[i] = Sg(m, i, Times(x[i], y[Ix(m, i)]))
        BY TermsOf
      <4>2. IsFamily(g, Coeffs, R)
        BY <2>4 DEF Rows2
      <4>3. \A i \in Coeffs : g[i] = Sg(k, m, Times(u[Ix(k, m)], f[i]))
        BY <4>1
      <4>4. sums[m] = Sg(k, m, Times(Mul(x, y)[m], u[Ix(k, m)])) /\ u[Ix(k, m)] \in R /\ Mul(x, y)[m] \in R
        BY <1>0, TermsOf
      <4>5. Mul(x, y)[m] = SumQ(f)
        BY MulIs
      <4>. HIDE DEF f, g, sums
      <4>6. Times(Mul(x, y)[m], u[Ix(k, m)]) = Times(u[Ix(k, m)], Mul(x, y)[m])
        BY <4>4, ResidueRing
      <4>7. Sg(k, m, Times(u[Ix(k, m)], SumQ(f))) = SumQ(g)
        BY <4>1, <4>2, <4>3, <4>4, SignedTimesOfSum
      <4>. QED  BY <4>4, <4>5, <4>6, <4>7 DEF g
    <3>. QED  BY <3>1 DEF AreSums, SumQ
  <2>6. AreSums(tots, col, Coeffs, AddQ, 0)
    <3>1. ASSUME NEW i \in Coeffs PROVE tots[i] = SumQ(col[i])
      <4>. DEFINE n == Ix(k, i)
                  f == MulTerms(y, u, n)
                  h == [j \in Coeffs |-> Sg(k, i, Times(x[i], f[j]))]
                  g == col[i]
                  p == [j \in Coeffs |-> Up(i, j)]
      <4>0. n \in Coeffs
        BY Indices
      <4>1. IsFamily(f, Coeffs, R) /\ \A j \in Coeffs : f[j] = Sg(n, j, Times(y[j], u[Ix(n, j)]))
        BY <4>0, TermsOf
      <4>2. IsFamily(g, Coeffs, R) /\ \A m \in Coeffs : g[m] = F(m, i)
        BY <2>4 DEF Columns2
      <4>3. IsFamily(h, Coeffs, R) /\ \A j \in Coeffs : h[j] = Sg(k, i, Times(x[i], f[j]))
        <5>. HIDE DEF f
        <5>1. \A j \in Coeffs : Sg(k, i, Times(x[i], f[j])) \in R
          BY <2>2, <4>1, ResiduesClosed, SignedIn DEF IsFamily
        <5>. QED  BY <5>1, ElemFacts DEF IsFamily
      <4>4. tots[i] = Sg(k, i, Times(x[i], Mul(y, u)[n])) /\ x[i] \in R
        BY <1>0, TermsOf
      <4>5. Mul(y, u)[n] = SumQ(f)
        BY <4>0, MulIs
      <4>6. ASSUME NEW j \in Coeffs PROVE h[j] = g[p[j]]
        <5>. DEFINE m == Up(i, j)
        <5>1. /\ m \in Coeffs /\ Ix(m, i) = j /\ Ix(k, m) = Ix(n, j) /\ p[j] = m
              /\ (i <= m <=> m <= k) <=> (i <= k <=> j <= n)
          BY ThreeIndices
        <5>2. x[i] \in R /\ y[j] \in R /\ u[Ix(n, j)] \in R
          BY <4>0, TermsOf
        <5>3. h[j] = Sg(k, i, Times(x[i], Sg(n, j, Times(y[j], u[Ix(n, j)]))))
          BY <4>1, <4>3
        <5>4. g[m] = Sg(k, m, Times(u[Ix(n, j)], Sg(m, i, Times(x[i], y[j]))))
          BY <4>2, <5>1
        <5>. HIDE DEF h, g, m, n, p, f
        <5>5. h[j] = IF i <= k <=> j <= n THEN Times(x[i], Times(y[j], u[Ix(n, j)]))
                     ELSE Minus(Times(x[i], Times(y[j], u[Ix(n, j)])))
          BY <4>0, <5>2, <5>3, TwoSigns
        <5>6. g[m] = IF m <= k <=> i <= m THEN Times(x[i], Times(y[j], u[Ix(n, j)]))
                     ELSE Minus(Times(x[i], Times(y[j], u[Ix(n, j)])))
          BY <5>1, <5>2, <5>4, TwoSigns
        <5>. QED  BY <5>1, <5>5, <5>6
      <4>7. Renumbers(p, Coeffs, Coeffs)
        <5>1. p \in [Coeffs -> Coeffs]
          BY ThreeIndices
        <5>2. \A a, b \in Coeffs : p[a] = p[b] => a = b
          BY ThreeIndices
        <5>3. ASSUME NEW m \in Coeffs PROVE \E j \in Coeffs : p[j] = m
          <6>1. Ix(m, i) \in Coeffs /\ p[Ix(m, i)] = m
            BY Indices, ThreeIndices
          <6>. QED  BY <6>1
        <5>. QED  BY <5>1, <5>2, <5>3 DEF Renumbers
      <4>. HIDE DEF f, g, h, p, n, tots
      <4>8. SumOf(AddQ, 0, h) = SumOf(AddQ, 0, g)
        <5>1. g \in [Coeffs -> R] /\ h \in [Coeffs -> R] /\ IsFiniteSet(Coeffs)
          BY <4>2, <4>3 DEF IsFamily
        <5>. QED  BY <4>6, <4>7, <5>1, ResidueSums, SumReindex
      <4>9. Sg(k, i, Times(x[i], SumQ(f))) = SumQ(h)
        BY <4>1, <4>3, <4>4, SignedTimesOfSum
      <4>. QED  BY <4>4, <4>5, <4>8, <4>9 DEF g, SumQ
    <3>. QED  BY <3>1 DEF AreSums, SumQ
  <2>. HIDE DEF F, pairs, row, col, sums, tots
  <2>7. SumOf(AddQ, 0, sums) = SumOf(AddQ, 0, tots)
    BY <2>1, <2>3, <2>4, <2>5, <2>6, ResidueSums, ElemFacts, SumSwap
  <2>. QED  BY <2>7 DEF SumQ, sums, tots
<1>2. \A k \in Coeffs : Mul(Mul(x, y), u)[k] = Mul(x, Mul(y, u))[k]
  BY <1>0, <1>1, MulIs
<1>3. Mul(Mul(x, y), u) \in Elems /\ Mul(x, Mul(y, u)) \in Elems
  BY <1>0, MulIs
<1>. QED  BY <1>2, <1>3, Alike

-----------------------------------------------------------------------------
(* Constants, negation, scaling and differences.                            *)
LEMMA ConstantIs ==
  ASSUME NEW c \in Int
  PROVE  constant(c) \in Elems /\ c % q \in R
         /\ \A k \in Coeffs : constant(c)[k] = IF k = 0 THEN c % q ELSE 0
<1>1. c % q \in R
  BY Modulo DEF R
<1>. QED  BY <1>1, ElemFacts, ResidueFacts DEF constant

LEMMA MulByConstant ==
  ASSUME NEW c \in Int, NEW y \in Elems
  PROVE  \A k \in Coeffs : Mul(constant(c), y)[k] = Times(c % q, y[k])
<1>. DEFINE x == constant(c)
<1>1. x \in Elems /\ c % q \in R /\ \A k \in Coeffs : x[k] = IF k = 0 THEN c % q ELSE 0
  BY ConstantIs
<1>. HIDE DEF x
<1>2. ASSUME NEW k \in Coeffs PROVE SumQ(MulTerms(x, y, k)) = Times(c % q, y[k])
  <2>. DEFINE f == MulTerms(x, y, k)
  <2>1. f \in [Coeffs -> R] /\ IsFiniteSet(Coeffs) /\ {0} \in SUBSET Coeffs /\ 0 \in Coeffs
    BY <1>1, TermsOf, ElemFacts DEF IsFamily
  <2>2. ASSUME NEW i \in Coeffs \ {0} PROVE f[i] = 0
    <3>1. y[Ix(k, i)] \in R /\ f[i] = Sg(k, i, Times(x[i], y[Ix(k, i)])) /\ x[i] = 0
      BY <1>1, TermsOf
    <3>2. Times(0, y[Ix(k, i)]) = 0 /\ Minus(0) = 0
      BY <3>1, ResidueRing
    <3>. QED  BY <3>1, <3>2 DEF Sg
  <2>3. f[0] = Times(c % q, y[k])
    <3>1. 0 <= k /\ k - 0 = k
      BY ElemFacts
    <3>2. f[0] = Sg(k, 0, Times(x[0], y[Ix(k, 0)])) /\ x[0] = c % q
      BY <1>1, <2>1, TermsOf
    <3>. QED  BY <3>1, <3>2 DEF Sg, Ix
  <2>. HIDE DEF f
  <2>4. SumOf(AddQ, 0, f) = SumOf(AddQ, 0, Part(f, {0}))
    BY <2>1, <2>2, ResidueSums, SumOutside
  <2>5. f[0] \in R
    BY <2>1
  <2>6. SumOf(AddQ, 0, Part(f, {0})) = f[0]
    BY <2>5, ResidueSums, SumOfOne
  <2>. QED  BY <2>3, <2>4, <2>6 DEF SumQ, f
<1>. QED  BY <1>1, <1>2, MulIs DEF x

LEMMA NegIs ==
  ASSUME NEW x \in Elems
  PROVE  /\ Neg(x) \in Elems /\ Neg(x) = Mul(constant(-1), x)
         /\ \A k \in Coeffs : Neg(x)[k] = Minus(x[k])
<1>1. \A k \in Coeffs : x[k] \in R /\ x[k] \in Int /\ Minus(x[k]) \in R
  BY ElemFacts, ResiduesClosed
<1>2. Neg(x) = [k \in Coeffs |-> Minus(x[k])]
  BY DEF Neg, Minus
<1>3. Neg(x) \in Elems
  BY <1>1, <1>2, ElemFacts
<1>4. ASSUME NEW k \in Coeffs PROVE Times((-1) % q, x[k]) = Minus(x[k])
  <2>1. -1 \in Int /\ x[k] \in Int /\ (-1) * x[k] = -x[k]
    BY <1>1
  <2>2. (((-1) % q) * x[k]) % q = ((-1) * x[k]) % q
    BY <2>1, ModuloLaws
  <2>. QED  BY <2>1, <2>2 DEF Times, Minus
<1>5. \A k \in Coeffs : Mul(constant(-1), x)[k] = Neg(x)[k]
  BY <1>2, <1>4, MulByConstant
<1>6. Mul(constant(-1), x) \in Elems
  BY ConstantIs, MulIs
<1>. QED  BY <1>2, <1>3, <1>5, <1>6, Alike

LEMMA ScaleIs ==
  ASSUME NEW x \in Elems, NEW s \in Int
  PROVE  Scale(x, s) = Mul(constant(s), x) /\ Scale(x, s) \in Elems
<1>1. \A k \in Coeffs : x[k] \in R /\ x[k] \in Int
  BY ElemFacts, ResiduesClosed
<1>2. ASSUME NEW k \in Coeffs PROVE Mul(constant(s), x)[k] = (x[k] * s) % q
  <2>1. ((s % q) * x[k]) % q = (s * x[k]) % q
    BY <1>1, ModuloLaws
  <2>2. s * x[k] = x[k] * s
    BY <1>1, Z3
  <2>. QED  BY <2>1, <2>2, MulByConstant DEF Times
<1>3. Mul(constant(s), x) \in Elems
  BY ConstantIs, MulIs
<1>4. Scale(x, s) = [k \in Coeffs |-> Mul(constant(s), x)[k]]
  BY <1>2 DEF Scale
<1>. QED  BY <1>3, <1>4, ElemFacts

LEMMA SubIs ==
  ASSUME NEW x \in Elems, NEW y \in Elems
  PROVE  Sub(x, y) = Add(x, Neg(y)) /\ Sub(x, y) \in Elems
<1>1. \A k \in Coeffs : x[k] \in Int /\ y[k] \in Int
  BY ElemFacts, ResiduesClosed
<1>2. Neg(y) \in Elems /\ Add(x, Neg(y)) \in Elems
  BY NegIs, AddLaws
<1>3. ASSUME NEW k \in Coeffs PROVE Add(x, Neg(y))[k] = (x[k] - y[k]) % q
  <2>1. Add(x, Neg(y))[k] = (x[k] + ((-y[k]) % q)) % q
    BY <1>2, NegIs, AddLaws DEF Plus, Minus
  <2>2. -y[k] \in Int /\ x[k] + (-y[k]) = x[k] - y[k]
    BY <1>1
  <2>3. (x[k] + ((-y[k]) % q)) % q = (x[k] + (-y[k])) % q
    BY <1>1, <2>2, ModuloLaws
  <2>. QED  BY <2>1, <2>2, <2>3
<1>4. Sub(x, y) = [k \in Coeffs |-> Add(x, Neg(y))[k]]
  BY <1>3 DEF Sub
<1>. QED  BY <1>2, <1>4, ElemFacts

LEMMA AddRules ==
  ASSUME NEW x \in Elems, NEW y \in Elems, NEW u \in Elems
  PROVE  /\ Add(x, y) \in Elems /\ Add(x, y) = Add(y, x) /\ Add(Add(x, y), u) = Add(x, Add(y, u))
         /\ Add(Zero, x) = x /\ Add(x, Zero) = x
<1>1. AddE[<<x, y>>] = Add(x, y) /\ AddE[<<y, x>>] = Add(y, x) /\ AddE[<<Zero, x>>] = Add(Zero, x)
      /\ AddE[<<x, Zero>>] = Add(x, Zero) /\ AddE[<<y, u>>] = Add(y, u)
  BY ElemSums, ElemFacts
<1>2. Add(x, y) \in Elems /\ Add(y, u) \in Elems
  BY AddLaws
<1>3. AddE[<<Add(x, y), u>>] = Add(Add(x, y), u) /\ AddE[<<x, Add(y, u)>>] = Add(x, Add(y, u))
  BY <1>2, ElemSums
<1>4. AddE[<<x, y>>] = AddE[<<y, x>>] /\ AddE[<<Zero, x>>] = x /\ AddE[<<Zero, x>>] = AddE[<<x, Zero>>]
  BY ElemSums, ElemFacts DEF IsMonoid
<1>5. AddE[<<x, AddE[<<y, u>>]>>] = AddE[<<AddE[<<x, y>>], u>>]
  BY ElemSums DEF IsMonoid
<1>. QED  BY <1>1, <1>2, <1>3, <1>4, <1>5

\* The ring.
LEMMA MulRules ==
  ASSUME NEW x \in Elems, NEW y \in Elems, NEW u \in Elems
  PROVE  /\ Mul(x, y) \in Elems /\ Mul(x, y) = Mul(y, x) /\ Mul(Mul(x, y), u) = Mul(x, Mul(y, u))
         /\ Mul(x, Add(y, u)) = Add(Mul(x, y), Mul(x, u)) /\ Mul(Add(y, u), x) = Add(Mul(y, x), Mul(u, x))
         /\ Mul(x, Zero) = Zero /\ Mul(Zero, x) = Zero
<1>1. Mul(x, y) \in Elems /\ Mul(x, y) = Mul(y, x) /\ Mul(Mul(x, y), u) = Mul(x, Mul(y, u))
      /\ Mul(x, Add(y, u)) = Add(Mul(x, y), Mul(x, u))
  BY MulIs, MulCommutes, MulAssociates, MulAdds
<1>2. Mul(Add(y, u), x) = Mul(x, Add(y, u)) /\ Mul(x, y) = Mul(y, x) /\ Mul(x, u) = Mul(u, x)
  BY AddLaws, MulCommutes
<1>3. Mul(x, Zero) = Zero /\ Mul(Zero, x) = Zero
  <2>1. Zero = constant(0)
    <3>1. 0 \in Int /\ 0 % q = 0
      BY Modulo, ResidueFacts DEF R
    <3>2. \A k \in Coeffs : constant(0)[k] = Zero[k]
      BY <3>1, ConstantIs, ElemFacts
    <3>. QED  BY <3>1, <3>2, ConstantIs, ElemFacts, Alike
  <2>2. ASSUME NEW k \in Coeffs PROVE Mul(constant(0), x)[k] = Zero[k]
    <3>1. x[k] \in R /\ Times(0, x[k]) = 0 /\ 0 % q = 0
      BY ElemFacts, ResidueRing, Modulo, ResidueFacts DEF R
    <3>. QED  BY <3>1, MulByConstant, ElemFacts
  <2>3. Mul(Zero, x) = Zero
    BY <2>1, <2>2, ElemFacts, MulIs, Alike
  <2>. QED  BY <2>3, ElemFacts, MulCommutes
<1>. QED  BY <1>1, <1>2, <1>3

LEMMA ConstantRules ==
  ASSUME NEW a \in Int, NEW b \in Int, NEW x \in Elems
  PROVE  /\ constant(a) \in Elems /\ Mul(constant(1), x) = x
         /\ Mul(constant(a), constant(b)) = constant(a * b)
         /\ Add(constant(a), constant(b)) = constant(a + b)
         /\ Zero = constant(0)
<1>1. a * b \in Int /\ a + b \in Int /\ 1 \in Int /\ 1 % q = 1 /\ 0 % q = 0 /\ b % q \in Int /\ 0 \in Int
  BY Modulo, ResidueFacts DEF R
<1>2. constant(a) \in Elems /\ constant(b) \in Elems /\ constant(1) \in Elems
      /\ constant(a * b) \in Elems /\ constant(a + b) \in Elems /\ constant(0) \in Elems
  BY <1>1, ConstantIs
<1>3. Mul(constant(1), x) = x
  <2>1. \A k \in Coeffs : Mul(constant(1), x)[k] = x[k]
    BY <1>1, MulByConstant, ElemFacts, ResidueRing
  <2>. QED  BY <1>2, <2>1, MulIs, Alike
<1>4. Mul(constant(a), constant(b)) = constant(a * b)
  <2>1. Times(a % q, b % q) = (a * b) % q
    <3>1. ((a % q) * (b % q)) % q = (a * (b % q)) % q
      BY <1>1, ModuloLaws
    <3>2. (a * (b % q)) % q = (a * b) % q
      BY ModuloLaws
    <3>. QED  BY <3>1, <3>2 DEF Times
  <2>2. Times(a % q, 0) = 0
    <3>1. a % q \in R /\ 0 \in R
      BY ConstantIs, ResidueFacts
    <3>. QED  BY <3>1, ResidueRing
  <2>3. \A k \in Coeffs : Mul(constant(a), constant(b))[k] = constant(a * b)[k]
    BY <1>1, <1>2, <2>1, <2>2, MulByConstant, ConstantIs
  <2>. QED  BY <1>2, <2>3, MulIs, Alike
<1>5. Add(constant(a), constant(b)) = constant(a + b)
  <2>1. Plus(a % q, b % q) = (a + b) % q
    <3>1. ((a % q) + (b % q)) % q = (a + (b % q)) % q
      BY <1>1, ModuloLaws
    <3>2. (a + (b % q)) % q = (a + b) % q
      BY ModuloLaws
    <3>. QED  BY <3>1, <3>2 DEF Plus
  <2>2. Plus(0, 0) = 0
    BY ResidueRing, ResidueFacts
  <2>3. \A k \in Coeffs : Add(constant(a), constant(b))[k] = constant(a + b)[k]
    BY <1>1, <1>2, <2>1, <2>2, AddLaws, ConstantIs
  <2>. QED  BY <1>2, <2>3, AddLaws, Alike
<1>6. Zero = constant(0)
  <2>1. \A k \in Coeffs : constant(0)[k] = Zero[k]
    BY <1>1, ConstantIs, ElemFacts
  <2>. QED  BY <1>2, <2>1, ElemFacts, Alike
<1>. QED  BY <1>2, <1>3, <1>4, <1>5, <1>6

LEMMA NegRules ==
  ASSUME NEW x \in Elems, NEW y \in Elems
  PROVE  /\ Neg(x) \in Elems /\ Add(x, Neg(x)) = Zero /\ Neg(Neg(x)) = x
         /\ Neg(Add(x, y)) = Add(Neg(x), Neg(y)) /\ Neg(Zero) = Zero
         /\ Mul(x, Neg(y)) = Neg(Mul(x, y)) /\ Mul(Neg(x), y) = Neg(Mul(x, y))
         /\ (Sub(x, y) = Zero <=> x = y)
<1>1. Neg(x) \in Elems /\ Neg(y) \in Elems /\ Zero \in Elems /\ Neg(Zero) \in Elems /\ Neg(Neg(x)) \in Elems
      /\ Add(x, y) \in Elems /\ Mul(x, y) \in Elems
  BY NegIs, ElemFacts, AddLaws, MulIs
<1>2. ASSUME NEW k \in Coeffs
      PROVE  /\ x[k] \in R /\ y[k] \in R /\ Minus(x[k]) \in R /\ Minus(y[k]) \in R
             /\ Neg(x)[k] = Minus(x[k]) /\ Neg(y)[k] = Minus(y[k]) /\ Zero[k] = 0
  BY ElemFacts, NegIs, ResiduesClosed
<1>3. ASSUME NEW v \in Elems PROVE Add(v, Neg(v)) = Zero
  <2>1. Neg(v) \in Elems /\ \A k \in Coeffs : v[k] \in R /\ Neg(v)[k] = Minus(v[k])
    BY NegIs, ElemFacts
  <2>2. \A k \in Coeffs : Add(v, Neg(v))[k] = Zero[k]
    BY <1>2, <2>1, AddLaws, ResidueRing
  <2>. QED  BY <1>1, <2>1, <2>2, AddLaws, Alike
<1>4. Neg(Neg(x)) = x /\ Neg(Zero) = Zero
  <2>1. \A k \in Coeffs : Neg(Neg(x))[k] = x[k]
    BY <1>1, <1>2, NegIs, ResidueRing
  <2>2. \A k \in Coeffs : Neg(Zero)[k] = Zero[k]
    BY <1>1, <1>2, NegIs, ResidueRing
  <2>. QED  BY <1>1, <2>1, <2>2, Alike
<1>5. Neg(Add(x, y)) = Add(Neg(x), Neg(y))
  <2>1. -1 \in Int /\ constant(-1) \in Elems
    BY ConstantIs
  <2>2. Neg(Add(x, y)) = Mul(constant(-1), Add(x, y)) /\ Neg(x) = Mul(constant(-1), x)
        /\ Neg(y) = Mul(constant(-1), y)
    BY <1>1, NegIs
  <2>. QED  BY <2>1, <2>2, MulAdds
<1>6. Mul(x, Neg(y)) = Neg(Mul(x, y)) /\ Mul(Neg(x), y) = Neg(Mul(x, y))
  <2>. DEFINE m == constant(-1)
  <2>1. m \in Elems
    BY ConstantIs
  <2>2. Neg(Mul(x, y)) = Mul(m, Mul(x, y)) /\ Neg(x) = Mul(m, x) /\ Neg(y) = Mul(m, y)
    BY <1>1, NegIs
  <2>. HIDE DEF m
  <2>3. Mul(Mul(m, x), y) = Mul(m, Mul(x, y))
    BY <2>1, MulAssociates
  <2>4. Mul(x, Mul(m, y)) = Mul(Mul(x, m), y) /\ Mul(x, m) = Mul(m, x)
    BY <2>1, MulAssociates, MulCommutes
  <2>. QED  BY <2>2, <2>3, <2>4
<1>7. Sub(x, y) = Zero <=> x = y
  <2>1. Sub(x, y) = Add(x, Neg(y)) /\ Add(y, Neg(y)) = Zero /\ Add(Neg(y), y) = Add(y, Neg(y))
    BY <1>1, SubIs, AddRules, NegIs, <1>3
  <2>2. Add(Add(x, Neg(y)), y) = Add(x, Add(Neg(y), y)) /\ Add(x, Zero) = x /\ Add(Zero, y) = y
    BY <1>1, AddRules
  <2>. QED  BY <2>1, <2>2
<1>. QED  BY <1>1, <1>3, <1>4, <1>5, <1>6, <1>7

-----------------------------------------------------------------------------
(* Powers, as the loop that multiplies a scale.                             *)
\* A value, and what a function makes of it again and again.
Follows(h, g, v, n) == h \in [0..n -> Int] /\ h[0] = v /\ \A k \in 1..n : h[k] = g[h[k - 1]]

LEMMA Iterated ==
  ASSUME NEW g \in [Int -> Int], NEW v \in Int
  PROVE  \A n \in Nat : \E h : Follows(h, g, v, n)
<1>. DEFINE T == {n \in Nat : ~\E h : Follows(h, g, v, n)}
<1>1. SUFFICES ASSUME T # {} PROVE FALSE
  OBVIOUS
<1>2. PICK n \in T : \A m \in T : n <= m
  BY <1>1, Least
<1>3. CASE n = 0
  <2>. DEFINE h == [k \in 0..0 |-> v]
  <2>1. Follows(h, g, v, 0)
    BY DEF Follows
  <2>. QED  BY <1>3, <2>1
<1>4. CASE n # 0
  <2>1. n - 1 \in Nat /\ n - 1 \notin T
    BY <1>2, <1>4
  <2>2. PICK h : Follows(h, g, v, n - 1)
    BY <2>1
  <2>. DEFINE f == [k \in 0..n |-> IF k = n THEN g[h[n - 1]] ELSE h[k]]
  <2>3. h \in [0..(n - 1) -> Int] /\ h[0] = v /\ \A k \in 1..(n - 1) : h[k] = g[h[k - 1]]
    BY <2>2 DEF Follows
  <2>4. f \in [0..n -> Int] /\ f[0] = v
    BY <2>1, <2>3
  <2>5. ASSUME NEW k \in 1..n PROVE f[k] = g[f[k - 1]]
    <3>1. k \in 0..n /\ k - 1 \in 0..n /\ k - 1 # n /\ n \in Int
      BY <2>1
    <3>2. f[k] = IF k = n THEN g[h[n - 1]] ELSE h[k]
      BY <3>1
    <3>3. f[k - 1] = h[k - 1]
      BY <3>1
    <3>4. k # n => k \in 1..(n - 1)
      BY <2>1
    <3>. HIDE DEF f
    <3>. QED  BY <2>3, <3>2, <3>3, <3>4
  <2>6. Follows(f, g, v, n)
    BY <2>4, <2>5 DEF Follows
  <2>. QED  BY <2>6
<1>. QED  BY <1>3, <1>4

LEMMA IteratedOnce ==
  ASSUME NEW g, NEW v, NEW n \in Nat, NEW m \in Nat,
         NEW h, Follows(h, g, v, n), NEW f, Follows(f, g, v, m)
  PROVE  \A k \in Nat : k <= n /\ k <= m => h[k] = f[k]
<1>. DEFINE T == {k \in Nat : ~(k <= n /\ k <= m => h[k] = f[k])}
<1>1. SUFFICES ASSUME T # {} PROVE FALSE
  OBVIOUS
<1>2. PICK k \in T : \A j \in T : k <= j
  BY <1>1, Least
<1>3. k # 0
  BY <1>2 DEF Follows
<1>4. k - 1 \in Nat /\ k - 1 \notin T
  BY <1>2, <1>3
<1>5. h[k - 1] = f[k - 1] /\ k \in 1..n /\ k \in 1..m
  BY <1>2, <1>3, <1>4
<1>6. h[k] = g[h[k - 1]] /\ f[k] = g[f[k - 1]]
  BY <1>5 DEF Follows
<1>. QED  BY <1>2, <1>5, <1>6

LEMMA PowerFollows ==
  ASSUME NEW b \in Int, NEW n \in Nat
  PROVE  \E h : Follows(h, [a \in Int |-> a * b], 1, n) /\ Pow(b, n) = h[n]
<1>. DEFINE g == [a \in Int |-> a * b]
            Body(h) == h = [k \in 0..n |-> IF k = 0 THEN 1 ELSE h[k - 1] * b]
            p == CHOOSE h : Body(h)
<1>1. g \in [Int -> Int] /\ \A a \in Int : g[a] = a * b
  OBVIOUS
<1>. HIDE DEF g
<1>2. PICK h : Follows(h, g, 1, n)
  BY <1>1, Iterated
<1>3. h \in [0..n -> Int] /\ h[0] = 1 /\ \A k \in 1..n : h[k] = g[h[k - 1]]
  BY <1>2 DEF Follows
<1>4. Body(h)
  <2>1. ASSUME NEW k \in 0..n, k # 0 PROVE h[k - 1] \in Int /\ h[k] = h[k - 1] * b
    <3>1. k - 1 \in 0..n /\ k \in 1..n
      BY <2>1
    <3>. QED  BY <1>1, <1>3, <3>1
  <2>. QED  BY <1>3, <2>1
<1>5. Body(p)
  BY <1>4, Zenon
<1>6. Pow(b, n) = p[n]
  BY Zenon DEF Pow
<1>7. \A k \in 0..n : p[k] = IF k = 0 THEN 1 ELSE p[k - 1] * b
  <2>. DEFINE f == p
  <2>1. Body(f)
    BY <1>5
  <2>. HIDE DEF f
  <2>. QED  BY <2>1 DEF f
<1>. HIDE DEF p
<1>. DEFINE T == {k \in Nat : k <= n /\ p[k] # h[k]}
<1>8. T = {}
  <2>1. SUFFICES ASSUME T # {} PROVE FALSE
    OBVIOUS
  <2>2. PICK k \in T : \A j \in T : k <= j
    BY <2>1, Least
  <2>3. k # 0
    BY <1>3, <1>7, <2>2
  <2>4. k - 1 \in Nat /\ k - 1 \notin T
    BY <2>2, <2>3
  <2>5. p[k - 1] = h[k - 1] /\ k \in 1..n /\ k - 1 \in 0..n /\ h[k - 1] \in Int
    BY <1>3, <2>2, <2>3, <2>4
  <2>6. p[k] = p[k - 1] * b
    <3>1. k \in 0..n /\ k # 0
      BY <2>5
    <3>. QED  BY <1>7, <3>1
  <2>7. h[k] = h[k - 1] * b
    BY <1>1, <1>3, <2>5
  <2>. QED  BY <2>2, <2>5, <2>6, <2>7
<1>9. p[n] = h[n]
  BY <1>8
<1>. QED  BY <1>2, <1>6, <1>9 DEF g

LEMMA PowerRules ==
  ASSUME NEW b \in Int
  PROVE  Pow(b, 0) = 1 /\ \A n \in Nat : Pow(b, n) \in Int /\ Pow(b, n + 1) = Pow(b, n) * b
<1>. DEFINE g == [a \in Int |-> a * b]
<1>1. g \in [Int -> Int] /\ \A a \in Int : g[a] = a * b
  OBVIOUS
<1>2. \A n \in Nat : \E h : Follows(h, g, 1, n) /\ Pow(b, n) = h[n]
  BY PowerFollows
<1>. HIDE DEF g
<1>3. Pow(b, 0) = 1
  BY <1>2 DEF Follows
<1>4. ASSUME NEW n \in Nat PROVE Pow(b, n) \in Int /\ Pow(b, n + 1) = Pow(b, n) * b
  <2>1. PICK h : Follows(h, g, 1, n) /\ Pow(b, n) = h[n]
    BY <1>2
  <2>2. PICK f : Follows(f, g, 1, n + 1) /\ Pow(b, n + 1) = f[n + 1]
    BY <1>2
  <2>3. h[n] = f[n]
    <3>1. 1 \in Int /\ n + 1 \in Nat /\ n <= n /\ n <= n + 1
      OBVIOUS
    <3>. QED  BY <2>1, <2>2, <3>1, IteratedOnce
  <2>4. f[n + 1] = g[f[n]] /\ h[n] \in Int
    BY <2>1, <2>2 DEF Follows
  <2>. QED  BY <1>1, <2>1, <2>2, <2>3, <2>4
<1>. QED  BY <1>3, <1>4

-----------------------------------------------------------------------------
(* One digit and the rest.                                                  *)
Chop(v, b) == (v - Digit(v, b)) \div b

\* The digit leaves a multiple of the base.
LEMMA DigitRules ==
  ASSUME NEW b \in Nat, b >= 2, NEW v \in Int
  PROVE  Digit(v, b) \in Int /\ Chop(v, b) \in Int /\ v = Digit(v, b) + b * Chop(v, b)
<1>. DEFINE t == Truncate(v, b)
            d == Digit(v, b)
<1>1. t \in Int
  <2>1. CASE v >= 0
    <3>1. v \div b \in Int
      BY <2>1, Z3
    <3>. QED  BY <2>1, <3>1 DEF Truncate
  <2>2. CASE ~(v >= 0)
    <3>1. (-v) \div b \in Int
      BY <2>2, Z3
    <3>. QED  BY <2>2, <3>1 DEF Truncate
  <2>. QED  BY <2>1, <2>2
<1>2. b \div 2 \in Int
  BY Z3
<1>3. \E j \in Int : d = v - b * j /\ d \in Int
  <2>1. d = (v - b * t) \/ d = (v - b * t) - b \/ d = (v - b * t) + b
    BY DEF Digit
  <2>. HIDE DEF t, d
  <2>2. b * t \in Int /\ b * (t + 1) = b * t + b /\ b * (t - 1) = b * t - b
    BY <1>1, Z3
  <2>3. t + 1 \in Int /\ t - 1 \in Int
    BY <1>1
  <2>4. d = v - b * t \/ d = v - b * (t + 1) \/ d = v - b * (t - 1)
    BY <1>1, <2>1, <2>2
  <2>5. d \in Int
    BY <2>1, <2>2
  <2>. QED  BY <1>1, <2>3, <2>4, <2>5
<1>. HIDE DEF t, d
<1>4. PICK j \in Int : d = v - b * j /\ d \in Int
  BY <1>3
<1>5. v - d = b * j + 0 /\ v - d \in Int /\ b > 0 /\ 0 \in 0..(b - 1) /\ b * j \in Int
  BY <1>4, Z3
<1>6. (v - d) \div b = j
  BY <1>5, ModIs
<1>7. v = d + b * j
  BY <1>4, <1>5
<1>. QED  BY <1>4, <1>6, <1>7 DEF Chop, d

LEMMA RestFollows ==
  ASSUME NEW b \in Nat, b >= 2, NEW v \in Int, NEW n \in Nat
  PROVE  \E h : Follows(h, [a \in Int |-> Chop(a, b)], v, n) /\ Rest(v, b, n) = h[n]
<1>. DEFINE g == [a \in Int |-> Chop(a, b)]
            Body(h) == h = [k \in 0..n |-> IF k = 0 THEN v ELSE (h[k - 1] - Digit(h[k - 1], b)) \div b]
            p == CHOOSE h : Body(h)
<1>1. g \in [Int -> Int] /\ \A a \in Int : g[a] = Chop(a, b)
  BY DigitRules
<1>. HIDE DEF g
<1>2. PICK h : Follows(h, g, v, n)
  BY <1>1, Iterated
<1>3. h \in [0..n -> Int] /\ h[0] = v /\ \A k \in 1..n : h[k] = g[h[k - 1]]
  BY <1>2 DEF Follows
<1>4. Body(h)
  <2>1. ASSUME NEW k \in 0..n, k # 0
        PROVE  h[k - 1] \in Int /\ h[k] = (h[k - 1] - Digit(h[k - 1], b)) \div b
    <3>1. k - 1 \in 0..n /\ k \in 1..n
      BY <2>1
    <3>2. h[k - 1] \in Int /\ h[k] = Chop(h[k - 1], b)
      BY <1>1, <1>3, <3>1
    <3>. QED  BY <3>2 DEF Chop
  <2>. QED  BY <1>3, <2>1
<1>5. Body(p)
  BY <1>4, Zenon
<1>6. Rest(v, b, n) = p[n]
  BY Zenon DEF Rest
<1>7. \A k \in 0..n : p[k] = IF k = 0 THEN v ELSE Chop(p[k - 1], b)
  <2>. DEFINE f == p
  <2>1. Body(f)
    BY <1>5
  <2>. HIDE DEF f
  <2>. QED  BY <2>1 DEF f, Chop
<1>. HIDE DEF p
<1>. DEFINE T == {k \in Nat : k <= n /\ p[k] # h[k]}
<1>8. T = {}
  <2>1. SUFFICES ASSUME T # {} PROVE FALSE
    OBVIOUS
  <2>2. PICK k \in T : \A j \in T : k <= j
    BY <2>1, Least
  <2>3. k # 0
    BY <1>3, <1>7, <2>2
  <2>4. k - 1 \in Nat /\ k - 1 \notin T
    BY <2>2, <2>3
  <2>5. p[k - 1] = h[k - 1] /\ k \in 1..n /\ k - 1 \in 0..n /\ h[k - 1] \in Int
    BY <1>3, <2>2, <2>3, <2>4
  <2>6. p[k] = Chop(p[k - 1], b)
    <3>1. k \in 0..n /\ k # 0
      BY <2>5
    <3>. QED  BY <1>7, <3>1
  <2>7. h[k] = Chop(h[k - 1], b)
    BY <1>1, <1>3, <2>5
  <2>. QED  BY <2>2, <2>5, <2>6, <2>7
<1>9. p[n] = h[n]
  BY <1>8
<1>. QED  BY <1>2, <1>6, <1>9 DEF g

LEMMA RestRules ==
  ASSUME NEW b \in Nat, b >= 2, NEW v \in Int
  PROVE  Rest(v, b, 0) = v
         /\ \A n \in Nat : Rest(v, b, n) \in Int /\ Rest(v, b, n + 1) = Chop(Rest(v, b, n), b)
<1>. DEFINE g == [a \in Int |-> Chop(a, b)]
<1>1. g \in [Int -> Int] /\ \A a \in Int : g[a] = Chop(a, b)
  BY DigitRules
<1>2. \A n \in Nat : \E h : Follows(h, g, v, n) /\ Rest(v, b, n) = h[n]
  BY RestFollows
<1>. HIDE DEF g
<1>3. Rest(v, b, 0) = v
  BY <1>2 DEF Follows
<1>4. ASSUME NEW n \in Nat PROVE Rest(v, b, n) \in Int /\ Rest(v, b, n + 1) = Chop(Rest(v, b, n), b)
  <2>1. PICK h : Follows(h, g, v, n) /\ Rest(v, b, n) = h[n]
    BY <1>2
  <2>2. PICK f : Follows(f, g, v, n + 1) /\ Rest(v, b, n + 1) = f[n + 1]
    BY <1>2
  <2>3. h[n] = f[n]
    <3>1. n + 1 \in Nat /\ n <= n /\ n <= n + 1
      OBVIOUS
    <3>. QED  BY <2>1, <2>2, <3>1, IteratedOnce
  <2>4. f[n + 1] = g[f[n]] /\ h[n] \in Int
    BY <2>1, <2>2 DEF Follows
  <2>. QED  BY <1>1, <2>1, <2>2, <2>3, <2>4
<1>. QED  BY <1>3, <1>4

\* A residue and its representative of least magnitude.
LEMMA CenteredIs ==
  ASSUME NEW a \in R
  PROVE  centered(q, a) \in Int /\ centered(q, a) % q = a
<1>1. a \in Int /\ a % q = a /\ q \in Int
  BY ResiduesClosed, ResidueFacts
<1>2. CASE centered(q, a) = a
  BY <1>1, <1>2
<1>3. CASE centered(q, a) = a - q
  <2>1. a - q = a + q * (-1) /\ a - q \in Int /\ -1 \in Int
    BY <1>1
  <2>2. (a - q) % q = a % q
    BY <1>1, <2>1, ModuloOf
  <2>. QED  BY <1>1, <1>3, <2>1, <2>2
<1>. QED  BY <1>2, <1>3 DEF centered

-----------------------------------------------------------------------------
(* decompose and recompose: what they return, and that they are inverse.    *)
LEMMA OneMoreInt ==
  ASSUME NEW S, NEW f, IsFamily(f, S, Int)
  PROVE  /\ SumZ(Part(f, {})) = 0 /\ Part(f, S) = f
         /\ \A t \in SUBSET S : \A a \in S \ t :
              /\ SumZ(Part(f, t \cup {a})) = f[a] + SumZ(Part(f, t))
              /\ SumZ(Part(f, t)) \in Int /\ f[a] \in Int
<1>1. IsFiniteSet(S) /\ f \in [S -> Int]
  BY DEF IsFamily
<1>2. SumZ(Part(f, {})) = 0
  BY <1>1, Ints, SumOneMore DEF SumZ
<1>3. Part(f, S) = f
  BY <1>1, PartOf
<1>4. ASSUME NEW t \in SUBSET S, NEW a \in S \ t
      PROVE  SumZ(Part(f, t \cup {a})) = f[a] + SumZ(Part(f, t)) /\ SumZ(Part(f, t)) \in Int /\ f[a] \in Int
  <2>1. SumOf(PlusZ, 0, Part(f, t \cup {a})) = PlusZ[<<f[a], SumOf(PlusZ, 0, Part(f, t))>>]
        /\ SumOf(PlusZ, 0, Part(f, t)) \in Int
    BY <1>1, Ints, SumOneMore
  <2>2. f[a] \in Int
    BY <1>1
  <2>3. \A i, j \in Int : PlusZ[<<i, j>>] = i + j
    BY DEF PlusZ
  <2>. QED  BY <2>1, <2>2, <2>3 DEF SumZ
<1>. QED  BY <1>2, <1>3, <1>4

LEMMA LastInt ==
  ASSUME NEW n \in Nat, NEW f, IsFamily(f, 0..n, Int)
  PROVE  /\ SumZ(f) = f[n] + SumZ(Part(f, 0..(n - 1)))
         /\ SumZ(Part(f, 0..(n - 1))) \in Int /\ f[n] \in Int
<1>. DEFINE S == 0..n
            t == 0..(n - 1)
<1>1. t \in SUBSET S /\ n \in S \ t /\ IsFamily(f, S, Int) /\ t \cup {n} = S
  OBVIOUS
<1>. HIDE DEF S, t
<1>. DEFINE m == n
<1>4. m \in S \ t /\ t \cup {m} = S
  BY <1>1
<1>. HIDE DEF m
<1>5. SumZ(Part(f, t \cup {m})) = f[m] + SumZ(Part(f, t)) /\ SumZ(Part(f, t)) \in Int /\ f[m] \in Int
  BY <1>1, <1>4, OneMoreInt
<1>2. SumZ(Part(f, t \cup {n})) = f[n] + SumZ(Part(f, t)) /\ SumZ(Part(f, t)) \in Int /\ f[n] \in Int
  BY <1>5 DEF m
<1>3. Part(f, S) = f
  BY <1>1, OneMoreInt
<1>. QED  BY <1>1, <1>2, <1>3 DEF t

\* Terms for the digits of v but the last, and one for what is left.
DigitTerms(f, b, v, n) ==
  /\ IsFamily(f, 0..n, Int)
  /\ \A c \in 0..(n - 1) : f[c] = Pow(b, c) * Digit(Rest(v, b, c), b)
  /\ f[n] = Pow(b, n) * Rest(v, b, n)

LEMMA Telescopes ==
  ASSUME NEW b \in Nat, b >= 2, NEW v \in Int, NEW n \in Nat, NEW f, DigitTerms(f, b, v, n)
  PROVE  SumZ(f) = v
<1>. DEFINE Sofar(m) == SumZ(Part(f, 0..(m - 1)))
            T == {m \in Nat : ~(m <= n => Sofar(m) + Pow(b, m) * Rest(v, b, m) = v)}
<1>1. b \in Int /\ IsFamily(f, 0..n, Int)
  BY DEF DigitTerms
<1>2. \A m \in Nat : Pow(b, m) \in Int /\ Rest(v, b, m) \in Int /\ Pow(b, m + 1) = Pow(b, m) * b
  BY <1>1, PowerRules, RestRules
<1>3. T = {}
  <2>1. SUFFICES ASSUME T # {} PROVE FALSE
    OBVIOUS
  <2>2. PICK m \in T : \A j \in T : m <= j
    BY <2>1, Least
  <2>3. CASE m = 0
    <3>1. 0..(0 - 1) = {}
      OBVIOUS
    <3>2. Sofar(0) = 0
      BY <1>1, <3>1, OneMoreInt
    <3>3. Pow(b, 0) = 1 /\ Rest(v, b, 0) = v
      BY <1>1, PowerRules, RestRules
    <3>. HIDE DEF Sofar
    <3>. QED  BY <2>2, <2>3, <3>2, <3>3
  <2>4. CASE m # 0
    <3>. DEFINE j == m - 1
    <3>1. j \in Nat /\ j \notin T /\ m <= n /\ j <= n /\ j + 1 = m /\ j \in 0..n /\ j \in 0..(n - 1)
      BY <2>2, <2>4
    <3>2. 0..(m - 1) = 0..(j - 1) \cup {j} /\ 0..(j - 1) \in SUBSET (0..n) /\ j \in (0..n) \ (0..(j - 1))
      BY <3>1
    <3>3. Sofar(m) = f[j] + Sofar(j) /\ Sofar(j) \in Int /\ f[j] \in Int
      <4>1. SumZ(Part(f, 0..(j - 1) \cup {j})) = f[j] + Sofar(j) /\ Sofar(j) \in Int /\ f[j] \in Int
        <5>. DEFINE S == 0..n
                    t == 0..(j - 1)
        <5>1. t \in SUBSET S /\ j \in S \ t /\ IsFamily(f, S, Int) /\ Sofar(j) = SumZ(Part(f, t))
          BY <1>1, <3>2
        <5>. HIDE DEF j, S, t, Sofar
        <5>2. SumZ(Part(f, t \cup {j})) = f[j] + SumZ(Part(f, t)) /\ SumZ(Part(f, t)) \in Int /\ f[j] \in Int
          BY <5>1, OneMoreInt
        <5>. QED  BY <5>1, <5>2 DEF t
      <4>. HIDE DEF j
      <4>. QED  BY <3>2, <4>1
    <3>. DEFINE rest == Rest(v, b, j)
                pow == Pow(b, j)
    <3>5. pow \in Int /\ rest \in Int /\ Pow(b, m) = pow * b
      BY <1>2, <3>1
    <3>6. Digit(rest, b) \in Int /\ Chop(rest, b) \in Int /\ rest = Digit(rest, b) + b * Chop(rest, b)
      BY <3>5, DigitRules
    <3>7. Rest(v, b, m) = Chop(rest, b)
      BY <3>1, RestRules
    <3>8. f[j] = pow * Digit(rest, b)
      BY <3>1 DEF DigitTerms
    <3>9. Sofar(j) + pow * rest = v
      BY <3>1
    <3>. HIDE DEF Sofar, rest, pow, j
    <3>. DEFINE d == Digit(rest, b)
                r0 == Chop(rest, b)
    <3>11. d \in Int /\ r0 \in Int /\ rest = d + b * r0
      BY <3>6
    <3>. HIDE DEF d, r0
    <3>12. pow * rest = pow * d + (pow * b) * r0
      BY <1>1, <3>5, <3>11, Z3
    <3>14. pow * d \in Int /\ pow * b \in Int /\ (pow * b) * r0 \in Int
      BY <1>1, <3>5, <3>11, Z3
    <3>15. Rest(v, b, m) = r0 /\ f[j] = pow * d
      BY <3>7, <3>8 DEF d, r0
    <3>13. Sofar(m) + Pow(b, m) * Rest(v, b, m) = v
      BY <3>14, <3>15, <3>3, <3>5, <3>9, <3>12
    <3>. QED  BY <2>2, <3>13
  <2>. QED  BY <2>3, <2>4
<1>4. Sofar(n) + Pow(b, n) * Rest(v, b, n) = v
  BY <1>3
<1>5. SumZ(f) = f[n] + Sofar(n) /\ Sofar(n) \in Int /\ f[n] \in Int
  BY <1>1, LastInt
<1>6. f[n] = Pow(b, n) * Rest(v, b, n)
  BY DEF DigitTerms
<1>. HIDE DEF Sofar
<1>. QED  BY <1>2, <1>4, <1>5, <1>6

\* A chunk times the power of the base it stands for.
Weighted(g, chunks, b, S) ==
  IsFamily(g, S, Elems) /\ \A c \in S : g[c] = Mul(constant(Pow(b, c)), chunks[c])

LEMMA DecomposeIn ==
  ASSUME NEW x \in Elems, NEW b \in Nat, b >= 1, NEW parts \in Nat, parts >= 1
  PROVE  IsFamily(decompose(x, b, parts), 0..(parts - 1), Elems)
<1>1. IsFiniteSet(0..(parts - 1))
  BY FS_Interval
<1>2. ASSUME NEW c \in 0..(parts - 1)
      PROVE  decompose(x, b, parts)[c] \in Elems
  <2>1. CASE b = 1
    BY <2>1, ElemFacts DEF decompose
  <2>2. CASE b # 1
    <3>1. ASSUME NEW k \in Coeffs
          PROVE  (IF c = parts - 1 THEN Rest(centered(q, x[k]), b, c)
                  ELSE Digit(Rest(centered(q, x[k]), b, c), b)) % q \in R
      <4>. DEFINE v == centered(q, x[k])
      <4>1. v \in Int /\ b >= 2
        BY <2>2, ElemFacts, CenteredIs
      <4>2. Rest(v, b, c) \in Int
        <5>1. c \in Nat
          OBVIOUS
        <5>. QED  BY <4>1, <5>1, RestRules
      <4>3. Digit(Rest(v, b, c), b) \in Int
        BY <4>1, <4>2, DigitRules
      <4>. QED  BY <4>2, <4>3, Modulo DEF R
    <3>2. decompose(x, b, parts)[c] =
            [k \in Coeffs |-> (IF c = parts - 1 THEN Rest(centered(q, x[k]), b, c)
                               ELSE Digit(Rest(centered(q, x[k]), b, c), b)) % q]
      BY <2>2 DEF decompose
    <3>. QED  BY <3>1, <3>2, ElemFacts
  <2>. QED  BY <2>1, <2>2
<1>. QED  BY <1>1, <1>2 DEF decompose, IsFamily

\* The chunks stand for what was cut.
LEMMA DecomposeSums ==
  ASSUME NEW x \in Elems, NEW b \in Nat, b >= 1, NEW parts \in Nat, parts >= 1,
         NEW g, Weighted(g, decompose(x, b, parts), b, 0..(parts - 1))
  PROVE  SumE(g) = x
<1>. DEFINE S == 0..(parts - 1)
            n == parts - 1
<1>1. IsFiniteSet(S) /\ g \in [S -> Elems] /\ IsFamily(g, S, Elems) /\ n \in Nat /\ b \in Int
  BY DEF Weighted, IsFamily
<1>2. \A c \in S : g[c] = Mul(constant(Pow(b, c)), decompose(x, b, parts)[c])
  BY DEF Weighted
<1>3. \A c \in S : c \in Nat /\ Pow(b, c) \in Int
  BY <1>1, PowerRules
<1>4. IsFamily(decompose(x, b, parts), S, Elems)
  BY DecomposeIn
<1>5. CASE b = 1
  <2>1. \A c \in S : decompose(x, b, parts)[c] = IF c = 0 THEN x ELSE Zero
    BY <1>5 DEF decompose
  <2>2. 0 \in S /\ Pow(b, 0) = 1 /\ {0} \in SUBSET S
    BY <1>1, PowerRules
  <2>3. g[0] = x
    BY <1>2, <2>1, <2>2, ConstantRules
  <2>4. \A c \in S \ {0} : g[c] = Zero
    <3>1. ASSUME NEW c \in S \ {0} PROVE g[c] = Zero
      <4>1. constant(Pow(b, c)) \in Elems
        BY <1>3, ConstantRules
      <4>2. Mul(constant(Pow(b, c)), Zero) = Zero
        BY <4>1, MulRules, ElemFacts
      <4>. QED  BY <1>2, <2>1, <4>2
    <3>. QED  BY <3>1
  <2>5. SumOf(AddE, Zero, g) = SumOf(AddE, Zero, Part(g, {0}))
    BY <1>1, <2>2, <2>4, ElemSums, SumOutside
  <2>6. SumOf(AddE, Zero, Part(g, {0})) = g[0]
    <3>1. g[0] \in Elems
      BY <2>3
    <3>2. IsMonoid(Elems, AddE, Zero)
      BY ElemSums
    <3>. QED  BY <3>1, <3>2, SumOfOne
  <2>. QED  BY <2>3, <2>5, <2>6 DEF SumE
<1>6. CASE b # 1
  <2>1. ASSUME NEW k \in Coeffs PROVE SumE(g)[k] = x[k]
    <3>. DEFINE v == centered(q, x[k])
                d == [c \in S |-> IF c = n THEN Rest(v, b, c) ELSE Digit(Rest(v, b, c), b)]
                f == [c \in S |-> Pow(b, c) * d[c]]
                gk == [c \in S |-> g[c][k]]
    <3>1. v \in Int /\ v % q = x[k] /\ b >= 2
      BY <1>6, ElemFacts, CenteredIs
    <3>2. \A c \in S : Rest(v, b, c) \in Int /\ Digit(Rest(v, b, c), b) \in Int
      <4>1. ASSUME NEW c \in S PROVE Rest(v, b, c) \in Int
        <5>. HIDE DEF v, S
        <5>. QED  BY <1>3, <3>1, RestRules
      <4>. HIDE DEF v
      <4>. QED  BY <3>1, <4>1, DigitRules
    <3>3. \A c \in S : d[c] \in Int /\ decompose(x, b, parts)[c][k] = d[c] % q
      BY <1>6, <3>2 DEF decompose
    <3>4. \A c \in S : d[c] = IF c = n THEN Rest(v, b, c) ELSE Digit(Rest(v, b, c), b)
      OBVIOUS
    <3>. HIDE DEF d, v
    <3>5. \A c \in S : f[c] = Pow(b, c) * d[c] /\ f[c] \in Int
      BY <1>3, <3>3
    <3>6. IsFamily(f, S, Int)
      BY <1>1, <3>5 DEF IsFamily
    <3>7. \A c \in S : gk[c] = f[c] % q /\ gk[c] \in R
      <4>1. ASSUME NEW c \in S PROVE gk[c] = f[c] % q /\ gk[c] \in R
        <5>1. decompose(x, b, parts)[c] \in Elems
          BY <1>4 DEF IsFamily
        <5>2. gk[c] = Times(Pow(b, c) % q, d[c] % q)
          BY <1>2, <1>3, <3>3, <5>1, MulByConstant
        <5>3. (Pow(b, c) % q) \in Int /\ (d[c] % q) \in Int
          BY <1>3, <3>3, Modulo
        <5>4. Times(Pow(b, c) % q, d[c] % q) = f[c] % q
          <6>. DEFINE pow == Pow(b, c)
                      dc == d[c]
          <6>1. pow \in Int /\ dc \in Int /\ pow % q \in Int /\ dc % q \in Int /\ f[c] = pow * dc
            BY <1>3, <3>3, <3>5, <5>3
          <6>. HIDE DEF pow, dc
          <6>2. ((pow % q) * (dc % q)) % q = (pow * (dc % q)) % q
            BY <6>1, ModuloLaws
          <6>3. (pow * (dc % q)) % q = (pow * dc) % q
            BY <6>1, ModuloLaws
          <6>. QED  BY <6>1, <6>2, <6>3 DEF Times, pow, dc
        <5>5. f[c] % q \in R
          <6>1. f[c] \in Int
            BY <3>5
          <6>. HIDE DEF f
          <6>. QED  BY <6>1, Modulo DEF R
        <5>. HIDE DEF f, gk
        <5>. QED  BY <5>2, <5>4, <5>5
      <4>. QED  BY <4>1
    <3>8. IsFamily(gk, S, R)
      BY <1>1, <3>7 DEF IsFamily
    <3>9. \A c \in S : gk[c] = g[c][k]
      OBVIOUS
    <3>10. n \in S /\ 0..n = S
      BY <1>1
    <3>11. \A c \in 0..(n - 1) : f[c] = Pow(b, c) * Digit(Rest(v, b, c), b)
      <4>1. \A c \in 0..(n - 1) : c \in S /\ c # n
        BY <1>1
      <4>. HIDE DEF n, S, f
      <4>. QED  BY <3>4, <3>5, <4>1
    <3>12. f[n] = Pow(b, n) * Rest(v, b, n)
      BY <3>4, <3>5, <3>10
    <3>. HIDE DEF f, gk, S, n
    <3>13. SumZ(f) = v
      <4>1. DigitTerms(f, b, v, n)
        BY <3>6, <3>10, <3>11, <3>12 DEF DigitTerms
      <4>. QED  BY <1>1, <3>1, <4>1, Telescopes
    <3>14. SumZ(f) % q = SumQ(gk)
      BY <3>6, <3>7, <3>8, SumModulo
    <3>15. SumE(g)[k] = SumQ(gk)
      BY <1>1, <3>8, <3>9, Coefficient
    <3>. QED  BY <3>1, <3>13, <3>14, <3>15
  <2>2. SumE(g) \in Elems
    BY <1>1, TotalIsSum
  <2>. QED  BY <2>1, <2>2, Alike
<1>. QED  BY <1>5, <1>6

\* Chunks put together again.
LEMMA RecomposeIs ==
  ASSUME NEW b \in Int, NEW S, \A c \in S : Pow(b, c) \in Int, NEW chunks, IsFamily(chunks, S, Elems),
         NEW g, Weighted(g, chunks, b, S)
  PROVE  recompose(chunks, b) = SumE(g) /\ SumE(g) \in Elems
<1>1. IsFiniteSet(S) /\ IsFamily(g, S, Elems) /\ DOMAIN chunks = S /\ \A c \in S : chunks[c] \in Elems
  BY DEF Weighted, IsFamily
<1>2. \A c \in S : g[c] = Mul(constant(Pow(b, c)), chunks[c])
  BY DEF Weighted
<1>3. \A c \in S : Pow(b, c) \in Int
  OBVIOUS
<1>4. SumE(g) \in Elems
  BY <1>1, TotalIsSum
<1>5. ASSUME NEW k \in Coeffs
      PROVE  SumE(g)[k] = FoldFunction(+, 0, [c \in DOMAIN chunks |-> Pow(b, c) * centered(q, chunks[c][k])]) % q
  <2>. DEFINE f == [c \in S |-> Pow(b, c) * centered(q, chunks[c][k])]
              gk == [c \in S |-> g[c][k]]
  <2>1. \A c \in S : f[c] \in Int /\ f[c] % q = gk[c] /\ gk[c] \in R
    <3>1. ASSUME NEW c \in S PROVE f[c] \in Int /\ f[c] % q = gk[c] /\ gk[c] \in R
      <4>. DEFINE a == centered(q, chunks[c][k])
                  pow == Pow(b, c)
      <4>1. chunks[c][k] \in R /\ chunks[c] \in Elems
        BY <1>1, ElemFacts
      <4>2. a \in Int /\ a % q = chunks[c][k] /\ pow \in Int /\ pow % q \in Int
        BY <1>3, <4>1, CenteredIs, Modulo
      <4>3. gk[c] = Times(pow % q, chunks[c][k])
        BY <1>2, <1>3, <4>1, MulByConstant
      <4>4. f[c] = pow * a
        OBVIOUS
      <4>. HIDE DEF f, gk, a, pow
      <4>5. Times(pow % q, a % q) = (pow * a) % q /\ pow * a \in Int
        <5>1. a % q \in Int
          BY <4>2, Modulo
        <5>. QED  BY <4>2, <5>1, ModuloLaws DEF Times
      <4>. QED  BY <4>2, <4>3, <4>4, <4>5, Modulo DEF R
    <3>. QED  BY <3>1
  <2>2. IsFamily(f, S, Int) /\ IsFamily(gk, S, R)
    BY <1>1, <2>1 DEF IsFamily
  <2>3. \A c \in S : gk[c] = g[c][k]
    OBVIOUS
  <2>4. f = [c \in DOMAIN chunks |-> Pow(b, c) * centered(q, chunks[c][k])]
    BY <1>1
  <2>. HIDE DEF f, gk
  <2>5. SumZ(f) % q = SumQ(gk)
    BY <2>1, <2>2, SumModulo
  <2>6. SumE(g)[k] = SumQ(gk)
    <3>1. IsFamily(g, S, Elems) /\ IsFamily(gk, S, R)
      BY <1>1, <2>2
    <3>. QED  BY <2>3, <3>1, Coefficient
  <2>7. FoldFunction(+, 0, f) = SumZ(f)
    BY <2>2, FoldFunctionIsSum
  <2>. QED  BY <2>4, <2>5, <2>6, <2>7
<1>6. SumE(g) = [k \in Coeffs |-> SumE(g)[k]]
  BY <1>4, ElemFacts
<1>. QED  BY <1>4, <1>5, <1>6 DEF recompose

-----------------------------------------------------------------------------
(* What the operators of DotProducts return.                               *)
Positions(s) == (0..(s.r - 1)) \X (0..(s.n - 1))

LEMMA FinitePlaces ==
  ASSUME NEW s, s.n \in Nat, s.r \in Nat
  PROVE  /\ IsFiniteSet(Pairs(s.r)) /\ IsFiniteSet(Positions(s))
         /\ IsFiniteSet(0..(s.r - 1)) /\ IsFiniteSet(0..(s.n - 1))
<1>1. IsFiniteSet(0..(s.r - 1)) /\ IsFiniteSet(0..(s.n - 1))
  <2>1. 0 \in Int /\ s.r - 1 \in Int /\ s.n - 1 \in Int
    OBVIOUS
  <2>. QED  BY <2>1, FS_Interval
<1>2. IsFiniteSet((0..(s.r - 1)) \X (0..(s.r - 1))) /\ IsFiniteSet(Positions(s))
  BY <1>1, FS_Product DEF Positions
<1>. QED  BY <1>1, <1>2, FS_Subset DEF Pairs

LEMMA SparseFamily ==
  ASSUME NEW P, IsFiniteSet(P), NEW f, IsSparse(f, P)
  PROVE  IsFamily(f, DOMAIN f, Elems) /\ DOMAIN f \subseteq P
  BY FS_Subset DEF IsSparse, IsFamily

\* Elements at all places of a set.
LEMMA FamilyTotal ==
  ASSUME NEW S, IsFiniteSet(S), NEW f, DOMAIN f = S, f = [x \in DOMAIN f |-> f[x]],
         \A x \in S : f[x] \in Elems
  PROVE  IsFamily(f, S, Elems) /\ Total(f) = SumE(f) /\ Total(f) \in Elems
<1>1. IsFamily(f, S, Elems)
  BY DEF IsFamily
<1>. QED  BY <1>1, TotalIsSum

LEMMA DoubledIn ==
  ASSUME NEW p, NEW x \in Elems
  PROVE  Doubled(p, x) \in Elems
  BY AddLaws DEF Doubled

QuadraticTerms(a, g) == [p \in DOMAIN a |-> Doubled(p, Mul(a[p], g[p]))]

LEMMA QuadraticIs ==
  ASSUME NEW P, IsFiniteSet(P), NEW a, IsSparse(a, P), NEW g, \A p \in DOMAIN a : g[p] \in Elems
  PROVE  /\ IsFamily(QuadraticTerms(a, g), DOMAIN a, Elems)
         /\ quadratic(a, g) = SumE(QuadraticTerms(a, g)) /\ quadratic(a, g) \in Elems
<1>1. IsFiniteSet(DOMAIN a) /\ \A p \in DOMAIN a : a[p] \in Elems
  BY SparseFamily DEF IsFamily
<1>2. \A p \in DOMAIN a : Doubled(p, Mul(a[p], g[p])) \in Elems
  BY <1>1, MulIs, DoubledIn
<1>3. IsFamily(QuadraticTerms(a, g), DOMAIN a, Elems)
  BY <1>1, <1>2 DEF IsFamily, QuadraticTerms
<1>4. quadratic(a, g) = Total(QuadraticTerms(a, g))
  BY DEF quadratic, QuadraticTerms
<1>. QED  BY <1>3, <1>4, TotalIsSum

\* An entry of a witness.
LEMMA WitnessEntry ==
  ASSUME NEW s, NEW u, IsWitness(u, s)
  PROVE  /\ \A i \in 0..(s.r - 1) : u[i] \in [0..(s.n - 1) -> Elems]
         /\ \A x \in Positions(s) : u[x[1]][x[2]] \in Elems
         /\ DOMAIN u = 0..(s.r - 1)
  BY DEF IsWitness, Positions

LinearTerms(phi, u) == [x \in DOMAIN phi |-> Mul(phi[x], u[x[1]][x[2]])]

LEMMA LinearIs ==
  ASSUME NEW s, s.n \in Nat, s.r \in Nat, NEW u, IsWitness(u, s), NEW phi, IsSparse(phi, Positions(s))
  PROVE  /\ IsFamily(LinearTerms(phi, u), DOMAIN phi, Elems)
         /\ sparse_phi_inner_product(phi, u) = SumE(LinearTerms(phi, u))
         /\ sparse_phi_inner_product(phi, u) \in Elems
<1>1. IsFiniteSet(DOMAIN phi) /\ (\A x \in DOMAIN phi : phi[x] \in Elems) /\ DOMAIN phi \subseteq Positions(s)
  BY FinitePlaces, SparseFamily DEF IsFamily
<1>2. \A x \in DOMAIN phi : u[x[1]][x[2]] \in Elems
  BY <1>1, WitnessEntry
<1>3. \A x \in DOMAIN phi : Mul(phi[x], u[x[1]][x[2]]) \in Elems
  BY <1>1, <1>2, MulIs
<1>4. IsFamily(LinearTerms(phi, u), DOMAIN phi, Elems)
  BY <1>1, <1>3 DEF IsFamily, LinearTerms
<1>5. sparse_phi_inner_product(phi, u) = Total(LinearTerms(phi, u))
  BY DEF sparse_phi_inner_product, LinearTerms
<1>. QED  BY <1>4, <1>5, TotalIsSum

LEMMA InnerProductIs ==
  ASSUME NEW S, IsFiniteSet(S), NEW x \in [S -> Elems], NEW y \in [S -> Elems]
  PROVE  /\ IsFamily([p \in S |-> Mul(x[p], y[p])], S, Elems)
         /\ ring_inner_product(x, y) = SumE([p \in S |-> Mul(x[p], y[p])])
         /\ ring_inner_product(x, y) \in Elems
<1>. DEFINE f == [p \in S |-> Mul(x[p], y[p])]
<1>1. \A p \in S : Mul(x[p], y[p]) \in Elems
  BY MulIs
<1>2. IsFamily(f, S, Elems)
  BY <1>1 DEF IsFamily
<1>3. ring_inner_product(x, y) = Total(f)
  BY DEF ring_inner_product
<1>. HIDE DEF f
<1>4. ring_inner_product(x, y) = SumE(f) /\ ring_inner_product(x, y) \in Elems
  BY <1>2, <1>3, TotalIsSum
<1>. QED  BY <1>2, <1>4 DEF f

LEMMA GarbageIn ==
  ASSUME NEW s, s.n \in Nat, s.r \in Nat, NEW u, IsWitness(u, s), NEW P \in SUBSET Pairs(s.r)
  PROVE  /\ compute_g(u, P) \in [P -> Elems]
         /\ \A p \in P : compute_g(u, P)[p] = ring_inner_product(u[p[1]], u[p[2]])
<1>1. ASSUME NEW p \in P PROVE ring_inner_product(u[p[1]], u[p[2]]) \in Elems
  <2>1. p[1] \in 0..(s.r - 1) /\ p[2] \in 0..(s.r - 1)
    BY DEF Pairs
  <2>2. u[p[1]] \in [0..(s.n - 1) -> Elems] /\ u[p[2]] \in [0..(s.n - 1) -> Elems]
    BY <2>1, WitnessEntry
  <2>. QED  BY <2>2, FinitePlaces, InnerProductIs
<1>. QED  BY <1>1 DEF compute_g

LEMMA ValueIn ==
  ASSUME NEW s, s.n \in Nat, s.r \in Nat, NEW u, IsWitness(u, s), NEW c, IsConstraint(c, s)
  PROVE  /\ Value(c, u) \in Elems
         /\ Value(c, u) = Add(quadratic(c.a, compute_g(u, DOMAIN c.a)), sparse_phi_inner_product(c.phi, u))
         /\ quadratic(c.a, compute_g(u, DOMAIN c.a)) \in Elems
         /\ sparse_phi_inner_product(c.phi, u) \in Elems
<1>1. IsSparse(c.a, Pairs(s.r)) /\ IsSparse(c.phi, Positions(s)) /\ DOMAIN c.a \in SUBSET Pairs(s.r)
  BY DEF IsConstraint, IsSparse, Positions
<1>2. \A p \in DOMAIN c.a : compute_g(u, DOMAIN c.a)[p] \in Elems
  BY <1>1, GarbageIn
<1>3. quadratic(c.a, compute_g(u, DOMAIN c.a)) \in Elems
  BY <1>1, <1>2, FinitePlaces, QuadraticIs
<1>4. sparse_phi_inner_product(c.phi, u) \in Elems
  BY <1>1, LinearIs
<1>. QED  BY <1>3, <1>4, AddLaws DEF Value

\* Half of two products of phi and a vector.
LEMMA PhiDotIs ==
  ASSUME NEW s, s.n \in Nat, s.r \in Nat, NEW phi, IsSparse(phi, Positions(s)),
         NEW i, NEW x \in [0..(s.n - 1) -> Elems]
  PROVE  /\ IsFamily([y \in {t \in DOMAIN phi : t[1] = i} |-> Mul(phi[y], x[y[2]])],
                     {t \in DOMAIN phi : t[1] = i}, Elems)
         /\ phi_dot(phi, i, x) = SumE([y \in {t \in DOMAIN phi : t[1] = i} |-> Mul(phi[y], x[y[2]])])
         /\ phi_dot(phi, i, x) \in Elems
<1>. DEFINE S == {t \in DOMAIN phi : t[1] = i}
            f == [y \in S |-> Mul(phi[y], x[y[2]])]
<1>1. IsFiniteSet(DOMAIN phi) /\ (\A y \in DOMAIN phi : phi[y] \in Elems) /\ DOMAIN phi \subseteq Positions(s)
  BY FinitePlaces, SparseFamily DEF IsFamily
<1>2. IsFiniteSet(S)
  BY <1>1, FS_Subset
<1>3. \A y \in S : Mul(phi[y], x[y[2]]) \in Elems
  <2>1. \A y \in S : x[y[2]] \in Elems /\ phi[y] \in Elems
    BY <1>1 DEF Positions
  <2>. QED  BY <2>1, MulIs
<1>4. IsFamily(f, S, Elems)
  BY <1>2, <1>3 DEF IsFamily
<1>5. phi_dot(phi, i, x) = Total(f)
  BY DEF phi_dot
<1>. HIDE DEF f, S
<1>6. phi_dot(phi, i, x) = SumE(f) /\ phi_dot(phi, i, x) \in Elems
  BY <1>4, <1>5, TotalIsSum
<1>. QED  BY <1>4, <1>6 DEF f, S

LEMMA ComputeHIn ==
  ASSUME NEW s, s.n \in Nat, s.r \in Nat, NEW u, IsWitness(u, s), NEW phi, IsSparse(phi, Positions(s))
  PROVE  compute_h(phi, u, s.r) \in [Pairs(s.r) -> Elems]
<1>1. (q + 1) \div 2 \in Int
  BY ResidueFacts
<1>2. ASSUME NEW p \in Pairs(s.r)
      PROVE  Scale(Add(phi_dot(phi, p[1], u[p[2]]), phi_dot(phi, p[2], u[p[1]])), (q + 1) \div 2) \in Elems
  <2>1. u[p[1]] \in [0..(s.n - 1) -> Elems] /\ u[p[2]] \in [0..(s.n - 1) -> Elems]
    BY WitnessEntry DEF Pairs
  <2>2. phi_dot(phi, p[1], u[p[2]]) \in Elems /\ phi_dot(phi, p[2], u[p[1]]) \in Elems
    BY <2>1, PhiDotIs
  <2>3. Add(phi_dot(phi, p[1], u[p[2]]), phi_dot(phi, p[2], u[p[1]])) \in Elems
    BY <2>2, AddLaws
  <2>. QED  BY <1>1, <2>3, ScaleIs
<1>. QED  BY <1>2 DEF compute_h

\* A family of sparse functions, each with elements at places of P.
Sparses(fs, P) == IsFiniteSet(DOMAIN fs) /\ \A l \in DOMAIN fs : IsSparse(fs[l], P)
Weights(weights, fs) == \A l \in DOMAIN fs : weights[l] \in Elems

\* The places of the functions, and the functions that are defined at one.
AllPlaces(fs) == UNION {DOMAIN fs[l] : l \in DOMAIN fs}
DefinedAt(fs, x) == {k \in DOMAIN fs : x \in DOMAIN fs[k]}

LEMMA CombinationIs ==
  ASSUME NEW P, IsFiniteSet(P), NEW fs, Sparses(fs, P), NEW weights, Weights(weights, fs)
  PROVE  /\ IsSparse(Combination(weights, fs), P)
         /\ DOMAIN Combination(weights, fs) = AllPlaces(fs) /\ AllPlaces(fs) \subseteq P
         /\ \A x \in AllPlaces(fs) :
              /\ IsFamily([l \in DefinedAt(fs, x) |-> Mul(weights[l], fs[l][x])], DefinedAt(fs, x), Elems)
              /\ Combination(weights, fs)[x] =
                   SumE([l \in DefinedAt(fs, x) |-> Mul(weights[l], fs[l][x])])
<1>. DEFINE Terms(x) == [l \in DefinedAt(fs, x) |-> Mul(weights[l], fs[l][x])]
<1>1. \A l \in DOMAIN fs : DOMAIN fs[l] \subseteq P /\ \A x \in DOMAIN fs[l] : fs[l][x] \in Elems
  BY DEF Sparses, IsSparse
<1>2. AllPlaces(fs) \subseteq P
  BY <1>1 DEF AllPlaces
<1>3. ASSUME NEW x PROVE IsFamily(Terms(x), DefinedAt(fs, x), Elems)
  <2>1. IsFiniteSet(DefinedAt(fs, x))
    BY FS_Subset DEF Sparses, DefinedAt
  <2>2. \A l \in DefinedAt(fs, x) : weights[l] \in Elems /\ fs[l][x] \in Elems
    BY <1>1 DEF DefinedAt, Weights
  <2>3. \A l \in DefinedAt(fs, x) : Mul(weights[l], fs[l][x]) \in Elems
    BY <2>2, MulIs
  <2>. QED  BY <2>1, <2>3 DEF IsFamily
<1>4. Combination(weights, fs) = [x \in AllPlaces(fs) |-> Total(Terms(x))]
  BY DEF Combination, AllPlaces, DefinedAt
<1>. HIDE DEF Terms
<1>5. \A x : Total(Terms(x)) = SumE(Terms(x)) /\ Total(Terms(x)) \in Elems
  BY <1>3, TotalIsSum
<1>6. IsSparse(Combination(weights, fs), P)
  BY <1>2, <1>4, <1>5 DEF IsSparse
<1>7. DOMAIN Combination(weights, fs) = AllPlaces(fs)
      /\ \A x \in AllPlaces(fs) : Combination(weights, fs)[x] = SumE(Terms(x))
  BY <1>4, <1>5
<1>. QED  BY <1>2, <1>3, <1>6, <1>7 DEF Terms

-----------------------------------------------------------------------------
(* Sequences of constraints, and the draws.                                 *)
IsSeq(f) == f \in Seq(Range(f))

LEMMA SeqIs ==
  ASSUME NEW f, IsSeq(f)
  PROVE  /\ Len(f) \in Nat /\ DOMAIN f = 1..Len(f) /\ IsFiniteSet(DOMAIN f)
         /\ f = [k \in DOMAIN f |-> f[k]]
<1>1. Len(f) \in Nat /\ DOMAIN f = 1..Len(f) /\ f = [k \in DOMAIN f |-> f[k]]
  BY DEF IsSeq
<1>2. IsFiniteSet(1..Len(f))
  BY <1>1, FS_Interval
<1>. QED  BY <1>1, <1>2

LEMMA SeqOf ==
  ASSUME NEW n \in Nat, NEW f, DOMAIN f = 1..n, f = [k \in DOMAIN f |-> f[k]]
  PROVE  IsSeq(f) /\ Len(f) = n
<1>1. f \in [1..n -> Range(f)]
  BY DEF Range
<1>. QED  BY <1>1 DEF IsSeq

LEMMA SeqJoined ==
  ASSUME NEW f, IsSeq(f), NEW g, IsSeq(g)
  PROVE  /\ IsSeq(f \o g) /\ Len(f \o g) = Len(f) + Len(g)
         /\ \A k \in 1..(Len(f) + Len(g)) : (f \o g)[k] = IF k <= Len(f) THEN f[k] ELSE g[k - Len(f)]
<1>. DEFINE S == Range(f) \cup Range(g)
<1>1. f \in Seq(S) /\ g \in Seq(S)
  BY DEF IsSeq, Range
<1>. HIDE DEF S
<1>2. f \o g \in Seq(S) /\ Len(f \o g) = Len(f) + Len(g)
      /\ \A k \in 1..(Len(f) + Len(g)) : (f \o g)[k] = IF k <= Len(f) THEN f[k] ELSE g[k - Len(f)]
  BY <1>1
<1>3. IsSeq(f \o g)
  <2>. DEFINE h == f \o g
  <2>1. h \in Seq(S)
    BY <1>2
  <2>. HIDE DEF h
  <2>2. Len(h) \in Nat /\ DOMAIN h = 1..Len(h) /\ h = [k \in DOMAIN h |-> h[k]]
    BY <2>1
  <2>3. IsSeq(h)
    BY <2>2, SeqOf
  <2>. QED  BY <2>3 DEF h
<1>. QED  BY <1>2, <1>3

\* Every draw is a residue, as sample_residue and the ring's sampler return.
DrawsAreResidues == \A seed, label, x : Squeeze(seed, label, x) \in Residues(q)

LEMMA DrawIn ==
  ASSUME DrawsAreResidues
  PROVE  \A seed, label, ix : Draw(seed, label, ix) \in Elems
  BY DEF Draw, Elems, DrawsAreResidues

LEMMA PiIn ==
  ASSUME NEW sd, NEW x \in Rows \X Vectors \X Below(stmt.n) \X Coeffs
  PROVE  Pi(sd)[x] \in {0, 1, -1}
  BY DEF Pi, PiEntry

LEMMA SigmaIn ==
  ASSUME NEW x \in Elems
  PROVE  /\ sigma_minus_one(x) \in Elems
         /\ \A k \in Coeffs : sigma_minus_one(x)[k] = IF k = 0 THEN x[0] ELSE Minus(x[D - k])
<1>1. ASSUME NEW k \in Coeffs PROVE (IF k = 0 THEN x[0] ELSE Minus(x[D - k])) \in R
  <2>1. k # 0 => D - k \in Coeffs
    BY ElemFacts DEF Coeffs
  <2>2. x[0] \in R /\ (k # 0 => x[D - k] \in R)
    BY <2>1, ElemFacts
  <2>. QED  BY <2>2, ResiduesClosed
<1>2. sigma_minus_one(x) = [k \in Coeffs |-> IF k = 0 THEN x[0] ELSE Minus(x[D - k])]
  BY DEF sigma_minus_one, Minus
<1>. QED  BY <1>1, <1>2, ElemFacts

\* Constraints on constant terms of a statement.
AreCts(cts, s) ==
  IsSeq(cts) /\ \A l \in DOMAIN cts : IsConstraint(cts[l], s) /\ cts[l].b0 \in R

RowEntries(Pi_, j, x) == [k \in Coeffs |-> Pi_[<<j, x[1], x[2], k>>] % q]

LEMMA RowEntriesIn ==
  ASSUME NEW sd, NEW j \in Rows, NEW x \in Slots_w
  PROVE  /\ RowEntries(Pi(sd), j, x) \in Elems
         /\ \A k \in Coeffs : Pi(sd)[<<j, x[1], x[2], k>>] \in Int
                              /\ RowEntries(Pi(sd), j, x)[k] = Pi(sd)[<<j, x[1], x[2], k>>] % q
<1>1. ASSUME NEW k \in Coeffs
      PROVE  Pi(sd)[<<j, x[1], x[2], k>>] \in Int /\ Pi(sd)[<<j, x[1], x[2], k>>] % q \in R
  <2>1. <<j, x[1], x[2], k>> \in Rows \X Vectors \X Below(stmt.n) \X Coeffs
    BY DEF Slots_w
  <2>2. Pi(sd)[<<j, x[1], x[2], k>>] \in Int
    BY <2>1, PiIn
  <2>. QED  BY <2>2, Modulo DEF R
<1>. QED  BY <1>1, ElemFacts DEF RowEntries

LEMMA JlConstraintsIn ==
  ASSUME NEW sd, NEW p \in [Rows -> Int], stmt.n \in Nat, stmt.r \in Nat
  PROVE  LET jl == build_jl_constraints(Pi(sd), p, Slots_w)
         IN  /\ AreCts(jl, stmt) /\ DOMAIN jl = Rows
             /\ \A j \in Rows :
                  /\ jl[j].a = << >> /\ jl[j].b0 = p[j] % q
                  /\ jl[j].phi = [x \in Slots_w |-> sigma_minus_one(RowEntries(Pi(sd), j, x))]
<1>. DEFINE jl == build_jl_constraints(Pi(sd), p, Slots_w)
            phi(j) == [x \in Slots_w |-> sigma_minus_one(RowEntries(Pi(sd), j, x))]
<1>1. jl = [j \in Rows |-> [a |-> << >>, phi |-> phi(j), b0 |-> p[j] % q]]
  BY DEF build_jl_constraints, RowEntries
<1>2. \A j \in Rows : IsSparse(phi(j), Positions(stmt))
  <2>1. \A j \in Rows : \A x \in Slots_w : sigma_minus_one(RowEntries(Pi(sd), j, x)) \in Elems
    BY RowEntriesIn, SigmaIn
  <2>2. Slots_w = Positions(stmt)
    BY DEF Slots_w, Positions, Vectors, Below
  <2>. QED  BY <2>1, <2>2 DEF IsSparse
<1>. HIDE DEF phi
<1>3. \A j \in Rows : jl[j].a = << >> /\ jl[j].phi = phi(j) /\ jl[j].b0 = p[j] % q
  BY <1>1
<1>4. \A j \in Rows : p[j] % q \in R
  BY Modulo DEF R
<1>5. IsSparse(<< >>, Pairs(stmt.r))
  BY DEF IsSparse
<1>6. IsSeq(jl) /\ DOMAIN jl = Rows
  <2>1. PROJECTION_ROWS \in Nat /\ DOMAIN jl = 1..PROJECTION_ROWS /\ jl = [j \in DOMAIN jl |-> jl[j]]
    BY <1>1, RowsAssumption DEF Rows
  <2>. HIDE DEF jl
  <2>. QED  BY <2>1, SeqOf DEF Rows
<1>. HIDE DEF jl
<1>7. \A j \in Rows : IsConstraint(jl[j], stmt) /\ jl[j].b0 \in R
  BY <1>2, <1>3, <1>4, <1>5 DEF IsConstraint, Positions
<1>8. AreCts(jl, stmt)
  BY <1>6, <1>7 DEF AreCts
<1>9. \A j \in Rows : jl[j].phi = [x \in Slots_w |-> sigma_minus_one(RowEntries(Pi(sd), j, x))]
  BY <1>3 DEF phi
<1>. QED  BY <1>3, <1>6, <1>8, <1>9 DEF jl

LEMMA ConstTermsIn ==
  ASSUME IsStatement(stmt), NEW sd, NEW p, version # "v1" => p \in [Rows -> Int]
  PROVE  AreCts(ConstTerms(sd, p), stmt)
<1>1. AreCts(stmt.const_term, stmt) /\ stmt.n \in Nat /\ stmt.r \in Nat
  BY DEF IsStatement, AreCts, IsSeq, R
<1>2. CASE version = "v1"
  BY <1>1, <1>2 DEF ConstTerms
<1>3. CASE version # "v1"
  <2>. DEFINE jl == build_jl_constraints(Pi(sd), p, Slots_w)
              cts == stmt.const_term
  <2>1. AreCts(jl, stmt)
    BY <1>1, <1>3, JlConstraintsIn
  <2>2. AreCts(cts, stmt)
    BY <1>1
  <2>3. ConstTerms(sd, p) = cts \o jl
    BY <1>3 DEF ConstTerms
  <2>. HIDE DEF jl, cts
  <2>4. IsSeq(cts) /\ IsSeq(jl)
    BY <2>1, <2>2 DEF AreCts
  <2>5. /\ IsSeq(cts \o jl) /\ Len(cts \o jl) = Len(cts) + Len(jl)
        /\ \A k \in 1..(Len(cts) + Len(jl)) : (cts \o jl)[k] = IF k <= Len(cts) THEN cts[k] ELSE jl[k - Len(cts)]
    BY <2>4, SeqJoined
  <2>6. /\ DOMAIN cts = 1..Len(cts) /\ DOMAIN jl = 1..Len(jl) /\ DOMAIN (cts \o jl) = 1..(Len(cts) + Len(jl))
        /\ Len(cts) \in Nat /\ Len(jl) \in Nat
    BY <2>4, <2>5, SeqIs
  <2>7. ASSUME NEW k \in 1..(Len(cts) + Len(jl))
        PROVE  IsConstraint((cts \o jl)[k], stmt) /\ (cts \o jl)[k].b0 \in R
    <3>1. CASE k <= Len(cts)
      <4>1. k \in DOMAIN cts /\ (cts \o jl)[k] = cts[k]
        BY <2>5, <2>6, <3>1
      <4>. QED  BY <2>2, <4>1 DEF AreCts
    <3>2. CASE ~(k <= Len(cts))
      <4>1. k - Len(cts) \in DOMAIN jl /\ (cts \o jl)[k] = jl[k - Len(cts)]
        BY <2>5, <2>6, <3>2
      <4>. QED  BY <2>1, <4>1 DEF AreCts
    <3>. QED  BY <3>1, <3>2
  <2>. QED  BY <2>3, <2>5, <2>6, <2>7 DEF AreCts
<1>. QED  BY <1>2, <1>3

-----------------------------------------------------------------------------
(* The types of the aggregation.                                            *)
AreConstraints(cts, s) == IsSeq(cts) /\ \A l \in DOMAIN cts : IsConstraint(cts[l], s)

LEMMA ConstraintsJoined ==
  ASSUME NEW s, NEW f, AreConstraints(f, s), NEW g, AreConstraints(g, s)
  PROVE  AreConstraints(f \o g, s)
<1>1. IsSeq(f) /\ IsSeq(g)
  BY DEF AreConstraints
<1>2. /\ IsSeq(f \o g) /\ Len(f \o g) = Len(f) + Len(g)
      /\ \A k \in 1..(Len(f) + Len(g)) : (f \o g)[k] = IF k <= Len(f) THEN f[k] ELSE g[k - Len(f)]
  BY <1>1, SeqJoined
<1>3. /\ DOMAIN f = 1..Len(f) /\ DOMAIN g = 1..Len(g) /\ DOMAIN (f \o g) = 1..(Len(f) + Len(g))
      /\ Len(f) \in Nat /\ Len(g) \in Nat
  BY <1>1, <1>2, SeqIs
<1>4. ASSUME NEW k \in 1..(Len(f) + Len(g)) PROVE IsConstraint((f \o g)[k], s)
  <2>1. CASE k <= Len(f)
    <3>1. k \in DOMAIN f /\ (f \o g)[k] = f[k]
      BY <1>2, <1>3, <2>1
    <3>. QED  BY <3>1 DEF AreConstraints
  <2>2. CASE ~(k <= Len(f))
    <3>1. k - Len(f) \in DOMAIN g /\ (f \o g)[k] = g[k - Len(f)]
      BY <1>2, <1>3, <2>2
    <3>. QED  BY <3>1 DEF AreConstraints
  <2>. QED  BY <2>1, <2>2
<1>. QED  BY <1>2, <1>3, <1>4 DEF AreConstraints

LEMMA FieldsIn ==
  ASSUME NEW s, NEW cts, AreConstraints(cts, s)
  PROVE  /\ DOMAIN Field(cts, "a") = DOMAIN cts /\ DOMAIN Field(cts, "phi") = DOMAIN cts
         /\ \A l \in DOMAIN cts : Field(cts, "a")[l] = cts[l].a /\ Field(cts, "phi")[l] = cts[l].phi
         /\ Sparses(Field(cts, "a"), Pairs(s.r)) /\ Sparses(Field(cts, "phi"), Positions(s))
<1>1. IsFiniteSet(DOMAIN cts)
  BY SeqIs DEF AreConstraints
<1>2. \A l \in DOMAIN cts : IsSparse(cts[l].a, Pairs(s.r)) /\ IsSparse(cts[l].phi, Positions(s))
  BY DEF AreConstraints, IsConstraint, Positions
<1>3. /\ DOMAIN Field(cts, "a") = DOMAIN cts /\ DOMAIN Field(cts, "phi") = DOMAIN cts
      /\ \A l \in DOMAIN cts : Field(cts, "a")[l] = cts[l].a /\ Field(cts, "phi")[l] = cts[l].phi
  BY DEF Field
<1>. QED  BY <1>1, <1>2, <1>3 DEF Sparses

\* Two sequences of weights, or of right sides.
AreElems(xs, n) == n \in Nat /\ IsSeq(xs) /\ Len(xs) = n /\ \A k \in 1..n : xs[k] \in Elems

LEMMA ElemsOf ==
  ASSUME NEW n \in Nat, NEW xs \in [1..n -> Elems]
  PROVE  AreElems(xs, n)
<1>1. DOMAIN xs = 1..n /\ xs = [k \in DOMAIN xs |-> xs[k]]
  OBVIOUS
<1>. QED  BY <1>1, SeqOf DEF AreElems

AreJoined(zs, xs, n, ys, m) ==
  /\ AreElems(zs, n + m) /\ DOMAIN zs = 1..(n + m)
  /\ \A k \in 1..n : zs[k] = xs[k]
  /\ \A k \in 1..m : zs[n + k] = ys[k]

LEMMA ElemsJoined ==
  ASSUME NEW n, NEW m, NEW xs, AreElems(xs, n), NEW ys, AreElems(ys, m)
  PROVE  AreJoined(xs \o ys, xs, n, ys, m)
<1>1. n \in Nat /\ m \in Nat /\ IsSeq(xs) /\ IsSeq(ys) /\ Len(xs) = n /\ Len(ys) = m
  BY DEF AreElems
<1>2. /\ IsSeq(xs \o ys) /\ Len(xs \o ys) = n + m
      /\ \A k \in 1..(n + m) : (xs \o ys)[k] = IF k <= n THEN xs[k] ELSE ys[k - n]
  BY <1>1, SeqJoined
<1>3. ASSUME NEW k \in 1..(n + m) PROVE (xs \o ys)[k] \in Elems
  <2>1. k <= n => k \in 1..n
    BY <1>1
  <2>2. ~(k <= n) => k - n \in 1..m
    BY <1>1
  <2>. QED  BY <1>2, <2>1, <2>2 DEF AreElems
<1>4. \A k \in 1..n : (xs \o ys)[k] = xs[k]
  <2>1. \A k \in 1..n : k \in 1..(n + m) /\ k <= n
    BY <1>1
  <2>. QED  BY <1>2, <2>1
<1>5. \A k \in 1..m : (xs \o ys)[n + k] = ys[k]
  <2>1. \A k \in 1..m : n + k \in 1..(n + m) /\ ~(n + k <= n) /\ (n + k) - n = k
    BY <1>1
  <2>. QED  BY <1>2, <2>1
<1>6. DOMAIN (xs \o ys) = 1..(n + m)
  BY <1>2, SeqIs
<1>. DEFINE zs == xs \o ys
<1>7. IsSeq(zs) /\ Len(zs) = n + m /\ DOMAIN zs = 1..(n + m)
      /\ (\A k \in 1..(n + m) : zs[k] \in Elems)
      /\ (\A k \in 1..n : zs[k] = xs[k]) /\ (\A k \in 1..m : zs[n + k] = ys[k])
  BY <1>2, <1>3, <1>4, <1>5, <1>6
<1>. HIDE DEF zs
<1>8. n + m \in Nat
  BY <1>1
<1>9. AreElems(zs, n + m)
  BY <1>7, <1>8 DEF AreElems
<1>10. AreJoined(zs, xs, n, ys, m)
  BY <1>7, <1>9 DEF AreJoined
<1>. QED  BY <1>10 DEF zs

LEMMA ConstantsIn ==
  ASSUME NEW xs, \A l \in DOMAIN xs : xs[l] \in Int
  PROVE  /\ DOMAIN Constants(xs) = DOMAIN xs
         /\ \A l \in DOMAIN xs : Constants(xs)[l] = constant(xs[l]) /\ Constants(xs)[l] \in Elems
  BY ConstantIs DEF Constants

LEMMA AggregatedIn ==
  ASSUME NEW s, s.n \in Nat, s.r \in Nat, NEW cts, AreConstraints(cts, s),
         NEW psis, DOMAIN psis = DOMAIN cts, \A l \in DOMAIN cts : psis[l] \in Int
  PROVE  /\ IsConstraint(aggregate_const_term(cts, psis), s)
         /\ Weights(Constants(psis), Field(cts, "a")) /\ Weights(Constants(psis), Field(cts, "phi"))
<1>1. \A l \in DOMAIN cts : Constants(psis)[l] \in Elems
  BY ConstantsIn
<1>2. Weights(Constants(psis), Field(cts, "a")) /\ Weights(Constants(psis), Field(cts, "phi"))
  BY <1>1, FieldsIn DEF Weights
<1>3. Sparses(Field(cts, "a"), Pairs(s.r)) /\ Sparses(Field(cts, "phi"), Positions(s))
  BY FieldsIn
<1>4. IsSparse(Combination(Constants(psis), Field(cts, "a")), Pairs(s.r))
      /\ IsSparse(Combination(Constants(psis), Field(cts, "phi")), Positions(s))
  BY <1>2, <1>3, FinitePlaces, CombinationIs
<1>. QED  BY <1>2, <1>4 DEF aggregate_const_term, IsConstraint, Positions

LEMMA PsisIn ==
  ASSUME DrawsAreResidues, NEW sd, NEW cts, NEW k \in 1..K_PP
  PROVE  DOMAIN Psis(sd, cts)[k] = DOMAIN cts /\ \A l \in DOMAIN cts : Psis(sd, cts)[k][l] \in R
  BY DEF Psis, Residue, DrawsAreResidues, R

ArePps(pps, s) ==
  DOMAIN pps = 1..K_PP /\ pps = [k \in DOMAIN pps |-> pps[k]] /\ \A k \in 1..K_PP : IsConstraint(pps[k], s)

LEMMA AggregatesIn ==
  ASSUME DrawsAreResidues, IsStatement(stmt), NEW sd, NEW cts, AreCts(cts, stmt)
  PROVE  /\ ArePps(Aggregates(sd, cts), stmt) /\ AreConstraints(cts, stmt)
         /\ \A k \in 1..K_PP : Aggregates(sd, cts)[k] = aggregate_const_term(cts, Psis(sd, cts)[k])
<1>1. AreConstraints(cts, stmt) /\ stmt.n \in Nat /\ stmt.r \in Nat
  BY DEF AreCts, AreConstraints, IsStatement
<1>2. ASSUME NEW k \in 1..K_PP PROVE IsConstraint(aggregate_const_term(cts, Psis(sd, cts)[k]), stmt)
  <2>1. DOMAIN Psis(sd, cts)[k] = DOMAIN cts /\ \A l \in DOMAIN cts : Psis(sd, cts)[k][l] \in Int
    BY PsisIn, ResidueFacts
  <2>. QED  BY <1>1, <2>1, AggregatedIn
<1>. QED  BY <1>1, <1>2 DEF Aggregates, ArePps

\* What an aggregation is made of: the constraints and their weights in sequence.
LEMMA AggregateParts ==
  ASSUME DrawsAreResidues, IsStatement(stmt), NEW sd, NEW pps, ArePps(pps, stmt)
  PROVE  LET cts == stmt.full \o pps
             weights == Alphas(sd) \o Betas(sd)
             n == Len(stmt.full)
         IN  /\ AreConstraints(cts, stmt) /\ AreConstraints(stmt.full, stmt)
             /\ n \in Nat /\ DOMAIN stmt.full = 1..n /\ DOMAIN cts = 1..(n + K_PP)
             /\ AreElems(Alphas(sd), n) /\ AreElems(Betas(sd), K_PP) /\ AreElems(weights, n + K_PP)
             /\ \A k \in 1..n : weights[k] = Alphas(sd)[k] /\ cts[k] = stmt.full[k]
             /\ \A k \in 1..K_PP : weights[n + k] = Betas(sd)[k] /\ cts[n + k] = pps[k]
<1>. DEFINE n == Len(stmt.full)
            full == stmt.full
<1>1. AreConstraints(full, stmt) /\ IsSeq(full)
  BY DEF IsStatement, AreConstraints, IsSeq
<1>2. n \in Nat /\ DOMAIN full = 1..n /\ K_PP \in Nat
  BY <1>1, SeqIs, CountAssumption
<1>3. AreConstraints(pps, stmt) /\ IsSeq(pps) /\ Len(pps) = K_PP
  BY <1>2, SeqOf DEF ArePps, AreConstraints
<1>4. AreConstraints(full \o pps, stmt)
  BY <1>1, <1>3, ConstraintsJoined
<1>5. Alphas(sd) \in [1..n -> Elems] /\ Betas(sd) \in [1..K_PP -> Elems]
  BY <1>2, DrawIn DEF Alphas, Betas
<1>6. AreElems(Alphas(sd), n) /\ AreElems(Betas(sd), K_PP)
  BY <1>2, <1>5, ElemsOf
<1>7. AreJoined(Alphas(sd) \o Betas(sd), Alphas(sd), n, Betas(sd), K_PP)
  BY <1>6, ElemsJoined
<1>8. /\ IsSeq(full \o pps) /\ Len(full \o pps) = n + K_PP
      /\ \A k \in 1..(n + K_PP) : (full \o pps)[k] = IF k <= n THEN full[k] ELSE pps[k - n]
  BY <1>1, <1>3, SeqJoined
<1>9. DOMAIN (full \o pps) = 1..(n + K_PP)
  BY <1>8, SeqIs
<1>10. \A k \in 1..n : (full \o pps)[k] = full[k]
  <2>1. \A k \in 1..n : k \in 1..(n + K_PP) /\ k <= n
    BY <1>2
  <2>. HIDE DEF n, full
  <2>. QED  BY <1>8, <2>1
<1>11. \A k \in 1..K_PP : (full \o pps)[n + k] = pps[k]
  <2>1. \A k \in 1..K_PP : n + k \in 1..(n + K_PP) /\ ~(n + k <= n) /\ (n + k) - n = k
    BY <1>2
  <2>. HIDE DEF n, full
  <2>. QED  BY <1>8, <2>1
<1>. QED  BY <1>1, <1>2, <1>4, <1>6, <1>7, <1>9, <1>10, <1>11 DEF AreJoined

\* The right sides, in sequence.
LEMMA RightSides ==
  ASSUME IsStatement(stmt), NEW bpp \in [1..K_PP -> Elems]
  PROVE  LET bs == Field(stmt.full, "b") \o bpp
             n == Len(stmt.full)
         IN  /\ AreElems(bs, n + K_PP) /\ DOMAIN bs = 1..(n + K_PP)
             /\ \A k \in 1..n : bs[k] = stmt.full[k].b
             /\ \A k \in 1..K_PP : bs[n + k] = bpp[k]
<1>. DEFINE n == Len(stmt.full)
            b0s == Field(stmt.full, "b")
<1>1. IsSeq(stmt.full) /\ \A k \in DOMAIN stmt.full : stmt.full[k].b \in Elems
  BY DEF IsStatement, IsSeq
<1>2. n \in Nat /\ DOMAIN stmt.full = 1..n /\ K_PP \in Nat
  BY <1>1, SeqIs, CountAssumption
<1>3. b0s \in [1..n -> Elems] /\ \A k \in 1..n : b0s[k] = stmt.full[k].b
  BY <1>1, <1>2 DEF Field
<1>4. AreElems(b0s, n) /\ AreElems(bpp, K_PP)
  BY <1>2, <1>3, ElemsOf
<1>. HIDE DEF n, b0s
<1>5. AreJoined(b0s \o bpp, b0s, n, bpp, K_PP)
  BY <1>4, ElemsJoined
<1>. QED  BY <1>3, <1>5 DEF n, b0s, AreJoined

IsAggregate(x, s) ==
  /\ IsSparse(x.a_agg, Pairs(s.r)) /\ IsSparse(x.phi_agg, Positions(s)) /\ x.b_agg \in Elems

LEMMA AggregateIn ==
  ASSUME DrawsAreResidues, IsStatement(stmt), NEW sd, NEW pps, ArePps(pps, stmt),
         NEW bpp \in [1..K_PP -> Elems]
  PROVE  IsAggregate(Aggregate(sd, pps, bpp), stmt)
<1>. DEFINE cts == stmt.full \o pps
            weights == Alphas(sd) \o Betas(sd)
            n == Len(stmt.full)
            bs == Field(stmt.full, "b") \o bpp
            x == Aggregate(sd, pps, bpp)
<1>1. /\ AreConstraints(cts, stmt) /\ n \in Nat /\ DOMAIN cts = 1..(n + K_PP)
      /\ AreElems(weights, n + K_PP)
  BY AggregateParts
<1>2. AreElems(bs, n + K_PP) /\ DOMAIN bs = 1..(n + K_PP)
  BY RightSides
<1>3. /\ x.a_agg = Combination(weights, Field(cts, "a"))
      /\ x.phi_agg = Combination(weights, Field(cts, "phi"))
      /\ x.b_agg = Total([k \in DOMAIN weights |-> Mul(weights[k], bs[k])])
  BY DEF Aggregate, aggregate_full, aggregate_b
<1>4. stmt.n \in Nat /\ stmt.r \in Nat /\ K_PP \in Nat
  BY CountAssumption DEF IsStatement
<1>5. IsSeq(weights) /\ Len(weights) = n + K_PP
  BY <1>1 DEF AreElems
<1>. HIDE DEF cts, weights, n, bs, x
<1>6. DOMAIN weights = 1..(n + K_PP) /\ IsFiniteSet(DOMAIN weights)
  BY <1>5, SeqIs
<1>7. /\ Sparses(Field(cts, "a"), Pairs(stmt.r)) /\ Sparses(Field(cts, "phi"), Positions(stmt))
      /\ DOMAIN Field(cts, "a") = DOMAIN cts /\ DOMAIN Field(cts, "phi") = DOMAIN cts
  BY <1>1, FieldsIn
<1>8. Weights(weights, Field(cts, "a")) /\ Weights(weights, Field(cts, "phi"))
  BY <1>1, <1>7 DEF Weights, AreElems
<1>9. IsSparse(x.a_agg, Pairs(stmt.r)) /\ IsSparse(x.phi_agg, Positions(stmt))
  BY <1>3, <1>4, <1>7, <1>8, FinitePlaces, CombinationIs
<1>10. x.b_agg \in Elems
  <2>. DEFINE f == [k \in DOMAIN weights |-> Mul(weights[k], bs[k])]
  <2>1. \A k \in DOMAIN weights : Mul(weights[k], bs[k]) \in Elems
    <3>1. \A k \in DOMAIN weights : weights[k] \in Elems /\ bs[k] \in Elems
      BY <1>1, <1>2, <1>6 DEF AreElems
    <3>. QED  BY <3>1, MulIs
  <2>2. IsFamily(f, DOMAIN weights, Elems)
    BY <1>6, <2>1 DEF IsFamily
  <2>. HIDE DEF f
  <2>3. Total(f) \in Elems
    BY <2>2, TotalIsSum
  <2>. QED  BY <1>3, <2>3 DEF f
<1>. QED  BY <1>9, <1>10 DEF IsAggregate, x

LEMMA DoublePrimeIn ==
  ASSUME IsStatement(stmt), IsWitness(w, stmt), NEW c, IsConstraint(c, stmt),
         NEW g \in [Pairs(stmt.r) -> Elems]
  PROVE  b_double_prime(c, g, w) \in Elems
<1>1. stmt.n \in Nat /\ stmt.r \in Nat
  BY DEF IsStatement
<1>2. IsSparse(c.a, Pairs(stmt.r)) /\ IsSparse(c.phi, Positions(stmt)) /\ DOMAIN c.a \subseteq Pairs(stmt.r)
  BY DEF IsConstraint, IsSparse, Positions
<1>3. \A p \in DOMAIN c.a : g[p] \in Elems
  BY <1>2
<1>4. quadratic(c.a, g) \in Elems
  BY <1>1, <1>2, <1>3, FinitePlaces, QuadraticIs
<1>5. sparse_phi_inner_product(c.phi, w) \in Elems
  BY <1>1, <1>2, LinearIs
<1>. QED  BY <1>4, <1>5, AddLaws DEF b_double_prime

-----------------------------------------------------------------------------
(* Shapes, matrices, openings and commitments.                              *)
LEMMA ParametersAre ==
  ASSUME NEW i \in Parameters
  PROVE  /\ i.t \in Nat \ {0} /\ i.b \in Nat \ {0} /\ i.b1 \in Nat \ {0} /\ i.t1 \in Nat \ {0}
         /\ i.b2 \in Nat \ {0} /\ i.t2 \in Nat \ {0} /\ i.kappa \in Nat \ {0}
         /\ i.kappa1 \in Nat \ {0} /\ i.nu \in Nat \ {0} /\ i.mu \in Nat \ {0}
  BY DEF Parameters

LEMMA ShapeIs ==
  ASSUME NEW st, IsStatement(st), NEW i \in Parameters
  PROVE  LET s == ShapeOf(st, i)
         IN  /\ Proper(s)
             /\ s.n = st.n /\ s.r = st.r /\ s.t1 = i.t1 /\ s.t2 = i.t2 /\ s.kappa = i.kappa
             /\ s.nu = i.nu /\ s.mu = i.mu
<1>1. st.n \in Nat \ {0} /\ st.r \in Nat \ {0}
  BY DEF IsStatement
<1>. QED  BY <1>1, ParametersAre DEF ShapeOf, Proper, Shape

\* Sources are finitely many: no two have the same slot.
LEMMA FiniteEntries ==
  ASSUME NEW s, Proper(s)
  PROVE  /\ IsFiniteSet(Sources(s)) /\ IsFiniteSet(Slots(s))
         /\ VEntries(s) \subseteq Sources(s) /\ GEntries(s) \subseteq Sources(s)
         /\ HEntries(s) \subseteq Sources(s)
         /\ IsFiniteSet(VEntries(s)) /\ IsFiniteSet(GEntries(s)) /\ IsFiniteSet(HEntries(s))
<1>. DEFINE r == RPrime(s) - 1
            n == NPrime(s) - 1
<1>1. r \in Int /\ n \in Int
  BY Lengths
<1>2. Slots(s) = (0..r) \X (0..n)
  BY DEF Slots, Below
<1>. HIDE DEF r, n
<1>3. IsFiniteSet(0..r) /\ IsFiniteSet(0..n)
  BY <1>1, FS_Interval
<1>4. IsFiniteSet(Slots(s))
  BY <1>2, <1>3, FS_Product
<1>. DEFINE f == [x \in Sources(s) |-> SlotOf(s, x)]
<1>5. f \in Injection(Sources(s), Slots(s))
  <2>1. \A x \in Sources(s) : SlotOf(s, x) \in Slots(s)
    BY SlotInside
  <2>2. \A x, y \in Sources(s) : SlotOf(s, x) = SlotOf(s, y) => x = y
    BY SlotInjective
  <2>. QED  BY <2>1, <2>2 DEF Injection, IsInjective
<1>. HIDE DEF f
<1>6. IsFiniteSet(Sources(s))
  BY <1>4, <1>5, FS_Injection
<1>7. /\ VEntries(s) \subseteq Sources(s) /\ GEntries(s) \subseteq Sources(s)
      /\ HEntries(s) \subseteq Sources(s)
  BY DEF Sources, Entries
<1>. QED  BY <1>4, <1>6, <1>7, FS_Subset

LEMMA MatrixIn ==
  ASSUME DrawsAreResidues, NEW sd
  PROVE  /\ \A k, p : A(sd, k, p) \in Elems
         /\ \A s : \A e \in Entries(s) : \A row : Matrix(sd, e, row) \in Elems
<1>1. \A k, p : A(sd, k, p) \in Elems
  BY DrawIn DEF A
<1>2. ASSUME NEW s, NEW e \in Entries(s), NEW row PROVE Matrix(sd, e, row) \in Elems
  <2>1. e[1] = "V" \/ e[1] = "G" \/ e[1] = "H"
    BY EntryKinds
  <2>2. "V" # "G" /\ "V" # "H" /\ "G" # "H"
    OBVIOUS
  <2>. QED  BY <2>1, <2>2, DrawIn DEF Matrix
<1>. QED  BY <1>1, <1>2

\* The openings of v, g, h and z: what decompose gives.
LEMMA VOpening ==
  ASSUME NEW s, Proper(s), NEW i \in Parameters, s.t1 = i.t1, NEW pr,
         pr.v \in [Below(s.r) -> [Below(s.kappa) -> Elems]], NEW e \in VEntries(s)
  PROVE  /\ e = <<"V", e[2], e[3], e[4]>> /\ e[1] = "V"
         /\ e[2] \in Below(s.r) /\ e[3] \in Below(s.t1) /\ e[4] \in Below(s.kappa)
         /\ pr.v[e[2]][e[4]] \in Elems
         /\ Opening(i, pr, e) = decompose(pr.v[e[2]][e[4]], i.b1, i.t1)[e[3]]
         /\ Opening(i, pr, e) \in Elems
<1>1. /\ e = <<"V", e[2], e[3], e[4]>> /\ e[1] = "V"
      /\ e[2] \in Below(s.r) /\ e[3] \in Below(s.t1) /\ e[4] \in Below(s.kappa)
  BY DEF VEntries
<1>2. pr.v[e[2]][e[4]] \in Elems
  BY <1>1
<1>3. Opening(i, pr, e) = decompose(pr.v[e[2]][e[4]], i.b1, i.t1)[e[3]]
  <2>1. e[1] # "z"
    BY <1>1
  <2>. QED  BY <1>1, <2>1 DEF Opening
<1>4. i.b1 \in Nat /\ i.b1 >= 1 /\ i.t1 \in Nat /\ i.t1 >= 1 /\ e[3] \in 0..(i.t1 - 1)
  BY <1>1, ParametersAre DEF Below
<1>5. decompose(pr.v[e[2]][e[4]], i.b1, i.t1)[e[3]] \in Elems
  <2>. DEFINE x == pr.v[e[2]][e[4]]
              b == i.b1
              t == i.t1
              k == e[3]
  <2>1. x \in Elems /\ b \in Nat /\ b >= 1 /\ t \in Nat /\ t >= 1 /\ k \in 0..(t - 1)
    BY <1>2, <1>4
  <2>. HIDE DEF x, b, t, k
  <2>2. IsFamily(decompose(x, b, t), 0..(t - 1), Elems)
    BY <2>1, DecomposeIn
  <2>3. decompose(x, b, t)[k] \in Elems
    BY <2>1, <2>2 DEF IsFamily
  <2>. QED  BY <2>3 DEF x, b, t, k
<1>. QED  BY <1>1, <1>2, <1>3, <1>5

LEMMA GOpening ==
  ASSUME NEW s, Proper(s), NEW i \in Parameters, s.t2 = i.t2, NEW pr,
         pr.g \in [Pairs(s.r) -> Elems], NEW e \in GEntries(s)
  PROVE  /\ e = <<"G", e[2], e[3], e[4]>> /\ e[1] = "G"
         /\ <<e[2], e[3]>> \in Pairs(s.r) /\ e[4] \in Below(s.t2)
         /\ pr.g[<<e[2], e[3]>>] \in Elems
         /\ Opening(i, pr, e) = decompose(pr.g[<<e[2], e[3]>>], i.b2, i.t2)[e[4]]
         /\ Opening(i, pr, e) \in Elems
<1>1. /\ e = <<"G", e[2], e[3], e[4]>> /\ e[1] = "G"
      /\ <<e[2], e[3]>> \in Pairs(s.r) /\ e[4] \in Below(s.t2)
  BY DEF GEntries, Pairs, Below
<1>2. pr.g[<<e[2], e[3]>>] \in Elems
  BY <1>1
<1>3. Opening(i, pr, e) = decompose(pr.g[<<e[2], e[3]>>], i.b2, i.t2)[e[4]]
  <2>1. e[1] # "z" /\ e[1] # "V"
    BY <1>1
  <2>. QED  BY <1>1, <2>1 DEF Opening
<1>4. i.b2 \in Nat /\ i.b2 >= 1 /\ i.t2 \in Nat /\ i.t2 >= 1 /\ e[4] \in 0..(i.t2 - 1)
  BY <1>1, ParametersAre DEF Below
<1>5. decompose(pr.g[<<e[2], e[3]>>], i.b2, i.t2)[e[4]] \in Elems
  <2>. DEFINE x == pr.g[<<e[2], e[3]>>]
              b == i.b2
              t == i.t2
              k == e[4]
  <2>1. x \in Elems /\ b \in Nat /\ b >= 1 /\ t \in Nat /\ t >= 1 /\ k \in 0..(t - 1)
    BY <1>2, <1>4
  <2>. HIDE DEF x, b, t, k
  <2>2. IsFamily(decompose(x, b, t), 0..(t - 1), Elems)
    BY <2>1, DecomposeIn
  <2>3. decompose(x, b, t)[k] \in Elems
    BY <2>1, <2>2 DEF IsFamily
  <2>. QED  BY <2>3 DEF x, b, t, k
<1>. QED  BY <1>1, <1>2, <1>3, <1>5

LEMMA HOpening ==
  ASSUME NEW s, Proper(s), NEW i \in Parameters, s.t1 = i.t1, NEW pr,
         pr.h \in [Pairs(s.r) -> Elems], NEW e \in HEntries(s)
  PROVE  /\ e = <<"H", e[2], e[3], e[4]>> /\ e[1] = "H"
         /\ <<e[2], e[3]>> \in Pairs(s.r) /\ e[4] \in Below(s.t1)
         /\ pr.h[<<e[2], e[3]>>] \in Elems
         /\ Opening(i, pr, e) = decompose(pr.h[<<e[2], e[3]>>], i.b1, i.t1)[e[4]]
         /\ Opening(i, pr, e) \in Elems
<1>1. /\ e = <<"H", e[2], e[3], e[4]>> /\ e[1] = "H"
      /\ <<e[2], e[3]>> \in Pairs(s.r) /\ e[4] \in Below(s.t1)
  BY DEF HEntries, Pairs, Below
<1>2. pr.h[<<e[2], e[3]>>] \in Elems
  BY <1>1
<1>3. Opening(i, pr, e) = decompose(pr.h[<<e[2], e[3]>>], i.b1, i.t1)[e[4]]
  <2>1. e[1] # "z" /\ e[1] # "V" /\ e[1] # "G"
    BY <1>1
  <2>. QED  BY <1>1, <2>1 DEF Opening
<1>4. i.b1 \in Nat /\ i.b1 >= 1 /\ i.t1 \in Nat /\ i.t1 >= 1 /\ e[4] \in 0..(i.t1 - 1)
  BY <1>1, ParametersAre DEF Below
<1>5. decompose(pr.h[<<e[2], e[3]>>], i.b1, i.t1)[e[4]] \in Elems
  <2>. DEFINE x == pr.h[<<e[2], e[3]>>]
              b == i.b1
              t == i.t1
              k == e[4]
  <2>1. x \in Elems /\ b \in Nat /\ b >= 1 /\ t \in Nat /\ t >= 1 /\ k \in 0..(t - 1)
    BY <1>2, <1>4
  <2>. HIDE DEF x, b, t, k
  <2>2. IsFamily(decompose(x, b, t), 0..(t - 1), Elems)
    BY <2>1, DecomposeIn
  <2>3. decompose(x, b, t)[k] \in Elems
    BY <2>1, <2>2 DEF IsFamily
  <2>. QED  BY <2>3 DEF x, b, t, k
<1>. QED  BY <1>1, <1>2, <1>3, <1>5

LEMMA ZOpening ==
  ASSUME NEW s, NEW i, NEW pr,
         pr.z0 \in [Below(s.n) -> Elems], pr.z1 \in [Below(s.n) -> Elems],
         NEW half \in {0, 1}, NEW p \in Below(s.n)
  PROVE  /\ Opening(i, pr, ZEntry(half, p)) = (IF half = 0 THEN pr.z0[p] ELSE pr.z1[p])
         /\ Opening(i, pr, ZEntry(half, p)) \in Elems
  BY DEF Opening, ZEntry

-----------------------------------------------------------------------------
(* Commitments, the projection and what is sent.                            *)
LEMMA MatmulIs ==
  ASSUME DrawsAreResidues, NEW sd, NEW S, IsFiniteSet(S), NEW x \in [S -> Elems]
  PROVE  /\ DOMAIN matmul(sd, x) = Below(it.kappa)
         /\ matmul(sd, x) \in [Below(it.kappa) -> Elems]
         /\ \A k \in Below(it.kappa) :
              /\ IsFamily([p \in S |-> Mul(A(sd, k, p), x[p])], S, Elems)
              /\ matmul(sd, x)[k] = SumE([p \in S |-> Mul(A(sd, k, p), x[p])])
<1>1. ASSUME NEW k \in Below(it.kappa)
      PROVE  /\ IsFamily([p \in S |-> Mul(A(sd, k, p), x[p])], S, Elems)
             /\ Total([p \in S |-> Mul(A(sd, k, p), x[p])]) = SumE([p \in S |-> Mul(A(sd, k, p), x[p])])
             /\ Total([p \in S |-> Mul(A(sd, k, p), x[p])]) \in Elems
  <2>. DEFINE f == [p \in S |-> Mul(A(sd, k, p), x[p])]
  <2>1. \A p \in S : A(sd, k, p) \in Elems /\ x[p] \in Elems
    BY MatrixIn
  <2>2. \A p \in S : Mul(A(sd, k, p), x[p]) \in Elems
    BY <2>1, MulIs
  <2>3. DOMAIN f = S /\ f = [p \in DOMAIN f |-> f[p]] /\ \A p \in S : f[p] \in Elems
    BY <2>2
  <2>. HIDE DEF f
  <2>4. IsFamily(f, S, Elems) /\ Total(f) = SumE(f) /\ Total(f) \in Elems
    BY <2>3, FamilyTotal
  <2>. QED  BY <2>4 DEF f
<1>2. DOMAIN x = S
  OBVIOUS
<1>. QED  BY <1>1, <1>2 DEF matmul

\* Terms of an outer commitment.
CommitTerms(sd, entries, pr, row) == [e \in entries |-> Mul(Matrix(sd, e, row), Opening(it, pr, e))]

Opens(entries, pr) == \A e \in entries : Opening(it, pr, e) \in Elems

LEMMA OuterCommitIs ==
  ASSUME DrawsAreResidues, NEW sd, NEW s, NEW entries, entries \subseteq Entries(s), IsFiniteSet(entries),
         NEW pr, Opens(entries, pr)
  PROVE  /\ OuterCommit(sd, entries, pr) \in [OuterRows -> Elems]
         /\ \A row \in OuterRows :
              /\ IsFamily(CommitTerms(sd, entries, pr, row), entries, Elems)
              /\ OuterCommit(sd, entries, pr)[row] = SumE(CommitTerms(sd, entries, pr, row))
<1>1. ASSUME NEW row \in OuterRows
      PROVE  /\ IsFamily(CommitTerms(sd, entries, pr, row), entries, Elems)
             /\ Total(CommitTerms(sd, entries, pr, row)) = SumE(CommitTerms(sd, entries, pr, row))
             /\ Total(CommitTerms(sd, entries, pr, row)) \in Elems
  <2>1. \A e \in entries : Matrix(sd, e, row) \in Elems /\ Opening(it, pr, e) \in Elems
    BY MatrixIn DEF Opens
  <2>2. \A e \in entries : Mul(Matrix(sd, e, row), Opening(it, pr, e)) \in Elems
    BY <2>1, MulIs
  <2>. DEFINE f == CommitTerms(sd, entries, pr, row)
  <2>3. DOMAIN f = entries /\ f = [e \in DOMAIN f |-> f[e]] /\ \A e \in entries : f[e] \in Elems
    BY <2>2 DEF CommitTerms
  <2>. HIDE DEF f
  <2>4. IsFamily(f, entries, Elems) /\ Total(f) = SumE(f) /\ Total(f) \in Elems
    BY <2>3, FamilyTotal
  <2>. QED  BY <2>4 DEF f
<1>2. OuterCommit(sd, entries, pr) = [row \in OuterRows |-> Total(CommitTerms(sd, entries, pr, row))]
  BY DEF OuterCommit, CommitTerms
<1>. QED  BY <1>1, <1>2

LEMMA RowsAdd ==
  ASSUME NEW x \in [OuterRows -> Elems], NEW y \in [OuterRows -> Elems]
  PROVE  /\ AddRows(x, y) \in [OuterRows -> Elems]
         /\ \A row \in OuterRows : AddRows(x, y)[row] = Add(x[row], y[row])
<1>1. \A row \in OuterRows : Add(x[row], y[row]) \in Elems
  BY AddLaws
<1>. QED  BY <1>1 DEF AddRows

LEMMA u1In ==
  ASSUME DrawsAreResidues, IsStatement(stmt), it \in Parameters, NEW sd, NEW pr, NEW cut,
         pr.v \in [Vectors -> [Below(it.kappa) -> Elems]], pr.g \in [Pairs(stmt.r) -> Elems]
  PROVE  LET s == SourceShape
             low == {e \in VEntries(s) : e[2] < cut}
             high == {e \in VEntries(s) : e[2] >= cut}
         IN  /\ Opens(VEntries(s) \cup GEntries(s), pr)
             /\ OuterCommit(sd, low, pr) \in [OuterRows -> Elems]
             /\ OuterCommit(sd, high, pr) \in [OuterRows -> Elems]
             /\ OuterCommit(sd, GEntries(s), pr) \in [OuterRows -> Elems]
             /\ outer_commit_v(sd, pr, cut) \in [OuterRows -> Elems]
             /\ u_1(sd, pr, cut) \in [OuterRows -> Elems]
             /\ \A row \in OuterRows :
                  u_1(sd, pr, cut)[row] =
                    Add(Add(OuterCommit(sd, low, pr)[row], OuterCommit(sd, high, pr)[row]),
                        OuterCommit(sd, GEntries(s), pr)[row])
<1>. DEFINE s == SourceShape
            low == {e \in VEntries(s) : e[2] < cut}
            high == {e \in VEntries(s) : e[2] >= cut}
<1>1. Proper(s) /\ s.r = stmt.r /\ s.kappa = it.kappa /\ s.t1 = it.t1 /\ s.t2 = it.t2
  BY ShapeIs DEF SourceShape
<1>2. pr.v \in [Below(s.r) -> [Below(s.kappa) -> Elems]] /\ pr.g \in [Pairs(s.r) -> Elems]
  BY <1>1 DEF Vectors
<1>. HIDE DEF s
<1>3. \A e \in VEntries(s) : Opening(it, pr, e) \in Elems
  BY <1>1, <1>2, VOpening
<1>4. \A e \in GEntries(s) : Opening(it, pr, e) \in Elems
  BY <1>1, <1>2, GOpening
<1>5. Opens(VEntries(s) \cup GEntries(s), pr) /\ Opens(low, pr) /\ Opens(high, pr) /\ Opens(GEntries(s), pr)
  BY <1>3, <1>4 DEF Opens
<1>6. low \subseteq VEntries(s) /\ high \subseteq VEntries(s)
  OBVIOUS
<1>7. low \subseteq Entries(s) /\ high \subseteq Entries(s) /\ GEntries(s) \subseteq Entries(s)
  BY <1>6 DEF Entries
<1>8. IsFiniteSet(low) /\ IsFiniteSet(high) /\ IsFiniteSet(GEntries(s))
  BY <1>1, <1>6, FiniteEntries, FS_Subset
<1>. HIDE DEF low, high
<1>9. /\ OuterCommit(sd, low, pr) \in [OuterRows -> Elems]
      /\ OuterCommit(sd, high, pr) \in [OuterRows -> Elems]
      /\ OuterCommit(sd, GEntries(s), pr) \in [OuterRows -> Elems]
  BY <1>5, <1>7, <1>8, OuterCommitIs
<1>10. outer_commit_v(sd, pr, cut) = AddRows(OuterCommit(sd, low, pr), OuterCommit(sd, high, pr))
       /\ u_1(sd, pr, cut) = AddRows(outer_commit_v(sd, pr, cut), OuterCommit(sd, GEntries(s), pr))
  BY DEF outer_commit_v, u_1, outer_commit_sym, low, high, s
<1>11. /\ outer_commit_v(sd, pr, cut) \in [OuterRows -> Elems]
       /\ \A row \in OuterRows : outer_commit_v(sd, pr, cut)[row] =
            Add(OuterCommit(sd, low, pr)[row], OuterCommit(sd, high, pr)[row])
  BY <1>9, <1>10, RowsAdd
<1>12. /\ u_1(sd, pr, cut) \in [OuterRows -> Elems]
       /\ \A row \in OuterRows : u_1(sd, pr, cut)[row] =
            Add(outer_commit_v(sd, pr, cut)[row], OuterCommit(sd, GEntries(s), pr)[row])
  BY <1>9, <1>10, <1>11, RowsAdd
<1>. QED  BY <1>5, <1>9, <1>11, <1>12 DEF s, low, high

LEMMA u2In ==
  ASSUME DrawsAreResidues, IsStatement(stmt), it \in Parameters, NEW sd, NEW pr,
         pr.h \in [Pairs(stmt.r) -> Elems]
  PROVE  LET s == SourceShape
         IN  /\ Opens(HEntries(s), pr)
             /\ u_2(sd, pr) = OuterCommit(sd, HEntries(s), pr)
             /\ u_2(sd, pr) \in [OuterRows -> Elems]
<1>. DEFINE s == SourceShape
<1>1. Proper(s) /\ s.r = stmt.r /\ s.t1 = it.t1
  BY ShapeIs DEF SourceShape
<1>2. u_2(sd, pr) = OuterCommit(sd, HEntries(s), pr)
  BY DEF u_2, outer_commit_sym
<1>3. pr.h \in [Pairs(s.r) -> Elems]
  BY <1>1
<1>. HIDE DEF s
<1>4. Opens(HEntries(s), pr)
  BY <1>1, <1>3, HOpening DEF Opens
<1>5. HEntries(s) \subseteq Entries(s) /\ IsFiniteSet(HEntries(s))
  BY <1>1, FiniteEntries DEF Entries
<1>6. OuterCommit(sd, HEntries(s), pr) \in [OuterRows -> Elems]
  BY <1>4, <1>5, OuterCommitIs
<1>. QED  BY <1>2, <1>4, <1>6 DEF s

LEMMA ChallengeIn ==
  ASSUME NEW sd
  PROVE  Challenge(sd) \in [Vectors -> Elems]
<1>1. q - 2 \in R /\ 0 \in R /\ 2 \in R
  BY ResidueFacts DEF R, Residues
<1>. QED  BY <1>1, ElemFacts DEF Challenge

LEMMA AmortizedIn ==
  ASSUME IsStatement(stmt), IsWitness(w, stmt), NEW c \in [Vectors -> Elems]
  PROVE  Amortized(c) \in [Below(stmt.n) -> Elems]
<1>1. IsFiniteSet(Vectors) /\ Vectors = 0..(stmt.r - 1) /\ Below(stmt.n) = 0..(stmt.n - 1)
  BY FinitePlaces DEF Vectors, Below, IsStatement
<1>2. ASSUME NEW p \in Below(stmt.n) PROVE Total([i \in Vectors |-> Mul(c[i], w[i][p])]) \in Elems
  <2>. DEFINE f == [i \in Vectors |-> Mul(c[i], w[i][p])]
  <2>1. \A i \in Vectors : w[i][p] \in Elems
    BY <1>1 DEF IsWitness
  <2>2. \A i \in Vectors : Mul(c[i], w[i][p]) \in Elems
    BY <2>1, MulIs
  <2>3. DOMAIN f = Vectors /\ f = [i \in DOMAIN f |-> f[i]] /\ \A i \in Vectors : f[i] \in Elems
    BY <2>2
  <2>. HIDE DEF f
  <2>4. Total(f) \in Elems
    BY <1>1, <2>3, FamilyTotal
  <2>. QED  BY <2>4 DEF f
<1>. QED  BY <1>2 DEF Amortized

LEMMA PartIn ==
  ASSUME it \in Parameters, NEW S, NEW x \in [S -> Elems], NEW c \in {0, 1}
  PROVE  [p \in S |-> decompose(x[p], it.b, 2)[c]] \in [S -> Elems]
<1>1. ASSUME NEW y \in Elems PROVE decompose(y, it.b, 2)[c] \in Elems
  <2>. DEFINE b == it.b
              two == 2
  <2>1. b \in Nat /\ b >= 1 /\ two \in Nat /\ two >= 1 /\ 0..(two - 1) = {0, 1}
    BY ParametersAre
  <2>. HIDE DEF b, two
  <2>2. IsFamily(decompose(y, b, two), 0..(two - 1), Elems)
    BY <2>1, DecomposeIn
  <2>3. decompose(y, b, two)[c] \in Elems
    BY <2>1, <2>2 DEF IsFamily
  <2>. QED  BY <2>3 DEF b, two
<1>. QED  BY <1>1

-----------------------------------------------------------------------------
(* The projection, as sums of integers.                                     *)
RowTerms(Pi_, j, u, x) == [k \in Coeffs |-> Pi_[<<j, x[1], x[2], k>>] * centered(q, u[x[1]][x[2]][k])]
RowSums(Pi_, j, u) == [x \in Slots_w |-> SumZ(RowTerms(Pi_, j, u, x))]

FoldZ(f) == FoldFunction(+, 0, f)
EntryTerms(Pi_, j, u, i, pos) == [k \in Coeffs |-> Pi_[<<j, i, pos, k>>] * centered(q, u[i][pos][k])]

\* project_combined as it is written.
LEMMA ProjectAsWritten ==
  ASSUME NEW Pi_, NEW u
  PROVE  project_combined(Pi_, u) =
           [j \in Rows |-> FoldZ([i \in DOMAIN u |-> FoldZ([pos \in DOMAIN u[i] |->
                             FoldZ(EntryTerms(Pi_, j, u, i, pos))])])]
  BY DEF project_combined, FoldZ, EntryTerms

LEMMA RowTermsIn ==
  ASSUME IsStatement(stmt), IsWitness(w, stmt), NEW sd, NEW j \in Rows, NEW x \in Slots_w
  PROVE  /\ IsFamily(RowTerms(Pi(sd), j, w, x), Coeffs, Int)
         /\ SumZ(RowTerms(Pi(sd), j, w, x)) \in Int
         /\ FoldFunction(+, 0, RowTerms(Pi(sd), j, w, x)) = SumZ(RowTerms(Pi(sd), j, w, x))
<1>. DEFINE f == RowTerms(Pi(sd), j, w, x)
<1>1. x \in Positions(stmt)
  BY DEF Slots_w, Vectors, Below, Positions
<1>2. w[x[1]][x[2]] \in Elems
  BY <1>1, WitnessEntry
<1>3. ASSUME NEW k \in Coeffs PROVE Pi(sd)[<<j, x[1], x[2], k>>] * centered(q, w[x[1]][x[2]][k]) \in Int
  <2>1. Pi(sd)[<<j, x[1], x[2], k>>] \in Int
    BY RowEntriesIn
  <2>2. w[x[1]][x[2]][k] \in R
    BY <1>2, ElemFacts
  <2>3. centered(q, w[x[1]][x[2]][k]) \in Int
    BY <2>2, CenteredIs
  <2>. QED  BY <2>1, <2>3
<1>4. IsFamily(f, Coeffs, Int)
  BY <1>3, ElemFacts DEF IsFamily, RowTerms
<1>. HIDE DEF f
<1>5. FoldFunction(+, 0, f) = SumZ(f) /\ SumZ(f) \in Int
  BY <1>4, FoldFunctionIsSum
<1>. QED  BY <1>4, <1>5 DEF f

LEMMA ProjectIs ==
  ASSUME IsStatement(stmt), IsWitness(w, stmt), NEW sd
  PROVE  /\ project_combined(Pi(sd), w) \in [Rows -> Int]
         /\ \A j \in Rows : /\ IsFamily(RowSums(Pi(sd), j, w), Slots_w, Int)
                            /\ project_combined(Pi(sd), w)[j] = SumZ(RowSums(Pi(sd), j, w))
<1>1. /\ IsFiniteSet(Vectors) /\ IsFiniteSet(Below(stmt.n))
      /\ Vectors = 0..(stmt.r - 1) /\ Below(stmt.n) = 0..(stmt.n - 1) /\ IsFiniteSet(Slots_w)
      /\ Slots_w = Vectors \X Below(stmt.n)
  <2>1. Slots_w = Positions(stmt)
    BY DEF Slots_w, Positions, Vectors, Below
  <2>. QED  BY <2>1, FinitePlaces DEF Vectors, Below, IsStatement, Slots_w
<1>2. DOMAIN w = Vectors /\ \A i \in Vectors : DOMAIN w[i] = Below(stmt.n)
  BY <1>1 DEF IsWitness
<1>3. ASSUME NEW j \in Rows
      PROVE  /\ IsFamily(RowSums(Pi(sd), j, w), Slots_w, Int)
             /\ FoldFunction(+, 0, [i \in Vectors |-> FoldFunction(+, 0, [pos \in Below(stmt.n) |->
                  FoldFunction(+, 0, RowTerms(Pi(sd), j, w, <<i, pos>>))])]) = SumZ(RowSums(Pi(sd), j, w))
             /\ SumZ(RowSums(Pi(sd), j, w)) \in Int
  <2>. DEFINE f == RowSums(Pi(sd), j, w)
              row == [i \in Vectors |-> [pos \in Below(stmt.n) |->
                        FoldFunction(+, 0, RowTerms(Pi(sd), j, w, <<i, pos>>))]]
              sums == [i \in Vectors |-> FoldFunction(+, 0, row[i])]
  <2>1. IsFamily(f, Slots_w, Int)
    BY <1>1, RowTermsIn DEF IsFamily, RowSums
  <2>2. \A i \in Vectors : \A pos \in Below(stmt.n) :
          row[i][pos] = f[<<i, pos>>] /\ row[i][pos] \in Int
    <3>1. \A i \in Vectors : \A pos \in Below(stmt.n) : <<i, pos>> \in Slots_w
      BY <1>1
    <3>. QED  BY <3>1, RowTermsIn DEF RowSums
  <2>3. \A i \in Vectors : IsFamily(row[i], Below(stmt.n), Int)
    BY <1>1, <2>2 DEF IsFamily
  <2>4. Rows2(row, f, Vectors, Below(stmt.n), Int)
    BY <2>2, <2>3 DEF Rows2
  <2>. HIDE DEF f, row
  <2>5. \A i \in Vectors : FoldFunction(+, 0, row[i]) = SumZ(row[i]) /\ SumZ(row[i]) \in Int
    BY <2>3, FoldFunctionIsSum
  <2>6. IsFamily(sums, Vectors, Int) /\ \A i \in Vectors : sums[i] = SumZ(row[i])
    BY <1>1, <2>5 DEF IsFamily
  <2>. HIDE DEF sums
  <2>7. AreSums(sums, row, Vectors, PlusZ, 0)
    BY <2>6 DEF AreSums, SumZ
  <2>8. SumOf(PlusZ, 0, f) = SumOf(PlusZ, 0, sums)
    <3>1. IsFamily(f, Vectors \X Below(stmt.n), Int)
      BY <1>1, <2>1
    <3>. DEFINE S == Vectors
                J == Below(stmt.n)
    <3>2. IsFiniteSet(S) /\ IsFiniteSet(J)
      BY <1>1
    <3>. HIDE DEF S, J
    <3>3. /\ IsFamily(f, S \X J, Int) /\ Rows2(row, f, S, J, Int)
          /\ IsFamily(sums, S, Int) /\ AreSums(sums, row, S, PlusZ, 0)
      BY <2>4, <2>6, <2>7, <3>1 DEF S, J
    <3>. QED  BY <3>2, <3>3, Ints, SumOfPairs
  <2>9. FoldFunction(+, 0, sums) = SumZ(sums) /\ SumZ(sums) \in Int
    BY <2>6, FoldFunctionIsSum
  <2>10. FoldFunction(+, 0, sums) = SumZ(f) /\ SumZ(f) \in Int
    BY <2>8, <2>9 DEF SumZ
  <2>11. sums = [i \in Vectors |-> FoldFunction(+, 0, [pos \in Below(stmt.n) |->
                  FoldFunction(+, 0, RowTerms(Pi(sd), j, w, <<i, pos>>))])]
    BY DEF sums, row
  <2>. QED  BY <2>1, <2>10, <2>11 DEF f
<1>4. ASSUME NEW j \in Rows
      PROVE  project_combined(Pi(sd), w)[j] =
               FoldZ([i \in Vectors |-> FoldZ([pos \in Below(stmt.n) |->
                  FoldZ(RowTerms(Pi(sd), j, w, <<i, pos>>))])])
  <2>. DEFINE At(i, pos) == FoldZ(EntryTerms(Pi(sd), j, w, i, pos))
              Of(i) == FoldZ([pos \in DOMAIN w[i] |-> At(i, pos)])
  <2>1. project_combined(Pi(sd), w)[j] = FoldZ([i \in DOMAIN w |-> Of(i)])
    BY ProjectAsWritten
  <2>2. \A i, pos : EntryTerms(Pi(sd), j, w, i, pos) = RowTerms(Pi(sd), j, w, <<i, pos>>)
    BY DEF RowTerms, EntryTerms
  <2>3. \A i, pos : At(i, pos) = FoldZ(RowTerms(Pi(sd), j, w, <<i, pos>>))
    BY <2>2
  <2>. HIDE DEF At
  <2>4. \A i \in Vectors : Of(i) = FoldZ([pos \in Below(stmt.n) |-> FoldZ(RowTerms(Pi(sd), j, w, <<i, pos>>))])
    BY <1>2, <2>3
  <2>. HIDE DEF Of
  <2>. QED  BY <1>2, <2>1, <2>4
<1>5. project_combined(Pi(sd), w) = [j \in Rows |-> project_combined(Pi(sd), w)[j]]
  <2>. DEFINE Of(j) == FoldZ([i \in DOMAIN w |-> FoldZ([pos \in DOMAIN w[i] |->
                             FoldZ(EntryTerms(Pi(sd), j, w, i, pos))])])
  <2>1. project_combined(Pi(sd), w) = [j \in Rows |-> Of(j)]
    BY ProjectAsWritten
  <2>. HIDE DEF Of
  <2>. QED  BY <2>1
<1>6. ASSUME NEW j \in Rows
      PROVE  /\ IsFamily(RowSums(Pi(sd), j, w), Slots_w, Int)
             /\ project_combined(Pi(sd), w)[j] = SumZ(RowSums(Pi(sd), j, w))
             /\ SumZ(RowSums(Pi(sd), j, w)) \in Int
  BY <1>3, <1>4 DEF FoldZ
<1>. QED  BY <1>5, <1>6

-----------------------------------------------------------------------------
(* The folded witness, and coefficients of sources put at their slots.      *)
OpensAll(s, i, pr) == \A x \in Sources(s) : Opening(i, pr, x) \in Elems

\* What a witness holds at a slot.
At(u, slot) == u[slot[1]][slot[2]]

\* The entries of the statement that a fold makes.
FoldedSize(s) == [n |-> NPrime(s), r |-> RPrime(s)]

LEMMA FoldedHolds ==
  ASSUME NEW s, Proper(s), NEW i, NEW pr, OpensAll(s, i, pr)
  PROVE  LET u == build_folded_witness(s, i, pr)
         IN  /\ IsWitness(u, FoldedSize(s))
             /\ \A x \in Sources(s) : At(u, SlotOf(s, x)) = Opening(i, pr, x)
             /\ \A slot \in Slots(s) :
                  (\A x \in Sources(s) : SlotOf(s, x) # slot) => At(u, slot) = Zero
             /\ \A slot \in Slots(s) : At(u, slot) \in Elems
<1>. DEFINE placed == {<<SlotOf(s, x), x>> : x \in Sources(s)}
            Where(slot) == {y \in placed : y[1] = slot}
            Chosen(slot) == CHOOSE y \in Where(slot) : TRUE
            Held(slot) == IF Where(slot) = {} THEN Zero ELSE Opening(i, pr, Chosen(slot)[2])
            u == build_folded_witness(s, i, pr)
<1>1. u = [a \in Below(RPrime(s)) |-> [b \in Below(NPrime(s)) |-> Held(<<a, b>>)]]
  BY DEF build_folded_witness
<1>2. ASSUME NEW x \in Sources(s) PROVE Where(SlotOf(s, x)) = {<<SlotOf(s, x), x>>}
  <2>1. \A y \in Sources(s) : SlotOf(s, y) = SlotOf(s, x) => y = x
    BY SlotInjective
  <2>. QED  BY <2>1
<1>3. \A slot : (\A x \in Sources(s) : SlotOf(s, x) # slot) => Where(slot) = {}
  OBVIOUS
<1>4. \A slot : Where(slot) = {} \/ \E x \in Sources(s) : SlotOf(s, x) = slot
  OBVIOUS
<1>. HIDE DEF Where
<1>5. \A x \in Sources(s) : Held(SlotOf(s, x)) = Opening(i, pr, x)
  <2>2. ASSUME NEW x \in Sources(s) PROVE Held(SlotOf(s, x)) = Opening(i, pr, x)
    <3>1. Where(SlotOf(s, x)) = {<<SlotOf(s, x), x>>}
      BY <1>2
    <3>2. Chosen(SlotOf(s, x)) \in Where(SlotOf(s, x))
      BY <3>1, Zenon
    <3>3. Where(SlotOf(s, x)) # {}
      BY <3>1
    <3>. HIDE DEF Chosen
    <3>4. Chosen(SlotOf(s, x))[2] = x
      BY <3>1, <3>2
    <3>. QED  BY <3>3, <3>4
  <2>. QED  BY <2>2
<1>6. \A slot : (\A x \in Sources(s) : SlotOf(s, x) # slot) => Held(slot) = Zero
  BY <1>3
<1>7. \A slot : Held(slot) \in Elems
  <2>1. \A slot : Where(slot) = {} => Held(slot) = Zero
    OBVIOUS
  <2>. HIDE DEF Held
  <2>. QED  BY <1>4, <1>5, <2>1, ElemFacts DEF OpensAll
<1>. HIDE DEF Held, u
<1>8. \A slot \in Slots(s) : At(u, slot) = Held(slot)
  BY <1>1 DEF Slots, At
<1>9. \A x \in Sources(s) : SlotOf(s, x) \in Slots(s)
  BY SlotInside
<1>10. IsWitness(u, FoldedSize(s))
  BY <1>1, <1>7 DEF IsWitness, FoldedSize, Below
<1>. QED  BY <1>5, <1>6, <1>7, <1>8, <1>9, <1>10 DEF u

\* Coefficients of sources.
IsCoef(f, s) == DOMAIN f \subseteq Sources(s) /\ \A x \in DOMAIN f : f[x] \in Elems
NonZero(f) == {x \in DOMAIN f : f[x] # Zero}

LEMMA PlaceIs ==
  ASSUME NEW s, Proper(s), NEW f, IsCoef(f, s)
  PROVE  /\ IsSparse(Place(s, f), Slots(s))
         /\ DOMAIN Place(s, f) = {SlotOf(s, x) : x \in NonZero(f)}
         /\ \A x \in NonZero(f) : Place(s, f)[SlotOf(s, x)] = f[x]
<1>. DEFINE placed == {<<SlotOf(s, x), x>> : x \in DOMAIN f}
            Where(slot) == {y \in placed : y[1] = slot}
            SumAt(slot) == Total([y \in Where(slot) |-> f[y[2]]])
            slots == {y[1] : y \in placed}
<1>1. Place(s, f) = [slot \in {t \in slots : SumAt(t) # Zero} |-> SumAt(slot)]
  BY DEF Place
<1>2. ASSUME NEW x \in DOMAIN f PROVE SumAt(SlotOf(s, x)) = f[x]
  <2>. DEFINE pair == <<SlotOf(s, x), x>>
              g == [y \in {pair} |-> f[y[2]]]
  <2>1. \A y \in DOMAIN f : SlotOf(s, y) = SlotOf(s, x) => y = x
    BY SlotInjective DEF IsCoef
  <2>2. Where(SlotOf(s, x)) = {pair}
    BY <2>1
  <2>3. g[pair] = f[x] /\ f[x] \in Elems
    BY DEF IsCoef
  <2>4. DOMAIN g = {pair} /\ g = [y \in DOMAIN g |-> g[y]] /\ \A y \in {pair} : g[y] \in Elems
    BY <2>3
  <2>5. SumAt(SlotOf(s, x)) = Total(g)
    BY <2>2
  <2>. HIDE DEF pair, g
  <2>6. IsFiniteSet({pair})
    BY FS_Singleton
  <2>7. Total(g) = SumE(g)
    BY <2>4, <2>6, FamilyTotal
  <2>8. Part(g, {pair}) = g
    BY <2>4 DEF Part
  <2>9. SumE(g) = g[pair]
    <3>1. g[pair] \in Elems /\ IsMonoid(Elems, AddE, Zero)
      BY <2>3, ElemSums
    <3>2. SumOf(AddE, Zero, Part(g, {pair})) = g[pair]
      BY <3>1, SumOfOne
    <3>. QED  BY <2>8, <3>2 DEF SumE
  <2>. QED  BY <2>3, <2>5, <2>7, <2>9
<1>3. slots = {SlotOf(s, x) : x \in DOMAIN f}
  <2>1. \A y \in placed : \E x \in DOMAIN f : y = <<SlotOf(s, x), x>>
    OBVIOUS
  <2>2. \A x \in DOMAIN f : <<SlotOf(s, x), x>> \in placed /\ <<SlotOf(s, x), x>>[1] = SlotOf(s, x)
    OBVIOUS
  <2>. HIDE DEF placed
  <2>3. \A t \in slots : t \in {SlotOf(s, x) : x \in DOMAIN f}
    BY <2>1
  <2>4. \A t \in {SlotOf(s, x) : x \in DOMAIN f} : t \in slots
    BY <2>2
  <2>. QED  BY <2>3, <2>4
<1>. HIDE DEF SumAt, slots
<1>4. {t \in slots : SumAt(t) # Zero} = {SlotOf(s, x) : x \in NonZero(f)}
  BY <1>2, <1>3 DEF NonZero
<1>5. \A x \in NonZero(f) : SumAt(SlotOf(s, x)) = f[x] /\ f[x] \in Elems /\ SlotOf(s, x) \in Slots(s)
  BY <1>2, SlotInside DEF NonZero, IsCoef
<1>6. \A t \in {SlotOf(s, x) : x \in NonZero(f)} : SumAt(t) \in Elems /\ t \in Slots(s)
  BY <1>5
<1>. QED  BY <1>1, <1>4, <1>5, <1>6 DEF IsSparse

LEMMA CoefJoin ==
  ASSUME NEW s, NEW f, IsCoef(f, s), NEW g, IsCoef(g, s)
  PROVE  /\ IsCoef(Join(f, g), s) /\ DOMAIN Join(f, g) = DOMAIN f \cup DOMAIN g
         /\ \A x \in DOMAIN f : Join(f, g)[x] = f[x]
         /\ \A x \in DOMAIN g : x \notin DOMAIN f => Join(f, g)[x] = g[x]
<1>1. /\ DOMAIN Join(f, g) = DOMAIN f \cup DOMAIN g
      /\ \A x \in DOMAIN f : Join(f, g)[x] = f[x]
      /\ \A x \in DOMAIN g : x \notin DOMAIN f => Join(f, g)[x] = g[x]
  BY DEF Join
<1>. QED  BY <1>1 DEF IsCoef

LEMMA LinearIn ==
  ASSUME NEW s, Proper(s), NEW f, IsCoef(f, s), NEW b \in Elems
  PROVE  /\ IsConstraint(Linear(s, f, b), FoldedSize(s)) /\ Linear(s, f, b).b \in Elems
         /\ Linear(s, f, b).a = << >> /\ Linear(s, f, b).phi = Place(s, f) /\ Linear(s, f, b).b = b
<1>1. Linear(s, f, b).a = << >> /\ Linear(s, f, b).phi = Place(s, f) /\ Linear(s, f, b).b = b
  BY DEF Linear
<1>2. IsSparse(<< >>, Pairs(RPrime(s)))
  BY DEF IsSparse
<1>3. IsSparse(Place(s, f), Slots(s))
  BY PlaceIs
<1>4. Slots(s) = Positions(FoldedSize(s)) /\ FoldedSize(s).r = RPrime(s)
  BY DEF Slots, Positions, FoldedSize, Below
<1>. QED  BY <1>1, <1>2, <1>3, <1>4 DEF IsConstraint, Positions

-----------------------------------------------------------------------------
(* The folded statement.                                                    *)
IsRep(rep, s) ==
  /\ rep.cs \in [Below(s.r) -> Elems]
  /\ IsSparse(rep.a_agg, Pairs(s.r)) /\ IsSparse(rep.phi_agg, Positions(s)) /\ rep.b_agg \in Elems

\* Coefficients of each builder, by source.
VCoef(s, i, rep, k) ==
  [e \in {x \in VEntries(s) : x[4] = k} |-> Neg(Mul(rep.cs[e[2]], PowerOf(i.b1, e[3])))]
Coef3(s, i, rep, k) == Join(OnZ(s, i, [p \in Below(s.n) |-> A(rep.seeds, k, p)]), VCoef(s, i, rep, k))
Coef4(s, i, rep) == MinusGarbage(rep.cs, GEntries(s), i.b2)
PhiSums(rep) ==
  [p \in {x[2] : x \in DOMAIN rep.phi_agg} |->
     Total([x \in {y \in DOMAIN rep.phi_agg : y[2] = p} |-> Mul(rep.cs[x[1]], rep.phi_agg[x])])]
Coef5(s, i, rep) == Join(OnZ(s, i, PhiSums(rep)), MinusGarbage(rep.cs, HEntries(s), i.b1))
GCoef6(s, i, rep) ==
  [e \in {x \in GEntries(s) : <<x[2], x[3]>> \in DOMAIN rep.a_agg} |->
     Mul(Doubled(<<e[2], e[3]>>, rep.a_agg[<<e[2], e[3]>>]), PowerOf(i.b2, e[4]))]
HCoef6(s, i) == [e \in {x \in HEntries(s) : x[2] = x[3]} |-> PowerOf(i.b1, e[4])]
Coef6(s, i, rep) == Join(GCoef6(s, i, rep), HCoef6(s, i))
RowCoef(rep, entries, row) == [e \in entries |-> Matrix(rep.seeds, e, row)]

LEMMA PowersIn ==
  ASSUME NEW b \in Nat, NEW l \in Nat
  PROVE  Pow(b, l) \in Int /\ PowerOf(b, l) \in Elems /\ PowerOf(b, l) = constant(Pow(b, l))
<1>1. Pow(b, l) \in Int
  BY PowerRules
<1>. HIDE DEF Pow
<1>. QED  BY <1>1, ConstantIs DEF PowerOf

\* Coefficients of positions of z.
IsOnZ(f, s) == DOMAIN f \subseteq Below(s.n) /\ \A p \in DOMAIN f : f[p] \in Elems

ZEntries(f) == {ZEntry(half, p) : half \in {0, 1}, p \in DOMAIN f}

LEMMA OnZIs ==
  ASSUME NEW s, NEW i \in Parameters, NEW f, IsOnZ(f, s)
  PROVE  /\ IsCoef(OnZ(s, i, f), s) /\ constant(i.b) \in Elems
         /\ DOMAIN OnZ(s, i, f) = ZEntries(f)
         /\ \A p \in DOMAIN f : /\ OnZ(s, i, f)[ZEntry(0, p)] = f[p]
                                /\ OnZ(s, i, f)[ZEntry(1, p)] = Mul(f[p], constant(i.b))
<1>1. constant(i.b) \in Elems
  BY ParametersAre, ConstantIs
<1>. USE DEF IsOnZ
<1>. DEFINE X == {ZEntry(half, p) : half \in {0, 1}, p \in DOMAIN f}
<1>2. \A x \in X : \E p \in DOMAIN f : x = ZEntry(0, p) \/ x = ZEntry(1, p)
  OBVIOUS
<1>3. \A half \in {0, 1} : \A p \in DOMAIN f : ZEntry(half, p) \in X
  OBVIOUS
<1>4. \A half, p : ZEntry(half, p)[2] = half /\ ZEntry(half, p)[3] = p
  BY DEF ZEntry
<1>5. OnZ(s, i, f) = [x \in X |-> IF x[2] = 0 THEN f[x[3]] ELSE Mul(f[x[3]], constant(i.b))]
  BY DEF OnZ
<1>6. X \subseteq Sources(s)
  BY DEF Sources, Below
<1>. HIDE DEF X
<1>7. DOMAIN OnZ(s, i, f) = X /\ \A x \in X : OnZ(s, i, f)[x] = IF x[2] = 0 THEN f[x[3]] ELSE Mul(f[x[3]], constant(i.b))
  BY <1>5
<1>8. \A p \in DOMAIN f : /\ OnZ(s, i, f)[ZEntry(0, p)] = f[p]
                          /\ OnZ(s, i, f)[ZEntry(1, p)] = Mul(f[p], constant(i.b))
  BY <1>3, <1>4, <1>7
<1>9. \A p \in DOMAIN f : Mul(f[p], constant(i.b)) \in Elems
  BY <1>1, MulIs
<1>10. \A x \in X : OnZ(s, i, f)[x] \in Elems
  BY <1>2, <1>8, <1>9
<1>. QED  BY <1>1, <1>6, <1>7, <1>8, <1>10 DEF IsCoef, ZEntries, X

LEMMA OnZIn ==
  ASSUME NEW s, NEW i \in Parameters, NEW f, IsOnZ(f, s)
  PROVE  IsCoef(OnZ(s, i, f), s)
  BY OnZIs

LEMMA VCoefIn ==
  ASSUME NEW s, NEW i \in Parameters, NEW st, st.r = s.r, NEW rep, IsRep(rep, st), NEW k
  PROVE  IsCoef(VCoef(s, i, rep, k), s)
<1>1. ASSUME NEW e \in VEntries(s) PROVE Neg(Mul(rep.cs[e[2]], PowerOf(i.b1, e[3]))) \in Elems
  <2>1. e[2] \in Below(s.r) /\ e[3] \in Nat
    BY DEF VEntries, Below
  <2>2. rep.cs[e[2]] \in Elems
    BY <2>1 DEF IsRep
  <2>3. PowerOf(i.b1, e[3]) \in Elems
    BY <2>1, ParametersAre, PowersIn
  <2>. QED  BY <2>2, <2>3, MulIs, NegIs
<1>. QED  BY <1>1 DEF IsCoef, VCoef, Sources, Entries

LEMMA PairIn ==
  ASSUME NEW s, NEW e \in GEntries(s) \cup HEntries(s)
  PROVE  <<e[2], e[3]>> \in Pairs(s.r) /\ e[2] \in Below(s.r) /\ e[3] \in Below(s.r)
         /\ e[4] \in Nat /\ e \in Sources(s)
  BY DEF GEntries, HEntries, Pairs, Below, Sources, Entries

LEMMA CiCjIn ==
  ASSUME NEW s, NEW rep, IsRep(rep, s), NEW e, e[2] \in Below(s.r), e[3] \in Below(s.r)
  PROVE  CiCj(rep.cs, e) \in Elems
<1>1. rep.cs[e[2]] \in Elems /\ rep.cs[e[3]] \in Elems
  BY DEF IsRep
<1>2. Mul(rep.cs[e[2]], rep.cs[e[3]]) \in Elems
  BY <1>1, MulIs
<1>. QED  BY <1>2, DoubledIn DEF CiCj

LEMMA MinusGarbageIn ==
  ASSUME NEW s, NEW st, st.r = s.r, NEW rep, IsRep(rep, st), NEW b \in Nat,
         NEW entries, entries \subseteq GEntries(s) \cup HEntries(s)
  PROVE  IsCoef(MinusGarbage(rep.cs, entries, b), s)
<1>1. ASSUME NEW e \in entries
      PROVE  Neg(Mul(CiCj(rep.cs, e), PowerOf(b, e[4]))) \in Elems /\ e \in Sources(s)
  <2>1. e[2] \in Below(st.r) /\ e[3] \in Below(st.r) /\ e[4] \in Nat /\ e \in Sources(s)
    BY PairIn
  <2>2. CiCj(rep.cs, e) \in Elems /\ PowerOf(b, e[4]) \in Elems
    BY <2>1, CiCjIn, PowersIn
  <2>. QED  BY <2>1, <2>2, MulIs, NegIs
<1>. QED  BY <1>1 DEF IsCoef, MinusGarbage

LEMMA PhiSumsIn ==
  ASSUME NEW st, IsStatement(st), NEW rep, IsRep(rep, st)
  PROVE  /\ DOMAIN PhiSums(rep) \subseteq Below(st.n)
         /\ \A p \in DOMAIN PhiSums(rep) :
              LET f == [x \in {y \in DOMAIN rep.phi_agg : y[2] = p} |-> Mul(rep.cs[x[1]], rep.phi_agg[x])]
              IN  /\ IsFamily(f, {y \in DOMAIN rep.phi_agg : y[2] = p}, Elems)
                  /\ PhiSums(rep)[p] = SumE(f) /\ PhiSums(rep)[p] \in Elems
<1>1. DOMAIN rep.phi_agg \subseteq Positions(st) /\ IsFiniteSet(Positions(st))
      /\ IsFiniteSet(DOMAIN rep.phi_agg)
  <2>1. DOMAIN rep.phi_agg \subseteq Positions(st)
    BY DEF IsRep, IsSparse
  <2>2. IsFiniteSet(Positions(st))
    BY FinitePlaces DEF IsStatement
  <2>. QED  BY <2>1, <2>2, FS_Subset
<1>2. \A x \in DOMAIN rep.phi_agg : Mul(rep.cs[x[1]], rep.phi_agg[x]) \in Elems
  <2>1. \A x \in DOMAIN rep.phi_agg : rep.cs[x[1]] \in Elems /\ rep.phi_agg[x] \in Elems
    BY <1>1 DEF IsRep, IsSparse, Positions, Below
  <2>. QED  BY <2>1, MulIs
<1>3. \A x \in DOMAIN rep.phi_agg : x[2] \in Below(st.n)
  BY <1>1 DEF Positions, Below
<1>4. ASSUME NEW p
      PROVE  LET S == {y \in DOMAIN rep.phi_agg : y[2] = p}
                 f == [x \in S |-> Mul(rep.cs[x[1]], rep.phi_agg[x])]
             IN  IsFamily(f, S, Elems) /\ Total(f) = SumE(f) /\ Total(f) \in Elems
  <2>. DEFINE S == {y \in DOMAIN rep.phi_agg : y[2] = p}
              f == [x \in S |-> Mul(rep.cs[x[1]], rep.phi_agg[x])]
  <2>1. IsFiniteSet(S)
    BY <1>1, FS_Subset
  <2>2. DOMAIN f = S /\ f = [x \in DOMAIN f |-> f[x]] /\ \A x \in S : f[x] \in Elems
    BY <1>2
  <2>. HIDE DEF S, f
  <2>3. IsFamily(f, S, Elems) /\ Total(f) = SumE(f) /\ Total(f) \in Elems
    BY <2>1, <2>2, FamilyTotal
  <2>. QED  BY <2>3 DEF f, S
<1>5. DOMAIN PhiSums(rep) = {x[2] : x \in DOMAIN rep.phi_agg}
  BY DEF PhiSums
<1>6. \A p \in DOMAIN PhiSums(rep) : PhiSums(rep)[p] =
        Total([x \in {y \in DOMAIN rep.phi_agg : y[2] = p} |-> Mul(rep.cs[x[1]], rep.phi_agg[x])])
  BY DEF PhiSums
<1>7. DOMAIN PhiSums(rep) \subseteq Below(st.n)
  BY <1>3, <1>5
<1>. QED  BY <1>4, <1>6, <1>7

LEMMA Coef6In ==
  ASSUME NEW s, NEW i \in Parameters, NEW st, st.r = s.r, NEW rep, IsRep(rep, st)
  PROVE  IsCoef(GCoef6(s, i, rep), s) /\ IsCoef(HCoef6(s, i), s)
<1>1. ASSUME NEW e \in GEntries(s), <<e[2], e[3]>> \in DOMAIN rep.a_agg
      PROVE  Mul(Doubled(<<e[2], e[3]>>, rep.a_agg[<<e[2], e[3]>>]), PowerOf(i.b2, e[4])) \in Elems
  <2>1. rep.a_agg[<<e[2], e[3]>>] \in Elems
    BY <1>1 DEF IsRep, IsSparse
  <2>2. Doubled(<<e[2], e[3]>>, rep.a_agg[<<e[2], e[3]>>]) \in Elems
    BY <2>1, DoubledIn
  <2>3. PowerOf(i.b2, e[4]) \in Elems
    BY PairIn, ParametersAre, PowersIn
  <2>. QED  BY <2>2, <2>3, MulIs
<1>2. \A e \in HEntries(s) : PowerOf(i.b1, e[4]) \in Elems
  BY PairIn, ParametersAre, PowersIn
<1>3. \A e \in GEntries(s) \cup HEntries(s) : e \in Sources(s)
  BY PairIn
<1>. QED  BY <1>1, <1>2, <1>3 DEF IsCoef, GCoef6, HCoef6

-----------------------------------------------------------------------------
(* Every folded constraint is one of the statement that the fold makes.     *)
Folds(c, s) == IsConstraint(c, FoldedSize(s)) /\ c.b \in Elems

LEMMA RowsIn ==
  ASSUME DrawsAreResidues, NEW s, Proper(s), NEW rep, NEW entries, entries \subseteq Entries(s), NEW row
  PROVE  IsCoef(RowCoef(rep, entries, row), s)
<1>1. \A e \in entries : Matrix(rep.seeds, e, row) \in Elems
  BY MatrixIn
<1>2. entries \subseteq Sources(s)
  BY DEF Sources
<1>. QED  BY <1>1, <1>2 DEF IsCoef, RowCoef

LEMMA Coef3In ==
  ASSUME DrawsAreResidues, NEW st, IsStatement(st), NEW i \in Parameters, NEW rep, IsRep(rep, st), NEW k
  PROVE  LET s == ShapeOf(st, i)
             f == [p \in Below(s.n) |-> A(rep.seeds, k, p)]
         IN  /\ IsCoef(OnZ(s, i, f), s) /\ IsCoef(VCoef(s, i, rep, k), s) /\ IsCoef(Coef3(s, i, rep, k), s)
             /\ build_check3_row(s, i, rep, k) = Linear(s, Coef3(s, i, rep, k), Zero)
<1>. DEFINE s == ShapeOf(st, i)
            f == [p \in Below(s.n) |-> A(rep.seeds, k, p)]
<1>1. st.r = s.r
  BY ShapeIs
<1>2. IsOnZ(f, s)
  BY MatrixIn DEF IsOnZ
<1>3. build_check3_row(s, i, rep, k) = Linear(s, Coef3(s, i, rep, k), Zero)
  BY DEF build_check3_row, Coef3, VCoef
<1>4. Coef3(s, i, rep, k) = Join(OnZ(s, i, f), VCoef(s, i, rep, k))
  BY DEF Coef3
<1>. HIDE DEF s, f
<1>5. IsCoef(OnZ(s, i, f), s) /\ IsCoef(VCoef(s, i, rep, k), s)
  BY <1>1, <1>2, OnZIn, VCoefIn
<1>6. IsCoef(Coef3(s, i, rep, k), s)
  BY <1>4, <1>5, CoefJoin
<1>. QED  BY <1>3, <1>5, <1>6 DEF s, f

LEMMA Coef4In ==
  ASSUME NEW st, IsStatement(st), NEW i \in Parameters, NEW rep, IsRep(rep, st)
  PROVE  LET s == ShapeOf(st, i)
         IN  IsCoef(Coef4(s, i, rep), s) /\ Folds(build_check4(s, i, rep), s)
<1>. DEFINE s == ShapeOf(st, i)
            c == build_check4(s, i, rep)
<1>1. Proper(s) /\ st.r = s.r /\ i.b2 \in Nat /\ i.b \in Nat
  BY ShapeIs, ParametersAre
<1>. HIDE DEF s
<1>2. GEntries(s) \subseteq GEntries(s) \cup HEntries(s)
  OBVIOUS
<1>3. IsCoef(Coef4(s, i, rep), s)
  BY <1>1, <1>2, MinusGarbageIn DEF Coef4
<1>4. IsSparse(Place(s, Coef4(s, i, rep)), Slots(s))
  BY <1>1, <1>3, PlaceIs
<1>5. /\ c.phi = Place(s, Coef4(s, i, rep)) /\ c.b = Zero
      /\ c.a = [p \in {<<a, a>> : a \in Below(2 * s.nu)} \cup {<<a, s.nu + a>> : a \in Below(s.nu)} |->
            CASE p[2] < s.nu -> constant(1)
              [] p[1] < p[2] -> constant(i.b)
              [] OTHER -> constant(i.b * i.b)]
  BY DEF build_check4, Coef4
<1>6. constant(1) \in Elems /\ constant(i.b) \in Elems /\ constant(i.b * i.b) \in Elems
  BY <1>1, ConstantIs
<1>7. {<<a, a>> : a \in Below(2 * s.nu)} \cup {<<a, s.nu + a>> : a \in Below(s.nu)} \subseteq Pairs(RPrime(s))
  <2>1. s.nu \in Nat /\ s.mu \in Nat /\ RPrime(s) = 2 * s.nu + s.mu
    BY <1>1, Lengths
  <2>2. \A a \in Below(2 * s.nu) : a \in 0..(RPrime(s) - 1) /\ a <= a
    BY <2>1 DEF Below
  <2>3. \A a \in Below(s.nu) : a \in 0..(RPrime(s) - 1) /\ s.nu + a \in 0..(RPrime(s) - 1) /\ a <= s.nu + a
    BY <2>1 DEF Below
  <2>. QED  BY <2>2, <2>3 DEF Pairs
<1>. HIDE DEF c
<1>8. IsSparse(c.a, Pairs(RPrime(s)))
  BY <1>5, <1>6, <1>7 DEF IsSparse
<1>9. Slots(s) = Positions(FoldedSize(s)) /\ FoldedSize(s).r = RPrime(s)
  BY DEF Slots, Positions, FoldedSize, Below
<1>10. Folds(c, s)
  BY <1>4, <1>5, <1>8, <1>9, ElemFacts DEF IsConstraint, Positions, Folds
<1>. QED  BY <1>3, <1>10 DEF s, c

LEMMA Coef5In ==
  ASSUME NEW st, IsStatement(st), NEW i \in Parameters, NEW rep, IsRep(rep, st)
  PROVE  LET s == ShapeOf(st, i)
         IN  /\ IsCoef(OnZ(s, i, PhiSums(rep)), s) /\ IsCoef(MinusGarbage(rep.cs, HEntries(s), i.b1), s)
             /\ IsCoef(Coef5(s, i, rep), s)
             /\ build_check5(s, i, rep) = Linear(s, Coef5(s, i, rep), Zero)
<1>. DEFINE s == ShapeOf(st, i)
<1>1. s.n = st.n /\ st.r = s.r /\ i.b1 \in Nat
  BY ShapeIs, ParametersAre
<1>2. build_check5(s, i, rep) = Linear(s, Coef5(s, i, rep), Zero)
  BY DEF build_check5, Coef5, PhiSums
<1>. HIDE DEF s
<1>3. IsOnZ(PhiSums(rep), s)
  BY <1>1, PhiSumsIn DEF IsOnZ
<1>4. IsCoef(OnZ(s, i, PhiSums(rep)), s)
  BY <1>3, OnZIn
<1>5. HEntries(s) \subseteq GEntries(s) \cup HEntries(s)
  OBVIOUS
<1>6. IsCoef(MinusGarbage(rep.cs, HEntries(s), i.b1), s)
  BY <1>1, <1>5, MinusGarbageIn
<1>7. IsCoef(Coef5(s, i, rep), s)
  BY <1>4, <1>6, CoefJoin DEF Coef5
<1>. QED  BY <1>2, <1>4, <1>6, <1>7 DEF s

LEMMA Coef6Joined ==
  ASSUME NEW st, IsStatement(st), NEW i \in Parameters, NEW rep, IsRep(rep, st)
  PROVE  LET s == ShapeOf(st, i)
         IN  /\ IsCoef(GCoef6(s, i, rep), s) /\ IsCoef(HCoef6(s, i), s) /\ IsCoef(Coef6(s, i, rep), s)
             /\ build_check6(s, i, rep) = Linear(s, Coef6(s, i, rep), rep.b_agg)
<1>. DEFINE s == ShapeOf(st, i)
<1>1. st.r = s.r
  BY ShapeIs
<1>2. build_check6(s, i, rep) = Linear(s, Coef6(s, i, rep), rep.b_agg)
  BY DEF build_check6, Coef6, GCoef6, HCoef6
<1>. HIDE DEF s
<1>3. IsCoef(GCoef6(s, i, rep), s) /\ IsCoef(HCoef6(s, i), s)
  BY <1>1, Coef6In
<1>4. IsCoef(Coef6(s, i, rep), s)
  BY <1>3, CoefJoin DEF Coef6
<1>. QED  BY <1>2, <1>3, <1>4 DEF s

\* A sequence of n parts of the folded statement.
AreFolds(cs_, s, n) == n \in Nat /\ IsSeq(cs_) /\ Len(cs_) = n /\ \A k \in 1..n : Folds(cs_[k], s)

LEMMA FoldsOf ==
  ASSUME NEW s, NEW n \in Nat, NEW f, DOMAIN f = 1..n, f = [k \in DOMAIN f |-> f[k]],
         \A k \in 1..n : Folds(f[k], s)
  PROVE  AreFolds(f, s, n)
  BY SeqOf DEF AreFolds

FoldsTogether(zs, s, xs, n, ys, m) ==
  /\ AreFolds(zs, s, n + m) /\ DOMAIN zs = 1..(n + m)
  /\ \A k \in 1..n : zs[k] = xs[k]
  /\ \A k \in 1..m : zs[n + k] = ys[k]

LEMMA FoldsJoined ==
  ASSUME NEW s, NEW n, NEW m, NEW xs, AreFolds(xs, s, n), NEW ys, AreFolds(ys, s, m)
  PROVE  FoldsTogether(xs \o ys, s, xs, n, ys, m)
<1>1. n \in Nat /\ m \in Nat /\ IsSeq(xs) /\ IsSeq(ys) /\ Len(xs) = n /\ Len(ys) = m
  BY DEF AreFolds
<1>2. /\ IsSeq(xs \o ys) /\ Len(xs \o ys) = n + m
      /\ \A k \in 1..(n + m) : (xs \o ys)[k] = IF k <= n THEN xs[k] ELSE ys[k - n]
  BY <1>1, SeqJoined
<1>3. ASSUME NEW k \in 1..(n + m) PROVE Folds((xs \o ys)[k], s)
  <2>1. k <= n => k \in 1..n
    BY <1>1
  <2>2. ~(k <= n) => k - n \in 1..m
    BY <1>1
  <2>. QED  BY <1>2, <2>1, <2>2 DEF AreFolds
<1>4. \A k \in 1..n : (xs \o ys)[k] = xs[k]
  <2>1. \A k \in 1..n : k \in 1..(n + m) /\ k <= n
    BY <1>1
  <2>. QED  BY <1>2, <2>1
<1>5. \A k \in 1..m : (xs \o ys)[n + k] = ys[k]
  <2>1. \A k \in 1..m : n + k \in 1..(n + m) /\ ~(n + k <= n) /\ (n + k) - n = k
    BY <1>1
  <2>. QED  BY <1>2, <2>1
<1>6. DOMAIN (xs \o ys) = 1..(n + m)
  BY <1>2, SeqIs
<1>. DEFINE zs == xs \o ys
<1>7. IsSeq(zs) /\ Len(zs) = n + m /\ DOMAIN zs = 1..(n + m)
      /\ (\A k \in 1..(n + m) : Folds(zs[k], s))
      /\ (\A k \in 1..n : zs[k] = xs[k]) /\ (\A k \in 1..m : zs[n + k] = ys[k])
  BY <1>2, <1>3, <1>4, <1>5, <1>6
<1>. HIDE DEF zs
<1>8. n + m \in Nat
  BY <1>1
<1>9. AreFolds(zs, s, n + m)
  BY <1>7, <1>8 DEF AreFolds
<1>10. FoldsTogether(zs, s, xs, n, ys, m)
  BY <1>7, <1>9 DEF FoldsTogether
<1>. QED  BY <1>10 DEF zs

-----------------------------------------------------------------------------
(* The folded statement, part by part.                                      *)
Part3(s, i, rep) == [k \in 1..i.kappa |-> build_check3_row(s, i, rep, k - 1)]
Middle(s, i, rep) == <<build_check4(s, i, rep), build_check5(s, i, rep), build_check6(s, i, rep)>>
Part8(s, i, pr, rep) == [row \in 1..i.kappa1 |-> build_check8_row(s, rep, pr.u1, row)]
Part9(s, i, pr, rep) == [row \in 1..i.kappa1 |-> build_check9_row(s, rep, pr.u2, row)]

LEMMA PartsFold ==
  ASSUME DrawsAreResidues, NEW st, IsStatement(st), NEW i \in Parameters, NEW rep, IsRep(rep, st),
         NEW pr, pr.u1 \in [1..i.kappa1 -> Elems], pr.u2 \in [1..i.kappa1 -> Elems]
  PROVE  LET s == ShapeOf(st, i)
         IN  /\ AreFolds(Part3(s, i, rep), s, i.kappa) /\ AreFolds(Middle(s, i, rep), s, 3)
             /\ AreFolds(Part8(s, i, pr, rep), s, i.kappa1) /\ AreFolds(Part9(s, i, pr, rep), s, i.kappa1)
             /\ \A row \in 1..i.kappa1 :
                  /\ build_check8_row(s, rep, pr.u1, row) =
                       Linear(s, RowCoef(rep, VEntries(s) \cup GEntries(s), row), pr.u1[row])
                  /\ IsCoef(RowCoef(rep, VEntries(s) \cup GEntries(s), row), s)
                  /\ build_check9_row(s, rep, pr.u2, row) = Linear(s, RowCoef(rep, HEntries(s), row), pr.u2[row])
                  /\ IsCoef(RowCoef(rep, HEntries(s), row), s)
<1>. DEFINE s == ShapeOf(st, i)
<1>1. Proper(s) /\ i.kappa \in Nat /\ i.kappa1 \in Nat
  BY ShapeIs, ParametersAre
<1>2. \A k : Folds(build_check3_row(s, i, rep, k), s)
  <2>1. \A k : /\ IsCoef(Coef3(s, i, rep, k), s)
               /\ build_check3_row(s, i, rep, k) = Linear(s, Coef3(s, i, rep, k), Zero)
    BY Coef3In
  <2>. HIDE DEF s
  <2>. QED  BY <1>1, <2>1, LinearIn, ElemFacts DEF Folds
<1>3. Folds(build_check4(s, i, rep), s)
  BY Coef4In
<1>4. Folds(build_check5(s, i, rep), s)
  <2>1. IsCoef(Coef5(s, i, rep), s) /\ build_check5(s, i, rep) = Linear(s, Coef5(s, i, rep), Zero)
    BY Coef5In
  <2>. HIDE DEF s
  <2>. QED  BY <1>1, <2>1, LinearIn, ElemFacts DEF Folds
<1>5. Folds(build_check6(s, i, rep), s)
  <2>1. IsCoef(Coef6(s, i, rep), s) /\ build_check6(s, i, rep) = Linear(s, Coef6(s, i, rep), rep.b_agg)
        /\ rep.b_agg \in Elems
    BY Coef6Joined DEF IsRep
  <2>. HIDE DEF s
  <2>. QED  BY <1>1, <2>1, LinearIn DEF Folds
<1>. HIDE DEF s
<1>6. VEntries(s) \cup GEntries(s) \subseteq Entries(s) /\ HEntries(s) \subseteq Entries(s)
  BY DEF Entries
<1>7. ASSUME NEW row \in 1..i.kappa1
      PROVE  /\ build_check8_row(s, rep, pr.u1, row) =
                  Linear(s, RowCoef(rep, VEntries(s) \cup GEntries(s), row), pr.u1[row])
             /\ IsCoef(RowCoef(rep, VEntries(s) \cup GEntries(s), row), s)
             /\ build_check9_row(s, rep, pr.u2, row) = Linear(s, RowCoef(rep, HEntries(s), row), pr.u2[row])
             /\ IsCoef(RowCoef(rep, HEntries(s), row), s)
             /\ Folds(build_check8_row(s, rep, pr.u1, row), s)
             /\ Folds(build_check9_row(s, rep, pr.u2, row), s)
  <2>1. /\ build_check8_row(s, rep, pr.u1, row) =
             Linear(s, RowCoef(rep, VEntries(s) \cup GEntries(s), row), pr.u1[row])
        /\ build_check9_row(s, rep, pr.u2, row) = Linear(s, RowCoef(rep, HEntries(s), row), pr.u2[row])
    BY DEF build_check8_row, build_check9_row, RowCoef
  <2>2. IsCoef(RowCoef(rep, VEntries(s) \cup GEntries(s), row), s) /\ IsCoef(RowCoef(rep, HEntries(s), row), s)
    BY <1>1, <1>6, RowsIn
  <2>3. pr.u1[row] \in Elems /\ pr.u2[row] \in Elems
    OBVIOUS
  <2>. QED  BY <1>1, <2>1, <2>2, <2>3, LinearIn DEF Folds
<1>8. AreFolds(Part3(s, i, rep), s, i.kappa)
  <2>. DEFINE f == Part3(s, i, rep)
              n == i.kappa
  <2>1. n \in Nat /\ DOMAIN f = 1..n /\ f = [k \in DOMAIN f |-> f[k]] /\ \A k \in 1..n : Folds(f[k], s)
    BY <1>1, <1>2 DEF Part3
  <2>. HIDE DEF f, n
  <2>2. AreFolds(f, s, n)
    BY <2>1, FoldsOf
  <2>. QED  BY <2>2 DEF f, n
<1>9. AreFolds(Middle(s, i, rep), s, 3)
  <2>. DEFINE f == Middle(s, i, rep)
              n == 3
  <2>1. n \in Nat /\ DOMAIN f = 1..n /\ f = [k \in DOMAIN f |-> f[k]]
    BY DEF Middle
  <2>2. f[1] = build_check4(s, i, rep) /\ f[2] = build_check5(s, i, rep) /\ f[3] = build_check6(s, i, rep)
    BY DEF Middle
  <2>3. \A k \in 1..n : k = 1 \/ k = 2 \/ k = 3
    OBVIOUS
  <2>. HIDE DEF f, n
  <2>4. \A k \in 1..n : Folds(f[k], s)
    BY <1>3, <1>4, <1>5, <2>2, <2>3
  <2>5. AreFolds(f, s, n)
    BY <2>1, <2>4, FoldsOf
  <2>. QED  BY <2>5 DEF f, n
<1>10. AreFolds(Part8(s, i, pr, rep), s, i.kappa1)
  <2>. DEFINE f == Part8(s, i, pr, rep)
              n == i.kappa1
  <2>1. n \in Nat /\ DOMAIN f = 1..n /\ f = [k \in DOMAIN f |-> f[k]] /\ \A k \in 1..n : Folds(f[k], s)
    BY <1>1, <1>7 DEF Part8
  <2>. HIDE DEF f, n
  <2>2. AreFolds(f, s, n)
    BY <2>1, FoldsOf
  <2>. QED  BY <2>2 DEF f, n
<1>11. AreFolds(Part9(s, i, pr, rep), s, i.kappa1)
  <2>. DEFINE f == Part9(s, i, pr, rep)
              n == i.kappa1
  <2>1. n \in Nat /\ DOMAIN f = 1..n /\ f = [k \in DOMAIN f |-> f[k]] /\ \A k \in 1..n : Folds(f[k], s)
    BY <1>1, <1>7 DEF Part9
  <2>. HIDE DEF f, n
  <2>2. AreFolds(f, s, n)
    BY <2>1, FoldsOf
  <2>. QED  BY <2>2 DEF f, n
<1>. QED  BY <1>7, <1>8, <1>9, <1>10, <1>11 DEF s

LEMMA FoldedIs ==
  ASSUME DrawsAreResidues, NEW st, IsStatement(st), NEW i \in Parameters, NEW rep, IsRep(rep, st),
         NEW pr, pr.u1 \in [1..i.kappa1 -> Elems], pr.u2 \in [1..i.kappa1 -> Elems]
  PROVE  LET s == ShapeOf(st, i)
             folded_ == fold_statement(st, i, pr, rep)
             full == folded_.full
             x == i.kappa
             y == x + 3 + i.kappa1
         IN  /\ IsStatement(folded_) /\ folded_.n = NPrime(s) /\ folded_.r = RPrime(s)
             /\ AreFolds(full, s, y + i.kappa1)
             /\ \A k \in 1..x : full[k] = build_check3_row(s, i, rep, k - 1)
             /\ full[x + 1] = build_check4(s, i, rep) /\ full[x + 2] = build_check5(s, i, rep)
             /\ full[x + 3] = build_check6(s, i, rep)
             /\ \A row \in 1..i.kappa1 : /\ full[x + 3 + row] = build_check8_row(s, rep, pr.u1, row)
                                         /\ full[y + row] = build_check9_row(s, rep, pr.u2, row)
<1>. DEFINE s == ShapeOf(st, i)
            folded_ == fold_statement(st, i, pr, rep)
            full == folded_.full
            x == i.kappa
            y1 == i.kappa1
            a == Part3(s, i, rep)
            b == Middle(s, i, rep)
            c == Part8(s, i, pr, rep)
            d == Part9(s, i, pr, rep)
            three == 3
<1>1. /\ folded_.full = ((a \o b) \o c) \o d /\ folded_.n = NPrime(s) /\ folded_.r = RPrime(s)
      /\ folded_.const_term = << >>
  BY DEF fold_statement, Part3, Middle, Part8, Part9
<1>2. /\ AreFolds(a, s, x) /\ AreFolds(b, s, three) /\ AreFolds(c, s, y1) /\ AreFolds(d, s, y1)
  BY PartsFold
<1>3. Proper(s) /\ x \in Nat /\ y1 \in Nat
  BY ShapeIs, ParametersAre
<1>4. /\ \A k \in 1..x : a[k] = build_check3_row(s, i, rep, k - 1)
      /\ b[1] = build_check4(s, i, rep) /\ b[2] = build_check5(s, i, rep) /\ b[3] = build_check6(s, i, rep)
      /\ \A row \in 1..y1 : c[row] = build_check8_row(s, rep, pr.u1, row)
                            /\ d[row] = build_check9_row(s, rep, pr.u2, row)
  BY DEF Part3, Middle, Part8, Part9
<1>5. 1 \in 1..three /\ 2 \in 1..three /\ 3 \in 1..three
  OBVIOUS
<1>. HIDE DEF s, folded_, x, y1, a, b, c, d
<1>6. FoldsTogether(a \o b, s, a, x, b, 3)
  <2>. HIDE DEF three
  <2>1. FoldsTogether(a \o b, s, a, x, b, three)
    BY <1>2, FoldsJoined
  <2>. QED  BY <2>1 DEF three
<1>7. AreFolds(a \o b, s, x + 3)
  BY <1>6 DEF FoldsTogether
<1>8. FoldsTogether((a \o b) \o c, s, a \o b, x + 3, c, y1)
  BY <1>2, <1>7, FoldsJoined
<1>9. AreFolds((a \o b) \o c, s, x + 3 + y1)
  BY <1>8 DEF FoldsTogether
<1>10. FoldsTogether(full, s, (a \o b) \o c, x + 3 + y1, d, y1)
  BY <1>1, <1>2, <1>9, FoldsJoined
<1>. DEFINE ab == a \o b
            abc == ab \o c
<1>11. /\ \A k \in 1..x : ab[k] = a[k]
       /\ \A k \in 1..3 : ab[x + k] = b[k]
  BY <1>6 DEF FoldsTogether
<1>12. /\ \A k \in 1..(x + 3) : abc[k] = ab[k]
       /\ \A row \in 1..y1 : abc[x + 3 + row] = c[row]
  BY <1>8 DEF FoldsTogether
<1>13. /\ \A k \in 1..(x + 3 + y1) : full[k] = abc[k]
       /\ \A row \in 1..y1 : full[x + 3 + y1 + row] = d[row]
       /\ AreFolds(full, s, x + 3 + y1 + y1)
  BY <1>10 DEF FoldsTogether
<1>. HIDE DEF ab, abc
<1>14. \A k \in 1..x : full[k] = a[k]
  <2>1. \A k \in 1..x : k \in 1..(x + 3) /\ k \in 1..(x + 3 + y1)
    BY <1>3
  <2>. HIDE DEF full
  <2>. QED  BY <1>11, <1>12, <1>13, <2>1
<1>15. full[x + 1] = b[1] /\ full[x + 2] = b[2] /\ full[x + 3] = b[3]
  <2>1. \A k \in 1..3 : x + k \in 1..(x + 3) /\ x + k \in 1..(x + 3 + y1)
    BY <1>3
  <2>2. ASSUME NEW k \in 1..3 PROVE full[x + k] = b[k]
    <3>. HIDE DEF full
    <3>. DEFINE l == x + k
    <3>1. l \in 1..(x + 3) /\ l \in 1..(x + 3 + y1)
      BY <2>1
    <3>2. ab[l] = b[k]
      BY <1>11
    <3>. HIDE DEF l
    <3>3. full[l] = abc[l] /\ abc[l] = ab[l]
      BY <1>12, <1>13, <3>1
    <3>. QED  BY <3>2, <3>3 DEF l
  <2>. HIDE DEF full
  <2>. QED  BY <1>5, <2>2 DEF three
<1>16. \A row \in 1..y1 : full[x + 3 + row] = c[row]
  <2>1. \A row \in 1..y1 : x + 3 + row \in 1..(x + 3 + y1)
    BY <1>3
  <2>. HIDE DEF full
  <2>. QED  BY <1>12, <1>13, <2>1
<1>17. IsStatement(folded_)
  <2>. DEFINE n == x + 3 + y1 + y1
  <2>1. NPrime(s) \in Nat \ {0} /\ RPrime(s) \in Nat \ {0}
    <3>1. NPrime(s) \in Nat /\ ZLen(s) <= NPrime(s) /\ ZLen(s) > 0 /\ ZLen(s) \in Nat
          /\ s.nu \in Nat /\ s.mu \in Nat /\ RPrime(s) = 2 * s.nu + s.mu
      BY <1>3, Lengths
    <3>2. s.nu > 0
      BY <1>3 DEF Proper
    <3>. QED  BY <3>1, <3>2
  <2>. HIDE DEF n
  <2>2. IsSeq(full) /\ DOMAIN full = 1..n /\ \A k \in 1..n : Folds(full[k], s)
    <3>1. AreFolds(full, s, n)
      BY <1>13 DEF n
    <3>. HIDE DEF full
    <3>2. IsSeq(full) /\ Len(full) = n /\ \A k \in 1..n : Folds(full[k], s)
      BY <3>1 DEF AreFolds
    <3>. QED  BY <3>2, SeqIs
  <2>3. \A k \in DOMAIN folded_.full : IsConstraint(folded_.full[k], folded_) /\ folded_.full[k].b \in Elems
    BY <1>1, <2>2 DEF Folds, IsConstraint, FoldedSize
  <2>4. folded_.const_term \in Seq(Range(folded_.const_term)) /\ DOMAIN folded_.const_term = {}
    BY <1>1
  <2>. QED  BY <1>1, <2>1, <2>2, <2>3, <2>4 DEF IsStatement, IsSeq
<1>. QED  BY <1>1, <1>4, <1>13, <1>14, <1>15, <1>16, <1>17 DEF s, folded_, x, y1
=============================================================================
