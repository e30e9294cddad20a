------------------------ MODULE FalconRelationProofs ------------------------
(***************************************************************************)
(* Theorems about the Falcon statement for every number of signatures: the *)
(* terms of all constraints are about existing positions, the pieces of    *)
(* the witness do not overlap, and the pins confine each four-square       *)
(* constraint to one signature.                                            *)
(***************************************************************************)
EXTENDS FalconRelation, FiniteSetTheorems, TLAPS

-----------------------------------------------------------------------------
(* The grid of signatures.                                                 *)

IsLayout(y) ==
  /\ y.n_sigs \in Nat \ {0} /\ y.rho \in Nat \ {0}
  /\ y.num_y = (y.n_sigs + y.rho - 1) \div y.rho
  /\ y.num_yp = y.rho

LEMMA LayoutsAre ==
  ASSUME NEW n \in Nat \ {0}, NEW y \in LayoutsOf(n)
  PROVE  IsLayout(y)
BY DEF LayoutsOf, IsLayout

\* Quotient and remainder.
LEMMA Division ==
  ASSUME NEW a \in Nat, NEW b \in Nat, b > 0
  PROVE  /\ a \div b \in Nat /\ a % b \in 0..(b - 1)
         /\ a = b * (a \div b) + (a % b)
  BY Z3

\* The quotient is the only one with a remainder below the divisor.
LEMMA QuotientUnique ==
  ASSUME NEW b \in Nat, NEW x \in Int, NEW z \in Int, NEW d \in 0..(b - 1), NEW e \in 0..(b - 1),
         x * b + d = z * b + e
  PROVE  x = z /\ d = e
<1>1. ASSUME NEW m \in Int, NEW n \in Int, NEW f \in 0..(b - 1), NEW g \in 0..(b - 1), m < n
      PROVE  m * b + f < n * b + g
  <2>1. (n - m - 1) * b >= 0
    BY <1>1, SMT
  <2>2. n * b = (n - m - 1) * b + m * b + b
    BY SMT
  <2>3. m * b \in Int /\ n * b \in Int
    BY SMT
  <2>. QED  BY <2>1, <2>2, <2>3, SMT
<1>2. ~(x < z) /\ ~(z < x)
  <2>1. x * b + d \in Int /\ z * b + e \in Int
    BY SMT
  <2>. QED  BY <1>1, <2>1, SMT
<1>3. x = z
  BY <1>2, SMT
<1>4. x * b \in Int
  BY SMT
<1>. QED  BY <1>3, <1>4, SMT

\* Signature j is in the row and the column that j - 1 divided by rho gives.
LEMMA GridOf ==
  ASSUME NEW y, IsLayout(y), NEW j \in Nat \ {0}
  PROVE  /\ index(y, j) = ((j - 1) \div y.rho) + 1
         /\ index(y, j) \in Nat \ {0} /\ index_prime(y, j) \in Columns(y)
         /\ j = (index(y, j) - 1) * y.rho + index_prime(y, j)
<1>. DEFINE b == y.rho
<1>1. b \in Nat /\ b > 0 /\ y.num_yp = b
  BY DEF IsLayout
<1>. HIDE DEF b
<1>2. /\ (j - 1) \div b \in Nat /\ (j - 1) % b \in 0..(b - 1)
      /\ j - 1 = b * ((j - 1) \div b) + ((j - 1) % b)
  BY <1>1, Division
<1>3. /\ (j + b - 1) \div b \in Nat /\ (j + b - 1) % b \in 0..(b - 1)
      /\ j + b - 1 = b * ((j + b - 1) \div b) + ((j + b - 1) % b)
  BY <1>1, Division
<1>4. (j + b - 1) \div b = ((j - 1) \div b) + 1
  <2>. DEFINE s == (j - 1) \div b
              t == (j + b - 1) \div b
              d == (j - 1) % b
              e == (j + b - 1) % b
  <2>1. s \in Nat /\ t \in Nat /\ d \in 0..(b - 1) /\ e \in 0..(b - 1)
    BY <1>2, <1>3
  <2>2. b * s + d = j - 1 /\ b * t + e = j + b - 1
    BY <1>2, <1>3
  <2>. HIDE DEF s, t, d, e
  <2>3. b * s \in Int /\ b * t \in Int /\ (s + 1) * b = b * s + b /\ t * b = b * t
    BY <1>1, <2>1, SMT
  <2>4. t * b + e = (s + 1) * b + d
    BY <1>1, <2>1, <2>2, <2>3, SMT
  <2>5. t = s + 1
    BY <1>1, <2>1, <2>4, QuotientUnique
  <2>. QED  BY <2>5 DEF s, t
<1>5. ((j - 1) \div b) * b \in Int /\ ((j - 1) \div b) * b = b * ((j - 1) \div b)
  BY <1>1, <1>2, SMT
<1>6. index(y, j) = ((j - 1) \div b) + 1 /\ index_prime(y, j) = ((j - 1) % b) + 1
  BY <1>4 DEF index, index_prime, b
<1>7. j = (index(y, j) - 1) * b + index_prime(y, j)
  <2>1. index(y, j) - 1 = (j - 1) \div b
    BY <1>2, <1>6
  <2>. QED  BY <1>2, <1>5, <1>6, <2>1
<1>8. index_prime(y, j) \in Columns(y)
  BY <1>1, <1>2, <1>6 DEF Columns
<1>. QED  BY <1>2, <1>6, <1>7, <1>8 DEF b

LEMMA RowOf ==
  ASSUME NEW y, IsLayout(y), NEW j \in Sigs(y)
  PROVE  index(y, j) \in Rows(y)
<1>. DEFINE b == y.rho
            n == y.n_sigs
<1>1. b \in Nat /\ b > 0 /\ n \in Nat /\ n > 0 /\ j \in Nat /\ j > 0 /\ j <= n
      /\ y.num_y = (n + b - 1) \div b
  BY DEF IsLayout, Sigs
<1>2. index(y, n) = y.num_y /\ index(y, n) \in Nat /\ n = (index(y, n) - 1) * b + index_prime(y, n)
      /\ index_prime(y, n) \in 1..b
  BY <1>1, GridOf DEF index, Columns, IsLayout
<1>3. index(y, j) \in Nat /\ index(y, j) > 0 /\ j = (index(y, j) - 1) * b + index_prime(y, j)
      /\ index_prime(y, j) \in 1..b
  <2>1. j \in Nat \ {0}
    BY <1>1
  <2>. QED  BY <2>1, GridOf DEF Columns, IsLayout
<1>. DEFINE s == index(y, j)
            t == index(y, n)
            d == index_prime(y, j)
            e == index_prime(y, n)
<1>4. s \in Nat /\ t \in Nat /\ d \in 1..b /\ e \in 1..b /\ j = (s - 1) * b + d /\ n = (t - 1) * b + e
  BY <1>2, <1>3
<1>. HIDE DEF s, t, d, e, b, n
<1>5. s <= t
  <2>1. SUFFICES ASSUME t < s PROVE FALSE
    BY <1>4
  <2>2. (s - 1 - t) * b >= 0
    BY <1>1, <1>4, <2>1, SMT
  <2>3. (s - 1) * b = (s - 1 - t) * b + (t - 1) * b + b /\ (s - 1) * b \in Int /\ (t - 1) * b \in Int
        /\ (s - 1 - t) * b \in Int
    BY <1>1, <1>4, SMT
  <2>. QED  BY <1>1, <1>4, <2>2, <2>3
<1>. QED  BY <1>1, <1>2, <1>3, <1>5 DEF s, t, Rows

\* No two signatures share both row and column.
LEMMA GridInjective ==
  ASSUME NEW y, IsLayout(y), NEW j \in Sigs(y), NEW k \in Sigs(y),
         index(y, j) = index(y, k), index_prime(y, j) = index_prime(y, k)
  PROVE  j = k
BY GridOf DEF Sigs

\* The range active_lo..active_hi is the row.
LEMMA RowIsActive ==
  ASSUME NEW y, IsLayout(y), NEW row \in Nat \ {0}, NEW k \in ActiveInRow(y, row)
  PROVE  index(y, k) = row
<1>. DEFINE b == y.rho
            s == index(y, k)
            d == index_prime(y, k)
<1>1. b \in Nat /\ b > 0 /\ k \in Nat \ {0} /\ (row - 1) * b + 1 <= k /\ k <= row * b
  BY DEF IsLayout, ActiveInRow, Sigs
<1>2. s \in Nat \ {0} /\ d \in 1..b /\ k = (s - 1) * b + d
  BY <1>1, GridOf DEF Columns, IsLayout
<1>. HIDE DEF b, s, d
<1>3. (row - 1) * b \in Int /\ row * b = (row - 1) * b + b
  BY <1>1, SMT
<1>4. k - 1 - (row - 1) * b \in 0..(b - 1) /\ d - 1 \in 0..(b - 1)
  BY <1>1, <1>2, <1>3
<1>5. (row - 1) * b + (k - 1 - (row - 1) * b) = (s - 1) * b + (d - 1)
  <2>1. (s - 1) * b \in Int
    BY <1>1, <1>2, SMT
  <2>. QED  BY <1>1, <1>2, <1>3, <2>1
<1>6. row - 1 = s - 1
  BY <1>1, <1>2, <1>4, <1>5, QuotientUnique
<1>. QED  BY <1>2, <1>6 DEF s
LEMMA ColumnOf ==
  ASSUME NEW y, IsLayout(y), NEW j \in Sigs(y)
  PROVE  index_prime(y, j) \in Columns(y)
<1>1. j \in Nat \ {0}
  BY DEF Sigs, IsLayout
<1>. QED  BY <1>1, GridOf

-----------------------------------------------------------------------------
(* Positions and vectors.                                                  *)

LEMMA WindowsApart ==
  ASSUME NEW j \in Nat, NEW k \in Nat, NEW s \in Slots, NEW u \in Slots, At(j, s) = At(k, u)
  PROVE  j = k /\ s = u
<1>1. C \in Nat /\ s \in 0..(C - 1) /\ u \in 0..(C - 1)
  BY SlotsAssumption DEF Slots
<1>2. C * (j - 1) = (j - 1) * C /\ C * (k - 1) = (k - 1) * C
  BY <1>1, SMT
<1>3. (j - 1) * C + s = (k - 1) * C + u
  BY <1>2 DEF At
<1>4. j - 1 \in Int /\ k - 1 \in Int
  OBVIOUS
<1>5. j - 1 = k - 1 /\ s = u
  BY <1>1, <1>3, <1>4, QuotientUnique
<1>. QED  BY <1>5

LEMMA AtIsPosition ==
  ASSUME NEW y, IsLayout(y), NEW j \in Sigs(y), NEW s \in Slots
  PROVE  At(j, s) \in Positions(y)
<1>. DEFINE n == y.n_sigs
<1>1. n \in Nat /\ j \in Nat /\ j >= 1 /\ j <= n /\ C \in Nat /\ s \in 0..(C - 1)
  BY SlotsAssumption DEF IsLayout, Sigs, Slots
<1>. HIDE DEF n
<1>2. C * (j - 1) \in Nat /\ C * (n - j) \in Nat /\ C * n \in Nat
      /\ C * n = C * (n - j) + C * (j - 1) + C
  BY <1>1, SMT
<1>3. C * (j - 1) + s \in 0..(C * n - 1)
  BY <1>1, <1>2
<1>. QED  BY <1>3 DEF At, Positions, n_s, n

\* Every position is a slot of one signature.
Owner(p) == (p \div C) + 1

LEMMA OwnerOf ==
  ASSUME NEW y, IsLayout(y), NEW p \in Positions(y)
  PROVE  Owner(p) \in Sigs(y) /\ p % C \in Slots /\ p = At(Owner(p), p % C)
<1>. DEFINE n == y.n_sigs
            s == p \div C
<1>1. n \in Nat /\ C \in Nat /\ C > 0
  BY SlotsAssumption DEF IsLayout
<1>2. C * n \in Nat
  BY <1>1, SMT
<1>3. p \in Nat /\ p < C * n
  BY <1>2 DEF Positions, n_s
<1>4. s \in Nat /\ p % C \in 0..(C - 1) /\ p = C * s + (p % C)
  BY <1>1, <1>3, Division
<1>. HIDE DEF n, s
<1>5. s < n
  <2>1. SUFFICES ASSUME n <= s PROVE FALSE
    BY <1>1, <1>4
  <2>2. C * (s - n) \in Nat /\ C * s = C * (s - n) + C * n
    BY <1>1, <1>4, <2>1, SMT
  <2>. QED  BY <1>2, <1>3, <1>4, <2>2
<1>6. Owner(p) = s + 1 /\ (s + 1) - 1 = s
  BY <1>4 DEF Owner, s
<1>. QED  BY <1>1, <1>4, <1>5, <1>6 DEF Sigs, Slots, At, n

\* Each vector has an index of its own.
VectorsApart(y, row, col) ==
  /\ y_idx(y, row, 1) \in Vectors(y) /\ y_idx(y, row, 2) \in Vectors(y)
  /\ yp_idx(y, col, 1) \in Vectors(y) /\ yp_idx(y, col, 2) \in Vectors(y)
  /\ e_idx(y, row) \in Vectors(y) /\ ep_idx(y, col) \in Vectors(y) /\ v_idx(y) \in Vectors(y)
  /\ y_idx(y, row, 1) < y_idx(y, row, 2) /\ y_idx(y, row, 2) < yp_idx(y, col, 1)
  /\ yp_idx(y, col, 1) < yp_idx(y, col, 2) /\ yp_idx(y, col, 2) < e_idx(y, row)
  /\ e_idx(y, row) < ep_idx(y, col) /\ ep_idx(y, col) < v_idx(y)

LEMMA VectorIndices ==
  ASSUME NEW y, IsLayout(y), NEW row \in Rows(y), NEW col \in Columns(y)
  PROVE  VectorsApart(y, row, col)
<1>. DEFINE a == y.num_y
            b == y.num_yp
<1>1. a \in Nat /\ b \in Nat
  <2>1. y.n_sigs \in Nat /\ y.n_sigs > 0 /\ y.rho \in Nat /\ y.rho > 0 /\ a = (y.n_sigs + y.rho - 1) \div y.rho
        /\ y.num_yp = y.rho
    BY DEF IsLayout
  <2>2. y.n_sigs + y.rho - 1 \in Nat
    BY <2>1
  <2>. QED  BY <2>1, <2>2, Division
<1>2. row \in 1..a /\ col \in 1..b
  BY DEF Rows, Columns
<1>. HIDE DEF a, b
<1>3. /\ y_idx(y, row, 1) = row - 1 /\ y_idx(y, row, 2) = a + (row - 1)
      /\ yp_idx(y, col, 1) = 2 * a + (col - 1) /\ yp_idx(y, col, 2) = 2 * a + b + (col - 1)
      /\ e_idx(y, row) = 2 * a + 2 * b + (row - 1) /\ ep_idx(y, col) = 3 * a + 2 * b + (col - 1)
      /\ v_idx(y) = 3 * a + 3 * b
  BY <1>1, <1>2 DEF y_idx, yp_idx, e_idx, ep_idx, v_idx, a, b
<1>4. Vectors(y) = 0..(3 * a + 3 * b)
  BY <1>1 DEF Vectors, r, a, b
<1>. QED  BY <1>1, <1>2, <1>3, <1>4 DEF VectorsApart
-----------------------------------------------------------------------------
(* Type correctness.                                                       *)

\* The loop variable stays in the range of its loop.
LoopOK ==
  /\ pc \in {"witness", "falcon", "squares"} => i \in Sigs(L)
  /\ pc \in {"y", "e"} => i \in Rows(L)
  /\ pc \in {"yp", "ep"} => i \in Columns(L)
  /\ pc = "witness" => side = "prover"
  /\ pc = "done" => side = "verifier"

LEMMA LayoutOK ==
  ASSUME TypeOK
  PROVE  IsLayout(L) /\ 1 \in Sigs(L) /\ 1 \in Rows(L) /\ 1 \in Columns(L)
         /\ L.n_sigs \in Nat /\ L.num_y \in Nat /\ L.num_yp \in Nat
<1>1. IsLayout(L)
  BY SizesAssumption, LayoutsAre DEF TypeOK
<1>2. 1 \in Sigs(L) /\ L.n_sigs \in Nat
  BY <1>1 DEF IsLayout, Sigs
<1>3. L.num_y \in Nat
  <2>1. L.n_sigs \in Nat \ {0} /\ index(L, L.n_sigs) = L.num_y
    BY <1>1 DEF index, IsLayout
  <2>. QED  BY <1>1, <2>1, GridOf
<1>4. 1 \in Rows(L)
  <2>1. index(L, 1) \in Rows(L)
    BY <1>1, <1>2, RowOf
  <2>. QED  BY <1>3, <2>1 DEF Rows
<1>5. L.num_yp \in Nat /\ 1 \in Columns(L)
  BY <1>1 DEF IsLayout, Columns
<1>. QED  BY <1>1, <1>2, <1>3, <1>4, <1>5

\* One pass of a loop: on to the next value, or to the next loop.
LEMMA AdvanceIs ==
  ASSUME NEW bound \in Nat, NEW next, i \in 1..bound, Advance(bound, next)
  PROVE  /\ side' = side
         /\ \/ pc' = pc /\ i' = i + 1 /\ i' \in 1..bound
            \/ pc' = next /\ i' = 1 /\ i = bound
BY DEF Advance

LEMMA LastLoopIs ==
  ASSUME i \in 1..L.num_yp, L.num_yp \in Nat, LastLoop
  PROVE  \/ pc' = pc /\ side' = side /\ i' = i + 1 /\ i' \in 1..L.num_yp
         \/ side' = "verifier" /\ i' = 1 /\ i = L.num_yp
            /\ pc' = IF side = "prover" THEN "falcon" ELSE "done"
BY DEF LastLoop

LEMMA ControlStep ==
  ASSUME TypeOK, LoopOK, Next
  PROVE  /\ L' = L /\ side' \in Sides /\ i' \in Nat \ {0}
         /\ pc' \in {"witness", "falcon", "squares", "y", "yp", "e", "ep", "done"}
         /\ LoopOK'
<1>. USE LayoutOK DEF LoopOK, Sigs, Rows, Columns
<1>0. side \in Sides
  BY DEF TypeOK
<1>1. CASE PlaceSignature
  <2>1. pc = "witness" /\ L' = L /\ Advance(L.n_sigs, "falcon") /\ side = "prover"
    BY <1>1 DEF PlaceSignature
  <2>. QED  BY <2>1, <1>0, AdvanceIs
<1>2. CASE AddFalconEq
  <2>1. pc = "falcon" /\ L' = L /\ Advance(L.n_sigs, "squares")
    BY <1>2 DEF AddFalconEq, Push
  <2>. QED  BY <2>1, <1>0, AdvanceIs
<1>3. CASE AddFourSquare
  <2>1. pc = "squares" /\ L' = L /\ Advance(L.n_sigs, "y")
    BY <1>3 DEF AddFourSquare, Push
  <2>. QED  BY <2>1, <1>0, AdvanceIs
<1>4. CASE AddYPadding
  <2>1. pc = "y" /\ L' = L /\ Advance(L.num_y, "yp")
    BY <1>4 DEF AddYPadding, Push
  <2>. QED  BY <2>1, <1>0, AdvanceIs
<1>5. CASE AddYp
  <2>1. pc = "yp" /\ L' = L /\ Advance(L.num_yp, "e")
    BY <1>5 DEF AddYp, Push
  <2>. QED  BY <2>1, <1>0, AdvanceIs
<1>6. CASE AddE
  <2>1. pc = "e" /\ L' = L /\ Advance(L.num_y, "ep")
    BY <1>6 DEF AddE, Push
  <2>. QED  BY <2>1, <1>0, AdvanceIs
<1>7. CASE AddEp
  <2>1. pc = "ep" /\ L' = L /\ LastLoop
    BY <1>7 DEF AddEp, Push
  <2>. QED  BY <2>1, <1>0, LastLoopIs DEF Sides
<1>. QED  BY <1>1, <1>2, <1>3, <1>4, <1>5, <1>6, <1>7 DEF Next

InRange(c) ==
  /\ \A t \in c.phi : t.vec \in Vectors(L) /\ t.pos \in Positions(L)
  /\ c.a \subseteq Vectors(L) \X Vectors(L)

LEMMA PinsInRange ==
  ASSUME IsLayout(L), NEW vec \in Vectors(L), NEW K \in SUBSET Sigs(L), NEW S \in SUBSET Slots
  PROVE  /\ \A c \in Pins(vec, K, S) : InRange(c)
         /\ \A c \in CoeffPins(vec, K, S) : InRange(c)
<1>1. ASSUME NEW k \in K, NEW s \in S
      PROVE  At(k, s) \in Positions(L)
  BY <1>1, AtIsPosition
<1>2. ASSUME NEW pos \in Positions(L), NEW l
      PROVE  InRange(Pin(vec, pos)) /\ InRange(CoeffPin(vec, pos, l))
  BY <1>2 DEF InRange, Pin, CoeffPin, Full, ConstTerm, Term
<1>. QED  BY <1>1, <1>2 DEF Pins, CoeffPins

LEMMA TieInRange ==
  ASSUME NEW vec \in Vectors(L), NEW prime \in Vectors(L), NEW pos \in Positions(L), NEW l
  PROVE  InRange(Tie(vec, prime, pos, l))
BY DEF InRange, Tie, ConstTerm, Term

LEMMA FalconEqInRange ==
  ASSUME IsLayout(L), NEW j \in Sigs(L), NEW k \in Slots
  PROVE  InRange(FalconEq(j, k))
<1>. DEFINE sig == FalconSig(side, j)
            hs == embed(sig.h)
            y1 == y_idx(L, index(L, j), 1)
            y2 == y_idx(L, index(L, j), 2)
            used == {b \in Slots : HRow(hs, k, b) # ZeroPoly}
            phi == {Term(y1, At(j, k), One), Term(v_idx(L), At(j, k), Scalar("q"))}
                     \union {Term(y2, At(j, b), HRow(hs, k, b)) : b \in used}
<1>1. y1 \in Vectors(L) /\ y2 \in Vectors(L) /\ v_idx(L) \in Vectors(L)
  BY RowOf, ColumnOf, VectorIndices DEF VectorsApart
<1>2. \A b \in Slots : At(j, b) \in Positions(L)
  BY AtIsPosition
<1>3. \A t \in phi : t.vec \in Vectors(L) /\ t.pos \in Positions(L)
  BY <1>1, <1>2 DEF Term
<1>4. FalconEq(j, k).phi = phi /\ FalconEq(j, k).a = {}
  BY DEF FalconEq, Full
<1>. QED  BY <1>3, <1>4 DEF InRange

LEMMA FourSquareInRange ==
  ASSUME IsLayout(L), NEW j \in Sigs(L)
  PROVE  InRange(FourSquare(j))
<1>1. VectorsApart(L, index(L, j), index_prime(L, j))
  BY RowOf, ColumnOf, VectorIndices
<1>2. ASSUME NEW a \in Vectors(L), NEW b \in Vectors(L)
      PROVE  Pair(a, b) \in Vectors(L) \X Vectors(L)
  BY DEF Pair
<1>. QED  BY <1>1, <1>2 DEF VectorsApart, InRange, FourSquare, ConstTerm
LEMMA PushStep ==
  ASSUME TypeOK, L' = L, NEW F, NEW T, Push(F, T), \A c \in F \union T : InRange(c)
  PROVE  /\ full' = [s \in Sides |-> full'[s]] /\ const_term' = [s \in Sides |-> const_term'[s]]
         /\ w' = w
         /\ \A c \in Constraints' : InRange(c)'
<1>1. /\ full = [s \in Sides |-> full[s]] /\ const_term = [s \in Sides |-> const_term[s]]
      /\ \A c \in Constraints : InRange(c)
  BY DEF TypeOK, InRange
<1>2. /\ full' = [full EXCEPT ![side] = @ \union F]
      /\ const_term' = [const_term EXCEPT ![side] = @ \union T] /\ w' = w
  BY DEF Push
<1>3. /\ full' = [s \in Sides |-> full'[s]] /\ const_term' = [s \in Sides |-> const_term'[s]]
      /\ \A s \in Sides : full'[s] \subseteq full[s] \union F /\ const_term'[s] \subseteq const_term[s] \union T
  BY <1>1, <1>2
<1>4. \A c \in Constraints' : c \in Constraints \/ c \in F \union T
  BY <1>3 DEF Constraints
<1>5. \A c : InRange(c)' <=> InRange(c)
  BY DEF InRange, Vectors, Positions, r, n_s
<1>. QED  BY <1>1, <1>2, <1>3, <1>4, <1>5

\* What each pass pushes, F to the full and T to the constant-term constraints.
LEMMA Pushes ==
  ASSUME TypeOK, LoopOK, Next, pc # "witness"
  PROVE  \E F, T : Push(F, T) /\ \A c \in F \union T : InRange(c)
<1>0. IsLayout(L) /\ Roots \in SUBSET Slots /\ Slots \ Roots \in SUBSET Slots
  BY LayoutOK, SlotsAssumption DEF Roots, Slots
<1>r. ASSUME NEW row \in Rows(L)
      PROVE  /\ \A j \in {1, 2} : y_idx(L, row, j) \in Vectors(L)
             /\ e_idx(L, row) \in Vectors(L)
             /\ ActiveInRow(L, row) \in SUBSET Sigs(L)
             /\ Sigs(L) \ ActiveInRow(L, row) \in SUBSET Sigs(L)
  <2>1. 1 \in Columns(L)
    BY LayoutOK
  <2>2. VectorsApart(L, row, 1)
    BY <1>0, <1>r, <2>1, VectorIndices
  <2>. QED  BY <2>2 DEF VectorsApart, ActiveInRow
<1>c. ASSUME NEW col \in Columns(L)
      PROVE  /\ \A j \in {1, 2} : yp_idx(L, col, j) \in Vectors(L)
             /\ ep_idx(L, col) \in Vectors(L)
             /\ ActiveInColumn(L, col) \in SUBSET Sigs(L)
             /\ Sigs(L) \ ActiveInColumn(L, col) \in SUBSET Sigs(L)
  <2>1. 1 \in Rows(L)
    BY LayoutOK
  <2>2. VectorsApart(L, 1, col)
    BY <1>0, <1>c, <2>1, VectorIndices
  <2>. QED  BY <2>2 DEF VectorsApart, ActiveInColumn
<1>2. CASE AddFalconEq
  <2>1. i \in Sigs(L) /\ Push({FalconEq(i, k) : k \in Slots}, {})
    BY <1>2 DEF AddFalconEq, LoopOK
  <2>2. \A c \in {FalconEq(i, k) : k \in Slots} : InRange(c)
    BY <1>0, <2>1, FalconEqInRange
  <2>. QED  BY <2>1, <2>2
<1>3. CASE AddFourSquare
  <2>1. i \in Sigs(L) /\ Push({}, {FourSquare(i)})
    BY <1>3 DEF AddFourSquare, LoopOK
  <2>. QED  BY <1>0, <2>1, FourSquareInRange
<1>4. CASE AddYPadding
  <2>. DEFINE K == Sigs(L) \ ActiveInRow(L, i)
              F == UNION {Pins(y_idx(L, i, j), K, Slots) : j \in {1, 2}}
  <2>1. i \in Rows(L) /\ Push(F, {})
    BY <1>4 DEF AddYPadding, LoopOK
  <2>2. \A j \in {1, 2} : \A c \in Pins(y_idx(L, i, j), K, Slots) : InRange(c)
    BY <1>0, <1>r, <2>1, PinsInRange
  <2>. QED  BY <2>1, <2>2
<1>5. CASE AddYp
  <2>. DEFINE K == Sigs(L) \ ActiveInColumn(L, i)
              F == UNION {Pins(yp_idx(L, i, j), K, Slots) : j \in {1, 2}}
              T == {Tie(y_idx(L, index(L, k), j), yp_idx(L, i, j), At(k, s), l) :
                      k \in ActiveInColumn(L, i), j \in {1, 2}, s \in Slots, l \in Coeffs}
  <2>1. i \in Columns(L) /\ Push(F, T)
    BY <1>5 DEF AddYp, LoopOK
  <2>2. ASSUME NEW j \in {1, 2}
        PROVE  \A c \in Pins(yp_idx(L, i, j), K, Slots) : InRange(c)
    <3>1. yp_idx(L, i, j) \in Vectors(L) /\ K \in SUBSET Sigs(L) /\ Slots \in SUBSET Slots
      BY <1>c, <2>1, <2>2
    <3>. QED  BY <1>0, <3>1, PinsInRange
  <2>3. ASSUME NEW k \in ActiveInColumn(L, i), NEW j \in {1, 2}, NEW s \in Slots, NEW l \in Coeffs
        PROVE  InRange(Tie(y_idx(L, index(L, k), j), yp_idx(L, i, j), At(k, s), l))
    <3>1. k \in Sigs(L)
      BY <2>3 DEF ActiveInColumn
    <3>2. y_idx(L, index(L, k), j) \in Vectors(L)
      BY <1>0, <1>r, <2>3, <3>1, RowOf
    <3>3. yp_idx(L, i, j) \in Vectors(L)
      BY <1>c, <2>1, <2>3
    <3>4. At(k, s) \in Positions(L)
      BY <1>0, <2>3, <3>1, AtIsPosition
    <3>. QED  BY <3>2, <3>3, <3>4, TieInRange
  <2>4. \A c \in T : InRange(c)
    BY <2>3
  <2>. QED  BY <2>1, <2>2, <2>4
<1>6. CASE AddE
  <2>. DEFINE F == Pins(e_idx(L, i), Sigs(L) \ ActiveInRow(L, i), Slots)
                     \union Pins(e_idx(L, i), ActiveInRow(L, i), Slots \ Roots)
              T == CoeffPins(e_idx(L, i), ActiveInRow(L, i), Roots)
  <2>1. i \in Rows(L) /\ Push(F, T)
    BY <1>6 DEF AddE, LoopOK
  <2>2. \A c \in F : InRange(c)
    BY <1>0, <1>r, <2>1, PinsInRange
  <2>3. \A c \in T : InRange(c)
    BY <1>0, <1>r, <2>1, PinsInRange
  <2>. QED  BY <2>1, <2>2, <2>3
<1>7. CASE AddEp
  <2>. DEFINE F == Pins(ep_idx(L, i), Sigs(L) \ ActiveInColumn(L, i), Slots)
                     \union Pins(ep_idx(L, i), ActiveInColumn(L, i), Slots \ Roots)
              T0 == {Tie(e_idx(L, index(L, k)), ep_idx(L, i), At(k, s), 0) :
                       k \in ActiveInColumn(L, i), s \in Roots}
              T == T0 \union CoeffPins(ep_idx(L, i), ActiveInColumn(L, i), Roots)
  <2>1. i \in Columns(L) /\ Push(F, T)
    BY <1>7 DEF AddEp, LoopOK
  <2>i. /\ ep_idx(L, i) \in Vectors(L) /\ ActiveInColumn(L, i) \in SUBSET Sigs(L)
        /\ Sigs(L) \ ActiveInColumn(L, i) \in SUBSET Sigs(L) /\ Slots \in SUBSET Slots
    BY <1>c, <2>1
  <2>2. \A c \in F : InRange(c)
    BY <1>0, <2>i, PinsInRange
  <2>3. \A c \in CoeffPins(ep_idx(L, i), ActiveInColumn(L, i), Roots) : InRange(c)
    BY <1>0, <2>i, PinsInRange
  <2>4. ASSUME NEW k \in ActiveInColumn(L, i), NEW s \in Roots
        PROVE  InRange(Tie(e_idx(L, index(L, k)), ep_idx(L, i), At(k, s), 0))
    <3>1. k \in Sigs(L) /\ s \in Slots
      BY <1>0, <2>4 DEF ActiveInColumn
    <3>2. e_idx(L, index(L, k)) \in Vectors(L)
      BY <1>0, <1>r, <3>1, RowOf
    <3>3. ep_idx(L, i) \in Vectors(L)
      BY <1>c, <2>1
    <3>4. At(k, s) \in Positions(L)
      BY <1>0, <3>1, AtIsPosition
    <3>. QED  BY <3>2, <3>3, <3>4, TieInRange
  <2>5. \A c \in T0 : InRange(c)
    BY <2>4
  <2>6. \A c \in F \union T : InRange(c)
    BY <2>2, <2>3, <2>5
  <2>. HIDE DEF F, T
  <2>. QED  BY <2>1, <2>6
<1>8. ~PlaceSignature
  BY DEF PlaceSignature
<1>. QED  BY <1>2, <1>3, <1>4, <1>5, <1>6, <1>7, <1>8 DEF Next
LEMMA TypeInit ==
  ASSUME Init
  PROVE  TypeOK /\ LoopOK
<1>1. PICK n \in Sizes : L \in LayoutsOf(n)
  BY DEF Init
<1>2. L.n_sigs = n /\ n \in Nat \ {0}
  BY <1>1, SizesAssumption DEF LayoutsOf
<1>3. Constraints = {}
  BY DEF Init, Constraints
<1>4. LoopOK
  BY <1>2 DEF Init, LoopOK, Sigs
<1>. QED  BY <1>1, <1>3, <1>4 DEF Init, TypeOK, Sides

LEMMA TypeStep ==
  ASSUME TypeOK, LoopOK, [Next]_vars
  PROVE  TypeOK' /\ LoopOK'
<1>1. CASE Next
  <2>1. /\ L' = L /\ side' \in Sides /\ i' \in Nat \ {0} /\ LoopOK'
        /\ pc' \in {"witness", "falcon", "squares", "y", "yp", "e", "ep", "done"}
    BY <1>1, ControlStep
  <2>2. CASE pc = "witness"
    <3>1. /\ full' = full /\ const_term' = const_term
          /\ DOMAIN w' = Vectors(L) /\ \A vec \in Vectors(L) : DOMAIN w'[vec] = Positions(L)
      <4>1. PlaceSignature
        BY <1>1, <2>2 DEF Next, AddFalconEq, AddFourSquare, AddYPadding, AddYp, AddE, AddEp
      <4>. QED  BY <4>1 DEF PlaceSignature
    <3>2. Vectors(L)' = Vectors(L) /\ Positions(L)' = Positions(L)
      BY <2>1 DEF Vectors, Positions, r, n_s
    <3>3. Constraints' = Constraints
      BY <3>1 DEF Constraints
    <3>. QED  BY <2>1, <3>1, <3>2, <3>3 DEF TypeOK
  <2>3. CASE pc # "witness"
    <3>1. PICK F, T : Push(F, T) /\ \A c \in F \union T : InRange(c)
      BY <1>1, <2>3, Pushes
    <3>2. /\ full' = [s \in Sides |-> full'[s]] /\ const_term' = [s \in Sides |-> const_term'[s]]
          /\ w' = w /\ \A c \in Constraints' : InRange(c)'
      BY <2>1, <3>1, PushStep
    <3>3. Vectors(L)' = Vectors(L) /\ Positions(L)' = Positions(L)
      BY <2>1 DEF Vectors, Positions, r, n_s
    <3>4. \A c \in Constraints' : /\ \A t \in c.phi : t.vec \in Vectors(L) /\ t.pos \in Positions(L)
                                  /\ c.a \subseteq Vectors(L) \X Vectors(L)
      BY <3>2, <3>3 DEF InRange
    <3>. QED  BY <2>1, <3>2, <3>3, <3>4 DEF TypeOK
  <2>. QED  BY <2>1, <2>2, <2>3
<1>2. CASE UNCHANGED vars
  BY <1>2 DEF vars, TypeOK, LoopOK, Constraints, Vectors, Positions, r, n_s, Sigs, Rows, Columns
<1>. QED  BY <1>1, <1>2

\* Type correctness, for every slot count, degree and number of signatures: no
\* constraint of either side is about a position that does not exist.
THEOREM TermsInRange == Spec => []TypeOK
<1>1. Init => TypeOK /\ LoopOK
  BY TypeInit
<1>2. TypeOK /\ LoopOK /\ [Next]_vars => (TypeOK /\ LoopOK)'
  BY TypeStep
<1>. QED  BY <1>1, <1>2, PTL DEF Spec
-----------------------------------------------------------------------------
(* The pins.                                                               *)

After(loop) ==
  IF loop = "y" THEN {"yp", "e", "ep"}
  ELSE IF loop = "yp" THEN {"e", "ep"} ELSE IF loop = "e" THEN {"ep"} ELSE {}

\* Pass k of a loop over the form constraints of side s is over.
Passed(s, loop, k) ==
  \/ s = "prover" /\ side = "verifier"
  \/ pc = "done"
  \/ s = side /\ (pc \in After(loop) \/ (pc = loop /\ k < i))

YPinned ==
  \A s \in Sides : \A row \in Rows(L) : Passed(s, "y", row) =>
    \A j \in {1, 2} : Pins(y_idx(L, row, j), Sigs(L) \ ActiveInRow(L, row), Slots) \subseteq full[s]
YpPinned ==
  \A s \in Sides : \A col \in Columns(L) : Passed(s, "yp", col) =>
    \A j \in {1, 2} : Pins(yp_idx(L, col, j), Sigs(L) \ ActiveInColumn(L, col), Slots) \subseteq full[s]
EPinned ==
  \A s \in Sides : \A row \in Rows(L) : Passed(s, "e", row) =>
    /\ Pins(e_idx(L, row), Sigs(L) \ ActiveInRow(L, row), Slots) \subseteq full[s]
    /\ Pins(e_idx(L, row), ActiveInRow(L, row), Slots \ Roots) \subseteq full[s]
EpPinned ==
  \A s \in Sides : \A col \in Columns(L) : Passed(s, "ep", col) =>
    Pins(ep_idx(L, col), Sigs(L) \ ActiveInColumn(L, col), Slots) \subseteq full[s]

Pinned == YPinned /\ YpPinned /\ EPinned /\ EpPinned

PinInv == TypeOK /\ LoopOK /\ Pinned

\* Nothing is ever removed, and what a pass of the current loop pushes is in.
LEMMA FullGrows ==
  ASSUME TypeOK, Next
  PROVE  /\ \A s \in Sides : full[s] \subseteq full'[s]
         /\ \A F, T : Push(F, T) => F \subseteq full'[side]
<1>1. full = [s \in Sides |-> full[s]] /\ side \in Sides
  BY DEF TypeOK
<1>2. ASSUME NEW F, NEW T, Push(F, T)
      PROVE  F \subseteq full'[side] /\ \A s \in Sides : full[s] \subseteq full'[s]
  BY <1>1, <1>2 DEF Push
<1>3. CASE PlaceSignature
  BY <1>2, <1>3 DEF PlaceSignature
<1>. QED
  BY <1>2, <1>3 DEF Next, AddFalconEq, AddFourSquare, AddYPadding, AddYp, AddE, AddEp

\* A pass is over when it was over before, or when it is the one just made.
LEMMA PassedStep ==
  ASSUME TypeOK, LoopOK, Next, NEW s \in Sides, NEW loop \in {"y", "yp", "e", "ep"}, NEW k \in Nat,
         (loop \in {"y", "e"} /\ k \in Rows(L)) \/ (loop \in {"yp", "ep"} /\ k \in Columns(L)),
         Passed(s, loop, k)'
  PROVE  \/ Passed(s, loop, k)
         \/ s = side /\ pc = loop /\ k = i
<1>. USE LayoutOK DEF LoopOK, Sigs, Rows, Columns, After, Passed
<1>0. side \in Sides /\ i \in Nat
  BY DEF TypeOK
<1>1. CASE PlaceSignature
  <2>1. pc = "witness" /\ Advance(L.n_sigs, "falcon") /\ side = "prover"
    BY <1>1 DEF PlaceSignature
  <2>. QED  BY <2>1, <1>0, AdvanceIs
<1>2. CASE AddFalconEq
  <2>1. pc = "falcon" /\ Advance(L.n_sigs, "squares")
    BY <1>2 DEF AddFalconEq
  <2>. QED  BY <2>1, <1>0, AdvanceIs
<1>3. CASE AddFourSquare
  <2>1. pc = "squares" /\ Advance(L.n_sigs, "y")
    BY <1>3 DEF AddFourSquare
  <2>. QED  BY <2>1, <1>0, AdvanceIs
<1>4. CASE AddYPadding
  <2>1. pc = "y" /\ Advance(L.num_y, "yp")
    BY <1>4 DEF AddYPadding
  <2>. QED  BY <2>1, <1>0, AdvanceIs
<1>5. CASE AddYp
  <2>1. pc = "yp" /\ Advance(L.num_yp, "e")
    BY <1>5 DEF AddYp
  <2>. QED  BY <2>1, <1>0, AdvanceIs
<1>6. CASE AddE
  <2>1. pc = "e" /\ Advance(L.num_y, "ep")
    BY <1>6 DEF AddE
  <2>. QED  BY <2>1, <1>0, AdvanceIs
<1>7. CASE AddEp
  <2>1. pc = "ep" /\ LastLoop
    BY <1>7 DEF AddEp
  <2>. QED  BY <2>1, <1>0, LastLoopIs DEF Sides
<1>. QED  BY <1>1, <1>2, <1>3, <1>4, <1>5, <1>6, <1>7 DEF Next
\* Which action a loop's name stands for.
LEMMA ActionOf ==
  ASSUME Next
  PROVE  /\ pc = "y" => AddYPadding
         /\ pc = "yp" => AddYp
         /\ pc = "e" => AddE
         /\ pc = "ep" => AddEp
BY DEF Next, PlaceSignature, AddFalconEq, AddFourSquare, AddYPadding, AddYp, AddE, AddEp

LEMMA PinStep ==
  ASSUME PinInv, Next
  PROVE  Pinned'
<1>0. TypeOK /\ LoopOK /\ Pinned /\ L' = L /\ i \in Nat
  BY ControlStep DEF PinInv, TypeOK
<1>1. Rows(L)' = Rows(L) /\ Columns(L)' = Columns(L) /\ Rows(L) \subseteq Nat /\ Columns(L) \subseteq Nat
  BY <1>0, LayoutOK DEF Rows, Columns
<1>2. YPinned'
  <2>1. ASSUME NEW s \in Sides, NEW row \in Rows(L), Passed(s, "y", row)', NEW j \in {1, 2}
        PROVE  Pins(y_idx(L, row, j), Sigs(L) \ ActiveInRow(L, row), Slots) \subseteq full'[s]
    <3>1. Passed(s, "y", row) \/ (s = side /\ pc = "y" /\ row = i)
      BY <1>0, <1>1, <2>1, PassedStep
    <3>2. CASE Passed(s, "y", row)
      BY <1>0, <2>1, <3>2, FullGrows DEF Pinned, YPinned
    <3>3. CASE s = side /\ pc = "y" /\ row = i
      <4>. DEFINE F == UNION {Pins(y_idx(L, i, n), Sigs(L) \ ActiveInRow(L, i), Slots) : n \in {1, 2}}
      <4>1. Push(F, {})
        BY <3>3, ActionOf DEF AddYPadding
      <4>2. Pins(y_idx(L, row, j), Sigs(L) \ ActiveInRow(L, row), Slots) \subseteq F
        BY <2>1, <3>3
      <4>. HIDE DEF F
      <4>3. F \subseteq full'[side]
        BY <1>0, <4>1, FullGrows
      <4>. QED  BY <3>3, <4>2, <4>3
    <3>. QED  BY <3>1, <3>2, <3>3
  <2>. QED  BY <1>0, <1>1, <2>1 DEF YPinned
<1>3. YpPinned'
  <2>1. ASSUME NEW s \in Sides, NEW col \in Columns(L), Passed(s, "yp", col)', NEW j \in {1, 2}
        PROVE  Pins(yp_idx(L, col, j), Sigs(L) \ ActiveInColumn(L, col), Slots) \subseteq full'[s]
    <3>1. Passed(s, "yp", col) \/ (s = side /\ pc = "yp" /\ col = i)
      BY <1>0, <1>1, <2>1, PassedStep
    <3>2. CASE Passed(s, "yp", col)
      BY <1>0, <2>1, <3>2, FullGrows DEF Pinned, YpPinned
    <3>3. CASE s = side /\ pc = "yp" /\ col = i
      <4>. DEFINE F == UNION {Pins(yp_idx(L, i, n), Sigs(L) \ ActiveInColumn(L, i), Slots) : n \in {1, 2}}
                  T == {Tie(y_idx(L, index(L, k), n), yp_idx(L, i, n), At(k, u), l) :
                          k \in ActiveInColumn(L, i), n \in {1, 2}, u \in Slots, l \in Coeffs}
      <4>1. Push(F, T)
        BY <3>3, ActionOf DEF AddYp
      <4>2. Pins(yp_idx(L, col, j), Sigs(L) \ ActiveInColumn(L, col), Slots) \subseteq F
        BY <2>1, <3>3
      <4>. HIDE DEF F, T
      <4>3. F \subseteq full'[side]
        BY <1>0, <4>1, FullGrows
      <4>. QED  BY <3>3, <4>2, <4>3
    <3>. QED  BY <3>1, <3>2, <3>3
  <2>. QED  BY <1>0, <1>1, <2>1 DEF YpPinned
<1>4. EPinned'
  <2>. DEFINE P(row) == Pins(e_idx(L, row), Sigs(L) \ ActiveInRow(L, row), Slots)
              A(row) == Pins(e_idx(L, row), ActiveInRow(L, row), Slots \ Roots)
  <2>1. ASSUME NEW s \in Sides, NEW row \in Rows(L), Passed(s, "e", row)'
        PROVE  P(row) \subseteq full'[s] /\ A(row) \subseteq full'[s]
    <3>1. Passed(s, "e", row) \/ (s = side /\ pc = "e" /\ row = i)
      BY <1>0, <1>1, <2>1, PassedStep
    <3>2. CASE Passed(s, "e", row)
      <4>1. P(row) \subseteq full[s] /\ A(row) \subseteq full[s]
        BY <1>0, <2>1, <3>2 DEF Pinned, EPinned
      <4>2. full[s] \subseteq full'[s]
        BY <1>0, <2>1, FullGrows
      <4>. HIDE DEF P, A
      <4>. QED  BY <4>1, <4>2
    <3>3. CASE s = side /\ pc = "e" /\ row = i
      <4>. DEFINE T == CoeffPins(e_idx(L, i), ActiveInRow(L, i), Roots)
      <4>1. Push(P(i) \union A(i), T)
        BY <3>3, ActionOf DEF AddE
      <4>. HIDE DEF P, A, T
      <4>2. P(i) \union A(i) \subseteq full'[side]
        BY <1>0, <4>1, FullGrows
      <4>. QED  BY <3>3, <4>2
    <3>. QED  BY <3>1, <3>2, <3>3
  <2>. QED  BY <1>0, <1>1, <2>1 DEF EPinned
<1>5. EpPinned'
  <2>. DEFINE P(col) == Pins(ep_idx(L, col), Sigs(L) \ ActiveInColumn(L, col), Slots)
  <2>1. ASSUME NEW s \in Sides, NEW col \in Columns(L), Passed(s, "ep", col)'
        PROVE  P(col) \subseteq full'[s]
    <3>1. Passed(s, "ep", col) \/ (s = side /\ pc = "ep" /\ col = i)
      BY <1>0, <1>1, <2>1, PassedStep
    <3>2. CASE Passed(s, "ep", col)
      BY <1>0, <2>1, <3>2, FullGrows DEF Pinned, EpPinned
    <3>3. CASE s = side /\ pc = "ep" /\ col = i
      <4>. DEFINE A == Pins(ep_idx(L, i), ActiveInColumn(L, i), Slots \ Roots)
                  T == {Tie(e_idx(L, index(L, k)), ep_idx(L, i), At(k, u), 0) :
                          k \in ActiveInColumn(L, i), u \in Roots}
                         \union CoeffPins(ep_idx(L, i), ActiveInColumn(L, i), Roots)
      <4>1. Push(P(i) \union A, T)
        BY <3>3, ActionOf DEF AddEp
      <4>. HIDE DEF P, A, T
      <4>2. P(i) \union A \subseteq full'[side]
        BY <1>0, <4>1, FullGrows
      <4>. QED  BY <3>3, <4>2
    <3>. QED  BY <3>1, <3>2, <3>3
  <2>. QED  BY <1>0, <1>1, <2>1 DEF EpPinned
<1>. QED  BY <1>2, <1>3, <1>4, <1>5 DEF Pinned
LEMMA PinInit ==
  ASSUME Init
  PROVE  PinInv
<1>1. TypeOK /\ LoopOK
  BY TypeInit
<1>2. \A s \in Sides : \A k : /\ ~Passed(s, "y", k) /\ ~Passed(s, "yp", k)
                             /\ ~Passed(s, "e", k) /\ ~Passed(s, "ep", k)
  BY DEF Init, Passed, After
<1>. QED  BY <1>1, <1>2 DEF PinInv, Pinned, YPinned, YpPinned, EPinned, EpPinned

LEMMA PinInvStep ==
  ASSUME PinInv, [Next]_vars
  PROVE  PinInv'
<1>1. TypeOK' /\ LoopOK'
  BY TypeStep DEF PinInv
<1>2. CASE Next
  BY <1>1, <1>2, PinStep DEF PinInv
<1>3. CASE UNCHANGED vars
  <2>1. L' = L /\ side' = side /\ pc' = pc /\ i' = i /\ full' = full
    BY <1>3 DEF vars
  <2>2. \A s, loop, k : Passed(s, loop, k)' <=> Passed(s, loop, k)
    BY <2>1 DEF Passed
  <2>3. Rows(L)' = Rows(L) /\ Columns(L)' = Columns(L)
    BY <2>1
  <2>. QED  BY <1>1, <2>1, <2>2, <2>3 DEF PinInv, Pinned, YPinned, YpPinned, EPinned, EpPinned
<1>. QED  BY <1>2, <1>3

\* Where no pin keeps a position of a row's vector at zero, the position's
\* signature is of that row; likewise for columns.
LEMMA FreeInRow ==
  ASSUME IsLayout(L), NEW s \in Sides, NEW row \in Rows(L), NEW vec, NEW p \in Positions(L),
         Pins(vec, Sigs(L) \ ActiveInRow(L, row), Slots) \subseteq full[s], Pin(vec, p) \notin full[s]
  PROVE  Owner(p) \in ActiveInRow(L, row) /\ index(L, Owner(p)) = row
<1>1. Owner(p) \in Sigs(L) /\ p % C \in Slots /\ p = At(Owner(p), p % C)
  BY OwnerOf
<1>2. Owner(p) \in ActiveInRow(L, row)
  BY <1>1 DEF Pins
<1>3. row \in Nat \ {0}
  <2>1. L.num_y \in Int
    <3>1. L.n_sigs + L.rho - 1 \in Nat /\ L.rho \in Nat /\ L.rho > 0
          /\ L.num_y = (L.n_sigs + L.rho - 1) \div L.rho
      BY DEF IsLayout
    <3>. QED  BY <3>1, Division
  <2>. QED  BY <2>1 DEF Rows
<1>. QED  BY <1>2, <1>3, RowIsActive

LEMMA FreeInColumn ==
  ASSUME IsLayout(L), NEW s \in Sides, NEW col \in Columns(L), NEW vec, NEW p \in Positions(L),
         Pins(vec, Sigs(L) \ ActiveInColumn(L, col), Slots) \subseteq full[s], Pin(vec, p) \notin full[s]
  PROVE  index_prime(L, Owner(p)) = col
<1>1. Owner(p) \in Sigs(L) /\ p % C \in Slots /\ p = At(Owner(p), p % C)
  BY OwnerOf
<1>2. Owner(p) \in ActiveInColumn(L, col)
  BY <1>1 DEF Pins
<1>. QED  BY <1>2 DEF ActiveInColumn

LEMMA PinsConfine ==
  ASSUME PinInv
  PROVE  OwnNormOnly
<1>1. SUFFICES ASSUME Done, NEW s \in Sides, NEW j \in Sigs(L)
               PROVE  LET free(vec) == {p \in Positions(L) : Pin(vec, p) \notin full[s]}
                          row == index(L, j)
                          col == index_prime(L, j)
                      IN /\ \A n \in {1, 2} : free(y_idx(L, row, n)) \intersect free(yp_idx(L, col, n)) \subseteq Window(j)
                         /\ free(e_idx(L, row)) \intersect free(ep_idx(L, col)) \subseteq {At(j, k) : k \in Roots}
  BY DEF OwnNormOnly
<1>. DEFINE free(vec) == {p \in Positions(L) : Pin(vec, p) \notin full[s]}
            row == index(L, j)
            col == index_prime(L, j)
<1>2. IsLayout(L) /\ row \in Rows(L) /\ col \in Columns(L)
  BY LayoutOK, RowOf, ColumnOf DEF PinInv
<1>3. \A loop, k : Passed(s, loop, k)
  BY <1>1 DEF Done, Passed
<1>4. /\ \A n \in {1, 2} : /\ Pins(y_idx(L, row, n), Sigs(L) \ ActiveInRow(L, row), Slots) \subseteq full[s]
                          /\ Pins(yp_idx(L, col, n), Sigs(L) \ ActiveInColumn(L, col), Slots) \subseteq full[s]
      /\ Pins(e_idx(L, row), Sigs(L) \ ActiveInRow(L, row), Slots) \subseteq full[s]
      /\ Pins(e_idx(L, row), ActiveInRow(L, row), Slots \ Roots) \subseteq full[s]
      /\ Pins(ep_idx(L, col), Sigs(L) \ ActiveInColumn(L, col), Slots) \subseteq full[s]
  BY <1>2, <1>3 DEF PinInv, Pinned, YPinned, YpPinned, EPinned, EpPinned
<1>5. ASSUME NEW a, NEW b, NEW p \in free(a) \intersect free(b),
             Pins(a, Sigs(L) \ ActiveInRow(L, row), Slots) \subseteq full[s],
             Pins(b, Sigs(L) \ ActiveInColumn(L, col), Slots) \subseteq full[s]
      PROVE  p % C \in Slots /\ p = At(j, p % C) /\ j \in ActiveInRow(L, row)
  <2>1. p \in Positions(L) /\ Pin(a, p) \notin full[s] /\ Pin(b, p) \notin full[s]
    BY <1>5
  <2>2. Owner(p) \in Sigs(L) /\ p % C \in Slots /\ p = At(Owner(p), p % C)
    BY <1>2, <2>1, OwnerOf
  <2>3. Owner(p) \in ActiveInRow(L, row) /\ index(L, Owner(p)) = row
    BY <1>2, <1>5, <2>1, FreeInRow
  <2>4. index_prime(L, Owner(p)) = col
    BY <1>2, <1>5, <2>1, FreeInColumn
  <2>5. Owner(p) = j
    BY <1>2, <2>2, <2>3, <2>4, GridInjective
  <2>. QED  BY <2>2, <2>3, <2>5
<1>6. ASSUME NEW n \in {1, 2}
      PROVE  free(y_idx(L, row, n)) \intersect free(yp_idx(L, col, n)) \subseteq Window(j)
  BY <1>4, <1>5, <1>6 DEF Window
<1>7. free(e_idx(L, row)) \intersect free(ep_idx(L, col)) \subseteq {At(j, k) : k \in Roots}
  <2>1. SUFFICES ASSUME NEW p \in free(e_idx(L, row)) \intersect free(ep_idx(L, col))
                 PROVE  p \in {At(j, k) : k \in Roots}
    OBVIOUS
  <2>2. p % C \in Slots /\ p = At(j, p % C) /\ j \in ActiveInRow(L, row)
    BY <1>4, <1>5, <2>1
  <2>3. Pin(e_idx(L, row), p) \notin full[s]
    BY <2>1
  <2>4. p % C \in Roots
    BY <1>4, <2>2, <2>3 DEF Pins
  <2>. QED  BY <2>2, <2>4
<1>. QED  BY <1>6, <1>7

\* Whatever the number of signatures: in every four-square constraint the pins
\* leave one signature's window, so that no other one can add to its norm.
THEOREM OwnNormOnlyHolds == Spec => []OwnNormOnly
<1>1. Init => PinInv
  BY PinInit
<1>2. PinInv /\ [Next]_vars => PinInv'
  BY PinInvStep
<1>3. PinInv => OwnNormOnly
  BY PinsConfine
<1>. QED  BY <1>1, <1>2, <1>3, PTL DEF Spec

-----------------------------------------------------------------------------
(* The witness.                                                            *)

PlaceInv == TypeOK /\ LoopOK /\ EachInItsPlace

\* The seven pieces go to seven vectors.
LEMMA PlacesApart ==
  ASSUME IsLayout(L), NEW k \in Sigs(L), NEW t \in 1..7
  PROVE  /\ Placements(k)[t].vec \in Vectors(L)
         /\ LastOn(k, Placements(k)[t].vec) = t
<1>1. VectorsApart(L, index(L, k), index_prime(L, k))
  BY RowOf, ColumnOf, VectorIndices
<1>2. Vectors(L) \subseteq Int
  BY DEF Vectors
<1>. DEFINE V(x) == Placements(k)[x].vec
<1>3. /\ V(1) = y_idx(L, index(L, k), 1) /\ V(2) = y_idx(L, index(L, k), 2)
      /\ V(3) = yp_idx(L, index_prime(L, k), 1) /\ V(4) = yp_idx(L, index_prime(L, k), 2)
      /\ V(5) = e_idx(L, index(L, k)) /\ V(6) = ep_idx(L, index_prime(L, k)) /\ V(7) = v_idx(L)
  BY DEF Placements
<1>4. /\ V(1) \in Vectors(L) /\ V(2) \in Vectors(L) /\ V(3) \in Vectors(L) /\ V(4) \in Vectors(L)
      /\ V(5) \in Vectors(L) /\ V(6) \in Vectors(L) /\ V(7) \in Vectors(L)
      /\ V(1) < V(2) /\ V(2) < V(3) /\ V(3) < V(4) /\ V(4) < V(5) /\ V(5) < V(6) /\ V(6) < V(7)
  BY <1>1, <1>3 DEF VectorsApart
<1>5. LastOn(k, V(t)) = CHOOSE x \in {u \in 1..7 : V(u) = V(t)} : \A u \in {x2 \in 1..7 : V(x2) = V(t)} : u <= x
  BY DEF LastOn
<1>. HIDE DEF V
<1>6. \A x \in 1..7 : V(x) \in Vectors(L)
  BY <1>4
<1>7. \A x \in 1..7 : V(x) = V(t) => x = t
  BY <1>2, <1>4
<1>8. {u \in 1..7 : V(u) = V(t)} = {t}
  BY <1>7
<1>9. LastOn(k, V(t)) = t
  BY <1>5, <1>8
<1>. QED  BY <1>6, <1>9 DEF V
LEMMA PlaceStep ==
  ASSUME PlaceInv, Next
  PROVE  EachInItsPlace'
<1>0. TypeOK /\ LoopOK /\ EachInItsPlace /\ IsLayout(L) /\ L' = L /\ i \in Nat
  BY ControlStep, LayoutOK DEF PlaceInv, TypeOK
<1>1. Sigs(L)' = Sigs(L) /\ Sigs(L) \subseteq Nat /\ \A k : Placements(k)' = Placements(k)
  BY <1>0 DEF Sigs, Placements
<1>2. CASE PlaceSignature
  <2>1. ASSUME NEW k \in Sigs(L), pc' # "witness" \/ k < i', NEW t \in 1..7, NEW s \in Slots
        PROVE  w'[Placements(k)[t].vec][At(k, s)] = Placements(k)[t].slots[s]
    <3>. DEFINE vec == Placements(k)[t].vec
    <3>1. vec \in Vectors(L) /\ LastOn(k, vec) = t /\ At(k, s) \in Positions(L)
      BY <1>0, <2>1, PlacesApart, AtIsPosition
    <3>2. w'[vec][At(k, s)] =
            IF (\E x \in 1..7 : Placements(i)[x].vec = vec) /\ At(k, s) \in Window(i)
            THEN Placements(i)[LastOn(i, vec)].slots[At(k, s) - C * (i - 1)]
            ELSE w[vec][At(k, s)]
      BY <1>2, <3>1 DEF PlaceSignature
    <3>3. pc = "witness" /\ i \in Sigs(L) /\ Advance(L.n_sigs, "falcon") /\ L.n_sigs \in Nat
      BY <1>0, <1>2, LayoutOK DEF PlaceSignature, LoopOK
    <3>4. k <= i
      BY <1>0, <2>1, <3>3, AdvanceIs DEF Sigs
    <3>5. CASE k = i
      <4>1. At(k, s) \in Window(i) /\ C * (i - 1) \in Int /\ s \in Int
        <5>1. C \in Int /\ i - 1 \in Int /\ s \in Int
          BY <1>0, SlotsAssumption DEF Slots
        <5>. QED  BY <2>1, <3>5, <5>1, SMT DEF Window
      <4>2. At(k, s) - C * (i - 1) = s
        BY <3>5, <4>1 DEF At
      <4>. HIDE DEF vec
      <4>3. w'[vec][At(k, s)] = Placements(i)[LastOn(i, vec)].slots[s]
        <5>1. \E x \in 1..7 : Placements(i)[x].vec = vec
          BY <2>1, <3>5 DEF vec
        <5>. QED  BY <3>2, <4>1, <4>2, <5>1
      <4>. QED  BY <3>1, <3>5, <4>3 DEF vec
    <3>6. CASE k # i
      <4>1. k < i
        BY <1>0, <1>1, <2>1, <3>4, <3>6
      <4>2. w[vec][At(k, s)] = Placements(k)[t].slots[s]
        BY <1>0, <2>1, <4>1 DEF EachInItsPlace
      <4>3. At(k, s) \notin Window(i)
        BY <1>0, <1>1, <2>1, <3>6, WindowsApart DEF Window
      <4>. HIDE DEF vec
      <4>. QED  BY <3>2, <4>2, <4>3 DEF vec
    <3>. QED  BY <3>5, <3>6
  <2>. QED  BY <1>1, <2>1 DEF EachInItsPlace
<1>3. CASE ~PlaceSignature
  <2>1. pc # "witness" /\ w' = w
    BY <1>3 DEF Next, AddFalconEq, AddFourSquare, AddYPadding, AddYp, AddE, AddEp, Push
  <2>. QED  BY <1>0, <1>1, <2>1 DEF EachInItsPlace
<1>. QED  BY <1>2, <1>3

LEMMA PlaceInvariant == Spec => []PlaceInv
<1>1. Init => PlaceInv
  <2>1. ASSUME Init PROVE EachInItsPlace
    <3>1. pc = "witness" /\ i = 1 /\ Sigs(L) \subseteq Nat \ {0}
      BY <2>1, TypeInit, LayoutOK DEF Init, Sigs
    <3>. QED  BY <3>1 DEF EachInItsPlace
  <2>. QED  BY <2>1, TypeInit DEF PlaceInv
<1>2. PlaceInv /\ [Next]_vars => PlaceInv'
  <2>1. ASSUME PlaceInv, UNCHANGED vars PROVE EachInItsPlace'
    <3>1. EachInItsPlace /\ UNCHANGED <<pc, i, w, L>>
      BY <2>1 DEF PlaceInv, vars
    <3>. QED  BY <3>1, ZenonT(60) DEF EachInItsPlace, Placements, Sigs
  <2>2. ASSUME PlaceInv, [Next]_vars PROVE TypeOK' /\ LoopOK'
    BY <2>2, TypeStep DEF PlaceInv
  <2>. QED  BY <2>1, <2>2, PlaceStep DEF PlaceInv
<1>. QED  BY <1>1, <1>2, PTL DEF Spec

\* Whatever the number of signatures, none of the pieces that place_slots wrote
\* is written over.
THEOREM EachInItsPlaceHolds == Spec => []EachInItsPlace
<1>1. PlaceInv => EachInItsPlace
  BY DEF PlaceInv
<1>. QED  BY <1>1, PlaceInvariant, PTL

-----------------------------------------------------------------------------
(* What has been pushed.                                                   *)

Loops == {"falcon", "squares", "y", "yp", "e", "ep"}

PassesOf(y, loop) ==
  IF loop \in {"falcon", "squares"} THEN Sigs(y)
  ELSE IF loop \in {"y", "e"} THEN Rows(y) ELSE Columns(y)

Later(loop) ==
  IF loop = "falcon" THEN {"squares", "y", "yp", "e", "ep"}
  ELSE IF loop = "squares" THEN {"y", "yp", "e", "ep"} ELSE After(loop)

\* Pass k of the loop over side s is over.
Over(s, loop, k) ==
  \/ s = "prover" /\ side = "verifier"
  \/ pc = "done"
  \/ s = side /\ (pc \in Later(loop) \/ (pc = loop /\ k < i))

\* The verification equation in slot k, from public data.
PublicH(j) == [n \in RCoeffs |-> IF n \in NullH THEN NoSym ELSE Sym("h", j, n)]
UsedSlots(j, k) == {b \in Slots : HRow(embed(PublicH(j)), k, b) # ZeroPoly}
EqTerms(y, j, k) ==
  {Term(y_idx(y, index(y, j), 1), At(j, k), One),
   Term(v_idx(y), At(j, k), Scalar("q"))}
    \union {Term(y_idx(y, index(y, j), 2), At(j, b), HRow(embed(PublicH(j)), k, b)) :
              b \in UsedSlots(j, k)}
PublicEq(y, j, k) == Full(EqTerms(y, j, k), embed(Element("c", j))[k])

\* What pass k of a loop pushes, to the full and to the constant-term ones.
Fulls(y, loop, k) ==
  IF loop = "falcon" THEN {PublicEq(y, k, n) : n \in Slots}
  ELSE IF loop = "y"
  THEN UNION {Pins(y_idx(y, k, n), Sigs(y) \ ActiveInRow(y, k), Slots) : n \in {1, 2}}
  ELSE IF loop = "yp"
  THEN UNION {Pins(yp_idx(y, k, n), Sigs(y) \ ActiveInColumn(y, k), Slots) : n \in {1, 2}}
  ELSE IF loop = "e"
  THEN Pins(e_idx(y, k), Sigs(y) \ ActiveInRow(y, k), Slots)
         \union Pins(e_idx(y, k), ActiveInRow(y, k), Slots \ Roots)
  ELSE IF loop = "ep"
  THEN Pins(ep_idx(y, k), Sigs(y) \ ActiveInColumn(y, k), Slots)
         \union Pins(ep_idx(y, k), ActiveInColumn(y, k), Slots \ Roots)
  ELSE {}

\* The four-square constraint of signature j.
NormOf(y, j) ==
  ConstTerm({Pair(y_idx(y, index(y, j), 1), yp_idx(y, index_prime(y, j), 1)),
             Pair(y_idx(y, index(y, j), 2), yp_idx(y, index_prime(y, j), 2)),
             Pair(e_idx(y, index(y, j)), ep_idx(y, index_prime(y, j)))}, {}, Sym("beta_sq", 0, 0))

YTies(y, col) ==
  {Tie(y_idx(y, index(y, k), n), yp_idx(y, col, n), At(k, u), l) :
     k \in ActiveInColumn(y, col), n \in {1, 2}, u \in Slots, l \in Coeffs}
ETies(y, col) ==
  {Tie(e_idx(y, index(y, k)), ep_idx(y, col), At(k, u), 0) :
     k \in ActiveInColumn(y, col), u \in Roots}

ConstTerms(y, loop, k) ==
  IF loop = "squares" THEN {NormOf(y, k)}
  ELSE IF loop = "yp" THEN YTies(y, k)
  ELSE IF loop = "e" THEN CoeffPins(e_idx(y, k), ActiveInRow(y, k), Roots)
  ELSE IF loop = "ep"
  THEN ETies(y, k) \union CoeffPins(ep_idx(y, k), ActiveInColumn(y, k), Roots)
  ELSE {}

\* The statement of either side is what its passes have pushed, no more.
Built ==
  \A s \in Sides :
    /\ full[s] = UNION {UNION {Fulls(L, loop, k) : k \in {x \in PassesOf(L, loop) : Over(s, loop, x)}} :
                          loop \in Loops}
    /\ const_term[s] =
         UNION {UNION {ConstTerms(L, loop, k) : k \in {x \in PassesOf(L, loop) : Over(s, loop, x)}} :
                  loop \in Loops}

BuiltInv == TypeOK /\ LoopOK /\ Built

\* The verification equation is built from h and c only.
LEMMA PublicOnly ==
  ASSUME NEW j, NEW k
  PROVE  FalconEq(j, k) = PublicEq(L, j, k)
<1>1. FalconSig(side, j).h = PublicH(j) /\ FalconSig(side, j).c = Element("c", j)
  BY DEF FalconSig, PublicH
<1>. QED  BY <1>1, Zenon DEF FalconEq, PublicEq, EqTerms, UsedSlots

LEMMA PassPushes ==
  ASSUME TypeOK, LoopOK, Next, pc # "witness"
  PROVE  /\ pc \in Loops /\ i \in PassesOf(L, pc)
         /\ Push(Fulls(L, pc, i), ConstTerms(L, pc, i))
<1>2. CASE AddFalconEq
  <2>1. pc = "falcon" /\ i \in Sigs(L) /\ Push({FalconEq(i, k) : k \in Slots}, {})
    BY <1>2 DEF AddFalconEq, LoopOK
  <2>2. {FalconEq(i, k) : k \in Slots} = Fulls(L, "falcon", i)
    BY PublicOnly DEF Fulls
  <2>. QED  BY <2>1, <2>2 DEF Loops, PassesOf, ConstTerms
<1>3. CASE AddFourSquare
  BY <1>3 DEF AddFourSquare, FourSquare, NormOf, LoopOK, Loops, PassesOf, Fulls, ConstTerms
<1>4. CASE AddYPadding
  BY <1>4 DEF AddYPadding, LoopOK, Loops, PassesOf, Fulls, ConstTerms
<1>5. CASE AddYp
  BY <1>5 DEF AddYp, LoopOK, Loops, PassesOf, Fulls, ConstTerms, YTies
<1>6. CASE AddE
  BY <1>6 DEF AddE, LoopOK, Loops, PassesOf, Fulls, ConstTerms
<1>7. CASE AddEp
  BY <1>7 DEF AddEp, LoopOK, Loops, PassesOf, Fulls, ConstTerms, ETies
<1>8. ~PlaceSignature
  BY DEF PlaceSignature
<1>. QED  BY <1>2, <1>3, <1>4, <1>5, <1>6, <1>7, <1>8 DEF Next

\* A pass is over exactly when it was, or is the one just made.
LEMMA OverStep ==
  ASSUME TypeOK, LoopOK, Next, NEW s \in Sides, NEW loop \in Loops, NEW k \in PassesOf(L, loop)
  PROVE  Over(s, loop, k)' <=> Over(s, loop, k) \/ (s = side /\ pc = loop /\ k = i)
<1>. USE LayoutOK DEF LoopOK, Sigs, Rows, Columns, After, Later, Over, Loops, PassesOf
<1>0. side \in Sides /\ i \in Nat /\ k \in Nat
  BY DEF TypeOK
<1>1. CASE PlaceSignature
  <2>1. pc = "witness" /\ Advance(L.n_sigs, "falcon") /\ side = "prover"
    BY <1>1 DEF PlaceSignature
  <2>. QED  BY <2>1, <1>0, AdvanceIs
<1>2. CASE AddFalconEq
  <2>1. pc = "falcon" /\ Advance(L.n_sigs, "squares")
    BY <1>2 DEF AddFalconEq
  <2>. QED  BY <2>1, <1>0, AdvanceIs
<1>3. CASE AddFourSquare
  <2>1. pc = "squares" /\ Advance(L.n_sigs, "y")
    BY <1>3 DEF AddFourSquare
  <2>. QED  BY <2>1, <1>0, AdvanceIs
<1>4. CASE AddYPadding
  <2>1. pc = "y" /\ Advance(L.num_y, "yp")
    BY <1>4 DEF AddYPadding
  <2>. QED  BY <2>1, <1>0, AdvanceIs
<1>5. CASE AddYp
  <2>1. pc = "yp" /\ Advance(L.num_yp, "e")
    BY <1>5 DEF AddYp
  <2>. QED  BY <2>1, <1>0, AdvanceIs
<1>6. CASE AddE
  <2>1. pc = "e" /\ Advance(L.num_y, "ep")
    BY <1>6 DEF AddE
  <2>. QED  BY <2>1, <1>0, AdvanceIs
<1>7. CASE AddEp
  <2>1. pc = "ep" /\ LastLoop
    BY <1>7 DEF AddEp
  <2>. QED  BY <2>1, <1>0, LastLoopIs DEF Sides
<1>. QED  BY <1>1, <1>2, <1>3, <1>4, <1>5, <1>6, <1>7 DEF Next

\* Where a constraint comes from.
Pushed(s, loop, k) == loop \in Loops /\ k \in PassesOf(L, loop) /\ Over(s, loop, k)

LEMMA Origins ==
  ASSUME NEW s \in Sides
  PROVE  Built => /\ \A c : c \in full[s] <=>
                             \E loop, k : Pushed(s, loop, k) /\ c \in Fulls(L, loop, k)
                  /\ \A c : c \in const_term[s] <=>
                             \E loop, k : Pushed(s, loop, k) /\ c \in ConstTerms(L, loop, k)
BY DEF Built, Pushed

LEMMA OriginsNext ==
  ASSUME L' = L,
         \A s \in Sides :
           /\ \A c : c \in full'[s] <=>
                      \E loop, k : Pushed(s, loop, k)' /\ c \in Fulls(L, loop, k)
           /\ \A c : c \in const_term'[s] <=>
                      \E loop, k : Pushed(s, loop, k)' /\ c \in ConstTerms(L, loop, k)
  PROVE  Built'
BY DEF Built, Pushed

LEMMA PushAdds ==
  ASSUME TypeOK, NEW F, NEW T, Push(F, T), NEW s \in Sides
  PROVE  /\ \A c : c \in full'[s] <=> c \in full[s] \/ (s = side /\ c \in F)
         /\ \A c : c \in const_term'[s] <=> c \in const_term[s] \/ (s = side /\ c \in T)
BY DEF TypeOK, Push

LEMMA BuiltStep ==
  ASSUME BuiltInv, Next
  PROVE  Built'
<1>0. TypeOK /\ LoopOK /\ Built /\ L' = L
  BY ControlStep DEF BuiltInv
<1>1. \A s \in Sides : \A loop, k :
         Pushed(s, loop, k)' <=> Pushed(s, loop, k) \/ (s = side /\ pc \in Loops /\ i \in PassesOf(L, pc)
                                                       /\ loop = pc /\ k = i)
  <2>1. ASSUME NEW s \in Sides, NEW loop, NEW k
        PROVE  Pushed(s, loop, k)' <=> Pushed(s, loop, k) \/ (s = side /\ pc \in Loops /\ i \in PassesOf(L, pc)
                                                       /\ loop = pc /\ k = i)
    <3>1. CASE loop \in Loops /\ k \in PassesOf(L, loop)
      BY <1>0, <2>1, <3>1, OverStep DEF Pushed
    <3>2. CASE ~(loop \in Loops /\ k \in PassesOf(L, loop))
      BY <1>0, <3>2 DEF Pushed
    <3>. QED  BY <3>1, <3>2
  <2>. QED  BY <2>1
<1>2. ASSUME NEW s \in Sides
      PROVE  /\ \A c : c \in full'[s] <=>
                        \E loop, k : Pushed(s, loop, k)' /\ c \in Fulls(L, loop, k)
             /\ \A c : c \in const_term'[s] <=>
                        \E loop, k : Pushed(s, loop, k)' /\ c \in ConstTerms(L, loop, k)
  <2>1. CASE pc = "witness"
    <3>1. full' = full /\ const_term' = const_term
      BY <2>1 DEF Next, PlaceSignature, AddFalconEq, AddFourSquare, AddYPadding, AddYp, AddE, AddEp
    <3>2. \A loop, k : Pushed(s, loop, k)' <=> Pushed(s, loop, k)
      BY <1>1, <2>1 DEF Loops
    <3>. QED  BY <1>0, <3>1, <3>2, Origins
  <2>2. CASE pc # "witness"
    <3>1. pc \in Loops /\ i \in PassesOf(L, pc) /\ Push(Fulls(L, pc, i), ConstTerms(L, pc, i))
      BY <1>0, <2>2, PassPushes
    <3>2. /\ \A c : c \in full'[s] <=> c \in full[s] \/ (s = side /\ c \in Fulls(L, pc, i))
          /\ \A c : c \in const_term'[s] <=> c \in const_term[s] \/ (s = side /\ c \in ConstTerms(L, pc, i))
      BY <1>0, <1>2, <3>1, PushAdds
    <3>3. \A loop, k : Pushed(s, loop, k)' <=> Pushed(s, loop, k) \/ (s = side /\ loop = pc /\ k = i)
      BY <1>1, <1>2, <3>1
    <3>4. \A c : c \in full[s] <=> \E loop, k : Pushed(s, loop, k) /\ c \in Fulls(L, loop, k)
      BY <1>0, <1>2, Origins
    <3>5. \A c : c \in const_term[s] <=> \E loop, k : Pushed(s, loop, k) /\ c \in ConstTerms(L, loop, k)
      BY <1>0, <1>2, Origins
    <3>6. \A c : c \in full'[s] <=> \E loop, k : Pushed(s, loop, k)' /\ c \in Fulls(L, loop, k)
      BY <3>2, <3>3, <3>4
    <3>7. \A c : c \in const_term'[s] <=> \E loop, k : Pushed(s, loop, k)' /\ c \in ConstTerms(L, loop, k)
      BY <3>2, <3>3, <3>5
    <3>. QED  BY <3>6, <3>7
  <2>. QED  BY <2>1, <2>2
<1>. QED  BY <1>0, <1>2, OriginsNext

LEMMA BuiltInvariant == Spec => []BuiltInv
<1>1. Init => BuiltInv
  <2>1. ASSUME Init PROVE Built
    <3>1. \A s \in Sides : full[s] = {} /\ const_term[s] = {}
      BY <2>1 DEF Init
    <3>2. \A s \in Sides : \A loop \in Loops : \A k : ~Over(s, loop, k)
      BY <2>1 DEF Init, Over, Loops, Later, After
    <3>. QED  BY <3>1, <3>2 DEF Built
  <2>. QED  BY <2>1, TypeInit DEF BuiltInv
<1>2. BuiltInv /\ [Next]_vars => BuiltInv'
  <2>1. ASSUME BuiltInv, UNCHANGED vars PROVE Built'
    <3>1. L' = L /\ side' = side /\ pc' = pc /\ i' = i /\ full' = full /\ const_term' = const_term
      BY <2>1 DEF vars
    <3>2. \A s, loop, k : Pushed(s, loop, k)' <=> Pushed(s, loop, k)
      BY <3>1 DEF Pushed, Over
    <3>3. Built
      BY <2>1 DEF BuiltInv
    <3>. QED  BY <3>1, <3>2, <3>3, Origins, OriginsNext
  <2>2. ASSUME BuiltInv, [Next]_vars PROVE TypeOK' /\ LoopOK'
    BY <2>2, TypeStep DEF BuiltInv
  <2>. QED  BY <2>1, <2>2, BuiltStep DEF BuiltInv
<1>. QED  BY <1>1, <1>2, PTL DEF Spec

\* When both are done every pass is.
LEMMA AllPushed ==
  ASSUME Done, NEW s \in Sides, NEW loop \in Loops, NEW k \in PassesOf(L, loop)
  PROVE  Pushed(s, loop, k)
BY DEF Done, Pushed, Over

\* For every number of signatures, the verifier, who does not know s1 and s2,
\* builds the statement that the prover built.
THEOREM VerifierBuildsTheSame == Spec => []VerifierBuildsSame
<1>1. BuiltInv => VerifierBuildsSame
  <2>1. SUFFICES ASSUME BuiltInv, Done
                 PROVE  full["verifier"] = full["prover"] /\ const_term["verifier"] = const_term["prover"]
    BY DEF VerifierBuildsSame
  <2>2. \A loop, k : Pushed("verifier", loop, k) <=> Pushed("prover", loop, k)
    BY <2>1, AllPushed DEF Pushed, Sides
  <2>3. Built
    BY <2>1 DEF BuiltInv
  <2>4. \A c : c \in full["verifier"] <=> c \in full["prover"]
    BY <2>2, <2>3, Origins DEF Sides
  <2>5. \A c : c \in const_term["verifier"] <=> c \in const_term["prover"]
    BY <2>2, <2>3, Origins DEF Sides
  <2>6. /\ full["verifier"] = full["prover"]
        /\ const_term["verifier"] = const_term["prover"]
    BY <2>3, <2>4, <2>5 DEF Built, Sides
  <2>. QED  BY <2>6
<1>. QED  BY <1>1, BuiltInvariant, PTL

-----------------------------------------------------------------------------
(* The witness, position by position.                                      *)

\* The vector of kind t in row and col, in the order of Placements.
VecOf(t, row, col) ==
  IF t = 1 THEN y_idx(L, row, 1) ELSE IF t = 2 THEN y_idx(L, row, 2)
  ELSE IF t = 3 THEN yp_idx(L, col, 1) ELSE IF t = 4 THEN yp_idx(L, col, 2)
  ELSE IF t = 5 THEN e_idx(L, row) ELSE IF t = 6 THEN ep_idx(L, col) ELSE v_idx(L)

\* Signature k is one of those that a vector of kind t in row and col holds.
Holds(t, k, row, col) ==
  /\ t \in {1, 2, 5} => index(L, k) = row
  /\ t \in {3, 4, 6} => index_prime(L, k) = col

LEMMA VecOfIs ==
  ASSUME IsLayout(L), L.num_y \in Nat, L.num_yp \in Nat, NEW row \in Rows(L), NEW col \in Columns(L)
  PROVE  /\ VecOf(1, row, col) = row - 1
         /\ VecOf(2, row, col) = L.num_y + (row - 1)
         /\ VecOf(3, row, col) = 2 * L.num_y + (col - 1)
         /\ VecOf(4, row, col) = 2 * L.num_y + L.num_yp + (col - 1)
         /\ VecOf(5, row, col) = 2 * L.num_y + 2 * L.num_yp + (row - 1)
         /\ VecOf(6, row, col) = 3 * L.num_y + 2 * L.num_yp + (col - 1)
         /\ VecOf(7, row, col) = 3 * L.num_y + 3 * L.num_yp
         /\ row \in 1..L.num_y /\ col \in 1..L.num_yp
         /\ Vectors(L) = 0..(3 * L.num_y + 3 * L.num_yp)
<1>. DEFINE a == L.num_y
            b == L.num_yp
<1>1. a \in Nat /\ b \in Nat /\ row \in 1..a /\ col \in 1..b
  BY DEF Rows, Columns
<1>. HIDE DEF a, b
<1>3. /\ y_idx(L, row, 1) = row - 1 /\ y_idx(L, row, 2) = a + (row - 1)
      /\ yp_idx(L, col, 1) = 2 * a + (col - 1) /\ yp_idx(L, col, 2) = 2 * a + b + (col - 1)
      /\ e_idx(L, row) = 2 * a + 2 * b + (row - 1) /\ ep_idx(L, col) = 3 * a + 2 * b + (col - 1)
      /\ v_idx(L) = 3 * a + 3 * b
  BY <1>1 DEF y_idx, yp_idx, e_idx, ep_idx, v_idx, a, b
<1>4. Vectors(L) = 0..(3 * a + 3 * b)
  BY <1>1 DEF Vectors, r, a, b
<1>. QED  BY <1>1, <1>3, <1>4 DEF VecOf, a, b

\* A vector is of one kind, in one row or column.
LEMMA VecOfInjective ==
  ASSUME IsLayout(L), L.num_y \in Nat, L.num_yp \in Nat,
         NEW t \in 1..7, NEW row \in Rows(L), NEW col \in Columns(L),
         NEW u \in 1..7, NEW row2 \in Rows(L), NEW col2 \in Columns(L),
         VecOf(t, row, col) = VecOf(u, row2, col2)
  PROVE  /\ t = u
         /\ t \in {1, 2, 5} => row = row2
         /\ t \in {3, 4, 6} => col = col2
<1>. DEFINE V(x) == VecOf(x, row, col)
            W(x) == VecOf(x, row2, col2)
            a == L.num_y
            b == L.num_yp
<1>1. /\ V(1) = row - 1 /\ V(2) = a + (row - 1) /\ V(3) = 2 * a + (col - 1)
      /\ V(4) = 2 * a + b + (col - 1) /\ V(5) = 2 * a + 2 * b + (row - 1)
      /\ V(6) = 3 * a + 2 * b + (col - 1) /\ V(7) = 3 * a + 3 * b
      /\ row \in 1..a /\ col \in 1..b
  BY VecOfIs
<1>2. /\ W(1) = row2 - 1 /\ W(2) = a + (row2 - 1) /\ W(3) = 2 * a + (col2 - 1)
      /\ W(4) = 2 * a + b + (col2 - 1) /\ W(5) = 2 * a + 2 * b + (row2 - 1)
      /\ W(6) = 3 * a + 2 * b + (col2 - 1) /\ W(7) = 3 * a + 3 * b
      /\ row2 \in 1..a /\ col2 \in 1..b
  BY VecOfIs
<1>3. V(t) = W(u) /\ a \in Nat /\ b \in Nat
  OBVIOUS
<1>. HIDE DEF V, W, a, b
<1>. QED  BY <1>1, <1>2, <1>3

\* And every vector is of some kind.
LEMMA VecOfOnto ==
  ASSUME IsLayout(L), L.num_y \in Nat, L.num_yp \in Nat, 1 \in Rows(L), 1 \in Columns(L),
         NEW vec \in Vectors(L)
  PROVE  \E t \in 1..7, row \in Rows(L), col \in Columns(L) : vec = VecOf(t, row, col)
<1>. DEFINE a == L.num_y
            b == L.num_yp
<1>1. a \in Nat /\ b \in Nat /\ Rows(L) = 1..a /\ Columns(L) = 1..b /\ 1 \in 1..a /\ 1 \in 1..b
  BY DEF Rows, Columns
<1>2. vec \in 0..(3 * a + 3 * b)
  BY VecOfIs
<1>3. ASSUME NEW row \in 1..a, NEW col \in 1..b
      PROVE  /\ VecOf(1, row, col) = row - 1 /\ VecOf(2, row, col) = a + (row - 1)
             /\ VecOf(3, row, col) = 2 * a + (col - 1) /\ VecOf(4, row, col) = 2 * a + b + (col - 1)
             /\ VecOf(5, row, col) = 2 * a + 2 * b + (row - 1)
             /\ VecOf(6, row, col) = 3 * a + 2 * b + (col - 1)
             /\ VecOf(7, row, col) = 3 * a + 3 * b
  <2>1. row \in Rows(L) /\ col \in Columns(L)
    BY <1>1, <1>3
  <2>. QED  BY <2>1, VecOfIs
<1>g. ASSUME NEW t \in 1..7, NEW row \in 1..a, NEW col \in 1..b, vec = VecOf(t, row, col)
      PROVE  \E t2 \in 1..7, row2 \in Rows(L), col2 \in Columns(L) : vec = VecOf(t2, row2, col2)
  BY <1>1, <1>g
<1>. HIDE DEF a, b
<1>4. CASE vec < a
  <2>1. vec + 1 \in 1..a /\ vec = VecOf(1, vec + 1, 1)
    BY <1>1, <1>2, <1>3, <1>4
  <2>. QED  BY <1>1, <1>g, <2>1
<1>5. CASE a <= vec /\ vec < 2 * a
  <2>1. vec - a + 1 \in 1..a /\ vec = VecOf(2, vec - a + 1, 1)
    BY <1>1, <1>2, <1>3, <1>5
  <2>. QED  BY <1>1, <1>g, <2>1
<1>6. CASE 2 * a <= vec /\ vec < 2 * a + b
  <2>1. vec - 2 * a + 1 \in 1..b /\ vec = VecOf(3, 1, vec - 2 * a + 1)
    BY <1>1, <1>2, <1>3, <1>6
  <2>. QED  BY <1>1, <1>g, <2>1
<1>7. CASE 2 * a + b <= vec /\ vec < 2 * a + 2 * b
  <2>1. vec - (2 * a + b) + 1 \in 1..b /\ vec = VecOf(4, 1, vec - (2 * a + b) + 1)
    BY <1>1, <1>2, <1>3, <1>7
  <2>. QED  BY <1>1, <1>g, <2>1
<1>8. CASE 2 * a + 2 * b <= vec /\ vec < 3 * a + 2 * b
  <2>1. vec - (2 * a + 2 * b) + 1 \in 1..a /\ vec = VecOf(5, vec - (2 * a + 2 * b) + 1, 1)
    BY <1>1, <1>2, <1>3, <1>8
  <2>. QED  BY <1>1, <1>g, <2>1
<1>9. CASE 3 * a + 2 * b <= vec /\ vec < 3 * a + 3 * b
  <2>1. vec - (3 * a + 2 * b) + 1 \in 1..b /\ vec = VecOf(6, 1, vec - (3 * a + 2 * b) + 1)
    BY <1>1, <1>2, <1>3, <1>9
  <2>. QED  BY <1>1, <1>g, <2>1
<1>10. CASE vec = 3 * a + 3 * b
  <2>1. vec = VecOf(7, 1, 1)
    BY <1>1, <1>3, <1>10
  <2>. QED  BY <1>1, <1>g, <2>1
<1>. QED  BY <1>1, <1>2, <1>4, <1>5, <1>6, <1>7, <1>8, <1>9, <1>10

LEMMA PlacedIn ==
  ASSUME NEW k
  PROVE  \A t \in 1..7 : Placements(k)[t].vec = VecOf(t, index(L, k), index_prime(L, k))
BY DEF Placements, VecOf

\* A signature is placed in the vectors that hold it, and there in its kind.
LEMMA PlacedWhere ==
  ASSUME IsLayout(L), L.num_y \in Nat, L.num_yp \in Nat, NEW k \in Sigs(L),
         NEW t \in 1..7, NEW row \in Rows(L), NEW col \in Columns(L), NEW u \in 1..7
  PROVE  Placements(k)[u].vec = VecOf(t, row, col) <=> u = t /\ Holds(t, k, row, col)
<1>1. index(L, k) \in Rows(L) /\ index_prime(L, k) \in Columns(L)
  BY RowOf, ColumnOf
<1>2. Placements(k)[u].vec = VecOf(u, index(L, k), index_prime(L, k))
  BY PlacedIn
<1>3. ASSUME Placements(k)[u].vec = VecOf(t, row, col)
      PROVE  u = t /\ Holds(t, k, row, col)
  <2>1. VecOf(u, index(L, k), index_prime(L, k)) = VecOf(t, row, col)
    BY <1>2, <1>3
  <2>2. /\ u = t /\ (u \in {1, 2, 5} => index(L, k) = row)
        /\ (u \in {3, 4, 6} => index_prime(L, k) = col)
    BY ONLY <1>1, <2>1, VecOfInjective, IsLayout(L), L.num_y \in Nat, L.num_yp \in Nat,
            t \in 1..7, u \in 1..7, row \in Rows(L), col \in Columns(L)
  <2>. QED  BY <2>2 DEF Holds
<1>4. ASSUME u = t, Holds(t, k, row, col)
      PROVE  Placements(k)[u].vec = VecOf(t, row, col)
  BY <1>2, <1>4 DEF Holds, VecOf
<1>. QED  BY <1>3, <1>4

\* What no call of place_slots is about stays zero.
Covers(k, vec, p) == p \in Window(k) /\ \E t \in 1..7 : Placements(k)[t].vec = vec
Blank ==
  \A vec \in Vectors(L) : \A p \in Positions(L) :
    (\A k \in Sigs(L) : ~Covers(k, vec, p)) => w[vec][p] = ZeroPoly

WitnessInv == PlaceInv /\ Blank

LEMMA BlankInvariant == Spec => []Blank
<1>1. Init => Blank
  BY DEF Init, Blank
<1>2. TypeOK /\ LoopOK /\ Blank /\ [Next]_vars => Blank'
  <2>1. SUFFICES ASSUME TypeOK, LoopOK, Blank, [Next]_vars PROVE Blank'
    OBVIOUS
  <2>2. L' = L
    BY <2>1, ControlStep DEF vars
  <2>3. /\ Vectors(L)' = Vectors(L) /\ Positions(L)' = Positions(L) /\ Sigs(L)' = Sigs(L)
        /\ \A k, vec, p : Covers(k, vec, p)' <=> Covers(k, vec, p)
    <3>1. \A k : Placements(k)' = Placements(k)
      BY <2>2 DEF Placements
    <3>. QED  BY <2>2, <3>1 DEF Vectors, Positions, Sigs, r, n_s, Covers
  <2>4. CASE PlaceSignature
    <3>1. ASSUME NEW vec \in Vectors(L), NEW p \in Positions(L), \A k \in Sigs(L) : ~Covers(k, vec, p)
          PROVE  w'[vec][p] = ZeroPoly
      <4>1. i \in Sigs(L)
        BY <2>1, <2>4 DEF PlaceSignature, LoopOK
      <4>2. ~((\E t \in 1..7 : Placements(i)[t].vec = vec) /\ p \in Window(i))
        BY <3>1, <4>1 DEF Covers
      <4>3. w'[vec][p] = w[vec][p]
        BY <2>4, <3>1, <4>2 DEF PlaceSignature
      <4>. QED  BY <2>1, <3>1, <4>3 DEF Blank
    <3>. QED  BY <2>3, <3>1 DEF Blank
  <2>5. CASE ~PlaceSignature
    <3>1. w' = w
      BY <2>1, <2>5 DEF vars, Next, AddFalconEq, AddFourSquare, AddYPadding, AddYp, AddE, AddEp, Push
    <3>. QED  BY <2>1, <2>3, <3>1 DEF Blank
  <2>. QED  BY <2>4, <2>5
<1>3. Spec => [](TypeOK /\ LoopOK)
  <2>1. Init => TypeOK /\ LoopOK
    BY TypeInit
  <2>2. TypeOK /\ LoopOK /\ [Next]_vars => (TypeOK /\ LoopOK)'
    BY TypeStep
  <2>. QED  BY <2>1, <2>2, PTL DEF Spec
<1>. QED  BY <1>1, <1>2, <1>3, PTL DEF Spec

\* The states in which both statements are built.
Ended == TypeOK /\ LoopOK /\ EachInItsPlace /\ Blank /\ Built /\ Done

LEMMA EndedLayout ==
  ASSUME Ended
  PROVE  /\ IsLayout(L) /\ 1 \in Sigs(L) /\ 1 \in Rows(L) /\ 1 \in Columns(L)
         /\ L.n_sigs \in Nat /\ L.num_y \in Nat /\ L.num_yp \in Nat
         /\ C \in Nat /\ C >= 4 /\ D \in Nat /\ D >= 2
         /\ Slots = 0..(C - 1) /\ Coeffs = 0..(D - 1) /\ Roots \subseteq Slots
BY LayoutOK, SlotsAssumption, DegreeAssumption DEF Ended, Slots, Coeffs, Roots

LEMMA WitnessIs ==
  ASSUME Ended, NEW t \in 1..7, NEW row \in Rows(L), NEW col \in Columns(L),
         NEW k \in Sigs(L), NEW n \in Slots
  PROVE  w[VecOf(t, row, col)][At(k, n)] =
           IF Holds(t, k, row, col) THEN Placements(k)[t].slots[n] ELSE ZeroPoly
<1>0. IsLayout(L) /\ L.num_y \in Nat /\ L.num_yp \in Nat /\ Sigs(L) \subseteq Nat
  BY EndedLayout DEF Sigs
<1>1. \A u \in 1..7 : Placements(k)[u].vec = VecOf(t, row, col) <=> u = t /\ Holds(t, k, row, col)
  BY <1>0, PlacedWhere
<1>2. CASE Holds(t, k, row, col)
  <2>1. Placements(k)[t].vec = VecOf(t, row, col)
    BY <1>1, <1>2
  <2>2. w[Placements(k)[t].vec][At(k, n)] = Placements(k)[t].slots[n]
    BY DEF Ended, Done, EachInItsPlace
  <2>. QED  BY <1>2, <2>1, <2>2
<1>3. CASE ~Holds(t, k, row, col)
  <2>1. VecOf(t, row, col) \in Vectors(L)
    <3>1. VectorsApart(L, row, col)
      BY <1>0, VectorIndices
    <3>. QED  BY <3>1 DEF VectorsApart, VecOf
  <2>2. At(k, n) \in Positions(L)
    BY <1>0, AtIsPosition
  <2>3. ASSUME NEW k2 \in Sigs(L), Covers(k2, VecOf(t, row, col), At(k, n))
        PROVE  FALSE
    <3>1. k2 = k
      <4>1. PICK m \in Slots : At(k, n) = At(k2, m)
        BY <2>3 DEF Covers, Window
      <4>. QED  BY <1>0, <4>1, WindowsApart
    <3>. QED  BY <1>1, <1>3, <2>3, <3>1 DEF Covers
  <2>. QED  BY <1>3, <2>1, <2>2, <2>3 DEF Ended, Blank
<1>. QED  BY <1>2, <1>3

-----------------------------------------------------------------------------
(* The pieces, coefficient by coefficient.                                 *)

LEMMA EmbedIndex ==
  ASSUME NEW n \in Slots, NEW l \in Coeffs
  PROVE  /\ n + C * l \in RCoeffs /\ n + C * 0 = n /\ n \in RCoeffs
         /\ n + C * l < 4 <=> l = 0 /\ n \in Roots
         /\ l # 0 => D - l \in Coeffs \ {0} /\ n + C * (D - l) \in RCoeffs /\ ~(n + C * (D - l) < 4)
<1>0. C \in Nat /\ C >= 4 /\ D \in Nat /\ D >= 2 /\ n \in 0..(C - 1) /\ l \in 0..(D - 1)
  BY SlotsAssumption, DegreeAssumption DEF Slots, Coeffs
<1>1. ASSUME NEW m \in 0..(D - 1)
      PROVE  n + C * m \in 0..(C * D - 1) /\ (m # 0 => n + C * m >= C)
  <2>1. C * m \in Nat /\ C * (D - 1 - m) \in Nat /\ C * D = C * (D - 1 - m) + C * m + C
    BY <1>0, SMT
  <2>2. m # 0 => C * m = C * (m - 1) + C /\ C * (m - 1) \in Nat
    BY <1>0, SMT
  <2>. QED  BY <1>0, <2>1, <2>2
<1>2. C * 0 = 0
  BY <1>0
<1>3. n + C * l \in RCoeffs /\ n + C * 0 = n /\ n \in RCoeffs
  BY <1>0, <1>1, <1>2 DEF RCoeffs
<1>4. n + C * l < 4 <=> l = 0 /\ n \in Roots
  <2>1. CASE l = 0
    BY <1>0, <1>2, <2>1 DEF Roots
  <2>2. CASE l # 0
    <3>1. n + C * l >= C /\ n + C * l \in Nat
      BY <1>0, <1>1, <2>2
    <3>. QED  BY <1>0, <2>2, <3>1
  <2>. QED  BY <2>1, <2>2
<1>5. ASSUME l # 0
      PROVE  D - l \in Coeffs \ {0} /\ n + C * (D - l) \in RCoeffs /\ ~(n + C * (D - l) < 4)
  <2>1. D - l \in 0..(D - 1) /\ D - l # 0
    BY <1>0, <1>5
  <2>2. n + C * (D - l) \in 0..(C * D - 1) /\ n + C * (D - l) >= C
    BY <1>1, <2>1
  <2>. QED  BY <1>0, <2>1, <2>2 DEF Coeffs, RCoeffs
<1>. QED  BY <1>3, <1>4, <1>5

\* sigma_{-1} of what embed makes of f.
LEMMA ConjugateIs ==
  ASSUME NEW f, NEW n \in Slots, NEW l \in Coeffs
  PROVE  /\ embed(f)[n][l] = f[n + C * l]
         /\ sigma_minus_one(embed(f)[n])[l] = IF l = 0 THEN f[n] ELSE Neg(f[n + C * (D - l)])
<1>1. \A m \in Coeffs : embed(f)[n][m] = f[n + C * m]
  BY DEF embed
<1>2. 0 \in Coeffs
  BY DegreeAssumption DEF Coeffs
<1>3. sigma_minus_one(embed(f)[n])[l] = IF l = 0 THEN embed(f)[n][0] ELSE Neg(embed(f)[n][D - l])
  BY DEF sigma_minus_one
<1>. QED  BY <1>1, <1>2, <1>3, EmbedIndex

LEMMA Signs ==
  /\ NoSym.sg = 0 /\ Neg(NoSym) = NoSym
  /\ \A name, k, n : Sym(name, k, n).sg = 1 /\ Sym(name, k, n).of = <<name, k, n>>
  /\ \A name, k, n : Neg(Sym(name, k, n)).sg = -1 /\ Neg(Sym(name, k, n)).of = <<name, k, n>>
BY DEF NoSym, Neg, Sym

LEMMA Pieces ==
  ASSUME NEW k, NEW n \in Slots, NEW l \in Coeffs
  PROVE  /\ Placements(k)[1].slots[n][l] = Sym("s1", k, n + C * l)
         /\ Placements(k)[2].slots[n][l] = Sym("s2", k, n + C * l)
         /\ Placements(k)[3].slots[n][l] = IF l = 0 THEN Sym("s1", k, n) ELSE Neg(Sym("s1", k, n + C * (D - l)))
         /\ Placements(k)[4].slots[n][l] = IF l = 0 THEN Sym("s2", k, n) ELSE Neg(Sym("s2", k, n + C * (D - l)))
         /\ Placements(k)[5].slots[n][l] = IF l = 0 /\ n \in Roots THEN Sym("eps", k, n) ELSE NoSym
         /\ Placements(k)[6].slots[n][l] = IF l = 0 /\ n \in Roots THEN Sym("eps", k, n) ELSE NoSym
         /\ Placements(k)[7].slots[n][l] = Sym("v", k, n + C * l)
<1>. DEFINE conj(f) == [s \in Slots |-> sigma_minus_one(embed(f)[s])]
<1>1. /\ Placements(k)[1].slots = embed(Element("s1", k)) /\ Placements(k)[2].slots = embed(Element("s2", k))
      /\ Placements(k)[3].slots = conj(Element("s1", k)) /\ Placements(k)[4].slots = conj(Element("s2", k))
      /\ Placements(k)[5].slots = embed(eps(k)) /\ Placements(k)[6].slots = conj(eps(k))
      /\ Placements(k)[7].slots = embed(v(k))
  BY DEF Placements, FalconSig
<1>2. \A f : conj(f)[n][l] = IF l = 0 THEN f[n] ELSE Neg(f[n + C * (D - l)])
  BY ConjugateIs
<1>. HIDE DEF conj
<1>3. \A name : \A m \in RCoeffs : Element(name, k)[m] = Sym(name, k, m)
  BY DEF Element
<1>4. \A m \in RCoeffs : eps(k)[m] = IF m < 4 THEN Sym("eps", k, m) ELSE NoSym
  BY DEF eps
<1>5. Neg(NoSym) = NoSym
  BY DEF Neg, NoSym
<1>6. l # 0 => eps(k)[n + C * (D - l)] = NoSym
  BY <1>4, EmbedIndex
<1>7. eps(k)[n + C * l] = (IF l = 0 /\ n \in Roots THEN Sym("eps", k, n) ELSE NoSym)
  BY <1>4, EmbedIndex
<1>8. eps(k)[n] = (IF n \in Roots THEN Sym("eps", k, n) ELSE NoSym)
  BY <1>4, EmbedIndex, SlotsAssumption DEF Roots, Slots
<1>9. \A g : embed(g)[n][l] = g[n + C * l]
  BY ConjugateIs
<1>10. /\ n + C * l \in RCoeffs /\ n \in RCoeffs /\ (l # 0 => n + C * (D - l) \in RCoeffs)
  BY EmbedIndex
<1>11. /\ Placements(k)[1].slots[n][l] = Sym("s1", k, n + C * l)
       /\ Placements(k)[2].slots[n][l] = Sym("s2", k, n + C * l)
       /\ Placements(k)[7].slots[n][l] = Sym("v", k, n + C * l)
  <2>1. /\ Placements(k)[1].slots[n][l] = Element("s1", k)[n + C * l]
        /\ Placements(k)[2].slots[n][l] = Element("s2", k)[n + C * l]
        /\ Placements(k)[7].slots[n][l] = v(k)[n + C * l]
    BY <1>1, <1>9, Zenon
  <2>. QED  BY <1>3, <1>10, <2>1 DEF v
<1>12. ASSUME NEW name
       PROVE  conj(Element(name, k))[n][l] =
                IF l = 0 THEN Sym(name, k, n) ELSE Neg(Sym(name, k, n + C * (D - l)))
  BY <1>2, <1>3, <1>10
<1>13. conj(eps(k))[n][l] = (IF l = 0 /\ n \in Roots THEN Sym("eps", k, n) ELSE NoSym)
  BY <1>2, <1>5, <1>6, <1>8
<1>14. /\ Placements(k)[5].slots[n][l] = eps(k)[n + C * l]
       /\ Placements(k)[3].slots[n][l] = conj(Element("s1", k))[n][l]
       /\ Placements(k)[4].slots[n][l] = conj(Element("s2", k))[n][l]
       /\ Placements(k)[6].slots[n][l] = conj(eps(k))[n][l]
  BY <1>1, <1>9, Zenon
<1>. QED
  BY <1>7, <1>11, <1>12, <1>13, <1>14

-----------------------------------------------------------------------------
(* What the finished statements contain.                                   *)

LEMMA InStatement ==
  ASSUME Ended, NEW s \in Sides, NEW loop \in Loops, NEW k \in PassesOf(L, loop)
  PROVE  Fulls(L, loop, k) \subseteq full[s] /\ ConstTerms(L, loop, k) \subseteq const_term[s]
<1>1. Pushed(s, loop, k) /\ Built
  BY AllPushed DEF Ended
<1>. QED  BY <1>1, Origins

LEMMA ActiveIsRow ==
  ASSUME IsLayout(L), NEW k \in Sigs(L), NEW row \in Nat \ {0}
  PROVE  k \in ActiveInRow(L, row) <=> index(L, k) = row
<1>1. k \in ActiveInRow(L, row) => index(L, k) = row
  BY RowIsActive
<1>2. ASSUME index(L, k) = row PROVE k \in ActiveInRow(L, row)
  <2>. DEFINE b == L.rho
  <2>1. k \in Nat \ {0} /\ b \in Nat /\ b > 0
    BY DEF Sigs, IsLayout
  <2>2. index_prime(L, k) \in 1..b /\ k = (row - 1) * b + index_prime(L, k)
    BY <1>2, <2>1, GridOf DEF Columns, IsLayout
  <2>. HIDE DEF b
  <2>3. (row - 1) * b \in Int /\ row * b = (row - 1) * b + b
    BY <2>1, SMT
  <2>4. (row - 1) * b + 1 <= k /\ k <= row * b
    BY <2>1, <2>2, <2>3
  <2>. QED  BY <2>4 DEF ActiveInRow, b
<1>. QED  BY <1>1, <1>2

\* A position of a vector that does not hold its signature is pinned to zero.
LEMMA PinnedUnheld ==
  ASSUME Ended, NEW s \in Sides, NEW t \in 1..6, NEW row \in Rows(L), NEW col \in Columns(L),
         NEW k \in Sigs(L), NEW n \in Slots, ~Holds(t, k, row, col)
  PROVE  Pin(VecOf(t, row, col), At(k, n)) \in full[s]
<1>0. IsLayout(L) /\ row \in Nat \ {0}
  BY EndedLayout DEF Rows
<1>1. t \in {1, 2, 5} => k \in Sigs(L) \ ActiveInRow(L, row)
  BY <1>0, ActiveIsRow DEF Holds
<1>2. t \in {3, 4, 6} => k \in Sigs(L) \ ActiveInColumn(L, col)
  BY DEF Holds, ActiveInColumn
<1>3. ASSUME NEW vec, NEW K, k \in K PROVE Pin(vec, At(k, n)) \in Pins(vec, K, Slots)
  BY <1>3 DEF Pins
<1>4. CASE t \in {1, 2}
  <2>1. Fulls(L, "y", row) \subseteq full[s]
    BY InStatement DEF Loops, PassesOf
  <2>2. VecOf(t, row, col) = y_idx(L, row, t)
    BY <1>4 DEF VecOf
  <2>3. Pin(y_idx(L, row, t), At(k, n)) \in Pins(y_idx(L, row, t), Sigs(L) \ ActiveInRow(L, row), Slots)
    BY <1>1, <1>3, <1>4
  <2>. QED  BY <1>4, <2>1, <2>2, <2>3 DEF Fulls
<1>5. CASE t \in {3, 4}
  <2>1. Fulls(L, "yp", col) \subseteq full[s]
    BY InStatement DEF Loops, PassesOf
  <2>2. PICK x \in {1, 2} : VecOf(t, row, col) = yp_idx(L, col, x)
    BY <1>5 DEF VecOf
  <2>3. Pin(yp_idx(L, col, x), At(k, n)) \in Pins(yp_idx(L, col, x), Sigs(L) \ ActiveInColumn(L, col), Slots)
    BY <1>2, <1>3, <1>5
  <2>. QED  BY <2>1, <2>2, <2>3 DEF Fulls
<1>6. CASE t = 5
  <2>1. Fulls(L, "e", row) \subseteq full[s] /\ VecOf(t, row, col) = e_idx(L, row)
    BY <1>6, InStatement DEF Loops, PassesOf, VecOf
  <2>. QED  BY <1>1, <1>3, <1>6, <2>1 DEF Fulls
<1>7. CASE t = 6
  <2>1. Fulls(L, "ep", col) \subseteq full[s] /\ VecOf(t, row, col) = ep_idx(L, col)
    BY <1>7, InStatement DEF Loops, PassesOf, VecOf
  <2>. QED  BY <1>2, <1>3, <1>7, <2>1 DEF Fulls
<1>. QED  BY <1>4, <1>5, <1>6, <1>7

\* Of e and e' the slots beyond the roots are pinned, and the roots are scalars.
LEMMA PinnedBeyond ==
  ASSUME Ended, NEW s \in Sides, NEW t \in {5, 6}, NEW row \in Rows(L), NEW col \in Columns(L),
         NEW k \in Sigs(L), NEW n \in Slots, Holds(t, k, row, col)
  PROVE  /\ n \notin Roots => Pin(VecOf(t, row, col), At(k, n)) \in full[s]
         /\ n \in Roots => \A l \in Coeffs \ {0} :
                              CoeffPin(VecOf(t, row, col), At(k, n), l) \in const_term[s]
<1>0. IsLayout(L) /\ row \in Nat \ {0}
  BY EndedLayout DEF Rows
<1>1. t = 5 => k \in ActiveInRow(L, row)
  BY <1>0, ActiveIsRow DEF Holds
<1>2. t = 6 => k \in ActiveInColumn(L, col)
  BY DEF Holds, ActiveInColumn
<1>3. ASSUME NEW vec, NEW K, k \in K
      PROVE  /\ n \notin Roots => Pin(vec, At(k, n)) \in Pins(vec, K, Slots \ Roots)
             /\ n \in Roots => \A l \in Coeffs \ {0} : CoeffPin(vec, At(k, n), l) \in CoeffPins(vec, K, Roots)
  BY <1>3 DEF Pins, CoeffPins
<1>6. CASE t = 5
  <2>1. /\ Fulls(L, "e", row) \subseteq full[s] /\ ConstTerms(L, "e", row) \subseteq const_term[s]
        /\ VecOf(t, row, col) = e_idx(L, row)
    BY <1>6, InStatement DEF Loops, PassesOf, VecOf
  <2>2. /\ Pins(e_idx(L, row), ActiveInRow(L, row), Slots \ Roots) \subseteq full[s]
        /\ CoeffPins(e_idx(L, row), ActiveInRow(L, row), Roots) \subseteq const_term[s]
    BY <2>1 DEF Fulls, ConstTerms
  <2>. QED  BY <1>1, <1>3, <1>6, <2>1, <2>2
<1>7. CASE t = 6
  <2>1. /\ Fulls(L, "ep", col) \subseteq full[s] /\ ConstTerms(L, "ep", col) \subseteq const_term[s]
        /\ VecOf(t, row, col) = ep_idx(L, col)
    BY <1>7, InStatement DEF Loops, PassesOf, VecOf
  <2>2. /\ Pins(ep_idx(L, col), ActiveInColumn(L, col), Slots \ Roots) \subseteq full[s]
        /\ CoeffPins(ep_idx(L, col), ActiveInColumn(L, col), Roots) \subseteq const_term[s]
    BY <2>1 DEF Fulls, ConstTerms
  <2>. QED  BY <1>2, <1>3, <1>7, <2>1, <2>2
<1>. QED  BY <1>6, <1>7

\* A primed vector is tied to the unprimed one of the signature's row.
LEMMA TiedToUnprimed ==
  ASSUME Ended, NEW s \in Sides, NEW t \in {3, 4, 6}, NEW row \in Rows(L), NEW col \in Columns(L),
         NEW k \in Sigs(L), NEW n \in Slots, Holds(t, k, row, col), NEW l \in Coeffs,
         t = 6 => n \in Roots /\ l = 0
  PROVE  Tie(VecOf(IF t = 6 THEN 5 ELSE t - 2, index(L, k), col), VecOf(t, row, col), At(k, n), l)
           \in const_term[s]
<1>2. k \in ActiveInColumn(L, col)
  BY DEF Holds, ActiveInColumn
<1>5. CASE t \in {3, 4}
  <2>1. YTies(L, col) \subseteq const_term[s]
    <3>1. ConstTerms(L, "yp", col) \subseteq const_term[s]
      BY InStatement DEF Loops, PassesOf
    <3>. QED  BY <3>1 DEF ConstTerms
  <2>2. /\ t - 2 \in {1, 2} /\ VecOf(t, row, col) = yp_idx(L, col, t - 2)
        /\ VecOf(t - 2, index(L, k), col) = y_idx(L, index(L, k), t - 2)
    BY <1>5 DEF VecOf
  <2>3. Tie(y_idx(L, index(L, k), t - 2), yp_idx(L, col, t - 2), At(k, n), l) \in YTies(L, col)
    BY <1>2, <2>2 DEF YTies
  <2>. QED  BY <1>5, <2>1, <2>2, <2>3
<1>7. CASE t = 6
  <2>1. ETies(L, col) \subseteq const_term[s]
    <3>1. ConstTerms(L, "ep", col) \subseteq const_term[s]
      BY InStatement DEF Loops, PassesOf
    <3>. QED  BY <3>1 DEF ConstTerms
  <2>2. /\ VecOf(t, row, col) = ep_idx(L, col)
        /\ VecOf(5, index(L, k), col) = e_idx(L, index(L, k))
    BY <1>7 DEF VecOf
  <2>3. Tie(e_idx(L, index(L, k)), ep_idx(L, col), At(k, n), 0) \in ETies(L, col)
    BY <1>2, <1>7 DEF ETies
  <2>. QED  BY <1>7, <2>1, <2>2, <2>3
<1>. QED  BY <1>5, <1>7

-----------------------------------------------------------------------------
(* Rigidity.                                                               *)

LEMMA MonomialReads ==
  ASSUME NEW vec, NEW pos, NEW e \in Coeffs
  PROVE  /\ Reads(Term(vec, pos, Monomial(e))) = {<<vec, pos, (D - e) % D>>}
         /\ Reads(Term(vec, pos, NegPoly(Monomial(e)))) = {<<vec, pos, (D - e) % D>>}
<1>1. {x \in Coeffs : Monomial(e)[x].sg # 0} = {e}
  BY DEF Monomial, Sym, NoSym
<1>2. {x \in Coeffs : NegPoly(Monomial(e))[x].sg # 0} = {e}
  <2>1. \A x \in Coeffs : NegPoly(Monomial(e))[x].sg = -(Monomial(e)[x].sg)
    BY DEF NegPoly, Neg, Monomial, Sym, NoSym
  <2>2. \A x \in Coeffs : Monomial(e)[x].sg \in Int
    BY DEF Monomial, Sym, NoSym
  <2>. QED  BY <1>1, <2>1, <2>2
<1>. QED  BY <1>1, <1>2 DEF Reads, Term

\* A pin forces its whole position to zero, a coefficient's pin that one.
LEMMA PinForces ==
  ASSUME NEW s, NEW vec, NEW pos, Pin(vec, pos) \in full[s], NEW l \in Coeffs
  PROVE  <<vec, pos, l>> \in ForcedZero(s)
<1>. DEFINE c == Pin(vec, pos)
            t == Term(vec, pos, One)
<1>1. c.phi = {t} /\ c.b = ZeroPoly /\ t.vec = vec /\ t.pos = pos
  BY DEF Pin, Full, Term
<1>2. Cardinality(c.phi) = 1
  BY <1>1, FS_Singleton
<1>3. <<vec, pos, l>> \in UNION {{<<x.vec, x.pos, m>> : m \in Coeffs} : x \in c.phi}
  BY <1>1
<1>4. c \in {d \in full[s] : Cardinality(d.phi) = 1 /\ d.b = ZeroPoly}
  BY <1>1, <1>2
<1>. HIDE DEF c, t
<1>. QED  BY <1>3, <1>4 DEF ForcedZero

LEMMA CoeffPinForces ==
  ASSUME NEW s, NEW vec, NEW pos, NEW l \in Coeffs \ {0}, CoeffPin(vec, pos, l) \in const_term[s]
  PROVE  <<vec, pos, l>> \in ForcedZero(s)
<1>. DEFINE c == CoeffPin(vec, pos, l)
            t == Term(vec, pos, Monomial(D - l))
<1>0. l \in Nat /\ l < D /\ D \in Nat /\ D - l \in Coeffs /\ l # 0
  BY DegreeAssumption DEF Coeffs
<1>1. c.phi = {t} /\ c.b0 = NoSym
  BY DEF CoeffPin, ConstTerm
<1>2. Cardinality(c.phi) = 1
  BY <1>1, FS_Singleton
<1>3. (D - (D - l)) % D = l
  BY <1>0
<1>4. Reads(t) = {<<vec, pos, l>>}
  BY <1>0, <1>3, MonomialReads
<1>5. c \in {d \in const_term[s] : Cardinality(d.phi) = 1 /\ d.b0 = NoSym}
  BY <1>1, <1>2
<1>6. <<vec, pos, l>> \in UNION {Reads(x) : x \in c.phi}
  BY <1>1, <1>4
<1>. HIDE DEF c, t
<1>. DEFINE P == UNION {UNION {{<<x.vec, x.pos, m>> : m \in Coeffs} : x \in d.phi} :
                       d \in {e \in full[s] : Cardinality(e.phi) = 1 /\ e.b = ZeroPoly}}
            R == UNION {UNION {Reads(x) : x \in d.phi} :
                       d \in {e \in const_term[s] : Cardinality(e.phi) = 1 /\ e.b0 = NoSym}}
<1>7. ForcedZero(s) = P \union R
  BY Zenon DEF ForcedZero
<1>8. <<vec, pos, l>> \in R
  BY <1>5, <1>6, Zenon
<1>. HIDE DEF P, R
<1>. QED  BY <1>7, <1>8

\* A tie is between coefficient l of the primed vector and its conjugate.
LEMMA TieTies ==
  ASSUME NEW s, NEW vec, NEW prime, vec # prime, NEW pos, NEW l \in Coeffs,
         Tie(vec, prime, pos, l) \in const_term[s]
  PROVE  {<<prime, pos, l>>, <<vec, pos, IF l = 0 THEN 0 ELSE D - l>>} \in Tied(s)
<1>. DEFINE c == Tie(vec, prime, pos, l)
            t == Term(vec, pos, Monomial(l))
            u == Term(prime, pos, IF l = 0 THEN NegPoly(One) ELSE Monomial(D - l))
<1>0. l \in Nat /\ l < D /\ D \in Nat /\ D >= 2 /\ 0 \in Coeffs /\ (l # 0 => D - l \in Coeffs)
  BY DegreeAssumption DEF Coeffs
<1>1. c.phi = {t, u} /\ c.b0 = NoSym
  BY DEF Tie, ConstTerm
<1>2. t # u
  BY DEF Term
<1>3. Cardinality(c.phi) = 2
  <2>1. c.phi = {t} \cup {u} /\ u \notin {t}
    BY <1>1, <1>2
  <2>. HIDE DEF c, t, u
  <2>2. IsFiniteSet({t}) /\ Cardinality({t}) = 1
    BY FS_Singleton
  <2>3. Cardinality({t} \cup {u}) = IF u \in {t} THEN Cardinality({t}) ELSE Cardinality({t}) + 1
    BY <2>2, FS_AddElement
  <2>. QED  BY <2>1, <2>2, <2>3
<1>4. (D - l) % D = IF l = 0 THEN 0 ELSE D - l
  BY <1>0
<1>5. (D - (D - l)) % D = l /\ (D - 0) % D = 0
  BY <1>0
<1>6. Reads(t) = {<<vec, pos, IF l = 0 THEN 0 ELSE D - l>>}
  BY <1>4, MonomialReads
<1>7. Reads(u) = {<<prime, pos, l>>}
  BY <1>0, <1>5, MonomialReads DEF One
<1>8. UNION {Reads(x) : x \in c.phi} = {<<prime, pos, l>>, <<vec, pos, IF l = 0 THEN 0 ELSE D - l>>}
  BY <1>1, <1>6, <1>7
<1>9. c \in {d \in const_term[s] : Cardinality(d.phi) = 2 /\ d.b0 = NoSym}
  BY <1>1, <1>3
<1>. HIDE DEF c, t, u
<1>. QED  BY <1>8, <1>9 DEF Tied

LEMMA VectorsOfKinds ==
  ASSUME Ended, NEW row \in Rows(L), NEW col \in Columns(L)
  PROVE  /\ VecOf(7, row, col) = v_idx(L)
         /\ \A t \in {1, 2, 5} : VecOf(t, row, col) \in Unprimed
<1>1. IsLayout(L) /\ L.num_y \in Nat /\ L.num_yp \in Nat
  BY EndedLayout
<1>2. VecOf(1, row, col) = row - 1 /\ VecOf(2, row, col) = L.num_y + (row - 1) /\ row \in 1..L.num_y
  BY <1>1, VecOfIs
<1>3. VecOf(1, row, col) \in 0..(2 * L.num_y - 1) /\ VecOf(2, row, col) \in 0..(2 * L.num_y - 1)
  BY <1>1, <1>2
<1>. QED  BY <1>3 DEF VecOf, Unprimed

\* One coefficient of a vector that is not v.
RigidAt(s, vec, pos, l) ==
  IF Symbol(<<vec, pos, l>>).sg = 0 THEN <<vec, pos, l>> \in ForcedZero(s)
  ELSE vec \in Unprimed \/ \E other \in {o \in Unprimed \X {pos} \X Coeffs :
                                          Symbol(o).of = Symbol(<<vec, pos, l>>).of} :
                                {<<vec, pos, l>>, other} \in Tied(s)

LEMMA RigidKind ==
  ASSUME Ended, NEW s \in Sides, NEW t \in 1..6, NEW row \in Rows(L), NEW col \in Columns(L),
         NEW k \in Sigs(L), NEW n \in Slots, NEW l \in Coeffs
  PROVE  RigidAt(s, VecOf(t, row, col), At(k, n), l)
<1>. DEFINE vec == VecOf(t, row, col)
            pos == At(k, n)
            cell == <<vec, pos, l>>
<1>0. ZeroPoly[l] = NoSym
  BY DEF ZeroPoly
<1>1. Symbol(cell) = w[vec][pos][l]
  BY DEF Symbol
<1>2. CASE ~Holds(t, k, row, col)
  <2>1. w[vec][pos] = ZeroPoly
    BY <1>2, WitnessIs
  <2>2. Symbol(cell).sg = 0
    BY <1>0, <1>1, <2>1 DEF NoSym
  <2>3. Pin(vec, pos) \in full[s]
    BY <1>2, PinnedUnheld
  <2>4. cell \in ForcedZero(s)
    BY <2>3, PinForces
  <2>. QED  BY <2>2, <2>4 DEF RigidAt
<1>3. CASE Holds(t, k, row, col)
  <2>1. Symbol(cell) = Placements(k)[t].slots[n][l]
    BY <1>1, <1>3, WitnessIs
  <2>2. CASE t \in {1, 2}
    <3>1. Symbol(cell).sg # 0
      BY <2>1, <2>2, Pieces, Signs
    <3>. QED  BY <2>2, <3>1, VectorsOfKinds DEF RigidAt
  <2>3. CASE t \in {5, 6} /\ ~(l = 0 /\ n \in Roots)
    <3>1. Symbol(cell).sg = 0
      BY <2>1, <2>3, Pieces DEF NoSym
    <3>2. cell \in ForcedZero(s)
      <4>1. CASE n \notin Roots
        BY <1>3, <2>3, <4>1, PinnedBeyond, PinForces
      <4>2. CASE n \in Roots /\ l # 0
        <5>1. CoeffPin(vec, pos, l) \in const_term[s]
          BY <1>3, <2>3, <4>2, PinnedBeyond
        <5>. QED  BY <4>2, <5>1, CoeffPinForces
      <4>. QED  BY <2>3, <4>1, <4>2
    <3>. QED  BY <3>1, <3>2 DEF RigidAt
  <2>4. CASE t = 5 /\ l = 0 /\ n \in Roots
    <3>1. Symbol(cell).sg # 0
      BY <2>1, <2>4, Pieces, Signs
    <3>. QED  BY <2>4, <3>1, VectorsOfKinds DEF RigidAt
  <2>5. CASE t \in {3, 4} \/ (t = 6 /\ l = 0 /\ n \in Roots)
    <3>. DEFINE u == IF t = 6 THEN 5 ELSE t - 2
                unp == VecOf(u, index(L, k), col)
                m == IF l = 0 THEN 0 ELSE D - l
                other == <<unp, pos, m>>
    <3>0. IsLayout(L) /\ L.num_y \in Nat /\ L.num_yp \in Nat
      BY EndedLayout
    <3>1. u \in {1, 2, 5} /\ u # t /\ index(L, k) \in Rows(L) /\ m \in Coeffs
      <4>1. index(L, k) \in Rows(L)
        BY <3>0, RowOf
      <4>2. m \in Coeffs
        BY DegreeAssumption DEF Coeffs
      <4>. QED  BY <2>5, <4>1, <4>2
    <3>2. Tie(unp, vec, pos, l) \in const_term[s]
      BY <1>3, <2>5, TiedToUnprimed
    <3>3. unp # vec
      <4>1. u \in 1..7 /\ t \in 1..7
        BY <3>1
      <4>. HIDE DEF u
      <4>. QED  BY <3>0, <3>1, <4>1, VecOfInjective
    <3>4. {cell, other} \in Tied(s)
      BY <3>2, <3>3, TieTies
    <3>5. unp \in Unprimed
      BY <3>1, VectorsOfKinds
    <3>6. Symbol(other) = Placements(k)[u].slots[n][m]
      <4>1. Holds(u, k, index(L, k), col)
        BY <3>1 DEF Holds
      <4>2. w[unp][pos] = Placements(k)[u].slots[n]
        <5>1. u \in 1..7
          BY <3>1
        <5>. HIDE DEF u
        <5>. QED  BY <3>1, <4>1, <5>1, WitnessIs
      <4>. QED  BY <4>2 DEF Symbol
    <3>7. Symbol(other).of = Symbol(cell).of
      <4>2. n + C * 0 = n /\ (l # 0 => D - l # 0 /\ D - l \in Coeffs)
        BY EmbedIndex
      <4>4. CASE t \in {3, 4}
        <5>1. PICK name \in {"s1", "s2"} :
                /\ Placements(k)[u].slots[n][m] = Sym(name, k, n + C * m)
                /\ Placements(k)[t].slots[n][l] =
                     IF l = 0 THEN Sym(name, k, n) ELSE Neg(Sym(name, k, n + C * (D - l)))
          <6>1. CASE t = 3
            BY <3>1, <6>1, Pieces
          <6>2. CASE t = 4
            BY <3>1, <6>2, Pieces
          <6>. QED  BY <4>4, <6>1, <6>2
        <5>. QED  BY <2>1, <3>6, <4>2, Signs, <5>1
      <4>5. CASE t = 6 /\ l = 0 /\ n \in Roots
        BY <2>1, <3>1, <3>6, <4>5, Pieces
      <4>. QED  BY <2>5, <4>4, <4>5
    <3>8. other \in {o \in Unprimed \X {pos} \X Coeffs : Symbol(o).of = Symbol(cell).of}
      BY <3>1, <3>5, <3>7
    <3>. HIDE DEF other, m, unp, u
    <3>9. \E o \in {o \in Unprimed \X {pos} \X Coeffs : Symbol(o).of = Symbol(cell).of} :
            {cell, o} \in Tied(s)
      BY <3>4, <3>8
    <3>10. Symbol(cell).sg # 0
      <4>. QED  BY <2>1, <2>5, Signs, Pieces
    <3>. QED  BY <3>9, <3>10 DEF RigidAt
  <2>. QED  BY <2>2, <2>3, <2>4, <2>5
<1>. QED  BY <1>2, <1>3

\* For every number of signatures: a coefficient that is zero in the honest
\* witness is forced to be zero by either statement, and every other one of a
\* primed vector is tied to its unprimed counterpart.
THEOREM WitnessIsRigid == Spec => []Rigid
<1>1. Ended => Rigid
  <2>1. SUFFICES ASSUME Ended, NEW s \in Sides, NEW vec \in Vectors(L) \ {v_idx(L)},
                        NEW p \in Positions(L), NEW l \in Coeffs
                 PROVE  RigidAt(s, vec, p, l)
    BY DEF Rigid, RigidAt
  <2>2. IsLayout(L) /\ L.num_y \in Nat /\ L.num_yp \in Nat /\ 1 \in Rows(L) /\ 1 \in Columns(L)
    BY <2>1, EndedLayout
  <2>3. PICK t \in 1..7, row \in Rows(L), col \in Columns(L) : vec = VecOf(t, row, col)
    BY <2>1, <2>2, VecOfOnto
  <2>4. t \in 1..6
    BY <2>1, <2>3, VectorsOfKinds
  <2>5. Owner(p) \in Sigs(L) /\ p % C \in Slots /\ p = At(Owner(p), p % C)
    BY <2>1, <2>2, OwnerOf
  <2>. QED  BY <2>1, <2>3, <2>4, <2>5, RigidKind
<1>2. PlaceInv /\ Blank /\ BuiltInv /\ ~Ended => Rigid
  BY DEF Ended, PlaceInv, BuiltInv, Rigid
<1>. QED  BY <1>1, <1>2, PlaceInvariant, BlankInvariant, BuiltInvariant, PTL

-----------------------------------------------------------------------------
(* The homogeneous constraints.                                            *)

LEMMA Wraps ==
  ASSUME NEW x \in Coeffs, NEW y \in Coeffs
  PROVE  /\ (x - y) % D = IF y <= x THEN x - y ELSE x - y + D
         /\ (x - y) % D \in Coeffs
<1>0. x \in 0..(D - 1) /\ y \in 0..(D - 1) /\ D \in Nat /\ D >= 2
  BY DegreeAssumption DEF Coeffs
<1>1. y <= x => (x - y) % D = x - y
  BY <1>0
<1>2. ~(y <= x) => (x - y) % D = x - y + D
  BY <1>0, Z3
<1>. QED  BY <1>0, <1>1, <1>2 DEF Coeffs

\* The coefficient of one term of a product.
Factor(u, l) == IF u <= l THEN 1 ELSE -1
Summand(p, a, l, at, u) ==
  [sg |-> p[u].sg * a[(l - u) % D].sg * Factor(u, l),
   of |-> <<p[u].of, a[(l - u) % D].of>>, at |-> <<at, u>>]

LEMMA ProductsAre ==
  ASSUME NEW p, NEW a, NEW l, NEW at
  PROVE  Products(p, a, l, at) =
           {Summand(p, a, l, at, u) : u \in {x \in Coeffs : p[x].sg # 0 /\ a[(l - x) % D].sg # 0}}
BY DEF Products, Summand, Factor

LEMMA NoProducts ==
  ASSUME NEW p, NEW a, NEW l, NEW at, \A x \in Coeffs : p[x].sg = 0 \/ a[(l - x) % D].sg = 0
  PROVE  Products(p, a, l, at) = {}
BY ProductsAre

LEMMA OneProduct ==
  ASSUME NEW p, NEW a, NEW l, NEW at, NEW e \in Coeffs,
         \A x \in Coeffs : p[x].sg # 0 <=> x = e
  PROVE  Products(p, a, l, at) =
           IF a[(l - e) % D].sg # 0 THEN {Summand(p, a, l, at, e)} ELSE {}
<1>1. CASE a[(l - e) % D].sg # 0
  <2>1. {x \in Coeffs : p[x].sg # 0 /\ a[(l - x) % D].sg # 0} = {e}
    BY <1>1
  <2>. QED  BY <1>1, <2>1, ProductsAre
<1>2. CASE ~(a[(l - e) % D].sg # 0)
  BY <1>2, NoProducts
<1>. QED  BY <1>1, <1>2

LEMMA MonomialIs ==
  ASSUME NEW e \in Coeffs
  PROVE  /\ \A x \in Coeffs : Monomial(e)[x].sg # 0 <=> x = e
         /\ \A x \in Coeffs : NegPoly(Monomial(e))[x].sg # 0 <=> x = e
         /\ Monomial(e)[e].sg = 1 /\ Monomial(e)[e].of = <<"one", 0, 0>>
         /\ NegPoly(Monomial(e))[e].sg = -1 /\ NegPoly(Monomial(e))[e].of = <<"one", 0, 0>>
<1>1. \A x \in Coeffs : Monomial(e)[x] = (IF x = e THEN Sym("one", 0, 0) ELSE NoSym)
  BY DEF Monomial
<1>2. \A x \in Coeffs : NegPoly(Monomial(e))[x] = Neg(Monomial(e)[x])
  BY DEF NegPoly
<1>. QED  BY <1>1, <1>2, Signs

\* A witness that is zero at a position meets its pin.
Zero(vec, pos) == \A l \in Coeffs : w[vec][pos][l].sg = 0

LEMMA LinearOne ==
  ASSUME NEW c, NEW vec, NEW pos, NEW p, c.phi = {Term(vec, pos, p)}, NEW l
  PROVE  Linear(c, l) = Products(p, w[vec][pos], l, <<vec, pos>>)
<1>. DEFINE t == Term(vec, pos, p)
<1>1. t.vec = vec /\ t.pos = pos /\ t.coef = p
  BY DEF Term
<1>. HIDE DEF t
<1>2. c.phi = {t}
  BY DEF t
<1>3. Linear(c, l) = Products(t.coef, w[t.vec][t.pos], l, <<t.vec, t.pos>>)
  BY <1>2 DEF Linear
<1>. QED  BY <1>1, <1>3

LEMMA LinearTwo ==
  ASSUME NEW c, NEW vec, NEW prime, NEW pos, NEW p, NEW q,
         c.phi = {Term(vec, pos, p), Term(prime, pos, q)}, NEW l
  PROVE  Linear(c, l) = Products(p, w[vec][pos], l, <<vec, pos>>)
                          \union Products(q, w[prime][pos], l, <<prime, pos>>)
<1>. DEFINE t == Term(vec, pos, p)
            u == Term(prime, pos, q)
<1>1. t.vec = vec /\ t.pos = pos /\ t.coef = p /\ u.vec = prime /\ u.pos = pos /\ u.coef = q
  BY DEF Term
<1>2. c.phi = {t, u}
  OBVIOUS
<1>. HIDE DEF t, u
<1>3. Linear(c, l) = Products(t.coef, w[t.vec][t.pos], l, <<t.vec, t.pos>>)
                       \union Products(u.coef, w[u.vec][u.pos], l, <<u.vec, u.pos>>)
  BY <1>2 DEF Linear
<1>. QED  BY <1>1, <1>3

LEMMA PinVanishes ==
  ASSUME NEW vec, NEW pos, Zero(vec, pos), NEW l \in Coeffs
  PROVE  Vanishes(Linear(Pin(vec, pos), l))
<1>. DEFINE c == Pin(vec, pos)
<1>1. c.phi = {Term(vec, pos, One)}
  BY DEF Pin, Full
<1>. HIDE DEF c
<1>2. Linear(c, l) = Products(One, w[vec][pos], l, <<vec, pos>>)
  BY <1>1, LinearOne
<1>3. \A x \in Coeffs : w[vec][pos][(l - x) % D].sg = 0
  BY Wraps DEF Zero
<1>4. Linear(c, l) = {}
  BY <1>2, <1>3, NoProducts
<1>. QED  BY <1>4 DEF Vanishes, c

LEMMA CoeffPinVanishes ==
  ASSUME NEW vec, NEW pos, NEW l \in Coeffs \ {0}, w[vec][pos][l].sg = 0
  PROVE  Vanishes(Linear(CoeffPin(vec, pos, l), 0))
<1>0. 0 \in Coeffs /\ D - l \in Coeffs /\ D - (D - l) = l /\ D - l > 0 /\ D \in Nat /\ l \in Nat
  BY DegreeAssumption DEF Coeffs
<1>. DEFINE c == CoeffPin(vec, pos, l)
            e == D - l
            P == Monomial(e)
<1>1. c.phi = {Term(vec, pos, P)}
  BY DEF CoeffPin, ConstTerm
<1>3. (0 - e) % D = l /\ e \in Coeffs
  BY <1>0, Wraps
<1>. HIDE DEF c, e
<1>4. \A x \in Coeffs : P[x].sg # 0 <=> x = e
  BY <1>3, MonomialIs
<1>. HIDE DEF P
<1>5. Linear(c, 0) = Products(P, w[vec][pos], 0, <<vec, pos>>)
  BY <1>1, LinearOne
<1>6. Linear(c, 0) = {}
  <2>1. w[vec][pos][(0 - e) % D].sg = 0
    BY <1>3
  <2>. QED  BY <1>3, <1>4, <1>5, <2>1, OneProduct
<1>. QED  BY <1>6 DEF Vanishes, c

LEMMA PairVanishes ==
  ASSUME NEW t, NEW u, t.of = u.of, (t.sg = 1 /\ u.sg = -1) \/ (t.sg = -1 /\ u.sg = 1)
  PROVE  Vanishes({t, u})
<1>1. ASSUME NEW p, NEW n, p.of = n.of, p.sg = 1, n.sg = -1
      PROVE  Vanishes({p, n})
  <2>1. \A x \in {p, n} : /\ {z \in {p, n} : z.of = x.of /\ z.sg = 1} = {p}
                           /\ {z \in {p, n} : z.of = x.of /\ z.sg = -1} = {n}
    BY <1>1
  <2>2. Cardinality({p}) = 1 /\ Cardinality({n}) = 1
    BY FS_Singleton
  <2>. QED  BY <2>1, <2>2 DEF Vanishes
<1>2. {u, t} = {t, u}
  OBVIOUS
<1>. QED  BY <1>1, <1>2

\* A tie holds of a coefficient and its conjugate.
LEMMA TieVanishes ==
  ASSUME NEW vec, NEW prime, NEW pos, NEW l \in Coeffs, NEW name, NEW j, NEW x,
         w[vec][pos][IF l = 0 THEN 0 ELSE D - l] = Sym(name, j, x),
         w[prime][pos][l] = IF l = 0 THEN Sym(name, j, x) ELSE Neg(Sym(name, j, x))
  PROVE  Vanishes(Linear(Tie(vec, prime, pos, l), 0))
<1>. DEFINE e == IF l = 0 THEN 0 ELSE D - l
            P == IF l = 0 THEN NegPoly(One) ELSE Monomial(D - l)
            T == Products(Monomial(l), w[vec][pos], 0, <<vec, pos>>)
            U == Products(P, w[prime][pos], 0, <<prime, pos>>)
            t == Summand(Monomial(l), w[vec][pos], 0, <<vec, pos>>, l)
            u == Summand(P, w[prime][pos], 0, <<prime, pos>>, e)
<1>0. 0 \in Coeffs /\ e \in Coeffs /\ D \in Nat /\ l \in Nat /\ l < D /\ (l # 0 => e = D - l /\ e > 0)
  BY DegreeAssumption DEF Coeffs
<1>1. Linear(Tie(vec, prime, pos, l), 0) = T \union U
  <2>. DEFINE c == Tie(vec, prime, pos, l)
  <2>1. c.phi = {Term(vec, pos, Monomial(l)), Term(prime, pos, P)}
    BY DEF Tie, ConstTerm
  <2>. HIDE DEF c, P
  <2>2. Linear(c, 0) = T \union U
    BY <2>1, LinearTwo
  <2>. QED  BY <2>2 DEF c
<1>2. (0 - l) % D = e /\ (0 - e) % D = l
  <2>1. (0 - l) % D = IF l <= 0 THEN 0 - l ELSE 0 - l + D
    BY <1>0, Wraps
  <2>2. (0 - e) % D = IF e <= 0 THEN 0 - e ELSE 0 - e + D
    BY <1>0, Wraps
  <2>. QED  BY <1>0, <2>1, <2>2
<1>3. T = {t}
  <2>1. w[vec][pos][(0 - l) % D].sg = 1
    BY <1>2, Signs
  <2>. QED  BY <1>0, <2>1, MonomialIs, OneProduct
<1>4. (\A y \in Coeffs : P[y].sg # 0 <=> y = e) /\ P[e].sg = (IF l = 0 THEN -1 ELSE 1) /\ P[e].of = <<"one", 0, 0>>
  <2>1. CASE l = 0
    BY <1>0, <2>1, MonomialIs DEF One
  <2>2. CASE l # 0
    BY <1>0, <2>2, MonomialIs
  <2>. QED  BY <2>1, <2>2
<1>5. w[prime][pos][(0 - e) % D].sg = (IF l = 0 THEN 1 ELSE -1) /\ w[prime][pos][l].of = <<name, j, x>>
  BY <1>2, Signs
<1>6. U = {u}
  <2>1. w[prime][pos][(0 - e) % D].sg # 0
    BY <1>5
  <2>. HIDE DEF P, e
  <2>. QED  BY <1>0, <1>4, <2>1, OneProduct
<1>7. t.of = <<<<"one", 0, 0>>, <<name, j, x>>>> /\ t.sg = IF l = 0 THEN 1 ELSE -1
  <2>1. /\ Monomial(l)[l].sg = 1 /\ Monomial(l)[l].of = <<"one", 0, 0>>
        /\ w[vec][pos][e].sg = 1 /\ w[vec][pos][e].of = <<name, j, x>>
    BY MonomialIs, Signs
  <2>2. Factor(l, 0) = IF l = 0 THEN 1 ELSE -1
    BY <1>0 DEF Factor
  <2>3. t.of = <<Monomial(l)[l].of, w[vec][pos][e].of>>
    BY <1>2 DEF Summand
  <2>4. t.sg = Monomial(l)[l].sg * w[vec][pos][e].sg * Factor(l, 0)
    BY <1>2 DEF Summand
  <2>. HIDE DEF t, e
  <2>. QED  BY <2>1, <2>2, <2>3, <2>4
<1>8. u.of = <<<<"one", 0, 0>>, <<name, j, x>>>> /\ u.sg = IF l = 0 THEN -1 ELSE 1
  <2>2. Factor(e, 0) = IF l = 0 THEN 1 ELSE -1
    BY <1>0 DEF Factor
  <2>3. u.of = <<P[e].of, w[prime][pos][l].of>>
    BY <1>2 DEF Summand
  <2>4. u.sg = P[e].sg * w[prime][pos][l].sg * Factor(e, 0)
    BY <1>2 DEF Summand
  <2>5. w[prime][pos][l].sg = IF l = 0 THEN 1 ELSE -1
    BY <1>2, <1>5
  <2>. HIDE DEF u, P, e
  <2>. QED  BY <1>4, <1>5, <2>2, <2>3, <2>4, <2>5
<1>. HIDE DEF t, u, T, U
<1>9. Vanishes({t, u})
  BY <1>7, <1>8, PairVanishes
<1>10. T \union U = {t, u}
  BY <1>3, <1>6
<1>. QED  BY <1>1, <1>9, <1>10

\* The full constraints are verification equations and pins of positions that
\* the witness leaves zero.
ZeroPosition(vec, pos) ==
  \E t \in 1..6, row \in Rows(L), col \in Columns(L), k \in Sigs(L), n \in Slots :
    /\ vec = VecOf(t, row, col) /\ pos = At(k, n)
    /\ ~Holds(t, k, row, col) \/ (t \in {5, 6} /\ n \notin Roots)

LEMMA Unheld ==
  ASSUME Ended, NEW t \in 1..6, NEW row \in Rows(L), NEW col \in Columns(L), NEW k \in Sigs(L), NEW n \in Slots,
         ~Holds(t, k, row, col) \/ (t \in {5, 6} /\ n \notin Roots)
  PROVE  ZeroPosition(VecOf(t, row, col), At(k, n))
BY DEF ZeroPosition

LEMMA ZeroPositionsAreZero ==
  ASSUME Ended, NEW vec, NEW pos, ZeroPosition(vec, pos)
  PROVE  Zero(vec, pos)
<1>1. PICK t \in 1..6, row \in Rows(L), col \in Columns(L), k \in Sigs(L), n \in Slots :
        /\ vec = VecOf(t, row, col) /\ pos = At(k, n)
        /\ ~Holds(t, k, row, col) \/ (t \in {5, 6} /\ n \notin Roots)
  BY DEF ZeroPosition
<1>2. CASE ~Holds(t, k, row, col)
  <2>1. w[vec][pos] = ZeroPoly
    BY <1>1, <1>2, WitnessIs
  <2>. QED  BY <2>1, Signs DEF Zero, ZeroPoly
<1>3. CASE Holds(t, k, row, col)
  <2>1. w[vec][pos] = Placements(k)[t].slots[n]
    BY <1>1, <1>3, WitnessIs
  <2>2. \A l \in Coeffs : Placements(k)[t].slots[n][l] = NoSym
    BY <1>1, <1>3, Pieces
  <2>. QED  BY <2>1, <2>2, Signs DEF Zero
<1>. QED  BY <1>2, <1>3

LEMMA FullKinds ==
  ASSUME Ended, NEW s \in Sides, NEW c \in full[s]
  PROVE  \/ \E j \in Sigs(L), n \in Slots : c = PublicEq(L, j, n)
         \/ \E vec, pos : c = Pin(vec, pos) /\ ZeroPosition(vec, pos)
<1>1. PICK loop, k : Pushed(s, loop, k) /\ c \in Fulls(L, loop, k)
  BY Origins DEF Ended
<1>2. loop \in Loops /\ k \in PassesOf(L, loop) /\ IsLayout(L) /\ 1 \in Rows(L) /\ 1 \in Columns(L)
  BY <1>1, EndedLayout DEF Pushed
<1>3. ASSUME NEW row \in Rows(L), NEW j \in Sigs(L) \ ActiveInRow(L, row), NEW n \in Slots
      PROVE  \A t \in {1, 2, 5} : ZeroPosition(VecOf(t, row, 1), At(j, n))
  <2>1. row \in Nat \ {0}
    BY EndedLayout DEF Rows
  <2>2. index(L, j) # row
    BY <1>2, <2>1, ActiveIsRow
  <2>3. \A t \in {1, 2, 5} : t \in 1..6 /\ ~Holds(t, j, row, 1)
    BY <2>2 DEF Holds
  <2>. QED  BY <1>2, <2>3, Unheld
<1>4. ASSUME NEW col \in Columns(L), NEW j \in Sigs(L) \ ActiveInColumn(L, col), NEW n \in Slots
      PROVE  \A t \in {3, 4, 6} : ZeroPosition(VecOf(t, 1, col), At(j, n))
  <2>1. index_prime(L, j) # col
    BY DEF ActiveInColumn
  <2>2. \A t \in {3, 4, 6} : t \in 1..6 /\ ~Holds(t, j, 1, col)
    BY <2>1 DEF Holds
  <2>. QED  BY <1>2, <2>2, Unheld
<1>5. ASSUME NEW t \in {5, 6}, NEW row \in Rows(L), NEW col \in Columns(L), NEW j \in Sigs(L),
             NEW n \in Slots \ Roots
      PROVE  ZeroPosition(VecOf(t, row, col), At(j, n))
  BY Unheld
<1>6. ASSUME NEW row, NEW col
      PROVE  /\ VecOf(1, row, col) = y_idx(L, row, 1) /\ VecOf(2, row, col) = y_idx(L, row, 2)
             /\ VecOf(3, row, col) = yp_idx(L, col, 1) /\ VecOf(4, row, col) = yp_idx(L, col, 2)
             /\ VecOf(5, row, col) = e_idx(L, row) /\ VecOf(6, row, col) = ep_idx(L, col)
  BY DEF VecOf
<1>7. CASE loop = "falcon"
  BY <1>1, <1>2, <1>7 DEF Fulls, PassesOf
<1>8. CASE loop = "y"
  <2>1. k \in Rows(L)
    BY <1>2, <1>8 DEF PassesOf
  <2>2. PICK x \in {1, 2}, j \in Sigs(L) \ ActiveInRow(L, k), n \in Slots : c = Pin(y_idx(L, k, x), At(j, n))
    BY <1>1, <1>8 DEF Fulls, Pins
  <2>3. y_idx(L, k, x) = VecOf(x, k, 1)
    BY <1>6
  <2>4. ZeroPosition(VecOf(x, k, 1), At(j, n))
    BY <1>3, <2>1
  <2>. QED  BY <2>2, <2>3, <2>4
<1>9. CASE loop = "yp"
  <2>1. k \in Columns(L)
    BY <1>2, <1>9 DEF PassesOf
  <2>2. PICK x \in {1, 2}, j \in Sigs(L) \ ActiveInColumn(L, k), n \in Slots : c = Pin(yp_idx(L, k, x), At(j, n))
    BY <1>1, <1>9 DEF Fulls, Pins
  <2>3. yp_idx(L, k, x) = VecOf(x + 2, 1, k)
    BY <1>6
  <2>4. ZeroPosition(VecOf(x + 2, 1, k), At(j, n))
    BY <1>4, <2>1
  <2>. QED  BY <2>2, <2>3, <2>4
<1>10. CASE loop = "e"
  <2>1. k \in Rows(L)
    BY <1>2, <1>10 DEF PassesOf
  <2>2. \/ \E j \in Sigs(L) \ ActiveInRow(L, k), n \in Slots : c = Pin(e_idx(L, k), At(j, n))
        \/ \E j \in Sigs(L), n \in Slots \ Roots : c = Pin(e_idx(L, k), At(j, n))
    BY <1>1, <1>10 DEF Fulls, Pins, ActiveInRow
  <2>3. e_idx(L, k) = VecOf(5, k, 1)
    BY <1>6
  <2>. QED  BY <1>2, <1>3, <1>5, <2>1, <2>2, <2>3
<1>11. CASE loop = "ep"
  <2>1. k \in Columns(L)
    BY <1>2, <1>11 DEF PassesOf, Loops
  <2>2. \/ \E j \in Sigs(L) \ ActiveInColumn(L, k), n \in Slots : c = Pin(ep_idx(L, k), At(j, n))
        \/ \E j \in Sigs(L), n \in Slots \ Roots : c = Pin(ep_idx(L, k), At(j, n))
    BY <1>1, <1>11 DEF Fulls, Pins, ActiveInColumn
  <2>3. ep_idx(L, k) = VecOf(6, 1, k)
    BY <1>6
  <2>. QED  BY <1>2, <1>4, <1>5, <2>1, <2>2, <2>3
<1>12. CASE loop = "squares"
  BY <1>1, <1>12 DEF Fulls
<1>. QED  BY <1>2, <1>7, <1>8, <1>9, <1>10, <1>11, <1>12 DEF Loops

LEMMA FullHomogeneous ==
  ASSUME Ended, NEW s \in Sides, NEW c \in full[s], c.b = ZeroPoly, NEW l \in Coeffs
  PROVE  Vanishes(Linear(c, l))
<1>1. ASSUME NEW j \in Sigs(L), NEW n \in Slots, c = PublicEq(L, j, n)
      PROVE  FALSE
  <2>1. c.b = embed(Element("c", j))[n]
    BY <1>1 DEF PublicEq, Full
  <2>2. 0 \in Coeffs /\ n + C * 0 \in RCoeffs
    BY DegreeAssumption, EmbedIndex DEF Coeffs
  <2>3. c.b[0] = Sym("c", j, n + C * 0)
    BY <2>1, <2>2, ConjugateIs DEF Element
  <2>4. c.b[0] = NoSym
    BY <2>2 DEF ZeroPoly
  <2>. QED  BY <2>3, <2>4, Signs
<1>2. PICK vec, pos : c = Pin(vec, pos) /\ ZeroPosition(vec, pos)
  BY <1>1, FullKinds
<1>. QED  BY <1>2, ZeroPositionsAreZero, PinVanishes

\* The constant-term constraints are norms, ties of a coefficient to its
\* conjugate and pins of coefficients that are zero.
LEMMA ConstHomogeneous ==
  ASSUME Ended, NEW s \in Sides, NEW c \in const_term[s], c.a = {}
  PROVE  Vanishes(Linear(c, 0))
<1>1. PICK loop, k : Pushed(s, loop, k) /\ c \in ConstTerms(L, loop, k)
  BY Origins DEF Ended
<1>2. loop \in Loops /\ k \in PassesOf(L, loop) /\ IsLayout(L) /\ 1 \in Rows(L) /\ 1 \in Columns(L)
      /\ Roots \subseteq Slots
  BY <1>1, EndedLayout DEF Pushed
<1>3. ASSUME NEW t \in {5, 6}, NEW row \in Rows(L), NEW col \in Columns(L), NEW j \in Sigs(L), NEW n \in Roots,
             NEW l \in Coeffs \ {0}, c = CoeffPin(VecOf(t, row, col), At(j, n), l)
      PROVE  Vanishes(Linear(c, 0))
  <2>1. n \in Slots
    BY <1>2
  <2>2. w[VecOf(t, row, col)][At(j, n)][l].sg = 0
    <3>1. CASE Holds(t, j, row, col)
      <4>1. w[VecOf(t, row, col)][At(j, n)] = Placements(j)[t].slots[n]
        BY <2>1, <3>1, WitnessIs
      <4>2. Placements(j)[t].slots[n][l] = NoSym
        BY <2>1, Pieces
      <4>. QED  BY <4>1, <4>2, Signs
    <3>2. CASE ~Holds(t, j, row, col)
      <4>1. w[VecOf(t, row, col)][At(j, n)] = ZeroPoly
        BY <2>1, <3>2, WitnessIs
      <4>. QED  BY <4>1, Signs DEF ZeroPoly
    <3>. QED  BY <3>1, <3>2
  <2>. QED  BY <1>3, <2>2, CoeffPinVanishes
<1>4. ASSUME NEW t \in {3, 4, 6}, NEW col \in Columns(L), NEW j \in Sigs(L), index_prime(L, j) = col,
             NEW n \in Slots, NEW l \in Coeffs, t = 6 => l = 0 /\ n \in Roots,
             c = Tie(VecOf(IF t = 6 THEN 5 ELSE t - 2, index(L, j), col), VecOf(t, 1, col), At(j, n), l)
      PROVE  Vanishes(Linear(c, 0))
  <2>. DEFINE u == IF t = 6 THEN 5 ELSE t - 2
              m == IF l = 0 THEN 0 ELSE D - l
              vec == VecOf(u, index(L, j), col)
              prime == VecOf(t, 1, col)
              pos == At(j, n)
  <2>1. u \in {1, 2, 5} /\ u \in 1..7 /\ index(L, j) \in Rows(L) /\ m \in Coeffs
    BY <1>2, RowOf, DegreeAssumption DEF Coeffs
  <2>2. w[vec][pos] = Placements(j)[u].slots[n]
    <3>1. Holds(u, j, index(L, j), col)
      BY <2>1 DEF Holds
    <3>. HIDE DEF u
    <3>. QED  BY <2>1, <3>1, WitnessIs
  <2>3. w[prime][pos] = Placements(j)[t].slots[n]
    <3>1. Holds(t, j, 1, col)
      BY <1>4 DEF Holds
    <3>. QED  BY <1>2, <3>1, WitnessIs
  <2>4. PICK name \in {"s1", "s2", "eps"} :
          /\ Placements(j)[u].slots[n][m] = Sym(name, j, n + C * m)
          /\ Placements(j)[t].slots[n][l] =
               IF l = 0 THEN Sym(name, j, n + C * m) ELSE Neg(Sym(name, j, n + C * m))
    <3>1. l = 0 => m = 0 /\ n + C * m = n
      BY EmbedIndex
    <3>2. l # 0 => m = D - l
      OBVIOUS
    <3>3. CASE t = 3
      <4>1. Placements(j)[1].slots[n][m] = Sym("s1", j, n + C * m)
        BY <2>1, Pieces
      <4>2. Placements(j)[3].slots[n][l] = IF l = 0 THEN Sym("s1", j, n) ELSE Neg(Sym("s1", j, n + C * (D - l)))
        BY Pieces
      <4>. QED  BY <3>1, <3>2, <3>3, <4>1, <4>2
    <3>4. CASE t = 4
      <4>1. Placements(j)[2].slots[n][m] = Sym("s2", j, n + C * m)
        BY <2>1, Pieces
      <4>2. Placements(j)[4].slots[n][l] = IF l = 0 THEN Sym("s2", j, n) ELSE Neg(Sym("s2", j, n + C * (D - l)))
        BY Pieces
      <4>. QED  BY <3>1, <3>2, <3>4, <4>1, <4>2
    <3>5. CASE t = 6
      <4>1. l = 0 /\ n \in Roots
        BY <1>4, <3>5
      <4>2. Placements(j)[5].slots[n][m] = Sym("eps", j, n) /\ Placements(j)[6].slots[n][l] = Sym("eps", j, n)
        BY <2>1, <3>1, <4>1, Pieces
      <4>. QED  BY <3>1, <3>5, <4>1, <4>2
    <3>. QED  BY <3>3, <3>4, <3>5
  <2>. DEFINE x == n + C * m
  <2>5. w[vec][pos][IF l = 0 THEN 0 ELSE D - l] = Sym(name, j, x)
    BY <2>2, <2>4
  <2>6. w[prime][pos][l] = IF l = 0 THEN Sym(name, j, x) ELSE Neg(Sym(name, j, x))
    BY <2>3, <2>4
  <2>7. c = Tie(vec, prime, pos, l)
    BY <1>4
  <2>. HIDE DEF x, vec, prime, pos
  <2>8. Vanishes(Linear(Tie(vec, prime, pos, l), 0))
    BY <2>5, <2>6, TieVanishes
  <2>. QED  BY <2>7, <2>8
<1>6. ASSUME NEW row, NEW col
      PROVE  /\ VecOf(1, row, col) = y_idx(L, row, 1) /\ VecOf(2, row, col) = y_idx(L, row, 2)
             /\ VecOf(3, row, col) = yp_idx(L, col, 1) /\ VecOf(4, row, col) = yp_idx(L, col, 2)
             /\ VecOf(5, row, col) = e_idx(L, row) /\ VecOf(6, row, col) = ep_idx(L, col)
  BY DEF VecOf
<1>7. CASE loop = "squares"
  <2>1. c.a # {}
    BY <1>1, <1>7 DEF ConstTerms, NormOf, ConstTerm
  <2>. QED  BY <2>1
<1>8. CASE loop = "yp"
  <2>1. k \in Columns(L)
    BY <1>2, <1>8 DEF PassesOf
  <2>2. PICK j \in ActiveInColumn(L, k), x \in {1, 2}, n \in Slots, l \in Coeffs :
          c = Tie(y_idx(L, index(L, j), x), yp_idx(L, k, x), At(j, n), l)
    BY <1>1, <1>8 DEF ConstTerms, YTies
  <2>3. j \in Sigs(L) /\ index_prime(L, j) = k
    BY DEF ActiveInColumn
  <2>4. x + 2 \in {3, 4, 6} /\ x + 2 # 6 /\ (x + 2) - 2 = x
        /\ y_idx(L, index(L, j), x) = VecOf(x, index(L, j), k) /\ yp_idx(L, k, x) = VecOf(x + 2, 1, k)
    BY <1>6
  <2>5. c = Tie(VecOf(IF x + 2 = 6 THEN 5 ELSE (x + 2) - 2, index(L, j), k), VecOf(x + 2, 1, k), At(j, n), l)
    BY <2>2, <2>4
  <2>. QED  BY <1>4, <2>1, <2>3, <2>4, <2>5
<1>9. CASE loop = "e"
  <2>1. k \in Rows(L)
    BY <1>2, <1>9 DEF PassesOf
  <2>2. PICK j \in ActiveInRow(L, k), n \in Roots, l \in Coeffs \ {0} : c = CoeffPin(e_idx(L, k), At(j, n), l)
    BY <1>1, <1>9 DEF ConstTerms, CoeffPins
  <2>. QED  BY <1>2, <1>3, <1>6, <2>1, <2>2 DEF ActiveInRow
<1>10. CASE loop = "ep"
  <2>1. k \in Columns(L)
    BY <1>2, <1>10 DEF PassesOf, Loops
  <2>2. CASE c \in CoeffPins(ep_idx(L, k), ActiveInColumn(L, k), Roots)
    <3>1. PICK j \in ActiveInColumn(L, k), n \in Roots, l \in Coeffs \ {0} : c = CoeffPin(ep_idx(L, k), At(j, n), l)
      BY <2>2 DEF CoeffPins
    <3>. QED  BY <1>2, <1>3, <1>6, <2>1, <3>1 DEF ActiveInColumn
  <2>3. CASE c \in ETies(L, k)
    <3>1. PICK j \in ActiveInColumn(L, k), n \in Roots :
            c = Tie(e_idx(L, index(L, j)), ep_idx(L, k), At(j, n), 0)
      BY <2>3 DEF ETies
    <3>2. j \in Sigs(L) /\ index_prime(L, j) = k /\ n \in Slots /\ 0 \in Coeffs
      BY <1>2, DegreeAssumption DEF ActiveInColumn, Coeffs
    <3>3. c = Tie(VecOf(IF 6 = 6 THEN 5 ELSE 6 - 2, index(L, j), k), VecOf(6, 1, k), At(j, n), 0)
      BY <1>6, <3>1
    <3>. QED  BY <1>4, <2>1, <3>2, <3>3
  <2>. QED  BY <1>1, <1>10, <2>2, <2>3 DEF ConstTerms
<1>11. CASE loop \in {"falcon", "y"}
  BY <1>1, <1>11 DEF ConstTerms
<1>. QED  BY <1>2, <1>7, <1>8, <1>9, <1>10, <1>11 DEF Loops

-----------------------------------------------------------------------------
(* The norms.                                                              *)

\* The terms of T are those of S when dropping the tags is one to one.
LEMMA ConsistsOf ==
  ASSUME NEW T, NEW S, IsFiniteSet(S), {[sg |-> t.sg, of |-> t.of] : t \in T} = S,
         \A t \in T : \A u \in T : t.sg = u.sg /\ t.of = u.of => t = u
  PROVE  Consists(T, S)
<1>. DEFINE drop(t) == [sg |-> t.sg, of |-> t.of]
            f == [t \in T |-> drop(t)]
<1>1. \A t \in T, u \in T : drop(t) = drop(u) => t = u
  <2>1. \A t : drop(t).sg = t.sg /\ drop(t).of = t.of
    OBVIOUS
  <2>. HIDE DEF drop
  <2>. QED  BY <2>1
<1>2. {drop(t) : t \in T} = S
  OBVIOUS
<1>. HIDE DEF drop
<1>3. f \in Injection(T, S)
  BY <1>1, <1>2 DEF Injection, IsInjective
<1>4. f \in Surjection(T, S)
  BY <1>2 DEF Surjection
<1>. HIDE DEF f
<1>5. Cardinality(T) = Cardinality(S)
  BY <1>3, <1>4, FS_Injection
<1>. QED  BY <1>2, <1>5 DEF Consists, drop

LEMMA Finiteness ==
  /\ IsFiniteSet(RCoeffs) /\ 0..3 \subseteq RCoeffs
  /\ \A j : IsFiniteSet(OwnSymbols(j))
<1>0. C \in Nat /\ C >= 4 /\ D \in Nat /\ D >= 2 /\ C * D \in Nat
  <2>1. C \in Nat /\ C >= 4 /\ D \in Nat /\ D >= 2
    BY SlotsAssumption, DegreeAssumption
  <2>. QED  BY <2>1, SMT
<1>1. IsFiniteSet(RCoeffs)
  BY <1>0, FS_Interval DEF RCoeffs
<1>2. 0..3 \subseteq RCoeffs
  <2>1. \A n \in 0..3 : n \in Roots /\ n \in Slots
    BY <1>0 DEF Roots, Slots
  <2>2. 0 \in Coeffs
    BY <1>0 DEF Coeffs
  <2>. QED  BY <2>1, <2>2, EmbedIndex
<1>3. ASSUME NEW j
      PROVE  IsFiniteSet(OwnSymbols(j))
  <2>. DEFINE N == {"s1", "s2"} \cup {"eps"}
              P == N \X RCoeffs
              f == [x \in P |-> <<x[1], j, x[2]>>]
              Q == {f[x] : x \in P}
  <2>1. IsFiniteSet(N)
    <3>1. IsFiniteSet({"s1"} \cup {"s2"})
      BY FS_Singleton, FS_AddElement
    <3>2. {"s1", "s2"} = {"s1"} \cup {"s2"}
      OBVIOUS
    <3>. QED  BY <3>1, <3>2, FS_AddElement
  <2>. HIDE DEF N
  <2>2. IsFiniteSet(P)
    BY <1>1, <2>1, FS_Product
  <2>3. f \in Surjection(P, Q)
    BY DEF Surjection
  <2>4. IsFiniteSet(Q)
    <3>. HIDE DEF f, P, Q
    <3>. QED  BY <2>2, <2>3, FS_Surjection
  <2>5. OwnSymbols(j) \subseteq Q
    <3>1. ASSUME NEW name \in N, NEW n \in RCoeffs
          PROVE  <<name, j, n>> \in Q
      <4>1. <<name, n>> \in P /\ f[<<name, n>>] = <<name, j, n>>
        OBVIOUS
      <4>. HIDE DEF f, P
      <4>. QED  BY <4>1
    <3>. HIDE DEF Q
    <3>2. "s1" \in N /\ "s2" \in N /\ "eps" \in N
      BY DEF N
    <3>. QED  BY <1>2, <3>1, <3>2 DEF OwnSymbols
  <2>. HIDE DEF Q
  <2>. QED  BY <2>4, <2>5, FS_Subset
<1>. QED  BY <1>1, <1>2, <1>3

\* The pieces of a norm: kind, name, and the kind of the conjugate.
NameOf(t) == IF t = 1 THEN "s1" ELSE IF t = 2 THEN "s2" ELSE "eps"
Mate(t) == IF t = 5 THEN 6 ELSE t + 2
Kept(t, n, u) == t = 5 => u = 0 /\ n \in Roots
PairOf(t, j) ==
  <<VecOf(t, index(L, j), index_prime(L, j)), VecOf(Mate(t), index(L, j), index_prime(L, j))>>
Squared(t, j, n, u) == <<NameOf(t), j, n + C * u>>

\* The square of the coefficient at exponent u in slot n of that piece.
SquareOf(t, j, n, u) ==
  [sg |-> 1, of |-> <<Squared(t, j, n, u), Squared(t, j, n, u)>>,
   at |-> <<<<PairOf(t, j), At(j, n)>>, u>>]

LEMMA MirroredExponent ==
  ASSUME NEW u \in Coeffs
  PROVE  /\ 0 \in Coeffs
         /\ (0 - u) % D = (IF u = 0 THEN 0 ELSE D - u)
         /\ (0 - u) % D \in Coeffs
         /\ u # 0 => D - u # 0 /\ D - (D - u) = u
         /\ Factor(u, 0) = IF u = 0 THEN 1 ELSE -1
<1>1. D \in Nat /\ D >= 2 /\ u \in 0..(D - 1) /\ 0 \in Coeffs
  BY DegreeAssumption DEF Coeffs
<1>2. /\ (0 - u) % D = IF u <= 0 THEN 0 - u ELSE 0 - u + D
      /\ (0 - u) % D \in Coeffs
  BY <1>1, Wraps
<1>3. u <= 0 <=> u = 0
  BY <1>1
<1>. QED  BY <1>1, <1>2, <1>3 DEF Factor

\* In its own window, a piece and its conjugate give the squares, each with a
\* plus: the sign of the conjugate meets that of the wrap.
LEMMA SquareSummand ==
  ASSUME Ended, NEW j \in Sigs(L), NEW t \in {1, 2, 5}, NEW n \in Slots, NEW u \in Coeffs
  PROVE  LET a == w[PairOf(t, j)[1]][At(j, n)]
             b == w[PairOf(t, j)[2]][At(j, n)]
         IN /\ Kept(t, n, u) => /\ a[u].sg # 0 /\ b[(0 - u) % D].sg # 0
                                /\ Summand(a, b, 0, <<PairOf(t, j), At(j, n)>>, u) = SquareOf(t, j, n, u)
            /\ ~Kept(t, n, u) => a[u].sg = 0
<1>. DEFINE a == w[PairOf(t, j)[1]][At(j, n)]
            b == w[PairOf(t, j)[2]][At(j, n)]
            row == index(L, j)
            col == index_prime(L, j)
            d == (0 - u) % D
            x == Sym(NameOf(t), j, n + C * u)
            at == <<PairOf(t, j), At(j, n)>>
<1>1. row \in Rows(L) /\ col \in Columns(L)
  BY EndedLayout, RowOf, ColumnOf
<1>2. t \in 1..7 /\ Mate(t) \in 1..7 /\ Holds(t, j, row, col) /\ Holds(Mate(t), j, row, col)
  BY DEF Holds, Mate
<1>. HIDE DEF row, col
<1>3. a = Placements(j)[t].slots[n]
  BY <1>1, <1>2, WitnessIs DEF PairOf, row, col
<1>4. b = Placements(j)[Mate(t)].slots[n]
  BY <1>1, <1>2, WitnessIs DEF PairOf, row, col
<1>5. /\ d = (IF u = 0 THEN 0 ELSE D - u) /\ d \in Coeffs
      /\ u # 0 => d # 0 /\ D - d = u
      /\ Factor(u, 0) = IF u = 0 THEN 1 ELSE -1
  BY MirroredExponent
<1>6. n + C * 0 = n
  BY EmbedIndex
<1>. HIDE DEF a, b, d
<1>7. ASSUME Kept(t, n, u)
      PROVE  a[u] = x /\ b[d] = IF u = 0 THEN x ELSE Neg(x)
  <2>1. CASE t = 1
    <3>1. NameOf(t) = "s1" /\ Mate(t) = 3
      BY <2>1 DEF NameOf, Mate
    <3>2. a[u] = Sym("s1", j, n + C * u)
      BY <1>3, <2>1, Pieces
    <3>3. b[d] = IF d = 0 THEN Sym("s1", j, n) ELSE Neg(Sym("s1", j, n + C * (D - d)))
      BY <1>4, <1>5, <3>1, Pieces
    <3>. QED  BY <1>5, <1>6, <3>1, <3>2, <3>3
  <2>2. CASE t = 2
    <3>1. NameOf(t) = "s2" /\ Mate(t) = 4
      BY <2>2 DEF NameOf, Mate
    <3>2. a[u] = Sym("s2", j, n + C * u)
      BY <1>3, <2>2, Pieces
    <3>3. b[d] = IF d = 0 THEN Sym("s2", j, n) ELSE Neg(Sym("s2", j, n + C * (D - d)))
      BY <1>4, <1>5, <3>1, Pieces
    <3>. QED  BY <1>5, <1>6, <3>1, <3>2, <3>3
  <2>3. CASE t = 5
    <3>1. NameOf(t) = "eps" /\ Mate(t) = 6 /\ u = 0 /\ n \in Roots
      BY <1>7, <2>3 DEF NameOf, Mate, Kept
    <3>2. a[u] = Sym("eps", j, n)
      BY <1>3, <2>3, <3>1, Pieces
    <3>3. b[d] = Sym("eps", j, n)
      BY <1>4, <1>5, <3>1, Pieces
    <3>. QED  BY <1>6, <3>1, <3>2, <3>3
  <2>. QED  BY <2>1, <2>2, <2>3
<1>8. ASSUME ~Kept(t, n, u)
      PROVE  a[u].sg = 0
  <2>1. a[u] = NoSym
    BY <1>3, <1>8, Pieces DEF Kept
  <2>. QED  BY <2>1, Signs
<1>9. ASSUME Kept(t, n, u)
      PROVE  Summand(a, b, 0, at, u) = SquareOf(t, j, n, u) /\ a[u].sg # 0 /\ b[d].sg # 0
  <2>1. x.sg = 1 /\ x.of = Squared(t, j, n, u) /\ Neg(x).sg = -1 /\ Neg(x).of = Squared(t, j, n, u)
    BY Signs DEF Squared
  <2>. HIDE DEF x, at
  <2>2. a[u].sg = 1 /\ a[u].of = Squared(t, j, n, u) /\ b[d].of = Squared(t, j, n, u)
        /\ b[d].sg = IF u = 0 THEN 1 ELSE -1
    BY <1>7, <1>9, <2>1
  <2>3. a[u].sg * b[d].sg * Factor(u, 0) = 1
    BY <1>5, <2>2
  <2>4. Summand(a, b, 0, at, u) =
          [sg |-> a[u].sg * b[d].sg * Factor(u, 0), of |-> <<a[u].of, b[d].of>>, at |-> <<at, u>>]
    BY DEF Summand, d
  <2>. QED  BY <2>2, <2>3, <2>4 DEF SquareOf, at
<1>. QED  BY <1>8, <1>9 DEF a, b, d, at

\* What NormOf multiplies: the pairs as they are stored, smaller index first.
LEMMA PairsOfNorm ==
  ASSUME Ended, NEW j \in Sigs(L)
  PROVE  /\ NormOf(L, j).a = {PairOf(t, j) : t \in {1, 2, 5}}
         /\ NormOf(L, j).b0 # NoSym
<1>. DEFINE row == index(L, j)
            col == index_prime(L, j)
<1>1. row \in Rows(L) /\ col \in Columns(L) /\ IsLayout(L) /\ L.num_y \in Nat /\ L.num_yp \in Nat
  BY EndedLayout, RowOf, ColumnOf
<1>2. /\ y_idx(L, row, 1) = VecOf(1, row, col) /\ yp_idx(L, col, 1) = VecOf(3, row, col)
      /\ y_idx(L, row, 2) = VecOf(2, row, col) /\ yp_idx(L, col, 2) = VecOf(4, row, col)
      /\ e_idx(L, row) = VecOf(5, row, col) /\ ep_idx(L, col) = VecOf(6, row, col)
  BY DEF VecOf
<1>3. /\ VecOf(1, row, col) <= VecOf(3, row, col) /\ VecOf(2, row, col) <= VecOf(4, row, col)
      /\ VecOf(5, row, col) <= VecOf(6, row, col)
  <2>1. row \in 1..L.num_y /\ col \in 1..L.num_yp
    BY <1>1 DEF Rows, Columns
  <2>. HIDE DEF row, col
  <2>2. /\ VecOf(1, row, col) = row - 1 /\ VecOf(2, row, col) = L.num_y + (row - 1)
        /\ VecOf(3, row, col) = 2 * L.num_y + (col - 1)
        /\ VecOf(4, row, col) = 2 * L.num_y + L.num_yp + (col - 1)
        /\ VecOf(5, row, col) = 2 * L.num_y + 2 * L.num_yp + (row - 1)
        /\ VecOf(6, row, col) = 3 * L.num_y + 2 * L.num_yp + (col - 1)
    BY ONLY <1>1, VecOfIs
  <2>. QED  BY ONLY <1>1, <2>1, <2>2
<1>4. /\ PairOf(1, j) = <<VecOf(1, row, col), VecOf(3, row, col)>>
      /\ PairOf(2, j) = <<VecOf(2, row, col), VecOf(4, row, col)>>
      /\ PairOf(5, j) = <<VecOf(5, row, col), VecOf(6, row, col)>>
  BY DEF PairOf, Mate
<1>5. NormOf(L, j).a = {Pair(y_idx(L, row, 1), yp_idx(L, col, 1)), Pair(y_idx(L, row, 2), yp_idx(L, col, 2)),
                        Pair(e_idx(L, row), ep_idx(L, col))}
      /\ NormOf(L, j).b0 = Sym("beta_sq", 0, 0)
  BY DEF NormOf, ConstTerm
<1>6. Sym("beta_sq", 0, 0) # NoSym
  BY Signs
<1>. HIDE DEF row, col
<1>7. /\ Pair(y_idx(L, row, 1), yp_idx(L, col, 1)) = PairOf(1, j)
      /\ Pair(y_idx(L, row, 2), yp_idx(L, col, 2)) = PairOf(2, j)
      /\ Pair(e_idx(L, row), ep_idx(L, col)) = PairOf(5, j)
  BY <1>2, <1>3, <1>4 DEF Pair
<1>8. NormOf(L, j).a = {PairOf(1, j), PairOf(2, j), PairOf(5, j)}
  BY <1>5, <1>7
<1>. QED  BY <1>5, <1>6, <1>8

\* Outside the window of signature j, one factor or the other is zero.
LEMMA OutsideTheWindow ==
  ASSUME Ended, NEW j \in Sigs(L), NEW t \in {1, 2, 5}, NEW k \in Sigs(L), k # j, NEW n \in Slots, NEW at
  PROVE  Products(w[PairOf(t, j)[1]][At(k, n)], w[PairOf(t, j)[2]][At(k, n)], 0, at) = {}
<1>. DEFINE row == index(L, j)
            col == index_prime(L, j)
            a == w[PairOf(t, j)[1]][At(k, n)]
            b == w[PairOf(t, j)[2]][At(k, n)]
<1>1. row \in Rows(L) /\ col \in Columns(L) /\ IsLayout(L)
  BY EndedLayout, RowOf, ColumnOf
<1>2. t \in 1..7 /\ Mate(t) \in 1..7 /\ Mate(t) \in {3, 4, 6}
  BY DEF Mate
<1>3. ~Holds(t, k, row, col) \/ ~Holds(Mate(t), k, row, col)
  BY <1>1, <1>2, GridInjective DEF Holds
<1>4. a = ZeroPoly \/ b = ZeroPoly
  <2>. HIDE DEF row, col
  <2>. QED  BY <1>1, <1>2, <1>3, WitnessIs DEF PairOf, row, col
<1>. HIDE DEF a, b
<1>5. \A u \in Coeffs : a[u].sg = 0 \/ b[(0 - u) % D].sg = 0
  <2>1. \A u \in Coeffs : ZeroPoly[u].sg = 0
    BY Signs DEF ZeroPoly
  <2>. QED  BY <1>4, <2>1, MirroredExponent
<1>6. Products(a, b, 0, at) = {}
  BY <1>5, NoProducts
<1>. QED  BY <1>6 DEF a, b

LEMMA QuadraticIs ==
  ASSUME Ended, NEW j \in Sigs(L), NEW c, c = NormOf(L, j)
  PROVE  \A z : z \in Quadratic(c) <=>
           \E t \in {1, 2, 5}, n \in Slots, u \in Coeffs : Kept(t, n, u) /\ z = SquareOf(t, j, n, u)
<1>. DEFINE Part(ab, p) == Products(w[ab[1]][p], w[ab[2]][p], 0, <<ab, p>>)
<1>1. IsLayout(L) /\ c.a = {PairOf(t, j) : t \in {1, 2, 5}}
  BY EndedLayout, PairsOfNorm
<1>2. \A z : z \in Quadratic(c) <=> \E t \in {1, 2, 5}, p \in Positions(L) : z \in Part(PairOf(t, j), p)
  <2>1. Quadratic(c) = UNION {Part(ab, p) : ab \in c.a, p \in Positions(L)}
    BY DEF Quadratic
  <2>. HIDE DEF Part
  <2>. QED  BY <1>1, <2>1
<1>3. ASSUME NEW t \in {1, 2, 5}, NEW n \in Slots, NEW z
      PROVE  z \in Part(PairOf(t, j), At(j, n)) <=>
               \E u \in Coeffs : Kept(t, n, u) /\ z = SquareOf(t, j, n, u)
  <2>. DEFINE a == w[PairOf(t, j)[1]][At(j, n)]
              b == w[PairOf(t, j)[2]][At(j, n)]
              at == <<PairOf(t, j), At(j, n)>>
  <2>1. Part(PairOf(t, j), At(j, n)) =
          {Summand(a, b, 0, at, u) : u \in {x \in Coeffs : a[x].sg # 0 /\ b[(0 - x) % D].sg # 0}}
    BY ProductsAre
  <2>2. \A u \in Coeffs : /\ Kept(t, n, u) => /\ a[u].sg # 0 /\ b[(0 - u) % D].sg # 0
                                              /\ Summand(a, b, 0, at, u) = SquareOf(t, j, n, u)
                          /\ ~Kept(t, n, u) => a[u].sg = 0
    BY SquareSummand
  <2>. HIDE DEF a, b, at, Part
  <2>. QED  BY <2>1, <2>2
<1>4. ASSUME NEW t \in {1, 2, 5}, NEW k \in Sigs(L), k # j, NEW n \in Slots
      PROVE  Part(PairOf(t, j), At(k, n)) = {}
  BY <1>4, OutsideTheWindow
<1>5. \A p \in Positions(L) : \E k \in Sigs(L), n \in Slots : p = At(k, n)
  BY <1>1, OwnerOf
<1>6. \A n \in Slots : At(j, n) \in Positions(L)
  BY <1>1, AtIsPosition
<1>. HIDE DEF Part
<1>7. ASSUME NEW z, z \in Quadratic(c)
      PROVE  \E t \in {1, 2, 5}, n \in Slots, u \in Coeffs : Kept(t, n, u) /\ z = SquareOf(t, j, n, u)
  <2>1. PICK t \in {1, 2, 5}, p \in Positions(L) : z \in Part(PairOf(t, j), p)
    BY <1>2, <1>7
  <2>2. PICK k \in Sigs(L), n \in Slots : p = At(k, n)
    BY <1>5
  <2>3. k = j
    BY <1>4, <2>1, <2>2
  <2>. QED  BY <1>3, <2>1, <2>2, <2>3
<1>8. ASSUME NEW t \in {1, 2, 5}, NEW n \in Slots, NEW u \in Coeffs, Kept(t, n, u)
      PROVE  SquareOf(t, j, n, u) \in Quadratic(c)
  BY <1>2, <1>3, <1>6, <1>8
<1>. QED  BY <1>7, <1>8

\* The coefficient m of an element is in one slot, at one exponent.
LEMMA EmbedSplit ==
  ASSUME NEW m \in RCoeffs
  PROVE  \E n \in Slots, u \in Coeffs : m = n + C * u
<1>1. C \in Nat /\ C > 0 /\ D \in Nat /\ D >= 2
  BY SlotsAssumption, DegreeAssumption
<1>2. m \in Nat /\ m < C * D
  <2>1. C * D \in Nat
    BY <1>1, SMT
  <2>. QED  BY <2>1 DEF RCoeffs
<1>3. /\ m \div C \in Nat /\ m % C \in 0..(C - 1)
      /\ m = C * (m \div C) + (m % C)
  BY <1>1, <1>2, Division
<1>4. m \div C < D
  <2>1. ASSUME NEW q \in Nat, NEW x \in Nat, m = C * q + x
        PROVE  q < D
    <3>1. SUFFICES ASSUME q >= D PROVE FALSE
      BY <1>1
    <3>2. C * q >= C * D
      BY <1>1, <3>1, SMT
    <3>3. C * q \in Nat /\ C * D \in Nat
      BY <1>1, SMT
    <3>. QED  BY <1>2, <2>1, <3>2, <3>3
  <2>. QED  BY <1>3, <2>1
<1>5. m \div C \in Coeffs /\ m % C \in Slots /\ m = (m % C) + C * (m \div C)
  <2>1. C * (m \div C) \in Nat
    BY <1>1, <1>3, SMT
  <2>. QED  BY <1>1, <1>3, <1>4, <2>1 DEF Coeffs, Slots
<1>. QED  BY <1>5

LEMMA EmbedInjective ==
  ASSUME NEW n \in Slots, NEW u \in Coeffs, NEW m \in Slots, NEW x \in Coeffs, n + C * u = m + C * x
  PROVE  n = m /\ u = x
<1>1. C \in Nat /\ n \in 0..(C - 1) /\ m \in 0..(C - 1) /\ u \in Int /\ x \in Int
  BY SlotsAssumption, DegreeAssumption DEF Slots, Coeffs
<1>2. u * C + n = x * C + m
  BY <1>1, SMT
<1>. QED  BY <1>1, <1>2, QuotientUnique

LEMMA NormConsists ==
  ASSUME Ended, NEW j \in Sigs(L), NEW c, c = NormOf(L, j)
  PROVE  Consists(Quadratic(c), {[sg |-> 1, of |-> <<x, x>>] : x \in OwnSymbols(j)})
<1>. DEFINE T == Quadratic(c)
            F(x) == [sg |-> 1, of |-> <<x, x>>]
            S == {F(x) : x \in OwnSymbols(j)}
            f == [x \in OwnSymbols(j) |-> F(x)]
<1>1. IsFiniteSet(S)
  <2>1. f \in Surjection(OwnSymbols(j), S)
    BY DEF Surjection
  <2>. HIDE DEF f, S
  <2>. QED  BY <2>1, Finiteness, FS_Surjection
<1>2. \A t \in {1, 2, 5}, n \in Slots, u \in Coeffs : Kept(t, n, u) => Squared(t, j, n, u) \in OwnSymbols(j)
  <2>1. ASSUME NEW t \in {1, 2, 5}, NEW n \in Slots, NEW u \in Coeffs, Kept(t, n, u)
        PROVE  Squared(t, j, n, u) \in OwnSymbols(j)
    <3>1. n + C * u \in RCoeffs /\ n + C * 0 = n
      BY EmbedIndex
    <3>2. CASE t = 5
      BY <2>1, <3>1, <3>2 DEF Kept, Squared, NameOf, OwnSymbols, Roots
    <3>3. CASE t # 5
      <4>1. NameOf(t) \in {"s1", "s2"}
        BY <3>3 DEF NameOf
      <4>. QED  BY <3>1, <4>1 DEF Squared, OwnSymbols
    <3>. QED  BY <3>2, <3>3
  <2>. QED  BY <2>1
<1>3. \A x \in OwnSymbols(j) :
        \E t \in {1, 2, 5}, n \in Slots, u \in Coeffs : Kept(t, n, u) /\ x = Squared(t, j, n, u)
  <2>1. ASSUME NEW x \in OwnSymbols(j)
        PROVE  \E t \in {1, 2, 5}, n \in Slots, u \in Coeffs : Kept(t, n, u) /\ x = Squared(t, j, n, u)
    <3>1. CASE \E name \in {"s1", "s2"}, m \in RCoeffs : x = <<name, j, m>>
      <4>1. PICK name \in {"s1", "s2"}, m \in RCoeffs : x = <<name, j, m>>
        BY <3>1
      <4>2. PICK n \in Slots, u \in Coeffs : m = n + C * u
        BY EmbedSplit
      <4>3. PICK t \in {1, 2} : NameOf(t) = name
        BY DEF NameOf
      <4>. QED  BY <4>1, <4>2, <4>3 DEF Kept, Squared
    <3>2. CASE \E m \in 0..3 : x = <<"eps", j, m>>
      <4>1. PICK m \in 0..3 : x = <<"eps", j, m>>
        BY <3>2
      <4>2. m \in Roots /\ m \in Slots /\ 0 \in Coeffs
        BY EndedLayout, DegreeAssumption DEF Roots, Coeffs
      <4>3. m + C * 0 = m
        BY <4>2, EmbedIndex
      <4>. QED  BY <4>1, <4>2, <4>3 DEF Kept, Squared, NameOf
    <3>. QED  BY <3>1, <3>2 DEF OwnSymbols
  <2>. QED  BY <2>1
<1>4. \A z : z \in T <=>
        \E t \in {1, 2, 5}, n \in Slots, u \in Coeffs : Kept(t, n, u) /\ z = SquareOf(t, j, n, u)
  BY QuadraticIs
<1>5. \A t, n, u : /\ SquareOf(t, j, n, u).sg = 1
                   /\ SquareOf(t, j, n, u).of = <<Squared(t, j, n, u), Squared(t, j, n, u)>>
  BY DEF SquareOf
<1>. HIDE DEF T
<1>6. {[sg |-> z.sg, of |-> z.of] : z \in T} = S
  <2>1. ASSUME NEW z \in T
        PROVE  [sg |-> z.sg, of |-> z.of] \in S
    BY <1>2, <1>4, <1>5
  <2>2. ASSUME NEW x \in OwnSymbols(j)
        PROVE  \E z \in T : F(x) = [sg |-> z.sg, of |-> z.of]
    BY <1>3, <1>4, <1>5
  <2>. QED  BY <2>1, <2>2
<1>7. ASSUME NEW y \in T, NEW z \in T, y.sg = z.sg, y.of = z.of
      PROVE  y = z
  <2>1. PICK t \in {1, 2, 5}, n \in Slots, u \in Coeffs : Kept(t, n, u) /\ y = SquareOf(t, j, n, u)
    BY <1>4
  <2>2. PICK t2 \in {1, 2, 5}, n2 \in Slots, u2 \in Coeffs : Kept(t2, n2, u2) /\ z = SquareOf(t2, j, n2, u2)
    BY <1>4
  <2>3. Squared(t, j, n, u) = Squared(t2, j, n2, u2)
    BY <1>5, <1>7, <2>1, <2>2
  <2>4. NameOf(t) = NameOf(t2) /\ n + C * u = n2 + C * u2
    BY <2>3 DEF Squared
  <2>5. t = t2
    BY <2>4 DEF NameOf
  <2>6. n = n2 /\ u = u2
    BY <2>4, EmbedInjective
  <2>. QED  BY <2>1, <2>2, <2>5, <2>6
<1>8. Consists(T, S)
  <2>. HIDE DEF S
  <2>. QED  BY <1>1, <1>6, <1>7, ConsistsOf
<1>. QED  BY <1>8 DEF T

LEMMA EndedSquares ==
  ASSUME Ended, NEW s \in Sides
  PROVE  SquaresAreNorms(s)
<1>1. ASSUME NEW j \in Sigs(L)
      PROVE  NormOf(L, j) \in const_term[s]
  BY InStatement DEF Loops, PassesOf, ConstTerms
<1>2. ASSUME NEW j \in Sigs(L)
      PROVE  \E c \in const_term[s] :
               /\ c.b0 # NoSym
               /\ Consists(Quadratic(c), {[sg |-> 1, of |-> <<x, x>>] : x \in OwnSymbols(j)})
  BY <1>1, PairsOfNorm, NormConsists
<1>. QED  BY <1>2 DEF SquaresAreNorms

-----------------------------------------------------------------------------
(* The verification equations.                                             *)

\* Coefficient u of the polynomial in column b of row k of the matrix of h is,
\* up to its sign, coefficient Source(k, b, u) of h.
Slot(k, b) == IF b <= k THEN k - b ELSE k + C - b
Exponent(k, b, u) == IF b <= k THEN u ELSE IF u = 0 THEN D - 1 ELSE u - 1
Source(k, b, u) == Slot(k, b) + C * Exponent(k, b, u)

LEMMA SourceIn ==
  ASSUME NEW k \in Slots, NEW b \in Slots, NEW u \in Coeffs
  PROVE  /\ Slot(k, b) \in Slots /\ Exponent(k, b, u) \in Coeffs
         /\ Source(k, b, u) \in RCoeffs
<1>1. Slot(k, b) \in Slots /\ Exponent(k, b, u) \in Coeffs
  BY SlotsAssumption, DegreeAssumption DEF Slots, Coeffs, Slot, Exponent
<1>. QED  BY <1>1, EmbedIndex DEF Source

LEMMA SourceInjective ==
  ASSUME NEW k \in Slots, NEW b \in Slots, NEW u \in Coeffs, NEW d \in Slots, NEW x \in Coeffs,
         Source(k, b, u) = Source(k, d, x)
  PROVE  b = d /\ u = x
<1>1. Slot(k, b) = Slot(k, d) /\ Exponent(k, b, u) = Exponent(k, d, x)
  BY SourceIn, EmbedInjective DEF Source
<1>2. b = d
  BY <1>1, SlotsAssumption DEF Slots, Slot
<1>. QED  BY <1>1, <1>2, DegreeAssumption DEF Coeffs, Exponent

LEMMA SourceOnto ==
  ASSUME NEW k \in Slots, NEW a \in RCoeffs
  PROVE  \E b \in Slots, u \in Coeffs : a = Source(k, b, u)
<1>1. PICK n \in Slots, q \in Coeffs : a = n + C * q
  BY EmbedSplit
<1>. DEFINE b == IF n <= k THEN k - n ELSE k + C - n
            u == IF n <= k THEN q ELSE IF q = D - 1 THEN 0 ELSE q + 1
<1>2. b \in Slots /\ u \in Coeffs /\ Slot(k, b) = n /\ Exponent(k, b, u) = q
  BY SlotsAssumption, DegreeAssumption DEF Slots, Coeffs, Slot, Exponent
<1>. HIDE DEF b, u
<1>. QED  BY <1>1, <1>2 DEF Source

LEMMA RowIs ==
  ASSUME NEW j, NEW k \in Slots, NEW b \in Slots, NEW u \in Coeffs
  PROVE  HRow(embed(PublicH(j)), k, b)[u] =
           IF Source(k, b, u) \in NullH THEN NoSym
           ELSE IF k < b /\ u = 0 THEN Neg(Sym("h", j, Source(k, b, u)))
                ELSE Sym("h", j, Source(k, b, u))
<1>. DEFINE h == PublicH(j)
            p == embed(h)[Slot(k, b)]
            x == IF Source(k, b, u) \in NullH THEN NoSym ELSE Sym("h", j, Source(k, b, u))
<1>1. Slot(k, b) \in Slots /\ Exponent(k, b, u) \in Coeffs /\ Source(k, b, u) \in RCoeffs
  BY SourceIn
<1>2. p[Exponent(k, b, u)] = h[Source(k, b, u)]
  BY <1>1, ConjugateIs DEF Source
<1>3. h[Source(k, b, u)] = x
  BY <1>1 DEF PublicH
<1>. HIDE DEF h, p
<1>4. CASE b <= k
  <2>1. HRow(embed(PublicH(j)), k, b) = p
    BY <1>4 DEF HRow, Slot, p, h
  <2>2. Exponent(k, b, u) = u /\ ~(k < b)
    BY <1>4, SlotsAssumption DEF Exponent, Slots
  <2>. QED  BY <1>2, <1>3, <2>1, <2>2
<1>5. CASE ~(b <= k)
  <2>1. HRow(embed(PublicH(j)), k, b) = MulY(p)
    BY <1>5 DEF HRow, Slot, p, h
  <2>2. Exponent(k, b, u) = (IF u = 0 THEN D - 1 ELSE u - 1) /\ k < b
    BY <1>5, SlotsAssumption DEF Exponent, Slots
  <2>3. MulY(p)[u] = IF u = 0 THEN Neg(p[D - 1]) ELSE p[u - 1]
    BY DEF MulY
  <2>4. MulY(p)[u] = IF u = 0 THEN Neg(x) ELSE x
    <3>. HIDE DEF x
    <3>. QED  BY <1>2, <1>3, <2>2, <2>3
  <2>. QED  BY <2>1, <2>2, <2>4, Signs
<1>. QED  BY <1>4, <1>5

LEMMA WrapsOnce ==
  ASSUME NEW m \in Nat, NEW z \in 0..(m - 1)
  PROVE  z % m = z /\ (z - m) % m = z
<1>1. z % m = z
  OBVIOUS
<1>2. (z - m) % m = z
  BY Z3
<1>. QED  BY <1>1, <1>2

\* The sign and the partner of a coefficient of h are those of the negacyclic
\* product: the factor Y of the row stands for the wrap that the slots hide.
LEMMA NegacyclicIndex ==
  ASSUME NEW k \in Slots, NEW b \in Slots, NEW u \in Coeffs, NEW l \in Coeffs
  PROVE  LET a == Source(k, b, u)
             n == k + C * l
         IN /\ (n - a) % (C * D) = b + C * ((l - u) % D)
            /\ (IF k < b /\ u = 0 THEN -1 ELSE 1) * Factor(u, l) = IF a <= n THEN 1 ELSE -1
<1>. DEFINE a == Source(k, b, u)
            n == k + C * l
            m == C * D
            z == b + C * ((l - u) % D)
<1>0. /\ C \in Nat /\ C >= 4 /\ k \in 0..(C - 1) /\ b \in 0..(C - 1)
      /\ D \in Nat /\ D >= 2 /\ u \in 0..(D - 1) /\ l \in 0..(D - 1)
  BY SlotsAssumption, DegreeAssumption DEF Slots, Coeffs
<1>1. (l - u) % D = (IF u <= l THEN l - u ELSE l - u + D) /\ (l - u) % D \in Coeffs
  BY Wraps
<1>2. m \in Nat /\ z \in 0..(m - 1)
  <2>1. m \in Nat
    BY <1>0, SMT
  <2>2. z \in RCoeffs
    BY <1>1, EmbedIndex
  <2>. HIDE DEF z
  <2>. QED  BY <2>1, <2>2 DEF RCoeffs
<1>3. /\ C * l \in Nat /\ C * u \in Nat
      /\ C * (l - u) = C * l - C * u /\ C * (l - u + D) = C * l - C * u + C * D
      /\ C * (u - 1) = C * u - C /\ C * (D - 1) = C * D - C
      /\ C * 0 = 0
  <2>1. C \in Int /\ l \in Int /\ u \in Int /\ D \in Int
    BY <1>0
  <2>2. C * (l - u) = C * l - C * u
    BY <2>1, SMT
  <2>3. C * (l - u + D) = C * l - C * u + C * D
    BY <2>1, SMT
  <2>4. C * (u - 1) = C * u - C
    BY <2>1, SMT
  <2>5. C * (D - 1) = C * D - C
    BY <2>1, SMT
  <2>6. C * l \in Nat /\ C * u \in Nat
    BY <1>0, SMT
  <2>. QED  BY <2>1, <2>2, <2>3, <2>4, <2>5, <2>6
<1>4. a = IF b <= k THEN k - b + C * u
          ELSE IF u = 0 THEN k - b + C * D ELSE k - b + C * u
  <2>1. C * D \in Nat
    BY <1>2
  <2>. QED  BY <1>0, <1>3, <2>1 DEF Source, Slot, Exponent
<1>5. z = IF u <= l THEN b + (C * l - C * u) ELSE b + (C * l - C * u + C * D)
  BY <1>1, <1>3
<1>6. n = k + C * l /\ m = C * D
  OBVIOUS
<1>7. ASSUME u <= l, ~(k < b /\ u = 0)
      PROVE  n - a = z /\ a <= n
  <2>1. a = k - b + C * u
    BY <1>0, <1>4, <1>7
  <2>2. z = b + (C * l - C * u) /\ z >= 0
    BY <1>2, <1>5, <1>7
  <2>. HIDE DEF a, n, z, m
  <2>. QED  BY <1>0, <1>3, <1>6, <2>1, <2>2
<1>8. ASSUME ~(u <= l)
      PROVE  n - a = z - m /\ ~(a <= n)
  <2>1. a = k - b + C * u
    BY <1>0, <1>4, <1>8
  <2>2. z = b + (C * l - C * u + C * D) /\ z < m /\ z \in Int /\ m \in Int
    BY <1>2, <1>5, <1>8
  <2>. HIDE DEF a, n, z, m
  <2>. QED  BY <1>0, <1>3, <1>6, <2>1, <2>2
<1>9. ASSUME k < b, u = 0
      PROVE  n - a = z - m /\ ~(a <= n) /\ u <= l
  <2>1. a = k - b + C * D
    BY <1>0, <1>4, <1>9
  <2>2. z = b + (C * l - C * u) /\ z < m /\ z \in Int /\ m \in Int /\ u <= l
    BY <1>0, <1>2, <1>5, <1>9
  <2>. HIDE DEF a, n, z, m
  <2>. QED  BY <1>0, <1>3, <1>6, <1>9, <2>1, <2>2
<1>. HIDE DEF a, n, z, m
<1>10. (n - a) % m = z
  BY <1>2, <1>7, <1>8, <1>9, WrapsOnce
<1>11. (IF k < b /\ u = 0 THEN -1 ELSE 1) * Factor(u, l) = IF a <= n THEN 1 ELSE -1
  BY <1>7, <1>8, <1>9 DEF Factor
<1>. QED  BY <1>10, <1>11 DEF a, n, z, m

\* The terms that the equation in slot k of signature j has at exponent l: of
\* s1, of v, and of h with s2.
Y1(j) == y_idx(L, index(L, j), 1)
Y2(j) == y_idx(L, index(L, j), 2)
S1Term(j, k, l) ==
  [sg |-> 1, of |-> <<<<"one", 0, 0>>, <<"s1", j, k + C * l>>>>, at |-> <<<<Y1(j), At(j, k)>>, 0>>]
VTerm(j, k, l) ==
  [sg |-> 1, of |-> <<<<"q", 0, 0>>, <<"v", j, k + C * l>>>>, at |-> <<<<v_idx(L), At(j, k)>>, 0>>]
HTerm(j, k, l, b, u) ==
  [sg |-> IF Source(k, b, u) <= k + C * l THEN 1 ELSE -1,
   of |-> <<<<"h", j, Source(k, b, u)>>, <<"s2", j, ((k + C * l) - Source(k, b, u)) % (C * D)>>>>,
   at |-> <<<<Y2(j), At(j, b)>>, u>>]

LEMMA EquationReads ==
  ASSUME Ended, NEW j \in Sigs(L), NEW b \in Slots, NEW x \in Coeffs
  PROVE  /\ w[Y1(j)][At(j, b)][x] = Sym("s1", j, b + C * x)
         /\ w[Y2(j)][At(j, b)][x] = Sym("s2", j, b + C * x)
         /\ w[v_idx(L)][At(j, b)][x] = Sym("v", j, b + C * x)
<1>. DEFINE row == index(L, j)
            col == index_prime(L, j)
<1>1. row \in Rows(L) /\ col \in Columns(L)
  BY EndedLayout, RowOf, ColumnOf
<1>2. \A t \in {1, 2, 7} : t \in 1..7 /\ Holds(t, j, row, col)
  BY DEF Holds
<1>3. Y1(j) = VecOf(1, row, col) /\ Y2(j) = VecOf(2, row, col) /\ v_idx(L) = VecOf(7, row, col)
  BY DEF Y1, Y2, VecOf
<1>. HIDE DEF row, col
<1>4. \A t \in {1, 2, 7} : w[VecOf(t, row, col)][At(j, b)] = Placements(j)[t].slots[b]
  BY <1>1, <1>2, WitnessIs
<1>. QED  BY <1>3, <1>4, Pieces

LEMMA ScalarIs ==
  ASSUME NEW name
  PROVE  /\ \A x \in Coeffs : Scalar(name)[x].sg # 0 <=> x = 0
         /\ Scalar(name)[0] = Sym(name, 0, 0)
<1>1. 0 \in Coeffs
  BY DegreeAssumption DEF Coeffs
<1>2. \A x \in Coeffs : Scalar(name)[x] = IF x = 0 THEN Sym(name, 0, 0) ELSE NoSym
  BY DEF Scalar
<1>. QED  BY <1>1, <1>2, Signs

\* The product with a constant.
LEMMA ConstantProduct ==
  ASSUME NEW p, NEW x, NEW a, NEW y, NEW l \in Coeffs, NEW at,
         \A u \in Coeffs : p[u].sg # 0 <=> u = 0,
         p[0].sg = 1, p[0].of = x, a[l].sg = 1, a[l].of = y
  PROVE  Products(p, a, l, at) = {[sg |-> 1, of |-> <<x, y>>, at |-> <<at, 0>>]}
<1>1. 0 \in Coeffs /\ (l - 0) % D = l /\ Factor(0, l) = 1
  <2>1. 0 \in Coeffs /\ 0 <= l /\ l - 0 = l
    BY DegreeAssumption DEF Coeffs
  <2>. QED  BY <2>1, Wraps DEF Factor
<1>2. Products(p, a, l, at) = {Summand(p, a, l, at, 0)}
  BY <1>1, OneProduct
<1>3. Summand(p, a, l, at, 0) =
        [sg |-> p[0].sg * a[(l - 0) % D].sg * Factor(0, l), of |-> <<p[0].of, a[(l - 0) % D].of>>,
         at |-> <<at, 0>>]
  BY DEF Summand
<1>. QED  BY <1>1, <1>2, <1>3

LEMMA ColumnProduct ==
  ASSUME Ended, NEW j \in Sigs(L), NEW k \in Slots, NEW l \in Coeffs, NEW b \in Slots, NEW z
  PROVE  z \in Products(HRow(embed(PublicH(j)), k, b), w[Y2(j)][At(j, b)], l, <<Y2(j), At(j, b)>>)
         <=> \E u \in Coeffs : Source(k, b, u) \notin NullH /\ z = HTerm(j, k, l, b, u)
<1>. DEFINE p == HRow(embed(PublicH(j)), k, b)
            a == w[Y2(j)][At(j, b)]
            at == <<Y2(j), At(j, b)>>
<1>1. ASSUME NEW u \in Coeffs
      PROVE  /\ p[u].sg # 0 /\ a[(l - u) % D].sg # 0 <=> Source(k, b, u) \notin NullH
             /\ Source(k, b, u) \notin NullH => Summand(p, a, l, at, u) = HTerm(j, k, l, b, u)
  <2>. DEFINE s == Source(k, b, u)
              d == (l - u) % D
              i2 == ((k + C * l) - s) % (C * D)
              sign == IF s <= k + C * l THEN 1 ELSE -1
  <2>1. d \in Coeffs
    BY Wraps
  <2>2. p[u] = IF s \in NullH THEN NoSym
               ELSE IF k < b /\ u = 0 THEN Neg(Sym("h", j, s)) ELSE Sym("h", j, s)
    BY RowIs
  <2>3. a[d] = Sym("s2", j, b + C * d)
    <3>. HIDE DEF d
    <3>. QED  BY <2>1, EquationReads
  <2>4. /\ i2 = b + C * d
        /\ (IF k < b /\ u = 0 THEN -1 ELSE 1) * Factor(u, l) = sign
    BY NegacyclicIndex
  <2>. HIDE DEF p, a, d, s
  <2>5. a[d].sg = 1 /\ a[d].of = <<"s2", j, b + C * d>>
    BY <2>3, Signs
  <2>6. s \notin NullH => p[u].sg = (IF k < b /\ u = 0 THEN -1 ELSE 1) /\ p[u].of = <<"h", j, s>>
    BY <2>2, Signs
  <2>7. s \in NullH => p[u].sg = 0
    BY <2>2, Signs
  <2>8. Factor(u, l) \in Int
    BY DEF Factor
  <2>9. Summand(p, a, l, at, u) =
          [sg |-> p[u].sg * a[d].sg * Factor(u, l), of |-> <<p[u].of, a[d].of>>, at |-> <<at, u>>]
    BY DEF Summand, d
  <2>10. ASSUME s \notin NullH
         PROVE  Summand(p, a, l, at, u) = HTerm(j, k, l, b, u)
    <3>1. p[u].sg * a[d].sg * Factor(u, l) = sign
      <4>. HIDE DEF sign
      <4>1. p[u].sg * 1 = p[u].sg
        BY <2>6, <2>10
      <4>. QED  BY <2>4, <2>5, <2>6, <2>10, <4>1
    <3>2. HTerm(j, k, l, b, u) = [sg |-> sign, of |-> <<<<"h", j, s>>, <<"s2", j, i2>>>>, at |-> <<at, u>>]
      BY DEF HTerm, s
    <3>. HIDE DEF sign, i2, at
    <3>. QED  BY <2>4, <2>5, <2>6, <2>9, <2>10, <3>1, <3>2
  <2>11. p[u].sg # 0 /\ a[d].sg # 0 <=> s \notin NullH
    BY <2>5, <2>6, <2>7
  <2>. QED  BY <2>10, <2>11 DEF s, d
<1>2. Products(p, a, l, at) =
        {Summand(p, a, l, at, u) : u \in {x \in Coeffs : p[x].sg # 0 /\ a[(l - x) % D].sg # 0}}
  BY ProductsAre
<1>. HIDE DEF p, a, at
<1>3. z \in Products(p, a, l, at) <=>
        \E u \in Coeffs : Source(k, b, u) \notin NullH /\ z = HTerm(j, k, l, b, u)
  BY <1>1, <1>2
<1>. QED  BY <1>3 DEF p, a, at

LEMMA LinearIs ==
  ASSUME Ended, NEW j \in Sigs(L), NEW k \in Slots, NEW l \in Coeffs, NEW c, c = PublicEq(L, j, k)
  PROVE  \A z : z \in Linear(c, l) <=>
           \/ z = S1Term(j, k, l) \/ z = VTerm(j, k, l)
           \/ \E b \in Slots, u \in Coeffs : Source(k, b, u) \notin NullH /\ z = HTerm(j, k, l, b, u)
<1>. DEFINE t1 == Term(Y1(j), At(j, k), One)
            t2 == Term(v_idx(L), At(j, k), Scalar("q"))
            row(b) == HRow(embed(PublicH(j)), k, b)
            t3(b) == Term(Y2(j), At(j, b), row(b))
            Part(t) == Products(t.coef, w[t.vec][t.pos], l, <<t.vec, t.pos>>)
<1>1. c.phi = {t1, t2} \union {t3(b) : b \in UsedSlots(j, k)}
  BY DEF PublicEq, EqTerms, Full, Y1, Y2
<1>2. \A z : z \in Linear(c, l) <=>
               z \in Part(t1) \/ z \in Part(t2) \/ \E b \in UsedSlots(j, k) : z \in Part(t3(b))
  <2>1. Linear(c, l) = UNION {Part(t) : t \in c.phi}
    BY DEF Linear
  <2>. HIDE DEF Part, t1, t2, t3
  <2>. QED  BY <1>1, <2>1
<1>3. Part(t1) = {S1Term(j, k, l)}
  <2>. DEFINE a == w[Y1(j)][At(j, k)]
              at == <<Y1(j), At(j, k)>>
  <2>1. Part(t1) = Products(One, a, l, at)
    BY DEF Term
  <2>2. 0 \in Coeffs
    BY DegreeAssumption DEF Coeffs
  <2>3. (\A u \in Coeffs : One[u].sg # 0 <=> u = 0) /\ One[0].sg = 1 /\ One[0].of = <<"one", 0, 0>>
    BY <2>2, MonomialIs DEF One
  <2>4. a[l].sg = 1 /\ a[l].of = <<"s1", j, k + C * l>>
    BY EquationReads, Signs
  <2>. DEFINE x == <<"one", 0, 0>>
              y == <<"s1", j, k + C * l>>
  <2>5. (\A u \in Coeffs : One[u].sg # 0 <=> u = 0) /\ One[0].sg = 1 /\ One[0].of = x
        /\ a[l].sg = 1 /\ a[l].of = y
    BY <2>3, <2>4
  <2>. HIDE DEF a, at, x, y, Part
  <2>6. Products(One, a, l, at) = {[sg |-> 1, of |-> <<x, y>>, at |-> <<at, 0>>]}
    BY ONLY <2>5, l \in Coeffs, ConstantProduct
  <2>. QED  BY <2>1, <2>6 DEF S1Term, at, x, y
<1>4. Part(t2) = {VTerm(j, k, l)}
  <2>. DEFINE a == w[v_idx(L)][At(j, k)]
              at == <<v_idx(L), At(j, k)>>
              p == Scalar("q")
  <2>1. Part(t2) = Products(p, a, l, at)
    BY DEF Term
  <2>3. (\A u \in Coeffs : p[u].sg # 0 <=> u = 0) /\ p[0].sg = 1 /\ p[0].of = <<"q", 0, 0>>
    BY ScalarIs, Signs
  <2>4. a[l].sg = 1 /\ a[l].of = <<"v", j, k + C * l>>
    BY EquationReads, Signs
  <2>. DEFINE x == <<"q", 0, 0>>
              y == <<"v", j, k + C * l>>
  <2>5. (\A u \in Coeffs : p[u].sg # 0 <=> u = 0) /\ p[0].sg = 1 /\ p[0].of = x
        /\ a[l].sg = 1 /\ a[l].of = y
    BY <2>3, <2>4
  <2>. HIDE DEF a, at, x, y, p, Part
  <2>6. Products(p, a, l, at) = {[sg |-> 1, of |-> <<x, y>>, at |-> <<at, 0>>]}
    BY ONLY <2>5, l \in Coeffs, ConstantProduct
  <2>. QED  BY <2>1, <2>6 DEF VTerm, at, x, y
<1>5. \A b \in Slots : \A z : z \in Part(t3(b)) <=>
        \E u \in Coeffs : Source(k, b, u) \notin NullH /\ z = HTerm(j, k, l, b, u)
  <2>1. ASSUME NEW b \in Slots, NEW z
        PROVE  z \in Part(t3(b)) <=>
                 \E u \in Coeffs : Source(k, b, u) \notin NullH /\ z = HTerm(j, k, l, b, u)
    <3>1. Part(t3(b)) = Products(row(b), w[Y2(j)][At(j, b)], l, <<Y2(j), At(j, b)>>)
      BY DEF Term
    <3>2. z \in Products(row(b), w[Y2(j)][At(j, b)], l, <<Y2(j), At(j, b)>>) <=>
            \E u \in Coeffs : Source(k, b, u) \notin NullH /\ z = HTerm(j, k, l, b, u)
      BY ColumnProduct
    <3>. HIDE DEF Part, t3, row
    <3>. QED  BY <3>1, <3>2
  <2>. QED  BY <2>1
<1>6. \A b \in Slots : \A u \in Coeffs : Source(k, b, u) \notin NullH => b \in UsedSlots(j, k)
  <2>1. ASSUME NEW b \in Slots, NEW u \in Coeffs, Source(k, b, u) \notin NullH
        PROVE  row(b) # ZeroPoly
    <3>1. row(b)[u].sg # 0
      <4>1. row(b)[u] = IF k < b /\ u = 0 THEN Neg(Sym("h", j, Source(k, b, u)))
                        ELSE Sym("h", j, Source(k, b, u))
        BY <2>1, RowIs
      <4>. QED  BY <4>1, Signs
    <3>2. ZeroPoly[u].sg = 0
      BY Signs DEF ZeroPoly
    <3>. QED  BY <3>1, <3>2
  <2>. QED  BY <2>1 DEF UsedSlots
<1>7. UsedSlots(j, k) \subseteq Slots
  BY DEF UsedSlots
<1>. HIDE DEF Part, t1, t2, t3
<1>8. \A z : (\E b \in UsedSlots(j, k) : z \in Part(t3(b))) <=>
        \E b \in Slots, u \in Coeffs : Source(k, b, u) \notin NullH /\ z = HTerm(j, k, l, b, u)
  BY <1>5, <1>6, <1>7
<1>. QED  BY <1>2, <1>3, <1>4, <1>8

LEMMA LiftedFinite ==
  ASSUME NEW j, NEW n
  PROVE  IsFiniteSet(Lifted(j, n))
<1>. DEFINE t1 == [sg |-> 1, of |-> <<<<"one", 0, 0>>, <<"s1", j, n>>>>]
            t2 == [sg |-> 1, of |-> <<<<"q", 0, 0>>, <<"v", j, n>>>>]
            F(a) == [sg |-> IF a <= n THEN 1 ELSE -1,
                     of |-> <<<<"h", j, a>>, <<"s2", j, (n - a) % (C * D)>>>>]
            A == RCoeffs \ NullH
            P == {F(a) : a \in A}
            f == [a \in A |-> F(a)]
<1>1. IsFiniteSet(A)
  BY Finiteness, FS_Subset
<1>2. f \in Surjection(A, P)
  BY DEF Surjection
<1>3. Lifted(j, n) = {t1, t2} \union P
  BY DEF Lifted
<1>. HIDE DEF A, P, f, t1, t2
<1>4. IsFiniteSet(P)
  BY <1>1, <1>2, FS_Surjection
<1>5. IsFiniteSet((P \cup {t1}) \cup {t2})
  BY <1>4, FS_AddElement
<1>6. Lifted(j, n) = (P \cup {t1}) \cup {t2}
  BY <1>3
<1>. QED  BY <1>5, <1>6

\* Slot k of the equation over S says at exponent l what the verification
\* equation says over R about coefficient k + C l, term by term.
LEMMA EquationConsists ==
  ASSUME Ended, NEW j \in Sigs(L), NEW k \in Slots, NEW l \in Coeffs, NEW c, c = PublicEq(L, j, k)
  PROVE  Consists(Linear(c, l), Lifted(j, k + C * l))
<1>. DEFINE n == k + C * l
            T == Linear(c, l)
            s1 == S1Term(j, k, l)
            v1 == VTerm(j, k, l)
            h1(b, u) == HTerm(j, k, l, b, u)
            Of(b, u) == <<<<"h", j, Source(k, b, u)>>, <<"s2", j, (n - Source(k, b, u)) % (C * D)>>>>
            Sg(b, u) == IF Source(k, b, u) <= n THEN 1 ELSE -1
            OfS1 == <<<<"one", 0, 0>>, <<"s1", j, n>>>>
            OfV == <<<<"q", 0, 0>>, <<"v", j, n>>>>
            Used(b, u) == Source(k, b, u) \notin NullH
<1>1. \A z : z \in T <=> \/ z = s1 \/ z = v1
                         \/ \E b \in Slots, u \in Coeffs : Used(b, u) /\ z = h1(b, u)
  BY LinearIs
<1>2. /\ s1.sg = 1 /\ s1.of = OfS1 /\ v1.sg = 1 /\ v1.of = OfV
      /\ \A b, u : h1(b, u).sg = Sg(b, u) /\ h1(b, u).of = Of(b, u)
  BY DEF S1Term, VTerm, HTerm
<1>3. /\ OfS1 # OfV
      /\ \A b, u : Of(b, u) # OfS1 /\ Of(b, u) # OfV
  OBVIOUS
<1>4. \A b \in Slots, u \in Coeffs, d \in Slots, x \in Coeffs : Of(b, u) = Of(d, x) => b = d /\ u = x
  <2>1. ASSUME NEW b \in Slots, NEW u \in Coeffs, NEW d \in Slots, NEW x \in Coeffs, Of(b, u) = Of(d, x)
        PROVE  b = d /\ u = x
    <3>1. Source(k, b, u) = Source(k, d, x)
      BY <2>1
    <3>. QED  BY <3>1, SourceInjective
  <2>. QED  BY <2>1
<1>5. \A z : z \in Lifted(j, n) <=>
        \/ z = [sg |-> 1, of |-> OfS1] \/ z = [sg |-> 1, of |-> OfV]
        \/ \E b \in Slots, u \in Coeffs : Used(b, u) /\ z = [sg |-> Sg(b, u), of |-> Of(b, u)]
  <2>. DEFINE F(a) == [sg |-> IF a <= n THEN 1 ELSE -1,
                       of |-> <<<<"h", j, a>>, <<"s2", j, (n - a) % (C * D)>>>>]
  <2>1. Lifted(j, n) = {[sg |-> 1, of |-> OfS1], [sg |-> 1, of |-> OfV]}
                         \union {F(a) : a \in RCoeffs \ NullH}
    BY DEF Lifted
  <2>2. \A b, u : F(Source(k, b, u)) = [sg |-> Sg(b, u), of |-> Of(b, u)]
    OBVIOUS
  <2>. HIDE DEF F, Sg, Of, OfS1, OfV, n
  <2>3. ASSUME NEW b \in Slots, NEW u \in Coeffs, Used(b, u)
        PROVE  [sg |-> Sg(b, u), of |-> Of(b, u)] \in {F(a) : a \in RCoeffs \ NullH}
    <3>1. Source(k, b, u) \in RCoeffs \ NullH
      BY <2>3, SourceIn
    <3>. QED  BY <2>2, <3>1
  <2>4. ASSUME NEW a \in RCoeffs \ NullH
        PROVE  \E b \in Slots, u \in Coeffs : Used(b, u) /\ F(a) = [sg |-> Sg(b, u), of |-> Of(b, u)]
    BY <2>2, SourceOnto
  <2>. QED  BY <2>1, <2>3, <2>4
<1>6. IsFiniteSet(Lifted(j, n))
  BY LiftedFinite
<1>. HIDE DEF T, s1, v1, h1, Of, Sg, OfS1, OfV, Used, n
<1>7. {[sg |-> z.sg, of |-> z.of] : z \in T} = Lifted(j, n)
  <2>1. ASSUME NEW z \in T
        PROVE  [sg |-> z.sg, of |-> z.of] \in Lifted(j, n)
    BY <1>1, <1>2, <1>5
  <2>2. ASSUME NEW y \in Lifted(j, n)
        PROVE  \E z \in T : y = [sg |-> z.sg, of |-> z.of]
    BY <1>1, <1>2, <1>5
  <2>. QED  BY <2>1, <2>2
<1>8. ASSUME NEW y \in T, NEW z \in T, y.sg = z.sg, y.of = z.of
      PROVE  y = z
  <2>1. CASE \E b \in Slots, u \in Coeffs : Used(b, u) /\ y = h1(b, u)
    <3>1. PICK b \in Slots, u \in Coeffs : y = h1(b, u)
      BY <2>1
    <3>2. z # s1 /\ z # v1
      BY <1>2, <1>3, <1>8, <3>1
    <3>3. PICK d \in Slots, x \in Coeffs : z = h1(d, x)
      BY <1>1, <1>8, <3>2
    <3>. QED  BY <1>2, <1>4, <1>8, <3>1, <3>3
  <2>2. CASE y = s1 \/ y = v1
    BY <1>1, <1>2, <1>3, <1>8, <2>2
  <2>. QED  BY <1>1, <1>8, <2>1, <2>2
<1>9. Consists(T, Lifted(j, n))
  BY <1>6, <1>7, <1>8, ConsistsOf
<1>. QED  BY <1>9 DEF T, n

LEMMA EndedEquations ==
  ASSUME Ended, NEW s \in Sides
  PROVE  FalconEqIsProduct(s)
<1>1. ASSUME NEW j \in Sigs(L), NEW k \in Slots
      PROVE  PublicEq(L, j, k) \in full[s]
  <2>1. PublicEq(L, j, k) \in Fulls(L, "falcon", j)
    BY DEF Fulls
  <2>. QED  BY <2>1, InStatement DEF Loops, PassesOf
<1>2. ASSUME NEW j \in Sigs(L), NEW k \in Slots
      PROVE  \E c \in full[s] : /\ c.b = embed(Element("c", j))[k]
                                /\ \A l \in Coeffs : Consists(Linear(c, l), Lifted(j, k + C * l))
  <2>1. PublicEq(L, j, k).b = embed(Element("c", j))[k]
    BY DEF PublicEq, Full
  <2>. QED  BY <1>1, <2>1, EquationConsists
<1>. QED  BY <1>2 DEF FalconEqIsProduct

\* For every number of signatures, rank and degree: the honest witness meets
\* every homogeneous constraint of either statement, and the others say on it
\* the verification equation over R, coefficient by coefficient, and the norm of
\* each signature with its roots.
THEOREM HonestWitnessSatisfies == Spec => []HonestSatisfies
<1>1. Ended => HonestSatisfies
  <2>1. SUFFICES ASSUME Ended, NEW s \in Sides
                 PROVE  /\ \A c \in full[s] : c.b = ZeroPoly => \A l \in Coeffs : Vanishes(Linear(c, l))
                        /\ \A c \in const_term[s] : c.a = {} => Vanishes(Linear(c, 0))
                        /\ FalconEqIsProduct(s)
                        /\ SquaresAreNorms(s)
    BY DEF HonestSatisfies
  <2>2. \A c \in full[s] : c.b = ZeroPoly => \A l \in Coeffs : Vanishes(Linear(c, l))
    BY <2>1, FullHomogeneous
  <2>3. \A c \in const_term[s] : c.a = {} => Vanishes(Linear(c, 0))
    BY <2>1, ConstHomogeneous
  <2>. QED  BY <2>1, <2>2, <2>3, EndedEquations, EndedSquares
<1>2. PlaceInv /\ Blank /\ BuiltInv /\ ~Ended => HonestSatisfies
  BY DEF Ended, PlaceInv, BuiltInv, HonestSatisfies
<1>. QED  BY <1>1, <1>2, PlaceInvariant, BlankInvariant, BuiltInvariant, PTL
=============================================================================
