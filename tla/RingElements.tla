---------------------------- MODULE RingElements ----------------------------
(***************************************************************************)
(* Elements of S = Z_q[X] / (X^D + 1) and vectors of them, as              *)
(* crates/labrador uses them: the arithmetic of crates/modring/src/poly.rs,*)
(* with the product by its definition (module RingProduct is about how     *)
(* crt.rs computes it), and decompose and recompose of garbage.rs by what  *)
(* they return (module Decomposition is about their loops).                *)
(***************************************************************************)
EXTENDS Modulus, Sequences, Functions

CONSTANTS q, D

ASSUME RingAssumption == IsModulus(q) /\ D \in Nat \ {0}

Coeffs == 0..(D - 1)
Elems == [Coeffs -> Residues(q)]

Zero == [k \in Coeffs |-> 0]
constant(x) == [k \in Coeffs |-> IF k = 0 THEN x % q ELSE 0]

Add(x, y) == [k \in Coeffs |-> (x[k] + y[k]) % q]
Sub(x, y) == [k \in Coeffs |-> (x[k] - y[k]) % q]
Neg(x) == [k \in Coeffs |-> (-x[k]) % q]
Scale(x, s) == [k \in Coeffs |-> (x[k] * s) % q]

\* X^D is -1.
Mul(x, y) ==
  [k \in Coeffs |->
     FoldFunction(+, 0, [i \in Coeffs |-> IF i <= k THEN x[i] * y[k - i]
                                          ELSE -(x[i] * y[D + k - i])]) % q]

Square(x) == x * x
Norm_sq(x) == FoldFunction(+, 0, [k \in Coeffs |-> Square(centered(q, x[k]))])

\* The sum of a family of elements, or of squared norms.  Addition modulo q is
\* commutative and associative: the order in which threads add does not show.
Total(f) == FoldFunction(Add, Zero, f)
TotalNorm(f) == FoldFunction(+, 0, [i \in DOMAIN f |-> Norm_sq(f[i])])

ring_inner_product(x, y) == Total([p \in DOMAIN x |-> Mul(x[p], y[p])])

-----------------------------------------------------------------------------
\* Integer division that truncates, and the digit in -base/2..base/2.
Truncate(v, b) == IF v >= 0 THEN v \div b ELSE -((-v) \div b)
Digit(v, b) ==
  LET rem == v - b * Truncate(v, b)
  IN IF rem > b \div 2 THEN rem - b ELSE IF rem < -(b \div 2) THEN rem + b ELSE rem

\* What is left of v after c digits.
Rest(v, b, c) ==
  LET left[k \in 0..c] ==
        IF k = 0 THEN v ELSE (left[k - 1] - Digit(left[k - 1], b)) \div b
  IN left[c]

\* A function from chunk numbers, from 0, to elements.
decompose(x, base, parts) ==
  [c \in 0..(parts - 1) |->
     IF base = 1 THEN (IF c = 0 THEN x ELSE Zero)
     ELSE [k \in Coeffs |->
             LET rest == Rest(centered(q, x[k]), base, c)
             IN (IF c = parts - 1 THEN rest ELSE Digit(rest, base)) % q]]

\* What a scale that starts at 1 and is multiplied by base is after c chunks.
Pow(base, c) ==
  LET scale[k \in 0..c] == IF k = 0 THEN 1 ELSE scale[k - 1] * base
  IN scale[c]

\* The cast of the sum to i64 (garbage.rs:119) is left out, as in Decomposition:
\* of two chunks it is within (1 + base) q / 2, below 2^63 in the system.
recompose(chunks, base) ==
  [k \in Coeffs |->
     FoldFunction(+, 0, [c \in DOMAIN chunks |-> Pow(base, c) * centered(q, chunks[c][k])]) % q]
=============================================================================
