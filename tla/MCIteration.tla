---------------------------- MODULE MCIteration ----------------------------
(***************************************************************************)
(* Small rings, statements and chains for module Iteration.                *)
(***************************************************************************)
EXTENDS Iteration, TLC

\* A residue from a seed: zeros from 0, well mixed from others.
Code == [l \in {"A", "B", "C", "D", "Pi", "psi", "alpha", "beta", "c"} |->
           CASE l = "A" -> 1 [] l = "B" -> 2 [] l = "C" -> 3 [] l = "D" -> 4 [] l = "Pi" -> 5
             [] l = "psi" -> 6 [] l = "alpha" -> 7 [] l = "beta" -> 8 [] l = "c" -> 9]
MCSqueeze(seed, label, x) ==
  LET m == (Code[label] + 11 * x[1] + 23 * x[2] + 37 * x[3] + 53 * x[4] + 7) % 211
  IN IF seed = 0 THEN 0 ELSE (seed * m * m * m + m * (m \div 5) + m \div 3) % q

Elem(x, y) == [k \in Coeffs |-> IF k = 0 THEN x ELSE IF k = 1 THEN y % q ELSE 0]

\* Witness vector i, position p.
MCWitness(r, n) ==
  [i \in 0..(r - 1) |-> [p \in 0..(n - 1) |-> Elem((1 + i + 2 * p) % q, i - p)]]

\* A quadratic constraint, a linear one and one on a constant term; off is what
\* their right sides are off by.
MCStatement(r, n, wit, off, beta_sq) ==
  LET last == r - 1
      f1 == [a |-> (<<0, 0>> :> Elem(1, 2)) @@ (<<0, last>> :> Elem(3, 0)),
             phi |-> (<<0, 0>> :> Elem(2, 5)) @@ (<<last, n - 1>> :> Elem(0, 1))]
      f2 == [a |-> << >>, phi |-> (<<0, n - 1>> :> Elem(4, 1))]
      f3 == [a |-> (<<0, last>> :> Elem(1, 1)), phi |-> (<<last, 0>> :> Elem(1, 6))]
  IN [n |-> n, r |-> r, beta_sq |-> beta_sq,
      full |-> <<f1 @@ [b |-> Add(Value(f1, wit), constant(off))], f2 @@ [b |-> Value(f2, wit)]>>,
      const_term |-> <<f3 @@ [b0 |-> (Value(f3, wit)[0] + off) % q]>>]

\* Iterations in two parts, with and without a fold of several pieces, and a
\* last one, which is not cut.
First == [t |-> 2, b |-> 3, b1 |-> 4, t1 |-> 2, b2 |-> 3, t2 |-> 1,
          kappa |-> 1, kappa1 |-> 1, nu |-> 1, mu |-> 1]
Wide == [t |-> 2, b |-> 2, b1 |-> 3, t1 |-> 2, b2 |-> 2, t2 |-> 2,
         kappa |-> 2, kappa1 |-> 2, nu |-> 2, mu |-> 2]
SecLast == [t |-> 1, b |-> 1, b1 |-> 4, t1 |-> 2, b2 |-> 13, t2 |-> 1,
            kappa |-> 1, kappa1 |-> 1, nu |-> 1, mu |-> 1]

Case(version_, chain_, r, n, off, beta_sq) ==
  [version |-> version_, chain |-> chain_, w |-> MCWitness(r, n),
   stmt |-> MCStatement(r, n, MCWitness(r, n), off, beta_sq)]

\* True statements with norms far from the bound, and false ones, of which one
\* has norms beyond it.
MCCases ==
  {Case("v1", <<First>>, 2, 2, 0, 5000), Case("v2", <<First>>, 2, 1, 0, 5000),
   Case("v2", <<First>>, 2, 1, 1, 5000), Case("v2", <<First>>, 1, 1, 1, 5),
   Case("v2", <<Wide>>, 2, 3, 0, 5000), Case("v2", <<SecLast>>, 1, 2, 0, 5000),
   Case("v2", <<First, SecLast>>, 1, 2, 0, 5000), Case("v2", <<First, First>>, 1, 1, 0, 5000)}

Change(field, at, k, by) == [field |-> field, at |-> at, k |-> k, by |-> by]
MCChanges ==
  {[field |-> "none"]}
    \cup {Change(f, 1, k, 1) : f \in {"u1", "u2", "bpp"}, k \in {0, 1}}
    \cup {Change(f, <<0, i>>, k, 5) : f \in {"v", "g", "h"}, i \in {0, 1}, k \in {0, 1}}
    \cup {Change(f, 0, 1, 4) : f \in {"z", "z0", "z1"}}
    \cup {Change("p", 1, 0, by) : by \in {1, q, 1000}}
=============================================================================
