------------------------------ MODULE Modulus ------------------------------
(***************************************************************************)
(* Residues modulo an odd q, kept in 0..q-1, and signed integers: the two  *)
(* conversions of crates/modring/src/modulus.rs.                           *)
(***************************************************************************)
EXTENDS Integers

IsModulus(q) == q \in Nat /\ q >= 3 /\ q % 2 = 1

Residues(q) == 0..(q - 1)

\* rem_euclid, which is TLA+'s %.
from_i64(q, x) == x % q

centered_AtHalf(q, a) == IF a >= q \div 2 THEN a - q ELSE a

\* The representative of a in (-q/2, q/2].
centered(q, a) == IF a > q \div 2 THEN a - q ELSE a

Abs(x) == IF x < 0 THEN -x ELSE x
=============================================================================
