----------------------------- MODULE PrimeField -----------------------------
(***************************************************************************)
(* Arithmetic modulo a prime, crates/modring/src/modulus.rs: powers,       *)
(* inverses, the primality test and the quadratic residues that roots of   *)
(* unity are made from.  Operations return canonical residues, as there.   *)
(***************************************************************************)
EXTENDS Modulus, FiniteSets

\* a^e mod n by squaring; the code reads the bits of e from the other end.
Power(n, a, e) ==
  LET P[k \in 0..e] ==
        IF k = 0 THEN 1
        ELSE IF k % 2 = 1 THEN (P[k - 1] * (a % n)) % n
        ELSE LET h == P[k \div 2] IN (h * h) % n
  IN P[e]

pow(q, a, e) == Power(q, a, e)
inv(q, a) == pow(q, a, q - 2)

NonResidue(q, z) == pow(q, z, (q - 1) \div 2) = q - 1
LeastNonResidue(q) ==
  CHOOSE z \in 2..(q - 1) : NonResidue(q, z) /\ \A y \in 2..(z - 1) : ~NonResidue(q, y)

primitive_root_of_unity(q, order) == pow(q, LeastNonResidue(q), (q - 1) \div order)

\* n - 1 = OddPart * 2^TwoExponent: the loops that halve while even.
TwoExponent(n) ==
  CHOOSE s \in 0..n : (n - 1) % 2 ^ s = 0 /\ ((n - 1) \div 2 ^ s) % 2 = 1
OddPart(n) == (n - 1) \div 2 ^ TwoExponent(n)

Witnesses == {2, 3, 5, 7, 11, 13, 17, 19, 23, 29, 31, 37}

\* One round of Miller and Rabin: the power of a, squared r - 1 times.
PassesRound(n, a) ==
  \/ Power(n, a, OddPart(n)) = 1
  \/ \E i \in 0..(TwoExponent(n) - 1) : Power(n, a, OddPart(n) * 2 ^ i) = n - 1

is_prime_TrialDivision(n) == n \in Witnesses \/ (n >= 2 /\ \A p \in Witnesses : n % p # 0)

is_prime(n) ==
  \/ n \in Witnesses
  \/ /\ n >= 2
     /\ \A p \in Witnesses : n % p # 0 /\ PassesRound(n, p)
=============================================================================
