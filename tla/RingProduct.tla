---------------------------- MODULE RingProduct ----------------------------
(***************************************************************************)
(* A ring is found and built, and two of its elements are multiplied:      *)
(* crates/modring, from the search for a modulus through Ring::new to the  *)
(* two ways Ring::mul has, the negacyclic NTT and the two-splitting CRT.   *)
(* One step is one candidate of a search, one round of Tonelli and Shanks, *)
(* or one group of butterflies, which share a twiddle.                     *)
(*                                                                         *)
(* Elements are functions from 0..d-1 to residues, the coefficients of     *)
(* X^0 .. X^(d-1) modulo X^d + 1.                                          *)
(***************************************************************************)
EXTENDS PrimeField, FiniteSetsExt

CONSTANTS
  Searches,     \* records [how, bound, d]: which find_prime function, its bound, D
  Radicands,    \* what sqrt is called with besides -1
  Coefficients  \* signed coefficients of the elements multiplied

ASSUME SearchesAssumption ==
  \A s \in Searches :
    /\ s.how \in {"ntt_friendly_below", "5mod8_below", "5mod8"}
    /\ s.bound \in Nat /\ s.bound > 2 * s.d + 1
    /\ \E b \in 1..s.d : s.d = 2 ^ b

ASSUME CoefficientsAssumption == Coefficients \subseteq Int

VARIABLES
  search,
  q,          \* the candidate, then the modulus
  pc,
  a,          \* what sqrt is asked for
  root,       \* its loop variables [r, c, t, s]; r is the square root in the end
  f, g,       \* the elements multiplied
  x,          \* the two arrays in work: f's and g's, then the product's
  cur,        \* which of them is transformed
  len, start, k \* the loop variables of a transform

vars == <<search, q, pc, a, root, f, g, x, cur, len, start, k>>

d == search.d
Index == 0..(d - 1)
Element == [Index -> Residues(q)]
ZeroElement == [i \in Index |-> 0]

RootStart_RoundedDown ==
  [r |-> pow(q, a, OddPart(q) \div 2), c |-> pow(q, LeastNonResidue(q), OddPart(q)),
   t |-> pow(q, a, OddPart(q)), s |-> TwoExponent(q)]

\* The loop of Tonelli and Shanks starts from these.
RootStart ==
  [r |-> pow(q, a, (OddPart(q) + 1) \div 2), c |-> pow(q, LeastNonResidue(q), OddPart(q)),
   t |-> pow(q, a, OddPart(q)), s |-> TwoExponent(q)]

-----------------------------------------------------------------------------
\* The search for a modulus.

FirstBelow(bound, m, residue) == (bound - 1) - ((bound - 1 - residue) % m)
FirstAbove(bound, m, residue) == bound + ((residue - bound) % m)

FirstCandidate(s) ==
  CASE s.how = "ntt_friendly_below" -> FirstBelow(s.bound, 2 * s.d, 1)
    [] s.how = "5mod8_below" -> FirstBelow(s.bound, 8, 5)
    [] s.how = "5mod8" -> FirstAbove(s.bound, 8, 5)

NextCandidate ==
  CASE search.how = "ntt_friendly_below" -> q - 2 * d
    [] search.how = "5mod8_below" -> q - 8
    [] search.how = "5mod8" -> q + 8

SmallestCandidate == IF search.how = "ntt_friendly_below" THEN 2 * d + 1 ELSE 5

Init ==
  /\ search \in Searches
  /\ q = FirstCandidate(search)
  /\ pc = "search" /\ a = 0
  /\ root = [r |-> 0, c |-> 0, t |-> 0, s |-> 0]
  /\ f = ZeroElement /\ g = ZeroElement /\ x = <<ZeroElement, ZeroElement>>
  /\ cur = 1 /\ len = 0 /\ start = 0 /\ k = 0

Skip ==
  /\ pc = "search" /\ q >= SmallestCandidate /\ ~is_prime(q)
  /\ q' = NextCandidate
  /\ UNCHANGED <<search, pc, a, root, f, g, x, cur, len, start, k>>

\* The search panics when it runs out of candidates.
NoPrime ==
  /\ pc = "search" /\ q < SmallestCandidate
  /\ pc' = "panic"
  /\ UNCHANGED <<search, q, a, root, f, g, x, cur, len, start, k>>

\* Ring::new asks for the square root of -1.
Found ==
  /\ pc = "search" /\ q >= SmallestCandidate /\ is_prime(q)
  /\ a' \in {q - 1} \cup (Radicands \cap Residues(q))
  /\ pc' = "sqrt"
  /\ UNCHANGED <<search, q, root, f, g, x, cur, len, start, k>>

-----------------------------------------------------------------------------
\* Modulus::sqrt.

NoRoot ==
  /\ pc = "sqrt" /\ a # 0 /\ pow(q, a, (q - 1) \div 2) # 1
  /\ pc' = "none"
  /\ UNCHANGED <<search, q, a, root, f, g, x, cur, len, start, k>>

RootOfZero ==
  /\ pc = "sqrt" /\ a = 0
  /\ root' = [root EXCEPT !.r = 0] /\ pc' = "some"
  /\ UNCHANGED <<search, q, a, f, g, x, cur, len, start, k>>

StartRoot ==
  /\ pc = "sqrt" /\ a # 0 /\ pow(q, a, (q - 1) \div 2) = 1
  /\ root' = RootStart /\ pc' = "rounds"
  /\ UNCHANGED <<search, q, a, f, g, x, cur, len, start, k>>

\* The smallest i with t^(2^i) = 1.
Order2(t) ==
  CHOOSE i \in 0..root.s : pow(q, t, 2 ^ i) = 1 /\ \A j \in 0..(i - 1) : pow(q, t, 2 ^ j) # 1

RootRound ==
  LET i == Order2(root.t)
      b == pow(q, root.c, 2 ^ (root.s - i - 1))
  IN /\ pc = "rounds" /\ root.t # 1
     /\ root' = [r |-> (root.r * b) % q, c |-> (b * b) % q,
                 t |-> (root.t * ((b * b) % q)) % q, s |-> i]
     /\ UNCHANGED <<search, q, pc, a, f, g, x, cur, len, start, k>>

RootFound ==
  /\ pc = "rounds" /\ root.t = 1
  /\ pc' = "some"
  /\ UNCHANGED <<search, q, a, root, f, g, x, cur, len, start, k>>

-----------------------------------------------------------------------------
\* The tables of Ring::new.

r == root.r
HasNtt == (q - 1) % (2 * d) = 0
psi == primitive_root_of_unity(q, 2 * d)

LogD == CHOOSE b \in 1..d : d = 2 ^ b
bit_reverse_OneShort(i) ==
  MapThenSumSet(LAMBDA b : ((i \div 2 ^ b) % 2) * 2 ^ (LogD - 1 - b), 1..(LogD - 1))
bit_reverse(i) ==
  MapThenSumSet(LAMBDA b : ((i \div 2 ^ b) % 2) * 2 ^ (LogD - 1 - b), 0..(LogD - 1))

fwd(i) == pow(q, psi, bit_reverse(i))
inverse(i) == pow(q, inv(q, psi), bit_reverse(i))

-----------------------------------------------------------------------------
\* Ring::mul is called with elements of at most two terms: it is bilinear.
Terms == Index \X {from_i64(q, c) : c \in Coefficients}
OneTerm(t) == [ZeroElement EXCEPT ![t[1]] = t[2]]
TwoTerms(t, u) == [OneTerm(t) EXCEPT ![u[1]] = u[2]]
Inputs == {TwoTerms(t, u) : t \in Terms, u \in Terms}

Call ==
  /\ pc = "some" /\ a = q - 1
  /\ f' \in Inputs /\ g' \in Inputs
  /\ x' = <<f', g'>>
  /\ pc' = IF HasNtt THEN "forward" ELSE "split"
  /\ cur' = 1 /\ len' = d \div 2 /\ start' = 0 /\ k' = 1
  /\ UNCHANGED <<search, q, a, root>>

Butterfly(v, zeta) ==
  [i \in Index |->
     CASE i \in start..(start + len - 1) -> (v[i] + zeta * v[i + len]) % q
       [] i \in (start + len)..(start + 2 * len - 1) -> (v[i - len] - zeta * v[i]) % q
       [] OTHER -> v[i]]

InverseButterfly(v, zeta) ==
  [i \in Index |->
     CASE i \in start..(start + len - 1) -> (v[i] + v[i + len]) % q
       [] i \in (start + len)..(start + 2 * len - 1) -> (zeta * (v[i - len] - v[i])) % q
       [] OTHER -> v[i]]

\* One group of ntt_in_place; k runs on through the levels.
ForwardGroup ==
  LET endOfLevel == start + 2 * len >= d
  IN /\ pc = "forward" /\ len >= 1
     /\ x' = [x EXCEPT ![cur] = Butterfly(@, fwd(k))]
     /\ k' = k + 1
     /\ start' = IF endOfLevel THEN 0 ELSE start + 2 * len
     /\ len' = IF endOfLevel THEN len \div 2 ELSE len
     /\ UNCHANGED <<search, q, pc, a, root, f, g, cur>>

NextOperand ==
  /\ pc = "forward" /\ len = 0 /\ cur = 1
  /\ cur' = 2 /\ len' = d \div 2 /\ start' = 0 /\ k' = 1
  /\ UNCHANGED <<search, q, pc, a, root, f, g, x>>

PointwiseProduct ==
  /\ pc = "forward" /\ len = 0 /\ cur = 2
  /\ x' = [x EXCEPT ![1] = [i \in Index |-> (x[1][i] * x[2][i]) % q]]
  /\ pc' = "inverse" /\ cur' = 1 /\ len' = 1 /\ start' = 0 /\ k' = 0
  /\ UNCHANGED <<search, q, a, root, f, g>>

\* One group of intt_in_place; k is group_idx.
InverseGroup ==
  LET groups == d \div (2 * len)
      endOfLevel == k + 1 = groups
  IN /\ pc = "inverse" /\ len < d
     /\ x' = [x EXCEPT ![1] = InverseButterfly(@, inverse(groups + k))]
     /\ k' = IF endOfLevel THEN 0 ELSE k + 1
     /\ len' = IF endOfLevel THEN 2 * len ELSE len
     /\ start' = IF endOfLevel THEN 0 ELSE start + 2 * len
     /\ UNCHANGED <<search, q, pc, a, root, f, g, cur>>

PostScale ==
  /\ pc = "inverse" /\ len = d
  /\ x' = [x EXCEPT ![1] = [i \in Index |-> (x[1][i] * inv(q, d)) % q]]
  /\ pc' = "done"
  /\ UNCHANGED <<search, q, a, root, f, g, cur, len, start, k>>

-----------------------------------------------------------------------------
\* The CRT path: h0 and h1 are the halves of an array.
H == d \div 2

split(v) ==
  [i \in Index |-> IF i < H THEN (v[i] + r * v[i + H]) % q ELSE (v[i - H] - r * v[i]) % q]

combine_NotHalved(v) ==
  [i \in Index |-> IF i < H THEN (v[i] + v[i + H]) % q
                   ELSE ((v[i - H] - v[i]) * inv(q, r)) % q]
combine(v) ==
  [i \in Index |-> IF i < H THEN ((v[i] + v[i + H]) * inv(q, 2)) % q
                   ELSE ((v[i - H] - v[i]) * inv(q, (2 * r) % q)) % q]

\* Coefficient i of the product modulo X^n - s of two blocks of n starting at "from".
BlockProduct(v, w, from, n, s, i) ==
  (MapThenSumSet(LAMBDA j : v[from + j] * w[from + i - j], 0..i)
   + s * (MapThenSumSet(LAMBDA j : v[from + j] * w[from + n + i - j], (i + 1)..(n - 1)) % q)) % q

mul_half(v, w) ==
  [i \in Index |-> IF i < H THEN BlockProduct(v, w, 0, H, r, i)
                   ELSE BlockProduct(v, w, H, H, q - r, i - H)]

Split ==
  /\ pc = "split"
  /\ x' = <<split(x[1]), split(x[2])>>
  /\ pc' = "halves"
  /\ UNCHANGED <<search, q, a, root, f, g, cur, len, start, k>>

MulHalves ==
  /\ pc = "halves"
  /\ x' = [x EXCEPT ![1] = mul_half(x[1], x[2])]
  /\ pc' = "combine"
  /\ UNCHANGED <<search, q, a, root, f, g, cur, len, start, k>>

Combine ==
  /\ pc = "combine"
  /\ x' = [x EXCEPT ![1] = combine(x[1])]
  /\ pc' = "done"
  /\ UNCHANGED <<search, q, a, root, f, g, cur, len, start, k>>

Next ==
  \/ Skip \/ NoPrime \/ Found
  \/ NoRoot \/ RootOfZero \/ StartRoot \/ RootRound \/ RootFound
  \/ Call
  \/ ForwardGroup \/ NextOperand \/ PointwiseProduct \/ InverseGroup \/ PostScale
  \/ Split \/ MulHalves \/ Combine

Spec == Init /\ [][Next]_vars

-----------------------------------------------------------------------------
\* The coefficients of v modulo X^n - rho, for a divisor n of d.
Reduced(v, n, rho) ==
  [j \in 0..(n - 1) |->
     MapThenSumSet(LAMBDA t : (v[j + t * n] * pow(q, rho, t)) % q, 0..(d \div n - 1)) % q]

\* The product in Z_q[X]/(X^d + 1), RingElem::mul of poly.rs.
Schoolbook == [i \in Index |-> BlockProduct(f, g, 0, d, q - 1, i)]

\* modulus.rs: each search returns a prime, the nearest to its bound in its
\* residue class, and panics only when there is none.
NearestPrime ==
  LET Class == IF search.how = "ntt_friendly_below" THEN {n \in Nat : n % (2 * d) = 1}
               ELSE {n \in Nat : n % 8 = 5}
      Prime(n) == n >= 2 /\ \A m \in 2..(n - 1) : n % m # 0
      Passed == IF search.how = "5mod8" THEN search.bound..(q - 1) ELSE (q + 1)..(search.bound - 1)
  IN /\ pc = "sqrt" => Prime(q) /\ q \in Class /\ \A n \in Passed : n \in Class => ~Prime(n)
     /\ pc = "panic" => \A n \in Passed : n \in Class => ~Prime(n)

\* modulus.rs: sqrt returns a square root of every residue that has one, and
\* Ring::new, which needs one of -1, gets it for every modulus of the searches.
RootsExist ==
  /\ pc = "some" => (r * r) % q = a
  /\ pc = "none" => \A y \in Residues(q) : (y * y) % q # a
  /\ pc = "none" => a # q - 1

\* ntt.rs: between the groups of a transform the array is cut into blocks, each
\* f modulo X^n - rho, where rho is the twiddle of the group that made the block
\* or its negative, so that the last level has the values at the odd powers of
\* psi (ntt.rs:4-6); crt.rs: split leaves f modulo X^(d/2) - r and X^(d/2) + r.
BlocksAreResidues ==
  LET Node(i, n) == d \div n + i \div n
      Modulo(i, n) == LET z == fwd(Node(i, n) \div 2)
                      IN IF n = d THEN q - 1 ELSE IF Node(i, n) % 2 = 0 THEN z ELSE q - z
      Block(v, i, n) == [j \in 0..(n - 1) |-> v[i + j]]
      Size(i) == IF len = 0 THEN 1 ELSE IF i < start THEN len ELSE 2 * len
  IN /\ pc = "forward" =>
          \A i \in Index :
            i % Size(i) = 0 =>
              /\ Block(x[cur], i, Size(i))
                   = Reduced(IF cur = 1 THEN f ELSE g, Size(i), Modulo(i, Size(i)))
              /\ len = 0 => Modulo(i, 1) = pow(q, psi, 2 * bit_reverse(i) + 1)
     /\ pc = "halves" =>
          /\ Block(x[1], 0, H) = Reduced(f, H, r)
          /\ Block(x[1], H, H) = Reduced(f, H, q - r)

\* crt.rs:126: "Both must agree with RingElem::mul - this is the central
\* invariant guarding the decomposition."
ProductIsSchoolbook == pc = "done" => x[1] = Schoolbook
=============================================================================
