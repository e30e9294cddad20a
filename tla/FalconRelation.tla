--------------------------- MODULE FalconRelation ---------------------------
(***************************************************************************)
(* The statement "these N Falcon signatures verify": the witness of        *)
(* build_honest_witness and the constraint builders of                     *)
(* crates/falcon-relation/src/relation.rs, one pass of an outer loop a     *)
(* step.  They run twice: in build_falcon_statement from the signatures,   *)
(* and in build_verifier_statement of crates/aggregate-falcon/src/lib.rs   *)
(* from public data, with s1 and s2 zeroed.                                *)
(*                                                                         *)
(* Coefficients are symbols with a sign; polynomials are functions on      *)
(* their exponents.  A statement is the set of its constraints: both sides *)
(* push them in the order of the same loops.                               *)
(***************************************************************************)
EXTENDS WitnessLayout, FiniteSets

CONSTANTS
  D,      \* the degree of S, 64 in modring
  Sizes,  \* the numbers N of signatures considered
  NullH   \* the coefficients that are zero in the public keys

ASSUME DegreeAssumption == D \in Nat /\ D >= 2
ASSUME SizesAssumption == Sizes \subseteq Nat \ {0}

VARIABLES
  L,          \* the WitnessLayout
  side,       \* whose statement is built, first the prover's
  pc,         \* which loop runs
  i,          \* its loop variable
  w,          \* the witness, vectors of polynomials
  full,       \* the full constraints of either side
  const_term  \* the constant-term constraints of either side

vars == <<L, side, pc, i, w, full, const_term>>

Sides == {"prover", "verifier"}
Coeffs == 0..(D - 1)          \* of an element of S
RCoeffs == 0..(C * D - 1)     \* of a Falcon element

-----------------------------------------------------------------------------
\* Symbols: the coefficient n of the Falcon element called name of signature k.
Sym(name, k, n) == [sg |-> 1, of |-> <<name, k, n>>]
NoSym == [sg |-> 0, of |-> <<>>]
Neg(a) == [a EXCEPT !.sg = -a.sg]

ZeroPoly == [l \in Coeffs |-> NoSym]
Monomial(e) == [l \in Coeffs |-> IF l = e THEN Sym("one", 0, 0) ELSE NoSym]
NegPoly(p) == [l \in Coeffs |-> Neg(p[l])]
Scalar(name) == [l \in Coeffs |-> IF l = 0 THEN Sym(name, 0, 0) ELSE NoSym]
One == Monomial(0)

\* p * Y in S, where Y^D = -1.
MulY(p) == [l \in Coeffs |-> IF l = 0 THEN Neg(p[D - 1]) ELSE p[l - 1]]

\* embed_signed: coefficient n of a Falcon element is coefficient n div C of
\* slot n mod C.
embed(f) == [k \in Slots |-> [l \in Coeffs |-> f[k + C * l]]]

sigma_minus_one(p) == [l \in Coeffs |-> IF l = 0 THEN p[0] ELSE Neg(p[D - l])]

\* What either side has of signature k: a FalconSig, whose s1 and s2 the
\* verifier does not know.
Element(name, k) == [n \in RCoeffs |-> Sym(name, k, n)]
ZeroElement == [n \in RCoeffs |-> NoSym]
FalconSig(s, k) ==
  [h  |-> [n \in RCoeffs |-> IF n \in NullH THEN NoSym ELSE Sym("h", k, n)],
   c  |-> Element("c", k),
   s1 |-> IF s = "prover" THEN Element("s1", k) ELSE ZeroElement,
   s2 |-> IF s = "prover" THEN Element("s2", k) ELSE ZeroElement]

\* The four roots of four_square in the first four coefficients, and the
\* quotient of compute_v_signed.
eps(k) == [n \in RCoeffs |-> IF n < 4 THEN Sym("eps", k, n) ELSE NoSym]
v(k) == Element("v", k)

-----------------------------------------------------------------------------
\* The seven calls of place_slots for signature k, in their order.
Placements(k) ==
  LET sig == FalconSig("prover", k)
      conj(f) == [s \in Slots |-> sigma_minus_one(embed(f)[s])]
      row == index(L, k)
      col == index_prime(L, k)
  IN <<[vec |-> y_idx(L, row, 1),  slots |-> embed(sig.s1)],
       [vec |-> y_idx(L, row, 2),  slots |-> embed(sig.s2)],
       [vec |-> yp_idx(L, col, 1), slots |-> conj(sig.s1)],
       [vec |-> yp_idx(L, col, 2), slots |-> conj(sig.s2)],
       [vec |-> e_idx(L, row),     slots |-> embed(eps(k))],
       [vec |-> ep_idx(L, col),    slots |-> conj(eps(k))],
       [vec |-> v_idx(L),          slots |-> embed(v(k))]>>

Init ==
  /\ \E n \in Sizes : L \in LayoutsOf(n)
  /\ side = "prover" /\ pc = "witness" /\ i = 1
  /\ w = [vec \in Vectors(L) |-> [p \in Positions(L) |-> ZeroPoly]]
  /\ full = [s \in Sides |-> {}]
  /\ const_term = [s \in Sides |-> {}]

\* The loop goes on up to bound; after it comes the loop `next'.
Advance(bound, next) ==
  IF i < bound THEN i' = i + 1 /\ UNCHANGED <<side, pc>>
               ELSE i' = 1 /\ pc' = next /\ UNCHANGED side

\* A later call on the same vector overwrites an earlier one.
LastOn(k, vec) ==
  LET on == {t \in 1..7 : Placements(k)[t].vec = vec}
  IN CHOOSE t \in on : \A u \in on : u <= t

PlaceSignature ==
  /\ pc = "witness"
  /\ w' = [vec \in Vectors(L) |-> [p \in Positions(L) |->
             IF (\E t \in 1..7 : Placements(i)[t].vec = vec) /\ p \in Window(i)
             THEN Placements(i)[LastOn(i, vec)].slots[p - C * (i - 1)]
             ELSE w[vec][p]]]
  /\ Advance(L.n_sigs, "falcon")
  /\ UNCHANGED <<L, full, const_term>>

-----------------------------------------------------------------------------
\* A term of a constraint: coefficient coef at position pos of phi_vec.
Term(vec, pos, coef) == [vec |-> vec, pos |-> pos, coef |-> coef]
Full(phi, b) == [a |-> {}, phi |-> phi, b |-> b]
ConstTerm(a, phi, b0) == [a |-> a, phi |-> phi, b0 |-> b0]

Push(F, T) ==
  /\ full' = [full EXCEPT ![side] = @ \union F]
  /\ const_term' = [const_term EXCEPT ![side] = @ \union T]
  /\ UNCHANGED <<L, w>>

\* The coefficient of slot b of s2 in slot k of h * s2.
HRow_NoY(hs, k, b) == IF b <= k THEN hs[k - b] ELSE hs[k + C - b]
HRow(hs, k, b) == IF b <= k THEN hs[k - b] ELSE MulY(hs[k + C - b])

FalconEq_SkipsZeroS2(j, k) ==
  LET sig == FalconSig(side, j)
      hs == embed(sig.h)
      used == {b \in Slots : HRow(hs, k, b) # ZeroPoly /\ embed(sig.s2)[b] # ZeroPoly}
  IN Full({Term(y_idx(L, index(L, j), 1), At(j, k), One),
           Term(v_idx(L), At(j, k), Scalar("q"))}
          \union {Term(y_idx(L, index(L, j), 2), At(j, b), HRow(hs, k, b)) : b \in used},
          embed(sig.c)[k])

\* Slot k of s1 + h s2 + q v - c = 0 for signature j; zero coefficients are
\* not stored.
FalconEq(j, k) ==
  LET sig == FalconSig(side, j)
      hs == embed(sig.h)
      used == {b \in Slots : HRow(hs, k, b) # ZeroPoly}
  IN Full({Term(y_idx(L, index(L, j), 1), At(j, k), One),
           Term(v_idx(L), At(j, k), Scalar("q"))}
          \union {Term(y_idx(L, index(L, j), 2), At(j, b), HRow(hs, k, b)) : b \in used},
          embed(sig.c)[k])

AddFalconEq ==
  /\ pc = "falcon"
  /\ Push({FalconEq(i, k) : k \in Slots}, {})
  /\ Advance(L.n_sigs, "squares")

\* |s1|^2 + |s2|^2 + |eps|^2 = beta^2 for signature j.  A pair is stored with
\* its smaller index first and the coefficient 1/2, and counts twice.
Pair(a, b) == IF a <= b THEN <<a, b>> ELSE <<b, a>>
FourSquare(j) ==
  LET row == index(L, j)
      col == index_prime(L, j)
  IN ConstTerm({Pair(y_idx(L, row, 1), yp_idx(L, col, 1)),
                Pair(y_idx(L, row, 2), yp_idx(L, col, 2)),
                Pair(e_idx(L, row), ep_idx(L, col))}, {}, Sym("beta_sq", 0, 0))

AddFourSquare ==
  /\ pc = "squares"
  /\ Push({}, {FourSquare(i)})
  /\ Advance(L.n_sigs, "y")

-----------------------------------------------------------------------------
\* The form constraints.  w_vec[pos] = 0:
Pin(vec, pos) == Full({Term(vec, pos, One)}, ZeroPoly)
Pins(vec, K, S) == {Pin(vec, At(k, s)) : k \in K, s \in S}

\* Coefficient l of w_vec[pos] is zero, for l > 0.
CoeffPin(vec, pos, l) == ConstTerm({}, {Term(vec, pos, Monomial(D - l))}, NoSym)
CoeffPins(vec, K, S) == {CoeffPin(vec, At(k, s), l) : k \in K, s \in S, l \in Coeffs \ {0}}

\* Coefficient l of w_prime[pos] is that of the conjugate of w_vec[pos].
Tie(vec, prime, pos, l) ==
  ConstTerm({}, {Term(vec, pos, Monomial(l)),
                 Term(prime, pos, IF l = 0 THEN NegPoly(One) ELSE Monomial(D - l))}, NoSym)

AddYPadding ==
  /\ pc = "y"
  /\ Push(UNION {Pins(y_idx(L, i, j), Sigs(L) \ ActiveInRow(L, i), Slots) : j \in {1, 2}}, {})
  /\ Advance(L.num_y, "yp")

AddYp ==
  /\ pc = "yp"
  /\ Push(UNION {Pins(yp_idx(L, i, j), Sigs(L) \ ActiveInColumn(L, i), Slots) : j \in {1, 2}},
          {Tie(y_idx(L, index(L, k), j), yp_idx(L, i, j), At(k, s), l) :
             k \in ActiveInColumn(L, i), j \in {1, 2}, s \in Slots, l \in Coeffs})
  /\ Advance(L.num_yp, "e")

Roots == 0..3   \* the slots that hold eps

AddE ==
  /\ pc = "e"
  /\ Push(Pins(e_idx(L, i), Sigs(L) \ ActiveInRow(L, i), Slots)
            \union Pins(e_idx(L, i), ActiveInRow(L, i), Slots \ Roots),
          CoeffPins(e_idx(L, i), ActiveInRow(L, i), Roots))
  /\ Advance(L.num_y, "ep")

\* Then the verifier builds its own, or both are done.
LastLoop ==
  IF i < L.num_yp THEN i' = i + 1 /\ UNCHANGED <<side, pc>>
  ELSE /\ i' = 1
       /\ side' = "verifier"
       /\ pc' = IF side = "prover" THEN "falcon" ELSE "done"

AddEp_PinsFromFive ==
  /\ pc = "ep"
  /\ Push(Pins(ep_idx(L, i), Sigs(L) \ ActiveInColumn(L, i), Slots)
            \union Pins(ep_idx(L, i), ActiveInColumn(L, i), Slots \ 0..4),
          {Tie(e_idx(L, index(L, k)), ep_idx(L, i), At(k, s), 0) :
             k \in ActiveInColumn(L, i), s \in Roots}
            \union CoeffPins(ep_idx(L, i), ActiveInColumn(L, i), Roots))
  /\ LastLoop

AddEp ==
  /\ pc = "ep"
  /\ Push(Pins(ep_idx(L, i), Sigs(L) \ ActiveInColumn(L, i), Slots)
            \union Pins(ep_idx(L, i), ActiveInColumn(L, i), Slots \ Roots),
          {Tie(e_idx(L, index(L, k)), ep_idx(L, i), At(k, s), 0) :
             k \in ActiveInColumn(L, i), s \in Roots}
            \union CoeffPins(ep_idx(L, i), ActiveInColumn(L, i), Roots))
  /\ LastLoop

Next ==
  \/ PlaceSignature \/ AddFalconEq \/ AddFourSquare
  \/ AddYPadding \/ AddYp \/ AddE \/ AddEp

Spec == Init /\ [][Next]_vars
-----------------------------------------------------------------------------
Done == pc = "done"
Constraints == UNION {full[s] \union const_term[s] : s \in Sides}

\* The type invariant.  Every term is about an existing position: eval_full
\* and the aggregation index the witness without a check.
TypeOK ==
  /\ \E n \in Sizes : L \in LayoutsOf(n)
  /\ side \in Sides
  /\ pc \in {"witness", "falcon", "squares", "y", "yp", "e", "ep", "done"}
  /\ i \in Nat \ {0}
  /\ full = [s \in Sides |-> full[s]] /\ const_term = [s \in Sides |-> const_term[s]]
  /\ DOMAIN w = Vectors(L)
  /\ \A vec \in Vectors(L) : DOMAIN w[vec] = Positions(L)
  /\ \A c \in Constraints :
       /\ \A t \in c.phi : t.vec \in Vectors(L) /\ t.pos \in Positions(L)
       /\ c.a \subseteq Vectors(L) \X Vectors(L)

\* Each of the seven pieces of a signature stays where place_slots put it: no
\* other piece, of this signature or of a later one, is placed over it.
EachInItsPlace ==
  \A k \in Sigs(L) : pc # "witness" \/ k < i =>
    \A t \in 1..7 : \A s \in Slots :
      w[Placements(k)[t].vec][At(k, s)] = Placements(k)[t].slots[s]

-----------------------------------------------------------------------------
\* Sums of symbols: the terms of coefficient l of p * a in S, each with its
\* sign, and tagged with where it comes from.
Products(p, a, l, at) ==
  {[sg |-> p[u].sg * a[(l - u) % D].sg * (IF u <= l THEN 1 ELSE -1),
    of |-> <<p[u].of, a[(l - u) % D].of>>, at |-> <<at, u>>] :
     u \in {x \in Coeffs : p[x].sg # 0 /\ a[(l - x) % D].sg # 0}}

\* Coefficient l of the linear part of constraint c, and the constant term of
\* its quadratic part.
Linear(c, l) == UNION {Products(t.coef, w[t.vec][t.pos], l, <<t.vec, t.pos>>) : t \in c.phi}
Quadratic(c) ==
  UNION {Products(w[ab[1]][p], w[ab[2]][p], 0, <<ab, p>>) : ab \in c.a, p \in Positions(L)}

Vanishes(T) ==
  \A t \in T : Cardinality({x \in T : x.of = t.of /\ x.sg = 1}) =
               Cardinality({x \in T : x.of = t.of /\ x.sg = -1})

\* The terms of T are those of the set S, each once.
Consists(T, S) ==
  /\ {[sg |-> t.sg, of |-> t.of] : t \in T} = S
  /\ Cardinality(T) = Cardinality(S)

\* Coefficient n of s1 + h s2 + q v in Z[X]/(X^(CD) + 1).
Lifted(j, n) ==
  LET sym(name, m) == <<name, j, m>>
      sum == {[sg |-> 1, of |-> <<<<"one", 0, 0>>, sym("s1", n)>>],
              [sg |-> 1, of |-> <<<<"q", 0, 0>>, sym("v", n)>>]}
      product == {[sg |-> IF a <= n THEN 1 ELSE -1,
                   of |-> <<sym("h", a), sym("s2", (n - a) % (C * D))>>] : a \in RCoeffs \ NullH}
  IN sum \union product

\* The C constraints of a signature over S say on the honest witness what the
\* verification equation says over R, coefficient by coefficient: the rows of
\* h with their factor Y are the negacyclic product.
FalconEqIsProduct(s) ==
  \A j \in Sigs(L) : \A k \in Slots :
    \E c \in full[s] :
      /\ c.b = embed(Element("c", j))[k]
      /\ \A l \in Coeffs : Consists(Linear(c, l), Lifted(j, k + C * l))

\* The symbols that signature j's norm is about.
OwnSymbols(j) ==
  {<<name, j, n>> : name \in {"s1", "s2"}, n \in RCoeffs} \union {<<"eps", j, n>> : n \in 0..3}

\* The constant term of each four-square constraint is, on the honest witness,
\* the squared norm of one signature with its four roots: every coefficient
\* squared once, with a plus.
SquaresAreNorms(s) ==
  \A j \in Sigs(L) :
    \E c \in const_term[s] :
      /\ c.b0 # NoSym
      /\ Consists(Quadratic(c), {[sg |-> 1, of |-> <<x, x>>] : x \in OwnSymbols(j)})

\* build_honest_witness and the constraint builders are written apart; whatever
\* the signatures, the witness meets each homogeneous constraint, and the others
\* say on it the verification equation and the norm of the signature.
HonestSatisfies ==
  Done => \A s \in Sides :
    /\ \A c \in full[s] : c.b = ZeroPoly => \A l \in Coeffs : Vanishes(Linear(c, l))
    /\ \A c \in const_term[s] : c.a = {} => Vanishes(Linear(c, 0))
    /\ FalconEqIsProduct(s)
    /\ SquaresAreNorms(s)

-----------------------------------------------------------------------------
\* The coefficients of w_vec[pos] in the constant term of coef * w_vec[pos].
Reads(t) == {<<t.vec, t.pos, (D - e) % D>> : e \in {x \in Coeffs : t.coef[x].sg # 0}}

ForcedZero(s) ==
  (UNION {UNION {{<<t.vec, t.pos, l>> : l \in Coeffs} : t \in c.phi} :
            c \in {d \in full[s] : Cardinality(d.phi) = 1 /\ d.b = ZeroPoly}})
  \union
  (UNION {UNION {Reads(t) : t \in c.phi} :
            c \in {d \in const_term[s] : Cardinality(d.phi) = 1 /\ d.b0 = NoSym}})

Tied(s) ==
  {UNION {Reads(t) : t \in c.phi} :
     c \in {d \in const_term[s] : Cardinality(d.phi) = 2 /\ d.b0 = NoSym}}

Symbol(cell) == w[cell[1]][cell[2]][cell[3]]
Unprimed == 0..(2 * L.num_y - 1)
              \union {e_idx(L, row) : row \in Rows(L)}

\* relation.rs:669: "This makes the witness structurally rigid".  A
\* coefficient that is zero in every honest witness is forced to be zero, and
\* every other one of a primed vector is tied to its unprimed counterpart.
Rigid ==
  Done => \A s \in Sides :
    LET zero == ForcedZero(s)
        tied == Tied(s)
    IN \A vec \in Vectors(L) \ {v_idx(L)} : \A p \in Positions(L) : \A l \in Coeffs :
         LET cell == <<vec, p, l>>
         IN IF Symbol(cell).sg = 0 THEN cell \in zero
            ELSE vec \in Unprimed \/ \E other \in {o \in Unprimed \X {p} \X Coeffs :
                                                Symbol(o).of = Symbol(cell).of} :
                                      {cell, other} \in tied

\* A cheating signer cannot borrow norm: in each four-square constraint, for
\* any witness that meets the pins, both factors can be other than zero in the
\* signature's own window only.
OwnNormOnly ==
  Done => \A s \in Sides : \A j \in Sigs(L) :
    LET free(vec) == {p \in Positions(L) : Pin(vec, p) \notin full[s]}
        row == index(L, j)
        col == index_prime(L, j)
    IN /\ \A n \in {1, 2} : free(y_idx(L, row, n)) \intersect free(yp_idx(L, col, n)) \subseteq Window(j)
       /\ free(e_idx(L, row)) \intersect free(ep_idx(L, col)) \subseteq {At(j, k) : k \in Roots}

\* aggregate-falcon/src/lib.rs:228-229: the builders read h and c only, so that
\* the verifier, who zeroes s1 and s2, builds the statement of the prover.
VerifierBuildsSame ==
  Done => full["verifier"] = full["prover"] /\ const_term["verifier"] = const_term["prover"]
=============================================================================
