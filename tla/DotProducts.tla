---------------------------- MODULE DotProducts ----------------------------
(***************************************************************************)
(* Statements, witnesses and what is computed of them: crates/labrador's   *)
(* statement.rs, the garbage polynomials of garbage.rs, the projection of   *)
(* jl.rs and the aggregation of prover.rs.                                 *)
(*                                                                         *)
(* A constraint has sparse functions: a from pairs <<i, j>> with i <= j,    *)
(* phi from slots <<vector, position>>.  A full one has b, an element; one  *)
(* on constant terms b0, a residue.  A statement is a record [n, r, full,   *)
(* const_term, beta_sq] with sequences of constraints; vectors and          *)
(* positions count from 0.                                                 *)
(***************************************************************************)
EXTENDS RingElements

CONSTANT PROJECTION_ROWS

ASSUME RowsAssumption == PROJECTION_ROWS \in Nat

Rows == 1..PROJECTION_ROWS

\* i <= j.
Pairs(r) == {p \in (0..(r - 1)) \X (0..(r - 1)) : p[1] <= p[2]}

\* A sparse function with elements at some of the places.
IsSparse(f, places) == DOMAIN f \subseteq places /\ f \in [DOMAIN f -> Elems]

IsConstraint(c, s) ==
  IsSparse(c.a, Pairs(s.r)) /\ IsSparse(c.phi, (0..(s.r - 1)) \X (0..(s.n - 1)))

IsStatement(s) ==
  /\ s.n \in Nat \ {0} /\ s.r \in Nat \ {0}
  /\ s.full \in Seq(Range(s.full)) /\ s.const_term \in Seq(Range(s.const_term))
  /\ \A k \in DOMAIN s.full : IsConstraint(s.full[k], s) /\ s.full[k].b \in Elems
  /\ \A l \in DOMAIN s.const_term :
       IsConstraint(s.const_term[l], s) /\ s.const_term[l].b0 \in Residues(q)

IsWitness(w, s) == w \in [0..(s.r - 1) -> [0..(s.n - 1) -> Elems]]

\* An entry off the diagonal stands for two.
Doubled(p, x) == IF p[1] = p[2] THEN x ELSE Add(x, x)

\* Sum of a_ij g_ij over all i and j, and of <phi_i, w_i>.
quadratic(a, g) == Total([p \in DOMAIN a |-> Doubled(p, Mul(a[p], g[p]))])
sparse_phi_inner_product(phi, w) == Total([s \in DOMAIN phi |-> Mul(phi[s], w[s[1]][s[2]])])

compute_g(w, pairs) == [p \in pairs |-> ring_inner_product(w[p[1]], w[p[2]])]

\* Left side of a constraint on a witness.
Value(c, w) == Add(quadratic(c.a, compute_g(w, DOMAIN c.a)),
                   sparse_phi_inner_product(c.phi, w))

eval_full(c, w) == Sub(Value(c, w), c.b)
eval_const_term(c, w) == (Value(c, w)[0] - c.b0) % q

WitnessNorm(w) == FoldFunction(+, 0, [i \in DOMAIN w |-> TotalNorm(w[i])])

satisfies(s, w) ==
  /\ \A k \in DOMAIN s.full : eval_full(s.full[k], w) = Zero
  /\ \A l \in DOMAIN s.const_term : eval_const_term(s.const_term[l], w) = 0
  /\ WitnessNorm(w) <= s.beta_sq

\* Half of <phi_i, w_j> + <phi_j, w_i>; (q + 1) / 2 is the inverse of 2.
phi_dot(phi, i, x) ==
  Total([s \in {t \in DOMAIN phi : t[1] = i} |-> Mul(phi[s], x[s[2]])])
compute_h_Whole(phi, w, r) ==
  [p \in Pairs(r) |-> Add(phi_dot(phi, p[1], w[p[2]]), phi_dot(phi, p[2], w[p[1]]))]
compute_h(phi, w, r) ==
  [p \in Pairs(r) |-> Scale(Add(phi_dot(phi, p[1], w[p[2]]), phi_dot(phi, p[2], w[p[1]])),
                            (q + 1) \div 2)]

-----------------------------------------------------------------------------
(***************************************************************************)
(* The projection.  Pi is a function of <<j, i, pos, k>>: the entry of row  *)
(* j for coefficient k of position pos of vector i, -1, 0 or 1.            *)
(***************************************************************************)
project_combined(Pi, w) ==
  [j \in Rows |->
     FoldFunction(+, 0, [i \in DOMAIN w |->
       FoldFunction(+, 0, [pos \in DOMAIN w[i] |->
         FoldFunction(+, 0, [k \in Coeffs |-> Pi[<<j, i, pos, k>>] * centered(q, w[i][pos][k])])])])]

\* a(1 / X).
sigma_minus_one_Identity(x) == x
sigma_minus_one(x) == [k \in Coeffs |-> IF k = 0 THEN x[0] ELSE (-x[D - k]) % q]

\* Row j as a constraint that the projection of the witness is p_j modulo q.
build_jl_constraints(Pi, p, slots) ==
  [j \in Rows |->
     [a |-> << >>,
      phi |-> [s \in slots |-> sigma_minus_one([k \in Coeffs |-> Pi[<<j, s[1], s[2], k>>] % q])],
      b0 |-> p[j] % q]]

-----------------------------------------------------------------------------
\* The combination of sparse functions with weights, each a sequence: the
\* buckets that are filled, sorted by position and merged.
Combination(weights, fs) ==
  [x \in UNION {DOMAIN fs[l] : l \in DOMAIN fs} |->
     Total([l \in {k \in DOMAIN fs : x \in DOMAIN fs[k]} |-> Mul(weights[l], fs[l][x])])]

Field(cs, f) == [l \in DOMAIN cs |-> cs[l][f]]
Constants(xs) == [l \in DOMAIN xs |-> constant(xs[l])]

\* The constraint psi_1 F'_1 + psi_2 F'_2 + ... without its right side.
aggregate_const_term(cts, psis) ==
  [a |-> Combination(Constants(psis), Field(cts, "a")),
   phi |-> Combination(Constants(psis), Field(cts, "phi"))]

ExpectedConstTerm(cts, psis) ==
  FoldFunction(+, 0, [l \in DOMAIN cts |-> psis[l] * cts[l].b0]) % q

\* b'', from the inner products already at hand.
b_double_prime(pp, g, w) == Add(quadratic(pp.a, g), sparse_phi_inner_product(pp.phi, w))

\* Weights alpha for the full constraints and beta for the aggregated ones.
aggregate_full_AlphaOnly(full, pps, alphas, betas) ==
  [a |-> Combination(alphas, Field(full, "a")),
   phi |-> Combination(alphas \o betas, Field(full \o pps, "phi"))]
aggregate_full(full, pps, alphas, betas) ==
  [a |-> Combination(alphas \o betas, Field(full \o pps, "a")),
   phi |-> Combination(alphas \o betas, Field(full \o pps, "phi"))]

aggregate_b(full, bpp, alphas, betas) ==
  Total([k \in DOMAIN (alphas \o betas) |-> Mul((alphas \o betas)[k], (Field(full, "b") \o bpp)[k])])
=============================================================================
