---------------------------- MODULE FoldedChecks ----------------------------
(***************************************************************************)
(* The checks of one iteration as constraints on the next iteration's       *)
(* witness: the builders of crates/labrador/src/fold.rs, with the witness   *)
(* that build_folded_witness makes of the openings.                        *)
(*                                                                         *)
(* it is a record of iteration parameters [t, b, b1, t1, b2, t2, kappa,     *)
(* kappa1, nu, mu], nu and mu those of the fold that follows.  proof has    *)
(* u1, p, bpp, u2 and the openings z0, z1, v, g, h.  replay has what both   *)
(* sides derive: the draws' seeds, the challenges cs and a_agg, phi_agg,    *)
(* b_agg.                                                                  *)
(***************************************************************************)
EXTENDS DotProducts, FoldLayout

CONSTANT
  Squeeze(_, _, _)   \* the residue drawn from a seed, for a label and an index

\* f, and g where f says nothing.
Join(f, g) == [x \in DOMAIN f \cup DOMAIN g |-> IF x \in DOMAIN f THEN f[x] ELSE g[x]]

\* An element drawn for a label and a tuple of three indices.
Draw(seed, label, ix) == [k \in Coeffs |-> Squeeze(seed, label, Append(ix, k))]

A(seeds, k, p) == Draw(seeds.matrices, "A", <<k, p, 0>>)

\* Row and entry of the matrices B, C and D, which meet V, G and H entries; D
\* is drawn after b''.
Matrix(seeds, e, row) ==
  CASE e[1] = "V" -> Draw(seeds.matrices, "B", <<e[2], e[3], 64 * row + e[4]>>)
    [] e[1] = "G" -> Draw(seeds.matrices, "C", <<e[2], e[3], 64 * row + e[4]>>)
    [] e[1] = "H" -> Draw(seeds.linear, "D", <<e[2], e[3], 64 * row + e[4]>>)

Parameters ==
  LET Positive == Nat \ {0}
  IN [t : Positive, b : Positive, b1 : Positive, t1 : Positive, b2 : Positive, t2 : Positive,
      kappa : Positive, kappa1 : Positive, nu : Positive, mu : Positive]

ShapeOf(stmt, it) ==
  [n |-> stmt.n, r |-> stmt.r, t1 |-> it.t1, t2 |-> it.t2, kappa |-> it.kappa,
   nu |-> it.nu, mu |-> it.mu]

\* The openings by source: decompose_v and decompose_sym of v, g and h.
Opening(it, proof, x) ==
  CASE x[1] = "z" -> IF x[2] = 0 THEN proof.z0[x[3]] ELSE proof.z1[x[3]]
    [] x[1] = "V" -> decompose(proof.v[x[2]][x[4]], it.b1, it.t1)[x[3]]
    [] x[1] = "G" -> decompose(proof.g[<<x[2], x[3]>>], it.b2, it.t2)[x[4]]
    [] x[1] = "H" -> decompose(proof.h[<<x[2], x[3]>>], it.b1, it.t1)[x[4]]

build_folded_witness(s, it, proof) ==
  LET placed == {<<SlotOf(s, x), x>> : x \in Sources(s)}
      At(slot) == {y \in placed : y[1] = slot}
  IN [i \in Below(RPrime(s)) |->
        [p \in Below(NPrime(s)) |->
           IF At(<<i, p>>) = {} THEN Zero
           ELSE Opening(it, proof, (CHOOSE y \in At(<<i, p>>) : TRUE)[2])]]

-----------------------------------------------------------------------------
\* PhiBuilder: coefficients of sources put at their slots, merged where they
\* meet, zeros left out.
Place(s, coef) ==
  LET placed == {<<SlotOf(s, x), x>> : x \in DOMAIN coef}
      SumAt(slot) == Total([y \in {z \in placed : z[1] = slot} |-> coef[y[2]]])
      slots == {y[1] : y \in placed}
  IN [slot \in {t \in slots : SumAt(t) # Zero} |-> SumAt(slot)]

PowerOf(base, l) == constant(Pow(base, l))

\* Coefficients of z = z^(0) + b z^(1) on its two halves.
OnZ(s, it, coef) ==
  [x \in {ZEntry(half, p) : half \in {0, 1}, p \in DOMAIN coef} |->
     IF x[2] = 0 THEN coef[x[3]] ELSE Mul(coef[x[3]], constant(it.b))]

\* c_i c_j for a pair of the upper triangle, with its mirror image.
CiCj(cs, e) == Doubled(<<e[2], e[3]>>, Mul(cs[e[2]], cs[e[3]]))

\* Minus the sum of c_i c_j times the recomposed g_ij or h_ij.
MinusGarbage(cs, entries, base) ==
  [e \in entries |-> Neg(Mul(CiCj(cs, e), PowerOf(base, e[4])))]

Linear(s, coef, b) == [a |-> << >>, phi |-> Place(s, coef), b |-> b]

\* A z = sum of c_i v_i, row k.
build_check3_row(s, it, rep, k) ==
  Linear(s, Join(OnZ(s, it, [p \in Below(s.n) |-> A(rep.seeds, k, p)]),
                 [e \in {x \in VEntries(s) : x[4] = k} |->
                    Neg(Mul(rep.cs[e[2]], PowerOf(it.b1, e[3])))]),
         Zero)

\* <z, z> = sum of c_i c_j g_ij: b once on the cross terms, which count twice.
build_check4_Unsquared(s, it, rep) ==
  [a |-> [p \in {<<i, i>> : i \in Below(2 * s.nu)} \cup {<<i, s.nu + i>> : i \in Below(s.nu)} |->
            IF p[2] < s.nu THEN constant(1) ELSE constant(it.b)],
   phi |-> Place(s, MinusGarbage(rep.cs, GEntries(s), it.b2)), b |-> Zero]
build_check4(s, it, rep) ==
  [a |-> [p \in {<<i, i>> : i \in Below(2 * s.nu)} \cup {<<i, s.nu + i>> : i \in Below(s.nu)} |->
            CASE p[2] < s.nu -> constant(1)
              [] p[1] < p[2] -> constant(it.b)
              [] OTHER -> constant(it.b * it.b)],
   phi |-> Place(s, MinusGarbage(rep.cs, GEntries(s), it.b2)), b |-> Zero]

\* The sum over i of c_i <phi_i, z> = sum of c_i c_j h_ij.
build_check5(s, it, rep) ==
  Linear(s, Join(OnZ(s, it, [p \in {x[2] : x \in DOMAIN rep.phi_agg} |->
                               Total([x \in {y \in DOMAIN rep.phi_agg : y[2] = p} |->
                                        Mul(rep.cs[x[1]], rep.phi_agg[x])])]),
                 MinusGarbage(rep.cs, HEntries(s), it.b1)),
         Zero)

\* The sum of a_ij g_ij and of h_ii = b_agg.
build_check6(s, it, rep) ==
  Linear(s, Join([e \in {x \in GEntries(s) : <<x[2], x[3]>> \in DOMAIN rep.a_agg} |->
                    Mul(Doubled(<<e[2], e[3]>>, rep.a_agg[<<e[2], e[3]>>]), PowerOf(it.b2, e[4]))],
                 [e \in {x \in HEntries(s) : x[2] = x[3]} |-> PowerOf(it.b1, e[4])]),
         rep.b_agg)

\* u_1 and u_2, a row each.
build_check8_row(s, rep, u1, row) ==
  Linear(s, [e \in VEntries(s) \cup GEntries(s) |-> Matrix(rep.seeds, e, row)], u1[row])
build_check9_row(s, rep, u2, row) ==
  Linear(s, [e \in HEntries(s) |-> Matrix(rep.seeds, e, row)], u2[row])

fold_statement(stmt, it, proof, rep) ==
  LET s == ShapeOf(stmt, it)
  IN [n |-> NPrime(s), r |-> RPrime(s),
      full |-> [k \in 1..it.kappa |-> build_check3_row(s, it, rep, k - 1)]
               \o <<build_check4(s, it, rep), build_check5(s, it, rep), build_check6(s, it, rep)>>
               \o [row \in 1..it.kappa1 |-> build_check8_row(s, rep, proof.u1, row)]
               \o [row \in 1..it.kappa1 |-> build_check9_row(s, rep, proof.u2, row)],
      const_term |-> << >>, beta_sq |-> stmt.beta_sq]
=============================================================================
