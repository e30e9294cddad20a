----------------------------- MODULE Iteration -----------------------------
(***************************************************************************)
(* The iterations of crates/labrador with their algebra, on a small ring:   *)
(* prove_v2 (prover_v2.rs), fold (fold.rs) and verify_v2 (verifier_v2.rs)   *)
(* for each iteration of a chain, and the single-iteration protocol v1     *)
(* (prover.rs, verifier.rs), message by message.                           *)
(*                                                                         *)
(* A round of draws has a seed.  Nothing is assumed of what a seed gives    *)
(* (one may give zeros throughout) except that both sides draw alike while  *)
(* they absorbed alike.  On the way to the verifier one element of the      *)
(* proof may change; then the draws after it start from another seed.      *)
(***************************************************************************)
EXTENDS FoldedChecks

CONSTANTS
  Cases,      \* [version, chain, stmt, w]: what is proved, with which parameters
  Seeds,
  Changes,    \* [field, at, k, by]: changes of a proof, or [field |-> "none"]
  K_PP,       \* k_double_prime, from lambda and q
  TAU_SQ      \* of the challenge distribution

ASSUME CasesAssumption ==
  \A c \in Cases : /\ c.version \in {"v1", "v2"}
                   /\ c.chain \in Seq(Parameters) /\ c.chain # << >>
                   /\ IsStatement(c.stmt) /\ IsWitness(c.w, c.stmt)
ASSUME ChangesAssumption ==
  \A c \in Changes : c.field # "none" =>
    c.by \in Int /\ (c.field # "p" => c.k \in Coeffs /\ c.by % q # 0)
ASSUME CountAssumption == K_PP \in Nat

VARIABLES
  version,    \* "v1" or "v2"
  chain,      \* parameters of this iteration and of those that follow
  stmt, w,    \* statement and witness
  pc,
  seeds,      \* the seeds of this iteration's rounds, as drawn so far
  proof,      \* the messages
  agg,        \* what the aggregation gives: [pps, a_agg, phi_agg, b_agg]
  change,     \* what happened to the proof on its way
  folded,     \* the statement and witness that fold makes of the proof
  verdict

vars == <<version, chain, stmt, w, pc, seeds, proof, agg, change, folded, verdict>>

it == Head(chain)
Vectors == Below(stmt.r)
Slots_w == Vectors \X Below(stmt.n)
SourceShape == ShapeOf(stmt, it)
OuterRows == 1..it.kappa1

-----------------------------------------------------------------------------
(***************************************************************************)
(* What each round draws.                                                  *)
(***************************************************************************)
Residue(seed, label, k, l) == Squeeze(seed, label, <<k, l, 0, 0>>)

\* Two bits for an entry of Pi: zero, one or minus one.
PiEntry(bits) == IF bits < 2 THEN 0 ELSE IF bits = 2 THEN 1 ELSE -1
Pi(sd) ==
  [x \in Rows \X Vectors \X Below(stmt.n) \X Coeffs |->
     PiEntry(Squeeze(sd.projection, "Pi", x) % 4)]

Psis(sd, cts) == [k \in 1..K_PP |-> [l \in DOMAIN cts |-> Residue(sd.psi, "psi", k, l)]]
Alphas(sd) == [k \in DOMAIN stmt.full |-> Draw(sd.linear, "alpha", <<k, 0, 0>>)]
Betas(sd) == [k \in 1..K_PP |-> Draw(sd.linear, "beta", <<k, 0, 0>>)]

\* sample_challenge: never zero, plus or minus 2 X^k standing for its weight.
Challenge(sd) ==
  [i \in Vectors |->
     LET x == Residue(sd.challenge, "c", i, 0)
     IN [k \in Coeffs |-> IF k # x % D THEN 0 ELSE IF x < q \div 2 THEN 2 ELSE q - 2]]

\* The constraints on constant terms, in v2 with those of the projection.
ConstTerms(sd, p) ==
  IF version = "v1" THEN stmt.const_term
  ELSE stmt.const_term \o build_jl_constraints(Pi(sd), p, Slots_w)

Aggregates(sd, cts) == [k \in 1..K_PP |-> aggregate_const_term(cts, Psis(sd, cts)[k])]

Aggregate(sd, pps, bpp) ==
  LET full == aggregate_full(stmt.full, pps, Alphas(sd), Betas(sd))
  IN [pps |-> pps, a_agg |-> full.a, phi_agg |-> full.phi,
      b_agg |-> aggregate_b(stmt.full, bpp, Alphas(sd), Betas(sd))]

-----------------------------------------------------------------------------
(***************************************************************************)
(* Commitments.                                                            *)
(***************************************************************************)
matmul(sd, x) ==
  [k \in Below(it.kappa) |-> Total([p \in DOMAIN x |-> Mul(A(sd, k, p), x[p])])]

\* To the chunks of v, g or h at some entries, a sum for each row.
OuterCommit(sd, entries, pr) ==
  [row \in OuterRows |-> Total([e \in entries |-> Mul(Matrix(sd, e, row), Opening(it, pr, e))])]

AddRows(x, y) == [row \in OuterRows |-> Add(x[row], y[row])]

\* Worker threads sum the vectors below a cut and those from it on.
outer_commit_v(sd, pr, cut) ==
  AddRows(OuterCommit(sd, {e \in VEntries(SourceShape) : e[2] < cut}, pr),
          OuterCommit(sd, {e \in VEntries(SourceShape) : e[2] >= cut}, pr))
outer_commit_sym(sd, entries, pr) == OuterCommit(sd, entries, pr)

u_1(sd, pr, cut) ==
  AddRows(outer_commit_v(sd, pr, cut), outer_commit_sym(sd, GEntries(SourceShape), pr))
u_2(sd, pr) == outer_commit_sym(sd, HEntries(SourceShape), pr)

-----------------------------------------------------------------------------
(***************************************************************************)
(* The prover.                                                             *)
(***************************************************************************)
Nothing == << >>

Init ==
  /\ \E c \in Cases :
       version = c.version /\ chain = c.chain /\ stmt = c.stmt /\ w = c.w
  /\ pc = "commit"
  /\ seeds = Nothing /\ proof = Nothing /\ agg = Nothing
  /\ change = [field |-> "none"] /\ folded = Nothing /\ verdict = "none"

Stay == UNCHANGED <<version, chain, stmt, w, change, folded, verdict>>

\* v1 sends v as it is.
Commit_v1 ==
  /\ pc = "commit" /\ version = "v1"
  /\ \E seed \in Seeds :
       /\ seeds' = [matrices |-> seed]
       /\ proof' = [v |-> [i \in Vectors |-> matmul(seeds', w[i])],
                    g |-> compute_g(w, Pairs(stmt.r))]
  /\ pc' = "constrain"
  /\ UNCHANGED agg /\ Stay

Commit ==
  /\ pc = "commit" /\ version = "v2"
  /\ \E seed \in Seeds, cut \in Vectors :
       /\ seeds' = [matrices |-> seed]
       /\ LET opened == [v |-> [i \in Vectors |-> matmul(seeds', w[i])],
                         g |-> compute_g(w, Pairs(stmt.r))]
          IN proof' = Join(opened, [u1 |-> u_1(seeds', opened, cut)])
  /\ pc' = "project"
  /\ UNCHANGED agg /\ Stay

Project ==
  /\ pc = "project"
  /\ \E seed \in Seeds :
       /\ seeds' = Join(seeds, [projection |-> seed])
       /\ proof' = Join(proof, [p |-> project_combined(Pi(seeds'), w)])
  /\ pc' = "constrain"
  /\ UNCHANGED agg /\ Stay

Constrain ==
  /\ pc = "constrain"
  /\ \E seed \in Seeds :
       LET sd == Join(seeds, [psi |-> seed])
           pps == Aggregates(sd, ConstTerms(sd, IF version = "v1" THEN << >> ELSE proof.p))
       IN /\ seeds' = sd
          /\ agg' = [pps |-> pps]
          /\ proof' = Join(proof, [bpp |-> [k \in 1..K_PP |->
                                         b_double_prime(agg'.pps[k], proof.g, w)]])
  /\ pc' = "linearize"
  /\ Stay

\* h, in v2 committed to by u2.
Linearize ==
  /\ pc = "linearize"
  /\ \E seed \in Seeds :
       /\ seeds' = Join(seeds, [linear |-> seed])
       /\ agg' = Aggregate(seeds', agg.pps, proof.bpp)
       /\ LET opened == Join(proof, [h |-> compute_h(agg'.phi_agg, w, stmt.r)])
          IN proof' = IF version = "v1" THEN opened
                      ELSE Join(opened, [u2 |-> u_2(seeds', opened)])
  /\ pc' = "amortize"
  /\ Stay

Amortized(cs) == [p \in Below(stmt.n) |-> Total([i \in Vectors |-> Mul(cs[i], w[i][p])])]

\* v2 sends z in two parts.
Amortize ==
  /\ pc = "amortize"
  /\ \E seed \in Seeds :
       /\ seeds' = Join(seeds, [challenge |-> seed])
       /\ LET z == Amortized(Challenge(seeds'))
              part == [c \in {0, 1} |-> [p \in Below(stmt.n) |-> decompose(z[p], it.b, 2)[c]]]
          IN proof' = Join(proof, IF version = "v1" THEN [z |-> z]
                                   ELSE [z0 |-> part[0], z1 |-> part[1]])
  /\ pc' = "sent"
  /\ UNCHANGED agg /\ Stay

-----------------------------------------------------------------------------
(***************************************************************************)
(* The proof on its way, and the replay: draws and aggregation from what    *)
(* arrived.                                                                *)
(***************************************************************************)
Bump(x, c) == [x EXCEPT ![c.k] = (x[c.k] + c.by) % q]

Changed(pr, c) ==
  CASE c.field = "none" -> pr
    [] c.field = "p" -> [pr EXCEPT !.p[c.at] = @ + c.by]
    [] c.field = "v" -> [pr EXCEPT !.v[c.at[1]][c.at[2]] = Bump(@, c)]
    [] OTHER -> [pr EXCEPT ![c.field][c.at] = Bump(@, c)]

\* Whether there is such an element: only the last iteration is sent whole.
Applies(c) ==
  \/ c.field = "none"
  \/ /\ Len(chain) = 1 /\ c.field \in DOMAIN proof
     /\ IF c.field = "v" THEN c.at \in Vectors \X Below(it.kappa)
        ELSE c.at \in DOMAIN proof[c.field]

\* The rounds drawn after a field is absorbed; the openings of v2 and the z of
\* v1 are absorbed by neither.
Absorbed(field) ==
  IF version = "v1" THEN
    CASE field = "v" -> {"psi", "linear", "challenge"}
      [] field = "bpp" -> {"linear", "challenge"}
      [] field \in {"g", "h"} -> {"challenge"}
      [] OTHER -> {}
  ELSE
    CASE field = "u1" -> {"projection", "psi", "linear", "challenge"}
      [] field = "p" -> {"psi", "linear", "challenge"}
      [] field = "bpp" -> {"linear", "challenge"}
      [] field = "u2" -> {"challenge"}
      [] OTHER -> {}

replay(sd, pr) ==
  Aggregate(sd, Aggregates(sd, ConstTerms(sd, IF version = "v1" THEN << >> ELSE pr.p)), pr.bpp)

Deliver ==
  /\ pc = "sent"
  /\ \E c \in Changes, seed \in Seeds :
       /\ Applies(c)
       /\ change' = c
       /\ proof' = Changed(proof, c)
       /\ seeds' = [round \in DOMAIN seeds |->
                      IF round \in Absorbed(c.field) THEN seed ELSE seeds[round]]
       /\ agg' = replay(seeds', proof')
  /\ pc' = "delivered"
  /\ UNCHANGED <<version, chain, stmt, w, folded, verdict>>

\* fold asserts that z is in two parts.
Fold ==
  /\ pc = "delivered" /\ version = "v2" /\ it.t = 2
  /\ folded' = [stmt |-> fold_statement(stmt, it, proof,
                            Join(agg, [seeds |-> seeds, cs |-> Challenge(seeds)])),
                w |-> build_folded_witness(SourceShape, it, proof)]
  /\ pc' = "folded"
  /\ UNCHANGED <<version, chain, stmt, w, seeds, proof, agg, change, verdict>>

Recurse ==
  /\ pc = "folded" /\ Len(chain) > 1
  /\ stmt' = folded.stmt /\ w' = folded.w /\ chain' = Tail(chain)
  /\ pc' = "commit"
  /\ seeds' = Nothing /\ proof' = Nothing /\ agg' = Nothing /\ folded' = Nothing
  /\ UNCHANGED <<version, change, verdict>>

-----------------------------------------------------------------------------
(***************************************************************************)
(* The verifier's checks, of what was delivered.                           *)
(***************************************************************************)
OpensU1 == proof.u1 = u_1(seeds, proof, 0)
OpensU2 == proof.u2 = u_2(seeds, proof)

WithinJlBound ==
  FoldFunction(+, 0, [j \in Rows |-> Square(proof.p[j])]) <= 128 * stmt.beta_sq

ConstTermsMatch ==
  LET cts == ConstTerms(seeds, IF version = "v1" THEN << >> ELSE proof.p)
  IN \A k \in 1..K_PP : proof.bpp[k][0] = ExpectedConstTerm(cts, Psis(seeds, cts)[k])

cs == Challenge(seeds)

z == IF version = "v1" THEN proof.z
     ELSE [p \in Below(stmt.n) |->
             recompose([c \in {0, 1} |-> IF c = 0 THEN proof.z0[p] ELSE proof.z1[p]], it.b)]

\* The sum over all i and j of c_i c_j times g_ij or h_ij, stored for i <= j.
CombinedGarbage(g) ==
  Total([x \in Vectors \X Vectors |->
           Mul(Mul(cs[x[1]], cs[x[2]]), g[IF x[1] <= x[2] THEN x ELSE <<x[2], x[1]>>])])

InnerCommitmentOpens ==
  matmul(seeds, z) =
    [k \in Below(it.kappa) |-> Total([i \in Vectors |-> Mul(cs[i], proof.v[i][k])])]

QuadraticOpens == ring_inner_product(z, z) = CombinedGarbage(proof.g)

LinearOpens ==
  Total([i \in Vectors |-> Mul(cs[i], phi_dot(agg.phi_agg, i, z))]) = CombinedGarbage(proof.h)

RelationHolds ==
  Add(quadratic(agg.a_agg, proof.g), Total([i \in Vectors |-> proof.h[<<i, i>>]])) = agg.b_agg

\* v2 sums the chunks, by which z0 and z1 and the parts of v, g and h are meant;
\* v1 allows for the challenges.
OpeningsNorm == TotalNorm([x \in Sources(SourceShape) |-> Opening(it, proof, x)])
WithinNorm ==
  IF version = "v1" THEN TotalNorm(z) <= stmt.r * TAU_SQ * stmt.beta_sq
  ELSE OpeningsNorm <= stmt.beta_sq

\* The first check that fails.
FirstFailing(checks) ==
  LET failing == {k \in DOMAIN checks : ~checks[k][2]}
  IN IF failing = {} THEN "ok"
     ELSE checks[CHOOSE k \in failing : \A j \in failing : k <= j][1]

FourChecks ==
  <<<<"InnerCommitmentOpening", InnerCommitmentOpens>>, <<"QuadraticOpening", QuadraticOpens>>,
    <<"LinearOpening", LinearOpens>>, <<"AggregatedRelation", RelationHolds>>,
    <<"NormBound", WithinNorm>>>>

verify == FirstFailing(<<<<"ConstTermMismatch", ConstTermsMatch>>>> \o FourChecks)

verify_v2_WithoutU2 ==
  FirstFailing(<<<<"OuterCommitment u_1", OpensU1>>, <<"JlBound", WithinJlBound>>,
                 <<"ConstTermMismatch", ConstTermsMatch>>>> \o FourChecks)
verify_v2 ==
  FirstFailing(<<<<"OuterCommitment u_1", OpensU1>>, <<"JlBound", WithinJlBound>>,
                 <<"ConstTermMismatch", ConstTermsMatch>>,
                 <<"OuterCommitment u_2", OpensU2>>>> \o FourChecks)

Verify ==
  /\ pc = "delivered" /\ Len(chain) = 1
  /\ verdict' = IF version = "v1" THEN verify ELSE verify_v2
  /\ pc' = "done"
  /\ UNCHANGED <<version, chain, stmt, w, seeds, proof, agg, change, folded>>

Next ==
  \/ Commit_v1 \/ Commit \/ Project \/ Constrain \/ Linearize \/ Amortize
  \/ Deliver \/ Fold \/ Recurse \/ Verify

Spec == Init /\ [][Next]_vars

-----------------------------------------------------------------------------
Unchanged == change.field = "none"

\* Whatever is drawn, with every way to split the sums, a true statement is
\* accepted as it was proved, in v1 and v2, and a fold of it is true again
\* (tests/fold_v2.rs, tests/recursion_v2.rs): nothing in the chain from
\* prove_v2 to the last verify_v2 relies on a lucky challenge.
HonestPasses ==
  Unchanged /\ pc \in {"folded", "done"} /\ satisfies(stmt, w) =>
    /\ pc = "folded" => satisfies(folded.stmt, folded.w)
    /\ pc = "done" => verdict = "ok"

\* aggregate_v2.rs: "the fold's emitted constraints are exactly what verify_v2
\* would have checked": of any proof, changed or not, each group of folded
\* constraints holds of the folded witness if and only if the check of
\* verify_v2 that it stands for passes, and the norms are the same.  (What no
\* group stands for, the constant terms of b'' and the norm of p, is the run
\* intermediate_checks.)
FoldMeansChecks ==
  pc = "folded" =>
    LET full == folded.stmt.full
        Holds(ks) == \A k \in ks : eval_full(full[k], folded.w) = Zero
        x == it.kappa
        y == it.kappa + 3 + it.kappa1
    IN /\ Holds(1..x) <=> InnerCommitmentOpens
       /\ Holds({x + 1}) <=> QuadraticOpens
       /\ Holds({x + 2}) <=> LinearOpens
       /\ Holds({x + 3}) <=> RelationHolds
       /\ Holds((x + 4)..y) <=> OpensU1
       /\ Holds((y + 1)..Len(full)) <=> OpensU2
       /\ WitnessNorm(folded.w) = OpeningsNorm

\* The aggregated relation is, on every witness, true of the statement or not,
\* the combination of the constraints that the weights say, and what it lets the
\* verifier check of b'' is the combination of the constant terms: no
\* constraint drops out in the merging of sparse parts (prover.rs:328).
AggregatesAreCombinations ==
  pc = "delivered" =>
    LET cts == ConstTerms(seeds, IF version = "v1" THEN << >> ELSE proof.p)
        psis == Psis(seeds, cts)
        full == [a |-> agg.a_agg, phi |-> agg.phi_agg, b |-> agg.b_agg]
        Excess(k) == Sub(Value(agg.pps[k], w), proof.bpp[k])
    IN /\ eval_full(full, w) =
            Add(Total([k \in DOMAIN stmt.full |-> Mul(Alphas(seeds)[k], eval_full(stmt.full[k], w))]),
                Total([k \in 1..K_PP |-> Mul(Betas(seeds)[k], Excess(k))]))
       /\ \A k \in 1..K_PP :
            (Value(agg.pps[k], w)[0] - ExpectedConstTerm(cts, psis[k])) % q =
              FoldFunction(+, 0, [l \in DOMAIN cts |-> psis[k][l] * eval_const_term(cts[l], w)]) % q

\* jl.rs:112: the added constraints tie p to the witness: constraint j holds of
\* a witness if and only if p_j is row j of its projection, modulo q.
ProjectionTied ==
  pc = "delivered" /\ version = "v2" =>
    LET jl == build_jl_constraints(Pi(seeds), proof.p, Slots_w)
        p == project_combined(Pi(seeds), w)
    IN \A j \in Rows : eval_const_term(jl[j], w) = 0 <=> (p[j] - proof.p[j]) % q = 0

\* A change that the transcript does not answer with new challenges is always
\* caught: of a commitment, of what it commits to, of the constant term of b''.
\* (A challenge is no zero divisor: TLC's are 2 X^k.)
ChangeIsCaught ==
  pc = "done" /\ verdict = "ok" =>
    /\ change.field = "bpp" /\ satisfies(stmt, w) => change.k # 0
    /\ version = "v2" => change.field \notin {"u1", "u2", "v", "g", "h"}
=============================================================================
