--------------------------- MODULE IterationProofs ---------------------------
(***************************************************************************)
(* Theorems about the algebra of one iteration.                            *)
(*                                                                         *)
(* First the inductive invariant IterationInv, the shapes of what was sent *)
(* and what the verifier made of it; from it, one after the other,         *)
(* ProjectionTied, AggregatesAreCombinations and FoldMeansChecks.  Then    *)
(* HonestInv and FinalInv, which say in addition how the proof was made    *)
(* and changed and how the verdict was reached; from these HonestPasses    *)
(* and ChangeIsCaught.                                                     *)
(***************************************************************************)
EXTENDS AlgebraProofs

-----------------------------------------------------------------------------
-----------------------------------------------------------------------------
(* The inductive invariant of Iteration.                                    *)

\* The fields of the proof, by version and program counter.
FirstMessage(ver) == IF ver = "v1" THEN {"v", "g"} ELSE {"v", "g", "u1"}
WithProjection(ver) == IF ver = "v1" THEN FirstMessage(ver) ELSE FirstMessage(ver) \cup {"p"}
WithSecond(ver) == WithProjection(ver) \cup {"bpp"}
WithLinear(ver) == WithSecond(ver) \cup (IF ver = "v1" THEN {"h"} ELSE {"h", "u2"})
WithAll(ver) == WithLinear(ver) \cup (IF ver = "v1" THEN {"z"} ELSE {"z0", "z1"})
FieldsAt(ver, at) ==
  CASE at = "commit" -> {}
    [] at = "project" -> FirstMessage(ver)
    [] at = "constrain" -> WithProjection(ver)
    [] at = "linearize" -> WithSecond(ver)
    [] at = "amortize" -> WithLinear(ver)
    [] OTHER -> WithAll(ver)

\* What a field of the proof may be, for a statement and parameters.
Message(f, s, i) ==
  CASE f = "v" -> [Below(s.r) -> [Below(i.kappa) -> Elems]]
    [] f \in {"g", "h"} -> [Pairs(s.r) -> Elems]
    [] f \in {"u1", "u2"} -> [1..i.kappa1 -> Elems]
    [] f = "p" -> [Rows -> Int]
    [] f = "bpp" -> [1..K_PP -> Elems]
    [] OTHER -> [Below(s.n) -> Elems]

IsProof(pr, fs, s, i) == DOMAIN pr = fs /\ \A f \in fs : pr[f] \in Message(f, s, i)

Delivered == pc \in {"delivered", "folded", "done"}

\* What fold makes of what was delivered.
ToFold ==
  [stmt |-> fold_statement(stmt, it, proof, Join(agg, [seeds |-> seeds, cs |-> Challenge(seeds)])),
   w |-> build_folded_witness(SourceShape, it, proof)]

Typed ==
  /\ version \in {"v1", "v2"}
  /\ chain \in Seq(Parameters) /\ chain # << >>
  /\ IsStatement(stmt) /\ IsWitness(w, stmt)
  /\ pc \in {"commit", "project", "constrain", "linearize", "amortize", "sent",
             "delivered", "folded", "done"}
  /\ pc \in {"project", "folded"} => version = "v2"
  /\ IsProof(proof, FieldsAt(version, pc), stmt, it)
  /\ pc = "linearize" => ArePps(agg.pps, stmt)

\* The inductive invariant.  FoldMeansChecks, AggregatesAreCombinations and
\* ProjectionTied speak of what was delivered: they need to know of what shape it
\* is, and that agg and folded were computed from it.
IterationInv ==
  /\ Typed
  /\ Delivered => agg = replay(seeds, proof)
  /\ pc = "folded" => folded = ToFold

LEMMA ItIn ==
  ASSUME Typed
  PROVE  it \in Parameters
  BY DEF Typed, it

LEMMA JoinIs ==
  ASSUME NEW f, NEW g
  PROVE  /\ DOMAIN Join(f, g) = DOMAIN f \cup DOMAIN g
         /\ \A x \in DOMAIN f : Join(f, g)[x] = f[x]
         /\ \A x \in DOMAIN g : x \notin DOMAIN f => Join(f, g)[x] = g[x]
  BY DEF Join

LEMMA ProofJoin ==
  ASSUME NEW s, NEW i, NEW pr, NEW fs, IsProof(pr, fs, s, i), NEW more, NEW gs, IsProof(more, gs, s, i)
  PROVE  IsProof(Join(pr, more), fs \cup gs, s, i)
<1>. DEFINE pr2 == Join(pr, more)
<1>1. DOMAIN pr = fs /\ DOMAIN more = gs
  BY DEF IsProof
<1>2. /\ DOMAIN pr2 = fs \cup gs
      /\ \A f \in fs : pr2[f] = pr[f]
      /\ \A f \in gs : f \notin fs => pr2[f] = more[f]
  BY <1>1 DEF Join
<1>. HIDE DEF pr2
<1>3. \A f \in fs : pr[f] \in Message(f, s, i)
  BY DEF IsProof
<1>4. \A f \in gs : more[f] \in Message(f, s, i)
  BY DEF IsProof
<1>5. \A f \in fs \cup gs : pr2[f] \in Message(f, s, i)
  BY <1>2, <1>3, <1>4
<1>6. IsProof(pr2, fs \cup gs, s, i)
  BY <1>2, <1>5 DEF IsProof
<1>. QED  BY <1>6 DEF pr2

LEMMA MessagesAre ==
  ASSUME NEW s, NEW i
  PROVE  /\ Message("v", s, i) = [Below(s.r) -> [Below(i.kappa) -> Elems]]
         /\ Message("g", s, i) = [Pairs(s.r) -> Elems] /\ Message("h", s, i) = [Pairs(s.r) -> Elems]
         /\ Message("u1", s, i) = [1..i.kappa1 -> Elems] /\ Message("u2", s, i) = [1..i.kappa1 -> Elems]
         /\ Message("p", s, i) = [Rows -> Int] /\ Message("bpp", s, i) = [1..K_PP -> Elems]
         /\ Message("z", s, i) = [Below(s.n) -> Elems] /\ Message("z0", s, i) = [Below(s.n) -> Elems]
         /\ Message("z1", s, i) = [Below(s.n) -> Elems]
  BY DEF Message

LEMMA InitTyped == Init => IterationInv
<1>. SUFFICES ASSUME Init PROVE IterationInv
  OBVIOUS
<1>1. PICK c \in Cases : version = c.version /\ chain = c.chain /\ stmt = c.stmt /\ w = c.w
  BY DEF Init
<1>2. /\ version \in {"v1", "v2"} /\ chain \in Seq(Parameters) /\ chain # << >>
      /\ IsStatement(stmt) /\ IsWitness(w, stmt)
  BY <1>1, CasesAssumption
<1>3. pc = "commit" /\ DOMAIN proof = {}
  BY DEF Init, Nothing
<1>4. FieldsAt(version, pc) = {}
  BY <1>3 DEF FieldsAt
<1>. QED  BY <1>2, <1>3, <1>4 DEF IterationInv, Typed, IsProof, Delivered

LEMMA StepCommit_v1 ==
  ASSUME IterationInv, DrawsAreResidues, Commit_v1
  PROVE  IterationInv'
<1>1. Typed /\ it \in Parameters /\ IsStatement(stmt) /\ IsWitness(w, stmt) /\ stmt.n \in Nat /\ stmt.r \in Nat
  BY ItIn DEF IterationInv, Typed, IsStatement
<1>2. PICK seed \in Seeds :
        /\ seeds' = [matrices |-> seed]
        /\ proof' = [v |-> [i \in Vectors |-> matmul(seeds', w[i])],
                     g |-> compute_g(w, Pairs(stmt.r))]
  BY DEF Commit_v1
<1>3. [i \in Vectors |-> matmul(seeds', w[i])] \in [Below(stmt.r) -> [Below(it.kappa) -> Elems]]
      /\ compute_g(w, Pairs(stmt.r)) \in [Pairs(stmt.r) -> Elems]
  <2>1. \A i \in Vectors : w[i] \in [0..(stmt.n - 1) -> Elems]
    BY <1>1, WitnessEntry DEF Vectors, Below
  <2>2. IsFiniteSet(0..(stmt.n - 1))
    BY <1>1, FinitePlaces
  <2>. DEFINE S == 0..(stmt.n - 1)
              sd == seeds'
  <2>. HIDE DEF S, sd
  <2>3. \A i \in Vectors : w[i] \in [S -> Elems]
    BY <2>1 DEF S
  <2>4. \A i \in Vectors : matmul(sd, w[i]) \in [Below(it.kappa) -> Elems]
    BY <2>2, <2>3, MatmulIs DEF S
  <2>5. compute_g(w, Pairs(stmt.r)) \in [Pairs(stmt.r) -> Elems]
    BY <1>1, GarbageIn
  <2>. QED  BY <2>4, <2>5 DEF sd, Vectors
<1>4. IsProof(proof', {"v", "g"}, stmt, it)
  BY <1>2, <1>3, MessagesAre DEF IsProof
<1>5. UNCHANGED <<version, chain, stmt, w>> /\ pc' = "constrain" /\ version = "v1"
  BY DEF Commit_v1, Stay
<1>6. it' = it
  BY <1>5 DEF it
<1>7. FieldsAt(version', pc') = {"v", "g"}
  BY <1>5 DEF FieldsAt, WithProjection, FirstMessage
<1>. QED  BY <1>1, <1>4, <1>5, <1>6, <1>7 DEF IterationInv, Typed, Delivered

LEMMA StepCommit ==
  ASSUME IterationInv, DrawsAreResidues, Commit
  PROVE  IterationInv'
<1>1. Typed /\ it \in Parameters /\ IsStatement(stmt) /\ IsWitness(w, stmt) /\ stmt.n \in Nat /\ stmt.r \in Nat
  BY ItIn DEF IterationInv, Typed, IsStatement
<1>2. PICK seed \in Seeds, cut \in Vectors :
        /\ seeds' = [matrices |-> seed]
        /\ LET opened == [v |-> [i \in Vectors |-> matmul(seeds', w[i])],
                          g |-> compute_g(w, Pairs(stmt.r))]
           IN proof' = Join(opened, [u1 |-> u_1(seeds', opened, cut)])
  BY DEF Commit
<1>. DEFINE sd == seeds'
            opened == [v |-> [i \in Vectors |-> matmul(sd, w[i])], g |-> compute_g(w, Pairs(stmt.r))]
<1>3. opened.v \in [Below(stmt.r) -> [Below(it.kappa) -> Elems]]
      /\ opened.g \in [Pairs(stmt.r) -> Elems] /\ DOMAIN opened = {"v", "g"}
  <2>1. \A i \in Vectors : w[i] \in [0..(stmt.n - 1) -> Elems]
    BY <1>1, WitnessEntry DEF Vectors, Below
  <2>2. IsFiniteSet(0..(stmt.n - 1))
    BY <1>1, FinitePlaces
  <2>. DEFINE S == 0..(stmt.n - 1)
  <2>. HIDE DEF S, sd
  <2>3. \A i \in Vectors : w[i] \in [S -> Elems]
    BY <2>1 DEF S
  <2>4. \A i \in Vectors : matmul(sd, w[i]) \in [Below(it.kappa) -> Elems]
    BY <2>2, <2>3, MatmulIs DEF S
  <2>5. compute_g(w, Pairs(stmt.r)) \in [Pairs(stmt.r) -> Elems]
    BY <1>1, GarbageIn
  <2>. QED  BY <2>4, <2>5 DEF Vectors
<1>4. proof' = Join(opened, [u1 |-> u_1(sd, opened, cut)])
  BY <1>2
<1>. HIDE DEF sd, opened
<1>5. IsProof(opened, {"v", "g"}, stmt, it)
  BY <1>3, MessagesAre DEF IsProof
<1>6. u_1(sd, opened, cut) \in [1..it.kappa1 -> Elems]
  <2>1. opened.v \in [Vectors -> [Below(it.kappa) -> Elems]]
    BY <1>3 DEF Vectors
  <2>2. u_1(sd, opened, cut) \in [OuterRows -> Elems]
    BY <1>1, <1>3, <2>1, u1In
  <2>. QED  BY <2>2 DEF OuterRows
<1>7. IsProof([u1 |-> u_1(sd, opened, cut)], {"u1"}, stmt, it)
  BY <1>6, MessagesAre DEF IsProof
<1>8. IsProof(proof', {"v", "g"} \cup {"u1"}, stmt, it)
  BY <1>4, <1>5, <1>7, ProofJoin
<1>9. UNCHANGED <<version, chain, stmt, w>> /\ pc' = "project" /\ version = "v2"
  BY DEF Commit, Stay
<1>10. it' = it
  BY <1>9 DEF it
<1>11. FieldsAt(version', pc') = {"v", "g"} \cup {"u1"}
  BY <1>9 DEF FieldsAt, FirstMessage
<1>. QED  BY <1>1, <1>8, <1>9, <1>10, <1>11 DEF IterationInv, Typed, Delivered

LEMMA StepProject ==
  ASSUME IterationInv, DrawsAreResidues, Project
  PROVE  IterationInv'
<1>1. Typed /\ it \in Parameters /\ IsStatement(stmt) /\ IsWitness(w, stmt) /\ version = "v2"
  BY ItIn DEF IterationInv, Typed, Project
<1>2. PICK seed \in Seeds :
        /\ seeds' = Join(seeds, [projection |-> seed])
        /\ proof' = Join(proof, [p |-> project_combined(Pi(seeds'), w)])
  BY DEF Project
<1>. DEFINE sd == seeds'
            p == project_combined(Pi(sd), w)
<1>. HIDE DEF sd
<1>3. p \in [Rows -> Int]
  BY <1>1, ProjectIs
<1>4. proof' = Join(proof, [p |-> p])
  BY <1>2 DEF sd
<1>. HIDE DEF p
<1>5. IsProof([p |-> p], {"p"}, stmt, it)
  BY <1>3, MessagesAre DEF IsProof
<1>6. IsProof(proof, FirstMessage(version), stmt, it)
  BY <1>1 DEF Typed, FieldsAt, Project
<1>7. IsProof(proof', FirstMessage(version) \cup {"p"}, stmt, it)
  BY <1>4, <1>5, <1>6, ProofJoin
<1>8. UNCHANGED <<version, chain, stmt, w>> /\ pc' = "constrain"
  BY DEF Project, Stay
<1>9. it' = it
  BY <1>8 DEF it
<1>10. FieldsAt(version', pc') = FirstMessage(version) \cup {"p"}
  BY <1>1, <1>8 DEF FieldsAt, WithProjection
<1>. QED  BY <1>1, <1>7, <1>8, <1>9, <1>10 DEF IterationInv, Typed, Delivered

-----------------------------------------------------------------------------
LEMMA StepConstrain ==
  ASSUME IterationInv, DrawsAreResidues, Constrain
  PROVE  IterationInv'
<1>1. Typed /\ it \in Parameters /\ IsStatement(stmt) /\ IsWitness(w, stmt)
      /\ stmt.n \in Nat /\ stmt.r \in Nat
  BY ItIn DEF IterationInv, Typed, IsStatement
<1>2. UNCHANGED <<version, chain, stmt, w>> /\ pc' = "linearize" /\ pc = "constrain"
  BY DEF Constrain, Stay
<1>3. IsProof(proof, WithProjection(version), stmt, it)
  BY <1>1, <1>2 DEF Typed, FieldsAt
<1>. DEFINE p == IF version = "v1" THEN << >> ELSE proof.p
<1>4. version # "v1" => p \in [Rows -> Int]
  <2>1. version # "v1" => proof.p \in Message("p", stmt, it)
    BY <1>3 DEF IsProof, WithProjection
  <2>. QED  BY <2>1, MessagesAre
<1>5. proof.g \in [Pairs(stmt.r) -> Elems]
  <2>1. "g" \in WithProjection(version)
    BY DEF WithProjection, FirstMessage
  <2>2. proof.g \in Message("g", stmt, it)
    BY <1>3, <2>1 DEF IsProof
  <2>. QED  BY <2>2, MessagesAre
<1>6. PICK seed \in Seeds :
        LET sd == Join(seeds, [psi |-> seed])
            pps == Aggregates(sd, ConstTerms(sd, p))
        IN  /\ seeds' = sd
            /\ agg' = [pps |-> pps]
            /\ proof' = Join(proof, [bpp |-> [k \in 1..K_PP |->
                                           b_double_prime(agg'.pps[k], proof.g, w)]])
  BY DEF Constrain
<1>. DEFINE sd == Join(seeds, [psi |-> seed])
            cts == ConstTerms(sd, p)
            pps == Aggregates(sd, cts)
            bpp == [k \in 1..K_PP |-> b_double_prime(pps[k], proof.g, w)]
<1>7. agg'.pps = pps /\ proof' = Join(proof, [bpp |-> bpp])
  BY <1>6
<1>. HIDE DEF sd, p
<1>8. AreCts(cts, stmt)
  BY <1>1, <1>4, ConstTermsIn
<1>. HIDE DEF cts
<1>9. ArePps(pps, stmt)
  BY <1>1, <1>8, AggregatesIn
<1>. HIDE DEF pps
<1>10. bpp \in [1..K_PP -> Elems]
  <2>1. \A k \in 1..K_PP : IsConstraint(pps[k], stmt)
    BY <1>9 DEF ArePps
  <2>2. \A k \in 1..K_PP : b_double_prime(pps[k], proof.g, w) \in Elems
    BY <1>1, <1>5, <2>1, DoublePrimeIn
  <2>. QED  BY <2>2
<1>. HIDE DEF bpp
<1>11. IsProof([bpp |-> bpp], {"bpp"}, stmt, it)
  BY <1>10, MessagesAre DEF IsProof
<1>12. IsProof(proof', WithProjection(version) \cup {"bpp"}, stmt, it)
  BY <1>3, <1>7, <1>11, ProofJoin
<1>13. it' = it
  BY <1>2 DEF it
<1>14. FieldsAt(version', pc') = WithProjection(version) \cup {"bpp"}
  BY <1>2 DEF FieldsAt, WithSecond
<1>15. ArePps(agg'.pps, stmt')
  BY <1>2, <1>7, <1>9
<1>. QED  BY <1>1, <1>2, <1>12, <1>13, <1>14, <1>15 DEF IterationInv, Typed, Delivered

LEMMA StepLinearize ==
  ASSUME IterationInv, DrawsAreResidues, Linearize
  PROVE  IterationInv'
<1>1. Typed /\ it \in Parameters /\ IsStatement(stmt) /\ IsWitness(w, stmt)
      /\ stmt.n \in Nat /\ stmt.r \in Nat
  BY ItIn DEF IterationInv, Typed, IsStatement
<1>2. UNCHANGED <<version, chain, stmt, w>> /\ pc' = "amortize" /\ pc = "linearize"
  BY DEF Linearize, Stay
<1>3. IsProof(proof, WithSecond(version), stmt, it) /\ ArePps(agg.pps, stmt)
  BY <1>1, <1>2 DEF Typed, FieldsAt
<1>4. proof.bpp \in [1..K_PP -> Elems]
  <2>1. proof.bpp \in Message("bpp", stmt, it)
    BY <1>3 DEF IsProof, WithSecond
  <2>. QED  BY <2>1, MessagesAre
<1>. DEFINE sd == seeds'
            x == Aggregate(sd, agg.pps, proof.bpp)
            h == compute_h(x.phi_agg, w, stmt.r)
            opened == Join(proof, [h |-> h])
<1>5. proof' = IF version = "v1" THEN opened ELSE Join(opened, [u2 |-> u_2(sd, opened)])
  BY DEF Linearize
<1>. HIDE DEF sd
<1>6. IsAggregate(x, stmt)
  BY <1>1, <1>3, <1>4, AggregateIn
<1>. HIDE DEF x
<1>7. h \in [Pairs(stmt.r) -> Elems]
  BY <1>1, <1>6, ComputeHIn DEF IsAggregate
<1>. HIDE DEF h
<1>8. IsProof([h |-> h], {"h"}, stmt, it)
  BY <1>7, MessagesAre DEF IsProof
<1>9. IsProof(opened, WithSecond(version) \cup {"h"}, stmt, it)
  BY <1>3, <1>8, ProofJoin
<1>10. opened.h \in [Pairs(stmt.r) -> Elems]
  <2>1. opened.h \in Message("h", stmt, it)
    BY <1>9 DEF IsProof
  <2>. QED  BY <2>1, MessagesAre
<1>. HIDE DEF opened
<1>11. u_2(sd, opened) \in [1..it.kappa1 -> Elems]
  BY <1>1, <1>10, u2In DEF OuterRows
<1>. DEFINE u2 == u_2(sd, opened)
<1>. HIDE DEF u2
<1>12. IsProof([u2 |-> u2], {"u2"}, stmt, it)
  BY <1>11, MessagesAre DEF IsProof, u2
<1>13. IsProof(Join(opened, [u2 |-> u2]), (WithSecond(version) \cup {"h"}) \cup {"u2"}, stmt, it)
  BY <1>9, <1>12, ProofJoin
<1>14. IsProof(proof', WithLinear(version), stmt, it)
  <2>1. CASE version = "v1"
    <3>1. WithLinear(version) = WithSecond(version) \cup {"h"}
      BY <2>1 DEF WithLinear
    <3>. QED  BY <1>5, <1>9, <2>1, <3>1
  <2>2. CASE version # "v1"
    <3>1. WithLinear(version) = (WithSecond(version) \cup {"h"}) \cup {"u2"}
      BY <2>2 DEF WithLinear
    <3>. QED  BY <1>5, <1>13, <2>2, <3>1 DEF u2
  <2>. QED  BY <2>1, <2>2
<1>15. it' = it
  BY <1>2 DEF it
<1>16. FieldsAt(version', pc') = WithLinear(version)
  BY <1>2 DEF FieldsAt
<1>. QED  BY <1>1, <1>2, <1>14, <1>15, <1>16 DEF IterationInv, Typed, Delivered

LEMMA StepAmortize ==
  ASSUME IterationInv, DrawsAreResidues, Amortize
  PROVE  IterationInv'
<1>1. Typed /\ it \in Parameters /\ IsStatement(stmt) /\ IsWitness(w, stmt)
  BY ItIn DEF IterationInv, Typed
<1>2. UNCHANGED <<version, chain, stmt, w>> /\ pc' = "sent" /\ pc = "amortize"
  BY DEF Amortize, Stay
<1>3. IsProof(proof, WithLinear(version), stmt, it)
  BY <1>1, <1>2 DEF Typed, FieldsAt
<1>. DEFINE sd == seeds'
            z_ == Amortized(Challenge(sd))
            part == [c \in {0, 1} |-> [p \in Below(stmt.n) |-> decompose(z_[p], it.b, 2)[c]]]
            more == IF version = "v1" THEN [z |-> z_] ELSE [z0 |-> part[0], z1 |-> part[1]]
            gs == IF version = "v1" THEN {"z"} ELSE {"z0", "z1"}
<1>4. proof' = Join(proof, more)
  BY DEF Amortize
<1>. HIDE DEF sd
<1>5. z_ \in [Below(stmt.n) -> Elems]
  BY <1>1, ChallengeIn, AmortizedIn
<1>. HIDE DEF z_
<1>6. \A c \in {0, 1} : part[c] \in [Below(stmt.n) -> Elems]
  BY <1>1, <1>5, PartIn
<1>. HIDE DEF part
<1>7. IsProof(more, gs, stmt, it)
  BY <1>5, <1>6, MessagesAre DEF IsProof
<1>. HIDE DEF more
<1>8. IsProof(proof', WithLinear(version) \cup gs, stmt, it)
  BY <1>3, <1>4, <1>7, ProofJoin
<1>9. it' = it
  BY <1>2 DEF it
<1>10. FieldsAt(version', pc') = WithLinear(version) \cup gs
  BY <1>2 DEF FieldsAt, WithAll
<1>. QED  BY <1>1, <1>2, <1>8, <1>9, <1>10 DEF IterationInv, Typed, Delivered

-----------------------------------------------------------------------------
(* What was delivered, and the steps after it.                              *)
LEMMA BumpIn ==
  ASSUME NEW x \in Elems, NEW c, c.by \in Int
  PROVE  Bump(x, c) \in Elems
<1>1. ASSUME c.k \in Coeffs PROVE (x[c.k] + c.by) % q \in R
  <2>1. x[c.k] \in Int
    BY <1>1, ElemFacts, ResidueFacts
  <2>2. x[c.k] + c.by \in Int
    BY <2>1
  <2>. QED  BY <2>2, Modulo DEF R
<1>. QED  BY <1>1, ElemFacts DEF Bump

\* The fields of a whole proof.
LEMMA WholeProof ==
  ASSUME IsProof(proof, WithAll(version), stmt, it), version \in {"v1", "v2"}
  PROVE  /\ proof.v \in [Below(stmt.r) -> [Below(it.kappa) -> Elems]]
         /\ proof.g \in [Pairs(stmt.r) -> Elems] /\ proof.h \in [Pairs(stmt.r) -> Elems]
         /\ proof.bpp \in [1..K_PP -> Elems]
         /\ version = "v1" => proof.z \in [Below(stmt.n) -> Elems]
         /\ version # "v1" => /\ proof.u1 \in [1..it.kappa1 -> Elems] /\ proof.u2 \in [1..it.kappa1 -> Elems]
                              /\ proof.p \in [Rows -> Int]
                              /\ proof.z0 \in [Below(stmt.n) -> Elems] /\ proof.z1 \in [Below(stmt.n) -> Elems]
<1>1. \A f \in WithAll(version) : proof[f] \in Message(f, stmt, it)
  BY DEF IsProof
<1>2. {"v", "g", "h", "bpp"} \subseteq WithAll(version)
  BY DEF WithAll, WithLinear, WithSecond, WithProjection, FirstMessage
<1>3. version = "v1" => "z" \in WithAll(version)
  BY DEF WithAll
<1>4. version # "v1" => {"u1", "u2", "p", "z0", "z1"} \subseteq WithAll(version)
  BY DEF WithAll, WithLinear, WithSecond, WithProjection, FirstMessage
<1>. QED  BY <1>1, <1>2, <1>3, <1>4, MessagesAre

LEMMA OtherFields ==
  ASSUME NEW f \in WithAll(version), f # "v", f # "p", NEW at, NEW c, c.by \in Int,
         NEW x \in Message(f, stmt, it), at \in DOMAIN x
  PROVE  [x EXCEPT ![at] = Bump(@, c)] \in Message(f, stmt, it)
<1>1. \E S : Message(f, stmt, it) = [S -> Elems]
  BY DEF Message
<1>2. PICK S : Message(f, stmt, it) = [S -> Elems]
  BY <1>1
<1>3. x[at] \in Elems
  BY <1>2
<1>. QED  BY <1>2, <1>3, BumpIn

LEMMA ChangedIn ==
  ASSUME IsProof(proof, WithAll(version), stmt, it), version \in {"v1", "v2"},
         NEW c \in Changes, Applies(c)
  PROVE  IsProof(Changed(proof, c), WithAll(version), stmt, it)
<1>1. /\ DOMAIN proof = WithAll(version) /\ \A f \in WithAll(version) : proof[f] \in Message(f, stmt, it)
  BY DEF IsProof
<1>2. CASE c.field = "none"
  BY <1>2 DEF Changed
<1>3. CASE c.field # "none"
  <2>1. c.by \in Int /\ c.field \in WithAll(version)
        /\ (c.field = "v" => c.at \in Vectors \X Below(it.kappa))
        /\ (c.field # "v" => c.at \in DOMAIN proof[c.field])
    BY <1>1, <1>3, ChangesAssumption DEF Applies
  <2>. DEFINE pr == Changed(proof, c)
  <2>2. CASE c.field = "p"
    <3>1. pr = [proof EXCEPT !.p[c.at] = @ + c.by]
      BY <2>2 DEF Changed
    <3>2. proof.p \in [Rows -> Int] /\ c.at \in Rows
      <4>1. proof.p \in Message("p", stmt, it)
        BY <1>1, <2>1, <2>2
      <4>. QED  BY <2>1, <2>2, <4>1, MessagesAre
    <3>3. pr.p \in [Rows -> Int]
      BY <1>1, <2>1, <2>2, <3>1, <3>2
    <3>4. DOMAIN pr = WithAll(version) /\ \A f \in WithAll(version) : f # "p" => pr[f] = proof[f]
      BY <1>1, <3>1
    <3>5. pr.p \in Message("p", stmt, it)
      BY <3>3, MessagesAre
    <3>. HIDE DEF pr
    <3>6. IsProof(pr, WithAll(version), stmt, it)
      BY <1>1, <3>4, <3>5 DEF IsProof
    <3>. QED  BY <3>6 DEF pr
  <2>3. CASE c.field = "v"
    <3>1. pr = [proof EXCEPT !.v[c.at[1]][c.at[2]] = Bump(@, c)]
      BY <2>3 DEF Changed
    <3>2. proof.v \in [Below(stmt.r) -> [Below(it.kappa) -> Elems]]
          /\ c.at[1] \in Below(stmt.r) /\ c.at[2] \in Below(it.kappa)
      <4>1. proof.v \in Message("v", stmt, it)
        BY <1>1, <2>1, <2>3
      <4>. QED  BY <2>1, <2>3, <4>1, MessagesAre DEF Vectors
    <3>3. Bump(proof.v[c.at[1]][c.at[2]], c) \in Elems
      <4>1. proof.v[c.at[1]][c.at[2]] \in Elems
        BY <3>2
      <4>. QED  BY <2>1, <4>1, BumpIn
    <3>. DEFINE b == Bump(proof.v[c.at[1]][c.at[2]], c)
                v_ == [proof.v EXCEPT ![c.at[1]][c.at[2]] = b]
    <3>4. v_ \in [Below(stmt.r) -> [Below(it.kappa) -> Elems]]
      <4>1. b \in Elems
        BY <3>3
      <4>. HIDE DEF b
      <4>. QED  BY <3>2, <4>1
    <3>5. DOMAIN pr = WithAll(version) /\ pr.v = v_
          /\ \A f \in WithAll(version) : f # "v" => pr[f] = proof[f]
      BY <1>1, <2>1, <2>3, <3>1
    <3>6. pr.v \in Message("v", stmt, it)
      BY <3>4, <3>5, MessagesAre, SMTT(30)
    <3>. HIDE DEF pr
    <3>7. IsProof(pr, WithAll(version), stmt, it)
      BY <1>1, <3>5, <3>6, SMTT(30) DEF IsProof
    <3>. QED  BY <3>7 DEF pr
  <2>4. CASE c.field # "p" /\ c.field # "v"
    <3>. DEFINE g == c.field
    <3>1. pr = [proof EXCEPT ![g][c.at] = Bump(@, c)]
      BY <1>3, <2>4 DEF Changed
    <3>2. g \in WithAll(version) /\ g # "v" /\ g # "p" /\ c.at \in DOMAIN proof[g] /\ proof[g] \in Message(g, stmt, it)
      BY <1>1, <2>1, <2>4
    <3>. DEFINE x == [proof[g] EXCEPT ![c.at] = Bump(@, c)]
    <3>3. x \in Message(g, stmt, it)
      <4>. HIDE DEF g
      <4>. QED  BY <2>1, <3>2, OtherFields
    <3>4. DOMAIN pr = WithAll(version) /\ pr[g] = x
          /\ \A f \in WithAll(version) : f # g => pr[f] = proof[f]
      BY <1>1, <3>1, <3>2
    <3>. HIDE DEF pr, x, g
    <3>5. IsProof(pr, WithAll(version), stmt, it)
      BY <1>1, <3>3, <3>4 DEF IsProof
    <3>. QED  BY <3>5 DEF pr
  <2>. QED  BY <2>2, <2>3, <2>4
<1>. QED  BY <1>2, <1>3

\* What was aggregated, of what was delivered.
LEMMA ReplayIn ==
  ASSUME Typed, DrawsAreResidues, Delivered, agg = replay(seeds, proof)
  PROVE  LET cts == ConstTerms(seeds, IF version = "v1" THEN << >> ELSE proof.p)
             pps == Aggregates(seeds, cts)
         IN  /\ IsProof(proof, WithAll(version), stmt, it)
             /\ AreCts(cts, stmt) /\ ArePps(pps, stmt) /\ AreConstraints(cts, stmt)
             /\ proof.bpp \in [1..K_PP -> Elems]
             /\ agg = Aggregate(seeds, pps, proof.bpp) /\ agg.pps = pps
             /\ IsAggregate(agg, stmt)
<1>. DEFINE p == IF version = "v1" THEN << >> ELSE proof.p
            cts == ConstTerms(seeds, p)
            pps == Aggregates(seeds, cts)
<1>1. IsStatement(stmt) /\ version \in {"v1", "v2"}
  BY DEF Typed
<1>2. IsProof(proof, WithAll(version), stmt, it)
  <2>1. FieldsAt(version, pc) = WithAll(version)
    BY DEF FieldsAt, Delivered
  <2>. QED  BY <2>1 DEF Typed
<1>3. proof.bpp \in [1..K_PP -> Elems] /\ (version # "v1" => p \in [Rows -> Int])
  BY <1>1, <1>2, WholeProof
<1>4. agg = Aggregate(seeds, pps, proof.bpp)
  BY DEF replay
<1>. HIDE DEF p
<1>5. AreCts(cts, stmt)
  BY <1>1, <1>3, ConstTermsIn
<1>. HIDE DEF cts
<1>6. ArePps(pps, stmt) /\ AreConstraints(cts, stmt)
  BY <1>1, <1>5, AggregatesIn
<1>7. agg.pps = pps
  BY <1>4 DEF Aggregate
<1>. HIDE DEF pps
<1>8. IsAggregate(agg, stmt)
  BY <1>1, <1>3, <1>4, <1>6, AggregateIn
<1>. QED  BY <1>2, <1>3, <1>4, <1>5, <1>6, <1>7, <1>8 DEF p, cts, pps

ForFold == Join(agg, [seeds |-> seeds, cs |-> Challenge(seeds)])

LEMMA ForFoldIs ==
  ASSUME Typed, DrawsAreResidues, Delivered, agg = replay(seeds, proof)
  PROVE  /\ IsRep(ForFold, stmt) /\ ForFold.seeds = seeds /\ ForFold.cs = cs
         /\ ForFold.a_agg = agg.a_agg /\ ForFold.phi_agg = agg.phi_agg /\ ForFold.b_agg = agg.b_agg
<1>1. IsAggregate(agg, stmt)
  BY ReplayIn
<1>2. DOMAIN agg = {"pps", "a_agg", "phi_agg", "b_agg"}
  BY DEF replay, Aggregate
<1>. DEFINE more == [seeds |-> seeds, cs |-> Challenge(seeds)]
<1>3. DOMAIN more = {"seeds", "cs"} /\ more.seeds = seeds /\ more.cs = Challenge(seeds)
  OBVIOUS
<1>. HIDE DEF more
<1>4. /\ ForFold.seeds = seeds /\ ForFold.cs = Challenge(seeds)
      /\ ForFold.a_agg = agg.a_agg /\ ForFold.phi_agg = agg.phi_agg /\ ForFold.b_agg = agg.b_agg
  <2>1. ForFold = Join(agg, more)
    BY DEF ForFold, more
  <2>2. "seeds" \in DOMAIN more /\ "seeds" \notin DOMAIN agg /\ "cs" \in DOMAIN more /\ "cs" \notin DOMAIN agg
        /\ "a_agg" \in DOMAIN agg /\ "phi_agg" \in DOMAIN agg /\ "b_agg" \in DOMAIN agg
    BY <1>2, <1>3
  <2>3. /\ ForFold["seeds"] = more["seeds"] /\ ForFold["cs"] = more["cs"]
        /\ ForFold["a_agg"] = agg["a_agg"] /\ ForFold["phi_agg"] = agg["phi_agg"]
        /\ ForFold["b_agg"] = agg["b_agg"]
    BY <2>1, <2>2 DEF Join
  <2>. QED  BY <1>3, <2>3
<1>5. Challenge(seeds) \in [Below(stmt.r) -> Elems]
  BY ChallengeIn DEF Vectors
<1>. QED  BY <1>1, <1>4, <1>5 DEF IsRep, IsAggregate, cs

LEMMA AllOpen ==
  ASSUME IsProof(proof, WithAll(version), stmt, it), version = "v2", IsStatement(stmt), it \in Parameters
  PROVE  OpensAll(SourceShape, it, proof) /\ Proper(SourceShape)
<1>. DEFINE s == SourceShape
<1>1. /\ Proper(s) /\ s.n = stmt.n /\ s.r = stmt.r /\ s.kappa = it.kappa /\ s.t1 = it.t1 /\ s.t2 = it.t2
  BY ShapeIs DEF SourceShape
<1>2. /\ proof.v \in [Below(s.r) -> [Below(s.kappa) -> Elems]]
      /\ proof.g \in [Pairs(s.r) -> Elems] /\ proof.h \in [Pairs(s.r) -> Elems]
      /\ proof.z0 \in [Below(s.n) -> Elems] /\ proof.z1 \in [Below(s.n) -> Elems]
  BY <1>1, WholeProof
<1>. HIDE DEF s
<1>3. ASSUME NEW x \in Sources(s) PROVE Opening(it, proof, x) \in Elems
  <2>1. CASE x \in VEntries(s)
    BY <1>1, <1>2, <2>1, VOpening
  <2>2. CASE x \in GEntries(s)
    BY <1>1, <1>2, <2>2, GOpening
  <2>3. CASE x \in HEntries(s)
    BY <1>1, <1>2, <2>3, HOpening
  <2>4. CASE \E half \in {0, 1}, p \in Below(s.n) : x = ZEntry(half, p)
    <3>1. PICK half \in {0, 1}, p \in Below(s.n) : x = ZEntry(half, p)
      BY <2>4
    <3>. QED  BY <1>2, <3>1, ZOpening
  <2>. QED  BY <2>1, <2>2, <2>3, <2>4 DEF Sources, Entries, Below
<1>. QED  BY <1>1, <1>3 DEF OpensAll, s

-----------------------------------------------------------------------------
LEMMA ReplayAlike ==
  ASSUME UNCHANGED <<version, chain, stmt>>
  PROVE  replay(seeds', proof') = replay(seeds, proof)'
<1>1. version' = version /\ stmt' = stmt
  OBVIOUS
<1>. QED  BY <1>1 DEF replay, Aggregate, Aggregates, ConstTerms, Psis, Alphas, Betas, Pi, Residue, Slots_w, Vectors

LEMMA StepDeliver ==
  ASSUME IterationInv, DrawsAreResidues, Deliver
  PROVE  IterationInv'
<1>1. Typed /\ pc = "sent" /\ pc' = "delivered"
      /\ UNCHANGED <<version, chain, stmt, w, folded, verdict>>
  BY DEF IterationInv, Deliver
<1>2. PICK c \in Changes : Applies(c) /\ proof' = Changed(proof, c)
  BY DEF Deliver
<1>3. agg' = replay(seeds', proof')
  BY DEF Deliver
<1>4. IsProof(proof, WithAll(version), stmt, it) /\ version \in {"v1", "v2"}
  BY <1>1 DEF Typed, FieldsAt
<1>5. IsProof(proof', WithAll(version), stmt, it)
  BY <1>2, <1>4, ChangedIn
<1>6. it' = it /\ FieldsAt(version', pc') = WithAll(version)
  BY <1>1 DEF it, FieldsAt
<1>7. Typed'
  BY <1>1, <1>5, <1>6 DEF Typed
<1>8. agg' = replay(seeds, proof)'
  BY <1>1, <1>3, ReplayAlike
<1>. QED  BY <1>1, <1>7, <1>8 DEF IterationInv

LEMMA StepFold ==
  ASSUME IterationInv, DrawsAreResidues, Fold
  PROVE  IterationInv'
<1>1. /\ Typed /\ pc = "delivered" /\ pc' = "folded" /\ version = "v2"
      /\ UNCHANGED <<version, chain, stmt, w, seeds, proof, agg, change, verdict>>
  BY DEF IterationInv, Fold
<1>2. agg = replay(seeds, proof)
  BY <1>1 DEF IterationInv, Delivered
<1>3. folded' = ToFold
  BY DEF Fold, ToFold
<1>4. it' = it /\ FieldsAt(version', pc') = FieldsAt(version, pc)
  BY <1>1 DEF it, FieldsAt
<1>5. Typed'
  BY <1>1, <1>4 DEF Typed
<1>6. agg' = replay(seeds, proof)'
  BY <1>1, <1>2, ReplayAlike
<1>7. ToFold' = ToFold
  <2>1. SourceShape' = SourceShape /\ Challenge(seeds)' = Challenge(seeds)
    BY <1>1, <1>4 DEF SourceShape, Challenge, Vectors, Residue
  <2>. QED  BY <1>1, <1>4, <2>1 DEF ToFold
<1>. QED  BY <1>1, <1>3, <1>5, <1>6, <1>7 DEF IterationInv

LEMMA StepVerify ==
  ASSUME IterationInv, DrawsAreResidues, Verify
  PROVE  IterationInv'
<1>1. /\ Typed /\ pc = "delivered" /\ pc' = "done"
      /\ UNCHANGED <<version, chain, stmt, w, seeds, proof, agg, change, folded>>
  BY DEF IterationInv, Verify
<1>2. agg = replay(seeds, proof)
  BY <1>1 DEF IterationInv, Delivered
<1>3. it' = it /\ FieldsAt(version', pc') = FieldsAt(version, pc)
  BY <1>1 DEF it, FieldsAt
<1>4. Typed'
  BY <1>1, <1>3 DEF Typed
<1>5. agg' = replay(seeds, proof)'
  BY <1>1, <1>2, ReplayAlike
<1>. QED  BY <1>1, <1>4, <1>5 DEF IterationInv

\* The statement and the witness of the next iteration.
LEMMA FoldedTypes ==
  ASSUME IterationInv, DrawsAreResidues, pc = "folded"
  PROVE  IsStatement(folded.stmt) /\ IsWitness(folded.w, folded.stmt)
<1>1. Typed /\ Delivered /\ agg = replay(seeds, proof) /\ version = "v2" /\ folded = ToFold
      /\ it \in Parameters /\ IsStatement(stmt)
  BY ItIn DEF IterationInv, Delivered, Typed
<1>2. IsRep(ForFold, stmt) /\ IsProof(proof, WithAll(version), stmt, it)
  BY <1>1, ForFoldIs, ReplayIn
<1>3. proof.u1 \in [1..it.kappa1 -> Elems] /\ proof.u2 \in [1..it.kappa1 -> Elems]
  BY <1>1, <1>2, WholeProof
<1>4. folded.stmt = fold_statement(stmt, it, proof, ForFold)
      /\ folded.w = build_folded_witness(SourceShape, it, proof)
  BY <1>1 DEF ToFold, ForFold
<1>. DEFINE s == SourceShape
<1>5. s = ShapeOf(stmt, it)
  BY DEF SourceShape
<1>6. IsStatement(folded.stmt) /\ folded.stmt.n = NPrime(s) /\ folded.stmt.r = RPrime(s)
  BY <1>1, <1>2, <1>3, <1>4, <1>5, FoldedIs
<1>7. OpensAll(s, it, proof) /\ Proper(s)
  BY <1>1, <1>2, AllOpen
<1>. HIDE DEF s
<1>8. IsWitness(build_folded_witness(s, it, proof), FoldedSize(s))
  BY <1>7, FoldedHolds
<1>. QED  BY <1>4, <1>6, <1>8 DEF IsWitness, FoldedSize, s

LEMMA StepRecurse ==
  ASSUME IterationInv, DrawsAreResidues, Recurse
  PROVE  IterationInv'
<1>1. /\ pc = "folded" /\ Len(chain) > 1 /\ stmt' = folded.stmt /\ w' = folded.w /\ chain' = Tail(chain)
      /\ pc' = "commit" /\ proof' = << >> /\ version' = version
  BY DEF Recurse, Nothing
<1>2. IsStatement(folded.stmt) /\ IsWitness(folded.w, folded.stmt)
  BY <1>1, FoldedTypes
<1>3. chain' \in Seq(Parameters) /\ chain' # << >>
  <2>1. chain \in Seq(Parameters)
    BY DEF IterationInv, Typed
  <2>. QED  BY <1>1, <2>1, SMTT(30)
<1>4. version' \in {"v1", "v2"}
  BY <1>1 DEF IterationInv, Typed
<1>5. FieldsAt(version', "commit") = {} /\ DOMAIN proof' = {}
  BY <1>1 DEF FieldsAt
<1>. QED  BY <1>1, <1>2, <1>3, <1>4, <1>5 DEF IterationInv, Typed, IsProof, Delivered

LEMMA StepStutter ==
  ASSUME IterationInv, UNCHANGED vars
  PROVE  IterationInv'
<1>1. UNCHANGED <<version, chain, stmt, w, pc, seeds, proof, agg, folded>>
  BY DEF vars
<1>2. it' = it
  BY <1>1 DEF it
<1>3. Typed'
  BY <1>1, <1>2 DEF IterationInv, Typed
<1>4. replay(seeds, proof)' = replay(seeds, proof)
  BY <1>1, ReplayAlike
<1>5. ToFold' = ToFold
  <2>1. SourceShape' = SourceShape /\ Challenge(seeds)' = Challenge(seeds)
    BY <1>1, <1>2 DEF SourceShape, Challenge, Vectors, Residue
  <2>. QED  BY <1>1, <1>2, <2>1 DEF ToFold
<1>6. (Delivered => agg = replay(seeds, proof)) /\ (pc = "folded" => folded = ToFold)
  BY DEF IterationInv
<1>7. Delivered' = Delivered
  BY <1>1 DEF Delivered
<1>. QED  BY <1>1, <1>3, <1>4, <1>5, <1>6, <1>7 DEF IterationInv

LEMMA StepTyped == ASSUME IterationInv, DrawsAreResidues, [Next]_vars PROVE IterationInv'
<1>1. CASE UNCHANGED vars  BY <1>1, StepStutter
<1>2. CASE Commit_v1  BY <1>2, StepCommit_v1
<1>3. CASE Commit  BY <1>3, StepCommit
<1>4. CASE Project  BY <1>4, StepProject
<1>5. CASE Constrain  BY <1>5, StepConstrain
<1>6. CASE Linearize  BY <1>6, StepLinearize
<1>7. CASE Amortize  BY <1>7, StepAmortize
<1>8. CASE Deliver  BY <1>8, StepDeliver
<1>9. CASE Fold  BY <1>9, StepFold
<1>10. CASE Recurse  BY <1>10, StepRecurse
<1>11. CASE Verify  BY <1>11, StepVerify
<1>. QED  BY <1>1, <1>2, <1>3, <1>4, <1>5, <1>6, <1>7, <1>8, <1>9, <1>10, <1>11 DEF Next

\* The invariant is inductive: no step of the prover, of the one who delivers, or
\* of the verifier leaves a message out of shape, or an aggregate that is not the
\* replay of what arrived.
THEOREM IterationInvariance == ASSUME DrawsAreResidues PROVE Spec => []IterationInv
<1>1. IterationInv /\ [Next]_vars => IterationInv'
  BY StepTyped
<1>. QED  BY <1>1, InitTyped, PTL DEF Spec

-----------------------------------------------------------------------------
(* ProjectionTied: the constant term of a product with sigma_minus_one is a *)
(* sum of products of coefficients.                                         *)
Products(x, y) == [k \in Coeffs |-> Times(x[k], y[k])]

LEMMA ProductsIn ==
  ASSUME NEW x \in Elems, NEW y \in Elems
  PROVE  IsFamily(Products(x, y), Coeffs, R)
<1>1. \A k \in Coeffs : x[k] \in R /\ y[k] \in R
  BY ElemFacts
<1>2. \A k \in Coeffs : Times(x[k], y[k]) \in R
  BY <1>1, ResiduesClosed
<1>. QED  BY <1>2, ElemFacts DEF IsFamily, Products

LEMMA ConstantTerm ==
  ASSUME NEW x \in Elems, NEW y \in Elems
  PROVE  /\ Mul(sigma_minus_one(x), y) \in Elems
         /\ Mul(sigma_minus_one(x), y)[0] = SumQ(Products(x, y))
<1>. DEFINE sg == sigma_minus_one(x)
            f == MulTerms(sg, y, 0)
            p == [k \in Coeffs |-> Ix(0, k)]
<1>1. 0 \in Coeffs /\ sg \in Elems /\ \A k \in Coeffs : sg[k] = IF k = 0 THEN x[0] ELSE Minus(x[D - k])
  BY SigmaIn, ElemFacts
<1>2. \A k \in Coeffs : Ix(0, k) \in Coeffs /\ Ix(0, Ix(0, k)) = k
  BY <1>1, Indices
<1>3. \A k \in Coeffs : (k = 0 => Ix(0, k) = 0) /\ (k # 0 => Ix(0, k) = D - k) /\ (k <= 0 <=> k = 0)
  BY ElemFacts DEF Ix
<1>4. ASSUME NEW k \in Coeffs
      PROVE  f[k] = Products(x, y)[p[k]]
  <2>. DEFINE m == Ix(0, k)
  <2>1. m \in Coeffs /\ x[m] \in R /\ y[m] \in R
    BY <1>2, ElemFacts
  <2>2. f[k] = Sg(0, k, Times(sg[k], y[m]))
    BY DEF MulTerms
  <2>3. Products(x, y)[p[k]] = Times(x[m], y[m])
    BY <2>1 DEF Products
  <2>4. CASE k = 0
    <3>1. m = 0 /\ sg[k] = x[m] /\ f[k] = Times(sg[k], y[m])
      BY <1>1, <1>3, <2>2, <2>4 DEF Sg
    <3>. QED  BY <2>3, <3>1
  <2>5. CASE k # 0
    <3>1. m = D - k /\ sg[k] = Minus(x[m]) /\ f[k] = Minus(Times(sg[k], y[m]))
      BY <1>1, <1>3, <2>2, <2>5 DEF Sg
    <3>. HIDE DEF m, f
    <3>2. Minus(Times(Minus(x[m]), y[m])) = Times(x[m], y[m])
      <4>. DEFINE a == x[m]
                  b == y[m]
      <4>1. a \in R /\ b \in R
        BY <2>1
      <4>. HIDE DEF a, b
      <4>2. Minus(a) \in R /\ Times(a, b) \in R
        BY <4>1, ResiduesClosed
      <4>3. Times(Minus(a), b) = Times(b, Minus(a)) /\ Times(b, Minus(a)) = Minus(Times(b, a))
            /\ Times(b, a) = Times(a, b) /\ Minus(Minus(Times(a, b))) = Times(a, b)
        BY <4>1, <4>2, ResidueRing
      <4>. QED  BY <4>3 DEF a, b
    <3>. QED  BY <2>3, <3>1, <3>2
  <2>. QED  BY <2>4, <2>5
<1>5. Renumbers(p, Coeffs, Coeffs)
  <2>1. p \in [Coeffs -> Coeffs] /\ \A k \in Coeffs : p[k] = Ix(0, k)
    BY <1>2
  <2>2. \A a, b \in Coeffs : Ix(0, a) = Ix(0, b) => a = b
    BY <1>2
  <2>3. \A k \in Coeffs : \E a \in Coeffs : Ix(0, a) = k
    BY <1>2
  <2>. QED  BY <2>1, <2>2, <2>3 DEF Renumbers
<1>. DEFINE g == Products(x, y)
<1>6. IsFamily(g, Coeffs, R) /\ IsFamily(f, Coeffs, R)
  BY <1>1, ProductsIn, TermsOf
<1>7. Mul(sg, y) \in Elems /\ Mul(sg, y)[0] = SumQ(f)
  BY <1>1, MulIs
<1>8. SumQ(f) = SumQ(g)
  <2>. HIDE DEF f, g, p
  <2>1. IsFiniteSet(Coeffs) /\ f \in [Coeffs -> R] /\ g \in [Coeffs -> R] /\ \A k \in Coeffs : f[k] = g[p[k]]
    BY <1>4, <1>6 DEF IsFamily, g
  <2>2. SumOf(AddQ, 0, f) = SumOf(AddQ, 0, g)
    BY <1>5, <2>1, ResidueSums, SumReindex
  <2>. QED  BY <2>2 DEF SumQ
<1>. QED  BY <1>7, <1>8

\* A row of the projection at a slot, modulo q.
LEMMA RowModulo ==
  ASSUME IsStatement(stmt), IsWitness(w, stmt), NEW sd, NEW j \in Rows, NEW x \in Slots_w
  PROVE  SumZ(RowTerms(Pi(sd), j, w, x)) % q =
           Mul(sigma_minus_one(RowEntries(Pi(sd), j, x)), w[x[1]][x[2]])[0]
<1>. DEFINE e == RowEntries(Pi(sd), j, x)
            y == w[x[1]][x[2]]
            f == RowTerms(Pi(sd), j, w, x)
            g == Products(e, y)
<1>1. e \in Elems /\ y \in Elems
  <2>1. x \in Positions(stmt)
    BY DEF Slots_w, Vectors, Below, Positions
  <2>. QED  BY <2>1, RowEntriesIn, WitnessEntry
<1>2. IsFamily(f, Coeffs, Int) /\ IsFamily(g, Coeffs, R)
  BY <1>1, RowTermsIn, ProductsIn
<1>3. ASSUME NEW k \in Coeffs PROVE g[k] = f[k] % q
  <2>. DEFINE a == Pi(sd)[<<j, x[1], x[2], k>>]
              b == y[k]
              c == centered(q, b)
  <2>1. a \in Int /\ e[k] = a % q
    BY RowEntriesIn
  <2>2. b \in R
    BY <1>1, ElemFacts
  <2>3. c \in Int /\ c % q = b
    BY <2>2, CenteredIs
  <2>4. f[k] = a * c /\ g[k] = Times(e[k], b)
    BY DEF RowTerms, Products
  <2>. HIDE DEF a, b, c, f, g, e
  <2>5. ((a % q) * (c % q)) % q = (a * c) % q
    <3>1. (a * (c % q)) % q = (a * c) % q
      BY <2>1, <2>3, ModuloLaws
    <3>2. c % q \in Int
      BY <2>2, <2>3, ResidueFacts
    <3>3. ((a % q) * (c % q)) % q = (a * (c % q)) % q
      BY <2>1, <3>2, ModuloLaws
    <3>. QED  BY <3>1, <3>3
  <2>. QED  BY <2>1, <2>3, <2>4, <2>5 DEF Times
<1>. HIDE DEF f, g
<1>4. SumZ(f) % q = SumQ(g)
  BY <1>2, <1>3, SumModulo
<1>5. SumQ(g) = Mul(sigma_minus_one(e), y)[0]
  BY <1>1, ConstantTerm DEF g
<1>. QED  BY <1>4, <1>5 DEF f

LEMMA SumOfNone ==
  ASSUME NEW G, NEW P, NEW e, IsMonoid(G, P, e), NEW S, \A x : x \notin S, NEW f, IsFamily(f, S, G)
  PROVE  SumOf(P, e, f) = e
<1>1. SumOf(P, e, Part(f, {})) = e
  <2>1. IsFiniteSet(S) /\ f \in [S -> G]
    BY DEF IsFamily
  <2>. QED  BY <2>1, SumOneMore
<1>2. Part(f, {}) = f
  BY DEF IsFamily, Part
<1>. QED  BY <1>1, <1>2

\* A linear form without a quadratic part.
LEMMA NoQuadratic ==
  ASSUME NEW g
  PROVE  quadratic(<< >>, g) = Zero
<1>. DEFINE f == [p \in DOMAIN << >> |-> Doubled(p, Mul(<< >>[p], g[p]))]
<1>1. DOMAIN f = {} /\ f = [x \in DOMAIN f |-> f[x]] /\ (\A x \in {} : f[x] \in Elems) /\ IsFiniteSet({})
  BY FS_EmptySet
<1>2. quadratic(<< >>, g) = Total(f)
  BY DEF quadratic
<1>. HIDE DEF f
<1>3. IsFamily(f, {}, Elems) /\ Total(f) = SumE(f)
  BY <1>1, FamilyTotal
<1>5. SumOf(AddE, Zero, f) = Zero
  <2>. DEFINE none == {}
  <2>1. IsFamily(f, none, Elems) /\ \A x : x \notin none
    BY <1>3
  <2>. HIDE DEF none
  <2>. QED  BY <2>1, ElemSums, SumOfNone
<1>. QED  BY <1>2, <1>3, <1>5 DEF SumE

LEMMA RowIsProjection ==
  ASSUME IsStatement(stmt), IsWitness(w, stmt), NEW sd, NEW p \in [Rows -> Int], NEW j \in Rows
  PROVE  LET jl == build_jl_constraints(Pi(sd), p, Slots_w)
         IN  eval_const_term(jl[j], w) = (project_combined(Pi(sd), w)[j] - p[j]) % q
<1>. DEFINE jl == build_jl_constraints(Pi(sd), p, Slots_w)
            c == jl[j]
            phi == c.phi
            f == LinearTerms(phi, w)
            sums == RowSums(Pi(sd), j, w)
            g == [x \in Slots_w |-> sums[x] % q]
<1>1. stmt.n \in Nat /\ stmt.r \in Nat /\ 0 \in Coeffs
  BY ElemFacts DEF IsStatement
<1>2. /\ AreCts(jl, stmt) /\ DOMAIN jl = Rows /\ c.a = << >> /\ c.b0 = p[j] % q
      /\ phi = [x \in Slots_w |-> sigma_minus_one(RowEntries(Pi(sd), j, x))]
  BY <1>1, JlConstraintsIn
<1>3. IsConstraint(c, stmt) /\ IsSparse(phi, Positions(stmt)) /\ DOMAIN phi = Slots_w
  BY <1>2 DEF AreCts, IsConstraint, Positions
<1>4. /\ IsFamily(sums, Slots_w, Int) /\ project_combined(Pi(sd), w)[j] = SumZ(sums)
      /\ project_combined(Pi(sd), w)[j] \in Int
  BY ProjectIs
<1>5. \A x \in Slots_w : f[x] = Mul(sigma_minus_one(RowEntries(Pi(sd), j, x)), w[x[1]][x[2]])
  BY <1>2, <1>3 DEF LinearTerms
<1>6. \A x \in Slots_w : g[x] = f[x][0]
  BY <1>5, RowModulo DEF RowSums
<1>7. \A x \in Slots_w : g[x] = sums[x] % q /\ g[x] \in R
  <2>1. \A x \in Slots_w : sums[x] \in Int
    BY <1>4 DEF IsFamily
  <2>. QED  BY <2>1, Modulo DEF R
<1>8. IsFamily(g, Slots_w, R)
  BY <1>4, <1>7 DEF IsFamily
<1>. HIDE DEF jl, c, phi, sums, g, f
<1>9. IsFamily(f, Slots_w, Elems) /\ sparse_phi_inner_product(phi, w) = SumE(f)
  BY <1>1, <1>3, LinearIs DEF f
<1>10. SumE(f)[0] = SumQ(g)
  BY <1>1, <1>6, <1>8, <1>9, Coefficient
<1>11. SumZ(sums) % q = SumQ(g)
  BY <1>4, <1>7, <1>8, SumModulo
<1>12. Value(c, w) = Add(Zero, sparse_phi_inner_product(phi, w))
  BY <1>2, NoQuadratic DEF Value, phi
<1>13. Value(c, w) = SumE(f)
  <2>1. SumE(f) \in Elems
    BY <1>9, TotalIsSum
  <2>. QED  BY <1>9, <1>12, <2>1, AddRules
<1>14. eval_const_term(c, w) = ((SumZ(sums) % q) - (p[j] % q)) % q
  BY <1>2, <1>10, <1>11, <1>13 DEF eval_const_term
<1>15. SumZ(sums) \in Int /\ p[j] \in Int
  BY <1>4
<1>. DEFINE a == SumZ(sums)
            b == p[j]
<1>. HIDE DEF a, b
<1>16. ((a % q) - (b % q)) % q = (a - b) % q
  <2>1. a \in Int /\ b \in Int /\ b % q \in Int
    BY <1>15, Modulo DEF a, b
  <2>2. ((a % q) - (b % q)) % q = (a - (b % q)) % q
    BY <2>1, ModuloLaws
  <2>3. (a - (b % q)) % q = (a - b) % q
    BY <2>1, ModuloLaws
  <2>. QED  BY <2>2, <2>3
<1>. QED  BY <1>4, <1>14, <1>16 DEF a, b, jl, c

LEMMA TiedInState ==
  ASSUME IterationInv, DrawsAreResidues
  PROVE  ProjectionTied
<1>. SUFFICES ASSUME pc = "delivered", version = "v2", NEW j \in Rows
              PROVE  LET jl == build_jl_constraints(Pi(seeds), proof.p, Slots_w)
                         p == project_combined(Pi(seeds), w)
                     IN  eval_const_term(jl[j], w) = 0 <=> (p[j] - proof.p[j]) % q = 0
  BY DEF ProjectionTied
<1>1. Typed /\ Delivered /\ agg = replay(seeds, proof) /\ IsStatement(stmt) /\ IsWitness(w, stmt)
  BY DEF IterationInv, Delivered, Typed
<1>2. proof.p \in [Rows -> Int]
  BY <1>1, ReplayIn, WholeProof DEF Typed
<1>. QED  BY <1>1, <1>2, RowIsProjection

\* build_jl_constraints ties p to the witness: its j-th constraint holds of the
\* witness if and only if p_j is, modulo q', row j of the projection, for every
\* matrix drawn and whatever p arrived.
THEOREM ProjectionIsTied == ASSUME DrawsAreResidues PROVE Spec => []ProjectionTied
<1>1. IterationInv => ProjectionTied
  BY TiedInState
<1>. QED  BY <1>1, IterationInvariance, PTL

-----------------------------------------------------------------------------
(* A sparse function is a linear form on families of elements; the form of  *)
(* a combination is the combination of the forms.                          *)
Tester(k, P) == \A x \in P : k[x] \in Elems
TestTerms(f, k) == [x \in DOMAIN f |-> Mul(f[x], k[x])]
Tests(f, k) == SumE(TestTerms(f, k))

LEMMA TestsIn ==
  ASSUME NEW P, IsFiniteSet(P), NEW f, IsSparse(f, P), NEW k, Tester(k, P)
  PROVE  /\ IsFamily(TestTerms(f, k), DOMAIN f, Elems) /\ Tests(f, k) \in Elems
         /\ \A x \in DOMAIN f : f[x] \in Elems /\ k[x] \in Elems /\ TestTerms(f, k)[x] = Mul(f[x], k[x])
<1>1. IsFiniteSet(DOMAIN f) /\ (\A x \in DOMAIN f : f[x] \in Elems /\ k[x] \in Elems)
  BY SparseFamily DEF IsFamily, Tester
<1>2. \A x \in DOMAIN f : Mul(f[x], k[x]) \in Elems
  BY <1>1, MulIs
<1>3. IsFamily(TestTerms(f, k), DOMAIN f, Elems)
  BY <1>1, <1>2 DEF IsFamily, TestTerms
<1>4. Tests(f, k) \in Elems
  BY <1>3, TotalIsSum DEF Tests
<1>. QED  BY <1>1, <1>3, <1>4 DEF TestTerms

\* The pairs of a function's number and a place where it is defined.
PlacesOf(fs, P) == {y \in (DOMAIN fs) \X P : y[2] \in DOMAIN fs[y[1]]}
PlaceTerms(ws, fs, k, P) == [y \in PlacesOf(fs, P) |-> Mul(Mul(ws[y[1]], fs[y[1]][y[2]]), k[y[2]])]
WeightedTests(ws, fs, k) == [l \in DOMAIN fs |-> Mul(ws[l], Tests(fs[l], k))]

LEMMA PlaceTermsIn ==
  ASSUME NEW P, IsFiniteSet(P), NEW fs, Sparses(fs, P), NEW ws, Weights(ws, fs), NEW k, Tester(k, P)
  PROVE  /\ IsFamily(PlaceTerms(ws, fs, k, P), PlacesOf(fs, P), Elems)
         /\ \A l \in DOMAIN fs : \A x \in DOMAIN fs[l] :
              /\ <<l, x>> \in PlacesOf(fs, P) /\ x \in AllPlaces(fs) /\ l \in DefinedAt(fs, x)
              /\ ws[l] \in Elems /\ fs[l][x] \in Elems /\ k[x] \in Elems
              /\ PlaceTerms(ws, fs, k, P)[<<l, x>>] = Mul(Mul(ws[l], fs[l][x]), k[x])
<1>1. \A l \in DOMAIN fs : DOMAIN fs[l] \subseteq P /\ \A x \in DOMAIN fs[l] : fs[l][x] \in Elems
  BY DEF Sparses, IsSparse
<1>2. IsFiniteSet(PlacesOf(fs, P))
  <2>1. IsFiniteSet((DOMAIN fs) \X P)
    BY FS_Product DEF Sparses
  <2>. QED  BY <2>1, FS_Subset DEF PlacesOf
<1>3. ASSUME NEW y \in PlacesOf(fs, P)
      PROVE  Mul(Mul(ws[y[1]], fs[y[1]][y[2]]), k[y[2]]) \in Elems
  <2>1. ws[y[1]] \in Elems /\ fs[y[1]][y[2]] \in Elems /\ k[y[2]] \in Elems
    BY <1>1 DEF PlacesOf, Weights, Tester
  <2>2. Mul(ws[y[1]], fs[y[1]][y[2]]) \in Elems
    BY <2>1, MulIs
  <2>. QED  BY <2>1, <2>2, MulIs
<1>4. IsFamily(PlaceTerms(ws, fs, k, P), PlacesOf(fs, P), Elems)
  BY <1>2, <1>3 DEF IsFamily, PlaceTerms
<1>5. ASSUME NEW l \in DOMAIN fs, NEW x \in DOMAIN fs[l]
      PROVE  /\ <<l, x>> \in PlacesOf(fs, P) /\ x \in AllPlaces(fs) /\ l \in DefinedAt(fs, x)
             /\ ws[l] \in Elems /\ fs[l][x] \in Elems /\ k[x] \in Elems
             /\ PlaceTerms(ws, fs, k, P)[<<l, x>>] = Mul(Mul(ws[l], fs[l][x]), k[x])
  <2>1. <<l, x>> \in PlacesOf(fs, P)
    BY <1>1 DEF PlacesOf
  <2>2. PlaceTerms(ws, fs, k, P)[<<l, x>>] = Mul(Mul(ws[l], fs[l][x]), k[x])
    BY <2>1 DEF PlaceTerms
  <2>. QED  BY <1>1, <2>1, <2>2 DEF AllPlaces, DefinedAt, Weights, Tester
<1>. QED  BY <1>4, <1>5

LEMMA CombinationTests ==
  ASSUME NEW P, IsFiniteSet(P), NEW fs, Sparses(fs, P), NEW ws, Weights(ws, fs), NEW k, Tester(k, P)
  PROVE  /\ IsFamily(WeightedTests(ws, fs, k), DOMAIN fs, Elems)
         /\ Tests(Combination(ws, fs), k) = SumE(WeightedTests(ws, fs, k))
<1>. DEFINE T == PlacesOf(fs, P)
            f == PlaceTerms(ws, fs, k, P)
            fst == [y \in T |-> y[1]]
            snd == [y \in T |-> y[2]]
            comb == Combination(ws, fs)
            rows == WeightedTests(ws, fs, k)
            cols == TestTerms(comb, k)
            U == AllPlaces(fs)
<1>0. IsFamily(f, T, Elems) /\ IsFiniteSet(T) /\ IsFiniteSet(DOMAIN fs)
  BY PlaceTermsIn DEF IsFamily, Sparses
<1>1. /\ IsSparse(comb, P) /\ DOMAIN comb = U /\ U \subseteq P
      /\ \A x \in U :
           /\ IsFamily([l \in DefinedAt(fs, x) |-> Mul(ws[l], fs[l][x])], DefinedAt(fs, x), Elems)
           /\ comb[x] = SumE([l \in DefinedAt(fs, x) |-> Mul(ws[l], fs[l][x])])
  BY CombinationIs
<1>2. IsFiniteSet(U)
  BY <1>1, FS_Subset
<1>3. IsFamily(fst, T, DOMAIN fs) /\ IsFamily(snd, T, U)
  BY <1>0 DEF IsFamily, PlacesOf, AllPlaces
<1>4. IsFamily(cols, U, Elems) /\ Tests(comb, k) = SumE(cols)
  BY <1>1, TestsIn DEF Tests
<1>5. ASSUME NEW l \in DOMAIN fs
      PROVE  /\ rows[l] \in Elems
             /\ SumsTo(Elems, AddE, Zero, f, Fiber(fst, l), rows[l])
  <2>. DEFINE V == DOMAIN fs[l]
              p == [x \in V |-> <<l, x>>]
              u == Fiber(fst, l)
              row == [x \in V |-> f[p[x]]]
              terms == TestTerms(fs[l], k)
  <2>1. /\ IsFamily(terms, V, Elems) /\ Tests(fs[l], k) = SumE(terms) /\ ws[l] \in Elems
        /\ \A x \in V : fs[l][x] \in Elems /\ k[x] \in Elems /\ terms[x] = Mul(fs[l][x], k[x])
    BY TestsIn DEF Sparses, Tests, Weights
  <2>2. \A x \in V : p[x] = <<l, x>> /\ p[x] \in T
    BY PlaceTermsIn
  <2>3. Renumbers(p, V, u)
    <3>1. p \in [V -> u]
      BY <2>2 DEF Fiber
    <3>2. \A a, b \in V : p[a] = p[b] => a = b
      OBVIOUS
    <3>3. ASSUME NEW y \in u PROVE \E a \in V : p[a] = y
      <4>1. y \in T /\ y[1] = l
        BY DEF Fiber
      <4>2. y = <<l, y[2]>> /\ y[2] \in V
        BY <4>1 DEF PlacesOf
      <4>. QED  BY <4>2
    <3>. QED  BY <3>1, <3>2, <3>3 DEF Renumbers
  <2>4. \A x \in V : row[x] = Mul(ws[l], terms[x])
    <3>1. ASSUME NEW x \in V PROVE row[x] = Mul(ws[l], terms[x])
      <4>1. row[x] = Mul(Mul(ws[l], fs[l][x]), k[x])
        BY PlaceTermsIn
      <4>. QED  BY <2>1, <4>1, MulRules, SMTT(30)
    <3>. QED  BY <3>1
  <2>5. IsFamily(row, V, Elems)
    BY <1>0, <2>1, <2>2, SMTT(30) DEF IsFamily
  <2>6. \A x \in V : row[x] = f[p[x]]
    OBVIOUS
  <2>. HIDE DEF p, row, terms, V, u, f, fst
  <2>7. Mul(ws[l], SumE(terms)) = SumE(row)
    BY <2>1, <2>4, <2>5, MulOfSum
  <2>8. rows[l] = SumE(row)
    BY <2>1, <2>7 DEF WeightedTests
  <2>9. SumsTo(Elems, AddE, Zero, f, u, rows[l])
    <3>. HIDE DEF rows
    <3>. QED  BY <2>3, <2>5, <2>6, <2>8, SumsToBy DEF SumE
  <2>10. SumE(row) \in Elems
    BY <2>5, TotalIsSum
  <2>. QED  BY <2>8, <2>9, <2>10 DEF u
<1>6. ASSUME NEW x \in U
      PROVE  SumsTo(Elems, AddE, Zero, f, Fiber(snd, x), cols[x])
  <2>. DEFINE V == DefinedAt(fs, x)
              p == [l \in V |-> <<l, x>>]
              u == Fiber(snd, x)
              row == [l \in V |-> f[p[l]]]
              terms == [l \in V |-> Mul(ws[l], fs[l][x])]
  <2>0. \A l \in V : l \in DOMAIN fs /\ x \in DOMAIN fs[l]
    BY DEF DefinedAt
  <2>1. IsFamily(terms, V, Elems) /\ comb[x] = SumE(terms) /\ k[x] \in Elems /\ comb[x] \in Elems
    BY <1>1, TestsIn
  <2>2. \A l \in V : p[l] = <<l, x>> /\ p[l] \in T
    BY <2>0, PlaceTermsIn
  <2>3. Renumbers(p, V, u)
    <3>1. p \in [V -> u]
      BY <2>2 DEF Fiber
    <3>2. \A a, b \in V : p[a] = p[b] => a = b
      OBVIOUS
    <3>3. ASSUME NEW y \in u PROVE \E a \in V : p[a] = y
      <4>1. y \in T /\ y[2] = x
        BY DEF Fiber
      <4>2. y = <<y[1], x>> /\ y[1] \in V
        BY <4>1 DEF PlacesOf, DefinedAt
      <4>. QED  BY <4>2
    <3>. QED  BY <3>1, <3>2, <3>3 DEF Renumbers
  <2>4. \A l \in V : row[l] = Mul(k[x], terms[l])
    <3>1. ASSUME NEW l \in V PROVE row[l] = Mul(k[x], terms[l])
      <4>1. row[l] = Mul(Mul(ws[l], fs[l][x]), k[x]) /\ terms[l] = Mul(ws[l], fs[l][x])
        BY <2>0, PlaceTermsIn
      <4>2. terms[l] \in Elems
        BY <2>1 DEF IsFamily
      <4>. QED  BY <2>1, <4>1, <4>2, MulRules
    <3>. QED  BY <3>1
  <2>5. IsFamily(row, V, Elems)
    BY <1>0, <2>1, <2>2, SMTT(30) DEF IsFamily
  <2>6. \A l \in V : row[l] = f[p[l]]
    OBVIOUS
  <2>. HIDE DEF p, row, terms, V, u, f, snd
  <2>7. Mul(k[x], SumE(terms)) = SumE(row)
    BY <2>1, <2>4, <2>5, MulOfSum
  <2>8. cols[x] = SumE(row)
    <3>1. cols[x] = Mul(comb[x], k[x])
      BY <1>1 DEF TestTerms
    <3>. QED  BY <2>1, <2>7, <3>1, MulRules
  <2>9. SumsTo(Elems, AddE, Zero, f, u, cols[x])
    <3>. HIDE DEF cols
    <3>. QED  BY <2>3, <2>5, <2>6, <2>8, SumsToBy DEF SumE
  <2>. QED  BY <2>9 DEF u
<1>7. IsFamily(rows, DOMAIN fs, Elems)
  BY <1>0, <1>5 DEF IsFamily, WeightedTests
<1>. HIDE DEF f, fst, snd, rows, cols, T, U, comb
<1>8. SumE(f) = SumE(rows)
  BY <1>0, <1>3, <1>5, <1>7, ElemSums, SumOfFibers DEF SumE
<1>9. SumE(f) = SumE(cols)
  BY <1>0, <1>2, <1>3, <1>4, <1>6, ElemSums, SumOfFibers DEF SumE
<1>. QED  BY <1>4, <1>7, <1>8, <1>9 DEF rows, comb

-----------------------------------------------------------------------------
(* The value of a combination of constraints.                              *)
GarbageTester(u, s) == [p \in Pairs(s.r) |-> Doubled(p, ring_inner_product(u[p[1]], u[p[2]]))]
WitnessTester(u, s) == [x \in Positions(s) |-> u[x[1]][x[2]]]

LEMMA DoubledOut ==
  ASSUME NEW p, NEW x \in Elems, NEW y \in Elems
  PROVE  Doubled(p, Mul(x, y)) = Mul(x, Doubled(p, y))
<1>1. Mul(x, Add(y, y)) = Add(Mul(x, y), Mul(x, y))
  BY MulAdds
<1>. QED  BY <1>1 DEF Doubled

LEMMA TestersIn ==
  ASSUME NEW s, s.n \in Nat, s.r \in Nat, NEW u, IsWitness(u, s)
  PROVE  /\ Tester(GarbageTester(u, s), Pairs(s.r)) /\ Tester(WitnessTester(u, s), Positions(s))
         /\ \A p \in Pairs(s.r) :
              /\ ring_inner_product(u[p[1]], u[p[2]]) \in Elems
              /\ GarbageTester(u, s)[p] = Doubled(p, ring_inner_product(u[p[1]], u[p[2]]))
<1>1. ASSUME NEW p \in Pairs(s.r)
      PROVE  ring_inner_product(u[p[1]], u[p[2]]) \in Elems
  <2>1. p[1] \in 0..(s.r - 1) /\ p[2] \in 0..(s.r - 1)
    BY DEF Pairs
  <2>2. u[p[1]] \in [0..(s.n - 1) -> Elems] /\ u[p[2]] \in [0..(s.n - 1) -> Elems]
    BY <2>1, WitnessEntry
  <2>. QED  BY <2>2, FinitePlaces, InnerProductIs
<1>2. \A p \in Pairs(s.r) : Doubled(p, ring_inner_product(u[p[1]], u[p[2]])) \in Elems
  BY <1>1, DoubledIn
<1>3. \A x \in Positions(s) : u[x[1]][x[2]] \in Elems
  BY WitnessEntry
<1>4. Tester(GarbageTester(u, s), Pairs(s.r))
  BY <1>2 DEF Tester, GarbageTester
<1>5. Tester(WitnessTester(u, s), Positions(s))
  BY <1>3 DEF Tester, WitnessTester
<1>. QED  BY <1>1, <1>4, <1>5 DEF GarbageTester

LEMMA ValueIs ==
  ASSUME NEW s, s.n \in Nat, s.r \in Nat, NEW u, IsWitness(u, s), NEW c, IsConstraint(c, s)
  PROVE  /\ Value(c, u) = Add(Tests(c.a, GarbageTester(u, s)), Tests(c.phi, WitnessTester(u, s)))
         /\ Tests(c.a, GarbageTester(u, s)) \in Elems /\ Tests(c.phi, WitnessTester(u, s)) \in Elems
<1>1. IsSparse(c.a, Pairs(s.r)) /\ IsSparse(c.phi, Positions(s)) /\ DOMAIN c.a \in SUBSET Pairs(s.r)
      /\ DOMAIN c.phi \subseteq Positions(s) /\ \A p \in DOMAIN c.a : c.a[p] \in Elems
  BY DEF IsConstraint, IsSparse, Positions
<1>. DEFINE g == compute_g(u, DOMAIN c.a)
            a == c.a
            phi == c.phi
<1>2. \A p \in DOMAIN a : g[p] = ring_inner_product(u[p[1]], u[p[2]]) /\ g[p] \in Elems
  BY <1>1, GarbageIn
<1>3. IsFiniteSet(Pairs(s.r)) /\ IsFiniteSet(Positions(s))
  BY FinitePlaces
<1>4. quadratic(a, g) = SumE(QuadraticTerms(a, g))
  BY <1>1, <1>2, <1>3, QuadraticIs
<1>5. \A p \in DOMAIN a : Doubled(p, Mul(a[p], g[p])) = Mul(a[p], GarbageTester(u, s)[p])
  <2>1. ASSUME NEW p \in DOMAIN a
        PROVE  Doubled(p, Mul(a[p], g[p])) = Mul(a[p], GarbageTester(u, s)[p])
    <3>1. GarbageTester(u, s)[p] = Doubled(p, g[p]) /\ a[p] \in Elems /\ g[p] \in Elems
      BY <1>1, <1>2, TestersIn
    <3>. QED  BY <3>1, DoubledOut
  <2>. QED  BY <2>1
<1>6. QuadraticTerms(a, g) = TestTerms(a, GarbageTester(u, s))
  BY <1>5 DEF QuadraticTerms, TestTerms
<1>7. \A x \in DOMAIN phi : WitnessTester(u, s)[x] = u[x[1]][x[2]]
  BY <1>1 DEF WitnessTester
<1>8. LinearTerms(phi, u) = TestTerms(phi, WitnessTester(u, s))
  BY <1>7 DEF LinearTerms, TestTerms
<1>9. sparse_phi_inner_product(phi, u) = SumE(LinearTerms(phi, u))
  BY <1>1, LinearIs
<1>10. Value(c, u) = Add(quadratic(a, g), sparse_phi_inner_product(phi, u))
  BY ValueIn
<1>11. Tests(a, GarbageTester(u, s)) \in Elems /\ Tests(phi, WitnessTester(u, s)) \in Elems
  BY <1>1, <1>3, TestersIn, TestsIn
<1>. QED  BY <1>4, <1>6, <1>8, <1>9, <1>10, <1>11 DEF Tests

ValueTerms(ws, cts, u) == [l \in DOMAIN cts |-> Mul(ws[l], Value(cts[l], u))]
WeightsOf(ws, cts) == \A l \in DOMAIN cts : ws[l] \in Elems
IsCombination(c, ws, cts) ==
  c.a = Combination(ws, Field(cts, "a")) /\ c.phi = Combination(ws, Field(cts, "phi"))

LEMMA ValueOfCombination ==
  ASSUME NEW s, s.n \in Nat, s.r \in Nat, NEW u, IsWitness(u, s), NEW cts, AreConstraints(cts, s),
         NEW ws, WeightsOf(ws, cts), NEW c, IsCombination(c, ws, cts)
  PROVE  /\ IsConstraint(c, s)
         /\ IsFamily(ValueTerms(ws, cts, u), DOMAIN cts, Elems)
         /\ Value(c, u) = SumE(ValueTerms(ws, cts, u))
<1>. DEFINE as == Field(cts, "a")
            phis == Field(cts, "phi")
            ka == GarbageTester(u, s)
            kphi == WitnessTester(u, s)
            fa == WeightedTests(ws, as, ka)
            fphi == WeightedTests(ws, phis, kphi)
            S == DOMAIN cts
            h == ValueTerms(ws, cts, u)
<1>1. /\ DOMAIN as = S /\ DOMAIN phis = S
      /\ \A l \in S : as[l] = cts[l].a /\ phis[l] = cts[l].phi
      /\ Sparses(as, Pairs(s.r)) /\ Sparses(phis, Positions(s))
  BY FieldsIn
<1>2. Weights(ws, as) /\ Weights(ws, phis)
  BY <1>1 DEF WeightsOf, Weights
<1>3. IsFiniteSet(Pairs(s.r)) /\ IsFiniteSet(Positions(s)) /\ Tester(ka, Pairs(s.r)) /\ Tester(kphi, Positions(s))
  BY FinitePlaces, TestersIn
<1>4. IsConstraint(c, s)
  <2>1. IsSparse(c.a, Pairs(s.r)) /\ IsSparse(c.phi, Positions(s))
    <3>. HIDE DEF as, phis
    <3>. QED  BY <1>1, <1>2, <1>3, CombinationIs DEF IsCombination, as, phis
  <2>. QED  BY <2>1 DEF IsConstraint, Positions
<1>. HIDE DEF as, phis, ka, kphi
<1>5. IsFamily(fa, S, Elems) /\ Tests(c.a, ka) = SumE(fa)
  BY <1>1, <1>2, <1>3, CombinationTests DEF IsCombination, as
<1>6. IsFamily(fphi, S, Elems) /\ Tests(c.phi, kphi) = SumE(fphi)
  BY <1>1, <1>2, <1>3, CombinationTests DEF IsCombination, phis
<1>7. ASSUME NEW l \in S
      PROVE  h[l] = Add(fa[l], fphi[l]) /\ h[l] \in Elems
  <2>1. IsConstraint(cts[l], s)
    BY DEF AreConstraints
  <2>2. Value(cts[l], u) = Add(Tests(cts[l].a, ka), Tests(cts[l].phi, kphi))
        /\ Tests(cts[l].a, ka) \in Elems /\ Tests(cts[l].phi, kphi) \in Elems /\ Value(cts[l], u) \in Elems
    BY <2>1, ValueIs, ValueIn DEF ka, kphi
  <2>3. fa[l] = Mul(ws[l], Tests(cts[l].a, ka)) /\ fphi[l] = Mul(ws[l], Tests(cts[l].phi, kphi))
    BY <1>1 DEF WeightedTests
  <2>4. ws[l] \in Elems
    BY DEF WeightsOf
  <2>5. h[l] = Mul(ws[l], Value(cts[l], u))
    BY DEF ValueTerms
  <2>. QED  BY <2>2, <2>3, <2>4, <2>5, MulRules
<1>8. IsFamily(h, S, Elems)
  <2>1. IsFiniteSet(S)
    BY SeqIs DEF AreConstraints
  <2>. QED  BY <1>7, <2>1 DEF IsFamily, ValueTerms
<1>. HIDE DEF fa, fphi, h
<1>9. SumE(h) = Add(SumE(fa), SumE(fphi))
  <2>1. \A l \in S : h[l] = AddE[<<fa[l], fphi[l]>>]
    BY <1>5, <1>6, <1>7, ElemSums DEF IsFamily
  <2>2. SumE(h) = AddE[<<SumE(fa), SumE(fphi)>>]
    BY <1>5, <1>6, <1>8, <2>1, ElemSums, SumOfSums DEF IsFamily, SumE
  <2>3. SumE(fa) \in Elems /\ SumE(fphi) \in Elems
    BY <1>5, <1>6, TotalIsSum
  <2>. QED  BY <2>2, <2>3, ElemSums
<1>10. Value(c, u) = Add(Tests(c.a, ka), Tests(c.phi, kphi))
  BY <1>4, ValueIs DEF ka, kphi
<1>. QED  BY <1>4, <1>5, <1>6, <1>8, <1>9, <1>10 DEF h

\* A sum of a first part and a second.
LEMMA SumInTwo ==
  ASSUME NEW n \in Nat, NEW m \in Nat, NEW f, IsFamily(f, 1..(n + m), Elems),
         NEW g, IsFamily(g, 1..n, Elems), NEW h, IsFamily(h, 1..m, Elems),
         \A k \in 1..n : g[k] = f[k], \A k \in 1..m : h[k] = f[n + k]
  PROVE  SumE(f) = Add(SumE(g), SumE(h))
<1>. DEFINE S == 1..(n + m)
            t == 1..n
            M == 1..m
            rest == S \ t
            p == [k \in M |-> n + k]
<1>0. IsFiniteSet(S) /\ f \in [S -> Elems] /\ t \in SUBSET S /\ IsFiniteSet(M) /\ h \in [M -> Elems]
  BY DEF IsFamily
<1>1. Part(f, t) = g
  BY <1>0 DEF IsFamily, Part
<1>2. Renumbers(p, M, rest)
  <2>1. p \in [1..m -> S \ t] /\ \A a, b \in 1..m : p[a] = p[b] => a = b
    OBVIOUS
  <2>2. ASSUME NEW x \in S \ t PROVE \E a \in 1..m : p[a] = x
    <3>1. x - n \in 1..m /\ p[x - n] = x
      OBVIOUS
    <3>. QED  BY <3>1
  <2>. QED  BY <2>1, <2>2 DEF Renumbers
<1>3. rest \in SUBSET S /\ \A k \in M : h[k] = f[p[k]]
  OBVIOUS
<1>. HIDE DEF p, rest, S, t, M
<1>4. SumE(h) = SumE(Part(f, rest)) /\ SumE(h) \in Elems
  BY <1>0, <1>2, <1>3, ElemSums, SumOfSome, SMTT(40) DEF SumE
<1>5. SumE(f) = AddE[<<SumE(Part(f, t)), SumE(Part(f, rest))>>]
  BY <1>0, ElemSums, SumSplit DEF SumE, rest
<1>6. SumE(g) \in Elems
  BY TotalIsSum
<1>. QED  BY <1>1, <1>4, <1>5, <1>6, ElemSums

-----------------------------------------------------------------------------
(* The combination of the constraints on constant terms.                   *)

\* Modulo q, a difference of two sums is the sum of the differences.
LEMMA DifferenceModulo ==
  ASSUME NEW p \in R, NEW v \in R, NEW b \in R
  PROVE  (p * ((v - b) % q)) % q = Plus(Times(p, v), Minus(Times(p, b)))
<1>1. p \in Int /\ v \in Int /\ b \in Int /\ q \in Nat /\ q >= 3
  BY ResidueFacts
<1>. DEFINE a == v - b
            pv == p * v
            pb == p * b
<1>2. a \in Int /\ pv \in Int /\ pb \in Int /\ -pb \in Int
  BY <1>1
<1>3. (p * (a % q)) % q = (p * a) % q
  BY <1>1, <1>2, ModuloLaws
<1>4. p * a = pv + (-pb)
  BY <1>1
<1>. HIDE DEF a, pv, pb
<1>5. (-pb) % q \in Int /\ pv % q \in Int /\ pb % q \in Int
  BY <1>2, Modulo
<1>6. ((pv % q) + ((-pb) % q)) % q = (pv + (-pb)) % q
  <2>1. ((pv % q) + ((-pb) % q)) % q = (pv + ((-pb) % q)) % q
    BY <1>2, <1>5, ModuloLaws
  <2>2. (pv + ((-pb) % q)) % q = (pv + (-pb)) % q
    BY <1>2, ModuloLaws
  <2>. QED  BY <2>1, <2>2
<1>7. (-(pb % q)) % q = (-pb) % q
  BY <1>2, ModuloLaws
<1>. QED  BY <1>3, <1>4, <1>6, <1>7 DEF a, pv, pb, Plus, Minus, Times

LEMMA DifferenceOfResidues ==
  ASSUME NEW a \in R, NEW b \in R
  PROVE  (a - b) % q = Plus(a, Minus(b))
<1>1. a \in Int /\ b \in Int /\ -b \in Int
  BY ResidueFacts
<1>. DEFINE m == -b
<1>2. m \in Int /\ a - b = a + m
  BY <1>1
<1>. HIDE DEF m
<1>3. (a + (m % q)) % q = (a + m) % q
  BY <1>1, <1>2, ModuloLaws
<1>. QED  BY <1>2, <1>3 DEF Plus, Minus, m

LEMMA IntRules ==
  ASSUME NEW a \in Int, NEW b \in Int
  PROVE  a * b \in Int /\ a - b \in Int /\ a + b \in Int
OBVIOUS

Excesses(psis, cts, u) == [l \in DOMAIN cts |-> psis[l] * eval_const_term(cts[l], u)]
RightTerms(psis, cts) == [l \in DOMAIN cts |-> psis[l] * cts[l].b0]

LEMMA ConstTermCombines ==
  ASSUME NEW s, s.n \in Nat, s.r \in Nat, NEW u, IsWitness(u, s), NEW cts, AreCts(cts, s),
         AreConstraints(cts, s),
         NEW psis, DOMAIN psis = DOMAIN cts, \A l \in DOMAIN cts : psis[l] \in R
  PROVE  (Value(aggregate_const_term(cts, psis), u)[0] - ExpectedConstTerm(cts, psis)) % q
           = FoldFunction(+, 0, Excesses(psis, cts, u)) % q
<1>. DEFINE S == DOMAIN cts
            c == aggregate_const_term(cts, psis)
            ws == Constants(psis)
            h == ValueTerms(ws, cts, u)
            V(l) == Value(cts[l], u)[0]
            left == [l \in S |-> Times(psis[l], V(l))]
            right == [l \in S |-> Times(psis[l], cts[l].b0)]
            minus == [l \in S |-> Minus(right[l])]
            both == [l \in S |-> Excesses(psis, cts, u)[l] % q]
<1>1. /\ IsFiniteSet(S) /\ \A l \in S : IsConstraint(cts[l], s) /\ cts[l].b0 \in R /\ cts[l].b0 \in Int /\ psis[l] \in Int
  BY SeqIs, ResidueFacts DEF AreCts
<1>2. DOMAIN ws = S /\ \A l \in S : ws[l] = constant(psis[l]) /\ ws[l] \in Elems
  BY <1>1, ConstantsIn
<1>3. WeightsOf(ws, cts) /\ IsCombination(c, ws, cts)
  BY <1>2 DEF WeightsOf, IsCombination, aggregate_const_term
<1>4. IsFamily(h, S, Elems) /\ Value(c, u) = SumE(h)
  <2>. HIDE DEF c, ws, h
  <2>. QED  BY <1>3, ValueOfCombination DEF h
<1>5. \A l \in S : Value(cts[l], u) \in Elems /\ V(l) \in R /\ V(l) \in Int
  BY <1>1, ValueIn, ElemFacts, ResidueFacts
<1>6. \A l \in S : left[l] \in R /\ right[l] \in R /\ minus[l] \in R
  BY <1>1, <1>5, ResiduesClosed
<1>7. IsFamily(left, S, R) /\ IsFamily(right, S, R) /\ IsFamily(minus, S, R)
  BY <1>1, <1>6 DEF IsFamily
<1>8. \A l \in S : left[l] = h[l][0]
  <2>1. ASSUME NEW l \in S PROVE left[l] = h[l][0]
    <3>1. h[l] = Mul(constant(psis[l]), Value(cts[l], u))
      BY <1>2 DEF ValueTerms
    <3>2. psis[l] \in Int /\ Value(cts[l], u) \in Elems /\ 0 \in Coeffs /\ psis[l] % q = psis[l]
      BY <1>1, <1>5, ElemFacts, ResiduesClosed
    <3>3. Mul(constant(psis[l]), Value(cts[l], u))[0] = Times(psis[l] % q, V(l))
      BY <3>2, MulByConstant
    <3>. QED  BY <3>1, <3>2, <3>3
  <2>. QED  BY <2>1
<1>9. IsFamily(RightTerms(psis, cts), S, Int) /\ \A l \in S : right[l] = RightTerms(psis, cts)[l] % q
  <2>1. \A l \in S : psis[l] * cts[l].b0 \in Int
    BY <1>1, IntRules
  <2>. QED  BY <1>1, <2>1 DEF IsFamily, RightTerms, Times
<1>10. \A l \in S : eval_const_term(cts[l], u) \in Int /\ Excesses(psis, cts, u)[l] \in Int
  <2>1. ASSUME NEW l \in S PROVE eval_const_term(cts[l], u) \in Int
    <3>1. V(l) - cts[l].b0 \in Int
      BY <1>1, <1>5, IntRules
    <3>. QED  BY <3>1, Modulo DEF eval_const_term
  <2>. QED  BY <1>1, <2>1 DEF Excesses
<1>11. IsFamily(Excesses(psis, cts, u), S, Int)
  BY <1>1, <1>10 DEF IsFamily, Excesses
<1>12. IsFamily(both, S, R)
  <2>1. \A l \in S : both[l] \in R
    BY <1>10, Modulo DEF R
  <2>. QED  BY <1>1, <2>1 DEF IsFamily
<1>13. \A l \in S : both[l] = AddQ[<<left[l], minus[l]>>]
  <2>1. ASSUME NEW l \in S PROVE both[l] = Plus(left[l], minus[l])
    <3>1. (psis[l] * ((V(l) - cts[l].b0) % q)) % q = Plus(Times(psis[l], V(l)), Minus(Times(psis[l], cts[l].b0)))
      BY <1>1, <1>5, DifferenceModulo
    <3>. QED  BY <3>1 DEF Excesses, eval_const_term
  <2>. QED  BY <1>6, <2>1, ResidueSums
<1>. DEFINE rights == RightTerms(psis, cts)
            excs == Excesses(psis, cts, u)
<1>14. \A l \in S : both[l] = excs[l] % q /\ minus[l] = Minus(right[l])
  OBVIOUS
<1>15. ExpectedConstTerm(cts, psis) = FoldFunction(+, 0, rights) % q
  BY DEF ExpectedConstTerm, RightTerms
<1>. HIDE DEF left, right, minus, both, h, c, rights, excs, S
<1>16. SumQ(both) = AddQ[<<SumQ(left), SumQ(minus)>>]
  BY <1>7, <1>12, <1>13, ResidueSums, SumOfSums DEF IsFamily, SumQ
<1>17. SumQ(minus) = Minus(SumQ(right))
  BY <1>7, <1>14, MinusOfSum
<1>18. SumE(h)[0] = SumQ(left)
  <2>1. 0 \in Coeffs
    BY ElemFacts
  <2>. QED  BY <1>4, <1>7, <1>8, <2>1, Coefficient
<1>19. ExpectedConstTerm(cts, psis) = SumQ(right)
  <2>1. FoldFunction(+, 0, rights) = SumZ(rights)
    BY <1>9, FoldFunctionIsSum DEF rights
  <2>2. SumZ(rights) % q = SumQ(right)
    BY <1>7, <1>9, SumModulo DEF rights
  <2>. QED  BY <1>15, <2>1, <2>2
<1>20. FoldFunction(+, 0, excs) % q = SumQ(both)
  <2>1. FoldFunction(+, 0, excs) = SumZ(excs)
    BY <1>11, FoldFunctionIsSum DEF excs
  <2>2. SumZ(excs) % q = SumQ(both)
    BY <1>11, <1>12, <1>14, SumModulo DEF excs
  <2>. QED  BY <2>1, <2>2
<1>21. SumQ(left) \in R /\ SumQ(right) \in R /\ SumQ(minus) \in R
  BY <1>7, FamilySums
<1>22. (SumQ(left) - SumQ(right)) % q = Plus(SumQ(left), Minus(SumQ(right)))
  BY <1>21, DifferenceOfResidues
<1>23. AddQ[<<SumQ(left), SumQ(minus)>>] = Plus(SumQ(left), SumQ(minus))
  BY <1>21, ResidueSums
<1>. QED  BY <1>4, <1>16, <1>17, <1>18, <1>19, <1>20, <1>22, <1>23 DEF c, excs

-----------------------------------------------------------------------------
LEMMA SubBack ==
  ASSUME NEW x \in Elems, NEW y \in Elems
  PROVE  Sub(Add(x, y), y) = x /\ Add(Sub(x, y), y) = x
<1>1. Neg(y) \in Elems /\ Add(y, Neg(y)) = Zero
  BY NegRules
<1>2. Add(x, y) \in Elems /\ Zero \in Elems
  BY AddRules, ElemFacts
<1>3. Sub(Add(x, y), y) = Add(Add(x, y), Neg(y)) /\ Sub(x, y) = Add(x, Neg(y))
  BY <1>2, SubIs
<1>4. Add(Add(x, y), Neg(y)) = Add(x, Add(y, Neg(y)))
  BY <1>1, AddRules
<1>5. Add(Add(x, Neg(y)), y) = Add(x, Add(Neg(y), y)) /\ Add(Neg(y), y) = Add(y, Neg(y))
  BY <1>1, AddRules
<1>6. Add(x, Zero) = x
  BY <1>2, AddRules
<1>. QED  BY <1>1, <1>3, <1>4, <1>5, <1>6

AlphaTerms(sd, u) == [k \in DOMAIN stmt.full |-> Mul(Alphas(sd)[k], eval_full(stmt.full[k], u))]
BetaTerms(sd, pps, bpp, u) == [k \in 1..K_PP |-> Mul(Betas(sd)[k], Sub(Value(pps[k], u), bpp[k]))]
AggregateRelation(x) == [a |-> x.a_agg, phi |-> x.phi_agg, b |-> x.b_agg]

LEMMA RelationCombines ==
  ASSUME DrawsAreResidues, IsStatement(stmt), IsWitness(w, stmt), NEW sd,
         NEW pps, ArePps(pps, stmt), NEW bpp \in [1..K_PP -> Elems]
  PROVE  eval_full(AggregateRelation(Aggregate(sd, pps, bpp)), w)
           = Add(Total(AlphaTerms(sd, w)), Total(BetaTerms(sd, pps, bpp, w)))
<1>. DEFINE cts == stmt.full \o pps
            ws == Alphas(sd) \o Betas(sd)
            bs == Field(stmt.full, "b") \o bpp
            n == Len(stmt.full)
            m == K_PP
            S == 1..(n + m)
            ag == Aggregate(sd, pps, bpp)
            c == AggregateRelation(ag)
            f == ValueTerms(ws, cts, w)
            g == [k \in S |-> Mul(ws[k], bs[k])]
            h == [k \in S |-> Mul(ws[k], Sub(Value(cts[k], w), bs[k]))]
            left == AlphaTerms(sd, w)
            right == BetaTerms(sd, pps, bpp, w)
<1>0. stmt.n \in Nat /\ stmt.r \in Nat
  BY DEF IsStatement
<1>1. /\ AreConstraints(cts, stmt) /\ n \in Nat /\ m \in Nat /\ DOMAIN stmt.full = 1..n /\ DOMAIN cts = S
      /\ AreElems(ws, n + m)
      /\ \A k \in 1..n : ws[k] = Alphas(sd)[k] /\ cts[k] = stmt.full[k]
      /\ \A k \in 1..m : ws[n + k] = Betas(sd)[k] /\ cts[n + k] = pps[k]
  BY AggregateParts, CountAssumption
<1>2. /\ DOMAIN bs = S /\ \A k \in S : bs[k] \in Elems
      /\ \A k \in 1..n : bs[k] = stmt.full[k].b
      /\ \A k \in 1..m : bs[n + k] = bpp[k]
  BY RightSides DEF AreElems
<1>3. \A k \in S : ws[k] \in Elems
  BY <1>1 DEF AreElems
<1>4. DOMAIN ws = S
  BY <1>1, SeqIs DEF AreElems
<1>5. IsCombination(c, ws, cts) /\ c.b = ag.b_agg
  BY DEF IsCombination, AggregateRelation, Aggregate, aggregate_full
<1>6. ag.b_agg = Total(g)
  <2>1. ag.b_agg = aggregate_b(stmt.full, bpp, Alphas(sd), Betas(sd))
    BY DEF Aggregate
  <2>. QED  BY <1>4, <2>1 DEF aggregate_b
<1>7. IsFamily(f, S, Elems) /\ Value(c, w) = SumE(f)
  <2>1. WeightsOf(ws, cts)
    BY <1>1, <1>3 DEF WeightsOf
  <2>. HIDE DEF ws, cts, c, S, f
  <2>. QED  BY <1>0, <1>1, <1>5, <2>1, ValueOfCombination DEF f
<1>8. \A k \in S : Value(cts[k], w) \in Elems
  <2>1. \A k \in S : IsConstraint(cts[k], stmt)
    BY <1>1 DEF AreConstraints
  <2>. QED  BY <1>0, <2>1, ValueIn
<1>9. ASSUME NEW k \in S
      PROVE  /\ g[k] \in Elems /\ h[k] \in Elems /\ f[k] = Add(h[k], g[k])
  <2>. DEFINE V == Value(cts[k], w)
              b == bs[k]
              a == ws[k]
  <2>1. V \in Elems /\ b \in Elems /\ a \in Elems
    BY <1>2, <1>3, <1>8
  <2>2. f[k] = Mul(a, V) /\ g[k] = Mul(a, b) /\ h[k] = Mul(a, Sub(V, b))
    BY <1>1 DEF ValueTerms
  <2>. HIDE DEF V, a, b, f, g, h
  <2>3. Sub(V, b) \in Elems /\ Add(Sub(V, b), b) = V
    BY <2>1, SubIs, SubBack
  <2>. QED  BY <2>1, <2>2, <2>3, MulRules
<1>10. IsFiniteSet(S)
  BY <1>7 DEF IsFamily
<1>11. IsFamily(g, S, Elems) /\ IsFamily(h, S, Elems)
  BY <1>9, <1>10 DEF IsFamily
<1>12. IsFiniteSet(1..n) /\ IsFiniteSet(1..m)
  <2>1. 1..n \in SUBSET S /\ 1..m \in SUBSET S
    BY <1>1
  <2>. QED  BY <1>10, <2>1, FS_Subset
<1>13. \A k \in 1..n : k \in S /\ left[k] = h[k]
  <2>1. \A k \in 1..n : k \in S
    BY <1>1
  <2>. QED  BY <1>1, <1>2, <2>1 DEF AlphaTerms, eval_full
<1>14. \A k \in 1..m : n + k \in S /\ right[k] = h[n + k]
  <2>1. \A k \in 1..m : n + k \in S
    BY <1>1
  <2>. QED  BY <1>1, <1>2, <2>1 DEF BetaTerms
<1>15. IsFamily(left, 1..n, Elems)
  <2>1. \A k \in 1..n : left[k] \in Elems
    BY <1>9, <1>13
  <2>. QED  BY <1>1, <1>12, <2>1 DEF IsFamily, AlphaTerms
<1>16. IsFamily(right, 1..m, Elems)
  <2>1. \A k \in 1..m : right[k] \in Elems
    BY <1>9, <1>14
  <2>. QED  BY <1>1, <1>12, <2>1 DEF IsFamily, BetaTerms
<1>. HIDE DEF f, g, h, left, right, c, ag, ws, bs, cts, n, m
<1>17. SumE(h) = Add(SumE(left), SumE(right))
  BY <1>1, <1>11, <1>13, <1>14, <1>15, <1>16, SumInTwo
<1>. HIDE DEF S
<1>18. SumE(f) = Add(SumE(h), SumE(g))
  <2>1. \A k \in S : f[k] = AddE[<<h[k], g[k]>>]
    BY <1>9, ElemSums
  <2>2. SumE(f) = AddE[<<SumE(h), SumE(g)>>]
    BY <1>7, <1>11, <2>1, ElemSums, SumOfSums DEF IsFamily, SumE
  <2>3. SumE(h) \in Elems /\ SumE(g) \in Elems
    BY <1>11, TotalIsSum
  <2>. QED  BY <2>2, <2>3, ElemSums
<1>19. Total(g) = SumE(g) /\ Total(left) = SumE(left) /\ Total(right) = SumE(right)
       /\ SumE(h) \in Elems /\ SumE(g) \in Elems
  BY <1>11, <1>15, <1>16, TotalIsSum
<1>20. eval_full(c, w) = Sub(SumE(f), SumE(g))
  BY <1>5, <1>6, <1>7, <1>19 DEF eval_full
<1>21. Sub(Add(SumE(h), SumE(g)), SumE(g)) = SumE(h)
  BY <1>19, SubBack
<1>. QED  BY <1>17, <1>18, <1>19, <1>20, <1>21 DEF c, ag, left, right

-----------------------------------------------------------------------------
LEMMA CombinationsInState ==
  ASSUME IterationInv, DrawsAreResidues
  PROVE  AggregatesAreCombinations
<1>. SUFFICES ASSUME pc = "delivered"
              PROVE  LET cts == ConstTerms(seeds, IF version = "v1" THEN << >> ELSE proof.p)
                         psis == Psis(seeds, cts)
                         full == [a |-> agg.a_agg, phi |-> agg.phi_agg, b |-> agg.b_agg]
                         Excess(k) == Sub(Value(agg.pps[k], w), proof.bpp[k])
                     IN /\ eval_full(full, w) =
                             Add(Total([k \in DOMAIN stmt.full |-> Mul(Alphas(seeds)[k], eval_full(stmt.full[k], w))]),
                                 Total([k \in 1..K_PP |-> Mul(Betas(seeds)[k], Excess(k))]))
                        /\ \A k \in 1..K_PP :
                             (Value(agg.pps[k], w)[0] - ExpectedConstTerm(cts, psis[k])) % q =
                               FoldFunction(+, 0, [l \in DOMAIN cts |-> psis[k][l] * eval_const_term(cts[l], w)]) % q
  BY DEF AggregatesAreCombinations
<1>. DEFINE cts == ConstTerms(seeds, IF version = "v1" THEN << >> ELSE proof.p)
            pps == Aggregates(seeds, cts)
            bpp == proof.bpp
<1>0. stmt.n \in Nat /\ stmt.r \in Nat /\ IsStatement(stmt) /\ IsWitness(w, stmt)
  BY DEF IterationInv, Typed, IsStatement
<1>1. /\ AreCts(cts, stmt) /\ ArePps(pps, stmt) /\ AreConstraints(cts, stmt)
      /\ bpp \in [1..K_PP -> Elems]
      /\ agg = Aggregate(seeds, pps, bpp) /\ agg.pps = pps
  BY ReplayIn DEF IterationInv, Delivered
<1>. HIDE DEF cts, pps, bpp
<1>2. eval_full(AggregateRelation(agg), w)
        = Add(Total(AlphaTerms(seeds, w)), Total(BetaTerms(seeds, pps, bpp, w)))
  BY <1>0, <1>1, RelationCombines
<1>3. ASSUME NEW k \in 1..K_PP
      PROVE  (Value(agg.pps[k], w)[0] - ExpectedConstTerm(cts, Psis(seeds, cts)[k])) % q =
               FoldFunction(+, 0, Excesses(Psis(seeds, cts)[k], cts, w)) % q
  <2>1. DOMAIN Psis(seeds, cts)[k] = DOMAIN cts /\ \A l \in DOMAIN cts : Psis(seeds, cts)[k][l] \in R
    BY PsisIn
  <2>2. pps[k] = aggregate_const_term(cts, Psis(seeds, cts)[k])
    BY <1>0, <1>1, AggregatesIn DEF pps
  <2>. QED  BY <1>0, <1>1, <2>1, <2>2, ConstTermCombines
<1>. QED  BY <1>1, <1>2, <1>3 DEF AggregateRelation, AlphaTerms, BetaTerms, Excesses, cts, pps, bpp

\* The aggregated relation is, on every witness, the combination of the
\* constraints that the weights say, and the constant term of b'' the combination
\* of the constant terms (aggregate_full and aggregate_const_term).
THEOREM CombinationsHold == ASSUME DrawsAreResidues PROVE Spec => []AggregatesAreCombinations
<1>1. IterationInv => AggregatesAreCombinations
  BY CombinationsInState
<1>. QED  BY <1>1, IterationInvariance, PTL

-----------------------------------------------------------------------------
(* A folded constraint on the folded witness: its linear form on the        *)
(* openings.                                                               *)
Openings(s, i, pr) == [x \in Sources(s) |-> Opening(i, pr, x)]

LEMMA CoefTestsIn ==
  ASSUME NEW s, Proper(s), NEW i, NEW pr, OpensAll(s, i, pr), NEW f, IsCoef(f, s)
  PROVE  LET k == Openings(s, i, pr)
         IN  /\ IsFamily(TestTerms(f, k), DOMAIN f, Elems) /\ Tests(f, k) \in Elems
             /\ \A x \in DOMAIN f : /\ f[x] \in Elems /\ Opening(i, pr, x) \in Elems
                                    /\ TestTerms(f, k)[x] = Mul(f[x], Opening(i, pr, x))
<1>. DEFINE k == Openings(s, i, pr)
<1>1. DOMAIN f \subseteq Sources(s) /\ \A x \in DOMAIN f : f[x] \in Elems /\ k[x] = Opening(i, pr, x) /\ k[x] \in Elems
  BY DEF IsCoef, OpensAll, Openings
<1>. HIDE DEF k
<1>2. \A x \in DOMAIN f : Mul(f[x], k[x]) \in Elems
  BY <1>1, MulIs
<1>3. IsFiniteSet(DOMAIN f)
  BY <1>1, FiniteEntries, FS_Subset
<1>4. IsFamily(TestTerms(f, k), DOMAIN f, Elems)
  BY <1>2, <1>3 DEF IsFamily, TestTerms
<1>5. Tests(f, k) \in Elems
  BY <1>4, TotalIsSum DEF Tests
<1>6. \A x \in DOMAIN f : TestTerms(f, k)[x] = Mul(f[x], k[x])
  BY DEF TestTerms
<1>. QED  BY <1>1, <1>4, <1>5, <1>6 DEF k

LEMMA PlaceTests ==
  ASSUME NEW s, Proper(s), NEW i, NEW pr, OpensAll(s, i, pr), NEW f, IsCoef(f, s)
  PROVE  sparse_phi_inner_product(Place(s, f), build_folded_witness(s, i, pr)) = Tests(f, Openings(s, i, pr))
<1>. DEFINE u == build_folded_witness(s, i, pr)
            k == Openings(s, i, pr)
            phi == Place(s, f)
            S == DOMAIN phi
            T == NonZero(f)
            p == [x \in T |-> SlotOf(s, x)]
            terms == LinearTerms(phi, u)
            all == TestTerms(f, k)
            g == Part(all, T)
            size == FoldedSize(s)
<1>1. /\ IsWitness(u, size) /\ \A x \in Sources(s) : At(u, SlotOf(s, x)) = Opening(i, pr, x)
  BY FoldedHolds
<1>2. /\ IsSparse(phi, Slots(s)) /\ S = {SlotOf(s, x) : x \in T}
      /\ \A x \in T : phi[SlotOf(s, x)] = f[x]
  BY PlaceIs
<1>3. T \subseteq DOMAIN f /\ DOMAIN f \subseteq Sources(s) /\ \A x \in DOMAIN f \ T : f[x] = Zero
  BY DEF NonZero, IsCoef
<1>4. size.n \in Nat /\ size.r \in Nat /\ Slots(s) = Positions(size)
  BY Lengths DEF FoldedSize, Slots, Positions, Below
<1>5. /\ IsFamily(all, DOMAIN f, Elems) /\ Tests(f, k) = SumE(all)
      /\ \A x \in DOMAIN f : Opening(i, pr, x) \in Elems /\ all[x] = Mul(f[x], Opening(i, pr, x))
  BY CoefTestsIn DEF Tests
<1>6. Renumbers(p, T, S)
  <2>1. \A x, y \in T : SlotOf(s, x) = SlotOf(s, y) => x = y
    BY <1>3, SlotInjective
  <2>. HIDE DEF T, phi
  <2>. QED  BY <1>2, <2>1 DEF Renumbers
<1>. HIDE DEF u, phi, all, size
<1>7. IsFamily(terms, S, Elems) /\ sparse_phi_inner_product(phi, u) = SumE(terms)
  BY <1>1, <1>2, <1>4, LinearIs
<1>8. \A x \in T : g[x] = terms[p[x]]
  <2>1. ASSUME NEW x \in T PROVE g[x] = terms[p[x]]
    <3>1. p[x] = SlotOf(s, x) /\ p[x] \in S /\ g[x] = Mul(f[x], Opening(i, pr, x))
      BY <1>2, <1>3, <1>5 DEF Part
    <3>2. terms[p[x]] = Mul(phi[p[x]], At(u, p[x]))
      BY <3>1 DEF LinearTerms, At
    <3>. QED  BY <1>1, <1>2, <1>3, <3>1, <3>2
  <2>. QED  BY <2>1
<1>9. IsFiniteSet(T) /\ g \in [T -> Elems] /\ IsFiniteSet(DOMAIN f) /\ all \in [DOMAIN f -> Elems]
  <2>1. IsFiniteSet(DOMAIN f) /\ all \in [DOMAIN f -> Elems]
    BY <1>5 DEF IsFamily
  <2>. QED  BY <1>3, <2>1, PartOf
<1>10. \A x \in DOMAIN f \ T : all[x] = Zero
  <2>1. ASSUME NEW x \in DOMAIN f \ T PROVE all[x] = Zero
    <3>1. all[x] = Mul(Zero, Opening(i, pr, x)) /\ Opening(i, pr, x) \in Elems
      BY <1>3, <1>5
    <3>. QED  BY <3>1, MulRules
  <2>. QED  BY <2>1
<1>. HIDE DEF g, p, terms, T, S
<1>11. SumE(g) = SumE(terms)
  BY <1>6, <1>7, <1>8, <1>9, ElemSums, SumReindex DEF IsFamily, SumE
<1>12. SumE(all) = SumE(g)
  <2>1. T \in SUBSET DOMAIN f
    BY <1>3
  <2>. QED  BY <1>9, <1>10, <2>1, ElemSums, SumOutside DEF SumE, g
<1>. QED  BY <1>5, <1>7, <1>11, <1>12 DEF phi, u

LEMMA LinearHolds ==
  ASSUME NEW s, Proper(s), NEW i, NEW pr, OpensAll(s, i, pr), NEW f, IsCoef(f, s), NEW b \in Elems
  PROVE  eval_full(Linear(s, f, b), build_folded_witness(s, i, pr)) = Zero
           <=> Tests(f, Openings(s, i, pr)) = b
<1>. DEFINE c == Linear(s, f, b)
            u == build_folded_witness(s, i, pr)
            x == Tests(f, Openings(s, i, pr))
<1>1. x \in Elems
  BY CoefTestsIn
<1>2. Value(c, u) = Add(quadratic(c.a, compute_g(u, DOMAIN c.a)), sparse_phi_inner_product(c.phi, u))
  BY DEF Value
<1>3. c.a = << >> /\ c.phi = Place(s, f) /\ c.b = b
  BY DEF Linear
<1>4. quadratic(c.a, compute_g(u, DOMAIN c.a)) = Zero
  BY <1>3, NoQuadratic
<1>5. sparse_phi_inner_product(c.phi, u) = x
  BY <1>3, PlaceTests
<1>6. Value(c, u) = x
  BY <1>1, <1>2, <1>4, <1>5, AddRules
<1>7. eval_full(c, u) = Sub(x, b)
  BY <1>3, <1>6 DEF eval_full
<1>. QED  BY <1>1, <1>7, NegRules

\* Forms with coefficients at different sources.
LEMMA TestsJoin ==
  ASSUME NEW s, Proper(s), NEW i, NEW pr, OpensAll(s, i, pr), NEW f, IsCoef(f, s), NEW g, IsCoef(g, s),
         \A x \in DOMAIN f : x \notin DOMAIN g
  PROVE  LET k == Openings(s, i, pr)
         IN  Tests(Join(f, g), k) = Add(Tests(f, k), Tests(g, k))
<1>. DEFINE k == Openings(s, i, pr)
            h == Join(f, g)
            S == DOMAIN h
            t == DOMAIN f
            th == TestTerms(h, k)
            tf == TestTerms(f, k)
            tg == TestTerms(g, k)
<1>1. /\ IsCoef(h, s) /\ S = t \cup DOMAIN g /\ (\A x \in t : h[x] = f[x])
      /\ \A x \in DOMAIN g : h[x] = g[x]
  <2>1. /\ IsCoef(Join(f, g), s) /\ DOMAIN Join(f, g) = DOMAIN f \cup DOMAIN g
        /\ \A x \in DOMAIN f : Join(f, g)[x] = f[x]
        /\ \A x \in DOMAIN g : x \notin DOMAIN f => Join(f, g)[x] = g[x]
    BY CoefJoin
  <2>2. \A x \in DOMAIN g : x \notin DOMAIN f
    OBVIOUS
  <2>. QED  BY <2>1, <2>2
<1>. HIDE DEF h
<1>2. /\ IsFamily(th, S, Elems) /\ IsFamily(tf, t, Elems) /\ IsFamily(tg, DOMAIN g, Elems)
  BY <1>1, CoefTestsIn
<1>3. t \in SUBSET S /\ S \ t = DOMAIN g
  BY <1>1
<1>4. Part(th, t) = tf /\ Part(th, S \ t) = tg
  BY <1>1, <1>3 DEF Part, TestTerms
<1>5. Tests(h, k) = SumE(th) /\ Tests(f, k) = SumE(tf) /\ Tests(g, k) = SumE(tg)
  BY DEF Tests
<1>. HIDE DEF th, tf, tg, k, S, t
<1>6. SumE(th) = AddE[<<SumE(Part(th, t)), SumE(Part(th, S \ t))>>]
  BY <1>2, <1>3, ElemSums, SumSplit DEF IsFamily, SumE
<1>7. SumE(tf) \in Elems /\ SumE(tg) \in Elems
  BY <1>2, TotalIsSum
<1>. QED  BY <1>4, <1>5, <1>6, <1>7, ElemSums DEF h, k

-----------------------------------------------------------------------------
(* Sums that the checks need.                                              *)
LEMMA NegOfSum ==
  ASSUME NEW S, NEW f, IsFamily(f, S, Elems),
         NEW g, IsFamily(g, S, Elems), \A x \in S : g[x] = Neg(f[x])
  PROVE  Neg(SumE(f)) = SumE(g)
<1>. DEFINE m == constant(-1)
<1>1. m \in Elems
  BY ConstantIs
<1>2. \A y \in Elems : Neg(y) = Mul(m, y)
  BY NegIs
<1>. HIDE DEF m
<1>3. \A x \in S : g[x] = Mul(m, f[x])
  BY <1>2 DEF IsFamily
<1>4. Mul(m, SumE(f)) = SumE(g)
  BY <1>1, <1>3, MulOfSum
<1>5. SumE(f) \in Elems
  BY TotalIsSum
<1>. QED  BY <1>2, <1>4, <1>5

\* The sum of a family of sums.
LEMMA SumOfPairwise ==
  ASSUME NEW S, NEW f, IsFamily(f, S, Elems), NEW g, IsFamily(g, S, Elems),
         NEW h, IsFamily(h, S, Elems), \A x \in S : h[x] = Add(f[x], g[x])
  PROVE  SumE(h) = Add(SumE(f), SumE(g)) /\ SumE(f) \in Elems /\ SumE(g) \in Elems
<1>1. \A x \in S : h[x] = AddE[<<f[x], g[x]>>]
  BY ElemSums DEF IsFamily
<1>2. SumE(h) = AddE[<<SumE(f), SumE(g)>>]
  BY <1>1, ElemSums, SumOfSums DEF IsFamily, SumE
<1>3. SumE(f) \in Elems /\ SumE(g) \in Elems
  BY TotalIsSum
<1>. QED  BY <1>2, <1>3, ElemSums

LEMMA SumOfTwo ==
  ASSUME NEW a, NEW b, a # b, NEW f, IsFamily(f, {a, b}, Elems)
  PROVE  SumE(f) = Add(f[a], f[b]) /\ f[a] \in Elems /\ f[b] \in Elems
<1>. DEFINE S == {a, b}
<1>1. IsFiniteSet(S) /\ f \in [S -> Elems] /\ a \in S /\ b \in S /\ S \ {a} = {b}
  BY DEF IsFamily
<1>2. f[a] \in Elems /\ f[b] \in Elems
  BY <1>1
<1>. HIDE DEF S
<1>3. SumE(f) = AddE[<<f[a], SumE(Part(f, S \ {a}))>>]
  BY <1>1, ElemSums, SumBasics DEF SumE
<1>4. SumE(Part(f, {b})) = f[b]
  <2>1. f[b] \in Elems /\ IsMonoid(Elems, AddE, Zero)
    BY <1>2, ElemSums
  <2>2. SumOf(AddE, Zero, Part(f, {b})) = f[b]
    BY <2>1, SumOfOne
  <2>. QED  BY <2>2 DEF SumE
<1>. QED  BY <1>1, <1>2, <1>3, <1>4, ElemSums

\* Families of chunks: at ent(j, c) chunk c of x_j, with a weight times base^c.
ChunkTerms(f, ent, J, parts, a, x, b) ==
  \A j \in J, c \in 0..(parts - 1) :
    /\ a[j] \in Elems /\ x[j] \in Elems
    /\ f[ent[<<j, c>>]] = Mul(Mul(a[j], PowerOf(b, c)), decompose(x[j], b, parts)[c])
Products2(J, a, x) == [j \in J |-> Mul(a[j], x[j])]

LEMMA ChunkRow ==
  ASSUME NEW a \in Elems, NEW x \in Elems, NEW b \in Nat, b >= 1, NEW parts \in Nat, parts >= 1,
         NEW row, \A c \in 0..(parts - 1) :
                    row[c] = Mul(Mul(a, PowerOf(b, c)), decompose(x, b, parts)[c]),
         row = [c \in DOMAIN row |-> row[c]], DOMAIN row = 0..(parts - 1)
  PROVE  IsFamily(row, 0..(parts - 1), Elems) /\ SumE(row) = Mul(a, x)
<1>. DEFINE T == 0..(parts - 1)
            chunks == decompose(x, b, parts)
            g == [c \in T |-> Mul(constant(Pow(b, c)), chunks[c])]
<1>1. IsFamily(chunks, T, Elems)
  BY DecomposeIn
<1>2. \A c \in T : PowerOf(b, c) \in Elems /\ PowerOf(b, c) = constant(Pow(b, c)) /\ chunks[c] \in Elems
  BY <1>1, PowersIn DEF IsFamily
<1>. HIDE DEF chunks
<1>3. \A c \in T : g[c] = Mul(PowerOf(b, c), chunks[c]) /\ g[c] \in Elems
  BY <1>2, MulIs
<1>4. IsFamily(g, T, Elems)
  BY <1>1, <1>3 DEF IsFamily
<1>5. Weighted(g, chunks, b, T)
  BY <1>4 DEF Weighted
<1>6. SumE(g) = x
  BY <1>5, DecomposeSums DEF chunks
<1>7. ASSUME NEW c \in T PROVE row[c] = Mul(a, g[c])
  <2>1. row[c] = Mul(Mul(a, PowerOf(b, c)), chunks[c])
    BY DEF chunks
  <2>. HIDE DEF g
  <2>2. PowerOf(b, c) \in Elems /\ chunks[c] \in Elems /\ g[c] = Mul(PowerOf(b, c), chunks[c])
    BY <1>2, <1>3
  <2>. DEFINE y == PowerOf(b, c)
              v == chunks[c]
  <2>4. y \in Elems /\ v \in Elems /\ a \in Elems
    BY <2>2
  <2>. HIDE DEF y, v
  <2>3. Mul(Mul(a, y), v) = Mul(a, Mul(y, v))
    BY <2>4, MulRules
  <2>. QED  BY <2>1, <2>2, <2>3 DEF y, v
<1>8. \A c \in T : row[c] \in Elems
  BY <1>3, <1>7, MulIs
<1>9. IsFamily(row, T, Elems)
  BY <1>1, <1>8 DEF IsFamily
<1>. HIDE DEF g, T
<1>10. Mul(a, SumE(g)) = SumE(row)
  BY <1>4, <1>7, <1>9, MulOfSum
<1>. QED  BY <1>6, <1>9, <1>10 DEF T

LEMMA ChunkSums ==
  ASSUME NEW J, IsFiniteSet(J), NEW b \in Nat, b >= 1, NEW parts \in Nat, parts >= 1,
         NEW S, NEW ent, Renumbers(ent, J \X (0..(parts - 1)), S), NEW f, IsFamily(f, S, Elems),
         NEW a, NEW x, ChunkTerms(f, ent, J, parts, a, x, b)
  PROVE  /\ IsFamily(Products2(J, a, x), J, Elems)
         /\ SumE(f) = SumE(Products2(J, a, x))
<1>. DEFINE T == 0..(parts - 1)
            P == J \X T
            g == [y \in P |-> f[ent[y]]]
            row == [j \in J |-> [c \in T |-> g[<<j, c>>]]]
            sums == Products2(J, a, x)
<1>1. IsFiniteSet(T) /\ 0 \in T
  BY FS_Interval
<1>2. IsFiniteSet(P)
  BY <1>1, FS_Product
<1>3. IsFamily(g, P, Elems)
  BY <1>2 DEF IsFamily, Renumbers
<1>4. ASSUME NEW j \in J
      PROVE  /\ IsFamily(row[j], T, Elems) /\ SumE(row[j]) = sums[j] /\ sums[j] \in Elems
  <2>. DEFINE r == row[j]
  <2>1. a[j] \in Elems /\ x[j] \in Elems /\ DOMAIN r = T /\ r = [c \in DOMAIN r |-> r[c]]
    BY <1>1 DEF ChunkTerms
  <2>2. \A c \in T : r[c] = Mul(Mul(a[j], PowerOf(b, c)), decompose(x[j], b, parts)[c])
    BY DEF ChunkTerms
  <2>. HIDE DEF r
  <2>. DEFINE aj == a[j]
              xj == x[j]
  <2>3. /\ aj \in Elems /\ xj \in Elems /\ DOMAIN r = 0..(parts - 1)
        /\ r = [c \in DOMAIN r |-> r[c]]
        /\ \A c \in 0..(parts - 1) : r[c] = Mul(Mul(aj, PowerOf(b, c)), decompose(xj, b, parts)[c])
        /\ b \in Nat /\ b >= 1 /\ parts \in Nat /\ parts >= 1
    BY <2>1, <2>2
  <2>. HIDE DEF aj, xj
  <2>4. IsFamily(r, 0..(parts - 1), Elems) /\ SumE(r) = Mul(aj, xj)
    BY ONLY <2>3, ChunkRow, SMTT(40)
  <2>5. Mul(aj, xj) \in Elems
    BY <2>3, MulIs
  <2>. QED  BY <2>4, <2>5 DEF r, aj, xj, Products2
<1>5. IsFamily(sums, J, Elems)
  BY <1>4 DEF IsFamily, Products2
<1>6. Rows2(row, g, J, T, Elems)
  BY <1>4 DEF Rows2
<1>7. AreSums(sums, row, J, AddE, Zero)
  BY <1>4 DEF AreSums, SumE
<1>8. IsFiniteSet(S) /\ f \in [S -> Elems] /\ g \in [P -> Elems] /\ \A y \in P : g[y] = f[ent[y]]
  BY <1>3 DEF IsFamily
<1>. HIDE DEF g, row, sums, T
<1>9. SumE(g) = SumE(sums)
  BY <1>1, <1>3, <1>5, <1>6, <1>7, ElemSums, SumOfPairs DEF SumE
<1>10. SumE(g) = SumE(f)
  <2>1. Renumbers(ent, P, S)
    BY DEF T
  <2>. HIDE DEF P
  <2>. QED  BY <1>2, <1>8, <2>1, ElemSums, SumReindex DEF SumE
<1>. QED  BY <1>5, <1>9, <1>10 DEF sums

-----------------------------------------------------------------------------
(* z from its two halves.                                                   *)
LEMMA FinitePair ==
  ASSUME NEW a, NEW b
  PROVE  IsFiniteSet({a, b})
<1>1. IsFiniteSet({a}) /\ IsFiniteSet({b}) /\ {a, b} = {a} \cup {b}
  BY FS_Singleton
<1>. QED  BY <1>1, FS_Union

LEMMA FiniteBelow ==
  ASSUME NEW n \in Nat
  PROVE  IsFiniteSet(Below(n))
<1>1. 0 \in Int /\ n - 1 \in Int
  OBVIOUS
<1>. QED  BY <1>1, FS_Interval DEF Below

Whole(b, x, y) == Add(x, Mul(constant(b), y))

LEMMA RecomposeTwo ==
  ASSUME NEW b \in Nat, NEW x \in Elems, NEW y \in Elems
  PROVE  /\ recompose([c \in {0, 1} |-> IF c = 0 THEN x ELSE y], b) = Whole(b, x, y)
         /\ Whole(b, x, y) \in Elems
<1>. DEFINE S == {0, 1}
            chunks == [c \in S |-> IF c = 0 THEN x ELSE y]
            g == [c \in S |-> Mul(constant(Pow(b, c)), chunks[c])]
<1>1. Pow(b, 0) = 1 /\ Pow(b, 1) = b
  <2>1. Pow(b, 0) = 1 /\ Pow(b, 0 + 1) = Pow(b, 0) * b
    BY PowerRules
  <2>. QED  BY <2>1
<1>2. \A c \in S : Pow(b, c) \in Int
  BY PowersIn
<1>3. IsFiniteSet(S)
  BY FinitePair
<1>4. IsFamily(chunks, S, Elems)
  BY <1>3 DEF IsFamily
<1>5. \A c \in S : constant(Pow(b, c)) \in Elems /\ chunks[c] \in Elems
  BY <1>2, ConstantIs
<1>6. \A c \in S : g[c] \in Elems
  <2>1. \A c \in S : Mul(constant(Pow(b, c)), chunks[c]) \in Elems
    <3>. HIDE DEF chunks
    <3>. QED  BY <1>5, MulIs
  <2>. QED  BY <2>1
<1>7. IsFamily(g, S, Elems)
  BY <1>3, <1>6 DEF IsFamily
<1>8. Weighted(g, chunks, b, S)
  BY <1>7 DEF Weighted
<1>9. g[0] = x /\ g[1] = Mul(constant(b), y)
  <2>1. g[0] = Mul(constant(1), x) /\ g[1] = Mul(constant(b), y)
    BY <1>1
  <2>. HIDE DEF g
  <2>2. Mul(constant(1), x) = x
    BY ConstantRules
  <2>. QED  BY <2>1, <2>2
<1>. HIDE DEF g, chunks
<1>10. SumE(g) = Add(g[0], g[1])
  <2>. DEFINE a == 0
              d == 1
  <2>1. a # d /\ IsFamily(g, {a, d}, Elems)
    BY <1>7
  <2>. HIDE DEF a, d
  <2>2. SumE(g) = Add(g[a], g[d])
    BY <2>1, SumOfTwo
  <2>. QED  BY <2>2 DEF a, d
<1>11. recompose(chunks, b) = SumE(g) /\ SumE(g) \in Elems
  <2>. HIDE DEF S
  <2>. QED  BY <1>2, <1>4, <1>8, RecomposeIs
<1>. QED  BY <1>9, <1>10, <1>11 DEF Whole, chunks

WholeZ(i, pr) == [p \in DOMAIN pr.z0 |-> Whole(i.b, pr.z0[p], pr.z1[p])]
ZTerms(f, x) == [p \in DOMAIN f |-> Mul(f[p], x[p])]

\* Coefficients put on the two halves meet z.
LEMMA OnZTests ==
  ASSUME NEW s, Proper(s), NEW i \in Parameters, NEW pr, OpensAll(s, i, pr),
         pr.z0 \in [Below(s.n) -> Elems], pr.z1 \in [Below(s.n) -> Elems], NEW f, IsOnZ(f, s)
  PROVE  LET k == Openings(s, i, pr)
             x == WholeZ(i, pr)
         IN  /\ x \in [Below(s.n) -> Elems]
             /\ IsFamily(ZTerms(f, x), DOMAIN f, Elems)
             /\ Tests(OnZ(s, i, f), k) = SumE(ZTerms(f, x))
<1>. DEFINE k == Openings(s, i, pr)
            x == WholeZ(i, pr)
            o == OnZ(s, i, f)
            S == ZEntries(f)
            J == DOMAIN f
            F == TestTerms(o, k)
            g == [y \in S |-> y[3]]
            sums == ZTerms(f, x)
            cb == constant(i.b)
<1>1. i.b \in Nat
  BY ParametersAre
<1>2. ASSUME NEW p \in Below(s.n)
      PROVE  x[p] = Add(pr.z0[p], Mul(cb, pr.z1[p])) /\ x[p] \in Elems
             /\ pr.z0[p] \in Elems /\ pr.z1[p] \in Elems
  <2>1. pr.z0[p] \in Elems /\ pr.z1[p] \in Elems /\ x[p] = Whole(i.b, pr.z0[p], pr.z1[p])
    BY DEF WholeZ
  <2>2. Whole(i.b, pr.z0[p], pr.z1[p]) \in Elems
    BY <1>1, <2>1, RecomposeTwo
  <2>. QED  BY <2>1, <2>2 DEF Whole
<1>3. x \in [Below(s.n) -> Elems]
  <2>1. \A p \in Below(s.n) : Whole(i.b, pr.z0[p], pr.z1[p]) \in Elems
    BY <1>2 DEF WholeZ
  <2>. QED  BY <2>1 DEF WholeZ
<1>4. /\ IsCoef(o, s) /\ cb \in Elems /\ DOMAIN o = S
      /\ \A p \in J : o[ZEntry(0, p)] = f[p] /\ o[ZEntry(1, p)] = Mul(f[p], cb)
  BY OnZIs
<1>5. J \subseteq Below(s.n) /\ \A p \in J : f[p] \in Elems
  BY DEF IsOnZ
<1>6. \A y \in S : \E p \in J : y = ZEntry(0, p) \/ y = ZEntry(1, p)
  BY DEF ZEntries
<1>7. \A p \in J : /\ ZEntry(0, p) \in S /\ ZEntry(1, p) \in S
                   /\ ZEntry(0, p)[3] = p /\ ZEntry(1, p)[3] = p /\ ZEntry(0, p)[2] = 0 /\ ZEntry(1, p)[2] = 1
  BY DEF ZEntries, ZEntry
<1>. HIDE DEF x, o, k, S
<1>8. IsFamily(F, S, Elems) /\ \A y \in S : F[y] = Mul(o[y], Opening(i, pr, y))
  BY <1>4, CoefTestsIn DEF k
<1>9. IsFiniteSet(S) /\ IsFiniteSet(J)
  <2>1. IsFiniteSet(S)
    BY <1>8 DEF IsFamily
  <2>2. IsFiniteSet(Below(s.n))
    <3>1. s.n \in Nat
      BY DEF Proper, Shape
    <3>. QED  BY <3>1, FiniteBelow
  <2>. QED  BY <1>5, <2>1, <2>2, FS_Subset
<1>10. IsFamily(g, S, J)
  BY <1>6, <1>7, <1>9 DEF IsFamily
<1>11. ASSUME NEW p \in J
       PROVE  /\ F[ZEntry(0, p)] = Mul(f[p], pr.z0[p])
              /\ F[ZEntry(1, p)] = Mul(Mul(f[p], cb), pr.z1[p])
  <2>1. Opening(i, pr, ZEntry(0, p)) = pr.z0[p] /\ Opening(i, pr, ZEntry(1, p)) = pr.z1[p]
    BY <1>5, ZOpening
  <2>. HIDE DEF F
  <2>. QED  BY <1>4, <1>7, <1>8, <2>1
<1>12. ASSUME NEW p \in J
       PROVE  sums[p] \in Elems /\ SumsTo(Elems, AddE, Zero, F, Fiber(g, p), sums[p])
  <2>. DEFINE T == {0, 1}
              e == [half \in T |-> ZEntry(half, p)]
              row == [half \in T |-> F[e[half]]]
              u == Fiber(g, p)
  <2>1. Renumbers(e, T, u)
    <3>1. u = {ZEntry(0, p), ZEntry(1, p)}
      <4>1. \A y \in u : y \in S /\ y[3] = p
        BY DEF Fiber
      <4>2. \A y \in u : y = ZEntry(0, p) \/ y = ZEntry(1, p)
        BY <1>6, <1>7, <4>1
      <4>3. ZEntry(0, p) \in u /\ ZEntry(1, p) \in u
        BY <1>7 DEF Fiber
      <4>. HIDE DEF u
      <4>. QED  BY <4>2, <4>3
    <3>2. e[0] = ZEntry(0, p) /\ e[1] = ZEntry(1, p) /\ ZEntry(0, p) # ZEntry(1, p)
      BY <1>7
    <3>3. DOMAIN e = T /\ e = [a \in DOMAIN e |-> e[a]]
      OBVIOUS
    <3>. HIDE DEF e, u
    <3>. QED  BY <3>1, <3>2, <3>3 DEF Renumbers
  <2>2. row[0] = Mul(f[p], pr.z0[p]) /\ row[1] = Mul(Mul(f[p], cb), pr.z1[p])
    BY <1>11
  <2>3. f[p] \in Elems /\ pr.z0[p] \in Elems /\ pr.z1[p] \in Elems /\ cb \in Elems
        /\ x[p] = Add(pr.z0[p], Mul(cb, pr.z1[p]))
    BY <1>2, <1>4, <1>5
  <2>. DEFINE a == f[p]
              c == pr.z0[p]
              d == pr.z1[p]
  <2>4. a \in Elems /\ c \in Elems /\ d \in Elems /\ cb \in Elems
    BY <2>3
  <2>5. sums[p] = Mul(a, x[p])
    BY DEF ZTerms
  <2>. HIDE DEF a, c, d, cb
  <2>6. Mul(a, Add(c, Mul(cb, d))) = Add(Mul(a, c), Mul(a, Mul(cb, d))) /\ Mul(Mul(a, cb), d) = Mul(a, Mul(cb, d))
        /\ Mul(a, c) \in Elems /\ Mul(Mul(a, cb), d) \in Elems
    BY <2>4, MulRules
  <2>7. sums[p] = Add(row[0], row[1]) /\ row[0] \in Elems /\ row[1] \in Elems
    <3>. HIDE DEF row, sums
    <3>. QED  BY <2>2, <2>3, <2>5, <2>6 DEF a, c, d
  <2>8. IsFiniteSet(T)
    BY FinitePair
  <2>9. IsFamily(row, T, Elems) /\ \A half \in T : row[half] = F[e[half]]
    <3>1. DOMAIN row = T /\ (row = [half \in DOMAIN row |-> row[half]]) /\ \A half \in T : half = 0 \/ half = 1
      OBVIOUS
    <3>2. \A half \in T : row[half] = F[e[half]]
      OBVIOUS
    <3>. HIDE DEF row
    <3>. QED  BY <2>7, <2>8, <3>1, <3>2 DEF IsFamily
  <2>10. SumE(row) = Add(row[0], row[1]) /\ SumE(row) \in Elems
    <3>. DEFINE one == 0
                other == 1
    <3>1. one # other /\ IsFamily(row, {one, other}, Elems)
      BY <2>9
    <3>. HIDE DEF one, other, row
    <3>2. SumE(row) = Add(row[one], row[other])
      BY <3>1, SumOfTwo
    <3>. QED  BY <2>9, <3>2, TotalIsSum DEF one, other
  <2>. HIDE DEF row, sums, e, u, F, T, g
  <2>11. SumsTo(Elems, AddE, Zero, F, u, SumE(row))
    BY <2>1, <2>9, SumsToBy DEF SumE
  <2>. QED  BY <2>7, <2>10, <2>11 DEF u
<1>13. IsFamily(sums, J, Elems)
  BY <1>9, <1>12 DEF IsFamily, ZTerms
<1>. HIDE DEF F, g, sums, J
<1>14. SumE(F) = SumE(sums)
  BY <1>8, <1>9, <1>10, <1>12, <1>13, ElemSums, SumOfFibers DEF SumE
<1>. QED  BY <1>3, <1>13, <1>14 DEF Tests, F, sums, x, k, o, J

-----------------------------------------------------------------------------
(* What the builders are given, and check 3.                                *)
Given(st, i, pr, rep) ==
  /\ IsStatement(st) /\ i \in Parameters /\ IsRep(rep, st)
  /\ OpensAll(ShapeOf(st, i), i, pr)
  /\ pr.v \in [Below(st.r) -> [Below(i.kappa) -> Elems]]
  /\ pr.g \in [Pairs(st.r) -> Elems] /\ pr.h \in [Pairs(st.r) -> Elems]
  /\ pr.z0 \in [Below(st.n) -> Elems] /\ pr.z1 \in [Below(st.n) -> Elems]

LEMMA GivenIs ==
  ASSUME NEW st, NEW i, NEW pr, NEW rep, Given(st, i, pr, rep)
  PROVE  LET s == ShapeOf(st, i)
         IN  /\ IsStatement(st) /\ i \in Parameters /\ IsRep(rep, st) /\ Proper(s) /\ OpensAll(s, i, pr)
             /\ s.n = st.n /\ s.r = st.r /\ s.t1 = i.t1 /\ s.t2 = i.t2 /\ s.kappa = i.kappa /\ s.nu = i.nu
             /\ pr.v \in [Below(s.r) -> [Below(s.kappa) -> Elems]]
             /\ pr.g \in [Pairs(s.r) -> Elems] /\ pr.h \in [Pairs(s.r) -> Elems]
             /\ pr.z0 \in [Below(s.n) -> Elems] /\ pr.z1 \in [Below(s.n) -> Elems]
             /\ rep.cs \in [Below(s.r) -> Elems] /\ rep.b_agg \in Elems
<1>. DEFINE s == ShapeOf(st, i)
<1>1. IsStatement(st) /\ i \in Parameters /\ IsRep(rep, st) /\ OpensAll(s, i, pr)
  BY DEF Given
<1>2. /\ Proper(s) /\ s.n = st.n /\ s.r = st.r /\ s.t1 = i.t1 /\ s.t2 = i.t2 /\ s.kappa = i.kappa
      /\ s.nu = i.nu
  BY <1>1, ShapeIs
<1>. HIDE DEF s
<1>. QED  BY <1>1, <1>2 DEF Given, IsRep, s

\* A sum of chunks, each numbered by an entry.
VSum(rep, pr, k, n) == SumE([a \in Below(n) |-> Mul(rep.cs[a], pr.v[a][k])])

LEMMA VTests ==
  ASSUME NEW st, NEW i, NEW pr, NEW rep, Given(st, i, pr, rep), NEW k \in Below(i.kappa)
  PROVE  LET s == ShapeOf(st, i)
         IN  /\ Tests(VCoef(s, i, rep, k), Openings(s, i, pr)) = Neg(VSum(rep, pr, k, st.r))
             /\ VSum(rep, pr, k, st.r) \in Elems
             /\ Total([a \in Below(st.r) |-> Mul(rep.cs[a], pr.v[a][k])]) = VSum(rep, pr, k, st.r)
<1>. DEFINE s == ShapeOf(st, i)
            f == VCoef(s, i, rep, k)
            K == Openings(s, i, pr)
            F == TestTerms(f, K)
            J == Below(s.r)
            T == 0..(i.t1 - 1)
            S == {x \in VEntries(s) : x[4] = k}
            ent == [y \in J \X T |-> <<"V", y[1], y[2], k>>]
            a == [j \in J |-> Neg(rep.cs[j])]
            x == [j \in J |-> pr.v[j][k]]
            plain == [j \in J |-> Mul(rep.cs[j], pr.v[j][k])]
<1>1. /\ IsStatement(st) /\ i \in Parameters /\ IsRep(rep, st) /\ Proper(s) /\ OpensAll(s, i, pr)
      /\ s.n = st.n /\ s.r = st.r /\ s.t1 = i.t1 /\ s.kappa = i.kappa
      /\ pr.v \in [Below(s.r) -> [Below(s.kappa) -> Elems]]
      /\ rep.cs \in [Below(s.r) -> Elems]
  BY GivenIs
<1>2. IsFiniteSet(J) /\ i.b1 \in Nat /\ i.b1 >= 1 /\ i.t1 \in Nat /\ i.t1 >= 1
  <2>1. s.r \in Nat
    BY <1>1 DEF Proper, Shape
  <2>. QED  BY <1>1, <2>1, FiniteBelow, ParametersAre
<1>. HIDE DEF s
<1>3. IsCoef(f, s)
  BY <1>1, VCoefIn
<1>4. DOMAIN f = S /\ \A e \in S : f[e] = Neg(Mul(rep.cs[e[2]], PowerOf(i.b1, e[3])))
  BY DEF VCoef
<1>5. IsFamily(F, S, Elems) /\ \A e \in S : F[e] = Mul(f[e], Opening(i, pr, e))
  <2>. HIDE DEF f
  <2>. QED  BY <1>1, <1>3, <1>4, CoefTestsIn
<1>6. ASSUME NEW j \in J, NEW c \in T
      PROVE  /\ ent[<<j, c>>] = <<"V", j, c, k>> /\ ent[<<j, c>>] \in S
  <2>1. <<"V", j, c, k>> \in VEntries(s)
    BY <1>1 DEF VEntries, Below
  <2>. QED  BY <2>1
<1>7. Renumbers(ent, J \X T, S)
  <2>1. ent \in [J \X T -> S]
    BY <1>6
  <2>2. \A y, u \in J \X T : ent[y] = ent[u] => y = u
    OBVIOUS
  <2>3. ASSUME NEW e \in S PROVE \E y \in J \X T : ent[y] = e
    <3>1. e = <<"V", e[2], e[3], k>> /\ <<e[2], e[3]>> \in J \X T
      BY <1>1 DEF VEntries, Below
    <3>2. ent[<<e[2], e[3]>>] = e
      BY <3>1
    <3>. QED  BY <3>1, <3>2
  <2>. QED  BY <2>1, <2>2, <2>3 DEF Renumbers
<1>8. ASSUME NEW j \in J, NEW c \in T
      PROVE  /\ a[j] \in Elems /\ x[j] \in Elems
             /\ F[ent[<<j, c>>]] = Mul(Mul(a[j], PowerOf(i.b1, c)), decompose(x[j], i.b1, i.t1)[c])
  <2>. DEFINE e == <<"V", j, c, k>>
              p == PowerOf(i.b1, c)
              cj == rep.cs[j]
  <2>1. e = ent[<<j, c>>] /\ e \in S /\ e[2] = j /\ e[3] = c /\ e[4] = k /\ e \in VEntries(s)
    BY <1>6
  <2>2. cj \in Elems /\ x[j] \in Elems /\ k \in Below(s.kappa)
    BY <1>1
  <2>3. p \in Elems
    <3>1. c \in Nat
      OBVIOUS
    <3>. QED  BY <1>2, <3>1, PowersIn
  <2>. HIDE DEF e, p, cj, F, f, S
  <2>4. Opening(i, pr, e) = decompose(x[j], i.b1, i.t1)[c]
    BY <1>1, <2>1, VOpening
  <2>5. F[e] = Mul(Neg(Mul(cj, p)), Opening(i, pr, e))
    BY <1>4, <1>5, <2>1 DEF p, cj
  <2>6. Neg(Mul(cj, p)) = Mul(Neg(cj), p) /\ Neg(cj) \in Elems
    BY <2>2, <2>3, NegRules
  <2>7. a[j] = Neg(cj)
    BY DEF cj
  <2>. QED  BY <2>1, <2>2, <2>4, <2>5, <2>6, <2>7 DEF p
<1>9. ChunkTerms(F, ent, J, i.t1, a, x, i.b1)
  <2>. HIDE DEF F, ent, J, a, x
  <2>. QED  BY <1>8 DEF ChunkTerms
<1>10. IsFamily(Products2(J, a, x), J, Elems) /\ SumE(F) = SumE(Products2(J, a, x))
  <2>. HIDE DEF F, ent, J, a, x, S
  <2>. QED  BY <1>2, <1>5, <1>7, <1>9, ChunkSums
<1>11. \A j \in J : plain[j] \in Elems /\ Products2(J, a, x)[j] = Neg(plain[j])
  <2>1. ASSUME NEW j \in J PROVE plain[j] \in Elems /\ Products2(J, a, x)[j] = Neg(plain[j])
    <3>. DEFINE cj == rep.cs[j]
                vj == pr.v[j][k]
    <3>1. cj \in Elems /\ vj \in Elems
      BY <1>1
    <3>2. Products2(J, a, x)[j] = Mul(Neg(cj), vj) /\ plain[j] = Mul(cj, vj)
      BY DEF Products2
    <3>. HIDE DEF cj, vj, plain
    <3>. QED  BY <3>1, <3>2, NegRules, MulIs
  <2>. QED  BY <2>1
<1>12. IsFamily(plain, J, Elems)
  BY <1>2, <1>11 DEF IsFamily
<1>13. VSum(rep, pr, k, st.r) = SumE(plain)
  BY <1>1 DEF VSum
<1>14. Total([b \in Below(st.r) |-> Mul(rep.cs[b], pr.v[b][k])]) = Total(plain)
  BY <1>1
<1>15. Total(plain) = SumE(plain) /\ SumE(plain) \in Elems
  <2>. HIDE DEF plain, J
  <2>. QED  BY <1>12, TotalIsSum
<1>16. Neg(SumE(plain)) = SumE(Products2(J, a, x))
  <2>. HIDE DEF plain, J, a, x
  <2>. QED  BY <1>10, <1>11, <1>12, NegOfSum
<1>17. Tests(f, K) = SumE(F)
  BY DEF Tests
<1>. QED  BY <1>10, <1>13, <1>14, <1>15, <1>16, <1>17 DEF s

LEMMA AddNegZero ==
  ASSUME NEW x \in Elems, NEW y \in Elems
  PROVE  Add(x, Neg(y)) = Zero <=> x = y
<1>1. Sub(x, y) = Add(x, Neg(y))
  BY SubIs
<1>. QED  BY <1>1, NegRules

\* Row k of A z is the sum of c_i v_i[k] if and only if the constraint holds.
LEMMA Check3Holds ==
  ASSUME DrawsAreResidues, NEW st, NEW i, NEW pr, NEW rep, Given(st, i, pr, rep), NEW k \in Below(i.kappa)
  PROVE  LET s == ShapeOf(st, i)
             u == build_folded_witness(s, i, pr)
             rows == [p \in Below(st.n) |-> A(rep.seeds, k, p)]
         IN  eval_full(build_check3_row(s, i, rep, k), u) = Zero
               <=> SumE(ZTerms(rows, WholeZ(i, pr))) = VSum(rep, pr, k, st.r)
<1>. DEFINE s == ShapeOf(st, i)
            u == build_folded_witness(s, i, pr)
            rows == [p \in Below(s.n) |-> A(rep.seeds, k, p)]
            o == OnZ(s, i, rows)
            v == VCoef(s, i, rep, k)
            K == Openings(s, i, pr)
            zs == ZTerms(rows, WholeZ(i, pr))
            vs == VSum(rep, pr, k, st.r)
<1>1. /\ IsStatement(st) /\ i \in Parameters /\ IsRep(rep, st) /\ Proper(s) /\ OpensAll(s, i, pr)
      /\ s.n = st.n
      /\ pr.z0 \in [Below(s.n) -> Elems] /\ pr.z1 \in [Below(s.n) -> Elems]
  BY GivenIs
<1>2. /\ IsCoef(o, s) /\ IsCoef(v, s) /\ IsCoef(Coef3(s, i, rep, k), s)
      /\ build_check3_row(s, i, rep, k) = Linear(s, Coef3(s, i, rep, k), Zero)
  BY <1>1, Coef3In
<1>3. Coef3(s, i, rep, k) = Join(o, v)
  BY DEF Coef3
<1>4. Tests(v, K) = Neg(vs) /\ vs \in Elems
  BY VTests, ZenonT(40)
<1>. HIDE DEF s
<1>5. IsOnZ(rows, s)
  BY MatrixIn, SMTT(30) DEF IsOnZ
<1>6. IsFamily(zs, DOMAIN rows, Elems) /\ Tests(o, K) = SumE(zs)
  <2>. HIDE DEF rows
  <2>. QED  BY <1>1, <1>5, OnZTests
<1>7. \A x \in DOMAIN o : x \notin DOMAIN v
  <2>1. \A x \in DOMAIN o : x[1] = "z"
    BY DEF OnZ, ZEntry
  <2>2. \A x \in DOMAIN v : x[1] = "V"
    BY DEF VCoef, VEntries
  <2>. QED  BY <2>1, <2>2
<1>8. Tests(Join(o, v), K) = Add(Tests(o, K), Tests(v, K))
  <2>. HIDE DEF o, v
  <2>. QED  BY <1>1, <1>2, <1>7, TestsJoin
<1>9. SumE(zs) \in Elems
  <2>. HIDE DEF rows, zs
  <2>. QED  BY <1>6, TotalIsSum
<1>. DEFINE c == Coef3(s, i, rep, k)
<1>10. eval_full(Linear(s, c, Zero), u) = Zero <=> Tests(c, K) = Zero
  <2>. HIDE DEF c
  <2>1. Zero \in Elems
    BY ElemFacts
  <2>. QED  BY <1>1, <1>2, <2>1, LinearHolds DEF c
<1>11. Tests(c, K) = Add(SumE(zs), Neg(vs))
  BY <1>3, <1>4, <1>6, <1>8
<1>12. Add(SumE(zs), Neg(vs)) = Zero <=> SumE(zs) = vs
  <2>. DEFINE x1 == SumE(zs)
  <2>1. x1 \in Elems /\ vs \in Elems
    BY <1>4, <1>9
  <2>. HIDE DEF x1, vs
  <2>2. Add(x1, Neg(vs)) = Zero <=> x1 = vs
    BY <2>1, AddNegZero
  <2>. QED  BY <2>2 DEF x1
<1>. QED  BY <1>1, <1>2, <1>10, <1>11, <1>12 DEF s

-----------------------------------------------------------------------------
(* Chunks of g and of h, at some of the pairs.                              *)
PairEntry(tag, J, T) == [y \in J \X T |-> <<tag, y[1][1], y[1][2], y[2]>>]
Triangle(tag, n, T) == {e \in {tag} \X Below(n) \X Below(n) \X T : e[2] <= e[3]}
AtPairs(entries, J) == {x \in entries : <<x[2], x[3]>> \in J}

Numbered(tag, J, T, entries) ==
  /\ Renumbers(PairEntry(tag, J, T), J \X T, AtPairs(entries, J))
  /\ \A p \in J, c \in T :
       LET e == <<tag, p[1], p[2], c>>
       IN  /\ PairEntry(tag, J, T)[<<p, c>>] = e /\ e \in AtPairs(entries, J) /\ e \in entries
           /\ <<e[2], e[3]>> = p /\ e[4] = c

LEMMA PairsNumbered ==
  ASSUME NEW tag, NEW n, NEW J \in SUBSET Pairs(n), NEW T, NEW entries, entries = Triangle(tag, n, T)
  PROVE  Numbered(tag, J, T, entries)
<1>. DEFINE ent == PairEntry(tag, J, T)
            S == AtPairs(entries, J)
<1>1. ASSUME NEW p \in J, NEW c \in T
      PROVE  LET e == <<tag, p[1], p[2], c>>
             IN  ent[<<p, c>>] = e /\ e \in S /\ e \in entries /\ <<e[2], e[3]>> = p /\ e[4] = c
  <2>1. p[1] \in Below(n) /\ p[2] \in Below(n) /\ p[1] <= p[2] /\ p = <<p[1], p[2]>>
    BY DEF Pairs, Below
  <2>2. <<tag, p[1], p[2], c>> \in entries
    BY <2>1 DEF Triangle
  <2>. QED  BY <2>1, <2>2 DEF AtPairs, PairEntry
<1>2. DOMAIN ent = J \X T /\ ent = [y \in DOMAIN ent |-> ent[y]]
  BY DEF PairEntry
<1>3. ASSUME NEW y \in J \X T PROVE /\ ent[y] \in S /\ y = <<<<ent[y][2], ent[y][3]>>, ent[y][4]>>
  <2>1. y[1] \in J /\ y[2] \in T /\ y = <<y[1], y[2]>>
    OBVIOUS
  <2>2. ent[y] = <<tag, y[1][1], y[1][2], y[2]>>
    BY DEF PairEntry
  <2>. DEFINE p == y[1]
              c == y[2]
              e == <<tag, p[1], p[2], c>>
  <2>4. ent[<<p, c>>] = e /\ e \in S /\ <<e[2], e[3]>> = p /\ e[4] = c
    BY <1>1, <2>1
  <2>3. ent[y] \in S /\ <<ent[y][2], ent[y][3]>> = y[1] /\ ent[y][4] = y[2]
    <3>. HIDE DEF ent, S
    <3>. QED  BY <2>1, <2>4
  <2>. QED  BY <2>1, <2>3
<1>4. ASSUME NEW e \in S PROVE \E y \in J \X T : ent[y] = e
  <2>1. e = <<tag, e[2], e[3], e[4]>> /\ e[4] \in T /\ <<e[2], e[3]>> \in J
    BY DEF AtPairs, Triangle
  <2>2. ent[<<<<e[2], e[3]>>, e[4]>>] = e
    BY <2>1 DEF PairEntry
  <2>. QED  BY <2>1, <2>2
<1>5. Renumbers(ent, J \X T, S)
  <2>1. ent \in [J \X T -> S]
    BY <1>2, <1>3
  <2>2. \A y, u \in J \X T : ent[y] = ent[u] => y = u
    <3>. HIDE DEF ent
    <3>. QED  BY <1>3
  <2>. QED  BY <1>4, <2>1, <2>2 DEF Renumbers
<1>. QED  BY <1>1, <1>5 DEF Numbered

\* A form on the chunks of g at some pairs is the form on g.
PairWeights(a, J) == \A p \in J : a[p] \in Elems
OnChunks(f, entries, J, a, b) ==
  DOMAIN f = AtPairs(entries, J)
  /\ \A e \in AtPairs(entries, J) : f[e] = Mul(a[<<e[2], e[3]>>], PowerOf(b, e[4]))

LEMMA GChunks ==
  ASSUME NEW s, Proper(s), NEW i \in Parameters, s.t2 = i.t2, NEW pr, OpensAll(s, i, pr),
         pr.g \in [Pairs(s.r) -> Elems], NEW J \in SUBSET Pairs(s.r), NEW a, PairWeights(a, J),
         NEW f, IsCoef(f, s), OnChunks(f, GEntries(s), J, a, i.b2)
  PROVE  /\ IsFamily(Products2(J, a, pr.g), J, Elems)
         /\ Tests(f, Openings(s, i, pr)) = SumE(Products2(J, a, pr.g))
<1>. DEFINE K == Openings(s, i, pr)
            F == TestTerms(f, K)
            T == 0..(i.t2 - 1)
            S == AtPairs(GEntries(s), J)
            ent == PairEntry("G", J, T)
            g == pr.g
<1>1. /\ i.b2 \in Nat /\ i.b2 >= 1 /\ i.t2 \in Nat /\ i.t2 >= 1 /\ s.r \in Nat
  BY ParametersAre DEF Proper, Shape
<1>2. IsFiniteSet(J)
  <2>1. IsFiniteSet(Below(s.r) \X Below(s.r))
    BY <1>1, FiniteBelow, FS_Product
  <2>2. J \subseteq Below(s.r) \X Below(s.r)
    BY DEF Pairs, Below
  <2>. QED  BY <2>1, <2>2, FS_Subset
<1>3. GEntries(s) = Triangle("G", s.r, T)
  BY DEF GEntries, Below, Triangle
<1>4. /\ Renumbers(ent, J \X T, S)
      /\ \A p \in J, c \in T :
           LET e == <<"G", p[1], p[2], c>>
           IN  ent[<<p, c>>] = e /\ e \in S /\ e \in GEntries(s) /\ <<e[2], e[3]>> = p /\ e[4] = c
  <2>1. Numbered("G", J, T, GEntries(s))
    <3>. HIDE DEF T
    <3>. QED  BY <1>3, PairsNumbered
  <2>. QED  BY <2>1 DEF Numbered
<1>5. DOMAIN f = S /\ \A e \in S : f[e] = Mul(a[<<e[2], e[3]>>], PowerOf(i.b2, e[4]))
  BY DEF OnChunks
<1>6. IsFamily(F, S, Elems) /\ \A e \in S : F[e] = Mul(f[e], Opening(i, pr, e))
  BY <1>5, CoefTestsIn
<1>7. ASSUME NEW p \in J, NEW c \in T
      PROVE  /\ a[p] \in Elems /\ g[p] \in Elems
             /\ F[ent[<<p, c>>]] = Mul(Mul(a[p], PowerOf(i.b2, c)), decompose(g[p], i.b2, i.t2)[c])
  <2>. DEFINE e == <<"G", p[1], p[2], c>>
  <2>1. ent[<<p, c>>] = e /\ e \in S /\ e \in GEntries(s) /\ <<e[2], e[3]>> = p /\ e[4] = c
    BY <1>4
  <2>. HIDE DEF e, F, ent, S, K
  <2>2. Opening(i, pr, e) = decompose(g[<<e[2], e[3]>>], i.b2, i.t2)[e[4]]
    BY <2>1, GOpening
  <2>3. a[p] \in Elems /\ g[p] \in Elems
    BY DEF PairWeights
  <2>4. F[e] = Mul(f[e], Opening(i, pr, e)) /\ f[e] = Mul(a[<<e[2], e[3]>>], PowerOf(i.b2, e[4]))
    BY <1>5, <1>6, <2>1
  <2>. QED  BY <2>1, <2>2, <2>3, <2>4
<1>8. ChunkTerms(F, ent, J, i.t2, a, g, i.b2)
  <2>. HIDE DEF F, ent, g
  <2>. QED  BY <1>7 DEF ChunkTerms
<1>9. IsFamily(Products2(J, a, g), J, Elems) /\ SumE(F) = SumE(Products2(J, a, g))
  <2>. HIDE DEF F, ent, g, S
  <2>. QED  BY <1>1, <1>2, <1>4, <1>6, <1>8, ChunkSums
<1>. QED  BY <1>9 DEF Tests

LEMMA HChunks ==
  ASSUME NEW s, Proper(s), NEW i \in Parameters, s.t1 = i.t1, NEW pr, OpensAll(s, i, pr),
         pr.h \in [Pairs(s.r) -> Elems], NEW J \in SUBSET Pairs(s.r), NEW a, PairWeights(a, J),
         NEW f, IsCoef(f, s), OnChunks(f, HEntries(s), J, a, i.b1)
  PROVE  /\ IsFamily(Products2(J, a, pr.h), J, Elems)
         /\ Tests(f, Openings(s, i, pr)) = SumE(Products2(J, a, pr.h))
<1>. DEFINE K == Openings(s, i, pr)
            F == TestTerms(f, K)
            T == 0..(i.t1 - 1)
            S == AtPairs(HEntries(s), J)
            ent == PairEntry("H", J, T)
            g == pr.h
<1>1. /\ i.b1 \in Nat /\ i.b1 >= 1 /\ i.t1 \in Nat /\ i.t1 >= 1 /\ s.r \in Nat
  BY ParametersAre DEF Proper, Shape
<1>2. IsFiniteSet(J)
  <2>1. IsFiniteSet(Below(s.r) \X Below(s.r))
    BY <1>1, FiniteBelow, FS_Product
  <2>2. J \subseteq Below(s.r) \X Below(s.r)
    BY DEF Pairs, Below
  <2>. QED  BY <2>1, <2>2, FS_Subset
<1>3. HEntries(s) = Triangle("H", s.r, T)
  BY DEF HEntries, Below, Triangle
<1>4. /\ Renumbers(ent, J \X T, S)
      /\ \A p \in J, c \in T :
           LET e == <<"H", p[1], p[2], c>>
           IN  ent[<<p, c>>] = e /\ e \in S /\ e \in HEntries(s) /\ <<e[2], e[3]>> = p /\ e[4] = c
  <2>1. Numbered("H", J, T, HEntries(s))
    <3>. HIDE DEF T
    <3>. QED  BY <1>3, PairsNumbered
  <2>. QED  BY <2>1 DEF Numbered
<1>5. DOMAIN f = S /\ \A e \in S : f[e] = Mul(a[<<e[2], e[3]>>], PowerOf(i.b1, e[4]))
  BY DEF OnChunks
<1>6. IsFamily(F, S, Elems) /\ \A e \in S : F[e] = Mul(f[e], Opening(i, pr, e))
  BY <1>5, CoefTestsIn
<1>7. ASSUME NEW p \in J, NEW c \in T
      PROVE  /\ a[p] \in Elems /\ g[p] \in Elems
             /\ F[ent[<<p, c>>]] = Mul(Mul(a[p], PowerOf(i.b1, c)), decompose(g[p], i.b1, i.t1)[c])
  <2>. DEFINE e == <<"H", p[1], p[2], c>>
  <2>1. ent[<<p, c>>] = e /\ e \in S /\ e \in HEntries(s) /\ <<e[2], e[3]>> = p /\ e[4] = c
    BY <1>4
  <2>. HIDE DEF e, F, ent, S, K
  <2>2. Opening(i, pr, e) = decompose(g[<<e[2], e[3]>>], i.b1, i.t1)[e[4]]
    BY <2>1, HOpening
  <2>3. a[p] \in Elems /\ g[p] \in Elems
    BY DEF PairWeights
  <2>4. F[e] = Mul(f[e], Opening(i, pr, e)) /\ f[e] = Mul(a[<<e[2], e[3]>>], PowerOf(i.b1, e[4]))
    BY <1>5, <1>6, <2>1
  <2>. QED  BY <2>1, <2>2, <2>3, <2>4
<1>8. ChunkTerms(F, ent, J, i.t1, a, g, i.b1)
  <2>. HIDE DEF F, ent, g
  <2>. QED  BY <1>7 DEF ChunkTerms
<1>9. IsFamily(Products2(J, a, g), J, Elems) /\ SumE(F) = SumE(Products2(J, a, g))
  <2>. HIDE DEF F, ent, g, S
  <2>. QED  BY <1>1, <1>2, <1>4, <1>6, <1>8, ChunkSums
<1>. QED  BY <1>9 DEF Tests

\* The products c_i c_j, and minus the garbage they weigh.
CC(cs_, p) == Doubled(p, Mul(cs_[p[1]], cs_[p[2]]))
GarbageTerms(cs_, g, n) == [p \in Pairs(n) |-> Mul(CC(cs_, p), g[p])]

LEMMA CCIn ==
  ASSUME NEW n \in Nat, NEW cs_ \in [Below(n) -> Elems], NEW g \in [Pairs(n) -> Elems]
  PROVE  /\ \A p \in Pairs(n) : CC(cs_, p) \in Elems
         /\ IsFamily(GarbageTerms(cs_, g, n), Pairs(n), Elems)
<1>1. IsFiniteSet(Pairs(n))
  <2>1. IsFiniteSet(Below(n) \X Below(n))
    BY FiniteBelow, FS_Product
  <2>2. Pairs(n) \subseteq Below(n) \X Below(n)
    BY DEF Pairs, Below
  <2>. QED  BY <2>1, <2>2, FS_Subset
<1>2. ASSUME NEW p \in Pairs(n) PROVE CC(cs_, p) \in Elems
  <2>1. cs_[p[1]] \in Elems /\ cs_[p[2]] \in Elems
    BY DEF Pairs, Below
  <2>. QED  BY <2>1, MulIs, DoubledIn DEF CC
<1>3. \A p \in Pairs(n) : Mul(CC(cs_, p), g[p]) \in Elems
  BY <1>2, MulIs
<1>. QED  BY <1>1, <1>2, <1>3 DEF IsFamily, GarbageTerms

LEMMA MinusChunks ==
  ASSUME NEW n \in Nat, NEW cs_ \in [Below(n) -> Elems], NEW g \in [Pairs(n) -> Elems],
         NEW b \in Nat, NEW entries, \A e \in entries : <<e[2], e[3]>> \in Pairs(n) /\ e[4] \in Nat,
         NEW a, a = [p \in Pairs(n) |-> Neg(CC(cs_, p))],
         IsFamily(Products2(Pairs(n), a, g), Pairs(n), Elems)
  PROVE  /\ PairWeights(a, Pairs(n))
         /\ OnChunks(MinusGarbage(cs_, entries, b), entries, Pairs(n), a, b)
         /\ SumE(Products2(Pairs(n), a, g)) = Neg(SumE(GarbageTerms(cs_, g, n)))
<1>1. \A p \in Pairs(n) : CC(cs_, p) \in Elems /\ a[p] = Neg(CC(cs_, p)) /\ a[p] \in Elems
  BY CCIn, NegIs
<1>2. AtPairs(entries, Pairs(n)) = entries
  BY DEF AtPairs
<1>3. ASSUME NEW e \in entries
      PROVE  MinusGarbage(cs_, entries, b)[e] = Mul(a[<<e[2], e[3]>>], PowerOf(b, e[4]))
  <2>. DEFINE p == <<e[2], e[3]>>
              x == CC(cs_, p)
              y == PowerOf(b, e[4])
  <2>1. MinusGarbage(cs_, entries, b)[e] = Neg(Mul(CiCj(cs_, e), y))
    BY DEF MinusGarbage
  <2>2. CiCj(cs_, e) = x
    BY DEF CiCj, CC
  <2>3. p \in Pairs(n) /\ y \in Elems
    BY PowersIn
  <2>4. x \in Elems /\ a[p] = Neg(x)
    BY <1>1, <2>3
  <2>. HIDE DEF x, y, p
  <2>5. Neg(Mul(x, y)) = Mul(Neg(x), y)
    BY <2>3, <2>4, NegRules
  <2>. QED  BY <2>1, <2>2, <2>4, <2>5 DEF p, y
<1>4. DOMAIN MinusGarbage(cs_, entries, b) = entries
  BY DEF MinusGarbage
<1>5. IsFamily(GarbageTerms(cs_, g, n), Pairs(n), Elems)
  BY CCIn
<1>6. ASSUME NEW p \in Pairs(n)
      PROVE  Products2(Pairs(n), a, g)[p] = Neg(GarbageTerms(cs_, g, n)[p])
  <2>. DEFINE x == CC(cs_, p)
              y == g[p]
  <2>1. x \in Elems /\ y \in Elems /\ a[p] = Neg(x)
    BY <1>1
  <2>2. Products2(Pairs(n), a, g)[p] = Mul(a[p], y) /\ GarbageTerms(cs_, g, n)[p] = Mul(x, y)
    BY DEF Products2, GarbageTerms
  <2>. HIDE DEF x, y
  <2>. QED  BY <2>1, <2>2, NegRules
<1>7. Neg(SumE(GarbageTerms(cs_, g, n))) = SumE(Products2(Pairs(n), a, g))
  BY <1>5, <1>6, NegOfSum
<1>. QED  BY <1>1, <1>2, <1>3, <1>4, <1>7 DEF PairWeights, OnChunks

-----------------------------------------------------------------------------
(* The sum over all i and j, by the pairs of the upper triangle.            *)
Identity(S) == [x \in S |-> x]

LEMMA SumsToOne ==
  ASSUME NEW f, NEW a, f[a] \in Elems
  PROVE  SumsTo(Elems, AddE, Zero, f, {a}, f[a])
<1>. DEFINE S == {a}
            row == Part(f, S)
            p == Identity(S)
            x == f[a]
<1>1. IsFamily(row, S, Elems) /\ Renumbers(p, S, S) /\ \A y \in S : row[y] = f[p[y]]
  BY FS_Singleton DEF IsFamily, Part, Renumbers, Identity
<1>2. SumE(row) = x
  <2>1. f[a] \in Elems /\ IsMonoid(Elems, AddE, Zero)
    BY ElemSums
  <2>2. SumOf(AddE, Zero, Part(f, {a})) = f[a]
    BY <2>1, SumOfOne
  <2>. QED  BY <2>2 DEF SumE
<1>. HIDE DEF row, p, S, x
<1>3. SumsTo(Elems, AddE, Zero, f, S, SumE(row))
  BY <1>1, SumsToBy DEF SumE
<1>. QED  BY <1>2, <1>3 DEF S, x

LEMMA SumsToTwo ==
  ASSUME NEW f, NEW a, NEW b, a # b, f[a] \in Elems, f[b] \in Elems
  PROVE  SumsTo(Elems, AddE, Zero, f, {a, b}, Add(f[a], f[b]))
<1>. DEFINE S == {a, b}
            row == Part(f, S)
            p == Identity(S)
            x == Add(f[a], f[b])
<1>1. IsFamily(row, S, Elems) /\ Renumbers(p, S, S) /\ (\A y \in S : row[y] = f[p[y]])
      /\ row[a] = f[a] /\ row[b] = f[b]
  BY FinitePair DEF IsFamily, Part, Renumbers, Identity
<1>. HIDE DEF row, p
<1>2. SumE(row) = Add(row[a], row[b])
  BY <1>1, SumOfTwo
<1>. HIDE DEF S
<1>3. SumsTo(Elems, AddE, Zero, f, S, SumE(row))
  BY <1>1, SumsToBy DEF SumE
<1>. QED  BY <1>1, <1>2, <1>3 DEF S

Sorted(x) == IF x[1] <= x[2] THEN x ELSE <<x[2], x[1]>>
AllGarbage(cs_, g, n) ==
  [x \in Below(n) \X Below(n) |-> Mul(Mul(cs_[x[1]], cs_[x[2]]), g[Sorted(x)])]

LEMMA SortedFiber ==
  ASSUME NEW n \in Nat, NEW sorted, sorted = [x \in Below(n) \X Below(n) |-> Sorted(x)]
  PROVE  /\ IsFamily(sorted, Below(n) \X Below(n), Pairs(n))
         /\ \A p \in Pairs(n) : Fiber(sorted, p) = {p, <<p[2], p[1]>>}
<1>. DEFINE B == Below(n) \X Below(n)
<1>1. IsFiniteSet(B)
  BY FiniteBelow, FS_Product
<1>2. \A x \in B : Sorted(x) \in Pairs(n)
  BY DEF Sorted, Pairs, Below
<1>3. ASSUME NEW p \in Pairs(n) PROVE Fiber(sorted, p) = {p, <<p[2], p[1]>>}
  <2>1. p[1] \in Below(n) /\ p[2] \in Below(n) /\ p[1] <= p[2] /\ p = <<p[1], p[2]>>
        /\ p[1] \in Int /\ p[2] \in Int
    BY DEF Pairs, Below
  <2>. DEFINE u == <<p[2], p[1]>>
  <2>2. p \in B /\ u \in B
    BY <2>1
  <2>3. Sorted(p) = p /\ Sorted(u) = p
    BY <2>1 DEF Sorted
  <2>4. ASSUME NEW x \in B, Sorted(x) = p PROVE x = p \/ x = u
    <3>1. x = <<x[1], x[2]>>
      OBVIOUS
    <3>2. CASE x[1] <= x[2]
      BY <2>4, <3>2 DEF Sorted
    <3>3. CASE ~(x[1] <= x[2])
      <4>1. p = <<x[2], x[1]>>
        BY <2>4, <3>3 DEF Sorted
      <4>. QED  BY <3>1, <4>1
    <3>. QED  BY <3>2, <3>3
  <2>. HIDE DEF u, B
  <2>5. Fiber(sorted, p) = {x \in B : Sorted(x) = p}
    BY DEF Fiber, B
  <2>. QED  BY <2>2, <2>3, <2>4, <2>5 DEF u
<1>. QED  BY <1>1, <1>2, <1>3 DEF IsFamily

LEMMA TwiceAdds ==
  ASSUME NEW c \in Elems, NEW d \in Elems, NEW x \in Elems
  PROVE  /\ Mul(Mul(d, c), x) = Mul(Mul(c, d), x) /\ Mul(Mul(c, d), x) \in Elems
         /\ Mul(Add(Mul(c, d), Mul(c, d)), x) = Add(Mul(Mul(c, d), x), Mul(Mul(c, d), x))
<1>. DEFINE y == Mul(c, d)
<1>1. y \in Elems /\ y = Mul(d, c)
  BY MulRules
<1>. HIDE DEF y
<1>2. Mul(y, x) \in Elems /\ Mul(Add(y, y), x) = Add(Mul(y, x), Mul(y, x))
  BY <1>1, MulRules
<1>. QED  BY <1>1, <1>2 DEF y

LEMMA GarbageByPairs ==
  ASSUME NEW n \in Nat, NEW cs_ \in [Below(n) -> Elems], NEW g \in [Pairs(n) -> Elems]
  PROVE  /\ Total(AllGarbage(cs_, g, n)) = SumE(GarbageTerms(cs_, g, n))
         /\ SumE(GarbageTerms(cs_, g, n)) \in Elems
<1>. DEFINE B == Below(n) \X Below(n)
            f == AllGarbage(cs_, g, n)
            sums == GarbageTerms(cs_, g, n)
            sorted == [x \in B |-> Sorted(x)]
            J == Pairs(n)
<1>1. IsFamily(sums, J, Elems) /\ \A p \in J : CC(cs_, p) \in Elems
  BY CCIn
<1>2. IsFamily(sorted, B, J) /\ \A p \in J : Fiber(sorted, p) = {p, <<p[2], p[1]>>}
  BY SortedFiber
<1>3. ASSUME NEW x \in B PROVE f[x] \in Elems /\ f[x] = Mul(Mul(cs_[x[1]], cs_[x[2]]), g[Sorted(x)])
  <2>1. cs_[x[1]] \in Elems /\ cs_[x[2]] \in Elems /\ sorted[x] \in J /\ sorted[x] = Sorted(x)
    BY <1>2 DEF IsFamily
  <2>2. g[Sorted(x)] \in Elems
    BY <2>1
  <2>3. f[x] = Mul(Mul(cs_[x[1]], cs_[x[2]]), g[Sorted(x)])
    BY DEF AllGarbage
  <2>. QED  BY <2>1, <2>2, <2>3, MulIs
<1>4. IsFamily(f, B, Elems)
  BY <1>2, <1>3 DEF IsFamily, AllGarbage
<1>5. ASSUME NEW p \in J PROVE SumsTo(Elems, AddE, Zero, f, Fiber(sorted, p), sums[p])
  <2>. DEFINE u == <<p[2], p[1]>>
              c == cs_[p[1]]
              d == cs_[p[2]]
              x == g[p]
  <2>1. p \in B /\ u \in B /\ p[1] <= p[2] /\ p = <<p[1], p[2]>> /\ p[1] \in Int /\ p[2] \in Int
    BY DEF Pairs, Below
  <2>2. c \in Elems /\ d \in Elems /\ x \in Elems
    BY <2>1
  <2>3. Sorted(p) = p /\ Sorted(u) = p
    BY <2>1 DEF Sorted
  <2>4. f[p] = Mul(Mul(c, d), x) /\ f[u] = Mul(Mul(d, c), x)
    BY <1>3, <2>1, <2>3
  <2>5. f[p] \in Elems /\ f[u] \in Elems
    BY <1>3, <2>1
  <2>6. sums[p] = Mul(Doubled(p, Mul(c, d)), x)
    BY DEF GarbageTerms, CC
  <2>7. Fiber(sorted, p) = {p, u}
    BY <1>2
  <2>8. Mul(Mul(d, c), x) = Mul(Mul(c, d), x)
        /\ Mul(Add(Mul(c, d), Mul(c, d)), x) = Add(Mul(Mul(c, d), x), Mul(Mul(c, d), x))
    <3>. HIDE DEF c, d, x
    <3>. QED  BY <2>2, TwiceAdds
  <2>9. p[1] = p[2] <=> p = u
    BY <2>1
  <2>. HIDE DEF c, d, x, u, f, sums, sorted
  <2>10. CASE p[1] = p[2]
    <3>1. Doubled(p, Mul(c, d)) = Mul(c, d)
      BY <2>10 DEF Doubled
    <3>2. sums[p] = f[p] /\ {p, u} = {p}
      BY <2>4, <2>6, <2>9, <2>10, <3>1
    <3>3. SumsTo(Elems, AddE, Zero, f, {p}, f[p])
      BY <2>5, SumsToOne
    <3>. QED  BY <2>7, <3>2, <3>3
  <2>11. CASE p[1] # p[2]
    <3>1. Doubled(p, Mul(c, d)) = Add(Mul(c, d), Mul(c, d))
      BY <2>11 DEF Doubled
    <3>2. sums[p] = Add(f[p], f[u]) /\ p # u
      BY <2>4, <2>6, <2>8, <2>9, <2>11, <3>1
    <3>3. SumsTo(Elems, AddE, Zero, f, {p, u}, Add(f[p], f[u]))
      BY <2>5, <3>2, SumsToTwo
    <3>. QED  BY <2>7, <3>2, <3>3
  <2>. QED  BY <2>10, <2>11
<1>6. IsFiniteSet(J)
  BY <1>1 DEF IsFamily
<1>. HIDE DEF f, sums, sorted, J, B
<1>7. SumE(f) = SumE(sums)
  BY <1>1, <1>2, <1>4, <1>5, <1>6, ElemSums, SumOfFibers DEF SumE
<1>8. Total(f) = SumE(f) /\ SumE(sums) \in Elems
  BY <1>1, <1>4, TotalIsSum
<1>. QED  BY <1>7, <1>8 DEF f, sums

LEMMA CombinedIs ==
  ASSUME IsStatement(stmt), NEW g \in [Pairs(stmt.r) -> Elems]
  PROVE  /\ CombinedGarbage(g) = SumE(GarbageTerms(cs, g, stmt.r))
         /\ SumE(GarbageTerms(cs, g, stmt.r)) \in Elems
<1>. DEFINE n == stmt.r
<1>1. n \in Nat
  BY DEF IsStatement
<1>2. cs \in [Below(n) -> Elems]
  BY ChallengeIn DEF cs, Vectors
<1>3. CombinedGarbage(g) = Total(AllGarbage(cs, g, n))
  BY DEF CombinedGarbage, AllGarbage, Sorted, Vectors
<1>. HIDE DEF n
<1>4. Total(AllGarbage(cs, g, n)) = SumE(GarbageTerms(cs, g, n)) /\ SumE(GarbageTerms(cs, g, n)) \in Elems
  <2>1. g \in [Pairs(n) -> Elems]
    BY DEF n
  <2>. QED  BY <1>1, <1>2, <2>1, GarbageByPairs
<1>. QED  BY <1>3, <1>4 DEF n

-----------------------------------------------------------------------------
(* Check 5: the sum over i of c_i <phi_i, z>, by slot.                      *)
LEMMA SumsToHere ==
  ASSUME NEW f, NEW u, NEW row, IsFamily(row, u, Elems), \A y \in u : row[y] = f[y]
  PROVE  SumsTo(Elems, AddE, Zero, f, u, SumE(row))
<1>. DEFINE p == Identity(u)
<1>1. Renumbers(p, u, u) /\ \A y \in u : row[y] = f[p[y]]
  BY DEF Renumbers, Identity
<1>. HIDE DEF p
<1>. QED  BY <1>1, SumsToBy DEF SumE

SlotTerms(rep, x) ==
  [y \in DOMAIN rep.phi_agg |-> Mul(Mul(rep.cs[y[1]], rep.phi_agg[y]), x[y[2]])]
ByVector(rep, x, n) == [a \in Below(n) |-> Mul(rep.cs[a], phi_dot(rep.phi_agg, a, x))]

LEMMA SlotTermsIn ==
  ASSUME NEW st, IsStatement(st), NEW rep, IsRep(rep, st), NEW x \in [Below(st.n) -> Elems]
  PROVE  LET S == DOMAIN rep.phi_agg
         IN  /\ IsFamily(SlotTerms(rep, x), S, Elems)
             /\ \A y \in S : /\ y[1] \in Below(st.r) /\ y[2] \in Below(st.n)
                             /\ rep.cs[y[1]] \in Elems /\ rep.phi_agg[y] \in Elems /\ x[y[2]] \in Elems
                             /\ SlotTerms(rep, x)[y] = Mul(Mul(rep.cs[y[1]], rep.phi_agg[y]), x[y[2]])
<1>. DEFINE S == DOMAIN rep.phi_agg
<1>1. st.n \in Nat /\ st.r \in Nat
  BY DEF IsStatement
<1>2. IsSparse(rep.phi_agg, Positions(st)) /\ rep.cs \in [Below(st.r) -> Elems]
  BY DEF IsRep
<1>3. IsFiniteSet(S) /\ S \subseteq Positions(st) /\ \A y \in S : rep.phi_agg[y] \in Elems
  <2>1. IsFiniteSet(Positions(st))
    BY <1>1, FinitePlaces
  <2>. QED  BY <1>2, <2>1, SparseFamily DEF IsFamily
<1>4. ASSUME NEW y \in S
      PROVE  /\ y[1] \in Below(st.r) /\ y[2] \in Below(st.n)
             /\ rep.cs[y[1]] \in Elems /\ rep.phi_agg[y] \in Elems /\ x[y[2]] \in Elems
             /\ SlotTerms(rep, x)[y] = Mul(Mul(rep.cs[y[1]], rep.phi_agg[y]), x[y[2]])
  <2>1. y[1] \in Below(st.r) /\ y[2] \in Below(st.n)
    BY <1>3 DEF Positions, Below
  <2>2. SlotTerms(rep, x)[y] = Mul(Mul(rep.cs[y[1]], rep.phi_agg[y]), x[y[2]])
    BY DEF SlotTerms
  <2>. QED  BY <1>2, <1>3, <2>1, <2>2
<1>5. \A y \in S : SlotTerms(rep, x)[y] \in Elems
  <2>1. ASSUME NEW y \in S PROVE SlotTerms(rep, x)[y] \in Elems
    BY <1>4, MulIs
  <2>. QED  BY <2>1
<1>6. IsFamily(SlotTerms(rep, x), S, Elems)
  BY <1>3, <1>5 DEF IsFamily, SlotTerms
<1>. QED  BY <1>4, <1>6

LEMMA BySlot ==
  ASSUME NEW st, IsStatement(st), NEW rep, IsRep(rep, st), NEW x \in [Below(st.n) -> Elems],
         NEW sums, sums = ZTerms(PhiSums(rep), x)
  PROVE  IsFamily(sums, DOMAIN PhiSums(rep), Elems) /\ SumE(SlotTerms(rep, x)) = SumE(sums)
<1>. DEFINE S == DOMAIN rep.phi_agg
            W == SlotTerms(rep, x)
            J == DOMAIN PhiSums(rep)
            second == [y \in S |-> y[2]]
<1>1. /\ IsFamily(W, S, Elems)
      /\ \A y \in S : /\ y[1] \in Below(st.r) /\ y[2] \in Below(st.n)
                      /\ rep.cs[y[1]] \in Elems /\ rep.phi_agg[y] \in Elems /\ x[y[2]] \in Elems
                      /\ W[y] = Mul(Mul(rep.cs[y[1]], rep.phi_agg[y]), x[y[2]])
  BY SlotTermsIn
<1>2. J = {y[2] : y \in S} /\ J \subseteq Below(st.n)
  BY PhiSumsIn DEF PhiSums
<1>3. IsFiniteSet(J)
  <2>1. st.n \in Nat
    BY DEF IsStatement
  <2>. QED  BY <1>2, <2>1, FiniteBelow, FS_Subset
<1>4. IsFamily(second, S, J)
  BY <1>1, <1>2 DEF IsFamily
<1>5. ASSUME NEW p \in J
      PROVE  sums[p] \in Elems /\ SumsTo(Elems, AddE, Zero, W, Fiber(second, p), sums[p])
  <2>. DEFINE u == {y \in S : y[2] = p}
              f == [y \in u |-> Mul(rep.cs[y[1]], rep.phi_agg[y])]
              row == Part(W, u)
              a == x[p]
              b == PhiSums(rep)[p]
  <2>1. IsFamily(f, u, Elems) /\ b = SumE(f) /\ b \in Elems
    BY PhiSumsIn
  <2>2. Fiber(second, p) = u
    BY DEF Fiber
  <2>3. a \in Elems
    BY <1>2
  <2>4. ASSUME NEW y \in u PROVE row[y] = Mul(a, f[y]) /\ row[y] = W[y] /\ row[y] \in Elems
    <3>1. y \in S /\ y[2] = p
      OBVIOUS
    <3>. DEFINE v == f[y]
    <3>2. row[y] = W[y] /\ W[y] = Mul(v, a) /\ v \in Elems
      BY <1>1, <2>1, <3>1 DEF Part, IsFamily
    <3>. HIDE DEF v, a, row, f, W, u
    <3>3. Mul(v, a) = Mul(a, v) /\ Mul(a, v) \in Elems
      BY <2>3, <3>2, MulRules
    <3>. QED  BY <3>2, <3>3 DEF v
  <2>5. IsFamily(row, u, Elems)
    BY <2>1, <2>4 DEF IsFamily, Part
  <2>6. sums[p] = Mul(b, a)
    BY DEF ZTerms
  <2>. HIDE DEF f, row, u, a, b, W, second
  <2>7. Mul(a, SumE(f)) = SumE(row)
    BY <2>1, <2>3, <2>4, <2>5, MulOfSum
  <2>8. sums[p] = SumE(row) /\ sums[p] \in Elems
    BY <2>1, <2>3, <2>6, <2>7, MulRules
  <2>9. SumsTo(Elems, AddE, Zero, W, u, SumE(row))
    BY <2>4, <2>5, SumsToHere
  <2>. QED  BY <2>2, <2>8, <2>9
<1>6. IsFamily(sums, J, Elems)
  BY <1>3, <1>5 DEF IsFamily, ZTerms
<1>. HIDE DEF W, S, J, second
<1>7. SumE(W) = SumE(sums)
  BY <1>1, <1>3, <1>4, <1>5, <1>6, ElemSums, SumOfFibers DEF SumE
<1>. QED  BY <1>6, <1>7 DEF W, J

LEMMA ByVectors ==
  ASSUME NEW st, IsStatement(st), NEW rep, IsRep(rep, st), NEW x \in [Below(st.n) -> Elems],
         NEW sums, sums = ByVector(rep, x, st.r)
  PROVE  IsFamily(sums, Below(st.r), Elems) /\ SumE(SlotTerms(rep, x)) = SumE(sums)
<1>. DEFINE S == DOMAIN rep.phi_agg
            W == SlotTerms(rep, x)
            J == Below(st.r)
            first == [y \in S |-> y[1]]
<1>1. /\ IsFamily(W, S, Elems)
      /\ \A y \in S : /\ y[1] \in Below(st.r) /\ y[2] \in Below(st.n)
                      /\ rep.cs[y[1]] \in Elems /\ rep.phi_agg[y] \in Elems /\ x[y[2]] \in Elems
                      /\ W[y] = Mul(Mul(rep.cs[y[1]], rep.phi_agg[y]), x[y[2]])
  BY SlotTermsIn
<1>2. st.n \in Nat /\ st.r \in Nat /\ IsSparse(rep.phi_agg, Positions(st))
      /\ rep.cs \in [J -> Elems]
  BY DEF IsStatement, IsRep
<1>3. IsFiniteSet(J)
  BY <1>2, FiniteBelow
<1>4. IsFamily(first, S, J)
  BY <1>1 DEF IsFamily
<1>5. ASSUME NEW p \in J
      PROVE  sums[p] \in Elems /\ SumsTo(Elems, AddE, Zero, W, Fiber(first, p), sums[p])
  <2>. DEFINE u == {y \in S : y[1] = p}
              f == [y \in u |-> Mul(rep.phi_agg[y], x[y[2]])]
              row == Part(W, u)
              a == rep.cs[p]
              b == phi_dot(rep.phi_agg, p, x)
  <2>1. IsFamily(f, u, Elems) /\ b = SumE(f) /\ b \in Elems
    <3>1. x \in [0..(st.n - 1) -> Elems]
      BY DEF Below
    <3>. DEFINE phi == rep.phi_agg
    <3>2. IsSparse(phi, Positions(st)) /\ st.n \in Nat /\ st.r \in Nat
      BY <1>2
    <3>. HIDE DEF phi
    <3>3. /\ IsFamily([y \in {t \in DOMAIN phi : t[1] = p} |-> Mul(phi[y], x[y[2]])],
                      {t \in DOMAIN phi : t[1] = p}, Elems)
          /\ phi_dot(phi, p, x) = SumE([y \in {t \in DOMAIN phi : t[1] = p} |-> Mul(phi[y], x[y[2]])])
          /\ phi_dot(phi, p, x) \in Elems
      BY <3>1, <3>2, PhiDotIs
    <3>. QED  BY <3>3 DEF phi
  <2>2. Fiber(first, p) = u
    BY DEF Fiber
  <2>3. a \in Elems
    BY <1>2
  <2>4. ASSUME NEW y \in u PROVE row[y] = Mul(a, f[y]) /\ row[y] = W[y] /\ row[y] \in Elems
    <3>1. y \in S /\ y[1] = p
      OBVIOUS
    <3>. DEFINE v == rep.phi_agg[y]
                c == x[y[2]]
    <3>2. row[y] = W[y] /\ W[y] = Mul(Mul(a, v), c) /\ v \in Elems /\ c \in Elems /\ f[y] = Mul(v, c)
      BY <1>1, <3>1 DEF Part
    <3>. HIDE DEF v, a, row, f, W, u, c
    <3>3. Mul(Mul(a, v), c) = Mul(a, Mul(v, c)) /\ Mul(v, c) \in Elems
      BY <2>3, <3>2, MulRules
    <3>4. Mul(a, Mul(v, c)) \in Elems
      BY <2>3, <3>3, MulIs
    <3>. QED  BY <3>2, <3>3, <3>4
  <2>5. IsFamily(row, u, Elems)
    BY <2>1, <2>4 DEF IsFamily, Part
  <2>6. sums[p] = Mul(a, b)
    BY DEF ByVector
  <2>. HIDE DEF f, row, u, a, b, W, first
  <2>7. Mul(a, SumE(f)) = SumE(row)
    BY <2>1, <2>3, <2>4, <2>5, MulOfSum
  <2>8. sums[p] = SumE(row) /\ sums[p] \in Elems
    BY <2>1, <2>3, <2>6, <2>7, MulIs
  <2>9. SumsTo(Elems, AddE, Zero, W, u, SumE(row))
    BY <2>4, <2>5, SumsToHere
  <2>. QED  BY <2>2, <2>8, <2>9
<1>6. IsFamily(sums, J, Elems)
  BY <1>3, <1>5 DEF IsFamily, ByVector
<1>. HIDE DEF W, S, J, first
<1>7. SumE(W) = SumE(sums)
  BY <1>1, <1>3, <1>4, <1>5, <1>6, ElemSums, SumOfFibers DEF SumE
<1>. QED  BY <1>6, <1>7 DEF W, J

\* The constraint holds if and only if the two sums agree.
LEMMA Check5Holds ==
  ASSUME NEW st, NEW i, NEW pr, NEW rep, Given(st, i, pr, rep)
  PROVE  LET s == ShapeOf(st, i)
             u == build_folded_witness(s, i, pr)
         IN  eval_full(build_check5(s, i, rep), u) = Zero
               <=> Total(ByVector(rep, WholeZ(i, pr), st.r)) = SumE(GarbageTerms(rep.cs, pr.h, st.r))
<1>. DEFINE s == ShapeOf(st, i)
            u == build_folded_witness(s, i, pr)
            phi == PhiSums(rep)
            o == OnZ(s, i, phi)
            v == MinusGarbage(rep.cs, HEntries(s), i.b1)
            c == Coef5(s, i, rep)
            K == Openings(s, i, pr)
            x == WholeZ(i, pr)
            zs == ZTerms(phi, x)
            vs == SumE(GarbageTerms(rep.cs, pr.h, st.r))
            a == [p \in Pairs(st.r) |-> Neg(CC(rep.cs, p))]
            tot == ByVector(rep, x, st.r)
<1>1. /\ IsStatement(st) /\ i \in Parameters /\ IsRep(rep, st) /\ Proper(s) /\ OpensAll(s, i, pr)
      /\ s.n = st.n /\ s.r = st.r /\ s.t1 = i.t1
      /\ pr.z0 \in [Below(s.n) -> Elems] /\ pr.z1 \in [Below(s.n) -> Elems]
      /\ pr.h \in [Pairs(s.r) -> Elems] /\ rep.cs \in [Below(s.r) -> Elems]
  BY GivenIs
<1>2. /\ IsCoef(o, s) /\ IsCoef(v, s) /\ IsCoef(c, s)
      /\ build_check5(s, i, rep) = Linear(s, c, Zero)
  BY <1>1, Coef5In
<1>3. c = Join(o, v)
  BY DEF Coef5
<1>. HIDE DEF s
<1>4. IsOnZ(phi, s)
  BY <1>1, PhiSumsIn DEF IsOnZ
<1>5. x \in [Below(s.n) -> Elems] /\ Tests(o, K) = SumE(zs)
  <2>. HIDE DEF phi
  <2>. QED  BY <1>1, <1>4, OnZTests
<1>6. IsFamily(tot, Below(st.r), Elems) /\ SumE(SlotTerms(rep, x)) = SumE(tot)
      /\ SumE(SlotTerms(rep, x)) = SumE(zs)
  <2>1. x \in [Below(st.n) -> Elems]
    BY <1>1, <1>5
  <2>. HIDE DEF x, zs
  <2>2. IsFamily(tot, Below(st.r), Elems) /\ SumE(SlotTerms(rep, x)) = SumE(tot)
    BY <1>1, <2>1, ByVectors
  <2>3. SumE(SlotTerms(rep, x)) = SumE(zs)
    BY <1>1, <2>1, BySlot DEF zs
  <2>. QED  BY <2>2, <2>3
<1>7. st.r \in Nat /\ i.b1 \in Nat /\ \A e \in HEntries(s) : <<e[2], e[3]>> \in Pairs(st.r) /\ e[4] \in Nat
  <2>1. i.b1 \in Nat
    BY <1>1, ParametersAre
  <2>2. st.r \in Nat
    BY <1>1 DEF IsStatement
  <2>3. \A e \in HEntries(s) : <<e[2], e[3]>> \in Pairs(st.r) /\ e[4] \in Nat
    BY <1>1, PairIn
  <2>. QED  BY <2>1, <2>2, <2>3
<1>8. Tests(v, K) = Neg(vs) /\ vs \in Elems
  <2>. DEFINE J == Pairs(st.r)
              cs_ == rep.cs
              g == pr.h
  <2>1. cs_ \in [Below(st.r) -> Elems] /\ g \in [J -> Elems]
    BY <1>1
  <2>2. \A p \in J : a[p] \in Elems
    <3>1. \A p \in J : CC(cs_, p) \in Elems
      BY <1>7, <2>1, CCIn
    <3>. QED  BY <3>1, NegIs
  <2>3. IsFamily(Products2(J, a, g), J, Elems)
    <3>1. IsFiniteSet(J)
      <4>1. IsFamily(GarbageTerms(cs_, g, st.r), J, Elems)
        BY <1>7, <2>1, CCIn
      <4>. QED  BY <4>1 DEF IsFamily
    <3>2. \A p \in J : Mul(a[p], g[p]) \in Elems
      <4>. HIDE DEF a
      <4>. QED  BY <2>1, <2>2, MulIs
    <3>. QED  BY <3>1, <3>2 DEF IsFamily, Products2
  <2>. HIDE DEF cs_, g
  <2>4. a = [p \in J |-> Neg(CC(cs_, p))]
    BY DEF cs_
  <2>. HIDE DEF a
  <2>5. /\ PairWeights(a, J) /\ OnChunks(MinusGarbage(cs_, HEntries(s), i.b1), HEntries(s), J, a, i.b1)
        /\ SumE(Products2(J, a, g)) = Neg(SumE(GarbageTerms(cs_, g, st.r)))
    BY <1>7, <2>1, <2>3, <2>4, MinusChunks
  <2>6. Tests(v, K) = SumE(Products2(J, a, pr.h))
    <3>1. J \in SUBSET Pairs(s.r)
      BY <1>1
    <3>2. OnChunks(v, HEntries(s), J, a, i.b1)
      BY <2>5 DEF cs_
    <3>. HIDE DEF v, J
    <3>. QED  BY <1>1, <1>2, <2>5, <3>1, <3>2, HChunks
  <2>7. SumE(GarbageTerms(cs_, g, st.r)) \in Elems
    <3>1. IsFamily(GarbageTerms(cs_, g, st.r), J, Elems)
      BY <1>7, <2>1, CCIn
    <3>. QED  BY <3>1, TotalIsSum
  <2>. QED  BY <2>5, <2>6, <2>7 DEF cs_, g
<1>9. \A y \in DOMAIN o : y \notin DOMAIN v
  <2>1. \A y \in DOMAIN o : y[1] = "z"
    BY DEF OnZ, ZEntry
  <2>2. \A y \in DOMAIN v : y[1] = "H"
    BY DEF MinusGarbage, HEntries
  <2>. QED  BY <2>1, <2>2
<1>10. Tests(Join(o, v), K) = Add(Tests(o, K), Tests(v, K))
  <2>. HIDE DEF o, v
  <2>. QED  BY <1>1, <1>2, <1>9, TestsJoin
<1>11. Total(tot) = SumE(tot) /\ SumE(tot) \in Elems
  <2>. HIDE DEF tot
  <2>. QED  BY <1>6, TotalIsSum
<1>12. eval_full(Linear(s, c, Zero), u) = Zero <=> Tests(c, K) = Zero
  <2>. HIDE DEF c
  <2>1. Zero \in Elems
    BY ElemFacts
  <2>. QED  BY <1>1, <1>2, <2>1, LinearHolds DEF c
<1>13. Tests(c, K) = Add(SumE(tot), Neg(vs))
  BY <1>3, <1>5, <1>6, <1>8, <1>10
<1>14. Add(SumE(tot), Neg(vs)) = Zero <=> SumE(tot) = vs
  <2>. DEFINE x1 == SumE(tot)
  <2>1. x1 \in Elems /\ vs \in Elems
    BY <1>8, <1>11
  <2>. HIDE DEF x1, vs
  <2>2. Add(x1, Neg(vs)) = Zero <=> x1 = vs
    BY <2>1, AddNegZero
  <2>. QED  BY <2>2 DEF x1
<1>. QED  BY <1>1, <1>2, <1>11, <1>12, <1>13, <1>14 DEF s

-----------------------------------------------------------------------------
(* Check 6: the aggregated relation on g and h.                             *)
Diagonal(n) == {p \in Pairs(n) : p[1] = p[2]}

LEMMA OnDiagonal ==
  ASSUME NEW n \in Nat, NEW g \in [Pairs(n) -> Elems],
         NEW f, f = [a \in Below(n) |-> g[<<a, a>>]]
  PROVE  /\ IsFamily(f, Below(n), Elems)
         /\ IsFamily(Part(g, Diagonal(n)), Diagonal(n), Elems)
         /\ SumE(Part(g, Diagonal(n))) = SumE(f)
<1>. DEFINE S == Diagonal(n)
            T == Below(n)
            x == Part(g, S)
            p == [a \in T |-> <<a, a>>]
<1>1. S \subseteq Pairs(n) /\ (\A a \in T : <<a, a>> \in S) /\ \A y \in S : y[1] \in T /\ y = <<y[1], y[1]>>
  BY DEF Diagonal, Pairs, Below
<1>2. IsFiniteSet(T)
  BY FiniteBelow
<1>3. Renumbers(p, T, S)
  <2>1. p \in [T -> S]
    BY <1>1
  <2>2. \A a, b \in T : p[a] = p[b] => a = b
    OBVIOUS
  <2>3. \A y \in S : p[y[1]] = y
    BY <1>1
  <2>. HIDE DEF p, S, T
  <2>. QED  BY <1>1, <2>1, <2>2, <2>3 DEF Renumbers
<1>4. IsFiniteSet(S)
  <2>1. IsFiniteSet(Below(n) \X Below(n))
    BY <1>2, FS_Product
  <2>2. S \subseteq Below(n) \X Below(n)
    BY DEF Diagonal, Pairs, Below
  <2>. QED  BY <2>1, <2>2, FS_Subset
<1>5. IsFamily(x, S, Elems) /\ \A y \in S : x[y] = g[y]
  BY <1>1, <1>4 DEF IsFamily, Part
<1>6. IsFamily(f, T, Elems) /\ \A a \in T : f[a] = x[p[a]]
  BY <1>1, <1>2 DEF IsFamily, Part
<1>. HIDE DEF x, p, S, T
<1>7. SumE(f) = SumE(x)
  <2>1. /\ IsFiniteSet(S) /\ x \in [S -> Elems] /\ IsFiniteSet(T) /\ f \in [T -> Elems]
        /\ Renumbers(p, T, S) /\ IsMonoid(Elems, AddE, Zero)
    BY <1>3, <1>5, <1>6, ElemSums DEF IsFamily
  <2>. DEFINE y == f
  <2>2. y \in [T -> Elems] /\ \A a \in T : y[a] = x[p[a]]
    BY <1>6, <2>1
  <2>. HIDE DEF y
  <2>3. SumOf(AddE, Zero, y) = SumOf(AddE, Zero, x)
    BY <2>1, <2>2, SumReindex
  <2>. QED  BY <2>3 DEF SumE, y
<1>. QED  BY <1>5, <1>6, <1>7 DEF x, S, T

LEMMA GTests6 ==
  ASSUME NEW st, NEW i, NEW pr, NEW rep, Given(st, i, pr, rep)
  PROVE  LET s == ShapeOf(st, i)
         IN  /\ Tests(GCoef6(s, i, rep), Openings(s, i, pr)) = quadratic(rep.a_agg, pr.g)
             /\ quadratic(rep.a_agg, pr.g) \in Elems
<1>. DEFINE s == ShapeOf(st, i)
            f == GCoef6(s, i, rep)
            J == DOMAIN rep.a_agg
            ag == rep.a_agg
            g == pr.g
            a == [p \in J |-> Doubled(p, ag[p])]
            K == Openings(s, i, pr)
<1>1. /\ IsStatement(st) /\ i \in Parameters /\ IsRep(rep, st) /\ Proper(s) /\ OpensAll(s, i, pr)
      /\ s.r = st.r /\ s.t2 = i.t2 /\ pr.g \in [Pairs(s.r) -> Elems]
  BY GivenIs
<1>. HIDE DEF s
<1>2. IsSparse(ag, Pairs(s.r)) /\ J \in SUBSET Pairs(s.r) /\ \A p \in J : ag[p] \in Elems /\ g[p] \in Elems
  BY <1>1 DEF IsRep, IsSparse
<1>3. IsCoef(f, s)
  BY <1>1, Coef6In
<1>4. PairWeights(a, J)
  BY <1>2, DoubledIn DEF PairWeights
<1>5. OnChunks(f, GEntries(s), J, a, i.b2)
  <2>1. DOMAIN f = AtPairs(GEntries(s), J)
    BY DEF GCoef6, AtPairs
  <2>2. ASSUME NEW e \in AtPairs(GEntries(s), J)
        PROVE  f[e] = Mul(a[<<e[2], e[3]>>], PowerOf(i.b2, e[4]))
    BY DEF GCoef6, AtPairs
  <2>. HIDE DEF f, a
  <2>. QED  BY <2>1, <2>2 DEF OnChunks
<1>6. Tests(f, K) = SumE(Products2(J, a, g))
  <2>. HIDE DEF f, a, J
  <2>. QED  BY <1>1, <1>2, <1>3, <1>4, <1>5, GChunks
<1>7. ASSUME NEW p \in J PROVE Mul(a[p], g[p]) = Doubled(p, Mul(ag[p], g[p]))
  <2>. DEFINE x == ag[p]
              y == g[p]
  <2>1. x \in Elems /\ y \in Elems /\ a[p] = Doubled(p, x) /\ Doubled(p, x) \in Elems
    BY <1>2, DoubledIn
  <2>. HIDE DEF x, y, a
  <2>2. Mul(Doubled(p, x), y) = Mul(y, Doubled(p, x)) /\ Mul(y, x) = Mul(x, y)
    BY <2>1, MulCommutes
  <2>3. Doubled(p, Mul(y, x)) = Mul(y, Doubled(p, x))
    BY <2>1, DoubledOut
  <2>. QED  BY <2>1, <2>2, <2>3 DEF x, y
<1>8. Products2(J, a, g) = QuadraticTerms(ag, g)
  BY <1>7 DEF Products2, QuadraticTerms
<1>9. quadratic(ag, g) = SumE(QuadraticTerms(ag, g)) /\ quadratic(ag, g) \in Elems
  <2>1. IsFiniteSet(Pairs(s.r))
    <3>1. IsFiniteSet(Below(s.r) \X Below(s.r))
      <4>1. s.r \in Nat
        BY <1>1 DEF Proper, Shape
      <4>. QED  BY <4>1, FiniteBelow, FS_Product
    <3>2. Pairs(s.r) \subseteq Below(s.r) \X Below(s.r)
      BY DEF Pairs, Below
    <3>. QED  BY <3>1, <3>2, FS_Subset
  <2>2. IsSparse(ag, Pairs(s.r)) /\ \A p \in DOMAIN ag : g[p] \in Elems
    BY <1>2
  <2>. HIDE DEF ag, g
  <2>. QED  BY <2>1, <2>2, QuadraticIs
<1>. QED  BY <1>6, <1>8, <1>9 DEF s

DiagonalOf(h, n) == [a \in Below(n) |-> h[<<a, a>>]]

LEMMA HTests6 ==
  ASSUME NEW st, NEW i, NEW pr, NEW rep, Given(st, i, pr, rep)
  PROVE  LET s == ShapeOf(st, i)
         IN  /\ Tests(HCoef6(s, i), Openings(s, i, pr)) = Total(DiagonalOf(pr.h, st.r))
             /\ Total(DiagonalOf(pr.h, st.r)) \in Elems
<1>. DEFINE s == ShapeOf(st, i)
            f == HCoef6(s, i)
            J == Diagonal(s.r)
            h == pr.h
            one == constant(1)
            a == [p \in J |-> one]
            K == Openings(s, i, pr)
            d == DiagonalOf(h, st.r)
<1>1. /\ IsStatement(st) /\ i \in Parameters /\ IsRep(rep, st) /\ Proper(s) /\ OpensAll(s, i, pr)
      /\ s.r = st.r /\ s.t1 = i.t1 /\ pr.h \in [Pairs(s.r) -> Elems]
  BY GivenIs
<1>. HIDE DEF s
<1>2. J \in SUBSET Pairs(s.r) /\ one \in Elems
  BY ConstantIs DEF Diagonal
<1>3. IsCoef(f, s)
  BY <1>1, Coef6In
<1>4. PairWeights(a, J)
  <2>. HIDE DEF one
  <2>. QED  BY <1>2 DEF PairWeights
<1>5. OnChunks(f, HEntries(s), J, a, i.b1)
  <2>1. {x \in HEntries(s) : x[2] = x[3]} = AtPairs(HEntries(s), J)
    <3>1. \A x \in HEntries(s) : <<x[2], x[3]>> \in Pairs(s.r)
      BY PairIn
    <3>2. \A x \in HEntries(s) : x[2] = x[3] <=> <<x[2], x[3]>> \in J
      BY <3>1 DEF Diagonal
    <3>. HIDE DEF J
    <3>. QED  BY <3>2 DEF AtPairs
  <2>2. DOMAIN f = AtPairs(HEntries(s), J)
    BY <2>1 DEF HCoef6
  <2>3. ASSUME NEW e \in AtPairs(HEntries(s), J)
        PROVE  f[e] = Mul(a[<<e[2], e[3]>>], PowerOf(i.b1, e[4]))
    <3>. DEFINE y == PowerOf(i.b1, e[4])
    <3>1. e \in HEntries(s) /\ <<e[2], e[3]>> \in J /\ f[e] = y
      BY <2>1 DEF HCoef6, AtPairs
    <3>2. y \in Elems
      <4>1. i.b1 \in Nat /\ e[4] \in Nat
        BY <1>1, <3>1, ParametersAre, PairIn
      <4>. QED  BY <4>1, PowersIn
    <3>3. a[<<e[2], e[3]>>] = one
      BY <3>1
    <3>. HIDE DEF y, a, f
    <3>4. Mul(one, y) = y
      BY <3>2, ConstantRules
    <3>. QED  BY <3>1, <3>3, <3>4 DEF y
  <2>. HIDE DEF f, a
  <2>. QED  BY <2>2, <2>3 DEF OnChunks
<1>6. Tests(f, K) = SumE(Products2(J, a, h))
  <2>. HIDE DEF f, a, J
  <2>. QED  BY <1>1, <1>2, <1>3, <1>4, <1>5, HChunks
<1>7. Products2(J, a, h) = Part(h, J)
  <2>1. ASSUME NEW p \in J PROVE Mul(a[p], h[p]) = h[p]
    <3>. DEFINE x == h[p]
    <3>1. x \in Elems /\ a[p] = one
      BY <1>1, <1>2
    <3>. HIDE DEF x, a
    <3>2. Mul(one, x) = x
      BY <3>1, ConstantRules
    <3>. QED  BY <3>1, <3>2 DEF x
  <2>. HIDE DEF a
  <2>. QED  BY <2>1 DEF Products2, Part
<1>8. IsFamily(d, Below(st.r), Elems) /\ SumE(Part(h, J)) = SumE(d)
  <2>. DEFINE n == s.r
  <2>1. n \in Nat /\ h \in [Pairs(n) -> Elems] /\ n = st.r
    BY <1>1 DEF Proper, Shape
  <2>. HIDE DEF n, h
  <2>2. d = [b \in Below(n) |-> h[<<b, b>>]]
    BY <2>1 DEF DiagonalOf
  <2>. HIDE DEF d
  <2>. QED  BY <2>1, <2>2, OnDiagonal DEF n
<1>9. Total(d) = SumE(d) /\ SumE(d) \in Elems
  <2>. HIDE DEF d
  <2>. QED  BY <1>8, TotalIsSum
<1>. QED  BY <1>6, <1>7, <1>8, <1>9 DEF s

LEMMA Check6Holds ==
  ASSUME NEW st, NEW i, NEW pr, NEW rep, Given(st, i, pr, rep)
  PROVE  LET s == ShapeOf(st, i)
             u == build_folded_witness(s, i, pr)
         IN  eval_full(build_check6(s, i, rep), u) = Zero
               <=> Add(quadratic(rep.a_agg, pr.g), Total(DiagonalOf(pr.h, st.r))) = rep.b_agg
<1>. DEFINE s == ShapeOf(st, i)
            u == build_folded_witness(s, i, pr)
            o == GCoef6(s, i, rep)
            v == HCoef6(s, i)
            c == Coef6(s, i, rep)
            K == Openings(s, i, pr)
<1>1. /\ IsStatement(st) /\ i \in Parameters /\ IsRep(rep, st) /\ Proper(s) /\ OpensAll(s, i, pr)
      /\ rep.b_agg \in Elems
  BY GivenIs
<1>2. /\ IsCoef(o, s) /\ IsCoef(v, s) /\ IsCoef(c, s)
      /\ build_check6(s, i, rep) = Linear(s, c, rep.b_agg)
  BY <1>1, Coef6Joined
<1>3. c = Join(o, v)
  BY DEF Coef6
<1>4. Tests(o, K) = quadratic(rep.a_agg, pr.g)
  BY GTests6
<1>5. Tests(v, K) = Total(DiagonalOf(pr.h, st.r))
  BY HTests6
<1>. HIDE DEF s
<1>6. \A y \in DOMAIN o : y \notin DOMAIN v
  <2>1. \A y \in DOMAIN o : y[1] = "G"
    BY DEF GCoef6, GEntries
  <2>2. \A y \in DOMAIN v : y[1] = "H"
    BY DEF HCoef6, HEntries
  <2>. QED  BY <2>1, <2>2
<1>7. Tests(Join(o, v), K) = Add(Tests(o, K), Tests(v, K))
  <2>. HIDE DEF o, v
  <2>. QED  BY <1>1, <1>2, <1>6, TestsJoin
<1>8. eval_full(Linear(s, c, rep.b_agg), u) = Zero <=> Tests(c, K) = rep.b_agg
  <2>. HIDE DEF c
  <2>. QED  BY <1>1, <1>2, LinearHolds DEF c
<1>. QED  BY <1>2, <1>3, <1>4, <1>5, <1>7, <1>8 DEF s

-----------------------------------------------------------------------------
(* Checks 8 and 9: the rows of u_1 and u_2.                                 *)
LEMMA RowTests ==
  ASSUME NEW s, Proper(s), NEW pr, OpensAll(s, it, pr), NEW rep,
         NEW entries, entries \subseteq Sources(s), NEW row, IsCoef(RowCoef(rep, entries, row), s)
  PROVE  /\ Tests(RowCoef(rep, entries, row), Openings(s, it, pr)) = SumE(CommitTerms(rep.seeds, entries, pr, row))
         /\ Tests(RowCoef(rep, entries, row), Openings(s, it, pr)) \in Elems
<1>. DEFINE f == RowCoef(rep, entries, row)
            K == Openings(s, it, pr)
<1>1. Tests(f, K) \in Elems
  BY CoefTestsIn
<1>2. DOMAIN f = entries /\ \A e \in entries : f[e] = Matrix(rep.seeds, e, row) /\ K[e] = Opening(it, pr, e)
  BY DEF RowCoef, Openings
<1>. HIDE DEF f, K
<1>3. TestTerms(f, K) = CommitTerms(rep.seeds, entries, pr, row)
  BY <1>2 DEF TestTerms, CommitTerms
<1>. QED  BY <1>1, <1>3 DEF Tests, f, K

AreApart(V, T, S) == V \subseteq S /\ T \subseteq S /\ \A x \in V : x \notin T

TermsAdd(sd, pr, V, T, row) ==
  SumE(CommitTerms(sd, V \cup T, pr, row)) =
    Add(SumE(CommitTerms(sd, V, pr, row)), SumE(CommitTerms(sd, T, pr, row)))

LEMMA RowsApart2 ==
  ASSUME DrawsAreResidues, NEW s, Proper(s), NEW pr, OpensAll(s, it, pr), NEW rep,
         NEW V, NEW T, AreApart(V, T, Entries(s)), NEW row
  PROVE  TermsAdd(rep.seeds, pr, V, T, row)
<1>. DEFINE f == RowCoef(rep, V, row)
            g == RowCoef(rep, T, row)
            h == RowCoef(rep, V \cup T, row)
            K == Openings(s, it, pr)
<1>1. V \subseteq Sources(s) /\ T \subseteq Sources(s) /\ V \cup T \subseteq Sources(s) /\ V \cup T \subseteq Entries(s)
  BY DEF Sources, AreApart
<1>2. IsCoef(f, s) /\ IsCoef(g, s) /\ IsCoef(h, s)
  BY <1>1, RowsIn
<1>3. DOMAIN f = V /\ DOMAIN g = T /\ Join(f, g) = h /\ \A x \in V : x \notin T
  BY DEF RowCoef, Join, AreApart
<1>4. /\ Tests(f, K) = SumE(CommitTerms(rep.seeds, V, pr, row))
      /\ Tests(g, K) = SumE(CommitTerms(rep.seeds, T, pr, row))
      /\ Tests(h, K) = SumE(CommitTerms(rep.seeds, V \cup T, pr, row))
  BY <1>1, <1>2, RowTests
<1>. HIDE DEF f, g, h
<1>5. Tests(Join(f, g), K) = Add(Tests(f, K), Tests(g, K))
  BY <1>2, <1>3, TestsJoin
<1>. QED  BY <1>3, <1>4, <1>5 DEF TermsAdd

LEMMA RowsOfBoth ==
  ASSUME DrawsAreResidues, NEW s, Proper(s), NEW pr, OpensAll(s, it, pr), NEW rep, NEW row
  PROVE  SumE(CommitTerms(rep.seeds, VEntries(s) \cup GEntries(s), pr, row)) =
           Add(SumE(CommitTerms(rep.seeds, VEntries(s), pr, row)),
               SumE(CommitTerms(rep.seeds, GEntries(s), pr, row)))
<1>. DEFINE V == VEntries(s)
            T == GEntries(s)
<1>1. AreApart(V, T, Entries(s))
  BY DEF VEntries, GEntries, AreApart, Entries
<1>. HIDE DEF V, T
<1>2. TermsAdd(rep.seeds, pr, V, T, row)
  BY <1>1, RowsApart2
<1>. QED  BY <1>2 DEF V, T, TermsAdd

LEMMA Check9Holds ==
  ASSUME DrawsAreResidues, IsStatement(stmt), it \in Parameters, NEW rep, IsRep(rep, stmt),
         NEW pr, OpensAll(SourceShape, it, pr), pr.h \in [Pairs(stmt.r) -> Elems],
         pr.u2 \in [OuterRows -> Elems], NEW row \in OuterRows
  PROVE  eval_full(build_check9_row(SourceShape, rep, pr.u2, row), build_folded_witness(SourceShape, it, pr)) = Zero
           <=> pr.u2[row] = u_2(rep.seeds, pr)[row]
<1>. DEFINE s == SourceShape
            c == RowCoef(rep, HEntries(s), row)
            K == Openings(s, it, pr)
            b == pr.u2[row]
            u == build_folded_witness(s, it, pr)
<1>1. Proper(s) /\ b \in Elems
  BY ShapeIs DEF SourceShape
<1>2. Opens(HEntries(s), pr) /\ u_2(rep.seeds, pr) = OuterCommit(rep.seeds, HEntries(s), pr)
  BY u2In
<1>. HIDE DEF s
<1>3. HEntries(s) \subseteq Entries(s) /\ HEntries(s) \subseteq Sources(s) /\ IsFiniteSet(HEntries(s))
  BY <1>1, FiniteEntries DEF Entries
<1>4. IsCoef(c, s)
  BY <1>1, <1>3, RowsIn
<1>5. build_check9_row(s, rep, pr.u2, row) = Linear(s, c, b)
  BY DEF build_check9_row, RowCoef
<1>6. OpensAll(s, it, pr)
  BY DEF s
<1>7. Tests(c, K) = SumE(CommitTerms(rep.seeds, HEntries(s), pr, row))
  BY <1>1, <1>3, <1>4, <1>6, RowTests
<1>8. OuterCommit(rep.seeds, HEntries(s), pr)[row] = SumE(CommitTerms(rep.seeds, HEntries(s), pr, row))
  BY <1>2, <1>3, OuterCommitIs
<1>9. eval_full(Linear(s, c, b), u) = Zero <=> Tests(c, K) = b
  <2>. HIDE DEF c, b
  <2>. QED  BY <1>1, <1>4, <1>6, LinearHolds
<1>. QED  BY <1>2, <1>5, <1>7, <1>8, <1>9 DEF s

LEMMA Check8Holds ==
  ASSUME DrawsAreResidues, IsStatement(stmt), it \in Parameters, NEW rep, IsRep(rep, stmt),
         NEW pr, OpensAll(SourceShape, it, pr),
         pr.v \in [Vectors -> [Below(it.kappa) -> Elems]], pr.g \in [Pairs(stmt.r) -> Elems],
         pr.u1 \in [OuterRows -> Elems], NEW row \in OuterRows
  PROVE  eval_full(build_check8_row(SourceShape, rep, pr.u1, row), build_folded_witness(SourceShape, it, pr)) = Zero
           <=> pr.u1[row] = u_1(rep.seeds, pr, 0)[row]
<1>. DEFINE s == SourceShape
            V == VEntries(s)
            T == GEntries(s)
            c == RowCoef(rep, V \cup T, row)
            K == Openings(s, it, pr)
            b == pr.u1[row]
            u == build_folded_witness(s, it, pr)
            sd == rep.seeds
            cut == 0
            low == {e \in V : e[2] < cut}
            high == {e \in V : e[2] >= cut}
            S(entries) == SumE(CommitTerms(sd, entries, pr, row))
<1>1. Proper(s) /\ b \in Elems
  BY ShapeIs DEF SourceShape
<1>2. Opens(V \cup T, pr)
      /\ u_1(sd, pr, cut)[row] = Add(Add(OuterCommit(sd, low, pr)[row], OuterCommit(sd, high, pr)[row]),
                                     OuterCommit(sd, T, pr)[row])
  <2>. HIDE DEF cut, sd
  <2>. QED  BY u1In
<1>. HIDE DEF s
<1>3. /\ V \subseteq Entries(s) /\ T \subseteq Entries(s) /\ V \cup T \subseteq Sources(s)
      /\ V \cup T \subseteq Entries(s)
      /\ IsFiniteSet(V) /\ IsFiniteSet(T)
  BY <1>1, FiniteEntries DEF Entries
<1>4. high = V /\ \A x : x \notin low
  BY <1>1 DEF VEntries, Below, Proper, Shape
<1>5. IsCoef(c, s)
  BY <1>1, <1>3, RowsIn
<1>6. build_check8_row(s, rep, pr.u1, row) = Linear(s, c, b)
  BY DEF build_check8_row, RowCoef
<1>7. OpensAll(s, it, pr)
  BY DEF s
<1>8. Tests(c, K) = S(V \cup T)
  BY <1>1, <1>3, <1>5, <1>7, RowTests
<1>9. S(V \cup T) = Add(S(V), S(T))
  BY <1>1, <1>7, RowsOfBoth
<1>10. /\ OuterCommit(sd, V, pr)[row] = S(V) /\ OuterCommit(sd, T, pr)[row] = S(T)
       /\ IsFamily(CommitTerms(sd, V, pr, row), V, Elems)
  <2>1. Opens(V, pr) /\ Opens(T, pr)
    BY <1>2 DEF Opens
  <2>. HIDE DEF V, T, sd
  <2>. QED  BY <1>3, <2>1, OuterCommitIs
<1>11. OuterCommit(sd, low, pr)[row] = Zero
  <2>1. Opens(low, pr) /\ low \subseteq Entries(s) /\ IsFiniteSet(low)
    <3>1. low \subseteq V
      OBVIOUS
    <3>2. Opens(low, pr)
      BY <1>2 DEF Opens
    <3>. HIDE DEF low, V
    <3>. QED  BY <1>3, <3>1, <3>2, FS_Subset
  <2>. HIDE DEF low, sd
  <2>2. /\ IsFamily(CommitTerms(sd, low, pr, row), low, Elems)
        /\ OuterCommit(sd, low, pr)[row] = SumE(CommitTerms(sd, low, pr, row))
    BY <2>1, OuterCommitIs
  <2>. DEFINE f == CommitTerms(sd, low, pr, row)
  <2>3. IsFamily(f, low, Elems)
    BY <2>2
  <2>. HIDE DEF f
  <2>4. SumOf(AddE, Zero, f) = Zero
    BY <1>4, <2>3, ElemSums, SumOfNone
  <2>. QED  BY <2>2, <2>4 DEF f, SumE
<1>12. S(V) \in Elems
  <2>. DEFINE f == CommitTerms(sd, V, pr, row)
  <2>1. IsFamily(f, V, Elems)
    BY <1>10
  <2>. HIDE DEF f
  <2>2. SumE(f) \in Elems
    BY <2>1, TotalIsSum
  <2>. QED  BY <2>2 DEF f
<1>13. u_1(sd, pr, 0)[row] = Add(S(V), S(T))
  <2>1. u_1(sd, pr, 0)[row] = Add(Add(Zero, S(V)), S(T))
    BY <1>2, <1>4, <1>10, <1>11
  <2>. DEFINE x == S(V)
  <2>2. x \in Elems
    BY <1>12
  <2>. HIDE DEF x
  <2>3. Add(Zero, x) = x
    BY <2>2, AddRules
  <2>. QED  BY <2>1, <2>3 DEF x
<1>14. eval_full(Linear(s, c, b), u) = Zero <=> Tests(c, K) = b
  <2>. HIDE DEF c, b
  <2>. QED  BY <1>1, <1>5, <1>7, LinearHolds
<1>. QED  BY <1>6, <1>8, <1>9, <1>13, <1>14 DEF s

-----------------------------------------------------------------------------
(* The norm of the folded witness is that of the openings.                  *)
NormTerms(x) == [k \in Coeffs |-> Square(centered(q, x[k]))]

LEMMA NormIs ==
  ASSUME NEW x \in Elems
  PROVE  Norm_sq(x) \in Int /\ Norm_sq(x) = SumZ(NormTerms(x)) /\ IsFamily(NormTerms(x), Coeffs, Int)
<1>1. ASSUME NEW k \in Coeffs PROVE Square(centered(q, x[k])) \in Int
  <2>1. x[k] \in R
    BY ElemFacts
  <2>2. centered(q, x[k]) \in Int
    BY <2>1, CenteredIs
  <2>. QED  BY <2>2 DEF Square
<1>. DEFINE f == NormTerms(x)
<1>2. IsFamily(f, Coeffs, Int)
  BY <1>1, ElemFacts DEF IsFamily, NormTerms
<1>3. Norm_sq(x) = FoldFunction(+, 0, f)
  BY DEF Norm_sq, NormTerms
<1>. HIDE DEF f
<1>4. FoldFunction(+, 0, f) = SumZ(f) /\ SumZ(f) \in Int
  BY <1>2, FoldFunctionIsSum
<1>. QED  BY <1>2, <1>3, <1>4 DEF f

LEMMA NormOfZero == Norm_sq(Zero) = 0
<1>1. Zero \in Elems /\ IsFiniteSet(Coeffs) /\ \A k \in Coeffs : Zero[k] = 0
  BY ElemFacts
<1>2. Norm_sq(Zero) = SumZ(NormTerms(Zero))
  BY <1>1, NormIs
<1>3. q \in Nat /\ q >= 3
  BY ResidueFacts
<1>4. centered(q, 0) = 0
  <2>1. ~(0 > q \div 2)
    BY <1>3, Z3
  <2>. QED  BY <2>1 DEF centered
<1>5. Square(0) = 0
  BY DEF Square
<1>6. NormTerms(Zero) = [k \in Coeffs |-> 0]
  BY <1>1, <1>4, <1>5 DEF NormTerms
<1>7. SumOf(PlusZ, 0, [k \in Coeffs |-> 0]) = 0
  BY <1>1, Ints, SumOfUnits
<1>. QED  BY <1>2, <1>6, <1>7 DEF SumZ

LEMMA FoldZIs ==
  ASSUME NEW S, NEW f, IsFamily(f, S, Int)
  PROVE  FoldZ(f) = SumZ(f) /\ SumZ(f) \in Int
BY FoldFunctionIsSum DEF FoldZ

VectorNorms(u, n) == [p \in Below(n) |-> Norm_sq(u[p])]

LEMMA VectorNorm ==
  ASSUME NEW n \in Nat, NEW x \in [Below(n) -> Elems]
  PROVE  /\ IsFamily(VectorNorms(x, n), Below(n), Int)
         /\ TotalNorm(x) = SumZ(VectorNorms(x, n)) /\ TotalNorm(x) \in Int
<1>. DEFINE f == VectorNorms(x, n)
<1>1. \A p \in Below(n) : Norm_sq(x[p]) \in Int
  BY NormIs
<1>2. IsFamily(f, Below(n), Int)
  BY <1>1, FiniteBelow DEF IsFamily, VectorNorms
<1>3. TotalNorm(x) = FoldZ(f)
  BY DEF TotalNorm, FoldZ, VectorNorms
<1>. HIDE DEF f
<1>4. FoldZ(f) = SumZ(f) /\ SumZ(f) \in Int
  BY <1>2, FoldZIs
<1>. QED  BY <1>2, <1>3, <1>4 DEF f

SlotNorms(u, S) == [slot \in S |-> Norm_sq(At(u, slot))]

LEMMA WitnessNormIs ==
  ASSUME NEW n \in Nat, NEW r \in Nat, NEW u \in [Below(r) -> [Below(n) -> Elems]],
         NEW S, S = Below(r) \X Below(n)
  PROVE  IsFamily(SlotNorms(u, S), S, Int) /\ WitnessNorm(u) = SumZ(SlotNorms(u, S))
<1>. DEFINE J == Below(r)
            T == Below(n)
            f == SlotNorms(u, S)
            row == [a \in J |-> VectorNorms(u[a], n)]
            sums == [a \in J |-> TotalNorm(u[a])]
<1>1. IsFiniteSet(J) /\ IsFiniteSet(T) /\ IsFiniteSet(S)
  BY FiniteBelow, FS_Product
<1>2. ASSUME NEW a \in J
      PROVE  /\ IsFamily(row[a], T, Int) /\ sums[a] = SumZ(row[a]) /\ sums[a] \in Int
             /\ \A p \in T : row[a][p] = f[<<a, p>>]
  <2>. DEFINE x == u[a]
  <2>1. x \in [Below(n) -> Elems]
    OBVIOUS
  <2>2. row[a] = VectorNorms(x, n) /\ sums[a] = TotalNorm(x)
    OBVIOUS
  <2>3. \A p \in T : VectorNorms(x, n)[p] = f[<<a, p>>]
    BY DEF VectorNorms, SlotNorms, At
  <2>. HIDE DEF x, row, sums, f
  <2>4. IsFamily(VectorNorms(x, n), Below(n), Int) /\ TotalNorm(x) = SumZ(VectorNorms(x, n)) /\ TotalNorm(x) \in Int
    BY <2>1, VectorNorm
  <2>. QED  BY <2>2, <2>3, <2>4
<1>3. IsFamily(f, S, Int)
  <2>1. \A slot \in S : At(u, slot) \in Elems
    BY DEF At
  <2>2. \A slot \in S : Norm_sq(At(u, slot)) \in Int
    BY <2>1, NormIs
  <2>. QED  BY <1>1, <2>2 DEF IsFamily, SlotNorms
<1>4. IsFamily(sums, J, Int)
  BY <1>1, <1>2 DEF IsFamily
<1>5. WitnessNorm(u) = FoldZ(sums)
  BY DEF WitnessNorm, FoldZ
<1>6. FoldZ(sums) = SumZ(sums)
  <2>. HIDE DEF sums
  <2>. QED  BY <1>4, FoldZIs
<1>7. Rows2(row, f, J, T, Int) /\ AreSums(sums, row, J, PlusZ, 0)
  <2>. HIDE DEF row, sums, f, T
  <2>. QED  BY <1>2 DEF Rows2, AreSums, SumZ
<1>8. IsFamily(f, J \X T, Int)
  BY <1>3
<1>. HIDE DEF row, sums, f, J, T
<1>9. SumZ(f) = SumZ(sums)
  BY <1>1, <1>4, <1>7, <1>8, Ints, SumOfPairs DEF SumZ
<1>. QED  BY <1>3, <1>5, <1>6, <1>9 DEF f

OpeningNorms(s, i, pr) == [x \in Sources(s) |-> Norm_sq(Opening(i, pr, x))]

LEMMA NormsAgree ==
  ASSUME NEW s, Proper(s), NEW i, NEW pr, OpensAll(s, i, pr)
  PROVE  WitnessNorm(build_folded_witness(s, i, pr)) = TotalNorm([x \in Sources(s) |-> Opening(i, pr, x)])
<1>. DEFINE u == build_folded_witness(s, i, pr)
            n == NPrime(s)
            r == RPrime(s)
            T == Sources(s)
            S == Slots(s)
            f == SlotNorms(u, S)
            img == {SlotOf(s, x) : x \in T}
            p == [x \in T |-> SlotOf(s, x)]
            g == OpeningNorms(s, i, pr)
            k == Part(f, img)
<1>1. /\ IsWitness(u, FoldedSize(s)) /\ \A x \in T : At(u, SlotOf(s, x)) = Opening(i, pr, x)
      /\ \A slot \in S : (\A x \in T : SlotOf(s, x) # slot) => At(u, slot) = Zero
  BY FoldedHolds
<1>2. n \in Nat /\ r \in Nat
  BY Lengths
<1>3. u \in [Below(r) -> [Below(n) -> Elems]]
  BY <1>1 DEF IsWitness, FoldedSize, Below
<1>4. IsFiniteSet(T)
  BY FiniteEntries
<1>5. img \in SUBSET S /\ Renumbers(p, T, img)
  <2>1. \A x \in T : SlotOf(s, x) \in S
    BY SlotInside
  <2>2. \A x, y \in T : SlotOf(s, x) = SlotOf(s, y) => x = y
    BY SlotInjective
  <2>. HIDE DEF S, T
  <2>. QED  BY <2>1, <2>2 DEF Renumbers
<1>6. \A x \in T : Opening(i, pr, x) \in Elems
  BY DEF OpensAll
<1>7. S = Below(r) \X Below(n)
  BY DEF Slots
<1>8. IsFamily(f, S, Int) /\ WitnessNorm(u) = SumZ(f)
  <2>. HIDE DEF u, n, r, S
  <2>. QED  BY <1>2, <1>3, <1>7, WitnessNormIs
<1>9. \A slot \in S : f[slot] = Norm_sq(At(u, slot))
  BY DEF SlotNorms
<1>10. \A slot \in S \ img : f[slot] = 0
  <2>1. ASSUME NEW slot \in S \ img PROVE f[slot] = 0
    <3>1. \A x \in T : SlotOf(s, x) # slot
      OBVIOUS
    <3>2. At(u, slot) = Zero
      BY <1>1, <3>1
    <3>. QED  BY <1>9, <3>2, NormOfZero
  <2>. QED  BY <2>1
<1>11. ASSUME NEW x \in T PROVE g[x] = k[p[x]] /\ g[x] \in Int
  <2>1. g[x] = Norm_sq(Opening(i, pr, x)) /\ p[x] = SlotOf(s, x) /\ p[x] \in img /\ p[x] \in S
    BY <1>5 DEF OpeningNorms
  <2>2. k[p[x]] = f[p[x]] /\ f[p[x]] = Norm_sq(At(u, p[x]))
    BY <1>9, <2>1 DEF Part
  <2>3. At(u, p[x]) = Opening(i, pr, x)
    BY <1>1, <2>1
  <2>. QED  BY <1>6, <2>1, <2>2, <2>3, NormIs
<1>12. IsFamily(g, T, Int)
  BY <1>4, <1>11 DEF IsFamily, OpeningNorms
<1>13. TotalNorm([x \in T |-> Opening(i, pr, x)]) = FoldZ(g)
  BY DEF TotalNorm, FoldZ, OpeningNorms
<1>14. FoldZ(g) = SumZ(g)
  <2>. HIDE DEF g, T
  <2>. QED  BY <1>12, FoldZIs
<1>15. IsFiniteSet(S) /\ f \in [S -> Int] /\ g \in [T -> Int]
  BY <1>8, <1>12 DEF IsFamily
<1>16. IsFiniteSet(img) /\ k \in [img -> Int]
  <2>. HIDE DEF f, S, img
  <2>. QED  BY <1>5, <1>15, PartOf
<1>. HIDE DEF f, g, k, p, S, T, img, u
<1>17. SumZ(f) = SumZ(k)
  BY <1>5, <1>10, <1>15, Ints, SumOutside DEF SumZ, k
<1>18. SumZ(g) = SumZ(k)
  BY <1>4, <1>5, <1>11, <1>15, <1>16, Ints, SumReindex DEF SumZ
<1>. QED  BY <1>8, <1>13, <1>14, <1>17, <1>18 DEF u, T

-----------------------------------------------------------------------------
(* Check 4: the square of z from the products of its halves.                *)
LEMMA SquareOfWhole ==
  ASSUME NEW b \in Nat, NEW x \in Elems, NEW y \in Elems
  PROVE  LET v == Whole(b, x, y)
             m == Mul(constant(b), Mul(x, y))
         IN  /\ v \in Elems /\ Mul(v, v) \in Elems
             /\ Mul(v, v) = Add(Add(Mul(x, x), Add(m, m)), Mul(constant(b * b), Mul(y, y)))
<1>. DEFINE c == constant(b)
            t == Mul(c, y)
            v == Whole(b, x, y)
            m == Mul(c, Mul(x, y))
            s1 == Mul(x, x)
            s2 == Mul(t, t)
<1>0. b \in Int /\ b * b \in Int
  OBVIOUS
<1>1. c \in Elems /\ t \in Elems /\ v = Add(x, t)
  <2>1. c \in Elems
    BY ConstantIs
  <2>. HIDE DEF c
  <2>2. Mul(c, y) \in Elems
    BY <2>1, MulIs
  <2>. QED  BY <2>1, <2>2 DEF Whole, c
<1>2. v \in Elems /\ Mul(v, v) \in Elems
  <2>. HIDE DEF t, c
  <2>1. Add(x, t) \in Elems
    BY <1>1, AddRules
  <2>. HIDE DEF v
  <2>2. v \in Elems
    BY <1>1, <2>1
  <2>. QED  BY <2>2, MulIs
<1>3. Mul(x, t) = m
  <2>. HIDE DEF c
  <2>1. Mul(x, Mul(c, y)) = Mul(Mul(x, c), y) /\ Mul(x, c) = Mul(c, x) /\ Mul(Mul(c, x), y) = Mul(c, Mul(x, y))
    BY <1>1, MulRules
  <2>. QED  BY <2>1
<1>4. s2 = Mul(constant(b * b), Mul(y, y))
  <2>. HIDE DEF c
  <2>1. Mul(c, c) = constant(b * b)
    BY <1>0, <1>1, ConstantRules DEF c
  <2>2. /\ Mul(Mul(c, y), t) = Mul(c, Mul(y, t)) /\ Mul(y, t) = Mul(t, y)
        /\ Mul(y, y) \in Elems
    <3>. HIDE DEF t
    <3>. QED  BY <1>1, MulRules
  <2>3. Mul(t, y) = Mul(c, Mul(y, y))
    BY <1>1, MulRules
  <2>. DEFINE yy == Mul(y, y)
  <2>4. yy \in Elems
    BY <2>2
  <2>5. s2 = Mul(c, Mul(c, yy))
    BY <2>2, <2>3
  <2>. HIDE DEF yy, s2, t
  <2>6. Mul(c, Mul(c, yy)) = Mul(Mul(c, c), yy)
    BY <1>1, <2>4, MulRules
  <2>. QED  BY <2>1, <2>5, <2>6 DEF yy
<1>5. m \in Elems /\ s1 \in Elems /\ s2 \in Elems
  <2>1. Mul(x, t) \in Elems
    <3>. HIDE DEF t
    <3>. QED  BY <1>1, MulIs
  <2>2. Mul(x, x) \in Elems /\ Mul(t, t) \in Elems
    <3>. HIDE DEF t
    <3>. QED  BY <1>1, MulIs
  <2>. QED  BY <1>3, <2>1, <2>2
<1>6. Mul(Add(x, t), Add(x, t)) = Add(Add(s1, Mul(x, t)), Add(Mul(t, x), s2))
  <2>. DEFINE a == Add(x, t)
  <2>. HIDE DEF t
  <2>1. a \in Elems
    BY <1>1, AddRules
  <2>2. Mul(a, a) = Add(Mul(a, x), Mul(a, t))
    <3>. HIDE DEF a
    <3>1. Mul(a, Add(x, t)) = Add(Mul(a, x), Mul(a, t))
      BY <1>1, <2>1, MulRules
    <3>. QED  BY <3>1 DEF a
  <2>3. Mul(Add(x, t), x) = Add(Mul(x, x), Mul(t, x)) /\ Mul(Add(x, t), t) = Add(Mul(x, t), Mul(t, t))
    BY <1>1, MulRules
  <2>4. Mul(t, x) = Mul(x, t)
    BY <1>1, MulRules
  <2>. QED  BY <2>2, <2>3, <2>4
<1>7. Mul(t, x) = m
  <2>1. Mul(t, x) = Mul(x, t)
    <3>. HIDE DEF t
    <3>. QED  BY <1>1, MulRules
  <2>. QED  BY <1>3, <2>1
<1>8. Mul(v, v) = Add(Add(s1, m), Add(m, s2))
  BY <1>1, <1>3, <1>6, <1>7
<1>. HIDE DEF s1, s2, m, t, v, c
<1>9. Add(Add(s1, m), Add(m, s2)) = Add(Add(s1, Add(m, m)), s2)
  <2>1. Add(m, m) \in Elems /\ Add(s1, m) \in Elems
    BY <1>5, AddRules
  <2>2. Add(Add(Add(s1, m), m), s2) = Add(Add(s1, m), Add(m, s2))
    BY <1>5, <2>1, AddRules
  <2>3. Add(Add(s1, m), m) = Add(s1, Add(m, m))
    BY <1>5, AddRules
  <2>. QED  BY <2>2, <2>3
<1>. QED  BY <1>2, <1>4, <1>8, <1>9 DEF v, m, c, s1

SlotProducts(x, y, n) == [p \in Below(n) |-> Mul(x[p], y[p])]

IsVector(x, n) == x \in [Below(n) -> Elems]

LEMMA SlotProductsIn ==
  ASSUME NEW n \in Nat, NEW x, IsVector(x, n), NEW y, IsVector(y, n)
  PROVE  /\ IsFamily(SlotProducts(x, y, n), Below(n), Elems)
         /\ ring_inner_product(x, y) = SumE(SlotProducts(x, y, n)) /\ ring_inner_product(x, y) \in Elems
<1>1. IsFiniteSet(Below(n))
  BY FiniteBelow
<1>2. \A p \in Below(n) : Mul(x[p], y[p]) \in Elems
  <2>1. \A p \in Below(n) : x[p] \in Elems /\ y[p] \in Elems
    BY DEF IsVector
  <2>. QED  BY <2>1, MulIs
<1>. DEFINE f == SlotProducts(x, y, n)
<1>3. IsFamily(f, Below(n), Elems)
  BY <1>1, <1>2 DEF IsFamily, SlotProducts
<1>4. ring_inner_product(x, y) = Total(f)
  BY DEF ring_inner_product, SlotProducts, IsVector
<1>. HIDE DEF f
<1>5. Total(f) = SumE(f) /\ SumE(f) \in Elems
  BY <1>3, TotalIsSum
<1>. QED  BY <1>3, <1>4, <1>5 DEF f

LEMMA ThreeProducts ==
  ASSUME NEW n \in Nat, NEW x, IsVector(x, n), NEW y, IsVector(y, n)
  PROVE  LET xx == SlotProducts(x, x, n)
             xy == SlotProducts(x, y, n)
             yy == SlotProducts(y, y, n)
         IN  /\ IsFamily(xx, Below(n), Elems) /\ ring_inner_product(x, x) = SumE(xx)
             /\ IsFamily(xy, Below(n), Elems) /\ ring_inner_product(x, y) = SumE(xy)
             /\ IsFamily(yy, Below(n), Elems) /\ ring_inner_product(y, y) = SumE(yy)
<1>1. IsFamily(SlotProducts(x, x, n), Below(n), Elems) /\ ring_inner_product(x, x) = SumE(SlotProducts(x, x, n))
  BY SlotProductsIn
<1>2. IsFamily(SlotProducts(x, y, n), Below(n), Elems) /\ ring_inner_product(x, y) = SumE(SlotProducts(x, y, n))
  BY SlotProductsIn
<1>3. IsFamily(SlotProducts(y, y, n), Below(n), Elems) /\ ring_inner_product(y, y) = SumE(SlotProducts(y, y, n))
  BY SlotProductsIn
<1>. QED  BY <1>1, <1>2, <1>3

LEMMA SquareOfVector ==
  ASSUME NEW b \in Nat, NEW n \in Nat, NEW x \in [Below(n) -> Elems], NEW y \in [Below(n) -> Elems],
         NEW v, v = [p \in Below(n) |-> Whole(b, x[p], y[p])]
  PROVE  LET m == Mul(constant(b), ring_inner_product(x, y))
         IN  /\ v \in [Below(n) -> Elems]
             /\ SumE(SlotProducts(v, v, n)) =
                  Add(Add(ring_inner_product(x, x), Add(m, m)), Mul(constant(b * b), ring_inner_product(y, y)))
<1>. DEFINE S == Below(n)
            c == constant(b)
            d == constant(b * b)
            xx == SlotProducts(x, x, n)
            xy == SlotProducts(x, y, n)
            yy == SlotProducts(y, y, n)
            ms == [p \in S |-> Mul(c, xy[p])]
            mm == [p \in S |-> Add(ms[p], ms[p])]
            dy == [p \in S |-> Mul(d, yy[p])]
            xm == [p \in S |-> Add(xx[p], mm[p])]
            vv == SlotProducts(v, v, n)
<1>1. /\ IsFamily(xx, S, Elems) /\ ring_inner_product(x, x) = SumE(xx)
      /\ IsFamily(xy, S, Elems) /\ ring_inner_product(x, y) = SumE(xy)
      /\ IsFamily(yy, S, Elems) /\ ring_inner_product(y, y) = SumE(yy)
  BY ThreeProducts DEF IsVector
<1>2. c \in Elems /\ d \in Elems
  <2>1. b \in Int /\ b * b \in Int
    OBVIOUS
  <2>. QED  BY <2>1, ConstantIs
<1>3. ASSUME NEW p \in S
      PROVE  /\ v[p] \in Elems /\ Mul(v[p], v[p]) \in Elems
             /\ Mul(v[p], v[p]) = Add(Add(Mul(x[p], x[p]), Add(Mul(c, Mul(x[p], y[p])), Mul(c, Mul(x[p], y[p])))),
                                      Mul(d, Mul(y[p], y[p])))
  <2>. DEFINE x1 == x[p]
              y1 == y[p]
  <2>1. x1 \in Elems /\ y1 \in Elems /\ v[p] = Whole(b, x1, y1)
    OBVIOUS
  <2>. HIDE DEF x1, y1
  <2>2. LET v1 == Whole(b, x1, y1)
            m == Mul(constant(b), Mul(x1, y1))
        IN  /\ v1 \in Elems /\ Mul(v1, v1) \in Elems
            /\ Mul(v1, v1) = Add(Add(Mul(x1, x1), Add(m, m)), Mul(constant(b * b), Mul(y1, y1)))
    BY <2>1, SquareOfWhole
  <2>. QED  BY <2>1, <2>2 DEF x1, y1
<1>4. \A p \in S : xx[p] = Mul(x[p], x[p]) /\ xy[p] = Mul(x[p], y[p]) /\ yy[p] = Mul(y[p], y[p])
                   /\ vv[p] = Mul(v[p], v[p])
  BY DEF SlotProducts
<1>5. /\ \A p \in S : ms[p] = Mul(c, xy[p])
      /\ \A p \in S : mm[p] = Add(ms[p], ms[p])
      /\ \A p \in S : dy[p] = Mul(d, yy[p])
      /\ \A p \in S : xm[p] = Add(xx[p], mm[p])
  OBVIOUS
<1>6. v \in [S -> Elems] /\ IsFiniteSet(S) /\ DOMAIN ms = S /\ DOMAIN mm = S /\ DOMAIN dy = S /\ DOMAIN xm = S
      /\ DOMAIN vv = S
  BY <1>1, <1>3 DEF IsFamily, SlotProducts
<1>7. /\ ms = [p \in DOMAIN ms |-> ms[p]] /\ mm = [p \in DOMAIN mm |-> mm[p]] /\ dy = [p \in DOMAIN dy |-> dy[p]]
      /\ xm = [p \in DOMAIN xm |-> xm[p]] /\ vv = [p \in DOMAIN vv |-> vv[p]]
  BY DEF SlotProducts
<1>. HIDE DEF ms, mm, dy, xm, vv, xx, xy, yy, c, d, S
<1>8. IsFamily(ms, S, Elems)
  BY <1>1, <1>2, <1>5, <1>6, <1>7, MulIs DEF IsFamily
<1>9. IsFamily(mm, S, Elems)
  BY <1>5, <1>6, <1>7, <1>8, AddRules DEF IsFamily
<1>10. IsFamily(dy, S, Elems)
  BY <1>1, <1>2, <1>5, <1>6, <1>7, MulIs DEF IsFamily
<1>11. IsFamily(xm, S, Elems)
  BY <1>1, <1>5, <1>6, <1>7, <1>9, AddRules DEF IsFamily
<1>12. IsFamily(vv, S, Elems) /\ \A p \in S : vv[p] = Add(xm[p], dy[p])
  BY <1>3, <1>4, <1>5, <1>6, <1>7 DEF IsFamily
<1>13. SumE(ms) = Mul(c, SumE(xy))
  BY <1>1, <1>2, <1>5, <1>8, MulOfSum
<1>14. SumE(dy) = Mul(d, SumE(yy))
  BY <1>1, <1>2, <1>5, <1>10, MulOfSum
<1>15. SumE(mm) = Add(SumE(ms), SumE(ms))
  BY <1>5, <1>8, <1>9, SumOfPairwise
<1>16. SumE(xm) = Add(SumE(xx), SumE(mm))
  BY <1>1, <1>5, <1>9, <1>11, SumOfPairwise
<1>17. SumE(vv) = Add(SumE(xm), SumE(dy))
  BY <1>10, <1>11, <1>12, SumOfPairwise
<1>. QED  BY <1>1, <1>6, <1>13, <1>14, <1>15, <1>16, <1>17 DEF c, d, vv, S

LEMMA SumsToThree ==
  ASSUME NEW f, NEW a, NEW b, NEW c, a # b, a # c, b # c,
         f[a] \in Elems, f[b] \in Elems, f[c] \in Elems
  PROVE  SumsTo(Elems, AddE, Zero, f, {a, b, c}, Add(Add(f[a], f[b]), f[c]))
<1>. DEFINE S == {a, b, c}
            row == Part(f, S)
            p == Identity(S)
<1>1. IsFiniteSet(S)
  <2>1. IsFiniteSet({a, b}) /\ IsFiniteSet({c}) /\ S = {a, b} \cup {c}
    BY FinitePair, FS_Singleton
  <2>. QED  BY <2>1, FS_Union
<1>2. IsFamily(row, S, Elems) /\ row[a] = f[a] /\ row[b] = f[b] /\ row[c] = f[c]
      /\ \A y \in S : row[y] = f[y]
  BY <1>1 DEF IsFamily, Part
<1>3. Part(row, S \ {c}) = Part(f, {a, b}) /\ c \in S
  BY DEF Part
<1>4. IsFamily(Part(f, {a, b}), {a, b}, Elems) /\ Part(f, {a, b})[a] = f[a] /\ Part(f, {a, b})[b] = f[b]
  BY FinitePair DEF IsFamily, Part
<1>. HIDE DEF row, S
<1>5. SumE(Part(f, {a, b})) = Add(f[a], f[b])
  <2>. DEFINE g == Part(f, {a, b})
  <2>1. IsFamily(g, {a, b}, Elems) /\ g[a] = f[a] /\ g[b] = f[b]
    BY <1>4
  <2>. HIDE DEF g
  <2>2. SumE(g) = Add(g[a], g[b])
    BY <2>1, SumOfTwo
  <2>. QED  BY <2>1, <2>2 DEF g
<1>6. SumE(row) = AddE[<<row[c], SumE(Part(row, S \ {c}))>>]
  <2>1. IsFiniteSet(S) /\ row \in [S -> Elems]
    BY <1>2 DEF IsFamily
  <2>. QED  BY <1>3, <2>1, ElemSums, SumBasics DEF SumE
<1>7. Add(f[a], f[b]) \in Elems
  BY AddRules
<1>8. SumE(row) = Add(f[c], Add(f[a], f[b]))
  BY <1>2, <1>3, <1>5, <1>6, <1>7, ElemSums
<1>9. Add(f[c], Add(f[a], f[b])) = Add(Add(f[a], f[b]), f[c])
  BY <1>7, AddRules
<1>10. SumsTo(Elems, AddE, Zero, f, S, SumE(row))
  BY <1>2, SumsToHere
<1>. QED  BY <1>8, <1>9, <1>10 DEF S

-----------------------------------------------------------------------------
(* Check 4: the halves of z lie one above the other.                        *)
LEMMA FoldedSlots ==
  ASSUME NEW s, Proper(s), NEW x \in Sources(s)
  PROVE  \/ /\ x = ZEntry(0, x[3]) /\ x[3] \in Below(s.n) /\ SlotOf(s, x) = Z0(s, x[3])
            /\ Z0(s, x[3])[1] \in Below(s.nu)
         \/ /\ x = ZEntry(1, x[3]) /\ x[3] \in Below(s.n) /\ SlotOf(s, x) = <<s.nu + Z0(s, x[3])[1], Z0(s, x[3])[2]>>
            /\ Z0(s, x[3])[1] \in Below(s.nu)
         \/ /\ x \in Entries(s) /\ SlotOf(s, x)[1] \in Nat /\ SlotOf(s, x)[1] >= 2 * s.nu
<1>0. s.nu \in Nat /\ s.mu \in Nat /\ ZLen(s) \in Nat
  BY Lengths
<1>1. CASE x = ZEntry(0, x[3]) /\ x[1] = "z" /\ x[2] = 0 /\ x[3] \in 0..(s.n - 1)
  BY <1>0, <1>1, Z0Slot DEF SlotOf, Below
<1>2. CASE x = ZEntry(1, x[3]) /\ x[1] = "z" /\ x[2] = 1 /\ x[3] \in 0..(s.n - 1)
  BY <1>0, <1>2, Z0Slot, Z1Slot DEF SlotOf, Below
<1>3. CASE x[1] # "z" /\ x \in Entries(s)
  <2>1. Pos(s, x) \in 0..(ELen(s) - 1)
    BY <1>3, PosBlock
  <2>. DEFINE p == Pos(s, x)
              a == p \div EPieceLen(s)
  <2>2. SlotOf(s, x) = E(s, p)
    BY <1>3 DEF SlotOf
  <2>3. p \in 0..(ELen(s) - 1)
    BY <2>1
  <2>. HIDE DEF p
  <2>4. E(s, p) = <<2 * s.nu + (p \div EPieceLen(s)), p % EPieceLen(s)>> /\ p \div EPieceLen(s) \in 0..(s.mu - 1)
    BY <2>3, ESlot
  <2>5. a \in 0..(s.mu - 1) /\ SlotOf(s, x)[1] = 2 * s.nu + a
    BY <2>2, <2>4
  <2>. HIDE DEF a
  <2>. QED  BY <1>0, <1>3, <2>5
<1>. QED  BY <1>1, <1>2, <1>3, SourceKinds

HalvesAt(s, i, u, j) == [p \in Below(NPrime(s)) |-> Whole(i.b, u[j][p], u[s.nu + j][p])]

LEMMA HalvesAre ==
  ASSUME NEW s, Proper(s), NEW i \in Parameters, NEW pr, OpensAll(s, i, pr),
         pr.z0 \in [Below(s.n) -> Elems], pr.z1 \in [Below(s.n) -> Elems],
         NEW j \in Below(s.nu), NEW p \in Below(NPrime(s))
  PROVE  LET v == HalvesAt(s, i, build_folded_witness(s, i, pr), j)[p]
         IN  /\ \A t \in Below(s.n) : Z0(s, t) = <<j, p>> => v = WholeZ(i, pr)[t]
             /\ (\A t \in Below(s.n) : Z0(s, t) # <<j, p>>) => v = Zero
<1>. DEFINE u == build_folded_witness(s, i, pr)
            x == At(u, <<j, p>>)
            y == At(u, <<s.nu + j, p>>)
            v == HalvesAt(s, i, u, j)[p]
<1>0. s.nu \in Nat /\ s.mu \in Nat /\ RPrime(s) = 2 * s.nu + s.mu /\ i.b \in Nat
  BY Lengths, ParametersAre
<1>1. <<j, p>> \in Slots(s) /\ <<s.nu + j, p>> \in Slots(s)
  BY <1>0 DEF Slots, Below
<1>2. v = Whole(i.b, x, y)
  BY DEF HalvesAt, At
<1>. HIDE DEF u
<1>3. /\ \A e \in Sources(s) : At(u, SlotOf(s, e)) = Opening(i, pr, e)
      /\ \A slot \in Slots(s) : (\A e \in Sources(s) : SlotOf(s, e) # slot) => At(u, slot) = Zero
  BY FoldedHolds DEF u
<1>4. ASSUME NEW t \in Below(s.n), Z0(s, t) = <<j, p>>
      PROVE  v = WholeZ(i, pr)[t]
  <2>1. ZEntry(0, t) \in Sources(s) /\ ZEntry(1, t) \in Sources(s)
    BY DEF Sources, Below
  <2>2. SlotOf(s, ZEntry(0, t)) = <<j, p>> /\ SlotOf(s, ZEntry(1, t)) = <<s.nu + j, p>>
    <3>1. Z1(s, t) = <<s.nu + Z0(s, t)[1], Z0(s, t)[2]>>
      BY DEF Z1, Z0, Shift
    <3>. QED  BY <1>4, <3>1 DEF SlotOf, ZEntry
  <2>3. x = Opening(i, pr, ZEntry(0, t)) /\ y = Opening(i, pr, ZEntry(1, t))
    BY <1>3, <2>1, <2>2
  <2>4. x = pr.z0[t] /\ y = pr.z1[t]
    BY <2>3, ZOpening
  <2>. QED  BY <1>2, <2>4 DEF WholeZ
<1>5. ASSUME \A t \in Below(s.n) : Z0(s, t) # <<j, p>>
      PROVE  v = Zero
  <2>1. ASSUME NEW e \in Sources(s)
        PROVE  SlotOf(s, e) # <<j, p>> /\ SlotOf(s, e) # <<s.nu + j, p>>
    <3>. DEFINE slot == SlotOf(s, e)
                zz == Z0(s, e[3])
    <3>0. j \in Nat /\ j < s.nu
      BY <1>0 DEF Below
    <3>1. \/ /\ e[3] \in Below(s.n) /\ slot = zz /\ zz[1] \in Below(s.nu)
          \/ /\ e[3] \in Below(s.n) /\ slot = <<s.nu + zz[1], zz[2]>> /\ zz[1] \in Below(s.nu)
          \/ slot[1] \in Nat /\ slot[1] >= 2 * s.nu
      BY FoldedSlots
    <3>2. e[3] \in Below(s.n) => zz # <<j, p>> /\ zz = <<zz[1], zz[2]>>
      BY <1>5 DEF Z0, Locate
    <3>. HIDE DEF slot, zz
    <3>3. slot # <<j, p>>
      BY <1>0, <3>0, <3>1, <3>2 DEF Below
    <3>4. slot # <<s.nu + j, p>>
      BY <1>0, <3>0, <3>1, <3>2 DEF Below
    <3>. QED  BY <3>3, <3>4 DEF slot
  <2>2. x = Zero /\ y = Zero
    BY <1>1, <1>3, <2>1
  <2>3. Whole(i.b, Zero, Zero) = Zero
    <3>. DEFINE c == constant(i.b)
    <3>1. c \in Elems /\ Zero \in Elems
      BY <1>0, ConstantIs, ElemFacts
    <3>. HIDE DEF c
    <3>2. Mul(c, Zero) = Zero /\ Add(Zero, Zero) = Zero
      BY <3>1, MulRules, AddRules
    <3>. QED  BY <3>2 DEF Whole, c
  <2>. QED  BY <1>2, <2>2, <2>3
<1>. QED  BY <1>4, <1>5 DEF u

-----------------------------------------------------------------------------
LEMMA HalvesIn ==
  ASSUME NEW s, Proper(s), NEW i \in Parameters, NEW pr, OpensAll(s, i, pr), NEW j \in Below(s.nu)
  PROVE  LET u == build_folded_witness(s, i, pr)
             v == HalvesAt(s, i, u, j)
             n == NPrime(s)
         IN  /\ u[j] \in [Below(n) -> Elems] /\ u[s.nu + j] \in [Below(n) -> Elems]
             /\ v \in [Below(n) -> Elems] /\ \A p \in Below(n) : Mul(v[p], v[p]) \in Elems
<1>. DEFINE u == build_folded_witness(s, i, pr)
            v == HalvesAt(s, i, u, j)
            n == NPrime(s)
<1>1. s.nu \in Nat /\ s.mu \in Nat /\ RPrime(s) = 2 * s.nu + s.mu /\ i.b \in Nat
  BY Lengths, ParametersAre
<1>2. j \in 0..(RPrime(s) - 1) /\ s.nu + j \in 0..(RPrime(s) - 1)
  BY <1>1 DEF Below
<1>3. IsWitness(u, FoldedSize(s))
  BY FoldedHolds
<1>. HIDE DEF u
<1>4. u \in [0..(RPrime(s) - 1) -> [0..(n - 1) -> Elems]]
  BY <1>3 DEF IsWitness, FoldedSize
<1>5. u[j] \in [0..(n - 1) -> Elems] /\ u[s.nu + j] \in [0..(n - 1) -> Elems]
  BY <1>2, <1>4
<1>. HIDE DEF n
<1>6. \A p \in Below(n) : u[j][p] \in Elems /\ u[s.nu + j][p] \in Elems
  BY <1>5 DEF Below
<1>7. \A p \in Below(n) : Whole(i.b, u[j][p], u[s.nu + j][p]) \in Elems
  BY <1>1, <1>6, RecomposeTwo
<1>8. v \in [Below(n) -> Elems]
  BY <1>7 DEF HalvesAt, n
<1>9. \A p \in Below(n) : Mul(v[p], v[p]) \in Elems
  <2>. HIDE DEF v
  <2>1. \A p \in Below(n) : v[p] \in Elems
    BY <1>8
  <2>. QED  BY <2>1, MulIs
<1>. QED  BY <1>5, <1>8, <1>9 DEF Below, u, n

SquaresOf(s, i, u) ==
  [j \in Below(s.nu) |-> SumE(SlotProducts(HalvesAt(s, i, u, j), HalvesAt(s, i, u, j), NPrime(s)))]

LEMMA SquareOfZ ==
  ASSUME NEW s, Proper(s), NEW i \in Parameters, NEW pr, OpensAll(s, i, pr),
         pr.z0 \in [Below(s.n) -> Elems], pr.z1 \in [Below(s.n) -> Elems]
  PROVE  LET u == build_folded_witness(s, i, pr)
             x == WholeZ(i, pr)
         IN  /\ IsFamily(SquaresOf(s, i, u), Below(s.nu), Elems)
             /\ SumE(SquaresOf(s, i, u)) = ring_inner_product(x, x)
             /\ ring_inner_product(x, x) \in Elems
<1>. DEFINE u == build_folded_witness(s, i, pr)
            x == WholeZ(i, pr)
            J == Below(s.nu)
            T == Below(NPrime(s))
            K == Below(s.n)
            v == [j \in J |-> HalvesAt(s, i, u, j)]
            f == [y \in J \X T |-> Mul(v[y[1]][y[2]], v[y[1]][y[2]])]
            row == [j \in J |-> SlotProducts(v[j], v[j], NPrime(s))]
            sums == SquaresOf(s, i, u)
            p == [t \in K |-> Z0(s, t)]
            S == {Z0(s, t) : t \in K}
            g == SlotProducts(x, x, s.n)
<1>1. s.nu \in Nat /\ NPrime(s) \in Nat /\ s.n \in Nat /\ IsFiniteSet(J) /\ IsFiniteSet(T) /\ IsFiniteSet(K)
  BY Lengths, FiniteBelow
<1>2. \A j \in J : v[j] \in [T -> Elems] /\ \A e \in T : v[j][e] \in Elems /\ Mul(v[j][e], v[j][e]) \in Elems
  BY HalvesIn
<1>3. ASSUME NEW j \in J, NEW e \in T
      PROVE  /\ \A t \in K : Z0(s, t) = <<j, e>> => v[j][e] = x[t]
             /\ (\A t \in K : Z0(s, t) # <<j, e>>) => v[j][e] = Zero
  BY HalvesAre
<1>4. x \in [K -> Elems]
  <2>1. i.b \in Nat
    BY ParametersAre
  <2>2. \A t \in K : Whole(i.b, pr.z0[t], pr.z1[t]) \in Elems
    <3>1. \A t \in K : pr.z0[t] \in Elems /\ pr.z1[t] \in Elems
      OBVIOUS
    <3>. QED  BY <2>1, <3>1, RecomposeTwo
  <2>. QED  BY <2>2 DEF WholeZ
<1>5. /\ \A t \in K : Z0(s, t) \in J \X T
      /\ \A t, e \in K : Z0(s, t) = Z0(s, e) => t = e
  <2>1. ASSUME NEW t \in K PROVE Z0(s, t) \in J \X T
    BY Z0Slot DEF Below
  <2>2. ASSUME NEW t \in K, NEW e \in K, Z0(s, t) = Z0(s, e) PROVE t = e
    <3>1. ZEntry(0, t) \in Sources(s) /\ ZEntry(0, e) \in Sources(s)
      BY DEF Sources, Below
    <3>2. SlotOf(s, ZEntry(0, t)) = SlotOf(s, ZEntry(0, e))
      BY <2>2 DEF SlotOf, ZEntry
    <3>3. ZEntry(0, t) = ZEntry(0, e)
      BY <3>1, <3>2, SlotInjective
    <3>. QED  BY <3>3 DEF ZEntry
  <2>. QED  BY <2>1, <2>2
<1>6. Renumbers(p, K, S) /\ S \in SUBSET (J \X T)
  <2>1. p \in [K -> S] /\ \A t \in K : p[t] = Z0(s, t)
    OBVIOUS
  <2>2. \A y \in S : \E t \in K : p[t] = y
    OBVIOUS
  <2>3. \A t, e \in K : p[t] = p[e] => t = e
    <3>. HIDE DEF p
    <3>. QED  BY <1>5, <2>1
  <2>4. S \in SUBSET (J \X T)
    BY <1>5
  <2>. HIDE DEF p, S
  <2>. QED  BY <2>1, <2>2, <2>3, <2>4 DEF Renumbers
<1>7. IsFamily(sums, J, Elems) /\ AreSums(sums, row, J, AddE, Zero) /\ Rows2(row, f, J, T, Elems)
  <2>1. \A j \in J : DOMAIN row[j] = T /\ row[j] = [e \in DOMAIN row[j] |-> row[j][e]]
                     /\ \A e \in T : row[j][e] = Mul(v[j][e], v[j][e])
    BY DEF SlotProducts
  <2>2. \A j \in J : sums[j] = SumE(row[j])
    BY DEF SquaresOf
  <2>3. \A j \in J, e \in T : f[<<j, e>>] = Mul(v[j][e], v[j][e])
    OBVIOUS
  <2>4. DOMAIN sums = J /\ sums = [j \in DOMAIN sums |-> sums[j]]
    BY DEF SquaresOf
  <2>. HIDE DEF row, v, sums, J, T, f
  <2>5. \A j \in J : IsFamily(row[j], T, Elems)
    <3>1. ASSUME NEW j \in J PROVE IsFamily(row[j], T, Elems)
      <4>. DEFINE h == row[j]
      <4>1. DOMAIN h = T /\ h = [e \in DOMAIN h |-> h[e]] /\ \A e \in T : h[e] \in Elems
        BY <1>2, <2>1
      <4>. HIDE DEF h
      <4>2. IsFamily(h, T, Elems)
        BY <1>1, <4>1 DEF IsFamily
      <4>. QED  BY <4>2 DEF h
    <3>. QED  BY <3>1
  <2>6. \A j \in J : SumE(row[j]) \in Elems
    BY <2>5, TotalIsSum
  <2>7. IsFamily(sums, J, Elems)
    BY <1>1, <2>2, <2>4, <2>6 DEF IsFamily
  <2>8. \A j \in J : \A e \in T : row[j][e] = f[<<j, e>>]
    <3>1. ASSUME NEW j \in J, NEW e \in T PROVE row[j][e] = f[<<j, e>>]
      <4>1. row[j][e] = Mul(v[j][e], v[j][e])
        BY <2>1
      <4>2. f[<<j, e>>] = Mul(v[j][e], v[j][e])
        BY <2>3
      <4>. QED  BY <4>1, <4>2
    <3>. QED  BY <3>1
  <2>. QED  BY <2>2, <2>5, <2>7, <2>8 DEF AreSums, Rows2, SumE
<1>8. IsFamily(f, J \X T, Elems) /\ IsFiniteSet(J \X T)
  <2>1. IsFiniteSet(J \X T)
    BY <1>1, FS_Product
  <2>2. DOMAIN f = J \X T /\ f = [y \in DOMAIN f |-> f[y]] /\ \A y \in J \X T : f[y] \in Elems
    <3>. HIDE DEF v
    <3>1. \A y \in J \X T : y[1] \in J /\ y[2] \in T
      OBVIOUS
    <3>. QED  BY <1>2, <3>1
  <2>. HIDE DEF f
  <2>. QED  BY <2>1, <2>2 DEF IsFamily
<1>9. \A y \in (J \X T) \ S : f[y] = Zero
  <2>1. ASSUME NEW y \in (J \X T) \ S PROVE f[y] = Zero
    <3>. DEFINE a == v[y[1]][y[2]]
    <3>1. y[1] \in J /\ y[2] \in T /\ y = <<y[1], y[2]>> /\ \A t \in K : Z0(s, t) # y
      OBVIOUS
    <3>2. f[y] = Mul(a, a) /\ y \in J \X T
      OBVIOUS
    <3>. HIDE DEF v, f
    <3>3. a = Zero
      BY <1>3, <3>1
    <3>. HIDE DEF a
    <3>4. Mul(Zero, Zero) = Zero /\ Zero \in Elems
      BY ElemFacts, MulRules
    <3>. QED  BY <3>2, <3>3, <3>4
  <2>. QED  BY <2>1
<1>10. IsFamily(g, K, Elems) /\ ring_inner_product(x, x) = SumE(g) /\ ring_inner_product(x, x) \in Elems
  <2>1. IsVector(x, s.n)
    BY <1>4 DEF IsVector
  <2>. HIDE DEF x
  <2>. QED  BY <1>1, <2>1, SlotProductsIn
<1>11. \A t \in K : g[t] = Part(f, S)[p[t]]
  <2>1. ASSUME NEW t \in K PROVE g[t] = Part(f, S)[p[t]]
    <3>. DEFINE y == Z0(s, t)
    <3>1. y \in J \X T /\ y \in S /\ p[t] = y
      BY <1>5
    <3>2. Part(f, S)[y] = f[y]
      BY <3>1 DEF Part
    <3>3. f[y] = Mul(v[y[1]][y[2]], v[y[1]][y[2]])
      BY <3>1
    <3>4. g[t] = Mul(x[t], x[t])
      BY DEF SlotProducts
    <3>5. y[1] \in J /\ y[2] \in T /\ Z0(s, t) = <<y[1], y[2]>>
      BY <3>1
    <3>. HIDE DEF v, f, g, x, p, S, y
    <3>6. v[y[1]][y[2]] = x[t]
      BY <1>3, <3>5
    <3>. QED  BY <3>1, <3>2, <3>3, <3>4, <3>6
  <2>. QED  BY <2>1
<1>. HIDE DEF f, g, p, S, sums, row, J, T, K, x, v, u
<1>12. SumE(f) = SumE(sums)
  BY <1>1, <1>7, <1>8, ElemSums, SumOfPairs DEF SumE
<1>13. f \in [J \X T -> Elems] /\ g \in [K -> Elems] /\ IsFiniteSet(S) /\ Part(f, S) \in [S -> Elems]
  <2>1. f \in [J \X T -> Elems] /\ g \in [K -> Elems]
    BY <1>8, <1>10 DEF IsFamily
  <2>2. IsFiniteSet(S) /\ Part(f, S) \in [S -> Elems]
    BY <1>6, <1>8, <2>1, PartOf
  <2>. QED  BY <2>1, <2>2
<1>14. SumE(f) = SumE(Part(f, S))
  BY <1>6, <1>8, <1>9, <1>13, ElemSums, SumOutside DEF SumE
<1>15. SumE(g) = SumE(Part(f, S))
  BY <1>1, <1>6, <1>11, <1>13, ElemSums, SumReindex DEF SumE
<1>. QED  BY <1>7, <1>10, <1>12, <1>14, <1>15 DEF u, x, J, sums

-----------------------------------------------------------------------------
SquarePairs(n) == {<<a, a>> : a \in Below(2 * n)} \cup {<<a, n + a>> : a \in Below(n)}
SquareWeights(s, i) ==
  [p \in SquarePairs(s.nu) |->
     CASE p[2] < s.nu -> constant(1)
       [] p[1] < p[2] -> constant(i.b)
       [] OTHER -> constant(i.b * i.b)]

LEMMA SquareWeightsAre ==
  ASSUME NEW s, s.nu \in Nat, NEW i, NEW j \in Below(s.nu)
  PROVE  LET a == SquareWeights(s, i)
             m == s.nu + j
         IN  /\ <<j, j>> \in SquarePairs(s.nu) /\ <<j, m>> \in SquarePairs(s.nu) /\ <<m, m>> \in SquarePairs(s.nu)
             /\ a[<<j, j>>] = constant(1) /\ a[<<j, m>>] = constant(i.b) /\ a[<<m, m>>] = constant(i.b * i.b)
             /\ m # j /\ <<j, j>> # <<j, m>> /\ <<j, j>> # <<m, m>> /\ <<j, m>> # <<m, m>>
<1>. DEFINE m == s.nu + j
<1>1. j \in Nat /\ j < s.nu /\ m \in Nat /\ ~(m < s.nu) /\ j < m /\ ~(m < m)
      /\ j \in Below(2 * s.nu) /\ m \in Below(2 * s.nu)
  BY DEF Below
<1>2. <<j, j>> \in SquarePairs(s.nu) /\ <<j, m>> \in SquarePairs(s.nu) /\ <<m, m>> \in SquarePairs(s.nu)
  BY <1>1 DEF SquarePairs
<1>. HIDE DEF m
<1>3. SquareWeights(s, i)[<<j, j>>] = constant(1)
  BY <1>1, <1>2 DEF SquareWeights
<1>4. SquareWeights(s, i)[<<j, m>>] = constant(i.b)
  BY <1>1, <1>2 DEF SquareWeights
<1>5. SquareWeights(s, i)[<<m, m>>] = constant(i.b * i.b)
  BY <1>1, <1>2 DEF SquareWeights
<1>6. m # j /\ <<j, j>> # <<j, m>> /\ <<j, j>> # <<m, m>> /\ <<j, m>> # <<m, m>>
  BY <1>1
<1>. QED  BY <1>2, <1>3, <1>4, <1>5, <1>6 DEF m

BlockOf(n) == [p \in SquarePairs(n) |-> IF p[1] < n THEN p[1] ELSE p[1] - n]

LEMMA BlocksAre ==
  ASSUME NEW n \in Nat, NEW m \in Nat
  PROVE  /\ IsFamily(BlockOf(n), SquarePairs(n), Below(n))
         /\ SquarePairs(n) \in SUBSET Pairs(2 * n + m)
         /\ \A j \in Below(n) : Fiber(BlockOf(n), j) = {<<j, j>>, <<j, n + j>>, <<n + j, n + j>>}
<1>. DEFINE S == SquarePairs(n)
<1>1. \A p \in S : \/ p = <<p[1], p[1]>> /\ p[1] \in Nat /\ p[1] < 2 * n
                   \/ p = <<p[1], n + p[1]>> /\ p[1] \in Nat /\ p[1] < n
  BY DEF SquarePairs, Below
<1>2. \A a \in Nat : (a < 2 * n => <<a, a>> \in S) /\ (a < n => <<a, n + a>> \in S)
  BY DEF SquarePairs, Below
<1>. HIDE DEF S
<1>3. S \in SUBSET Pairs(2 * n + m)
  <2>1. ASSUME NEW p \in S PROVE p \in Pairs(2 * n + m)
    <3>1. CASE p = <<p[1], p[1]>> /\ p[1] \in Nat /\ p[1] < 2 * n
      <4>1. p[1] \in 0..(2 * n + m - 1)
        BY <3>1
      <4>. QED  BY <3>1, <4>1 DEF Pairs
    <3>2. CASE p = <<p[1], n + p[1]>> /\ p[1] \in Nat /\ p[1] < n
      <4>1. p[1] \in 0..(2 * n + m - 1) /\ n + p[1] \in 0..(2 * n + m - 1) /\ p[1] <= n + p[1]
        BY <3>2
      <4>. QED  BY <3>2, <4>1 DEF Pairs
    <3>. QED  BY <1>1, <3>1, <3>2
  <2>. QED  BY <2>1
<1>4. IsFiniteSet(S)
  <2>1. 2 * n + m \in Nat
    OBVIOUS
  <2>2. IsFiniteSet(Pairs(2 * n + m))
    <3>. DEFINE k == 2 * n + m
                T == Below(k)
    <3>1. IsFiniteSet(T)
      <4>. HIDE DEF k
      <4>. QED  BY <2>1, FiniteBelow DEF k
    <3>2. IsFiniteSet(T \X T) /\ Pairs(k) \subseteq T \X T
      BY <3>1, FS_Product DEF Pairs, Below
    <3>. QED  BY <3>2, FS_Subset
  <2>. QED  BY <1>3, <2>2, FS_Subset
<1>. DEFINE g == BlockOf(n)
<1>5. \A p \in S : g[p] = (IF p[1] < n THEN p[1] ELSE p[1] - n)
  BY DEF BlockOf, S
<1>6. DOMAIN g = S /\ g = [p \in DOMAIN g |-> g[p]]
  BY DEF BlockOf, S
<1>. HIDE DEF g
<1>7. \A p \in S : g[p] \in Below(n)
  BY <1>1, <1>5 DEF Below
<1>8. IsFamily(g, S, Below(n))
  BY <1>4, <1>6, <1>7 DEF IsFamily
<1>9. ASSUME NEW j \in Below(n)
      PROVE  Fiber(g, j) = {<<j, j>>, <<j, n + j>>, <<n + j, n + j>>}
  <2>0. j \in Nat /\ j < n
    BY DEF Below
  <2>1. <<j, j>> \in S /\ <<j, n + j>> \in S /\ <<n + j, n + j>> \in S
    <3>. DEFINE k == n + j
    <3>1. k \in Nat /\ k < 2 * n /\ j < 2 * n
      BY <2>0
    <3>. HIDE DEF k
    <3>2. <<j, j>> \in S /\ <<k, k>> \in S
      BY <1>2, <2>0, <3>1
    <3>3. <<j, n + j>> \in S
      BY <1>2, <2>0
    <3>. QED  BY <3>2, <3>3 DEF k
  <2>2. g[<<j, j>>] = j /\ g[<<j, n + j>>] = j /\ g[<<n + j, n + j>>] = j
    BY <1>5, <2>0, <2>1
  <2>3. ASSUME NEW p \in S, g[p] = j
        PROVE  p \in {<<j, j>>, <<j, n + j>>, <<n + j, n + j>>}
    <3>1. j = IF p[1] < n THEN p[1] ELSE p[1] - n
      BY <1>5, <2>3
    <3>2. CASE p = <<p[1], p[1]>> /\ p[1] \in Nat /\ p[1] < 2 * n
      <4>1. p[1] = j \/ p[1] = n + j
        BY <2>0, <3>1, <3>2
      <4>. QED  BY <3>2, <4>1
    <3>3. CASE p = <<p[1], n + p[1]>> /\ p[1] \in Nat /\ p[1] < n
      <4>1. p[1] = j
        BY <2>0, <3>1, <3>3
      <4>. QED  BY <3>3, <4>1
    <3>. QED  BY <1>1, <3>2, <3>3
  <2>. QED  BY <1>6, <2>1, <2>2, <2>3 DEF Fiber
<1>. QED  BY <1>3, <1>8, <1>9 DEF g, S

LEMMA QuadraticTermsAre ==
  ASSUME NEW s, s.nu \in Nat, NEW i \in Parameters, NEW j \in Below(s.nu), NEW g,
         NEW x \in Elems, NEW y \in Elems, NEW t \in Elems,
         g[<<j, j>>] = x, g[<<j, s.nu + j>>] = y, g[<<s.nu + j, s.nu + j>>] = t
  PROVE  LET F == QuadraticTerms(SquareWeights(s, i), g)
             m == Mul(constant(i.b), y)
         IN  /\ F[<<j, j>>] = x /\ F[<<j, s.nu + j>>] = Add(m, m)
             /\ F[<<s.nu + j, s.nu + j>>] = Mul(constant(i.b * i.b), t)
             /\ F[<<j, j>>] \in Elems /\ F[<<j, s.nu + j>>] \in Elems /\ F[<<s.nu + j, s.nu + j>>] \in Elems
<1>. DEFINE k == s.nu + j
            a == SquareWeights(s, i)
            F == QuadraticTerms(a, g)
            c == constant(i.b)
            d == constant(i.b * i.b)
            m == Mul(c, y)
<1>1. /\ <<j, j>> \in SquarePairs(s.nu) /\ <<j, k>> \in SquarePairs(s.nu) /\ <<k, k>> \in SquarePairs(s.nu)
      /\ a[<<j, j>>] = constant(1) /\ a[<<j, k>>] = c /\ a[<<k, k>>] = d /\ k # j
  BY SquareWeightsAre
<1>2. DOMAIN a = SquarePairs(s.nu)
  BY DEF SquareWeights
<1>3. c \in Elems /\ d \in Elems
  <2>1. i.b \in Int /\ i.b * i.b \in Int
    BY ParametersAre
  <2>. QED  BY <2>1, ConstantIs
<1>. HIDE DEF a, c, d, k
<1>4. g[<<j, j>>] = x /\ g[<<j, k>>] = y /\ g[<<k, k>>] = t
  BY DEF k
<1>5. /\ F[<<j, j>>] = Doubled(<<j, j>>, Mul(constant(1), x))
      /\ F[<<j, k>>] = Doubled(<<j, k>>, Mul(c, y))
      /\ F[<<k, k>>] = Doubled(<<k, k>>, Mul(d, t))
  BY <1>1, <1>2, <1>4 DEF QuadraticTerms
<1>6. Mul(constant(1), x) = x
  BY ConstantRules
<1>7. F[<<j, j>>] = x /\ F[<<j, k>>] = Add(m, m) /\ F[<<k, k>>] = Mul(d, t)
  <2>. HIDE DEF F
  <2>. QED  BY <1>1, <1>5, <1>6 DEF Doubled
<1>8. m \in Elems /\ Mul(d, t) \in Elems
  BY <1>3, MulIs
<1>9. Add(m, m) \in Elems
  <2>. HIDE DEF m
  <2>. QED  BY <1>8, AddRules
<1>. QED  BY <1>7, <1>8, <1>9 DEF a, c, d, k

LEMMA SquareOfHalves ==
  ASSUME NEW s, Proper(s), NEW i \in Parameters, NEW pr, OpensAll(s, i, pr)
  PROVE  LET u == build_folded_witness(s, i, pr)
             a == SquareWeights(s, i)
         IN  quadratic(a, compute_g(u, DOMAIN a)) = SumE(SquaresOf(s, i, u))
<1>. DEFINE u == build_folded_witness(s, i, pr)
            a == SquareWeights(s, i)
            n == s.nu
            S == SquarePairs(n)
            g == compute_g(u, S)
            F == QuadraticTerms(a, g)
            J == Below(n)
            sums == SquaresOf(s, i, u)
            block == BlockOf(n)
<1>1. /\ n \in Nat /\ s.mu \in Nat /\ RPrime(s) = 2 * n + s.mu /\ NPrime(s) \in Nat /\ IsFiniteSet(J)
      /\ i.b \in Nat
  BY Lengths, FiniteBelow, ParametersAre
<1>2. /\ IsFamily(block, S, J) /\ S \in SUBSET Pairs(RPrime(s))
      /\ \A j \in J : Fiber(block, j) = {<<j, j>>, <<j, n + j>>, <<n + j, n + j>>}
  <2>. HIDE DEF n
  <2>. QED  BY <1>1, BlocksAre
<1>3. IsWitness(u, FoldedSize(s)) /\ FoldedSize(s).n = NPrime(s) /\ FoldedSize(s).r = RPrime(s)
  BY FoldedHolds DEF FoldedSize
<1>4. DOMAIN a = S
  BY DEF SquareWeights
<1>. HIDE DEF u
<1>5. g \in [S -> Elems] /\ \A p \in S : g[p] = ring_inner_product(u[p[1]], u[p[2]])
  <2>. DEFINE size == FoldedSize(s)
  <2>1. size.n \in Nat /\ size.r \in Nat /\ IsWitness(u, size) /\ S \in SUBSET Pairs(size.r)
    BY <1>1, <1>2, <1>3
  <2>. HIDE DEF size, S
  <2>. QED  BY <2>1, GarbageIn
<1>6. IsSparse(a, S)
  <2>1. ASSUME NEW p \in S PROVE a[p] \in Elems
    <3>1. constant(1) \in Elems /\ constant(i.b) \in Elems /\ constant(i.b * i.b) \in Elems
      BY <1>1, ConstantIs
    <3>. QED  BY <3>1 DEF SquareWeights
  <2>2. a = [p \in DOMAIN a |-> a[p]]
    BY DEF SquareWeights
  <2>. HIDE DEF a
  <2>. QED  BY <1>4, <2>1, <2>2 DEF IsSparse
<1>7. IsFamily(F, S, Elems) /\ quadratic(a, g) = SumE(F)
  <2>1. IsFiniteSet(S) /\ \A p \in S : g[p] \in Elems
    BY <1>2, <1>5 DEF IsFamily
  <2>. HIDE DEF a, g, S
  <2>. QED  BY <1>4, <1>6, <2>1, QuadraticIs
<1>8. ASSUME NEW j \in J
      PROVE  sums[j] \in Elems /\ SumsTo(Elems, AddE, Zero, F, Fiber(block, j), sums[j])
  <2>. DEFINE x == u[j]
              y == u[n + j]
              v == HalvesAt(s, i, u, j)
              T == Below(NPrime(s))
              xx == ring_inner_product(x, x)
              xy == ring_inner_product(x, y)
              yy == ring_inner_product(y, y)
              m == Mul(constant(i.b), xy)
              p1 == <<j, j>>
              p2 == <<j, n + j>>
              p3 == <<n + j, n + j>>
  <2>1. x \in [T -> Elems] /\ y \in [T -> Elems] /\ v \in [T -> Elems]
    BY HalvesIn DEF u
  <2>2. v = [p \in T |-> Whole(i.b, x[p], y[p])]
    BY DEF HalvesAt
  <2>3. SumE(SlotProducts(v, v, NPrime(s))) = Add(Add(xx, Add(m, m)), Mul(constant(i.b * i.b), yy))
    <3>. DEFINE b == i.b
                k == NPrime(s)
    <3>1. b \in Nat /\ k \in Nat /\ x \in [Below(k) -> Elems] /\ y \in [Below(k) -> Elems]
          /\ v = [p \in Below(k) |-> Whole(b, x[p], y[p])]
      BY <1>1, <2>1, <2>2
    <3>. HIDE DEF b, k, x, y, v, xx, xy, yy, m
    <3>2. SumE(SlotProducts(v, v, k)) =
            Add(Add(ring_inner_product(x, x), Add(Mul(constant(b), ring_inner_product(x, y)), Mul(constant(b), ring_inner_product(x, y)))),
                Mul(constant(b * b), ring_inner_product(y, y)))
      BY <3>1, SquareOfVector
    <3>. QED  BY <3>2 DEF b, k, xx, xy, yy, m
  <2>4. sums[j] = SumE(SlotProducts(v, v, NPrime(s)))
    BY DEF SquaresOf
  <2>5. xx \in Elems /\ xy \in Elems /\ yy \in Elems
    <3>1. IsVector(x, NPrime(s)) /\ IsVector(y, NPrime(s))
      BY <2>1 DEF IsVector
    <3>. HIDE DEF x, y
    <3>. QED  BY <1>1, <3>1, SlotProductsIn
  <2>6. p1 \in S /\ p2 \in S /\ p3 \in S /\ p1 # p2 /\ p1 # p3 /\ p2 # p3
    BY <1>1, SquareWeightsAre
  <2>7. g[p1] = xx /\ g[p2] = xy /\ g[p3] = yy
    <3>. HIDE DEF g, S
    <3>1. g[p1] = ring_inner_product(u[p1[1]], u[p1[2]]) /\ g[p2] = ring_inner_product(u[p2[1]], u[p2[2]])
          /\ g[p3] = ring_inner_product(u[p3[1]], u[p3[2]])
      BY <1>5, <2>6
    <3>. QED  BY <3>1
  <2>8. /\ F[p1] = xx /\ F[p2] = Add(m, m) /\ F[p3] = Mul(constant(i.b * i.b), yy)
        /\ F[p1] \in Elems /\ F[p2] \in Elems /\ F[p3] \in Elems
    <3>. HIDE DEF g, xx, xy, yy
    <3>. QED  BY <1>1, <2>5, <2>7, QuadraticTermsAre
  <2>9. Fiber(block, j) = {p1, p2, p3}
    BY <1>2
  <2>. HIDE DEF p1, p2, p3, F, block, sums, xx, xy, yy, m, v
  <2>10. SumsTo(Elems, AddE, Zero, F, {p1, p2, p3}, Add(Add(F[p1], F[p2]), F[p3]))
    BY <2>6, <2>8, SumsToThree
  <2>11. Add(Add(F[p1], F[p2]), F[p3]) \in Elems
    BY <2>8, AddRules
  <2>. QED  BY <2>3, <2>4, <2>8, <2>9, <2>10, <2>11
<1>9. IsFamily(sums, J, Elems)
  <2>1. DOMAIN sums = J /\ sums = [j \in DOMAIN sums |-> sums[j]]
    BY DEF SquaresOf
  <2>. HIDE DEF sums
  <2>. QED  BY <1>1, <1>8, <2>1 DEF IsFamily
<1>. HIDE DEF F, S, J, sums, block, a, g
<1>10. SumE(F) = SumE(sums)
  BY <1>1, <1>2, <1>7, <1>8, <1>9, ElemSums, SumOfFibers DEF SumE
<1>. QED  BY <1>4, <1>7, <1>10 DEF a, u, g, sums

-----------------------------------------------------------------------------
LEMMA Check4Holds ==
  ASSUME NEW st, NEW i, NEW pr, NEW rep, Given(st, i, pr, rep)
  PROVE  LET s == ShapeOf(st, i)
             u == build_folded_witness(s, i, pr)
             x == WholeZ(i, pr)
         IN  eval_full(build_check4(s, i, rep), u) = Zero
               <=> ring_inner_product(x, x) = SumE(GarbageTerms(rep.cs, pr.g, st.r))
<1>. DEFINE s == ShapeOf(st, i)
            u == build_folded_witness(s, i, pr)
            x == WholeZ(i, pr)
            v == Coef4(s, i, rep)
            K == Openings(s, i, pr)
            vs == SumE(GarbageTerms(rep.cs, pr.g, st.r))
            a == [p \in Pairs(st.r) |-> Neg(CC(rep.cs, p))]
            xx == ring_inner_product(x, x)
            c == build_check4(s, i, rep)
            wt == SquareWeights(s, i)
<1>1. /\ IsStatement(st) /\ i \in Parameters /\ IsRep(rep, st) /\ Proper(s) /\ OpensAll(s, i, pr)
      /\ s.n = st.n /\ s.r = st.r /\ s.t2 = i.t2
      /\ pr.z0 \in [Below(s.n) -> Elems] /\ pr.z1 \in [Below(s.n) -> Elems]
      /\ pr.g \in [Pairs(s.r) -> Elems] /\ rep.cs \in [Below(s.r) -> Elems]
  BY GivenIs
<1>2. IsCoef(v, s)
  BY <1>1, Coef4In
<1>3. c.a = wt /\ c.phi = Place(s, v) /\ c.b = Zero
  BY DEF build_check4, Coef4, SquareWeights, SquarePairs
<1>. HIDE DEF s
<1>4. v = MinusGarbage(rep.cs, GEntries(s), i.b2)
  BY DEF Coef4
<1>7. st.r \in Nat /\ i.b2 \in Nat /\ \A e \in GEntries(s) : <<e[2], e[3]>> \in Pairs(st.r) /\ e[4] \in Nat
  <2>1. i.b2 \in Nat
    BY <1>1, ParametersAre
  <2>2. st.r \in Nat
    BY <1>1 DEF IsStatement
  <2>3. \A e \in GEntries(s) : <<e[2], e[3]>> \in Pairs(st.r) /\ e[4] \in Nat
    BY <1>1, PairIn
  <2>. QED  BY <2>1, <2>2, <2>3
<1>. HIDE DEF c, v
<1>8. Tests(v, K) = Neg(vs) /\ vs \in Elems
  <2>. DEFINE J == Pairs(st.r)
              cs_ == rep.cs
              g == pr.g
  <2>1. cs_ \in [Below(st.r) -> Elems] /\ g \in [J -> Elems]
    BY <1>1
  <2>2. \A p \in J : a[p] \in Elems
    <3>1. \A p \in J : CC(cs_, p) \in Elems
      BY <1>7, <2>1, CCIn
    <3>. QED  BY <3>1, NegIs
  <2>3. IsFamily(Products2(J, a, g), J, Elems)
    <3>1. IsFiniteSet(J)
      <4>1. IsFamily(GarbageTerms(cs_, g, st.r), J, Elems)
        BY <1>7, <2>1, CCIn
      <4>. QED  BY <4>1 DEF IsFamily
    <3>2. \A p \in J : Mul(a[p], g[p]) \in Elems
      <4>. HIDE DEF a
      <4>. QED  BY <2>1, <2>2, MulIs
    <3>. QED  BY <3>1, <3>2 DEF IsFamily, Products2
  <2>. HIDE DEF cs_, g
  <2>4. a = [p \in J |-> Neg(CC(cs_, p))]
    BY DEF cs_
  <2>. HIDE DEF a
  <2>5. /\ PairWeights(a, J) /\ OnChunks(MinusGarbage(cs_, GEntries(s), i.b2), GEntries(s), J, a, i.b2)
        /\ SumE(Products2(J, a, g)) = Neg(SumE(GarbageTerms(cs_, g, st.r)))
    BY <1>7, <2>1, <2>3, <2>4, MinusChunks
  <2>6. Tests(v, K) = SumE(Products2(J, a, pr.g))
    <3>1. J \in SUBSET Pairs(s.r)
      BY <1>1
    <3>2. OnChunks(v, GEntries(s), J, a, i.b2)
      BY <1>4, <2>5 DEF cs_
    <3>. HIDE DEF v, J
    <3>. QED  BY <1>1, <1>2, <2>5, <3>1, <3>2, GChunks
  <2>7. SumE(GarbageTerms(cs_, g, st.r)) \in Elems
    <3>1. IsFamily(GarbageTerms(cs_, g, st.r), J, Elems)
      BY <1>7, <2>1, CCIn
    <3>. QED  BY <3>1, TotalIsSum
  <2>. QED  BY <2>5, <2>6, <2>7 DEF cs_, g
<1>9. quadratic(wt, compute_g(u, DOMAIN wt)) = SumE(SquaresOf(s, i, u))
  BY <1>1, SquareOfHalves
<1>10. SumE(SquaresOf(s, i, u)) = xx /\ xx \in Elems
  BY <1>1, SquareOfZ
<1>11. sparse_phi_inner_product(Place(s, v), u) = Tests(v, K)
  BY <1>1, <1>2, PlaceTests
<1>12. eval_full(c, u) = Sub(Add(xx, Neg(vs)), Zero)
  <2>1. eval_full(c, u) = Sub(Add(quadratic(c.a, compute_g(u, DOMAIN c.a)), sparse_phi_inner_product(c.phi, u)), c.b)
    BY DEF eval_full, Value
  <2>. QED  BY <1>3, <1>8, <1>9, <1>10, <1>11, <2>1
<1>13. eval_full(c, u) = Zero <=> xx = vs
  <2>. DEFINE y == Add(xx, Neg(vs))
  <2>. HIDE DEF xx, vs
  <2>1. y \in Elems
    BY <1>8, <1>10, NegIs, AddRules
  <2>2. y = Zero <=> xx = vs
    BY <1>8, <1>10, AddNegZero
  <2>. HIDE DEF y
  <2>3. Zero \in Elems /\ (Sub(y, Zero) = Zero <=> y = Zero)
    BY <2>1, ElemFacts, NegRules
  <2>. QED  BY <1>12, <2>2, <2>3 DEF y
<1>. QED  BY <1>13 DEF s, c

-----------------------------------------------------------------------------
(* What the folded constraints say of a state in which fold has run.        *)
FoldState ==
  /\ IsStatement(stmt) /\ it \in Parameters /\ version = "v2"
  /\ Given(stmt, it, proof, ForFold)
  /\ ForFold.seeds = seeds /\ ForFold.cs = cs
  /\ ForFold.a_agg = agg.a_agg /\ ForFold.phi_agg = agg.phi_agg /\ ForFold.b_agg = agg.b_agg
  /\ proof.u1 \in [OuterRows -> Elems] /\ proof.u2 \in [OuterRows -> Elems]

LEMMA FoldStateHolds ==
  ASSUME IterationInv, DrawsAreResidues, pc = "folded"
  PROVE  FoldState /\ folded = ToFold
<1>1. Typed /\ Delivered /\ agg = replay(seeds, proof) /\ folded = ToFold
  BY DEF IterationInv, Delivered
<1>2. IsStatement(stmt) /\ it \in Parameters /\ version = "v2"
  BY <1>1, ItIn DEF Typed
<1>3. /\ IsRep(ForFold, stmt) /\ ForFold.seeds = seeds /\ ForFold.cs = cs
      /\ ForFold.a_agg = agg.a_agg /\ ForFold.phi_agg = agg.phi_agg /\ ForFold.b_agg = agg.b_agg
  BY <1>1, ForFoldIs
<1>4. IsProof(proof, WithAll(version), stmt, it)
  BY <1>1, ReplayIn
<1>5. /\ proof.v \in [Below(stmt.r) -> [Below(it.kappa) -> Elems]]
      /\ proof.g \in [Pairs(stmt.r) -> Elems] /\ proof.h \in [Pairs(stmt.r) -> Elems]
      /\ proof.u1 \in [OuterRows -> Elems] /\ proof.u2 \in [OuterRows -> Elems]
      /\ proof.z0 \in [Below(stmt.n) -> Elems] /\ proof.z1 \in [Below(stmt.n) -> Elems]
  BY <1>2, <1>4, WholeProof DEF OuterRows
<1>6. OpensAll(ShapeOf(stmt, it), it, proof)
  BY <1>2, <1>4, AllOpen DEF SourceShape
<1>. QED  BY <1>1, <1>2, <1>3, <1>5, <1>6 DEF FoldState, Given

FoldU == build_folded_witness(SourceShape, it, proof)

LEMMA ZIsWhole ==
  ASSUME FoldState
  PROVE  z = WholeZ(it, proof) /\ z \in [Below(stmt.n) -> Elems]
<1>1. /\ it.b \in Nat /\ version = "v2"
      /\ proof.z0 \in [Below(stmt.n) -> Elems] /\ proof.z1 \in [Below(stmt.n) -> Elems]
  BY ParametersAre DEF FoldState, Given
<1>2. ASSUME NEW p \in Below(stmt.n)
      PROVE  /\ recompose([c \in {0, 1} |-> IF c = 0 THEN proof.z0[p] ELSE proof.z1[p]], it.b)
                  = Whole(it.b, proof.z0[p], proof.z1[p])
             /\ Whole(it.b, proof.z0[p], proof.z1[p]) \in Elems
  <2>1. proof.z0[p] \in Elems /\ proof.z1[p] \in Elems
    BY <1>1
  <2>. QED  BY <1>1, <2>1, RecomposeTwo
<1>3. z = [p \in Below(stmt.n) |-> Whole(it.b, proof.z0[p], proof.z1[p])]
  BY <1>1, <1>2 DEF z
<1>4. DOMAIN proof.z0 = Below(stmt.n)
  BY <1>1
<1>. QED  BY <1>2, <1>3, <1>4 DEF WholeZ

LEMMA InnerMeant ==
  ASSUME DrawsAreResidues, FoldState
  PROVE  InnerCommitmentOpens
           <=> \A k \in Below(it.kappa) : eval_full(build_check3_row(SourceShape, it, ForFold, k), FoldU) = Zero
<1>. DEFINE S == Below(stmt.n)
            K == Below(it.kappa)
            rep == ForFold
            left == matmul(seeds, z)
            right == [k \in K |-> Total([a \in Vectors |-> Mul(cs[a], proof.v[a][k])])]
<1>1. IsStatement(stmt) /\ it \in Parameters /\ Given(stmt, it, proof, rep) /\ rep.seeds = seeds /\ rep.cs = cs
  BY DEF FoldState
<1>2. IsFiniteSet(S) /\ z \in [S -> Elems] /\ z = WholeZ(it, proof)
  <2>1. stmt.n \in Nat
    BY <1>1 DEF IsStatement
  <2>. QED  BY <2>1, FiniteBelow, ZIsWhole
<1>. HIDE DEF rep
<1>3. /\ DOMAIN left = K /\ left \in [K -> Elems]
      /\ \A k \in K : left[k] = SumE([p \in S |-> Mul(A(seeds, k, p), z[p])])
  BY <1>2, MatmulIs
<1>4. ASSUME NEW k \in K
      PROVE  left[k] = right[k]
               <=> eval_full(build_check3_row(SourceShape, it, rep, k), FoldU) = Zero
  <2>1. right[k] = VSum(rep, proof, k, stmt.r)
    <3>1. Total([a \in Below(stmt.r) |-> Mul(rep.cs[a], proof.v[a][k])]) = VSum(rep, proof, k, stmt.r)
      BY <1>1, VTests
    <3>. QED  BY <1>1, <3>1 DEF Vectors
  <2>. DEFINE rows == [p \in Below(stmt.n) |-> A(rep.seeds, k, p)]
  <2>2. left[k] = SumE(ZTerms(rows, WholeZ(it, proof)))
    <3>1. ZTerms(rows, z) = [p \in S |-> Mul(A(seeds, k, p), z[p])]
      BY <1>1 DEF ZTerms
    <3>. HIDE DEF left, rows
    <3>. QED  BY <1>2, <1>3, <3>1
  <2>. HIDE DEF left, right
  <2>3. eval_full(build_check3_row(ShapeOf(stmt, it), it, rep, k), build_folded_witness(ShapeOf(stmt, it), it, proof)) = Zero
          <=> SumE(ZTerms(rows, WholeZ(it, proof))) = VSum(rep, proof, k, stmt.r)
    BY <1>1, Check3Holds
  <2>. QED  BY <2>1, <2>2, <2>3 DEF SourceShape, FoldU
<1>5. InnerCommitmentOpens <=> left = right
  BY DEF InnerCommitmentOpens
<1>6. DOMAIN right = K /\ right = [k \in DOMAIN right |-> right[k]] /\ left = [k \in DOMAIN left |-> left[k]]
  BY <1>3
<1>. HIDE DEF left, right, K
<1>7. left = right <=> \A k \in K : left[k] = right[k]
  BY <1>3, <1>6
<1>. QED  BY <1>4, <1>5, <1>7 DEF K, rep

LEMMA QuadraticMeant ==
  ASSUME FoldState
  PROVE  QuadraticOpens <=> eval_full(build_check4(SourceShape, it, ForFold), FoldU) = Zero
<1>1. /\ IsStatement(stmt) /\ Given(stmt, it, proof, ForFold) /\ ForFold.cs = cs
      /\ proof.g \in [Pairs(stmt.r) -> Elems]
  BY DEF FoldState, Given
<1>2. CombinedGarbage(proof.g) = SumE(GarbageTerms(cs, proof.g, stmt.r))
  BY <1>1, CombinedIs
<1>3. eval_full(build_check4(ShapeOf(stmt, it), it, ForFold), build_folded_witness(ShapeOf(stmt, it), it, proof)) = Zero
        <=> ring_inner_product(WholeZ(it, proof), WholeZ(it, proof)) = SumE(GarbageTerms(ForFold.cs, proof.g, stmt.r))
  BY <1>1, Check4Holds
<1>. QED  BY <1>1, <1>2, <1>3, ZIsWhole DEF QuadraticOpens, SourceShape, FoldU

LEMMA LinearMeant ==
  ASSUME FoldState
  PROVE  LinearOpens <=> eval_full(build_check5(SourceShape, it, ForFold), FoldU) = Zero
<1>1. /\ IsStatement(stmt) /\ Given(stmt, it, proof, ForFold) /\ ForFold.cs = cs /\ ForFold.phi_agg = agg.phi_agg
      /\ proof.h \in [Pairs(stmt.r) -> Elems]
  BY DEF FoldState, Given
<1>2. CombinedGarbage(proof.h) = SumE(GarbageTerms(cs, proof.h, stmt.r))
  BY <1>1, CombinedIs
<1>3. eval_full(build_check5(ShapeOf(stmt, it), it, ForFold), build_folded_witness(ShapeOf(stmt, it), it, proof)) = Zero
        <=> Total(ByVector(ForFold, WholeZ(it, proof), stmt.r)) = SumE(GarbageTerms(ForFold.cs, proof.h, stmt.r))
  BY <1>1, Check5Holds
<1>4. ByVector(ForFold, WholeZ(it, proof), stmt.r) = [a \in Vectors |-> Mul(cs[a], phi_dot(agg.phi_agg, a, z))]
  BY <1>1, ZIsWhole DEF ByVector, Vectors
<1>. QED  BY <1>1, <1>2, <1>3, <1>4 DEF LinearOpens, SourceShape, FoldU

LEMMA RelationMeant ==
  ASSUME FoldState
  PROVE  RelationHolds <=> eval_full(build_check6(SourceShape, it, ForFold), FoldU) = Zero
<1>1. /\ Given(stmt, it, proof, ForFold) /\ ForFold.a_agg = agg.a_agg /\ ForFold.b_agg = agg.b_agg
  BY DEF FoldState
<1>2. eval_full(build_check6(ShapeOf(stmt, it), it, ForFold), build_folded_witness(ShapeOf(stmt, it), it, proof)) = Zero
        <=> Add(quadratic(ForFold.a_agg, proof.g), Total(DiagonalOf(proof.h, stmt.r))) = ForFold.b_agg
  BY <1>1, Check6Holds
<1>3. DiagonalOf(proof.h, stmt.r) = [a \in Vectors |-> proof.h[<<a, a>>]]
  BY DEF DiagonalOf, Vectors
<1>. QED  BY <1>1, <1>2, <1>3 DEF RelationHolds, SourceShape, FoldU

LEMMA OuterMeant ==
  ASSUME DrawsAreResidues, FoldState
  PROVE  /\ OpensU1 <=> \A row \in OuterRows :
              eval_full(build_check8_row(SourceShape, ForFold, proof.u1, row), FoldU) = Zero
         /\ OpensU2 <=> \A row \in OuterRows :
              eval_full(build_check9_row(SourceShape, ForFold, proof.u2, row), FoldU) = Zero
<1>. DEFINE rep == ForFold
            a == u_1(seeds, proof, 0)
            b == u_2(seeds, proof)
<1>1. /\ IsStatement(stmt) /\ it \in Parameters /\ IsRep(rep, stmt) /\ rep.seeds = seeds
      /\ OpensAll(SourceShape, it, proof)
      /\ proof.v \in [Vectors -> [Below(it.kappa) -> Elems]]
      /\ proof.g \in [Pairs(stmt.r) -> Elems] /\ proof.h \in [Pairs(stmt.r) -> Elems]
      /\ proof.u1 \in [OuterRows -> Elems] /\ proof.u2 \in [OuterRows -> Elems]
  BY DEF FoldState, Given, SourceShape, Vectors
<1>. HIDE DEF rep
<1>2. a \in [OuterRows -> Elems] /\ b \in [OuterRows -> Elems]
  <2>1. a \in [OuterRows -> Elems]
    BY <1>1, u1In
  <2>2. b \in [OuterRows -> Elems]
    BY <1>1, u2In
  <2>. QED  BY <2>1, <2>2
<1>3. ASSUME NEW row \in OuterRows
      PROVE  eval_full(build_check8_row(SourceShape, rep, proof.u1, row), FoldU) = Zero <=> proof.u1[row] = a[row]
  <2>1. eval_full(build_check8_row(SourceShape, rep, proof.u1, row), build_folded_witness(SourceShape, it, proof)) = Zero
          <=> proof.u1[row] = u_1(rep.seeds, proof, 0)[row]
    BY <1>1, Check8Holds
  <2>. QED  BY <1>1, <2>1 DEF FoldU
<1>4. ASSUME NEW row \in OuterRows
      PROVE  eval_full(build_check9_row(SourceShape, rep, proof.u2, row), FoldU) = Zero <=> proof.u2[row] = b[row]
  <2>1. eval_full(build_check9_row(SourceShape, rep, proof.u2, row), build_folded_witness(SourceShape, it, proof)) = Zero
          <=> proof.u2[row] = u_2(rep.seeds, proof)[row]
    BY <1>1, Check9Holds
  <2>. QED  BY <1>1, <2>1 DEF FoldU
<1>5. (OpensU1 <=> proof.u1 = a) /\ (OpensU2 <=> proof.u2 = b)
  BY DEF OpensU1, OpensU2
<1>. HIDE DEF a, b
<1>6. proof.u1 = a <=> \A row \in OuterRows : proof.u1[row] = a[row]
  BY <1>1, <1>2
<1>7. proof.u2 = b <=> \A row \in OuterRows : proof.u2[row] = b[row]
  BY <1>1, <1>2
<1>. QED  BY <1>3, <1>4, <1>5, <1>6, <1>7 DEF rep

LEMMA NormMeant ==
  ASSUME FoldState
  PROVE  WitnessNorm(FoldU) = OpeningsNorm
<1>1. Proper(SourceShape) /\ OpensAll(SourceShape, it, proof)
  BY GivenIs DEF FoldState, SourceShape
<1>. QED  BY <1>1, NormsAgree DEF FoldU, OpeningsNorm

-----------------------------------------------------------------------------
LEMMA PlacesOfChecks ==
  ASSUME NEW x \in Nat, NEW m \in Nat, NEW y, y = x + 3 + m
  PROVE  /\ \A k \in (x + 4)..y : k - (x + 3) \in 1..m /\ x + 3 + (k - (x + 3)) = k
         /\ \A row \in 1..m : x + 3 + row \in (x + 4)..y
         /\ \A k \in (y + 1)..(y + m) : k - y \in 1..m /\ y + (k - y) = k
         /\ \A row \in 1..m : y + row \in (y + 1)..(y + m)
         /\ \A k \in 1..x : k - 1 \in 0..(x - 1)
         /\ \A k \in 0..(x - 1) : k + 1 \in 1..x /\ (k + 1) - 1 = k
  OBVIOUS

LEMMA FoldMeansInState ==
  ASSUME IterationInv, DrawsAreResidues
  PROVE  FoldMeansChecks
<1>. DEFINE full == folded.stmt.full
            Vanishes(k) == eval_full(full[k], folded.w) = Zero
            x == it.kappa
            m == it.kappa1
            y == x + 3 + m
<1>. SUFFICES ASSUME pc = "folded"
              PROVE  /\ (\A k \in 1..x : Vanishes(k)) <=> InnerCommitmentOpens
                     /\ (\A k \in {x + 1} : Vanishes(k)) <=> QuadraticOpens
                     /\ (\A k \in {x + 2} : Vanishes(k)) <=> LinearOpens
                     /\ (\A k \in {x + 3} : Vanishes(k)) <=> RelationHolds
                     /\ (\A k \in (x + 4)..y : Vanishes(k)) <=> OpensU1
                     /\ (\A k \in (y + 1)..Len(full) : Vanishes(k)) <=> OpensU2
                     /\ WitnessNorm(folded.w) = OpeningsNorm
  BY DEF FoldMeansChecks
<1>1. FoldState /\ folded.stmt = fold_statement(stmt, it, proof, ForFold) /\ folded.w = FoldU
  BY FoldStateHolds DEF ToFold, ForFold, FoldU
<1>2. /\ IsStatement(stmt) /\ it \in Parameters /\ IsRep(ForFold, stmt)
      /\ proof.u1 \in [1..m -> Elems] /\ proof.u2 \in [1..m -> Elems]
      /\ x \in Nat /\ m \in Nat
  BY <1>1, ParametersAre DEF FoldState, Given, OuterRows
<1>3. /\ AreFolds(full, SourceShape, y + m)
      /\ \A k \in 1..x : full[k] = build_check3_row(SourceShape, it, ForFold, k - 1)
      /\ full[x + 1] = build_check4(SourceShape, it, ForFold)
      /\ full[x + 2] = build_check5(SourceShape, it, ForFold)
      /\ full[x + 3] = build_check6(SourceShape, it, ForFold)
      /\ \A row \in 1..m : /\ full[x + 3 + row] = build_check8_row(SourceShape, ForFold, proof.u1, row)
                           /\ full[y + row] = build_check9_row(SourceShape, ForFold, proof.u2, row)
  BY <1>1, <1>2, FoldedIs DEF SourceShape
<1>4. Len(full) = y + m
  BY <1>3 DEF AreFolds
<1>5. \A k : Vanishes(k) <=> eval_full(full[k], FoldU) = Zero
  BY <1>1
<1>. HIDE DEF full, Vanishes, x, m, y
<1>6. /\ \A k \in (x + 4)..y : k - (x + 3) \in 1..m /\ x + 3 + (k - (x + 3)) = k
      /\ \A row \in 1..m : x + 3 + row \in (x + 4)..y
      /\ \A k \in (y + 1)..(y + m) : k - y \in 1..m /\ y + (k - y) = k
      /\ \A row \in 1..m : y + row \in (y + 1)..(y + m)
      /\ \A k \in 1..x : k - 1 \in 0..(x - 1)
      /\ \A k \in 0..(x - 1) : k + 1 \in 1..x /\ (k + 1) - 1 = k
  BY <1>2, PlacesOfChecks DEF y
<1>7. (\A k \in 1..x : Vanishes(k)) <=> InnerCommitmentOpens
  <2>1. InnerCommitmentOpens
          <=> \A k \in 0..(x - 1) : eval_full(build_check3_row(SourceShape, it, ForFold, k), FoldU) = Zero
    BY <1>1, InnerMeant DEF Below, x
  <2>2. ASSUME NEW k \in 1..x
        PROVE  Vanishes(k) <=> eval_full(build_check3_row(SourceShape, it, ForFold, k - 1), FoldU) = Zero
    BY <1>3, <1>5
  <2>3. ASSUME InnerCommitmentOpens, NEW k \in 1..x PROVE Vanishes(k)
    <3>1. k - 1 \in 0..(x - 1)
      BY <1>6
    <3>. QED  BY <2>1, <2>2, <2>3, <3>1
  <2>4. ASSUME \A k \in 1..x : Vanishes(k), NEW k \in 0..(x - 1)
        PROVE  eval_full(build_check3_row(SourceShape, it, ForFold, k), FoldU) = Zero
    <3>. DEFINE l == k + 1
    <3>1. l \in 1..x /\ l - 1 = k
      BY <1>6
    <3>. HIDE DEF l
    <3>. QED  BY <2>2, <2>4, <3>1
  <2>. QED  BY <2>1, <2>3, <2>4
<1>8. /\ (\A k \in {x + 1} : Vanishes(k)) <=> QuadraticOpens
      /\ (\A k \in {x + 2} : Vanishes(k)) <=> LinearOpens
      /\ (\A k \in {x + 3} : Vanishes(k)) <=> RelationHolds
  <2>1. Vanishes(x + 1) <=> QuadraticOpens
    BY <1>1, <1>3, <1>5, QuadraticMeant
  <2>2. Vanishes(x + 2) <=> LinearOpens
    BY <1>1, <1>3, <1>5, LinearMeant
  <2>3. Vanishes(x + 3) <=> RelationHolds
    BY <1>1, <1>3, <1>5, RelationMeant
  <2>. QED  BY <2>1, <2>2, <2>3
<1>9. /\ OpensU1 <=> \A row \in 1..m : eval_full(build_check8_row(SourceShape, ForFold, proof.u1, row), FoldU) = Zero
      /\ OpensU2 <=> \A row \in 1..m : eval_full(build_check9_row(SourceShape, ForFold, proof.u2, row), FoldU) = Zero
  BY <1>1, OuterMeant DEF OuterRows, m
<1>10. \A row \in 1..m :
         /\ Vanishes(x + 3 + row) <=> eval_full(build_check8_row(SourceShape, ForFold, proof.u1, row), FoldU) = Zero
         /\ Vanishes(y + row) <=> eval_full(build_check9_row(SourceShape, ForFold, proof.u2, row), FoldU) = Zero
  BY <1>3, <1>5
<1>11. OpensU1 <=> \A row \in 1..m : Vanishes(x + 3 + row)
  BY <1>9, <1>10
<1>12. OpensU2 <=> \A row \in 1..m : Vanishes(y + row)
  BY <1>9, <1>10
<1>13. (\A k \in (x + 4)..y : Vanishes(k)) <=> \A row \in 1..m : Vanishes(x + 3 + row)
  <2>1. ASSUME \A row \in 1..m : Vanishes(x + 3 + row), NEW k \in (x + 4)..y PROVE Vanishes(k)
    <3>. DEFINE row == k - (x + 3)
    <3>1. row \in 1..m /\ x + 3 + row = k
      BY <1>6
    <3>. HIDE DEF row
    <3>2. Vanishes(x + 3 + row)
      BY <2>1, <3>1
    <3>. QED  BY <3>1, <3>2
  <2>2. ASSUME \A k \in (x + 4)..y : Vanishes(k), NEW row \in 1..m PROVE Vanishes(x + 3 + row)
    BY <1>6, <2>2
  <2>. QED  BY <2>1, <2>2
<1>14. (\A k \in (y + 1)..(y + m) : Vanishes(k)) <=> \A row \in 1..m : Vanishes(y + row)
  <2>1. ASSUME \A row \in 1..m : Vanishes(y + row), NEW k \in (y + 1)..(y + m) PROVE Vanishes(k)
    <3>. DEFINE row == k - y
    <3>1. row \in 1..m /\ y + row = k
      BY <1>6
    <3>. HIDE DEF row
    <3>2. Vanishes(y + row)
      BY <2>1, <3>1
    <3>. QED  BY <3>1, <3>2
  <2>2. ASSUME \A k \in (y + 1)..(y + m) : Vanishes(k), NEW row \in 1..m PROVE Vanishes(y + row)
    BY <1>6, <2>2
  <2>. QED  BY <2>1, <2>2
<1>15. WitnessNorm(folded.w) = OpeningsNorm
  BY <1>1, NormMeant
<1>. QED  BY <1>4, <1>7, <1>8, <1>11, <1>12, <1>13, <1>14, <1>15

\* Of any proof that arrives, changed or not, whatever was drawn, each group of
\* folded constraints holds of the folded witness if and only if the check of
\* verify_v2 that it stands for passes, and the norms are the same (fold.rs,
\* verifier_v2.rs).
THEOREM FoldedMeansChecked == ASSUME DrawsAreResidues PROVE Spec => []FoldMeansChecks
<1>1. IterationInv => FoldMeansChecks
  BY FoldMeansInState
<1>. QED  BY <1>1, IterationInvariance, PTL

-----------------------------------------------------------------------------
(* Double sums of elements with weights.                                   *)

IsGrid(m, S, J) == IsFamily(m, S \X J, Elems)
Row(m, p, J) == [i \in J |-> m[<<p, i>>]]
Col(m, i, S) == [p \in S |-> m[<<p, i>>]]
WeightedSum(S, a, x) == SumE(Products2(S, a, x))

LEMMA Products2In ==
  ASSUME NEW S, NEW a, IsFamily(a, S, Elems), NEW x, IsFamily(x, S, Elems)
  PROVE  /\ IsFamily(Products2(S, a, x), S, Elems)
         /\ \A p \in S : a[p] \in Elems /\ x[p] \in Elems /\ Products2(S, a, x)[p] = Mul(a[p], x[p])
         /\ WeightedSum(S, a, x) \in Elems
<1>1. IsFiniteSet(S) /\ \A p \in S : a[p] \in Elems /\ x[p] \in Elems
  BY DEF IsFamily
<1>2. \A p \in S : Mul(a[p], x[p]) \in Elems
  BY <1>1, MulRules
<1>3. IsFamily(Products2(S, a, x), S, Elems)
  BY <1>1, <1>2 DEF IsFamily, Products2
<1>4. WeightedSum(S, a, x) \in Elems
  BY <1>3, TotalIsSum DEF WeightedSum
<1> QED
  BY <1>1, <1>3, <1>4 DEF Products2

LEMMA EntryIn ==
  ASSUME NEW S, NEW J, NEW m, IsGrid(m, S, J), NEW p \in S, NEW i \in J
  PROVE  m[<<p, i>>] \in Elems
<1>1. <<p, i>> \in S \X J
  OBVIOUS
<1> QED
  BY <1>1 DEF IsGrid, IsFamily

LEMMA RowIn ==
  ASSUME NEW S, NEW J, IsFiniteSet(J), NEW m, IsGrid(m, S, J), NEW p \in S
  PROVE  IsFamily(Row(m, p, J), J, Elems) /\ \A i \in J : Row(m, p, J)[i] = m[<<p, i>>]
<1>1. \A i \in J : m[<<p, i>>] \in Elems
  BY EntryIn
<1> QED
  BY <1>1 DEF IsFamily, Row

LEMMA ColIn ==
  ASSUME NEW S, IsFiniteSet(S), NEW J, NEW m, IsGrid(m, S, J), NEW i \in J
  PROVE  IsFamily(Col(m, i, S), S, Elems) /\ \A p \in S : Col(m, i, S)[p] = m[<<p, i>>]
<1>1. \A p \in S : m[<<p, i>>] \in Elems
  BY EntryIn
<1> QED
  BY <1>1 DEF IsFamily, Col

LEMMA RowProducts ==
  ASSUME NEW S, IsFiniteSet(S), NEW J, IsFiniteSet(J), NEW m, IsGrid(m, S, J),
         NEW c, IsFamily(c, J, Elems), NEW p \in S
  PROVE  LET k == Products2(J, c, Row(m, p, J))
         IN  /\ IsFamily(k, J, Elems) /\ \A i \in J : k[i] = Mul(c[i], m[<<p, i>>])
             /\ WeightedSum(J, c, Row(m, p, J)) = SumE(k)
<1> DEFINE r == Row(m, p, J)
<1>1. IsFamily(r, J, Elems) /\ \A i \in J : r[i] = m[<<p, i>>]
  BY RowIn
<1>2. WeightedSum(J, c, r) = SumE(Products2(J, c, r))
  BY DEF WeightedSum
<1> HIDE DEF r
<1>3. /\ IsFamily(Products2(J, c, r), J, Elems)
      /\ \A i \in J : Products2(J, c, r)[i] = Mul(c[i], m[<<p, i>>])
  BY <1>1, Products2In
<1> QED
  BY <1>2, <1>3 DEF r

LEMMA ColProducts ==
  ASSUME NEW S, IsFiniteSet(S), NEW J, IsFiniteSet(J), NEW m, IsGrid(m, S, J),
         NEW a, IsFamily(a, S, Elems), NEW i \in J
  PROVE  LET k == Products2(S, a, Col(m, i, S))
         IN  /\ IsFamily(k, S, Elems) /\ \A p \in S : k[p] = Mul(a[p], m[<<p, i>>])
             /\ WeightedSum(S, a, Col(m, i, S)) = SumE(k)
<1> DEFINE r == Col(m, i, S)
<1>1. IsFamily(r, S, Elems) /\ \A p \in S : r[p] = m[<<p, i>>]
  BY ColIn
<1>2. WeightedSum(S, a, r) = SumE(Products2(S, a, r))
  BY DEF WeightedSum
<1> HIDE DEF r
<1>3. /\ IsFamily(Products2(S, a, r), S, Elems)
      /\ \A p \in S : Products2(S, a, r)[p] = Mul(a[p], m[<<p, i>>])
  BY <1>1, Products2In
<1> QED
  BY <1>2, <1>3 DEF r

\* a_p times the sum over i of c_i m_pi, summed, is c_i times the sum over p of
\* a_p m_pi, summed.
LEMMA Exchange ==
  ASSUME NEW S, IsFiniteSet(S), NEW J, IsFiniteSet(J), NEW a, NEW c, NEW m,
         IsFamily(a, S, Elems), IsFamily(c, J, Elems), IsGrid(m, S, J),
         NEW x, IsFamily(x, S, Elems), \A p \in S : x[p] = WeightedSum(J, c, Row(m, p, J)),
         NEW y, IsFamily(y, J, Elems), \A i \in J : y[i] = WeightedSum(S, a, Col(m, i, S))
  PROVE  WeightedSum(S, a, x) = WeightedSum(J, c, y)
<1> DEFINE f == [t \in S \X J |-> Mul(Mul(a[t[1]], c[t[2]]), m[t])]
           row == [p \in S |-> Row(f, p, J)]
           col == [i \in J |-> Col(f, i, S)]
<1>1. /\ \A p \in S : a[p] \in Elems
      /\ \A i \in J : c[i] \in Elems
      /\ \A p \in S, i \in J : m[<<p, i>>] \in Elems
  BY EntryIn DEF IsFamily
<1>2. \A p \in S, i \in J : /\ f[<<p, i>>] = Mul(Mul(a[p], c[i]), m[<<p, i>>])
                            /\ f[<<p, i>>] \in Elems
                            /\ f[<<p, i>>] = Mul(a[p], Mul(c[i], m[<<p, i>>]))
                            /\ f[<<p, i>>] = Mul(c[i], Mul(a[p], m[<<p, i>>]))
  <2>1. ASSUME NEW p \in S, NEW i \in J
        PROVE  /\ f[<<p, i>>] = Mul(Mul(a[p], c[i]), m[<<p, i>>])
               /\ f[<<p, i>>] \in Elems
               /\ f[<<p, i>>] = Mul(a[p], Mul(c[i], m[<<p, i>>]))
               /\ f[<<p, i>>] = Mul(c[i], Mul(a[p], m[<<p, i>>]))
    <3>1. f[<<p, i>>] = Mul(Mul(a[p], c[i]), m[<<p, i>>])
      OBVIOUS
    <3>2. a[p] \in Elems /\ c[i] \in Elems /\ m[<<p, i>>] \in Elems
      BY <1>1
    <3> HIDE DEF f
    <3>3. Mul(a[p], c[i]) \in Elems /\ Mul(a[p], c[i]) = Mul(c[i], a[p])
      BY <3>2, MulRules
    <3>4. Mul(Mul(a[p], c[i]), m[<<p, i>>]) \in Elems
      BY <3>2, <3>3, MulRules
    <3>5. Mul(Mul(a[p], c[i]), m[<<p, i>>]) = Mul(a[p], Mul(c[i], m[<<p, i>>]))
      BY <3>2, MulRules
    <3>6. Mul(Mul(c[i], a[p]), m[<<p, i>>]) = Mul(c[i], Mul(a[p], m[<<p, i>>]))
      BY <3>2, MulRules
    <3> QED
      BY <3>1, <3>3, <3>4, <3>5, <3>6
  <2> HIDE DEF f
  <2> QED
    BY <2>1
<1>3. f = [t \in DOMAIN f |-> f[t]] /\ DOMAIN f = S \X J
  OBVIOUS
<1>4. /\ \A p \in S : row[p] = Row(f, p, J)
      /\ \A i \in J : col[i] = Col(f, i, S)
  OBVIOUS
<1> HIDE DEF f, row, col
<1>5. IsFamily(f, S \X J, Elems)
  <2>1. IsFiniteSet(S \X J)
    BY FS_Product
  <2>2. \A t \in S \X J : f[t] \in Elems
    BY <1>2
  <2> QED
    BY <2>1, <2>2, <1>3 DEF IsFamily
<1>6. Rows2(row, f, S, J, Elems) /\ Columns2(col, f, S, J, Elems)
  <2>1. \A p \in S : IsFamily(row[p], J, Elems) /\ \A i \in J : row[p][i] = f[<<p, i>>]
    <3>1. IsGrid(f, S, J)
      BY <1>5 DEF IsGrid
    <3>2. ASSUME NEW p \in S
          PROVE  IsFamily(row[p], J, Elems) /\ \A i \in J : row[p][i] = f[<<p, i>>]
      <4>1. IsFamily(Row(f, p, J), J, Elems) /\ \A i \in J : Row(f, p, J)[i] = f[<<p, i>>]
        <5>1. p \in S /\ IsFiniteSet(J)
          OBVIOUS
        <5> QED
          BY ONLY <3>1, <5>1, RowIn
      <4> QED
        BY <4>1, <1>4
    <3> QED
      BY <3>2
  <2>2. \A i \in J : IsFamily(col[i], S, Elems) /\ \A p \in S : col[i][p] = f[<<p, i>>]
    BY <1>4, <1>5, ColIn DEF IsGrid
  <2> QED
    BY <2>1, <2>2 DEF Rows2, Columns2
<1> DEFINE sums == Products2(S, a, x)
           tots == Products2(J, c, y)
<1>7. /\ IsFamily(sums, S, Elems) /\ \A p \in S : sums[p] = Mul(a[p], x[p])
      /\ IsFamily(tots, J, Elems) /\ \A i \in J : tots[i] = Mul(c[i], y[i])
  BY Products2In
<1>8. SumE(sums) = WeightedSum(S, a, x) /\ SumE(tots) = WeightedSum(J, c, y)
  BY DEF WeightedSum
<1> HIDE DEF sums, tots
<1>9. ASSUME NEW p \in S
      PROVE  sums[p] = SumE(row[p])
  <2> DEFINE k == Products2(J, c, Row(m, p, J))
             g == row[p]
  <2>1. IsFamily(k, J, Elems) /\ \A i \in J : k[i] = Mul(c[i], m[<<p, i>>])
    BY RowProducts
  <2>2. IsFamily(g, J, Elems) /\ \A i \in J : g[i] = f[<<p, i>>]
    BY <1>6 DEF Rows2
  <2>3. x[p] = SumE(k)
    BY DEF WeightedSum
  <2> HIDE DEF k, g
  <2>4. \A i \in J : g[i] = Mul(a[p], k[i])
    BY <1>2, <2>1, <2>2
  <2>5. Mul(a[p], SumE(k)) = SumE(g)
    BY <1>1, <2>1, <2>2, <2>4, MulOfSum
  <2> QED
    BY <1>7, <2>3, <2>5 DEF g
<1>10. ASSUME NEW i \in J
       PROVE  tots[i] = SumE(col[i])
  <2> DEFINE k == Products2(S, a, Col(m, i, S))
             g == col[i]
  <2>1. IsFamily(k, S, Elems) /\ \A p \in S : k[p] = Mul(a[p], m[<<p, i>>])
    BY ColProducts
  <2>2. IsFamily(g, S, Elems) /\ \A p \in S : g[p] = f[<<p, i>>]
    BY <1>6 DEF Columns2
  <2>3. y[i] = SumE(k)
    BY DEF WeightedSum
  <2> HIDE DEF k, g
  <2>4. \A p \in S : g[p] = Mul(c[i], k[p])
    BY <1>2, <2>1, <2>2
  <2>5. Mul(c[i], SumE(k)) = SumE(g)
    BY <1>1, <2>1, <2>2, <2>4, MulOfSum
  <2> QED
    BY <1>7, <2>3, <2>5 DEF g
<1>11. AreSums(sums, row, S, AddE, Zero) /\ AreSums(tots, col, J, AddE, Zero)
  BY <1>9, <1>10 DEF AreSums, SumE
<1>12. SumOf(AddE, Zero, sums) = SumOf(AddE, Zero, tots)
  BY <1>5, <1>6, <1>7, <1>11, ElemSums, SumSwap
<1> QED
  BY <1>8, <1>12 DEF SumE

\* The same sum over pairs.
DoubleTerms(S, c, m) == [x \in S \X S |-> Mul(Mul(c[x[1]], c[x[2]]), m[x])]
DoubleSum(S, c, m) == SumE(DoubleTerms(S, c, m))

LEMMA DoubleSumIs ==
  ASSUME NEW S, IsFiniteSet(S), NEW c, IsFamily(c, S, Elems), NEW m, IsGrid(m, S, S),
         NEW y, IsFamily(y, S, Elems), \A i \in S : y[i] = WeightedSum(S, c, Row(m, i, S))
  PROVE  WeightedSum(S, c, y) = DoubleSum(S, c, m) /\ DoubleSum(S, c, m) \in Elems
<1> DEFINE f == [x \in S \X S |-> Mul(Mul(c[x[1]], c[x[2]]), m[x])]
           row == [i \in S |-> Row(f, i, S)]
<1>1. /\ \A i \in S : c[i] \in Elems
      /\ \A i, j \in S : m[<<i, j>>] \in Elems
  BY EntryIn DEF IsFamily
<1>2. \A i, j \in S : /\ f[<<i, j>>] \in Elems
                      /\ f[<<i, j>>] = Mul(c[i], Mul(c[j], m[<<i, j>>]))
  <2>1. ASSUME NEW i \in S, NEW j \in S
        PROVE  /\ f[<<i, j>>] \in Elems
               /\ f[<<i, j>>] = Mul(c[i], Mul(c[j], m[<<i, j>>]))
    <3>1. f[<<i, j>>] = Mul(Mul(c[i], c[j]), m[<<i, j>>])
      OBVIOUS
    <3>2. c[i] \in Elems /\ c[j] \in Elems /\ m[<<i, j>>] \in Elems
      BY <1>1
    <3> HIDE DEF f
    <3>3. Mul(c[i], c[j]) \in Elems
      BY <3>2, MulRules
    <3>4. Mul(Mul(c[i], c[j]), m[<<i, j>>]) \in Elems
      BY <3>2, <3>3, MulRules
    <3>5. Mul(Mul(c[i], c[j]), m[<<i, j>>]) = Mul(c[i], Mul(c[j], m[<<i, j>>]))
      BY <3>2, MulRules
    <3> QED
      BY <3>1, <3>4, <3>5
  <2> HIDE DEF f
  <2> QED
    BY <2>1
<1>3. f = [t \in DOMAIN f |-> f[t]] /\ DOMAIN f = S \X S /\ DoubleSum(S, c, m) = SumE(f)
  BY DEF DoubleSum, DoubleTerms
<1>4. \A i \in S : row[i] = Row(f, i, S)
  OBVIOUS
<1> HIDE DEF f, row
<1>5. IsFamily(f, S \X S, Elems)
  <2>1. IsFiniteSet(S \X S)
    BY FS_Product
  <2>2. \A t \in S \X S : f[t] \in Elems
    BY <1>2
  <2> QED
    BY <2>1, <2>2, <1>3 DEF IsFamily
<1>6. Rows2(row, f, S, S, Elems)
  <2>1. \A i \in S : IsFamily(row[i], S, Elems) /\ \A j \in S : row[i][j] = f[<<i, j>>]
    BY <1>4, <1>5, RowIn DEF IsGrid
  <2> QED
    BY <2>1 DEF Rows2
<1> DEFINE sums == Products2(S, c, y)
<1>7. IsFamily(sums, S, Elems) /\ \A i \in S : sums[i] = Mul(c[i], y[i])
  BY Products2In
<1>8. SumE(sums) = WeightedSum(S, c, y)
  BY DEF WeightedSum
<1> HIDE DEF sums
<1>9. ASSUME NEW i \in S
      PROVE  sums[i] = SumE(row[i])
  <2> DEFINE k == Products2(S, c, Row(m, i, S))
             g == row[i]
  <2>1. IsFamily(k, S, Elems) /\ \A j \in S : k[j] = Mul(c[j], m[<<i, j>>])
    BY RowProducts
  <2>2. IsFamily(g, S, Elems) /\ \A j \in S : g[j] = f[<<i, j>>]
    BY <1>6 DEF Rows2
  <2>3. y[i] = SumE(k)
    BY DEF WeightedSum
  <2> HIDE DEF k, g
  <2>4. \A j \in S : g[j] = Mul(c[i], k[j])
    BY <1>2, <2>1, <2>2
  <2>5. Mul(c[i], SumE(k)) = SumE(g)
    BY <1>1, <2>1, <2>2, <2>4, MulOfSum
  <2> QED
    BY <1>7, <2>3, <2>5 DEF g
<1>10. AreSums(sums, row, S, AddE, Zero)
  BY <1>9 DEF AreSums, SumE
<1>11. SumOf(AddE, Zero, f) = SumOf(AddE, Zero, sums)
  BY <1>5, <1>6, <1>7, <1>10, ElemSums, SumOfPairs
<1>12. SumE(f) \in Elems
  BY <1>5, TotalIsSum
<1> QED
  BY <1>3, <1>8, <1>11, <1>12 DEF SumE

LEMMA DoubleTermsIn ==
  ASSUME NEW S, IsFiniteSet(S), NEW c, IsFamily(c, S, Elems), NEW m, IsGrid(m, S, S)
  PROVE  IsFamily(DoubleTerms(S, c, m), S \X S, Elems)
<1>1. ASSUME NEW x \in S \X S
      PROVE  Mul(Mul(c[x[1]], c[x[2]]), m[x]) \in Elems
  <2>1. c[x[1]] \in Elems /\ c[x[2]] \in Elems /\ m[x] \in Elems
    BY DEF IsFamily, IsGrid
  <2>2. Mul(c[x[1]], c[x[2]]) \in Elems
    BY <2>1, MulRules
  <2> QED
    BY <2>1, <2>2, MulRules
<1>2. IsFiniteSet(S \X S)
  BY FS_Product
<1> QED
  BY <1>1, <1>2 DEF IsFamily, DoubleTerms

LEMMA DoubleTermIs ==
  ASSUME NEW S, IsFiniteSet(S), NEW c, IsFamily(c, S, Elems), NEW m, IsGrid(m, S, S),
         NEW i \in S, NEW j \in S
  PROVE  /\ c[i] \in Elems /\ c[j] \in Elems /\ m[<<i, j>>] \in Elems /\ Mul(c[i], c[j]) \in Elems
         /\ Mul(c[i], c[j]) = Mul(c[j], c[i])
         /\ DoubleTerms(S, c, m)[<<i, j>>] = Mul(Mul(c[i], c[j]), m[<<i, j>>])
<1>1. c[i] \in Elems /\ c[j] \in Elems
  BY DEF IsFamily
<1>2. m[<<i, j>>] \in Elems
  BY EntryIn
<1>3. Mul(c[i], c[j]) \in Elems /\ Mul(c[i], c[j]) = Mul(c[j], c[i])
  BY <1>1, MulRules
<1>4. DoubleTerms(S, c, m)[<<i, j>>] = Mul(Mul(c[i], c[j]), m[<<i, j>>])
  BY DEF DoubleTerms
<1> QED
  BY <1>1, <1>2, <1>3, <1>4

\* The entries the other way around give the same sum.
LEMMA Transposed ==
  ASSUME NEW S, IsFiniteSet(S), NEW c, IsFamily(c, S, Elems), NEW m, IsGrid(m, S, S),
         NEW n, IsGrid(n, S, S), \A i, j \in S : n[<<i, j>>] = m[<<j, i>>]
  PROVE  DoubleSum(S, c, n) = DoubleSum(S, c, m)
<1> DEFINE f == DoubleTerms(S, c, m)
           g == DoubleTerms(S, c, n)
           T == S \X S
           turn == [x \in T |-> <<x[2], x[1]>>]
<1>1. IsFamily(f, T, Elems) /\ IsFamily(g, T, Elems)
  BY DoubleTermsIn
<1>2. Renumbers(turn, T, T)
  <2>1. turn \in [T -> T]
    OBVIOUS
  <2>2. \A x \in T : x = <<x[1], x[2]>> /\ x[1] \in S /\ x[2] \in S /\ turn[x] = <<x[2], x[1]>>
    OBVIOUS
  <2>3. \A x, y \in T : turn[x] = turn[y] => x = y
    BY <2>2
  <2>4. ASSUME NEW x \in T
        PROVE  \E y \in T : turn[y] = x
    <3>1. <<x[2], x[1]>> \in T /\ turn[<<x[2], x[1]>>] = <<x[1], x[2]>>
      BY <2>2
    <3> QED
      BY <2>2, <3>1
  <2> HIDE DEF turn, T
  <2> QED
    BY <2>1, <2>3, <2>4 DEF Renumbers
<1>3. ASSUME NEW i \in S, NEW j \in S
      PROVE  g[<<i, j>>] = f[<<j, i>>]
  <2>1. /\ g[<<i, j>>] = Mul(Mul(c[i], c[j]), n[<<i, j>>])
        /\ Mul(c[i], c[j]) = Mul(c[j], c[i])
    BY DoubleTermIs
  <2>2. f[<<j, i>>] = Mul(Mul(c[j], c[i]), m[<<j, i>>])
    BY DoubleTermIs
  <2> QED
    BY <2>1, <2>2
<1>4. \A x \in T : g[x] = f[turn[x]]
  <2>1. ASSUME NEW x \in T
        PROVE  g[x] = f[turn[x]]
    <3>1. x = <<x[1], x[2]>> /\ x[1] \in S /\ x[2] \in S /\ turn[x] = <<x[2], x[1]>>
      OBVIOUS
    <3> HIDE DEF f, g, turn
    <3> QED
      BY <1>3, <3>1
  <2> QED
    BY <2>1
<1>5. SumE(f) = DoubleSum(S, c, m) /\ SumE(g) = DoubleSum(S, c, n)
  BY DEF DoubleSum
<1>6. IsFiniteSet(T) /\ f \in [T -> Elems] /\ g \in [T -> Elems]
  BY <1>1 DEF IsFamily
<1> HIDE DEF f, g, T, turn
<1>7. SumOf(AddE, Zero, g) = SumOf(AddE, Zero, f)
  BY <1>2, <1>4, <1>6, ElemSums, SumReindex
<1> QED
  BY <1>5, <1>7 DEF SumE

LEMMA DoubleSumsAdd ==
  ASSUME NEW S, IsFiniteSet(S), NEW c, IsFamily(c, S, Elems), NEW m, IsGrid(m, S, S),
         NEW n, IsGrid(n, S, S), NEW t, IsGrid(t, S, S),
         \A i, j \in S : t[<<i, j>>] = Add(m[<<i, j>>], n[<<i, j>>])
  PROVE  /\ DoubleSum(S, c, t) = Add(DoubleSum(S, c, m), DoubleSum(S, c, n))
         /\ DoubleSum(S, c, m) \in Elems /\ DoubleSum(S, c, n) \in Elems
<1> DEFINE f == DoubleTerms(S, c, m)
           g == DoubleTerms(S, c, n)
           h == DoubleTerms(S, c, t)
<1>1. IsFamily(f, S \X S, Elems) /\ IsFamily(g, S \X S, Elems) /\ IsFamily(h, S \X S, Elems)
  BY DoubleTermsIn
<1>2. ASSUME NEW i \in S, NEW j \in S
      PROVE  h[<<i, j>>] = Add(f[<<i, j>>], g[<<i, j>>])
  <2>1. /\ f[<<i, j>>] = Mul(Mul(c[i], c[j]), m[<<i, j>>])
        /\ Mul(c[i], c[j]) \in Elems /\ m[<<i, j>>] \in Elems
    BY DoubleTermIs
  <2>2. g[<<i, j>>] = Mul(Mul(c[i], c[j]), n[<<i, j>>]) /\ n[<<i, j>>] \in Elems
    BY DoubleTermIs
  <2>3. h[<<i, j>>] = Mul(Mul(c[i], c[j]), t[<<i, j>>])
    BY DoubleTermIs
  <2> DEFINE k == Mul(c[i], c[j])
             x == m[<<i, j>>]
             y == n[<<i, j>>]
  <2>4. k \in Elems /\ x \in Elems /\ y \in Elems
    BY <2>1, <2>2
  <2> HIDE DEF k, x, y
  <2>5. Mul(k, Add(x, y)) = Add(Mul(k, x), Mul(k, y))
    BY ONLY <2>4, MulRules
  <2> HIDE DEF f, g, h
  <2> QED
    BY <2>1, <2>2, <2>3, <2>5 DEF k, x, y
<1>3. DoubleSum(S, c, m) = SumE(f) /\ DoubleSum(S, c, n) = SumE(g) /\ DoubleSum(S, c, t) = SumE(h)
  BY DEF DoubleSum
<1> HIDE DEF f, g, h
<1>4. \A x \in S \X S : h[x] = Add(f[x], g[x])
  BY <1>2
<1>5. SumE(h) = Add(SumE(f), SumE(g)) /\ SumE(f) \in Elems /\ SumE(g) \in Elems
  BY <1>1, <1>4, SumOfPairwise
<1> QED
  BY <1>3, <1>5

LEMMA HalvesAdd ==
  ASSUME NEW x \in Elems
  PROVE  LET half == (q + 1) \div 2
         IN  /\ Scale(x, half) \in Elems
             /\ Add(Scale(x, half), Scale(x, half)) = x
<1> DEFINE half == (q + 1) \div 2
<1>1. half \in Int /\ half + half = q + 1
  BY RingAssumption DEF IsModulus
<1>2. q \in Int /\ q > 1 /\ (q + 1) % q = 1 /\ 1 % q = 1
  BY RingAssumption DEF IsModulus
<1> HIDE DEF half
<1>3. Scale(x, half) = Mul(constant(half), x) /\ Scale(x, half) \in Elems
  BY <1>1, ScaleIs
<1>4. constant(half) \in Elems /\ Mul(constant(1), x) = x
  BY <1>1, ConstantRules
<1>5. Add(constant(half), constant(half)) = constant(q + 1)
  BY <1>1, ConstantRules
<1>6. constant(q + 1) = constant(1)
  BY <1>2 DEF constant
<1>7. Mul(Add(constant(half), constant(half)), x) = Add(Mul(constant(half), x), Mul(constant(half), x))
  BY <1>4, MulRules
<1> QED
  BY <1>3, <1>4, <1>5, <1>6, <1>7 DEF half

\* A matrix made symmetric gives the same sum.
LEMMA MadeSymmetric ==
  ASSUME NEW S, IsFiniteSet(S), NEW c, IsFamily(c, S, Elems), NEW m, IsGrid(m, S, S),
         NEW t, IsGrid(t, S, S),
         \A i, j \in S : t[<<i, j>>] = Scale(Add(m[<<i, j>>], m[<<j, i>>]), (q + 1) \div 2)
  PROVE  DoubleSum(S, c, t) = DoubleSum(S, c, m)
<1> DEFINE half(x) == Scale(x, (q + 1) \div 2)
           a == [x \in S \X S |-> half(m[x])]
           b == [x \in S \X S |-> half(m[<<x[2], x[1]>>])]
<1>1. \A x \in Elems : half(x) \in Elems /\ Add(half(x), half(x)) = x
  BY HalvesAdd
<1>2. \A x, y \in Elems : half(Add(x, y)) = Add(half(x), half(y))
  <2>1. (q + 1) \div 2 \in Int
    BY RingAssumption DEF IsModulus
  <2>2. ASSUME NEW x \in Elems, NEW y \in Elems
        PROVE  half(Add(x, y)) = Add(half(x), half(y))
    <3> DEFINE k == (q + 1) \div 2
    <3>0. k \in Int
      BY <2>1
    <3> HIDE DEF k
    <3>1. Add(x, y) \in Elems /\ constant(k) \in Elems
      BY <3>0, AddRules, ConstantRules
    <3>2. /\ Scale(x, k) = Mul(constant(k), x) /\ Scale(y, k) = Mul(constant(k), y)
          /\ Scale(Add(x, y), k) = Mul(constant(k), Add(x, y))
      BY <3>0, <3>1, ScaleIs
    <3>3. Mul(constant(k), Add(x, y)) = Add(Mul(constant(k), x), Mul(constant(k), y))
      BY <3>1, MulRules
    <3> QED
      BY <3>2, <3>3 DEF k
  <2> QED
    BY <2>2
<1>3. \A i, j \in S : m[<<i, j>>] \in Elems
  BY EntryIn
<1>4. \A i, j \in S : a[<<i, j>>] = half(m[<<i, j>>]) /\ b[<<i, j>>] = half(m[<<j, i>>])
  OBVIOUS
<1>5. \A i, j \in S : t[<<i, j>>] = half(Add(m[<<i, j>>], m[<<j, i>>]))
  OBVIOUS
<1>6. IsFiniteSet(S \X S)
  BY FS_Product
<1> HIDE DEF half
<1>7. IsGrid(a, S, S) /\ IsGrid(b, S, S)
  <2>1. \A x \in S \X S : x[1] \in S /\ x[2] \in S /\ x = <<x[1], x[2]>> /\ <<x[2], x[1]>> \in S \X S
    OBVIOUS
  <2>2. \A x \in S \X S : m[x] \in Elems /\ m[<<x[2], x[1]>>] \in Elems
    BY <2>1, <1>3
  <2>3. \A x \in S \X S : half(m[x]) \in Elems /\ half(m[<<x[2], x[1]>>]) \in Elems
    BY <2>2, <1>1
  <2> QED
    BY <2>3, <1>6 DEF IsGrid, IsFamily
<1> HIDE DEF a, b
<1>8. \A i, j \in S : b[<<i, j>>] = a[<<j, i>>]
  BY <1>4
<1>9. \A i, j \in S : m[<<i, j>>] = Add(a[<<i, j>>], a[<<i, j>>])
  BY <1>1, <1>3, <1>4
<1>10. \A i, j \in S : t[<<i, j>>] = Add(a[<<i, j>>], b[<<i, j>>])
  <2>1. ASSUME NEW i \in S, NEW j \in S, NEW y, NEW x, y = m[<<i, j>>], x = m[<<j, i>>]
        PROVE  t[<<i, j>>] = Add(a[<<i, j>>], b[<<i, j>>])
    <3>1. y \in Elems /\ x \in Elems
      BY ONLY <1>3, <2>1
    <3>2. half(Add(y, x)) = Add(half(y), half(x))
      BY ONLY <1>2, <3>1
    <3>3. t[<<i, j>>] = half(Add(y, x))
      BY ONLY <1>5, <2>1
    <3>4. a[<<i, j>>] = half(y) /\ b[<<i, j>>] = half(x)
      BY ONLY <1>4, <2>1
    <3> QED
      BY ONLY <3>2, <3>3, <3>4
  <2> QED
    BY ONLY <2>1
<1>11. DoubleSum(S, c, b) = DoubleSum(S, c, a)
  BY <1>7, <1>8, Transposed
<1>12. DoubleSum(S, c, m) = Add(DoubleSum(S, c, a), DoubleSum(S, c, a))
  BY <1>7, <1>9, DoubleSumsAdd
<1>13. DoubleSum(S, c, t) = Add(DoubleSum(S, c, a), DoubleSum(S, c, b))
  BY <1>7, <1>10, DoubleSumsAdd
<1> QED
  BY <1>11, <1>12, <1>13

-----------------------------------------------------------------------------
(* What an honest prover's sums are: z is a sum of the vectors.            *)
AlongVector(x, pos, S) == [p \in S |-> x[pos[p]]]

LEMMA WitnessVectors ==
  ASSUME IsStatement(stmt), IsWitness(w, stmt)
  PROVE  /\ IsFiniteSet(Vectors) /\ IsFiniteSet(Below(stmt.n)) /\ Vectors = Below(stmt.r)
         /\ stmt.n \in Nat /\ stmt.r \in Nat /\ 0 \in Vectors
         /\ \A i \in Vectors : w[i] \in [Below(stmt.n) -> Elems]
         /\ \A i \in Vectors : \A p \in Below(stmt.n) : w[i][p] \in Elems
<1>1. stmt.n \in Nat /\ stmt.r \in Nat /\ stmt.r > 0
  BY DEF IsStatement
<1>2. IsFiniteSet(Below(stmt.r)) /\ IsFiniteSet(Below(stmt.n))
  BY <1>1, FiniteBelow
<1>3. \A i \in Vectors : w[i] \in [Below(stmt.n) -> Elems]
  BY DEF IsWitness, Vectors, Below
<1>4. 0 \in Vectors
  BY <1>1 DEF Vectors, Below
<1> QED
  BY <1>1, <1>2, <1>3, <1>4 DEF Vectors

LEMMA AmortizedEntry ==
  ASSUME IsStatement(stmt), IsWitness(w, stmt), NEW ch \in [Vectors -> Elems], NEW p \in Below(stmt.n),
         NEW row, row = [i \in Vectors |-> w[i][p]]
  PROVE  /\ IsFamily(row, Vectors, Elems) /\ IsFamily(ch, Vectors, Elems)
         /\ Amortized(ch)[p] = WeightedSum(Vectors, ch, row)
<1>1. IsFamily(row, Vectors, Elems) /\ IsFamily(ch, Vectors, Elems)
  BY WitnessVectors DEF IsFamily
<1>2. Amortized(ch)[p] = Total([i \in Vectors |-> Mul(ch[i], w[i][p])])
  BY DEF Amortized
<1>3. Products2(Vectors, ch, row) = [i \in Vectors |-> Mul(ch[i], w[i][p])]
  BY DEF Products2
<1>4. IsFamily(Products2(Vectors, ch, row), Vectors, Elems)
  BY <1>1, Products2In
<1>5. Total(Products2(Vectors, ch, row)) = SumE(Products2(Vectors, ch, row))
  BY <1>4, TotalIsSum
<1> QED
  BY <1>1, <1>2, <1>3, <1>5 DEF WeightedSum

\* A weighted sum of entries of z is the sum, weighted by the challenges, of
\* those of the vectors.
LEMMA AlongAmortized ==
  ASSUME IsStatement(stmt), IsWitness(w, stmt), NEW ch \in [Vectors -> Elems],
         NEW S, NEW a, IsFamily(a, S, Elems), NEW pos \in [S -> Below(stmt.n)],
         NEW y, IsFamily(y, Vectors, Elems),
         \A i \in Vectors : y[i] = WeightedSum(S, a, AlongVector(w[i], pos, S))
  PROVE  /\ WeightedSum(S, a, AlongVector(Amortized(ch), pos, S)) = WeightedSum(Vectors, ch, y)
         /\ IsFamily(AlongVector(Amortized(ch), pos, S), S, Elems)
<1> DEFINE m == [t \in S \X Vectors |-> w[t[2]][pos[t[1]]]]
           x == AlongVector(Amortized(ch), pos, S)
<1>1. IsFiniteSet(S) /\ IsFiniteSet(Vectors) /\ IsFamily(ch, Vectors, Elems)
  BY WitnessVectors DEF IsFamily
<1>2. \A p \in S, i \in Vectors : m[<<p, i>>] = w[i][pos[p]]
  OBVIOUS
<1>3. IsGrid(m, S, Vectors)
  <2>1. IsFiniteSet(S \X Vectors)
    BY <1>1, FS_Product
  <2>2. \A t \in S \X Vectors : w[t[2]][pos[t[1]]] \in Elems
    <3>1. ASSUME NEW t \in S \X Vectors
          PROVE  w[t[2]][pos[t[1]]] \in Elems
      <4>1. t[2] \in Vectors /\ pos[t[1]] \in Below(stmt.n)
        OBVIOUS
      <4> QED
        BY <4>1, WitnessVectors
    <3> QED
      BY <3>1
  <2> QED
    BY <2>1, <2>2 DEF IsGrid, IsFamily
<1>4. ASSUME NEW p \in S
      PROVE  x[p] = WeightedSum(Vectors, ch, Row(m, p, Vectors)) /\ x[p] \in Elems
  <2>1. Row(m, p, Vectors) = [i \in Vectors |-> w[i][pos[p]]]
    BY DEF Row
  <2>2. x[p] = Amortized(ch)[pos[p]] /\ pos[p] \in Below(stmt.n)
    BY DEF AlongVector
  <2> DEFINE row == Row(m, p, Vectors)
             k == pos[p]
  <2> HIDE DEF row, m, x
  <2>3. k \in Below(stmt.n) /\ row = [i \in Vectors |-> w[i][k]]
    BY <2>1, <2>2 DEF row
  <2> HIDE DEF k
  <2>4. /\ IsFamily(row, Vectors, Elems) /\ IsFamily(ch, Vectors, Elems)
        /\ Amortized(ch)[k] = WeightedSum(Vectors, ch, row)
    BY <2>3, AmortizedEntry
  <2>5. WeightedSum(Vectors, ch, row) \in Elems
    BY <2>4, Products2In
  <2> QED
    BY <2>2, <2>4, <2>5 DEF k, row
<1>5. \A i \in Vectors : Col(m, i, S) = AlongVector(w[i], pos, S)
  BY DEF Col, AlongVector
<1>6. IsFamily(x, S, Elems)
  <2>1. x = [p \in DOMAIN x |-> x[p]] /\ DOMAIN x = S
    BY DEF AlongVector
  <2> HIDE DEF x
  <2> QED
    BY <2>1, <1>1, <1>4 DEF IsFamily
<1> HIDE DEF m, x
<1>7. \A i \in Vectors : y[i] = WeightedSum(S, a, Col(m, i, S))
  BY <1>5
<1>8. \A p \in S : x[p] = WeightedSum(Vectors, ch, Row(m, p, Vectors))
  BY <1>4
<1>9. WeightedSum(S, a, x) = WeightedSum(Vectors, ch, y)
  BY <1>1, <1>3, <1>6, <1>7, <1>8, Exchange
<1> QED
  BY <1>6, <1>9 DEF x

LEMMA AlongAll ==
  ASSUME NEW S, NEW x \in [S -> Elems]
  PROVE  AlongVector(x, Identity(S), S) = x /\ Identity(S) \in [S -> S]
BY DEF AlongVector, Identity

\* A row of the inner commitment to z.
LEMMA InnerHonest ==
  ASSUME DrawsAreResidues, IsStatement(stmt), IsWitness(w, stmt), NEW ch \in [Vectors -> Elems],
         NEW sd, NEW k \in Below(it.kappa), NEW y, y = [i \in Vectors |-> matmul(sd, w[i])[k]]
  PROVE  IsFamily(y, Vectors, Elems) /\ matmul(sd, Amortized(ch))[k] = WeightedSum(Vectors, ch, y)
<1> DEFINE S == Below(stmt.n)
           a == [p \in S |-> A(sd, k, p)]
           pos == Identity(S)
           x == Amortized(ch)
<1>1. IsFiniteSet(S) /\ IsFiniteSet(Vectors) /\ \A i \in Vectors : w[i] \in [S -> Elems]
  BY WitnessVectors
<1>2. x \in [S -> Elems]
  BY AmortizedIn
<1>3. IsFamily(a, S, Elems)
  BY <1>1, MatrixIn DEF IsFamily
<1>4. ASSUME NEW v \in [S -> Elems]
      PROVE  matmul(sd, v)[k] = WeightedSum(S, a, v) /\ matmul(sd, v)[k] \in Elems
  <2>1. matmul(sd, v)[k] = SumE([p \in S |-> Mul(A(sd, k, p), v[p])]) /\ matmul(sd, v)[k] \in Elems
    <3>1. IsFiniteSet(S)
      BY <1>1
    <3> HIDE DEF S
    <3>2. /\ matmul(sd, v) \in [Below(it.kappa) -> Elems]
          /\ \A l \in Below(it.kappa) : matmul(sd, v)[l] = SumE([p \in S |-> Mul(A(sd, l, p), v[p])])
      BY <3>1, MatmulIs, Zenon
    <3> QED
      BY ONLY <3>2, k \in Below(it.kappa)
  <2>2. Products2(S, a, v) = [p \in S |-> Mul(A(sd, k, p), v[p])]
    BY DEF Products2
  <2> QED
    BY <2>1, <2>2 DEF WeightedSum
<1>5. IsFamily(y, Vectors, Elems)
  <2>1. \A i \in Vectors : matmul(sd, w[i])[k] \in Elems
    BY <1>1, <1>4
  <2> QED
    BY <1>1, <2>1 DEF IsFamily
<1>6. pos \in [S -> S] /\ AlongVector(x, pos, S) = x
      /\ \A i \in Vectors : AlongVector(w[i], pos, S) = w[i]
  BY <1>1, <1>2, AlongAll
<1>7. \A i \in Vectors : y[i] = WeightedSum(S, a, AlongVector(w[i], pos, S))
  <2>1. ASSUME NEW i \in Vectors
        PROVE  y[i] = WeightedSum(S, a, AlongVector(w[i], pos, S))
    <3>1. matmul(sd, w[i])[k] = WeightedSum(S, a, w[i])
      BY <1>1, <1>4
    <3>2. AlongVector(w[i], pos, S) = w[i] /\ y[i] = matmul(sd, w[i])[k]
      BY <1>6
    <3> QED
      BY <3>1, <3>2
  <2> QED
    BY <2>1
<1>8. matmul(sd, x)[k] = WeightedSum(S, a, AlongVector(x, pos, S))
  BY <1>2, <1>4, <1>6
<1> HIDE DEF a, pos, x
<1>9. WeightedSum(S, a, AlongVector(Amortized(ch), pos, S)) = WeightedSum(Vectors, ch, y)
  BY <1>3, <1>5, <1>6, <1>7, AlongAmortized
<1> QED
  BY <1>5, <1>8, <1>9 DEF x

LEMMA InnerProductWeighted ==
  ASSUME NEW S, IsFiniteSet(S), NEW x \in [S -> Elems], NEW v \in [S -> Elems]
  PROVE  /\ ring_inner_product(x, v) = WeightedSum(S, x, v) /\ ring_inner_product(x, v) \in Elems
         /\ ring_inner_product(x, v) = ring_inner_product(v, x)
<1>1. /\ ring_inner_product(x, v) = SumE([p \in S |-> Mul(x[p], v[p])])
      /\ ring_inner_product(v, x) = SumE([p \in S |-> Mul(v[p], x[p])])
      /\ ring_inner_product(x, v) \in Elems
  BY InnerProductIs
<1>2. Products2(S, x, v) = [p \in S |-> Mul(x[p], v[p])]
  BY DEF Products2
<1>3. [p \in S |-> Mul(x[p], v[p])] = [p \in S |-> Mul(v[p], x[p])]
  <2>1. \A p \in S : Mul(x[p], v[p]) = Mul(v[p], x[p])
    BY MulRules
  <2> QED
    BY <2>1
<1> QED
  BY <1>1, <1>2, <1>3 DEF WeightedSum

\* The inner product with z.
LEMMA InnerProductHonest ==
  ASSUME IsStatement(stmt), IsWitness(w, stmt), NEW ch \in [Vectors -> Elems],
         NEW x \in [Below(stmt.n) -> Elems], NEW y, y = [i \in Vectors |-> ring_inner_product(x, w[i])]
  PROVE  IsFamily(y, Vectors, Elems) /\ ring_inner_product(x, Amortized(ch)) = WeightedSum(Vectors, ch, y)
<1> DEFINE S == Below(stmt.n)
           pos == Identity(S)
           u == Amortized(ch)
<1>1. IsFiniteSet(S) /\ IsFiniteSet(Vectors) /\ \A i \in Vectors : w[i] \in [S -> Elems]
  BY WitnessVectors
<1>2. u \in [S -> Elems]
  BY AmortizedIn
<1>3. IsFamily(x, S, Elems)
  BY <1>1 DEF IsFamily
<1>4. \A v \in [S -> Elems] : ring_inner_product(x, v) = WeightedSum(S, x, v) /\ ring_inner_product(x, v) \in Elems
  BY <1>1, InnerProductWeighted
<1>5. IsFamily(y, Vectors, Elems)
  BY <1>1, <1>4 DEF IsFamily
<1>6. pos \in [S -> S] /\ AlongVector(u, pos, S) = u
      /\ \A i \in Vectors : AlongVector(w[i], pos, S) = w[i]
  BY <1>1, <1>2, AlongAll
<1>7. \A i \in Vectors : y[i] = WeightedSum(S, x, AlongVector(w[i], pos, S))
  BY <1>1, <1>4, <1>6
<1>8. ring_inner_product(x, u) = WeightedSum(S, x, AlongVector(u, pos, S))
  BY <1>2, <1>4, <1>6
<1> HIDE DEF pos, u
<1>9. WeightedSum(S, x, AlongVector(Amortized(ch), pos, S)) = WeightedSum(Vectors, ch, y)
  BY <1>3, <1>5, <1>6, <1>7, AlongAmortized
<1> QED
  BY <1>5, <1>8, <1>9 DEF u

\* The product of phi_i and z.
LEMMA PhiDotHonest ==
  ASSUME IsStatement(stmt), IsWitness(w, stmt), NEW ch \in [Vectors -> Elems],
         NEW phi, IsSparse(phi, Positions(stmt)), NEW i \in Vectors,
         NEW y, y = [j \in Vectors |-> phi_dot(phi, i, w[j])]
  PROVE  IsFamily(y, Vectors, Elems) /\ phi_dot(phi, i, Amortized(ch)) = WeightedSum(Vectors, ch, y)
<1> DEFINE S == {t \in DOMAIN phi : t[1] = i}
           a == [t \in S |-> phi[t]]
           pos == [t \in S |-> t[2]]
           u == Amortized(ch)
<1>0. IsFiniteSet(Vectors) /\ \A j \in Vectors : w[j] \in [Below(stmt.n) -> Elems]
  BY WitnessVectors
<1>1. stmt.n \in Nat /\ stmt.r \in Nat /\ Below(stmt.n) = 0..(stmt.n - 1)
  BY DEF IsStatement, Below
<1>2. u \in [Below(stmt.n) -> Elems]
  BY AmortizedIn
<1>3. ASSUME NEW v \in [Below(stmt.n) -> Elems]
      PROVE  /\ IsFiniteSet(S)
             /\ phi_dot(phi, i, v) = WeightedSum(S, a, AlongVector(v, pos, S))
             /\ phi_dot(phi, i, v) \in Elems
  <2> DEFINE f == [t \in S |-> Mul(phi[t], v[t[2]])]
  <2>1. IsFamily(f, S, Elems) /\ phi_dot(phi, i, v) = SumE(f) /\ phi_dot(phi, i, v) \in Elems
    <3> DEFINE st == stmt
    <3>1. v \in [0..(st.n - 1) -> Elems] /\ st.n \in Nat /\ st.r \in Nat
          /\ IsSparse(phi, Positions(st))
      BY <1>1
    <3> HIDE DEF st
    <3>2. /\ IsFamily([y_ \in {t \in DOMAIN phi : t[1] = i} |-> Mul(phi[y_], v[y_[2]])],
                      {t \in DOMAIN phi : t[1] = i}, Elems)
          /\ phi_dot(phi, i, v) = SumE([y_ \in {t \in DOMAIN phi : t[1] = i} |-> Mul(phi[y_], v[y_[2]])])
          /\ phi_dot(phi, i, v) \in Elems
      BY ONLY <3>1, PhiDotIs
    <3> QED
      BY <3>2
  <2>2. Products2(S, a, AlongVector(v, pos, S)) = f
    BY DEF Products2, AlongVector
  <2>3. IsFiniteSet(S)
    BY <2>1 DEF IsFamily
  <2> QED
    BY <2>1, <2>2, <2>3 DEF WeightedSum
<1>4. IsFiniteSet(S)
  BY <1>2, <1>3
<1>5. IsFamily(a, S, Elems) /\ pos \in [S -> Below(stmt.n)]
  <2>1. \A t \in DOMAIN phi : phi[t] \in Elems /\ t[2] \in Below(stmt.n)
    BY <1>1 DEF IsSparse, Positions
  <2> QED
    BY <1>4, <2>1 DEF IsFamily
<1>6. IsFamily(y, Vectors, Elems)
  <2>1. \A j \in Vectors : phi_dot(phi, i, w[j]) \in Elems
    BY <1>0, <1>3
  <2> QED
    BY <1>0, <2>1 DEF IsFamily
<1>7. \A j \in Vectors : y[j] = WeightedSum(S, a, AlongVector(w[j], pos, S))
  BY <1>0, <1>3
<1>8. phi_dot(phi, i, u) = WeightedSum(S, a, AlongVector(u, pos, S))
  BY <1>2, <1>3
<1> HIDE DEF a, pos, u, S
<1>9. WeightedSum(S, a, AlongVector(Amortized(ch), pos, S)) = WeightedSum(Vectors, ch, y)
  BY <1>5, <1>6, <1>7, AlongAmortized
<1> QED
  BY <1>6, <1>8, <1>9 DEF u

\* The entries of g or h for all pairs.
GarbageGrid(g) == [x \in Vectors \X Vectors |-> g[Sorted(x)]]

LEMMA SortedIn ==
  ASSUME IsStatement(stmt), NEW i \in Vectors, NEW j \in Vectors
  PROVE  /\ Sorted(<<i, j>>) \in Pairs(stmt.r)
         /\ Sorted(<<i, j>>) = <<i, j>> \/ (Sorted(<<i, j>>) = <<j, i>> /\ <<j, i>> \in Pairs(stmt.r))
<1>1. i \in Nat /\ j \in Nat /\ i \in 0..(stmt.r - 1) /\ j \in 0..(stmt.r - 1)
  BY DEF Vectors, Below, IsStatement
<1> QED
  BY <1>1 DEF Sorted, Pairs

LEMMA GarbageDouble ==
  ASSUME IsStatement(stmt), IsWitness(w, stmt), NEW ch \in [Vectors -> Elems],
         NEW g \in [Pairs(stmt.r) -> Elems]
  PROVE  /\ IsGrid(GarbageGrid(g), Vectors, Vectors)
         /\ \A i, j \in Vectors : GarbageGrid(g)[<<i, j>>] = g[Sorted(<<i, j>>)]
         /\ Total(AllGarbage(ch, g, stmt.r)) = DoubleSum(Vectors, ch, GarbageGrid(g))
<1> DEFINE m == GarbageGrid(g)
<1>1. IsFiniteSet(Vectors) /\ IsFiniteSet(Vectors \X Vectors) /\ Vectors = Below(stmt.r)
  BY WitnessVectors, FS_Product
<1>2. IsFamily(ch, Vectors, Elems)
  BY <1>1 DEF IsFamily
<1>3. IsGrid(m, Vectors, Vectors)
  <2>1. ASSUME NEW x \in Vectors \X Vectors
        PROVE  g[Sorted(x)] \in Elems
    <3>1. x = <<x[1], x[2]>> /\ x[1] \in Vectors /\ x[2] \in Vectors
      OBVIOUS
    <3>2. Sorted(<<x[1], x[2]>>) \in Pairs(stmt.r)
      BY <3>1, SortedIn
    <3> QED
      BY <3>1, <3>2
  <2> QED
    BY <1>1, <2>1 DEF IsGrid, IsFamily, GarbageGrid
<1>4. AllGarbage(ch, g, stmt.r) = DoubleTerms(Vectors, ch, m)
  <2>1. AllGarbage(ch, g, stmt.r) = [x \in Vectors \X Vectors |-> Mul(Mul(ch[x[1]], ch[x[2]]), g[Sorted(x)])]
    BY <1>1 DEF AllGarbage
  <2>2. \A x \in Vectors \X Vectors : m[x] = g[Sorted(x)]
    BY DEF GarbageGrid
  <2> QED
    BY <2>1, <2>2 DEF DoubleTerms
<1>5. IsFamily(DoubleTerms(Vectors, ch, m), Vectors \X Vectors, Elems)
  BY <1>1, <1>2, <1>3, DoubleTermsIn
<1>6. Total(DoubleTerms(Vectors, ch, m)) = DoubleSum(Vectors, ch, m)
  BY <1>5, TotalIsSum DEF DoubleSum
<1>7. \A i, j \in Vectors : m[<<i, j>>] = g[Sorted(<<i, j>>)]
  BY DEF GarbageGrid
<1> QED
  BY <1>3, <1>4, <1>6, <1>7

\* The square of z is the sum that g gives.
LEMMA QuadraticHonest ==
  ASSUME IsStatement(stmt), IsWitness(w, stmt), NEW ch \in [Vectors -> Elems],
         NEW g, g = compute_g(w, Pairs(stmt.r))
  PROVE  ring_inner_product(Amortized(ch), Amortized(ch)) = Total(AllGarbage(ch, g, stmt.r))
<1> DEFINE u == Amortized(ch)
           m == GarbageGrid(g)
           y == [i \in Vectors |-> ring_inner_product(u, w[i])]
<1>1. /\ IsFiniteSet(Vectors) /\ IsFiniteSet(Below(stmt.n)) /\ stmt.n \in Nat /\ stmt.r \in Nat
      /\ \A i \in Vectors : w[i] \in [Below(stmt.n) -> Elems]
  BY WitnessVectors
<1>2. IsFamily(ch, Vectors, Elems)
  BY <1>1 DEF IsFamily
<1>3. u \in [Below(stmt.n) -> Elems]
  BY AmortizedIn
<1>4. g \in [Pairs(stmt.r) -> Elems] /\ \A p \in Pairs(stmt.r) : g[p] = ring_inner_product(w[p[1]], w[p[2]])
  <2>1. Pairs(stmt.r) \in SUBSET Pairs(stmt.r)
    OBVIOUS
  <2> QED
    BY <1>1, <2>1, GarbageIn
<1>5. /\ IsGrid(m, Vectors, Vectors) /\ \A i, j \in Vectors : m[<<i, j>>] = g[Sorted(<<i, j>>)]
      /\ Total(AllGarbage(ch, g, stmt.r)) = DoubleSum(Vectors, ch, m)
  BY <1>4, GarbageDouble
<1>6. \A i, j \in Vectors : ring_inner_product(w[i], w[j]) = ring_inner_product(w[j], w[i])
  BY <1>1, InnerProductWeighted
<1>7. \A i, j \in Vectors : m[<<i, j>>] = ring_inner_product(w[i], w[j])
  <2>1. ASSUME NEW i \in Vectors, NEW j \in Vectors
        PROVE  m[<<i, j>>] = ring_inner_product(w[i], w[j])
    <3>1. Sorted(<<i, j>>) \in Pairs(stmt.r) /\ (Sorted(<<i, j>>) = <<i, j>> \/ Sorted(<<i, j>>) = <<j, i>>)
      BY SortedIn
    <3>2. m[<<i, j>>] = g[Sorted(<<i, j>>)]
      BY <1>5
    <3>3. g[Sorted(<<i, j>>)] = ring_inner_product(w[Sorted(<<i, j>>)[1]], w[Sorted(<<i, j>>)[2]])
      BY <1>4, <3>1
    <3> HIDE DEF m
    <3> QED
      BY <1>6, <3>1, <3>2, <3>3
  <2> QED
    BY <2>1
<1>8. IsFamily(y, Vectors, Elems) /\ ring_inner_product(u, u) = WeightedSum(Vectors, ch, y)
  BY <1>3, InnerProductHonest
<1>9. \A i \in Vectors : y[i] = WeightedSum(Vectors, ch, Row(m, i, Vectors))
  <2>1. ASSUME NEW i \in Vectors
        PROVE  y[i] = WeightedSum(Vectors, ch, Row(m, i, Vectors))
    <3> DEFINE row == [j \in Vectors |-> ring_inner_product(w[i], w[j])]
    <3>1. Row(m, i, Vectors) = row
      <4> HIDE DEF m
      <4> QED
        BY <1>7 DEF Row
    <3>2. ring_inner_product(w[i], u) = WeightedSum(Vectors, ch, row)
      <4>1. w[i] \in [Below(stmt.n) -> Elems]
        BY <1>1
      <4> HIDE DEF row
      <4> QED
        BY <4>1, InnerProductHonest DEF row
    <3>3. ring_inner_product(u, w[i]) = ring_inner_product(w[i], u)
      BY <1>1, <1>3, InnerProductWeighted
    <3> QED
      BY <3>1, <3>2, <3>3
  <2> QED
    BY <2>1
<1> HIDE DEF y, m, u
<1>10. WeightedSum(Vectors, ch, y) = DoubleSum(Vectors, ch, m)
  BY <1>1, <1>2, <1>5, <1>8, <1>9, DoubleSumIs
<1> QED
  BY <1>5, <1>8, <1>10 DEF u

\* The sum of the c_i <phi_i, z> is the sum that h gives.
LEMMA LinearHonest ==
  ASSUME IsStatement(stmt), IsWitness(w, stmt), NEW ch \in [Vectors -> Elems],
         NEW phi, IsSparse(phi, Positions(stmt)), NEW h, h = compute_h(phi, w, stmt.r)
  PROVE  Total([i \in Vectors |-> Mul(ch[i], phi_dot(phi, i, Amortized(ch)))])
           = Total(AllGarbage(ch, h, stmt.r))
<1> DEFINE u == Amortized(ch)
           half == (q + 1) \div 2
           m == [x \in Vectors \X Vectors |-> phi_dot(phi, x[1], w[x[2]])]
           t == GarbageGrid(h)
           y == [i \in Vectors |-> phi_dot(phi, i, u)]
<1>1. /\ IsFiniteSet(Vectors) /\ stmt.n \in Nat /\ stmt.r \in Nat /\ IsFiniteSet(Vectors \X Vectors)
  BY WitnessVectors, FS_Product
<1>2. IsFamily(ch, Vectors, Elems)
  BY <1>1 DEF IsFamily
<1>3. h \in [Pairs(stmt.r) -> Elems]
  BY <1>1, ComputeHIn
<1>4. \A p \in Pairs(stmt.r) :
        h[p] = Scale(Add(phi_dot(phi, p[1], w[p[2]]), phi_dot(phi, p[2], w[p[1]])), half)
  BY DEF compute_h
<1>5. /\ IsGrid(t, Vectors, Vectors) /\ \A i, j \in Vectors : t[<<i, j>>] = h[Sorted(<<i, j>>)]
      /\ Total(AllGarbage(ch, h, stmt.r)) = DoubleSum(Vectors, ch, t)
  BY <1>3, GarbageDouble
<1>6. ASSUME NEW i \in Vectors
      PROVE  LET row == [j \in Vectors |-> phi_dot(phi, i, w[j])]
             IN  IsFamily(row, Vectors, Elems) /\ phi_dot(phi, i, u) = WeightedSum(Vectors, ch, row)
  BY PhiDotHonest
<1>7. \A i, j \in Vectors : m[<<i, j>>] = phi_dot(phi, i, w[j]) /\ m[<<i, j>>] \in Elems
  <2>1. ASSUME NEW i \in Vectors, NEW j \in Vectors
        PROVE  m[<<i, j>>] = phi_dot(phi, i, w[j]) /\ m[<<i, j>>] \in Elems
    <3>1. m[<<i, j>>] = phi_dot(phi, i, w[j])
      OBVIOUS
    <3>2. IsFamily([jj \in Vectors |-> phi_dot(phi, i, w[jj])], Vectors, Elems)
      BY <1>6
    <3>3. phi_dot(phi, i, w[j]) \in Elems
      BY <3>2 DEF IsFamily
    <3> QED
      BY <3>1, <3>3
  <2> QED
    BY <2>1
<1>8. m = [x \in DOMAIN m |-> m[x]] /\ DOMAIN m = Vectors \X Vectors
  OBVIOUS
<1>9. \A i \in Vectors : y[i] = phi_dot(phi, i, u)
  OBVIOUS
<1>10. y = [i \in DOMAIN y |-> y[i]] /\ DOMAIN y = Vectors
  OBVIOUS
<1>11. [i \in Vectors |-> Mul(ch[i], phi_dot(phi, i, u))] = Products2(Vectors, ch, y)
  BY DEF Products2
<1> HIDE DEF m, t, y, u, half
<1>12. IsGrid(m, Vectors, Vectors)
  <2>1. \A x \in Vectors \X Vectors : m[x] \in Elems
    BY <1>7
  <2> QED
    BY <1>1, <1>8, <2>1 DEF IsGrid, IsFamily
<1>13. ASSUME NEW i \in Vectors
       PROVE  y[i] = WeightedSum(Vectors, ch, Row(m, i, Vectors))
  <2>1. Row(m, i, Vectors) = [j \in Vectors |-> phi_dot(phi, i, w[j])]
    BY <1>7 DEF Row
  <2> QED
    BY <1>6, <1>9, <2>1
<1>14. IsFamily(y, Vectors, Elems)
  <2>1. ASSUME NEW i \in Vectors
        PROVE  y[i] \in Elems
    <3>1. IsFamily(Row(m, i, Vectors), Vectors, Elems)
      BY <1>1, <1>12, RowIn
    <3>2. WeightedSum(Vectors, ch, Row(m, i, Vectors)) \in Elems
      BY <1>2, <3>1, Products2In
    <3> QED
      BY <1>13, <3>2
  <2> QED
    BY <1>1, <1>10, <2>1 DEF IsFamily
<1>15. WeightedSum(Vectors, ch, y) = DoubleSum(Vectors, ch, m)
  BY <1>1, <1>2, <1>12, <1>13, <1>14, DoubleSumIs
<1>16. \A i, j \in Vectors : t[<<i, j>>] = Scale(Add(m[<<i, j>>], m[<<j, i>>]), (q + 1) \div 2)
  <2>1. ASSUME NEW i \in Vectors, NEW j \in Vectors
        PROVE  t[<<i, j>>] = Scale(Add(m[<<i, j>>], m[<<j, i>>]), (q + 1) \div 2)
    <3>1. /\ Sorted(<<i, j>>) \in Pairs(stmt.r)
          /\ Sorted(<<i, j>>) = <<i, j>> \/ (Sorted(<<i, j>>) = <<j, i>> /\ <<j, i>> \in Pairs(stmt.r))
      BY SortedIn
    <3>2. t[<<i, j>>] = h[Sorted(<<i, j>>)]
      BY <1>5
    <3>3. m[<<i, j>>] = phi_dot(phi, i, w[j]) /\ m[<<j, i>>] = phi_dot(phi, j, w[i])
          /\ Add(m[<<i, j>>], m[<<j, i>>]) = Add(m[<<j, i>>], m[<<i, j>>])
      BY <1>7, AddRules
    <3>4. CASE Sorted(<<i, j>>) = <<i, j>>
      <4>1. h[<<i, j>>] = Scale(Add(phi_dot(phi, i, w[j]), phi_dot(phi, j, w[i])), half)
        BY <1>4, <3>1, <3>4
      <4> QED
        BY <3>2, <3>3, <3>4, <4>1 DEF half
    <3>5. CASE Sorted(<<i, j>>) = <<j, i>> /\ <<j, i>> \in Pairs(stmt.r)
      <4>1. h[<<j, i>>] = Scale(Add(phi_dot(phi, j, w[i]), phi_dot(phi, i, w[j])), half)
        BY <1>4, <3>5
      <4> QED
        BY <3>2, <3>3, <3>5, <4>1 DEF half
    <3> QED
      BY <3>1, <3>4, <3>5
  <2> QED
    BY <2>1
<1>17. DoubleSum(Vectors, ch, t) = DoubleSum(Vectors, ch, m)
  BY <1>1, <1>2, <1>5, <1>12, <1>16, MadeSymmetric
<1>18. Total(Products2(Vectors, ch, y)) = WeightedSum(Vectors, ch, y)
  <2>1. IsFamily(Products2(Vectors, ch, y), Vectors, Elems)
    BY <1>2, <1>14, Products2In
  <2> QED
    BY <2>1, TotalIsSum DEF WeightedSum
<1> QED
  BY <1>5, <1>11, <1>15, <1>17, <1>18 DEF u

LEMMA HalfOfTwice ==
  ASSUME NEW x \in Elems
  PROVE  Scale(Add(x, x), (q + 1) \div 2) = x
<1> DEFINE k == (q + 1) \div 2
<1>1. k \in Int
  BY RingAssumption DEF IsModulus
<1>2. Add(Scale(x, k), Scale(x, k)) = x
  BY HalvesAdd
<1> HIDE DEF k
<1>3. Add(x, x) \in Elems /\ constant(k) \in Elems
  BY <1>1, AddRules, ConstantRules
<1>4. Scale(x, k) = Mul(constant(k), x) /\ Scale(Add(x, x), k) = Mul(constant(k), Add(x, x))
  BY <1>1, <1>3, ScaleIs
<1>5. Mul(constant(k), Add(x, x)) = Add(Mul(constant(k), x), Mul(constant(k), x))
  BY <1>3, MulRules
<1> QED
  BY <1>2, <1>4, <1>5 DEF k

\* The diagonal of h adds up to what phi gives on the witness.
LEMMA DiagonalHonest ==
  ASSUME IsStatement(stmt), IsWitness(w, stmt),
         NEW phi, IsSparse(phi, Positions(stmt)), NEW h, h = compute_h(phi, w, stmt.r)
  PROVE  /\ Total([i \in Vectors |-> h[<<i, i>>]]) = sparse_phi_inner_product(phi, w)
         /\ sparse_phi_inner_product(phi, w) \in Elems
<1> DEFINE f == LinearTerms(phi, w)
           first == [y \in DOMAIN phi |-> y[1]]
           sums == [i \in Vectors |-> h[<<i, i>>]]
<1>1. /\ IsFiniteSet(Vectors) /\ stmt.n \in Nat /\ stmt.r \in Nat /\ Vectors = Below(stmt.r)
      /\ \A i \in Vectors : w[i] \in [Below(stmt.n) -> Elems]
  BY WitnessVectors
<1>2. /\ IsFamily(f, DOMAIN phi, Elems) /\ sparse_phi_inner_product(phi, w) = SumE(f)
      /\ sparse_phi_inner_product(phi, w) \in Elems
  BY <1>1, LinearIs
<1>3. h \in [Pairs(stmt.r) -> Elems]
  BY <1>1, ComputeHIn
<1>4. IsFamily(first, DOMAIN phi, Vectors)
  <2>1. \A y \in DOMAIN phi : y[1] \in Vectors
    BY DEF IsSparse, Positions, Vectors, Below
  <2> QED
    BY <1>2, <2>1 DEF IsFamily
<1>5. \A i \in Vectors : <<i, i>> \in Pairs(stmt.r)
  BY <1>1 DEF Vectors, Below, Pairs
<1>6. IsFamily(sums, Vectors, Elems)
  BY <1>1, <1>3, <1>5 DEF IsFamily
<1>7. ASSUME NEW i \in Vectors
      PROVE  SumsTo(Elems, AddE, Zero, f, Fiber(first, i), sums[i])
  <2> DEFINE S == {t \in DOMAIN phi : t[1] = i}
             row == [y \in S |-> Mul(phi[y], w[i][y[2]])]
             x == phi_dot(phi, i, w[i])
  <2>1. IsFamily(row, S, Elems) /\ x = SumE(row) /\ x \in Elems
    <3> DEFINE st == stmt
               v == w[i]
    <3>1. v \in [0..(st.n - 1) -> Elems] /\ st.n \in Nat /\ st.r \in Nat
          /\ IsSparse(phi, Positions(st))
      BY <1>1 DEF Below
    <3> HIDE DEF st, v
    <3>2. /\ IsFamily([y \in {t \in DOMAIN phi : t[1] = i} |-> Mul(phi[y], v[y[2]])],
                      {t \in DOMAIN phi : t[1] = i}, Elems)
          /\ phi_dot(phi, i, v) = SumE([y \in {t \in DOMAIN phi : t[1] = i} |-> Mul(phi[y], v[y[2]])])
          /\ phi_dot(phi, i, v) \in Elems
      BY ONLY <3>1, PhiDotIs
    <3> QED
      BY <3>2 DEF v
  <2>2. Fiber(first, i) = S
    BY DEF Fiber
  <2>3. \A y \in S : row[y] = f[y]
    BY DEF LinearTerms
  <2>4. h[<<i, i>>] = Scale(Add(x, x), (q + 1) \div 2)
    BY <1>5 DEF compute_h
  <2>5. sums[i] = h[<<i, i>>]
    OBVIOUS
  <2> HIDE DEF S, row, f, first, sums, x
  <2>6. sums[i] = SumE(row)
    BY <2>1, <2>4, <2>5, HalfOfTwice
  <2>7. SumsTo(Elems, AddE, Zero, f, S, SumE(row))
    BY <2>1, <2>3, SumsToHere
  <2> QED
    BY <2>2, <2>6, <2>7
<1>8. Total(sums) = SumE(sums)
  BY <1>6, TotalIsSum
<1> HIDE DEF f, first, sums
<1>9. SumOf(AddE, Zero, f) = SumOf(AddE, Zero, sums)
  BY <1>1, <1>2, <1>4, <1>6, <1>7, ElemSums, SumOfFibers
<1> QED
  BY <1>2, <1>8, <1>9 DEF SumE, sums

\* The prover's b'' is the left side of the aggregated constraint.
LEMMA DoublePrimeIsValue ==
  ASSUME IsStatement(stmt), IsWitness(w, stmt), NEW c, IsConstraint(c, stmt),
         NEW g, g = compute_g(w, Pairs(stmt.r))
  PROVE  /\ quadratic(c.a, g) = quadratic(c.a, compute_g(w, DOMAIN c.a))
         /\ b_double_prime(c, g, w) = Value(c, w) /\ Value(c, w) \in Elems
<1> DEFINE h == compute_g(w, DOMAIN c.a)
<1>1. stmt.n \in Nat /\ stmt.r \in Nat
  BY DEF IsStatement
<1>2. DOMAIN c.a \in SUBSET Pairs(stmt.r)
  BY DEF IsConstraint, IsSparse
<1>3. \A p \in DOMAIN c.a : g[p] = ring_inner_product(w[p[1]], w[p[2]])
  BY <1>2 DEF compute_g
<1>4. \A p \in DOMAIN c.a : h[p] = ring_inner_product(w[p[1]], w[p[2]])
  BY DEF compute_g
<1>5. Value(c, w) = Add(quadratic(c.a, h), sparse_phi_inner_product(c.phi, w)) /\ Value(c, w) \in Elems
  BY <1>1, ValueIn
<1> HIDE DEF h
<1>6. quadratic(c.a, g) = quadratic(c.a, h)
  <2>1. \A p \in DOMAIN c.a : g[p] = h[p]
    BY <1>3, <1>4
  <2> QED
    BY <2>1 DEF quadratic
<1> QED
  BY <1>5, <1>6 DEF b_double_prime, h

LEMMA TotalOfZeros ==
  ASSUME NEW S, IsFiniteSet(S), NEW f, f = [x \in S |-> Zero]
  PROVE  Total(f) = Zero
<1>1. IsFamily(f, S, Elems)
  BY ElemFacts DEF IsFamily
<1>2. SumOf(AddE, Zero, [x \in S |-> Zero]) = Zero
  BY ElemSums, SumOfUnits
<1> QED
  BY <1>1, <1>2, TotalIsSum DEF SumE

\* A witness of the constraints that are combined is one of the combination.
LEMMA RelationHonest ==
  ASSUME DrawsAreResidues, IsStatement(stmt), IsWitness(w, stmt), NEW sd,
         NEW pps, ArePps(pps, stmt), NEW bpp \in [1..K_PP -> Elems],
         \A k \in 1..K_PP : bpp[k] = Value(pps[k], w),
         \A k \in DOMAIN stmt.full : eval_full(stmt.full[k], w) = Zero
  PROVE  LET rel == AggregateRelation(Aggregate(sd, pps, bpp))
         IN  Value(rel, w) = rel.b /\ IsConstraint(rel, stmt)
<1> DEFINE ag == Aggregate(sd, pps, bpp)
           rel == AggregateRelation(ag)
<1>1. IsStatement(stmt) /\ stmt.n \in Nat /\ stmt.r \in Nat
  BY DEF IsStatement
<1>2. IsAggregate(ag, stmt)
  BY AggregateIn
<1>3. rel.a = ag.a_agg /\ rel.phi = ag.phi_agg /\ rel.b = ag.b_agg
  BY DEF AggregateRelation
<1>4. eval_full(rel, w) = Add(Total(AlphaTerms(sd, w)), Total(BetaTerms(sd, pps, bpp, w)))
  BY RelationCombines
<1> HIDE DEF rel, ag
<1>5. IsConstraint(rel, stmt) /\ rel.b \in Elems
  BY <1>2, <1>3 DEF IsAggregate, IsConstraint, Positions
<1>6. Total(AlphaTerms(sd, w)) = Zero
  <2>1. \A k \in DOMAIN stmt.full : Mul(Alphas(sd)[k], eval_full(stmt.full[k], w)) = Zero
    <3>1. ASSUME NEW k \in DOMAIN stmt.full
          PROVE  Mul(Alphas(sd)[k], Zero) = Zero
      <4>1. Alphas(sd)[k] \in Elems /\ Zero \in Elems
        BY DrawIn, ElemFacts DEF Alphas
      <4> QED
        BY <4>1, MulRules
    <3> QED
      BY <3>1
  <2>2. IsFiniteSet(DOMAIN stmt.full)
    BY SeqIs DEF IsStatement, IsSeq
  <2>3. AlphaTerms(sd, w) = [k \in DOMAIN stmt.full |-> Zero]
    BY <2>1 DEF AlphaTerms
  <2> QED
    BY <2>2, <2>3, TotalOfZeros
<1>7. Total(BetaTerms(sd, pps, bpp, w)) = Zero
  <2>1. ASSUME NEW k \in 1..K_PP
        PROVE  Mul(Betas(sd)[k], Sub(Value(pps[k], w), bpp[k])) = Zero
    <3>1. Betas(sd)[k] \in Elems /\ Zero \in Elems
      BY DrawIn, ElemFacts DEF Betas
    <3>2. Sub(Value(pps[k], w), bpp[k]) = Zero
      <4>1. bpp[k] \in Elems /\ Value(pps[k], w) = bpp[k]
        OBVIOUS
      <4> QED
        BY <4>1, NegRules
    <3> QED
      BY <3>1, <3>2, MulRules
  <2>2. IsFiniteSet(1..K_PP)
    BY CountAssumption, FS_Interval
  <2>3. BetaTerms(sd, pps, bpp, w) = [k \in 1..K_PP |-> Zero]
    BY <2>1 DEF BetaTerms
  <2> QED
    BY <2>2, <2>3, TotalOfZeros
<1>8. eval_full(rel, w) = Zero
  BY <1>4, <1>6, <1>7, ElemFacts, AddRules
<1>9. Value(rel, w) \in Elems
  BY <1>1, <1>5, ValueIn
<1>10. Value(rel, w) = rel.b
  BY <1>5, <1>8, <1>9, NegRules DEF eval_full
<1> QED
  BY <1>5, <1>10 DEF rel, ag

\* The relation of g and the diagonal of h.
LEMMA RelationOfGarbage ==
  ASSUME IsStatement(stmt), IsWitness(w, stmt), NEW a, NEW phi, NEW b,
         LET rel == [a |-> a, phi |-> phi, b |-> b] IN Value(rel, w) = b /\ IsConstraint(rel, stmt),
         NEW g, g = compute_g(w, Pairs(stmt.r)), NEW h, h = compute_h(phi, w, stmt.r)
  PROVE  Add(quadratic(a, g), Total([i \in Vectors |-> h[<<i, i>>]])) = b
<1> DEFINE rel == [a |-> a, phi |-> phi, b |-> b]
<1>1. rel.a = a /\ rel.phi = phi /\ Value(rel, w) = b /\ IsConstraint(rel, stmt)
  OBVIOUS
<1> HIDE DEF rel
<1>2. /\ quadratic(rel.a, g) = quadratic(rel.a, compute_g(w, DOMAIN rel.a))
      /\ b_double_prime(rel, g, w) = Value(rel, w)
  BY <1>1, DoublePrimeIsValue
<1>3. IsSparse(phi, Positions(stmt))
  BY <1>1 DEF IsConstraint, Positions
<1>4. Total([i \in Vectors |-> h[<<i, i>>]]) = sparse_phi_inner_product(phi, w)
  BY <1>3, DiagonalHonest
<1> QED
  BY <1>1, <1>2, <1>4 DEF b_double_prime

-----------------------------------------------------------------------------
(* What an honest prover sends, of the seeds it drew.                      *)

\* g goes on where f was.
Extends(g, f) == \A x \in DOMAIN f : x \in DOMAIN g /\ g[x] = f[x]

ProjectionOf(pr) == IF version = "v1" THEN << >> ELSE pr.p
PpsOf(sd, pr) == Aggregates(sd, ConstTerms(sd, ProjectionOf(pr)))

Committed(sd, pr) ==
  /\ "matrices" \in DOMAIN sd /\ "v" \in DOMAIN pr /\ "g" \in DOMAIN pr
  /\ pr.v = [i \in Vectors |-> matmul(sd, w[i])] /\ pr.g = compute_g(w, Pairs(stmt.r))
  /\ version = "v2" => "u1" \in DOMAIN pr /\ pr.u1 = u_1(sd, pr, 0)
Projected(sd, pr) ==
  version # "v1" => /\ "projection" \in DOMAIN sd /\ "p" \in DOMAIN pr
                    /\ pr.p = project_combined(Pi(sd), w)
Constrained(sd, pr) ==
  /\ "psi" \in DOMAIN sd /\ "bpp" \in DOMAIN pr
  /\ pr.bpp = [k \in 1..K_PP |-> b_double_prime(PpsOf(sd, pr)[k], pr.g, w)]
Linearized(sd, pr) ==
  /\ "linear" \in DOMAIN sd /\ "h" \in DOMAIN pr
  /\ pr.h = compute_h(replay(sd, pr).phi_agg, w, stmt.r)
  /\ version = "v2" => "u2" \in DOMAIN pr /\ pr.u2 = u_2(sd, pr)
PartOfZ(x, c) == [p \in Below(stmt.n) |-> decompose(x[p], it.b, 2)[c]]
Answered(sd, pr) ==
  /\ "challenge" \in DOMAIN sd
  /\ version = "v1" => "z" \in DOMAIN pr /\ pr.z = Amortized(Challenge(sd))
  /\ version # "v1" => /\ "z0" \in DOMAIN pr /\ pr.z0 = PartOfZ(Amortized(Challenge(sd)), 0)
                       /\ "z1" \in DOMAIN pr /\ pr.z1 = PartOfZ(Amortized(Challenge(sd)), 1)

\* What one round more does not change.
LEMMA SameMatmul ==
  ASSUME NEW sd, NEW sd2, sd2.matrices = sd.matrices, NEW x
  PROVE  matmul(sd2, x) = matmul(sd, x)
<1>1. \A k, p : A(sd2, k, p) = A(sd, k, p)
  BY DEF A
<1> QED
  BY <1>1 DEF matmul

LEMMA SameOuter ==
  ASSUME NEW sd, NEW sd2, NEW pr, NEW pr2, NEW entries,
         \A e \in entries : Opening(it, pr2, e) = Opening(it, pr, e)
                            /\ \A row : Matrix(sd2, e, row) = Matrix(sd, e, row)
  PROVE  OuterCommit(sd2, entries, pr2) = OuterCommit(sd, entries, pr)
BY DEF OuterCommit

LEMMA SameU1 ==
  ASSUME NEW sd, NEW sd2, sd2.matrices = sd.matrices,
         NEW pr, NEW pr2, pr2.v = pr.v, pr2.g = pr.g, NEW cut
  PROVE  u_1(sd2, pr2, cut) = u_1(sd, pr, cut)
<1> DEFINE s == SourceShape
           low == {e \in VEntries(s) : e[2] < cut}
           high == {e \in VEntries(s) : e[2] >= cut}
<1>1. \A e \in VEntries(s) : e[1] = "V"
  BY DEF VEntries
<1>2. \A e \in GEntries(s) : e[1] = "G"
  BY DEF GEntries
<1>3. ASSUME NEW e, e[1] = "V" PROVE Opening(it, pr2, e) = Opening(it, pr, e)
  BY <1>3 DEF Opening
<1>4. ASSUME NEW e, e[1] = "G" PROVE Opening(it, pr2, e) = Opening(it, pr, e)
  BY <1>4 DEF Opening
<1>5. ASSUME NEW e, e[1] = "V", NEW row PROVE Matrix(sd2, e, row) = Matrix(sd, e, row)
  BY <1>5 DEF Matrix
<1>6. ASSUME NEW e, e[1] = "G", NEW row PROVE Matrix(sd2, e, row) = Matrix(sd, e, row)
  BY <1>6 DEF Matrix
<1>7. /\ OuterCommit(sd2, low, pr2) = OuterCommit(sd, low, pr)
      /\ OuterCommit(sd2, high, pr2) = OuterCommit(sd, high, pr)
  BY <1>1, <1>3, <1>5, SameOuter
<1>8. OuterCommit(sd2, GEntries(s), pr2) = OuterCommit(sd, GEntries(s), pr)
  BY <1>2, <1>4, <1>6, SameOuter
<1> QED
  BY <1>7, <1>8 DEF u_1, outer_commit_v, outer_commit_sym

LEMMA SameU2 ==
  ASSUME NEW sd, NEW sd2, sd2.linear = sd.linear, NEW pr, NEW pr2, pr2.h = pr.h
  PROVE  u_2(sd2, pr2) = u_2(sd, pr)
<1>1. \A e \in HEntries(SourceShape) : e[1] = "H"
  BY DEF HEntries
<1>2. ASSUME NEW e, e[1] = "H" PROVE Opening(it, pr2, e) = Opening(it, pr, e)
  BY <1>2 DEF Opening
<1>3. ASSUME NEW e, e[1] = "H", NEW row PROVE Matrix(sd2, e, row) = Matrix(sd, e, row)
  BY <1>3 DEF Matrix
<1>4. OuterCommit(sd2, HEntries(SourceShape), pr2) = OuterCommit(sd, HEntries(SourceShape), pr)
  BY <1>1, <1>2, <1>3, SameOuter
<1> QED
  BY <1>4 DEF u_2, outer_commit_sym

LEMMA SamePps ==
  ASSUME NEW sd, NEW sd2, sd2.psi = sd.psi, NEW pr, NEW pr2,
         version # "v1" => sd2.projection = sd.projection /\ pr2.p = pr.p
  PROVE  /\ PpsOf(sd2, pr2) = PpsOf(sd, pr)
         /\ ConstTerms(sd2, ProjectionOf(pr2)) = ConstTerms(sd, ProjectionOf(pr))
         /\ Psis(sd2, ConstTerms(sd2, ProjectionOf(pr2))) = Psis(sd, ConstTerms(sd, ProjectionOf(pr)))
<1>1. version # "v1" => Pi(sd2) = Pi(sd)
  BY DEF Pi
<1>2. ConstTerms(sd2, ProjectionOf(pr2)) = ConstTerms(sd, ProjectionOf(pr))
  BY <1>1 DEF ConstTerms, ProjectionOf
<1>3. \A cts : Psis(sd2, cts) = Psis(sd, cts)
  BY DEF Psis
<1> QED
  BY <1>2, <1>3 DEF PpsOf, Aggregates

LEMMA ReplayIs ==
  ASSUME NEW sd, NEW pr
  PROVE  replay(sd, pr) = Aggregate(sd, PpsOf(sd, pr), pr.bpp)
BY DEF replay, PpsOf, ProjectionOf

LEMMA SameReplay ==
  ASSUME NEW sd, NEW sd2, sd2.psi = sd.psi, sd2.linear = sd.linear, NEW pr, NEW pr2, pr2.bpp = pr.bpp,
         version # "v1" => sd2.projection = sd.projection /\ pr2.p = pr.p
  PROVE  replay(sd2, pr2) = replay(sd, pr)
<1>1. PpsOf(sd2, pr2) = PpsOf(sd, pr)
  BY SamePps
<1>2. Alphas(sd2) = Alphas(sd) /\ Betas(sd2) = Betas(sd)
  BY DEF Alphas, Betas
<1>3. \A pps, bpp : Aggregate(sd2, pps, bpp) = Aggregate(sd, pps, bpp)
  BY <1>2 DEF Aggregate
<1> QED
  BY <1>1, <1>3, ReplayIs

LEMMA SameChallenge ==
  ASSUME NEW sd, NEW sd2, sd2.challenge = sd.challenge
  PROVE  Challenge(sd2) = Challenge(sd)
BY DEF Challenge

-----------------------------------------------------------------------------
\* How many of the prover's steps are behind it.
StepsTo(at) ==
  CASE at = "commit" -> 0
    [] at = "project" -> 1
    [] at = "constrain" -> 2
    [] at = "linearize" -> 3
    [] at = "amortize" -> 4
    [] OTHER -> 5
HonestTo(n, sd, pr) ==
  /\ n >= 1 => Committed(sd, pr)
  /\ n >= 2 => Projected(sd, pr)
  /\ n >= 3 => Constrained(sd, pr)
  /\ n >= 4 => Linearized(sd, pr)
  /\ n >= 5 => Answered(sd, pr)

LEMMA CommittedOn ==
  ASSUME NEW sd, NEW sd2, Extends(sd2, sd), NEW pr, NEW pr2, Extends(pr2, pr), Committed(sd, pr)
  PROVE  Committed(sd2, pr2)
<1>1. "matrices" \in DOMAIN sd2 /\ sd2.matrices = sd.matrices
  BY DEF Committed, Extends
<1>2. "v" \in DOMAIN pr2 /\ pr2.v = pr.v /\ "g" \in DOMAIN pr2 /\ pr2.g = pr.g
  BY DEF Committed, Extends
<1>3. version = "v2" => "u1" \in DOMAIN pr2 /\ pr2.u1 = pr.u1
  BY DEF Committed, Extends
<1>4. \A i : matmul(sd2, w[i]) = matmul(sd, w[i])
  BY <1>1, SameMatmul
<1>5. u_1(sd2, pr2, 0) = u_1(sd, pr, 0)
  BY <1>1, <1>2, SameU1
<1> QED
  BY <1>1, <1>2, <1>3, <1>4, <1>5 DEF Committed

LEMMA ProjectedOn ==
  ASSUME NEW sd, NEW sd2, Extends(sd2, sd), NEW pr, NEW pr2, Extends(pr2, pr), Projected(sd, pr)
  PROVE  Projected(sd2, pr2) /\ (version # "v1" => sd2.projection = sd.projection /\ pr2.p = pr.p)
<1>1. CASE version = "v1"
  BY <1>1 DEF Projected
<1>2. CASE version # "v1"
  <2>1. "projection" \in DOMAIN sd2 /\ sd2.projection = sd.projection
    BY <1>2 DEF Projected, Extends
  <2>2. "p" \in DOMAIN pr2 /\ pr2.p = pr.p
    BY <1>2 DEF Projected, Extends
  <2>3. Pi(sd2) = Pi(sd)
    BY <2>1 DEF Pi
  <2> QED
    BY <1>2, <2>1, <2>2, <2>3 DEF Projected
<1> QED
  BY <1>1, <1>2

LEMMA ConstrainedOn ==
  ASSUME NEW sd, NEW sd2, Extends(sd2, sd), NEW pr, NEW pr2, Extends(pr2, pr),
         Committed(sd, pr), Projected(sd, pr), Constrained(sd, pr)
  PROVE  Constrained(sd2, pr2)
<1>1. version # "v1" => sd2.projection = sd.projection /\ pr2.p = pr.p
  BY ProjectedOn
<1>2. "psi" \in DOMAIN sd2 /\ sd2.psi = sd.psi
  BY DEF Constrained, Extends
<1>3. "bpp" \in DOMAIN pr2 /\ pr2.bpp = pr.bpp
  BY DEF Constrained, Extends
<1>4. pr2.g = pr.g
  BY DEF Committed, Extends
<1>5. PpsOf(sd2, pr2) = PpsOf(sd, pr)
  BY <1>1, <1>2, SamePps
<1> QED
  BY <1>2, <1>3, <1>4, <1>5 DEF Constrained

LEMMA LinearizedOn ==
  ASSUME NEW sd, NEW sd2, Extends(sd2, sd), NEW pr, NEW pr2, Extends(pr2, pr),
         Projected(sd, pr), Constrained(sd, pr), Linearized(sd, pr)
  PROVE  Linearized(sd2, pr2)
<1>1. version # "v1" => sd2.projection = sd.projection /\ pr2.p = pr.p
  BY ProjectedOn
<1>2. sd2.psi = sd.psi /\ pr2.bpp = pr.bpp
  BY DEF Constrained, Extends
<1>3. "linear" \in DOMAIN sd2 /\ sd2.linear = sd.linear
  BY DEF Linearized, Extends
<1>4. "h" \in DOMAIN pr2 /\ pr2.h = pr.h
  BY DEF Linearized, Extends
<1>5. version = "v2" => "u2" \in DOMAIN pr2 /\ pr2.u2 = pr.u2
  BY DEF Linearized, Extends
<1>6. replay(sd2, pr2) = replay(sd, pr)
  BY <1>1, <1>2, <1>3, SameReplay
<1>7. u_2(sd2, pr2) = u_2(sd, pr)
  BY <1>3, <1>4, SameU2
<1> QED
  BY <1>3, <1>4, <1>5, <1>6, <1>7 DEF Linearized

LEMMA AnsweredOn ==
  ASSUME NEW sd, NEW sd2, Extends(sd2, sd), NEW pr, NEW pr2, Extends(pr2, pr), Answered(sd, pr)
  PROVE  Answered(sd2, pr2)
<1>1. "challenge" \in DOMAIN sd2 /\ sd2.challenge = sd.challenge
  BY DEF Answered, Extends
<1>2. Challenge(sd2) = Challenge(sd)
  BY <1>1, SameChallenge
<1>3. version = "v1" => "z" \in DOMAIN pr2 /\ pr2.z = pr.z
  BY DEF Answered, Extends
<1>4. version # "v1" => /\ "z0" \in DOMAIN pr2 /\ pr2.z0 = pr.z0
                        /\ "z1" \in DOMAIN pr2 /\ pr2.z1 = pr.z1
  BY DEF Answered, Extends
<1> QED
  BY <1>1, <1>2, <1>3, <1>4 DEF Answered

\* What was sent stays what an honest prover sends.
LEMMA HonestOn ==
  ASSUME NEW n \in 0..5, NEW sd, NEW sd2, Extends(sd2, sd), NEW pr, NEW pr2, Extends(pr2, pr),
         HonestTo(n, sd, pr)
  PROVE  HonestTo(n, sd2, pr2)
<1>1. n >= 1 => Committed(sd, pr) /\ Committed(sd2, pr2)
  BY CommittedOn DEF HonestTo
<1>2. n >= 2 => Projected(sd, pr) /\ Projected(sd2, pr2) /\ Committed(sd, pr)
  BY ProjectedOn DEF HonestTo
<1>3. n >= 3 => Constrained(sd, pr) /\ Constrained(sd2, pr2) /\ Projected(sd, pr)
  <2>1. n >= 3 => Committed(sd, pr) /\ Projected(sd, pr) /\ Constrained(sd, pr)
    BY DEF HonestTo
  <2> QED
    BY <2>1, ConstrainedOn
<1>4. n >= 4 => Linearized(sd2, pr2)
  <2>1. n >= 4 => Linearized(sd, pr) /\ Projected(sd, pr) /\ Constrained(sd, pr)
    BY DEF HonestTo
  <2> QED
    BY <2>1, LinearizedOn
<1>5. n >= 5 => Answered(sd2, pr2)
  BY AnsweredOn DEF HonestTo
<1> QED
  BY <1>1, <1>2, <1>3, <1>4, <1>5 DEF HonestTo

\* The same of the next state, where the statement stays.
LEMMA CommittedAlike ==
  ASSUME UNCHANGED <<version, chain, stmt, w>>
  PROVE  Committed(seeds', proof') <=> Committed(seeds, proof)'
<1>1. version' = version /\ stmt' = stmt /\ w' = w /\ it' = it
  BY DEF it
<1>2. [i \in Vectors |-> matmul(seeds', w[i])] = [i \in Vectors |-> matmul(seeds, w[i])]'
  BY <1>1 DEF matmul, Vectors
<1>3. SourceShape' = SourceShape /\ OuterRows' = OuterRows
  BY <1>1 DEF SourceShape, OuterRows
<1>4. u_1(seeds', proof', 0) = u_1(seeds, proof, 0)'
  BY <1>1, <1>3 DEF u_1, outer_commit_v, outer_commit_sym, OuterCommit, AddRows
<1> QED
  BY <1>1, <1>2, <1>4 DEF Committed

LEMMA ProjectedAlike ==
  ASSUME UNCHANGED <<version, chain, stmt, w>>
  PROVE  Projected(seeds', proof') <=> Projected(seeds, proof)'
<1>1. version' = version /\ stmt' = stmt /\ w' = w
  OBVIOUS
<1>2. Pi(seeds') = Pi(seeds)'
  BY <1>1 DEF Pi, Vectors
<1> QED
  BY <1>1, <1>2 DEF Projected

LEMMA PpsAlike ==
  ASSUME UNCHANGED <<version, chain, stmt, w>>
  PROVE  PpsOf(seeds', proof') = PpsOf(seeds, proof)'
<1>1. version' = version /\ stmt' = stmt
  OBVIOUS
<1> QED
  BY <1>1 DEF PpsOf, ProjectionOf, Aggregates, ConstTerms, Psis, Pi, Residue, Slots_w, Vectors

LEMMA ConstrainedAlike ==
  ASSUME UNCHANGED <<version, chain, stmt, w>>
  PROVE  Constrained(seeds', proof') <=> Constrained(seeds, proof)'
<1>1. w' = w
  OBVIOUS
<1>2. PpsOf(seeds', proof') = PpsOf(seeds, proof)'
  BY PpsAlike
<1> QED
  BY <1>1, <1>2 DEF Constrained

LEMMA LinearizedAlike ==
  ASSUME UNCHANGED <<version, chain, stmt, w>>
  PROVE  Linearized(seeds', proof') <=> Linearized(seeds, proof)'
<1>1. version' = version /\ stmt' = stmt /\ w' = w /\ it' = it
  BY DEF it
<1>2. replay(seeds', proof') = replay(seeds, proof)'
  BY ReplayAlike
<1>3. SourceShape' = SourceShape /\ OuterRows' = OuterRows
  BY <1>1 DEF SourceShape, OuterRows
<1>4. u_2(seeds', proof') = u_2(seeds, proof)'
  BY <1>1, <1>3 DEF u_2, outer_commit_sym, OuterCommit
<1> QED
  BY <1>1, <1>2, <1>4 DEF Linearized

LEMMA AnsweredAlike ==
  ASSUME UNCHANGED <<version, chain, stmt, w>>
  PROVE  Answered(seeds', proof') <=> Answered(seeds, proof)'
<1>1. version' = version /\ stmt' = stmt /\ w' = w /\ it' = it
  BY DEF it
<1>2. Challenge(seeds') = Challenge(seeds)'
  BY <1>1 DEF Challenge, Vectors, Residue
<1>3. Amortized(Challenge(seeds')) = Amortized(Challenge(seeds))'
  BY <1>1, <1>2 DEF Amortized, Vectors
<1>4. \A c : PartOfZ(Amortized(Challenge(seeds')), c) = PartOfZ(Amortized(Challenge(seeds)), c)'
  BY <1>1, <1>3 DEF PartOfZ
<1> QED
  BY <1>1, <1>3, <1>4 DEF Answered

LEMMA HonestAlike ==
  ASSUME UNCHANGED <<version, chain, stmt, w>>, NEW CONSTANT n
  PROVE  HonestTo(n, seeds', proof') <=> HonestTo(n, seeds, proof)'
BY CommittedAlike, ProjectedAlike, ConstrainedAlike, LinearizedAlike, AnsweredAlike DEF HonestTo

-----------------------------------------------------------------------------
DrawnFor(S, sd) == \A e \in S : \A row : Matrix(sd, e, row) \in Elems

\* The sum over the entries of v in two parts is the sum over all of them.
LEMMA CommitInTwo ==
  ASSUME NEW sd, NEW S, IsFiniteSet(S), DrawnFor(S, sd), NEW pr, Opens(S, pr),
         NEW t \in SUBSET S, NEW row
  PROVE  SumE(CommitTerms(sd, S, pr, row)) =
           Add(SumE(CommitTerms(sd, t, pr, row)), SumE(CommitTerms(sd, S \ t, pr, row)))
<1> DEFINE f == CommitTerms(sd, S, pr, row)
<1>1. \A e \in S : Matrix(sd, e, row) \in Elems /\ Opening(it, pr, e) \in Elems
  BY DEF Opens, DrawnFor
<1>2. \A e \in S : Mul(Matrix(sd, e, row), Opening(it, pr, e)) \in Elems
  BY <1>1, MulRules
<1>3. f \in [S -> Elems]
  BY <1>2 DEF CommitTerms
<1>4. Part(f, t) = CommitTerms(sd, t, pr, row) /\ Part(f, S \ t) = CommitTerms(sd, S \ t, pr, row)
  BY DEF Part, CommitTerms
<1> HIDE DEF f
<1>5. SumOf(AddE, Zero, f) = AddE[<<SumOf(AddE, Zero, Part(f, t)), SumOf(AddE, Zero, Part(f, S \ t))>>]
  BY <1>3, ElemSums, SumSplit
<1>6. SumOf(AddE, Zero, Part(f, t)) \in Elems /\ SumOf(AddE, Zero, Part(f, S \ t)) \in Elems
  BY <1>3, ElemSums, SumOneMore
<1>7. SumE(f) = Add(SumE(Part(f, t)), SumE(Part(f, S \ t)))
  BY <1>5, <1>6, ElemSums DEF SumE
<1> QED
  BY <1>4, <1>7 DEF f

\* Where the threads cut the sum makes no difference.
LEMMA CutMakesNoDifference ==
  ASSUME DrawsAreResidues, IsStatement(stmt), it \in Parameters, NEW sd, NEW pr, NEW cut \in Int,
         pr.v \in [Vectors -> [Below(it.kappa) -> Elems]], pr.g \in [Pairs(stmt.r) -> Elems]
  PROVE  u_1(sd, pr, cut) = u_1(sd, pr, 0)
<1> DEFINE s == SourceShape
           V == VEntries(s)
           low(c) == {e \in V : e[2] < c}
           high(c) == {e \in V : e[2] >= c}
<1>1. Proper(s) /\ V \subseteq Entries(s) /\ IsFiniteSet(V)
  BY ShapeIs, FiniteEntries DEF SourceShape, Entries
<1>2. Opens(V, pr)
  BY u1In DEF Opens
<1>3. \A e \in V : e[2] \in Int
  BY DEF VEntries, Below
<1>4. \A c \in Int : low(c) \subseteq V /\ high(c) = V \ low(c)
  BY <1>3
<1>5. ASSUME NEW c \in Int, NEW row \in OuterRows
      PROVE  u_1(sd, pr, c)[row] = Add(SumE(CommitTerms(sd, V, pr, row)), OuterCommit(sd, GEntries(s), pr)[row])
             /\ u_1(sd, pr, c) \in [OuterRows -> Elems]
  <2>1. /\ u_1(sd, pr, c) \in [OuterRows -> Elems]
        /\ u_1(sd, pr, c)[row] =
             Add(Add(OuterCommit(sd, low(c), pr)[row], OuterCommit(sd, high(c), pr)[row]),
                 OuterCommit(sd, GEntries(s), pr)[row])
    BY <1>1, u1In
  <2> DEFINE a == low(c)
             b == high(c)
  <2>2. a \subseteq V /\ b = V \ a
    BY <1>4
  <2> HIDE DEF V, low, high, s, a, b
  <2>3. a \subseteq Entries(s) /\ b \subseteq Entries(s) /\ IsFiniteSet(a) /\ IsFiniteSet(b) /\ Opens(a, pr) /\ Opens(b, pr)
    BY <1>1, <1>2, <2>2, FS_Subset DEF Opens
  <2>4. /\ OuterCommit(sd, a, pr)[row] = SumE(CommitTerms(sd, a, pr, row))
        /\ OuterCommit(sd, b, pr)[row] = SumE(CommitTerms(sd, b, pr, row))
    BY <2>3, OuterCommitIs
  <2>5. SumE(CommitTerms(sd, V, pr, row)) = Add(SumE(CommitTerms(sd, a, pr, row)), SumE(CommitTerms(sd, b, pr, row)))
    <3>1. SumE(CommitTerms(sd, V, pr, row)) = Add(SumE(CommitTerms(sd, a, pr, row)), SumE(CommitTerms(sd, V \ a, pr, row)))
      <4>1. DrawnFor(V, sd) /\ a \in SUBSET V
        BY <1>1, <2>2, MatrixIn DEF DrawnFor
      <4> QED
        BY <1>1, <1>2, <4>1, CommitInTwo
    <3> QED
      BY <2>2, <3>1
  <2> QED
    BY <2>1, <2>4, <2>5 DEF a, b
<1> HIDE DEF s, V
<1>6. \A row \in OuterRows : u_1(sd, pr, cut)[row] = u_1(sd, pr, 0)[row]
  BY <1>5
<1>7. u_1(sd, pr, cut) \in [OuterRows -> Elems] /\ u_1(sd, pr, 0) \in [OuterRows -> Elems]
  BY u1In
<1> QED
  BY <1>6, <1>7

-----------------------------------------------------------------------------
(* The invariant of an honest prover: what was sent so far is what its     *)
(* seeds say, and what was delivered is that with one change.              *)

AppliesTo(c, pr) ==
  \/ c.field = "none"
  \/ /\ Len(chain) = 1 /\ c.field \in DOMAIN pr
     /\ IF c.field = "v" THEN c.at \in Vectors \X Below(it.kappa) ELSE c.at \in DOMAIN pr[c.field]
Redrawn(sd, c, seed) ==
  [round \in DOMAIN sd |-> IF round \in Absorbed(c.field) THEN seed ELSE sd[round]]
SentAs(sd, pr, seed) ==
  /\ HonestTo(5, sd, pr) /\ IsProof(pr, WithAll(version), stmt, it)
  /\ change \in Changes /\ AppliesTo(change, pr)
  /\ proof = Changed(pr, change) /\ seeds = Redrawn(sd, change, seed)
Sending ==
  /\ Unchanged /\ HonestTo(StepsTo(pc), seeds, proof)
  /\ pc = "linearize" => agg.pps = PpsOf(seeds, proof)
HonestInv ==
  /\ IterationInv
  /\ ~Delivered => Sending
  /\ Delivered => \E sd, pr, seed : SentAs(sd, pr, seed)

LEMMA HonestInit == Init => HonestInv
<1> SUFFICES ASSUME Init PROVE HonestInv
  OBVIOUS
<1>1. IterationInv
  BY InitTyped
<1>2. pc = "commit" /\ change = [field |-> "none"]
  BY DEF Init
<1>3. ~Delivered
  BY <1>2 DEF Delivered
<1>4. Sending
  BY <1>2 DEF Sending, Unchanged, HonestTo, StepsTo
<1> QED
  BY <1>1, <1>3, <1>4 DEF HonestInv

LEMMA JoinExtends ==
  ASSUME NEW f, NEW g
  PROVE  Extends(Join(f, g), f)
BY DEF Join, Extends

\* A step of the prover.
LEMMA HonestStep ==
  ASSUME HonestInv, IterationInv', UNCHANGED <<version, chain, stmt, w, change>>, ~Delivered,
         pc' \in {"project", "constrain", "linearize", "amortize", "sent"},
         HonestTo(StepsTo(pc'), seeds', proof'),
         pc' = "linearize" => agg'.pps = PpsOf(seeds', proof')
  PROVE  HonestInv'
<1>1. Sending
  BY DEF HonestInv
<1>2. ~Delivered'
  BY DEF Delivered
<1>3. Unchanged'
  BY <1>1 DEF Sending, Unchanged
<1>4. HonestTo(StepsTo(pc), seeds, proof)'
  <2> DEFINE n == StepsTo(pc')
  <2>1. UNCHANGED <<version, chain, stmt, w>>
    OBVIOUS
  <2>2. StepsTo(pc') \in 0..5
    BY DEF StepsTo
  <2>3. \A m \in 0..5 : HonestTo(m, seeds', proof') <=> HonestTo(m, seeds, proof)'
    BY <2>1, HonestAlike
  <2>4. HonestTo(StepsTo(pc'), seeds', proof') <=> HonestTo(StepsTo(pc), seeds, proof)'
    BY <2>2, <2>3
  <2> QED
    BY <2>4
<1>5. pc' = "linearize" => agg'.pps = PpsOf(seeds, proof)'
  BY PpsAlike
<1>6. Sending'
  BY <1>3, <1>4, <1>5 DEF Sending
<1> QED
  BY <1>2, <1>6 DEF HonestInv

-----------------------------------------------------------------------------
LEMMA HonestCommit_v1 ==
  ASSUME HonestInv, DrawsAreResidues, Commit_v1
  PROVE  HonestInv'
<1>1. IterationInv'
  BY StepCommit_v1 DEF HonestInv
<1>2. /\ UNCHANGED <<version, chain, stmt, w, change>> /\ pc = "commit" /\ pc' = "constrain"
      /\ version = "v1"
  BY DEF Commit_v1, Stay
<1>3. PICK seed \in Seeds :
        /\ seeds' = [matrices |-> seed]
        /\ proof' = [v |-> [i \in Vectors |-> matmul(seeds', w[i])], g |-> compute_g(w, Pairs(stmt.r))]
  BY DEF Commit_v1
<1> DEFINE sd == seeds'
           pr == proof'
<1>4. "matrices" \in DOMAIN sd
  BY <1>3
<1>5. /\ "v" \in DOMAIN pr /\ "g" \in DOMAIN pr /\ pr.g = compute_g(w, Pairs(stmt.r))
      /\ pr.v = [i \in Vectors |-> matmul(sd, w[i])]
  BY <1>3
<1> HIDE DEF sd, pr
<1>6. Committed(sd, pr) /\ Projected(sd, pr)
  BY <1>2, <1>4, <1>5 DEF Committed, Projected
<1>7. HonestTo(StepsTo(pc'), seeds', proof')
  BY <1>2, <1>6 DEF HonestTo, StepsTo, sd, pr
<1> QED
  BY <1>1, <1>2, <1>7, HonestStep DEF Delivered

LEMMA HonestCommit ==
  ASSUME HonestInv, DrawsAreResidues, Commit
  PROVE  HonestInv'
<1>1. IterationInv' /\ IterationInv
  BY StepCommit DEF HonestInv
<1>2. UNCHANGED <<version, chain, stmt, w, change>> /\ pc = "commit" /\ pc' = "project" /\ version = "v2"
  BY DEF Commit, Stay
<1>3. PICK seed \in Seeds, cut \in Vectors :
        /\ seeds' = [matrices |-> seed]
        /\ LET opened == [v |-> [i \in Vectors |-> matmul(seeds', w[i])],
                          g |-> compute_g(w, Pairs(stmt.r))]
           IN proof' = Join(opened, [u1 |-> u_1(seeds', opened, cut)])
  BY DEF Commit
<1> DEFINE sd == seeds'
           pr == proof'
           opened == [v |-> [i \in Vectors |-> matmul(sd, w[i])], g |-> compute_g(w, Pairs(stmt.r))]
<1>4. "matrices" \in DOMAIN sd
  BY <1>3
<1>5. pr = Join(opened, [u1 |-> u_1(sd, opened, cut)])
  BY <1>3
<1>6. /\ opened.v = [i \in Vectors |-> matmul(sd, w[i])] /\ opened.g = compute_g(w, Pairs(stmt.r))
      /\ DOMAIN opened = {"v", "g"}
  OBVIOUS
<1> HIDE DEF sd, pr, opened
<1>7. /\ "v" \in DOMAIN pr /\ pr.v = opened.v /\ "g" \in DOMAIN pr /\ pr.g = opened.g
      /\ "u1" \in DOMAIN pr /\ pr.u1 = u_1(sd, opened, cut)
  BY <1>5, <1>6 DEF Join
<1>8. pr.v \in [Vectors -> [Below(it.kappa) -> Elems]] /\ pr.g \in [Pairs(stmt.r) -> Elems]
  <2>1. IsProof(pr, FirstMessage(version), stmt, it)
    <3>1. it' = it /\ FieldsAt(version', pc') = FirstMessage(version) /\ stmt' = stmt
      BY <1>2 DEF it, FieldsAt
    <3>2. IsProof(proof', FieldsAt(version', pc'), stmt', it')
      BY <1>1 DEF IterationInv, Typed
    <3> QED
      BY <3>1, <3>2 DEF pr
  <2>2. pr.v \in Message("v", stmt, it) /\ pr.g \in Message("g", stmt, it)
    BY <2>1 DEF IsProof, FirstMessage
  <2> QED
    BY <2>2, MessagesAre DEF Vectors
<1>9. u_1(sd, opened, cut) = u_1(sd, pr, cut)
  BY <1>7, SameU1
<1>10. u_1(sd, pr, cut) = u_1(sd, pr, 0)
  <2>1. cut \in Int
    BY DEF Vectors, Below
  <2>2. IsStatement(stmt) /\ it \in Parameters
    BY <1>1, ItIn DEF IterationInv, Typed
  <2> QED
    BY <1>8, <2>1, <2>2, CutMakesNoDifference
<1>11. Committed(sd, pr)
  BY <1>4, <1>6, <1>7, <1>9, <1>10 DEF Committed
<1>12. HonestTo(StepsTo(pc'), seeds', proof')
  BY <1>2, <1>11 DEF HonestTo, StepsTo, sd, pr
<1> QED
  BY <1>1, <1>2, <1>12, HonestStep DEF Delivered

\* What was there before a message is still there, and as the seeds say.
LEMMA HonestMore ==
  ASSUME HonestInv, ~Delivered, NEW more, NEW sent,
         seeds' = Join(seeds, more), proof' = Join(proof, sent)
  PROVE  /\ HonestTo(StepsTo(pc), seeds', proof')
         /\ Extends(seeds', seeds) /\ Extends(proof', proof)
<1>1. Extends(seeds', seeds) /\ Extends(proof', proof)
  BY JoinExtends
<1>2. HonestTo(StepsTo(pc), seeds, proof) /\ StepsTo(pc) \in 0..5
  BY DEF HonestInv, Sending, StepsTo
<1> QED
  BY <1>1, <1>2, HonestOn

LEMMA HonestProject ==
  ASSUME HonestInv, DrawsAreResidues, Project
  PROVE  HonestInv'
<1>1. IterationInv' /\ IterationInv
  BY StepProject DEF HonestInv
<1>2. UNCHANGED <<version, chain, stmt, w, change>> /\ pc = "project" /\ pc' = "constrain"
  BY DEF Project, Stay
<1>3. PICK seed \in Seeds :
        /\ seeds' = Join(seeds, [projection |-> seed])
        /\ proof' = Join(proof, [p |-> project_combined(Pi(seeds'), w)])
  BY DEF Project
<1>4. ~Delivered
  BY <1>2 DEF Delivered
<1>5. HonestTo(StepsTo(pc), seeds', proof')
  BY <1>3, <1>4, HonestMore
<1>6. "p" \notin DOMAIN proof /\ version = "v2"
  BY <1>1, <1>2 DEF IterationInv, Typed, IsProof, FieldsAt, FirstMessage
<1> DEFINE sd == seeds'
           pr == proof'
           p == project_combined(Pi(sd), w)
<1>7. "projection" \in DOMAIN sd
  BY <1>3 DEF Join
<1>8. pr = Join(proof, [p |-> p])
  BY <1>3
<1> HIDE DEF sd, pr, p
<1>9. "p" \in DOMAIN pr /\ pr.p = p
  BY <1>6, <1>8 DEF Join
<1>10. Projected(sd, pr)
  BY <1>7, <1>9 DEF Projected, p
<1>11. HonestTo(StepsTo(pc'), seeds', proof')
  BY <1>2, <1>5, <1>10 DEF HonestTo, StepsTo, sd, pr
<1> QED
  BY <1>1, <1>2, <1>4, <1>11, HonestStep

LEMMA HonestConstrain ==
  ASSUME HonestInv, DrawsAreResidues, Constrain
  PROVE  HonestInv'
<1>1. IterationInv' /\ IterationInv
  BY StepConstrain DEF HonestInv
<1>2. UNCHANGED <<version, chain, stmt, w, change>> /\ pc = "constrain" /\ pc' = "linearize"
  BY DEF Constrain, Stay
<1>3. PICK seed \in Seeds :
        LET sd == Join(seeds, [psi |-> seed])
            pps == Aggregates(sd, ConstTerms(sd, ProjectionOf(proof)))
        IN  /\ seeds' = sd
            /\ agg' = [pps |-> pps]
            /\ proof' = Join(proof, [bpp |-> [k \in 1..K_PP |->
                                           b_double_prime(agg'.pps[k], proof.g, w)]])
  BY DEF Constrain, ProjectionOf
<1>4. ~Delivered
  BY <1>2 DEF Delivered
<1> DEFINE sd == seeds'
           pr == proof'
           bpp == [k \in 1..K_PP |-> b_double_prime(PpsOf(sd, proof)[k], proof.g, w)]
<1>5. sd = Join(seeds, [psi |-> seed]) /\ agg'.pps = PpsOf(sd, proof) /\ pr = Join(proof, [bpp |-> bpp])
  BY <1>3 DEF PpsOf
<1>6. HonestTo(StepsTo(pc), sd, pr) /\ Extends(pr, proof)
  BY <1>4, <1>5, HonestMore
<1>7. /\ "bpp" \notin DOMAIN proof /\ "g" \in DOMAIN proof
      /\ version # "v1" => "p" \in DOMAIN proof
  BY <1>1, <1>2 DEF IterationInv, Typed, IsProof, FieldsAt, WithProjection, FirstMessage
<1>8. "psi" \in DOMAIN sd
  BY <1>5 DEF Join
<1> HIDE DEF sd, pr, bpp
<1>9. "bpp" \in DOMAIN pr /\ pr.bpp = bpp
  BY <1>5, <1>7 DEF Join
<1>10. pr.g = proof.g /\ (version # "v1" => pr.p = proof.p)
  BY <1>6, <1>7 DEF Extends
<1>11. PpsOf(sd, pr) = PpsOf(sd, proof)
  BY <1>10, SamePps
<1>12. Constrained(sd, pr)
  BY <1>8, <1>9, <1>10, <1>11 DEF Constrained, bpp
<1>13. HonestTo(StepsTo(pc'), seeds', proof')
  BY <1>2, <1>6, <1>12 DEF HonestTo, StepsTo, sd, pr
<1>14. agg'.pps = PpsOf(seeds', proof')
  BY <1>5, <1>11 DEF sd, pr
<1> QED
  BY <1>1, <1>2, <1>4, <1>13, <1>14, HonestStep

-----------------------------------------------------------------------------
LEMMA ExtendsOn ==
  ASSUME NEW f, NEW g, NEW h, Extends(g, f), Extends(h, g)
  PROVE  Extends(h, f)
BY DEF Extends

LEMMA HonestLinearize ==
  ASSUME HonestInv, DrawsAreResidues, Linearize
  PROVE  HonestInv'
<1>1. IterationInv' /\ IterationInv
  BY StepLinearize DEF HonestInv
<1>2. UNCHANGED <<version, chain, stmt, w, change>> /\ pc = "linearize" /\ pc' = "amortize"
  BY DEF Linearize, Stay
<1> DEFINE sd == seeds'
           pr == proof'
           h == compute_h(agg'.phi_agg, w, stmt.r)
           opened == Join(proof, [h |-> h])
           u2 == u_2(sd, opened)
<1>3. PICK seed \in Seeds :
        /\ seeds' = Join(seeds, [linear |-> seed])
        /\ agg' = Aggregate(seeds', agg.pps, proof.bpp)
        /\ proof' = IF version = "v1" THEN opened ELSE Join(opened, [u2 |-> u2])
  BY DEF Linearize
<1>4. ~Delivered /\ Sending
  BY <1>2 DEF Delivered, HonestInv
<1>5. HonestTo(3, seeds, proof) /\ agg.pps = PpsOf(seeds, proof)
  BY <1>2, <1>4 DEF Sending, StepsTo
<1>6. Extends(sd, seeds) /\ "linear" \in DOMAIN sd
  BY <1>3, JoinExtends DEF Join
<1>7. "h" \notin DOMAIN proof /\ "u2" \notin DOMAIN proof /\ version \in {"v1", "v2"}
  BY <1>1, <1>2 DEF IterationInv, Typed, IsProof, FieldsAt, WithSecond, WithProjection, FirstMessage
<1>8. Extends(opened, proof) /\ "h" \in DOMAIN opened /\ opened.h = h /\ "u2" \notin DOMAIN opened
  BY <1>7, JoinExtends DEF Join
<1>9. CASE version = "v1"
  <2>1. pr = opened
    BY <1>3, <1>9
  <2> HIDE DEF sd, pr, h, opened, u2
  <2> QED
    <3>1. HonestTo(3, sd, pr)
      BY <1>5, <1>6, <1>8, <2>1, HonestOn
    <3>2. Committed(seeds, proof) /\ Projected(seeds, proof) /\ Constrained(seeds, proof)
      BY <1>5 DEF HonestTo
    <3>3. sd.psi = seeds.psi /\ pr.bpp = proof.bpp
      BY <1>6, <1>8, <2>1, <3>2 DEF Constrained, Extends
    <3>4. PpsOf(sd, pr) = PpsOf(seeds, proof)
      BY <1>9, <3>3, SamePps
    <3>5. agg' = replay(sd, pr)
      <4>1. agg' = Aggregate(sd, PpsOf(sd, pr), pr.bpp)
        BY <1>3, <1>5, <3>3, <3>4 DEF sd
      <4> QED
        BY <4>1, ReplayIs
    <3>6. Linearized(sd, pr)
      BY <1>6, <1>8, <1>9, <2>1, <3>5 DEF Linearized, h
    <3>7. HonestTo(StepsTo(pc'), seeds', proof')
      BY <1>2, <3>1, <3>6 DEF HonestTo, StepsTo, sd, pr
    <3> QED
      BY <1>1, <1>2, <1>4, <3>7, HonestStep
<1>10. CASE version = "v2"
  <2>1. pr = Join(opened, [u2 |-> u2])
    BY <1>3, <1>10
  <2>2. Extends(pr, opened) /\ "u2" \in DOMAIN pr /\ pr.u2 = u2
    BY <1>8, <2>1, JoinExtends DEF Join
  <2> HIDE DEF sd, pr, h, opened, u2
  <2> QED
    <3>0. Extends(pr, proof)
      BY <1>8, <2>2, ExtendsOn
    <3>1. HonestTo(3, sd, pr)
      BY <1>5, <1>6, <3>0, HonestOn
    <3>2. Committed(seeds, proof) /\ Projected(seeds, proof) /\ Constrained(seeds, proof)
      BY <1>5 DEF HonestTo
    <3>3. sd.psi = seeds.psi /\ pr.bpp = proof.bpp
      BY <1>6, <3>0, <3>2 DEF Constrained, Extends
    <3>4. PpsOf(sd, pr) = PpsOf(seeds, proof)
      <4>1. sd.projection = seeds.projection /\ pr.p = proof.p
        BY <1>6, <1>10, <3>0, <3>2, ProjectedOn
      <4> QED
        BY <3>3, <4>1, SamePps
    <3>5. agg' = replay(sd, pr)
      <4>1. agg' = Aggregate(sd, PpsOf(sd, pr), pr.bpp)
        BY <1>3, <1>5, <3>3, <3>4 DEF sd
      <4> QED
        BY <4>1, ReplayIs
    <3>6. "h" \in DOMAIN pr /\ pr.h = opened.h
      BY <1>8, <2>2 DEF Extends
    <3>7. u_2(sd, pr) = u_2(sd, opened)
      BY <3>6, SameU2
    <3>8. pr.u2 = u_2(sd, pr)
      BY <2>2, <3>7 DEF u2
    <3>9. Linearized(sd, pr)
      BY <1>6, <1>8, <2>2, <3>5, <3>6, <3>8 DEF Linearized, h
    <3>10. HonestTo(StepsTo(pc'), seeds', proof')
      BY <1>2, <3>1, <3>9 DEF HonestTo, StepsTo, sd, pr
    <3> QED
      BY <1>1, <1>2, <1>4, <3>10, HonestStep
<1> QED
  BY <1>7, <1>9, <1>10

LEMMA HonestAmortize ==
  ASSUME HonestInv, DrawsAreResidues, Amortize
  PROVE  HonestInv'
<1>1. IterationInv' /\ IterationInv
  BY StepAmortize DEF HonestInv
<1>2. UNCHANGED <<version, chain, stmt, w, change>> /\ pc = "amortize" /\ pc' = "sent"
  BY DEF Amortize, Stay
<1> DEFINE sd == seeds'
           pr == proof'
           x == Amortized(Challenge(sd))
           x0 == PartOfZ(x, 0)
           x1 == PartOfZ(x, 1)
<1>3. PICK seed \in Seeds :
        /\ seeds' = Join(seeds, [challenge |-> seed])
        /\ LET part == [c \in {0, 1} |-> [p \in Below(stmt.n) |-> decompose(x[p], it.b, 2)[c]]]
           IN  proof' = Join(proof, IF version = "v1" THEN [z |-> x]
                                    ELSE [z0 |-> part[0], z1 |-> part[1]])
  BY DEF Amortize
<1>4. ~Delivered
  BY <1>2 DEF Delivered
<1>5. HonestTo(4, sd, pr)
  <2>1. HonestTo(StepsTo(pc), sd, pr)
    BY <1>3, <1>4, HonestMore
  <2> QED
    BY <1>2, <2>1 DEF StepsTo
<1>6. "challenge" \in DOMAIN sd
  BY <1>3 DEF Join
<1>7. /\ version \in {"v1", "v2"}
      /\ "z" \notin DOMAIN proof /\ "z0" \notin DOMAIN proof /\ "z1" \notin DOMAIN proof
  BY <1>1, <1>2 DEF IterationInv, Typed, IsProof, FieldsAt, WithLinear, WithSecond, WithProjection, FirstMessage
<1>8. version = "v1" => pr = Join(proof, [z |-> x])
  BY <1>3
<1>9. version # "v1" => pr = Join(proof, [z0 |-> x0, z1 |-> x1])
  BY <1>3 DEF PartOfZ
<1> HIDE DEF sd, pr, x0, x1
<1> HIDE DEF x
<1>10. version = "v1" => "z" \in DOMAIN pr /\ pr.z = x
  BY <1>7, <1>8 DEF Join
<1>11. version # "v1" => "z0" \in DOMAIN pr /\ pr.z0 = x0 /\ "z1" \in DOMAIN pr /\ pr.z1 = x1
  BY <1>7, <1>9 DEF Join
<1>12. Answered(sd, pr)
  BY <1>6, <1>10, <1>11 DEF Answered, x, x0, x1
<1>13. HonestTo(StepsTo(pc'), seeds', proof')
  BY <1>2, <1>5, <1>12 DEF HonestTo, StepsTo, sd, pr
<1> QED
  BY <1>1, <1>2, <1>4, <1>13, HonestStep

-----------------------------------------------------------------------------
\* What was sent, seen from the next state.
LEMMA HonestStays ==
  ASSUME UNCHANGED <<version, chain, stmt, w>>, NEW CONSTANT sd, NEW CONSTANT pr
  PROVE  HonestTo(5, sd, pr)' <=> HonestTo(5, sd, pr)
<1>1. version' = version /\ stmt' = stmt /\ w' = w /\ it' = it
  BY DEF it
<1>2. SourceShape' = SourceShape /\ OuterRows' = OuterRows
  BY <1>1 DEF SourceShape, OuterRows
<1>3. Committed(sd, pr)' <=> Committed(sd, pr)
  <2>1. [i \in Vectors |-> matmul(sd, w[i])]' = [i \in Vectors |-> matmul(sd, w[i])]
    BY <1>1 DEF matmul, Vectors
  <2>2. u_1(sd, pr, 0)' = u_1(sd, pr, 0)
    BY <1>1, <1>2 DEF u_1, outer_commit_v, outer_commit_sym, OuterCommit, AddRows
  <2> QED
    BY <1>1, <2>1, <2>2 DEF Committed
<1>4. Projected(sd, pr)' <=> Projected(sd, pr)
  <2>1. Pi(sd)' = Pi(sd)
    BY <1>1 DEF Pi, Vectors
  <2> QED
    BY <1>1, <2>1 DEF Projected
<1>5. PpsOf(sd, pr)' = PpsOf(sd, pr)
  BY <1>1 DEF PpsOf, ProjectionOf, Aggregates, ConstTerms, Psis, Pi, Residue, Slots_w, Vectors
<1>6. Constrained(sd, pr)' <=> Constrained(sd, pr)
  BY <1>1, <1>5 DEF Constrained
<1>7. Linearized(sd, pr)' <=> Linearized(sd, pr)
  <2>1. u_2(sd, pr)' = u_2(sd, pr)
    BY <1>1, <1>2 DEF u_2, outer_commit_sym, OuterCommit
  <2>2. replay(sd, pr)' = replay(sd, pr)
    <3>1. Aggregate(sd, PpsOf(sd, pr), pr.bpp)' = Aggregate(sd, PpsOf(sd, pr), pr.bpp)
      BY <1>1, <1>5 DEF Aggregate, Alphas, Betas
    <3>2. replay(sd, pr)' = Aggregate(sd, PpsOf(sd, pr), pr.bpp)'
      BY <1>1 DEF replay, PpsOf, ProjectionOf
    <3> QED
      BY <3>1, <3>2, ReplayIs
  <2> QED
    BY <1>1, <2>1, <2>2 DEF Linearized
<1>8. Answered(sd, pr)' <=> Answered(sd, pr)
  <2>1. Amortized(Challenge(sd))' = Amortized(Challenge(sd))
    BY <1>1 DEF Challenge, Amortized, Vectors, Residue
  <2>2. \A c : PartOfZ(Amortized(Challenge(sd)), c)' = PartOfZ(Amortized(Challenge(sd)), c)
    BY <1>1, <2>1 DEF PartOfZ
  <2> QED
    BY <1>1, <2>1, <2>2 DEF Answered
<1> QED
  BY <1>3, <1>4, <1>6, <1>7, <1>8 DEF HonestTo

LEMMA AppliesStays ==
  ASSUME UNCHANGED <<version, chain, stmt, w>>, NEW CONSTANT c, NEW CONSTANT pr, NEW CONSTANT sd, NEW CONSTANT seed
  PROVE  /\ AppliesTo(c, pr)' <=> AppliesTo(c, pr)
         /\ Redrawn(sd, c, seed)' = Redrawn(sd, c, seed)
         /\ Changed(pr, c)' = Changed(pr, c)
         /\ IsProof(pr, WithAll(version), stmt, it)' <=> IsProof(pr, WithAll(version), stmt, it)
<1>1. version' = version /\ stmt' = stmt /\ chain' = chain /\ it' = it
  BY DEF it
<1>2. AppliesTo(c, pr)' <=> AppliesTo(c, pr)
  BY <1>1 DEF AppliesTo, Vectors
<1>3. Redrawn(sd, c, seed)' = Redrawn(sd, c, seed)
  BY <1>1 DEF Redrawn, Absorbed
<1>4. Changed(pr, c)' = Changed(pr, c)
  BY DEF Changed
<1>5. IsProof(pr, WithAll(version), stmt, it)' <=> IsProof(pr, WithAll(version), stmt, it)
  BY <1>1
<1> QED
  BY <1>2, <1>3, <1>4, <1>5

LEMMA HonestDeliver ==
  ASSUME HonestInv, DrawsAreResidues, Deliver
  PROVE  HonestInv'
<1>1. IterationInv' /\ IterationInv
  BY StepDeliver DEF HonestInv
<1>2. UNCHANGED <<version, chain, stmt, w>> /\ pc = "sent" /\ pc' = "delivered"
  BY DEF Deliver
<1>3. PICK c \in Changes, seed \in Seeds :
        /\ Applies(c) /\ change' = c /\ proof' = Changed(proof, c)
        /\ seeds' = Redrawn(seeds, c, seed)
  BY DEF Deliver, Redrawn
<1>4. PICK sd, pr : sd = seeds /\ pr = proof
  OBVIOUS
<1>5. HonestTo(5, sd, pr)
  BY <1>2, <1>4 DEF HonestInv, Sending, Delivered, StepsTo
<1>6. IsProof(pr, WithAll(version), stmt, it)
  BY <1>1, <1>2, <1>4 DEF IterationInv, Typed, FieldsAt
<1>7. AppliesTo(c, pr)
  BY <1>3, <1>4 DEF Applies, AppliesTo
<1>8. proof' = Changed(pr, c) /\ seeds' = Redrawn(sd, c, seed)
  BY <1>3, <1>4
<1>9. /\ HonestTo(5, sd, pr)' /\ IsProof(pr, WithAll(version), stmt, it)' /\ AppliesTo(c, pr)'
      /\ proof' = Changed(pr, c)' /\ seeds' = Redrawn(sd, c, seed)'
  BY <1>2, <1>5, <1>6, <1>7, <1>8, HonestStays, AppliesStays
<1>10. AppliesTo(change, pr)' /\ proof' = Changed(pr, change)' /\ seeds' = Redrawn(sd, change, seed)'
  BY <1>3, <1>9 DEF AppliesTo, Changed, Redrawn, Bump
<1>11. SentAs(sd, pr, seed)'
  BY <1>3, <1>9, <1>10 DEF SentAs
<1>12. Delivered'
  BY <1>2 DEF Delivered
<1> QED
  BY <1>1, <1>11, <1>12 DEF HonestInv

-----------------------------------------------------------------------------
\* A step that leaves the proof as it arrived.
LEMMA SentStays ==
  ASSUME HonestInv, IterationInv', Delivered, Delivered',
         UNCHANGED <<version, chain, stmt, w, seeds, proof, change>>
  PROVE  HonestInv'
<1>1. PICK sd, pr, seed : SentAs(sd, pr, seed)
  BY DEF HonestInv
<1>2. UNCHANGED <<version, chain, stmt, w>>
  OBVIOUS
<1>3. PICK c : c = change
  OBVIOUS
<1>4. /\ HonestTo(5, sd, pr) /\ IsProof(pr, WithAll(version), stmt, it) /\ AppliesTo(c, pr)
      /\ c \in Changes /\ proof = Changed(pr, c) /\ seeds = Redrawn(sd, c, seed)
  BY <1>1, <1>3 DEF SentAs
<1>5. /\ HonestTo(5, sd, pr)' /\ IsProof(pr, WithAll(version), stmt, it)' /\ AppliesTo(c, pr)'
      /\ proof' = Changed(pr, c)' /\ seeds' = Redrawn(sd, c, seed)'
  BY <1>2, <1>4, HonestStays, AppliesStays
<1>6. AppliesTo(change, pr)' /\ proof' = Changed(pr, change)' /\ seeds' = Redrawn(sd, change, seed)'
      /\ change' = c
  BY <1>3, <1>5 DEF AppliesTo, Changed, Redrawn, Bump
<1>7. SentAs(sd, pr, seed)'
  BY <1>4, <1>5, <1>6 DEF SentAs
<1> QED
  BY <1>7 DEF HonestInv

LEMMA HonestFold ==
  ASSUME HonestInv, DrawsAreResidues, Fold
  PROVE  HonestInv'
<1>1. IterationInv'
  BY StepFold DEF HonestInv
<1>2. Delivered /\ Delivered' /\ UNCHANGED <<version, chain, stmt, w, seeds, proof, change>>
  BY DEF Fold, Delivered
<1> QED
  BY <1>1, <1>2, SentStays

LEMMA HonestVerify ==
  ASSUME HonestInv, DrawsAreResidues, Verify
  PROVE  HonestInv'
<1>1. IterationInv'
  BY StepVerify DEF HonestInv
<1>2. Delivered /\ Delivered' /\ UNCHANGED <<version, chain, stmt, w, seeds, proof, change>>
  BY DEF Verify, Delivered
<1> QED
  BY <1>1, <1>2, SentStays

\* Only the last iteration's proof is sent, and changed on its way.
LEMMA HonestRecurse ==
  ASSUME HonestInv, DrawsAreResidues, Recurse
  PROVE  HonestInv'
<1>1. IterationInv'
  BY StepRecurse DEF HonestInv
<1>2. Delivered /\ Len(chain) > 1 /\ pc' = "commit" /\ change' = change
  BY DEF Recurse, Delivered
<1>3. PICK sd, pr, seed : SentAs(sd, pr, seed)
  BY <1>2 DEF HonestInv
<1>4. Unchanged
  <2>1. AppliesTo(change, pr)
    BY <1>3 DEF SentAs
  <2>2. Len(chain) # 1
    BY <1>2
  <2> QED
    BY <2>1, <2>2, Zenon DEF AppliesTo, Unchanged
<1>5. ~Delivered' /\ Sending'
  BY <1>2, <1>4 DEF Delivered, Sending, Unchanged, HonestTo, StepsTo
<1> QED
  BY <1>1, <1>5 DEF HonestInv

LEMMA HonestStutter ==
  ASSUME HonestInv, UNCHANGED vars
  PROVE  HonestInv'
<1>1. IterationInv'
  BY StepStutter DEF HonestInv
<1>2. UNCHANGED <<version, chain, stmt, w, seeds, proof, change>> /\ pc' = pc /\ agg' = agg
      /\ UNCHANGED <<version, chain, stmt, w>>
  BY DEF vars
<1>3. CASE Delivered
  <2>1. Delivered'
    BY <1>2, <1>3 DEF Delivered
  <2> QED
    BY <1>1, <1>2, <1>3, <2>1, SentStays
<1>4. CASE ~Delivered
  <2>1. ~Delivered' /\ Sending
    BY <1>2, <1>4 DEF Delivered, HonestInv
  <2>2. Unchanged'
    BY <1>2, <2>1 DEF Sending, Unchanged
  <2>3. HonestTo(StepsTo(pc), seeds', proof')
    BY <1>2, <2>1 DEF Sending
  <2>4. HonestTo(StepsTo(pc), seeds, proof)'
    <3>1. PICK n : n = StepsTo(pc)
      OBVIOUS
    <3>2. HonestTo(n, seeds, proof)'
      BY <1>2, <2>3, <3>1, HonestAlike
    <3>3. StepsTo(pc') = n
      BY <1>2, <3>1
    <3> QED
      BY <3>2, <3>3 DEF HonestTo
  <2>5. pc' = "linearize" => agg'.pps = PpsOf(seeds, proof)'
    <3>1. pc' = "linearize" => agg'.pps = PpsOf(seeds', proof')
      BY <1>2, <2>1 DEF Sending
    <3> QED
      BY <1>2, <3>1, PpsAlike
  <2>6. Sending'
    BY <2>2, <2>4, <2>5 DEF Sending
  <2> QED
    BY <1>1, <2>1, <2>6 DEF HonestInv
<1> QED
  BY <1>3, <1>4

LEMMA HonestNext ==
  ASSUME HonestInv, DrawsAreResidues, [Next]_vars
  PROVE  HonestInv'
<1>1. CASE Commit_v1
  BY <1>1, HonestCommit_v1
<1>2. CASE Commit
  BY <1>2, HonestCommit
<1>3. CASE Project
  BY <1>3, HonestProject
<1>4. CASE Constrain
  BY <1>4, HonestConstrain
<1>5. CASE Linearize
  BY <1>5, HonestLinearize
<1>6. CASE Amortize
  BY <1>6, HonestAmortize
<1>7. CASE Deliver
  BY <1>7, HonestDeliver
<1>8. CASE Fold
  BY <1>8, HonestFold
<1>9. CASE Recurse
  BY <1>9, HonestRecurse
<1>10. CASE Verify
  BY <1>10, HonestVerify
<1>11. CASE UNCHANGED vars
  BY <1>11, HonestStutter
<1> QED
  BY <1>1, <1>2, <1>3, <1>4, <1>5, <1>6, <1>7, <1>8, <1>9, <1>10, <1>11 DEF Next

-----------------------------------------------------------------------------
(* What the checks compare is equal in what an honest prover sends.        *)

Grounded ==
  version \in {"v1", "v2"} /\ IsStatement(stmt) /\ IsWitness(w, stmt) /\ it \in Parameters
Whole_z(pr) ==
  IF version = "v1" THEN pr.z
  ELSE [p \in Below(stmt.n) |->
          recompose([c \in {0, 1} |-> IF c = 0 THEN pr.z0[p] ELSE pr.z1[p]], it.b)]

\* The two parts of an element give it back.
LEMMA TwoPartsBack ==
  ASSUME NEW b \in Nat, b >= 1, NEW x \in Elems
  PROVE  LET y == decompose(x, b, 2)
         IN  y[0] \in Elems /\ y[1] \in Elems /\ Whole(b, y[0], y[1]) = x
<1> DEFINE y == decompose(x, b, 2)
           g == [c \in 0..1 |-> Mul(constant(Pow(b, c)), y[c])]
<1>a. 0..(2 - 1) = 0..1 /\ 2 \in Nat /\ 2 >= 1
  OBVIOUS
<1>1. IsFamily(y, 0..1, Elems)
  <2>1. IsFamily(y, 0..(2 - 1), Elems)
    BY <1>a, DecomposeIn
  <2> HIDE DEF y
  <2> QED
    BY <1>a, <2>1
<1>2. y[0] \in Elems /\ y[1] \in Elems /\ IsFiniteSet(0..1)
  BY <1>1 DEF IsFamily
<1>3. Pow(b, 0) = 1 /\ Pow(b, 1) = b
  <2>1. Pow(b, 0) = 1 /\ \A n \in Nat : Pow(b, n + 1) = Pow(b, n) * b
    BY PowerRules
  <2>2. Pow(b, 0 + 1) = Pow(b, 0) * b
    BY <2>1
  <2> QED
    BY <2>1, <2>2
<1> HIDE DEF y
<1>4. g[0] = y[0] /\ g[1] = Mul(constant(b), y[1])
  BY <1>2, <1>3, ConstantRules
<1>5. g[0] \in Elems /\ g[1] \in Elems
  <2>1. constant(b) \in Elems
    BY ConstantIs
  <2>2. Mul(constant(b), y[1]) \in Elems
    BY <1>2, <2>1, MulRules
  <2> HIDE DEF g
  <2> QED
    BY <1>2, <1>4, <2>2
<1>6. IsFamily(g, 0..1, Elems)
  <2>1. \A c \in 0..1 : c = 0 \/ c = 1
    OBVIOUS
  <2>2. \A c \in 0..1 : g[c] \in Elems
    BY <1>5, <2>1
  <2> HIDE DEF g
  <2>3. g \in [0..1 -> Elems]
    BY <2>2 DEF g
  <2> QED
    BY <1>2, <2>3 DEF IsFamily
<1>7. Weighted(g, decompose(x, b, 2), b, 0..(2 - 1))
  <2>1. Weighted(g, y, b, 0..1)
    BY <1>6 DEF Weighted
  <2> QED
    BY <1>a, <2>1 DEF y
<1>8. \A c \in 0..1 : g[c] = g[c]
  OBVIOUS
<1> HIDE DEF g
<1>9. SumE(g) = x
  BY <1>7, <1>a, DecomposeSums
<1>10. 0..1 = {0, 1}
  OBVIOUS
<1>11. IsFamily(g, {0, 1}, Elems)
  BY <1>6, <1>10
<1>12. SumE(g) = Add(g[0], g[1])
  BY <1>11, SumOfTwo
<1> QED
  BY <1>2, <1>4, <1>9, <1>12 DEF y, Whole

LEMMA AmortizedBack ==
  ASSUME Grounded, NEW sd, NEW pr, Answered(sd, pr)
  PROVE  /\ Whole_z(pr) = Amortized(Challenge(sd)) /\ Challenge(sd) \in [Vectors -> Elems]
         /\ Whole_z(pr) \in [Below(stmt.n) -> Elems]
<1> DEFINE x == Amortized(Challenge(sd))
<1>1. Challenge(sd) \in [Vectors -> Elems] /\ x \in [Below(stmt.n) -> Elems]
  BY ChallengeIn, AmortizedIn DEF Grounded
<1>2. CASE version = "v1"
  BY <1>1, <1>2 DEF Whole_z, Answered
<1>3. CASE version # "v1"
  <2>1. pr.z0 = PartOfZ(x, 0) /\ pr.z1 = PartOfZ(x, 1)
    BY <1>3 DEF Answered
  <2>2. it.b \in Nat /\ it.b >= 1
    BY ParametersAre DEF Grounded
  <2> HIDE DEF x
  <2>3. ASSUME NEW p \in Below(stmt.n)
        PROVE  recompose([c \in {0, 1} |-> IF c = 0 THEN pr.z0[p] ELSE pr.z1[p]], it.b) = x[p]
    <3> DEFINE y == decompose(x[p], it.b, 2)
    <3>1. x[p] \in Elems
      BY <1>1
    <3>2. y[0] \in Elems /\ y[1] \in Elems /\ Whole(it.b, y[0], y[1]) = x[p]
      BY <2>2, <3>1, TwoPartsBack
    <3>3. pr.z0[p] = y[0] /\ pr.z1[p] = y[1]
      BY <2>1 DEF PartOfZ
    <3> HIDE DEF y
    <3>4. recompose([c \in {0, 1} |-> IF c = 0 THEN y[0] ELSE y[1]], it.b) = Whole(it.b, y[0], y[1])
      BY <2>2, <3>2, RecomposeTwo
    <3> QED
      BY <3>2, <3>3, <3>4
  <2>4. Whole_z(pr) = [p \in Below(stmt.n) |-> x[p]]
    BY <1>3, <2>3 DEF Whole_z
  <2> QED
    BY <1>1, <2>4 DEF x
<1> QED
  BY <1>2, <1>3

\* The rounds' aggregation.
LEMMA HonestShapes ==
  ASSUME DrawsAreResidues, Grounded, NEW sd, NEW pr, IsProof(pr, WithAll(version), stmt, it)
  PROVE  LET cts == ConstTerms(sd, ProjectionOf(pr))
         IN  /\ AreCts(cts, stmt) /\ AreConstraints(cts, stmt)
             /\ ArePps(PpsOf(sd, pr), stmt)
             /\ \A k \in 1..K_PP : PpsOf(sd, pr)[k] = aggregate_const_term(cts, Psis(sd, cts)[k])
             /\ IsAggregate(replay(sd, pr), stmt)
             /\ pr.bpp \in [1..K_PP -> Elems]
<1> DEFINE p == ProjectionOf(pr)
           cts == ConstTerms(sd, p)
<1>1. version # "v1" => p \in [Rows -> Int]
  <2>1. version # "v1" => pr.p \in Message("p", stmt, it)
    BY DEF IsProof, WithAll, WithLinear, WithSecond, WithProjection
  <2> QED
    BY <2>1, MessagesAre DEF ProjectionOf
<1>2. pr.bpp \in [1..K_PP -> Elems]
  <2>1. pr.bpp \in Message("bpp", stmt, it)
    BY DEF IsProof, WithAll, WithLinear, WithSecond
  <2> QED
    BY <2>1, MessagesAre
<1> HIDE DEF p
<1>3. AreCts(cts, stmt)
  BY <1>1, ConstTermsIn DEF Grounded
<1>4. PpsOf(sd, pr) = Aggregates(sd, cts)
  BY DEF PpsOf, p
<1> HIDE DEF cts
<1>5. /\ ArePps(Aggregates(sd, cts), stmt) /\ AreConstraints(cts, stmt)
      /\ \A k \in 1..K_PP : Aggregates(sd, cts)[k] = aggregate_const_term(cts, Psis(sd, cts)[k])
  BY <1>3, AggregatesIn DEF Grounded
<1>6. ArePps(PpsOf(sd, pr), stmt)
  BY <1>4, <1>5
<1>7. IsAggregate(Aggregate(sd, PpsOf(sd, pr), pr.bpp), stmt)
  BY <1>2, <1>6, AggregateIn DEF Grounded
<1>8. IsAggregate(replay(sd, pr), stmt)
  BY <1>7, ReplayIs
<1> QED
  BY <1>2, <1>3, <1>4, <1>5, <1>6, <1>8 DEF cts, p

-----------------------------------------------------------------------------
\* The verifier's checks, of any draws and proof.
GarbageSum(ch, g) == Total(AllGarbage(ch, g, stmt.r))
InnerOf(sd, pr) ==
  matmul(sd, Whole_z(pr)) =
    [k \in Below(it.kappa) |-> Total([i \in Vectors |-> Mul(Challenge(sd)[i], pr.v[i][k])])]
QuadraticOf(sd, pr) ==
  ring_inner_product(Whole_z(pr), Whole_z(pr)) = GarbageSum(Challenge(sd), pr.g)
LinearOf(sd, pr) ==
  Total([i \in Vectors |-> Mul(Challenge(sd)[i], phi_dot(replay(sd, pr).phi_agg, i, Whole_z(pr)))])
    = GarbageSum(Challenge(sd), pr.h)
RelationOf(sd, pr) ==
  Add(quadratic(replay(sd, pr).a_agg, pr.g), Total([i \in Vectors |-> pr.h[<<i, i>>]]))
    = replay(sd, pr).b_agg
ConstTermsOf(sd, pr) ==
  LET cts == ConstTerms(sd, ProjectionOf(pr))
  IN \A k \in 1..K_PP : pr.bpp[k][0] = ExpectedConstTerm(cts, Psis(sd, cts)[k])

\* What the witness of a true statement satisfies, but for its norm.
ConstraintsHold ==
  /\ \A k \in DOMAIN stmt.full : eval_full(stmt.full[k], w) = Zero
  /\ \A l \in DOMAIN stmt.const_term : eval_const_term(stmt.const_term[l], w) = 0

LEMMA InnerPasses ==
  ASSUME DrawsAreResidues, Grounded, NEW sd, NEW pr, HonestTo(5, sd, pr)
  PROVE  InnerOf(sd, pr)
<1> DEFINE ch == Challenge(sd)
           u == Amortized(ch)
<1>1. Committed(sd, pr) /\ Answered(sd, pr)
  BY DEF HonestTo
<1>2. Whole_z(pr) = u /\ ch \in [Vectors -> Elems]
  BY <1>1, AmortizedBack
<1>3. pr.v = [i \in Vectors |-> matmul(sd, w[i])]
  BY <1>1 DEF Committed
<1> HIDE DEF ch
<1>4. ASSUME NEW k \in Below(it.kappa)
      PROVE  matmul(sd, u)[k] = Total([i \in Vectors |-> Mul(ch[i], pr.v[i][k])])
  <2> DEFINE y == [i \in Vectors |-> matmul(sd, w[i])[k]]
             f == [i \in Vectors |-> Mul(ch[i], y[i])]
  <2>1. IsFamily(y, Vectors, Elems) /\ matmul(sd, u)[k] = WeightedSum(Vectors, ch, y)
    BY <1>2, InnerHonest DEF Grounded
  <2>2. [i \in Vectors |-> Mul(ch[i], pr.v[i][k])] = f
    BY <1>3
  <2>3. f = Products2(Vectors, ch, y)
    BY DEF Products2
  <2> HIDE DEF y, f
  <2>4. IsFamily(ch, Vectors, Elems)
    BY <1>2, <2>1 DEF IsFamily
  <2>5. IsFamily(f, Vectors, Elems)
    BY <2>1, <2>3, <2>4, Products2In
  <2>6. Total(f) = SumE(f)
    BY <2>5, TotalIsSum
  <2> QED
    BY <2>1, <2>2, <2>3, <2>6 DEF WeightedSum
<1>5. matmul(sd, u) = [k \in Below(it.kappa) |-> matmul(sd, u)[k]]
  BY DEF matmul
<1>6. matmul(sd, u) = [k \in Below(it.kappa) |-> Total([i \in Vectors |-> Mul(ch[i], pr.v[i][k])])]
  BY <1>4, <1>5
<1> QED
  BY <1>2, <1>6 DEF InnerOf, ch

LEMMA QuadraticPasses ==
  ASSUME Grounded, NEW sd, NEW pr, HonestTo(5, sd, pr)
  PROVE  QuadraticOf(sd, pr)
<1>1. Committed(sd, pr) /\ Answered(sd, pr)
  BY DEF HonestTo
<1>2. Whole_z(pr) = Amortized(Challenge(sd)) /\ Challenge(sd) \in [Vectors -> Elems]
  BY <1>1, AmortizedBack
<1>3. pr.g = compute_g(w, Pairs(stmt.r))
  BY <1>1 DEF Committed
<1>4. ring_inner_product(Amortized(Challenge(sd)), Amortized(Challenge(sd)))
        = Total(AllGarbage(Challenge(sd), pr.g, stmt.r))
  BY <1>2, <1>3, QuadraticHonest DEF Grounded
<1> QED
  BY <1>2, <1>4 DEF QuadraticOf, GarbageSum

LEMMA LinearPasses ==
  ASSUME DrawsAreResidues, Grounded, NEW sd, NEW pr, HonestTo(5, sd, pr),
         IsProof(pr, WithAll(version), stmt, it)
  PROVE  LinearOf(sd, pr)
<1> DEFINE phi == replay(sd, pr).phi_agg
<1>1. Linearized(sd, pr) /\ Answered(sd, pr)
  BY DEF HonestTo
<1>2. Whole_z(pr) = Amortized(Challenge(sd)) /\ Challenge(sd) \in [Vectors -> Elems]
  BY <1>1, AmortizedBack
<1>3. pr.h = compute_h(phi, w, stmt.r)
  BY <1>1 DEF Linearized
<1>4. IsSparse(phi, Positions(stmt))
  BY HonestShapes DEF IsAggregate
<1> HIDE DEF phi
<1>5. Total([i \in Vectors |-> Mul(Challenge(sd)[i], phi_dot(phi, i, Amortized(Challenge(sd))))])
        = Total(AllGarbage(Challenge(sd), pr.h, stmt.r))
  BY <1>2, <1>3, <1>4, LinearHonest DEF Grounded
<1> QED
  BY <1>2, <1>5 DEF LinearOf, GarbageSum, phi

LEMMA BppIsValue ==
  ASSUME DrawsAreResidues, Grounded, NEW sd, NEW pr, HonestTo(5, sd, pr),
         IsProof(pr, WithAll(version), stmt, it), NEW k \in 1..K_PP
  PROVE  pr.bpp[k] = Value(PpsOf(sd, pr)[k], w)
<1>1. Committed(sd, pr) /\ Constrained(sd, pr)
  BY DEF HonestTo
<1>2. pr.g = compute_g(w, Pairs(stmt.r))
  BY <1>1 DEF Committed
<1>3. pr.bpp[k] = b_double_prime(PpsOf(sd, pr)[k], pr.g, w)
  BY <1>1 DEF Constrained
<1>4. IsConstraint(PpsOf(sd, pr)[k], stmt)
  BY HonestShapes DEF ArePps
<1>5. b_double_prime(PpsOf(sd, pr)[k], pr.g, w) = Value(PpsOf(sd, pr)[k], w)
  BY <1>2, <1>4, DoublePrimeIsValue DEF Grounded
<1> QED
  BY <1>3, <1>5

LEMMA RelationPasses ==
  ASSUME DrawsAreResidues, Grounded, NEW sd, NEW pr, HonestTo(5, sd, pr),
         IsProof(pr, WithAll(version), stmt, it), ConstraintsHold
  PROVE  RelationOf(sd, pr)
<1> DEFINE ag == replay(sd, pr)
           rel == AggregateRelation(ag)
<1>1. Committed(sd, pr) /\ Linearized(sd, pr)
  BY DEF HonestTo
<1>2. pr.g = compute_g(w, Pairs(stmt.r)) /\ pr.h = compute_h(ag.phi_agg, w, stmt.r)
  BY <1>1 DEF Committed, Linearized
<1>3. ArePps(PpsOf(sd, pr), stmt) /\ pr.bpp \in [1..K_PP -> Elems]
  BY HonestShapes
<1>4. \A k \in 1..K_PP : pr.bpp[k] = Value(PpsOf(sd, pr)[k], w)
  BY BppIsValue
<1>5. ag = Aggregate(sd, PpsOf(sd, pr), pr.bpp)
  BY ReplayIs
<1> HIDE DEF ag
<1>6. Value(rel, w) = rel.b /\ IsConstraint(rel, stmt)
  BY <1>3, <1>4, <1>5, RelationHonest DEF Grounded, ConstraintsHold
<1>7. rel = [a |-> ag.a_agg, phi |-> ag.phi_agg, b |-> ag.b_agg]
  BY DEF AggregateRelation
<1>8. Add(quadratic(ag.a_agg, pr.g), Total([i \in Vectors |-> pr.h[<<i, i>>]])) = ag.b_agg
  <2> DEFINE a == ag.a_agg
             phi == ag.phi_agg
             b == ag.b_agg
  <2>1. LET x == [a |-> a, phi |-> phi, b |-> b] IN Value(x, w) = b /\ IsConstraint(x, stmt)
    BY <1>6, <1>7
  <2>2. pr.h = compute_h(phi, w, stmt.r)
    BY <1>2
  <2> HIDE DEF a, phi, b
  <2>3. Add(quadratic(a, pr.g), Total([i \in Vectors |-> pr.h[<<i, i>>]])) = b
    BY <1>2, <2>1, <2>2, RelationOfGarbage DEF Grounded
  <2> QED
    BY <2>3 DEF a, b
<1> QED
  BY <1>8 DEF RelationOf, ag

-----------------------------------------------------------------------------
\* Residues that differ by a multiple of q are equal.
LEMMA SameResidue ==
  ASSUME NEW a \in R, NEW b \in R, (a - b) % q = 0
  PROVE  a = b
<1> DEFINE m == Minus(b)
<1>1. m \in R /\ 0 \in R
  BY ResiduesClosed, ResidueFacts
<1>2. Plus(a, m) = 0
  BY DifferenceOfResidues
<1>3. Plus(b, m) = 0
  BY ResidueRing
<1> HIDE DEF m
<1>4. Plus(m, b) = 0
  BY <1>1, <1>3, ResidueRing
<1>5. Plus(Plus(a, m), b) = Plus(a, Plus(m, b))
  BY <1>1, ResidueRing
<1>6. Plus(0, b) = b /\ Plus(a, 0) = Plus(0, a) /\ Plus(0, a) = a
  BY <1>1, ResidueRing
<1> QED
  BY <1>2, <1>4, <1>5, <1>6

\* The constraints that are combined hold of the witness.
LEMMA CtsHold ==
  ASSUME DrawsAreResidues, Grounded, ConstraintsHold, NEW sd, NEW pr, HonestTo(5, sd, pr),
         IsProof(pr, WithAll(version), stmt, it)
  PROVE  LET cts == ConstTerms(sd, ProjectionOf(pr))
         IN  \A l \in DOMAIN cts : eval_const_term(cts[l], w) = 0
<1>1. stmt.n \in Nat /\ stmt.r \in Nat /\ AreCts(stmt.const_term, stmt)
  BY DEF Grounded, IsStatement, AreCts, IsSeq, R
<1>2. CASE version = "v1"
  BY <1>2 DEF ConstTerms, ConstraintsHold
<1>3. CASE version # "v1"
  <2> DEFINE jl == build_jl_constraints(Pi(sd), pr.p, Slots_w)
             given == stmt.const_term
  <2>1. Projected(sd, pr)
    BY DEF HonestTo
  <2>2. pr.p = project_combined(Pi(sd), w)
    BY <1>3, <2>1 DEF Projected
  <2>3. pr.p \in [Rows -> Int]
    <3>1. pr.p \in Message("p", stmt, it)
      BY <1>3 DEF IsProof, WithAll, WithLinear, WithSecond, WithProjection
    <3> QED
      BY <3>1, MessagesAre
  <2>4. ASSUME NEW j \in Rows
        PROVE  eval_const_term(jl[j], w) = 0
    <3>1. eval_const_term(jl[j], w) = (project_combined(Pi(sd), w)[j] - pr.p[j]) % q
      BY <2>3, RowIsProjection DEF Grounded
    <3> DEFINE e == pr.p[j]
    <3>2. e \in Int /\ e - e = 0
      BY <2>3
    <3>3. project_combined(Pi(sd), w)[j] = e
      BY <2>2
    <3> HIDE DEF e
    <3>4. eval_const_term(jl[j], w) = (e - e) % q
      BY <3>1, <3>3 DEF e
    <3>5. 0 % q = 0
      BY Modulo, ResidueFacts DEF R
    <3> QED
      BY <3>2, <3>4, <3>5
  <2>5. AreCts(jl, stmt) /\ DOMAIN jl = Rows
    BY <1>1, <2>3, JlConstraintsIn
  <2>6. ConstTerms(sd, ProjectionOf(pr)) = given \o jl
    BY <1>3 DEF ConstTerms, ProjectionOf
  <2>7. AreCts(given, stmt) /\ \A l \in DOMAIN given : eval_const_term(given[l], w) = 0
    BY <1>1 DEF ConstraintsHold
  <2> HIDE DEF jl, given
  <2>8. IsSeq(given) /\ IsSeq(jl)
    BY <2>5, <2>7 DEF AreCts
  <2>9. /\ IsSeq(given \o jl) /\ Len(given \o jl) = Len(given) + Len(jl)
        /\ \A k \in 1..(Len(given) + Len(jl)) :
             (given \o jl)[k] = IF k <= Len(given) THEN given[k] ELSE jl[k - Len(given)]
    BY <2>8, SeqJoined
  <2>10. /\ DOMAIN given = 1..Len(given) /\ DOMAIN jl = 1..Len(jl)
         /\ DOMAIN (given \o jl) = 1..(Len(given) + Len(jl))
         /\ Len(given) \in Nat /\ Len(jl) \in Nat
    BY <2>8, <2>9, SeqIs
  <2>11. ASSUME NEW l \in 1..(Len(given) + Len(jl))
         PROVE  eval_const_term((given \o jl)[l], w) = 0
    <3>1. CASE l <= Len(given)
      <4>1. l \in DOMAIN given /\ (given \o jl)[l] = given[l]
        BY <2>9, <2>10, <3>1
      <4> QED
        BY <2>7, <4>1
    <3>2. CASE ~(l <= Len(given))
      <4>1. l - Len(given) \in DOMAIN jl /\ (given \o jl)[l] = jl[l - Len(given)]
        BY <2>9, <2>10, <3>2
      <4>2. \A j \in DOMAIN jl : eval_const_term(jl[j], w) = 0
        BY <2>4, <2>5
      <4> QED
        BY <4>1, <4>2
    <3> QED
      BY <3>1, <3>2
  <2> QED
    BY <2>6, <2>10, <2>11
<1> QED
  BY <1>2, <1>3

LEMMA NoExcess ==
  ASSUME NEW u, NEW cts, IsFiniteSet(DOMAIN cts), \A l \in DOMAIN cts : eval_const_term(cts[l], u) = 0,
         NEW psis, \A l \in DOMAIN cts : psis[l] \in R
  PROVE  FoldFunction(+, 0, Excesses(psis, cts, u)) % q = 0
<1> DEFINE S == DOMAIN cts
           f == Excesses(psis, cts, u)
<1>1. \A l \in S : psis[l] * eval_const_term(cts[l], u) = 0
  <2> SUFFICES ASSUME NEW l \in S PROVE psis[l] * eval_const_term(cts[l], u) = 0
    OBVIOUS
  <2>1. psis[l] \in Int /\ eval_const_term(cts[l], u) = 0
    BY ResiduesClosed
  <2> QED
    BY <2>1
<1>2. f = [l \in S |-> 0]
  BY <1>1 DEF Excesses
<1> HIDE DEF f, S
<1>3. IsFiniteSet(S)
  BY DEF S
<1>4. IsFamily(f, S, Int)
  BY <1>2, <1>3 DEF IsFamily
<1>5. FoldFunction(+, 0, f) = SumZ(f)
  BY <1>4, FoldZIs DEF FoldZ
<1>6. SumZ(f) = 0
  BY <1>2, <1>3, Ints, SumOfUnits DEF SumZ
<1>7. 0 % q = 0
  BY Modulo, ResidueFacts DEF R
<1> QED
  BY <1>5, <1>6, <1>7 DEF f

LEMMA ConstTermsPass ==
  ASSUME DrawsAreResidues, Grounded, ConstraintsHold, NEW sd, NEW pr, HonestTo(5, sd, pr),
         IsProof(pr, WithAll(version), stmt, it)
  PROVE  ConstTermsOf(sd, pr)
<1> DEFINE cts == ConstTerms(sd, ProjectionOf(pr))
<1>0. stmt.n \in Nat /\ stmt.r \in Nat
  BY DEF Grounded, IsStatement
<1>1. \A l \in DOMAIN cts : eval_const_term(cts[l], w) = 0
  BY CtsHold
<1>2. /\ AreCts(cts, stmt) /\ AreConstraints(cts, stmt)
      /\ \A k \in 1..K_PP : PpsOf(sd, pr)[k] = aggregate_const_term(cts, Psis(sd, cts)[k])
      /\ pr.bpp \in [1..K_PP -> Elems]
  BY HonestShapes
<1> HIDE DEF cts
<1>3. ASSUME NEW k \in 1..K_PP
      PROVE  pr.bpp[k][0] = ExpectedConstTerm(cts, Psis(sd, cts)[k])
  <2> DEFINE psis == Psis(sd, cts)[k]
             a == pr.bpp[k][0]
             b == ExpectedConstTerm(cts, psis)
  <2>1. DOMAIN psis = DOMAIN cts /\ \A l \in DOMAIN cts : psis[l] \in R
    BY PsisIn
  <2>2. pr.bpp[k] = Value(aggregate_const_term(cts, psis), w)
    BY <1>2, BppIsValue
  <2>3. a \in R
    BY <1>2, ElemFacts
  <2> HIDE DEF psis
  <2>4. (Value(aggregate_const_term(cts, psis), w)[0] - b) % q
          = FoldFunction(+, 0, Excesses(psis, cts, w)) % q
    BY <1>0, <1>2, <2>1, ConstTermCombines DEF Grounded
  <2>5. IsFiniteSet(DOMAIN cts)
    BY <1>2, SeqIs DEF AreCts
  <2>6. FoldFunction(+, 0, Excesses(psis, cts, w)) % q = 0
    BY <1>1, <2>1, <2>5, NoExcess
  <2>7. (a - b) % q = 0
    BY <2>2, <2>4, <2>6
  <2>8. b \in R
    <3>1. \A l \in DOMAIN cts : RightTerms(psis, cts)[l] \in Int
      <4> SUFFICES ASSUME NEW l \in DOMAIN cts PROVE psis[l] * cts[l].b0 \in Int
        BY DEF RightTerms
      <4>1. psis[l] \in Int /\ cts[l].b0 \in Int
        BY <1>2, <2>1, ResiduesClosed DEF AreCts
      <4> QED
        BY <4>1, IntRules
    <3>2. IsFamily(RightTerms(psis, cts), DOMAIN cts, Int)
      BY <2>5, <3>1 DEF IsFamily, RightTerms
    <3>3. SumZ(RightTerms(psis, cts)) \in Int /\ FoldZ(RightTerms(psis, cts)) = SumZ(RightTerms(psis, cts))
      BY <3>2, FoldZIs
    <3>4. b = FoldZ(RightTerms(psis, cts)) % q
      BY DEF b, ExpectedConstTerm, FoldZ, RightTerms
    <3> QED
      BY <3>3, <3>4, Modulo DEF R
  <2> HIDE DEF a, b
  <2>9. a = b
    BY <2>3, <2>7, <2>8, SameResidue
  <2> QED
    BY <2>9 DEF a, b, psis
<1> QED
  BY <1>3 DEF ConstTermsOf, cts

-----------------------------------------------------------------------------
LEMMA InvGrounds ==
  ASSUME IterationInv
  PROVE  Grounded
BY ItIn DEF IterationInv, Typed, Grounded

\* What arrives unchanged is what an honest prover sent.
LEMMA ArrivedHonest ==
  ASSUME HonestInv, Unchanged, Delivered
  PROVE  HonestTo(5, seeds, proof) /\ IsProof(proof, WithAll(version), stmt, it)
<1>1. PICK sd, pr, seed : SentAs(sd, pr, seed)
  BY DEF HonestInv
<1>2. HonestTo(5, sd, pr) /\ IsProof(pr, WithAll(version), stmt, it)
  BY <1>1 DEF SentAs
<1>3. proof = pr
  BY <1>1 DEF SentAs, Changed, Unchanged
<1>4. Absorbed("none") = {}
  BY DEF Absorbed
<1>5. seeds = [round \in DOMAIN sd |-> sd[round]]
  BY <1>1, <1>4 DEF SentAs, Redrawn, Unchanged
<1>6. Extends(seeds, sd) /\ Extends(proof, pr)
  BY <1>3, <1>5 DEF Extends
<1>7. 5 \in 0..5
  OBVIOUS
<1>8. HonestTo(5, seeds, proof)
  BY <1>2, <1>6, <1>7, HonestOn
<1> QED
  BY <1>2, <1>3, <1>8

LEMMA ZIsWhole_z == z = Whole_z(proof)
BY DEF z, Whole_z

\* The verifier's checks, of what arrived.
LEMMA ChecksAre ==
  ASSUME agg = replay(seeds, proof)
  PROVE  /\ InnerCommitmentOpens <=> InnerOf(seeds, proof)
         /\ QuadraticOpens <=> QuadraticOf(seeds, proof)
         /\ LinearOpens <=> LinearOf(seeds, proof)
         /\ RelationHolds <=> RelationOf(seeds, proof)
         /\ ConstTermsMatch <=> ConstTermsOf(seeds, proof)
<1>1. \A g : CombinedGarbage(g) = GarbageSum(cs, g)
  BY DEF CombinedGarbage, GarbageSum, AllGarbage, Sorted, Vectors
<1>2. InnerCommitmentOpens <=> InnerOf(seeds, proof)
  BY ZIsWhole_z DEF InnerCommitmentOpens, InnerOf, cs
<1>3. QuadraticOpens <=> QuadraticOf(seeds, proof)
  BY <1>1, ZIsWhole_z DEF QuadraticOpens, QuadraticOf, cs
<1>4. LinearOpens <=> LinearOf(seeds, proof)
  BY <1>1, ZIsWhole_z DEF LinearOpens, LinearOf, cs
<1>5. RelationHolds <=> RelationOf(seeds, proof)
  BY DEF RelationHolds, RelationOf
<1>6. ConstTermsMatch <=> ConstTermsOf(seeds, proof)
  BY DEF ConstTermsMatch, ConstTermsOf, ProjectionOf
<1> QED
  BY <1>2, <1>3, <1>4, <1>5, <1>6

\* All but the bounds on norms.
EquationsPass ==
  /\ InnerCommitmentOpens /\ QuadraticOpens /\ LinearOpens /\ RelationHolds /\ ConstTermsMatch
  /\ version = "v2" => OpensU1 /\ OpensU2

LEMMA EquationsInState ==
  ASSUME HonestInv, DrawsAreResidues, Unchanged, Delivered, ConstraintsHold
  PROVE  EquationsPass
<1>1. HonestTo(5, seeds, proof) /\ IsProof(proof, WithAll(version), stmt, it)
  BY ArrivedHonest
<1>2. Grounded /\ agg = replay(seeds, proof)
  BY InvGrounds DEF HonestInv, IterationInv
<1>3. InnerOf(seeds, proof)
  BY <1>1, <1>2, InnerPasses
<1>4. QuadraticOf(seeds, proof)
  BY <1>1, <1>2, QuadraticPasses
<1>5. LinearOf(seeds, proof)
  BY <1>1, <1>2, LinearPasses
<1>6. RelationOf(seeds, proof)
  BY <1>1, <1>2, RelationPasses
<1>7. ConstTermsOf(seeds, proof)
  BY <1>1, <1>2, ConstTermsPass
<1>8. version = "v2" => OpensU1 /\ OpensU2
  BY <1>1 DEF HonestTo, Committed, Linearized, OpensU1, OpensU2
<1> QED
  BY <1>2, <1>3, <1>4, <1>5, <1>6, <1>7, <1>8, ChecksAre DEF EquationsPass

\* The folded statement is true of the folded witness, given its norm.
LEMMA FoldSatisfied ==
  ASSUME HonestInv, DrawsAreResidues, Unchanged, pc = "folded", ConstraintsHold,
         OpeningsNorm <= stmt.beta_sq
  PROVE  satisfies(folded.stmt, folded.w)
<1> DEFINE full == folded.stmt.full
           x == it.kappa
           y == it.kappa + 3 + it.kappa1
           Holds(ks) == \A k \in ks : eval_full(full[k], folded.w) = Zero
<1>1. IterationInv /\ Delivered /\ Grounded
  BY InvGrounds DEF HonestInv, Delivered
<1>2. EquationsPass /\ version = "v2" /\ folded = ToFold
  BY <1>1, EquationsInState DEF IterationInv, Typed
<1>3. /\ Holds(1..x) /\ Holds({x + 1}) /\ Holds({x + 2}) /\ Holds({x + 3})
      /\ Holds((x + 4)..y) /\ Holds((y + 1)..Len(full))
      /\ WitnessNorm(folded.w) = OpeningsNorm
  <2>1. FoldMeansChecks
    BY <1>1, FoldMeansInState
  <2> QED
    BY <1>2, <2>1 DEF FoldMeansChecks, EquationsPass
<1>4. x \in Nat /\ y \in Nat
  BY <1>1, ParametersAre DEF Grounded
<1>5. IsStatement(folded.stmt)
  BY <1>1, FoldedTypes
<1>6. DOMAIN full = 1..Len(full) /\ Len(full) \in Nat
  BY <1>5, SeqIs DEF IsStatement, IsSeq
<1>7. ASSUME NEW k \in DOMAIN full
      PROVE  eval_full(full[k], folded.w) = Zero
  <2> HIDE DEF full
  <2>1. k \in Int /\ k >= 1 /\ k <= Len(full) /\ x \in Int
    BY <1>4, <1>6, <1>7
  <2>2. \/ k \in 1..x \/ k \in {x + 1} \/ k \in {x + 2} \/ k \in {x + 3}
        \/ k \in (x + 4)..y \/ k \in (y + 1)..Len(full)
    <3> HIDE DEF x, y
    <3> QED
      BY <1>4, <1>6, <2>1
  <2> QED
    BY <1>3, <2>2
<1>8. folded.stmt.const_term = << >> /\ folded.stmt.beta_sq = stmt.beta_sq
  BY <1>2 DEF ToFold, fold_statement
<1> QED
  BY <1>3, <1>7, <1>8 DEF satisfies

-----------------------------------------------------------------------------
(* The verdict.                                                            *)

\* What the checks are about stays, and so do they.
Settled == UNCHANGED <<version, chain, stmt, w, seeds, proof, agg>>

JlSquares == [j \in Rows |-> Square(proof.p[j])]
LEMMA JlBoundIs == WithinJlBound = (FoldZ(JlSquares) <= 128 * stmt.beta_sq)
BY DEF WithinJlBound, FoldZ, JlSquares

LEMMA ChecksStay ==
  ASSUME Settled
  PROVE  /\ OpensU1' = OpensU1 /\ OpensU2' = OpensU2
         /\ InnerCommitmentOpens' = InnerCommitmentOpens /\ QuadraticOpens' = QuadraticOpens
         /\ LinearOpens' = LinearOpens /\ RelationHolds' = RelationHolds
         /\ ConstTermsMatch' = ConstTermsMatch /\ WithinJlBound' = WithinJlBound
         /\ WithinNorm' = WithinNorm
<1>1. /\ version' = version /\ stmt' = stmt /\ w' = w /\ seeds' = seeds /\ proof' = proof
      /\ agg' = agg /\ it' = it
  BY DEF Settled, it
<1>2. SourceShape' = SourceShape /\ OuterRows' = OuterRows /\ Vectors' = Vectors /\ Slots_w' = Slots_w
  BY <1>1 DEF SourceShape, OuterRows, Vectors, Slots_w
<1>3. u_1(seeds, proof, 0)' = u_1(seeds, proof, 0) /\ u_2(seeds, proof)' = u_2(seeds, proof)
  BY <1>1, <1>2 DEF u_1, u_2, outer_commit_v, outer_commit_sym, OuterCommit, AddRows
<1>4. OpensU1' = OpensU1 /\ OpensU2' = OpensU2
  BY <1>1, <1>3 DEF OpensU1, OpensU2
<1>5. z' = z /\ cs' = cs
  BY <1>1, <1>2 DEF z, cs, Challenge, Residue
<1>6. InnerCommitmentOpens' = InnerCommitmentOpens
  <2>1. matmul(seeds, z)' = matmul(seeds, z)
    BY <1>1, <1>5 DEF matmul
  <2> QED
    BY <1>1, <1>2, <1>5, <2>1 DEF InnerCommitmentOpens
<1>7. CombinedGarbage(proof.g)' = CombinedGarbage(proof.g) /\ CombinedGarbage(proof.h)' = CombinedGarbage(proof.h)
  BY <1>1, <1>2, <1>5 DEF CombinedGarbage
<1>8. QuadraticOpens' = QuadraticOpens
  BY <1>1, <1>5, <1>7 DEF QuadraticOpens
<1>9. LinearOpens' = LinearOpens
  BY <1>1, <1>2, <1>5, <1>7 DEF LinearOpens
<1>10. RelationHolds' = RelationHolds
  BY <1>1, <1>2 DEF RelationHolds
<1>11. ConstTermsMatch' = ConstTermsMatch
  <2>1. \A x : ConstTerms(seeds, x)' = ConstTerms(seeds, x)
    BY <1>1, <1>2 DEF ConstTerms, Pi
  <2>2. \A x : Psis(seeds, x)' = Psis(seeds, x)
    BY <1>1 DEF Psis, Residue
  <2> QED
    BY <1>1, <2>1, <2>2 DEF ConstTermsMatch
<1>12. WithinJlBound' = WithinJlBound
  <2>1. JlSquares' = JlSquares
    BY <1>1 DEF JlSquares
  <2>2. (WithinJlBound = (FoldZ(JlSquares) <= 128 * stmt.beta_sq))'
    BY JlBoundIs, PTL
  <2> QED
    BY <1>1, <2>1, <2>2, JlBoundIs
<1>13. WithinNorm' = WithinNorm
  <2>1. OpeningsNorm' = OpeningsNorm
    BY <1>1, <1>2 DEF OpeningsNorm
  <2> QED
    BY <1>1, <1>5, <2>1 DEF WithinNorm
<1> QED
  BY <1>4, <1>6, <1>8, <1>9, <1>10, <1>11, <1>12, <1>13

Decision == IF version = "v1" THEN verify ELSE verify_v2
LEMMA DecisionStays ==
  ASSUME Settled
  PROVE  Decision' = Decision
<1>1. version' = version
  BY DEF Settled
<1>2. /\ OpensU1' = OpensU1 /\ OpensU2' = OpensU2 /\ FourChecks' = FourChecks
      /\ ConstTermsMatch' = ConstTermsMatch /\ WithinJlBound' = WithinJlBound
  BY ChecksStay DEF FourChecks
<1>3. verify' = verify
  BY <1>2 DEF verify
<1>4. verify_v2' = verify_v2
  BY <1>2 DEF verify_v2
<1> QED
  BY <1>1, <1>3, <1>4 DEF Decision

\* The whole invariant.
FinalInv == HonestInv /\ (pc = "done" => verdict = Decision)
LEMMA FinalInit == Init => FinalInv
BY HonestInit DEF FinalInv, Init

LEMMA FinalNext ==
  ASSUME FinalInv, DrawsAreResidues, [Next]_vars
  PROVE  FinalInv'
<1>1. HonestInv'
  BY HonestNext DEF FinalInv
<1>2. ASSUME pc' = "done" PROVE verdict' = Decision'
  <2>1. CASE Verify
    <3>1. verdict' = Decision /\ Settled
      BY <2>1 DEF Verify, Decision, Settled
    <3> QED
      BY <3>1, DecisionStays
  <2>2. CASE UNCHANGED vars
    <3>1. verdict' = verdict /\ pc = "done" /\ Settled
      BY <1>2, <2>2 DEF vars, Settled
    <3> QED
      BY <3>1, DecisionStays DEF FinalInv
  <2>3. CASE Next /\ ~Verify
    BY <1>2, <2>3 DEF Next, Commit_v1, Commit, Project, Constrain, Linearize, Amortize, Deliver, Fold, Recurse
  <2> QED
    BY <2>1, <2>2, <2>3
<1> QED
  BY <1>1, <1>2 DEF FinalInv

-----------------------------------------------------------------------------
\* Of a few checks, one that fails is the first.
LEMMA FirstOfFew ==
  ASSUME NEW S \in SUBSET (1..9), S # {}
  PROVE  \E k \in S : \A j \in S : k <= j
<1>1. \A j \in S : j \in Int /\ j >= 1 /\ j <= 9
  OBVIOUS
<1>2. \A j \in S : j = 1 \/ j = 2 \/ j = 3 \/ j = 4 \/ j = 5 \/ j = 6 \/ j = 7 \/ j = 8 \/ j = 9
  BY <1>1
<1>3. CASE 1 \in S
  BY <1>1, <1>3
<1>4. CASE 1 \notin S /\ 2 \in S
  BY <1>2, <1>4
<1>5. CASE 1 \notin S /\ 2 \notin S /\ 3 \in S
  BY <1>2, <1>5
<1>6. CASE 1 \notin S /\ 2 \notin S /\ 3 \notin S /\ 4 \in S
  BY <1>2, <1>6
<1>7. CASE 1 \notin S /\ 2 \notin S /\ 3 \notin S /\ 4 \notin S /\ 5 \in S
  BY <1>2, <1>7
<1>8. CASE 1 \notin S /\ 2 \notin S /\ 3 \notin S /\ 4 \notin S /\ 5 \notin S /\ 6 \in S
  BY <1>2, <1>8
<1>9. CASE \A j \in S : j \in {7, 8, 9}
  <2>1. CASE 7 \in S
    BY <1>9, <2>1
  <2>2. CASE 7 \notin S /\ 8 \in S
    BY <1>9, <2>2
  <2>3. CASE 7 \notin S /\ 8 \notin S
    <3>1. PICK j \in S : TRUE
      OBVIOUS
    <3>2. \A k \in S : k = 9
      BY <1>9, <2>3
    <3> QED
      BY <3>1, <3>2
  <2> QED
    BY <2>1, <2>2, <2>3
<1> QED
  BY <1>2, <1>3, <1>4, <1>5, <1>6, <1>7, <1>8, <1>9

AreChecks(checks, n) ==
  DOMAIN checks = 1..n /\ n \in 0..9 /\ \A k \in 1..n : checks[k][1] # "ok"

LEMMA NoneFails ==
  ASSUME NEW checks, NEW n, AreChecks(checks, n)
  PROVE  FirstFailing(checks) = "ok" <=> \A k \in 1..n : checks[k][2]
<1> DEFINE failing == {k \in DOMAIN checks : ~checks[k][2]}
<1>1. FirstFailing(checks) = IF failing = {} THEN "ok"
                             ELSE checks[CHOOSE k \in failing : \A j \in failing : k <= j][1]
  BY DEF FirstFailing
<1>2. failing \in SUBSET (1..9) /\ \A k \in failing : k \in 1..n
  BY DEF AreChecks
<1>3. failing = {} <=> \A k \in 1..n : checks[k][2]
  BY DEF AreChecks
<1> HIDE DEF failing
<1>4. CASE failing = {}
  BY <1>1, <1>3, <1>4
<1>5. CASE failing # {}
  <2> DEFINE least == CHOOSE k \in failing : \A j \in failing : k <= j
  <2>1. \E k \in failing : \A j \in failing : k <= j
    BY <1>2, <1>5, FirstOfFew
  <2>2. least \in failing
    BY <2>1
  <2>3. checks[least][1] # "ok"
    BY <1>2, <2>2 DEF AreChecks
  <2> QED
    BY <1>1, <1>3, <1>5, <2>3
<1> QED
  BY <1>4, <1>5

FiveHold == InnerCommitmentOpens /\ QuadraticOpens /\ LinearOpens /\ RelationHolds /\ WithinNorm

LEMMA FiveChecks ==
  /\ AreChecks(FourChecks, 5) /\ Len(FourChecks) = 5 /\ IsSeq(FourChecks)
  /\ (\A k \in 1..5 : FourChecks[k][2]) <=> FiveHold
<1>1. /\ FourChecks[1] = <<"InnerCommitmentOpening", InnerCommitmentOpens>>
      /\ FourChecks[2] = <<"QuadraticOpening", QuadraticOpens>>
      /\ FourChecks[3] = <<"LinearOpening", LinearOpens>>
      /\ FourChecks[4] = <<"AggregatedRelation", RelationHolds>>
      /\ FourChecks[5] = <<"NormBound", WithinNorm>>
      /\ DOMAIN FourChecks = 1..5 /\ Len(FourChecks) = 5
  BY DEF FourChecks
<1>2. FourChecks \in Seq(Range(FourChecks))
  <2>1. \A k \in 1..5 : FourChecks[k] \in Range(FourChecks)
    BY <1>1 DEF Range
  <2>2. \A S : (\A k \in 1..5 : FourChecks[k] \in S) => FourChecks \in Seq(S)
    <3> SUFFICES ASSUME NEW S, \A k \in 1..5 : FourChecks[k] \in S PROVE FourChecks \in Seq(S)
      OBVIOUS
    <3>1. /\ FourChecks[1] \in S /\ FourChecks[2] \in S /\ FourChecks[3] \in S
          /\ FourChecks[4] \in S /\ FourChecks[5] \in S
      OBVIOUS
    <3> QED
      BY <1>1, <3>1 DEF FourChecks
  <2> QED
    BY <2>1, <2>2
<1>3. \A k \in 1..5 : k = 1 \/ k = 2 \/ k = 3 \/ k = 4 \/ k = 5
  OBVIOUS
<1>4. \A k \in 1..5 : FourChecks[k][1] # "ok"
  <2>1. FourChecks[1][1] # "ok" /\ FourChecks[2][1] # "ok" /\ FourChecks[3][1] # "ok"
        /\ FourChecks[4][1] # "ok" /\ FourChecks[5][1] # "ok"
    BY <1>1
  <2> QED
    BY <1>3, <2>1
<1>5. (\A k \in 1..5 : FourChecks[k][2]) <=> FiveHold
  <2>1. /\ FourChecks[1][2] = InnerCommitmentOpens /\ FourChecks[2][2] = QuadraticOpens
        /\ FourChecks[3][2] = LinearOpens /\ FourChecks[4][2] = RelationHolds
        /\ FourChecks[5][2] = WithinNorm
    BY <1>1
  <2>2. (\A k \in 1..5 : FourChecks[k][2])
          <=> FourChecks[1][2] /\ FourChecks[2][2] /\ FourChecks[3][2] /\ FourChecks[4][2] /\ FourChecks[5][2]
    BY <1>3
  <2> QED
    BY <2>1, <2>2 DEF FiveHold
<1> QED
  BY <1>1, <1>2, <1>4, <1>5 DEF AreChecks, IsSeq

-----------------------------------------------------------------------------
CheckList(checks, n) == AreChecks(checks, n) /\ IsSeq(checks) /\ Len(checks) = n
\* A few checks and the five that every version ends with.
LEMMA WithFive ==
  ASSUME NEW first, NEW n, CheckList(first, n), n <= 4
  PROVE  FirstFailing(first \o FourChecks) = "ok" <=> (\A k \in 1..n : first[k][2]) /\ FiveHold
<1> DEFINE all == first \o FourChecks
<1>a. IsSeq(first) /\ IsSeq(FourChecks)
  BY FiveChecks DEF CheckList
<1>b. /\ IsSeq(all) /\ Len(all) = Len(first) + Len(FourChecks)
      /\ \A k \in 1..(Len(first) + Len(FourChecks)) :
           all[k] = IF k <= Len(first) THEN first[k] ELSE FourChecks[k - Len(first)]
  BY <1>a, SeqJoined
<1>0. /\ n \in Nat /\ DOMAIN first = 1..n /\ \A k \in 1..n : first[k][1] # "ok"
      /\ Len(first) = n
  BY DEF AreChecks, CheckList
<1>1. /\ IsSeq(FourChecks) /\ Len(FourChecks) = 5 /\ \A k \in 1..5 : FourChecks[k][1] # "ok"
      /\ (\A k \in 1..5 : FourChecks[k][2]) <=> FiveHold
  BY FiveChecks DEF AreChecks
<1>2. /\ IsSeq(all) /\ Len(all) = n + 5
      /\ \A k \in 1..(n + 5) : all[k] = IF k <= n THEN first[k] ELSE FourChecks[k - n]
  <2> HIDE DEF all
  <2> QED
    BY <1>b, <1>0, <1>1
<1>3. DOMAIN all = 1..(n + 5)
  BY <1>2, SeqIs
<1> HIDE DEF all
<1>4. \A k \in 1..n : k \in 1..(n + 5) /\ all[k] = first[k]
  BY <1>0, <1>2
<1>5. \A k \in 1..5 : n + k \in 1..(n + 5) /\ all[n + k] = FourChecks[k]
  <2> SUFFICES ASSUME NEW k \in 1..5 PROVE n + k \in 1..(n + 5) /\ all[n + k] = FourChecks[k]
    OBVIOUS
  <2>1. n + k \in 1..(n + 5) /\ ~(n + k <= n) /\ (n + k) - n = k
    BY <1>0
  <2> QED
    BY <1>2, <2>1
<1>6. \A k \in 1..(n + 5) : k \in 1..n \/ \E j \in 1..5 : k = n + j
  <2> SUFFICES ASSUME NEW k \in 1..(n + 5), k \notin 1..n PROVE \E j \in 1..5 : k = n + j
    OBVIOUS
  <2>1. k - n \in 1..5 /\ k = n + (k - n)
    BY <1>0
  <2> QED
    BY <2>1
<1>7. \A k \in 1..(n + 5) : all[k][1] # "ok"
  BY <1>0, <1>1, <1>4, <1>5, <1>6
<1>8. AreChecks(all, n + 5)
  BY <1>0, <1>3, <1>7 DEF AreChecks
<1>9. FirstFailing(all) = "ok" <=> \A k \in 1..(n + 5) : all[k][2]
  BY <1>8, NoneFails
<1>10. (\A k \in 1..(n + 5) : all[k][2]) <=> (\A k \in 1..n : first[k][2]) /\ \A k \in 1..5 : FourChecks[k][2]
  BY <1>4, <1>5, <1>6
<1> QED
  BY <1>1, <1>9, <1>10 DEF all

LEMMA VerifyIsOk == verify = "ok" <=> ConstTermsMatch /\ FiveHold
<1> DEFINE first == <<<<"ConstTermMismatch", ConstTermsMatch>>>>
<1>1. /\ DOMAIN first = 1..1 /\ Len(first) = 1 /\ first[1][1] # "ok" /\ first[1][2] = ConstTermsMatch
      /\ first \in Seq({first[1]}) /\ first[1] \in Range(first)
  BY DEF Range
<1>2. verify = FirstFailing(first \o FourChecks)
  BY DEF verify
<1>3. \A S : first[1] \in S => first \in Seq(S)
  OBVIOUS
<1> HIDE DEF first
<1>4. IsSeq(first)
  BY <1>1, <1>3 DEF IsSeq
<1>5. \A k \in 1..1 : k = 1
  OBVIOUS
<1>6. CheckList(first, 1) /\ 1 <= 4
  BY <1>1, <1>4, <1>5 DEF AreChecks, CheckList
<1>7. FirstFailing(first \o FourChecks) = "ok" <=> (\A k \in 1..1 : first[k][2]) /\ FiveHold
  BY <1>6, WithFive
<1>8. (\A k \in 1..1 : first[k][2]) <=> ConstTermsMatch
  BY <1>1, <1>5
<1> QED
  BY <1>2, <1>7, <1>8

LEMMA FourOfThem ==
  ASSUME NEW a, NEW b, NEW c, NEW d, a[1] # "ok", b[1] # "ok", c[1] # "ok", d[1] # "ok"
  PROVE  LET f == <<a, b, c, d>>
         IN  /\ CheckList(f, 4)
             /\ (\A k \in 1..4 : f[k][2]) <=> a[2] /\ b[2] /\ c[2] /\ d[2]
<1> DEFINE f == <<a, b, c, d>>
<1>1. DOMAIN f = 1..4 /\ Len(f) = 4 /\ f[1] = a /\ f[2] = b /\ f[3] = c /\ f[4] = d
  OBVIOUS
<1>2. \A S : a \in S /\ b \in S /\ c \in S /\ d \in S => f \in Seq(S)
  OBVIOUS
<1> HIDE DEF f
<1>3. a \in Range(f) /\ b \in Range(f) /\ c \in Range(f) /\ d \in Range(f)
  BY <1>1 DEF Range
<1>4. \A k \in 1..4 : k = 1 \/ k = 2 \/ k = 3 \/ k = 4
  OBVIOUS
<1>5. \A k \in 1..4 : f[k][1] # "ok"
  BY <1>1, <1>4
<1>6. CheckList(f, 4)
  BY <1>1, <1>2, <1>3, <1>5 DEF CheckList, AreChecks, IsSeq
<1>7. (\A k \in 1..4 : f[k][2]) <=> f[1][2] /\ f[2][2] /\ f[3][2] /\ f[4][2]
  BY <1>4
<1> QED
  BY <1>1, <1>6, <1>7 DEF f

LEMMA VerifyV2IsOk ==
  verify_v2 = "ok" <=> OpensU1 /\ WithinJlBound /\ ConstTermsMatch /\ OpensU2 /\ FiveHold
<1> DEFINE x1 == <<"OuterCommitment u_1", OpensU1>>
           x2 == <<"JlBound", WithinJlBound>>
           x3 == <<"ConstTermMismatch", ConstTermsMatch>>
           x4 == <<"OuterCommitment u_2", OpensU2>>
           first == <<x1, x2, x3, x4>>
<1>1. x1[1] # "ok" /\ x2[1] # "ok" /\ x3[1] # "ok" /\ x4[1] # "ok"
  OBVIOUS
<1>2. verify_v2 = FirstFailing(first \o FourChecks)
  BY DEF verify_v2
<1>3. x1[2] = OpensU1 /\ x2[2] = WithinJlBound /\ x3[2] = ConstTermsMatch /\ x4[2] = OpensU2
  OBVIOUS
<1> HIDE DEF x1, x2, x3, x4
<1>4. CheckList(first, 4) /\ ((\A k \in 1..4 : first[k][2]) <=> x1[2] /\ x2[2] /\ x3[2] /\ x4[2])
  BY <1>1, FourOfThem
<1> HIDE DEF first
<1>5. 4 <= 4
  OBVIOUS
<1>6. FirstFailing(first \o FourChecks) = "ok" <=> (\A k \in 1..4 : first[k][2]) /\ FiveHold
  BY <1>4, <1>5, WithFive
<1>7. (\A k \in 1..4 : first[k][2]) <=> OpensU1 /\ WithinJlBound /\ ConstTermsMatch /\ OpensU2
  BY <1>3, <1>4
<1> QED
  BY <1>2, <1>6, <1>7

\* The norms of what is sent keep their bounds: whether they do depends on the
\* parameters, and on the projection drawn.
NormsFit ==
  /\ pc = "folded" => OpeningsNorm <= stmt.beta_sq
  /\ pc = "done" => WithinNorm /\ (version = "v2" => WithinJlBound)

LEMMA HonestInState ==
  ASSUME FinalInv, DrawsAreResidues, NormsFit
  PROVE  HonestPasses
<1> SUFFICES ASSUME Unchanged, pc \in {"folded", "done"}, satisfies(stmt, w)
             PROVE  /\ pc = "folded" => satisfies(folded.stmt, folded.w)
                    /\ pc = "done" => verdict = "ok"
  BY DEF HonestPasses
<1>1. HonestInv /\ Delivered /\ ConstraintsHold
  BY DEF FinalInv, Delivered, satisfies, ConstraintsHold
<1>2. CASE pc = "folded"
  BY <1>1, <1>2, FoldSatisfied DEF NormsFit
<1>3. CASE pc = "done"
  <2>1. EquationsPass
    BY <1>1, EquationsInState
  <2>2. WithinNorm /\ (version = "v2" => WithinJlBound) /\ verdict = Decision
    BY <1>3 DEF NormsFit, FinalInv
  <2>3. FiveHold
    BY <2>1, <2>2 DEF EquationsPass, FiveHold
  <2>4. version \in {"v1", "v2"}
    BY <1>1 DEF HonestInv, IterationInv, Typed
  <2> QED
    BY <1>3, <2>1, <2>2, <2>3, <2>4, VerifyIsOk, VerifyV2IsOk DEF EquationsPass, Decision
<1> QED
  BY <1>2, <1>3

\* Whatever is drawn, what arrives is what an honest prover sends of the draws,
\* in one element perhaps changed, and the verdict is what the checks of the
\* version decide (prover_v2.rs, verifier_v2.rs, verifier.rs).
THEOREM FinalInvariance == ASSUME DrawsAreResidues PROVE Spec => []FinalInv
<1>1. FinalInv /\ [Next]_vars => FinalInv'
  BY FinalNext
<1> QED
  BY <1>1, FinalInit, PTL DEF Spec

\* Iteration.HonestPasses, for every instance: of a true statement an unchanged
\* proof is accepted and folds to a true statement, as far as the norms of what
\* was sent keep their bounds: no equation that verify, verify_v2 or fold
\* checks depends on a draw (tests/fold_v2.rs, tests/recursion_v2.rs).
THEOREM HonestIsAccepted ==
  ASSUME DrawsAreResidues PROVE Spec => [](NormsFit => HonestPasses)
<1>1. FinalInv => (NormsFit => HonestPasses)
  BY HonestInState
<1> QED
  BY <1>1, FinalInvariance, PTL

-----------------------------------------------------------------------------
(* Elements with one coefficient, as the challenges are.                   *)

IsMonomial(x, m) == x \in Elems /\ m \in Coeffs /\ \A k \in Coeffs \ {m} : x[k] = 0
IsUnit(a) == a \in R /\ \E b \in R : Times(b, a) = 1

LEMMA MulByMonomial ==
  ASSUME NEW x, NEW m, IsMonomial(x, m), NEW y \in Elems
  PROVE  \A k \in Coeffs : Mul(x, y)[k] = Sg(k, m, Times(x[m], y[Ix(k, m)]))
<1>1. x \in Elems /\ m \in Coeffs /\ \A k \in Coeffs \ {m} : x[k] = 0
  BY DEF IsMonomial
<1>2. ASSUME NEW k \in Coeffs PROVE SumQ(MulTerms(x, y, k)) = Sg(k, m, Times(x[m], y[Ix(k, m)]))
  <2> DEFINE f == MulTerms(x, y, k)
  <2>1. f \in [Coeffs -> R] /\ IsFiniteSet(Coeffs) /\ {m} \in SUBSET Coeffs
    BY <1>1, TermsOf DEF IsFamily
  <2>2. ASSUME NEW i \in Coeffs \ {m} PROVE f[i] = 0
    <3>1. y[Ix(k, i)] \in R /\ f[i] = Sg(k, i, Times(x[i], y[Ix(k, i)])) /\ x[i] = 0
      BY <1>1, TermsOf
    <3>2. Times(0, y[Ix(k, i)]) = 0 /\ Minus(0) = 0
      BY <3>1, ResidueRing
    <3> QED
      BY <3>1, <3>2 DEF Sg
  <2>3. f[m] = Sg(k, m, Times(x[m], y[Ix(k, m)]))
    BY <1>1, TermsOf
  <2> HIDE DEF f
  <2>4. SumOf(AddQ, 0, f) = SumOf(AddQ, 0, Part(f, {m}))
    BY <2>1, <2>2, ResidueSums, SumOutside
  <2>5. f[m] \in R
    BY <1>1, <2>1
  <2>6. SumOf(AddQ, 0, Part(f, {m})) = f[m]
    BY <2>5, ResidueSums, SumOfOne
  <2> QED
    BY <2>3, <2>4, <2>6 DEF SumQ, f
<1> QED
  BY <1>1, <1>2, MulIs

LEMMA UnitCancels ==
  ASSUME NEW a, IsUnit(a), NEW x \in R, NEW y \in R, Times(a, x) = Times(a, y)
  PROVE  x = y
<1>1. PICK b \in R : Times(b, a) = 1
  BY DEF IsUnit
<1>2. a \in R
  BY DEF IsUnit
<1>3. Times(Times(b, a), x) = Times(b, Times(a, x)) /\ Times(Times(b, a), y) = Times(b, Times(a, y))
  BY <1>2, ResidueRing
<1>4. Times(1, x) = x /\ Times(1, y) = y
  BY ResidueRing
<1> QED
  BY <1>1, <1>3, <1>4

\* A product with one determines the other factor.
LEMMA MonomialCancels ==
  ASSUME NEW x, NEW m, IsMonomial(x, m), IsUnit(x[m]), NEW y \in Elems, NEW t \in Elems,
         Mul(x, y) = Mul(x, t)
  PROVE  y = t
<1>1. x \in Elems /\ m \in Coeffs /\ x[m] \in R
  BY DEF IsMonomial, IsUnit
<1>2. ASSUME NEW j \in Coeffs PROVE y[j] = t[j]
  <2> DEFINE k == IF j + m < D THEN j + m ELSE j + m - D
  <2>1. k \in Coeffs /\ Ix(k, m) = j
    <3>1. D \in Nat /\ j \in Int /\ m \in Int /\ 0 <= j /\ j < D /\ 0 <= m /\ m < D
      BY <1>1, RingAssumption DEF Coeffs
    <3> QED
      BY <3>1 DEF Ix, Coeffs
  <2> HIDE DEF k
  <2>2. y[j] \in R /\ t[j] \in R
    BY ElemFacts
  <2> DEFINE u == Times(x[m], y[j])
             v == Times(x[m], t[j])
  <2>3. u \in R /\ v \in R
    BY <1>1, <2>2, ResiduesClosed
  <2>4. Mul(x, y)[k] = Sg(k, m, u) /\ Mul(x, t)[k] = Sg(k, m, v)
    BY <2>1, MulByMonomial
  <2>5. Sg(k, m, u) = Sg(k, m, v)
    BY <2>4
  <2> HIDE DEF u, v
  <2>6. Minus(Minus(u)) = u /\ Minus(Minus(v)) = v
    BY <2>3, ResidueRing
  <2>7. u = v
    BY <2>5, <2>6 DEF Sg
  <2> QED
    BY <2>2, <2>7, UnitCancels DEF u, v
<1> QED
  BY <1>2, Alike

\* Two, and minus two.
LEMMA TwoIsUnit ==
  IsUnit(2) /\ IsUnit(q - 2)
<1> DEFINE half == (q + 1) \div 2
<1>1. half \in Int /\ half + half = q + 1 /\ 2 * half = q + 1 /\ half * 2 = q + 1 /\ half \in R
  BY RingAssumption, ResidueFacts DEF IsModulus, R, Residues
<1>2. (q + 1) % q = 1 /\ 2 \in R /\ q - 2 \in R
  BY RingAssumption, ResidueFacts DEF IsModulus, R, Residues
<1> HIDE DEF half
<1>3. Times(half, 2) = 1
  BY <1>1, <1>2 DEF Times
<1>4. q - 2 = Minus(2)
  <2>1. -2 = (q - 2) + q * (-1) /\ -2 \in Int /\ q - 2 \in Int /\ -1 \in Int
    BY ResidueFacts
  <2>2. (-2) % q = (q - 2) % q
    BY <2>1, ModuloOf
  <2>3. (q - 2) % q = q - 2
    BY <1>2, ResiduesClosed
  <2> QED
    BY <2>2, <2>3 DEF Minus
<1>5. Times(Minus(half), Minus(2)) = 1
  <2>1. Minus(half) \in R
    BY <1>1, ResiduesClosed
  <2>2. Times(Minus(half), Minus(2)) = Minus(Times(Minus(half), 2))
    BY <1>2, <2>1, ResidueRing
  <2>3. Times(Minus(half), 2) = Times(2, Minus(half)) /\ Times(2, Minus(half)) = Minus(Times(2, half))
    BY <1>1, <1>2, <2>1, ResidueRing
  <2>4. Times(2, half) = Times(half, 2) /\ 1 \in R
    BY <1>1, <1>2, ResidueRing, ResidueFacts
  <2>5. Minus(Minus(1)) = 1
    BY <2>4, ResidueRing
  <2> QED
    BY <1>3, <2>2, <2>3, <2>4, <2>5
<1>6. Minus(half) \in R
  BY <1>1, ResiduesClosed
<1> QED
  BY <1>1, <1>2, <1>3, <1>4, <1>5, <1>6 DEF IsUnit

\* No challenge is a divisor of zero.
LEMMA ChallengeCancels ==
  ASSUME DrawsAreResidues, NEW sd, NEW i \in Vectors, NEW y \in Elems, NEW t \in Elems,
         Mul(Challenge(sd)[i], y) = Mul(Challenge(sd)[i], t)
  PROVE  y = t
<1> DEFINE x == Residue(sd.challenge, "c", i, 0)
           m == x % D
           ch == Challenge(sd)[i]
<1>1. x \in Int
  BY ResidueFacts DEF Residue, DrawsAreResidues, R
<1>2. ch = [k \in Coeffs |-> IF k # m THEN 0 ELSE IF x < q \div 2 THEN 2 ELSE q - 2]
  BY DEF Challenge
<1> HIDE DEF x
<1>3. m \in Coeffs
  BY <1>1, RingAssumption DEF Coeffs
<1>4. ch \in Elems
  BY ChallengeIn
<1> HIDE DEF ch, m
<1>5. IsMonomial(ch, m)
  BY <1>2, <1>3, <1>4 DEF IsMonomial
<1>6. ch[m] = 2 \/ ch[m] = q - 2
  BY <1>2, <1>3
<1>7. IsUnit(ch[m])
  BY <1>6, TwoIsUnit
<1>8. Mul(ch, y) = Mul(ch, t)
  BY DEF ch
<1> QED
  BY <1>5, <1>7, <1>8, MonomialCancels

-----------------------------------------------------------------------------
LEMMA AddCancels ==
  ASSUME NEW a \in Elems, NEW b \in Elems, NEW c \in Elems, Add(a, c) = Add(b, c)
  PROVE  a = b
<1>1. Sub(Add(a, c), c) = a /\ Sub(Add(b, c), c) = b
  BY SubBack
<1> QED
  BY <1>1

\* Sums that differ in one place only.
LEMMA SumsTellApart ==
  ASSUME NEW S, IsFiniteSet(S), NEW f, IsFamily(f, S, Elems), NEW g, IsFamily(g, S, Elems),
         NEW a \in S, \A x \in S \ {a} : f[x] = g[x], SumE(f) = SumE(g)
  PROVE  f[a] = g[a]
<1> DEFINE T == S \ {a}
           u == Part(f, T)
           v == Part(g, T)
<1>1. f \in [S -> Elems] /\ g \in [S -> Elems]
  BY DEF IsFamily
<1>2. SumE(f) = AddE[<<f[a], SumE(u)>>] /\ SumE(g) = AddE[<<g[a], SumE(v)>>]
  BY <1>1, ElemSums, SumBasics DEF SumE
<1>3. u = v
  BY DEF Part
<1>4. T \in SUBSET S
  OBVIOUS
<1> HIDE DEF T
<1>5. IsFiniteSet(T) /\ u \in [T -> Elems]
  BY <1>1, <1>4, PartOf
<1>6. SumE(u) \in Elems
  BY <1>5, ElemSums, SumBasics DEF SumE
<1> HIDE DEF u, v
<1>7. f[a] \in Elems /\ g[a] \in Elems
  BY <1>1
<1>8. Add(f[a], SumE(u)) = Add(g[a], SumE(u))
  <2>1. AddE[<<f[a], SumE(u)>>] = Add(f[a], SumE(u)) /\ AddE[<<g[a], SumE(u)>>] = Add(g[a], SumE(u))
    BY ONLY <1>6, <1>7, ElemSums
  <2> QED
    BY <1>2, <1>3, <2>1
<1> QED
  BY <1>6, <1>7, <1>8, AddCancels

\* A weight c_i c_j is no divisor of zero.
LEMMA PairCancels ==
  ASSUME DrawsAreResidues, NEW sd, NEW i \in Vectors, NEW j \in Vectors,
         NEW x \in Elems, NEW y \in Elems,
         Mul(CC(Challenge(sd), <<i, j>>), x) = Mul(CC(Challenge(sd), <<i, j>>), y)
  PROVE  x = y
<1> DEFINE a == Challenge(sd)[i]
           b == Challenge(sd)[j]
           m == Mul(a, b)
<1>1. a \in Elems /\ b \in Elems /\ m \in Elems
  BY ChallengeIn, MulRules
<1>2. CC(Challenge(sd), <<i, j>>) = IF i = j THEN m ELSE Add(m, m)
  BY DEF CC, Doubled
<1> HIDE DEF m
<1>3. Mul(m, x) = Mul(m, y)
  <2>1. CASE i = j
    BY <1>2, <2>1
  <2>2. CASE i # j
    <3>1. Mul(Add(m, m), x) = Add(Mul(m, x), Mul(m, x)) /\ Mul(Add(m, m), y) = Add(Mul(m, y), Mul(m, y))
      BY <1>1, MulRules
    <3>2. Add(Mul(m, x), Mul(m, x)) = Add(Mul(m, y), Mul(m, y))
      BY <1>2, <2>2, <3>1
    <3>3. Mul(m, x) \in Elems /\ Mul(m, y) \in Elems
      BY <1>1, MulRules
    <3>4. /\ Scale(Add(Mul(m, x), Mul(m, x)), (q + 1) \div 2) = Mul(m, x)
          /\ Scale(Add(Mul(m, y), Mul(m, y)), (q + 1) \div 2) = Mul(m, y)
      BY <3>3, HalfOfTwice
    <3> QED
      BY <3>2, <3>4
  <2> QED
    BY <2>1, <2>2
<1>4. Mul(m, x) = Mul(a, Mul(b, x)) /\ Mul(m, y) = Mul(a, Mul(b, y))
  <2> HIDE DEF a, b
  <2> QED
    BY <1>1, MulRules DEF m
<1>5. Mul(b, x) \in Elems /\ Mul(b, y) \in Elems
  BY <1>1, MulRules
<1>6. Mul(b, x) = Mul(b, y)
  <2> DEFINE s == Mul(b, x)
             t == Mul(b, y)
  <2>1. s \in Elems /\ t \in Elems /\ Mul(a, s) = Mul(a, t)
    BY <1>3, <1>4, <1>5
  <2> HIDE DEF s, t
  <2>2. s = t
    BY <2>1, ChallengeCancels
  <2> QED
    BY <2>2 DEF s, t
<1> QED
  BY <1>6, ChallengeCancels

\* Of g or h, one entry other gives another sum.
LEMMA GarbageTellsApart ==
  ASSUME DrawsAreResidues, IsStatement(stmt), NEW sd,
         NEW g \in [Pairs(stmt.r) -> Elems], NEW h \in [Pairs(stmt.r) -> Elems],
         NEW p \in Pairs(stmt.r), \A x \in Pairs(stmt.r) \ {p} : g[x] = h[x],
         GarbageSum(Challenge(sd), g) = GarbageSum(Challenge(sd), h)
  PROVE  g[p] = h[p]
<1> DEFINE n == stmt.r
           ch == Challenge(sd)
           F == GarbageTerms(ch, g, n)
           H == GarbageTerms(ch, h, n)
<1>1. n \in Nat /\ ch \in [Below(n) -> Elems] /\ Vectors = Below(n)
  BY ChallengeIn DEF IsStatement, Vectors
<1>2. GarbageSum(ch, g) = SumE(F) /\ GarbageSum(ch, h) = SumE(H)
  <2> HIDE DEF ch
  <2> QED
    BY <1>1, GarbageByPairs DEF GarbageSum
<1>3. IsFamily(F, Pairs(n), Elems) /\ IsFamily(H, Pairs(n), Elems)
  BY <1>1, CCIn
<1>4. \A x \in Pairs(n) \ {p} : F[x] = H[x]
  BY DEF GarbageTerms
<1>5. F[p] = Mul(CC(ch, p), g[p]) /\ H[p] = Mul(CC(ch, p), h[p])
  BY DEF GarbageTerms
<1>6. IsFiniteSet(Pairs(n))
  BY <1>3 DEF IsFamily
<1>7. SumE(F) = SumE(H)
  BY <1>2
<1>8. F[p] = H[p]
  <2> HIDE DEF F, H
  <2> QED
    BY <1>3, <1>4, <1>6, <1>7, SumsTellApart
<1>9. PICK i \in Vectors, j \in Vectors : p = <<i, j>>
  BY <1>1 DEF Pairs, Below
<1>10. Mul(CC(ch, <<i, j>>), g[p]) = Mul(CC(ch, <<i, j>>), h[p])
  BY <1>5, <1>8, <1>9
<1>11. g[p] \in Elems /\ h[p] \in Elems
  OBVIOUS
<1> QED
  BY <1>10, <1>11, PairCancels

-----------------------------------------------------------------------------
(* A change on the way.                                                    *)

IsBump(c) == c.by \in Int /\ c.k \in Coeffs /\ c.by % q # 0

LEMMA BumpIsOther ==
  ASSUME NEW x \in Elems, NEW c, IsBump(c)
  PROVE  Bump(x, c) \in Elems /\ Bump(x, c) # x /\ Bump(x, c)[c.k] # x[c.k]
<1> DEFINE a == x[c.k]
           b == c.by % q
           m == Minus(a)
<1>1. c.by \in Int /\ c.k \in Coeffs /\ b # 0
  BY DEF IsBump
<1>2. a \in R /\ b \in R /\ b \in Int /\ a \in Int
  BY <1>1, ElemFacts, Modulo, ResidueFacts DEF R
<1>3. Bump(x, c)[c.k] = (a + c.by) % q /\ Bump(x, c) \in Elems
  BY <1>1, BumpIn DEF Bump, Elems
<1>4. (a + c.by) % q = (a + b) % q
  BY <1>1, <1>2, ModuloLaws
<1>5. m \in R
  BY <1>2, ResiduesClosed
<1> HIDE DEF a, b
<1>6. Plus(a, m) = 0 /\ Plus(m, a) = Plus(a, m)
  BY <1>2, <1>5, ResidueRing
<1> HIDE DEF m
<1>7. Plus(Plus(m, a), b) = Plus(m, Plus(a, b)) /\ Plus(0, b) = b
  BY <1>2, <1>5, ResidueRing
<1>8. Plus(a, b) # a
  BY <1>1, <1>6, <1>7
<1>9. Bump(x, c)[c.k] # a
  BY <1>3, <1>4, <1>8 DEF Plus
<1> QED
  BY <1>3, <1>9 DEF a

ChangedOn(sd, pr, seed) ==
  /\ Grounded /\ agg = replay(seeds, proof)
  /\ SentAs(sd, pr, seed) /\ change.field # "none"

\* What a change leaves alone.
LEMMA RestArrives ==
  ASSUME NEW sd, NEW pr, NEW seed, ChangedOn(sd, pr, seed)
  PROVE  /\ HonestTo(5, sd, pr) /\ IsProof(pr, WithAll(version), stmt, it)
         /\ DOMAIN pr = WithAll(version)
         /\ \A f \in WithAll(version) : f # change.field => proof[f] = pr[f]
         /\ \A round \in DOMAIN sd : round \notin Absorbed(change.field) => seeds[round] = sd[round]
         /\ DOMAIN seeds = DOMAIN sd
<1>1. /\ HonestTo(5, sd, pr) /\ IsProof(pr, WithAll(version), stmt, it)
      /\ proof = Changed(pr, change) /\ seeds = Redrawn(sd, change, seed)
  BY DEF ChangedOn, SentAs
<1>2. DOMAIN pr = WithAll(version)
  BY <1>1 DEF IsProof
<1>3. change.field # "none"
  BY DEF ChangedOn
<1>4. ASSUME NEW f \in WithAll(version), f # change.field PROVE proof[f] = pr[f]
  <2>1. CASE change.field = "p"
    BY <1>1, <1>2, <1>3, <1>4, <2>1 DEF Changed
  <2>2. CASE change.field = "v"
    BY <1>1, <1>2, <1>3, <1>4, <2>2 DEF Changed
  <2>3. CASE change.field # "p" /\ change.field # "v"
    BY <1>1, <1>2, <1>3, <1>4, <2>3 DEF Changed
  <2> QED
    BY <2>1, <2>2, <2>3
<1>5. \A round \in DOMAIN sd : round \notin Absorbed(change.field) => seeds[round] = sd[round]
  BY <1>1 DEF Redrawn
<1>6. DOMAIN seeds = DOMAIN sd
  BY <1>1 DEF Redrawn
<1> QED
  BY <1>1, <1>2, <1>4, <1>5, <1>6

\* What it does not.
LEMMA FieldArrives ==
  ASSUME NEW sd, NEW pr, NEW seed, ChangedOn(sd, pr, seed),
         change.field \in {"u1", "u2", "g", "h", "bpp"}
  PROVE  LET x == pr[change.field]
         IN  /\ change.field \in WithAll(version) /\ change.at \in DOMAIN x /\ IsBump(change)
             /\ proof[change.field] = [x EXCEPT ![change.at] = Bump(@, change)]
<1>1. /\ proof = Changed(pr, change) /\ change \in Changes /\ AppliesTo(change, pr)
      /\ IsProof(pr, WithAll(version), stmt, it)
  BY DEF ChangedOn, SentAs
<1>2. change.field \in DOMAIN pr /\ change.at \in DOMAIN pr[change.field]
  BY <1>1 DEF AppliesTo
<1>3. proof = [pr EXCEPT ![change.field][change.at] = Bump(@, change)]
  BY <1>1 DEF Changed
<1>4. IsBump(change)
  BY <1>1, ChangesAssumption DEF IsBump
<1>5. change.field \in WithAll(version)
  BY <1>1, <1>2 DEF IsProof
<1> QED
  BY <1>2, <1>3, <1>4, <1>5

LEMMA VArrives ==
  ASSUME NEW sd, NEW pr, NEW seed, ChangedOn(sd, pr, seed), change.field = "v"
  PROVE  /\ change.at \in Vectors \X Below(it.kappa) /\ IsBump(change)
         /\ proof.v = [pr.v EXCEPT ![change.at[1]][change.at[2]] = Bump(@, change)]
<1>1. /\ proof = Changed(pr, change) /\ change \in Changes /\ AppliesTo(change, pr)
      /\ IsProof(pr, WithAll(version), stmt, it)
  BY DEF ChangedOn, SentAs
<1>2. "v" \in DOMAIN pr /\ change.at \in Vectors \X Below(it.kappa)
  BY <1>1 DEF AppliesTo
<1>3. proof = [pr EXCEPT !.v[change.at[1]][change.at[2]] = Bump(@, change)]
  BY <1>1 DEF Changed
<1>4. IsBump(change)
  BY <1>1, ChangesAssumption DEF IsBump
<1> QED
  BY <1>2, <1>3, <1>4

-----------------------------------------------------------------------------
\* A commitment that was changed, or what it commits to unchanged.
LEMMA U1Caught ==
  ASSUME NEW sd, NEW pr, NEW seed, ChangedOn(sd, pr, seed), version = "v2", change.field = "u1"
  PROVE  ~OpensU1
<1>1. /\ HonestTo(5, sd, pr) /\ IsProof(pr, WithAll(version), stmt, it) /\ DOMAIN seeds = DOMAIN sd
      /\ \A f \in WithAll(version) : f # "u1" => proof[f] = pr[f]
      /\ \A round \in DOMAIN sd : round \notin Absorbed("u1") => seeds[round] = sd[round]
  BY RestArrives
<1>2. Committed(sd, pr)
  BY <1>1 DEF HonestTo
<1>3. pr.u1 = u_1(sd, pr, 0) /\ seeds.matrices = sd.matrices
  BY <1>1, <1>2 DEF Committed, Absorbed
<1>4. proof.v = pr.v /\ proof.g = pr.g
  BY <1>1 DEF WithAll, WithLinear, WithSecond, WithProjection, FirstMessage
<1>5. u_1(seeds, proof, 0) = u_1(sd, pr, 0)
  BY <1>3, <1>4, SameU1
<1>6. pr.u1 \in [1..it.kappa1 -> Elems]
  <2>1. pr.u1 \in Message("u1", stmt, it)
    BY <1>1 DEF IsProof, WithAll, WithLinear, WithSecond, WithProjection, FirstMessage
  <2> QED
    BY <2>1, MessagesAre
<1>7. change.at \in DOMAIN pr.u1 /\ IsBump(change) /\ proof.u1 = [pr.u1 EXCEPT ![change.at] = Bump(@, change)]
  BY FieldArrives
<1>8. Bump(pr.u1[change.at], change) # pr.u1[change.at]
  BY <1>6, <1>7, BumpIsOther
<1>9. proof.u1 # pr.u1
  BY <1>7, <1>8
<1> QED
  BY <1>3, <1>5, <1>9 DEF OpensU1

LEMMA U2Caught ==
  ASSUME NEW sd, NEW pr, NEW seed, ChangedOn(sd, pr, seed), version = "v2", change.field = "u2"
  PROVE  ~OpensU2
<1>1. /\ HonestTo(5, sd, pr) /\ IsProof(pr, WithAll(version), stmt, it) /\ DOMAIN seeds = DOMAIN sd
      /\ \A f \in WithAll(version) : f # "u2" => proof[f] = pr[f]
      /\ \A round \in DOMAIN sd : round \notin Absorbed("u2") => seeds[round] = sd[round]
  BY RestArrives
<1>2. Linearized(sd, pr)
  BY <1>1 DEF HonestTo
<1>3. pr.u2 = u_2(sd, pr) /\ seeds.linear = sd.linear
  BY <1>1, <1>2 DEF Linearized, Absorbed
<1>4. proof.h = pr.h
  BY <1>1 DEF WithAll, WithLinear
<1>5. u_2(seeds, proof) = u_2(sd, pr)
  BY <1>3, <1>4, SameU2
<1>6. pr.u2 \in [1..it.kappa1 -> Elems]
  <2>1. pr.u2 \in Message("u2", stmt, it)
    BY <1>1 DEF IsProof, WithAll, WithLinear
  <2> QED
    BY <2>1, MessagesAre
<1>7. change.at \in DOMAIN pr.u2 /\ IsBump(change) /\ proof.u2 = [pr.u2 EXCEPT ![change.at] = Bump(@, change)]
  BY FieldArrives
<1>8. Bump(pr.u2[change.at], change) # pr.u2[change.at]
  BY <1>6, <1>7, BumpIsOther
<1>9. proof.u2 # pr.u2
  BY <1>7, <1>8
<1> QED
  BY <1>3, <1>5, <1>9 DEF OpensU2

\* The openings of v2 are absorbed by no round: nothing is drawn anew.
LEMMA OpeningArrives ==
  ASSUME NEW sd, NEW pr, NEW seed, ChangedOn(sd, pr, seed), version = "v2",
         change.field \in {"v", "g", "h"}
  PROVE  /\ HonestTo(5, seeds, pr) /\ IsProof(pr, WithAll(version), stmt, it)
         /\ \A f \in WithAll(version) : f # change.field => proof[f] = pr[f]
         /\ z = Whole_z(pr) /\ replay(seeds, pr) = agg
<1>1. /\ HonestTo(5, sd, pr) /\ IsProof(pr, WithAll(version), stmt, it) /\ DOMAIN seeds = DOMAIN sd
      /\ \A f \in WithAll(version) : f # change.field => proof[f] = pr[f]
      /\ \A round \in DOMAIN sd : round \notin Absorbed(change.field) => seeds[round] = sd[round]
  BY RestArrives
<1>2. Absorbed(change.field) = {}
  BY DEF Absorbed
<1>3. Extends(seeds, sd) /\ Extends(pr, pr) /\ 5 \in 0..5
  BY <1>1, <1>2 DEF Extends
<1>4. HonestTo(5, seeds, pr)
  BY <1>1, <1>3, HonestOn
<1>5. proof.z0 = pr.z0 /\ proof.z1 = pr.z1 /\ proof.bpp = pr.bpp /\ proof.p = pr.p
  BY <1>1 DEF WithAll, WithLinear, WithSecond, WithProjection
<1>6. z = Whole_z(pr)
  BY <1>5 DEF z, Whole_z
<1>7. replay(seeds, pr) = replay(seeds, proof)
  BY <1>5, SameReplay
<1> QED
  BY <1>1, <1>4, <1>6, <1>7 DEF ChangedOn

LEMMA GCaught ==
  ASSUME DrawsAreResidues, NEW sd, NEW pr, NEW seed, ChangedOn(sd, pr, seed), version = "v2", change.field = "g"
  PROVE  ~QuadraticOpens
<1> SUFFICES ASSUME QuadraticOpens PROVE FALSE
  OBVIOUS
<1>1. HonestTo(5, seeds, pr) /\ IsProof(pr, WithAll(version), stmt, it) /\ z = Whole_z(pr) /\ Grounded
  BY OpeningArrives DEF ChangedOn
<1>2. GarbageSum(Challenge(seeds), proof.g) = GarbageSum(Challenge(seeds), pr.g)
  <2>1. QuadraticOf(seeds, pr)
    BY <1>1, QuadraticPasses
  <2>2. ring_inner_product(z, z) = GarbageSum(cs, proof.g)
    BY DEF QuadraticOpens, CombinedGarbage, GarbageSum, AllGarbage, Sorted, Vectors
  <2> QED
    BY <1>1, <2>1, <2>2 DEF QuadraticOf, cs
<1>3. pr.g \in [Pairs(stmt.r) -> Elems]
  <2>1. pr.g \in Message("g", stmt, it)
    BY <1>1 DEF IsProof, WithAll, WithLinear, WithSecond, WithProjection, FirstMessage
  <2> QED
    BY <2>1, MessagesAre
<1>4. change.at \in DOMAIN pr.g /\ IsBump(change) /\ proof.g = [pr.g EXCEPT ![change.at] = Bump(@, change)]
  BY FieldArrives
<1> DEFINE p == change.at
<1>5. p \in Pairs(stmt.r) /\ pr.g[p] \in Elems
  BY <1>3, <1>4
<1>6. Bump(pr.g[p], change) # pr.g[p] /\ Bump(pr.g[p], change) \in Elems
  BY <1>4, <1>5, BumpIsOther
<1>7. /\ proof.g \in [Pairs(stmt.r) -> Elems] /\ proof.g[p] # pr.g[p]
      /\ \A x \in Pairs(stmt.r) \ {p} : proof.g[x] = pr.g[x]
  BY <1>3, <1>4, <1>5, <1>6
<1> DEFINE a == proof.g
           b == pr.g
<1> HIDE DEF a, b, p
<1>8. /\ a \in [Pairs(stmt.r) -> Elems] /\ b \in [Pairs(stmt.r) -> Elems] /\ p \in Pairs(stmt.r)
      /\ a[p] # b[p] /\ \A x \in Pairs(stmt.r) \ {p} : a[x] = b[x]
      /\ GarbageSum(Challenge(seeds), a) = GarbageSum(Challenge(seeds), b) /\ IsStatement(stmt)
  BY <1>1, <1>2, <1>3, <1>5, <1>7 DEF a, b, Grounded
<1> QED
  BY <1>8, GarbageTellsApart

LEMMA HCaught ==
  ASSUME DrawsAreResidues, NEW sd, NEW pr, NEW seed, ChangedOn(sd, pr, seed), version = "v2", change.field = "h"
  PROVE  ~LinearOpens
<1> SUFFICES ASSUME LinearOpens PROVE FALSE
  OBVIOUS
<1>1. /\ HonestTo(5, seeds, pr) /\ IsProof(pr, WithAll(version), stmt, it) /\ z = Whole_z(pr) /\ Grounded
      /\ replay(seeds, pr) = agg
  BY OpeningArrives DEF ChangedOn
<1>2. GarbageSum(Challenge(seeds), proof.h) = GarbageSum(Challenge(seeds), pr.h)
  <2>1. LinearOf(seeds, pr)
    BY <1>1, LinearPasses
  <2>2. Total([i \in Vectors |-> Mul(cs[i], phi_dot(agg.phi_agg, i, z))]) = GarbageSum(cs, proof.h)
    BY DEF LinearOpens, CombinedGarbage, GarbageSum, AllGarbage, Sorted, Vectors
  <2> QED
    BY <1>1, <2>1, <2>2 DEF LinearOf, cs
<1>3. pr.h \in [Pairs(stmt.r) -> Elems]
  <2>1. pr.h \in Message("h", stmt, it)
    BY <1>1 DEF IsProof, WithAll, WithLinear
  <2> QED
    BY <2>1, MessagesAre
<1>4. change.at \in DOMAIN pr.h /\ IsBump(change) /\ proof.h = [pr.h EXCEPT ![change.at] = Bump(@, change)]
  BY FieldArrives
<1> DEFINE p == change.at
<1>5. p \in Pairs(stmt.r) /\ pr.h[p] \in Elems
  BY <1>3, <1>4
<1>6. Bump(pr.h[p], change) # pr.h[p] /\ Bump(pr.h[p], change) \in Elems
  BY <1>4, <1>5, BumpIsOther
<1>7. /\ proof.h \in [Pairs(stmt.r) -> Elems] /\ proof.h[p] # pr.h[p]
      /\ \A x \in Pairs(stmt.r) \ {p} : proof.h[x] = pr.h[x]
  BY <1>3, <1>4, <1>5, <1>6
<1> DEFINE a == proof.h
           b == pr.h
<1> HIDE DEF a, b, p
<1>8. /\ a \in [Pairs(stmt.r) -> Elems] /\ b \in [Pairs(stmt.r) -> Elems] /\ p \in Pairs(stmt.r)
      /\ a[p] # b[p] /\ \A x \in Pairs(stmt.r) \ {p} : a[x] = b[x]
      /\ GarbageSum(Challenge(seeds), a) = GarbageSum(Challenge(seeds), b) /\ IsStatement(stmt)
  BY <1>1, <1>2, <1>3, <1>5, <1>7 DEF a, b, Grounded
<1> QED
  BY <1>8, GarbageTellsApart

-----------------------------------------------------------------------------
LEMMA VCaught ==
  ASSUME DrawsAreResidues, NEW sd, NEW pr, NEW seed, ChangedOn(sd, pr, seed), version = "v2", change.field = "v"
  PROVE  ~InnerCommitmentOpens
<1> SUFFICES ASSUME InnerCommitmentOpens PROVE FALSE
  OBVIOUS
<1> DEFINE i == change.at[1]
           k == change.at[2]
           ch == Challenge(seeds)
           f == [j \in Vectors |-> Mul(ch[j], proof.v[j][k])]
           g == [j \in Vectors |-> Mul(ch[j], pr.v[j][k])]
<1>1. HonestTo(5, seeds, pr) /\ IsProof(pr, WithAll(version), stmt, it) /\ z = Whole_z(pr) /\ Grounded
  BY OpeningArrives DEF ChangedOn
<1>2. /\ i \in Vectors /\ k \in Below(it.kappa) /\ IsBump(change)
      /\ proof.v = [pr.v EXCEPT ![i][k] = Bump(@, change)]
  BY VArrives
<1>3. Total(f) = Total(g)
  <2>1. InnerOf(seeds, pr)
    BY <1>1, InnerPasses
  <2>2. matmul(seeds, z) = [l \in Below(it.kappa) |-> Total([j \in Vectors |-> Mul(ch[j], pr.v[j][l])])]
    BY <1>1, <2>1 DEF InnerOf
  <2>3. matmul(seeds, z) = [l \in Below(it.kappa) |-> Total([j \in Vectors |-> Mul(ch[j], proof.v[j][l])])]
    BY DEF InnerCommitmentOpens, cs
  <2> HIDE DEF ch
  <2>4. matmul(seeds, z)[k] = Total(g) /\ matmul(seeds, z)[k] = Total(f)
    BY <1>2, <2>2, <2>3
  <2> QED
    BY <2>4
<1>4. pr.v \in [Vectors -> [Below(it.kappa) -> Elems]]
  <2>1. pr.v \in Message("v", stmt, it)
    BY <1>1 DEF IsProof, WithAll, WithLinear, WithSecond, WithProjection, FirstMessage
  <2> QED
    BY <2>1, MessagesAre DEF Vectors
<1>5. Bump(pr.v[i][k], change) \in Elems /\ Bump(pr.v[i][k], change) # pr.v[i][k] /\ pr.v[i][k] \in Elems
  <2>1. pr.v[i][k] \in Elems
    BY <1>2, <1>4
  <2> QED
    BY <1>2, <2>1, BumpIsOther
<1> HIDE DEF i, k
<1>6. /\ proof.v[i][k] = Bump(pr.v[i][k], change)
      /\ \A j \in Vectors \ {i} : proof.v[j][k] = pr.v[j][k]
  BY <1>2, <1>4
<1>7. \A j \in Vectors : pr.v[j][k] \in Elems /\ proof.v[j][k] \in Elems
  BY <1>2, <1>4, <1>5, <1>6
<1>8. ch \in [Vectors -> Elems] /\ IsFiniteSet(Vectors)
  BY <1>1, ChallengeIn, FiniteBelow DEF Vectors, Grounded, IsStatement
<1> HIDE DEF ch
<1>9. \A j \in Vectors : Mul(ch[j], pr.v[j][k]) \in Elems /\ Mul(ch[j], proof.v[j][k]) \in Elems
  BY <1>7, <1>8, MulRules
<1>10. IsFamily(f, Vectors, Elems) /\ IsFamily(g, Vectors, Elems)
  BY <1>8, <1>9 DEF IsFamily
<1>11. \A j \in Vectors \ {i} : f[j] = g[j]
  BY <1>6
<1>12. f[i] = Mul(ch[i], proof.v[i][k]) /\ g[i] = Mul(ch[i], pr.v[i][k])
  BY <1>2
<1> HIDE DEF f, g
<1>13. SumE(f) = SumE(g)
  BY <1>3, <1>10, TotalIsSum
<1>14. f[i] = g[i]
  BY <1>2, <1>8, <1>10, <1>11, <1>13, SumsTellApart
<1> DEFINE x == proof.v[i][k]
           y == pr.v[i][k]
<1>15. Mul(Challenge(seeds)[i], x) = Mul(Challenge(seeds)[i], y) /\ x \in Elems /\ y \in Elems /\ x # y
  BY <1>2, <1>5, <1>6, <1>7, <1>12, <1>14 DEF ch
<1> HIDE DEF x, y
<1> QED
  BY <1>2, <1>15, ChallengeCancels

\* The constant terms of b'', whose draws come before it.
LEMMA BppCaught ==
  ASSUME DrawsAreResidues, ConstraintsHold, NEW sd, NEW pr, NEW seed, ChangedOn(sd, pr, seed),
         change.field = "bpp", change.k = 0
  PROVE  ~ConstTermsMatch
<1> SUFFICES ASSUME ConstTermsMatch PROVE FALSE
  OBVIOUS
<1> DEFINE cts == ConstTerms(sd, ProjectionOf(pr))
           m == change.at
<1>1. /\ HonestTo(5, sd, pr) /\ IsProof(pr, WithAll(version), stmt, it)
      /\ \A f \in WithAll(version) : f # "bpp" => proof[f] = pr[f]
      /\ \A round \in DOMAIN sd : round \notin Absorbed("bpp") => seeds[round] = sd[round]
  BY RestArrives
<1>2. Grounded /\ agg = replay(seeds, proof)
  BY DEF ChangedOn
<1>3. Projected(sd, pr) /\ Constrained(sd, pr)
  BY <1>1 DEF HonestTo
<1>4. "psi" \notin Absorbed("bpp") /\ "projection" \notin Absorbed("bpp")
  BY DEF Absorbed
<1>5. seeds.psi = sd.psi /\ (version # "v1" => seeds.projection = sd.projection)
  BY <1>1, <1>3, <1>4 DEF Constrained, Projected
<1>6. version # "v1" => proof.p = pr.p
  BY <1>1 DEF WithAll, WithLinear, WithSecond, WithProjection
<1>7. /\ ConstTerms(seeds, ProjectionOf(proof)) = cts
      /\ Psis(seeds, ConstTerms(seeds, ProjectionOf(proof))) = Psis(sd, cts)
  BY <1>5, <1>6, SamePps
<1>8. ConstTermsOf(sd, pr)
  BY <1>1, <1>2, ConstTermsPass
<1>9. ConstTermsOf(seeds, proof)
  BY <1>2, ChecksAre
<1> HIDE DEF cts
<1>10. \A l \in 1..K_PP : pr.bpp[l][0] = proof.bpp[l][0]
  <2>1. \A l \in 1..K_PP : pr.bpp[l][0] = ExpectedConstTerm(cts, Psis(sd, cts)[l])
    BY <1>8 DEF ConstTermsOf, cts
  <2>2. \A l \in 1..K_PP : proof.bpp[l][0] = ExpectedConstTerm(cts, Psis(sd, cts)[l])
    BY <1>7, <1>9 DEF ConstTermsOf
  <2> QED
    BY <2>1, <2>2
<1>11. pr.bpp \in [1..K_PP -> Elems]
  BY <1>1, <1>2, HonestShapes
<1>12. m \in DOMAIN pr.bpp /\ IsBump(change) /\ proof.bpp = [pr.bpp EXCEPT ![m] = Bump(@, change)]
  BY FieldArrives
<1> HIDE DEF m
<1>13. m \in 1..K_PP /\ pr.bpp[m] \in Elems /\ proof.bpp[m] = Bump(pr.bpp[m], change)
  BY <1>11, <1>12
<1>14. Bump(pr.bpp[m], change)[change.k] # pr.bpp[m][change.k]
  BY <1>12, <1>13, BumpIsOther
<1> QED
  BY <1>10, <1>13, <1>14

LEMMA CaughtInState ==
  ASSUME FinalInv, DrawsAreResidues
  PROVE  ChangeIsCaught
<1> SUFFICES ASSUME pc = "done", verdict = "ok"
             PROVE  /\ change.field = "bpp" /\ satisfies(stmt, w) => change.k # 0
                    /\ version = "v2" => change.field \notin {"u1", "u2", "v", "g", "h"}
  BY DEF ChangeIsCaught
<1>1. HonestInv /\ IterationInv /\ Delivered /\ Decision = "ok"
  BY DEF FinalInv, HonestInv, Delivered
<1>2. PICK sd, pr, seed : SentAs(sd, pr, seed)
  BY <1>1 DEF HonestInv
<1>3. Grounded /\ agg = replay(seeds, proof)
  BY <1>1, InvGrounds DEF IterationInv, Delivered
<1>4. change.field # "none" => ChangedOn(sd, pr, seed)
  BY <1>2, <1>3 DEF ChangedOn
<1>5. version = "v1" => ConstTermsMatch
  BY <1>1, VerifyIsOk DEF Decision
<1>6. version # "v1" => OpensU1 /\ ConstTermsMatch /\ OpensU2 /\ FiveHold
  BY <1>1, VerifyV2IsOk DEF Decision
<1>7. ASSUME change.field = "bpp", satisfies(stmt, w) PROVE change.k # 0
  <2>1. ConstraintsHold
    BY <1>7 DEF satisfies, ConstraintsHold
  <2>2. ChangedOn(sd, pr, seed)
    BY <1>4, <1>7
  <2> QED
    BY <1>5, <1>6, <1>7, <2>1, <2>2, BppCaught
<1>8. ASSUME version = "v2", change.field \in {"u1", "u2", "v", "g", "h"} PROVE FALSE
  <2>1. ChangedOn(sd, pr, seed)
    BY <1>4, <1>8
  <2>2. OpensU1 /\ OpensU2 /\ InnerCommitmentOpens /\ QuadraticOpens /\ LinearOpens
    BY <1>6, <1>8 DEF FiveHold
  <2> QED
    BY <1>8, <2>1, <2>2, U1Caught, U2Caught, VCaught, GCaught, HCaught
<1> QED
  BY <1>7, <1>8

\* Iteration.ChangeIsCaught, for every instance: a change of the constant term
\* of b'', of a commitment of v2 or of what it commits to is caught, in one
\* element by any amount that is not zero modulo q (verifier.rs, verifier_v2.rs).
THEOREM ChangesAreCaught ==
  ASSUME DrawsAreResidues PROVE Spec => []ChangeIsCaught
<1>1. FinalInv => ChangeIsCaught
  BY CaughtInState
<1> QED
  BY <1>1, FinalInvariance, PTL
=============================================================================
