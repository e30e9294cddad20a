# Specifications of aggregate-falcon-rs

TLA+ models of the aggregation of Falcon-512 signatures with recursive LaBRADOR,
the TLC runs that check them and the TLAPS proofs about them. Paths are
relative to the repository; `labrador/` stands for `crates/labrador/src/`.

## The system

The program is a pipeline without persistence or network. A caller hands over
signatures; the library builds one quadratic statement about them, and LaBRADOR
proves it in a few iterations, each of which turns the openings of the last one
into the witness of a smaller statement. Only the last iteration's openings are
sent. Threads exist inside a step only (Rayon maps and reductions).

| component | state | operations | interacts with |
|---|---|---|---|
| public API (`aggregate-falcon/src/lib.rs`) | none | `aggregate`, `verify`, `build_verifier_statement` | builds the statement twice: from the signatures, and from public data only |
| Falcon relation (`falcon-relation/src/relation.rs`) | the statement and witness under construction | witness layout, one constraint builder per relation | fills a `Statement` |
| Falcon formats (`parse.rs`, `falcon_ring.rs`, `embed.rs`) | none | decoding, hash-to-point, embedding | feed the relation |
| recursion driver (`labrador/aggregate_v2.rs`) | `cur_stmt`, `cur_witness`, the transcript, the loop variable | prove and verify loops, progress events | one iteration, fold |
| iteration (`prover_v2.rs`, `verifier_v2.rs`) | the transcript, the challenges of the iteration | five steps: commit, project, constrain, linearize, amortize; twelve ways to refuse | transcript, commitments, decomposition |
| fold (`fold.rs`) | the replay, the next statement and witness | `replay_iteration`, `fold_statement_with_replay`, `build_folded_witness` | between two iterations |
| transcript (`transcript.rs`) | the hasher | absorb, squeeze, samplers | every step |
| commitments, projection, challenges, garbage (`commit.rs`, `jl.rs`, `challenge.rs`, `garbage.rs`) | none | arithmetic and sampling | the iteration |
| parameters (`params.rs`) | none | the sequence of shapes and moduli | all |
| wire format (`wire.rs`) | bit cursor | encode, decode | proof bytes |
| arithmetic (`modring`) | none | Z_q, polynomials, NTT, CRT | all |

What is hard here is agreement: three functions written separately walk the same
transcript; two programs build the same chain of statements, one of them without
the openings; five numberings have to fit into each other without a collision;
and the verifier's shortcuts (no check at all on intermediate iterations) are
sound only if the next statement says what was skipped. Nothing restarts
and no message is lost; a proof may however arrive changed or cut.

What makes each component correct:

- driver and iteration: the transcripts stay in lock-step exactly as long as the
  proof is the prover's; every message is absorbed before the challenges that
  depend on it; an honest proof is accepted; an accepted proof is the
  prover's; the reason of a refusal is determined; progress events are paired.
- fold: both sides fold into the same statement; each opening has one slot of
  its own, the one the constraint builders use.
- decomposition: lossless, and chunks within half the base.
- Falcon relation: each signature's constraints speak of its own positions only.
- parameters: every fold that the chosen depth asks for is defined, and the statements
  are no larger than the estimator took them to be.
- algebra of an iteration: a true statement is accepted, and folded into a true one,
  whatever is drawn; a folded constraint says what the check it replaces says;
  aggregation loses no constraint; the projection is tied to the witness.
- arithmetic: the modulus found is prime, and both ways of multiplying give the same product.
- wire: decoding inverts encoding, field by field in step; a file without its end is refused.
- samplers: in range, without bias, and they practically never give up.

## Modules

| module | models | extends |
|---|---|---|
| `Transcript` | `transcript.rs`: a challenge is the sequence of updates it was squeezed from | |
| `Faults` | the messages of a delivered `AggregateProofV2` and the ways it may differ from the prover's | |
| `LabradorRecursion` | `aggregate_v2.rs` around `prove_v2_with_replay`, `replay_iteration` + `fold_statement_with_replay`, and `verify_v2` | `Transcript`, `Faults` |
| `MCRecursion` | its bounds for TLC | `LabradorRecursion` |
| `AggregateOracle` | what the above promises: the verdict as a function of the faults and of the witness | `Faults` |
| `FoldLayout` | `ELayout`, `ChopLayout`, `FoldedLayout` | |
| `FoldedWitness` | the copy loops of `build_folded_witness`; `MCFoldedWitness` has the shapes for TLC | `FoldLayout` |
| `RingElements` | elements of Z_q[X]/(X^D + 1), their norms and digits | `Modulus` |
| `DotProducts` | `statement.rs`, `compute_g`, `compute_h`, the projection, the aggregation of `prover.rs` | `RingElements` |
| `FoldedChecks` | the builders of the folded constraints | `DotProducts`, `FoldLayout` |
| `Iteration` | `prove_v2`, `fold`, `verify_v2`, and v1's `prove` and `verify`, with their algebra; `MCIteration` has the instances | `FoldedChecks` |
| `Shapes` | the chain of iterations planned by `params.rs` beside the real shapes | `FoldLayout`; instantiates `WitnessLayout` |
| `PrimeField` | powers, inverses, primality, roots of unity | `Modulus` |
| `RingProduct` | the prime searches, `sqrt`, `Ring::new`, `Ring::mul`; `MCRingProduct` has the rings | `PrimeField` |
| `WitnessLayout` | the numbering of vectors and positions of the Falcon witness | |
| `FalconRelation` | `build_honest_witness` and the six constraint builders, run by `build_falcon_statement` and by `build_verifier_statement` | `WitnessLayout` |
| `Modulus` | residues and their centered representatives | |
| `Decomposition` | the digit loops of `decompose` and `recompose` | `Modulus` |
| `BitQueue` | what a bit stream promises: bits out in the order they went in | |
| `BitStream` | `BitWriter` and `BitReader` with their words, bytes and positions | implements `BitQueue` |
| `WireWords` | the sizes of a word and of a byte | |
| `WireCodes` | length prefix, Golomb-Rice, zigzag, signed residues | |
| `WireScalars` | one value through one code and back | `WireCodes` |
| `ProofWire` | `pack`, delivery, `unpack` field by field | `WireCodes` |
| `RejectionSampling` | `derive_below`, `derive_field_array` | |
| `ChallengeSampling` | `sample_challenge`, `check_norms` | `RejectionSampling`, `Modulus` |
| `LabradorRecursionProofs` | theorems about the recursion: types, binding, verdicts, events and the refinement of the oracle | `LabradorRecursion` |
| `SumProofs` | numbers, finite sets and sums: the lemmas that the proofs share | |
| `AlgebraProofs` | the layout of the folded witness; the ring, its digits, and what the operators of an iteration return | `FoldedWitness`, `Iteration`, `SumProofs` |
| `IterationProofs` | the inductive invariant of an iteration and the theorems that rest on it | `AlgebraProofs` |
| `FalconRelationProofs` | theorems about the Falcon statement | `FalconRelation` |
| `PrimitiveProofs` | theorems about the plan and the shapes, the samplers, and the decomposition | `Shapes`, `ChallengeSampling`, `Decomposition`, `SumProofs` |
| `RingProductProofs` | theorems about the searches, the roots, the transforms and both products | `RingProduct`, `SumProofs` |
| `WireProofs` | theorems about `wire.rs`: the bit stream, the codes and the file | `BitStream`, `ProofWire`, `WireScalars` |

A name with an underscore (`Root_Unbound`) is a variant of the definition with
a plausible slip in it. No specification uses one; each shows that a property notices the slip.

### LabradorRecursion

The prover's five actions are the five steps of `prove_v2_with_replay`, with all
transcript calls of the step in order; `ProveFold` and `Deliver` are the rest of
the driver's loop body. `VerifyHeader` is the part of `verify_aggregate` before
its loop. For an intermediate iteration the five `Replay...` actions are the
stages of `replay_iteration` and `ReplayFold` builds the next statement; for the
last one the `Verify...` actions are `verify_v2`, each up to and including the
checks that follow its squeezes. An error or a panic ends the verifier.

Values are abstracted to what the checks compare. A message is the prover's or
another one; a challenge is the transcript prefix it was drawn from, which is
what a random oracle makes of it; an equation holds if all messages and
challenges in it are those the prover used and the witness satisfies what it
expresses. Commitments thus bind, and a random combination never cancels: the
model is about the protocol's order and bookkeeping, not about its
cryptographic soundness error. A statement is the record of what
`bind_statement` hashes: the caller's public data, or the challenges and
right-hand sides it was folded from. What the witness is worth (does it satisfy
F and F', is p short, are the openings short) is chosen nondeterministically,
since the prover looks at none of these.

A fault is one of the edits that the repository's tests make to a proof
(`labrador/tests/recursion_v2.rs`, `aggregate-falcon/tests/roundtrip.rs`): another value in a
message, a vector of the wrong length, another number of iterations, another
modulus, missing openings, or another statement on the verifier's side.
`absorb_ring_vec` absorbs the number of elements and those there are, so that a
shortened vector is another message to the transcript, like an altered one (`Changed`): the
challenges differ from the next squeeze on, also where the code notices the length only
later, by an index out of range (b'' when it is aggregated, u_1 and u_2 in the fold). An
intermediate vector with entries too many is absorbed whole and read up to the length
expected: it counts as altered.

### FoldLayout and FoldedWitness

`FoldLayout` is the index arithmetic as operators on a shape
`[n, r, t1, t2, kappa, nu, mu]`. `FoldedWitness` runs the loops of
`build_folded_witness`, one position of z, one chunk entry of v, g or h a step,
each writing into the vectors; a write outside them would be a panic and shows
as a witness on other slots.

### RingElements, DotProducts, FoldedChecks and Iteration

`LabradorRecursion` takes an equation for its truth value; here it is computed. The
ring is Z_13[X]/(X^2+1), the elements are functions, the sparse phi and a of a
constraint are functions from slots and pairs, so that merging buckets is adding
up what falls on one slot. An action is a round of the prover: what is drawn, and
the messages computed from it. A draw has a seed, from which `Squeeze` gives each
residue by label and index; seed 0 gives zeros throughout, so that no property can
rest on a lucky challenge. Challenges c_i are plus or minus 2 X^k, of weight one and never
a zero divisor, as in a ring with few zero divisors they nearly always are.

`Deliver` changes at most one element of the proof, and draws anew exactly the
rounds whose transcript contains it. `Fold` builds the next statement and witness
(`fold_with_replay`), `Recurse` goes on with it; `Verify` computes the checks of
`verify_v2`, or of v1's `verify`, in the code's order. v1 keeps v in the clear, has no
projection and sends z whole; v2 shares the rest with it, as the code does. The length checks,
errors and progress events are in `LabradorRecursion`. Where Rayon may split a sum
the model adds two parts at any cut (`Commit`); the parallel maps of `aggregate_full` collect in
order, so that no order is left open there. v1's kappa of 8 is a parameter.

### Shapes

`Plan` is a turn of `recursion_to_depth_no_last_opt`, `Relate` the statement of the
Falcon relation, `Fold` the shape that `fold_statement_with_replay` gives the next
statement. What the estimator decides in floating point (t1, t2, kappa, nu, mu, and which
depth is best) is any value of small sets: the two properties rely on no estimate.
The search keeps the first depth of least size; depths 1 and 2 build the same two
iterations, so depth 2 is never kept, and a strict comparison keeps depth 1 if all are equal.
Then the only statement is that of the relation and its iteration is the first, not
the last, of the chain, contrary to `proof.rs:88`; for the numbers of signatures in
the tests the code chooses larger depths. For some numbers of signatures the estimate exceeds
what is built (for two signatures r is 13 and not 10), which costs size and nothing else. With one
signature `get_kappa` panics, in floating point and out of this model.

### PrimeField and RingProduct

A step is a candidate of a prime search, a round of Tonelli and Shanks, or a group of
butterflies that share a twiddle. The degree, 64 in the code, is a parameter. `sqrt` has a branch for
moduli that are 3 modulo 4, which no search returns; it is left out. For -1 one
round always suffices, hence the other `Radicands`. `modulus.rs:211` says that the root of
unity has exactly the order asked for: true of powers of two, the only orders asked for.

### WitnessLayout and FalconRelation

Each pass of an outer loop is an action: one signature placed, one signature's
equation or norm constraint, one row's or column's form constraints. The
coefficients of the witness are symbols (`s1`, `s2`, `eps`, `v` of a signature at
an exponent, with a sign), and so are those of the keys and hashes; the
properties evaluate a constraint on the witness as a set of signed products of
symbols. A constraint that vanishes so, vanishes for all signatures. The
integers behind `eps` and `v` (`four_square`, `compute_v_signed`) are defined by
the equations that the constraints state, so the model names them and no more.
After the prover the same builders run for the verifier, whose `FalconSig` has
zeros for s1 and s2. A statement is a set of constraints: the order, which the
transcript does see, is that of the same loops on both sides.

### Modulus and Decomposition

`Decomposition` runs `decompose` on one coefficient, one digit a step, and
`recompose` on what it left. TLA+'s `%` is Rust's `rem_euclid`; the truncated
remainder of Rust's `%` is `TruncRem`. i128 is wide enough for all intermediate
values (they stay within q'/2, `TypeOK`). The cast of the sum to i64 in `recompose` is left
out, here and in `RingElements`: at the system's parameters the sum is below 2^63.

### WireWords, BitStream, WireCodes and ProofWire

The wire format is modelled in two layers. `BitStream` has the code's words and bytes, as
sets of the positions of their ones, so that OR, AND and shifts are operations on
sets. A call is a step of its caller, which leaves its value and width in `call`, and the steps of
the code that answers it: one for `write_bits`, one per turn of its loop for `read_bits`. It
implements `BitQueue`, where `call` is the same variable: `Put` appends the low bits of the value
in the call, in its width, `Get` returns as many bits as the call asks for, and `GetTooMuch` is possible
only when there are fewer. A carry that is lost or shifted wrongly, another width, or a premature
Truncated is thus a step that the queue cannot take; the run's mutant shifts the carry by the wrong amount. The
upper layer may therefore treat the stream as a sequence of bits. `WireCodes` has
each code as such a sequence together with its reader. `ProofWire` packs a proof in one step,
delivers the file (whole, with bytes added, cut anywhere, or with another number of
signatures in its header) and unpacks it, a field a step. The parameters
of the Golomb-Rice codes come from floating-point estimates in `params.rs`; both
sides compute them from `n_sigs`, so they are a function of it here, and the two
fixed header fields `q_prime` and `beta_sq` are left out. An error in a
field is `Refused`, the ones of `unpack` itself keep their names. `Refused` also stands for the panic or
abort of `Vec::with_capacity` on a misread length. The header is one that `pack` wrote, with
at most another number of signatures: a length field that makes `HEADER_LEN + payload_len` wrap is not modelled.
`DamageRefused` is about files that lost their end and about a number of signatures with another depth; one
with the same depth is misread, and nothing in the file tells the reader.

### RejectionSampling and ChallengeSampling

A squeeze yields any word, so the samplers are explored for all outcomes of the
hash. `rejected` counts what the code does not: the words thrown away. `sample_challenge`
makes two calls of `derive_below` for each coefficient, one for its place and one for
its value; the same specification also has the calls that other code makes.

## Runs

| run | what it asks | bounds |
|---|---|---|
| `recursion` | transcripts, folds, verdicts and events of both programs | depths 1 to 3, every fault, every pair of them at depths 1 and 2; every worth of the witness (for depth 3, and for pairs at depth 2, of one that satisfies the statement) |
| `intermediate_checks` | does acceptance imply the intermediate checks, as `aggregate_v2.rs:16` says? | depth 2, no fault; a counterexample is expected |
| `folded_witness` | no overlap, nothing outside, everything placed | n, r up to 3; t1, t2, kappa, nu up to 2; mu 1, 2 and 5: 432 shapes |
| `falcon_relation` | placing, meaning and completeness of the constraints; equal statements | N = 1, 2, 3, 5, 7; 5 slots of degree 3; one slot of h zero |
| `decomposition` | round trip and digit bounds | moduli 3 to 37, all residues, bases 1 to 7, up to 4 parts |
| `bit_stream` | do words and bytes implement a queue of bits, call by call? | words of 4 bits, bytes of 2, up to 9 bits, all widths and values |
| `wire_scalars` | does every code give its value back, or refuse it? | all 8-bit words, four parameters, moduli 3, 5, 17, 61; unary limit 40 |
| `proof_wire` | round trip, lock-step of reader and writer, damaged files | depths 1 and 2, three numbers of signatures, 864 proofs; words and bytes of 4 bits |
| `sampling` | range, bias and patience of the samplers; weight of a challenge, no redraw | words of 4 bits, every bound, arrays of 1 and 2, limits 2 and 3; 3 of 4 coefficients modulo 7 |
| `ring_product` | the searches, the square root, the transforms and both products | seven searches giving rings of degree 2, 4 and 8; factors of at most two terms with coefficients 1 and 3 |
| `shapes` | is each fold defined, and each statement within its plan? | N = 1 to 7 and 10; depths 1, 3 and 4; two values for each choice of the estimator |
| `iteration` | completeness of v1 and v2, folded constraints against checks, aggregation, projection, changed proofs | q = 13, D = 2, eight chains and statements of one or two iterations, two seeds per round, 24 changes |

Two iterations show every kind of step (a replayed one and a verified one)
and three add a fold of a fold; more repeat the middle. A second
fault matters for the order of reasons only. For the layout the shapes include
pieces that divide their vector and pieces that do not, more pieces than
entries, and either of z and e the longer; the theorems cover the rest. The
numbers of signatures include grids that are wider than high, higher than wide,
square, and with a last row that is not full; five slots are the four with roots
and one without, and degree 3 is the least for which exponents l and D - l can
be told apart. In `iteration` there are false statements and witnesses beyond the
bound, folds into one and into several pieces, with nu and mu 2, kappa and kappa1 2, and chains in
which a fold is folded again; the bound of the honest ones is far above their norms, since the
slack of the bound belongs to the estimates. The prime searches pass 1681, the square of 41, which has no small
factor, and a bound below which there is no prime of the class. Residues include bases whose power is below the modulus, equal
parities and base 1, which has a path of its own. Nine bits fill two words of four
and begin a third, with splits at every place; the reader's chunks are of one or
two bits. The unary limit is low enough to refuse some values and high enough for
most; all words but those of the full width are tried as lengths. The files have
empty and zero vectors, negative entries, and parameters that differ between
fields, iterations and numbers of signatures, and projections at both ends of the signed range. A file under another number of signatures is read with the
wrong parameters, so that any bits may become a length: 7 is the largest that `LenWidth` 2 can say, as 2^63 - 1 is for 6, and
keeps the folds over a misread matrix short. The
bounds of the samplers include 1, powers of two, the largest word and
numbers that leave almost half of the words over.

Fairness: `FairSpec` assumes weak fairness of the next step. Both programs are
straight-line code over finitely many iterations that waits on nothing but its
input, so a step that can be taken is taken. `ImplementsOracle` includes that
every delivered proof is answered.

All runs allow deadlock: every program here ends.

### Disagreements with the documentation

`aggregate_v2.rs:16-19` says that the fold's constraints "are exactly what
`verify_v2` would have checked on the intermediate iteration" and that accepting
the deepest one "implies all intermediate checks pass". Two checks of
`verify_v2` are not among them: the bound on p, and the comparison of the
constant terms of b'' with the psi-combination of the b_0. The fold emits no
constraint for either (its F' is empty, `fold.rs:507`) and `replay_iteration`
makes neither. `intermediate_checks` shows a depth-2 proof accepted although the
first iteration's F' does not hold. `HonestAccepted` and `AcceptedIsGenuine`
are stated so as to hold of the code: the latter claims F, and F' only at depth 1.

Five more were noticed in reading and have no run. `wire.rs:121` claims lengths up to
2^64, but a bit length of 64 is stored in six bits as 0; no proof has such a length.
`challenge.rs:9-14` describes a rejection loop for tau = 86 and the operator norm;
`check_norms` compares with 172, which every draw meets, and computes no operator
norm, as the comment at `challenge.rs:19-22` says (`GivesUpLate` shows that nothing is drawn twice).
`garbage.rs:62-63` gives
(-b/2, b/2] as the range of the digits, but an even base leaves -b/2 (the
magnitude, which the norm estimates use, is right); `wire.rs:27` gives the entries
of p a fixed width, but they are Golomb-Rice coded; and the doc comment at
`relation.rs:631-639` speaks of four ties per signature on e', where the body
pins the rest of e' to zero as well, as a comment inside it says.

## Proofs

Every theorem is about the specification for all values of its constants. An
invariant that a run checks is seldom inductive; what follows says what had to be
added to it and why.

**The recursion**, for every set of depths, every worth of the witness and up to two faults:

- `TypeCorrect`: the type invariant.
- `LockstepHolds`, `ChallengesBindHolds`, `FoldsAgreeHolds`. The state alone is not
  enough: the inductive invariant (`Binding`) describes every transcript
  the prover has passed as an extension of the one before, ties the verifier's
  transcript, statement and drawn challenges to the prover's exactly when the
  faults so far allow it, and uses the injectivity of `Absorb` and `Squeeze`
  in both directions: equal histories have equal last entries and equal prefixes.
- `HonestAcceptedHolds`, `AcceptedIsGenuineHolds`. `AcceptInv` adds to
  the above what each stage of `verify_v2` has let through: a fault that survives a
  stage is one of a later one, the equations of the last iteration hold only if all
  their inputs are the prover's, and what the prover folded is as good as the input.
- `ProgressMatchesHolds`: the verifier's bar is a function of where the verifier is,
  for the states of its loop and for each verdict.
- `RefinesOracle`: every step of the recursion is a step of `AggregateOracle` or a
  stutter. The oracle gives the first reason that applies, and the verifier's is the first because
  `AcceptInv` excludes, with each stage passed, the reasons of that stage. `OracleInv` adds
  what the verdict also depends on: F' of a folded statement is empty, and whoever came to the
  constant terms has found p within its bound. This is the safety
  part of `ImplementsOracle`; its liveness part, that every delivered proof is
  answered, stays with TLC.

**The folded witness**, for every shape with positive entries:

- `AllWritesFit`, `WritesAreApart`, `AllPlaced`, `TypesHold`. The module first
  shows each numbering injective and in range: the triangle by comparing twice
  the row offsets (a product of neighbours is even), the mixed radix and the
  pieces by division with remainder. They compose into
  `SlotInjective`, and the invariant says that the slots hold the sources the
  loop variables have passed, each at its own slot, and nothing else. It is
  needed because `Placed` speaks of the end only and `NonOverlapping` of one step.

**An iteration**, for every odd modulus, degree, statement, witness, chain of parameters and choice of
changes, and every way to draw residues:

- `IterationInvariance`: `IterationInv` gives the shapes of statement, witness and messages at each stage, says
  that what the verifier aggregated is the replay of what arrived, and that the folded statement and witness
  are the ones `fold` makes of it. The three properties after it speak of what was delivered, by a prover or changed,
  so that none of them is inductive without it.
- `ProjectionIsTied`: a constant term is a sum over positions and coefficients, and sigma of the row of Pi picks
  from it the coefficients of the projection's row.
- `CombinationsHold`: the value of a relation is linear in a, phi and b; aggregation regroups a double
  sum, by slot of the aggregate instead of by constraint.
- `FoldedMeansChecked`: a folded constraint is a sum over the slots of the folded witness, and the slots are in bijection
  with the openings (`SlotInjective`); summed by opening, the chunks of one entry recompose to
  the entry, which leaves the sum of the check. The norms agree by the same bijection.
- `FinalInvariance`: `HonestInv` adds that what was sent is what the prover computes from the witness and
  the seeds of each round, by a formula for each message that later rounds do not change; that what arrived is such a proof
  with one element changed at most, and the rounds after that element drawn anew; and that a proof
  that was folded to go on was not changed. `FinalInv` adds that the verdict is the one of the checks.
- `HonestIsAccepted`: each equation that `verify`, `verify_v2` and `fold` state holds of z = sum c_i w_i
  by the laws of the ring; the constant terms of b'' are those expected because each combined constraint has
  none. Only norms can then refuse: whether the openings stay below beta^2 (`WithinNorm`, and at a fold
  the norm in `satisfies`), and whether p stays in its bound (`WithinJlBound`), depends on the parameters and on the draws.
  This is the hypothesis `NormsFit`; the run, without it, has norms that stay in their bounds.
- `ChangesAreCaught`: what the transcript absorbs after the draws a check uses cannot move them. A commitment changed alone
  differs from the one recomputed. An entry of v, g or h changed alone moves a sum by c_i, c_i^2 or
  2 c_i c_j times the difference, and a challenge (here plus or minus 2 X^m) is no divisor of zero, since q is odd and a product
  with X^m moves coefficients without mixing them. The constant term of b'' is fixed before b'' is absorbed.

Their one hypothesis is `DrawsAreResidues`, that every draw is in 0..q-1, which is what the samplers return
(`SamplersAreFair`) and what the run's `Squeeze` does; it is no `ASSUME` because TLC cannot enumerate all labels and indices.

**The Falcon statement**, for every number of signatures, slot count and degree:

- `TermsInRange`, `EachInItsPlaceHolds`: the vector indices are apart and the windows
  of signatures are disjoint, by division with remainder.
- `OwnNormOnlyHolds`: the invariant says which pins the passes so far have added, on
  either side. A position that is free in a row's vector belongs to the row, one
  free in a column's to the column, and row and column determine the signature.
  That rho is the rounded root is not needed; any positive number would do.
- `VerifierBuildsTheSame`, `WitnessIsRigid`, `HonestWitnessSatisfies`. They speak of the end only.
  `BuiltInv` says for each side that its statement is what the passes made so far have
  added and no more; `EachInItsPlace` and `Blank` say which cells of the witness hold which
  symbols and that no other is written, so that at the end (`Ended`) both sides are one explicit set of constraints and the
  witness one explicit function. What is left is algebra of symbols: the homogeneous
  constraints pair each cell with its partner of opposite sign; the row of constraints about h, read with
  the factor Y, is the negacyclic product, since l and j determine the
  sign and the coefficient they meet (`NegacyclicIndex`); and the constant
  term of the quadratic form is the squared norm of the signature.

**The decomposition**, for every odd modulus, base and number of parts:

- `NothingWraps`, `DigitsWithinHalfBase`, `Lossless`: the rest never grows, so that no
  chunk wraps; the rest is the digit plus the base times the next rest, and the sum
  of `recompose` is in step with it.

**The plan and the shapes**, for every number of signatures, depth and choice of the search:

- `FoldDefined`, `PlanIsLargeEnough`. `Chained` says that each planned iteration has the shape the one before folds
  into and that the last and only the last is of stage SecLast; `Fitting` says of the statements built so far
  that each is within its plan and, after the first, has the planned rank. The second
  needs that the estimator's ceilings are not below those of the layout and that the
  length of e grows with the rank.

**The bit stream**, for every width of a word and of a byte that divides it:

- `StreamIsQueue`: the bits of `BitQueue` are those of the flushed bytes followed by the low
  bits of the word, and those the reader has left; the calls are the same. A flush appends exactly the
  word's bits, and a value joined to a word or split over two is a concatenation. The
  invariant says that between reads nothing is gathered and in a read that acc is
  the first got bits of what is wanted (`Gathered`), at a position inside the buffer.

**The codes and the file of `wire.rs`**, for every width of a word, parameter and modulus:

- `CodesReadBack`. A reader's result is first stated for any stream in which the code stands at a given
  place, whatever surrounds it. The bits read are a sum over a set of positions, whose value must not depend on the
  order in which the fold takes them; with that, the lowest n digits of a number sum to its remainder
  modulo 2^n. The laws of the powers of two come from counting subsets. Zigzag and the signed
  residues are inverted by cases on the sign and on the side of q / 2.
- `UnpackInvertsPack`, `ReaderInStep`, `DamagedFilesRefused`, for every proof with the types of `proof.rs` and
  the shapes `write_iter` asserts. In a concatenation each code stands where those before it end
  (`Joined`, `Stands`). The loops of readers are folds; a fold is shown to be the function it would be
  if written by recursion on the count read, from a least count where it is not. There is one such lemma for each
  reader, because a lemma cannot take the reader as an operator. The upper triangle of g and h is unfolded
  with row offsets as in the folded witness. They give `FieldsReadBack`: each field is read back
  wherever it stands.
- Their invariant `WireInv` says that the file is what was packed, or what the damage kept of it, and that a reader that
  has passed m iterations and j fields holds exactly these and is at `Position(m, j)`. `Reassembled` speaks only of
  the end, and `InStep` does not say which field comes next, so neither is inductive. A file that lost its end is
  shorter than its header says, and one relabelled with another depth disagrees with its count of iterations, so
  that their only verdict is given before the payload is read.

**The samplers**, for every word size, bound, modulus, degree and weight:

- `SamplersAreFair`: the words below the cap split into as many residue classes as the bound has
  numbers, all of the size cap / bound (shifting by one class is a bijection), and the cap is above half of all words.
- `WeightIsExact`: places drawn by rank among the free ones are free and, by counting,
  there is one.
- `FirstAttemptAccepted`: the sum of squares of an element is at most four times its support.
  The sum is the fold of the community modules, a recursive function on subsets; that it
  exists and is bounded is shown from a least set without it.

**The ring**, for every degree that is a power of two, every bound above 2d + 1, every radicand, and
every two elements of at most two terms (the proofs use only that they are elements). The four are `Spec /\ []MillerRabinExact => []P`:

- `NearestIsFound`: the candidates lie in one residue class, and `SearchInv` says that all that were passed are composite. That
  rests on `is_prime` accepting every prime, whatever its witnesses, which is proved from Fermat's theorem
  and from 1 having no square roots but 1 and -1 modulo a prime.
- `RootsAreFound`: `RootInv` keeps r^2 = a t, and the order of t a power of two below that of c, so that
  each round lowers it and r is a root when t is 1. That the search for a non-residue ends, and that a residue refused has no
  root, is Euler's criterion.
- `BlocksAlwaysResidues`: the blocks of an array are the nodes of a tree with one root of the modulus X^l - rho each (`NodeRoot`);
  the twiddles, powers of psi in bit-reversed order, are these roots. `NttInv` says that the groups
  a level has passed have cut their blocks in two and the others have not, and that
  an inverse level has joined them again, scaled by two for each level; `CrtInv` says the same of the halves of the split.
- `BothWaysMultiply`: values at the leaves multiply pointwise, residues modulo X^l - rho multiply as elements do, and
  the inverse of the degree takes the scale out. `DoneInv` says that what is left is the product.

`MillerRabinExact` says that a candidate that `is_prime` accepts is prime. That twelve bases are enough for 64-bit
numbers is a published computation and no consequence of the code, hence a hypothesis of the theorems; the run
needs none, since `NearestPrime` compares each prime found with its divisors.

Assumptions are those on the constants: `Depths` are positive, `Outcomes`
are Booleans, at most two faults, `Shapes` are positive, `Moduli` are odd and at
least 3, `Bases` and `PartCounts` are positive, an element has at least four slots
and degree at least two, there is at least one signature, a byte divides a word, the bit length of a word can be stored in
`LenWidth` bits (64 in 6), the moduli of `WireScalars` are words, the modulus of the
challenges is at least 5, and the degree and the four values a coefficient is drawn from are
words (`D` and 4 are at most `Top`; in the code they are 64 and 4 beside `u64::MAX`). For the file, q' is a
word and at least 2, a byte has a bit, the parameters of the Golomb-Rice codes are naturals, and the packed proofs
have a final iteration after the intermediate ones, as many as their number of signatures plans, with lengths that leave
the top bit of a word free and quotients within the limit of `read_gr` (`FieldFits`). For an iteration,
q is odd and at least 3 and the degree, the bases, counts and ranks are positive; the cases to be proved have
a well-formed statement and witness, not necessarily a true one (`CasesAssumption`); there is any number of rows of Pi and of b''
(`RowsAssumption`, `CountAssumption`); and a change of an element adds something that is not zero modulo q to one of its coefficients
(`ChangesAssumption`). For the ring, degrees are powers of two, bounds are above 2d + 1, and coefficients are integers (i64 in the code).

Model-checked only:

- the liveness part of `ImplementsOracle`;
- that the norms of an honest proof stay within their bounds (`NormsFit`): the bounds come from floating-point estimates
  in `params.rs` and, for p, hold of nearly every draw only;
- that `is_prime` accepts no composite number (`MillerRabinExact`), on the candidates the run meets. That there is a
  prime below the bound is not claimed: the search may end in its panic.

## Plan

In this order, each with its run and, where it says so, its theorems:

1. done: `LabradorRecursion` with `AggregateOracle`; its binding theorems.
2. done: `FoldLayout`, `FoldedWitness`; no overlap proved for every shape.
3. done: the two verdict properties, the events and the refinement of the oracle as theorems.
4. done: `Decomposition`; losslessness and digit bounds proved for every base.
5. done: `WitnessLayout`, `FalconRelation`; all of its properties proved.
6. done: `BitQueue`, `BitStream`, `WireCodes`, `ProofWire`; the refinement,
   the codes and the round trip of files proved, for every width of words and bytes.
7. done: `RejectionSampling`, `ChallengeSampling`; their three properties proved.
8. done: `Shapes`; both properties proved, for every number of signatures and depth.
9. done: `RingElements`, `DotProducts`, `FoldedChecks`, `Iteration`: all five properties proved,
   completeness up to the bounds on norms.
10. done: `PrimeField`, `RingProduct`: all four properties proved, given that `is_prime` accepts no composite number.
11. `AggregateApi`: argument checks around building the statement and the recursion.
12. `FourSquare`, `compute_v_signed`: the integer searches of the relation.

Not modelled: Falcon's formats and hash-to-point (`parse.rs`, `falcon_ring.rs`), fixed by an
external standard; the norms, SIS ranks and size estimates of `params.rs` and the
Golomb-Rice parameters, which are floating point; timing, tools, benches and examples, which
change nothing.
