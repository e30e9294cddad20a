--------------------------- MODULE Decomposition ---------------------------
(***************************************************************************)
(* Base-b decomposition and its inverse, crates/labrador/src/garbage.rs:   *)
(* the digit loop of decompose on one coefficient, followed by the loop of *)
(* recompose on the chunks it left.  Coefficients do not interact, so one  *)
(* stands for the D of a ring element.                                     *)
(*                                                                         *)
(* The commitments are made to the chunks, the equations are about the     *)
(* values: prover, verifier and fold each decompose on their own and rely  *)
(* on getting the value back.                                              *)
(***************************************************************************)
EXTENDS Modulus

CONSTANTS
  Moduli,       \* the moduli q' considered
  Bases,        \* b, b1 and b2 of params.rs
  PartCounts    \* t, t1 and t2

ASSUME ModuliAssumption == \A q \in Moduli : IsModulus(q)
ASSUME BasesAssumption == Bases \subseteq Nat \ {0}
ASSUME PartCountsAssumption == PartCounts \subseteq Nat \ {0}

VARIABLES
  q, base, parts,
  x,        \* the coefficient, a residue
  pc,       \* "split" in decompose, "join" in recompose, then "done"
  part,     \* the loop variable of either
  rest,     \* history: v at the start of each pass of the digit loop
  chunks,   \* the coefficient's chunks, residues
  acc,      \* recompose's v
  scale,    \* recompose's scale
  out       \* the recomposed coefficient

decomposeVars == <<q, base, parts, x, pc, part, rest, chunks, acc, scale, out>>

Chunks == 0..(parts - 1)
Last == parts - 1

-----------------------------------------------------------------------------
\* i128's %: its sign is the dividend's.
TruncRem(v, b) == IF v >= 0 THEN v % b ELSE -((-v) % b)

Half(b) == b \div 2

Digit_PositiveOnly(v, b) ==
  LET r == TruncRem(v, b) IN IF r > Half(b) THEN r - b ELSE r

\* The remainder moved into -Half(b)..Half(b).
Digit(v, b) ==
  LET r == TruncRem(v, b)
  IN IF r > Half(b) THEN r - b ELSE IF r < -Half(b) THEN r + b ELSE r

\* The division is exact.
Quotient(v, b) == (v - Digit(v, b)) \div b

-----------------------------------------------------------------------------
\* decompose returns at once for base 1: nothing but chunk 0 is needed.
DecomposeInit ==
  /\ q \in Moduli /\ base \in Bases /\ parts \in PartCounts
  /\ x \in Residues(q)
  /\ part = 0
  /\ rest = [j \in Chunks |-> IF j = 0 THEN centered(q, x) ELSE 0]
  /\ chunks = [j \in Chunks |-> IF base = 1 /\ j = 0 THEN x ELSE 0]
  /\ pc = IF base = 1 THEN "join" ELSE "split"
  /\ acc = 0 /\ scale = 1 /\ out = 0

\* One pass of the digit loop, for all chunks but the last.
SplitDigit ==
  /\ pc = "split" /\ part < Last
  /\ chunks' = [chunks EXCEPT ![part] = from_i64(q, Digit(rest[part], base))]
  /\ rest' = [rest EXCEPT ![part + 1] = Quotient(rest[part], base)]
  /\ part' = part + 1
  /\ UNCHANGED <<q, base, parts, x, pc, acc, scale, out>>

SplitLast_Reduced ==
  /\ pc = "split" /\ part = Last
  /\ chunks' = [chunks EXCEPT ![part] = from_i64(q, Digit(rest[part], base))]
  /\ pc' = "join" /\ part' = 0
  /\ UNCHANGED <<q, base, parts, x, rest, acc, scale, out>>

\* The last chunk takes whatever is left.
SplitLast ==
  /\ pc = "split" /\ part = Last
  /\ chunks' = [chunks EXCEPT ![part] = from_i64(q, rest[part])]
  /\ pc' = "join" /\ part' = 0
  /\ UNCHANGED <<q, base, parts, x, rest, acc, scale, out>>

\* One pass of recompose's loop, which ends after the last chunk.
JoinChunk ==
  /\ pc = "join" /\ part < parts
  /\ acc' = acc + scale * centered(q, chunks[part])
  /\ scale' = scale * base
  /\ part' = part + 1
  /\ UNCHANGED <<q, base, parts, x, pc, rest, chunks, out>>

\* The cast of v to i64 is left out: it is the identity at the system's
\* parameters, where a chunk is below half of q' and the scales stay far from
\* 2^63 / q'.
JoinEnd ==
  /\ pc = "join" /\ part = parts
  /\ out' = from_i64(q, acc)
  /\ pc' = "done"
  /\ UNCHANGED <<q, base, parts, x, part, rest, chunks, acc, scale>>

DecomposeNext == SplitDigit \/ SplitLast \/ JoinChunk \/ JoinEnd

DecomposeSpec == DecomposeInit /\ [][DecomposeNext]_decomposeVars

-----------------------------------------------------------------------------
\* The type invariant.  The values of v that the loop passes through are those
\* of centered residues: from_i64 loses nothing of them.
TypeOK ==
  /\ q \in Moduli /\ base \in Bases /\ parts \in PartCounts
  /\ x \in Residues(q)
  /\ pc \in {"split", "join", "done"}
  /\ part \in 0..parts /\ (pc = "split" => part < parts)
  /\ rest \in [Chunks -> Int] /\ \A j \in Chunks : 2 * Abs(rest[j]) < q
  /\ chunks \in [Chunks -> Residues(q)]
  /\ acc \in Int /\ scale \in Nat
  /\ out \in Residues(q)

\* garbage.rs:66: "recompose(decompose(x), b) = x exactly, regardless of x's
\* magnitude", and of whether base^parts reaches q.
RoundTrip == pc = "done" => out = x

\* No digit exceeds half the base in magnitude, the norm that params.rs takes
\* the variance of a chunk, base^2/12, from; only the last chunk may.
WithinHalfBase ==
  \A j \in Chunks : base # 1 /\ j < Last => 2 * Abs(centered(q, chunks[j])) <= base
=============================================================================
