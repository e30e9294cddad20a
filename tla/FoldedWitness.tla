--------------------------- MODULE FoldedWitness ---------------------------
(***************************************************************************)
(* build_folded_witness of crates/labrador/src/fold.rs: the loop that       *)
(* copies the entries of z^(0), z^(1) and of the chunks of v, g and h into  *)
(* the witness vectors of the next iteration, slot by slot.                 *)
(***************************************************************************)
EXTENDS FoldLayout

CONSTANT Shapes      \* the shapes to consider

ASSUME ShapesAssumption ==
  Shapes \subseteq {s \in Shape : s.n > 0 /\ s.r > 0 /\ s.t1 > 0 /\ s.t2 > 0
                                  /\ s.kappa > 0 /\ s.nu > 0 /\ s.mu > 0}

VARIABLES
  shape,    \* the parameters of this fold
  witness,  \* the new witness: what each slot holds
  zNext,    \* the loop variable of the z loop
  vNext,    \* <<i, k, idx>> of the V loop
  ghNext    \* <<i, j, c>> of the G/H loop, c counting the chunks of g_ij and h_ij

copyVars == <<shape, witness, zNext, vNext, ghNext>>

ZeroSlot == <<"zero">>

\* A write outside the vectors is a panic in the code; here it leaves a
\* function that is not on Slots(shape), which FitsVectors rules out.
Write(f, slot, value) == [s \in DOMAIN f \cup {slot} |-> IF s = slot THEN value ELSE f[s]]

CopyInit ==
  /\ shape \in Shapes
  /\ witness = [slot \in Slots(shape) |-> ZeroSlot]
  /\ zNext = 0 /\ vNext = <<0, 0, 0>> /\ ghNext = <<0, 0, 0>>

\* Both halves of z, one position at a time.
CopyZ ==
  /\ zNext < shape.n
  /\ witness' = Write(Write(witness, Z0(shape, zNext), ZEntry(0, zNext)),
                Z1(shape, zNext), ZEntry(1, zNext))
  /\ zNext' = zNext + 1
  /\ UNCHANGED <<shape, vNext, ghNext>>

CopyV_OneRowMore ==
  LET i == vNext[1]  k == vNext[2]  idx == vNext[3]
      e == <<"V", i, k, idx>>
  IN /\ zNext = shape.n
     /\ i <= shape.r
     /\ witness' = Write(witness, E(shape, Pos(shape, e)), e)
     /\ vNext' = IF idx + 1 < shape.kappa THEN <<i, k, idx + 1>>
                 ELSE IF k + 1 < shape.t1 THEN <<i, k + 1, 0>> ELSE <<i + 1, 0, 0>>
     /\ UNCHANGED <<shape, zNext, ghNext>>

CopyV ==
  LET i == vNext[1]  k == vNext[2]  idx == vNext[3]
      e == <<"V", i, k, idx>>
  IN /\ zNext = shape.n
     /\ i < shape.r
     /\ witness' = Write(witness, E(shape, Pos(shape, e)), e)
     /\ vNext' = IF idx + 1 < shape.kappa THEN <<i, k, idx + 1>>
                 ELSE IF k + 1 < shape.t1 THEN <<i, k + 1, 0>> ELSE <<i + 1, 0, 0>>
     /\ UNCHANGED <<shape, zNext, ghNext>>

\* For each pair i <= j the t2 chunks of g_ij, then the t1 chunks of h_ij.
CopyGH ==
  LET i == ghNext[1]  j == ghNext[2]  c == ghNext[3]
      e == IF c < shape.t2 THEN <<"G", i, j, c>> ELSE <<"H", i, j, c - shape.t2>>
  IN /\ vNext[1] = shape.r
     /\ i < shape.r
     /\ witness' = Write(witness, E(shape, Pos(shape, e)), e)
     /\ ghNext' = IF c + 1 < shape.t2 + shape.t1 THEN <<i, j, c + 1>>
                  ELSE IF j + 1 < shape.r THEN <<i, j + 1, 0>> ELSE <<i + 1, i + 1, 0>>
     /\ UNCHANGED <<shape, zNext, vNext>>

CopyNext == CopyZ \/ CopyV \/ CopyGH

CopySpec == CopyInit /\ [][CopyNext]_copyVars

-----------------------------------------------------------------------------
Done == ghNext[1] = shape.r

TypeOK ==
  /\ shape \in Shapes
  /\ \A slot \in DOMAIN witness : witness[slot] \in Sources(shape) \cup {ZeroSlot}
  /\ zNext \in 0..shape.n
  /\ vNext \in (0..shape.r) \X (0..(shape.t1 - 1)) \X (0..(shape.kappa - 1))
  /\ ghNext \in (0..shape.r) \X (0..shape.r) \X (0..(shape.t1 + shape.t2 - 1))

\* No write leaves the r' vectors of length n' (fold.rs:590, the debug_asserts
\* at 158, 165 and 172 are compiled out of a release build).
FitsVectors == DOMAIN witness = Slots(shape)

\* fold.rs:581: "The fold layout maps each source position to a unique
\* (witness_idx, off) slot, so writes are non-overlapping."
NonOverlapping == [][\A slot \in DOMAIN witness : witness[slot] # ZeroSlot => witness'[slot] = witness[slot]]_copyVars

\* When the loops end every entry is where the constraint builders look it up,
\* and every other slot is zero: the folded constraints speak of the openings.
Placed ==
  Done => /\ \A x \in Sources(shape) : witness[SlotOf(shape, x)] = x
          /\ \A slot \in DOMAIN witness : witness[slot] # ZeroSlot => SlotOf(shape, witness[slot]) = slot
=============================================================================
