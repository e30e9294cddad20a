----------------------------- MODULE FoldLayout -----------------------------
(***************************************************************************)
(* Where the openings of one iteration go in the witness of the next       *)
(* (crates/labrador/src/fold.rs): ELayout places the chunks of v, g and h   *)
(* in the flat vector e, ChopLayout cuts a vector into pieces, FoldedLayout *)
(* numbers the pieces of z^(0), z^(1) and e.                                *)
(*                                                                         *)
(* A shape s is a record [n, r, t1, t2, kappa, nu, mu]: the length and the  *)
(* number of witness vectors, the chunk counts, the Ajtai rank and the      *)
(* folding parameters.  A chunk entry is a tuple, <<"V", i, k, p>>,         *)
(* <<"G", i, j, k>> or <<"H", i, j, k>>, indexed from zero as EIdx is.      *)
(*                                                                         *)
(* A name with an underscore is a variant with a plausible slip, which a    *)
(* property has to notice.                                                  *)
(***************************************************************************)
EXTENDS Naturals

Shape == [n : Nat, r : Nat, t1 : Nat, t2 : Nat, kappa : Nat, nu : Nat, mu : Nat]

\* Half of the square, and the sum of the first r numbers: pairs (i, j), i <= j.
NUpper(s) == (s.r * (s.r + 1)) \div 2
GOff(s) == s.r * s.t1 * s.kappa
HOff(s) == GOff(s) + s.t2 * NUpper(s)
ELen(s) == HOff(s) + s.t1 * NUpper(s)

\* The rank of (i, j) in the upper triangle, row by row.
RowOff_OneShort(s, i) == i * s.r - (i * (i + 1)) \div 2
RowOff(s, i) == i * s.r - (i * (i - 1)) \div 2
Upper(s, i, j) == RowOff(s, i) + (j - i)

Below(n) == 0..(n - 1)
VEntries(s) == {"V"} \X Below(s.r) \X Below(s.t1) \X Below(s.kappa)
GEntries(s) == {e \in {"G"} \X Below(s.r) \X Below(s.r) \X Below(s.t2) : e[2] <= e[3]}
HEntries(s) == {e \in {"H"} \X Below(s.r) \X Below(s.r) \X Below(s.t1) : e[2] <= e[3]}
Entries(s) == VEntries(s) \cup GEntries(s) \cup HEntries(s)

\* ELayout::pos.
Pos(s, e) ==
  IF e[1] = "V" THEN e[2] * s.t1 * s.kappa + e[3] * s.kappa + e[4]
  ELSE (IF e[1] = "G" THEN GOff(s) ELSE HOff(s)) + e[4] * NUpper(s) + Upper(s, e[2], e[3])

\* ChopLayout: pieces of length ceil(total / pieces).
PieceLen(total, pieces) == (total + pieces - 1) \div pieces
Locate(len, p) == <<p \div len, p % len>>

\* FoldedLayout: slots are <<witness vector, position>>.
ZLen(s) == PieceLen(s.n, s.nu)
EPieceLen(s) == PieceLen(ELen(s), s.mu)
NPrime_OfZ(s) == ZLen(s)
NPrime(s) == IF ZLen(s) < EPieceLen(s) THEN EPieceLen(s) ELSE ZLen(s)
RPrime(s) == 2 * s.nu + s.mu

Shift(by, slot) == <<by + slot[1], slot[2]>>
Z0(s, p) == Locate(ZLen(s), p)
Z1_Overlapping(s, p) == Shift(s.nu - 1, Locate(ZLen(s), p))
Z1(s, p) == Shift(s.nu, Locate(ZLen(s), p))
E(s, p) == Shift(2 * s.nu, Locate(EPieceLen(s), p))

Slots(s) == Below(RPrime(s)) \X Below(NPrime(s))

\* What there is to place, and its slot: an entry of z^(0) or z^(1), or of e.
ZEntry(half, p) == <<"z", half, p>>
Sources(s) == {ZEntry(half, p) : half \in {0, 1}, p \in 0..(s.n - 1)} \cup Entries(s)

SlotOf(s, x) ==
  IF x[1] = "z" THEN (IF x[2] = 0 THEN Z0(s, x[3]) ELSE Z1(s, x[3]))
  ELSE E(s, Pos(s, x))
=============================================================================
