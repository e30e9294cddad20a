------------------------------- MODULE Faults -------------------------------
(***************************************************************************)
(* The ways a delivered AggregateProofV2 (crates/labrador/src/proof.rs) is *)
(* considered to differ from the one the prover made: the edits that the   *)
(* repository's tamper tests make to its fields.                           *)
(*                                                                         *)
(* A fault is a triple <<kind, iteration, field>>:                         *)
(*   altered    another value in a message.  "bpp0" edits the constant     *)
(*              coefficient of some b''_k and "bpp" another coefficient;   *)
(*              "pHeavy" edits p beyond its norm bound and "p" within it   *)
(*   short      a vector with entries missing; where its length is         *)
(*              compared (all of the last iteration, and p) any wrong      *)
(*              length.  Elsewhere a vector with entries too many is       *)
(*              "altered": it is absorbed whole, and read up to the length *)
(*              expected                                                   *)
(*   statement  the verifier rebuilds another initial statement            *)
(*   count      a wrong number of intermediate iterations                  *)
(*   modulus    a q' other than the verifier's                             *)
(*   missing    a last iteration without its openings                      *)
(***************************************************************************)
EXTENDS Naturals

CONSTANTS
  MaxFaults,    \* bound on the faults one delivered proof carries
  Outcomes      \* what the witness may be worth: does it satisfy a constraint,
                \* is a norm within its bound?

ASSUME MaxFaultsAssumption == MaxFaults \in 0..2
ASSUME OutcomesAssumption == Outcomes \subseteq BOOLEAN

Commitments == {"u1", "p", "bpp", "u2"}          \* IterationProofV2
Openings == {"z", "v", "g", "h"}                 \* IterationLastMsg

Edits(f) == CASE f = "p"   -> {"p", "pHeavy"}
              [] f = "bpp" -> {"bpp", "bpp0"}
              [] OTHER     -> {f}

\* into_intermediate leaves only the commitments in all iterations but the last.
Carried(k, depth) ==
  IF k = depth - 1 THEN Commitments \cup Openings ELSE Commitments

WrongStatement == <<"statement", 0, "root">>
WrongCount == <<"count", 0, "intermediate">>
WrongModulus == <<"modulus", 0, "q_prime">>
NoOpenings(depth) == <<"missing", depth - 1, "last_msg">>

PossibleFaults(depth) ==
  (UNION {{<<"altered", k, e>> : e \in UNION {Edits(f) : f \in Carried(k, depth)}}
            \cup {<<"short", k, f>> : f \in Carried(k, depth)} : k \in 0..(depth - 1)})
  \cup {WrongStatement, WrongCount, WrongModulus, NoOpenings(depth)}

\* The faults of one delivered proof: at most MaxFaults of them.
FaultSets(depth) ==
  LET Single == {{f} : f \in PossibleFaults(depth)}
  IN CASE MaxFaults = 0 -> {{}}
       [] MaxFaults = 1 -> {{}} \cup Single
       [] MaxFaults = 2 -> {{}} \cup {F \cup G : F \in Single, G \in Single}
=============================================================================
