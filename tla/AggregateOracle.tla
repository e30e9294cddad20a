--------------------------- MODULE AggregateOracle ---------------------------
(***************************************************************************)
(* What verify_aggregate promises, without its transcript, its iterations  *)
(* or its two programs: the proof is delivered with some faults, and the   *)
(* verdict is a function of those faults and of the witness.  The order of *)
(* the reasons is the order in which the code meets them.                  *)
(* LabradorRecursion implements this specification.                        *)
(***************************************************************************)
EXTENDS Faults

CONSTANT Depths      \* the recursion depths considered

VARIABLES
  depth,      \* params.depth
  input,      \* does the caller's witness satisfy F (full) and F' (ct)?
  within,     \* is the last iteration's projection within its bound?
  small,      \* are the last iteration's openings within theirs?
  faults,     \* what differs in the delivered proof
  delivered,  \* has the proof reached the verifier?
  verdict     \* its answer

vars == <<depth, input, within, small, faults, delivered, verdict>>

Last == depth - 1
Altered(k, F) == \E f \in F : \E e \in Edits(f) : <<"altered", k, e>> \in faults
Short(k, F) == \E f \in F : <<"short", k, f>> \in faults
Has(f) == f \in faults

\* The reasons to refuse a proof.  An alteration of an earlier iteration, or
\* another statement, moves every later challenge, and shows where the last
\* iteration first opens a commitment made under its challenges.
Reasons ==
  << <<"BadIterationStage", Has(WrongCount)>>,
     <<"ModulusMismatch", Has(WrongModulus)>>,
     <<"panic", \E k \in 0..(Last - 1) : Short(k, Commitments)>>,
     <<"ProofShape", Has(NoOpenings(depth)) \/ Short(Last, {"u1", "u2", "p"} \cup Openings)>>,
     <<"OuterCommitment u_1", \/ Has(WrongStatement)
                              \/ \E k \in 0..(Last - 1) : Altered(k, Commitments)
                              \/ Altered(Last, {"u1", "v", "g"})>>,
     <<"JlBound", IF Altered(Last, {"p"}) THEN Has(<<"altered", Last, "pHeavy">>)
                  ELSE ~within>>,
     <<"ProofShape", Short(Last, {"bpp"})>>,
     <<"ConstTermMismatch", \/ Altered(Last, {"p"}) \/ Has(<<"altered", Last, "bpp0">>)
                            \/ depth = 1 /\ ~input.ct>>,
     <<"OuterCommitment u_2", Altered(Last, {"bpp", "u2", "h"})>>,
     <<"InnerCommitmentOpening", Altered(Last, {"z"})>>,
     <<"AggregatedRelation", ~input.full>>,
     <<"NormBound", ~small>> >>

Verdict ==
  LET held == {i \in DOMAIN Reasons : Reasons[i][2]}
  IN IF held = {} THEN "Ok"
     ELSE Reasons[CHOOSE i \in held : \A j \in held : i <= j][1]

Init ==
  /\ depth \in Depths
  /\ input \in [full : Outcomes, ct : Outcomes]
  /\ within = FALSE /\ small = FALSE
  /\ faults = {} /\ delivered = FALSE /\ verdict = "none"

\* The prover measures one of the last iteration's vectors.
Measure ==
  /\ ~delivered
  /\ \/ within' \in Outcomes /\ UNCHANGED small
     \/ small' \in Outcomes /\ UNCHANGED within
  /\ UNCHANGED <<depth, input, faults, delivered, verdict>>

Deliver ==
  /\ ~delivered
  /\ faults' \in FaultSets(depth)
  /\ delivered' = TRUE
  /\ UNCHANGED <<depth, input, within, small, verdict>>

Decide ==
  /\ delivered
  /\ verdict = "none"
  /\ verdict' = Verdict
  /\ UNCHANGED <<depth, input, within, small, faults, delivered>>

Next == Measure \/ Deliver \/ Decide

Spec == Init /\ [][Next]_vars

\* A proof is delivered in the end, and every delivered proof is decided.
FairSpec == Spec /\ WF_vars(Deliver) /\ WF_vars(Decide)
=============================================================================
