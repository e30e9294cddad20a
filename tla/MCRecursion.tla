----------------------------- MODULE MCRecursion -----------------------------
(***************************************************************************)
(* Instances of LabradorRecursion for TLC.  Depth 3 adds an iteration      *)
(* between two folds; it is explored for inputs that satisfy the statement *)
(* only, the norms being any.  Two faults, whose reasons compete for the   *)
(* verdict, are explored at depth 1, and at depth 2 for such inputs.       *)
(***************************************************************************)
EXTENDS LabradorRecursion, FiniteSets

Satisfying == input = [full |-> TRUE, ct |-> TRUE]

MCInit == Init /\ (depth = 3 => Satisfying)

DeliverBounded ==
  /\ Deliver
  /\ Cardinality(faults') = 2 => depth = 1 \/ (depth = 2 /\ Satisfying)

MCNext ==
  \/ ProveCommit \/ ProveProject \/ ProveConstrain \/ ProveLinearize
  \/ ProveAmortize \/ ProveFold \/ DeliverBounded
  \/ VerifyHeader \/ Replay \/ Verify

MCSpec == MCInit /\ [][MCNext]_vars /\ WF_vars(MCNext)
=============================================================================
