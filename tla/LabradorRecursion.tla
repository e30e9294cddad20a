-------------------------- MODULE LabradorRecursion --------------------------
(***************************************************************************)
(* The recursive LaBRADOR prover and verifier of crates/labrador: the      *)
(* drivers of aggregate_v2.rs and the three functions that walk an         *)
(* iteration's transcript, each transcribed on its own:                    *)
(*                                                                         *)
(*   Prove...   prover_v2.rs::prove_v2_with_replay                         *)
(*   Replay...  fold.rs::replay_iteration + fold_statement_with_replay     *)
(*   Verify...  verifier_v2.rs::verify_v2                                  *)
(*                                                                         *)
(* Ring elements are abstracted to what the checks tell apart.  A message  *)
(* of the proof is the value the prover computed ("genuine") or another    *)
(* one ("altered"); a challenge is the transcript it was squeezed from     *)
(* (module Transcript); an equation of the verifier holds exactly when     *)
(* every message in it is genuine, every challenge in it is the one the    *)
(* prover used, and the witness satisfies the constraints it expresses.    *)
(* This is the ideal in which commitments bind and random linear           *)
(* combinations do not cancel.                                             *)
(***************************************************************************)
EXTENDS Naturals, Faults, Transcript

CONSTANT
  Depths        \* the recursion depths (Params::depth) to consider

ASSUME DepthsAssumption == Depths \subseteq Nat \ {0}

VARIABLES
  depth,    \* params.depth
  input,    \* does the caller's witness satisfy F (full) and F' (ct)?
  pPc,      \* the prover's next step
  pIter,    \* the driver's loop variable k
  pT,       \* t_prove
  pStmt,    \* history: cur_stmt of each iteration entered
  pChal,    \* history: the IterationReplay of each iteration
  pHolds,   \* does the current witness satisfy F and F' of cur_stmt?
  jl,       \* history: is ||p||^2 <= 128 beta^2 at each iteration?
  small,    \* do the final iteration's openings meet Check 5's norm bound?
  pBar,     \* the calls the prover's progress sink has received
  faults,   \* what differs between the delivered proof and the prover's
  vPc,      \* the verifier's next step
  vIter,    \* its loop variable k
  vT,       \* its transcript t
  vStmt,    \* its cur_stmt
  vChal,    \* the challenges it has drawn in the current iteration
  vBar,     \* the calls the verifier's progress sink has received
  verdict   \* what verify_aggregate returned, "none" before it does

pVars == <<pPc, pIter, pT, pStmt, pChal, pHolds, jl, small, pBar>>
vVars == <<vPc, vIter, vT, vStmt, vChal, vBar, verdict>>
vars == <<depth, input, pVars, faults, vVars>>

-----------------------------------------------------------------------------
(* The messages, challenges and steps of one iteration.                    *)

Stages == {"A", "B", "C", "Pi", "psi", "alpha", "beta", "D", "c"}
Phases == {"commit", "project", "constrain", "linearize", "amortize", "end"}

Final == depth - 1
NoChal == [s \in Stages |-> << >>]

\* A statement is what bind_statement absorbs: the caller's (Root), or the one
\* a fold built from the replay and the right-hand sides u_1, b_agg and u_2.
Root_Unbound(which) == [level |-> 0, from |-> NoChal, rhs |-> << >>]
Root(which) == [level |-> 0, from |-> NoChal, rhs |-> <<which>>]
Folded_OwnChallenges(k, chal, u1, bpp, u2) ==
  [level |-> k, from |-> NoChal, rhs |-> <<u1, bpp, u2>>]
Folded(k, chal, u1, bpp, u2) ==
  [level |-> k, from |-> chal, rhs |-> <<u1, bpp, u2>>]

-----------------------------------------------------------------------------
(* The delivered proof.                                                    *)

Altered(k, f) == \E e \in Edits(f) : <<"altered", k, e>> \in faults
Intact(F) == \A f \in F : ~Altered(Final, f)
Short(k, f) == <<"short", k, f>> \in faults

\* absorb_ring_vec absorbs the number of the elements and those there are: a
\* shortened vector is another message to the transcript, as an altered one is.
Changed(k, f) == Altered(k, f) \/ Short(k, f)
Value(k, f) == IF Changed(k, f) THEN "altered" ELSE "genuine"
SameStatement == WrongStatement \notin faults

-----------------------------------------------------------------------------
(* The prover: prove_aggregate around prove_v2_with_replay.                *)

\* iter_start, then Step 1: bind the statement, expand A, commit v and g
\* through B and C, absorb u_1.
ProveCommit ==
  LET tA == Squeeze(Absorb(pT, "stmt", pStmt[pIter]), "A")
      tB == Squeeze(tA, "B")
      tC == Squeeze(tB, "C")
      tEnd == Absorb(tC, "u1", "genuine")
  IN /\ pPc = "commit"
     /\ pT' = tEnd
     /\ pChal' = [pChal EXCEPT ![pIter] = [@ EXCEPT !["A"] = tA, !["B"] = tB, !["C"] = tC]]
     /\ pPc' = "project"
     /\ pBar' = [pBar EXCEPT !.started = @ + 1]
     /\ UNCHANGED <<depth, input, pIter, pStmt, pHolds, jl, small, faults, vVars>>

\* Step 2: project with Pi, absorb p.  Whether p is short is up to Pi; the
\* prover does not look.
ProveProject ==
  LET tPi == Squeeze(pT, "Pi")
      tEnd == Absorb(tPi, "p", "genuine")
  IN /\ pPc = "project"
     /\ pT' = tEnd
     /\ pChal' = [pChal EXCEPT ![pIter] = [@ EXCEPT !["Pi"] = tPi]]
     /\ \E within \in Outcomes : jl' = [jl EXCEPT ![pIter] = within]
     /\ pPc' = "constrain"
     /\ UNCHANGED <<depth, input, pIter, pStmt, pHolds, small, pBar, faults, vVars>>

\* Step 3: aggregate F' and the projection constraints with psi, absorb b''.
ProveConstrain ==
  LET tPsi == Squeeze(pT, "psi")
      tEnd == Absorb(tPsi, "bpp", "genuine")
  IN /\ pPc = "constrain"
     /\ pT' = tEnd
     /\ pChal' = [pChal EXCEPT ![pIter] = [@ EXCEPT !["psi"] = tPsi]]
     /\ pPc' = "linearize"
     /\ UNCHANGED <<depth, input, pIter, pStmt, pHolds, jl, small, pBar, faults, vVars>>

\* Step 4: aggregate F and F'' with alpha and beta, commit h through D,
\* absorb u_2.
ProveLinearize ==
  LET tAl == Squeeze(pT, "alpha")
      tBe == Squeeze(tAl, "beta")
      tD == Squeeze(tBe, "D")
      tEnd == Absorb(tD, "u2", "genuine")
  IN /\ pPc = "linearize"
     /\ pT' = tEnd
     /\ pChal' = [pChal EXCEPT ![pIter] =
                    [@ EXCEPT !["alpha"] = tAl, !["beta"] = tBe, !["D"] = tD]]
     /\ pPc' = "amortize"
     /\ UNCHANGED <<depth, input, pIter, pStmt, pHolds, jl, small, pBar, faults, vVars>>

\* Step 5: draw the c_i, amortize z.  The norm of the openings is not looked
\* at either; only the last iteration's is ever compared with a bound.
ProveAmortize ==
  LET tEnd == Squeeze(pT, "c")
  IN /\ pPc = "amortize"
     /\ pT' = tEnd
     /\ pChal' = [pChal EXCEPT ![pIter] = [@ EXCEPT !["c"] = tEnd]]
     /\ pPc' = "end"
     /\ IF pIter = Final THEN small' \in Outcomes ELSE small' = small
     /\ UNCHANGED <<depth, input, pIter, pStmt, pHolds, jl, pBar, faults, vVars>>

ProveFold_FoldsLast ==
  /\ pPc = "end"
  /\ pStmt' = [pStmt EXCEPT ![pIter + 1] =
                 Folded(pIter + 1, pChal[pIter], "genuine", "genuine", "genuine")]
  /\ pHolds' = [full |-> pHolds.full, ct |-> TRUE]
  /\ pIter' = pIter + 1
  /\ pPc' = "commit"
  /\ pBar' = [pBar EXCEPT !.done = @ + 1]
  /\ UNCHANGED <<depth, input, pT, pChal, jl, small, faults, vVars>>

\* fold_with_replay: the openings become the next witness, the replay the next
\* statement, whose F' is empty.  The folded F holds of the folded witness when
\* b_agg equals the aggregate of F, whatever F' was worth: b''_k was computed
\* from the witness.  into_intermediate drops the openings from the proof.
ProveFold ==
  /\ pPc = "end"
  /\ pIter < Final
  /\ pStmt' = [pStmt EXCEPT ![pIter + 1] =
                 Folded(pIter + 1, pChal[pIter], "genuine", "genuine", "genuine")]
  /\ pHolds' = [full |-> pHolds.full, ct |-> TRUE]
  /\ pIter' = pIter + 1
  /\ pPc' = "commit"
  /\ pBar' = [pBar EXCEPT !.done = @ + 1]
  /\ UNCHANGED <<depth, input, pT, pChal, jl, small, faults, vVars>>

\* The final iteration is not folded: the driver returns the proof, which
\* reaches the verifier with any of the faults considered.
Deliver ==
  /\ pPc = "end"
  /\ pIter = Final
  /\ pBar' = [pBar EXCEPT !.done = @ + 1]
  /\ pPc' = "returned"
  /\ faults' \in FaultSets(depth)
  /\ vPc' = "header"
  /\ UNCHANGED <<depth, input, pIter, pT, pStmt, pChal, pHolds, jl, small,
                 vIter, vT, vStmt, vChal, vBar, verdict>>

-----------------------------------------------------------------------------
(* The verifier's driver and, for intermediate iterations, its replay.     *)

Return(result) ==
  /\ verdict' = result
  /\ vPc' = "returned"

\* The length and modulus checks of verify_aggregate.
VerifyHeader ==
  /\ vPc = "header"
  /\ \/ /\ WrongCount \in faults
        /\ Return("BadIterationStage")
        /\ UNCHANGED <<vIter, vT, vStmt, vBar>>
     \/ /\ WrongCount \notin faults
        /\ WrongModulus \in faults
        /\ Return("ModulusMismatch")
        /\ UNCHANGED <<vIter, vT, vStmt, vBar>>
     \/ /\ {WrongCount, WrongModulus} \cap faults = {}
        /\ vStmt' = Root(IF SameStatement THEN "prover" ELSE "other")
        /\ vT' = NewTranscript("seed")
        /\ vIter' = 0
        /\ vBar' = [vBar EXCEPT !.started = @ + 1]
        /\ vPc' = "commit"
        /\ UNCHANGED verdict
  /\ UNCHANGED <<depth, input, pVars, faults, vChal>>

\* replay_iteration takes the messages as they come.
ReplayCommit ==
  LET tA == Squeeze(Absorb(vT, "stmt", vStmt), "A")
      tB == Squeeze(tA, "B")
      tC == Squeeze(tB, "C")
  IN /\ vPc = "commit"
     /\ vIter < Final
     /\ vT' = Absorb(tC, "u1", Value(vIter, "u1"))
     /\ vChal' = [vChal EXCEPT !["A"] = tA, !["B"] = tB, !["C"] = tC]
     /\ vPc' = "project"
     /\ UNCHANGED <<depth, input, pVars, faults, vIter, vStmt, vBar, verdict>>

\* absorb_p_vec asserts that p has 256 entries.
ReplayProject ==
  LET tPi == Squeeze(vT, "Pi")
  IN /\ vPc = "project"
     /\ vIter < Final
     /\ vChal' = [vChal EXCEPT !["Pi"] = tPi]
     /\ \/ /\ Short(vIter, "p")
           /\ Return("panic")
           /\ UNCHANGED vT
        \/ /\ ~Short(vIter, "p")
           /\ vT' = Absorb(tPi, "p", Value(vIter, "p"))
           /\ vPc' = "constrain"
           /\ UNCHANGED verdict
     /\ UNCHANGED <<depth, input, pVars, faults, vIter, vStmt, vBar>>

ReplayConstrain ==
  LET tPsi == Squeeze(vT, "psi")
  IN /\ vPc = "constrain"
     /\ vIter < Final
     /\ vChal' = [vChal EXCEPT !["psi"] = tPsi]
     /\ vT' = Absorb(tPsi, "bpp", Value(vIter, "bpp"))
     /\ vPc' = "linearize"
     /\ UNCHANGED <<depth, input, pVars, faults, vIter, vStmt, vBar, verdict>>

\* b_agg indexes b''_k for every k < K'': alpha and beta are drawn by then, D
\* is not.
ReplayLinearize ==
  LET tAl == Squeeze(vT, "alpha")
      tBe == Squeeze(tAl, "beta")
      tD == Squeeze(tBe, "D")
  IN /\ vPc = "linearize"
     /\ vIter < Final
     /\ \/ /\ Short(vIter, "bpp")
           /\ vChal' = [vChal EXCEPT !["alpha"] = tAl, !["beta"] = tBe]
           /\ Return("panic")
           /\ UNCHANGED vT
        \/ /\ ~Short(vIter, "bpp")
           /\ vChal' = [vChal EXCEPT !["alpha"] = tAl, !["beta"] = tBe, !["D"] = tD]
           /\ vT' = Absorb(tD, "u2", Value(vIter, "u2"))
           /\ vPc' = "amortize"
           /\ UNCHANGED verdict
     /\ UNCHANGED <<depth, input, pVars, faults, vIter, vStmt, vBar>>

ReplayAmortize_NoFeedback ==
  /\ vPc = "amortize"
  /\ vIter < Final
  /\ vChal' = [vChal EXCEPT !["c"] = Squeeze(vT, "c")]
  /\ vPc' = "end"
  /\ UNCHANGED <<depth, input, pVars, faults, vIter, vT, vStmt, vBar, verdict>>

ReplayAmortize ==
  LET tC == Squeeze(vT, "c")
  IN /\ vPc = "amortize"
     /\ vIter < Final
     /\ vChal' = [vChal EXCEPT !["c"] = tC]
     /\ vT' = tC
     /\ vPc' = "end"
     /\ UNCHANGED <<depth, input, pVars, faults, vIter, vStmt, vBar, verdict>>

\* fold_statement_with_replay: rows 8 and 9 index u_1 and u_2 up to kappa_1.
ReplayFold ==
  /\ vPc = "end"
  /\ vIter < Final
  /\ \/ /\ Short(vIter, "u1") \/ Short(vIter, "u2")
        /\ Return("panic")
        /\ UNCHANGED <<vIter, vStmt, vChal, vBar>>
     \/ /\ ~Short(vIter, "u1") /\ ~Short(vIter, "u2")
        /\ vStmt' = Folded(vIter + 1, vChal, Value(vIter, "u1"),
                           Value(vIter, "bpp"), Value(vIter, "u2"))
        /\ vChal' = NoChal
        /\ vIter' = vIter + 1
        /\ vPc' = "commit"
        /\ vBar' = [started |-> vBar.started + 1, done |-> vBar.done + 1]
        /\ UNCHANGED verdict
  /\ UNCHANGED <<depth, input, pVars, faults, vT>>

-----------------------------------------------------------------------------
(* The verifier's last iteration: verify_v2.  The openings it reads were   *)
(* made with the challenges pChal[Final].                                  *)

Same(chal, S) == \A s \in S : chal[s] = pChal[Final][s]

Conclude_OnlyWhenOk(result) ==
  /\ Return(result)
  /\ vBar' = IF result = "Ok" THEN [vBar EXCEPT !.done = @ + 1] ELSE vBar

\* iter_done follows verify_v2 whether it succeeded or not.
Conclude(result) ==
  /\ Return(result)
  /\ vBar' = [vBar EXCEPT !.done = @ + 1]

Continue(next) ==
  /\ vPc' = next
  /\ UNCHANGED <<verdict, vBar>>

WrongShape ==
  \/ NoOpenings(depth) \in faults
  \/ \E f \in {"u1", "u2", "p"} \cup Openings : Short(Final, f)

\* Step 1 mirror: shapes, before anything is drawn, then u_1 against the
\* re-decomposed v and g.
VerifyCommit ==
  LET tA == Squeeze(Absorb(vT, "stmt", vStmt), "A")
      tB == Squeeze(tA, "B")
      tC == Squeeze(tB, "C")
      chal == [vChal EXCEPT !["A"] = tA, !["B"] = tB, !["C"] = tC]
      opens == Same(chal, {"B", "C"}) /\ Intact({"u1", "v", "g"})
  IN /\ vPc = "commit"
     /\ vIter = Final
     /\ \/ /\ WrongShape
           /\ Conclude("ProofShape")
           /\ UNCHANGED <<vChal, vT>>
        \/ /\ ~WrongShape
           /\ vChal' = chal
           /\ vT' = Absorb(tC, "u1", Value(Final, "u1"))
           /\ \/ ~opens /\ Conclude("OuterCommitment u_1")
              \/ opens /\ Continue("project")
     /\ UNCHANGED <<depth, input, pVars, faults, vIter, vStmt>>

\* Step 2 mirror: the JL bound on p.
VerifyProject ==
  LET tPi == Squeeze(vT, "Pi")
      within == IF Altered(Final, "p")
                THEN <<"altered", Final, "pHeavy">> \notin faults
                ELSE jl[Final]
  IN /\ vPc = "project"
     /\ vIter = Final
     /\ vChal' = [vChal EXCEPT !["Pi"] = tPi]
     /\ vT' = Absorb(tPi, "p", Value(Final, "p"))
     /\ \/ ~within /\ Conclude("JlBound")
        \/ within /\ Continue("constrain")
     /\ UNCHANGED <<depth, input, pVars, faults, vIter, vStmt>>

\* Step 3 mirror: the length of b'', then ct(b''_k) against the
\* psi-combination of the b_0.
VerifyConstrain ==
  LET tPsi == Squeeze(vT, "psi")
      chal == [vChal EXCEPT !["psi"] = tPsi]
      matches == /\ Same(chal, {"Pi", "psi"})
                 /\ ~Altered(Final, "p")
                 /\ <<"altered", Final, "bpp0">> \notin faults
                 /\ pHolds.ct
  IN /\ vPc = "constrain"
     /\ vIter = Final
     /\ \/ /\ Short(Final, "bpp")
           /\ Conclude("ProofShape")
           /\ UNCHANGED <<vChal, vT>>
        \/ /\ ~Short(Final, "bpp")
           /\ vChal' = chal
           /\ vT' = Absorb(tPsi, "bpp", Value(Final, "bpp"))
           /\ \/ ~matches /\ Conclude("ConstTermMismatch")
              \/ matches /\ Continue("linearize")
     /\ UNCHANGED <<depth, input, pVars, faults, vIter, vStmt>>

\* Step 4 mirror: u_2 against the re-decomposed h.
VerifyLinearize ==
  LET tAl == Squeeze(vT, "alpha")
      tBe == Squeeze(tAl, "beta")
      tD == Squeeze(tBe, "D")
      chal == [vChal EXCEPT !["alpha"] = tAl, !["beta"] = tBe, !["D"] = tD]
      opens == Same(chal, {"D"}) /\ Intact({"u2", "h"})
  IN /\ vPc = "linearize"
     /\ vIter = Final
     /\ vChal' = chal
     /\ vT' = Absorb(tD, "u2", Value(Final, "u2"))
     /\ \/ ~opens /\ Conclude("OuterCommitment u_2")
        \/ opens /\ Continue("amortize")
     /\ UNCHANGED <<depth, input, pVars, faults, vIter, vStmt>>

Aggregation == {"Pi", "psi", "alpha", "beta"}    \* what a_agg, phi_agg depend on

\* Checks 1 to 5: A z and the t_i; <z, z> and the g_ij; <phi_agg, z> and the
\* h_ij; the aggregated relation of the g_ij, the h_ij and b_agg; the norms.
InnerOpening_WithoutZ(chal) == Same(chal, {"A", "c"}) /\ Intact({"v"})
InnerOpening(chal) == Same(chal, {"A", "c"}) /\ Intact({"z", "v"})
QuadraticOpening(chal) == Same(chal, {"c"}) /\ Intact({"z", "g"})
LinearOpening(chal) == Same(chal, Aggregation \cup {"c"}) /\ Intact({"z", "h"})
AggregatedRelation_Skipped(chal) == TRUE
AggregatedRelation(chal) ==
  Same(chal, Aggregation) /\ Intact({"g", "h", "bpp"}) /\ pHolds.full

\* The first of them to fail, in the order of the code.
OpeningVerdict(chal) ==
  IF ~InnerOpening(chal) THEN "InnerCommitmentOpening"
  ELSE IF ~QuadraticOpening(chal) THEN "QuadraticOpening"
  ELSE IF ~LinearOpening(chal) THEN "LinearOpening"
  ELSE IF ~AggregatedRelation(chal) THEN "AggregatedRelation"
  ELSE IF ~small THEN "NormBound" ELSE "Ok"

\* Step 5 mirror.
VerifyOpen ==
  LET tC == Squeeze(vT, "c")
      chal == [vChal EXCEPT !["c"] = tC]
  IN /\ vPc = "amortize"
     /\ vIter = Final
     /\ vChal' = chal
     /\ vT' = tC
     /\ Conclude(OpeningVerdict(chal))
     /\ UNCHANGED <<depth, input, pVars, faults, vIter, vStmt>>

-----------------------------------------------------------------------------
NoStmt == [level |-> 0, from |-> NoChal, rhs |-> << >>]

Init ==
  /\ depth \in Depths
  /\ input \in [full : Outcomes, ct : Outcomes]
  /\ pPc = "commit" /\ pIter = 0
  /\ pT = NewTranscript("seed")
  /\ pStmt = [k \in 0..Final |-> IF k = 0 THEN Root("prover") ELSE NoStmt]
  /\ pChal = [k \in 0..Final |-> NoChal]
  /\ pHolds = input
  /\ jl = [k \in 0..Final |-> FALSE]
  /\ small = FALSE
  /\ pBar = [started |-> 0, done |-> 0]
  /\ faults = {}
  /\ vPc = "waiting" /\ vIter = 0 /\ vT = << >> /\ vStmt = NoStmt
  /\ vChal = NoChal /\ vBar = [started |-> 0, done |-> 0] /\ verdict = "none"

Prove == \/ ProveCommit \/ ProveProject \/ ProveConstrain \/ ProveLinearize
         \/ ProveAmortize \/ ProveFold \/ Deliver

Replay == \/ ReplayCommit \/ ReplayProject \/ ReplayConstrain \/ ReplayLinearize
          \/ ReplayAmortize \/ ReplayFold

Verify == \/ VerifyCommit \/ VerifyProject \/ VerifyConstrain \/ VerifyLinearize
          \/ VerifyOpen

Next == Prove \/ VerifyHeader \/ Replay \/ Verify

Spec == Init /\ [][Next]_vars

\* Both programs run to completion: each is straight-line code over finitely
\* many iterations, with no wait on anything but its own input.
FairSpec == Spec /\ WF_vars(Next)

-----------------------------------------------------------------------------
(* Properties.                                                             *)

Errors == {"BadIterationStage", "ModulusMismatch", "ProofShape", "JlBound",
           "ConstTermMismatch", "OuterCommitment u_1", "OuterCommitment u_2",
           "InnerCommitmentOpening", "QuadraticOpening", "LinearOpening",
           "AggregatedRelation", "NormBound"}
Progress == [started : Nat, done : Nat]
Iterations == 0..Final

\* f is a function on S; transcripts and statements are nested too deeply to
\* name the set of their values.
IsTable(f, S) == f = [x \in S |-> f[x]]

\* The type invariant.
TypeOK ==
  /\ depth \in Depths
  /\ input \in [full : BOOLEAN, ct : BOOLEAN]
  /\ pPc \in Phases \cup {"returned"}
  /\ pIter \in Iterations
  /\ IsTable(pStmt, Iterations)
  /\ IsTable(pChal, Iterations) /\ \A k \in Iterations : IsTable(pChal[k], Stages)
  /\ pHolds \in [full : BOOLEAN, ct : BOOLEAN]
  /\ jl \in [Iterations -> BOOLEAN]
  /\ small \in BOOLEAN
  /\ pBar \in Progress /\ vBar \in Progress
  /\ faults \subseteq PossibleFaults(depth)
  /\ vPc \in Phases \cup {"waiting", "header", "returned"}
  /\ vIter \in Iterations
  /\ IsTable(vChal, Stages)
  /\ verdict \in Errors \cup {"none", "panic", "Ok"}

\* The step of an iteration in which a challenge is squeezed, and the messages
\* absorbed before a step.
PhaseOf(s) == CASE s \in {"A", "B", "C"} -> "commit"
                [] s = "Pi" -> "project"
                [] s = "psi" -> "constrain"
                [] s \in {"alpha", "beta", "D"} -> "linearize"
                [] s = "c" -> "amortize"

AbsorbedBefore(ph) == CASE ph = "commit" -> {}
                        [] ph = "project" -> {"u1"}
                        [] ph = "constrain" -> {"u1", "p"}
                        [] ph = "linearize" -> {"u1", "p", "bpp"}
                        [] ph \in {"amortize", "end"} -> Commitments

\* Every message absorbed before step ph of iteration k arrived as the prover
\* sent it, in its values and in its length.
MessagesIntact(k, ph) ==
  /\ \A j \in Iterations : j < k => \A f \in Commitments : ~Changed(j, f)
  /\ \A f \in AbsorbedBefore(ph) : ~Changed(k, f)

\* The prover's transcript at the start of step ph of iteration k.
ProverAt(k, ph) ==
  CASE ph = "commit" -> IF k = 0 THEN NewTranscript("seed") ELSE pChal[k - 1]["c"]
    [] ph = "project" -> Absorb(pChal[k]["C"], "u1", "genuine")
    [] ph = "constrain" -> Absorb(pChal[k]["Pi"], "p", "genuine")
    [] ph = "linearize" -> Absorb(pChal[k]["psi"], "bpp", "genuine")
    [] ph = "amortize" -> Absorb(pChal[k]["D"], "u2", "genuine")
    [] ph = "end" -> pChal[k]["c"]

\* fold.rs:197-202, verifier_v2.rs:381: "all three sides keep the transcript in
\* lock-step".  At every step of every iteration the verifier's transcript is
\* the one the prover had there if, and only if, the statement, once bound, and
\* every message up to that step are the prover's: one that was altered or
\* shortened sets them apart at once, also where its length is noticed later
\* (b'' two steps on, u_1 and u_2 in the fold).  prove_v2, replay_iteration and
\* verify_v2 are three separate pieces of code that have to agree on this.
Lockstep ==
  vPc \in Phases =>
    (vT = ProverAt(vIter, vPc) <=>
       /\ SameStatement \/ (vIter = 0 /\ vPc = "commit")
       /\ MessagesIntact(vIter, vPc))

\* Each challenge the verifier has drawn in the iteration is the prover's when,
\* and only when, nothing before its squeeze was altered or shortened.
ChallengesBind ==
  \A s \in Stages : vChal[s] # << >> =>
    (vChal[s] = pChal[vIter][s]
       <=> SameStatement /\ MessagesIntact(vIter, PhaseOf(s)))

\* The statement the verifier folds without the openings is the one the prover
\* folds with its own replay (fold_statement against fold_with_replay) exactly
\* when the first statement and all earlier messages are the prover's.
FoldsAgree ==
  vPc \in Phases =>
    (vStmt = pStmt[vIter] <=> SameStatement /\ MessagesIntact(vIter, "commit"))

\* Acceptance is never an accident: the delivered proof is the prover's, for
\* the verifier's own statement, the witness satisfies F, and the final
\* iteration's own checks hold.
AcceptedIsGenuine ==
  verdict = "Ok" =>
    /\ faults = {}
    /\ input.full /\ jl[Final] /\ small
    /\ depth = 1 => input.ct

\* A proof that was not altered, of a witness that satisfies the statement and
\* whose norms stay within the bounds, is never refused.
HonestAccepted ==
  (/\ faults = {}
   /\ input.full /\ input.ct
   /\ vPc = "returned" => jl[Final] /\ small)
  => verdict \in {"none", "Ok"}

\* aggregate_v2.rs:31-33: each iteration emits one iter_start and one matching
\* iter_done.  Neither side is ever more than one iteration ahead, the events
\* of iteration k come while the driver is at k, and a verifier that returned
\* after its header checks without panicking has closed every iteration, even
\* when it refuses the proof.
ProgressMatches ==
  /\ pBar.done = (IF pPc = "returned" THEN depth ELSE pIter)
  /\ pBar.started = (IF pPc = "commit" THEN pIter ELSE pIter + 1)
  /\ vPc \in Phases => vBar = [started |-> vIter + 1, done |-> vIter]
  /\ verdict \in (Errors \ {"BadIterationStage", "ModulusMismatch"}) \cup {"Ok"}
       => vBar = [started |-> depth, done |-> depth]

\* The two programs together answer what the oracle says of the witness and of
\* the faults, with the reason the oracle gives, and always answer.
Oracle == INSTANCE AggregateOracle
            WITH within <- jl[Final], delivered <- vPc # "waiting"

ImplementsOracle == Oracle!FairSpec

\* aggregate_v2.rs:16-19: "Accepting the deepest verify_v2 implies all
\* intermediate checks pass": the const-term check against F' and the bound on
\* p are made by verify_v2 at every iteration it is run on.
AcceptedMeansAllChecked ==
  verdict = "Ok" => input.ct /\ \A k \in Iterations : jl[k]
=============================================================================
