----------------------- MODULE LabradorRecursionProofs ----------------------
(***************************************************************************)
(* What the three transcript walks of LabradorRecursion guarantee, for every*)
(* set of recursion depths.  First the transcript: an absorb or a squeeze is*)
(* a function of the transcript before it and of what it adds, and          *)
(* determines both.  Then type correctness, and Lockstep, ChallengesBind and*)
(* FoldsAgree.  The second half is about verdicts: what each stage of the   *)
(* verifier excludes, and that the whole implements AggregateOracle.        *)
(***************************************************************************)
EXTENDS LabradorRecursion, SequenceTheorems, TLAPS

\* t is a sequence of anything.
IsSeq(t) == \E S : t \in Seq(S)

LEMMA AppendSeq ==
  ASSUME NEW t, IsSeq(t), NEW e
  PROVE  IsSeq(Append(t, e)) /\ Append(t, e) # << >>
<1>1. PICK S : t \in Seq(S)
  BY DEF IsSeq
<1>2. t \in Seq(S \cup {e})
  BY <1>1, SeqMonotonic
<1>3. Append(t, e) \in Seq(S \cup {e}) /\ Len(Append(t, e)) = Len(t) + 1
  BY <1>2, AppendProperties
<1>4. Len(t) \in Nat
  BY <1>2, LenProperties
<1>5. Append(t, e) # << >>
  BY <1>3, <1>4, EmptySeq
<1> QED
  BY <1>3, <1>5 DEF IsSeq

LEMMA AppendDetermines ==
  ASSUME NEW t, NEW u, IsSeq(t), IsSeq(u), NEW d, NEW e,
         Append(t, d) = Append(u, e)
  PROVE  t = u /\ d = e
<1>1. PICK S : t \in Seq(S)
  BY DEF IsSeq
<1>2. PICK T : u \in Seq(T)
  BY DEF IsSeq
<1>3. t \in Seq((S \cup T) \cup {d, e}) /\ u \in Seq((S \cup T) \cup {d, e})
  BY <1>1, <1>2, SeqMonotonic
<1> QED
  BY <1>3, AppendInjective

\* Transcripts stay transcripts (transcript.rs: new, absorb, challenge_bytes).
LEMMA TranscriptSeq ==
  /\ \A d : IsSeq(NewTranscript(d))
  /\ \A t, l, m : IsSeq(t) => IsSeq(Absorb(t, l, m)) /\ Absorb(t, l, m) # << >>
  /\ \A t, l : IsSeq(t) => IsSeq(Squeeze(t, l)) /\ Squeeze(t, l) # << >>
<1>1. \A d : IsSeq(NewTranscript(d))
  <2> TAKE d
  <2>1. << >> \in Seq({})
    BY EmptySeq
  <2>2. NewTranscript(d) \in Seq({<<"domain", d>>})
    BY DEF NewTranscript
  <2> QED
    BY <2>2 DEF IsSeq
<1> QED
  BY <1>1, AppendSeq DEF Absorb, Squeeze

\* Two transcripts that absorb under the same label agree afterwards exactly
\* when they agreed before and absorbed the same message; a challenge
\* identifies the transcript it was squeezed from.
LEMMA TranscriptBinds ==
  ASSUME NEW t, NEW u, IsSeq(t), IsSeq(u)
  PROVE  /\ \A l, m, n : Absorb(t, l, m) = Absorb(u, l, n) <=> t = u /\ m = n
         /\ \A l : Squeeze(t, l) = Squeeze(u, l) <=> t = u
<1>1. ASSUME NEW l, NEW m, NEW n
      PROVE  Absorb(t, l, m) = Absorb(u, l, n) <=> t = u /\ m = n
  <2>1. CASE Absorb(t, l, m) = Absorb(u, l, n)
    <3>1. t = u /\ <<"a", l, m>> = <<"a", l, n>>
      BY <2>1, AppendDetermines DEF Absorb
    <3> QED
      BY <2>1, <3>1
  <2>2. CASE Absorb(t, l, m) # Absorb(u, l, n)
    BY <2>2
  <2> QED
    BY <2>1, <2>2
<1>2. ASSUME NEW l, Squeeze(t, l) = Squeeze(u, l)
      PROVE  t = u
  BY <1>2, AppendDetermines DEF Squeeze
<1> QED
  BY <1>1, <1>2

-----------------------------------------------------------------------------
(***************************************************************************)
(* Types, and what no step changes.                                         *)
(***************************************************************************)

LEMMA DepthIsPositive ==
  ASSUME depth \in Depths
  PROVE  /\ depth \in Nat /\ depth >= 1 /\ Final \in Nat /\ Final \in Iterations
         /\ 0 \in Iterations
         /\ \A k \in Iterations : k \in Nat /\ k <= Final
         /\ \A k \in Iterations : k < Final => k + 1 \in Iterations
         /\ \A k \in Iterations : ~(k < Final) => k = Final
BY DepthsAssumption DEF Iterations, Final

LEMMA FaultSetsArePossible ==
  ASSUME NEW d, NEW F \in FaultSets(d)
  PROVE  F \subseteq PossibleFaults(d)
<1>1. MaxFaults \in {0, 1, 2}
  BY MaxFaultsAssumption
<1>2. CASE MaxFaults = 0
  BY <1>2 DEF FaultSets
<1>3. CASE MaxFaults = 1
  BY <1>3 DEF FaultSets
<1>4. CASE MaxFaults = 2
  BY <1>4 DEF FaultSets
<1> QED
  BY <1>1, <1>2, <1>3, <1>4

-----------------------------------------------------------------------------
(* Type correctness.                                                       *)

LEMMA TypeInit == Init => TypeOK
<1> SUFFICES ASSUME Init PROVE TypeOK
  OBVIOUS
<1> USE DEF Init
<1>1. depth \in Depths /\ 0 \in Iterations
  BY DepthIsPositive
<1>2. input \in [full : BOOLEAN, ct : BOOLEAN]
  BY OutcomesAssumption
<1>3. IsTable(pStmt, Iterations) /\ jl \in [Iterations -> BOOLEAN]
  BY DEF IsTable, Iterations
<1>4. IsTable(pChal, Iterations) /\ \A k \in Iterations : IsTable(pChal[k], Stages)
  BY DEF IsTable, Iterations, NoChal
<1>5. IsTable(vChal, Stages)
  BY DEF IsTable, NoChal
<1> QED
  BY <1>1, <1>2, <1>3, <1>4, <1>5 DEF TypeOK, Phases, Progress, PossibleFaults

\* Tables stay tables when entries are replaced.
LEMMA TableExcept ==
  ASSUME NEW S, NEW f, NEW a \in S, NEW x, IsTable(f, S)
  PROVE  IsTable([f EXCEPT ![a] = x], S)
BY DEF IsTable

LEMMA DrawOne ==
  ASSUME NEW f, NEW a \in Stages, NEW x, IsTable(f, Stages)
  PROVE  /\ IsTable([f EXCEPT ![a] = x], Stages)
         /\ \A s \in Stages : [f EXCEPT ![a] = x][s] = IF s = a THEN x ELSE f[s]
BY DEF IsTable

LEMMA DrawCommit ==
  ASSUME NEW f, IsTable(f, Stages), NEW x, NEW y, NEW z
  PROVE  /\ IsTable([f EXCEPT !["A"] = x, !["B"] = y, !["C"] = z], Stages)
         /\ \A s \in Stages :
              [f EXCEPT !["A"] = x, !["B"] = y, !["C"] = z][s] =
                IF s = "A" THEN x ELSE IF s = "B" THEN y ELSE IF s = "C" THEN z ELSE f[s]
BY DEF IsTable

LEMMA DrawLinearize ==
  ASSUME NEW f, IsTable(f, Stages), NEW x, NEW y, NEW z
  PROVE  /\ IsTable([f EXCEPT !["alpha"] = x, !["beta"] = y, !["D"] = z], Stages)
         /\ \A s \in Stages :
              [f EXCEPT !["alpha"] = x, !["beta"] = y, !["D"] = z][s] =
                IF s = "alpha" THEN x ELSE IF s = "beta" THEN y ELSE IF s = "D" THEN z ELSE f[s]
BY DEF IsTable

\* The two of them that a replay stopped by a short b'' has drawn.
LEMMA DrawTwo ==
  ASSUME NEW f, IsTable(f, Stages), NEW x, NEW y
  PROVE  /\ IsTable([f EXCEPT !["alpha"] = x, !["beta"] = y], Stages)
         /\ \A s \in Stages :
              [f EXCEPT !["alpha"] = x, !["beta"] = y][s] =
                IF s = "alpha" THEN x ELSE IF s = "beta" THEN y ELSE f[s]
BY DEF IsTable

LEMMA StageNames == /\ "A" \in Stages /\ "B" \in Stages /\ "C" \in Stages
                    /\ "Pi" \in Stages /\ "psi" \in Stages /\ "alpha" \in Stages
                    /\ "beta" \in Stages /\ "D" \in Stages /\ "c" \in Stages
BY DEF Stages

LEMMA PhaseNames == /\ "commit" \in Phases /\ "project" \in Phases
                    /\ "constrain" \in Phases /\ "linearize" \in Phases
                    /\ "amortize" \in Phases /\ "end" \in Phases
                    /\ "waiting" \notin Phases /\ "header" \notin Phases
                    /\ "returned" \notin Phases
BY DEF Phases

LEMMA ErrorNames ==
  /\ "BadIterationStage" \in Errors /\ "ModulusMismatch" \in Errors
  /\ "ProofShape" \in Errors /\ "JlBound" \in Errors /\ "ConstTermMismatch" \in Errors
  /\ "OuterCommitment u_1" \in Errors /\ "OuterCommitment u_2" \in Errors
  /\ "none" \notin Errors /\ "Ok" \notin Errors /\ "panic" \notin Errors
BY DEF Errors

LEMMA ProgressTicks ==
  \A b \in Progress : /\ [b EXCEPT !.started = b.started + 1] \in Progress
                      /\ [b EXCEPT !.done = b.done + 1] \in Progress
                      /\ [started |-> b.started + 1, done |-> b.done + 1] \in Progress
BY DEF Progress

LEMMA OpeningVerdictType ==
  ASSUME NEW chal
  PROVE  OpeningVerdict(chal) \in Errors \cup {"Ok"}
BY DEF OpeningVerdict, Errors

LEMMA ReplayTables ==
  ASSUME TypeOK, UNCHANGED depth, NEW new, IsTable(new, Stages),
         pChal' = [pChal EXCEPT ![pIter] = new]
  PROVE  (IsTable(pChal, Iterations) /\ \A k \in Iterations : IsTable(pChal[k], Stages))'
<1>1. pIter \in Iterations /\ Iterations' = Iterations
  BY DEF TypeOK, Iterations, Final
<1> QED
  BY <1>1 DEF TypeOK, IsTable

LEMMA TypeCommit == TypeOK /\ ProveCommit => TypeOK'
<1> SUFFICES ASSUME TypeOK, ProveCommit PROVE TypeOK'
  OBVIOUS
<1>1. UNCHANGED <<depth, Iterations>>
  BY DEF ProveCommit, Iterations, Final
<1>2. (IsTable(pChal, Iterations) /\ \A k \in Iterations : IsTable(pChal[k], Stages))'
  <2> DEFINE tA == Squeeze(Absorb(pT, "stmt", pStmt[pIter]), "A")
             tB == Squeeze(tA, "B")
             tC == Squeeze(tB, "C")
             new == [pChal[pIter] EXCEPT !["A"] = tA, !["B"] = tB, !["C"] = tC]
  <2>1. IsTable(pChal[pIter], Stages)
    BY DEF TypeOK
  <2>2. IsTable(new, Stages)
    BY <2>1, DrawCommit
  <2>3. pChal' = [pChal EXCEPT ![pIter] = new]
    BY ZenonT(60) DEF ProveCommit
  <2> HIDE DEF new
  <2> QED
    BY <1>1, <2>2, <2>3, ReplayTables
<1>3. (pBar \in Progress)'
  BY ProgressTicks DEF ProveCommit, TypeOK
<1> QED
  BY <1>1, <1>2, <1>3, PhaseNames DEF TypeOK, ProveCommit, vVars

LEMMA TypeLinearize == TypeOK /\ ProveLinearize => TypeOK'
<1> SUFFICES ASSUME TypeOK, ProveLinearize PROVE TypeOK'
  OBVIOUS
<1>1. UNCHANGED <<depth, Iterations>>
  BY DEF ProveLinearize, Iterations, Final
<1>2. (IsTable(pChal, Iterations) /\ \A k \in Iterations : IsTable(pChal[k], Stages))'
  <2> DEFINE tAl == Squeeze(pT, "alpha")
             tBe == Squeeze(tAl, "beta")
             tD == Squeeze(tBe, "D")
             new == [pChal[pIter] EXCEPT !["alpha"] = tAl, !["beta"] = tBe, !["D"] = tD]
  <2>1. IsTable(pChal[pIter], Stages)
    BY DEF TypeOK
  <2>2. IsTable(new, Stages)
    BY <2>1, DrawLinearize
  <2>3. pChal' = [pChal EXCEPT ![pIter] = new]
    BY DEF ProveLinearize
  <2> HIDE DEF new
  <2> QED
    BY <1>1, <2>2, <2>3, ReplayTables
<1> QED
  BY <1>1, <1>2, PhaseNames DEF TypeOK, ProveLinearize, vVars

LEMMA TypeProject == TypeOK /\ ProveProject => TypeOK'
<1> SUFFICES ASSUME TypeOK, ProveProject PROVE TypeOK'
  OBVIOUS
<1>1. UNCHANGED <<depth, Iterations>>
  BY DEF ProveProject, Iterations, Final
<1>2. (IsTable(pChal, Iterations) /\ \A k \in Iterations : IsTable(pChal[k], Stages))'
  <2> DEFINE new == [pChal[pIter] EXCEPT !["Pi"] = Squeeze(pT, "Pi")]
  <2>1. IsTable(pChal[pIter], Stages)
    BY DEF TypeOK
  <2>2. IsTable(new, Stages)
    BY <2>1, TableExcept, StageNames
  <2>3. pChal' = [pChal EXCEPT ![pIter] = new]
    BY DEF ProveProject
  <2> HIDE DEF new
  <2> QED
    BY <1>1, <2>2, <2>3, ReplayTables
<1>3. (jl \in [Iterations -> BOOLEAN])'
  BY <1>1, OutcomesAssumption DEF ProveProject, TypeOK
<1> QED
  BY <1>1, <1>2, <1>3, PhaseNames DEF TypeOK, ProveProject, vVars

LEMMA TypeConstrain == TypeOK /\ ProveConstrain => TypeOK'
<1> SUFFICES ASSUME TypeOK, ProveConstrain PROVE TypeOK'
  OBVIOUS
<1>1. UNCHANGED <<depth, Iterations>>
  BY DEF ProveConstrain, Iterations, Final
<1>2. (IsTable(pChal, Iterations) /\ \A k \in Iterations : IsTable(pChal[k], Stages))'
  <2> DEFINE new == [pChal[pIter] EXCEPT !["psi"] = Squeeze(pT, "psi")]
  <2>1. IsTable(pChal[pIter], Stages)
    BY DEF TypeOK
  <2>2. IsTable(new, Stages)
    BY <2>1, TableExcept, StageNames
  <2>3. pChal' = [pChal EXCEPT ![pIter] = new]
    BY DEF ProveConstrain
  <2> HIDE DEF new
  <2> QED
    BY <1>1, <2>2, <2>3, ReplayTables
<1> QED
  BY <1>1, <1>2, PhaseNames DEF TypeOK, ProveConstrain, vVars

LEMMA TypeAmortize == TypeOK /\ ProveAmortize => TypeOK'
<1> SUFFICES ASSUME TypeOK, ProveAmortize PROVE TypeOK'
  OBVIOUS
<1>1. UNCHANGED <<depth, Iterations>>
  BY DEF ProveAmortize, Iterations, Final
<1>2. (IsTable(pChal, Iterations) /\ \A k \in Iterations : IsTable(pChal[k], Stages))'
  <2> DEFINE new == [pChal[pIter] EXCEPT !["c"] = Squeeze(pT, "c")]
  <2>1. IsTable(pChal[pIter], Stages)
    BY DEF TypeOK
  <2>2. IsTable(new, Stages)
    BY <2>1, TableExcept, StageNames
  <2>3. pChal' = [pChal EXCEPT ![pIter] = new]
    BY DEF ProveAmortize
  <2> HIDE DEF new
  <2> QED
    BY <1>1, <2>2, <2>3, ReplayTables
<1>3. (small \in BOOLEAN)'
  BY <1>1, OutcomesAssumption DEF ProveAmortize, TypeOK
<1> QED
  BY <1>1, <1>2, <1>3, PhaseNames DEF TypeOK, ProveAmortize, vVars

LEMMA TypeFold == TypeOK /\ ProveFold => TypeOK'
<1> SUFFICES ASSUME TypeOK, ProveFold PROVE TypeOK'
  OBVIOUS
<1>1. UNCHANGED <<depth, Iterations>>
  BY DEF ProveFold, Iterations, Final
<1>2. (pIter \in Iterations)'
  BY <1>1, DepthIsPositive DEF ProveFold, TypeOK
<1>3. IsTable(pStmt, Iterations)'
  BY <1>1, <1>2 DEF ProveFold, TypeOK, IsTable
<1>4. (pBar \in Progress)'
  BY ProgressTicks DEF ProveFold, TypeOK
<1>5. (pHolds \in [full : BOOLEAN, ct : BOOLEAN])'
  BY DEF ProveFold, TypeOK
<1> QED
  BY <1>1, <1>2, <1>3, <1>4, <1>5, PhaseNames DEF TypeOK, ProveFold, vVars

LEMMA TypeDeliver == TypeOK /\ Deliver => TypeOK'
<1> SUFFICES ASSUME TypeOK, Deliver PROVE TypeOK'
  OBVIOUS
<1>1. UNCHANGED <<depth, Iterations>>
  BY DEF Deliver, Iterations, Final
<1>2. (faults \subseteq PossibleFaults(depth))'
  BY <1>1, FaultSetsArePossible DEF Deliver, TypeOK
<1>3. (pBar \in Progress)'
  BY ProgressTicks DEF Deliver, TypeOK
<1> QED
  BY <1>1, <1>2, <1>3, PhaseNames DEF TypeOK, Deliver

LEMMA TypeHeader == TypeOK /\ VerifyHeader => TypeOK'
<1> SUFFICES ASSUME TypeOK, VerifyHeader PROVE TypeOK'
  OBVIOUS
<1>1. UNCHANGED <<depth, Iterations>>
  BY DEF VerifyHeader, Iterations, Final
<1>2. (vIter \in Iterations)'
  BY <1>1, DepthIsPositive DEF VerifyHeader, TypeOK
<1>3. (vBar \in Progress)'
  BY ProgressTicks DEF VerifyHeader, TypeOK
<1> QED
  BY <1>1, <1>2, <1>3, PhaseNames, ErrorNames DEF TypeOK, VerifyHeader, Return, pVars

LEMMA TypeReplayCommit == TypeOK /\ ReplayCommit => TypeOK'
<1> SUFFICES ASSUME TypeOK, ReplayCommit PROVE TypeOK'
  OBVIOUS
<1>1. UNCHANGED <<depth, Iterations>>
  BY DEF ReplayCommit, Iterations, Final
<1>2. IsTable(vChal, Stages)'
  BY DrawCommit DEF ReplayCommit, TypeOK
<1> QED
  BY <1>1, <1>2, PhaseNames, ErrorNames
     DEF TypeOK, ReplayCommit, Return, pVars

LEMMA TypeReplayProject == TypeOK /\ ReplayProject => TypeOK'
<1> SUFFICES ASSUME TypeOK, ReplayProject PROVE TypeOK'
  OBVIOUS
<1>1. UNCHANGED <<depth, Iterations>>
  BY DEF ReplayProject, Iterations, Final
<1>2. IsTable(vChal, Stages)'
  BY TableExcept, StageNames DEF ReplayProject, TypeOK
<1> QED
  BY <1>1, <1>2, PhaseNames, ErrorNames
     DEF TypeOK, ReplayProject, Return, pVars

LEMMA TypeReplayConstrain == TypeOK /\ ReplayConstrain => TypeOK'
<1> SUFFICES ASSUME TypeOK, ReplayConstrain PROVE TypeOK'
  OBVIOUS
<1>1. UNCHANGED <<depth, Iterations>>
  BY DEF ReplayConstrain, Iterations, Final
<1>2. IsTable(vChal, Stages)'
  BY TableExcept, StageNames DEF ReplayConstrain, TypeOK
<1> QED
  BY <1>1, <1>2, PhaseNames, ErrorNames
     DEF TypeOK, ReplayConstrain, Return, pVars

LEMMA TypeReplayLinearize == TypeOK /\ ReplayLinearize => TypeOK'
<1> SUFFICES ASSUME TypeOK, ReplayLinearize PROVE TypeOK'
  OBVIOUS
<1>1. UNCHANGED <<depth, Iterations>>
  BY DEF ReplayLinearize, Iterations, Final
<1>2. IsTable(vChal, Stages)'
  <2>1. IsTable(vChal, Stages)
    BY DEF TypeOK
  <2>2. CASE Short(vIter, "bpp")
    <3>1. vChal' = [vChal EXCEPT !["alpha"] = Squeeze(vT, "alpha"),
                                 !["beta"] = Squeeze(Squeeze(vT, "alpha"), "beta")]
      BY <2>2 DEF ReplayLinearize
    <3> QED
      BY <2>1, <3>1, DrawTwo
  <2>3. CASE ~Short(vIter, "bpp")
    <3>1. vChal' = [vChal EXCEPT !["alpha"] = Squeeze(vT, "alpha"),
                                 !["beta"] = Squeeze(Squeeze(vT, "alpha"), "beta"),
                                 !["D"] = Squeeze(Squeeze(Squeeze(vT, "alpha"), "beta"), "D")]
      BY <2>3 DEF ReplayLinearize
    <3> QED
      BY <2>1, <3>1, DrawLinearize
  <2> QED
    BY <2>2, <2>3
<1> QED
  BY <1>1, <1>2, PhaseNames, ErrorNames
     DEF TypeOK, ReplayLinearize, Return, pVars

LEMMA TypeReplayAmortize == TypeOK /\ ReplayAmortize => TypeOK'
<1> SUFFICES ASSUME TypeOK, ReplayAmortize PROVE TypeOK'
  OBVIOUS
<1>1. UNCHANGED <<depth, Iterations>>
  BY DEF ReplayAmortize, Iterations, Final
<1>2. IsTable(vChal, Stages)'
  BY TableExcept, StageNames DEF ReplayAmortize, TypeOK
<1> QED
  BY <1>1, <1>2, PhaseNames, ErrorNames
     DEF TypeOK, ReplayAmortize, Return, pVars

LEMMA TypeVerifyCommit == TypeOK /\ VerifyCommit => TypeOK'
<1> SUFFICES ASSUME TypeOK, VerifyCommit PROVE TypeOK'
  OBVIOUS
<1>1. UNCHANGED <<depth, Iterations>>
  BY DEF VerifyCommit, Iterations, Final
<1>2. IsTable(vChal, Stages)'
  <2>1. IsTable(vChal, Stages)
    BY DEF TypeOK
  <2>2. CASE WrongShape
    BY <2>1, <2>2 DEF VerifyCommit, IsTable
  <2>3. CASE ~WrongShape
    <3> DEFINE tA == Squeeze(Absorb(vT, "stmt", vStmt), "A")
    <3>1. vChal' = [vChal EXCEPT !["A"] = tA, !["B"] = Squeeze(tA, "B"),
                                 !["C"] = Squeeze(Squeeze(tA, "B"), "C")]
      BY <2>3 DEF VerifyCommit
    <3> HIDE DEF tA
    <3> QED
      BY <2>1, <3>1, DrawCommit
  <2> QED
    BY <2>2, <2>3
<1>3. (vBar \in Progress)'
  BY ProgressTicks DEF VerifyCommit, Conclude, Continue, TypeOK
<1> QED
  BY <1>1, <1>2, <1>3, PhaseNames, ErrorNames
     DEF TypeOK, VerifyCommit, Conclude, Continue, Return, pVars

LEMMA TypeVerifyProject == TypeOK /\ VerifyProject => TypeOK'
<1> SUFFICES ASSUME TypeOK, VerifyProject PROVE TypeOK'
  OBVIOUS
<1>1. UNCHANGED <<depth, Iterations>>
  BY DEF VerifyProject, Iterations, Final
<1>2. IsTable(vChal, Stages)'
  BY TableExcept, StageNames DEF VerifyProject, TypeOK
<1>3. (vBar \in Progress)'
  BY ProgressTicks DEF VerifyProject, Conclude, Continue, TypeOK
<1> QED
  BY <1>1, <1>2, <1>3, PhaseNames, ErrorNames
     DEF TypeOK, VerifyProject, Conclude, Continue, Return, pVars

LEMMA TypeVerifyConstrain == TypeOK /\ VerifyConstrain => TypeOK'
<1> SUFFICES ASSUME TypeOK, VerifyConstrain PROVE TypeOK'
  OBVIOUS
<1>1. UNCHANGED <<depth, Iterations>>
  BY DEF VerifyConstrain, Iterations, Final
<1>2. IsTable(vChal, Stages)'
  BY TableExcept, StageNames DEF VerifyConstrain, TypeOK
<1>3. (vBar \in Progress)'
  BY ProgressTicks DEF VerifyConstrain, Conclude, Continue, TypeOK
<1> QED
  BY <1>1, <1>2, <1>3, PhaseNames, ErrorNames
     DEF TypeOK, VerifyConstrain, Conclude, Continue, Return, pVars

LEMMA TypeVerifyLinearize == TypeOK /\ VerifyLinearize => TypeOK'
<1> SUFFICES ASSUME TypeOK, VerifyLinearize PROVE TypeOK'
  OBVIOUS
<1>1. UNCHANGED <<depth, Iterations>>
  BY DEF VerifyLinearize, Iterations, Final
<1>2. IsTable(vChal, Stages)'
  BY DrawLinearize DEF VerifyLinearize, TypeOK
<1>3. (vBar \in Progress)'
  BY ProgressTicks DEF VerifyLinearize, Conclude, Continue, TypeOK
<1> QED
  BY <1>1, <1>2, <1>3, PhaseNames, ErrorNames
     DEF TypeOK, VerifyLinearize, Conclude, Continue, Return, pVars

LEMMA TypeVerifyOpen == TypeOK /\ VerifyOpen => TypeOK'
<1> SUFFICES ASSUME TypeOK, VerifyOpen PROVE TypeOK'
  OBVIOUS
<1>1. UNCHANGED <<depth, Iterations>>
  BY DEF VerifyOpen, Iterations, Final
<1>2. IsTable(vChal, Stages)'
  BY TableExcept, StageNames DEF VerifyOpen, TypeOK
<1>3. (vBar \in Progress)'
  BY ProgressTicks DEF VerifyOpen, Conclude, Continue, TypeOK
<1> QED
  BY <1>1, <1>2, <1>3, PhaseNames, ErrorNames, OpeningVerdictType
     DEF TypeOK, VerifyOpen, Conclude, Continue, Return, pVars

LEMMA TypeReplayFold == TypeOK /\ ReplayFold => TypeOK'
<1> SUFFICES ASSUME TypeOK, ReplayFold PROVE TypeOK'
  OBVIOUS
<1>1. UNCHANGED <<depth, Iterations>>
  BY DEF ReplayFold, Iterations, Final
<1>2. (vIter \in Iterations)'
  BY <1>1, DepthIsPositive DEF ReplayFold, TypeOK
<1>3. IsTable(vChal, Stages)'
  BY DEF ReplayFold, TypeOK, IsTable, NoChal
<1>4. (vBar \in Progress)'
  BY ProgressTicks DEF ReplayFold, TypeOK
<1> QED
  BY <1>1, <1>2, <1>3, <1>4, PhaseNames, ErrorNames DEF TypeOK, ReplayFold, Return, pVars

LEMMA TypeStutter == TypeOK /\ UNCHANGED vars => TypeOK'
<1> SUFFICES ASSUME TypeOK, UNCHANGED vars PROVE TypeOK'
  OBVIOUS
<1>1. Iterations' = Iterations
  BY DEF Iterations, Final, vars
<1> QED
  BY <1>1 DEF TypeOK, vars, pVars, vVars

LEMMA TypeStep == TypeOK /\ [Next]_vars => TypeOK'
BY TypeCommit, TypeProject, TypeConstrain, TypeLinearize, TypeAmortize, TypeFold,
   TypeDeliver, TypeHeader, TypeReplayCommit, TypeReplayProject, TypeReplayConstrain,
   TypeReplayLinearize, TypeReplayAmortize, TypeReplayFold, TypeVerifyCommit,
   TypeVerifyProject, TypeVerifyConstrain, TypeVerifyLinearize, TypeVerifyOpen,
   TypeStutter
   DEF Next, Prove, Replay, Verify

\* Every reachable state has its type, whatever the depths.
THEOREM TypeCorrect == Spec => []TypeOK
BY TypeInit, TypeStep, PTL DEF Spec

-----------------------------------------------------------------------------
(***************************************************************************)
(* The three walks agree exactly when they should: Lockstep, ChallengesBind *)
(* and FoldsAgree.                                                          *)
(*                                                                          *)
(* The inductive invariant has two halves.  ProverInv says how the prover's *)
(* challenges hang together: each is squeezed from the one before it and    *)
(* from the prover's own message.  VerifierInv says that what the verifier  *)
(* holds equals what the prover held exactly when nothing before it was     *)
(* altered.  A step of the verifier extends the latter because it mirrors   *)
(* the link of the chain that the former describes.                         *)
(***************************************************************************)

Start(k) == IF k = 0 THEN NewTranscript("seed") ELSE pChal[k - 1]["c"]

LinkCommit(k) ==
  /\ pChal[k]["A"] = Squeeze(Absorb(Start(k), "stmt", pStmt[k]), "A")
  /\ pChal[k]["B"] = Squeeze(pChal[k]["A"], "B")
  /\ pChal[k]["C"] = Squeeze(pChal[k]["B"], "C")
LinkProject(k) ==
  pChal[k]["Pi"] = Squeeze(Absorb(pChal[k]["C"], "u1", "genuine"), "Pi")
LinkConstrain(k) ==
  pChal[k]["psi"] = Squeeze(Absorb(pChal[k]["Pi"], "p", "genuine"), "psi")
LinkLinearize(k) ==
  /\ pChal[k]["alpha"] = Squeeze(Absorb(pChal[k]["psi"], "bpp", "genuine"), "alpha")
  /\ pChal[k]["beta"] = Squeeze(pChal[k]["alpha"], "beta")
  /\ pChal[k]["D"] = Squeeze(pChal[k]["beta"], "D")
LinkAmortize(k) ==
  pChal[k]["c"] = Squeeze(Absorb(pChal[k]["D"], "u2", "genuine"), "c")

\* The prover is in a step after the named one, or iteration k is behind it.
Past(k, later) == k < pIter \/ (k = pIter /\ pPc \in later)

Chain(k) ==
  /\ Past(k, {"project", "constrain", "linearize", "amortize", "end", "returned"})
       => LinkCommit(k)
  /\ Past(k, {"constrain", "linearize", "amortize", "end", "returned"}) => LinkProject(k)
  /\ Past(k, {"linearize", "amortize", "end", "returned"}) => LinkConstrain(k)
  /\ Past(k, {"amortize", "end", "returned"}) => LinkLinearize(k)
  /\ Past(k, {"end", "returned"}) => LinkAmortize(k)

\* The statements the prover's folds produced.
StatementOf(k) ==
  IF k = 0 THEN Root("prover")
  ELSE Folded(k, pChal[k - 1], "genuine", "genuine", "genuine")

ProverInv ==
  /\ IsSeq(pT)
  /\ \A k \in Iterations, s \in Stages : IsSeq(pChal[k][s])
  /\ pPc \in Phases => pT = ProverAt(pIter, pPc)
  /\ \A k \in Iterations : k <= pIter => pStmt[k] = StatementOf(k)
  /\ \A k \in Iterations : Chain(k)
  /\ pPc = "returned" => pIter = Final

LEMMA ProverAtPhases ==
  ASSUME NEW k
  PROVE  /\ ProverAt(k, "commit") = Start(k)
         /\ ProverAt(k, "project") = Absorb(pChal[k]["C"], "u1", "genuine")
         /\ ProverAt(k, "constrain") = Absorb(pChal[k]["Pi"], "p", "genuine")
         /\ ProverAt(k, "linearize") = Absorb(pChal[k]["psi"], "bpp", "genuine")
         /\ ProverAt(k, "amortize") = Absorb(pChal[k]["D"], "u2", "genuine")
         /\ ProverAt(k, "end") = pChal[k]["c"]
BY DEF ProverAt, Start

LEMMA ProverInvInit == Init => ProverInv
<1> SUFFICES ASSUME Init PROVE ProverInv
  OBVIOUS
<1>1. pIter = 0 /\ pPc = "commit" /\ pT = NewTranscript("seed")
      /\ pStmt[0] = Root("prover") /\ \A k \in Iterations : k \in Nat
  BY DepthIsPositive DEF Init, Iterations
<1>2. \A k \in Iterations, s \in Stages : pChal[k][s] = << >>
  BY DEF Init, Iterations, NoChal
<1>3. IsSeq(<< >>)
  BY EmptySeq DEF IsSeq
<1>4. \A k \in Iterations : Chain(k)
  BY <1>1 DEF Chain, Past
<1>5. \A k \in Iterations : k <= pIter => pStmt[k] = StatementOf(k)
  BY <1>1 DEF StatementOf
<1>6. pT = ProverAt(pIter, pPc)
  BY <1>1, ProverAtPhases DEF Start
<1> QED
  BY <1>1, <1>2, <1>3, <1>4, <1>5, <1>6, TranscriptSeq DEF ProverInv

\* A step that draws challenges in iteration pIter leaves the other iterations'
\* links alone.
LEMMA DrawFrame ==
  ASSUME TypeOK, ProverInv, NEW new,
         UNCHANGED <<depth, pIter, pStmt>>, pChal' = [pChal EXCEPT ![pIter] = new],
         pPc # "returned"
  PROVE  /\ pIter \in Iterations /\ Iterations' = Iterations
         /\ pChal'[pIter] = new
         /\ \A k \in Iterations : k # pIter => pChal'[k] = pChal[k]
         /\ Start(pIter)' = Start(pIter)
         /\ \A k \in Iterations : k <= pIter => (pStmt[k] = StatementOf(k))'
         /\ \A k \in Iterations : k # pIter => Chain(k)'
<1>1. pIter \in Iterations /\ Iterations' = Iterations
  BY DEF TypeOK, Iterations, Final
<1>2. pChal'[pIter] = new /\ \A k \in Iterations : k # pIter => pChal'[k] = pChal[k]
  BY <1>1 DEF TypeOK, IsTable
<1>3. \A k \in Iterations : k <= pIter /\ k # 0 =>
         k - 1 \in Iterations /\ k - 1 # pIter
  BY <1>1, DepthIsPositive DEF Iterations, TypeOK
<1>4. \A k \in Iterations : k <= pIter /\ k # 0 => pChal'[k - 1] = pChal[k - 1]
  BY <1>2, <1>3
<1>5. \A k \in Iterations : k <= pIter => Start(k)' = Start(k)
  BY <1>4 DEF Start
<1>6. \A k \in Iterations : k <= pIter => (pStmt[k] = StatementOf(k))'
  BY <1>4 DEF StatementOf, ProverInv
<1>7. ASSUME NEW k \in Iterations, k # pIter
      PROVE  Chain(k)'
  <2>1. CASE k < pIter
    <3>1. Chain(k) /\ pChal'[k] = pChal[k] /\ Start(k)' = Start(k) /\ k <= pIter
      BY <1>2, <1>5, <1>7, <2>1, DepthIsPositive DEF ProverInv, TypeOK
    <3>2. LinkCommit(k)'
      BY <2>1, <3>1 DEF Chain, Past, LinkCommit
    <3>3. LinkProject(k)' /\ LinkConstrain(k)'
      BY <2>1, <3>1 DEF Chain, Past, LinkProject, LinkConstrain
    <3>4. LinkLinearize(k)' /\ LinkAmortize(k)'
      BY <2>1, <3>1 DEF Chain, Past, LinkLinearize, LinkAmortize
    <3> QED
      BY <3>2, <3>3, <3>4 DEF Chain
  <2>2. CASE k > pIter
    BY <2>2, <1>1 DEF Chain, Past, Iterations
  <2> QED
    BY <1>1, <1>7, <2>1, <2>2 DEF Iterations
<1>8. Start(pIter)' = Start(pIter)
  BY <1>1, <1>5 DEF Iterations
<1> QED
  BY <1>1, <1>2, <1>6, <1>7, <1>8

LEMMA CommitChains == TypeOK /\ ProverInv /\ ProveCommit => ProverInv'
<1> SUFFICES ASSUME TypeOK, ProverInv, ProveCommit PROVE ProverInv'
  OBVIOUS
<1> DEFINE tA == Squeeze(Absorb(pT, "stmt", pStmt[pIter]), "A")
           tB == Squeeze(tA, "B")
           tC == Squeeze(tB, "C")
           new == [pChal[pIter] EXCEPT !["A"] = tA, !["B"] = tB, !["C"] = tC]
<1>1. /\ UNCHANGED <<depth, pIter, pStmt>> /\ pPc = "commit" /\ pPc' = "project"
      /\ pChal' = [pChal EXCEPT ![pIter] = new] /\ pT' = Absorb(tC, "u1", "genuine")
  BY DEF ProveCommit
<1>2. IsTable(pChal[pIter], Stages) /\ Chain(pIter) /\ pIter \in Iterations
  BY DEF TypeOK, ProverInv
<1>3. \A s \in Stages : new[s] = IF s = "A" THEN tA ELSE IF s = "B" THEN tB ELSE IF s = "C" THEN tC ELSE pChal[pIter][s]
  BY <1>2, DrawCommit DEF IsTable
<1> HIDE DEF new
<1>4. /\ Iterations' = Iterations /\ pChal'[pIter] = new
      /\ \A k \in Iterations : k # pIter => pChal'[k] = pChal[k]
      /\ Start(pIter)' = Start(pIter)
      /\ \A k \in Iterations : k <= pIter => (pStmt[k] = StatementOf(k))'
      /\ \A k \in Iterations : k # pIter => Chain(k)'
  BY <1>1, DrawFrame
<1>5. pT = ProverAt(pIter, "commit") /\ IsSeq(pT)
  BY <1>1, PhaseNames DEF ProverInv
<1>6. IsSeq(tA) /\ IsSeq(tB) /\ IsSeq(tC) /\ IsSeq(pT')
  BY <1>1, <1>5, TranscriptSeq
<1>7. (\A k \in Iterations, s \in Stages : IsSeq(pChal[k][s]))'
  <2>1. \A s \in Stages : IsSeq(new[s])
    BY <1>2, <1>3, <1>6 DEF ProverInv
  <2>2. \A k \in Iterations, s \in Stages : k # pIter => IsSeq(pChal'[k][s])
    BY <1>4 DEF ProverInv
  <2> QED
    BY <1>2, <1>4, <2>1, <2>2
<1>8. LinkCommit(pIter)'
  BY <1>1, <1>3, <1>4, <1>5, StageNames, ProverAtPhases DEF LinkCommit
<1>9. Chain(pIter)'
  BY <1>1, <1>2, <1>3, <1>4, <1>8, StageNames
     DEF Chain, Past, LinkCommit, LinkProject, LinkConstrain, LinkLinearize, LinkAmortize
<1>10. (pT = ProverAt(pIter, pPc))'
  BY <1>1, <1>3, <1>4, StageNames, ProverAtPhases DEF ProverAt
<1> QED
  BY <1>1, <1>2, <1>4, <1>6, <1>7, <1>9, <1>10 DEF ProverInv

LEMMA ProjectChains == TypeOK /\ ProverInv /\ ProveProject => ProverInv'
<1> SUFFICES ASSUME TypeOK, ProverInv, ProveProject PROVE ProverInv'
  OBVIOUS
<1> DEFINE tPi == Squeeze(pT, "Pi")
           new == [pChal[pIter] EXCEPT !["Pi"] = tPi]
<1>1. /\ UNCHANGED <<depth, pIter, pStmt>> /\ pPc = "project" /\ pPc' = "constrain"
      /\ pChal' = [pChal EXCEPT ![pIter] = new] /\ pT' = Absorb(tPi, "p", "genuine")
  BY DEF ProveProject
<1>2. IsTable(pChal[pIter], Stages) /\ Chain(pIter) /\ pIter \in Iterations
  BY DEF TypeOK, ProverInv
<1>3. \A s \in Stages : new[s] = IF s = "Pi" THEN tPi ELSE pChal[pIter][s]
  BY <1>2, StageNames DEF IsTable
<1> HIDE DEF new
<1>4. /\ Iterations' = Iterations /\ pChal'[pIter] = new
      /\ \A k \in Iterations : k # pIter => pChal'[k] = pChal[k]
      /\ Start(pIter)' = Start(pIter)
      /\ \A k \in Iterations : k <= pIter => (pStmt[k] = StatementOf(k))'
      /\ \A k \in Iterations : k # pIter => Chain(k)'
  BY <1>1, DrawFrame
<1>5. pT = ProverAt(pIter, "project") /\ IsSeq(pT)
  BY <1>1, PhaseNames DEF ProverInv
<1>6. IsSeq(tPi) /\ IsSeq(pT')
  BY <1>1, <1>5, TranscriptSeq
<1>7. (\A k \in Iterations, s \in Stages : IsSeq(pChal[k][s]))'
  <2>1. \A s \in Stages : IsSeq(new[s])
    BY <1>2, <1>3, <1>6 DEF ProverInv
  <2>2. \A k \in Iterations, s \in Stages : k # pIter => IsSeq(pChal'[k][s])
    BY <1>4 DEF ProverInv
  <2> QED
    BY <1>2, <1>4, <2>1, <2>2
<1>8. LinkProject(pIter)'
  BY <1>1, <1>3, <1>4, <1>5, StageNames, ProverAtPhases DEF LinkProject
<1>9. Chain(pIter)'
  BY <1>1, <1>2, <1>3, <1>4, <1>8, StageNames
     DEF Chain, Past, LinkCommit, LinkProject, LinkConstrain, LinkLinearize, LinkAmortize
<1>10. (pT = ProverAt(pIter, pPc))'
  BY <1>1, <1>3, <1>4, StageNames, ProverAtPhases DEF ProverAt
<1> QED
  BY <1>1, <1>2, <1>4, <1>6, <1>7, <1>9, <1>10 DEF ProverInv

LEMMA ConstrainChains == TypeOK /\ ProverInv /\ ProveConstrain => ProverInv'
<1> SUFFICES ASSUME TypeOK, ProverInv, ProveConstrain PROVE ProverInv'
  OBVIOUS
<1> DEFINE tPsi == Squeeze(pT, "psi")
           new == [pChal[pIter] EXCEPT !["psi"] = tPsi]
<1>1. /\ UNCHANGED <<depth, pIter, pStmt>> /\ pPc = "constrain" /\ pPc' = "linearize"
      /\ pChal' = [pChal EXCEPT ![pIter] = new] /\ pT' = Absorb(tPsi, "bpp", "genuine")
  BY DEF ProveConstrain
<1>2. IsTable(pChal[pIter], Stages) /\ Chain(pIter) /\ pIter \in Iterations
  BY DEF TypeOK, ProverInv
<1>3. \A s \in Stages : new[s] = IF s = "psi" THEN tPsi ELSE pChal[pIter][s]
  BY <1>2, StageNames DEF IsTable
<1> HIDE DEF new
<1>4. /\ Iterations' = Iterations /\ pChal'[pIter] = new
      /\ \A k \in Iterations : k # pIter => pChal'[k] = pChal[k]
      /\ Start(pIter)' = Start(pIter)
      /\ \A k \in Iterations : k <= pIter => (pStmt[k] = StatementOf(k))'
      /\ \A k \in Iterations : k # pIter => Chain(k)'
  BY <1>1, DrawFrame
<1>5. pT = ProverAt(pIter, "constrain") /\ IsSeq(pT)
  BY <1>1, PhaseNames DEF ProverInv
<1>6. IsSeq(tPsi) /\ IsSeq(pT')
  BY <1>1, <1>5, TranscriptSeq
<1>7. (\A k \in Iterations, s \in Stages : IsSeq(pChal[k][s]))'
  <2>1. \A s \in Stages : IsSeq(new[s])
    BY <1>2, <1>3, <1>6 DEF ProverInv
  <2>2. \A k \in Iterations, s \in Stages : k # pIter => IsSeq(pChal'[k][s])
    BY <1>4 DEF ProverInv
  <2> QED
    BY <1>2, <1>4, <2>1, <2>2
<1>8. LinkConstrain(pIter)'
  BY <1>1, <1>3, <1>4, <1>5, StageNames, ProverAtPhases DEF LinkConstrain
<1>9. Chain(pIter)'
  BY <1>1, <1>2, <1>3, <1>4, <1>8, StageNames
     DEF Chain, Past, LinkCommit, LinkProject, LinkConstrain, LinkLinearize, LinkAmortize
<1>10. (pT = ProverAt(pIter, pPc))'
  BY <1>1, <1>3, <1>4, StageNames, ProverAtPhases DEF ProverAt
<1> QED
  BY <1>1, <1>2, <1>4, <1>6, <1>7, <1>9, <1>10 DEF ProverInv

LEMMA LinearizeChains == TypeOK /\ ProverInv /\ ProveLinearize => ProverInv'
<1> SUFFICES ASSUME TypeOK, ProverInv, ProveLinearize PROVE ProverInv'
  OBVIOUS
<1> DEFINE tAl == Squeeze(pT, "alpha")
           tBe == Squeeze(tAl, "beta")
           tD == Squeeze(tBe, "D")
           new == [pChal[pIter] EXCEPT !["alpha"] = tAl, !["beta"] = tBe, !["D"] = tD]
<1>1. /\ UNCHANGED <<depth, pIter, pStmt>> /\ pPc = "linearize" /\ pPc' = "amortize"
      /\ pChal' = [pChal EXCEPT ![pIter] = new] /\ pT' = Absorb(tD, "u2", "genuine")
  BY DEF ProveLinearize
<1>2. IsTable(pChal[pIter], Stages) /\ Chain(pIter) /\ pIter \in Iterations
  BY DEF TypeOK, ProverInv
<1>3. \A s \in Stages : new[s] = IF s = "alpha" THEN tAl ELSE IF s = "beta" THEN tBe ELSE IF s = "D" THEN tD ELSE pChal[pIter][s]
  BY <1>2, DrawLinearize DEF IsTable
<1> HIDE DEF new
<1>4. /\ Iterations' = Iterations /\ pChal'[pIter] = new
      /\ \A k \in Iterations : k # pIter => pChal'[k] = pChal[k]
      /\ Start(pIter)' = Start(pIter)
      /\ \A k \in Iterations : k <= pIter => (pStmt[k] = StatementOf(k))'
      /\ \A k \in Iterations : k # pIter => Chain(k)'
  BY <1>1, DrawFrame
<1>5. pT = ProverAt(pIter, "linearize") /\ IsSeq(pT)
  BY <1>1, PhaseNames DEF ProverInv
<1>6. IsSeq(tAl) /\ IsSeq(tBe) /\ IsSeq(tD) /\ IsSeq(pT')
  BY <1>1, <1>5, TranscriptSeq
<1>7. (\A k \in Iterations, s \in Stages : IsSeq(pChal[k][s]))'
  <2>1. \A s \in Stages : IsSeq(new[s])
    BY <1>2, <1>3, <1>6 DEF ProverInv
  <2>2. \A k \in Iterations, s \in Stages : k # pIter => IsSeq(pChal'[k][s])
    BY <1>4 DEF ProverInv
  <2> QED
    BY <1>2, <1>4, <2>1, <2>2
<1>8. LinkLinearize(pIter)'
  BY <1>1, <1>3, <1>4, <1>5, StageNames, ProverAtPhases DEF LinkLinearize
<1>9. Chain(pIter)'
  BY <1>1, <1>2, <1>3, <1>4, <1>8, StageNames
     DEF Chain, Past, LinkCommit, LinkProject, LinkConstrain, LinkLinearize, LinkAmortize
<1>10. (pT = ProverAt(pIter, pPc))'
  BY <1>1, <1>3, <1>4, StageNames, ProverAtPhases DEF ProverAt
<1> QED
  BY <1>1, <1>2, <1>4, <1>6, <1>7, <1>9, <1>10 DEF ProverInv

LEMMA AmortizeChains == TypeOK /\ ProverInv /\ ProveAmortize => ProverInv'
<1> SUFFICES ASSUME TypeOK, ProverInv, ProveAmortize PROVE ProverInv'
  OBVIOUS
<1> DEFINE tC == Squeeze(pT, "c")
           new == [pChal[pIter] EXCEPT !["c"] = tC]
<1>1. /\ UNCHANGED <<depth, pIter, pStmt>> /\ pPc = "amortize" /\ pPc' = "end"
      /\ pChal' = [pChal EXCEPT ![pIter] = new] /\ pT' = tC
  BY DEF ProveAmortize
<1>2. IsTable(pChal[pIter], Stages) /\ Chain(pIter) /\ pIter \in Iterations
  BY DEF TypeOK, ProverInv
<1>3. \A s \in Stages : new[s] = IF s = "c" THEN tC ELSE pChal[pIter][s]
  BY <1>2, StageNames DEF IsTable
<1> HIDE DEF new
<1>4. /\ Iterations' = Iterations /\ pChal'[pIter] = new
      /\ \A k \in Iterations : k # pIter => pChal'[k] = pChal[k]
      /\ Start(pIter)' = Start(pIter)
      /\ \A k \in Iterations : k <= pIter => (pStmt[k] = StatementOf(k))'
      /\ \A k \in Iterations : k # pIter => Chain(k)'
  BY <1>1, DrawFrame
<1>5. pT = ProverAt(pIter, "amortize") /\ IsSeq(pT)
  BY <1>1, PhaseNames DEF ProverInv
<1>6. IsSeq(tC) /\ IsSeq(pT')
  BY <1>1, <1>5, TranscriptSeq
<1>7. (\A k \in Iterations, s \in Stages : IsSeq(pChal[k][s]))'
  <2>1. \A s \in Stages : IsSeq(new[s])
    BY <1>2, <1>3, <1>6 DEF ProverInv
  <2>2. \A k \in Iterations, s \in Stages : k # pIter => IsSeq(pChal'[k][s])
    BY <1>4 DEF ProverInv
  <2> QED
    BY <1>2, <1>4, <2>1, <2>2
<1>8. LinkAmortize(pIter)'
  BY <1>1, <1>3, <1>4, <1>5, StageNames, ProverAtPhases DEF LinkAmortize
<1>9. Chain(pIter)'
  BY <1>1, <1>2, <1>3, <1>4, <1>8, StageNames
     DEF Chain, Past, LinkCommit, LinkProject, LinkConstrain, LinkLinearize, LinkAmortize
<1>10. (pT = ProverAt(pIter, pPc))'
  BY <1>1, <1>3, <1>4, StageNames, ProverAtPhases DEF ProverAt
<1> QED
  BY <1>1, <1>2, <1>4, <1>6, <1>7, <1>9, <1>10 DEF ProverInv

LEMMA FoldChains == TypeOK /\ ProverInv /\ ProveFold => ProverInv'
<1> SUFFICES ASSUME TypeOK, ProverInv, ProveFold PROVE ProverInv'
  OBVIOUS
<1>1. /\ UNCHANGED <<depth, pChal, pT>> /\ pPc = "end" /\ pPc' = "commit"
      /\ pIter < Final /\ pIter' = pIter + 1 /\ Iterations' = Iterations
      /\ pIter \in Iterations /\ pIter + 1 \in Iterations
      /\ \A k \in Iterations : k \in Nat
  BY DepthIsPositive DEF ProveFold, TypeOK, Iterations, Final
<1>2. \A k \in Iterations : pStmt'[k] =
         IF k = pIter + 1 THEN Folded(k, pChal[pIter], "genuine", "genuine", "genuine")
         ELSE pStmt[k]
  BY <1>1 DEF ProveFold, TypeOK, IsTable
<1>3. \A k \in Iterations : StatementOf(k)' = StatementOf(k) /\ Start(k)' = Start(k)
  BY <1>1 DEF StatementOf, Start
<1>4. StatementOf(pIter + 1) = Folded(pIter + 1, pChal[pIter], "genuine", "genuine", "genuine")
  BY <1>1 DEF StatementOf
<1>5. (\A k \in Iterations : k <= pIter => pStmt[k] = StatementOf(k))'
  BY <1>1, <1>2, <1>3, <1>4 DEF ProverInv
<1>6. (\A k \in Iterations : Chain(k))'
  <2> SUFFICES ASSUME NEW k \in Iterations PROVE Chain(k)'
    BY <1>1
  <2>1. CASE k <= pIter
    <3>1. pStmt'[k] = pStmt[k] /\ Start(k)' = Start(k) /\ (k < pIter \/ k = pIter) /\ k < pIter'
      BY <1>1, <1>2, <1>3, <2>1
    <3>2. LinkCommit(k) /\ LinkProject(k) /\ LinkConstrain(k) /\ LinkLinearize(k)
          /\ LinkAmortize(k)
      BY <1>1, <3>1 DEF ProverInv, Chain, Past
    <3> QED
      BY <1>1, <3>1, <3>2
         DEF Chain, LinkCommit, LinkProject, LinkConstrain, LinkLinearize, LinkAmortize
  <2>2. CASE k > pIter
    BY <1>1, <2>2 DEF Chain, Past
  <2> QED
    BY <1>1, <2>1, <2>2
<1>7. (pT = ProverAt(pIter, pPc))'
  <2>1. pT = pChal[pIter]["c"]
    BY <1>1, ProverAtPhases, PhaseNames DEF ProverInv
  <2>2. (pIter + 1) # 0 /\ (pIter + 1) - 1 = pIter
    BY <1>1
  <2> QED
    BY <1>1, <2>1, <2>2, ProverAtPhases DEF ProverAt
<1> QED
  BY <1>1, <1>5, <1>6, <1>7 DEF ProverInv

LEMMA DeliverChains == TypeOK /\ ProverInv /\ Deliver => ProverInv'
<1> SUFFICES ASSUME TypeOK, ProverInv, Deliver PROVE ProverInv'
  OBVIOUS
<1>1. /\ UNCHANGED <<depth, pChal, pT, pStmt, pIter>> /\ pPc = "end" /\ pPc' = "returned"
      /\ pIter = Final /\ Final' = Final /\ Iterations' = Iterations
  BY DEF Deliver, Iterations, Final
<1>2. \A k : StatementOf(k)' = StatementOf(k) /\ Start(k)' = Start(k)
  BY <1>1 DEF StatementOf, Start
<1>3. (\A k \in Iterations : Chain(k))'
  BY <1>1, <1>2 DEF ProverInv, Chain, Past, LinkCommit, LinkProject, LinkConstrain,
                    LinkLinearize, LinkAmortize
<1> QED
  BY <1>1, <1>2, <1>3, PhaseNames DEF ProverInv

LEMMA ProverRests ==
  ProverInv /\ UNCHANGED <<depth, pVars>> => ProverInv'
<1> SUFFICES ASSUME ProverInv, UNCHANGED <<depth, pVars>> PROVE ProverInv'
  OBVIOUS
<1>1. Final' = Final /\ Iterations' = Iterations
      /\ UNCHANGED <<pChal, pT, pStmt, pIter, pPc>>
  BY DEF Iterations, Final, pVars
<1>2. \A k : StatementOf(k)' = StatementOf(k) /\ Start(k)' = Start(k)
  BY <1>1 DEF StatementOf, Start
<1>3. (\A k \in Iterations : Chain(k))'
  BY <1>1, <1>2 DEF ProverInv, Chain, Past, LinkCommit, LinkProject, LinkConstrain,
                    LinkLinearize, LinkAmortize
<1>4. ProverAt(pIter, pPc)' = ProverAt(pIter, pPc)
  BY <1>1 DEF ProverAt
<1> QED
  BY <1>1, <1>2, <1>3, <1>4 DEF ProverInv

LEMMA ProverInvStep == TypeOK /\ ProverInv /\ [Next]_vars => ProverInv'
<1> SUFFICES ASSUME TypeOK, ProverInv, [Next]_vars PROVE ProverInv'
  OBVIOUS
<1>1. CASE Prove
  BY <1>1, CommitChains, ProjectChains, ConstrainChains, LinearizeChains, AmortizeChains,
     FoldChains, DeliverChains DEF Prove
<1>2. CASE VerifyHeader
  BY <1>2, ProverRests DEF VerifyHeader
<1>3. CASE Replay
  BY <1>3, ProverRests DEF Replay, ReplayCommit, ReplayProject, ReplayConstrain,
     ReplayLinearize, ReplayAmortize, ReplayFold
<1>4. CASE Verify
  BY <1>4, ProverRests DEF Verify, VerifyCommit, VerifyProject, VerifyConstrain,
     VerifyLinearize, VerifyOpen
<1>5. CASE UNCHANGED vars
  BY <1>5, ProverRests DEF vars
<1> QED
  BY <1>1, <1>2, <1>3, <1>4, <1>5 DEF Next
-----------------------------------------------------------------------------
(* The verifier's half.                                                    *)

\* What a genuine delivery has in common with the prover up to a step.
Bound(k, ph) == SameStatement /\ MessagesIntact(k, ph)

Binds(s) == vChal[s] = pChal[vIter][s] <=> Bound(vIter, PhaseOf(s))

\* The challenges drawn in an iteration before step ph.
DrawnBefore(ph) ==
  CASE ph = "commit" -> {}
    [] ph = "project" -> {"A", "B", "C"}
    [] ph = "constrain" -> {"A", "B", "C", "Pi"}
    [] ph = "linearize" -> {"A", "B", "C", "Pi", "psi"}
    [] ph = "amortize" -> Stages \ {"c"}
    [] ph = "end" -> Stages

VerifierInv ==
  /\ IsSeq(vT)
  /\ vPc # "waiting" => pPc = "returned"
  /\ vPc \in {"waiting", "header"} => vChal = NoChal
  /\ vPc \in Phases =>
       /\ \A s \in DrawnBefore(vPc) : Binds(s)
       /\ \A s \in Stages \ DrawnBefore(vPc) : vChal[s] = << >>
  /\ Lockstep
  /\ FoldsAgree
  /\ ChallengesBind

LEMMA AbsorbedSoFar ==
  ASSUME NEW k
  PROVE  /\ MessagesIntact(k, "project") <=> MessagesIntact(k, "commit") /\ ~Changed(k, "u1")
         /\ MessagesIntact(k, "constrain") <=> MessagesIntact(k, "project") /\ ~Changed(k, "p")
         /\ MessagesIntact(k, "linearize")
              <=> MessagesIntact(k, "constrain") /\ ~Changed(k, "bpp")
         /\ MessagesIntact(k, "amortize")
              <=> MessagesIntact(k, "linearize") /\ ~Changed(k, "u2")
         /\ MessagesIntact(k, "end") <=> MessagesIntact(k, "amortize")
<1> DEFINE Before == \A j \in Iterations : j < k => \A f \in Commitments : ~Changed(j, f)
<1>1. /\ AbsorbedBefore("commit") = {} /\ AbsorbedBefore("project") = {"u1"}
      /\ AbsorbedBefore("constrain") = {"u1", "p"}
      /\ AbsorbedBefore("linearize") = {"u1", "p", "bpp"}
      /\ AbsorbedBefore("amortize") = {"u1", "p", "bpp", "u2"}
      /\ AbsorbedBefore("end") = {"u1", "p", "bpp", "u2"}
  BY DEF AbsorbedBefore, Commitments
<1>2. \A ph : MessagesIntact(k, ph) <=> Before /\ \A f \in AbsorbedBefore(ph) : ~Changed(k, f)
  BY DEF MessagesIntact
<1> HIDE DEF Before
<1> QED
  BY <1>1, <1>2

LEMMA NextIteration ==
  ASSUME depth \in Depths, NEW k \in Iterations
  PROVE  MessagesIntact(k + 1, "commit") <=> MessagesIntact(k, "end")
<1>1. \A j \in Iterations : j < k + 1 <=> j < k \/ j = k
  BY DepthIsPositive
<1>2. AbsorbedBefore("commit") = {} /\ AbsorbedBefore("end") = Commitments
  BY DEF AbsorbedBefore
<1> QED
  BY <1>1, <1>2 DEF MessagesIntact

LEMMA FirstIteration ==
  ASSUME depth \in Depths
  PROVE  MessagesIntact(0, "commit")
<1>1. \A j \in Iterations : ~(j < 0)
  BY DepthIsPositive
<1> QED
  BY <1>1 DEF MessagesIntact, AbsorbedBefore

LEMMA GenuineValue ==
  ASSUME NEW k, NEW f
  PROVE  Value(k, f) = "genuine" <=> ~Changed(k, f)
BY DEF Value

LEMMA StagePhases ==
  /\ \A s \in {"A", "B", "C"} : PhaseOf(s) = "commit"
  /\ PhaseOf("Pi") = "project" /\ PhaseOf("psi") = "constrain"
  /\ \A s \in {"alpha", "beta", "D"} : PhaseOf(s) = "linearize"
  /\ PhaseOf("c") = "amortize"
BY DEF PhaseOf

LEMMA DrawnSoFar ==
  /\ DrawnBefore("commit") = {} /\ DrawnBefore("end") = Stages
  /\ DrawnBefore("project") = {"A", "B", "C"}
  /\ DrawnBefore("constrain") = DrawnBefore("project") \cup {"Pi"}
  /\ DrawnBefore("linearize") = DrawnBefore("constrain") \cup {"psi"}
  /\ DrawnBefore("amortize") = DrawnBefore("linearize") \cup {"alpha", "beta", "D"}
  /\ DrawnBefore("end") = DrawnBefore("amortize") \cup {"c"}
  /\ "Pi" \notin DrawnBefore("project") /\ "psi" \notin DrawnBefore("constrain")
  /\ DrawnBefore("linearize") \cap {"alpha", "beta", "D"} = {}
  /\ "c" \notin DrawnBefore("amortize")
  /\ \A ph \in Phases : DrawnBefore(ph) \subseteq Stages
BY DEF DrawnBefore, Stages, Phases

\* Once the proof is out every link of the prover's chain is in place.
LEMMA WholeChain ==
  ASSUME TypeOK, ProverInv, pPc = "returned", NEW k \in Iterations
  PROVE  /\ LinkCommit(k) /\ LinkProject(k) /\ LinkConstrain(k)
         /\ LinkLinearize(k) /\ LinkAmortize(k)
         /\ pStmt[k] = StatementOf(k)
         /\ \A s \in Stages : IsSeq(pChal[k][s])
         /\ IsSeq(Start(k))
<1>0. k \in Nat /\ k <= Final /\ Final \in Nat
  BY DepthIsPositive DEF TypeOK
<1>1. pIter = Final /\ k <= pIter /\ (k < pIter \/ k = pIter)
  <2>1. pIter = Final
    BY DEF ProverInv
  <2> QED
    BY <1>0, <2>1
<1>2. Chain(k) /\ pStmt[k] = StatementOf(k)
  BY <1>1 DEF ProverInv
<1>3. k # 0 => k - 1 \in Iterations
  BY <1>0 DEF Iterations
<1>4. IsSeq(Start(k))
  BY <1>3, TranscriptSeq, StageNames DEF Start, ProverInv
<1> QED
  BY <1>1, <1>2, <1>4 DEF Chain, Past, ProverInv

\* One lemma for each step of an iteration: started from transcript t, the
\* challenges and the transcript it ends with are the prover's exactly when t,
\* and what the step absorbs, are.
LEMMA MirrorCommit ==
  ASSUME TypeOK, ProverInv, pPc = "returned", NEW k \in Iterations,
         NEW t, IsSeq(t), NEW st, NEW msg, NEW tA, NEW tB, NEW tC,
         tA = Squeeze(Absorb(t, "stmt", st), "A"),
         tB = Squeeze(tA, "B"), tC = Squeeze(tB, "C")
  PROVE  /\ tA = pChal[k]["A"] <=> t = ProverAt(k, "commit") /\ st = pStmt[k]
         /\ tB = pChal[k]["B"] <=> t = ProverAt(k, "commit") /\ st = pStmt[k]
         /\ tC = pChal[k]["C"] <=> t = ProverAt(k, "commit") /\ st = pStmt[k]
         /\ Absorb(tC, "u1", msg) = ProverAt(k, "project")
              <=> /\ t = ProverAt(k, "commit") /\ st = pStmt[k]
                  /\ msg = "genuine"
         /\ tA # << >> /\ tB # << >> /\ tC # << >>
         /\ IsSeq(Absorb(tC, "u1", msg))
<1>1. LinkCommit(k) /\ IsSeq(Start(k)) /\ \A s \in Stages : IsSeq(pChal[k][s])
  BY WholeChain
<1>2. IsSeq(Absorb(t, "stmt", st)) /\ IsSeq(Absorb(Start(k), "stmt", pStmt[k]))
  BY <1>1, TranscriptSeq
<1>3. IsSeq(tA) /\ IsSeq(tB) /\ IsSeq(tC) /\ tA # << >> /\ tB # << >> /\ tC # << >>
      /\ IsSeq(Absorb(tC, "u1", msg))
  BY <1>2, TranscriptSeq
<1>4. tA = pChal[k]["A"] <=> t = Start(k) /\ st = pStmt[k]
  BY <1>1, <1>2, TranscriptBinds DEF LinkCommit
<1>5. tB = pChal[k]["B"] <=> tA = pChal[k]["A"]
  BY <1>1, <1>3, TranscriptBinds, StageNames DEF LinkCommit
<1>6. tC = pChal[k]["C"] <=> tB = pChal[k]["B"]
  BY <1>1, <1>3, TranscriptBinds, StageNames DEF LinkCommit
<1>7. Absorb(tC, "u1", msg) = Absorb(pChal[k]["C"], "u1", "genuine")
        <=> tC = pChal[k]["C"] /\ msg = "genuine"
  BY <1>1, <1>3, TranscriptBinds, StageNames
<1> QED
  BY <1>3, <1>4, <1>5, <1>6, <1>7, ProverAtPhases

LEMMA MirrorProject ==
  ASSUME TypeOK, ProverInv, pPc = "returned", NEW k \in Iterations,
         NEW t, IsSeq(t), NEW msg, NEW u, u = Squeeze(t, "Pi")
  PROVE  /\ u = pChal[k]["Pi"] <=> t = ProverAt(k, "project")
         /\ Absorb(u, "p", msg) = ProverAt(k, "constrain")
              <=> t = ProverAt(k, "project") /\ msg = "genuine"
         /\ u # << >> /\ IsSeq(u) /\ IsSeq(Absorb(u, "p", msg))
<1>1. LinkProject(k) /\ \A s \in Stages : IsSeq(pChal[k][s])
  BY WholeChain
<1>2. IsSeq(ProverAt(k, "project"))
  BY <1>1, TranscriptSeq, StageNames, ProverAtPhases
<1>3. IsSeq(u) /\ u # << >>
  BY TranscriptSeq
<1>4. u = pChal[k]["Pi"] <=> t = ProverAt(k, "project")
  BY <1>1, <1>2, TranscriptBinds, ProverAtPhases DEF LinkProject
<1>5. Absorb(u, "p", msg) = Absorb(pChal[k]["Pi"], "p", "genuine")
        <=> u = pChal[k]["Pi"] /\ msg = "genuine"
  BY <1>1, <1>3, TranscriptBinds, StageNames
<1> QED
  BY <1>3, <1>4, <1>5, TranscriptSeq, ProverAtPhases

LEMMA MirrorConstrain ==
  ASSUME TypeOK, ProverInv, pPc = "returned", NEW k \in Iterations,
         NEW t, IsSeq(t), NEW msg, NEW u, u = Squeeze(t, "psi")
  PROVE  /\ u = pChal[k]["psi"] <=> t = ProverAt(k, "constrain")
         /\ Absorb(u, "bpp", msg) = ProverAt(k, "linearize")
              <=> t = ProverAt(k, "constrain") /\ msg = "genuine"
         /\ u # << >> /\ IsSeq(u) /\ IsSeq(Absorb(u, "bpp", msg))
<1>1. LinkConstrain(k) /\ \A s \in Stages : IsSeq(pChal[k][s])
  BY WholeChain
<1>2. IsSeq(ProverAt(k, "constrain"))
  BY <1>1, TranscriptSeq, StageNames, ProverAtPhases
<1>3. IsSeq(u) /\ u # << >>
  BY TranscriptSeq
<1>4. u = pChal[k]["psi"] <=> t = ProverAt(k, "constrain")
  BY <1>1, <1>2, TranscriptBinds, ProverAtPhases DEF LinkConstrain
<1>5. Absorb(u, "bpp", msg) = Absorb(pChal[k]["psi"], "bpp", "genuine")
        <=> u = pChal[k]["psi"] /\ msg = "genuine"
  BY <1>1, <1>3, TranscriptBinds, StageNames
<1> QED
  BY <1>3, <1>4, <1>5, TranscriptSeq, ProverAtPhases

LEMMA MirrorLinearize ==
  ASSUME TypeOK, ProverInv, pPc = "returned", NEW k \in Iterations,
         NEW t, IsSeq(t), NEW msg, NEW tAl, NEW tBe, NEW tD,
         tAl = Squeeze(t, "alpha"), tBe = Squeeze(tAl, "beta"), tD = Squeeze(tBe, "D")
  PROVE  /\ tAl = pChal[k]["alpha"] <=> t = ProverAt(k, "linearize")
         /\ tBe = pChal[k]["beta"] <=> t = ProverAt(k, "linearize")
         /\ tD = pChal[k]["D"] <=> t = ProverAt(k, "linearize")
         /\ Absorb(tD, "u2", msg) = ProverAt(k, "amortize")
              <=> t = ProverAt(k, "linearize") /\ msg = "genuine"
         /\ tAl # << >> /\ tBe # << >> /\ tD # << >>
         /\ IsSeq(Absorb(tD, "u2", msg))
<1>1. LinkLinearize(k) /\ \A s \in Stages : IsSeq(pChal[k][s])
  BY WholeChain
<1>2. IsSeq(ProverAt(k, "linearize"))
  BY <1>1, TranscriptSeq, StageNames, ProverAtPhases
<1>3. IsSeq(tAl) /\ IsSeq(tBe) /\ IsSeq(tD) /\ tAl # << >> /\ tBe # << >> /\ tD # << >>
      /\ IsSeq(Absorb(tD, "u2", msg))
  BY TranscriptSeq
<1>4. tAl = pChal[k]["alpha"] <=> t = ProverAt(k, "linearize")
  BY <1>1, <1>2, TranscriptBinds, ProverAtPhases DEF LinkLinearize
<1>5. tBe = pChal[k]["beta"] <=> tAl = pChal[k]["alpha"]
  BY <1>1, <1>3, TranscriptBinds, StageNames DEF LinkLinearize
<1>6. tD = pChal[k]["D"] <=> tBe = pChal[k]["beta"]
  BY <1>1, <1>3, TranscriptBinds, StageNames DEF LinkLinearize
<1>7. Absorb(tD, "u2", msg) = Absorb(pChal[k]["D"], "u2", "genuine")
        <=> tD = pChal[k]["D"] /\ msg = "genuine"
  BY <1>1, <1>3, TranscriptBinds, StageNames
<1> QED
  BY <1>3, <1>4, <1>5, <1>6, <1>7, ProverAtPhases

LEMMA MirrorAmortize ==
  ASSUME TypeOK, ProverInv, pPc = "returned", NEW k \in Iterations,
         NEW t, IsSeq(t), NEW u, u = Squeeze(t, "c")
  PROVE  /\ u = pChal[k]["c"] <=> t = ProverAt(k, "amortize")
         /\ u = ProverAt(k, "end") <=> t = ProverAt(k, "amortize")
         /\ u # << >> /\ IsSeq(u)
<1>1. LinkAmortize(k) /\ \A s \in Stages : IsSeq(pChal[k][s])
  BY WholeChain
<1>2. IsSeq(ProverAt(k, "amortize"))
  BY <1>1, TranscriptSeq, StageNames, ProverAtPhases
<1>3. IsSeq(u) /\ u # << >>
  BY TranscriptSeq
<1>4. u = pChal[k]["c"] <=> t = ProverAt(k, "amortize")
  BY <1>1, <1>2, TranscriptBinds, ProverAtPhases DEF LinkAmortize
<1> QED
  BY <1>3, <1>4, ProverAtPhases

\* What a step of the verifier reads and does not write keeps its meaning.
LEMMA VerifierFrame ==
  ASSUME UNCHANGED <<depth, faults, pVars>>
  PROVE  /\ Iterations' = Iterations /\ Final' = Final /\ SameStatement' = SameStatement
         /\ \A k, ph : /\ MessagesIntact(k, ph)' = MessagesIntact(k, ph)
                       /\ Bound(k, ph)' = Bound(k, ph)
                       /\ ProverAt(k, ph)' = ProverAt(k, ph)
<1>1. Iterations' = Iterations /\ Final' = Final /\ SameStatement' = SameStatement
      /\ UNCHANGED <<pChal, faults>>
  BY DEF Iterations, Final, SameStatement, pVars
<1>2. \A k, f : Changed(k, f)' = Changed(k, f)
  BY <1>1 DEF Altered, Short, Changed
<1>3. \A k, ph : MessagesIntact(k, ph)' = MessagesIntact(k, ph)
  BY <1>1, <1>2 DEF MessagesIntact
<1>4. \A k, ph : Bound(k, ph)' = Bound(k, ph)
  BY <1>1, <1>3 DEF Bound
<1>5. \A k, ph : ProverAt(k, ph)' = ProverAt(k, ph)
  BY <1>1 DEF ProverAt
<1> QED
  BY <1>1, <1>3, <1>4, <1>5

\* A step within an iteration that draws the challenges in drawn.
LEMMA Advance ==
  ASSUME TypeOK, ProverInv, VerifierInv, UNCHANGED <<depth, faults, pVars, vIter, vStmt>>,
         vPc \in Phases, NEW nxt \in Phases, nxt # "commit", vPc' \in {nxt, "returned"},
         NEW drawn, drawn \subseteq Stages, DrawnBefore(nxt) = DrawnBefore(vPc) \cup drawn,
         \A s \in drawn : vChal'[s] = pChal[vIter][s] <=> Bound(vIter, PhaseOf(s)),
         \A s \in Stages \ drawn : vChal'[s] = vChal[s],
         IsSeq(vT'),
         vPc' = nxt => (vT' = ProverAt(vIter, nxt) <=> Bound(vIter, nxt))
  PROVE  VerifierInv'
<1>1. UNCHANGED <<pChal, pStmt, pPc>> /\ pPc = "returned" /\ vPc # "waiting"
  BY PhaseNames DEF pVars, VerifierInv
<1>2. /\ \A k, ph : /\ MessagesIntact(k, ph)' = MessagesIntact(k, ph)
                    /\ Bound(k, ph)' = Bound(k, ph)
                    /\ ProverAt(k, ph)' = ProverAt(k, ph)
      /\ SameStatement' = SameStatement
  BY VerifierFrame
<1>3. \A s \in DrawnBefore(vPc) : s \in Stages
  BY DrawnSoFar
<1>4. \A s \in Stages : s \notin drawn /\ vChal[s] # << >>
                          => (vChal[s] = pChal[vIter][s] <=> Bound(vIter, PhaseOf(s)))
  BY DEF VerifierInv, ChallengesBind, Bound
<1>5. \A s \in DrawnBefore(vPc) : s \notin drawn
         => (vChal'[s] = pChal[vIter][s] <=> Bound(vIter, PhaseOf(s)))
  BY <1>3 DEF VerifierInv, Binds
<1>6. (\A s \in DrawnBefore(nxt) : Binds(s))'
  BY <1>1, <1>2, <1>5 DEF Binds
<1>7. (\A s \in Stages \ DrawnBefore(nxt) : vChal[s] = << >>)'
  BY DEF VerifierInv
<1>8. Lockstep'
  BY <1>2, PhaseNames DEF Lockstep, Bound
<1>9. FoldsAgree'
  BY <1>1, <1>2, PhaseNames DEF FoldsAgree, VerifierInv
<1>10. ChallengesBind'
  <2> SUFFICES ASSUME NEW s \in Stages, vChal'[s] # << >>
               PROVE  vChal'[s] = pChal[vIter][s] <=> Bound(vIter, PhaseOf(s))
    BY <1>1, <1>2 DEF ChallengesBind, Bound
  <2> QED
    BY <1>4
<1> QED
  BY <1>1, <1>6, <1>7, <1>8, <1>9, <1>10, PhaseNames DEF VerifierInv

\* A step that returns, with only the challenges in drawn behind it.
LEMMA Stop ==
  ASSUME TypeOK, VerifierInv, UNCHANGED <<depth, faults, pVars, vIter, vStmt, vT>>,
         vPc \in Phases, vPc' = "returned", NEW drawn, drawn \subseteq Stages,
         \A s \in drawn : vChal'[s] = pChal[vIter][s] <=> Bound(vIter, PhaseOf(s)),
         \A s \in Stages \ drawn : vChal'[s] = vChal[s]
  PROVE  VerifierInv'
<1>1. UNCHANGED <<pChal, pStmt, pPc>> /\ pPc = "returned" /\ IsSeq(vT)
  BY PhaseNames DEF pVars, VerifierInv
<1>2. /\ \A k, ph : /\ MessagesIntact(k, ph)' = MessagesIntact(k, ph)
                    /\ Bound(k, ph)' = Bound(k, ph)
      /\ SameStatement' = SameStatement
  BY VerifierFrame
<1>3. \A s \in Stages : s \notin drawn /\ vChal[s] # << >>
                          => (vChal[s] = pChal[vIter][s] <=> Bound(vIter, PhaseOf(s)))
  BY DEF VerifierInv, ChallengesBind, Bound
<1>4. ChallengesBind'
  <2> SUFFICES ASSUME NEW s \in Stages, vChal'[s] # << >>
               PROVE  vChal'[s] = pChal[vIter][s] <=> Bound(vIter, PhaseOf(s))
    BY <1>1, <1>2 DEF ChallengesBind, Bound
  <2> QED
    BY <1>3
<1> QED
  BY <1>1, <1>4, PhaseNames DEF VerifierInv, Lockstep, FoldsAgree

\* What VerifierInv says before a step.
LEMMA BeforeStep ==
  ASSUME TypeOK, VerifierInv, vPc \in Phases
  PROVE  /\ pPc = "returned" /\ vIter \in Iterations /\ IsSeq(vT) /\ IsTable(vChal, Stages)
         /\ vPc # "commit" => (vT = ProverAt(vIter, vPc) <=> Bound(vIter, vPc))
         /\ vPc = "commit" => (vT = ProverAt(vIter, vPc) /\ vStmt = pStmt[vIter]
                                <=> Bound(vIter, "commit"))
<1>1. vPc # "waiting" /\ pPc = "returned" /\ IsSeq(vT) /\ vIter \in Iterations
      /\ IsTable(vChal, Stages)
  BY PhaseNames DEF VerifierInv, TypeOK
<1>2. vPc # "commit" => (vT = ProverAt(vIter, vPc) <=> Bound(vIter, vPc))
  BY DEF VerifierInv, Lockstep, Bound
<1>3. vStmt = pStmt[vIter] <=> Bound(vIter, "commit")
  BY DEF VerifierInv, FoldsAgree, Bound
<1>4. vPc = "commit" /\ Bound(vIter, "commit") => vT = ProverAt(vIter, vPc)
  BY DEF VerifierInv, Lockstep, Bound
<1> QED
  BY <1>1, <1>2, <1>3, <1>4

LEMMA ReplayCommitBinds ==
  TypeOK /\ ProverInv /\ VerifierInv /\ ReplayCommit => VerifierInv'
<1> SUFFICES ASSUME TypeOK, ProverInv, VerifierInv, ReplayCommit PROVE VerifierInv'
  OBVIOUS
<1> DEFINE tA == Squeeze(Absorb(vT, "stmt", vStmt), "A")
           tB == Squeeze(tA, "B")
           tC == Squeeze(tB, "C")
           drawn == {"A", "B", "C"}
<1>1. /\ vPc = "commit" /\ vPc' \in {"project", "returned"} /\ "project" # "commit"
      /\ UNCHANGED <<depth, faults, pVars, vIter, vStmt>>
      /\ vChal' = [vChal EXCEPT !["A"] = tA, !["B"] = tB, !["C"] = tC]
      /\ vT' = Absorb(tC, "u1", Value(vIter, "u1"))
      /\ vIter = vIter
  BY DEF ReplayCommit, Return
<1>9. /\ tA = Squeeze(Absorb(vT, "stmt", vStmt), "A")
      /\ tB = Squeeze(tA, "B")
      /\ tC = Squeeze(tB, "C")
  OBVIOUS
<1> HIDE DEF tA, tB, tC, drawn
<1>2. /\ vPc \in Phases /\ pPc = "returned" /\ vIter \in Iterations /\ IsSeq(vT)
      /\ IsTable(vChal, Stages)
      /\ vT = ProverAt(vIter, "commit") /\ vStmt = pStmt[vIter] <=> Bound(vIter, "commit")
  BY <1>1, BeforeStep, PhaseNames
<1>3. /\ tA = pChal[vIter]["A"] <=> Bound(vIter, "commit")
      /\ tB = pChal[vIter]["B"] <=> Bound(vIter, "commit")
      /\ tC = pChal[vIter]["C"] <=> Bound(vIter, "commit")
      /\ Absorb(tC, "u1", Value(vIter, "u1")) = ProverAt(vIter, "project") <=> Bound(vIter, "commit") /\ Value(vIter, "u1") = "genuine"
      /\ IsSeq(Absorb(tC, "u1", Value(vIter, "u1")))
  <2> DEFINE same == vT = ProverAt(vIter, "commit") /\ vStmt = pStmt[vIter]
               msg == Value(vIter, "u1")
  <2> HIDE DEF msg
  <2>1. /\ tA = pChal[vIter]["A"] <=> same
        /\ tB = pChal[vIter]["B"] <=> same
        /\ tC = pChal[vIter]["C"] <=> same
        /\ Absorb(tC, "u1", msg) = ProverAt(vIter, "project") <=> same /\ msg = "genuine"
        /\ IsSeq(Absorb(tC, "u1", msg))
    BY <1>2, <1>9, MirrorCommit
  <2> HIDE DEF same
  <2> QED
    BY <1>2, <2>1 DEF same, msg
<1>4. Absorb(tC, "u1", Value(vIter, "u1")) = ProverAt(vIter, "project") <=> Bound(vIter, "project")
  BY <1>1, <1>3, GenuineValue, AbsorbedSoFar DEF Bound
<1>5. IsSeq(vT') /\ (vPc' = "project" => (vT' = ProverAt(vIter, "project") <=> Bound(vIter, "project")))
  BY <1>1, <1>2, <1>3, <1>4
<1>6. \A s \in drawn : vChal'[s] = pChal[vIter][s] <=> Bound(vIter, PhaseOf(s))
  <2>1. vChal'["A"] = tA /\ vChal'["B"] = tB /\ vChal'["C"] = tC
    BY <1>1, <1>2, DrawCommit, StageNames DEF IsTable
  <2> QED
    BY <1>3, <2>1, StagePhases DEF drawn
<1>7. \A s \in Stages \ drawn : vChal'[s] = vChal[s]
  BY <1>1, <1>2, DrawCommit DEF IsTable, drawn
<1>8. DrawnBefore("project") = DrawnBefore(vPc) \cup drawn /\ drawn \subseteq Stages
  BY <1>1, DrawnSoFar, StageNames DEF drawn
<1> QED
  BY <1>1, <1>2, <1>5, <1>6, <1>7, <1>8, PhaseNames, Advance

LEMMA ReplayProjectBinds ==
  TypeOK /\ ProverInv /\ VerifierInv /\ ReplayProject => VerifierInv'
<1> SUFFICES ASSUME TypeOK, ProverInv, VerifierInv, ReplayProject PROVE VerifierInv'
  OBVIOUS
<1> DEFINE tPi == Squeeze(vT, "Pi")
           drawn == {"Pi"}
<1>1. /\ vPc = "project" /\ vPc' \in {"constrain", "returned"} /\ "constrain" # "commit"
      /\ UNCHANGED <<depth, faults, pVars, vIter, vStmt>>
      /\ vChal' = [vChal EXCEPT !["Pi"] = tPi]
      /\ (vPc' = "constrain" => vT' = Absorb(tPi, "p", Value(vIter, "p"))) /\ (vPc' = "returned" => vT' = vT)
      /\ vIter = vIter
  BY DEF ReplayProject, Return
<1>9. tPi = Squeeze(vT, "Pi")
  OBVIOUS
<1> HIDE DEF tPi, drawn
<1>2. /\ vPc \in Phases /\ pPc = "returned" /\ vIter \in Iterations /\ IsSeq(vT)
      /\ IsTable(vChal, Stages)
      /\ vT = ProverAt(vIter, "project") <=> Bound(vIter, "project")
  BY <1>1, BeforeStep, PhaseNames
<1>3. /\ tPi = pChal[vIter]["Pi"] <=> Bound(vIter, "project")
      /\ Absorb(tPi, "p", Value(vIter, "p")) = ProverAt(vIter, "constrain") <=> Bound(vIter, "project") /\ Value(vIter, "p") = "genuine"
      /\ IsSeq(Absorb(tPi, "p", Value(vIter, "p")))
  BY <1>2, <1>9, MirrorProject
<1>4. Absorb(tPi, "p", Value(vIter, "p")) = ProverAt(vIter, "constrain") <=> Bound(vIter, "constrain")
  BY <1>1, <1>3, GenuineValue, AbsorbedSoFar DEF Bound
<1>5. IsSeq(vT') /\ (vPc' = "constrain" => (vT' = ProverAt(vIter, "constrain") <=> Bound(vIter, "constrain")))
  BY <1>1, <1>2, <1>3, <1>4
<1>6. \A s \in drawn : vChal'[s] = pChal[vIter][s] <=> Bound(vIter, PhaseOf(s))
  <2>1. vChal'["Pi"] = tPi
    BY <1>1, <1>2, StageNames, StageNames DEF IsTable
  <2> QED
    BY <1>3, <2>1, StagePhases DEF drawn
<1>7. \A s \in Stages \ drawn : vChal'[s] = vChal[s]
  BY <1>1, <1>2, StageNames DEF IsTable, drawn
<1>8. DrawnBefore("constrain") = DrawnBefore(vPc) \cup drawn /\ drawn \subseteq Stages
  BY <1>1, DrawnSoFar, StageNames DEF drawn
<1> QED
  BY <1>1, <1>2, <1>5, <1>6, <1>7, <1>8, PhaseNames, Advance

LEMMA ReplayConstrainBinds ==
  TypeOK /\ ProverInv /\ VerifierInv /\ ReplayConstrain => VerifierInv'
<1> SUFFICES ASSUME TypeOK, ProverInv, VerifierInv, ReplayConstrain PROVE VerifierInv'
  OBVIOUS
<1> DEFINE tpsi == Squeeze(vT, "psi")
           drawn == {"psi"}
<1>1. /\ vPc = "constrain" /\ vPc' \in {"linearize", "returned"} /\ "linearize" # "commit"
      /\ UNCHANGED <<depth, faults, pVars, vIter, vStmt>>
      /\ vChal' = [vChal EXCEPT !["psi"] = tpsi]
      /\ vT' = Absorb(tpsi, "bpp", Value(vIter, "bpp"))
      /\ vIter = vIter
  BY DEF ReplayConstrain, Return
<1>9. tpsi = Squeeze(vT, "psi")
  OBVIOUS
<1> HIDE DEF tpsi, drawn
<1>2. /\ vPc \in Phases /\ pPc = "returned" /\ vIter \in Iterations /\ IsSeq(vT)
      /\ IsTable(vChal, Stages)
      /\ vT = ProverAt(vIter, "constrain") <=> Bound(vIter, "constrain")
  BY <1>1, BeforeStep, PhaseNames
<1>3. /\ tpsi = pChal[vIter]["psi"] <=> Bound(vIter, "constrain")
      /\ Absorb(tpsi, "bpp", Value(vIter, "bpp")) = ProverAt(vIter, "linearize") <=> Bound(vIter, "constrain") /\ Value(vIter, "bpp") = "genuine"
      /\ IsSeq(Absorb(tpsi, "bpp", Value(vIter, "bpp")))
  BY <1>2, <1>9, MirrorConstrain
<1>4. Absorb(tpsi, "bpp", Value(vIter, "bpp")) = ProverAt(vIter, "linearize") <=> Bound(vIter, "linearize")
  BY <1>1, <1>3, GenuineValue, AbsorbedSoFar DEF Bound
<1>5. IsSeq(vT') /\ (vPc' = "linearize" => (vT' = ProverAt(vIter, "linearize") <=> Bound(vIter, "linearize")))
  BY <1>1, <1>2, <1>3, <1>4
<1>6. \A s \in drawn : vChal'[s] = pChal[vIter][s] <=> Bound(vIter, PhaseOf(s))
  <2>1. vChal'["psi"] = tpsi
    BY <1>1, <1>2, StageNames, StageNames DEF IsTable
  <2> QED
    BY <1>3, <2>1, StagePhases DEF drawn
<1>7. \A s \in Stages \ drawn : vChal'[s] = vChal[s]
  BY <1>1, <1>2, StageNames DEF IsTable, drawn
<1>8. DrawnBefore("linearize") = DrawnBefore(vPc) \cup drawn /\ drawn \subseteq Stages
  BY <1>1, DrawnSoFar, StageNames DEF drawn
<1> QED
  BY <1>1, <1>2, <1>5, <1>6, <1>7, <1>8, PhaseNames, Advance

LEMMA ReplayLinearizeBinds ==
  TypeOK /\ ProverInv /\ VerifierInv /\ ReplayLinearize => VerifierInv'
<1> SUFFICES ASSUME TypeOK, ProverInv, VerifierInv, ReplayLinearize PROVE VerifierInv'
  OBVIOUS
<1> DEFINE tAl == Squeeze(vT, "alpha")
           tBe == Squeeze(tAl, "beta")
           tD == Squeeze(tBe, "D")
           drawn == {"alpha", "beta", "D"}
<1>1. /\ vPc = "linearize" /\ "amortize" # "commit"
      /\ UNCHANGED <<depth, faults, pVars, vIter, vStmt>>
      /\ \/ /\ vPc' = "amortize"
            /\ vChal' = [vChal EXCEPT !["alpha"] = tAl, !["beta"] = tBe, !["D"] = tD]
            /\ vT' = Absorb(tD, "u2", Value(vIter, "u2"))
         \/ /\ vPc' = "returned" /\ vT' = vT
            /\ vChal' = [vChal EXCEPT !["alpha"] = tAl, !["beta"] = tBe]
  BY DEF ReplayLinearize, Return
<1>9. /\ tAl = Squeeze(vT, "alpha")
      /\ tBe = Squeeze(tAl, "beta")
      /\ tD = Squeeze(tBe, "D")
  OBVIOUS
<1> HIDE DEF tAl, tBe, tD, drawn
<1>2. /\ vPc \in Phases /\ pPc = "returned" /\ vIter \in Iterations /\ IsSeq(vT)
      /\ IsTable(vChal, Stages)
      /\ vT = ProverAt(vIter, "linearize") <=> Bound(vIter, "linearize")
  BY <1>1, BeforeStep, PhaseNames
<1>3. /\ tAl = pChal[vIter]["alpha"] <=> Bound(vIter, "linearize")
      /\ tBe = pChal[vIter]["beta"] <=> Bound(vIter, "linearize")
      /\ tD = pChal[vIter]["D"] <=> Bound(vIter, "linearize")
      /\ Absorb(tD, "u2", Value(vIter, "u2")) = ProverAt(vIter, "amortize") <=> Bound(vIter, "linearize") /\ Value(vIter, "u2") = "genuine"
      /\ IsSeq(Absorb(tD, "u2", Value(vIter, "u2")))
  BY <1>2, <1>9, MirrorLinearize
<1>4. Absorb(tD, "u2", Value(vIter, "u2")) = ProverAt(vIter, "amortize") <=> Bound(vIter, "amortize")
  BY <1>1, <1>3, GenuineValue, AbsorbedSoFar DEF Bound
<1>5. CASE /\ vPc' = "amortize"
           /\ vChal' = [vChal EXCEPT !["alpha"] = tAl, !["beta"] = tBe, !["D"] = tD]
           /\ vT' = Absorb(tD, "u2", Value(vIter, "u2"))
  <2>1. IsSeq(vT') /\ (vT' = ProverAt(vIter, "amortize") <=> Bound(vIter, "amortize"))
    BY <1>3, <1>4, <1>5
  <2>2. \A s \in drawn : vChal'[s] = pChal[vIter][s] <=> Bound(vIter, PhaseOf(s))
    <3>1. vChal'["alpha"] = tAl /\ vChal'["beta"] = tBe /\ vChal'["D"] = tD
      BY <1>2, <1>5, DrawLinearize, StageNames DEF IsTable
    <3> QED
      BY <1>3, <3>1, StagePhases DEF drawn
  <2>3. \A s \in Stages \ drawn : vChal'[s] = vChal[s]
    BY <1>2, <1>5, DrawLinearize DEF IsTable, drawn
  <2>4. DrawnBefore("amortize") = DrawnBefore(vPc) \cup drawn /\ drawn \subseteq Stages
    BY <1>1, DrawnSoFar, StageNames DEF drawn
  <2> QED
    BY <1>1, <1>2, <1>5, <2>1, <2>2, <2>3, <2>4, PhaseNames, Advance
<1>6. CASE /\ vPc' = "returned" /\ vT' = vT
           /\ vChal' = [vChal EXCEPT !["alpha"] = tAl, !["beta"] = tBe]
  <2> DEFINE two == {"alpha", "beta"}
  <2> HIDE DEF two
  <2>1. \A s \in two : vChal'[s] = pChal[vIter][s] <=> Bound(vIter, PhaseOf(s))
    <3>1. vChal'["alpha"] = tAl /\ vChal'["beta"] = tBe
      BY <1>2, <1>6, DrawTwo, StageNames DEF IsTable
    <3> QED
      BY <1>3, <3>1, StagePhases DEF two
  <2>2. \A s \in Stages \ two : vChal'[s] = vChal[s]
    BY <1>2, <1>6, DrawTwo DEF two, IsTable
  <2>3. two \subseteq Stages
    BY StageNames DEF two
  <2> QED
    BY <1>1, <1>2, <1>6, <2>1, <2>2, <2>3, Stop
<1> QED
  BY <1>1, <1>5, <1>6

LEMMA ReplayAmortizeBinds ==
  TypeOK /\ ProverInv /\ VerifierInv /\ ReplayAmortize => VerifierInv'
<1> SUFFICES ASSUME TypeOK, ProverInv, VerifierInv, ReplayAmortize PROVE VerifierInv'
  OBVIOUS
<1> DEFINE tc == Squeeze(vT, "c")
           drawn == {"c"}
<1>1. /\ vPc = "amortize" /\ vPc' \in {"end", "returned"} /\ "end" # "commit"
      /\ UNCHANGED <<depth, faults, pVars, vIter, vStmt>>
      /\ vChal' = [vChal EXCEPT !["c"] = tc]
      /\ vT' = tc
      /\ vIter = vIter
  BY DEF ReplayAmortize, Return
<1>9. tc = Squeeze(vT, "c")
  OBVIOUS
<1> HIDE DEF tc, drawn
<1>2. /\ vPc \in Phases /\ pPc = "returned" /\ vIter \in Iterations /\ IsSeq(vT)
      /\ IsTable(vChal, Stages)
      /\ vT = ProverAt(vIter, "amortize") <=> Bound(vIter, "amortize")
  BY <1>1, BeforeStep, PhaseNames
<1>3. /\ tc = pChal[vIter]["c"] <=> Bound(vIter, "amortize")
      /\ tc = ProverAt(vIter, "end") <=> Bound(vIter, "amortize")
      /\ IsSeq(tc)
  BY <1>2, <1>9, MirrorAmortize
<1>4. tc = ProverAt(vIter, "end") <=> Bound(vIter, "end")
  BY <1>1, <1>3, AbsorbedSoFar DEF Bound
<1>5. IsSeq(vT') /\ (vPc' = "end" => (vT' = ProverAt(vIter, "end") <=> Bound(vIter, "end")))
  BY <1>1, <1>2, <1>3, <1>4
<1>6. \A s \in drawn : vChal'[s] = pChal[vIter][s] <=> Bound(vIter, PhaseOf(s))
  <2>1. vChal'["c"] = tc
    BY <1>1, <1>2, StageNames, StageNames DEF IsTable
  <2> QED
    BY <1>3, <2>1, StagePhases DEF drawn
<1>7. \A s \in Stages \ drawn : vChal'[s] = vChal[s]
  BY <1>1, <1>2, StageNames DEF IsTable, drawn
<1>8. DrawnBefore("end") = DrawnBefore(vPc) \cup drawn /\ drawn \subseteq Stages
  BY <1>1, DrawnSoFar, StageNames DEF drawn
<1> QED
  BY <1>1, <1>2, <1>5, <1>6, <1>7, <1>8, PhaseNames, Advance

LEMMA VerifyCommitBinds ==
  TypeOK /\ ProverInv /\ VerifierInv /\ VerifyCommit => VerifierInv'
<1> SUFFICES ASSUME TypeOK, ProverInv, VerifierInv, VerifyCommit PROVE VerifierInv'
  OBVIOUS
<1> DEFINE tA == Squeeze(Absorb(vT, "stmt", vStmt), "A")
           tB == Squeeze(tA, "B")
           tC == Squeeze(tB, "C")
           drawn == {"A", "B", "C"}
<1>0. CASE WrongShape
  <2>1. /\ UNCHANGED <<depth, faults, pVars, vIter, vStmt, vT, vChal>>
        /\ vPc = "commit" /\ vPc' = "returned"
    BY <1>0 DEF VerifyCommit, Conclude, Return
  <2> DEFINE none == {}
  <2>2. /\ vPc \in Phases /\ none \subseteq Stages
        /\ \A s \in none : vChal'[s] = pChal[vIter][s] <=> Bound(vIter, PhaseOf(s))
        /\ \A s \in Stages \ none : vChal'[s] = vChal[s]
    BY <2>1, PhaseNames
  <2> HIDE DEF none
  <2> QED
    BY <2>1, <2>2, Stop
<1> SUFFICES ASSUME ~WrongShape PROVE VerifierInv'
  BY <1>0
<1>1. /\ vPc = "commit" /\ vPc' \in {"project", "returned"} /\ "project" # "commit"
      /\ UNCHANGED <<depth, faults, pVars, vIter, vStmt>>
      /\ vChal' = [vChal EXCEPT !["A"] = tA, !["B"] = tB, !["C"] = tC]
      /\ vT' = Absorb(tC, "u1", Value(Final, "u1"))
      /\ vIter = Final
  BY DEF VerifyCommit, Conclude, Continue, Return
<1>9. /\ tA = Squeeze(Absorb(vT, "stmt", vStmt), "A")
      /\ tB = Squeeze(tA, "B")
      /\ tC = Squeeze(tB, "C")
  OBVIOUS
<1> HIDE DEF tA, tB, tC, drawn
<1>2. /\ vPc \in Phases /\ pPc = "returned" /\ vIter \in Iterations /\ IsSeq(vT)
      /\ IsTable(vChal, Stages)
      /\ vT = ProverAt(vIter, "commit") /\ vStmt = pStmt[vIter] <=> Bound(vIter, "commit")
  BY <1>1, BeforeStep, PhaseNames
<1>3. /\ tA = pChal[vIter]["A"] <=> Bound(vIter, "commit")
      /\ tB = pChal[vIter]["B"] <=> Bound(vIter, "commit")
      /\ tC = pChal[vIter]["C"] <=> Bound(vIter, "commit")
      /\ Absorb(tC, "u1", Value(Final, "u1")) = ProverAt(vIter, "project") <=> Bound(vIter, "commit") /\ Value(Final, "u1") = "genuine"
      /\ IsSeq(Absorb(tC, "u1", Value(Final, "u1")))
  <2> DEFINE same == vT = ProverAt(vIter, "commit") /\ vStmt = pStmt[vIter]
               msg == Value(Final, "u1")
  <2> HIDE DEF msg
  <2>1. /\ tA = pChal[vIter]["A"] <=> same
        /\ tB = pChal[vIter]["B"] <=> same
        /\ tC = pChal[vIter]["C"] <=> same
        /\ Absorb(tC, "u1", msg) = ProverAt(vIter, "project") <=> same /\ msg = "genuine"
        /\ IsSeq(Absorb(tC, "u1", msg))
    BY <1>2, <1>9, MirrorCommit
  <2> HIDE DEF same
  <2> QED
    BY <1>2, <2>1 DEF same, msg
<1>4. Absorb(tC, "u1", Value(Final, "u1")) = ProverAt(vIter, "project") <=> Bound(vIter, "project")
  BY <1>1, <1>3, GenuineValue, AbsorbedSoFar DEF Bound
<1>5. IsSeq(vT') /\ (vPc' = "project" => (vT' = ProverAt(vIter, "project") <=> Bound(vIter, "project")))
  BY <1>1, <1>2, <1>3, <1>4
<1>6. \A s \in drawn : vChal'[s] = pChal[vIter][s] <=> Bound(vIter, PhaseOf(s))
  <2>1. vChal'["A"] = tA /\ vChal'["B"] = tB /\ vChal'["C"] = tC
    BY <1>1, <1>2, DrawCommit, StageNames DEF IsTable
  <2> QED
    BY <1>3, <2>1, StagePhases DEF drawn
<1>7. \A s \in Stages \ drawn : vChal'[s] = vChal[s]
  BY <1>1, <1>2, DrawCommit DEF IsTable, drawn
<1>8. DrawnBefore("project") = DrawnBefore(vPc) \cup drawn /\ drawn \subseteq Stages
  BY <1>1, DrawnSoFar, StageNames DEF drawn
<1> QED
  BY <1>1, <1>2, <1>5, <1>6, <1>7, <1>8, PhaseNames, Advance

LEMMA VerifyProjectBinds ==
  TypeOK /\ ProverInv /\ VerifierInv /\ VerifyProject => VerifierInv'
<1> SUFFICES ASSUME TypeOK, ProverInv, VerifierInv, VerifyProject PROVE VerifierInv'
  OBVIOUS
<1> DEFINE tPi == Squeeze(vT, "Pi")
           drawn == {"Pi"}
<1>1. /\ vPc = "project" /\ vPc' \in {"constrain", "returned"} /\ "constrain" # "commit"
      /\ UNCHANGED <<depth, faults, pVars, vIter, vStmt>>
      /\ vChal' = [vChal EXCEPT !["Pi"] = tPi]
      /\ vT' = Absorb(tPi, "p", Value(Final, "p"))
      /\ vIter = Final
  BY DEF VerifyProject, Conclude, Continue, Return
<1>9. tPi = Squeeze(vT, "Pi")
  OBVIOUS
<1> HIDE DEF tPi, drawn
<1>2. /\ vPc \in Phases /\ pPc = "returned" /\ vIter \in Iterations /\ IsSeq(vT)
      /\ IsTable(vChal, Stages)
      /\ vT = ProverAt(vIter, "project") <=> Bound(vIter, "project")
  BY <1>1, BeforeStep, PhaseNames
<1>3. /\ tPi = pChal[vIter]["Pi"] <=> Bound(vIter, "project")
      /\ Absorb(tPi, "p", Value(Final, "p")) = ProverAt(vIter, "constrain") <=> Bound(vIter, "project") /\ Value(Final, "p") = "genuine"
      /\ IsSeq(Absorb(tPi, "p", Value(Final, "p")))
  BY <1>2, <1>9, MirrorProject
<1>4. Absorb(tPi, "p", Value(Final, "p")) = ProverAt(vIter, "constrain") <=> Bound(vIter, "constrain")
  BY <1>1, <1>3, GenuineValue, AbsorbedSoFar DEF Bound
<1>5. IsSeq(vT') /\ (vPc' = "constrain" => (vT' = ProverAt(vIter, "constrain") <=> Bound(vIter, "constrain")))
  BY <1>1, <1>2, <1>3, <1>4
<1>6. \A s \in drawn : vChal'[s] = pChal[vIter][s] <=> Bound(vIter, PhaseOf(s))
  <2>1. vChal'["Pi"] = tPi
    BY <1>1, <1>2, StageNames, StageNames DEF IsTable
  <2> QED
    BY <1>3, <2>1, StagePhases DEF drawn
<1>7. \A s \in Stages \ drawn : vChal'[s] = vChal[s]
  BY <1>1, <1>2, StageNames DEF IsTable, drawn
<1>8. DrawnBefore("constrain") = DrawnBefore(vPc) \cup drawn /\ drawn \subseteq Stages
  BY <1>1, DrawnSoFar, StageNames DEF drawn
<1> QED
  BY <1>1, <1>2, <1>5, <1>6, <1>7, <1>8, PhaseNames, Advance

LEMMA VerifyConstrainBinds ==
  TypeOK /\ ProverInv /\ VerifierInv /\ VerifyConstrain => VerifierInv'
<1> SUFFICES ASSUME TypeOK, ProverInv, VerifierInv, VerifyConstrain PROVE VerifierInv'
  OBVIOUS
<1> DEFINE tpsi == Squeeze(vT, "psi")
           drawn == {"psi"}
<1>0. CASE Short(Final, "bpp")
  <2>1. /\ UNCHANGED <<depth, faults, pVars, vIter, vStmt, vT, vChal>>
        /\ vPc = "constrain" /\ vPc' = "returned"
    BY <1>0 DEF VerifyConstrain, Conclude, Return
  <2> DEFINE none == {}
  <2>2. /\ vPc \in Phases /\ none \subseteq Stages
        /\ \A s \in none : vChal'[s] = pChal[vIter][s] <=> Bound(vIter, PhaseOf(s))
        /\ \A s \in Stages \ none : vChal'[s] = vChal[s]
    BY <2>1, PhaseNames
  <2> HIDE DEF none
  <2> QED
    BY <2>1, <2>2, Stop
<1> SUFFICES ASSUME ~Short(Final, "bpp") PROVE VerifierInv'
  BY <1>0
<1>1. /\ vPc = "constrain" /\ vPc' \in {"linearize", "returned"} /\ "linearize" # "commit"
      /\ UNCHANGED <<depth, faults, pVars, vIter, vStmt>>
      /\ vChal' = [vChal EXCEPT !["psi"] = tpsi]
      /\ vT' = Absorb(tpsi, "bpp", Value(Final, "bpp"))
      /\ vIter = Final
  BY DEF VerifyConstrain, Conclude, Continue, Return
<1>9. tpsi = Squeeze(vT, "psi")
  OBVIOUS
<1> HIDE DEF tpsi, drawn
<1>2. /\ vPc \in Phases /\ pPc = "returned" /\ vIter \in Iterations /\ IsSeq(vT)
      /\ IsTable(vChal, Stages)
      /\ vT = ProverAt(vIter, "constrain") <=> Bound(vIter, "constrain")
  BY <1>1, BeforeStep, PhaseNames
<1>3. /\ tpsi = pChal[vIter]["psi"] <=> Bound(vIter, "constrain")
      /\ Absorb(tpsi, "bpp", Value(Final, "bpp")) = ProverAt(vIter, "linearize") <=> Bound(vIter, "constrain") /\ Value(Final, "bpp") = "genuine"
      /\ IsSeq(Absorb(tpsi, "bpp", Value(Final, "bpp")))
  BY <1>2, <1>9, MirrorConstrain
<1>4. Absorb(tpsi, "bpp", Value(Final, "bpp")) = ProverAt(vIter, "linearize") <=> Bound(vIter, "linearize")
  BY <1>1, <1>3, GenuineValue, AbsorbedSoFar DEF Bound
<1>5. IsSeq(vT') /\ (vPc' = "linearize" => (vT' = ProverAt(vIter, "linearize") <=> Bound(vIter, "linearize")))
  BY <1>1, <1>2, <1>3, <1>4
<1>6. \A s \in drawn : vChal'[s] = pChal[vIter][s] <=> Bound(vIter, PhaseOf(s))
  <2>1. vChal'["psi"] = tpsi
    BY <1>1, <1>2, StageNames, StageNames DEF IsTable
  <2> QED
    BY <1>3, <2>1, StagePhases DEF drawn
<1>7. \A s \in Stages \ drawn : vChal'[s] = vChal[s]
  BY <1>1, <1>2, StageNames DEF IsTable, drawn
<1>8. DrawnBefore("linearize") = DrawnBefore(vPc) \cup drawn /\ drawn \subseteq Stages
  BY <1>1, DrawnSoFar, StageNames DEF drawn
<1> QED
  BY <1>1, <1>2, <1>5, <1>6, <1>7, <1>8, PhaseNames, Advance

LEMMA VerifyLinearizeBinds ==
  TypeOK /\ ProverInv /\ VerifierInv /\ VerifyLinearize => VerifierInv'
<1> SUFFICES ASSUME TypeOK, ProverInv, VerifierInv, VerifyLinearize PROVE VerifierInv'
  OBVIOUS
<1> DEFINE tAl == Squeeze(vT, "alpha")
           tBe == Squeeze(tAl, "beta")
           tD == Squeeze(tBe, "D")
           drawn == {"alpha", "beta", "D"}
<1>1. /\ vPc = "linearize" /\ vPc' \in {"amortize", "returned"} /\ "amortize" # "commit"
      /\ UNCHANGED <<depth, faults, pVars, vIter, vStmt>>
      /\ vChal' = [vChal EXCEPT !["alpha"] = tAl, !["beta"] = tBe, !["D"] = tD]
      /\ vT' = Absorb(tD, "u2", Value(Final, "u2"))
      /\ vIter = Final
  BY DEF VerifyLinearize, Conclude, Continue, Return
<1>9. /\ tAl = Squeeze(vT, "alpha")
      /\ tBe = Squeeze(tAl, "beta")
      /\ tD = Squeeze(tBe, "D")
  OBVIOUS
<1> HIDE DEF tAl, tBe, tD, drawn
<1>2. /\ vPc \in Phases /\ pPc = "returned" /\ vIter \in Iterations /\ IsSeq(vT)
      /\ IsTable(vChal, Stages)
      /\ vT = ProverAt(vIter, "linearize") <=> Bound(vIter, "linearize")
  BY <1>1, BeforeStep, PhaseNames
<1>3. /\ tAl = pChal[vIter]["alpha"] <=> Bound(vIter, "linearize")
      /\ tBe = pChal[vIter]["beta"] <=> Bound(vIter, "linearize")
      /\ tD = pChal[vIter]["D"] <=> Bound(vIter, "linearize")
      /\ Absorb(tD, "u2", Value(Final, "u2")) = ProverAt(vIter, "amortize") <=> Bound(vIter, "linearize") /\ Value(Final, "u2") = "genuine"
      /\ IsSeq(Absorb(tD, "u2", Value(Final, "u2")))
  BY <1>2, <1>9, MirrorLinearize
<1>4. Absorb(tD, "u2", Value(Final, "u2")) = ProverAt(vIter, "amortize") <=> Bound(vIter, "amortize")
  BY <1>1, <1>3, GenuineValue, AbsorbedSoFar DEF Bound
<1>5. IsSeq(vT') /\ (vPc' = "amortize" => (vT' = ProverAt(vIter, "amortize") <=> Bound(vIter, "amortize")))
  BY <1>1, <1>2, <1>3, <1>4
<1>6. \A s \in drawn : vChal'[s] = pChal[vIter][s] <=> Bound(vIter, PhaseOf(s))
  <2>1. vChal'["alpha"] = tAl /\ vChal'["beta"] = tBe /\ vChal'["D"] = tD
    BY <1>1, <1>2, DrawLinearize, StageNames DEF IsTable
  <2> QED
    BY <1>3, <2>1, StagePhases DEF drawn
<1>7. \A s \in Stages \ drawn : vChal'[s] = vChal[s]
  BY <1>1, <1>2, DrawLinearize DEF IsTable, drawn
<1>8. DrawnBefore("amortize") = DrawnBefore(vPc) \cup drawn /\ drawn \subseteq Stages
  BY <1>1, DrawnSoFar, StageNames DEF drawn
<1> QED
  BY <1>1, <1>2, <1>5, <1>6, <1>7, <1>8, PhaseNames, Advance

LEMMA VerifyOpenBinds ==
  TypeOK /\ ProverInv /\ VerifierInv /\ VerifyOpen => VerifierInv'
<1> SUFFICES ASSUME TypeOK, ProverInv, VerifierInv, VerifyOpen PROVE VerifierInv'
  OBVIOUS
<1> DEFINE tc == Squeeze(vT, "c")
           drawn == {"c"}
<1>1. /\ vPc = "amortize" /\ vPc' \in {"end", "returned"} /\ "end" # "commit"
      /\ UNCHANGED <<depth, faults, pVars, vIter, vStmt>>
      /\ vChal' = [vChal EXCEPT !["c"] = tc]
      /\ vT' = tc
      /\ vIter = Final
  BY DEF VerifyOpen, Conclude, Continue, Return
<1>9. tc = Squeeze(vT, "c")
  OBVIOUS
<1> HIDE DEF tc, drawn
<1>2. /\ vPc \in Phases /\ pPc = "returned" /\ vIter \in Iterations /\ IsSeq(vT)
      /\ IsTable(vChal, Stages)
      /\ vT = ProverAt(vIter, "amortize") <=> Bound(vIter, "amortize")
  BY <1>1, BeforeStep, PhaseNames
<1>3. /\ tc = pChal[vIter]["c"] <=> Bound(vIter, "amortize")
      /\ tc = ProverAt(vIter, "end") <=> Bound(vIter, "amortize")
      /\ IsSeq(tc)
  BY <1>2, <1>9, MirrorAmortize
<1>4. tc = ProverAt(vIter, "end") <=> Bound(vIter, "end")
  BY <1>1, <1>3, AbsorbedSoFar DEF Bound
<1>5. IsSeq(vT') /\ (vPc' = "end" => (vT' = ProverAt(vIter, "end") <=> Bound(vIter, "end")))
  BY <1>1, <1>2, <1>3, <1>4
<1>6. \A s \in drawn : vChal'[s] = pChal[vIter][s] <=> Bound(vIter, PhaseOf(s))
  <2>1. vChal'["c"] = tc
    BY <1>1, <1>2, StageNames, StageNames DEF IsTable
  <2> QED
    BY <1>3, <2>1, StagePhases DEF drawn
<1>7. \A s \in Stages \ drawn : vChal'[s] = vChal[s]
  BY <1>1, <1>2, StageNames DEF IsTable, drawn
<1>8. DrawnBefore("end") = DrawnBefore(vPc) \cup drawn /\ drawn \subseteq Stages
  BY <1>1, DrawnSoFar, StageNames DEF drawn
<1> QED
  BY <1>1, <1>2, <1>5, <1>6, <1>7, <1>8, PhaseNames, Advance

\* The header checks bind nothing yet: only the statement may differ.
LEMMA HeaderBinds ==
  TypeOK /\ ProverInv /\ VerifierInv /\ VerifyHeader => VerifierInv'
<1> SUFFICES ASSUME TypeOK, ProverInv, VerifierInv, VerifyHeader PROVE VerifierInv'
  OBVIOUS
<1>1. /\ vPc = "header" /\ vChal = NoChal /\ vChal' = vChal /\ pPc = "returned"
      /\ UNCHANGED <<depth, faults, pVars, pChal, pStmt, pPc>> /\ IsSeq(vT)
  BY DEF VerifyHeader, VerifierInv, pVars
<1>2. \A s \in Stages : vChal'[s] = << >>
  BY <1>1 DEF NoChal
<1>3. ChallengesBind'
  BY <1>2 DEF ChallengesBind
<1>4. CASE vPc' = "returned" /\ vT' = vT
  BY <1>1, <1>3, <1>4, PhaseNames DEF VerifierInv, Lockstep, FoldsAgree
<1>5. CASE /\ vPc' = "commit" /\ vIter' = 0 /\ vT' = NewTranscript("seed")
           /\ vStmt' = Root(IF SameStatement THEN "prover" ELSE "other")
  <2>1. 0 \in Iterations /\ MessagesIntact(0, "commit")
    BY DepthIsPositive, FirstIteration DEF TypeOK
  <2>2. pStmt[0] = Root("prover")
    BY <1>1, <2>1, WholeChain DEF StatementOf
  <2>3. Root("other") # Root("prover")
    BY DEF Root
  <2>4. vStmt' = pStmt[0] <=> SameStatement
    BY <1>5, <2>2, <2>3
  <2>5. vT' = ProverAt(0, "commit")
    BY <1>5, ProverAtPhases DEF Start
  <2>6. /\ \A k, ph : /\ MessagesIntact(k, ph)' = MessagesIntact(k, ph)
                      /\ ProverAt(k, ph)' = ProverAt(k, ph)
        /\ SameStatement' = SameStatement
    BY <1>1, VerifierFrame
  <2>7. Lockstep'
    BY <1>5, <2>1, <2>5, <2>6 DEF Lockstep
  <2>8. FoldsAgree'
    BY <1>1, <1>5, <2>1, <2>4, <2>6 DEF FoldsAgree
  <2>9. IsSeq(vT')
    BY <1>5, TranscriptSeq
  <2>10. DrawnBefore("commit") = {}
    BY DrawnSoFar
  <2> QED
    BY <1>1, <1>2, <1>3, <1>5, <2>7, <2>8, <2>9, <2>10, PhaseNames DEF VerifierInv
<1> QED
  BY <1>4, <1>5 DEF VerifyHeader, Return

\* Nothing before the last squeeze was altered, so nothing before any was.
LEMMA LastPhase ==
  ASSUME NEW k, NEW s \in Stages, Bound(k, "amortize")
  PROVE  Bound(k, PhaseOf(s))
<1>1. PhaseOf(s) \in {"commit", "project", "constrain", "linearize", "amortize"}
  BY DEF PhaseOf, Stages
<1> QED
  BY <1>1, AbsorbedSoFar DEF Bound

\* A folded statement determines the challenges and right-hand sides in it.
LEMMA FoldedDetermines ==
  ASSUME NEW k, NEW chal, NEW other, NEW u1, NEW bpp, NEW u2,
         Folded(k, chal, u1, bpp, u2) = Folded(k, other, "genuine", "genuine", "genuine")
  PROVE  chal = other
BY DEF Folded

LEMMA FoldBinds ==
  TypeOK /\ ProverInv /\ VerifierInv /\ ReplayFold => VerifierInv'
<1> SUFFICES ASSUME TypeOK, ProverInv, VerifierInv, ReplayFold PROVE VerifierInv'
  OBVIOUS
<1>1. /\ vPc = "end" /\ vPc \in Phases /\ vIter < Final /\ vT' = vT
      /\ UNCHANGED <<depth, faults, pVars, pChal, pStmt, pPc>>
  BY PhaseNames DEF ReplayFold, pVars
<1>2. /\ pPc = "returned" /\ vIter \in Iterations /\ IsSeq(vT) /\ IsTable(vChal, Stages)
      /\ vT = ProverAt(vIter, "end") <=> Bound(vIter, "end")
  BY <1>1, BeforeStep, PhaseNames
<1>3. /\ \A k, ph : /\ MessagesIntact(k, ph)' = MessagesIntact(k, ph)
                    /\ Bound(k, ph)' = Bound(k, ph)
                    /\ ProverAt(k, ph)' = ProverAt(k, ph)
      /\ SameStatement' = SameStatement
  BY <1>1, VerifierFrame
<1>4. CASE vPc' = "returned" /\ UNCHANGED <<vIter, vStmt, vChal>>
  <2>1. ChallengesBind'
    BY <1>1, <1>3, <1>4 DEF ChallengesBind, VerifierInv
  <2> QED
    BY <1>1, <1>2, <1>4, <2>1, PhaseNames DEF VerifierInv, Lockstep, FoldsAgree
<1>5. CASE /\ vPc' = "commit" /\ vIter' = vIter + 1 /\ vChal' = NoChal
           /\ vStmt' = Folded(vIter + 1, vChal, Value(vIter, "u1"),
                              Value(vIter, "bpp"), Value(vIter, "u2"))
  <2>1. /\ vIter \in Nat /\ vIter + 1 \in Iterations /\ (vIter + 1) - 1 = vIter
        /\ vIter + 1 # 0
    BY <1>1, <1>2, DepthIsPositive DEF TypeOK
  <2>2. Bound(vIter + 1, "commit") <=> Bound(vIter, "amortize")
    BY <1>2, NextIteration, AbsorbedSoFar DEF Bound, TypeOK
  <2>3. pStmt[vIter + 1] = Folded(vIter + 1, pChal[vIter], "genuine", "genuine", "genuine")
    BY <1>2, <2>1, WholeChain DEF StatementOf
  <2>4. IsTable(pChal[vIter], Stages)
    BY <1>2 DEF TypeOK
  <2>5. \A s \in Stages : vChal[s] = pChal[vIter][s] <=> Bound(vIter, PhaseOf(s))
    BY <1>1, DrawnSoFar DEF VerifierInv, Binds
  <2>6. ASSUME Bound(vIter, "amortize") PROVE vStmt' = pStmt[vIter + 1]
    <3>1. \A s \in Stages : vChal[s] = pChal[vIter][s]
      BY <2>5, <2>6, LastPhase
    <3>2. vChal = pChal[vIter]
      BY <1>2, <2>4, <3>1 DEF IsTable
    <3>3. ~Changed(vIter, "u1") /\ ~Changed(vIter, "bpp") /\ ~Changed(vIter, "u2")
      BY <2>6, AbsorbedSoFar DEF Bound
    <3> QED
      BY <1>5, <2>3, <3>2, <3>3, GenuineValue
  <2>7. ASSUME vStmt' = pStmt[vIter + 1] PROVE Bound(vIter, "amortize")
    <3>1. vChal = pChal[vIter]
      BY <1>5, <2>3, <2>7, FoldedDetermines
    <3> QED
      BY <2>5, <3>1, StageNames, StagePhases
  <2>8. FoldsAgree'
    BY <1>1, <1>3, <1>5, <2>2, <2>6, <2>7 DEF FoldsAgree, Bound
  <2>9. vT' = ProverAt(vIter + 1, "commit") <=> Bound(vIter + 1, "commit")
    <3>1. ProverAt(vIter + 1, "commit") = ProverAt(vIter, "end")
      BY <2>1, ProverAtPhases DEF Start
    <3>2. Bound(vIter, "end") <=> Bound(vIter, "amortize")
      BY AbsorbedSoFar DEF Bound
    <3> QED
      BY <1>1, <1>2, <2>2, <3>1, <3>2
  <2>10. Lockstep'
    BY <1>3, <1>5, <2>1, <2>9 DEF Lockstep, Bound
  <2>11. (\A s \in Stages : vChal[s] = << >>)' /\ DrawnBefore("commit") = {}
    BY <1>5, DrawnSoFar DEF NoChal
  <2>12. ChallengesBind'
    BY <2>11 DEF ChallengesBind
  <2> QED
    BY <1>1, <1>2, <1>5, <2>8, <2>10, <2>11, <2>12, PhaseNames DEF VerifierInv
<1> QED
  BY <1>4, <1>5 DEF ReplayFold, Return

LEMMA VerifierInvInit == Init => VerifierInv
<1> SUFFICES ASSUME Init PROVE VerifierInv
  OBVIOUS
<1>1. vPc = "waiting" /\ vT = << >> /\ vChal = NoChal /\ IsSeq(<< >>)
  BY EmptySeq DEF Init, IsSeq
<1>2. \A s \in Stages : vChal[s] = << >>
  BY <1>1 DEF NoChal
<1> QED
  BY <1>1, <1>2, PhaseNames DEF VerifierInv, Lockstep, FoldsAgree, ChallengesBind

\* While the prover runs, the verifier has not begun.
LEMMA VerifierWaits ==
  TypeOK /\ VerifierInv /\ Prove => VerifierInv'
<1> SUFFICES ASSUME TypeOK, VerifierInv, Prove PROVE VerifierInv'
  OBVIOUS
<1>1. pPc # "returned"
  BY DEF Prove, ProveCommit, ProveProject, ProveConstrain, ProveLinearize, ProveAmortize,
         ProveFold, Deliver
<1>2. vPc = "waiting" /\ vChal = NoChal /\ IsSeq(vT)
  BY <1>1 DEF VerifierInv
<1>3. UNCHANGED <<vChal, vT>> /\ (vPc' = vPc \/ (vPc' = "header" /\ pPc' = "returned"))
  BY DEF Prove, ProveCommit, ProveProject, ProveConstrain, ProveLinearize,
         ProveAmortize, ProveFold, Deliver, vVars
<1>4. \A s \in Stages : vChal'[s] = << >>
  BY <1>2, <1>3 DEF NoChal
<1> QED
  BY <1>2, <1>3, <1>4, PhaseNames DEF VerifierInv, Lockstep, FoldsAgree, ChallengesBind

LEMMA VerifierRests == VerifierInv /\ UNCHANGED vars => VerifierInv'
<1> SUFFICES ASSUME VerifierInv, UNCHANGED vars PROVE VerifierInv'
  OBVIOUS
<1>1. UNCHANGED <<depth, faults, pVars, pChal, pStmt, pPc, vPc, vT, vIter, vStmt, vChal>>
  BY DEF vars, pVars, vVars
<1>2. /\ \A k, ph : /\ MessagesIntact(k, ph)' = MessagesIntact(k, ph)
                    /\ Bound(k, ph)' = Bound(k, ph)
                    /\ ProverAt(k, ph)' = ProverAt(k, ph)
      /\ SameStatement' = SameStatement
  BY <1>1, VerifierFrame
<1>3. (vPc \in Phases =>
         /\ \A s \in DrawnBefore(vPc) : Binds(s)
         /\ \A s \in Stages \ DrawnBefore(vPc) : vChal[s] = << >>)'
  BY <1>1, <1>2 DEF VerifierInv, Binds
<1>4. Lockstep' /\ FoldsAgree' /\ ChallengesBind'
  BY <1>1, <1>2 DEF VerifierInv, Lockstep, FoldsAgree, ChallengesBind
<1> QED
  BY <1>1, <1>3, <1>4 DEF VerifierInv

LEMMA VerifierInvStep ==
  TypeOK /\ ProverInv /\ VerifierInv /\ [Next]_vars => VerifierInv'
BY VerifierWaits, HeaderBinds, ReplayCommitBinds, ReplayProjectBinds,
   ReplayConstrainBinds, ReplayLinearizeBinds, ReplayAmortizeBinds, FoldBinds,
   VerifyCommitBinds, VerifyProjectBinds, VerifyConstrainBinds, VerifyLinearizeBinds,
   VerifyOpenBinds, VerifierRests DEF Next, Replay, Verify

-----------------------------------------------------------------------------
(* The theorems.                                                           *)

THEOREM Binding == Spec => [](TypeOK /\ ProverInv /\ VerifierInv)
<1>1. Init => TypeOK /\ ProverInv /\ VerifierInv
  BY TypeInit, ProverInvInit, VerifierInvInit
<1>2. TypeOK /\ ProverInv /\ VerifierInv /\ [Next]_vars
        => (TypeOK /\ ProverInv /\ VerifierInv)'
  BY TypeStep, ProverInvStep, VerifierInvStep
<1> QED
  BY <1>1, <1>2, PTL DEF Spec

\* fold.rs:197-202: the three walks of the transcript agree at every step of
\* every iteration, and disagree from the first message on that arrived altered
\* or shortened.
THEOREM LockstepHolds == Spec => []Lockstep
<1>1. VerifierInv => Lockstep
  BY DEF VerifierInv
<1> QED
  BY <1>1, Binding, PTL

\* Every challenge of the verifier is the prover's exactly when no message
\* before its squeeze was altered or shortened.
THEOREM ChallengesBindHolds == Spec => []ChallengesBind
<1>1. VerifierInv => ChallengesBind
  BY DEF VerifierInv
<1> QED
  BY <1>1, Binding, PTL

\* fold_statement and fold_with_replay build the same statement exactly when
\* all messages of the earlier iterations are the prover's.
THEOREM FoldsAgreeHolds == Spec => []FoldsAgree
<1>1. VerifierInv => FoldsAgree
  BY DEF VerifierInv
<1> QED
  BY <1>1, Binding, PTL

-----------------------------------------------------------------------------
(***************************************************************************)
(* What acceptance means, for every depth: an unaltered proof of a good     *)
(* witness is accepted (HonestAccepted), and an accepted proof is the       *)
(* prover's (AcceptedIsGenuine).  At the end, the whole verdict: the        *)
(* recursion implements AggregateOracle.                                    *)
(*                                                                          *)
(* AcceptInv collects, step by step, what a verifier that has come so far   *)
(* has established of the faults.  That a challenge of the last iteration   *)
(* is the prover's clears all earlier iterations at once: this is Binding.  *)
(***************************************************************************)

\* Iteration j has the lengths its replay needs.
RightLengths(j) == \A f \in Commitments : ~Short(j, f)

ClearedReplay ==
  /\ \A j \in Iterations : j < vIter => RightLengths(j)
  /\ vIter < Final /\ vPc \in {"constrain", "linearize", "amortize", "end"}
       => ~Short(vIter, "p")
  /\ vIter < Final /\ vPc \in {"amortize", "end"} => ~Short(vIter, "bpp")

ClearedCommit == ~WrongShape /\ Bound(Final, "commit") /\ Intact({"u1", "v", "g"})
ClearedProject == ~Altered(Final, "p") => jl[Final]
ClearedConstrain ==
  /\ ~Short(Final, "bpp") /\ ~Altered(Final, "p")
  /\ <<"altered", Final, "bpp0">> \notin faults
  /\ pHolds.ct
ClearedLinearize == Bound(Final, "linearize") /\ Intact({"u2", "h"})

ClearedVerify ==
  vIter = Final =>
    /\ vPc # "commit" => ClearedCommit
    /\ vPc \in {"constrain", "linearize", "amortize"} => ClearedProject
    /\ vPc \in {"linearize", "amortize"} => ClearedConstrain
    /\ vPc = "amortize" => ClearedLinearize

AcceptInv ==
  /\ pHolds.full = input.full /\ (input.ct => pHolds.ct) /\ (pIter = 0 => pHolds = input)
  /\ vPc # "returned" => verdict = "none"
  /\ vPc \in Phases => /\ WrongCount \notin faults /\ WrongModulus \notin faults
                       /\ ClearedReplay /\ ClearedVerify
                       /\ vIter = Final => vPc # "end"
  /\ HonestAccepted
  /\ AcceptedIsGenuine

LEMMA NoFaults ==
  ASSUME faults = {}
  PROVE  /\ SameStatement /\ \A k, f : ~Altered(k, f) /\ ~Short(k, f)
         /\ \A k, ph : Bound(k, ph)
         /\ ~WrongShape /\ \A F : Intact(F)
<1>1. SameStatement /\ \A k, f : ~Altered(k, f) /\ ~Short(k, f)
  BY DEF SameStatement, Altered, Short
<1> QED
  BY <1>1 DEF Bound, MessagesIntact, Changed, WrongShape, Intact

\* The faults an accepting verifier has excluded are all there are.
LEMMA NothingLeft ==
  ASSUME TypeOK, WrongCount \notin faults, WrongModulus \notin faults,
         \A j \in Iterations : j < Final => RightLengths(j),
         ClearedCommit, ClearedConstrain, ClearedLinearize, ~Altered(Final, "z")
  PROVE  faults = {}
<1>1. SUFFICES ASSUME NEW f \in faults PROVE FALSE
  OBVIOUS
<1>2. f \in PossibleFaults(depth)
  BY DEF TypeOK
<1>3. \A k \in 0..(depth - 1) : k \in Iterations /\ (k < Final \/ k = Final)
  BY DepthIsPositive DEF TypeOK, Final, Iterations
<1>4. SameStatement
  BY DEF ClearedCommit, Bound
<1>5. f # WrongStatement
  BY <1>4 DEF SameStatement
<1>6. f # NoOpenings(depth)
  BY DEF ClearedCommit, WrongShape
<1>7. \A F : F \in Commitments \cup Openings => ~Short(Final, F) /\ ~Altered(Final, F)
  <2>1. \A F \in {"u1", "u2", "p"} \cup Openings : ~Short(Final, F)
    BY DEF ClearedCommit, WrongShape
  <2>2. ~Short(Final, "bpp") /\ ~Altered(Final, "p")
    BY DEF ClearedConstrain
  <2>3. MessagesIntact(Final, "linearize")
    BY DEF ClearedLinearize, Bound
  <2>4. ~Altered(Final, "u1") /\ ~Altered(Final, "v") /\ ~Altered(Final, "g")
        /\ ~Altered(Final, "u2") /\ ~Altered(Final, "h")
    BY DEF ClearedCommit, ClearedLinearize, Intact
  <2>5. ~Altered(Final, "bpp")
    BY <2>3, AbsorbedSoFar DEF Changed
  <2> QED
    BY <2>1, <2>2, <2>4, <2>5 DEF Commitments, Openings
<1>8. \A k \in Iterations, F \in Commitments : k < Final => ~Short(k, F) /\ ~Altered(k, F)
  <2>1. MessagesIntact(Final, "commit")
    BY DEF ClearedCommit, Bound
  <2> QED
    BY <2>1 DEF MessagesIntact, RightLengths, Changed
<1>9. \A k \in 0..(depth - 1) : \A F \in Carried(k, depth) : ~Short(k, F) /\ ~Altered(k, F)
  BY <1>3, <1>7, <1>8 DEF Carried, Final
<1>10. PICK k \in 0..(depth - 1) :
          f \in {<<"altered", k, e>> : e \in UNION {Edits(F) : F \in Carried(k, depth)}}
                 \cup {<<"short", k, F>> : F \in Carried(k, depth)}
  BY <1>2, <1>5, <1>6 DEF PossibleFaults
<1>11. CASE f \in {<<"short", k, F>> : F \in Carried(k, depth)}
  BY <1>9, <1>11 DEF Short
<1>12. CASE f \in {<<"altered", k, e>> : e \in UNION {Edits(F) : F \in Carried(k, depth)}}
  BY <1>9, <1>12 DEF Altered
<1> QED
  BY <1>10, <1>11, <1>12

\* The prover's half: what the current witness is worth.
LEMMA ProverAccepts ==
  TypeOK /\ ProverInv /\ VerifierInv /\ AcceptInv /\ Prove => AcceptInv'
<1> SUFFICES ASSUME TypeOK, ProverInv, VerifierInv, AcceptInv, Prove PROVE AcceptInv'
  OBVIOUS
<1>1. pPc # "returned"
  BY DEF Prove, ProveCommit, ProveProject, ProveConstrain, ProveLinearize, ProveAmortize,
         ProveFold, Deliver
<1>2. vPc = "waiting" /\ verdict = "none"
  BY <1>1 DEF VerifierInv, AcceptInv
<1>3. vPc' \in {"waiting", "header"} /\ verdict' = "none" /\ input' = input
  BY <1>2 DEF Prove, ProveCommit, ProveProject, ProveConstrain, ProveLinearize,
              ProveAmortize, ProveFold, Deliver, vVars
<1>4. (/\ pHolds.full = input.full /\ (input.ct => pHolds.ct)
       /\ (pIter = 0 => pHolds = input))'
  <2>1. CASE ProveFold
    <3>1. pIter \in Nat /\ pIter' = pIter + 1 /\ pHolds' = [full |-> pHolds.full, ct |-> TRUE]
      BY <2>1, DepthIsPositive DEF ProveFold, TypeOK
    <3> QED
      BY <1>3, <3>1 DEF AcceptInv
  <2>2. CASE UNCHANGED <<pHolds, pIter>>
    BY <1>3, <2>2 DEF AcceptInv
  <2>3. ProveFold \/ UNCHANGED <<pHolds, pIter>>
    BY DEF Prove, ProveCommit, ProveProject, ProveConstrain, ProveLinearize,
           ProveAmortize, Deliver
  <2> QED
    BY <2>1, <2>2, <2>3
<1> QED
  BY <1>3, <1>4, PhaseNames DEF AcceptInv, HonestAccepted, AcceptedIsGenuine

\* What the verifier reads and does not write.
LEMMA AcceptFrame ==
  ASSUME UNCHANGED <<depth, input, faults, pVars>>
  PROVE  /\ Final' = Final /\ Iterations' = Iterations
         /\ UNCHANGED <<pHolds, jl, small, pIter, pChal>>
         /\ \A k, f : Short(k, f)' = Short(k, f) /\ Altered(k, f)' = Altered(k, f)
         /\ \A k : RightLengths(k)' = RightLengths(k)
         /\ \A F : Intact(F)' = Intact(F)
         /\ WrongShape' = WrongShape /\ ClearedCommit' = ClearedCommit
         /\ ClearedProject' = ClearedProject /\ ClearedConstrain' = ClearedConstrain
         /\ ClearedLinearize' = ClearedLinearize
         /\ WrongCount' = WrongCount /\ WrongModulus' = WrongModulus
<1>1. /\ Final' = Final /\ Iterations' = Iterations
      /\ UNCHANGED <<pHolds, jl, small, pIter, pChal, faults, depth>>
  BY DEF pVars, Final, Iterations
<1>2. \A k, f : Short(k, f)' = Short(k, f) /\ Altered(k, f)' = Altered(k, f)
  BY <1>1 DEF Short, Altered
<1>3. \A k : RightLengths(k)' = RightLengths(k)
  BY <1>2 DEF RightLengths
<1>4. \A F : Intact(F)' = Intact(F)
  BY <1>1, <1>2 DEF Intact
<1>5. WrongShape' = WrongShape
  BY <1>1, <1>2 DEF WrongShape, NoOpenings
<1>6. \A k, ph : Bound(k, ph)' = Bound(k, ph)
  BY VerifierFrame
<1> QED
  BY <1>1, <1>2, <1>3, <1>4, <1>5, <1>6
     DEF ClearedCommit, ClearedProject, ClearedConstrain, ClearedLinearize,
         WrongCount, WrongModulus

\* A step that does not return, and establishes what the next step relies on.
LEMMA AcceptOn ==
  ASSUME TypeOK, AcceptInv, UNCHANGED <<depth, input, faults, pVars, verdict>>,
         vPc # "returned", vPc' \in Phases, WrongCount \notin faults,
         WrongModulus \notin faults, ClearedReplay', ClearedVerify',
         (vIter = Final => vPc # "end")'
  PROVE  AcceptInv'
<1>1. /\ Final' = Final /\ UNCHANGED <<pHolds, jl, small, pIter>>
      /\ WrongCount' = WrongCount /\ WrongModulus' = WrongModulus
  BY AcceptFrame
<1>2. verdict' = "none" /\ vPc' # "returned"
  BY PhaseNames DEF AcceptInv
<1> QED
  BY <1>1, <1>2 DEF AcceptInv, HonestAccepted, AcceptedIsGenuine

\* A step that returns an error or a panic for a fault or a failed check.
LEMMA AcceptError ==
  ASSUME TypeOK, AcceptInv, UNCHANGED <<depth, input, faults, pVars>>,
         vPc' = "returned", verdict' # "Ok",
         faults # {} \/ ~input.full \/ ~input.ct \/ ~jl[Final] \/ ~small
  PROVE  AcceptInv'
<1>1. /\ Final' = Final /\ UNCHANGED <<pHolds, jl, small, pIter>>
  BY AcceptFrame
<1> QED
  BY <1>1, PhaseNames DEF AcceptInv, HonestAccepted, AcceptedIsGenuine

LEMMA AcceptRests ==
  AcceptInv /\ UNCHANGED vars => AcceptInv'
<1> SUFFICES ASSUME AcceptInv, UNCHANGED vars PROVE AcceptInv'
  OBVIOUS
<1>1. UNCHANGED <<depth, input, faults, pVars>> /\ UNCHANGED vVars
  BY DEF vars
<1>2. UNCHANGED <<vPc, vIter, verdict>>
  BY <1>1 DEF vVars
<1>3. /\ Final' = Final /\ Iterations' = Iterations
      /\ UNCHANGED <<pHolds, jl, small, pIter>>
      /\ WrongCount' = WrongCount /\ WrongModulus' = WrongModulus
  BY <1>1, AcceptFrame
<1>4. ClearedReplay' <=> ClearedReplay
  BY <1>1, <1>2, AcceptFrame DEF ClearedReplay
<1>5. ClearedVerify' <=> ClearedVerify
  BY <1>1, <1>2, AcceptFrame DEF ClearedVerify
<1> QED
  BY <1>1, <1>2, <1>3, <1>4, <1>5 DEF AcceptInv, HonestAccepted, AcceptedIsGenuine

LEMMA AcceptInit == Init => AcceptInv
<1> SUFFICES ASSUME Init PROVE AcceptInv
  OBVIOUS
<1>1. vPc = "waiting" /\ verdict = "none" /\ pHolds = input /\ pIter = 0
  BY DEF Init
<1> QED
  BY <1>1, PhaseNames DEF AcceptInv, HonestAccepted, AcceptedIsGenuine

LEMMA HeaderAccepts == TypeOK /\ AcceptInv /\ VerifyHeader => AcceptInv'
<1> SUFFICES ASSUME TypeOK, AcceptInv, VerifyHeader PROVE AcceptInv'
  OBVIOUS
<1>1. vPc = "header" /\ UNCHANGED <<depth, input, faults, pVars>>
  BY DEF VerifyHeader
<1>2. CASE WrongCount \in faults \/ WrongModulus \in faults
  <2>1. vPc' = "returned" /\ verdict' # "Ok" /\ faults # {}
    BY <1>2 DEF VerifyHeader, Return
  <2> QED
    BY <1>1, <2>1, AcceptError
<1>3. CASE WrongCount \notin faults /\ WrongModulus \notin faults
  <2>1. vPc' = "commit" /\ vIter' = 0 /\ UNCHANGED verdict
    BY <1>3 DEF VerifyHeader
  <2>2. \A j \in Iterations : ~(j < 0)
    BY DepthIsPositive DEF TypeOK
  <2>3. ClearedReplay' /\ ClearedVerify'
    BY <1>1, <2>1, <2>2, AcceptFrame DEF ClearedReplay, ClearedVerify
  <2>4. vPc # "returned" /\ vPc' \in Phases /\ vPc' # "end"
    BY <1>1, <2>1, PhaseNames
  <2> QED
    BY <1>1, <1>3, <2>1, <2>3, <2>4, AcceptOn
<1> QED
  BY <1>2, <1>3

-----------------------------------------------------------------------------
(* The replayed iterations.                                                *)

LEMMA ShortIsFault ==
  ASSUME NEW k, NEW f, Short(k, f)
  PROVE  faults # {}
BY DEF Short

\* A replay step that goes on within its iteration.
LEMMA ReplayOn ==
  ASSUME TypeOK, AcceptInv, UNCHANGED <<depth, input, faults, pVars, vIter, verdict>>,
         vPc \in Phases, vPc' \in Phases, vIter < Final,
         vPc' \in {"constrain", "linearize", "amortize", "end"} => ~Short(vIter, "p"),
         vPc' \in {"amortize", "end"} => ~Short(vIter, "bpp")
  PROVE  AcceptInv'
<1>1. Final' = Final /\ Final \in Nat /\ vIter \in Nat /\ vIter # Final
  BY AcceptFrame, DepthIsPositive DEF TypeOK
<1>2. ClearedReplay /\ WrongCount \notin faults /\ WrongModulus \notin faults
  BY DEF AcceptInv
<1>3. ClearedReplay'
  BY <1>1, <1>2, AcceptFrame DEF ClearedReplay
<1>4. ClearedVerify' /\ (vIter = Final => vPc # "end")'
  BY <1>1 DEF ClearedVerify
<1> QED
  BY <1>2, <1>3, <1>4, PhaseNames, AcceptOn

LEMMA ReplayCommitAccepts == TypeOK /\ AcceptInv /\ ReplayCommit => AcceptInv'
<1> SUFFICES ASSUME TypeOK, AcceptInv, ReplayCommit PROVE AcceptInv'
  OBVIOUS
<1>1. /\ UNCHANGED <<depth, input, faults, pVars, vIter, verdict>>
      /\ vPc = "commit" /\ vPc' = "project" /\ vIter < Final
  BY DEF ReplayCommit
<1> QED
  BY <1>1, PhaseNames, ReplayOn

LEMMA ReplayProjectAccepts == TypeOK /\ AcceptInv /\ ReplayProject => AcceptInv'
<1> SUFFICES ASSUME TypeOK, AcceptInv, ReplayProject PROVE AcceptInv'
  OBVIOUS
<1>1. UNCHANGED <<depth, input, faults, pVars, vIter>> /\ vPc = "project" /\ vIter < Final
  BY DEF ReplayProject
<1>2. CASE Short(vIter, "p")
  <2>1. vPc' = "returned" /\ verdict' # "Ok"
    BY <1>2 DEF ReplayProject, Return
  <2> QED
    BY <1>1, <1>2, <2>1, ShortIsFault, AcceptError
<1>3. CASE ~Short(vIter, "p")
  <2>1. vPc' = "constrain" /\ UNCHANGED verdict
    BY <1>3 DEF ReplayProject
  <2> QED
    BY <1>1, <1>3, <2>1, PhaseNames, ReplayOn
<1> QED
  BY <1>2, <1>3

LEMMA ReplayConstrainAccepts == TypeOK /\ AcceptInv /\ ReplayConstrain => AcceptInv'
<1> SUFFICES ASSUME TypeOK, AcceptInv, ReplayConstrain PROVE AcceptInv'
  OBVIOUS
<1>1. /\ UNCHANGED <<depth, input, faults, pVars, vIter, verdict>>
      /\ vPc = "constrain" /\ vPc' = "linearize" /\ vIter < Final
  BY DEF ReplayConstrain
<1>2. ~Short(vIter, "p")
  BY <1>1, PhaseNames DEF AcceptInv, ClearedReplay
<1> QED
  BY <1>1, <1>2, PhaseNames, ReplayOn

LEMMA ReplayLinearizeAccepts == TypeOK /\ AcceptInv /\ ReplayLinearize => AcceptInv'
<1> SUFFICES ASSUME TypeOK, AcceptInv, ReplayLinearize PROVE AcceptInv'
  OBVIOUS
<1>1. UNCHANGED <<depth, input, faults, pVars, vIter>> /\ vPc = "linearize" /\ vIter < Final
  BY DEF ReplayLinearize
<1>2. CASE Short(vIter, "bpp")
  <2>1. vPc' = "returned" /\ verdict' # "Ok"
    BY <1>2 DEF ReplayLinearize, Return
  <2> QED
    BY <1>1, <1>2, <2>1, ShortIsFault, AcceptError
<1>3. CASE ~Short(vIter, "bpp")
  <2>1. vPc' = "amortize" /\ UNCHANGED verdict
    BY <1>3 DEF ReplayLinearize
  <2>2. ~Short(vIter, "p")
    BY <1>1, PhaseNames DEF AcceptInv, ClearedReplay
  <2> QED
    BY <1>1, <1>3, <2>1, <2>2, PhaseNames, ReplayOn
<1> QED
  BY <1>2, <1>3

LEMMA ReplayAmortizeAccepts == TypeOK /\ AcceptInv /\ ReplayAmortize => AcceptInv'
<1> SUFFICES ASSUME TypeOK, AcceptInv, ReplayAmortize PROVE AcceptInv'
  OBVIOUS
<1>1. /\ UNCHANGED <<depth, input, faults, pVars, vIter, verdict>>
      /\ vPc = "amortize" /\ vPc' = "end" /\ vIter < Final
  BY DEF ReplayAmortize
<1>2. ~Short(vIter, "p") /\ ~Short(vIter, "bpp")
  BY <1>1, PhaseNames DEF AcceptInv, ClearedReplay
<1> QED
  BY <1>1, <1>2, PhaseNames, ReplayOn

LEMMA ReplayFoldAccepts == TypeOK /\ AcceptInv /\ ReplayFold => AcceptInv'
<1> SUFFICES ASSUME TypeOK, AcceptInv, ReplayFold PROVE AcceptInv'
  OBVIOUS
<1>1. UNCHANGED <<depth, input, faults, pVars>> /\ vPc = "end" /\ vIter < Final
  BY DEF ReplayFold
<1>2. CASE Short(vIter, "u1") \/ Short(vIter, "u2")
  <2>1. vPc' = "returned" /\ verdict' # "Ok"
    BY <1>2 DEF ReplayFold, Return
  <2> QED
    BY <1>1, <1>2, <2>1, ShortIsFault, AcceptError
<1>3. CASE ~Short(vIter, "u1") /\ ~Short(vIter, "u2")
  <2>1. vPc' = "commit" /\ vIter' = vIter + 1 /\ UNCHANGED verdict
    BY <1>3 DEF ReplayFold
  <2>2. /\ WrongCount \notin faults /\ WrongModulus \notin faults
        /\ ClearedReplay
    BY <1>1, PhaseNames DEF AcceptInv
  <2>3. RightLengths(vIter)
    BY <1>1, <1>3, <2>2 DEF ClearedReplay, RightLengths, Commitments
  <2>4. \A j \in Iterations : j < vIter + 1 => j < vIter \/ j = vIter
    BY DepthIsPositive DEF TypeOK
  <2>5. \A j \in Iterations : j < vIter + 1 => RightLengths(j)
    BY <2>2, <2>3, <2>4 DEF ClearedReplay
  <2>6. ClearedReplay'
    BY <1>1, <2>1, <2>5, AcceptFrame DEF ClearedReplay
  <2>7. ClearedVerify' /\ vPc' # "end" /\ vPc # "returned" /\ vPc' \in Phases
    BY <1>1, <2>1, PhaseNames DEF ClearedVerify
  <2> QED
    BY <1>1, <2>1, <2>2, <2>6, <2>7, AcceptOn
<1> QED
  BY <1>2, <1>3

-----------------------------------------------------------------------------
(* The last iteration.                                                     *)

\* A check step that goes on: what the next step relies on is established.
LEMMA VerifyOn ==
  ASSUME TypeOK, AcceptInv, UNCHANGED <<depth, input, faults, pVars, vIter, verdict>>,
         vPc \in Phases, vPc' \in Phases \ {"commit", "end"}, vIter = Final,
         ClearedCommit,
         vPc' \in {"constrain", "linearize", "amortize"} => ClearedProject,
         vPc' \in {"linearize", "amortize"} => ClearedConstrain,
         vPc' = "amortize" => ClearedLinearize
  PROVE  AcceptInv'
<1>1. Final' = Final /\ Iterations' = Iterations /\ Final \in Nat
  BY AcceptFrame, DepthIsPositive DEF TypeOK
<1>2. ClearedReplay /\ WrongCount \notin faults /\ WrongModulus \notin faults
  BY DEF AcceptInv
<1>3. ClearedReplay'
  BY <1>1, <1>2, AcceptFrame DEF ClearedReplay
<1>4. ClearedVerify'
  BY <1>1, AcceptFrame DEF ClearedVerify
<1> QED
  BY <1>2, <1>3, <1>4, PhaseNames, AcceptOn

\* The last iteration is the verifier's only if the prover returned from it.
LEMMA AtFinal ==
  ASSUME TypeOK, ProverInv, VerifierInv, vPc \in Phases, vIter = Final
  PROVE  /\ pPc = "returned" /\ Final \in Iterations /\ IsSeq(vT) /\ IsTable(vChal, Stages)
         /\ vPc # "commit" => (vT = ProverAt(Final, vPc) <=> Bound(Final, vPc))
         /\ vPc = "commit" => (vT = ProverAt(Final, vPc) /\ vStmt = pStmt[Final]
                                 <=> Bound(Final, "commit"))
         /\ \A s \in DrawnBefore(vPc) :
              vChal[s] = pChal[Final][s] <=> Bound(Final, PhaseOf(s))
<1>1. \A s \in DrawnBefore(vPc) : Binds(s)
  BY DEF VerifierInv
<1> QED
  BY <1>1, BeforeStep DEF Binds

\* What each step of verify_v2 decides by, in terms of the faults.
LEMMA CommitReads ==
  ASSUME TypeOK, ProverInv, VerifierInv, VerifyCommit
  PROVE  LET opens == Bound(Final, "commit") /\ Intact({"u1", "v", "g"})
         IN /\ UNCHANGED <<depth, input, faults, pVars, vIter>>
            /\ vPc = "commit" /\ vIter = Final
            /\ \/ WrongShape /\ Conclude("ProofShape")
               \/ ~WrongShape /\ ~opens /\ Conclude("OuterCommitment u_1")
               \/ ~WrongShape /\ opens /\ Continue("project")
<1> DEFINE tA == Squeeze(Absorb(vT, "stmt", vStmt), "A")
           tB == Squeeze(tA, "B")
           tC == Squeeze(tB, "C")
           chal == [vChal EXCEPT !["A"] = tA, !["B"] = tB, !["C"] = tC]
           opens == Same(chal, {"B", "C"}) /\ Intact({"u1", "v", "g"})
<1>1. /\ UNCHANGED <<depth, input, faults, pVars, vIter>>
      /\ vPc = "commit" /\ vIter = Final
      /\ \/ WrongShape /\ Conclude("ProofShape")
         \/ ~WrongShape /\ ~opens /\ Conclude("OuterCommitment u_1")
         \/ ~WrongShape /\ opens /\ Continue("project")
  BY DEF VerifyCommit
<1>2. /\ tA = Squeeze(Absorb(vT, "stmt", vStmt), "A")
      /\ tB = Squeeze(tA, "B") /\ tC = Squeeze(tB, "C")
      /\ chal = [vChal EXCEPT !["A"] = tA, !["B"] = tB, !["C"] = tC]
      /\ opens <=> Same(chal, {"B", "C"}) /\ Intact({"u1", "v", "g"})
  OBVIOUS
<1> HIDE DEF tA, tB, tC, chal, opens
<1>3. /\ pPc = "returned" /\ Final \in Iterations /\ IsSeq(vT) /\ IsTable(vChal, Stages)
      /\ vT = ProverAt(Final, "commit") /\ vStmt = pStmt[Final] <=> Bound(Final, "commit")
  BY <1>1, AtFinal, PhaseNames
<1>4. /\ tB = pChal[Final]["B"] <=> Bound(Final, "commit")
      /\ tC = pChal[Final]["C"] <=> Bound(Final, "commit")
  BY <1>2, <1>3, MirrorCommit
<1>5. chal["B"] = tB /\ chal["C"] = tC
  BY <1>2, <1>3, DrawCommit, StageNames DEF IsTable
<1>6. opens <=> Bound(Final, "commit") /\ Intact({"u1", "v", "g"})
  BY <1>2, <1>4, <1>5 DEF Same
<1> QED
  BY <1>1, <1>6

LEMMA VerifyCommitAccepts ==
  TypeOK /\ ProverInv /\ VerifierInv /\ AcceptInv /\ VerifyCommit => AcceptInv'
<1> SUFFICES ASSUME TypeOK, ProverInv, VerifierInv, AcceptInv, VerifyCommit
             PROVE  AcceptInv'
  OBVIOUS
<1> DEFINE opens == Bound(Final, "commit") /\ Intact({"u1", "v", "g"})
<1>1. /\ UNCHANGED <<depth, input, faults, pVars, vIter>>
      /\ vPc = "commit" /\ vIter = Final
      /\ \/ WrongShape /\ Conclude("ProofShape")
         \/ ~WrongShape /\ ~opens /\ Conclude("OuterCommitment u_1")
         \/ ~WrongShape /\ opens /\ Continue("project")
  BY CommitReads
<1>2. CASE ~WrongShape /\ opens /\ Continue("project")
  <2>1. ClearedCommit
    BY <1>2 DEF ClearedCommit
  <2>2. vPc' = "project" /\ UNCHANGED verdict
    BY <1>2 DEF Continue
  <2> QED
    BY <1>1, <2>1, <2>2, PhaseNames, VerifyOn
<1>3. CASE \/ WrongShape /\ Conclude("ProofShape")
           \/ ~WrongShape /\ ~opens /\ Conclude("OuterCommitment u_1")
  <2>1. vPc' = "returned" /\ verdict' # "Ok"
    BY <1>3 DEF Conclude, Return
  <2>2. faults # {}
    BY <1>3, NoFaults
  <2> QED
    BY <1>1, <2>1, <2>2, AcceptError
<1> QED
  BY <1>1, <1>2, <1>3

LEMMA VerifyProjectAccepts ==
  TypeOK /\ AcceptInv /\ VerifyProject => AcceptInv'
<1> SUFFICES ASSUME TypeOK, AcceptInv, VerifyProject PROVE AcceptInv'
  OBVIOUS
<1> DEFINE within == IF Altered(Final, "p")
                     THEN <<"altered", Final, "pHeavy">> \notin faults
                     ELSE jl[Final]
<1>1. /\ UNCHANGED <<depth, input, faults, pVars, vIter>>
      /\ vPc = "project" /\ vIter = Final
      /\ \/ ~within /\ Conclude("JlBound")
         \/ within /\ Continue("constrain")
  BY DEF VerifyProject
<1>2. ClearedCommit
  BY <1>1, PhaseNames DEF AcceptInv, ClearedVerify
<1>3. CASE within /\ Continue("constrain")
  <2>1. ClearedProject
    BY <1>3 DEF ClearedProject
  <2>2. vPc' = "constrain" /\ UNCHANGED verdict
    BY <1>3 DEF Continue
  <2> QED
    BY <1>1, <1>2, <2>1, <2>2, PhaseNames, VerifyOn
<1>4. CASE ~within /\ Conclude("JlBound")
  <2>1. vPc' = "returned" /\ verdict' # "Ok"
    BY <1>4 DEF Conclude, Return
  <2>2. faults # {} \/ ~jl[Final]
    BY <1>4, NoFaults
  <2> QED
    BY <1>1, <2>1, <2>2, AcceptError
<1> QED
  BY <1>1, <1>3, <1>4

LEMMA ConstrainReads ==
  ASSUME TypeOK, ProverInv, VerifierInv, VerifyConstrain, Bound(Final, "project"),
         ~WrongShape
  PROVE  LET matches == /\ ~Altered(Final, "p")
                        /\ <<"altered", Final, "bpp0">> \notin faults
                        /\ pHolds.ct
         IN /\ UNCHANGED <<depth, input, faults, pVars, vIter>>
            /\ vPc = "constrain" /\ vIter = Final
            /\ \/ Short(Final, "bpp") /\ Conclude("ProofShape")
               \/ ~Short(Final, "bpp") /\ ~matches /\ Conclude("ConstTermMismatch")
               \/ ~Short(Final, "bpp") /\ matches /\ Continue("linearize")
<1> DEFINE tPsi == Squeeze(vT, "psi")
           chal == [vChal EXCEPT !["psi"] = tPsi]
           matches == /\ ~Altered(Final, "p")
                      /\ <<"altered", Final, "bpp0">> \notin faults
                      /\ pHolds.ct
<1>1. /\ UNCHANGED <<depth, input, faults, pVars, vIter>>
      /\ vPc = "constrain" /\ vIter = Final
      /\ LET all == Same(chal, {"Pi", "psi"}) /\ matches
         IN \/ Short(Final, "bpp") /\ Conclude("ProofShape")
            \/ ~Short(Final, "bpp") /\ ~all /\ Conclude("ConstTermMismatch")
            \/ ~Short(Final, "bpp") /\ all /\ Continue("linearize")
  BY DEF VerifyConstrain
<1>2. /\ pPc = "returned" /\ Final \in Iterations /\ IsSeq(vT) /\ IsTable(vChal, Stages)
      /\ vT = ProverAt(Final, "constrain") <=> Bound(Final, "constrain")
      /\ vChal["Pi"] = pChal[Final]["Pi"] <=> Bound(Final, "project")
  BY <1>1, AtFinal, PhaseNames, StagePhases, DrawnSoFar
<1>3. tPsi = pChal[Final]["psi"] <=> Bound(Final, "constrain")
  BY <1>2, MirrorConstrain
<1>4. chal["Pi"] = vChal["Pi"] /\ chal["psi"] = tPsi
  BY <1>2, StageNames DEF IsTable
<1>5. Bound(Final, "constrain") <=> ~Altered(Final, "p")
  BY AbsorbedSoFar DEF Bound, Changed, WrongShape
<1>6. Same(chal, {"Pi", "psi"}) <=> ~Altered(Final, "p")
  BY <1>2, <1>3, <1>4, <1>5 DEF Same
<1> QED
  BY <1>1, <1>6

LEMMA VerifyConstrainAccepts ==
  TypeOK /\ ProverInv /\ VerifierInv /\ AcceptInv /\ VerifyConstrain => AcceptInv'
<1> SUFFICES ASSUME TypeOK, ProverInv, VerifierInv, AcceptInv, VerifyConstrain
             PROVE  AcceptInv'
  OBVIOUS
<1> DEFINE matches == /\ ~Altered(Final, "p")
                      /\ <<"altered", Final, "bpp0">> \notin faults
                      /\ pHolds.ct
<1>1. vPc = "constrain" /\ vIter = Final
  BY DEF VerifyConstrain
<1>2. ClearedCommit /\ ClearedProject
  BY <1>1, PhaseNames DEF AcceptInv, ClearedVerify
<1>3. Bound(Final, "project") /\ ~WrongShape
  BY <1>2, AbsorbedSoFar DEF ClearedCommit, Bound, Intact, Changed, WrongShape
<1>4. /\ UNCHANGED <<depth, input, faults, pVars, vIter>>
      /\ \/ Short(Final, "bpp") /\ Conclude("ProofShape")
         \/ ~Short(Final, "bpp") /\ ~matches /\ Conclude("ConstTermMismatch")
         \/ ~Short(Final, "bpp") /\ matches /\ Continue("linearize")
  BY <1>3, ConstrainReads
<1>5. CASE ~Short(Final, "bpp") /\ matches /\ Continue("linearize")
  <2>1. ClearedConstrain
    BY <1>5 DEF ClearedConstrain
  <2>2. vPc' = "linearize" /\ UNCHANGED verdict
    BY <1>5 DEF Continue
  <2> QED
    BY <1>1, <1>2, <1>4, <2>1, <2>2, PhaseNames, VerifyOn
<1>6. CASE Short(Final, "bpp") /\ Conclude("ProofShape")
  <2>1. vPc' = "returned" /\ verdict' # "Ok"
    BY <1>6 DEF Conclude, Return
  <2> QED
    BY <1>4, <1>6, <2>1, ShortIsFault, AcceptError
<1>7. CASE ~Short(Final, "bpp") /\ ~matches /\ Conclude("ConstTermMismatch")
  <2>1. vPc' = "returned" /\ verdict' # "Ok"
    BY <1>7 DEF Conclude, Return
  <2>2. faults # {} \/ ~input.ct
    BY <1>7, NoFaults DEF AcceptInv
  <2> QED
    BY <1>4, <2>1, <2>2, AcceptError
<1> QED
  BY <1>4, <1>5, <1>6, <1>7

LEMMA LinearizeReads ==
  ASSUME TypeOK, ProverInv, VerifierInv, VerifyLinearize
  PROVE  LET opens == Bound(Final, "linearize") /\ Intact({"u2", "h"})
         IN /\ UNCHANGED <<depth, input, faults, pVars, vIter>>
            /\ vPc = "linearize" /\ vIter = Final
            /\ \/ ~opens /\ Conclude("OuterCommitment u_2")
               \/ opens /\ Continue("amortize")
<1> DEFINE tAl == Squeeze(vT, "alpha")
           tBe == Squeeze(tAl, "beta")
           tD == Squeeze(tBe, "D")
           chal == [vChal EXCEPT !["alpha"] = tAl, !["beta"] = tBe, !["D"] = tD]
           opens == Same(chal, {"D"}) /\ Intact({"u2", "h"})
<1>1. /\ UNCHANGED <<depth, input, faults, pVars, vIter>>
      /\ vPc = "linearize" /\ vIter = Final
      /\ \/ ~opens /\ Conclude("OuterCommitment u_2")
         \/ opens /\ Continue("amortize")
  BY DEF VerifyLinearize
<1>2. /\ tAl = Squeeze(vT, "alpha") /\ tBe = Squeeze(tAl, "beta") /\ tD = Squeeze(tBe, "D")
      /\ chal = [vChal EXCEPT !["alpha"] = tAl, !["beta"] = tBe, !["D"] = tD]
      /\ opens <=> Same(chal, {"D"}) /\ Intact({"u2", "h"})
  OBVIOUS
<1> HIDE DEF tAl, tBe, tD, chal, opens
<1>3. /\ pPc = "returned" /\ Final \in Iterations /\ IsSeq(vT) /\ IsTable(vChal, Stages)
      /\ vT = ProverAt(Final, "linearize") <=> Bound(Final, "linearize")
  BY <1>1, AtFinal, PhaseNames
<1>4. tD = pChal[Final]["D"] <=> Bound(Final, "linearize")
  BY <1>2, <1>3, MirrorLinearize
<1>5. chal["D"] = tD
  BY <1>2, <1>3, DrawLinearize, StageNames DEF IsTable
<1>6. opens <=> Bound(Final, "linearize") /\ Intact({"u2", "h"})
  BY <1>2, <1>4, <1>5 DEF Same
<1> QED
  BY <1>1, <1>6

LEMMA VerifyLinearizeAccepts ==
  TypeOK /\ ProverInv /\ VerifierInv /\ AcceptInv /\ VerifyLinearize => AcceptInv'
<1> SUFFICES ASSUME TypeOK, ProverInv, VerifierInv, AcceptInv, VerifyLinearize
             PROVE  AcceptInv'
  OBVIOUS
<1> DEFINE opens == Bound(Final, "linearize") /\ Intact({"u2", "h"})
<1>1. /\ UNCHANGED <<depth, input, faults, pVars, vIter>>
      /\ vPc = "linearize" /\ vIter = Final
      /\ \/ ~opens /\ Conclude("OuterCommitment u_2")
         \/ opens /\ Continue("amortize")
  BY LinearizeReads
<1>2. ClearedCommit /\ ClearedProject /\ ClearedConstrain
  BY <1>1, PhaseNames DEF AcceptInv, ClearedVerify
<1>3. CASE opens /\ Continue("amortize")
  <2>1. ClearedLinearize
    BY <1>3 DEF ClearedLinearize
  <2>2. vPc' = "amortize" /\ UNCHANGED verdict
    BY <1>3 DEF Continue
  <2> QED
    BY <1>1, <1>2, <2>1, <2>2, PhaseNames, VerifyOn
<1>4. CASE ~opens /\ Conclude("OuterCommitment u_2")
  <2>1. vPc' = "returned" /\ verdict' # "Ok"
    BY <1>4 DEF Conclude, Return
  <2>2. faults # {}
    BY <1>4, NoFaults
  <2> QED
    BY <1>1, <2>1, <2>2, AcceptError
<1> QED
  BY <1>1, <1>3, <1>4

\* With the commitments cleared every challenge is the prover's, and the checks
\* of verify_v2's Step 5 come down to z, the witness and the norms.
LEMMA OpenReads ==
  ASSUME TypeOK, ProverInv, VerifierInv, AcceptInv, VerifyOpen
  PROVE  /\ UNCHANGED <<depth, input, faults, pVars, vIter>>
         /\ vPc = "amortize" /\ vIter = Final
         /\ vPc' = "returned"
         /\ verdict' = IF Altered(Final, "z") THEN "InnerCommitmentOpening"
                       ELSE IF ~input.full THEN "AggregatedRelation"
                       ELSE IF ~small THEN "NormBound" ELSE "Ok"
<1> DEFINE tC == Squeeze(vT, "c")
           chal == [vChal EXCEPT !["c"] = tC]
<1>1. /\ UNCHANGED <<depth, input, faults, pVars, vIter>>
      /\ vPc = "amortize" /\ vIter = Final
      /\ vPc' = "returned" /\ verdict' = OpeningVerdict(chal)
  BY DEF VerifyOpen, Conclude, Return
<1>2. tC = Squeeze(vT, "c") /\ chal = [vChal EXCEPT !["c"] = tC]
  OBVIOUS
<1> HIDE DEF tC, chal
<1>3. /\ pPc = "returned" /\ Final \in Iterations /\ IsSeq(vT) /\ IsTable(vChal, Stages)
      /\ vT = ProverAt(Final, "amortize") <=> Bound(Final, "amortize")
      /\ \A s \in DrawnBefore("amortize") :
           vChal[s] = pChal[Final][s] <=> Bound(Final, PhaseOf(s))
  BY <1>1, AtFinal, PhaseNames
<1>4. /\ ClearedCommit /\ ClearedConstrain /\ ClearedLinearize
      /\ pHolds.full = input.full
  BY <1>1, PhaseNames DEF AcceptInv, ClearedVerify
<1>5. \A ph \in Phases : Bound(Final, ph)
  <2>1. ~Changed(Final, "u2") /\ Bound(Final, "linearize")
    BY <1>4 DEF ClearedCommit, ClearedLinearize, Intact, Changed, WrongShape
  <2> QED
    BY <2>1, AbsorbedSoFar DEF Bound, Phases
<1>6. \A s \in Stages : chal[s] = pChal[Final][s]
  <2>1. tC = pChal[Final]["c"]
    BY <1>2, <1>3, <1>5, MirrorAmortize, PhaseNames
  <2>2. \A s \in Stages : chal[s] = IF s = "c" THEN tC ELSE vChal[s]
    <3>1. "c" \in Stages /\ IsTable(vChal, Stages)
      BY <1>3, StageNames
    <3> QED
      BY <1>2, <3>1, DrawOne
  <2>3. \A s \in Stages : s = "c" \/ s \in DrawnBefore("amortize")
    BY DrawnSoFar
  <2>4. \A s \in Stages : PhaseOf(s) \in Phases
    BY StagePhases, PhaseNames DEF Stages
  <2> QED
    BY <1>3, <1>5, <2>1, <2>2, <2>3, <2>4
<1>7. \A S : S \subseteq Stages => Same(chal, S)
  BY <1>6 DEF Same
<1>8. /\ Same(chal, {"A", "c"}) /\ Same(chal, {"c"})
      /\ Same(chal, Aggregation \cup {"c"}) /\ Same(chal, Aggregation)
  BY <1>7 DEF Aggregation, Stages
<1>9. /\ Intact({"z", "v"}) <=> ~Altered(Final, "z")
      /\ Intact({"z", "g"}) <=> ~Altered(Final, "z")
      /\ Intact({"z", "h"}) <=> ~Altered(Final, "z")
      /\ Intact({"g", "h", "bpp"})
  <2>1. ~Altered(Final, "v") /\ ~Altered(Final, "g") /\ ~Altered(Final, "h")
    BY <1>4 DEF ClearedCommit, ClearedLinearize, Intact
  <2>2. ~Altered(Final, "bpp")
    BY <1>5, AbsorbedSoFar, PhaseNames DEF Bound, Changed
  <2> QED
    BY <2>1, <2>2 DEF Intact
<1> QED
  BY <1>1, <1>4, <1>8, <1>9
     DEF OpeningVerdict, InnerOpening, QuadraticOpening, LinearOpening, AggregatedRelation

LEMMA VerifyOpenAccepts ==
  TypeOK /\ ProverInv /\ VerifierInv /\ AcceptInv /\ VerifyOpen => AcceptInv'
<1> SUFFICES ASSUME TypeOK, ProverInv, VerifierInv, AcceptInv, VerifyOpen
             PROVE  AcceptInv'
  OBVIOUS
<1>1. /\ UNCHANGED <<depth, input, faults, pVars, vIter>>
      /\ vPc = "amortize" /\ vIter = Final
      /\ vPc' = "returned"
      /\ verdict' = IF Altered(Final, "z") THEN "InnerCommitmentOpening"
                    ELSE IF ~input.full THEN "AggregatedRelation"
                    ELSE IF ~small THEN "NormBound" ELSE "Ok"
  BY OpenReads
<1>2. pPc = "returned"
  BY <1>1, AtFinal, PhaseNames
<1>3. /\ ClearedCommit /\ ClearedProject /\ ClearedConstrain /\ ClearedLinearize
      /\ ClearedReplay /\ WrongCount \notin faults /\ WrongModulus \notin faults
      /\ pHolds.full = input.full /\ (pIter = 0 => pHolds = input)
  BY <1>1, PhaseNames DEF AcceptInv, ClearedVerify
<1>4. CASE verdict' = "Ok"
  <2>1. ~Altered(Final, "z") /\ input.full /\ small
    BY <1>1, <1>4
  <2>2. \A j \in Iterations : j < Final => RightLengths(j)
    BY <1>1, <1>3 DEF ClearedReplay
  <2>3. faults = {}
    BY <1>3, <2>1, <2>2, NothingLeft
  <2>4. jl[Final]
    BY <1>3 DEF ClearedProject, ClearedConstrain
  <2>5. depth = 1 => input.ct
    <3>1. pIter = Final
      BY <1>2 DEF ProverInv
    <3>2. depth = 1 => Final = 0
      BY DEF Final
    <3> QED
      BY <1>3, <3>1, <3>2 DEF ClearedConstrain
  <2> QED
    BY <1>1, <1>3, <1>4, <2>1, <2>3, <2>4, <2>5, AcceptFrame, PhaseNames
       DEF AcceptInv, HonestAccepted, AcceptedIsGenuine
<1>5. CASE verdict' # "Ok"
  <2>1. faults # {} \/ ~input.full \/ ~small
    BY <1>1, <1>5, NoFaults
  <2> QED
    BY <1>1, <1>5, <2>1, AcceptError
<1> QED
  BY <1>4, <1>5

LEMMA AcceptStep ==
  TypeOK /\ ProverInv /\ VerifierInv /\ AcceptInv /\ [Next]_vars => AcceptInv'
BY ProverAccepts, HeaderAccepts, ReplayCommitAccepts, ReplayProjectAccepts,
   ReplayConstrainAccepts, ReplayLinearizeAccepts, ReplayAmortizeAccepts,
   ReplayFoldAccepts, VerifyCommitAccepts, VerifyProjectAccepts, VerifyConstrainAccepts,
   VerifyLinearizeAccepts, VerifyOpenAccepts, AcceptRests DEF Next, Replay, Verify

-----------------------------------------------------------------------------
(* The theorems.                                                           *)

\* verify_aggregate (aggregate_v2.rs) never refuses the proof prove_aggregate
\* made of a good witness, whatever the depth.
THEOREM HonestAcceptedHolds == Spec => []HonestAccepted
<1>1. Init => AcceptInv
  BY AcceptInit
<1>2. AcceptInv => HonestAccepted
  BY DEF AcceptInv
<1> QED
  BY <1>1, <1>2, AcceptStep, Binding, PTL DEF Spec

\* What verify_aggregate accepts is, at every depth, the prover's own proof for
\* the verifier's statement, of a witness that satisfies F.
THEOREM AcceptedIsGenuineHolds == Spec => []AcceptedIsGenuine
<1>1. Init => AcceptInv
  BY AcceptInit
<1>2. AcceptInv => AcceptedIsGenuine
  BY DEF AcceptInv
<1> QED
  BY <1>1, <1>2, AcceptStep, Binding, PTL DEF Spec

-----------------------------------------------------------------------------
(***************************************************************************)
(* The recursion implements its oracle.                                     *)
(***************************************************************************)

\* Step 2 of verify_v2 finds the claimed p within its bound.
WithinBound == IF Altered(Final, "p") THEN <<"altered", Final, "pHeavy">> \notin faults
                                      ELSE jl[Final]

\* The oracle's words, in those of LabradorRecursion.
LEMMA OracleWords ==
  /\ Oracle!Last = Final
  /\ \A k, F : Oracle!Short(k, F) <=> \E f \in F : Short(k, f)
  /\ \A k, F : Oracle!Altered(k, F) <=> \E f \in F : Altered(k, f)
  /\ \A f : Oracle!Has(f) <=> f \in faults
  /\ Oracle!Commitments = Commitments /\ Oracle!Openings = Openings
  /\ Oracle!WrongStatement = WrongStatement /\ Oracle!WrongCount = WrongCount
  /\ Oracle!WrongModulus = WrongModulus
  /\ \A d : Oracle!NoOpenings(d) = NoOpenings(d)
<1>1. Oracle!Last = Final
  BY DEF Oracle!Last, Final
<1>2. \A k, F : Oracle!Short(k, F) <=> \E f \in F : Short(k, f)
  BY DEF Oracle!Short, Short
<1>3. \A k, F : Oracle!Altered(k, F) <=> \E f \in F : Altered(k, f)
  <2>1. \A f : Oracle!Edits(f) = Edits(f)
    BY Zenon DEF Oracle!Edits, Edits
  <2> QED
    BY <2>1 DEF Oracle!Altered, Altered
<1>4. /\ \A f : Oracle!Has(f) <=> f \in faults
      /\ Oracle!Commitments = Commitments /\ Oracle!Openings = Openings
  BY DEF Oracle!Has, Oracle!Commitments, Commitments, Oracle!Openings, Openings
<1>5. /\ Oracle!WrongStatement = WrongStatement /\ Oracle!WrongCount = WrongCount
      /\ Oracle!WrongModulus = WrongModulus
      /\ \A d : Oracle!NoOpenings(d) = NoOpenings(d)
  BY DEF Oracle!WrongCount, WrongCount, Oracle!WrongStatement, WrongStatement,
         Oracle!WrongModulus, WrongModulus, Oracle!NoOpenings, NoOpenings
<1> QED
  BY <1>1, <1>2, <1>3, <1>4, <1>5

LEMMA TwelveReasons == DOMAIN Oracle!Reasons = 1..12
<1> DEFINE r1 == <<"BadIterationStage", Oracle!Has(Oracle!WrongCount)>>
           r2 == <<"ModulusMismatch", Oracle!Has(Oracle!WrongModulus)>>
           r3 == <<"panic", \E k \in 0..(Oracle!Last - 1) : Oracle!Short(k, Oracle!Commitments)>>
           r4 == <<"ProofShape", \/ Oracle!Has(Oracle!NoOpenings(depth))
                                 \/ Oracle!Short(Oracle!Last, {"u1", "u2", "p"} \cup Oracle!Openings)>>
           r5 == <<"OuterCommitment u_1",
                   \/ Oracle!Has(Oracle!WrongStatement)
                   \/ \E k \in 0..(Oracle!Last - 1) : Oracle!Altered(k, Oracle!Commitments)
                   \/ Oracle!Altered(Oracle!Last, {"u1", "v", "g"})>>
           r6 == <<"JlBound", IF Oracle!Altered(Oracle!Last, {"p"})
                              THEN Oracle!Has(<<"altered", Oracle!Last, "pHeavy">>)
                              ELSE ~jl[Final]>>
           r7 == <<"ProofShape", Oracle!Short(Oracle!Last, {"bpp"})>>
           r8 == <<"ConstTermMismatch", \/ Oracle!Altered(Oracle!Last, {"p"})
                                        \/ Oracle!Has(<<"altered", Oracle!Last, "bpp0">>)
                                        \/ depth = 1 /\ ~input.ct>>
           r9 == <<"OuterCommitment u_2", Oracle!Altered(Oracle!Last, {"bpp", "u2", "h"})>>
           r10 == <<"InnerCommitmentOpening", Oracle!Altered(Oracle!Last, {"z"})>>
           r11 == <<"AggregatedRelation", ~input.full>>
           r12 == <<"NormBound", ~small>>
<1>1. Oracle!Reasons = <<r1, r2, r3, r4, r5, r6, r7, r8, r9, r10, r11, r12>>
  BY ZenonT(60) DEF Oracle!Reasons
<1> HIDE DEF r1, r2, r3, r4, r5, r6, r7, r8, r9, r10, r11, r12
<1> QED
  BY <1>1

\* The i-th reason to refuse is called name and applies when cond does.
Reads(i, name, cond) ==
  /\ Oracle!Reasons[i][1] = name
  /\ Oracle!Reasons[i][2] <=> cond

\* The statement or an earlier iteration's message has another value.
Astray ==
  \/ ~SameStatement
  \/ \E k \in Iterations : k < Final /\ \E f \in Commitments : Altered(k, f)

\* With the right lengths, this is what sets the last iteration's transcript
\* apart from the prover's.
LEMMA AstrayUnbinds ==
  ASSUME \A k \in Iterations : k < Final => RightLengths(k)
  PROVE  Astray <=> ~Bound(Final, "commit")
<1>1. AbsorbedBefore("commit") = {}
  BY DEF AbsorbedBefore
<1> QED
  BY <1>1 DEF Astray, Bound, MessagesIntact, Changed, RightLengths

LEMMA ReasonsRead ==
  ASSUME depth \in Depths
  PROVE  /\ Reads(1, "BadIterationStage", WrongCount \in faults)
         /\ Reads(2, "ModulusMismatch", WrongModulus \in faults)
         /\ Reads(3, "panic", (\E k \in Iterations : k < Final /\ ~RightLengths(k)))
         /\ Reads(4, "ProofShape", WrongShape)
         /\ Reads(5, "OuterCommitment u_1", Astray \/ ~Intact({"u1", "v", "g"}))
         /\ Reads(6, "JlBound", ~WithinBound)
         /\ Reads(7, "ProofShape", Short(Final, "bpp"))
         /\ Reads(8, "ConstTermMismatch", \/ Altered(Final, "p")
                                          \/ <<"altered", Final, "bpp0">> \in faults
                                          \/ depth = 1 /\ ~input.ct)
         /\ Reads(9, "OuterCommitment u_2", ~Intact({"bpp", "u2", "h"}))
         /\ Reads(10, "InnerCommitmentOpening", Altered(Final, "z"))
         /\ Reads(11, "AggregatedRelation", ~input.full)
         /\ Reads(12, "NormBound", ~small)
<1>0. /\ Final \in Nat /\ \A k : k \in 0..(Final - 1) <=> k \in Iterations /\ k < Final
      /\ depth - 1 = Final
  BY DepthIsPositive DEF Iterations, Final
<1>1. Reads(1, "BadIterationStage", WrongCount \in faults)
  <2> DEFINE cond == Oracle!Has(Oracle!WrongCount)
  <2>1. Oracle!Reasons[1][1] = "BadIterationStage" /\ Oracle!Reasons[1][2] = cond
    BY Zenon DEF Oracle!Reasons
  <2>2. cond <=> WrongCount \in faults
    BY <1>0, OracleWords
  <2> HIDE DEF cond
  <2> QED
    BY <2>1, <2>2, Zenon DEF Reads
<1>2. Reads(2, "ModulusMismatch", WrongModulus \in faults)
  <2> DEFINE cond == Oracle!Has(Oracle!WrongModulus)
  <2>1. Oracle!Reasons[2][1] = "ModulusMismatch" /\ Oracle!Reasons[2][2] = cond
    BY Zenon DEF Oracle!Reasons
  <2>2. cond <=> WrongModulus \in faults
    BY <1>0, OracleWords
  <2> HIDE DEF cond
  <2> QED
    BY <2>1, <2>2, Zenon DEF Reads
<1>3. Reads(3, "panic", (\E k \in Iterations : k < Final /\ ~RightLengths(k)))
  <2> DEFINE cond == \E k \in 0..(Oracle!Last - 1) : Oracle!Short(k, Oracle!Commitments)
  <2>1. Oracle!Reasons[3][1] = "panic" /\ Oracle!Reasons[3][2] = cond
    BY Zenon DEF Oracle!Reasons
  <2>2. cond <=> (\E k \in Iterations : k < Final /\ ~RightLengths(k))
    BY <1>0, OracleWords DEF RightLengths
  <2> HIDE DEF cond
  <2> QED
    BY <2>1, <2>2, Zenon DEF Reads
<1>4. Reads(4, "ProofShape", WrongShape)
  <2> DEFINE cond == \/ Oracle!Has(Oracle!NoOpenings(depth))
                     \/ Oracle!Short(Oracle!Last, {"u1", "u2", "p"} \cup Oracle!Openings)
  <2>1. Oracle!Reasons[4][1] = "ProofShape" /\ Oracle!Reasons[4][2] = cond
    BY Zenon DEF Oracle!Reasons
  <2>2. cond <=> WrongShape
    BY <1>0, OracleWords DEF WrongShape
  <2> HIDE DEF cond
  <2> QED
    BY <2>1, <2>2, Zenon DEF Reads
<1>5. Reads(5, "OuterCommitment u_1", Astray \/ ~Intact({"u1", "v", "g"}))
  <2> DEFINE cond == \/ Oracle!Has(Oracle!WrongStatement)
                     \/ \E k \in 0..(Oracle!Last - 1) : Oracle!Altered(k, Oracle!Commitments)
                     \/ Oracle!Altered(Oracle!Last, {"u1", "v", "g"})
  <2>1. Oracle!Reasons[5][1] = "OuterCommitment u_1" /\ Oracle!Reasons[5][2] = cond
    BY Zenon DEF Oracle!Reasons
  <2>2. cond <=> Astray \/ ~Intact({"u1", "v", "g"})
    BY <1>0, OracleWords DEF SameStatement, Astray, Intact
  <2> HIDE DEF cond
  <2> QED
    BY <2>1, <2>2, Zenon DEF Reads
<1>6. Reads(6, "JlBound", ~WithinBound)
  <2> DEFINE cond == IF Oracle!Altered(Oracle!Last, {"p"})
                     THEN Oracle!Has(<<"altered", Oracle!Last, "pHeavy">>)
                     ELSE ~jl[Final]
  <2>1. Oracle!Reasons[6][1] = "JlBound" /\ Oracle!Reasons[6][2] = cond
    BY Zenon DEF Oracle!Reasons
  <2>2. cond <=> ~WithinBound
    BY <1>0, OracleWords DEF WithinBound
  <2> HIDE DEF cond
  <2> QED
    BY <2>1, <2>2, Zenon DEF Reads
<1>7. Reads(7, "ProofShape", Short(Final, "bpp"))
  <2> DEFINE cond == Oracle!Short(Oracle!Last, {"bpp"})
  <2>1. Oracle!Reasons[7][1] = "ProofShape" /\ Oracle!Reasons[7][2] = cond
    BY Zenon DEF Oracle!Reasons
  <2>2. cond <=> Short(Final, "bpp")
    BY <1>0, OracleWords
  <2> HIDE DEF cond
  <2> QED
    BY <2>1, <2>2, Zenon DEF Reads
<1>8. Reads(8, "ConstTermMismatch", \/ Altered(Final, "p")
                                    \/ <<"altered", Final, "bpp0">> \in faults
                                    \/ depth = 1 /\ ~input.ct)
  <2> DEFINE cond == \/ Oracle!Altered(Oracle!Last, {"p"})
                     \/ Oracle!Has(<<"altered", Oracle!Last, "bpp0">>)
                     \/ depth = 1 /\ ~input.ct
  <2>1. Oracle!Reasons[8][1] = "ConstTermMismatch" /\ Oracle!Reasons[8][2] = cond
    BY Zenon DEF Oracle!Reasons
  <2>2. cond <=> \/ Altered(Final, "p") \/ <<"altered", Final, "bpp0">> \in faults
                 \/ depth = 1 /\ ~input.ct
    BY <1>0, OracleWords
  <2> HIDE DEF cond
  <2> QED
    BY <2>1, <2>2, Zenon DEF Reads
<1>9. Reads(9, "OuterCommitment u_2", ~Intact({"bpp", "u2", "h"}))
  <2> DEFINE cond == Oracle!Altered(Oracle!Last, {"bpp", "u2", "h"})
  <2>1. Oracle!Reasons[9][1] = "OuterCommitment u_2" /\ Oracle!Reasons[9][2] = cond
    BY Zenon DEF Oracle!Reasons
  <2>2. cond <=> ~Intact({"bpp", "u2", "h"})
    BY <1>0, OracleWords DEF Intact
  <2> HIDE DEF cond
  <2> QED
    BY <2>1, <2>2, Zenon DEF Reads
<1>10. Reads(10, "InnerCommitmentOpening", Altered(Final, "z"))
  <2> DEFINE cond == Oracle!Altered(Oracle!Last, {"z"})
  <2>1. Oracle!Reasons[10][1] = "InnerCommitmentOpening" /\ Oracle!Reasons[10][2] = cond
    BY Zenon DEF Oracle!Reasons
  <2>2. cond <=> Altered(Final, "z")
    BY <1>0, OracleWords
  <2> HIDE DEF cond
  <2> QED
    BY <2>1, <2>2, Zenon DEF Reads
<1>11. Reads(11, "AggregatedRelation", ~input.full)
  <2> DEFINE cond == ~input.full
  <2>1. Oracle!Reasons[11][1] = "AggregatedRelation" /\ Oracle!Reasons[11][2] = cond
    BY Zenon DEF Oracle!Reasons
  <2>2. cond <=> ~input.full
    BY <1>0, OracleWords
  <2> HIDE DEF cond
  <2> QED
    BY <2>1, <2>2, Zenon DEF Reads
<1>12. Reads(12, "NormBound", ~small)
  <2> DEFINE cond == ~small
  <2>1. Oracle!Reasons[12][1] = "NormBound" /\ Oracle!Reasons[12][2] = cond
    BY Zenon DEF Oracle!Reasons
  <2>2. cond <=> ~small
    BY <1>0, OracleWords
  <2> HIDE DEF cond
  <2> QED
    BY <2>1, <2>2, Zenon DEF Reads
<1> QED
  BY <1>1, <1>2, <1>3, <1>4, <1>5, <1>6, <1>7, <1>8, <1>9, <1>10, <1>11, <1>12

\* None of the first n - 1 reasons applies.
Free(n) == \A j \in 1..12 : j < n => ~Oracle!Reasons[j][2]

\* The verdict is the first reason that applies, or Ok.
LEMMA VerdictRead ==
  /\ Free(1)
  /\ \A i \in 1..12 : Free(i) => IF Oracle!Reasons[i][2]
                                 THEN Oracle!Verdict = Oracle!Reasons[i][1]
                                 ELSE Free(i + 1)
  /\ Free(13) => Oracle!Verdict = "Ok"
<1> DEFINE held == {i \in DOMAIN Oracle!Reasons : Oracle!Reasons[i][2]}
<1>1. Oracle!Verdict = IF held = {} THEN "Ok"
                       ELSE Oracle!Reasons[CHOOSE i \in held : \A j \in held : i <= j][1]
  BY Zenon DEF Oracle!Verdict
<1>2. ASSUME NEW i \in 1..12, Free(i), Oracle!Reasons[i][2]
      PROVE  Oracle!Verdict = Oracle!Reasons[i][1]
  <2>1. i \in held
    BY <1>2, TwelveReasons
  <2>2. \A j \in held : j \in Nat /\ i <= j
    BY <1>2, TwelveReasons DEF Free
  <2> DEFINE least == CHOOSE x \in held : \A j \in held : x <= j
  <2> HIDE DEF held
  <2>3. least \in held /\ \A j \in held : least <= j
    BY <2>1, <2>2, Zenon
  <2> HIDE DEF least
  <2>4. least = i
    BY <2>1, <2>2, <2>3
  <2>5. held # {}
    BY <2>1
  <2> QED
    BY <1>1, <1>2, <2>4, <2>5 DEF least
<1>3. ASSUME Free(13) PROVE Oracle!Verdict = "Ok"
  <2>1. held = {}
    BY <1>3, TwelveReasons DEF Free
  <2> QED
    BY <1>1, <2>1
<1>4. Free(1) /\ \A i \in 1..12 : Free(i) /\ ~Oracle!Reasons[i][2] => Free(i + 1)
  BY DEF Free
<1> QED
  BY <1>2, <1>3, <1>4

LEMMA Decisions ==
  ASSUME depth \in Depths
  PROVE  /\ Free(1)
         /\ Free(1) => IF WrongCount \in faults
              THEN Oracle!Verdict = "BadIterationStage" ELSE Free(2)
         /\ Free(2) => IF WrongModulus \in faults
              THEN Oracle!Verdict = "ModulusMismatch" ELSE Free(3)
         /\ Free(3) => IF (\E k \in Iterations : k < Final /\ ~RightLengths(k))
              THEN Oracle!Verdict = "panic" ELSE Free(4)
         /\ Free(4) => IF WrongShape
              THEN Oracle!Verdict = "ProofShape" ELSE Free(5)
         /\ Free(5) => IF ~(Bound(Final, "commit") /\ Intact({"u1", "v", "g"}))
              THEN Oracle!Verdict = "OuterCommitment u_1" ELSE Free(6)
         /\ Free(6) => IF ~WithinBound
              THEN Oracle!Verdict = "JlBound" ELSE Free(7)
         /\ Free(7) => IF Short(Final, "bpp")
              THEN Oracle!Verdict = "ProofShape" ELSE Free(8)
         /\ Free(8) => IF (Altered(Final, "p") \/ <<"altered", Final, "bpp0">> \in faults
                              \/ (depth = 1 /\ ~input.ct))
              THEN Oracle!Verdict = "ConstTermMismatch" ELSE Free(9)
         /\ Free(9) => IF ~Intact({"bpp", "u2", "h"})
              THEN Oracle!Verdict = "OuterCommitment u_2" ELSE Free(10)
         /\ Free(10) => IF Altered(Final, "z")
              THEN Oracle!Verdict = "InnerCommitmentOpening" ELSE Free(11)
         /\ Free(11) => IF ~input.full
              THEN Oracle!Verdict = "AggregatedRelation" ELSE Free(12)
         /\ Free(12) => IF ~small
              THEN Oracle!Verdict = "NormBound" ELSE Free(13)
         /\ Free(13) => Oracle!Verdict = "Ok"
<1>1. Free(1) => IF WrongCount \in faults
               THEN Oracle!Verdict = "BadIterationStage" ELSE Free(2)
  <2>1. 1 \in 1..12 /\ 1 + 1 = 2
    OBVIOUS
  <2> QED
    BY <2>1, ReasonsRead, VerdictRead, Zenon DEF Reads
<1>2. Free(2) => IF WrongModulus \in faults
               THEN Oracle!Verdict = "ModulusMismatch" ELSE Free(3)
  <2>1. 2 \in 1..12 /\ 2 + 1 = 3
    OBVIOUS
  <2> QED
    BY <2>1, ReasonsRead, VerdictRead, Zenon DEF Reads
<1>3. Free(3) => IF (\E k \in Iterations : k < Final /\ ~RightLengths(k))
               THEN Oracle!Verdict = "panic" ELSE Free(4)
  <2>1. 3 \in 1..12 /\ 3 + 1 = 4
    OBVIOUS
  <2> QED
    BY <2>1, ReasonsRead, VerdictRead, Zenon DEF Reads
<1>4. Free(4) => IF WrongShape
               THEN Oracle!Verdict = "ProofShape" ELSE Free(5)
  <2>1. 4 \in 1..12 /\ 4 + 1 = 5
    OBVIOUS
  <2> QED
    BY <2>1, ReasonsRead, VerdictRead, Zenon DEF Reads
<1>5. Free(5) => IF ~(Bound(Final, "commit") /\ Intact({"u1", "v", "g"}))
               THEN Oracle!Verdict = "OuterCommitment u_1" ELSE Free(6)
  <2> SUFFICES ASSUME Free(5)
               PROVE  IF ~(Bound(Final, "commit") /\ Intact({"u1", "v", "g"}))
                      THEN Oracle!Verdict = "OuterCommitment u_1" ELSE Free(6)
    OBVIOUS
  <2>1. 5 \in 1..12 /\ 5 + 1 = 6
    OBVIOUS
  <2>2. ~Oracle!Reasons[3][2]
    BY DEF Free
  <2>3. \A k \in Iterations : k < Final => RightLengths(k)
    BY <2>2, ReasonsRead, Zenon DEF Reads
  <2>4. Astray \/ ~Intact({"u1", "v", "g"})
          <=> ~(Bound(Final, "commit") /\ Intact({"u1", "v", "g"}))
    BY <2>3, AstrayUnbinds
  <2>5. IF Astray \/ ~Intact({"u1", "v", "g"})
        THEN Oracle!Verdict = "OuterCommitment u_1" ELSE Free(6)
    BY <2>1, ReasonsRead, VerdictRead, Zenon DEF Reads
  <2> QED
    BY <2>4, <2>5
<1>6. Free(6) => IF ~WithinBound
               THEN Oracle!Verdict = "JlBound" ELSE Free(7)
  <2>1. 6 \in 1..12 /\ 6 + 1 = 7
    OBVIOUS
  <2> QED
    BY <2>1, ReasonsRead, VerdictRead, Zenon DEF Reads
<1>7. Free(7) => IF Short(Final, "bpp")
               THEN Oracle!Verdict = "ProofShape" ELSE Free(8)
  <2>1. 7 \in 1..12 /\ 7 + 1 = 8
    OBVIOUS
  <2> QED
    BY <2>1, ReasonsRead, VerdictRead, Zenon DEF Reads
<1>8. Free(8) => IF (Altered(Final, "p") \/ <<"altered", Final, "bpp0">> \in faults
                              \/ (depth = 1 /\ ~input.ct))
               THEN Oracle!Verdict = "ConstTermMismatch" ELSE Free(9)
  <2>1. 8 \in 1..12 /\ 8 + 1 = 9
    OBVIOUS
  <2> QED
    BY <2>1, ReasonsRead, VerdictRead, Zenon DEF Reads
<1>9. Free(9) => IF ~Intact({"bpp", "u2", "h"})
               THEN Oracle!Verdict = "OuterCommitment u_2" ELSE Free(10)
  <2>1. 9 \in 1..12 /\ 9 + 1 = 10
    OBVIOUS
  <2> QED
    BY <2>1, ReasonsRead, VerdictRead, Zenon DEF Reads
<1>10. Free(10) => IF Altered(Final, "z")
               THEN Oracle!Verdict = "InnerCommitmentOpening" ELSE Free(11)
  <2>1. 10 \in 1..12 /\ 10 + 1 = 11
    OBVIOUS
  <2> QED
    BY <2>1, ReasonsRead, VerdictRead, Zenon DEF Reads
<1>11. Free(11) => IF ~input.full
               THEN Oracle!Verdict = "AggregatedRelation" ELSE Free(12)
  <2>1. 11 \in 1..12 /\ 11 + 1 = 12
    OBVIOUS
  <2> QED
    BY <2>1, ReasonsRead, VerdictRead, Zenon DEF Reads
<1>12. Free(12) => IF ~small
               THEN Oracle!Verdict = "NormBound" ELSE Free(13)
  <2>1. 12 \in 1..12 /\ 12 + 1 = 13
    OBVIOUS
  <2> QED
    BY <2>1, ReasonsRead, VerdictRead, Zenon DEF Reads
<1> QED
  BY VerdictRead, <1>1, <1>2, <1>3, <1>4, <1>5, <1>6, <1>7, <1>8, <1>9, <1>10, <1>11, <1>12

-----------------------------------------------------------------------------
(* The progress events.                                                    *)

BarInv ==
  /\ pBar = [started |-> IF pPc = "commit" THEN pIter ELSE pIter + 1,
             done    |-> IF pPc = "returned" THEN depth ELSE pIter]
  /\ vPc \in {"waiting", "header"} => vBar = [started |-> 0, done |-> 0]
  /\ vPc # "returned" => verdict = "none"
  /\ vPc \in Phases => vBar = [started |-> vIter + 1, done |-> vIter]
  /\ verdict \in (Errors \ {"BadIterationStage", "ModulusMismatch"}) \cup {"Ok"}
       => vBar = [started |-> depth, done |-> depth]

LEMMA BarInit == Init => BarInv
BY PhaseNames DEF Init, BarInv, Errors

\* While the prover runs the verifier waits.
LEMMA ProverAlone ==
  ASSUME VerifierInv, Prove
  PROVE  /\ vPc = "waiting" /\ vPc' \in {"waiting", "header"}
         /\ UNCHANGED <<depth, input, vIter, vBar, verdict>>
<1>1. pPc \in Phases /\ UNCHANGED <<depth, input, vIter, vBar, verdict>>
  BY PhaseNames DEF Prove, ProveCommit, ProveProject, ProveConstrain, ProveLinearize,
                    ProveAmortize, ProveFold, Deliver, vVars
<1>2. vPc = "waiting"
  BY <1>1, PhaseNames DEF VerifierInv
<1>3. vPc' \in {vPc, "header"}
  BY DEF Prove, ProveCommit, ProveProject, ProveConstrain, ProveLinearize,
         ProveAmortize, ProveFold, Deliver, vVars
<1> QED
  BY <1>1, <1>2, <1>3

LEMMA ProverTicks == TypeOK /\ VerifierInv /\ BarInv /\ Prove => BarInv'
<1> SUFFICES ASSUME TypeOK, VerifierInv, BarInv, Prove PROVE BarInv'
  OBVIOUS
<1>1. pIter \in Nat /\ depth = Final + 1 /\ UNCHANGED depth
  BY DepthIsPositive, ProverAlone DEF TypeOK, Final
<1>2. pBar' = [started |-> IF pPc' = "commit" THEN pIter' ELSE pIter' + 1,
               done    |-> IF pPc' = "returned" THEN depth ELSE pIter']
  <2>1. CASE ProveCommit
    BY <1>1, <2>1 DEF ProveCommit, BarInv
  <2>2. CASE ProveProject \/ ProveConstrain \/ ProveLinearize \/ ProveAmortize
    BY <1>1, <2>2 DEF ProveProject, ProveConstrain, ProveLinearize, ProveAmortize, BarInv
  <2>3. CASE ProveFold \/ Deliver
    BY <1>1, <2>3 DEF ProveFold, Deliver, BarInv
  <2> QED
    BY <2>1, <2>2, <2>3 DEF Prove
<1> QED
  BY <1>1, <1>2, ProverAlone, PhaseNames DEF BarInv, Errors

LEMMA HeaderTicks == TypeOK /\ BarInv /\ VerifyHeader => BarInv'
<1> SUFFICES ASSUME TypeOK, BarInv, VerifyHeader PROVE BarInv'
  OBVIOUS
<1>1. /\ UNCHANGED <<depth, pPc, pIter, pBar>> /\ vBar = [started |-> 0, done |-> 0]
      /\ verdict = "none"
      /\ \/ vPc' = "returned" /\ verdict' \in {"BadIterationStage", "ModulusMismatch"}
         \/ /\ vPc' = "commit" /\ UNCHANGED verdict /\ vIter' = 0
            /\ vBar' = [vBar EXCEPT !.started = @ + 1]
  BY DEF VerifyHeader, Return, pVars, BarInv
<1> QED
  BY <1>1, PhaseNames, ErrorNames DEF BarInv

LEMMA ReplayTicks == TypeOK /\ BarInv /\ Replay => BarInv'
<1> SUFFICES ASSUME TypeOK, BarInv, Replay PROVE BarInv'
  OBVIOUS
<1>1. UNCHANGED <<depth, pPc, pIter, pBar>> /\ vPc \in Phases /\ vIter \in Nat
  BY DepthIsPositive, PhaseNames
     DEF TypeOK, Replay, ReplayCommit, ReplayProject, ReplayConstrain, ReplayLinearize,
         ReplayAmortize, ReplayFold, pVars
<1>2. verdict = "none" /\ vBar = [started |-> vIter + 1, done |-> vIter]
  BY <1>1, PhaseNames DEF BarInv
<1>3. \/ vPc' = "returned" /\ verdict' = "panic"
      \/ vPc' \in Phases /\ UNCHANGED <<verdict, vBar, vIter>>
      \/ /\ vPc' \in Phases /\ UNCHANGED verdict /\ vIter' = vIter + 1
         /\ vBar' = [started |-> vBar.started + 1, done |-> vBar.done + 1]
  BY PhaseNames
     DEF Replay, ReplayCommit, ReplayProject, ReplayConstrain, ReplayLinearize,
         ReplayAmortize, ReplayFold, Return
<1> QED
  BY <1>1, <1>2, <1>3, PhaseNames DEF BarInv, Errors

LEMMA VerifyTicks == TypeOK /\ BarInv /\ Verify => BarInv'
<1> SUFFICES ASSUME TypeOK, BarInv, Verify PROVE BarInv'
  OBVIOUS
<1>1. /\ UNCHANGED <<depth, pPc, pIter, pBar, vIter>> /\ vPc \in Phases
      /\ vIter = Final
  BY PhaseNames
     DEF Verify, VerifyCommit, VerifyProject, VerifyConstrain, VerifyLinearize,
         VerifyOpen, pVars
<1>2. /\ verdict = "none" /\ vBar = [started |-> vIter + 1, done |-> vIter]
      /\ vIter \in Nat /\ depth = vIter + 1
  BY <1>1, DepthIsPositive, PhaseNames DEF BarInv, TypeOK, Final
<1>3. \/ vPc' = "returned" /\ vBar' = [vBar EXCEPT !.done = @ + 1]
      \/ vPc' \in Phases /\ UNCHANGED <<verdict, vBar>>
  BY PhaseNames
     DEF Verify, VerifyCommit, VerifyProject, VerifyConstrain, VerifyLinearize,
         VerifyOpen, Conclude, Continue, Return
<1> QED
  BY <1>1, <1>2, <1>3, PhaseNames DEF BarInv, Errors

LEMMA BarStep == TypeOK /\ VerifierInv /\ BarInv /\ [Next]_vars => BarInv'
<1>1. BarInv /\ UNCHANGED vars => BarInv'
  BY DEF BarInv, vars, pVars, vVars
<1> QED
  BY <1>1, ProverTicks, HeaderTicks, ReplayTicks, VerifyTicks DEF Next

\* The sinks of both sides receive what aggregate_v2.rs announces, at every depth.
THEOREM ProgressMatchesHolds == Spec => []ProgressMatches
<1>1. BarInv => ProgressMatches
  BY DEF BarInv, ProgressMatches
<1> QED
  BY <1>1, BarInit, BarStep, Binding, PTL DEF Spec

-----------------------------------------------------------------------------
(* The refinement.                                                         *)

\* What the verdict also depends on: F' of a folded statement is empty, and
\* whoever came to the constant terms has found p within its bound.
OracleInv ==
  /\ pIter # 0 => pHolds.ct
  /\ vPc = "constrain" /\ vIter = Final => WithinBound

LEMMA OracleInvInit == Init => OracleInv
BY DEF Init, OracleInv

LEMMA OracleInvStep ==
  TypeOK /\ VerifierInv /\ OracleInv /\ [Next]_vars => OracleInv'
<1> SUFFICES ASSUME TypeOK, VerifierInv, OracleInv, [Next]_vars PROVE OracleInv'
  OBVIOUS
<1>1. CASE Prove
  <2>1. vPc' # "constrain"
    BY <1>1, ProverAlone
  <2>2. \/ pHolds'.ct
        \/ UNCHANGED <<pIter, pHolds>>
    BY <1>1 DEF Prove, ProveCommit, ProveProject, ProveConstrain, ProveLinearize,
                ProveAmortize, ProveFold, Deliver
  <2> QED
    BY <2>1, <2>2 DEF OracleInv
<1>2. CASE UNCHANGED <<depth, faults, pVars>>
  <2>1. UNCHANGED <<pIter, pHolds>> /\ WithinBound' = WithinBound /\ Final' = Final
    BY <1>2 DEF pVars, WithinBound, Altered, Final
  <2>2. CASE vPc' # "constrain" \/ UNCHANGED <<vPc, vIter>>
    BY <2>1, <2>2 DEF OracleInv
  <2>3. CASE ReplayProject
    BY <2>1, <2>3, DepthIsPositive DEF OracleInv, ReplayProject, TypeOK
  <2>4. CASE VerifyProject
    BY <2>1, <2>4 DEF OracleInv, VerifyProject, Conclude, Return, WithinBound
  <2>5. \/ vPc' # "constrain" \/ UNCHANGED <<vPc, vIter>>
        \/ Prove \/ ReplayProject \/ VerifyProject
    BY DEF Next, vars, vVars, VerifyHeader, Replay, ReplayCommit, ReplayConstrain,
           ReplayLinearize, ReplayAmortize, ReplayFold, Verify, VerifyCommit,
           VerifyConstrain, VerifyLinearize, VerifyOpen, Conclude, Continue, Return
  <2> QED
    BY <2>2, <2>3, <2>4, <2>5, <1>1
<1>3. Prove \/ UNCHANGED <<depth, faults, pVars>>
  BY DEF Next, vars, VerifyHeader, Replay, ReplayCommit, ReplayProject, ReplayConstrain,
         ReplayLinearize, ReplayAmortize, ReplayFold, Verify, VerifyCommit, VerifyProject,
         VerifyConstrain, VerifyLinearize, VerifyOpen
<1> QED
  BY <1>1, <1>2, <1>3

LEMMA OracleInits == Init => Oracle!Init
<1> SUFFICES ASSUME Init PROVE Oracle!Init
  OBVIOUS
<1>1. jl[Final] = FALSE
  BY DepthIsPositive DEF Init, Iterations
<1>2. (vPc # "waiting") = FALSE
  BY DEF Init
<1> QED
  BY <1>1, <1>2 DEF Init, Oracle!Init

\* The oracle does not move while its variables stay as they are.
LEMMA OracleRests ==
  ASSUME UNCHANGED <<depth, input, small, faults, verdict>>, jl'[Final] = jl[Final],
         (vPc = "waiting") <=> (vPc' = "waiting")
  PROVE  UNCHANGED Oracle!vars
<1>1. (vPc # "waiting")' = (vPc # "waiting")
  OBVIOUS
<1>2. Final' = Final
  BY DEF Final
<1> QED
  BY <1>1, <1>2 DEF Oracle!vars

LEMMA SameFaultSets == \A d : Oracle!FaultSets(d) = FaultSets(d)
<1> TAKE d
<1>1. \A f : Oracle!Edits(f) = Edits(f)
  BY Zenon DEF Oracle!Edits, Edits
<1>2. \A k : Oracle!Carried(k, d) = Carried(k, d)
  BY OracleWords DEF Oracle!Carried, Carried
<1>3. Oracle!PossibleFaults(d) = PossibleFaults(d)
  <2>1. \A k : {<<"altered", k, e>> : e \in UNION {Oracle!Edits(f) : f \in Oracle!Carried(k, d)}}
               = {<<"altered", k, e>> : e \in UNION {Edits(f) : f \in Carried(k, d)}}
    BY <1>1, <1>2
  <2>2. \A k : {<<"short", k, f>> : f \in Oracle!Carried(k, d)}
               = {<<"short", k, f>> : f \in Carried(k, d)}
    BY <1>2
  <2> QED
    BY <2>1, <2>2, OracleWords DEF Oracle!PossibleFaults, PossibleFaults
<1>4. MaxFaults \in {0, 1, 2}
  BY MaxFaultsAssumption
<1>5. CASE MaxFaults = 0
  BY <1>5 DEF Oracle!FaultSets, FaultSets
<1>6. CASE MaxFaults = 1
  BY <1>3, <1>6 DEF Oracle!FaultSets, FaultSets
<1>7. CASE MaxFaults = 2
  BY <1>3, <1>7 DEF Oracle!FaultSets, FaultSets
<1> QED
  BY <1>4, <1>5, <1>6, <1>7

LEMMA ProverMeasures ==
  TypeOK /\ VerifierInv /\ Prove => [Oracle!Next]_(Oracle!vars)
<1> SUFFICES ASSUME TypeOK, VerifierInv, Prove PROVE [Oracle!Next]_(Oracle!vars)
  OBVIOUS
<1>1. /\ Final' = Final /\ vPc = "waiting" /\ vPc' \in {"waiting", "header"}
      /\ UNCHANGED <<depth, input, verdict>> /\ Final \in Iterations
      /\ jl \in [Iterations -> BOOLEAN]
  BY ProverAlone, DepthIsPositive DEF Final, TypeOK
<1>2. CASE Deliver
  <2>1. faults' \in Oracle!FaultSets(depth) /\ UNCHANGED <<jl, small>> /\ vPc' = "header"
    BY <1>2, SameFaultSets DEF Deliver
  <2>2. (vPc' # "waiting") = TRUE
    BY <2>1
  <2>3. Oracle!Deliver
    BY <1>1, <2>1, <2>2 DEF Oracle!Deliver
  <2> QED
    BY <2>3 DEF Oracle!Next
<1>3. CASE ProveProject /\ pIter = Final
  <2>1. /\ UNCHANGED <<depth, input, small, faults, verdict, vPc>>
        /\ jl'[Final] \in Outcomes
    BY <1>1, <1>3 DEF ProveProject, vVars
  <2>2. Oracle!Measure
    BY <1>1, <2>1 DEF Oracle!Measure
  <2> QED
    BY <2>2 DEF Oracle!Next
<1>4. CASE ProveProject /\ pIter # Final
  <2>1. /\ UNCHANGED <<depth, input, small, faults, verdict, vPc>>
        /\ jl'[Final] = jl[Final]
    BY <1>1, <1>4 DEF ProveProject, vVars
  <2> QED
    BY <2>1, OracleRests
<1>5. CASE ProveAmortize /\ small' \in Outcomes
  <2>1. UNCHANGED <<depth, input, jl, faults, verdict, vPc>>
    BY <1>5 DEF ProveAmortize, vVars
  <2>2. Oracle!Measure
    BY <1>1, <1>5, <2>1 DEF Oracle!Measure
  <2> QED
    BY <2>2 DEF Oracle!Next
<1>6. CASE UNCHANGED <<depth, input, jl, small, faults, vVars>>
  BY <1>6, OracleRests DEF vVars
<1> QED
  BY <1>2, <1>3, <1>4, <1>5, <1>6
     DEF Prove, ProveCommit, ProveConstrain, ProveLinearize, ProveAmortize, ProveFold

\* The verifier's steps are silent or decide as the oracle does.
LEMMA VerifierDecides ==
  ASSUME TypeOK, AcceptInv, UNCHANGED <<depth, input, pVars, faults>>,
         vPc \in Phases \cup {"header"}, vPc' # "waiting",
         verdict' = verdict \/ verdict' = Oracle!Verdict
  PROVE  [Oracle!Next]_(Oracle!vars)
<1>1. /\ vPc # "waiting" /\ vPc # "returned" /\ verdict = "none"
      /\ UNCHANGED <<jl, small, Final>>
  BY PhaseNames DEF AcceptInv, pVars, Final
<1>2. CASE verdict' = verdict
  BY <1>1, <1>2, OracleRests
<1>3. CASE verdict' = Oracle!Verdict
  <2>1. (vPc # "waiting") = TRUE /\ (vPc # "waiting")' = TRUE
    BY <1>1
  <2>2. Oracle!Decide
    BY <1>1, <1>3, <2>1 DEF Oracle!Decide
  <2> QED
    BY <2>2 DEF Oracle!Next
<1> QED
  BY <1>2, <1>3

LEMMA HeaderDecides ==
  TypeOK /\ AcceptInv /\ VerifyHeader => [Oracle!Next]_(Oracle!vars)
<1> SUFFICES ASSUME TypeOK, AcceptInv, VerifyHeader PROVE [Oracle!Next]_(Oracle!vars)
  OBVIOUS
<1>1. /\ UNCHANGED <<depth, input, pVars, faults>> /\ vPc = "header" /\ vPc' # "waiting"
      /\ \/ WrongCount \in faults /\ verdict' = "BadIterationStage"
         \/ WrongCount \notin faults /\ WrongModulus \in faults /\ verdict' = "ModulusMismatch"
         \/ verdict' = verdict
  BY DEF VerifyHeader, Return
<1>2. depth \in Depths
  BY DEF TypeOK
<1>3. WrongCount \in faults => Oracle!Verdict = "BadIterationStage"
  BY <1>2, Decisions
<1>4. WrongCount \notin faults /\ WrongModulus \in faults => Oracle!Verdict = "ModulusMismatch"
  BY <1>2, Decisions
<1> QED
  BY <1>1, <1>3, <1>4, VerifierDecides

LEMMA ReplayDecides ==
  TypeOK /\ AcceptInv /\ Replay => [Oracle!Next]_(Oracle!vars)
<1> SUFFICES ASSUME TypeOK, AcceptInv, Replay PROVE [Oracle!Next]_(Oracle!vars)
  OBVIOUS
<1>1. /\ UNCHANGED <<depth, input, pVars, faults>> /\ vPc \in Phases /\ vPc' # "waiting"
      /\ vIter \in Iterations /\ vIter < Final /\ depth \in Depths
      /\ WrongCount \notin faults /\ WrongModulus \notin faults
  BY PhaseNames
     DEF TypeOK, AcceptInv, Replay, ReplayCommit, ReplayProject, ReplayConstrain,
         ReplayLinearize, ReplayAmortize, ReplayFold, Return
<1>2. \/ verdict' = verdict
      \/ verdict' = "panic" /\ ~RightLengths(vIter)
  <2>1. {"u1", "p", "bpp", "u2"} = Commitments
    BY DEF Commitments
  <2> QED
    BY <2>1 DEF Replay, ReplayCommit, ReplayProject, ReplayConstrain, ReplayLinearize,
                ReplayAmortize, ReplayFold, Return, RightLengths
<1>3. ~RightLengths(vIter) => Oracle!Verdict = "panic"
  BY <1>1, Decisions
<1> QED
  BY <1>1, <1>2, <1>3, VerifierDecides

\* What a verifier at the last iteration has behind it.
LEMMA FreeSoFar ==
  ASSUME TypeOK, ProverInv, VerifierInv, AcceptInv, OracleInv,
         vPc \in Phases, vIter = Final
  PROVE  /\ depth \in Depths /\ Free(4)
         /\ vPc # "commit" => Free(6)
         /\ vPc \in {"constrain", "linearize", "amortize"} => Free(7)
         /\ vPc \in {"linearize", "amortize"} => Free(9)
         /\ vPc = "amortize" => Free(10)
<1>1. /\ WrongCount \notin faults /\ WrongModulus \notin faults
      /\ \A j \in Iterations : j < Final => RightLengths(j)
      /\ ClearedVerify
  BY DEF AcceptInv, ClearedReplay
<1>2. depth \in Depths
  BY DEF TypeOK
<1>3. Free(4)
  BY <1>1, <1>2, Decisions
<1>4. ASSUME vPc # "commit" PROVE Free(6)
  <2>1. ClearedCommit
    BY <1>1, <1>4 DEF ClearedVerify
  <2> QED
    BY <1>2, <1>3, <2>1, Decisions DEF ClearedCommit
<1>5. ASSUME vPc \in {"constrain", "linearize", "amortize"} PROVE Free(7)
  <2>1. WithinBound
    <3>1. CASE vPc = "constrain"
      BY <3>1 DEF OracleInv
    <3>2. CASE vPc # "constrain"
      BY <1>1, <1>5, <3>2 DEF ClearedVerify, ClearedProject, ClearedConstrain, WithinBound
    <3> QED
      BY <3>1, <3>2
  <2> QED
    BY <1>2, <1>4, <1>5, <2>1, Decisions
<1>6. ASSUME vPc \in {"linearize", "amortize"} PROVE Free(9)
  <2>1. ClearedConstrain
    BY <1>1, <1>6 DEF ClearedVerify
  <2>2. depth = 1 => input.ct
    <3>1. pIter = Final
      BY AtFinal DEF ProverInv
    <3>2. depth = 1 => Final = 0
      BY DEF Final
    <3> QED
      BY <2>1, <3>1, <3>2 DEF AcceptInv, ClearedConstrain
  <2> QED
    BY <1>2, <1>5, <1>6, <2>1, <2>2, Decisions DEF ClearedConstrain
<1>7. ASSUME vPc = "amortize" PROVE Free(10)
  <2>1. ClearedLinearize
    BY <1>1, <1>7 DEF ClearedVerify
  <2>2. Intact({"bpp", "u2", "h"})
    BY <2>1, AbsorbedSoFar DEF ClearedLinearize, Bound, Intact, Changed
  <2> QED
    BY <1>2, <1>6, <1>7, <2>2, Decisions
<1> QED
  BY <1>2, <1>3, <1>4, <1>5, <1>6, <1>7

LEMMA VerifyDecides ==
  TypeOK /\ ProverInv /\ VerifierInv /\ AcceptInv /\ OracleInv /\ Verify
    => [Oracle!Next]_(Oracle!vars)
<1> SUFFICES ASSUME TypeOK, ProverInv, VerifierInv, AcceptInv, OracleInv, Verify
             PROVE  [Oracle!Next]_(Oracle!vars)
  OBVIOUS
<1>1. /\ UNCHANGED <<depth, input, pVars, faults>>
      /\ vPc \in Phases /\ vIter = Final /\ vPc' # "waiting"
  BY PhaseNames
     DEF Verify, VerifyCommit, VerifyProject, VerifyConstrain, VerifyLinearize, VerifyOpen,
         Conclude, Continue, Return
<1>2. /\ depth \in Depths /\ Free(4)
      /\ vPc # "commit" => Free(6)
      /\ vPc \in {"constrain", "linearize", "amortize"} => Free(7)
      /\ vPc \in {"linearize", "amortize"} => Free(9)
      /\ vPc = "amortize" => Free(10)
  BY <1>1, FreeSoFar
<1>3. SUFFICES verdict' = verdict \/ verdict' = Oracle!Verdict
  BY <1>1, VerifierDecides
<1>4. CASE VerifyCommit
  <2>1. \/ WrongShape /\ verdict' = "ProofShape"
        \/ /\ ~WrongShape /\ ~(Bound(Final, "commit") /\ Intact({"u1", "v", "g"}))
           /\ verdict' = "OuterCommitment u_1"
        \/ verdict' = verdict
    BY <1>4, CommitReads DEF Conclude, Continue, Return
  <2> QED
    BY <1>2, <2>1, Decisions
<1>5. CASE VerifyProject
  <2>1. /\ vPc = "project"
        /\ (~WithinBound /\ verdict' = "JlBound") \/ verdict' = verdict
    BY <1>5 DEF VerifyProject, WithinBound, Conclude, Continue, Return
  <2> QED
    BY <1>2, <2>1, Decisions
<1>6. CASE VerifyConstrain
  <2>1. vPc = "constrain"
    BY <1>6 DEF VerifyConstrain
  <2>2. Bound(Final, "project") /\ ~WrongShape
    <3>1. ClearedCommit
      BY <1>1, <2>1 DEF AcceptInv, ClearedVerify
    <3> QED
      BY <3>1, AbsorbedSoFar DEF ClearedCommit, Bound, Intact, Changed, WrongShape
  <2>3. pHolds.ct <=> (depth = 1 => input.ct)
    <3>1. pIter = Final /\ (depth = 1 <=> Final = 0)
      BY <1>1, AtFinal, DepthIsPositive DEF ProverInv, TypeOK, Final
    <3> QED
      BY <3>1 DEF AcceptInv, OracleInv
  <2>4. LET other == \/ Altered(Final, "p") \/ <<"altered", Final, "bpp0">> \in faults
                     \/ (depth = 1 /\ ~input.ct)
        IN \/ Short(Final, "bpp") /\ verdict' = "ProofShape"
           \/ ~Short(Final, "bpp") /\ other /\ verdict' = "ConstTermMismatch"
           \/ verdict' = verdict
    BY <1>6, <2>2, <2>3, ConstrainReads DEF Conclude, Continue, Return
  <2> QED
    BY <1>2, <2>1, <2>4, Decisions
<1>7. CASE VerifyLinearize
  <2>1. vPc = "linearize"
    BY <1>7 DEF VerifyLinearize
  <2>2. ClearedCommit /\ ClearedConstrain
    BY <1>1, <2>1 DEF AcceptInv, ClearedVerify
  <2>3. ~(Bound(Final, "linearize") /\ Intact({"u2", "h"})) <=> ~Intact({"bpp", "u2", "h"})
    BY <2>2, AbsorbedSoFar
       DEF ClearedCommit, ClearedConstrain, Bound, Intact, Changed, WrongShape
  <2>4. \/ ~Intact({"bpp", "u2", "h"}) /\ verdict' = "OuterCommitment u_2"
        \/ verdict' = verdict
    BY <1>7, <2>3, LinearizeReads DEF Conclude, Continue, Return
  <2> QED
    BY <1>2, <2>1, <2>4, Decisions
<1>8. CASE VerifyOpen
  <2>1. /\ vPc = "amortize"
        /\ verdict' = IF Altered(Final, "z") THEN "InnerCommitmentOpening"
                      ELSE IF ~input.full THEN "AggregatedRelation"
                      ELSE IF ~small THEN "NormBound" ELSE "Ok"
    BY <1>8, OpenReads
  <2> QED
    BY <1>2, <2>1, Decisions
<1> QED
  BY <1>4, <1>5, <1>6, <1>7, <1>8 DEF Verify

LEMMA OracleStep ==
  TypeOK /\ ProverInv /\ VerifierInv /\ AcceptInv /\ OracleInv /\ [Next]_vars
    => [Oracle!Next]_(Oracle!vars)
<1>1. UNCHANGED vars => UNCHANGED Oracle!vars
  BY OracleRests DEF vars, pVars, vVars
<1> QED
  BY <1>1, ProverMeasures, HeaderDecides, ReplayDecides, VerifyDecides DEF Next

\* The two programs together do nothing the oracle does not: whatever the depth,
\* the faults and the witness, the verdict of verify_aggregate is the oracle's,
\* reached once, for the oracle's reason.
THEOREM RefinesOracle == Spec => Oracle!Spec
<1>1. Init => AcceptInv /\ OracleInv
  BY AcceptInit, OracleInvInit
<1> QED
  BY <1>1, AcceptStep, OracleInvStep, OracleInits, OracleStep, Binding, PTL
     DEF Spec, Oracle!Spec
=============================================================================
