-------------------------- MODULE ChallengeSampling --------------------------
(***************************************************************************)
(* sample_challenge and check_norms of crates/labrador/src/challenge.rs: W *)
(* coefficients of a ring element of degree D are set to -2, -1, 1 or 2 at *)
(* W different places, place and value drawn by derive_below.              *)
(*                                                                         *)
(* A behaviour is one call: of sample_challenge, or of one of the samplers *)
(* of the transcript by another caller, with any bound.                    *)
(***************************************************************************)
EXTENDS RejectionSampling, FiniteSetsExt, Modulus

CONSTANTS
  Q,             \* the ring's modulus
  D,             \* 64 in the code
  W,             \* 43 in the code
  MaxAttempts,   \* 100 in the code
  Lengths        \* the array lengths other callers ask for

\* With D < W the code would ask for a place below zero; with Q < 5 two of
\* the four values would be one residue.  The bounds of both draws are words.
ASSUME ChallengeAssumption ==
  /\ IsModulus(Q) /\ Q >= 5
  /\ W \in Nat \ {0} /\ D \in Nat /\ W <= D /\ MaxAttempts \in Nat
  /\ D <= Top /\ 4 <= Top
  /\ Lengths \subseteq Nat \ {0}

WorstCaseL2Sq == 4 * W    \* WORST_CASE_L2SQ

Coordinates == 0 .. D - 1

VARIABLES
  step,       \* what is drawn: "position", "value"; "judge", "accepted",
              \* "panic"; "elsewhere" in a call that is not sample_challenge
  c,          \* the ring element, residues
  taken,      \* coordinates used
  k,          \* coefficients placed
  chosen,     \* the coordinate placed last
  counter     \* attempts judged

element == <<c, taken, k>>
samplingVars == <<step, element, chosen, counter, draw>>

Blank == [j \in Coordinates |-> 0]

SamplingInit ==
  /\ \/ step = "position" /\ draw = Call("below", D, 1)
     \/ step = "elsewhere" /\ \E b \in 1 .. Top : draw = Call("below", b, 1)
     \/ step = "elsewhere" /\ \E b \in 2 .. Top, n \in Lengths : draw = Call("array", b, n)
  /\ c = Blank /\ taken = {} /\ k = 0
  /\ chosen = 0
  /\ counter = 0

\* The number drawn, once a call has returned it.
Drawn == draw.verdict = "done"
Result == draw.out[1]

Place_Taken(pick) == pick

\* The coordinate that has `pick' free ones before it.
Place(pick) ==
  CHOOSE j \in Coordinates \ taken : Cardinality({i \in Coordinates \ taken : i < j}) = pick

PickPosition ==
  /\ step = "position" /\ Drawn
  /\ chosen' = Place(Result)
  /\ taken' = taken \cup {chosen'}
  /\ step' = "value"
  /\ draw' = Call("below", 4, 1)
  /\ UNCHANGED <<c, k, counter>>

Signed(v) == IF v < 2 THEN v - 2 ELSE v - 1

Store(v) == [c EXCEPT ![chosen] = from_i64(Q, Signed(v))]

PickValue ==
  /\ step = "value" /\ Drawn
  /\ c' = Store(Result)
  /\ k' = k + 1
  /\ IF k' = W THEN step' = "judge" /\ draw' = draw
               ELSE step' = "position" /\ draw' = Call("below", D - k', 1)
  /\ UNCHANGED <<taken, chosen, counter>>

Support == {j \in Coordinates : centered(Q, c[j]) # 0}
L2Sq == MapThenSumSet(LAMBDA j : centered(Q, c[j]) * centered(Q, c[j]), Coordinates)

check_norms ==
  /\ \A j \in Coordinates : Abs(centered(Q, c[j])) <= 2
  /\ Cardinality(Support) = W
  /\ L2Sq <= WorstCaseL2Sq

\* The end of an attempt: return it, give up, or start from zero.
Judge ==
  /\ step = "judge"
  /\ counter' = counter + 1
  /\ step' = IF check_norms THEN "accepted"
             ELSE IF counter' > MaxAttempts THEN "panic" ELSE "position"
  /\ IF step' = "position"
     THEN c' = Blank /\ taken' = {} /\ k' = 0 /\ draw' = Call("below", D, 1)
     ELSE UNCHANGED <<element, draw>>
  /\ UNCHANGED chosen

SamplingNext ==
  \/ \E w \in Words : Draw(w) /\ UNCHANGED <<step, element, chosen, counter>>
  \/ PickPosition
  \/ PickValue
  \/ Judge

SamplingSpec == SamplingInit /\ [][SamplingNext]_samplingVars

(***************************************************************************)
(* Properties.                                                             *)
(***************************************************************************)
\* Every place is drawn anew and gets a value that is not zero, so that the
\* weight is exactly W at the end; nothing is ever written elsewhere.
WeightIsPlaces ==
  LET open == IF step = "value" THEN {chosen} ELSE {}
  IN  /\ Support = taken \ open
      /\ open \subseteq taken
      /\ Cardinality(taken) = k + Cardinality(open)

\* The samplers give up no earlier than their limits say, and sample_challenge
\* never: its first attempt is always accepted, so that prover and verifier
\* never redraw and the panic after 100 attempts cannot happen.
GivesUpLate ==
  /\ PanicsLate
  /\ step # "panic"
  /\ counter > 0 => step = "accepted" /\ counter = 1
=============================================================================
