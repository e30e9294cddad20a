------------------------------- MODULE Shapes -------------------------------
(***************************************************************************)
(* The shapes of a recursion.  crates/labrador/src/params.rs plans them     *)
(* from the number of signatures alone: for_n builds a chain of iterations  *)
(* with the length and rank it expects each statement to have, and chooses  *)
(* chunk counts, Ajtai ranks and folding parameters by them.  The           *)
(* statements themselves get their shape elsewhere: the first from the      *)
(* Falcon relation's WitnessLayout, the others from the fold.  Here both    *)
(* run side by side.                                                        *)
(*                                                                         *)
(* What the estimator finds through norms and proof sizes in floating point *)
(* (t1, t2, kappa, nu, mu and the best depth) is any value of a small set.  *)
(***************************************************************************)
EXTENDS FoldLayout, Sequences

CONSTANTS
  Counts,     \* numbers of signatures
  MAX_DEPTH,  \* the largest depth tried, 15 in the code
  T1s, T2s, Kappas, Nus, Mus    \* what the estimator may settle on

ASSUME ShapesAssumption ==
  /\ Counts \subseteq Nat \ {0} /\ MAX_DEPTH \in Nat \ {0}
  /\ T1s \subseteq 2..14 /\ T2s \subseteq Nat \ {0} /\ Kappas \subseteq Nat \ {0}
  /\ Nus \subseteq 1..49 /\ Mus \subseteq 1..49

Falcon == INSTANCE WitnessLayout WITH C <- 8

VARIABLES
  num_sigs,
  depth,       \* Params.depth
  iterations,  \* Params.iterations as far as built: what is assumed
  statements   \* <<n, r>> of each iteration's statement: what there is

shapesVars == <<num_sigs, depth, iterations, statements>>

CeilDiv(a, b) == (a + b - 1) \div b

\* The square root of n, rounded down and up.
FloorSqrt(n) == CHOOSE k \in 0..n : k * k <= n /\ n < (k + 1) * (k + 1)
CeilSqrt(n) == CHOOSE k \in 0..n : n <= k * k /\ (k - 1) * (k - 1) < n

initial_r_Floor(n) == 6 * FloorSqrt(n) + 1
initial_r(n) == 6 * CeilSqrt(n) + 1

\* Iteration::new and init_normal: the shape is given, z is cut in two unless
\* this is the last iteration, and the rest is chosen.
IterationsOf(stage, n, r, nu, mu) ==
  {[stage |-> stage, n |-> n, r |-> r, t |-> IF stage = "SecLast" THEN 1 ELSE 2,
    t1 |-> t1, t2 |-> t2, kappa |-> kappa, prev_nu |-> nu, prev_mu |-> mu] :
     t1 \in T1s, t2 \in T2s, kappa \in Kappas}

\* The length of e, as the estimator counts it.
m(it) == it.t1 * it.r * it.kappa + ((it.t1 + it.t2) * (it.r * it.r + it.r)) \div 2

Larger(a, b) == IF a < b THEN b ELSE a

next_it(it, stage, nu, mu) ==
  IterationsOf(stage, Larger(CeilDiv(it.n, nu), CeilDiv(m(it), mu)), it.t * nu + mu, nu, mu)

\* Iterations between the first and the last of a chain built for a depth.
mid_strategies_OneShort(d) == IF d <= 3 THEN 0 ELSE d - 3
mid_strategies(d) == IF d <= 2 THEN 0 ELSE d - 2

\* The search keeps the first depth of least size.  Depths 1 and 2 build the
\* same chain, so 2 is never kept.
DepthsKept == 1..MAX_DEPTH \ {2}

ShapesInit ==
  /\ num_sigs \in Counts
  /\ depth \in DepthsKept
  /\ iterations \in {<<it>> : it \in IterationsOf("First", 8 * num_sigs,
                                                  initial_r(num_sigs), 1, 1)}
  /\ statements = <<>>

Planned == iterations[Len(iterations)].stage = "SecLast"

\* One turn of recursion_to_depth_no_last_opt: a middle iteration while there
\* are any, then the last.
Plan ==
  /\ ~Planned
  /\ LET stage == IF Len(iterations) <= mid_strategies(depth) THEN "Mid" ELSE "SecLast"
     IN \E nu \in Nus, mu \in Mus :
          \E it \in next_it(iterations[Len(iterations)], stage, nu, mu) :
            iterations' = Append(iterations, it)
  /\ UNCHANGED <<num_sigs, depth, statements>>

\* The statement of the Falcon relation.
Relate ==
  /\ Planned /\ statements = <<>>
  /\ \E L \in Falcon!LayoutsOf(num_sigs) :
       statements' = <<[n |-> Falcon!n_s(L), r |-> Falcon!r(L)]>>
  /\ UNCHANGED <<num_sigs, depth, iterations>>

\* The fold of iteration k (from 1) into the statement of the next: the actual
\* shape, this iteration's chunk counts, the next one's folding parameters.
Folded(k) ==
  LET it == iterations[k]  next == iterations[k + 1]
  IN [n |-> statements[k].n, r |-> statements[k].r, t1 |-> it.t1, t2 |-> it.t2,
      kappa |-> it.kappa, nu |-> next.prev_nu, mu |-> next.prev_mu]

\* What the drivers and fold_statement_with_replay insist on.
Foldable(k) ==
  /\ k + 1 \in DOMAIN iterations
  /\ iterations[k].stage \in {"First", "Mid"}
  /\ iterations[k].t = 2

\* A fold that is not Foldable is a panic: it is not taken.
Fold ==
  LET k == Len(statements)
  IN /\ k \in 1..(depth - 1)
     /\ Foldable(k)
     /\ statements' = Append(statements, [n |-> NPrime(Folded(k)), r |-> RPrime(Folded(k))])
     /\ UNCHANGED <<num_sigs, depth, iterations>>

ShapesNext == Plan \/ Relate \/ Fold

ShapesSpec == ShapesInit /\ [][ShapesNext]_shapesVars

-----------------------------------------------------------------------------
\* Every fold the drivers ask for is defined, and a recursion that folds at all
\* ends on the iteration planned as the last (proof.rs:88: "final_iter is the
\* depth-th iteration (Stage::SecLast)"): the asserts of fold.rs:424 and the
\* indices k + 1 of aggregate_v2.rs cannot fail, whatever depth the search keeps.
FoldIsDefined ==
  Planned /\ statements # <<>> =>
    /\ Len(statements) < depth => Foldable(Len(statements))
    /\ depth > 1 /\ Len(statements) = depth => iterations[depth].stage = "SecLast"

\* No statement is larger than the plan took it to be, in length, rank or length
\* of e, and after the first the ranks agree: the Ajtai ranks, chosen by norms
\* that grow with these, are never too small for the statement they meet
\* although relation.rs and params.rs compute the shape each in its own way.
NeverLargerThanAssumed ==
  \A k \in DOMAIN statements :
    LET it == iterations[k]  s == statements[k]
    IN /\ s.n <= it.n /\ s.r <= it.r
       /\ ELen([n |-> s.n, r |-> s.r, t1 |-> it.t1, t2 |-> it.t2, kappa |-> it.kappa]) <= m(it)
       /\ k > 1 => s.r = it.r
=============================================================================
