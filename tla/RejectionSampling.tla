-------------------------- MODULE RejectionSampling --------------------------
(***************************************************************************)
(* derive_below and derive_field_array of                                  *)
(* crates/labrador/src/transcript.rs: uniform numbers below a bound out of *)
(* uniform words, by rejecting the words from the last multiple of the     *)
(* bound on.  derive_below squeezes anew for every try and counts the      *)
(* tries; derive_field_array reads one long squeeze and counts the words   *)
(* it reads.  A word the hash yields is any word.                          *)
(***************************************************************************)
EXTENDS Integers, Sequences, FiniteSets

CONSTANTS
  Top,        \* u64::MAX
  MaxTries,   \* 1000 in derive_below
  Guard       \* 1_000_000 in derive_field_array

ASSUME SamplingAssumption == Top \in Nat \ {0} /\ MaxTries \in Nat /\ Guard \in Nat

Words == 0 .. Top

(***************************************************************************)
(* The call that is going on or was the last: which function, bound or q,  *)
(* how many numbers are asked for and found, counter or guard, and         *)
(* "drawing", "done" or "panic".  The words thrown away are a history.     *)
(***************************************************************************)
VARIABLE draw

\* What a call starts as: below a bound of 1 there is nothing to draw.
Call(function, bound, n) ==
  [function |-> function, bound |-> bound, n |-> n,
   out |-> IF function = "below" /\ bound = 1 THEN <<0>> ELSE <<>>,
   counter |-> 0, rejected |-> 0,
   verdict |-> IF function = "below" /\ bound = 1 THEN "done" ELSE "drawing"]

Cap_NoRejection(b) == Top + 1

\* The largest multiple of b that is a word.
Cap(b) == Top - (Top % b)

Number(w) == w % draw.bound

Limit == IF draw.function = "below" THEN MaxTries ELSE Guard + 4 * draw.n

\* derive_below returns at once; derive_field_array still looks at its guard.
Accept(w) ==
  /\ w < Cap(draw.bound)
  /\ draw' =
       [draw EXCEPT
          !.out = Append(@, Number(w)),
          !.counter = @ + 1,
          !.verdict = IF draw.function = "array" /\ draw.counter + 1 > Limit THEN "panic"
                      ELSE IF Len(draw.out) + 1 = draw.n THEN "done" ELSE "drawing"]

Reject_Half(w) ==
  /\ w >= Cap(draw.bound)
  /\ draw' = [draw EXCEPT !.counter = @ + 1, !.rejected = @ + 1,
                          !.verdict = IF 2 * draw.counter + 2 > Limit THEN "panic" ELSE "drawing"]

Reject(w) ==
  /\ w >= Cap(draw.bound)
  /\ draw' = [draw EXCEPT !.counter = @ + 1, !.rejected = @ + 1,
                          !.verdict = IF draw.counter + 1 > Limit THEN "panic" ELSE "drawing"]

Draw(w) ==
  /\ draw.verdict = "drawing"
  /\ Accept(w) \/ Reject(w)

(***************************************************************************)
(* Properties.                                                             *)
(***************************************************************************)
InRange ==
  /\ draw.out \in Seq(0 .. draw.bound - 1) /\ Len(draw.out) <= draw.n
  /\ draw.verdict = "done" => Len(draw.out) = draw.n

\* The numbers handed to the caller are below the bound and as many as were
\* asked for, and none is favoured: each one below the bound comes from equally
\* many words, and at least half of all words are accepted.
Unbiased ==
  /\ InRange
  /\ draw.verdict = "drawing" =>
    LET from(r) == {w \in Words : w < Cap(draw.bound) /\ Number(w) = r}
        share == Cardinality(from(0))
    IN  /\ \A r \in 0 .. draw.bound - 1 : Cardinality(from(r)) = share
        /\ 2 * share * draw.bound >= Top

\* A sampler gives up only when it has thrown away more words than its limit
\* allows for: derive_below more than MaxTries, derive_field_array more than
\* Guard and three for every number asked for, although it counts accepted
\* words too.
PanicsLate ==
  draw.verdict = "panic" =>
    draw.rejected > IF draw.function = "below" THEN MaxTries ELSE Guard + 3 * draw.n
=============================================================================
