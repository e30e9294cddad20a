--------------------------- MODULE WitnessLayout ---------------------------
(***************************************************************************)
(* The padded witness for N aggregated signatures: WitnessLayout in        *)
(* crates/falcon-relation/src/relation.rs.  Signatures are arranged in a   *)
(* grid of rho columns; signature i owns the C positions of Window(i) in   *)
(* the y and e vectors of its row, the y' and e' vectors of its column and *)
(* the one v vector.  Signatures, rows and columns count from 1, vectors   *)
(* and positions from 0.                                                   *)
(***************************************************************************)
EXTENDS Integers

CONSTANT
  C     \* slots of a Falcon element, the rank of R over S: 8 in embed.rs

\* The form constraints on e name the first four slots.
ASSUME SlotsAssumption == C \in Nat /\ C >= 4

Slots == 0..(C - 1)

\* k is the square root of the integer n rounded to the nearest:
\* k - 1/2 < sqrt(n) < k + 1/2.
IsRho(n, k) == k * k - k < n /\ n <= k * k + k

LayoutsOf(n) ==
  {[n_sigs |-> n, rho |-> k, num_y |-> (n + k - 1) \div k, num_yp |-> k] :
     k \in {m \in 1..n : IsRho(n, m)}}

Sigs(L) == 1..L.n_sigs
Rows(L) == 1..L.num_y
Columns(L) == 1..L.num_yp

r_NoV(L) == 3 * L.num_y + 3 * L.num_yp
r(L) == 3 * L.num_y + 3 * L.num_yp + 1
n_s(L) == C * L.n_sigs
Vectors(L) == 0..(r(L) - 1)
Positions(L) == 0..(n_s(L) - 1)

\* Row and column of signature i.
index(L, i) == (i + L.rho - 1) \div L.rho
index_prime(L, i) == ((i - 1) % L.rho) + 1

\* The vectors y_{row, j}, y'_{col, j} for j in {1, 2}, e_row, e'_col and v.
y_idx(L, i_y, j) == (j - 1) * L.num_y + (i_y - 1)
yp_idx_OneStride(L, i_yp, j) == 2 * L.num_y + (j - 1) * L.num_y + (i_yp - 1)
yp_idx(L, i_yp, j) == 2 * L.num_y + (j - 1) * L.num_yp + (i_yp - 1)
e_idx(L, i_y) == 2 * L.num_y + 2 * L.num_yp + (i_y - 1)
ep_idx(L, i_yp) == 3 * L.num_y + 2 * L.num_yp + (i_yp - 1)
v_idx(L) == 3 * L.num_y + 3 * L.num_yp

\* The position of slot k of signature i in a vector that holds it.
At(i, k) == C * (i - 1) + k
Window(i) == {At(i, k) : k \in Slots}

\* active_lo and active_hi of the form constraints on y and e.
ActiveInRow_OneMore(L, i_y) ==
  {k \in Sigs(L) : (i_y - 1) * L.rho + 1 <= k /\ k <= i_y * L.rho + 1}
ActiveInRow(L, i_y) ==
  {k \in Sigs(L) : (i_y - 1) * L.rho + 1 <= k /\ k <= i_y * L.rho}

\* The condition of those on y' and e'.
ActiveInColumn(L, i_yp) == {k \in Sigs(L) : index_prime(L, k) = i_yp}
=============================================================================
