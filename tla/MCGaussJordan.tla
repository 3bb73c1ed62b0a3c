---------------------------- MODULE MCGaussJordan ----------------------------
(* Instances of GaussJordan for TLC. *)
EXTENDS GaussJordan

\* Every 3x3 matrix of -1, 0 and 1, up to the sign of its rows and columns
\* (which takes the algorithm through the same pivots): a first row and column
\* without -1.
Small == {m \in [0..2 -> [0..2 -> -1..1]] : \A k \in 0..2 : m[0][k] >= 0 /\ m[k][0] >= 0}

\* The 4x4 matrices with one element in every row and column, 1, 2, 3 and 4 in
\* some order.
Bijections == {f \in [0..3 -> 0..3] : \A j, k \in 0..3 : f[j] = f[k] => j = k}
Exchanges4 == {[j \in 0..3 |-> [k \in 0..3 |-> IF f[j] = k THEN w[j] + 1 ELSE 0]] :
                 f \in Bijections, w \in Bijections}

\* Covariance matrices: 3 and 4 on the diagonal, symmetric elements of size at
\* most 1 off it.
Covariances ==
  {[j \in 0..2 |-> [k \in 0..2 |->
      IF j = k THEN IF j \in big THEN 4 ELSE 3
      ELSE IF {j, k} \in minus THEN -1 ELSE IF {j, k} \in plus THEN 1 ELSE 0]] :
    big \in SUBSET (0..2),
    minus, plus \in SUBSET {{0, 1}, {0, 2}, {1, 2}}}

SmallAndCovariances == Small \cup Covariances
=============================================================================
