----------------------------- MODULE GaussJordan -----------------------------
(***************************************************************************)
(* Matrix inversion in place by Gauss-Jordan elimination with full         *)
(* pivoting, as cMatrix::inv() and matrixInv() do it: in each turn the     *)
(* largest element of the rows and columns not yet reduced is moved to the *)
(* diagonal and its column is reduced; at the end the columns are put in   *)
(* the order the row exchanges call for.  Rows and columns count from 0.   *)
(*                                                                         *)
(* Numbers are exact fractions.  The second matrix b of the code, which    *)
(* receives the same row operations and is thrown away, is left out.       *)
(***************************************************************************)
EXTENDS Fractions, FiniteSets

CONSTANTS N,       \* rows and columns
          Inputs   \* matrices of integers

Place == 0..(N - 1)

\* A 1x1 matrix has no indxr[1] to compare with; its one column is exchanged
\* with itself whatever is read there, so the model starts at 2x2.
ASSUME SizeAssumption == /\ N \in Nat \ {0, 1}
                         /\ Inputs \subseteq [Place -> [Place -> Int]]

VARIABLES a0,     \* the matrix given (history)
          a,      \* the matrix being inverted
          ipiv,   \* how often a column was the pivot column
          indxr, indxc,  \* row and column of the pivot of each turn
          i,      \* turns of the main loop done
          l,      \* columns the last loop has yet to look at
          pc      \* "reduce", "unscramble", "done" or "singular"

inverseVars == <<a0, a, ipiv, indxr, indxc, i, l, pc>>

Fractional(m) == [j \in Place |-> [k \in Place |-> Whole(m[j][k])]]

\* A local array before anything is stored in it.
Unset == N

InverseInit == /\ a0 \in Inputs
               /\ a = Fractional(a0)
               /\ ipiv = [j \in Place |-> 0]
               /\ indxr = [j \in Place |-> Unset] /\ indxc = [j \in Place |-> Unset]
               /\ i = 0 /\ l = N /\ pc = "reduce"

-----------------------------------------------------------------------------
(* The main loop *)

\* Two faulty searches: one lets a column be the pivot column again, the other
\* pivots on the diagonal without looking further.
BadCandidate(j, k) == ipiv[j] # 1
BadCandidate2(j, k) == j = i /\ k = i

Candidate(j, k) == ipiv[j] # 1 /\ ipiv[k] = 0

\* A faulty search: the comparison the other way round.
BadIsPivot(row, col) ==
  /\ Candidate(row, col)
  /\ \A j, k \in Place : Candidate(j, k) =>
       /\ AtLeast(a[j][k], a[row][col])
       /\ AtLeast(a[row][col], a[j][k]) => j < row \/ (j = row /\ k <= col)

\* The search keeps the last of several elements of the same size.
IsPivot(row, col) ==
  /\ Candidate(row, col)
  /\ \A j, k \in Place : Candidate(j, k) =>
       /\ AtLeast(a[row][col], a[j][k])
       /\ AtLeast(a[j][k], a[row][col]) => j < row \/ (j = row /\ k <= col)

SwapRows(m, j, k) == [m EXCEPT ![j] = m[k], ![k] = m[j]]
SwapColumns(m, j, k) == [r \in Place |-> [m[r] EXCEPT ![j] = m[r][k], ![k] = m[r][j]]]

\* The pivot row is divided by the pivot, and a multiple of it is subtracted
\* from every other row; the pivot column becomes a column of the inverse.
\* (BadEliminate leaves the pivot column as it was.)
BadEliminate(m, p) ==
  LET pivrow == [k \in Place |-> Over(m[p][k], m[p][p])]
  IN  [r \in Place |->
         IF r = p THEN pivrow
         ELSE [k \in Place |-> Minus(m[r][k], Times(pivrow[k], m[r][p]))]]

Eliminate(m, p) ==
  LET pivrow == [k \in Place |-> Over(IF k = p THEN Whole(1) ELSE m[p][k], m[p][p])]
  IN  [r \in Place |->
         IF r = p THEN pivrow
         ELSE [k \in Place |-> Minus(IF k = p THEN Whole(0) ELSE m[r][k],
                                     Times(pivrow[k], m[r][p]))]]

Reduce ==
  /\ pc = "reduce" /\ i < N
  /\ \E row, col \in Place :
       LET swapped == SwapRows(a, row, col) IN
       /\ IsPivot(row, col)
       /\ ipiv' = [ipiv EXCEPT ![col] = @ + 1]
       /\ indxr' = [indxr EXCEPT ![i] = row]
       /\ indxc' = [indxc EXCEPT ![i] = col]
       /\ IF swapped[col][col] = Whole(0)
          THEN /\ a' = swapped /\ pc' = "singular"
               /\ UNCHANGED <<a0, i, l>>
          ELSE /\ a' = Eliminate(swapped, col) /\ i' = i + 1
               /\ UNCHANGED <<a0, l, pc>>

\* "Singular Matrix-1": the search meets a column that was the pivot twice.
SingularOne == \E j, k \in Place : ipiv[j] # 1 /\ ipiv[k] > 1

-----------------------------------------------------------------------------
(* The last loop *)

Reduced == /\ pc = "reduce" /\ i = N
           /\ pc' = "unscramble"
           /\ UNCHANGED <<a0, a, ipiv, indxr, indxc, i, l>>

\* A faulty last loop, upwards: it undoes the exchanges in the wrong order.
BadUnscramble ==
  /\ pc = "unscramble" /\ l > 0
  /\ l' = l - 1
  /\ a' = IF indxr[1] # indxc[N - l] THEN SwapColumns(a, indxr[N - l], indxc[N - l]) ELSE a
  /\ UNCHANGED <<a0, ipiv, indxr, indxc, i, pc>>

\* Every column is compared with indxr[1], the row of the second pivot,
\* whatever l is.
Unscramble ==
  /\ pc = "unscramble" /\ l > 0
  /\ l' = l - 1
  /\ a' = IF indxr[1] # indxc[l - 1] THEN SwapColumns(a, indxr[l - 1], indxc[l - 1]) ELSE a
  /\ UNCHANGED <<a0, ipiv, indxr, indxc, i, pc>>

Return == /\ pc = "unscramble" /\ l = 0
          /\ pc' = "done"
          /\ UNCHANGED <<a0, a, ipiv, indxr, indxc, i, l>>

InverseNext == Reduce \/ Reduced \/ Unscramble \/ Return

InverseSpec == InverseInit /\ [][InverseNext]_inverseVars

-----------------------------------------------------------------------------
(* Properties *)

\* The bookkeeping of the pivots: every turn reduces a column of its own, in
\* a row not reduced before, so that "Singular Matrix-1" is never reported.
PivotsDistinct ==
  /\ \A j, k \in 0..(i - 1) : indxc[j] = indxc[k] => j = k
  /\ ~SingularOne

RowTimesColumn(m, j, k) ==
  LET sum[n \in 0..N] == IF n = 0 THEN Whole(0)
                         ELSE Plus(sum[n - 1], Times(a[j][n - 1], Whole(m[n - 1][k])))
  IN  sum[N]

\* "a = inv(a)" (cMatrix.cpp:530): the result times the matrix given is the
\* identity.
Inverts == pc = "done" =>
  \A j, k \in Place : RowTimesColumn(a0, j, k) = Whole(IF j = k THEN 1 ELSE 0)

\* A matrix is rejected exactly when it has no inverse.  (A singular matrix of
\* at most 3 rows over -1..1 takes some vector over -2..2 to zero; the
\* covariances are not singular.)
Dependent == \E x \in [Place -> -2..2] :
  /\ \E k \in Place : x[k] # 0
  /\ \A j \in Place :
       LET sum[n \in 0..N] == IF n = 0 THEN 0 ELSE sum[n - 1] + a0[j][n - 1] * x[n - 1]
       IN  sum[N] = 0
RejectsSingular == /\ pc = "singular" => Dependent
                   /\ pc = "done" => ~Dependent

\* The largest element of a positive definite matrix, and of what is left of
\* one, is on the diagonal: no rows are exchanged, so the comparison with
\* indxr[1] does no harm to the covariances the filters invert (kalman.c:69,
\* cDKF.cpp:26).  A symmetric matrix whose diagonal dominates is one.
Dominant(m) ==
  LET rest(j) == LET sum[n \in 0..N] == IF n = 0 THEN 0
                                        ELSE sum[n - 1] + Size(m[j][n - 1])
                 IN  sum[N] - Size(m[j][j])
  IN  \A j \in Place : m[j][j] > rest(j) /\ \A k \in Place : m[j][k] = m[k][j]

NoExchange == Dominant(a0) => \A j \in Place : j < i => indxr[j] = indxc[j]

\* Type invariant.
InverseTypeOK == /\ a0 \in Inputs
                 /\ ipiv \in [Place -> Nat]
                 /\ indxr \in [Place -> Place \cup {Unset}]
                 /\ indxc \in [Place -> Place \cup {Unset}]
                 /\ i \in 0..N /\ l \in 0..N
                 /\ pc \in {"reduce", "unscramble", "done", "singular"}
                 /\ \A j \in Place : j < i => indxr[j] \in Place /\ indxc[j] \in Place
=============================================================================
