--------------------------- MODULE GaussJordanProofs ---------------------------
(***************************************************************************)
(* Gauss-Jordan elimination on matrices of integers of every size.         *)
(*                                                                         *)
(* The pivots.  PivotsDistinct is not inductive: it says nothing of ipiv,  *)
(* by which the search decides.  PivotInv adds that ipiv is 1 at every     *)
(* pivot column and nowhere more than 1; a column the search accepts has   *)
(* ipiv 0, so it is none of the earlier ones.                              *)
(*                                                                         *)
(* The result.  Inverts says nothing before the end.  ElimInv says what    *)
(* the matrix is after each turn: its elements are those of a matrix B of  *)
(* integers over one number D.  H lists the matrix given and what the      *)
(* exchanges of rows made of it; the columns already reduced, with D times *)
(* the identity in place of the others, are row operations that turn the   *)
(* last of H into the columns not yet reduced, with D times the identity   *)
(* in place of the others.  These take the same vectors to zero as the     *)
(* matrix given.  The last loop goes back through H to the matrix given,   *)
(* each exchange undone as one of columns, unless the comparison with      *)
(* indxr[1] leaves one out: NoneMissed is the condition that it does not.  *)
(*                                                                         *)
(* No pivot is left.  A column that only pivot rows reach makes a vector   *)
(* that is not zero vanish, so the matrix given is singular; a matrix that *)
(* is reduced to the end has row operations that make it D times the       *)
(* identity, so it is not.                                                 *)
(*                                                                         *)
(* Covariances.  Where the diagonal of the matrix given dominates, or the  *)
(* matrix is positive definite, what is left of it is so too, and its      *)
(* largest element is on the diagonal: no turn exchanges rows.             *)
(*                                                                         *)
(* The fractions are proved to be fractions first.  Induction is by the    *)
(* smallest counterexample.                                                *)
(***************************************************************************)
EXTENDS GaussJordan, FiniteSetTheorems, WellFoundedInduction, TLAPS

PivotInv ==
  /\ ipiv \in [Place -> 0..1]
  /\ \A j \in 0..(i - 1) : ipiv[indxc[j]] = 1
  /\ \A j, k \in 0..(i - 1) : indxc[j] = indxc[k] => j = k

IInv == InverseTypeOK /\ PivotInv

\* A turn of the main loop that pivots on column col of row row.
LEMMA ReducePreserves ==
  ASSUME IInv, pc = "reduce", i < N, NEW row \in Place, NEW col \in Place,
         IsPivot(row, col),
         ipiv' = [ipiv EXCEPT ![col] = @ + 1],
         indxr' = [indxr EXCEPT ![i] = row],
         indxc' = [indxc EXCEPT ![i] = col],
         i' = i \/ i' = i + 1,
         pc' \in {"reduce", "singular"}, UNCHANGED <<a0, l>>
  PROVE  IInv'
<1>1. N \in Nat /\ i \in 0..N /\ i \in Place /\ i' \in 0..N
  <2>1. N \in Nat /\ i \in 0..N
    BY SizeAssumption DEF IInv, InverseTypeOK
  <2>2. i \in Nat /\ i <= N - 1
    BY <2>1
  <2>3. i \in Place
    BY <2>1, <2>2 DEF Place
  <2>4. i' \in 0..N
    <3>1. CASE i' = i
      BY <2>1, <3>1
    <3>2. CASE i' = i + 1
      BY <2>1, <2>2, <3>2
    <3> QED BY <3>1, <3>2
  <2> QED BY <2>1, <2>3, <2>4
<1>2. ipiv[col] = 0
  BY DEF IsPivot, Candidate
<1>3. ipiv' \in [Place -> 0..1] /\ ipiv' \in [Place -> Nat]
  BY <1>2 DEF IInv, PivotInv
<1>4. \A j \in 0..(i - 1) : j \in Place /\ j # i /\ indxc[j] \in Place /\ indxc[j] # col
  <2> SUFFICES ASSUME NEW j \in 0..(i - 1)
               PROVE  j \in Place /\ j # i /\ indxc[j] \in Place /\ indxc[j] # col
    OBVIOUS
  <2>1. j \in Place /\ j # i /\ j < i
    BY <1>1 DEF Place
  <2>2. indxc[j] \in Place
    BY <2>1 DEF IInv, InverseTypeOK
  <2>3. indxc[j] # col
    BY <1>2 DEF IInv, PivotInv
  <2> QED BY <2>1, <2>2, <2>3
<1>5. /\ indxc'[i] = col
      /\ \A j \in 0..(i - 1) : indxc'[j] = indxc[j]
  BY <1>1, <1>4 DEF IInv, InverseTypeOK
<1>6. \A j \in 0..(i' - 1) : j \in 0..(i - 1) \/ j = i
  <2>1. i \in Int
    BY <1>1
  <2>2. CASE i' = i
    BY <2>2
  <2>3. CASE i' = i + 1
    BY <2>1, <2>3
  <2> QED BY <2>2, <2>3
<1>7. PivotInv'
  <2>1. \A j \in 0..(i' - 1) : ipiv'[indxc'[j]] = 1
    <3> SUFFICES ASSUME NEW j \in 0..(i' - 1) PROVE ipiv'[indxc'[j]] = 1
      OBVIOUS
    <3>1. CASE j \in 0..(i - 1)
      <4>1. ipiv'[indxc[j]] = ipiv[indxc[j]]
        BY <1>4, <3>1 DEF IInv, PivotInv
      <4> QED BY <1>5, <3>1, <4>1 DEF IInv, PivotInv
    <3>2. CASE j = i
      BY <1>2, <1>5, <3>2 DEF IInv, PivotInv
    <3> QED BY <1>6, <3>1, <3>2
  <2>2. \A j, k \in 0..(i' - 1) : indxc'[j] = indxc'[k] => j = k
    <3> SUFFICES ASSUME NEW j \in 0..(i' - 1), NEW k \in 0..(i' - 1),
                        indxc'[j] = indxc'[k]
                 PROVE  j = k
      OBVIOUS
    <3>1. CASE j \in 0..(i - 1) /\ k \in 0..(i - 1)
      BY <1>5, <3>1 DEF IInv, PivotInv
    <3>2. CASE j = i /\ k \in 0..(i - 1)
      BY <1>4, <1>5, <3>2
    <3>3. CASE k = i /\ j \in 0..(i - 1)
      BY <1>4, <1>5, <3>3
    <3> QED BY <1>6, <3>1, <3>2, <3>3
  <2> QED BY <1>3, <2>1, <2>2 DEF PivotInv
<1>8. InverseTypeOK'
  <2>1. indxr' \in [Place -> Place \cup {Unset}] /\ indxc' \in [Place -> Place \cup {Unset}]
    BY DEF IInv, InverseTypeOK
  <2>2. ASSUME NEW j \in Place, j < i'
        PROVE  indxr'[j] \in Place /\ indxc'[j] \in Place
    <3>1. j < i \/ j = i
      BY <1>1, <2>2 DEF Place
    <3>2. CASE j < i
      BY <1>1, <3>2 DEF IInv, InverseTypeOK
    <3>3. CASE j = i
      BY <1>1, <3>3 DEF IInv, InverseTypeOK
    <3> QED BY <3>1, <3>2, <3>3
  <2>3. a0' \in Inputs /\ l' \in 0..N
    BY DEF IInv, InverseTypeOK
  <2> QED BY <1>1, <1>3, <2>1, <2>2, <2>3 DEF InverseTypeOK
<1> QED BY <1>7, <1>8 DEF IInv

\* The invariant holds initially and every step preserves it.
LEMMA InitPivots == InverseInit => IInv
<1> SUFFICES ASSUME InverseInit PROVE IInv
  OBVIOUS
<1>1. InverseTypeOK
  BY SizeAssumption DEF InverseInit, InverseTypeOK, Place
<1>2. PivotInv
  BY DEF InverseInit, PivotInv
<1> QED BY <1>1, <1>2 DEF IInv

LEMMA NextPivots == IInv /\ [InverseNext]_inverseVars => IInv'
<1> SUFFICES ASSUME IInv, [InverseNext]_inverseVars PROVE IInv'
  OBVIOUS
<1>1. CASE Reduce
  <2>1. PICK row \in Place, col \in Place :
          /\ IsPivot(row, col)
          /\ ipiv' = [ipiv EXCEPT ![col] = @ + 1]
          /\ indxr' = [indxr EXCEPT ![i] = row]
          /\ indxc' = [indxc EXCEPT ![i] = col]
          /\ i' = i \/ i' = i + 1
          /\ pc' \in {"reduce", "singular"}
          /\ UNCHANGED <<a0, l>>
    BY <1>1 DEF Reduce
  <2> QED BY <1>1, <2>1, ReducePreserves DEF Reduce
<1>2. CASE Reduced
  BY <1>2 DEF Reduced, IInv, InverseTypeOK, PivotInv
<1>3. CASE Unscramble
  <2>1. l' \in 0..N
    BY <1>3, SizeAssumption DEF Unscramble, IInv, InverseTypeOK
  <2> QED BY <1>3, <2>1 DEF Unscramble, IInv, InverseTypeOK, PivotInv
<1>4. CASE Return
  BY <1>4 DEF Return, IInv, InverseTypeOK, PivotInv
<1>5. CASE UNCHANGED inverseVars
  BY <1>5 DEF inverseVars, IInv, InverseTypeOK, PivotInv
<1> QED BY <1>1, <1>2, <1>3, <1>4, <1>5 DEF InverseNext

\* cMatrix::inv() and matrixInv() keep their variables in range.
THEOREM PivotTypes == InverseSpec => []InverseTypeOK
<1>1. IInv => InverseTypeOK
  BY DEF IInv
<1> QED BY InitPivots, NextPivots, <1>1, PTL DEF InverseSpec

\* No column is the pivot column twice, so "Singular Matrix-1" (cMatrix.cpp:580,
\* matrix.c:446) is unreachable code.
THEOREM PivotsStayDistinct == InverseSpec => []PivotsDistinct
<1>1. IInv => PivotsDistinct
  <2> SUFFICES ASSUME IInv PROVE ~SingularOne
    BY DEF IInv, PivotInv, PivotsDistinct
  <2> QED BY DEF IInv, PivotInv, SingularOne
<1> QED BY InitPivots, NextPivots, <1>1, PTL DEF InverseSpec

-----------------------------------------------------------------------------
(* Numbers *)

\* A set of numbers that is not empty has a least member: what stands for
\* induction here, of the smallest counterexample.
LEMMA LeastNumber ==
  ASSUME NEW S, S \subseteq Nat, S # {}
  PROVE  \E n \in S : \A m \in S : n <= m
<1>1. \E x \in S : \A y \in S : ~ (<<y, x>> \in OpToRel(<, Nat))
  BY NatLessThanWellFounded, WFMin
<1>2. PICK x \in S : \A y \in S : ~ (<<y, x>> \in OpToRel(<, Nat))
  BY <1>1
<1>3. ASSUME NEW y \in S PROVE x <= y
  <2>1. x \in Nat /\ y \in Nat
    OBVIOUS
  <2>2. ~ (y < x)
    BY <1>2, <2>1, Zenon DEF OpToRel
  <2> QED BY <2>1, <2>2
<1> QED BY <1>3

-----------------------------------------------------------------------------
(* Fractions.                                                              *)

LEMMA DivInt ==
  ASSUME NEW b \in Int, b > 0, NEW m \in Int
  PROVE  /\ m % b = m - b * (m \div b)
         /\ m \div b \in Int /\ m % b \in 0..(b - 1)
<1>1. m % b = m - b * (m \div b)
  BY SMTT(30)
<1>2. m \div b \in Int
  OBVIOUS
<1>3. m % b \in 0..(b - 1)
  OBVIOUS
<1> QED BY <1>1, <1>2, <1>3

LEMMA DivMod ==
  ASSUME NEW m \in Nat, NEW b \in Nat, b > 0
  PROVE  \E q \in Nat : m % b \in 0..(b - 1) /\ m = b * q + (m % b)
<1> DEFINE q == m \div b  r == m % b
<1>1. q \in Int /\ r \in 0..(b - 1) /\ r = m - b * q
  <2>1. m \in Int /\ b \in Int
    OBVIOUS
  <2> QED BY <2>1, DivInt, Zenon
<1> HIDE DEF q, r
<1>2. b * q + r = m
  BY <1>1
<1>3. q >= 0
  <2> SUFFICES ASSUME q <= -1 PROVE FALSE
    BY <1>1
  <2>1. b * q <= -b
    BY <1>1
  <2> QED BY <1>1, <1>2, <2>1
<1>4. q \in Nat
  BY <1>1, <1>3
<1>5. \E k \in Nat : r \in 0..(b - 1) /\ m = b * k + r
  BY <1>1, <1>2, <1>4
<1> QED BY <1>5 DEF r

LEMMA Exact ==
  ASSUME NEW g \in Nat, g > 0, NEW q \in Int, NEW n \in Int, n = g * q
  PROVE  n \div g = q
OBVIOUS

\* Euclid's algorithm on the numbers with a second one of at most b.
IsGCD(b, f) == f = [p \in Nat \X (0..b) |-> IF p[2] = 0 THEN p[1] ELSE f[<<p[2], p[1] % p[2]>>]]

\* Up to different bounds it finds the same,
LEMMA GCDsAgree ==
  ASSUME NEW b \in Nat, NEW c \in Nat, b <= c, NEW f, IsGCD(b, f), NEW h, IsGCD(c, h)
  PROVE  \A n \in 0..b : \A m \in Nat : f[<<m, n>>] = h[<<m, n>>]
<1> DEFINE S == {n \in Nat : n <= b /\ \E m \in Nat : f[<<m, n>>] # h[<<m, n>>]}
<1> SUFFICES ASSUME S # {} PROVE FALSE
  <2>1. ASSUME S = {}, NEW n \in 0..b, NEW m \in Nat PROVE f[<<m, n>>] = h[<<m, n>>]
    <3>1. n \in Nat /\ n <= b
      OBVIOUS
    <3> QED BY <2>1, <3>1
  <2> QED BY <2>1
<1>1. PICK n \in S : \A k \in S : n <= k
  BY LeastNumber
<1>2. PICK m \in Nat : f[<<m, n>>] # h[<<m, n>>]
  BY <1>1
<1>3. n \in Nat /\ n <= b /\ n \in 0..b /\ n \in 0..c
  BY <1>1
<1> DEFINE r == m % n
<1>4. /\ f[<<m, n>>] = IF n = 0 THEN m ELSE f[<<n, r>>]
      /\ h[<<m, n>>] = IF n = 0 THEN m ELSE h[<<n, r>>]
  BY <1>3 DEF IsGCD
<1>5. n > 0
  BY <1>2, <1>3, <1>4
<1>6. r \in Nat /\ r < n
  BY <1>3, <1>5, DivMod
<1> HIDE DEF r
<1>7. r \notin S
  <2> HIDE DEF S
  <2> QED BY <1>1, <1>3, <1>6
<1>8. f[<<n, r>>] = h[<<n, r>>]
  BY <1>3, <1>6, <1>7
<1> QED BY <1>2, <1>4, <1>5, <1>8

\* and for every bound there is one: GCD is the union of them.
LEMMA GCDExists ==
  \A b \in Nat : \E f : IsGCD(b, f)
<1> DEFINE S == {b \in Nat : ~ \E f : IsGCD(b, f)}
<1> SUFFICES ASSUME S # {} PROVE FALSE
  OBVIOUS
<1>1. PICK b \in S : \A k \in S : b <= k
  BY LeastNumber
<1>2. b \in Nat /\ ~ \E f : IsGCD(b, f)
  BY <1>1
<1>3. IsGCD(0, [p \in Nat \X (0..0) |-> p[1]])
  <2>1. \A p \in Nat \X (0..0) : p[2] = 0
    OBVIOUS
  <2> QED BY <2>1 DEF IsGCD
<1>4. b # 0
  BY <1>2, <1>3
<1>5. b - 1 \in Nat /\ b - 1 \notin S
  BY <1>1, <1>2, <1>4
<1>6. PICK f : IsGCD(b - 1, f)
  BY <1>5
<1> DEFINE D == Nat \X (0..b)
           h == [p \in D |-> IF p[2] = b THEN f[<<b, p[1] % b>>] ELSE f[p]]
<1>7. ASSUME NEW p \in D
      PROVE  h[p] = IF p[2] = 0 THEN p[1] ELSE h[<<p[2], p[1] % p[2]>>]
  <2> DEFINE m == p[1]  n == p[2]  r == m % n
  <2>1. m \in Nat /\ n \in 0..b /\ p = <<m, n>>
    OBVIOUS
  <2>2. n > 0 => r \in Nat /\ r < n
    BY <2>1, DivMod
  <2>3. n > 0 => <<n, r>> \in D /\ h[<<n, r>>] = f[<<n, r>>]
    <3>1. ASSUME n > 0 PROVE <<n, r>> \in D /\ h[<<n, r>>] = f[<<n, r>>]
      <4> HIDE DEF m, n, r
      <4>1. <<n, r>> \in D /\ r # b
        BY <1>2, <2>1, <2>2, <3>1
      <4> QED BY <4>1
    <3> QED BY <3>1
  <2>4. CASE n = b
    <3>1. h[p] = f[<<b, m % b>>]
      BY <2>4
    <3> QED BY <1>2, <1>4, <2>3, <2>4, <3>1
  <2>5. CASE n # b
    <3>1. p \in Nat \X (0..(b - 1))
      <4> HIDE DEF m, n, r
      <4> QED BY <1>2, <2>1, <2>5
    <3>2. f[p] = IF p[2] = 0 THEN p[1] ELSE f[<<p[2], p[1] % p[2]>>]
      BY <1>6, <3>1 DEF IsGCD
    <3>3. h[p] = f[p]
      BY <2>5
    <3> QED BY <1>2, <2>1, <2>3, <3>2, <3>3
  <2> QED BY <2>4, <2>5
<1>8. IsGCD(b, h)
  <2>1. h = [p \in D |-> h[p]]
    OBVIOUS
  <2> HIDE DEF h
  <2> QED BY <1>7, <2>1 DEF IsGCD
<1> QED BY <1>2, <1>8

LEMMA GCDIs ==
  ASSUME NEW m \in Nat, NEW n \in Nat
  PROVE  GCD[<<m, n>>] = IF n = 0 THEN m ELSE GCD[<<n, m % n>>]
<1> DEFINE G(b) == CHOOSE f : IsGCD(b, f)
           H == [p \in Nat \X Nat |-> G(p[2])[p]]
<1>1. \A b \in Nat : IsGCD(b, G(b))
  BY GCDExists
<1> HIDE DEF G
<1>2. ASSUME NEW k \in Nat, NEW j \in Nat
      PROVE  H[<<k, j>>] = IF j = 0 THEN k ELSE H[<<j, k % j>>]
  <2> DEFINE r == k % j
  <2>1. H[<<k, j>>] = G(j)[<<k, j>>]
    OBVIOUS
  <2>2. G(j)[<<k, j>>] = IF j = 0 THEN k ELSE G(j)[<<j, r>>]
    <3>1. <<k, j>> \in Nat \X (0..j)
      OBVIOUS
    <3>2. IsGCD(j, G(j))
      BY <1>1
    <3> QED BY <3>1, <3>2 DEF IsGCD
  <2>3. j > 0 => r \in Nat /\ r < j
    BY DivMod
  <2> HIDE DEF r
  <2>4. ASSUME j > 0 PROVE G(j)[<<j, r>>] = H[<<j, r>>]
    <3>1. r \in Nat /\ r <= j /\ r \in 0..r
      BY <2>3, <2>4
    <3>2. G(r)[<<j, r>>] = G(j)[<<j, r>>]
      BY <1>1, <3>1, GCDsAgree
    <3>3. H[<<j, r>>] = G(r)[<<j, r>>]
      BY <3>1
    <3> QED BY <3>2, <3>3
  <2> QED BY <2>1, <2>2, <2>4 DEF r
<1> DEFINE Euclid(f) == f = [p \in Nat \X Nat |->
                           IF p[2] = 0 THEN p[1] ELSE f[<<p[2], p[1] % p[2]>>]]
<1>3. Euclid(H)
  <2>1. \A p \in Nat \X Nat : H[p] = IF p[2] = 0 THEN p[1] ELSE H[<<p[2], p[1] % p[2]>>]
    <3> TAKE p \in Nat \X Nat
    <3>1. PICK k \in Nat, j \in Nat : p = <<k, j>>
      OBVIOUS
    <3> HIDE DEF H
    <3> QED BY <1>2, <3>1
  <2>2. H = [p \in Nat \X Nat |-> H[p]]
    OBVIOUS
  <2> HIDE DEF H
  <2> QED BY <2>1, <2>2
<1>4. GCD = CHOOSE f : Euclid(f)
  BY DEF GCD
<1> HIDE DEF H, Euclid
<1>5. Euclid(GCD)
  BY <1>3, <1>4
<1>6. <<m, n>> \in Nat \X Nat
  OBVIOUS
<1> QED BY <1>5, <1>6 DEF Euclid

LEMMA Cancel ==
  ASSUME NEW p \in Int, NEW q \in Int, NEW c \in Int, c # 0, p * c = q * c
  PROVE  p = q
<1>1. (p - q) * c = 0
  OBVIOUS
<1> QED BY <1>1

LEMMA MultipleMod ==
  ASSUME NEW k \in Nat, NEW b \in Nat, b > 0
  PROVE  (k * b) % b = 0
<1> DEFINE m == k * b  r == m % b
<1>1. m \in Nat
  OBVIOUS
<1> HIDE DEF m
<1>2. PICK q \in Nat : r \in 0..(b - 1) /\ m = b * q + r
  BY <1>1, DivMod
<1> HIDE DEF r
<1>3. r = b * (k - q)
  BY <1>2 DEF m
<1>4. k - q <= 0
  <2> SUFFICES ASSUME k - q >= 1 PROVE FALSE
    OBVIOUS
  <2>1. b * (k - q) >= b
    OBVIOUS
  <2> QED BY <1>2, <1>3, <2>1
<1>5. k - q >= 0
  <2> SUFFICES ASSUME k - q <= -1 PROVE FALSE
    OBVIOUS
  <2>1. b * (k - q) <= -b
    OBVIOUS
  <2> QED BY <1>2, <1>3, <2>1
<1>6. k - q = 0
  BY <1>4, <1>5
<1>7. b * 0 = 0
  OBVIOUS
<1>8. r = 0
  BY <1>3, <1>6, <1>7
<1> QED BY <1>8 DEF r, m

Divides(g, m, n) == g \in Nat /\ g > 0 /\ \E u, v \in Nat : m = g * u /\ n = g * v

\* What GCD finds divides both.
LEMMA GCDDivides ==
  ASSUME NEW m \in Nat, NEW n \in Nat, m > 0 \/ n > 0
  PROVE  Divides(GCD[<<m, n>>], m, n)
<1> DEFINE Bad(k) == \E j \in Nat : (j > 0 \/ k > 0) /\ ~ Divides(GCD[<<j, k>>], j, k)
           S == {k \in Nat : Bad(k)}
<1> SUFFICES ASSUME S # {} PROVE FALSE
  OBVIOUS
<1>1. PICK k \in S : \A x \in S : k <= x
  BY LeastNumber
<1>2. PICK j \in Nat : (j > 0 \/ k > 0) /\ ~ Divides(GCD[<<j, k>>], j, k)
  BY <1>1
<1>3. k \in Nat
  BY <1>1
<1>4. CASE k = 0
  <2>1. GCD[<<j, k>>] = j
    BY <1>3, <1>4, GCDIs
  <2>2. j = j * 1 /\ k = j * 0 /\ j > 0
    BY <1>2, <1>4
  <2>3. Divides(j, j, k)
    BY <2>2 DEF Divides
  <2> QED BY <1>2, <2>1, <2>3
<1>5. CASE k > 0
  <2> DEFINE r == j % k  g == GCD[<<k, r>>]
  <2>1. PICK q \in Nat : r \in 0..(k - 1) /\ j = k * q + r
    BY <1>3, <1>5, DivMod
  <2>2. GCD[<<j, k>>] = g
    BY <1>3, <1>5, GCDIs
  <2> HIDE DEF r
  <2>3. r \in Nat /\ r < k
    BY <1>3, <2>1
  <2>4. ~ Bad(r)
    BY <1>1, <2>3
  <2>5. Divides(g, k, r)
    BY <1>3, <1>5, <2>4
  <2> HIDE DEF g
  <2>6. PICK u \in Nat, v \in Nat : k = g * u /\ r = g * v
    BY <2>5 DEF Divides
  <2>7. g \in Nat /\ g > 0
    BY <2>5 DEF Divides
  <2> DEFINE w == u * q + v
  <2>8. j = g * w /\ w \in Nat
    <3>1. w \in Nat
      OBVIOUS
    <3>2. j = (g * u) * q + g * v
      BY <2>1, <2>6
    <3>3. (g * u) * q + g * v = g * (u * q + v)
      BY <2>7
    <3> QED BY <3>1, <3>2, <3>3
  <2> HIDE DEF w
  <2>9. Divides(g, j, k)
    BY <2>6, <2>7, <2>8 DEF Divides
  <2> QED BY <1>2, <2>2, <2>9
<1> QED BY <1>3, <1>4, <1>5

\* A multiple of a number and the number.
LEMMA GCDOfMultiple ==
  ASSUME NEW k \in Nat, NEW b \in Nat, b > 0
  PROVE  GCD[<<k * b, b>>] = b
<1>1. k * b \in Nat /\ (k * b) % b = 0
  BY MultipleMod
<1>2. GCD[<<k * b, b>>] = GCD[<<b, 0>>]
  BY <1>1, GCDIs
<1>3. GCD[<<b, 0>>] = b
  BY GCDIs
<1> QED BY <1>2, <1>3

LEMMA SizeIs ==
  ASSUME NEW n \in Int
  PROVE  Size(n) \in Nat /\ (n = Size(n) \/ n = -Size(n)) /\ n <= Size(n) /\ -n <= Size(n)
BY DEF Size

\* The fraction x is n / d, in lowest terms: it is a whole number only with
\* the denominator 1.
IsFrac(x, n, d) ==
  /\ x = <<x[1], x[2]>> /\ x[1] \in Int /\ x[2] \in Int /\ x[2] > 0
  /\ x[1] * d = n * x[2]
  /\ \A w \in Int : x[1] = w * x[2] => x[2] = 1

LEMMA WholeIs == ASSUME NEW n \in Int PROVE IsFrac(Whole(n), n, 1)
BY DEF IsFrac, Whole

LEMMA FracIs ==
  ASSUME NEW n \in Int, NEW d \in Int, d # 0
  PROVE  IsFrac(Frac(n, d), n, d)
<1> DEFINE g == GCD[<<Size(n), Size(d)>>]
<1>1. Size(n) \in Nat /\ Size(d) \in Nat /\ Size(d) > 0
  BY DEF Size
<1>2. Divides(g, Size(n), Size(d))
  BY <1>1, GCDDivides
<1>3. PICK u \in Nat, v \in Nat : Size(n) = g * u /\ Size(d) = g * v
  BY <1>2 DEF Divides
<1>4. g \in Nat /\ g > 0
  BY <1>2 DEF Divides
<1>5. Frac(n, d) = IF d < 0 THEN <<-n \div g, -d \div g>> ELSE <<n \div g, d \div g>>
  BY DEF Frac
<1>6. v > 0
  <2>1. g * 0 = 0
    BY <1>4
  <2> QED BY <1>1, <1>3, <2>1
<1>7. \A w \in Int : u = Size(w) * v => v = 1
  <2> TAKE w \in Int
  <2> HAVE u = Size(w) * v
  <2>1. Size(w) \in Nat
    BY SizeIs
  <2>2. Size(n) = Size(w) * Size(d)
    <3>1. g * (Size(w) * v) = Size(w) * (g * v)
      BY <1>4, <2>1
    <3> QED BY <1>3, <3>1
  <2>3. g = Size(d)
    BY <1>1, <2>1, <2>2, GCDOfMultiple
  <2> HIDE DEF g
  <2>4. g * 1 = g * v
    BY <1>3, <1>4, <2>3
  <2> QED BY <1>4, <2>4, Cancel
<1> HIDE DEF g
<1>8. PICK s \in Int : n = g * s /\ (s = u \/ s = -u)
  <2>1. n = Size(n) \/ n = -Size(n)
    BY SizeIs
  <2>2. n = g * u \/ n = g * (-u)
    BY <1>3, <1>4, <2>1
  <2> QED BY <2>2
<1>9. n \div g = s
  BY <1>4, <1>8, Exact
<1>10. -n = g * (-s) /\ -s \in Int /\ -n \in Int
  BY <1>4, <1>8
<1>11. -n \div g = -s /\ (-n) \div g = -s
  BY <1>4, <1>9, <1>10, Exact
<1>12. \A w \in Int : (s = w * v \/ -s = w * v) => v = 1
  <2> TAKE w \in Int
  <2> HAVE s = w * v \/ -s = w * v
  <2>0. Size(w) \in Nat /\ (w = Size(w) \/ w = -Size(w))
    BY SizeIs
  <2>1. u = Size(w) * v
    <3> DEFINE z == Size(w)
    <3>1. z * v >= 0
      BY <2>0
    <3>2. w * v = z * v \/ w * v = -(z * v)
      BY <2>0
    <3> HIDE DEF z
    <3>3. z * v \in Int /\ w * v \in Int
      BY <2>0 DEF z
    <3> QED BY <1>8, <3>1, <3>2, <3>3 DEF z
  <2> QED BY <1>7, <2>1
<1>13. CASE d > 0
  <2>1. d = g * v
    BY <1>3, <1>13 DEF Size
  <2>2. d \div g = v
    BY <1>4, <2>1, Exact
  <2>3. Frac(n, d) = <<s, v>>
    BY <1>5, <1>9, <1>13, <2>2
  <2>4. s * d = n * v
    BY <1>4, <1>8, <2>1
  <2> QED BY <1>6, <1>12, <2>3, <2>4 DEF IsFrac
<1>14. CASE d < 0
  <2>1. -d = g * v /\ d = g * (-v) /\ -d \in Int /\ -v \in Int
    BY <1>3, <1>4, <1>14 DEF Size
  <2>2. (-d) \div g = v /\ d \div g = -v
    BY <1>4, <2>1, Exact
  <2>3. Frac(n, d) = <<-s, v>>
    BY <1>5, <1>11, <1>14, <2>2
  <2>4. (-s) * d = n * v
    BY <1>4, <1>8, <2>1
  <2> QED BY <1>6, <1>12, <2>3, <2>4 DEF IsFrac
<1> QED BY <1>13, <1>14

\* The operations on them.
LEMMA Rescaled ==
  ASSUME NEW x, NEW n \in Int, NEW d \in Int, NEW e \in Int, e # 0
  PROVE  IsFrac(x, n, d) <=> IsFrac(x, n * e, d * e)
<1>1. ASSUME NEW p \in Int, NEW q \in Int
      PROVE  p * d = n * q <=> p * (d * e) = (n * e) * q
  <2>1. p * (d * e) = (p * d) * e /\ (n * e) * q = (n * q) * e
    OBVIOUS
  <2>2. p * d \in Int /\ n * q \in Int
    OBVIOUS
  <2> QED BY <2>1, <2>2, Cancel
<1> QED BY <1>1, Zenon DEF IsFrac

\* Another numerator and denominator for the same fraction.
LEMMA SameFrac ==
  ASSUME NEW z, NEW p \in Int, NEW q \in Int, q # 0, IsFrac(z, p, q),
         NEW P \in Int, NEW Q \in Int, p * Q = P * q
  PROVE  IsFrac(z, P, Q)
<1> DEFINE z1 == z[1]  z2 == z[2]
<1>1. z1 \in Int /\ z2 \in Int /\ z1 * q = p * z2
  BY DEF IsFrac
<1> HIDE DEF z1, z2
<1>2. z1 * Q = P * z2
  <2>1. (z1 * Q) * q = (z1 * q) * Q /\ (p * z2) * Q = (p * Q) * z2 /\ (P * z2) * q = (P * q) * z2
    BY <1>1
  <2>2. (z1 * Q) * q = (P * z2) * q
    BY <1>1, <2>1
  <2>3. z1 * Q \in Int /\ P * z2 \in Int
    BY <1>1
  <2> QED BY <2>2, <2>3, Cancel
<1> QED BY <1>2, Zenon DEF IsFrac, z1, z2

LEMMA MinusIs ==
  ASSUME NEW x, NEW n \in Int, NEW d \in Int, d # 0, IsFrac(x, n, d),
         NEW y, NEW m \in Int, NEW e \in Int, e # 0, IsFrac(y, m, e)
  PROVE  IsFrac(Minus(x, y), n * e - m * d, d * e)
<1> DEFINE x1 == x[1]  x2 == x[2]  y1 == y[1]  y2 == y[2]
           p == x1 * y2 - y1 * x2  q == x2 * y2  P == n * e - m * d  Q == d * e
           z == Minus(x, y)
<1>1. /\ x1 \in Int /\ x2 \in Int /\ x2 > 0 /\ x1 * d = n * x2
      /\ y1 \in Int /\ y2 \in Int /\ y2 > 0 /\ y1 * e = m * y2
  BY DEF IsFrac
<1> HIDE DEF x1, x2, y1, y2
<1>2. p \in Int /\ q \in Int /\ q > 0 /\ P \in Int /\ Q \in Int
  BY <1>1
<1>3. p * Q = P * q
  <2>1. p * Q = (x1 * d) * (y2 * e) - (y1 * e) * (x2 * d)
    BY <1>1
  <2>2. P * q = (n * x2) * (y2 * e) - (m * y2) * (x2 * d)
    BY <1>1
  <2> QED BY <1>1, <2>1, <2>2
<1>4. z = Frac(p, q)
  BY DEF Minus, x1, x2, y1, y2
<1> HIDE DEF p, q, P, Q, z
<1>5. IsFrac(z, p, q)
  BY <1>2, <1>4, FracIs
<1>6. IsFrac(z, P, Q)
  BY <1>2, <1>3, <1>5, SameFrac
<1> QED BY <1>6 DEF z, P, Q

LEMMA PlusIs ==
  ASSUME NEW x, NEW n \in Int, NEW d \in Int, d # 0, IsFrac(x, n, d),
         NEW y, NEW m \in Int, NEW e \in Int, e # 0, IsFrac(y, m, e)
  PROVE  IsFrac(Plus(x, y), n * e + m * d, d * e)
<1> DEFINE x1 == x[1]  x2 == x[2]  y1 == y[1]  y2 == y[2]
           p == x1 * y2 + y1 * x2  q == x2 * y2  P == n * e + m * d  Q == d * e
           z == Plus(x, y)
<1>1. /\ x1 \in Int /\ x2 \in Int /\ x2 > 0 /\ x1 * d = n * x2
      /\ y1 \in Int /\ y2 \in Int /\ y2 > 0 /\ y1 * e = m * y2
  BY DEF IsFrac
<1> HIDE DEF x1, x2, y1, y2
<1>2. p \in Int /\ q \in Int /\ q > 0 /\ P \in Int /\ Q \in Int
  BY <1>1
<1>3. p * Q = P * q
  <2>1. p * Q = (x1 * d) * (y2 * e) + (y1 * e) * (x2 * d)
    BY <1>1
  <2>2. P * q = (n * x2) * (y2 * e) + (m * y2) * (x2 * d)
    BY <1>1
  <2> QED BY <1>1, <2>1, <2>2
<1>4. z = Frac(p, q)
  BY DEF Plus, x1, x2, y1, y2
<1> HIDE DEF p, q, P, Q, z
<1>5. IsFrac(z, p, q)
  BY <1>2, <1>4, FracIs
<1>6. IsFrac(z, P, Q)
  BY <1>2, <1>3, <1>5, SameFrac
<1> QED BY <1>6 DEF z, P, Q

LEMMA TimesIs ==
  ASSUME NEW x, NEW n \in Int, NEW d \in Int, d # 0, IsFrac(x, n, d),
         NEW y, NEW m \in Int, NEW e \in Int, e # 0, IsFrac(y, m, e)
  PROVE  IsFrac(Times(x, y), n * m, d * e)
<1> DEFINE x1 == x[1]  x2 == x[2]  y1 == y[1]  y2 == y[2]
           p == x1 * y1  q == x2 * y2  P == n * m  Q == d * e
           z == Times(x, y)
<1>1. /\ x1 \in Int /\ x2 \in Int /\ x2 > 0 /\ x1 * d = n * x2
      /\ y1 \in Int /\ y2 \in Int /\ y2 > 0 /\ y1 * e = m * y2
  BY DEF IsFrac
<1> HIDE DEF x1, x2, y1, y2
<1>2. p \in Int /\ q \in Int /\ q > 0 /\ P \in Int /\ Q \in Int
  BY <1>1
<1>3. p * Q = P * q
  <2>1. p * Q = (x1 * d) * (y1 * e)
    BY <1>1
  <2>2. P * q = (n * x2) * (m * y2)
    BY <1>1
  <2> QED BY <1>1, <2>1, <2>2
<1>4. z = Frac(p, q)
  BY DEF Times, x1, x2, y1, y2
<1> HIDE DEF p, q, P, Q, z
<1>5. IsFrac(z, p, q)
  BY <1>2, <1>4, FracIs
<1>6. IsFrac(z, P, Q)
  BY <1>2, <1>3, <1>5, SameFrac
<1> QED BY <1>6 DEF z, P, Q

LEMMA OverIs ==
  ASSUME NEW x, NEW n \in Int, NEW d \in Int, d # 0, IsFrac(x, n, d),
         NEW y, NEW m \in Int, NEW e \in Int, e # 0, m # 0, IsFrac(y, m, e)
  PROVE  IsFrac(Over(x, y), n * e, d * m)
<1> DEFINE x1 == x[1]  x2 == x[2]  y1 == y[1]  y2 == y[2]
           p == x1 * y2  q == x2 * y1  P == n * e  Q == d * m
           z == Over(x, y)
<1>1. /\ x1 \in Int /\ x2 \in Int /\ x2 > 0 /\ x1 * d = n * x2
      /\ y1 \in Int /\ y2 \in Int /\ y2 > 0 /\ y1 * e = m * y2
  BY DEF IsFrac
<1> HIDE DEF x1, x2, y1, y2
<1>2. p \in Int /\ q \in Int /\ q # 0 /\ P \in Int /\ Q \in Int
  <2>1. y1 # 0
    <3> SUFFICES ASSUME y1 = 0 PROVE FALSE
      OBVIOUS
    <3>1. m * y2 = 0 * y2
      BY <1>1
    <3> QED BY <1>1, <3>1, Cancel
  <2>2. x2 * y1 # 0
    <3> SUFFICES ASSUME x2 * y1 = 0 PROVE FALSE
      OBVIOUS
    <3>1. y1 * x2 = 0 * x2
      BY <1>1
    <3> QED BY <1>1, <2>1, <3>1, Cancel
  <2> QED BY <1>1, <2>2
<1>3. p * Q = P * q
  <2>1. p * Q = (x1 * d) * (m * y2)
    BY <1>1
  <2>2. P * q = (n * x2) * (y1 * e)
    BY <1>1
  <2> QED BY <1>1, <2>1, <2>2
<1>4. z = Frac(p, q)
  BY DEF Over, x1, x2, y1, y2
<1> HIDE DEF p, q, P, Q, z
<1>5. IsFrac(z, p, q)
  BY <1>2, <1>4, FracIs
<1>6. IsFrac(z, P, Q)
  BY <1>2, <1>3, <1>5, SameFrac
<1> QED BY <1>6 DEF z, P, Q

-----------------------------------------------------------------------------
(* Sums over a row.                                                        *)

LEMMA SizeN == N \in Nat /\ N > 1 /\ Place = 0..(N - 1)
BY SizeAssumption DEF Place

IsSum(f, n, s) == s = [j \in 0..n |-> IF j = 0 THEN 0 ELSE s[j - 1] + f[j - 1]]

LEMMA SumExists ==
  ASSUME NEW f
  PROVE  \A n \in Nat : \E s : IsSum(f, n, s)
<1> DEFINE S == {n \in Nat : ~ \E s : IsSum(f, n, s)}
<1> SUFFICES ASSUME S # {} PROVE FALSE
  OBVIOUS
<1>1. PICK n \in S : \A k \in S : n <= k
  BY LeastNumber
<1>2. n \in Nat /\ ~ \E s : IsSum(f, n, s)
  BY <1>1
<1>3. IsSum(f, 0, [j \in 0..0 |-> 0])
  BY DEF IsSum
<1>4. n # 0
  BY <1>2, <1>3
<1>5. n - 1 \in Nat /\ n - 1 \notin S
  BY <1>1, <1>2, <1>4
<1>6. PICK s : IsSum(f, n - 1, s)
  BY <1>5
<1> DEFINE h == [j \in 0..n |-> IF j = n THEN s[n - 1] + f[n - 1] ELSE s[j]]
<1>7. ASSUME NEW j \in 0..n PROVE h[j] = IF j = 0 THEN 0 ELSE h[j - 1] + f[j - 1]
  <2>1. CASE j = n
    <3>1. h[n] = s[n - 1] + f[n - 1] /\ h[n - 1] = s[n - 1]
      BY <1>2, <1>4
    <3> QED BY <1>4, <2>1, <3>1
  <2>2. CASE j # n
    <3>1. j \in 0..(n - 1)
      BY <1>2, <2>2
    <3>2. s[j] = IF j = 0 THEN 0 ELSE s[j - 1] + f[j - 1]
      BY <1>6, <3>1 DEF IsSum
    <3>3. h[j] = s[j] /\ (j # 0 => h[j - 1] = s[j - 1])
      BY <1>2, <2>2, <3>1
    <3> QED BY <3>2, <3>3
  <2> QED BY <2>1, <2>2
<1>8. IsSum(f, n, h)
  <2>1. h = [j \in 0..n |-> h[j]]
    OBVIOUS
  <2> HIDE DEF h
  <2> QED BY <1>7, <2>1 DEF IsSum
<1> QED BY <1>2, <1>8

\* The first j members of a row, added up.
Sums(f) == CHOOSE s : IsSum(f, N, s)
Sum(f)  == Sums(f)[N]

LEMMA SumsAre ==
  ASSUME NEW f, \A j \in Place : f[j] \in Int
  PROVE  /\ Sums(f)[0] = 0 /\ Sum(f) = Sums(f)[N]
         /\ \A j \in Place : Sums(f)[j + 1] = Sums(f)[j] + f[j]
         /\ \A j \in 0..N : Sums(f)[j] \in Int
<1> DEFINE s == Sums(f)
<1>1. IsSum(f, N, s)
  BY SumExists, SizeN DEF Sums
<1> HIDE DEF s
<1>2. \A j \in 0..N : s[j] = IF j = 0 THEN 0 ELSE s[j - 1] + f[j - 1]
  BY <1>1 DEF IsSum
<1>3. s[0] = 0
  BY <1>2, SizeN
<1>4. ASSUME NEW j \in Place PROVE s[j + 1] = s[j] + f[j]
  <2>1. j + 1 \in 0..N /\ j + 1 # 0 /\ (j + 1) - 1 = j
    BY SizeN
  <2> QED BY <1>2, <2>1
<1>5. \A j \in 0..N : s[j] \in Int
  <2> DEFINE S == {j \in Nat : j <= N /\ s[j] \notin Int}
  <2> SUFFICES ASSUME S # {} PROVE FALSE
    BY SizeN
  <2>1. PICK j \in S : \A k \in S : j <= k
    BY LeastNumber
  <2>2. j \in Nat /\ j # 0 /\ j <= N
    BY <1>3, <2>1
  <2> DEFINE k == j - 1
  <2>3. k \in Nat /\ k \in Place /\ k + 1 = j /\ k <= N /\ ~ (k \in S)
    BY <2>1, <2>2, SizeN
  <2> HIDE DEF k
  <2>4. s[k] \in Int /\ f[k] \in Int
    BY <2>3
  <2>5. s[j] = s[k] + f[k]
    BY <1>4, <2>3
  <2> QED BY <2>1, <2>4, <2>5
<1> QED BY <1>3, <1>4, <1>5 DEF s, Sum

LEMMA SumType ==
  ASSUME NEW f, \A j \in Place : f[j] \in Int
  PROVE  Sum(f) \in Int
BY SumsAre, SizeN

\* What holds of the sum of none, and of one more when it holds of some, holds
\* of all: S is where it fails.
LEMMA SumInduction ==
  ASSUME NEW S, 0 \notin S,
         \A j \in Place : j \notin S => j + 1 \notin S
  PROVE  N \notin S
<1> DEFINE T == {j \in Nat : j <= N /\ j \in S}
<1> SUFFICES ASSUME T # {} PROVE FALSE
  BY SizeN
<1>1. PICK j \in T : \A k \in T : j <= k
  BY LeastNumber
<1>2. j \in Nat /\ j # 0 /\ j <= N /\ j \in S
  BY <1>1
<1> DEFINE k == j - 1
<1>3. k \in Nat /\ k \in Place /\ k + 1 = j /\ k <= N /\ k < j
  BY <1>2, SizeN
<1> HIDE DEF k
<1>4. k \notin S
  <2>1. k \notin T
    BY <1>1, <1>3, <1>2
  <2> QED BY <1>3, <2>1
<1> QED BY <1>2, <1>3, <1>4

LEMMA SumLinear ==
  ASSUME NEW f, NEW g, NEW h, NEW c \in Int, NEW e \in Int,
         \A j \in Place : f[j] \in Int /\ g[j] \in Int /\ h[j] = c * f[j] + e * g[j]
  PROVE  Sum(h) = c * Sum(f) + e * Sum(g)
<1> DEFINE s == Sums(f)  t == Sums(g)  u == Sums(h)
           S == {j \in 0..N : u[j] # c * s[j] + e * t[j]}
<1>1. ASSUME NEW j \in Place PROVE h[j] \in Int
  <2>1. f[j] \in Int /\ g[j] \in Int /\ h[j] = c * f[j] + e * g[j]
    OBVIOUS
  <2> QED BY <2>1
<1>2. /\ s[0] = 0 /\ Sum(f) = s[N] /\ \A j \in Place : s[j + 1] = s[j] + f[j]
      /\ t[0] = 0 /\ Sum(g) = t[N] /\ \A j \in Place : t[j + 1] = t[j] + g[j]
      /\ u[0] = 0 /\ Sum(h) = u[N] /\ \A j \in Place : u[j + 1] = u[j] + h[j]
      /\ \A j \in 0..N : s[j] \in Int /\ t[j] \in Int /\ u[j] \in Int
  BY <1>1, SumsAre
<1> HIDE DEF s, t, u
<1>3. 0 \notin S
  <2>1. c * 0 + e * 0 = 0
    OBVIOUS
  <2> QED BY <1>2, <2>1
<1>4. ASSUME NEW j \in Place, j \notin S PROVE j + 1 \notin S
  <2>1. j \in 0..N
    BY SizeN
  <2>2. u[j] = c * s[j] + e * t[j] /\ s[j] \in Int /\ t[j] \in Int
    BY <1>2, <1>4, <2>1
  <2>3. f[j] \in Int /\ g[j] \in Int /\ h[j] = c * f[j] + e * g[j]
    OBVIOUS
  <2>4. (c * s[j] + e * t[j]) + (c * f[j] + e * g[j]) = c * (s[j] + f[j]) + e * (t[j] + g[j])
    BY <2>2, <2>3
  <2>5. s[j + 1] = s[j] + f[j] /\ t[j + 1] = t[j] + g[j] /\ u[j + 1] = u[j] + h[j]
    BY <1>2
  <2>6. u[j + 1] = c * s[j + 1] + e * t[j + 1]
    BY <2>2, <2>3, <2>4, <2>5, Zenon
  <2> QED BY <2>6
<1>5. N \notin S
  <2> HIDE DEF S
  <2> QED BY <1>3, <1>4, SumInduction
<1> QED BY <1>2, <1>5, SizeN

LEMMA SumLeq ==
  ASSUME NEW f, NEW g, \A j \in Place : f[j] \in Int /\ g[j] \in Int /\ f[j] <= g[j]
  PROVE  Sum(f) <= Sum(g)
<1> DEFINE s == Sums(f)  t == Sums(g)
           S == {j \in 0..N : s[j] > t[j]}
<1>1. /\ s[0] = 0 /\ Sum(f) = s[N] /\ \A j \in Place : s[j + 1] = s[j] + f[j]
      /\ t[0] = 0 /\ Sum(g) = t[N] /\ \A j \in Place : t[j + 1] = t[j] + g[j]
      /\ \A j \in 0..N : s[j] \in Int /\ t[j] \in Int
  BY SumsAre
<1> HIDE DEF s, t
<1>2. 0 \notin S
  BY <1>1
<1>3. ASSUME NEW j \in Place, j \notin S PROVE j + 1 \notin S
  <2>1. j \in 0..N
    BY SizeN
  <2>2. s[j] <= t[j] /\ s[j] \in Int /\ t[j] \in Int
    BY <1>1, <1>3, <2>1
  <2>3. f[j] \in Int /\ g[j] \in Int /\ f[j] <= g[j]
    OBVIOUS
  <2>4. s[j + 1] = s[j] + f[j] /\ t[j + 1] = t[j] + g[j]
    BY <1>1
  <2> QED BY <2>2, <2>3, <2>4
<1>4. N \notin S
  <2> HIDE DEF S
  <2> QED BY <1>2, <1>3, SumInduction
<1> QED BY <1>1, <1>4, SizeN

LEMMA SumSingle ==
  ASSUME NEW f, NEW p \in Place, \A j \in Place : f[j] \in Int /\ (j # p => f[j] = 0)
  PROVE  Sum(f) = f[p]
<1> DEFINE s == Sums(f)
           S == {j \in 0..N : s[j] # IF p < j THEN f[p] ELSE 0}
<1>1. s[0] = 0 /\ Sum(f) = s[N] /\ \A j \in Place : s[j + 1] = s[j] + f[j]
  BY SumsAre
<1> HIDE DEF s
<1>0. p \in Int /\ p >= 0 /\ p < N /\ f[p] \in Int
  BY SizeN
<1>2. 0 \notin S
  BY <1>0, <1>1
<1>3. ASSUME NEW j \in Place, j \notin S PROVE j + 1 \notin S
  <2>1. j \in 0..N /\ j \in Int
    BY SizeN
  <2>2. s[j] = IF p < j THEN f[p] ELSE 0
    BY <1>3, <2>1
  <2>3. s[j + 1] = s[j] + f[j]
    BY <1>1
  <2>4. CASE j = p
    BY <1>0, <2>1, <2>2, <2>3, <2>4
  <2>5. CASE j # p
    <3>1. f[j] = 0
      BY <2>5
    <3>2. p < j + 1 <=> p < j
      BY <1>0, <2>1, <2>5
    <3>3. s[j] \in Int
      BY <1>0, <2>2
    <3> QED BY <2>2, <2>3, <3>1, <3>2, <3>3
  <2> QED BY <2>4, <2>5
<1>4. N \notin S
  <2> HIDE DEF S
  <2> QED BY <1>2, <1>3, SumInduction
<1> QED BY <1>0, <1>1, <1>4, SizeN

\* A function that adds up the members of f one by one ends with their sum.
LEMMA SumUnique ==
  ASSUME NEW f, \A j \in Place : f[j] \in Int,
         NEW s, s[0] = 0, \A j \in Place : s[j + 1] = s[j] + f[j]
  PROVE  s[N] = Sum(f)
<1> DEFINE t == Sums(f)
           S == {j \in 0..N : s[j] # t[j]}
<1>1. t[0] = 0 /\ Sum(f) = t[N] /\ \A j \in Place : t[j + 1] = t[j] + f[j]
  BY SumsAre
<1> HIDE DEF t
<1>2. 0 \notin S
  BY <1>1
<1>3. ASSUME NEW j \in Place, j \notin S PROVE j + 1 \notin S
  <2>1. j \in 0..N
    BY SizeN
  <2> QED BY <1>1, <1>3, <2>1
<1>4. N \notin S
  <2> HIDE DEF S
  <2> QED BY <1>2, <1>3, SumInduction
<1> QED BY <1>1, <1>4, SizeN

LEMMA SumOfTwo ==
  ASSUME NEW f, NEW p \in Place, NEW q \in Place, p # q,
         \A j \in Place : f[j] \in Int /\ (j # p /\ j # q => f[j] = 0)
  PROVE  Sum(f) = f[p] + f[q]
<1> DEFINE u == f[p]  v == f[q]
           g == [j \in Place |-> IF j = p THEN u ELSE 0]
           h == [j \in Place |-> IF j = q THEN v ELSE 0]
<1>1. u \in Int /\ v \in Int
  OBVIOUS
<1>2. \A j \in Place : /\ g[j] = IF j = p THEN u ELSE 0
                       /\ h[j] = IF j = q THEN v ELSE 0
                       /\ f[j] = IF j = p THEN u ELSE IF j = q THEN v ELSE 0
  OBVIOUS
<1> HIDE DEF u, v, g, h
<1>3. Sum(g) = u /\ Sum(h) = v
  <2>1. \A j \in Place : g[j] \in Int /\ (j # p => g[j] = 0)
    BY <1>1, <1>2
  <2>2. \A j \in Place : h[j] \in Int /\ (j # q => h[j] = 0)
    BY <1>1, <1>2
  <2>3. Sum(g) = g[p]
    BY <2>1, SumSingle
  <2>4. Sum(h) = h[q]
    BY <2>2, SumSingle
  <2> QED BY <1>2, <2>3, <2>4
<1>4. Sum(f) = 1 * Sum(g) + 1 * Sum(h)
  <2>1. \A j \in Place : g[j] \in Int /\ h[j] \in Int /\ f[j] = 1 * g[j] + 1 * h[j]
    BY <1>1, <1>2
  <2>2. 1 \in Int
    OBVIOUS
  <2> QED BY <2>1, <2>2, SumLinear
<1> QED BY <1>1, <1>3, <1>4 DEF u, v

\* The sum does not change when two members are exchanged.
Exchanged(p, q, j) == IF j = p THEN q ELSE IF j = q THEN p ELSE j

LEMMA SumExchanged ==
  ASSUME NEW f, \A j \in Place : f[j] \in Int, NEW p \in Place, NEW q \in Place,
         NEW g, \A j \in Place : g[j] = f[Exchanged(p, q, j)]
  PROVE  Sum(g) = Sum(f)
<1> DEFINE u == f[p]  v == f[q]
           d == [j \in Place |-> IF p = q THEN 0 ELSE IF j = p THEN v - u
                                 ELSE IF j = q THEN u - v ELSE 0]
<1>1. u \in Int /\ v \in Int
  OBVIOUS
<1>2. \A j \in Place : d[j] = IF p = q THEN 0 ELSE IF j = p THEN v - u
                             ELSE IF j = q THEN u - v ELSE 0
  OBVIOUS
<1>3. \A j \in Place : g[j] = IF j = p THEN v ELSE IF j = q THEN u ELSE f[j]
  BY DEF Exchanged
<1>4. (p = q => u = v) /\ \A j \in Place : (j = p => f[j] = u) /\ (j = q => f[j] = v)
  OBVIOUS
<1> HIDE DEF u, v, d
<1>5. \A j \in Place : f[j] \in Int /\ d[j] \in Int /\ g[j] = 1 * f[j] + 1 * d[j]
  BY <1>1, <1>2, <1>3, <1>4
<1>6. Sum(d) = 0
  <2>1. CASE p = q
    <3>1. \A j \in Place : d[j] \in Int /\ (j # p => d[j] = 0)
      BY <1>2, <2>1
    <3>2. Sum(d) = d[p]
      BY <3>1, SumSingle
    <3> QED BY <1>2, <2>1, <3>2
  <2>2. CASE p # q
    <3>1. \A j \in Place : d[j] \in Int /\ (j # p /\ j # q => d[j] = 0)
      BY <1>2, <1>5, <2>2
    <3>2. Sum(d) = d[p] + d[q]
      BY <2>2, <3>1, SumOfTwo
    <3> QED BY <1>1, <1>2, <2>2, <3>2
  <2> QED BY <2>1, <2>2
<1>7. Sum(g) = 1 * Sum(f) + 1 * Sum(d)
  <2>1. 1 \in Int
    OBVIOUS
  <2> QED BY <1>5, <2>1, SumLinear
<1>8. Sum(f) \in Int
  BY SumType
<1> QED BY <1>6, <1>7, <1>8

-----------------------------------------------------------------------------
(* One turn of the main loop, on integers with a common denominator: all   *)
(* elements of the matrix m are those of B over D.                         *)

LEMMA Product ==
  ASSUME NEW p \in Int, NEW q \in Int
  PROVE  p * q \in Int /\ (p # 0 /\ q # 0 => p * q # 0)
<1>1. p * q \in Int
  OBVIOUS
<1>2. ASSUME p * q = 0, q # 0 PROVE p = 0
  <2>1. p * q = 0 * q
    BY <1>2
  <2> QED BY <1>2, <2>1, Cancel
<1> QED BY <1>1, <1>2

IntMatrix == [Place -> [Place -> Int]]

Stands(m, B, D) ==
  /\ m = [r \in Place |-> [k \in Place |-> m[r][k]]]
  /\ B \in IntMatrix /\ D \in Int /\ D # 0
  /\ \A r, k \in Place : IsFrac(m[r][k], B[r][k], D)

Turned(B, D, p) ==
  LET x(k)    == IF k = p THEN D ELSE B[p][k]
      y(r, k) == IF k = p THEN 0 ELSE B[r][k]
  IN  [r \in Place |-> [k \in Place |->
         IF r = p THEN D * x(k) ELSE y(r, k) * B[p][p] - x(k) * B[r][p]]]

LEMMA TurnedIs ==
  ASSUME NEW B \in IntMatrix, NEW D \in Int, NEW p \in Place, NEW r \in Place, NEW k \in Place
  PROVE  /\ Turned(B, D, p) \in IntMatrix
         /\ B[r][k] \in Int
         /\ r = p /\ k = p => Turned(B, D, p)[r][k] = D * D
         /\ r = p /\ k # p => Turned(B, D, p)[r][k] = D * B[p][k]
         /\ r # p /\ k = p => Turned(B, D, p)[r][k] = -(D * B[r][p])
         /\ r # p /\ k # p => Turned(B, D, p)[r][k] = B[r][k] * B[p][p] - B[p][k] * B[r][p]
<1>1. \A s, j \in Place : B[s][j] \in Int
  BY DEF IntMatrix
<1> DEFINE x(j) == IF j = p THEN D ELSE B[p][j]
           y(s, j) == IF j = p THEN 0 ELSE B[s][j]
           t(s, j) == IF s = p THEN D * x(j) ELSE y(s, j) * B[p][p] - x(j) * B[s][p]
<1>2. \A s, j \in Place : t(s, j) \in Int
  BY <1>1
<1>3. Turned(B, D, p) = [s \in Place |-> [j \in Place |-> t(s, j)]]
  BY DEF Turned
<1>4. Turned(B, D, p)[r][k] = t(r, k)
  BY <1>3
<1>5. Turned(B, D, p) \in IntMatrix
  <2> HIDE DEF t
  <2> QED BY <1>2, <1>3 DEF IntMatrix
<1>6. /\ r = p /\ k = p => t(r, k) = D * D
      /\ r = p /\ k # p => t(r, k) = D * B[p][k]
      /\ r # p /\ k # p => t(r, k) = B[r][k] * B[p][p] - B[p][k] * B[r][p]
  OBVIOUS
<1>7. ASSUME r # p, k = p PROVE t(r, k) = -(D * B[r][p])
  <2>1. t(r, k) = 0 * B[p][p] - D * B[r][p]
    BY <1>7
  <2> QED BY <1>1, <2>1
<1> HIDE DEF t
<1> QED BY <1>1, <1>4, <1>5, <1>6, <1>7

LEMMA TurnedAway ==
  ASSUME NEW B \in IntMatrix, NEW D \in Int, NEW p \in Place
  PROVE  \A r, k \in Place \ {p} :
           Turned(B, D, p)[r][k] = B[r][k] * B[p][p] - B[p][k] * B[r][p]
<1> TAKE r, k \in Place \ {p}
<1>1. r \in Place /\ k \in Place /\ r # p /\ k # p
  OBVIOUS
<1> QED BY <1>1, TurnedIs

\* Eliminate does to the fractions what Turned does to the integers.
LEMMA EliminateStands ==
  ASSUME NEW m, NEW B, NEW D, Stands(m, B, D), NEW p \in Place, B[p][p] # 0
  PROVE  Stands(Eliminate(m, p), Turned(B, D, p), D * B[p][p])
<1> DEFINE P == B[p][p]  T == Turned(B, D, p)
           xm(k) == IF k = p THEN Whole(1) ELSE m[p][k]
           pivrow == [k \in Place |-> Over(xm(k), m[p][p])]
           ym(r, k) == IF k = p THEN Whole(0) ELSE m[r][k]
           e(r, k) == Minus(ym(r, k), Times(pivrow[k], m[r][p]))
           E == Eliminate(m, p)
           x(k) == IF k = p THEN D ELSE B[p][k]
           y(r, k) == IF k = p THEN 0 ELSE B[r][k]
<1>1. /\ B \in IntMatrix /\ D \in Int /\ D # 0 /\ \A r, k \in Place : B[r][k] \in Int
      /\ \A r, k \in Place : IsFrac(m[r][k], B[r][k], D)
  BY DEF Stands, IntMatrix
<1>2. E = [r \in Place |-> IF r = p THEN pivrow ELSE [k \in Place |-> e(r, k)]]
  BY DEF Eliminate
<1>3. \A r, k \in Place : E[r][k] = IF r = p THEN pivrow[k] ELSE e(r, k)
  BY <1>2
<1>4. E = [r \in Place |-> [k \in Place |-> E[r][k]]]
  <2> DEFINE F(r) == IF r = p THEN pivrow ELSE [k \in Place |-> e(r, k)]
  <2>1. \A r \in Place : F(r) = [k \in Place |-> F(r)[k]]
    <3> TAKE r \in Place
    <3>1. CASE r = p
      BY <3>1
    <3>2. CASE r # p
      BY <3>2
    <3> QED BY <3>1, <3>2
  <2>2. \A r \in Place : E[r] = F(r)
    BY <1>2
  <2>3. E = [r \in Place |-> E[r]]
    BY <1>2
  <2>4. \A r \in Place : E[r] = [k \in Place |-> E[r][k]]
    <3> HIDE DEF F, E
    <3> QED BY <2>1, <2>2
  <2> HIDE DEF F, E
  <2> QED BY <2>3, <2>4
<1>5. ASSUME NEW k \in Place PROVE IsFrac(xm(k), x(k), D) /\ x(k) \in Int
  <2>1. CASE k = p
    BY <1>1, <2>1 DEF IsFrac, Whole
  <2>2. CASE k # p
    BY <1>1, <2>2
  <2> QED BY <2>1, <2>2
<1>6. ASSUME NEW r \in Place, NEW k \in Place PROVE IsFrac(ym(r, k), y(r, k), D) /\ y(r, k) \in Int
  <2>1. CASE k = p
    BY <1>1, <2>1 DEF IsFrac, Whole
  <2>2. CASE k # p
    BY <1>1, <2>2
  <2> QED BY <2>1, <2>2
<1>7. P \in Int /\ P # 0 /\ IsFrac(m[p][p], P, D)
  BY <1>1
<1>8. ASSUME NEW k \in Place PROVE IsFrac(pivrow[k], D * x(k), D * P)
  <2>1. pivrow[k] = Over(xm(k), m[p][p])
    OBVIOUS
  <2> HIDE DEF xm, x, pivrow, P
  <2>2. IsFrac(pivrow[k], x(k) * D, D * P)
    BY <1>1, <1>5, <1>7, <2>1, OverIs
  <2>3. x(k) * D = D * x(k)
    BY <1>1, <1>5
  <2> QED BY <2>2, <2>3
<1>9. ASSUME NEW r \in Place, NEW k \in Place
      PROVE  IsFrac(e(r, k), y(r, k) * P - x(k) * B[r][p], D * P)
  <2> DEFINE tm == Times(pivrow[k], m[r][p])  b == B[r][p]  u == x(k)  v == y(r, k)
             ye == ym(r, k)
  <2>1. b \in Int /\ u \in Int /\ v \in Int /\ IsFrac(m[r][p], b, D) /\ IsFrac(ye, v, D)
    BY <1>1, <1>5, <1>6
  <2>2. IsFrac(pivrow[k], D * u, D * P)
    BY <1>8
  <2>3. e(r, k) = Minus(ye, tm)
    OBVIOUS
  <2> HIDE DEF P, pivrow, b, u, v, ye, e
  <2>4. D * u \in Int /\ D * P \in Int /\ D * P # 0
    BY <1>1, <1>7, <2>1, Product
  <2>5. IsFrac(tm, (D * u) * b, (D * P) * D)
    BY <1>1, <2>1, <2>2, <2>4, TimesIs
  <2> DEFINE n == (D * u) * b  d == (D * P) * D
  <2>6. n \in Int /\ d \in Int /\ d # 0
    BY <1>1, <2>1, <2>4, Product
  <2> HIDE DEF tm, n, d
  <2>7. IsFrac(e(r, k), v * d - n * D, D * d)
    BY <1>1, <2>1, <2>3, <2>5, <2>6, MinusIs DEF n, d
  <2> DEFINE w == v * P - u * b  q == D * P  c == D * D
  <2>8. w \in Int /\ q \in Int /\ q # 0 /\ c \in Int /\ c # 0
    <3>1. v * P \in Int /\ u * b \in Int
      BY <1>7, <2>1, Product
    <3> QED BY <1>1, <2>4, <3>1, Product
  <2>9. v * d - n * D = w * c /\ D * d = q * c
    BY <1>1, <1>7, <2>1 DEF n, d
  <2> HIDE DEF w, q, c
  <2>10. IsFrac(e(r, k), w, q)
    BY <2>7, <2>8, <2>9, Rescaled
  <2> QED BY <2>10 DEF w, q, u, v, b, P
<1>10. ASSUME NEW r \in Place, NEW k \in Place PROVE IsFrac(E[r][k], T[r][k], D * P)
  <2>1. T[r][k] = IF r = p THEN D * x(k) ELSE y(r, k) * P - x(k) * B[r][p]
    BY DEF Turned
  <2> HIDE DEF E, T, pivrow, e, x, y, P
  <2> QED BY <1>3, <1>8, <1>9, <2>1
<1>11. T \in IntMatrix
  BY <1>1, TurnedIs
<1>12. D * P \in Int /\ D * P # 0
  <2> HIDE DEF P
  <2> QED BY <1>1, <1>7, Product
<1> HIDE DEF E, T
<1>13. Stands(E, T, D * P)
  BY <1>4, <1>10, <1>11, <1>12 DEF Stands
<1> QED BY <1>13 DEF E, T

\* The matrix given stands for itself, and exchanges of rows and columns are
\* exchanges in what stands for them.
LEMMA StandsFirst ==
  ASSUME NEW m \in IntMatrix
  PROVE  Stands(Fractional(m), m, 1)
<1>1. \A r, k \in Place : m[r][k] \in Int
  BY DEF IntMatrix
<1>2. \A r, k \in Place : IsFrac(Whole(m[r][k]), m[r][k], 1)
  BY <1>1, WholeIs
<1> DEFINE F == Fractional(m)
<1>3. F = [r \in Place |-> [k \in Place |-> Whole(m[r][k])]]
  BY DEF Fractional
<1>4. \A r, k \in Place : F[r][k] = Whole(m[r][k])
  BY <1>3
<1>5. F = [r \in Place |-> [k \in Place |-> F[r][k]]]
  BY <1>3
<1> HIDE DEF F
<1>6. Stands(F, m, 1)
  BY <1>2, <1>4, <1>5 DEF Stands
<1> QED BY <1>6 DEF F

Rows(m)   == m = [r \in Place |-> m[r]]
Square(m) == m = [r \in Place |-> [k \in Place |-> m[r][k]]]

LEMMA SquareIs ==
  ASSUME NEW m
  PROVE  /\ Square(m) <=> Rows(m) /\ \A r \in Place : Rows(m[r])
         /\ m \in IntMatrix <=> Square(m) /\ \A r, k \in Place : m[r][k] \in Int
<1>1. ASSUME Square(m) PROVE Rows(m) /\ \A r \in Place : Rows(m[r])
  BY <1>1 DEF Square, Rows
<1>2. ASSUME Rows(m), \A r \in Place : Rows(m[r]) PROVE Square(m)
  BY <1>2 DEF Square, Rows
<1>3. ASSUME m \in IntMatrix PROVE Square(m) /\ \A r, k \in Place : m[r][k] \in Int
  BY <1>3 DEF IntMatrix, Square
<1>4. ASSUME Square(m), \A r, k \in Place : m[r][k] \in Int PROVE m \in IntMatrix
  BY <1>4 DEF IntMatrix, Square
<1> QED BY <1>1, <1>2, <1>3, <1>4

LEMMA SwapRowsIs ==
  ASSUME NEW m, Rows(m), NEW p \in Place, NEW q \in Place
  PROVE  /\ Rows(SwapRows(m, p, q))
         /\ \A r \in Place : SwapRows(m, p, q)[r] = m[Exchanged(p, q, r)]
         /\ SwapRows(SwapRows(m, p, q), p, q) = m
         /\ p = q => SwapRows(m, p, q) = m
<1> DEFINE s == SwapRows(m, p, q)  t == SwapRows(s, p, q)
<1>0. m = [r \in Place |-> m[r]]
  BY DEF Rows
<1>1. s = [r \in Place |-> IF r = q THEN m[p] ELSE IF r = p THEN m[q] ELSE m[r]]
  BY <1>0 DEF SwapRows
<1>2. \A r \in Place : s[r] = m[Exchanged(p, q, r)]
  BY <1>1 DEF Exchanged
<1>3. t = [r \in Place |-> IF r = q THEN s[p] ELSE IF r = p THEN s[q] ELSE s[r]]
  BY <1>1 DEF SwapRows
<1> HIDE DEF s, t
<1>4. \A r \in Place : t[r] = m[r]
  BY <1>1, <1>3
<1>5. t = m
  BY <1>0, <1>3, <1>4
<1>6. Rows(s)
  BY <1>1 DEF Rows
<1>7. p = q => s = m
  BY <1>0, <1>1
<1> QED BY <1>2, <1>5, <1>6, <1>7 DEF s, t

LEMMA SwapRowsMatrix ==
  ASSUME NEW m \in IntMatrix, NEW p \in Place, NEW q \in Place
  PROVE  SwapRows(m, p, q) \in IntMatrix
<1> DEFINE s == SwapRows(m, p, q)
<1>1. Rows(m) /\ \A r \in Place : Rows(m[r]) /\ \A k \in Place : m[r][k] \in Int
  BY SquareIs
<1>2. Rows(s) /\ \A r \in Place : s[r] = m[Exchanged(p, q, r)]
  BY <1>1, SwapRowsIs
<1>3. \A r \in Place : Exchanged(p, q, r) \in Place
  BY DEF Exchanged
<1> HIDE DEF s
<1>4. \A r \in Place : Rows(s[r]) /\ \A k \in Place : s[r][k] \in Int
  BY <1>1, <1>2, <1>3
<1>5. s \in IntMatrix
  BY <1>2, <1>4, SquareIs
<1> QED BY <1>5 DEF s

LEMMA SwapColumnsIs ==
  ASSUME NEW m, Square(m), NEW p \in Place, NEW q \in Place
  PROVE  /\ Square(SwapColumns(m, p, q))
         /\ \A r, k \in Place : SwapColumns(m, p, q)[r][k] = m[r][Exchanged(p, q, k)]
         /\ p = q => SwapColumns(m, p, q) = m
<1> DEFINE s == SwapColumns(m, p, q)
           y(r) == [m[r] EXCEPT ![p] = m[r][q], ![q] = m[r][p]]
<1>1. s = [r \in Place |-> y(r)]
  BY DEF SwapColumns
<1>2. m = [r \in Place |-> m[r]] /\ \A r \in Place : m[r] = [k \in Place |-> m[r][k]]
  BY DEF Square
<1>3. ASSUME NEW r \in Place
      PROVE  Rows(y(r)) /\ \A k \in Place : y(r)[k] = m[r][Exchanged(p, q, k)]
  <2> DEFINE v == m[r]
  <2>1. v = [k \in Place |-> v[k]]
    BY <1>2
  <2> HIDE DEF v
  <2> DEFINE w == [v EXCEPT ![p] = v[q], ![q] = v[p]]
  <2>2. w = [k \in Place |-> IF k = q THEN v[p] ELSE IF k = p THEN v[q] ELSE v[k]]
    BY <2>1
  <2> HIDE DEF w
  <2>3. Rows(w) /\ \A k \in Place : w[k] = v[Exchanged(p, q, k)]
    BY <2>2 DEF Rows, Exchanged
  <2> QED BY <2>3 DEF v, w
<1> HIDE DEF y
<1>4. Rows(s) /\ \A r \in Place : s[r] = y(r)
  BY <1>1 DEF Rows
<1> HIDE DEF s
<1>5. Square(s) /\ \A r, k \in Place : s[r][k] = m[r][Exchanged(p, q, k)]
  <2>1. \A r \in Place : Rows(s[r])
    BY <1>3, <1>4
  <2> QED BY <1>3, <1>4, <2>1, SquareIs
<1>6. ASSUME p = q PROVE s = m
  <2>1. \A k \in Place : Exchanged(p, q, k) = k
    BY <1>6 DEF Exchanged
  <2>2. \A r, k \in Place : s[r][k] = m[r][k]
    BY <1>5, <2>1
  <2> QED BY <1>5, <2>2 DEF Square
<1> QED BY <1>5, <1>6 DEF s

LEMMA StandsIs ==
  ASSUME NEW m, NEW B, NEW D
  PROVE  Stands(m, B, D) <=> /\ Square(m) /\ B \in IntMatrix /\ D \in Int /\ D # 0
                             /\ \A r, k \in Place : IsFrac(m[r][k], B[r][k], D)
BY Zenon DEF Stands, Square

LEMMA StandsSwapRows ==
  ASSUME NEW m, NEW B, NEW D, Stands(m, B, D), NEW p \in Place, NEW q \in Place
  PROVE  Stands(SwapRows(m, p, q), SwapRows(B, p, q), D)
<1> DEFINE s == SwapRows(m, p, q)  S == SwapRows(B, p, q)  x(r) == Exchanged(p, q, r)
<1>1. /\ Square(m) /\ B \in IntMatrix /\ D \in Int /\ D # 0
      /\ \A r, k \in Place : IsFrac(m[r][k], B[r][k], D)
  BY StandsIs
<1>2. /\ Rows(m) /\ \A r \in Place : Rows(m[r])
      /\ Rows(B) /\ \A r \in Place : Rows(B[r])
      /\ \A r, k \in Place : B[r][k] \in Int
  BY <1>1, SquareIs
<1>3. /\ Rows(s) /\ \A r \in Place : s[r] = m[x(r)]
      /\ Rows(S) /\ \A r \in Place : S[r] = B[x(r)]
  BY <1>2, SwapRowsIs
<1>4. \A r \in Place : x(r) \in Place
  BY DEF Exchanged
<1> HIDE DEF s, S, x
<1>5. Square(s)
  BY <1>2, <1>3, <1>4, SquareIs
<1>6. S \in IntMatrix
  BY <1>2, <1>3, <1>4, SquareIs
<1>7. \A r, k \in Place : IsFrac(s[r][k], S[r][k], D)
  BY <1>1, <1>3, <1>4
<1>8. Stands(s, S, D)
  BY <1>1, <1>5, <1>6, <1>7, StandsIs
<1> QED BY <1>8 DEF s, S

LEMMA StandsSwapColumns ==
  ASSUME NEW m, NEW B, NEW D, Stands(m, B, D), NEW p \in Place, NEW q \in Place
  PROVE  Stands(SwapColumns(m, p, q), SwapColumns(B, p, q), D)
<1> DEFINE s == SwapColumns(m, p, q)  S == SwapColumns(B, p, q)  x(k) == Exchanged(p, q, k)
<1>1. /\ Square(m) /\ B \in IntMatrix /\ D \in Int /\ D # 0
      /\ \A r, k \in Place : IsFrac(m[r][k], B[r][k], D)
  BY StandsIs
<1>2. Square(B) /\ \A r, k \in Place : B[r][k] \in Int
  BY <1>1, SquareIs
<1>3. /\ Square(s) /\ \A r, k \in Place : s[r][k] = m[r][x(k)]
      /\ Square(S) /\ \A r, k \in Place : S[r][k] = B[r][x(k)]
  BY <1>1, <1>2, SwapColumnsIs
<1>4. \A k \in Place : x(k) \in Place
  BY DEF Exchanged
<1> HIDE DEF s, S, x
<1>5. S \in IntMatrix
  BY <1>2, <1>3, <1>4, SquareIs
<1>6. \A r, k \in Place : IsFrac(s[r][k], S[r][k], D)
  BY <1>1, <1>3, <1>4
<1>7. Stands(s, S, D)
  BY <1>1, <1>3, <1>5, <1>6, StandsIs
<1> QED BY <1>7 DEF s, S

-----------------------------------------------------------------------------
(* The matrix the row operations so far make up, and what they have made   *)
(* of the matrix given, both times D.  V are the columns not yet reduced.  *)
(* The code keeps the columns of the one and of the other that are not     *)
(* columns of the identity in the place of one matrix.                     *)

Made(B, D, V, r, k) == IF k \in V THEN (IF r = k THEN D ELSE 0) ELSE B[r][k]
Left(B, D, V, r, k) == IF k \in V THEN B[r][k] ELSE IF r = k THEN D ELSE 0

Products(m, B, D, V, r, k) == [j \in Place |-> Made(B, D, V, r, j) * m[j][k]]

Operated(m, B, D, V) ==
  \A r, k \in Place : Sum(Products(m, B, D, V, r, k)) = Left(B, D, V, r, k)

\* Rows r and p of both, and row r after the turn with pivot P.
RowTurns(B, D, V, p, P, T, E, W, r, k) ==
  /\ Made(B, D, V, r, k) \in Int /\ Left(B, D, V, r, k) \in Int
  /\ r = p => /\ Made(T, E, W, r, k) = D * Made(B, D, V, p, k)
              /\ Left(T, E, W, r, k) = D * Left(B, D, V, p, k)
  /\ r # p => /\ Made(T, E, W, r, k)
                   = P * Made(B, D, V, r, k) + (-B[r][p]) * Made(B, D, V, p, k)
              /\ Left(T, E, W, r, k)
                   = P * Left(B, D, V, r, k) + (-B[r][p]) * Left(B, D, V, p, k)

LEMMA RowsTurn ==
  ASSUME NEW B \in IntMatrix, NEW D \in Int, NEW V \in SUBSET Place, NEW p \in V,
         NEW r \in Place, NEW k \in Place
  PROVE  RowTurns(B, D, V, p, B[p][p], Turned(B, D, p), D * B[p][p], V \ {p}, r, k)
<1> DEFINE T == Turned(B, D, p)  E == D * B[p][p]  W == V \ {p}
<1> DEFINE P == B[p][p]  b == B[r][p]  u == B[p][k]  v == B[r][k]  t == T[r][k]
<1>1. P \in Int /\ b \in Int /\ u \in Int /\ v \in Int /\ p \in Place
  BY DEF IntMatrix
<1>2. /\ r = p /\ k = p => t = D * D
      /\ r = p /\ k # p => t = D * u
      /\ r # p /\ k = p => t = -(D * b)
      /\ r # p /\ k # p => t = v * P - u * b
  <2>1. p \in Place
    BY <1>1
  <2>2. ASSUME r = p, k = p PROVE T[r][k] = D * D
    BY <2>1, <2>2, TurnedIs
  <2>3. ASSUME r = p, k # p PROVE T[r][k] = D * B[p][k]
    BY <2>1, <2>3, TurnedIs
  <2>4. ASSUME r # p, k = p PROVE T[r][k] = -(D * B[r][p])
    BY <2>1, <2>4, TurnedIs
  <2>5. ASSUME r # p, k # p PROVE T[r][k] = B[r][k] * B[p][p] - B[p][k] * B[r][p]
    BY <2>1, <2>5, TurnedIs
  <2> QED BY <2>2, <2>3, <2>4, <2>5, Zenon
<1>3. /\ Made(B, D, V, r, k) = IF k \in V THEN (IF r = k THEN D ELSE 0) ELSE v
      /\ Made(B, D, V, p, k) = IF k \in V THEN (IF p = k THEN D ELSE 0) ELSE u
      /\ Left(B, D, V, r, k) = IF k \in V THEN v ELSE IF r = k THEN D ELSE 0
      /\ Left(B, D, V, p, k) = IF k \in V THEN u ELSE IF p = k THEN D ELSE 0
      /\ Made(T, E, W, r, k) = IF k \in V /\ k # p THEN (IF r = k THEN D * P ELSE 0) ELSE t
      /\ Left(T, E, W, r, k) = IF k \in V /\ k # p THEN t ELSE IF r = k THEN D * P ELSE 0
      /\ r = p => u = v /\ b = P
      /\ k = p => u = P /\ v = b
  BY DEF Made, Left
<1> DEFINE mr == Made(B, D, V, r, k)  mp == Made(B, D, V, p, k)  mt == Made(T, E, W, r, k)
           lr == Left(B, D, V, r, k)  lp == Left(B, D, V, p, k)  lt == Left(T, E, W, r, k)
<1>4. mr \in Int /\ lr \in Int
  BY <1>1, <1>3
<1>5. ASSUME r = p PROVE mt = D * mp /\ lt = D * lp
  <2> HIDE DEF mr, mp, mt, lr, lp, lt, P, b, u, v, t
  <2>1. CASE k = p
    <3>1. mp = D /\ mt = D * D /\ lp = P /\ lt = D * P
      BY <1>2, <1>3, <1>5, <2>1 DEF mp, mt, lp, lt
    <3> QED BY <3>1
  <2>2. CASE k # p /\ k \in V
    <3>1. mp = 0 /\ mt = 0 /\ lp = u /\ lt = D * u
      BY <1>2, <1>3, <1>5, <2>2 DEF mp, mt, lp, lt
    <3> QED BY <3>1
  <2>3. CASE k \notin V
    <3>1. mp = u /\ mt = D * u /\ lp = 0 /\ lt = 0
      BY <1>2, <1>3, <1>5, <2>3 DEF mp, mt, lp, lt
    <3> QED BY <3>1
  <2> QED BY <2>1, <2>2, <2>3
<1>6. ASSUME r # p PROVE mt = P * mr + (-b) * mp /\ lt = P * lr + (-b) * lp
  <2> HIDE DEF mr, mp, mt, lr, lp, lt, P, b, u, v, t
  <2>1. CASE k = p
    <3>1. mr = 0 /\ mp = D /\ mt = -(D * b) /\ lr = b /\ lp = P /\ lt = 0
      BY <1>2, <1>3, <1>6, <2>1 DEF mr, mp, mt, lr, lp, lt
    <3>2. -(D * b) = P * 0 + (-b) * D /\ 0 = P * b + (-b) * P
      BY <1>1
    <3> QED BY <3>1, <3>2, Zenon
  <2>2. CASE k # p /\ k \in V
    <3>1. /\ mr = IF r = k THEN D ELSE 0
          /\ mt = IF r = k THEN D * P ELSE 0
          /\ mp = 0 /\ lr = v /\ lp = u /\ lt = v * P - u * b
      BY <1>2, <1>3, <1>6, <2>2 DEF mr, mp, mt, lr, lp, lt
    <3>2. v * P - u * b = P * v + (-b) * u
      BY <1>1
    <3>3. D * P = P * D + (-b) * 0 /\ 0 = P * 0 + (-b) * 0
      BY <1>1
    <3> QED BY <3>1, <3>2, <3>3, Zenon
  <2>3. CASE k \notin V
    <3>1. /\ lr = IF r = k THEN D ELSE 0
          /\ lt = IF r = k THEN D * P ELSE 0
          /\ lp = 0 /\ mr = v /\ mp = u /\ mt = v * P - u * b
      BY <1>2, <1>3, <1>6, <2>3 DEF mr, mp, mt, lr, lp, lt
    <3>2. v * P - u * b = P * v + (-b) * u
      BY <1>1
    <3>3. D * P = P * D + (-b) * 0 /\ 0 = P * 0 + (-b) * 0
      BY <1>1
    <3> QED BY <3>1, <3>2, <3>3, Zenon
  <2> QED BY <2>1, <2>2, <2>3
<1> HIDE DEF mr, mp, mt, lr, lp, lt, P, b
<1>7. /\ mr \in Int /\ lr \in Int
      /\ r = p => mt = D * mp /\ lt = D * lp
      /\ r # p => mt = P * mr + (-b) * mp /\ lt = P * lr + (-b) * lp
  BY <1>4, <1>5, <1>6
<1>8. RowTurns(B, D, V, p, P, T, E, W, r, k)
  <2> HIDE DEF T, E, W
  <2> QED BY <1>7 DEF mr, mp, mt, lr, lp, lt, b, RowTurns
<1> QED BY <1>8 DEF P

\* A turn is the same row operation on both.
LEMMA OperatedTurn ==
  ASSUME NEW B \in IntMatrix, NEW D \in Int, NEW V \in SUBSET Place, NEW p \in V,
         NEW m \in IntMatrix, Operated(m, B, D, V)
  PROVE  Operated(m, Turned(B, D, p), D * B[p][p], V \ {p})
<1> DEFINE T == Turned(B, D, p)  P == B[p][p]  E == D * P  W == V \ {p}
<1> SUFFICES ASSUME NEW r \in Place, NEW k \in Place
             PROVE  Sum(Products(m, T, E, W, r, k)) = Left(T, E, W, r, k)
  BY DEF Operated
<1>1. \A j \in Place : m[j][k] \in Int
  BY DEF IntMatrix
<1>2. P \in Int /\ B[r][p] \in Int /\ p \in Place
  BY DEF IntMatrix
<1> DEFINE f == Products(m, B, D, V, r, k)  g == Products(m, B, D, V, p, k)
           h == Products(m, T, E, W, r, k)
<1>3. Sum(f) = Left(B, D, V, r, k) /\ Sum(g) = Left(B, D, V, p, k)
  BY <1>2 DEF Operated
<1>4. \A j \in Place : /\ f[j] = Made(B, D, V, r, j) * m[j][k]
                       /\ g[j] = Made(B, D, V, p, j) * m[j][k]
                       /\ h[j] = Made(T, E, W, r, j) * m[j][k]
  BY DEF Products
<1> HIDE DEF T, E, W, f, g, h
<1>0. \A j \in Place : /\ RowTurns(B, D, V, p, P, T, E, W, r, j)
                       /\ RowTurns(B, D, V, p, P, T, E, W, p, j)
  BY <1>2, RowsTurn, Zenon DEF T, E, W
<1> HIDE DEF P
<1>5. \A j \in Place : Made(B, D, V, r, j) \in Int /\ Made(B, D, V, p, j) \in Int
  BY <1>0, Zenon DEF RowTurns
<1>9. \A j \in Place :
        /\ r = p => Made(T, E, W, r, j) = D * Made(B, D, V, p, j)
        /\ r # p => Made(T, E, W, r, j)
                      = P * Made(B, D, V, r, j) + (-B[r][p]) * Made(B, D, V, p, j)
  BY <1>0, Zenon DEF RowTurns
<1>10. /\ r = p => Left(T, E, W, r, k) = D * Left(B, D, V, p, k) /\ Left(B, D, V, p, k) \in Int
       /\ r # p => Left(T, E, W, r, k)
                     = P * Left(B, D, V, r, k) + (-B[r][p]) * Left(B, D, V, p, k)
  BY <1>0, Zenon DEF RowTurns
<1>6. \A j \in Place : f[j] \in Int /\ g[j] \in Int
  BY <1>1, <1>4, <1>5, Product
<1>7. CASE r = p
  <2>1. ASSUME NEW j \in Place PROVE h[j] = D * f[j] + 0 * f[j]
    <3>1. Made(T, E, W, r, j) = D * Made(B, D, V, p, j)
      BY <1>7, <1>9
    <3> DEFINE u == Made(B, D, V, p, j)  x == m[j][k]
    <3>2. h[j] = (D * u) * x /\ f[j] = u * x /\ u \in Int /\ x \in Int
      BY <1>1, <1>4, <1>5, <1>7, <3>1
    <3> HIDE DEF u, x, f, h
    <3>3. (D * u) * x = D * (u * x) + 0 * (u * x)
      BY <3>2
    <3> QED BY <3>2, <3>3, Zenon
  <2> HIDE DEF f, g, h
  <2>2. Sum(h) = D * Sum(f) + 0 * Sum(f)
    <3>1. \A j \in Place : f[j] \in Int /\ f[j] \in Int /\ h[j] = D * f[j] + 0 * f[j]
      BY <1>6, <2>1
    <3> QED BY <3>1, SumLinear
  <2>3. Left(T, E, W, r, k) = D * Left(B, D, V, p, k) /\ Left(B, D, V, p, k) \in Int
    BY <1>7, <1>10
  <2> QED BY <1>3, <1>7, <2>2, <2>3 DEF h
<1>8. CASE r # p
  <2> DEFINE c == -B[r][p]
  <2>0. c \in Int
    BY <1>2
  <2>1. ASSUME NEW j \in Place PROVE h[j] = P * f[j] + c * g[j]
    <3>1. Made(T, E, W, r, j) = P * Made(B, D, V, r, j) + c * Made(B, D, V, p, j)
      BY <1>8, <1>9
    <3> DEFINE u == Made(B, D, V, r, j)  v == Made(B, D, V, p, j)  x == m[j][k]
    <3>2. /\ h[j] = (P * u + c * v) * x /\ f[j] = u * x /\ g[j] = v * x
          /\ u \in Int /\ v \in Int /\ x \in Int
      BY <1>1, <1>4, <1>5, <3>1
    <3> HIDE DEF u, v, x, f, g, h, c, P
    <3>3. (P * u + c * v) * x = P * (u * x) + c * (v * x)
      BY <1>2, <2>0, <3>2
    <3> QED BY <3>2, <3>3, Zenon
  <2> HIDE DEF f, g, h, c, P
  <2>2. Sum(h) = P * Sum(f) + c * Sum(g)
    <3>1. \A j \in Place : f[j] \in Int /\ g[j] \in Int /\ h[j] = P * f[j] + c * g[j]
      BY <1>6, <2>1
    <3> QED BY <1>2, <2>0, <3>1, SumLinear
  <2>3. Left(T, E, W, r, k) = P * Left(B, D, V, r, k) + c * Left(B, D, V, p, k)
    BY <1>8, <1>10 DEF c
  <2> QED BY <1>3, <2>2, <2>3, Zenon DEF h
<1> QED BY <1>7, <1>8

\* At first nothing is done.
LEMMA OperatedFirst ==
  ASSUME NEW m \in IntMatrix
  PROVE  Operated(m, m, 1, Place)
<1> SUFFICES ASSUME NEW r \in Place, NEW k \in Place
             PROVE  Sum(Products(m, m, 1, Place, r, k)) = m[r][k]
  BY DEF Operated, Left
<1> DEFINE f == Products(m, m, 1, Place, r, k)
<1>1. ASSUME NEW j \in Place PROVE m[j][k] \in Int /\ f[j] = IF r = j THEN m[j][k] ELSE 0
  <2>1. m[j][k] \in Int
    BY DEF IntMatrix
  <2>2. f[j] = (IF r = j THEN 1 ELSE 0) * m[j][k]
    BY DEF Products, Made
  <2> HIDE DEF f
  <2> QED BY <2>1, <2>2
<1> HIDE DEF f
<1>2. \A j \in Place : f[j] \in Int /\ (j # r => f[j] = 0)
  BY <1>1
<1>3. Sum(f) = f[r]
  BY <1>2, SumSingle
<1> QED BY <1>1, <1>3 DEF f

\* Two rows not yet reduced are exchanged: the same row operations, done to the
\* matrix with these two rows exchanged.
LEMMA OperatedSwap ==
  ASSUME NEW B \in IntMatrix, NEW D \in Int, NEW V \in SUBSET Place, NEW p \in V, NEW q \in V,
         NEW m \in IntMatrix, Operated(m, B, D, V)
  PROVE  Operated(SwapRows(m, p, q), SwapRows(B, p, q), D, V)
<1> DEFINE n == SwapRows(m, p, q)  S == SwapRows(B, p, q)  x(r) == Exchanged(p, q, r)
<1>1. /\ p \in Place /\ q \in Place
      /\ \A r \in Place : n[r] = m[x(r)] /\ S[r] = B[x(r)]
  BY SquareIs, SwapRowsIs
<1>2. \A r \in Place : /\ x(r) \in Place /\ (r \in V <=> x(r) \in V)
                       /\ (r \notin V => x(r) = r)
  BY DEF Exchanged
<1>3. \A r, k \in Place : x(r) = x(k) <=> r = k
  BY DEF Exchanged
<1> HIDE DEF n, S
<1> SUFFICES ASSUME NEW r \in Place, NEW k \in Place
             PROVE  Sum(Products(n, S, D, V, r, k)) = Left(S, D, V, r, k)
  BY DEF Operated, n, S
<1> DEFINE f == Products(m, B, D, V, x(r), k)  g == Products(n, S, D, V, r, k)
<1>4. \A j \in Place : /\ f[j] = Made(B, D, V, x(r), j) * m[j][k]
                       /\ g[j] = Made(S, D, V, r, j) * n[j][k]
  BY DEF Products
<1> HIDE DEF f, g
<1>5. ASSUME NEW j \in Place PROVE g[j] = f[x(j)]
  <2>1. Made(S, D, V, r, j) = Made(B, D, V, x(r), x(j))
    <3>1. CASE j \in V
      <4> HIDE DEF x
      <4> QED BY <1>2, <1>3, <3>1 DEF Made
    <3>2. CASE j \notin V
      <4> HIDE DEF x
      <4> QED BY <1>1, <1>2, <3>2 DEF Made
    <3> QED BY <3>1, <3>2
  <2>2. n[j][k] = m[x(j)][k]
    BY <1>1
  <2> HIDE DEF x
  <2> QED BY <1>2, <1>4, <2>1, <2>2
<1>6. \A j \in Place : f[j] \in Int
  <2> TAKE j \in Place
  <2> HIDE DEF x
  <2>1. Made(B, D, V, x(r), j) \in Int /\ m[j][k] \in Int
    BY <1>2 DEF Made, IntMatrix
  <2> QED BY <1>4, <2>1, Product
<1>7. Sum(g) = Sum(f)
  <2>1. \A j \in Place : g[j] = f[Exchanged(p, q, j)]
    BY <1>5
  <2> QED BY <1>1, <1>6, <2>1, SumExchanged
<1>8. Sum(f) = Left(B, D, V, x(r), k)
  <2> HIDE DEF x
  <2> QED BY <1>2 DEF f, Operated
<1>9. Left(S, D, V, r, k) = Left(B, D, V, x(r), k)
  <2> HIDE DEF x
  <2>1. k \notin V => (r = k <=> x(r) = k)
    BY <1>2, <1>3
  <2> QED BY <1>1, <2>1 DEF Left
<1> QED BY <1>7, <1>8, <1>9 DEF g

\* Two columns of what is multiplied from the left are exchanged, and two rows of
\* what it is multiplied with: the product is the same.
LEMMA OperatedUnswap ==
  ASSUME NEW B \in IntMatrix, NEW D \in Int, NEW p \in Place, NEW q \in Place,
         NEW m \in IntMatrix, Operated(m, B, D, {})
  PROVE  Operated(SwapRows(m, p, q), SwapColumns(B, p, q), D, {})
<1> DEFINE n == SwapRows(m, p, q)  S == SwapColumns(B, p, q)  x(r) == Exchanged(p, q, r)
<1>1. \A r \in Place : n[r] = m[x(r)] /\ \A k \in Place : S[r][k] = B[r][x(k)]
  BY SquareIs, SwapRowsIs, SwapColumnsIs
<1>2. \A r \in Place : x(r) \in Place
  BY DEF Exchanged
<1> HIDE DEF n, S
<1> SUFFICES ASSUME NEW r \in Place, NEW k \in Place
             PROVE  Sum(Products(n, S, D, {}, r, k)) = Left(S, D, {}, r, k)
  BY DEF Operated, n, S
<1> DEFINE f == Products(m, B, D, {}, r, k)  g == Products(n, S, D, {}, r, k)
<1>3. \A j \in Place : f[j] = B[r][j] * m[j][k] /\ g[j] = S[r][j] * n[j][k]
  BY DEF Products, Made
<1> HIDE DEF f, g
<1>4. \A j \in Place : g[j] = f[x(j)]
  <2> HIDE DEF x
  <2> QED BY <1>1, <1>2, <1>3
<1>5. \A j \in Place : f[j] \in Int
  <2> TAKE j \in Place
  <2>1. B[r][j] \in Int /\ m[j][k] \in Int
    BY DEF IntMatrix
  <2> QED BY <1>3, <2>1, Product
<1>6. Sum(g) = Sum(f)
  <2>1. \A j \in Place : g[j] = f[Exchanged(p, q, j)]
    BY <1>4
  <2> QED BY <1>5, <2>1, SumExchanged
<1>7. Sum(f) = Left(B, D, {}, r, k) /\ Left(S, D, {}, r, k) = Left(B, D, {}, r, k)
  BY DEF f, Operated, Left
<1> QED BY <1>6, <1>7 DEF g

-----------------------------------------------------------------------------
(* The vectors the matrix takes to zero.  What is left of it takes the     *)
(* same ones to zero after every turn.                                     *)

Vector == [Place -> Int]

RowTerms(m, x, r)        == [k \in Place |-> m[r][k] * x[k]]
LeftTerms(B, D, V, x, r) == [k \in Place |-> Left(B, D, V, r, k) * x[k]]

Kills(m, x)          == \A r \in Place : Sum(RowTerms(m, x, r)) = 0
Vanishes(B, D, V, x) == \A r \in Place : Sum(LeftTerms(B, D, V, x, r)) = 0

SameKernel(m, B, D, V) == \A x \in Vector : Vanishes(B, D, V, x) <=> Kills(m, x)

Singular(m) == \E x \in Vector : (\E k \in Place : x[k] # 0) /\ Kills(m, x)

LEMMA LeftTerm ==
  ASSUME NEW B \in IntMatrix, NEW D \in Int, NEW V \in SUBSET Place, NEW x \in Vector,
         NEW r \in Place
  PROVE  /\ \A k \in Place : /\ Left(B, D, V, r, k) \in Int /\ x[k] \in Int
                             /\ LeftTerms(B, D, V, x, r)[k] = Left(B, D, V, r, k) * x[k]
                             /\ LeftTerms(B, D, V, x, r)[k] \in Int
         /\ Sum(LeftTerms(B, D, V, x, r)) \in Int
<1> DEFINE f == LeftTerms(B, D, V, x, r)
<1>1. \A k \in Place : /\ Left(B, D, V, r, k) \in Int /\ x[k] \in Int
                       /\ f[k] = Left(B, D, V, r, k) * x[k]
  BY DEF Left, LeftTerms, IntMatrix, Vector
<1> HIDE DEF f
<1>2. \A k \in Place : f[k] \in Int
  BY <1>1, Product
<1>3. Sum(f) \in Int
  BY <1>2, SumType
<1> QED BY <1>1, <1>2, <1>3 DEF f

LEMMA KernelFirst ==
  ASSUME NEW m \in IntMatrix
  PROVE  SameKernel(m, m, 1, Place)
<1>1. \A x \in Vector : \A r \in Place : LeftTerms(m, 1, Place, x, r) = RowTerms(m, x, r)
  BY DEF LeftTerms, RowTerms, Left
<1> QED BY <1>1, Zenon DEF SameKernel, Vanishes, Kills

LEMMA KernelSwap ==
  ASSUME NEW m, NEW B \in IntMatrix, NEW D \in Int, NEW V \in SUBSET Place,
         NEW p \in V, NEW q \in V, SameKernel(m, B, D, V)
  PROVE  SameKernel(m, SwapRows(B, p, q), D, V)
<1> DEFINE S == SwapRows(B, p, q)  y(r) == Exchanged(p, q, r)
<1>1. \A r \in Place : S[r] = B[y(r)]
  BY SquareIs, SwapRowsIs
<1>2. \A r \in Place : /\ y(r) \in Place /\ (r \notin V => y(r) = r) /\ (r \in V => y(r) \in V)
                       /\ y(y(r)) = r
  BY DEF Exchanged
<1> HIDE DEF S, y
<1> SUFFICES ASSUME NEW x \in Vector PROVE Vanishes(S, D, V, x) <=> Vanishes(B, D, V, x)
  BY DEF SameKernel, S
<1>3. \A r, k \in Place : Left(S, D, V, r, k) = Left(B, D, V, y(r), k)
  <2> TAKE r, k \in Place
  <2>1. k \notin V => (r = k <=> y(r) = k)
    BY <1>2
  <2> QED BY <1>1, <2>1 DEF Left
<1>4. \A r \in Place : LeftTerms(S, D, V, x, r) = LeftTerms(B, D, V, x, y(r))
  BY <1>3 DEF LeftTerms
<1> QED BY <1>2, <1>4 DEF Vanishes

LEMMA KernelTurn ==
  ASSUME NEW m, NEW B \in IntMatrix, NEW D \in Int, D # 0, NEW V \in SUBSET Place, NEW p \in V,
         B[p][p] # 0, SameKernel(m, B, D, V)
  PROVE  SameKernel(m, Turned(B, D, p), D * B[p][p], V \ {p})
<1> DEFINE T == Turned(B, D, p)  P == B[p][p]  E == D * P  W == V \ {p}
<1> SUFFICES ASSUME NEW x \in Vector PROVE Vanishes(T, E, W, x) <=> Vanishes(B, D, V, x)
  BY DEF SameKernel
<1>1. p \in Place /\ P \in Int /\ P # 0 /\ T \in IntMatrix /\ E \in Int /\ W \in SUBSET Place
      /\ \A r \in Place : B[r][p] \in Int
  <2>1. p \in Place /\ \A r \in Place : B[r][p] \in Int
    BY DEF IntMatrix
  <2> QED BY <2>1, TurnedIs
<1>2. \A r, k \in Place : RowTurns(B, D, V, p, P, T, E, W, r, k)
  <2> HIDE DEF T, E, W, P
  <2> QED BY RowsTurn, Zenon DEF T, E, W, P
<1> HIDE DEF T, E, W, P
<1> DEFINE f(r) == LeftTerms(B, D, V, x, r)  h(r) == LeftTerms(T, E, W, x, r)
<1>3. \A r, k \in Place : /\ Left(B, D, V, r, k) \in Int /\ x[k] \in Int
                          /\ f(r)[k] = Left(B, D, V, r, k) * x[k] /\ f(r)[k] \in Int
                          /\ h(r)[k] = Left(T, E, W, r, k) * x[k]
  <2>1. \A r, k \in Place : /\ Left(B, D, V, r, k) \in Int /\ x[k] \in Int
                            /\ f(r)[k] = Left(B, D, V, r, k) * x[k] /\ f(r)[k] \in Int
    BY LeftTerm
  <2>2. \A r, k \in Place : h(r)[k] = Left(T, E, W, r, k) * x[k]
    BY DEF LeftTerms
  <2> HIDE DEF f, h
  <2> QED BY <2>1, <2>2
<1>4. \A r \in Place : Sum(f(r)) \in Int
  BY LeftTerm
<1> HIDE DEF f, h
<1>5. ASSUME NEW r \in Place, r = p PROVE Sum(h(r)) = D * Sum(f(p))
  <2>1. ASSUME NEW k \in Place PROVE h(r)[k] = D * f(p)[k] + 0 * f(p)[k]
    <3> DEFINE u == Left(B, D, V, p, k)  s == x[k]
    <3>1. Left(T, E, W, r, k) = D * u
      BY <1>2, <1>5, Zenon DEF RowTurns
    <3>2. u \in Int /\ s \in Int /\ f(p)[k] = u * s /\ h(r)[k] = (D * u) * s
      BY <1>1, <1>3, <3>1
    <3> HIDE DEF u, s
    <3>3. (D * u) * s = D * (u * s) + 0 * (u * s)
      BY <3>2
    <3> QED BY <3>2, <3>3, Zenon
  <2>2. Sum(h(r)) = D * Sum(f(p)) + 0 * Sum(f(p))
    <3> DEFINE F == f(p)  G == h(r)
    <3>1. \A k \in Place : F[k] \in Int /\ F[k] \in Int /\ G[k] = D * F[k] + 0 * F[k]
      BY <1>1, <1>3, <2>1
    <3>2. 0 \in Int
      OBVIOUS
    <3> HIDE DEF F, G
    <3>3. Sum(G) = D * Sum(F) + 0 * Sum(F)
      BY <3>1, <3>2, SumLinear
    <3> QED BY <3>3 DEF F, G
  <2> DEFINE t == Sum(f(p))
  <2>3. t \in Int
    BY <1>1, <1>4
  <2> HIDE DEF t
  <2>4. D * t + 0 * t = D * t
    BY <2>3
  <2> QED BY <2>2, <2>4 DEF t
<1>6. ASSUME NEW r \in Place, r # p
      PROVE  Sum(h(r)) = P * Sum(f(r)) + (-B[r][p]) * Sum(f(p))
  <2> DEFINE c == -B[r][p]
  <2>0. c \in Int
    BY <1>1
  <2>1. ASSUME NEW k \in Place PROVE h(r)[k] = P * f(r)[k] + c * f(p)[k]
    <3> DEFINE u == Left(B, D, V, r, k)  v == Left(B, D, V, p, k)  s == x[k]
    <3>1. Left(T, E, W, r, k) = P * u + c * v
      BY <1>2, <1>6, Zenon DEF RowTurns
    <3>2. /\ u \in Int /\ v \in Int /\ s \in Int /\ f(r)[k] = u * s /\ f(p)[k] = v * s
          /\ h(r)[k] = (P * u + c * v) * s
      BY <1>1, <1>3, <3>1
    <3> HIDE DEF u, v, s, c
    <3>3. (P * u + c * v) * s = P * (u * s) + c * (v * s)
      BY <1>1, <2>0, <3>2
    <3> QED BY <3>2, <3>3, Zenon
  <2> DEFINE F == f(r)  G == f(p)  H == h(r)
  <2>2. \A k \in Place : F[k] \in Int /\ G[k] \in Int /\ H[k] = P * F[k] + c * G[k]
    BY <1>1, <1>3, <2>1
  <2> HIDE DEF F, G, H, c
  <2>3. Sum(H) = P * Sum(F) + c * Sum(G)
    BY <1>1, <2>0, <2>2, SumLinear
  <2> QED BY <2>3 DEF F, G, H, c
<1>7. ASSUME Vanishes(B, D, V, x) PROVE Vanishes(T, E, W, x)
  <2> SUFFICES ASSUME NEW r \in Place PROVE Sum(h(r)) = 0
    BY DEF Vanishes, h
  <2>1. Sum(f(r)) = 0 /\ Sum(f(p)) = 0
    BY <1>1, <1>7 DEF Vanishes, f
  <2>2. CASE r = p
    <3>1. Sum(h(r)) = D * 0
      BY <1>5, <2>1, <2>2
    <3> QED BY <3>1
  <2>3. CASE r # p
    <3> DEFINE c == -B[r][p]
    <3>1. Sum(h(r)) = P * 0 + c * 0 /\ c \in Int
      BY <1>1, <1>6, <2>1, <2>3
    <3> HIDE DEF c
    <3> QED BY <1>1, <3>1
  <2> QED BY <2>2, <2>3
<1>8. ASSUME Vanishes(T, E, W, x) PROVE Vanishes(B, D, V, x)
  <2>1. \A r \in Place : Sum(h(r)) = 0
    BY <1>8 DEF Vanishes, h
  <2>2. Sum(f(p)) = 0
    <3>1. D * Sum(f(p)) = 0 /\ Sum(f(p)) \in Int
      BY <1>1, <1>4, <1>5, <2>1
    <3> QED BY <3>1, Product
  <2>3. ASSUME NEW r \in Place, r # p PROVE Sum(f(r)) = 0
    <3> DEFINE c == -B[r][p]  s == Sum(f(r))
    <3>1. 0 = P * s + c * 0 /\ c \in Int /\ s \in Int
      BY <1>1, <1>4, <1>6, <2>1, <2>2, <2>3
    <3> HIDE DEF c, s
    <3>2. P * s = 0
      <4>1. c * 0 = 0 /\ P * s \in Int
        BY <1>1, <3>1
      <4> QED BY <3>1, <4>1
    <3>3. s = 0
      BY <1>1, <3>1, <3>2, Product
    <3> QED BY <3>3 DEF s
  <2> QED BY <2>2, <2>3 DEF Vanishes, f
<1> QED BY <1>7, <1>8

\* When all columns are reduced, zero alone is taken to zero;
LEMMA KernelLast ==
  ASSUME NEW m, NEW B \in IntMatrix, NEW D \in Int, D # 0, SameKernel(m, B, D, {})
  PROVE  ~ Singular(m)
<1> SUFFICES ASSUME NEW x \in Vector, NEW k \in Place, x[k] # 0, Vanishes(B, D, {}, x)
             PROVE  FALSE
  BY DEF Singular, SameKernel
<1> DEFINE f == LeftTerms(B, D, {}, x, k)
<1>1. \A j \in Place : /\ x[j] \in Int /\ f[j] \in Int
                       /\ f[j] = Left(B, D, {}, k, j) * x[j]
                       /\ Left(B, D, {}, k, j) = IF k = j THEN D ELSE 0
  <2>1. \A j \in Place : Left(B, D, {}, k, j) = IF k = j THEN D ELSE 0
    BY DEF Left
  <2> QED BY <2>1, LeftTerm
<1> HIDE DEF f
<1>2. \A j \in Place : j # k => f[j] = 0
  <2> TAKE j \in Place
  <2>1. j # k => f[j] = 0 * x[j]
    BY <1>1
  <2>2. 0 * x[j] = 0
    BY <1>1
  <2> QED BY <2>1, <2>2
<1>3. Sum(f) = f[k]
  BY <1>1, <1>2, SumSingle
<1>4. f[k] = D * x[k] /\ x[k] \in Int
  BY <1>1
<1>5. D * x[k] # 0
  BY <1>4, Product
<1> QED BY <1>3, <1>4, <1>5 DEF f, Vanishes

\* and when what is left is all zero, another vector is too.
LEMMA KernelFound ==
  ASSUME NEW m, NEW B \in IntMatrix, NEW D \in Int, D # 0, NEW V \in SUBSET Place, NEW p \in V,
         \A r, k \in V : B[r][k] = 0, SameKernel(m, B, D, V)
  PROVE  Singular(m)
<1> DEFINE x == [k \in Place |-> IF k = p THEN D ELSE IF k \in V THEN 0 ELSE -B[k][p]]
<1>1. p \in Place /\ \A r, k \in Place : B[r][k] \in Int
  BY DEF IntMatrix
<1>2. x \in Vector /\ \A k \in Place : x[k] = IF k = p THEN D ELSE IF k \in V THEN 0 ELSE -B[k][p]
  BY <1>1 DEF Vector
<1> HIDE DEF x
<1>3. ASSUME NEW r \in Place PROVE Sum(LeftTerms(B, D, V, x, r)) = 0
  <2> DEFINE f == LeftTerms(B, D, V, x, r)
  <2>1. \A k \in Place : /\ x[k] \in Int /\ f[k] \in Int /\ f[k] = Left(B, D, V, r, k) * x[k]
                         /\ Left(B, D, V, r, k) \in Int
                         /\ Left(B, D, V, r, k) = IF k \in V THEN B[r][k] ELSE IF r = k THEN D ELSE 0
    <3>1. \A k \in Place : Left(B, D, V, r, k) = IF k \in V THEN B[r][k] ELSE IF r = k THEN D ELSE 0
      BY DEF Left
    <3> QED BY <1>2, <3>1, LeftTerm
  <2> HIDE DEF f
  <2>2. ASSUME NEW k \in Place, Left(B, D, V, r, k) = 0 \/ x[k] = 0 PROVE f[k] = 0
    <3> DEFINE u == Left(B, D, V, r, k)  s == x[k]
    <3>1. u \in Int /\ s \in Int /\ f[k] = u * s /\ (u = 0 \/ s = 0)
      BY <2>1, <2>2
    <3> HIDE DEF u, s
    <3>2. u * s = 0
      BY <3>1
    <3> QED BY <3>1, <3>2
  <2>3. CASE r \in V
    <3>1. \A k \in Place : Left(B, D, V, r, k) = 0
      BY <2>1, <2>3
    <3>2. \A k \in Place : f[k] \in Int /\ f[k] = 0
      BY <2>1, <2>2, <3>1
    <3>3. Sum(f) = f[p]
      BY <1>1, <3>2, SumSingle
    <3> QED BY <1>1, <3>2, <3>3 DEF f
  <2>4. CASE r \notin V
    <3>1. ASSUME NEW k \in Place, k # p, k # r PROVE f[k] = 0
      <4>1. Left(B, D, V, r, k) = 0 \/ x[k] = 0
        BY <1>2, <2>1, <3>1
      <4> QED BY <2>2, <4>1
    <3>2. r # p
      BY <2>4
    <3>3. Sum(f) = f[p] + f[r]
      BY <1>1, <2>1, <3>1, <3>2, SumOfTwo
    <3> DEFINE b == B[r][p]
    <3>4. f[p] = b * D /\ f[r] = D * (-b) /\ b \in Int
      BY <1>1, <1>2, <2>1, <2>4, <3>2
    <3> HIDE DEF b
    <3>5. b * D + D * (-b) = 0
      BY <3>4
    <3> QED BY <3>3, <3>4, <3>5 DEF f
  <2> QED BY <2>3, <2>4
<1>4. Vanishes(B, D, V, x) /\ x[p] # 0
  BY <1>1, <1>2, <1>3 DEF Vanishes
<1> QED BY <1>1, <1>2, <1>4 DEF Singular, SameKernel

-----------------------------------------------------------------------------
(* What dominates.  On the columns V the matrix is symmetric and each      *)
(* diagonal element larger than the others of its row together; a turn     *)
(* leaves it so on the columns that remain.                                *)

OffTerms(B, V, j) == [k \in Place |-> IF k \in V /\ k # j THEN Size(B[j][k]) ELSE 0]
Off(B, V, j)      == Sum(OffTerms(B, V, j))

Dominates(B, V) ==
  \A j \in V : /\ B[j][j] > Off(B, V, j)
               /\ \A k \in V : B[j][k] = B[k][j]

LEMMA OffTerm ==
  ASSUME NEW B \in IntMatrix, NEW V \in SUBSET Place, NEW j \in Place
  PROVE  /\ \A k \in Place : OffTerms(B, V, j)[k] \in Nat
         /\ Off(B, V, j) \in Nat
         /\ \A k \in Place : k \in V /\ k # j => OffTerms(B, V, j)[k] = Size(B[j][k])
         /\ \A k \in Place : ~ (k \in V /\ k # j) => OffTerms(B, V, j)[k] = 0
<1> DEFINE f == OffTerms(B, V, j)  o == [k \in Place |-> 0]
<1>1. \A k \in Place : B[j][k] \in Int
  BY DEF IntMatrix
<1>2. \A k \in Place : f[k] = IF k \in V /\ k # j THEN Size(B[j][k]) ELSE 0
  BY DEF OffTerms
<1>3. \A k \in Place : Size(B[j][k]) \in Nat
  BY <1>1, SizeIs
<1> HIDE DEF f
<1>4. \A k \in Place : f[k] \in Nat
  BY <1>2, <1>3
<1>5. \A k \in Place : o[k] = 0
  OBVIOUS
<1> HIDE DEF o
<1>6. Sum(o) = 0
  BY <1>5, SumSingle
<1>7. Sum(o) <= Sum(f)
  <2>1. \A k \in Place : o[k] \in Int /\ f[k] \in Int /\ o[k] <= f[k]
    BY <1>4, <1>5
  <2> QED BY <2>1, SumLeq
<1>8. Sum(f) \in Int
  BY <1>4, SumType
<1> QED BY <1>2, <1>4, <1>6, <1>7, <1>8 DEF f, Off

\* One of the others is at most all of them, and what is left without it.
LEMMA OffWithout ==
  ASSUME NEW B \in IntMatrix, NEW V \in SUBSET Place, NEW j \in Place, NEW p \in V, p # j,
         NEW f, f = [k \in Place |-> IF k = p THEN 0 ELSE OffTerms(B, V, j)[k]]
  PROVE  /\ \A k \in Place : f[k] \in Nat
         /\ Sum(f) = Off(B, V, j) - Size(B[j][p])
         /\ Size(B[j][p]) \in Nat /\ Size(B[j][p]) <= Off(B, V, j)
<1> DEFINE g == OffTerms(B, V, j)  q == Size(B[j][p])
           e == [k \in Place |-> IF k = p THEN q ELSE 0]
<1>1. p \in Place
  OBVIOUS
<1>2. /\ \A k \in Place : g[k] \in Nat
      /\ Off(B, V, j) \in Nat /\ Off(B, V, j) = Sum(g)
      /\ g[p] = q
  BY <1>1, OffTerm DEF Off
<1>3. q \in Nat
  BY <1>1, <1>2
<1>4. \A k \in Place : f[k] = IF k = p THEN 0 ELSE g[k]
  OBVIOUS
<1>5. \A k \in Place : e[k] = IF k = p THEN q ELSE 0
  OBVIOUS
<1> HIDE DEF g, q, e
<1>6. \A k \in Place : e[k] \in Int /\ (k # p => e[k] = 0)
  BY <1>3, <1>5
<1>7. Sum(e) = q
  <2>1. Sum(e) = e[p]
    BY <1>1, <1>6, SumSingle
  <2> QED BY <1>1, <1>5, <2>1
<1>8. \A k \in Place : f[k] \in Nat /\ f[k] = 1 * g[k] + (-1) * e[k]
  BY <1>2, <1>3, <1>4, <1>5
<1>9. Sum(f) = 1 * Sum(g) + (-1) * Sum(e)
  <2>1. \A k \in Place : g[k] \in Int /\ e[k] \in Int /\ f[k] = 1 * g[k] + (-1) * e[k]
    BY <1>2, <1>6, <1>8
  <2>2. 1 \in Int /\ -1 \in Int
    OBVIOUS
  <2> QED BY <2>1, <2>2, SumLinear
<1>10. q <= Off(B, V, j)
  <2>1. \A k \in Place : e[k] \in Int /\ g[k] \in Int /\ e[k] <= g[k]
    BY <1>2, <1>3, <1>5
  <2>2. Sum(e) <= Sum(g)
    BY <2>1, SumLeq
  <2> QED BY <1>2, <1>7, <2>2
<1> QED BY <1>2, <1>3, <1>7, <1>8, <1>9, <1>10 DEF q

LEMMA SizeTurn ==
  ASSUME NEW v \in Int, NEW u \in Int, NEW b \in Int, NEW P \in Nat
  PROVE  Size(v * P - u * b) <= P * Size(v) + Size(b) * Size(u)
<1> DEFINE x == Size(v)  y == Size(u)  z == Size(b)
<1>1. /\ x \in Nat /\ (v = x \/ v = -x)
      /\ y \in Nat /\ (u = y \/ u = -y)
      /\ z \in Nat /\ (b = z \/ b = -z)
  BY SizeIs
<1> HIDE DEF x, y, z
<1>2. P * x \in Nat /\ z * y \in Nat
  BY <1>1
<1>3. v * P = P * x \/ v * P = -(P * x)
  <2>1. x * P = P * x /\ (-x) * P = -(P * x)
    BY <1>1
  <2> QED BY <1>1, <2>1, Zenon
<1>4. u * b = z * y \/ u * b = -(z * y)
  <2>1. y * z = z * y /\ y * (-z) = -(z * y) /\ (-y) * z = -(z * y) /\ (-y) * (-z) = z * y
    BY <1>1
  <2> QED BY <1>1, <2>1, Zenon
<1> DEFINE m == P * x  n == z * y  s == v * P  t == u * b
<1>5. m \in Nat /\ n \in Nat /\ (s = m \/ s = -m) /\ (t = n \/ t = -n)
  BY <1>2, <1>3, <1>4
<1> HIDE DEF m, n, s, t
<1>6. Size(s - t) <= m + n
  BY <1>5 DEF Size
<1> QED BY <1>6 DEF m, n, s, t, x, y, z

\* The Schur complement of a dominating diagonal has one.
LEMMA DominatesTurn ==
  ASSUME NEW B \in IntMatrix, NEW D \in Int, NEW V \in SUBSET Place, NEW p \in V,
         Dominates(B, V)
  PROVE  B[p][p] > 0 /\ Dominates(Turned(B, D, p), V \ {p})
<1> DEFINE T == Turned(B, D, p)  W == V \ {p}  P == B[p][p]  S == Off(B, V, p)
<1>1. p \in Place /\ T \in IntMatrix /\ \A r, k \in Place : B[r][k] \in Int
  BY TurnedIs DEF IntMatrix
<1>2. S \in Nat /\ P \in Int /\ P > S
  BY <1>1, OffTerm DEF Dominates
<1>3. P > 0 /\ P \in Nat
  BY <1>2
<1> SUFFICES ASSUME NEW r \in W
             PROVE  T[r][r] > Off(T, W, r) /\ \A k \in W : T[r][k] = T[k][r]
  BY <1>3 DEF Dominates
<1>4. r \in V /\ r # p /\ r \in Place /\ W \in SUBSET Place
  OBVIOUS
<1>5. \A s, k \in W : T[s][k] = B[s][k] * P - B[p][k] * B[s][p]
  BY <1>1, TurnedAway
<1>6. \A s, k \in V : B[s][k] = B[k][s]
  BY DEF Dominates
<1>7. \A k \in W : T[r][k] = T[k][r]
  <2> TAKE k \in W
  <2> DEFINE v == B[r][k]  u == B[p][k]  b == B[r][p]
  <2>1. T[r][k] = v * P - u * b
    BY <1>5
  <2>2. T[k][r] = v * P - b * u
    <3>1. T[k][r] = B[k][r] * P - B[p][r] * B[k][p]
      BY <1>5
    <3>2. B[k][r] = v /\ B[p][r] = b /\ B[k][p] = u
      BY <1>4, <1>6
    <3> QED BY <3>1, <3>2, Zenon
  <2>3. u \in Int /\ b \in Int
    BY <1>1
  <2> HIDE DEF u, b, v
  <2>4. u * b = b * u
    BY <2>3
  <2> QED BY <2>1, <2>2, <2>4
<1> DEFINE R == Off(B, V, r)  b == B[r][p]  q == Size(b)  d == B[r][r]
           f == [k \in Place |-> IF k = p THEN 0 ELSE OffTerms(B, V, r)[k]]
           g == [k \in Place |-> IF k = r THEN 0 ELSE OffTerms(B, V, p)[k]]
           h == OffTerms(T, W, r)
           H == [k \in Place |-> P * f[k] + q * g[k]]
<1>8. B[p][r] = b /\ b \in Int /\ d \in Int /\ d > R /\ R \in Nat
  BY <1>1, <1>4, <1>6, OffTerm DEF Dominates
<1>9. (\A k \in Place : f[k] \in Nat) /\ Sum(f) = R - q /\ q \in Nat /\ q <= R
  <2> HIDE DEF f
  <2>1. f = [k \in Place |-> IF k = p THEN 0 ELSE OffTerms(B, V, r)[k]]
    BY DEF f
  <2> QED BY <1>4, <2>1, OffWithout
<1>10. (\A k \in Place : g[k] \in Nat) /\ Sum(g) = S - q /\ q <= S
  <2> HIDE DEF g
  <2>1. g = [k \in Place |-> IF k = r THEN 0 ELSE OffTerms(B, V, p)[k]]
    BY DEF g
  <2>2. Size(B[p][r]) = q
    BY <1>8
  <2> QED BY <1>1, <1>4, <2>1, <2>2, OffWithout
<1>20. \A k \in Place :
          /\ h[k] = IF k \in W /\ k # r THEN Size(T[r][k]) ELSE 0
          /\ f[k] = IF k # p /\ k \in V /\ k # r THEN Size(B[r][k]) ELSE 0
          /\ g[k] = IF k # r /\ k \in V /\ k # p THEN Size(B[p][k]) ELSE 0
          /\ h[k] \in Nat
  <2>1. \A k \in Place : h[k] = IF k \in W /\ k # r THEN Size(T[r][k]) ELSE 0
    <3> HIDE DEF T, W
    <3> QED BY DEF OffTerms
  <2>2. \A k \in Place : OffTerms(T, W, r)[k] \in Nat
    <3> HIDE DEF T, W
    <3> QED BY <1>1, <1>4, OffTerm
  <2>3. \A k \in Place : f[k] = IF k # p /\ k \in V /\ k # r THEN Size(B[r][k]) ELSE 0
    BY DEF OffTerms
  <2>4. \A k \in Place : g[k] = IF k # r /\ k \in V /\ k # p THEN Size(B[p][k]) ELSE 0
    BY DEF OffTerms
  <2> HIDE DEF f, g, T, W
  <2> QED BY <2>1, <2>2, <2>3, <2>4
<1>11. ASSUME NEW k \in Place PROVE h[k] \in Nat /\ H[k] \in Nat /\ h[k] <= H[k]
  <2> DEFINE x == f[k]  y == g[k]
  <2>1. x \in Nat /\ y \in Nat /\ H[k] = P * x + q * y
    BY <1>9, <1>10
  <2>2. H[k] \in Nat
    <3> HIDE DEF x, y, q, P, H
    <3>1. P * x \in Nat /\ q * y \in Nat
      BY <1>3, <1>9, <2>1
    <3> QED BY <2>1, <3>1
  <2>3. h[k] \in Nat
    BY <1>20
  <2>4. CASE k \in W /\ k # r
    <3> DEFINE v == B[r][k]  u == B[p][k]
    <3>1. h[k] = Size(v * P - u * b)
      <4>1. h[k] = Size(T[r][k])
        BY <1>20, <2>4
      <4>2. T[r][k] = v * P - u * b
        BY <1>5, <2>4
      <4> QED BY <4>1, <4>2, Zenon
    <3>2. x = Size(v) /\ y = Size(u)
      <4> HIDE DEF f, g, h, T
      <4> QED BY <1>20, <2>4
    <3>4. v \in Int /\ u \in Int
      BY <1>1, <1>4
    <3>5. Size(v * P - u * b) <= P * Size(v) + q * Size(u)
      <4> HIDE DEF P, u, v, b
      <4> QED BY <1>3, <1>8, <3>4, SizeTurn
    <3> HIDE DEF h, H, x, y
    <3>6. H[k] = P * Size(v) + q * Size(u)
      BY <2>1, <3>2, Zenon
    <3>7. h[k] <= H[k]
      BY <3>1, <3>5, <3>6
    <3> QED BY <2>2, <2>3, <3>7
  <2>5. CASE ~ (k \in W /\ k # r)
    <3>1. h[k] = 0
      <4> HIDE DEF f, g, h, T, W
      <4> QED BY <1>20, <2>5
    <3> QED BY <2>2, <2>3, <3>1
  <2> QED BY <2>4, <2>5
<1>12. H = [k \in Place |-> P * f[k] + q * g[k]]
  BY DEF H
<1>13. T[r][r] = d * P - b * b
  BY <1>5, <1>8
<1> HIDE DEF h, H, f, g, P, q, R, S, d, b, T
<1>14. Sum(h) <= Sum(H)
  <2>1. \A k \in Place : h[k] \in Int /\ H[k] \in Int /\ h[k] <= H[k]
    BY <1>11
  <2> QED BY <2>1, SumLeq
<1>15. Sum(H) = P * (R - q) + q * (S - q)
  <2>1. \A k \in Place : f[k] \in Int /\ g[k] \in Int /\ H[k] = P * f[k] + q * g[k]
    BY <1>9, <1>10, <1>12
  <2>2. Sum(H) = P * Sum(f) + q * Sum(g)
    BY <1>3, <1>9, <2>1, SumLinear
  <2> QED BY <1>9, <1>10, <2>2, Zenon
<1>16. b * b = q * q
  <2>1. b = q \/ b = -q
    BY <1>8, SizeIs DEF q
  <2>2. (-q) * (-q) = q * q
    BY <1>9
  <2> QED BY <2>1, <2>2, Zenon
<1>17. d * P - q * q > P * (R - q) + q * (S - q)
  <2> DEFINE m == d - (R + 1)  n == P - (S + 1)
  <2>1. m \in Nat /\ n \in Nat /\ d = R + 1 + m /\ S = P - 1 - n
    BY <1>2, <1>8
  <2> HIDE DEF m, n
  <2>2. P \in Nat /\ P > 0 /\ q \in Nat /\ R \in Nat
    BY <1>3, <1>8, <1>9
  <2>3. d * P - q * q = R * P + P + m * P - q * q
    BY <2>1, <2>2
  <2>4. P * (R - q) + q * (S - q) = R * P - q - q * n - q * q
    BY <2>1, <2>2
  <2> DEFINE mp == m * P  qn == q * n  rp == R * P  qq == q * q
  <2>5. mp \in Nat /\ qn \in Nat /\ rp \in Nat /\ qq \in Nat
    BY <2>1, <2>2
  <2> HIDE DEF mp, qn, rp, qq
  <2>6. rp + P + mp - qq > rp - q - qn - qq
    BY <2>2, <2>5
  <2> QED BY <2>3, <2>4, <2>6 DEF mp, qn, rp, qq
<1>18. T[r][r] > Sum(h)
  <2> DEFINE s == Sum(h)  t == Sum(H)
  <2>1. s \in Int /\ t \in Int
    <3>1. \A k \in Place : h[k] \in Int /\ H[k] \in Int
      BY <1>11
    <3> QED BY <3>1, SumType
  <2>2. T[r][r] \in Int
    BY <1>1, <1>4 DEF IntMatrix
  <2>3. T[r][r] > t
    BY <1>13, <1>15, <1>16, <1>17
  <2> HIDE DEF s, t
  <2> QED BY <1>14, <2>1, <2>2, <2>3 DEF s, t
<1> QED BY <1>7, <1>18 DEF h, Off

\* What Dominant asks of the matrix given is what the turns preserve.
LEMMA DominatesFirst ==
  ASSUME NEW m \in IntMatrix, Dominant(m)
  PROVE  Dominates(m, Place)
<1> DEFINE sum(j) == CHOOSE s : s = [n \in 0..N |-> IF n = 0 THEN 0
                                                    ELSE s[n - 1] + Size(m[j][n - 1])]
<1>1. \A j \in Place : /\ m[j][j] > sum(j)[N] - Size(m[j][j])
                       /\ \A k \in Place : m[j][k] = m[k][j]
  BY DEF Dominant
<1> SUFFICES ASSUME NEW j \in Place PROVE m[j][j] > Off(m, Place, j)
  BY <1>1 DEF Dominates
<1> DEFINE f == [k \in Place |-> Size(m[j][k])]  g == OffTerms(m, Place, j)  d == Size(m[j][j])
           e == [k \in Place |-> IF k = j THEN d ELSE 0]
<1>2. \A k \in Place : m[j][k] \in Int /\ Size(m[j][k]) \in Nat
  <2>1. \A k \in Place : m[j][k] \in Int
    BY DEF IntMatrix
  <2> QED BY <2>1, SizeIs
<1>3. /\ \A k \in Place : f[k] \in Int /\ f[k] = Size(m[j][k])
      /\ \A k \in Place : g[k] \in Int /\ g[k] = IF k # j THEN Size(m[j][k]) ELSE 0
      /\ \A k \in Place : e[k] \in Int /\ e[k] = IF k = j THEN d ELSE 0
      /\ d \in Int
  BY <1>2 DEF OffTerms
<1> HIDE DEF f, g, e
<1>4. sum(j)[N] = Sum(f)
  <2> DEFINE s == sum(j)
  <2>1. PICK t : IsSum(f, N, t)
    BY SumExists, SizeN
  <2>2. t = [n \in 0..N |-> IF n = 0 THEN 0 ELSE t[n - 1] + Size(m[j][n - 1])]
    <3>1. \A n \in 0..N : n = 0 \/ f[n - 1] = Size(m[j][n - 1])
      BY <1>3, SizeN
    <3> QED BY <2>1, <3>1 DEF IsSum
  <2>3. s = [n \in 0..N |-> IF n = 0 THEN 0 ELSE s[n - 1] + Size(m[j][n - 1])]
    BY <2>2
  <2> HIDE DEF s
  <2>4. \A n \in 0..N : s[n] = IF n = 0 THEN 0 ELSE s[n - 1] + Size(m[j][n - 1])
    BY <2>3
  <2>5. s[0] = 0
    BY <2>4, SizeN
  <2>6. ASSUME NEW k \in Place PROVE s[k + 1] = s[k] + f[k]
    <3>1. k + 1 \in 0..N /\ k + 1 # 0 /\ (k + 1) - 1 = k
      BY SizeN
    <3> QED BY <1>3, <2>4, <3>1
  <2>7. s[N] = Sum(f)
    BY <1>3, <2>5, <2>6, SumUnique
  <2> QED BY <2>7 DEF s
<1>5. Sum(g) = 1 * Sum(f) + (-1) * Sum(e)
  <2>1. \A k \in Place : f[k] \in Int /\ e[k] \in Int /\ g[k] = 1 * f[k] + (-1) * e[k]
    BY <1>3
  <2>2. 1 \in Int /\ -1 \in Int
    OBVIOUS
  <2> QED BY <2>1, <2>2, SumLinear
<1>6. Sum(e) = d
  BY <1>3, SumSingle
<1>7. m[j][j] > Sum(f) - d /\ Sum(f) \in Int
  <2>1. Sum(f) \in Int
    BY <1>3, SumType
  <2> QED BY <1>1, <1>4, <2>1
<1> HIDE DEF d
<1>8. m[j][j] > Sum(g)
  BY <1>3, <1>5, <1>6, <1>7
<1> QED BY <1>8 DEF g, Off

-----------------------------------------------------------------------------
(* What is positive definite on the columns V: symmetric, and its form     *)
(* positive at every vector but zero that is zero outside V.  (A matrix of *)
(* integers that is so for vectors of integers is so for all.)  What is    *)
(* left after a turn is again.                                             *)

FormTerms(B, x) == [r \in Place |-> x[r] * Sum(RowTerms(B, x, r))]
Form(B, x)      == Sum(FormTerms(B, x))

Positive(B, V) ==
  /\ \A j, k \in V : B[j][k] = B[k][j]
  /\ \A x \in Vector :
       /\ \E k \in Place : x[k] # 0
       /\ \A k \in Place : k \notin V => x[k] = 0
       => Form(B, x) > 0

PositiveDefinite(m) == Positive(m, Place)

LEMMA FormType ==
  ASSUME NEW B \in IntMatrix, NEW x \in Vector
  PROVE  /\ Form(B, x) \in Int /\ \A r \in Place : x[r] \in Int
         /\ \A r \in Place : /\ Sum(RowTerms(B, x, r)) \in Int
                             /\ FormTerms(B, x)[r] = x[r] * Sum(RowTerms(B, x, r))
                             /\ FormTerms(B, x)[r] \in Int
         /\ \A r, k \in Place : /\ B[r][k] \in Int
                                /\ RowTerms(B, x, r)[k] = B[r][k] * x[k]
                                /\ RowTerms(B, x, r)[k] \in Int
<1>1. (\A r \in Place : x[r] \in Int) /\ \A r, k \in Place : B[r][k] \in Int
  BY DEF IntMatrix, Vector
<1>2. \A r, k \in Place : RowTerms(B, x, r)[k] = B[r][k] * x[k] /\ RowTerms(B, x, r)[k] \in Int
  BY <1>1, Product DEF RowTerms
<1>3. \A r \in Place : Sum(RowTerms(B, x, r)) \in Int
  BY <1>2, SumType
<1>4. \A r \in Place : /\ FormTerms(B, x)[r] = x[r] * Sum(RowTerms(B, x, r))
                       /\ FormTerms(B, x)[r] \in Int
  BY <1>1, <1>3, Product DEF FormTerms
<1>5. Form(B, x) \in Int
  BY <1>4, SumType DEF Form
<1> QED BY <1>1, <1>2, <1>3, <1>4, <1>5

\* The form at a vector of two members.
LEMMA FormOfTwo ==
  ASSUME NEW B \in IntMatrix, NEW p \in Place, NEW q \in Place, p # q, NEW e \in Int,
         NEW x, x = [k \in Place |-> IF k = p THEN 1 ELSE IF k = q THEN e ELSE 0]
  PROVE  /\ x \in Vector /\ x[p] # 0
         /\ Form(B, x) = (B[p][p] + e * B[p][q]) + e * (B[q][p] + e * B[q][q])
<1>1. x \in Vector /\ x[p] = 1 /\ x[q] = e /\ \A k \in Place : k # p /\ k # q => x[k] = 0
  BY DEF Vector
<1>2. ASSUME NEW r \in Place
      PROVE  Sum(RowTerms(B, x, r)) = B[r][p] + e * B[r][q]
  <2> DEFINE f == RowTerms(B, x, r)
  <2>1. \A k \in Place : B[r][k] \in Int /\ f[k] = B[r][k] * x[k] /\ f[k] \in Int
    BY <1>1, FormType
  <2> HIDE DEF f
  <2>2. \A k \in Place : k # p /\ k # q => f[k] = 0
    <3> TAKE k \in Place
    <3>1. k # p /\ k # q => f[k] = B[r][k] * 0
      BY <1>1, <2>1
    <3>2. B[r][k] * 0 = 0
      BY <2>1
    <3> QED BY <3>1, <3>2
  <2>3. Sum(f) = f[p] + f[q]
    BY <2>1, <2>2, SumOfTwo
  <2>4. f[p] = B[r][p] /\ f[q] = e * B[r][q]
    <3>1. f[p] = B[r][p] * 1 /\ f[q] = B[r][q] * e /\ B[r][p] \in Int /\ B[r][q] \in Int
      BY <1>1, <2>1
    <3> DEFINE u == B[r][p]  v == B[r][q]
    <3>2. u * 1 = u /\ v * e = e * v
      <4> HIDE DEF u, v
      <4> QED BY <3>1 DEF u, v
    <3> QED BY <3>1, <3>2, Zenon
  <2> QED BY <2>3, <2>4 DEF f
<1> DEFINE g == FormTerms(B, x)
<1>3. \A r \in Place : g[r] = x[r] * Sum(RowTerms(B, x, r)) /\ g[r] \in Int
                       /\ Sum(RowTerms(B, x, r)) \in Int
  BY <1>1, FormType
<1> HIDE DEF g
<1>4. \A r \in Place : r # p /\ r # q => g[r] = 0
  <2> TAKE r \in Place
  <2> DEFINE s == Sum(RowTerms(B, x, r))
  <2>1. r # p /\ r # q => g[r] = 0 * s
    BY <1>1, <1>3
  <2>2. 0 * s = 0
    <3>1. s \in Int
      BY <1>3
    <3> HIDE DEF s
    <3> QED BY <3>1
  <2> QED BY <2>1, <2>2
<1>5. Sum(g) = g[p] + g[q]
  BY <1>3, <1>4, SumOfTwo
<1>6. g[p] = B[p][p] + e * B[p][q] /\ g[q] = e * (B[q][p] + e * B[q][q])
  <2> DEFINE s == Sum(RowTerms(B, x, p))
  <2>1. g[p] = 1 * s /\ s \in Int /\ s = B[p][p] + e * B[p][q]
    BY <1>1, <1>2, <1>3
  <2>2. 1 * s = s
    <3> HIDE DEF s
    <3> QED BY <2>1
  <2>3. g[q] = e * (B[q][p] + e * B[q][q])
    BY <1>1, <1>2, <1>3, Zenon
  <2> QED BY <2>1, <2>2, <2>3, Zenon
<1> QED BY <1>1, <1>5, <1>6 DEF g, Form

\* A positive definite matrix has a positive diagonal, and no element away from
\* it as large as both elements on it.
LEMMA PositiveDiagonal ==
  ASSUME NEW B \in IntMatrix, NEW V \in SUBSET Place, Positive(B, V), NEW p \in V
  PROVE  /\ B[p][p] > 0
         /\ \A q \in V : q # p => ~ /\ B[p][p] <= Size(B[p][q])
                                    /\ B[q][q] <= Size(B[p][q])
<1>1. p \in Place /\ \A j, k \in Place : B[j][k] \in Int
  BY DEF IntMatrix
<1>2. B[p][p] > 0
  <2> DEFINE q == IF p = 0 THEN 1 ELSE 0
             x == [k \in Place |-> IF k = p THEN 1 ELSE IF k = q THEN 0 ELSE 0]
  <2>1. q \in Place /\ q # p
    BY SizeN
  <2>2. \A k \in Place : k \notin V => x[k] = 0
    OBVIOUS
  <2>0. x = [k \in Place |-> IF k = p THEN 1 ELSE IF k = q THEN 0 ELSE 0] /\ 0 \in Int
    OBVIOUS
  <2> HIDE DEF q, x
  <2>3. /\ x \in Vector /\ x[p] # 0
        /\ Form(B, x) = (B[p][p] + 0 * B[p][q]) + 0 * (B[q][p] + 0 * B[q][q])
    BY <1>1, <2>0, <2>1, FormOfTwo
  <2>4. Form(B, x) > 0
    BY <1>1, <2>2, <2>3 DEF Positive
  <2> DEFINE s == B[p][p]  t == B[p][q]  u == B[q][p]  v == B[q][q]
  <2>5. s \in Int /\ t \in Int /\ u \in Int /\ v \in Int
    BY <1>1, <2>1
  <2>6. (s + 0 * t) + 0 * (u + 0 * v) = s
    <3> HIDE DEF s, t, u, v
    <3> QED BY <2>5
  <2> QED BY <2>3, <2>4, <2>6
<1>3. ASSUME NEW q \in V, q # p, B[p][p] <= Size(B[p][q]), B[q][q] <= Size(B[p][q])
      PROVE  FALSE
  <2> DEFINE u == B[p][q]  e == IF u < 0 THEN 1 ELSE -1
             x == [k \in Place |-> IF k = p THEN 1 ELSE IF k = q THEN e ELSE 0]
  <2>1. q \in Place /\ e \in Int /\ u \in Int
    BY <1>1
  <2>2. \A k \in Place : k \notin V => x[k] = 0
    BY <1>3
  <2>0. x = [k \in Place |-> IF k = p THEN 1 ELSE IF k = q THEN e ELSE 0]
    OBVIOUS
  <2>3. /\ x \in Vector /\ x[p] # 0
        /\ Form(B, x) = (B[p][p] + e * u) + e * (B[q][p] + e * B[q][q])
    <3> HIDE DEF e, x
    <3> QED BY <1>1, <1>3, <2>0, <2>1, FormOfTwo
  <2>4. Form(B, x) > 0
    <3> HIDE DEF e, x
    <3> QED BY <1>1, <2>2, <2>3 DEF Positive
  <2> DEFINE s == B[p][p]  v == B[q][q]
  <2>5. s \in Int /\ v \in Int /\ B[q][p] = u
    BY <1>1, <2>1 DEF Positive
  <2>6. s <= Size(u) /\ v <= Size(u)
    BY <1>3
  <2>7. (s + e * u) + e * (u + e * v) > 0
    BY <2>3, <2>4, <2>5
  <2> HIDE DEF s, v, u, x
  <2>8. CASE u < 0
    <3>1. e = 1 /\ Size(u) = -u
      BY <2>8 DEF Size
    <3>2. (s + 1 * u) + 1 * (u + 1 * v) > 0
      BY <2>7, <3>1
    <3> QED BY <2>1, <2>5, <2>6, <3>1, <3>2
  <2>9. CASE ~ (u < 0)
    <3>1. e = -1 /\ Size(u) = u
      BY <2>9 DEF Size
    <3>2. (s + (-1) * u) + (-1) * (u + (-1) * v) > 0
      BY <2>7, <3>1
    <3> QED BY <2>1, <2>5, <2>6, <3>1, <3>2
  <2> QED BY <2>8, <2>9
<1> QED BY <1>2, <1>3

\* A vector of what is left, completed so that the pivot row takes it to zero,
\* has P times its form: the form of what is left is positive too.
LEMMA PositiveTurn ==
  ASSUME NEW B \in IntMatrix, NEW D \in Int, NEW V \in SUBSET Place, NEW p \in V,
         Positive(B, V)
  PROVE  Positive(Turned(B, D, p), V \ {p})
<1> DEFINE T == Turned(B, D, p)  W == V \ {p}  P == B[p][p]
<1>1. p \in Place /\ T \in IntMatrix /\ \A r, k \in Place : B[r][k] \in Int
  BY TurnedIs DEF IntMatrix
<1>2. P \in Int /\ P > 0
  BY <1>1, PositiveDiagonal
<1>3. \A r, k \in W : T[r][k] = B[r][k] * P - B[p][k] * B[r][p]
  BY <1>1, TurnedAway
<1>4. \A r, k \in V : B[r][k] = B[k][r]
  BY DEF Positive
<1>5. ASSUME NEW r \in W, NEW k \in W PROVE T[r][k] = T[k][r]
  <2> DEFINE v == B[r][k]  u == B[p][k]  b == B[r][p]
  <2>1. T[r][k] = v * P - u * b
    BY <1>3
  <2>2. T[k][r] = v * P - b * u
    <3>1. T[k][r] = B[k][r] * P - B[p][r] * B[k][p]
      BY <1>3
    <3>2. B[k][r] = v /\ B[p][r] = b /\ B[k][p] = u
      BY <1>4
    <3> QED BY <3>1, <3>2, Zenon
  <2>3. u \in Int /\ b \in Int
    BY <1>1
  <2> HIDE DEF u, b, v
  <2>4. u * b = b * u
    BY <2>3
  <2> QED BY <2>1, <2>2, <2>4
<1>6. ASSUME NEW x \in Vector, \E k \in Place : x[k] # 0,
             \A k \in Place : k \notin W => x[k] = 0
      PROVE  Form(T, x) > 0
  <2> DEFINE c == Sum(RowTerms(B, x, p))
             y == [k \in Place |-> IF k = p THEN -c ELSE P * x[k]]
  <2>1. /\ x[p] = 0 /\ \A k \in Place : x[k] \in Int
        /\ \A r \in Place : Sum(RowTerms(B, x, r)) \in Int
        /\ c \in Int
    BY <1>1, <1>6, FormType
  <2>2. /\ y = [k \in Place |-> y[k]]
        /\ \A k \in Place : y[k] = IF k = p THEN -c ELSE P * x[k]
    OBVIOUS
  <2> HIDE DEF y, c, P
  <2>3. y \in Vector
    <3>1. \A k \in Place : y[k] \in Int
      BY <1>2, <2>1, <2>2
    <3> QED BY <2>2, <3>1 DEF Vector
  <2>4. (\E k \in Place : y[k] # 0) /\ \A k \in Place : k \notin V => y[k] = 0
    <3>1. PICK k \in Place : x[k] # 0
      BY <1>6
    <3>2. k # p /\ x[k] \in Int
      BY <2>1, <3>1
    <3>3. P * x[k] # 0
      BY <1>2, <3>1, <3>2, Product
    <3>4. y[k] # 0
      BY <2>2, <3>2, <3>3
    <3>5. ASSUME NEW j \in Place, j \notin V PROVE y[j] = 0
      <4>1. x[j] = 0 /\ j # p
        BY <1>6, <3>5
      <4>2. P * 0 = 0
        BY <1>2
      <4> QED BY <2>2, <4>1, <4>2
    <3> QED BY <3>4, <3>5
  <2>5. Form(B, y) > 0
    BY <2>3, <2>4 DEF Positive
  <2>6. ASSUME NEW r \in Place
        PROVE  Sum(RowTerms(B, y, r)) = P * Sum(RowTerms(B, x, r)) + (-c) * B[r][p]
    <3> DEFINE f == RowTerms(B, x, r)  h == RowTerms(B, y, r)  b == B[r][p]
               g == [k \in Place |-> IF k = p THEN b ELSE 0]
    <3>1. \A k \in Place : /\ f[k] = B[r][k] * x[k] /\ f[k] \in Int
                           /\ h[k] = B[r][k] * y[k]
                           /\ B[r][k] \in Int /\ x[k] \in Int
      BY <2>3, FormType
    <3>2. b \in Int /\ \A k \in Place : g[k] = IF k = p THEN b ELSE 0
      BY <1>1
    <3> HIDE DEF f, g, h
    <3>3. ASSUME NEW k \in Place PROVE h[k] = P * f[k] + (-c) * g[k]
      <4> DEFINE s == x[k]  e == B[r][k]
      <4>1. f[k] = e * s /\ h[k] = e * y[k] /\ e \in Int /\ s \in Int
        BY <3>1
      <4>2. CASE k = p
        <5>1. s = 0 /\ y[k] = -c /\ g[k] = e /\ b = e
          BY <2>1, <2>2, <3>2, <4>2
        <5> HIDE DEF s, e
        <5>2. e * (-c) = P * (e * 0) + (-c) * e
          BY <1>2, <2>1, <4>1
        <5> QED BY <4>1, <5>1, <5>2, Zenon
      <4>3. CASE k # p
        <5>1. y[k] = P * s /\ g[k] = 0
          BY <2>2, <3>2, <4>3
        <5> HIDE DEF s, e
        <5>2. e * (P * s) = P * (e * s) + (-c) * 0
          BY <1>2, <2>1, <4>1
        <5> QED BY <4>1, <5>1, <5>2, Zenon
      <4> QED BY <4>2, <4>3
    <3> HIDE DEF b
    <3>4. Sum(g) = b
      <4>1. \A k \in Place : g[k] \in Int /\ (k # p => g[k] = 0)
        BY <3>2
      <4>2. Sum(g) = g[p]
        BY <1>1, <4>1, SumSingle
      <4> QED BY <1>1, <3>2, <4>2
    <3>5. Sum(h) = P * Sum(f) + (-c) * Sum(g)
      <4>1. \A k \in Place : f[k] \in Int /\ g[k] \in Int /\ h[k] = P * f[k] + (-c) * g[k]
        BY <3>1, <3>2, <3>3
      <4>2. -c \in Int
        BY <2>1
      <4> QED BY <1>2, <4>1, <4>2, SumLinear
    <3> QED BY <3>4, <3>5 DEF f, h, b
  <2>7. ASSUME NEW r \in W
        PROVE  Sum(RowTerms(T, x, r)) = P * Sum(RowTerms(B, x, r)) + (-B[r][p]) * c
    <3> DEFINE f == RowTerms(B, x, r)  g == RowTerms(B, x, p)  h == RowTerms(T, x, r)
               b == B[r][p]
    <3>1. \A k \in Place : /\ f[k] = B[r][k] * x[k] /\ f[k] \in Int
                           /\ g[k] = B[p][k] * x[k] /\ g[k] \in Int
                           /\ h[k] = T[r][k] * x[k]
                           /\ B[r][k] \in Int /\ B[p][k] \in Int /\ T[r][k] \in Int
                           /\ x[k] \in Int
      <4> HIDE DEF T
      <4> QED BY <1>1, FormType
    <3>2. b \in Int
      BY <1>1
    <3> HIDE DEF f, g, h
    <3>3. ASSUME NEW k \in Place PROVE h[k] = P * f[k] + (-b) * g[k]
      <4> DEFINE s == x[k]  e == B[r][k]  u == B[p][k]  t == T[r][k]
      <4>1. /\ f[k] = e * s /\ g[k] = u * s /\ h[k] = t * s
            /\ e \in Int /\ u \in Int /\ s \in Int /\ t \in Int
        BY <3>1
      <4>2. CASE k \in W
        <5>1. t = e * P - u * b
          BY <1>3, <4>2
        <5> HIDE DEF s, e, u, b, t
        <5>2. (e * P - u * b) * s = P * (e * s) + (-b) * (u * s)
          BY <1>2, <3>2, <4>1
        <5> QED BY <4>1, <5>1, <5>2, Zenon
      <4>3. CASE k \notin W
        <5>1. s = 0
          BY <1>6, <4>3
        <5> HIDE DEF s, e, u, b, t
        <5>2. t * 0 = P * (e * 0) + (-b) * (u * 0)
          BY <1>2, <3>2, <4>1
        <5> QED BY <4>1, <5>1, <5>2, Zenon
      <4> QED BY <4>2, <4>3
    <3>4. Sum(h) = P * Sum(f) + (-b) * Sum(g)
      <4> HIDE DEF b
      <4>1. \A k \in Place : f[k] \in Int /\ g[k] \in Int /\ h[k] = P * f[k] + (-b) * g[k]
        BY <3>1, <3>3
      <4>2. -b \in Int
        BY <3>2
      <4> QED BY <1>2, <4>1, <4>2, SumLinear
    <3> QED BY <3>4 DEF f, g, h, c
  <2> DEFINE F == FormTerms(T, x)  G == FormTerms(B, y)
  <2>8. /\ \A r \in Place : F[r] = x[r] * Sum(RowTerms(T, x, r)) /\ F[r] \in Int
                            /\ Sum(RowTerms(T, x, r)) \in Int
        /\ \A r \in Place : G[r] = y[r] * Sum(RowTerms(B, y, r))
    <3> HIDE DEF T
    <3> QED BY <1>1, <2>3, FormType
  <2> HIDE DEF F, G, T
  <2>9. ASSUME NEW r \in Place PROVE G[r] = P * F[r] + 0 * F[r]
    <3> DEFINE s == x[r]  z == Sum(RowTerms(B, x, r))  w == Sum(RowTerms(T, x, r))  b == B[r][p]
    <3>1. /\ s \in Int /\ z \in Int /\ w \in Int /\ b \in Int /\ F[r] = s * w
          /\ G[r] = y[r] * (P * z + (-c) * b)
      BY <1>1, <2>1, <2>6, <2>8
    <3>2. CASE r = p
      <4>1. s = 0 /\ y[r] = -c /\ z = c /\ b = P
        BY <2>1, <2>2, <3>2 DEF c, P
      <4> HIDE DEF s, z, w, b
      <4>2. (-c) * (P * c + (-c) * P) = P * (0 * w) + 0 * (0 * w)
        BY <1>2, <2>1, <3>1
      <4> QED BY <3>1, <4>1, <4>2, Zenon
    <3>3. CASE r \in W
      <4>1. y[r] = P * s /\ w = P * z + (-b) * c
        BY <2>2, <2>7, <3>3
      <4> HIDE DEF s, z, w, b
      <4>2. P * z + (-c) * b = w
        <5>1. (-c) * b = (-b) * c
          BY <2>1, <3>1
        <5> QED BY <4>1, <5>1, Zenon
      <4>3. (P * s) * w = P * (s * w) + 0 * (s * w)
        BY <1>2, <3>1
      <4> QED BY <3>1, <4>1, <4>2, <4>3, Zenon
    <3>4. CASE r \notin W /\ r # p
      <4>1. s = 0 /\ y[r] = P * s
        BY <1>6, <2>2, <3>4
      <4> HIDE DEF s, z, w, b
      <4>2. (P * 0) * (P * z + (-c) * b) = P * (0 * w) + 0 * (0 * w)
        BY <1>2, <2>1, <3>1
      <4> QED BY <3>1, <4>1, <4>2, Zenon
    <3> QED BY <3>2, <3>3, <3>4
  <2>10. Sum(G) = P * Sum(F) + 0 * Sum(F) /\ Sum(F) \in Int
    <3>1. \A r \in Place : F[r] \in Int /\ F[r] \in Int /\ G[r] = P * F[r] + 0 * F[r]
      BY <2>8, <2>9
    <3>2. 0 \in Int
      OBVIOUS
    <3> QED BY <1>2, <3>1, <3>2, SumLinear, SumType
  <2> DEFINE phi == Sum(F)
  <2>11. P * phi > 0
    <3>1. 0 * phi = 0 /\ P * phi \in Int
      <4>1. phi \in Int
        BY <2>10
      <4> HIDE DEF phi
      <4> QED BY <1>2, <4>1
    <3> QED BY <2>5, <2>10, <3>1 DEF G, Form
  <2>12. phi > 0
    <3>1. phi \in Int
      BY <2>10
    <3> HIDE DEF phi
    <3> SUFFICES ASSUME phi <= 0 PROVE FALSE
      BY <3>1
    <3>2. P * phi <= 0
      BY <1>2, <3>1
    <3> QED BY <2>11, <3>1, <3>2, <1>2
  <2> QED BY <2>12 DEF F, T, Form
<1> QED BY <1>5, <1>6 DEF Positive

\* Either keeps the largest element of what is left on the diagonal.
Favours(B, V) == Dominates(B, V) \/ Positive(B, V)

LEMMA FavoursTurn ==
  ASSUME NEW B \in IntMatrix, NEW D \in Int, NEW V \in SUBSET Place, NEW p \in V,
         Favours(B, V)
  PROVE  B[p][p] > 0 /\ Favours(Turned(B, D, p), V \ {p})
BY DominatesTurn, PositiveTurn, PositiveDiagonal DEF Favours

\* No element away from it is as large as both elements on it.
LEMMA FavoursDiagonal ==
  ASSUME NEW B \in IntMatrix, NEW V \in SUBSET Place, Favours(B, V),
         NEW p \in V, NEW q \in V, p # q
  PROVE  ~ (Size(B[p][p]) <= Size(B[p][q]) /\ Size(B[q][q]) <= Size(B[p][q]))
<1> DEFINE s == B[p][p]  v == B[q][q]  u == B[p][q]  S == Off(B, V, p)
<1>1. p \in Place /\ q \in Place /\ s \in Int /\ v \in Int /\ u \in Int
  BY DEF IntMatrix
<1>2. s <= Size(s) /\ v <= Size(v) /\ Size(s) \in Nat /\ Size(v) \in Nat /\ Size(u) \in Nat
  BY <1>1, SizeIs
<1>3. CASE Dominates(B, V)
  <2> DEFINE f == [k \in Place |-> IF k = q THEN 0 ELSE OffTerms(B, V, p)[k]]
  <2>0. f = [k \in Place |-> IF k = q THEN 0 ELSE OffTerms(B, V, p)[k]]
    OBVIOUS
  <2> HIDE DEF f
  <2>1. Size(u) <= S
    BY <1>1, <2>0, OffWithout
  <2>2. s > S /\ S \in Nat
    BY <1>1, <1>3, OffTerm DEF Dominates
  <2> HIDE DEF s, u, v, S
  <2>3. ~ (Size(s) <= Size(u))
    BY <1>1, <1>2, <2>1, <2>2
  <2> QED BY <2>3 DEF s, u
<1>4. CASE Positive(B, V)
  <2>1. ~ (s <= Size(u) /\ v <= Size(u))
    BY <1>4, PositiveDiagonal
  <2> HIDE DEF s, u, v
  <2>2. ~ (Size(s) <= Size(u) /\ Size(v) <= Size(u))
    BY <1>1, <1>2, <2>1
  <2> QED BY <2>2 DEF s, u, v
<1> QED BY <1>3, <1>4 DEF Favours

-----------------------------------------------------------------------------
(* The pivot *)

\* Over one denominator the larger fraction has the larger numerator.
LEMMA LargerNumerator ==
  ASSUME NEW D \in Int, D # 0, NEW x, NEW n \in Int, IsFrac(x, n, D),
         NEW y, NEW m \in Int, IsFrac(y, m, D), AtLeast(x, y)
  PROVE  Size(m) <= Size(n)
<1> DEFINE x1 == x[1]  x2 == x[2]  y1 == y[1]  y2 == y[2]
           X == Size(x1)  Y == Size(y1)  M == Size(m)  L == Size(n)  E == Size(D)
<1>1. /\ x1 \in Int /\ x2 \in Int /\ x2 > 0 /\ x1 * D = n * x2
      /\ y1 \in Int /\ y2 \in Int /\ y2 > 0 /\ y1 * D = m * y2
      /\ X * y2 >= Y * x2
  BY DEF IsFrac, AtLeast
<1>2. ASSUME NEW p \in Int, NEW q \in Int, NEW r \in Int, r > 0, p * D = q * r
      PROVE  Size(p) * E = Size(q) * r
  <2> DEFINE sp == Size(p)  sq == Size(q)
  <2>1. /\ sp \in Nat /\ (p = sp \/ p = -sp)
        /\ sq \in Nat /\ (q = sq \/ q = -sq)
        /\ E \in Nat /\ (D = E \/ D = -E)
    BY SizeIs
  <2> HIDE DEF sp, sq, E
  <2> DEFINE u == sp * E  v == sq * r
  <2>2. u \in Nat /\ v \in Nat
    BY <1>2, <2>1
  <2>3. p * D = u \/ p * D = -u
    <3>1. sp * E = u /\ sp * (-E) = -u /\ (-sp) * E = -u /\ (-sp) * (-E) = u
      BY <2>1
    <3> QED BY <2>1, <3>1, Zenon
  <2>4. q * r = v \/ q * r = -v
    <3>1. sq * r = v /\ (-sq) * r = -v
      BY <1>2, <2>1
    <3> QED BY <2>1, <3>1, Zenon
  <2>5. (u = v \/ u = -v \/ -u = v \/ -u = -v)
    BY <1>2, <2>3, <2>4, Zenon
  <2> HIDE DEF u, v
  <2>6. u = v
    BY <2>2, <2>5
  <2> QED BY <2>6 DEF u, v, sp, sq
<1> HIDE DEF x1, x2, y1, y2
<1>3. X * E = L * x2 /\ Y * E = M * y2
  BY <1>1, <1>2
<1>4. X \in Nat /\ Y \in Nat /\ M \in Nat /\ L \in Nat /\ E \in Nat /\ E > 0
  BY <1>1, SizeIs DEF Size
<1> HIDE DEF X, Y, M, L, E
<1>5. ASSUME L < M PROVE FALSE
  <2> DEFINE w == x2 * y2
  <2>1. w \in Nat /\ w > 0
    BY <1>1
  <2>2. (X * y2) * E = L * w /\ (Y * x2) * E = M * w
    <3>1. (X * y2) * E = (X * E) * y2 /\ (Y * x2) * E = (Y * E) * x2
      BY <1>1, <1>4
    <3>2. (L * x2) * y2 = L * w /\ (M * y2) * x2 = M * w
      BY <1>1, <1>4
    <3> QED BY <1>3, <3>1, <3>2, Zenon
  <2>3. (X * y2) * E >= (Y * x2) * E
    <3> DEFINE s == X * y2  t == Y * x2
    <3>1. s \in Int /\ t \in Int /\ s >= t
      BY <1>1, <1>4
    <3> HIDE DEF s, t
    <3>2. s * E >= t * E
      BY <1>4, <3>1
    <3> QED BY <3>2 DEF s, t
  <2>4. L * w >= M * w
    BY <2>2, <2>3, Zenon
  <2> HIDE DEF w
  <2>5. M * w = L * w + (M - L) * w /\ (M - L) * w > 0 /\ L * w \in Int /\ (M - L) * w \in Int
    <3>1. (M - L) * w > 0
      BY <1>4, <1>5, <2>1
    <3> QED BY <1>4, <2>1, <3>1
  <2> DEFINE lw == L * w  mw == M * w  kw == (M - L) * w
  <2>6. lw >= mw /\ mw = lw + kw /\ kw > 0 /\ lw \in Int /\ kw \in Int
    BY <2>4, <2>5
  <2> HIDE DEF lw, mw, kw
  <2> QED BY <2>6
<1> QED BY <1>4, <1>5 DEF L, M

Open == {k \in Place : ipiv[k] = 0}

\* The largest element is on the diagonal: it is at least as large as both the
\* elements on the diagonal in its row and in its column.
LEMMA PivotOnDiagonal ==
  ASSUME NEW B, NEW D, Stands(a, B, D), ipiv \in [Place -> 0..1], Favours(B, Open),
         NEW row \in Place, NEW col \in Place, IsPivot(row, col)
  PROVE  row = col
<1>1. /\ B \in IntMatrix /\ D \in Int /\ D # 0 /\ \A r, k \in Place : B[r][k] \in Int
      /\ \A r, k \in Place : IsFrac(a[r][k], B[r][k], D)
  BY DEF Stands, IntMatrix
<1>2. row \in Open /\ col \in Open /\ Open \in SUBSET Place
  <2>1. ipiv[row] \in 0..1 /\ ipiv[row] # 1 /\ ipiv[col] = 0
    BY DEF IsPivot, Candidate
  <2> QED BY <2>1 DEF Open
<1>3. ASSUME NEW k \in Open PROVE Size(B[k][k]) <= Size(B[row][col])
  <2> DEFINE n == B[row][col]  m == B[k][k]
  <2>1. Candidate(k, k)
    BY DEF Candidate, Open
  <2>2. AtLeast(a[row][col], a[k][k])
    BY <1>2, <2>1 DEF IsPivot
  <2>3. IsFrac(a[row][col], n, D) /\ IsFrac(a[k][k], m, D) /\ n \in Int /\ m \in Int
    BY <1>1, <1>2
  <2> HIDE DEF n, m
  <2>4. Size(m) <= Size(n)
    BY <1>1, <2>2, <2>3, LargerNumerator
  <2> QED BY <2>4 DEF n, m
<1> QED BY <1>1, <1>2, <1>3, FavoursDiagonal

\* When the largest element is zero, all that is left is.
LEMMA PivotZero ==
  ASSUME NEW B, NEW D, Stands(a, B, D), ipiv \in [Place -> 0..1],
         NEW row \in Place, NEW col \in Place, IsPivot(row, col), B[row][col] = 0
  PROVE  \A j, k \in Open : B[j][k] = 0
<1>1. /\ B \in IntMatrix /\ D \in Int /\ D # 0 /\ \A r, k \in Place : B[r][k] \in Int
      /\ \A r, k \in Place : IsFrac(a[r][k], B[r][k], D)
  BY DEF Stands, IntMatrix
<1> TAKE j, k \in Open
<1> DEFINE m == B[j][k]
<1>2. j \in Place /\ k \in Place /\ Candidate(j, k)
  BY DEF Open, Candidate
<1>3. AtLeast(a[row][col], a[j][k])
  BY <1>2 DEF IsPivot
<1>4. IsFrac(a[row][col], 0, D) /\ IsFrac(a[j][k], m, D) /\ m \in Int /\ 0 \in Int
  BY <1>1, <1>2
<1> HIDE DEF m
<1>5. Size(m) <= Size(0)
  BY <1>1, <1>3, <1>4, LargerNumerator
<1>6. m = 0
  BY <1>4, <1>5 DEF Size
<1> QED BY <1>6 DEF m

\* An element is zero exactly when what stands for it is.
LEMMA StandsZero ==
  ASSUME NEW m, NEW B, NEW D, Stands(m, B, D), NEW p \in Place
  PROVE  m[p][p] = Whole(0) <=> B[p][p] = 0
<1> DEFINE x == m[p][p]  n == B[p][p]  x1 == x[1]  x2 == x[2]
<1>1. /\ n \in Int /\ D \in Int /\ D # 0
      /\ x = <<x1, x2>> /\ x1 \in Int /\ x2 \in Int /\ x2 > 0 /\ x1 * D = n * x2
      /\ \A w \in Int : x1 = w * x2 => x2 = 1
  BY DEF Stands, IntMatrix, IsFrac
<1> HIDE DEF n, x, x1, x2
<1>2. ASSUME n = 0 PROVE x = Whole(0)
  <2>1. x1 * D = 0 * D
    BY <1>1, <1>2
  <2>2. x1 = 0
    <3>1. 0 \in Int
      OBVIOUS
    <3> QED BY <1>1, <2>1, <3>1, Cancel
  <2>3. x1 = 0 * x2
    BY <1>1, <2>2
  <2>4. x2 = 1
    BY <1>1, <2>3
  <2> QED BY <1>1, <2>2, <2>4 DEF Whole
<1>3. ASSUME x = Whole(0) PROVE n = 0
  <2>1. x1 = 0 /\ x2 = 1
    BY <1>3 DEF Whole, x1, x2
  <2>2. x1 * D = 0 /\ n * x2 = n
    BY <1>1, <2>1
  <2> QED BY <1>1, <2>2
<1> QED BY <1>2, <1>3 DEF x, n

\* A pivot on the diagonal exchanges nothing.

-----------------------------------------------------------------------------
(* The whole of it.  H lists the matrix given and what the exchanges make  *)
(* of it, turn by turn: the matrix stands for row operations done to       *)
(* the last of them, and the last loop goes back to the first.             *)

Exchanges(H) ==
  /\ H \in [0..N -> IntMatrix] /\ H[0] = a0
  /\ \A j \in Place : j < i => H[j + 1] = SwapRows(H[j], indxr[j], indxc[j])

Reducing(B, D, H) ==
  /\ Stands(a, B, D) /\ Exchanges(H)
  /\ Operated(H[i], B, D, Open)
  /\ SameKernel(a0, B, D, Open)
  /\ Favours(a0, Place) => Favours(B, Open)

Restoring(B, D, H) ==
  /\ Stands(a, B, D) /\ Exchanges(H)
  /\ Operated(H[l], B, D, {})

RowsInPlace == \A j \in Place : j < i => indxr[j] = indxc[j]

\* The comparison with indxr[1] leaves no exchange out.
NoneMissed == \A j \in Place : indxc[j] = indxr[1] => indxr[j] = indxc[j]

ElimInv ==
  /\ pc = "reduce" => l = N /\ \E B, D, H : Reducing(B, D, H)
  /\ pc \in {"unscramble", "done"} =>
       /\ i = N /\ (pc = "done" => l = 0)
       /\ ~ Singular(a0)
       /\ NoneMissed => \E B, D, H : Restoring(B, D, H)
  /\ pc = "singular" => Singular(a0)
  /\ Favours(a0, Place) => RowsInPlace
  /\ \A j, k \in Place : k < j /\ j < i => indxr[j] # indxc[k]

LEMMA InitEliminates == InverseInit => ElimInv
<1> SUFFICES ASSUME InverseInit PROVE ElimInv
  OBVIOUS
<1>1. a0 \in IntMatrix
  BY SizeAssumption DEF InverseInit, IntMatrix
<1>2. Open = Place
  BY DEF InverseInit, Open
<1>3. Stands(a, a0, 1)
  BY <1>1, StandsFirst DEF InverseInit
<1>4. Operated(a0, a0, 1, Open) /\ SameKernel(a0, a0, 1, Open)
  BY <1>1, <1>2, OperatedFirst, KernelFirst
<1>5. Favours(a0, Place) => Favours(a0, Open)
  BY <1>2
<1>6. i = 0 /\ \A j \in Place : ~ (j < i)
  BY SizeN DEF InverseInit
<1> DEFINE H == [j \in 0..N |-> a0]
<1>7. H \in [0..N -> IntMatrix] /\ H[0] = a0
  BY <1>1, SizeN
<1> HIDE DEF H
<1>8. Reducing(a0, 1, H)
  BY <1>3, <1>4, <1>5, <1>6, <1>7 DEF Reducing, Exchanges
<1>9. pc = "reduce" /\ l = N
  BY DEF InverseInit
<1> QED BY <1>6, <1>8, <1>9 DEF ElimInv, RowsInPlace

\* What a turn leaves behind.
LEMMA ReduceStands ==
  ASSUME IInv, NEW B, NEW D, NEW H, Reducing(B, D, H), pc = "reduce", i < N,
         NEW row \in Place, NEW col \in Place, IsPivot(row, col),
         SwapRows(a, row, col)[col][col] # Whole(0),
         a' = Eliminate(SwapRows(a, row, col), col), a0' = a0, i' = i + 1,
         ipiv' = [ipiv EXCEPT ![col] = @ + 1],
         indxr' = [indxr EXCEPT ![i] = row],
         indxc' = [indxc EXCEPT ![i] = col]
  PROVE  \E C, E, G : Reducing(C, E, G)'
<1> DEFINE S == SwapRows(B, row, col)  m == SwapRows(a, row, col)
           T == Turned(S, D, col)  E == D * S[col][col]
           M == SwapRows(H[i], row, col)
<1>1. /\ Stands(a, B, D) /\ B \in IntMatrix /\ D \in Int /\ D # 0 /\ Exchanges(H)
      /\ Operated(H[i], B, D, Open) /\ SameKernel(a0, B, D, Open)
      /\ Favours(a0, Place) => Favours(B, Open)
  BY DEF Reducing, Stands
<1>2. Open \in SUBSET Place /\ row \in Open /\ col \in Open /\ Open' = Open \ {col}
      /\ ipiv \in [Place -> 0..1]
  <2>1. ipiv \in [Place -> 0..1] /\ ipiv[row] \in 0..1 /\ ipiv[row] # 1 /\ ipiv[col] = 0
    BY DEF IInv, PivotInv, IsPivot, Candidate
  <2>2. row \in Open /\ col \in Open /\ Open \in SUBSET Place
    BY <2>1 DEF Open
  <2>3. Open' = Open \ {col}
    BY <2>1 DEF Open
  <2> QED BY <2>1, <2>2, <2>3
<1>3. i \in Place /\ i \in 0..N /\ i + 1 \in 0..N /\ i \in Nat
  BY SizeN DEF IInv, InverseTypeOK
<1>4. H[i] \in IntMatrix /\ M \in IntMatrix
  <2>1. H[i] \in IntMatrix
    BY <1>1, <1>3 DEF Exchanges
  <2> DEFINE m0 == H[i]
  <2>2. m0 \in IntMatrix
    BY <2>1
  <2> HIDE DEF m0
  <2>3. SwapRows(m0, row, col) \in IntMatrix
    BY <2>2, SwapRowsMatrix
  <2> QED BY <2>1, <2>3 DEF m0
<1>5. Stands(m, S, D) /\ S \in IntMatrix
  <2>1. Stands(m, S, D)
    BY <1>1, StandsSwapRows, Zenon
  <2> HIDE DEF m, S
  <2> QED BY <2>1 DEF Stands
<1>6. Operated(M, S, D, Open) /\ SameKernel(a0, S, D, Open)
  BY <1>1, <1>2, <1>4, OperatedSwap, KernelSwap
<1>7. S[col][col] # 0
  <2> HIDE DEF S, m
  <2>1. m[col][col] # Whole(0)
    BY DEF m
  <2> QED BY <1>5, <2>1, StandsZero
<1>8. Favours(a0, Place) => Favours(S, Open)
  <2> SUFFICES ASSUME Favours(a0, Place) PROVE Favours(S, Open)
    OBVIOUS
  <2>1. row = col
    BY <1>1, <1>2, PivotOnDiagonal
  <2>2. S = B
    BY <1>1, <2>1, SquareIs, SwapRowsIs
  <2> QED BY <1>1, <2>2
<1> HIDE DEF M, S, m
<1>9. Stands(a', T, E)
  <2>1. Stands(Eliminate(m, col), T, E)
    BY <1>5, <1>7, EliminateStands
  <2> QED BY <2>1 DEF m
<1>10. Operated(M, T, E, Open') /\ SameKernel(a0', T, E, Open')
  <2>1. Operated(M, T, E, Open \ {col})
    BY <1>1, <1>2, <1>4, <1>5, <1>6, OperatedTurn
  <2>2. SameKernel(a0, T, E, Open \ {col})
    BY <1>1, <1>2, <1>5, <1>6, <1>7, KernelTurn
  <2> HIDE DEF T, E
  <2> QED BY <1>2, <2>1, <2>2
<1>11. Favours(a0', Place) => Favours(T, Open')
  <2>1. Favours(a0, Place) => Favours(T, Open \ {col})
    BY <1>1, <1>2, <1>5, <1>8, FavoursTurn
  <2> HIDE DEF T, E
  <2> QED BY <1>2, <2>1
<1> HIDE DEF T, E
<1>12. PICK G \in [0..N -> IntMatrix] : \A j \in 0..N : G[j] = IF j = i + 1 THEN M ELSE H[j]
  <2> DEFINE F == [j \in 0..N |-> IF j = i + 1 THEN M ELSE H[j]]
  <2>1. F \in [0..N -> IntMatrix]
    BY <1>1, <1>4 DEF Exchanges
  <2>2. \A j \in 0..N : F[j] = IF j = i + 1 THEN M ELSE H[j]
    OBVIOUS
  <2> HIDE DEF F
  <2> QED BY <2>1, <2>2
<1>13. Exchanges(G)'
  <2>1. G[0] = a0'
    <3>1. 0 \in 0..N /\ 0 # i + 1
      BY <1>3, SizeN
    <3> QED BY <1>1, <1>12, <3>1 DEF Exchanges
  <2>2. ASSUME NEW j \in Place, j < i'
        PROVE  G[j + 1] = SwapRows(G[j], indxr'[j], indxc'[j])
    <3>1. j \in 0..N /\ j + 1 \in 0..N /\ j # i + 1 /\ G[j] = H[j]
      BY <1>3, <1>12, <2>2, SizeN
    <3>2. indxr \in [Place -> Place \cup {Unset}] /\ indxc \in [Place -> Place \cup {Unset}]
      BY DEF IInv, InverseTypeOK
    <3>3. CASE j = i
      <4>1. G[j + 1] = M /\ indxr'[j] = row /\ indxc'[j] = col
        BY <1>3, <1>12, <3>1, <3>2, <3>3
      <4> QED BY <3>1, <3>3, <4>1 DEF M
    <3>4. CASE j # i
      <4>1. j < i /\ j + 1 # i + 1
        BY <1>3, <2>2, <3>4, SizeN
      <4>2. G[j + 1] = H[j + 1] /\ indxr'[j] = indxr[j] /\ indxc'[j] = indxc[j]
        BY <1>12, <3>1, <3>2, <3>4, <4>1
      <4>3. H[j + 1] = SwapRows(H[j], indxr[j], indxc[j])
        BY <1>1, <4>1 DEF Exchanges
      <4> QED BY <3>1, <4>2, <4>3
    <3> QED BY <3>3, <3>4
  <2> QED BY <1>12, <2>1, <2>2 DEF Exchanges
<1>14. Operated(G[i'], T, E, Open')
  BY <1>3, <1>10, <1>12
<1>15. Reducing(T, E, G)'
  BY <1>9, <1>10, <1>11, <1>13, <1>14 DEF Reducing
<1> QED BY <1>15

LEMMA ReduceEliminates == IInv /\ ElimInv /\ Reduce => ElimInv'
<1> SUFFICES ASSUME IInv, ElimInv, Reduce PROVE ElimInv'
  OBVIOUS
<1>1. PICK row \in Place, col \in Place :
        /\ IsPivot(row, col)
        /\ ipiv' = [ipiv EXCEPT ![col] = @ + 1]
        /\ indxr' = [indxr EXCEPT ![i] = row]
        /\ indxc' = [indxc EXCEPT ![i] = col]
        /\ IF SwapRows(a, row, col)[col][col] = Whole(0)
           THEN pc' = "singular" /\ i' = i
           ELSE /\ a' = Eliminate(SwapRows(a, row, col), col) /\ i' = i + 1
                /\ pc' = pc
  BY DEF Reduce
<1>2. /\ pc = "reduce" /\ i < N /\ a0' = a0 /\ l' = l /\ i \in Place /\ l = N
      /\ Favours(a0, Place)' <=> Favours(a0, Place)
  BY SizeN DEF Reduce, IInv, InverseTypeOK, ElimInv
<1>3. indxr \in [Place -> Place \cup {Unset}] /\ indxc \in [Place -> Place \cup {Unset}]
      /\ ipiv \in [Place -> 0..1]
  BY DEF IInv, InverseTypeOK, PivotInv
<1>4. /\ indxr'[i] = row /\ indxc'[i] = col
      /\ \A j \in Place : j < i => indxr'[j] = indxr[j] /\ indxc'[j] = indxc[j]
  <2>1. \A j \in Place : j < i => j # i
    BY SizeN
  <2> QED BY <1>1, <1>2, <1>3, <2>1
<1>5. PICK B, D, H : Reducing(B, D, H)
  BY <1>2 DEF ElimInv
<1>6. /\ Stands(a, B, D) /\ B \in IntMatrix /\ D \in Int /\ D # 0
      /\ SameKernel(a0, B, D, Open) /\ (Favours(a0, Place) => Favours(B, Open))
  BY <1>5 DEF Reducing, Stands
<1>7. row \in Open /\ col \in Open /\ Open \in SUBSET Place
  <2>1. ipiv[row] \in 0..1 /\ ipiv[row] # 1 /\ ipiv[col] = 0
    BY <1>1, <1>3 DEF IsPivot, Candidate
  <2> QED BY <2>1 DEF Open
\* The row of the pivot is not that of an earlier one.
<1>8. \A k \in Place : k < i => row # indxc[k]
  <2> TAKE k \in Place
  <2>1. k < i => k \in 0..(i - 1)
    BY <1>2, SizeN
  <2>2. k < i => ipiv[indxc[k]] = 1
    BY <2>1 DEF IInv, PivotInv
  <2> QED BY <1>7, <2>2 DEF Open
<1>9. CASE SwapRows(a, row, col)[col][col] = Whole(0)
  <2>1. pc' = "singular" /\ i' = i
    BY <1>1, <1>9
  <2>2. Singular(a0)
    <3> DEFINE S == SwapRows(B, row, col)  m == SwapRows(a, row, col)
    <3>1. Stands(m, S, D)
      BY <1>6, StandsSwapRows
    <3>2. S[col][col] = B[row][col]
      <4>1. S[col] = B[Exchanged(row, col, col)]
        BY <1>6, SquareIs, SwapRowsIs
      <4>2. Exchanged(row, col, col) = row
        BY DEF Exchanged
      <4> QED BY <4>1, <4>2
    <3> HIDE DEF S
    <3>3. S[col][col] = 0
      <4>1. m[col][col] = Whole(0)
        BY <1>9
      <4> HIDE DEF m
      <4> QED BY <3>1, <4>1, StandsZero
    <3>4. B[row][col] = 0
      BY <3>2, <3>3
    <3>5. \A j, k \in Open : B[j][k] = 0
      BY <1>1, <1>3, <1>6, <3>4, PivotZero
    <3> QED BY <1>6, <1>7, <3>5, KernelFound
  <2>3. Singular(a0)'
    BY <1>2, <2>2
  <2>4. RowsInPlace' <=> RowsInPlace
    <3>1. RowsInPlace' <=> \A j \in Place : j < i' => indxr'[j] = indxc'[j]
      BY DEF RowsInPlace
    <3> QED BY <1>4, <2>1, <3>1 DEF RowsInPlace
  <2>5. \A j, k \in Place : k < j /\ j < i' => indxr'[j] # indxc'[k]
    <3> TAKE j, k \in Place
    <3>1. k < j /\ j < i => k < i
      BY <1>2, SizeN
    <3> QED BY <1>4, <2>1, <3>1 DEF ElimInv
  <2>6. Favours(a0, Place)' => RowsInPlace'
    BY <1>2, <2>4 DEF ElimInv
  <2> QED BY <2>1, <2>3, <2>5, <2>6 DEF ElimInv
<1>10. CASE SwapRows(a, row, col)[col][col] # Whole(0)
  <2>1. a' = Eliminate(SwapRows(a, row, col), col) /\ i' = i + 1 /\ pc' = "reduce"
    BY <1>1, <1>2, <1>10
  <2>2. \A j \in Place : j < i' <=> j < i \/ j = i
    BY <1>2, <2>1, SizeN
  <2>3. \E C, E, G : Reducing(C, E, G)'
    BY <1>1, <1>2, <1>5, <1>10, <2>1, ReduceStands
  <2>4. ASSUME Favours(a0, Place)' PROVE RowsInPlace'
    <3>1. Favours(a0, Place) /\ RowsInPlace
      BY <1>2, <2>4 DEF ElimInv
    <3>2. row = col
      BY <1>1, <1>3, <1>6, <3>1, PivotOnDiagonal
    <3>3. \A j \in Place : j < i' => indxr'[j] = indxc'[j]
      BY <1>4, <2>2, <3>1, <3>2 DEF RowsInPlace
    <3> QED BY <3>3 DEF RowsInPlace
  <2>5. \A j, k \in Place : k < j /\ j < i' => indxr'[j] # indxc'[k]
    <3> TAKE j, k \in Place
    <3>1. k < j /\ j < i' => k < i /\ (j < i \/ j = i)
      BY <1>2, <2>2, SizeN
    <3> QED BY <1>4, <1>8, <3>1 DEF ElimInv
  <2> QED BY <1>2, <2>1, <2>3, <2>4, <2>5 DEF ElimInv
<1> QED BY <1>9, <1>10

\* N turns, each with a column of its own, leave none.
LEMMA AllReduced ==
  ASSUME IInv, i = N
  PROVE  Open = {}
<1>1. i - 1 = N - 1 /\ 0..(i - 1) = Place
  BY SizeN
<1>2. /\ indxc = [j \in Place |-> indxc[j]] /\ \A j \in Place : indxc[j] \in Place
      /\ \A j, k \in Place : indxc[j] = indxc[k] => j = k
      /\ \A j \in Place : ipiv[indxc[j]] = 1
  <2>1. \A j \in Place : j < i
    BY SizeN
  <2> QED BY <1>1, <2>1 DEF IInv, PivotInv, InverseTypeOK
<1>3. indxc \in Injection(Place, Place)
  BY <1>2 DEF Injection, IsInjective
<1>4. IsFiniteSet(Place)
  BY SizeN, FS_Interval
<1>5. indxc \in Surjection(Place, Place)
  BY <1>3, <1>4, FS_Injection
<1>6. \A k \in Place : \E j \in Place : indxc[j] = k
  BY <1>5 DEF Surjection
<1> QED BY <1>2, <1>6 DEF Open

LEMMA NextEliminates == IInv /\ ElimInv /\ [InverseNext]_inverseVars => ElimInv'
<1> SUFFICES ASSUME IInv, ElimInv, [InverseNext]_inverseVars PROVE ElimInv'
  OBVIOUS
<1>1. CASE Reduce
  BY <1>1, ReduceEliminates
\* The other actions leave the bookkeeping alone.
<1>2. ASSUME UNCHANGED <<a0, ipiv, indxr, indxc, i>>
      PROVE  /\ RowsInPlace' <=> RowsInPlace
             /\ NoneMissed' <=> NoneMissed
             /\ Favours(a0, Place)' <=> Favours(a0, Place)
             /\ Singular(a0)' <=> Singular(a0)
             /\ Open' = Open
             /\ Favours(a0, Place)' => RowsInPlace'
             /\ \A j, k \in Place : k < j /\ j < i' => indxr'[j] # indxc'[k]
             /\ \A H : Exchanges(H)' <=> Exchanges(H)
  <2>1. RowsInPlace' <=> RowsInPlace
    BY <1>2 DEF RowsInPlace
  <2>2. NoneMissed' <=> NoneMissed
    BY <1>2 DEF NoneMissed
  <2>3. /\ Favours(a0, Place)' <=> Favours(a0, Place)
        /\ Singular(a0)' <=> Singular(a0)
    BY <1>2
  <2>4. Open' = Open
    BY <1>2 DEF Open
  <2>5. \A H : Exchanges(H)' <=> Exchanges(H)
    <3> TAKE H
    <3> QED BY <1>2 DEF Exchanges
  <2>6. \A j, k \in Place : k < j /\ j < i' => indxr'[j] # indxc'[k]
    BY <1>2 DEF ElimInv
  <2> QED BY <2>1, <2>2, <2>3, <2>4, <2>5, <2>6 DEF ElimInv
<1>3. CASE Reduced
  <2>1. /\ UNCHANGED <<a0, ipiv, indxr, indxc, i>> /\ a' = a /\ l' = l
        /\ pc = "reduce" /\ pc' = "unscramble" /\ i = N /\ l = N
    BY <1>3 DEF Reduced, ElimInv
  <2>2. PICK B, D, H : Reducing(B, D, H)
    BY <2>1 DEF ElimInv
  <2>3. Open = {}
    BY <2>1, AllReduced
  <2>4. ~ Singular(a0)
    BY <2>2, <2>3, KernelLast DEF Reducing, Stands
  <2>5. Restoring(B, D, H)'
    <3>1. Stands(a', B, D) /\ Operated(H[l'], B, D, {}) /\ Exchanges(H)'
      BY <1>2, <2>1, <2>2, <2>3 DEF Reducing
    <3> QED BY <3>1 DEF Restoring
  <2> QED BY <1>2, <2>1, <2>4, <2>5 DEF ElimInv
<1>4. CASE Unscramble
  <2> DEFINE p == indxr[l - 1]  q == indxc[l - 1]
  <2>1. /\ UNCHANGED <<a0, ipiv, indxr, indxc, i>>
        /\ pc = "unscramble" /\ pc' = "unscramble" /\ l' = l - 1
        /\ l > 0 /\ l \in 0..N
        /\ a' = IF indxr[1] # q THEN SwapColumns(a, p, q) ELSE a
    BY <1>4 DEF Unscramble, IInv, InverseTypeOK
  <2>2. i = N /\ ~ Singular(a0)
    BY <2>1 DEF ElimInv
  <2>3. l - 1 \in Place /\ l - 1 < i /\ l - 1 \in 0..N /\ (l - 1) + 1 = l
    BY <2>1, <2>2, SizeN
  <2>4. p \in Place /\ q \in Place
    BY <2>3 DEF IInv, InverseTypeOK
  <2>5. ASSUME NoneMissed PROVE \E B, D, H : Restoring(B, D, H)'
    <3>1. PICK B, D, H : Restoring(B, D, H)
      BY <2>1, <2>5 DEF ElimInv
    <3>2. /\ Stands(a, B, D) /\ B \in IntMatrix /\ D \in Int /\ Exchanges(H)
          /\ Operated(H[l], B, D, {})
      BY <3>1 DEF Restoring, Stands
    <3>3. a' = SwapColumns(a, p, q)
      <4>1. CASE indxr[1] # q
        BY <2>1, <4>1
      <4>2. CASE indxr[1] = q
        <5>1. p = q
          BY <2>3, <2>5, <4>2 DEF NoneMissed
        <5>2. Square(a)
          BY <3>2, StandsIs
        <5> HIDE DEF p, q
        <5>3. SwapColumns(a, p, q) = a
          BY <2>4, <5>1, <5>2, SwapColumnsIs
        <5> QED BY <2>1, <4>2, <5>3
      <4> QED BY <4>1, <4>2
    <3>4. H[l] \in IntMatrix /\ H[l - 1] \in IntMatrix /\ H[l] = SwapRows(H[l - 1], p, q)
      BY <2>1, <2>3, <3>2 DEF Exchanges
    <3>5. SwapRows(H[l], p, q) = H[l - 1]
      <4> DEFINE m == H[l - 1]
      <4>1. m \in IntMatrix /\ H[l] = SwapRows(m, p, q)
        BY <3>4
      <4> HIDE DEF m, p, q
      <4>2. SwapRows(SwapRows(m, p, q), p, q) = m
        BY <2>4, <4>1, SquareIs, SwapRowsIs
      <4> QED BY <4>1, <4>2 DEF m
    <3> HIDE DEF p, q
    <3>6. PICK C : C = SwapColumns(B, p, q)
      OBVIOUS
    <3>7. Operated(H[l - 1], C, D, {})
      <4> DEFINE m == H[l]
      <4>1. m \in IntMatrix /\ Operated(m, B, D, {}) /\ SwapRows(m, p, q) = H[l - 1]
        BY <3>2, <3>4, <3>5
      <4> HIDE DEF m
      <4>2. Operated(SwapRows(m, p, q), SwapColumns(B, p, q), D, {})
        BY <2>4, <3>2, <4>1, OperatedUnswap
      <4> QED BY <3>6, <4>1, <4>2
    <3>8. Stands(a', C, D)
      BY <2>4, <3>2, <3>3, <3>6, StandsSwapColumns
    <3>9. Restoring(C, D, H)'
      <4>1. Operated(H[l'], C, D, {}) /\ Exchanges(H)'
        BY <1>2, <2>1, <3>2, <3>7
      <4> QED BY <3>8, <4>1 DEF Restoring
    <3> QED BY <3>9
  <2> HIDE DEF p, q
  <2> QED BY <1>2, <2>1, <2>2, <2>5 DEF ElimInv
<1>5. ASSUME UNCHANGED <<a0, a, ipiv, indxr, indxc, i, l>>,
             pc' = pc \/ (pc = "unscramble" /\ pc' = "done" /\ l = 0)
      PROVE  ElimInv'
  <2>1. UNCHANGED <<a0, ipiv, indxr, indxc, i>>
    BY <1>5
  <2>2. \A B, D, H : (Reducing(B, D, H)' <=> Reducing(B, D, H))
                     /\ (Restoring(B, D, H)' <=> Restoring(B, D, H))
    <3> TAKE B, D, H
    <3>1. Reducing(B, D, H)' <=> Reducing(B, D, H)
      BY <1>2, <1>5, <2>1 DEF Reducing
    <3>2. Restoring(B, D, H)' <=> Restoring(B, D, H)
      BY <1>2, <1>5, <2>1 DEF Restoring
    <3> QED BY <3>1, <3>2
  <2>3. pc = "reduce" => \E B, D, H : Reducing(B, D, H)'
    BY <2>2 DEF ElimInv
  <2>4. pc \in {"unscramble", "done"} /\ NoneMissed => \E B, D, H : Restoring(B, D, H)'
    BY <2>2 DEF ElimInv
  <2> QED BY <1>2, <1>5, <2>1, <2>3, <2>4 DEF ElimInv
<1>6. CASE Return
  BY <1>5, <1>6 DEF Return
<1>7. CASE UNCHANGED inverseVars
  BY <1>5, <1>7 DEF inverseVars
<1> QED BY <1>1, <1>3, <1>4, <1>6, <1>7 DEF InverseNext

LEMMA Eliminates == InverseSpec => [](IInv /\ ElimInv)
<1>1. InverseInit => IInv /\ ElimInv
  BY InitPivots, InitEliminates
<1>2. (IInv /\ ElimInv) /\ [InverseNext]_inverseVars => (IInv /\ ElimInv)'
  BY NextPivots, NextEliminates
<1> QED BY <1>1, <1>2, PTL DEF InverseSpec

-----------------------------------------------------------------------------
(* At the end the row operations turn the matrix given into D times the    *)
(* identity.                                                               *)

\* The product of a row of the matrix kept with a column of m.
LEMMA RowTimesColumnIs ==
  ASSUME NEW B, NEW D, Stands(a, B, D), NEW m \in IntMatrix, NEW r \in Place, NEW k \in Place
  PROVE  IsFrac(RowTimesColumn(m, r, k), Sum([j \in Place |-> B[r][j] * m[j][k]]), D)
<1> DEFINE F(n) == Times(a[r][n], Whole(m[n][k]))
           IsIt(n, s) == s = [j \in 0..n |-> IF j = 0 THEN Whole(0)
                                            ELSE Plus(s[j - 1], Times(a[r][j - 1], Whole(m[j - 1][k])))]
           sum == CHOOSE s : s = [j \in 0..N |-> IF j = 0 THEN Whole(0)
                                  ELSE Plus(s[j - 1], Times(a[r][j - 1], Whole(m[j - 1][k])))]
           f == [j \in Place |-> B[r][j] * m[j][k]]
<1>1. RowTimesColumn(m, r, k) = sum[N]
  BY DEF RowTimesColumn
<1>2. \A n \in Nat : \E s : IsIt(n, s)
  <2> DEFINE S == {n \in Nat : ~ \E s : IsIt(n, s)}
  <2> SUFFICES ASSUME S # {} PROVE FALSE
    OBVIOUS
  <2>1. PICK n \in S : \A j \in S : n <= j
    <3> HIDE DEF IsIt
    <3> QED BY LeastNumber
  <2>2. n \in Nat /\ ~ \E s : IsIt(n, s)
    BY <2>1
  <2>3. IsIt(0, [j \in 0..0 |-> Whole(0)])
    OBVIOUS
  <2>4. n # 0
    BY <2>2, <2>3
  <2>5. n - 1 \in Nat /\ n - 1 \notin S
    <3> HIDE DEF IsIt
    <3> QED BY <2>1, <2>2, <2>4
  <2>6. PICK s : IsIt(n - 1, s)
    <3> HIDE DEF IsIt
    <3> QED BY <2>5
  <2> DEFINE h == [j \in 0..n |-> IF j = n THEN Plus(s[n - 1], F(n - 1)) ELSE s[j]]
  <2>7. ASSUME NEW j \in 0..n PROVE h[j] = IF j = 0 THEN Whole(0) ELSE Plus(h[j - 1], F(j - 1))
    <3>1. CASE j = n
      <4>1. h[n] = Plus(s[n - 1], F(n - 1)) /\ h[n - 1] = s[n - 1]
        BY <2>2, <2>4
      <4> QED BY <2>4, <3>1, <4>1
    <3>2. CASE j # n
      <4>1. j \in 0..(n - 1)
        BY <2>2, <3>2
      <4>2. s[j] = IF j = 0 THEN Whole(0) ELSE Plus(s[j - 1], F(j - 1))
        BY <2>6, <4>1
      <4>3. h[j] = s[j] /\ (j # 0 => h[j - 1] = s[j - 1])
        BY <2>2, <3>2, <4>1
      <4> HIDE DEF h, F
      <4> QED BY <4>2, <4>3
    <3> QED BY <3>1, <3>2
  <2>8. IsIt(n, h)
    <3>1. h = [j \in 0..n |-> h[j]]
      OBVIOUS
    <3> HIDE DEF h
    <3> QED BY <2>7, <3>1
  <2> HIDE DEF IsIt
  <2> QED BY <2>2, <2>8
<1>3. IsIt(N, sum)
  <2>1. \E s : IsIt(N, s)
    <3> HIDE DEF IsIt
    <3> QED BY <1>2, SizeN
  <2> QED BY <2>1
<1>4. \A j \in 0..N : sum[j] = IF j = 0 THEN Whole(0) ELSE Plus(sum[j - 1], F(j - 1))
  <2> HIDE DEF sum
  <2> QED BY <1>3
<1> HIDE DEF sum, IsIt
<1>5. /\ D \in Int /\ D # 0 /\ B \in IntMatrix
      /\ \A j \in Place : /\ B[r][j] \in Int /\ m[j][k] \in Int
                          /\ IsFrac(a[r][j], B[r][j], D)
  BY DEF Stands, IntMatrix
<1>6. \A j \in Place : f[j] = B[r][j] * m[j][k] /\ f[j] \in Int
  BY <1>5
<1> HIDE DEF f
<1>7. ASSUME NEW j \in Place PROVE IsFrac(F(j), f[j], D)
  <2> DEFINE u == B[r][j]  v == m[j][k]  x == a[r][j]
  <2>1. u \in Int /\ v \in Int /\ IsFrac(x, u, D) /\ IsFrac(Whole(v), v, 1)
    BY <1>5, WholeIs
  <2>2. F(j) = Times(x, Whole(v)) /\ f[j] = u * v
    BY <1>6
  <2> HIDE DEF u, v, x, F
  <2>3. IsFrac(Times(x, Whole(v)), u * v, D * 1)
    BY <1>5, <2>1, TimesIs
  <2>4. D * 1 = D
    BY <1>5
  <2> QED BY <2>2, <2>3, <2>4
<1> HIDE DEF F
<1> DEFINE t == Sums(f)  S == {j \in 0..N : ~ IsFrac(sum[j], t[j], D)}
<1>8. /\ t[0] = 0 /\ Sum(f) = t[N] /\ \A j \in Place : t[j + 1] = t[j] + f[j]
      /\ \A j \in 0..N : t[j] \in Int
  BY <1>6, SumsAre
<1> HIDE DEF t
<1>9. 0 \notin S
  <2>1. sum[0] = Whole(0)
    BY <1>4, SizeN
  <2>2. IsFrac(Whole(0), 0, 1) /\ 0 \in Int /\ 1 \in Int /\ 1 # 0
    BY WholeIs
  <2>3. 0 * D = 0 * 1
    BY <1>5
  <2>4. IsFrac(Whole(0), 0, D)
    <3> DEFINE z == Whole(0)
    <3> HIDE DEF z
    <3> QED BY <1>5, <2>2, <2>3, SameFrac
  <2> QED BY <1>8, <2>1, <2>4
<1>10. ASSUME NEW j \in Place, j \notin S PROVE j + 1 \notin S
  <2>1. j \in 0..N /\ j + 1 \in 0..N /\ j + 1 # 0 /\ (j + 1) - 1 = j
    BY SizeN
  <2>2. IsFrac(sum[j], t[j], D)
    BY <1>10, <2>1
  <2>3. sum[j + 1] = Plus(sum[j], F(j))
    BY <1>4, <2>1
  <2> DEFINE x == sum[j]  y == F(j)  u == t[j]  v == f[j]
  <2>4. u \in Int /\ v \in Int /\ IsFrac(x, u, D) /\ IsFrac(y, v, D) /\ t[j + 1] = u + v
    BY <1>6, <1>7, <1>8, <2>1, <2>2
  <2>5. sum[j + 1] = Plus(x, y)
    BY <2>3
  <2> HIDE DEF x, y, u, v, S
  <2>6. IsFrac(Plus(x, y), u * D + v * D, D * D)
    BY <1>5, <2>4, PlusIs
  <2>7. u * D + v * D = (u + v) * D /\ u + v \in Int
    BY <1>5, <2>4
  <2>8. IsFrac(Plus(x, y), u + v, D)
    BY <1>5, <2>6, <2>7, Rescaled
  <2>9. IsFrac(sum[j + 1], t[j + 1], D)
    BY <2>4, <2>5, <2>8
  <2> QED BY <2>9 DEF S
<1>11. N \notin S
  <2> HIDE DEF S
  <2> QED BY <1>9, <1>10, SumInduction
<1>12. IsFrac(sum[N], Sum(f), D)
  BY <1>8, <1>11, SizeN
<1> QED BY <1>1, <1>12 DEF f

LEMMA WholeMultiple ==
  ASSUME NEW x, NEW D \in Int, D # 0, NEW n \in Int, IsFrac(x, n * D, D)
  PROVE  x = Whole(n)
<1> DEFINE x1 == x[1]  x2 == x[2]
<1>1. /\ x = <<x1, x2>> /\ x1 \in Int /\ x2 \in Int /\ x1 * D = (n * D) * x2
      /\ \A w \in Int : x1 = w * x2 => x2 = 1
  BY DEF IsFrac
<1> HIDE DEF x1, x2
<1>2. (n * D) * x2 = (n * x2) * D /\ n * x2 \in Int
  BY <1>1
<1>3. x1 = n * x2
  <2> DEFINE y == n * x2
  <2>1. x1 * D = y * D /\ y \in Int
    BY <1>1, <1>2
  <2> HIDE DEF y
  <2>2. x1 = y
    BY <1>1, <2>1, Cancel
  <2> QED BY <2>2 DEF y
<1>4. x2 = 1
  BY <1>1, <1>3
<1>5. x1 = n
  BY <1>1, <1>3, <1>4
<1> QED BY <1>1, <1>4, <1>5 DEF Whole

LEMMA InvertsAtEnd == IInv /\ ElimInv /\ NoneMissed => Inverts
<1> SUFFICES ASSUME IInv, ElimInv, NoneMissed, pc = "done",
                    NEW r \in Place, NEW k \in Place
             PROVE  RowTimesColumn(a0, r, k) = Whole(IF r = k THEN 1 ELSE 0)
  BY DEF Inverts
<1>1. PICK B, D, H : Restoring(B, D, H)
  BY DEF ElimInv
<1>2. /\ Stands(a, B, D) /\ B \in IntMatrix /\ D \in Int /\ D # 0
      /\ Operated(a0, B, D, {}) /\ a0 \in IntMatrix
  <2>1. l = 0 /\ H[0] = a0
    BY <1>1 DEF ElimInv, Restoring, Exchanges
  <2>2. a0 \in IntMatrix
    BY SizeAssumption DEF IInv, InverseTypeOK, IntMatrix
  <2> QED BY <1>1, <2>1, <2>2 DEF Restoring, Stands
<1> DEFINE f == [j \in Place |-> B[r][j] * a0[j][k]]  n == IF r = k THEN 1 ELSE 0
<1>3. Sum(f) = n * D
  <2>1. Products(a0, B, D, {}, r, k) = f
    BY DEF Products, Made
  <2>2. Sum(Products(a0, B, D, {}, r, k)) = Left(B, D, {}, r, k)
    BY <1>2 DEF Operated
  <2>3. Left(B, D, {}, r, k) = IF r = k THEN D ELSE 0
    BY DEF Left
  <2>4. n * D = IF r = k THEN D ELSE 0
    BY <1>2
  <2> HIDE DEF f, n
  <2> QED BY <2>1, <2>2, <2>3, <2>4
<1>4. IsFrac(RowTimesColumn(a0, r, k), Sum(f), D)
  BY <1>2, RowTimesColumnIs
<1>5. n \in Int
  OBVIOUS
<1>6. RowTimesColumn(a0, r, k) = Whole(n)
  <2> HIDE DEF f, n
  <2> QED BY <1>2, <1>3, <1>4, <1>5, WholeMultiple
<1> QED BY <1>6

\* With three columns the exchange left out would be the last one, and that one
\* has only itself to exchange with.
LEMMA SmallMissesNone ==
  ASSUME IInv, ElimInv, N \in {2, 3}, i = N
  PROVE  NoneMissed
<1> SUFFICES ASSUME NEW j \in Place, indxc[j] = indxr[1] PROVE indxr[j] = indxc[j]
  BY DEF NoneMissed
<1>1. 0 \in Place /\ 1 \in Place /\ j \in {0, 1, 2} /\ (j = 2 => N = 3)
      /\ Place = {n \in {0, 1, 2} : n < N}
  BY SizeN
<1>2. /\ \A k \in Place : k \in 0..(i - 1) /\ indxr[k] \in Place /\ indxc[k] \in Place
      /\ \A k, n \in Place : indxc[k] = indxc[n] => k = n
      /\ \A k, n \in Place : k < n => indxr[n] # indxc[k]
  <2>1. \A k \in Place : k < i /\ k \in 0..(i - 1)
    BY SizeN
  <2> QED BY <2>1 DEF IInv, PivotInv, InverseTypeOK, ElimInv
<1>3. CASE j = 0
  BY <1>1, <1>2, <1>3
<1>4. CASE j = 1
  BY <1>4
<1>5. CASE j = 2
  <2>1. N = 3 /\ 2 \in Place /\ Place = {0, 1, 2}
    BY <1>1, <1>5
  <2>2. /\ indxr[2] \in {0, 1, 2} /\ indxc[0] \in {0, 1, 2}
        /\ indxc[1] \in {0, 1, 2} /\ indxc[2] \in {0, 1, 2}
        /\ indxc[0] # indxc[1] /\ indxc[0] # indxc[2] /\ indxc[1] # indxc[2]
        /\ indxr[2] # indxc[0] /\ indxr[2] # indxc[1]
    <3>1. 0 # 1 /\ 0 # 2 /\ 1 # 2 /\ 0 < 2 /\ 1 < 2
      OBVIOUS
    <3> QED BY <1>1, <1>2, <2>1, <3>1
  <2> QED BY <1>5, <2>2
<1> QED BY <1>1, <1>3, <1>4, <1>5

\* "a = inv(a)" (cMatrix.cpp:530) for matrices of integers of every size: what
\* cMatrix::inv() and matrixInv() return times the matrix given is the identity,
\* unless the comparison with indxr[1] leaves out an exchange of columns
\* (cMatrix.cpp:607, matrix.c:474).
THEOREM InverseTheorem == InverseSpec => [](NoneMissed => Inverts)
BY Eliminates, InvertsAtEnd, PTL

\* It leaves none out of a matrix of two or three columns.
THEOREM SmallTheorem == InverseSpec => [](N \in {2, 3} => Inverts)
<1>1. IInv /\ ElimInv => (N \in {2, 3} => Inverts)
  BY InvertsAtEnd, SmallMissesNone DEF ElimInv, Inverts
<1> QED BY Eliminates, <1>1, PTL

\* "Singular Matrix-2" (cMatrix.cpp:591) is reported of a matrix that takes some
\* vector but zero to zero, and a matrix whose turns are all done takes none to it.
THEOREM SingularTheorem ==
  InverseSpec => [](/\ pc = "singular" => Singular(a0)
             /\ pc \in {"unscramble", "done"} => ~ Singular(a0))
<1>1. ElimInv => /\ pc = "singular" => Singular(a0)
                 /\ pc \in {"unscramble", "done"} => ~ Singular(a0)
  BY DEF ElimInv
<1> QED BY Eliminates, <1>1, PTL

\* A matrix whose diagonal dominates is inverted without an exchange of rows.
THEOREM NoExchangeTheorem == InverseSpec => []NoExchange
<1>1. IInv /\ ElimInv => NoExchange
  <2>1. IInv => a0 \in IntMatrix
    BY SizeAssumption DEF IInv, InverseTypeOK, IntMatrix
  <2> QED BY <2>1, DominatesFirst DEF ElimInv, Favours, RowsInPlace, NoExchange
<1> QED BY Eliminates, <1>1, PTL

\* So is a positive definite one, as a covariance is (kalman.c:69, cDKF.cpp:26):
\* its columns are already where they belong, and it comes back inverted.
THEOREM CovarianceTheorem ==
  InverseSpec => [](Dominant(a0) \/ PositiveDefinite(a0) => RowsInPlace /\ Inverts)
<1>1. IInv /\ ElimInv => (Dominant(a0) \/ PositiveDefinite(a0) => RowsInPlace /\ Inverts)
  <2>1. IInv => a0 \in IntMatrix
    BY SizeAssumption DEF IInv, InverseTypeOK, IntMatrix
  <2>2. IInv /\ (Dominant(a0) \/ PositiveDefinite(a0)) => Favours(a0, Place)
    BY <2>1, DominatesFirst DEF Favours, PositiveDefinite
  <2>3. pc = "done" /\ IInv /\ ElimInv /\ RowsInPlace => NoneMissed
    BY SizeN DEF ElimInv, RowsInPlace, NoneMissed
  <2> QED BY <2>2, <2>3, InvertsAtEnd DEF ElimInv, Inverts
<1> QED BY Eliminates, <1>1, PTL

\* What a small vector shows of a matrix: Dependent looks for x among -2..2.
LEMMA DependentIs ==
  ASSUME a0 \in IntMatrix
  PROVE  Dependent => Singular(a0)
<1> DEFINE sum(x, j) == CHOOSE s : s = [n \in 0..N |-> IF n = 0 THEN 0
                                       ELSE s[n - 1] + a0[j][n - 1] * x[n - 1]]
<1>1. Dependent => \E x \in [Place -> -2..2] : /\ \E k \in Place : x[k] # 0
                                              /\ \A j \in Place : sum(x, j)[N] = 0
  BY DEF Dependent
<1>2. ASSUME NEW x \in [Place -> -2..2], NEW j \in Place
      PROVE  sum(x, j)[N] = Sum(RowTerms(a0, x, j))
  <2> DEFINE f == RowTerms(a0, x, j)
             Is(s) == s = [n \in 0..N |-> IF n = 0 THEN 0 ELSE s[n - 1] + a0[j][n - 1] * x[n - 1]]
             t == sum(x, j)
  <2>1. N \in Nat /\ Place = 0..N - 1 /\ x \in Vector
    BY <1>2, SizeN DEF Place, Vector
  <2>2. \A k \in Place : f[k] = a0[j][k] * x[k] /\ f[k] \in Int
    BY <2>1 DEF RowTerms, Vector, IntMatrix
  <2>3. PICK s : IsSum(f, N, s)
    BY <2>1, SumExists
  <2>4. s = [n \in 0..N |-> IF n = 0 THEN 0 ELSE s[n - 1] + f[n - 1]]
    BY <2>3 DEF IsSum
  <2>5. ASSUME NEW n \in 0..N, n # 0 PROVE f[n - 1] = a0[j][n - 1] * x[n - 1]
    <3>1. n - 1 \in Place
      BY <2>1, <2>5
    <3> QED BY <2>2, <3>1
  <2>6. Is(s)
    <3> HIDE DEF f
    <3> QED BY <2>4, <2>5
  <2>7. Is(t)
    <3>1. t = CHOOSE v : Is(v)
      OBVIOUS
    <3> HIDE DEF Is, t
    <3> QED BY <2>6, <3>1
  <2>8. t[0] = 0
    <3> HIDE DEF t
    <3> QED BY <2>1, <2>7
  <2>9. \A k \in Place : t[k + 1] = t[k] + f[k]
    <3> SUFFICES ASSUME NEW k \in Place PROVE t[k + 1] = t[k] + f[k]
      OBVIOUS
    <3>1. k + 1 \in 0..N /\ k + 1 # 0 /\ (k + 1) - 1 = k
      BY <2>1
    <3>2. f[k] = a0[j][k] * x[k]
      BY <2>2
    <3> HIDE DEF t, f
    <3>3. t[k + 1] = t[(k + 1) - 1] + a0[j][(k + 1) - 1] * x[(k + 1) - 1]
      BY <2>7, <3>1
    <3> QED BY <3>1, <3>2, <3>3
  <2>10. t[N] = Sum(f)
    <3> HIDE DEF t, f
    <3> QED BY <2>2, <2>8, <2>9, SumUnique
  <2> QED BY <2>10
<1>3. [Place -> -2..2] \subseteq Vector
  BY DEF Vector
<1> HIDE DEF sum
<1> QED BY <1>1, <1>2, <1>3 DEF Singular, Kills

\* inv() throws "Singular Matrix" (cMatrix.cpp:591) of exactly the matrices that
\* have no inverse: one that is inverted takes no vector but zero to zero, and of
\* one that is rejected such a vector is found among -2..2, unless it has only
\* longer ones.
THEOREM RejectsTheorem == InverseSpec => []((Singular(a0) => Dependent) => RejectsSingular)
<1>1. IInv /\ ElimInv => ((Singular(a0) => Dependent) => RejectsSingular)
  <2>1. IInv => a0 \in IntMatrix
    BY SizeAssumption DEF IInv, InverseTypeOK, IntMatrix
  <2>2. ElimInv => /\ pc = "singular" => Singular(a0)
                   /\ pc = "done" => ~ Singular(a0)
    BY DEF ElimInv
  <2> QED BY <2>1, <2>2, DependentIs DEF RejectsSingular
<1> QED BY Eliminates, <1>1, PTL

=============================================================================
