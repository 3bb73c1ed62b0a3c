---------------------------- MODULE FilterProofs ----------------------------
(***************************************************************************)
(* The laws of matrix algebra for the operators of FieldMatrices: a field  *)
(* has reciprocals, a matrix with a determinant an inverse.  And what the  *)
(* methods of the filters do to the members of a filter.                   *)
(***************************************************************************)
EXTENDS Filters, WellFoundedInduction, TLAPS

LEMMA PrimeIs == Prime \in Int /\ Prime > 3
  BY PrimeAssumption

LEMMA DivMod ==
  ASSUME NEW p \in Int, p > 0, NEW a \in Int
  PROVE  /\ a % p = a - p * (a \div p)
         /\ a \div p \in Int /\ a % p \in 0..(p - 1)
<1>1. a % p = a - p * (a \div p)
  OBVIOUS
<1>2. a \div p \in Int
  OBVIOUS
<1>3. a % p \in 0..(p - 1)
  OBVIOUS
<1> QED BY <1>1, <1>2, <1>3

LEMMA Remainder ==
  ASSUME NEW p \in Int, p > 0, NEW a \in Int, NEW q \in Int,
         NEW r \in Int, 0 <= r, r < p, a = p * q + r
  PROVE  a % p = r
OBVIOUS

LEMMA Unique ==
  ASSUME NEW q \in Int, NEW r \in F, NEW a \in Int, a = Prime * q + r
  PROVE  a % Prime = r
<1>1. Prime > 0 /\ Prime \in Int /\ r \in Int /\ 0 <= r /\ r < Prime
  BY PrimeIs DEF F
<1> QED BY <1>1, Remainder

\* The remainder, as an operator the provers need not look into.
N(x) == x % Prime

LEMMA Shift ==
  ASSUME NEW a \in Int, NEW k \in Int
  PROVE  N(a + Prime * k) = N(a)
<1> DEFINE q == a \div Prime  r == a % Prime
<1>1. r = a - Prime * q /\ q \in Int /\ r \in F
  BY DivMod, PrimeIs DEF F
<1> HIDE DEF q, r
<1>2. a + Prime * k = Prime * (q + k) + r
  BY <1>1, PrimeIs DEF F
<1>3. a + Prime * k \in Int /\ q + k \in Int
  BY PrimeIs, <1>1
<1>4. (a + Prime * k) % Prime = r
  BY <1>1, <1>2, <1>3, Unique
<1> QED BY <1>4 DEF r, N

LEMMA NormType == \A x \in Int : N(x) \in F /\ N(x) \in Int
  BY DivMod, PrimeIs DEF F, N

LEMMA NormIs ==
  ASSUME NEW x \in Int
  PROVE  \E k \in Int : N(x) = x - Prime * k
<1>1. x % Prime = x - Prime * (x \div Prime) /\ x \div Prime \in Int
  BY PrimeIs, DivMod
<1> QED BY <1>1 DEF N

LEMMA NormF == \A x \in F : N(x) = x
<1> SUFFICES ASSUME NEW x \in F PROVE N(x) = x
  OBVIOUS
<1>1. x \in Int /\ 0 <= x /\ x < Prime /\ Prime \in Int /\ Prime > 0 /\ x = Prime * 0 + x
  BY PrimeIs DEF F
<1> QED BY <1>1, Remainder DEF N

LEMMA FieldInt == F \subseteq Int /\ 0 \in F /\ 1 \in F
  BY PrimeIs DEF F

\* A remainder inside a sum of products may as well be left out.
LEMMA NormDot ==
  ASSUME NEW s \in Int, NEW t \in Int, NEW c \in Int, NEW d \in Int
  PROVE  N(N(s) * c + N(t) * d) = N(s * c + t * d)
<1> DEFINE q == s \div Prime  r == t \div Prime
<1>1. N(s) = s - Prime * q /\ q \in Int /\ N(t) = t - Prime * r /\ r \in Int
  BY DivMod, PrimeIs DEF N
<1> HIDE DEF q, r
<1>2. N(s) * c + N(t) * d = (s * c + t * d) + Prime * (0 - (q * c + r * d))
  BY <1>1, PrimeIs
<1>3. s * c + t * d \in Int /\ 0 - (q * c + r * d) \in Int
  BY <1>1
<1> QED BY <1>2, <1>3, Shift

LEMMA NormSum ==
  ASSUME NEW s \in Int, NEW t \in Int
  PROVE  /\ N(N(s) + N(t)) = N(s + t)
         /\ N(N(s) + t) = N(s + t)
         /\ N(s + N(t)) = N(s + t)
         /\ N(N(s) - N(t)) = N(s - t)
         /\ N(N(s) - t) = N(s - t)
         /\ N(s - N(t)) = N(s - t)
<1> DEFINE q == s \div Prime  r == t \div Prime
<1>1. N(s) = s - Prime * q /\ q \in Int /\ N(t) = t - Prime * r /\ r \in Int
  BY DivMod, PrimeIs DEF N
<1> HIDE DEF q, r
<1>2. /\ N(s) + N(t) = (s + t) + Prime * (0 - q - r)
      /\ N(s) + t = (s + t) + Prime * (0 - q)
      /\ s + N(t) = (s + t) + Prime * (0 - r)
      /\ N(s) - N(t) = (s - t) + Prime * (r - q)
      /\ N(s) - t = (s - t) + Prime * (0 - q)
      /\ s - N(t) = (s - t) + Prime * r
  BY <1>1, PrimeIs
<1>3. /\ s + t \in Int /\ s - t \in Int /\ 0 - q - r \in Int
      /\ 0 - q \in Int /\ 0 - r \in Int /\ r - q \in Int
  BY <1>1
<1> QED BY <1>1, <1>2, <1>3, Shift

LEMMA NormMul ==
  ASSUME NEW s \in Int, NEW c \in Int
  PROVE  N(N(s) * c) = N(s * c) /\ N(c * N(s)) = N(s * c)
<1>1. N(N(s) * c + N(0) * 0) = N(s * c + 0 * 0)
  BY NormDot
<1>2. N(s) \in Int /\ N(0) \in Int
  BY NormType
<1>3. N(s) * c + N(0) * 0 = N(s) * c /\ s * c + 0 * 0 = s * c /\ N(s) * c = c * N(s)
  BY <1>2
<1> QED BY <1>1, <1>3

-----------------------------------------------------------------------------

LEMMA Indices == Index = {1, 2} /\ 1 \in Index /\ 2 \in Index
  BY DEF Index

LEMMA Entries ==
  ASSUME NEW a \in Matrix
  PROVE  /\ DOMAIN a = Index /\ DOMAIN a[1] = Index
         /\ \A i, j \in Index : a[i][j] \in F /\ a[i][j] \in Int
         /\ a \in Arrays
  BY Indices, FieldInt DEF Matrix, Arrays

LEMMA SameMatrix ==
  ASSUME NEW a \in Matrix, NEW b \in Matrix, \A i, j \in Index : a[i][j] = b[i][j]
  PROVE  a = b
<1>1. \A i \in Index : a[i] = b[i]
  BY DEF Matrix
<1> QED BY <1>1 DEF Matrix

LEMMA MulIs ==
  ASSUME NEW a \in Matrix, NEW b \in Matrix
  PROVE  /\ Mul(a, b) \in Matrix
         /\ \A i, j \in Index : Mul(a, b)[i][j] = N(a[i][1] * b[1][j] + a[i][2] * b[2][j])
<1>1. Mul(a, b) = [i \in Index |-> [j \in Index |-> N(a[i][1] * b[1][j] + a[i][2] * b[2][j])]]
  BY Entries, Indices DEF Mul, productOf, N
<1>2. \A i, j \in Index : N(a[i][1] * b[1][j] + a[i][2] * b[2][j]) \in F
  BY Entries, Indices, NormType
<1> QED BY <1>1, <1>2 DEF Matrix

LEMMA AddIs ==
  ASSUME NEW a \in Matrix, NEW b \in Matrix
  PROVE  /\ Add(a, b) \in Matrix
         /\ \A i, j \in Index : Add(a, b)[i][j] = N(a[i][j] + b[i][j])
<1>1. Add(a, b) = [i \in Index |-> [j \in Index |-> N(a[i][j] + b[i][j])]]
  BY Entries, Indices DEF Add, sumOf, N
<1>2. \A i, j \in Index : N(a[i][j] + b[i][j]) \in F
  BY Entries, NormType
<1> QED BY <1>1, <1>2 DEF Matrix

LEMMA SubIs ==
  ASSUME NEW a \in Matrix, NEW b \in Matrix
  PROVE  /\ Sub(a, b) \in Matrix
         /\ \A i, j \in Index : Sub(a, b)[i][j] = N(a[i][j] - b[i][j])
<1>1. Sub(a, b) = [i \in Index |-> [j \in Index |-> N(a[i][j] - b[i][j])]]
  BY Entries, Indices DEF Sub, differenceOf, N
<1>2. \A i, j \in Index : N(a[i][j] - b[i][j]) \in F
  BY Entries, NormType
<1> QED BY <1>1, <1>2 DEF Matrix

LEMMA MulSIs ==
  ASSUME NEW a \in Matrix, NEW s \in Int
  PROVE  /\ MulS(a, s) \in Matrix
         /\ \A i, j \in Index : MulS(a, s)[i][j] = N(s * a[i][j])
<1>1. MulS(a, s) = [i \in Index |-> [j \in Index |-> N(s * a[i][j])]]
  BY Entries, Indices DEF MulS, multipleOf, N
<1>2. \A i, j \in Index : N(s * a[i][j]) \in F
  BY Entries, NormType
<1> QED BY <1>1, <1>2 DEF Matrix

LEMMA TransIs ==
  ASSUME NEW a \in Matrix
  PROVE  Trans(a) \in Matrix /\ \A i, j \in Index : Trans(a)[i][j] = a[j][i]
<1>1. Trans(a) = [i \in Index |-> [j \in Index |-> a[j][i]]]
  BY Entries, Indices DEF Trans, transposeOf
<1> QED BY <1>1, Entries DEF Matrix

-----------------------------------------------------------------------------
(* Matrix arithmetic *)

LEMMA MulAssoc ==
  ASSUME NEW a \in Matrix, NEW b \in Matrix, NEW c \in Matrix
  PROVE  Mul(Mul(a, b), c) = Mul(a, Mul(b, c))
<1>1. Mul(a, b) \in Matrix /\ Mul(b, c) \in Matrix
  BY MulIs
<1>2. ASSUME NEW i \in Index, NEW j \in Index
      PROVE  Mul(Mul(a, b), c)[i][j] = Mul(a, Mul(b, c))[i][j]
  <2> DEFINE a1  == a[i][1]  a2  == a[i][2]  c1  == c[1][j]  c2  == c[2][j]
             b11 == b[1][1]  b12 == b[1][2]  b21 == b[2][1]  b22 == b[2][2]
             x1 == a1 * b11 + a2 * b21  x2 == a1 * b12 + a2 * b22
             y1 == b11 * c1 + b12 * c2  y2 == b21 * c1 + b22 * c2
  <2>1. /\ a1 \in Int /\ a2 \in Int /\ c1 \in Int /\ c2 \in Int
        /\ b11 \in Int /\ b12 \in Int /\ b21 \in Int /\ b22 \in Int
    BY Entries, Indices
  <2>2. Mul(Mul(a, b), c)[i][j] = N(N(x1) * c1 + N(x2) * c2)
    BY <1>1, MulIs, Indices
  <2>3. Mul(a, Mul(b, c))[i][j] = N(a1 * N(y1) + a2 * N(y2))
    BY <1>1, MulIs, Indices
  <2> HIDE DEF a1, a2, c1, c2, b11, b12, b21, b22
  <2>4. x1 \in Int /\ x2 \in Int /\ y1 \in Int /\ y2 \in Int
        /\ x1 * c1 + x2 * c2 = y1 * a1 + y2 * a2
    BY <2>1
  <2> HIDE DEF x1, x2, y1, y2
  <2>5. N(N(x1) * c1 + N(x2) * c2) = N(x1 * c1 + x2 * c2)
        /\ N(N(y1) * a1 + N(y2) * a2) = N(y1 * a1 + y2 * a2)
    BY <2>1, <2>4, NormDot
  <2>6. N(y1) * a1 + N(y2) * a2 = a1 * N(y1) + a2 * N(y2)
    BY <2>1, <2>4, NormType
  <2> QED BY <2>2, <2>3, <2>4, <2>5, <2>6
<1> QED BY <1>1, <1>2, MulIs, SameMatrix

LEMMA MulSub ==
  ASSUME NEW a \in Matrix, NEW b \in Matrix, NEW c \in Matrix
  PROVE  Mul(a, Sub(b, c)) = Sub(Mul(a, b), Mul(a, c))
<1>1. Sub(b, c) \in Matrix /\ Mul(a, b) \in Matrix /\ Mul(a, c) \in Matrix
  BY SubIs, MulIs
<1>2. ASSUME NEW i \in Index, NEW j \in Index
      PROVE  Mul(a, Sub(b, c))[i][j] = Sub(Mul(a, b), Mul(a, c))[i][j]
  <2> DEFINE a1 == a[i][1]  a2 == a[i][2]
             b1 == b[1][j]  b2 == b[2][j]  c1 == c[1][j]  c2 == c[2][j]
             x == a1 * b1 + a2 * b2  y == a1 * c1 + a2 * c2
             u == b1 - c1  v == b2 - c2
  <2>1. /\ a1 \in Int /\ a2 \in Int /\ b1 \in Int /\ b2 \in Int /\ c1 \in Int /\ c2 \in Int
    BY Entries, Indices
  <2>2. Mul(a, Sub(b, c))[i][j] = N(a1 * N(u) + a2 * N(v))
    BY <1>1, MulIs, SubIs, Indices
  <2>3. Sub(Mul(a, b), Mul(a, c))[i][j] = N(N(x) - N(y))
    BY <1>1, MulIs, SubIs, Indices
  <2> HIDE DEF a1, a2, b1, b2, c1, c2
  <2>4. x \in Int /\ y \in Int /\ u \in Int /\ v \in Int /\ u * a1 + v * a2 = x - y
    BY <2>1
  <2> HIDE DEF x, y, u, v
  <2>5. N(N(u) * a1 + N(v) * a2) = N(u * a1 + v * a2)
    BY <2>1, <2>4, NormDot
  <2>6. N(u) * a1 + N(v) * a2 = a1 * N(u) + a2 * N(v)
    BY <2>1, <2>4, NormType
  <2>7. N(N(x) - N(y)) = N(x - y)
    BY <2>4, NormSum
  <2> QED BY <2>2, <2>3, <2>4, <2>5, <2>6, <2>7
<1> QED BY <1>1, <1>2, MulIs, SubIs, SameMatrix

LEMMA SubMul ==
  ASSUME NEW a \in Matrix, NEW b \in Matrix, NEW c \in Matrix
  PROVE  Mul(Sub(a, b), c) = Sub(Mul(a, c), Mul(b, c))
<1>1. Sub(a, b) \in Matrix /\ Mul(a, c) \in Matrix /\ Mul(b, c) \in Matrix
  BY SubIs, MulIs
<1>2. ASSUME NEW i \in Index, NEW j \in Index
      PROVE  Mul(Sub(a, b), c)[i][j] = Sub(Mul(a, c), Mul(b, c))[i][j]
  <2> DEFINE a1 == a[i][1]  a2 == a[i][2]
             b1 == b[i][1]  b2 == b[i][2]  c1 == c[1][j]  c2 == c[2][j]
             x == a1 * c1 + a2 * c2  y == b1 * c1 + b2 * c2
             u == a1 - b1  v == a2 - b2
  <2>1. /\ a1 \in Int /\ a2 \in Int /\ b1 \in Int /\ b2 \in Int /\ c1 \in Int /\ c2 \in Int
    BY Entries, Indices
  <2>2. Mul(Sub(a, b), c)[i][j] = N(N(u) * c1 + N(v) * c2)
    BY <1>1, MulIs, SubIs, Indices
  <2>3. Sub(Mul(a, c), Mul(b, c))[i][j] = N(N(x) - N(y))
    BY <1>1, MulIs, SubIs, Indices
  <2> HIDE DEF a1, a2, b1, b2, c1, c2
  <2>4. x \in Int /\ y \in Int /\ u \in Int /\ v \in Int /\ u * c1 + v * c2 = x - y
    BY <2>1
  <2> HIDE DEF x, y, u, v
  <2>5. N(N(u) * c1 + N(v) * c2) = N(u * c1 + v * c2)
    BY <2>1, <2>4, NormDot
  <2>6. N(N(x) - N(y)) = N(x - y)
    BY <2>4, NormSum
  <2> QED BY <2>2, <2>3, <2>4, <2>5, <2>6
<1> QED BY <1>1, <1>2, MulIs, SubIs, SameMatrix

LEMMA AddSub ==
  ASSUME NEW a \in Matrix, NEW b \in Matrix
  PROVE  Sub(Add(a, b), a) = b /\ Sub(Add(a, b), b) = a /\ Add(Sub(a, b), b) = a
<1>1. Add(a, b) \in Matrix /\ Sub(a, b) \in Matrix
  BY AddIs, SubIs
<1>2. ASSUME NEW i \in Index, NEW j \in Index
      PROVE  /\ Sub(Add(a, b), a)[i][j] = b[i][j]
             /\ Sub(Add(a, b), b)[i][j] = a[i][j]
             /\ Add(Sub(a, b), b)[i][j] = a[i][j]
  <2> DEFINE x == a[i][j]  y == b[i][j]
  <2>1. x \in Int /\ y \in Int /\ N(x) = x /\ N(y) = y
    BY Entries, NormF
  <2>2. /\ Sub(Add(a, b), a)[i][j] = N(N(x + y) - x)
        /\ Sub(Add(a, b), b)[i][j] = N(N(x + y) - y)
        /\ Add(Sub(a, b), b)[i][j] = N(N(x - y) + y)
    BY <1>1, AddIs, SubIs
  <2> HIDE DEF x, y
  <2>3. x + y \in Int /\ x - y \in Int
        /\ (x + y) - x = y /\ (x + y) - y = x /\ (x - y) + y = x
    BY <2>1
  <2>4. /\ N(N(x + y) - x) = N((x + y) - x)
        /\ N(N(x + y) - y) = N((x + y) - y)
        /\ N(N(x - y) + y) = N((x - y) + y)
    BY <2>1, <2>3, NormSum
  <2> QED BY <2>1, <2>2, <2>3, <2>4 DEF x, y
<1> QED BY <1>1, <1>2, AddIs, SubIs, SameMatrix

LEMMA AddComm ==
  ASSUME NEW a \in Matrix, NEW b \in Matrix
  PROVE  Add(a, b) = Add(b, a)
<1>1. Add(a, b) \in Matrix /\ Add(b, a) \in Matrix
  BY AddIs
<1>2. ASSUME NEW i \in Index, NEW j \in Index
      PROVE  Add(a, b)[i][j] = Add(b, a)[i][j]
  <2>1. a[i][j] + b[i][j] = b[i][j] + a[i][j]
    BY Entries
  <2> QED BY <2>1, AddIs
<1> QED BY <1>1, <1>2, SameMatrix

LEMMA DiagIs ==
  ASSUME NEW x \in F, NEW y \in F
  PROVE  /\ Diag(x, y) \in Matrix
         /\ Diag(x, y)[1][1] = x /\ Diag(x, y)[1][2] = 0
         /\ Diag(x, y)[2][1] = 0 /\ Diag(x, y)[2][2] = y
  BY FieldInt DEF Diag, Matrix, Index

LEMMA EyeMul ==
  ASSUME NEW a \in Matrix
  PROVE  Mul(Eye, a) = a /\ Mul(a, Eye) = a
<1>1. Eye \in Matrix /\ Eye[1][1] = 1 /\ Eye[1][2] = 0 /\ Eye[2][1] = 0 /\ Eye[2][2] = 1
  BY DiagIs, FieldInt DEF Eye
<1>2. ASSUME NEW i \in Index, NEW j \in Index
      PROVE  Mul(Eye, a)[i][j] = a[i][j] /\ Mul(a, Eye)[i][j] = a[i][j]
  <2>1. a[i][j] \in Int /\ a[1][j] \in Int /\ a[2][j] \in Int /\ a[i][1] \in Int /\ a[i][2] \in Int
        /\ N(a[i][j]) = a[i][j]
    BY Entries, Indices, NormF
  <2>2. Mul(Eye, a)[i][j] = N(Eye[i][1] * a[1][j] + Eye[i][2] * a[2][j])
    BY <1>1, MulIs
  <2>3. Mul(a, Eye)[i][j] = N(a[i][1] * Eye[1][j] + a[i][2] * Eye[2][j])
    BY <1>1, MulIs
  <2>4. Eye[i][1] * a[1][j] + Eye[i][2] * a[2][j] = a[i][j]
    BY <1>1, <2>1, Indices
  <2>5. a[i][1] * Eye[1][j] + a[i][2] * Eye[2][j] = a[i][j]
    BY <1>1, <2>1, Indices
  <2> QED BY <2>1, <2>2, <2>3, <2>4, <2>5
<1> QED BY <1>1, <1>2, MulIs, SameMatrix

LEMMA TransTrans == ASSUME NEW a \in Matrix PROVE Trans(Trans(a)) = a
<1>1. Trans(a) \in Matrix /\ Trans(Trans(a)) \in Matrix
  BY TransIs
<1> QED BY <1>1, TransIs, SameMatrix

LEMMA TransMul ==
  ASSUME NEW a \in Matrix, NEW b \in Matrix
  PROVE  Trans(Mul(a, b)) = Mul(Trans(b), Trans(a))
<1>1. Mul(a, b) \in Matrix /\ Trans(a) \in Matrix /\ Trans(b) \in Matrix
  BY MulIs, TransIs
<1>2. ASSUME NEW i \in Index, NEW j \in Index
      PROVE  Trans(Mul(a, b))[i][j] = Mul(Trans(b), Trans(a))[i][j]
  <2>1. a[j][1] \in Int /\ a[j][2] \in Int /\ b[1][i] \in Int /\ b[2][i] \in Int
    BY Entries, Indices
  <2>2. Trans(Mul(a, b))[i][j] = N(a[j][1] * b[1][i] + a[j][2] * b[2][i])
    BY <1>1, MulIs, TransIs
  <2>3. Mul(Trans(b), Trans(a))[i][j] = N(b[1][i] * a[j][1] + b[2][i] * a[j][2])
    BY <1>1, MulIs, TransIs, Indices
  <2>4. a[j][1] * b[1][i] + a[j][2] * b[2][i] = b[1][i] * a[j][1] + b[2][i] * a[j][2]
    BY <2>1
  <2> QED BY <2>2, <2>3, <2>4
<1> QED BY <1>1, <1>2, MulIs, TransIs, SameMatrix

LEMMA TransAdd ==
  ASSUME NEW a \in Matrix, NEW b \in Matrix
  PROVE  Trans(Add(a, b)) = Add(Trans(a), Trans(b)) /\ Trans(Sub(a, b)) = Sub(Trans(a), Trans(b))
<1>1. Add(a, b) \in Matrix /\ Sub(a, b) \in Matrix /\ Trans(a) \in Matrix /\ Trans(b) \in Matrix
  BY AddIs, SubIs, TransIs
<1>2. ASSUME NEW i \in Index, NEW j \in Index
      PROVE  /\ Trans(Add(a, b))[i][j] = Add(Trans(a), Trans(b))[i][j]
             /\ Trans(Sub(a, b))[i][j] = Sub(Trans(a), Trans(b))[i][j]
  BY <1>1, AddIs, SubIs, TransIs
<1> QED BY <1>1, <1>2, AddIs, SubIs, TransIs, SameMatrix

LEMMA TransMulS ==
  ASSUME NEW a \in Matrix, NEW s \in Int
  PROVE  Trans(MulS(a, s)) = MulS(Trans(a), s)
<1>1. MulS(a, s) \in Matrix /\ Trans(a) \in Matrix
  BY MulSIs, TransIs
<1>2. ASSUME NEW i \in Index, NEW j \in Index
      PROVE  Trans(MulS(a, s))[i][j] = MulS(Trans(a), s)[i][j]
  BY <1>1, MulSIs, TransIs
<1> QED BY <1>1, <1>2, MulSIs, TransIs, SameMatrix

-----------------------------------------------------------------------------
(* Reciprocals and inverses *)

Less == {ss \in Nat \X Nat : ss[1] < ss[2]}

LEMMA LeastNumber ==
  ASSUME NEW S, S \subseteq Nat, S # {}
  PROVE  \E n \in S : \A m \in S : n <= m
<1>1. IsWellFoundedOn(Less, Nat)
  BY NatLessThanWellFounded, Zenon DEF OpToRel, Less
<1>2. PICK n \in S : \A m \in S : ~ (<<m, n>> \in Less)
  BY <1>1, WFMin
<1>3. ASSUME NEW m \in S PROVE n <= m
  <2>1. <<m, n>> \in Nat \X Nat /\ ~ (<<m, n>> \in Less)
    BY <1>2
  <2> QED BY <2>1 DEF Less
<1> QED BY <1>3

LEMMA Bezout ==
  ASSUME NEW x \in Int, N(x) # 0
  PROVE  \E u, v \in Int : x * u + Prime * v = 1
<1> DEFINE Combination(n) == \E u, v \in Int : n = x * u + Prime * v
           S == {n \in Nat : n > 0 /\ Combination(n)}
<1>0. \A n \in Int, u \in Int, v \in Int : n = x * u + Prime * v => Combination(n)
  OBVIOUS
<1>1. Prime \in S
  <2>1. Prime = x * 0 + Prime * 1
    BY PrimeIs
  <2>2. Combination(Prime)
    <3> WITNESS 0 \in Int, 1 \in Int
    <3> QED BY <2>1
  <2> HIDE DEF Combination
  <2> QED BY <2>2, PrimeIs
<1>2. PICK d \in S : \A m \in S : d <= m
  BY <1>1, LeastNumber
<1>3. PICK u \in Int, v \in Int : d = x * u + Prime * v
  BY <1>2
<1> HIDE DEF Combination
<1>4. d \in Int /\ d > 0 /\ d <= Prime
  BY <1>1, <1>2, PrimeIs
<1>5. Prime % d = 0
  <2> DEFINE q == Prime \div d  r == Prime % d
  <2>1. r = Prime - d * q /\ q \in Int /\ r \in 0..(d - 1)
    BY <1>4, PrimeIs, DivMod
  <2> HIDE DEF q, r
  <2>2. r = x * (0 - u * q) + Prime * (1 - v * q)
    BY <2>1, <1>3, PrimeIs
  <2>3. 0 - u * q \in Int /\ 1 - v * q \in Int /\ r \in Nat /\ r < d
    BY <2>1, <1>4
  <2>4. r > 0 => r \in S
    BY <2>2, <2>3, <1>0
  <2>5. r = 0
    BY <2>3, <2>4, <1>2, <1>4
  <2> QED BY <2>5 DEF r
<1>6. d # Prime
  <2> DEFINE q == x \div Prime
  <2>1. N(x) = x - Prime * q /\ q \in Int
    BY DivMod, PrimeIs DEF N
  <2> HIDE DEF q
  <2> DEFINE k == 0 - q
  <2>2. N(x) = x * 1 + Prime * k /\ k \in Int
    BY <2>1, PrimeIs
  <2> HIDE DEF k
  <2>3. N(x) \in Nat /\ N(x) > 0 /\ N(x) < Prime
    BY NormType, PrimeIs DEF F
  <2>4. Combination(N(x))
    <3> USE DEF Combination
    <3>1. k \in Int
      BY <2>2
    <3> WITNESS 1 \in Int, k \in Int
    <3> QED BY <2>2
  <2>6. N(x) \in S
    BY <2>3, <2>4
  <2>5. d <= N(x)
    BY <2>6, <1>2
  <2> QED BY <2>3, <2>5, <1>4, PrimeIs
<1>7. d = 1
  <2>1. d \notin 2..(Prime - 1)
    BY <1>5, PrimeAssumption
  <2> QED BY <2>1, <1>4, <1>6, PrimeIs
<1> QED BY <1>3, <1>7

LEMMA Reciprocal ==
  ASSUME NEW x \in Int, N(x) # 0
  PROVE  Recip(x) \in F /\ N(x * Recip(x)) = 1
<1>1. PICK u \in Int, v \in Int : x * u + Prime * v = 1
  BY Bezout
<1>2. N(u) \in F /\ N(u) \in Int
  BY NormType
<1>3. N(x * N(u)) = 1
  <2>1. N(x * N(u)) = N(u * x)
    BY NormMul
  <2>2. u * x = 1 + Prime * (0 - v) /\ 0 - v \in Int
    BY <1>1, PrimeIs
  <2>3. N(1 + Prime * (0 - v)) = N(1)
    BY <2>2, Shift
  <2> QED BY <2>1, <2>2, <2>3, NormF, FieldInt
<1>4. \E y \in F : (x * y) % Prime = 1
  BY <1>2, <1>3 DEF N
<1> QED BY <1>4 DEF Recip, N

LEMMA InverseEntries ==
  ASSUME NEW a \in Matrix, Det(a) # 0
  PROVE  \E r \in Int :
           LET D == a[1][1] * a[2][2] - a[1][2] * a[2][1]
           IN  /\ r \in F /\ N(D * r) = 1
               /\ InverseOf(a) \in Matrix
               /\ InverseOf(a)[1][1] = N(r * a[2][2])
               /\ InverseOf(a)[1][2] = N(r * (-a[1][2]))
               /\ InverseOf(a)[2][1] = N(r * (-a[2][1]))
               /\ InverseOf(a)[2][2] = N(r * a[1][1])
<1> DEFINE D == a[1][1] * a[2][2] - a[1][2] * a[2][1]  r == Recip(Det(a))
<1>1. D \in Int /\ Det(a) = N(D)
  BY Entries, Indices DEF Det, N
<1>2. Det(a) \in Int /\ N(Det(a)) = Det(a)
  BY <1>1, NormType, NormF
<1>3. r \in F /\ r \in Int /\ N(Det(a) * r) = 1
  BY <1>2, Reciprocal, FieldInt
<1>4. N(D * r) = 1
  <2> HIDE DEF D, r
  <2> QED BY <1>1, <1>3, NormMul
<1>5. InverseOf(a) = [i \in Index |-> [j \in Index |->
                        N(r * (IF i = j THEN a[3 - i][3 - j] ELSE -a[i][j]))]]
  BY DEF InverseOf, inverseOf, N
<1> HIDE DEF r
<1>6. \A i, j \in Index : N(r * (IF i = j THEN a[3 - i][3 - j] ELSE -a[i][j])) \in F
  <2> SUFFICES ASSUME NEW i \in Index, NEW j \in Index
               PROVE  N(r * (IF i = j THEN a[3 - i][3 - j] ELSE -a[i][j])) \in F
    OBVIOUS
  <2>1. 3 - i \in Index /\ 3 - j \in Index
    BY Indices
  <2>2. (IF i = j THEN a[3 - i][3 - j] ELSE -a[i][j]) \in Int
    BY <2>1, Entries
  <2> QED BY <2>2, <1>3, NormType
<1>7. InverseOf(a) \in Matrix
  BY <1>5, <1>6 DEF Matrix
<1>8. /\ InverseOf(a)[1][1] = N(r * a[2][2])
      /\ InverseOf(a)[1][2] = N(r * (-a[1][2]))
      /\ InverseOf(a)[2][1] = N(r * (-a[2][1]))
      /\ InverseOf(a)[2][2] = N(r * a[1][1])
  BY <1>5, Indices
<1> QED BY <1>3, <1>4, <1>7, <1>8

LEMMA EyeIs == /\ Eye \in Matrix /\ Eye[1][1] = 1 /\ Eye[1][2] = 0 /\ Eye[2][1] = 0 /\ Eye[2][2] = 1
  BY DiagIs, FieldInt DEF Eye

LEMMA TransEye == Trans(Eye) = Eye
<1>1. \A i, j \in Index : Trans(Eye)[i][j] = Eye[i][j]
  BY EyeIs, TransIs, Indices
<1> QED BY <1>1, EyeIs, TransIs, SameMatrix

LEMMA InverseMul ==
  ASSUME NEW a \in Matrix, Det(a) # 0
  PROVE  /\ InverseOf(a) \in Matrix
         /\ Mul(InverseOf(a), a) = Eye
         /\ Mul(a, InverseOf(a)) = Eye
         /\ Det(InverseOf(a)) # 0
<1> DEFINE a11 == a[1][1] a12 == a[1][2] a21 == a[2][1] a22 == a[2][2]
           D == a11 * a22 - a12 * a21
           b == InverseOf(a)
<1>1. PICK r \in Int : /\ r \in F /\ N(D * r) = 1 /\ b \in Matrix
                       /\ b[1][1] = N(r * a22) /\ b[1][2] = N(r * (-a12))
                       /\ b[2][1] = N(r * (-a21)) /\ b[2][2] = N(r * a11)
  BY InverseEntries
<1> DEFINE w == r * a22  x == r * (-a12)  y == r * (-a21)  z == r * a11  E == D * r
<1>2. a11 \in Int /\ a12 \in Int /\ a21 \in Int /\ a22 \in Int
  BY Entries, Indices
<1>3. Mul(b, a) \in Matrix /\ Mul(a, b) \in Matrix
  BY <1>1, MulIs
<1>4. /\ Mul(b, a)[1][1] = N(N(w) * a11 + N(x) * a21)
      /\ Mul(b, a)[1][2] = N(N(w) * a12 + N(x) * a22)
      /\ Mul(b, a)[2][1] = N(N(y) * a11 + N(z) * a21)
      /\ Mul(b, a)[2][2] = N(N(y) * a12 + N(z) * a22)
  BY <1>1, MulIs, Indices
<1>5. /\ Mul(a, b)[1][1] = N(a11 * N(w) + a12 * N(y))
      /\ Mul(a, b)[1][2] = N(a11 * N(x) + a12 * N(z))
      /\ Mul(a, b)[2][1] = N(a21 * N(w) + a22 * N(y))
      /\ Mul(a, b)[2][2] = N(a21 * N(x) + a22 * N(z))
  BY <1>1, MulIs, Indices
<1>6. Det(b) = N(N(w) * N(z) - N(x) * N(y))
  BY <1>1 DEF Det, N
<1> HIDE DEF a11, a12, a21, a22, b
<1>7. w \in Int /\ x \in Int /\ y \in Int /\ z \in Int /\ E \in Int
  BY <1>2
<1>8. /\ w * a11 + x * a21 = E  /\ w * a12 + x * a22 = 0
      /\ y * a11 + z * a21 = 0  /\ y * a12 + z * a22 = E
      /\ w * a11 + y * a12 = E  /\ x * a11 + z * a12 = 0
      /\ w * a21 + y * a22 = 0  /\ x * a21 + z * a22 = E
  BY <1>2
<1>9. w * z - x * y = E * r
  BY <1>2
<1>10. N(E) = 1
  BY <1>1
<1> HIDE DEF w, x, y, z, E
<1>11. N(0) = 0 /\ N(w) \in Int /\ N(x) \in Int /\ N(y) \in Int /\ N(z) \in Int
  BY <1>7, NormF, NormType, FieldInt
<1>12. Mul(b, a)[1][1] = 1 /\ Mul(b, a)[1][2] = 0
  <2>1. N(N(w) * a11 + N(x) * a21) = N(w * a11 + x * a21)
    BY <1>2, <1>7, NormDot
  <2>2. N(N(w) * a12 + N(x) * a22) = N(w * a12 + x * a22)
    BY <1>2, <1>7, NormDot
  <2> QED BY <2>1, <2>2, <1>4, <1>8, <1>10, <1>11
<1>13. Mul(b, a)[2][1] = 0 /\ Mul(b, a)[2][2] = 1
  <2>1. N(N(y) * a11 + N(z) * a21) = N(y * a11 + z * a21)
    BY <1>2, <1>7, NormDot
  <2>2. N(N(y) * a12 + N(z) * a22) = N(y * a12 + z * a22)
    BY <1>2, <1>7, NormDot
  <2> QED BY <2>1, <2>2, <1>4, <1>8, <1>10, <1>11
<1>14. Mul(a, b)[1][1] = 1 /\ Mul(a, b)[1][2] = 0
  <2>1. N(N(w) * a11 + N(y) * a12) = N(w * a11 + y * a12)
    BY <1>2, <1>7, NormDot
  <2>2. N(N(x) * a11 + N(z) * a12) = N(x * a11 + z * a12)
    BY <1>2, <1>7, NormDot
  <2>3. N(w) * a11 + N(y) * a12 = a11 * N(w) + a12 * N(y)
        /\ N(x) * a11 + N(z) * a12 = a11 * N(x) + a12 * N(z)
    BY <1>2, <1>11
  <2> QED BY <2>1, <2>2, <2>3, <1>5, <1>8, <1>10, <1>11
<1>15. Mul(a, b)[2][1] = 0 /\ Mul(a, b)[2][2] = 1
  <2>1. N(N(w) * a21 + N(y) * a22) = N(w * a21 + y * a22)
    BY <1>2, <1>7, NormDot
  <2>2. N(N(x) * a21 + N(z) * a22) = N(x * a21 + z * a22)
    BY <1>2, <1>7, NormDot
  <2>3. N(w) * a21 + N(y) * a22 = a21 * N(w) + a22 * N(y)
        /\ N(x) * a21 + N(z) * a22 = a21 * N(x) + a22 * N(z)
    BY <1>2, <1>11
  <2> QED BY <2>1, <2>2, <2>3, <1>5, <1>8, <1>10, <1>11
<1>16. Mul(b, a) = Eye
  BY <1>3, <1>12, <1>13, EyeIs, Indices, SameMatrix
<1>17. Mul(a, b) = Eye
  BY <1>3, <1>14, <1>15, EyeIs, Indices, SameMatrix
<1>18. Det(b) = r
  <2>1. N(N(w) * N(z) - N(x) * N(y)) = N(w * z - x * y)
    <3>1. N(w) * N(z) \in Int /\ N(x) * N(y) \in Int /\ w * z \in Int /\ x * y \in Int
      BY <1>7, <1>11
    <3>2. N(N(w) * N(z)) = N(w * N(z)) /\ N(w * N(z)) = N(z * w)
      BY <1>7, <1>11, NormMul
    <3>3. N(N(x) * N(y)) = N(x * N(y)) /\ N(x * N(y)) = N(y * x)
      BY <1>7, <1>11, NormMul
    <3>4. z * w = w * z /\ y * x = x * y
      BY <1>7
    <3>5. N(N(N(w) * N(z)) - N(N(x) * N(y))) = N(N(w) * N(z) - N(x) * N(y))
      BY <3>1, NormSum
    <3>6. N(N(w * z) - N(x * y)) = N(w * z - x * y)
      BY <3>1, NormSum
    <3> QED BY <3>2, <3>3, <3>4, <3>5, <3>6
  <2>2. N(E * r) = N(N(E) * r)
    BY <1>1, <1>7, NormMul
  <2>3. N(E) * r = r /\ N(r) = r
    BY <1>1, <1>10, NormF
  <2> QED BY <1>6, <1>9, <2>1, <2>2, <2>3
<1>19. r # 0
  <2>1. r = 0 => E = 0
    BY <1>2 DEF E
  <2> QED BY <2>1, <1>10, <1>11
<1> QED BY <1>1, <1>16, <1>17, <1>18, <1>19 DEF b

LEMMA InverseInverse ==
  ASSUME NEW a \in Matrix, Det(a) # 0
  PROVE  InverseOf(InverseOf(a)) = a
<1> DEFINE b == InverseOf(a)  c == InverseOf(b)
<1>1. b \in Matrix /\ Mul(b, a) = Eye /\ Det(b) # 0
  BY InverseMul
<1> HIDE DEF b
<1>2. c \in Matrix /\ Mul(c, b) = Eye
  BY <1>1, InverseMul
<1> HIDE DEF c
<1>3. Mul(c, Eye) = c /\ Mul(Eye, a) = a
  BY <1>2, EyeMul
<1>4. Mul(Mul(c, b), a) = Mul(c, Mul(b, a))
  BY <1>1, <1>2, MulAssoc
<1> QED BY <1>1, <1>2, <1>3, <1>4 DEF b, c

LEMMA InverseSymmetric ==
  ASSUME NEW a \in Matrix, Det(a) # 0, a = Trans(a)
  PROVE  InverseOf(a) = Trans(InverseOf(a))
<1> DEFINE b == InverseOf(a)
<1>1. PICK r \in Int : /\ b \in Matrix
                       /\ b[1][2] = N(r * (-a[1][2])) /\ b[2][1] = N(r * (-a[2][1]))
  BY InverseEntries
<1>2. a[1][2] = a[2][1]
  BY TransIs, Indices
<1>3. b[1][2] = b[2][1] /\ Trans(b) \in Matrix
  BY <1>1, <1>2, TransIs
<1>4. \A i, j \in Index : b[i][j] = Trans(b)[i][j]
  BY <1>1, <1>3, TransIs, Indices
<1> QED BY <1>1, <1>3, <1>4, SameMatrix

-----------------------------------------------------------------------------
(* Vectors *)

LEMMA VectorEntries ==
  ASSUME NEW v \in Vector
  PROVE  /\ DOMAIN v = Index /\ DOMAIN v[1] = {1} /\ 2 \in DOMAIN v
         /\ \A i \in Index : v[i][1] \in F /\ v[i][1] \in Int
         /\ v \in Arrays
  BY Indices, FieldInt DEF Vector, Arrays

LEMMA SameVector ==
  ASSUME NEW v \in Vector, NEW w \in Vector, \A i \in Index : v[i][1] = w[i][1]
  PROVE  v = w
<1>1. \A i \in Index : v[i] = w[i]
  BY DEF Vector
<1> QED BY <1>1 DEF Vector

LEMMA MulVector ==
  ASSUME NEW a \in Matrix, NEW v \in Vector
  PROVE  /\ Mul(a, v) \in Vector
         /\ \A i \in Index : Mul(a, v)[i][1] = N(a[i][1] * v[1][1] + a[i][2] * v[2][1])
<1>1. Mul(a, v) = [i \in Index |-> [j \in {1} |-> N(a[i][1] * v[1][j] + a[i][2] * v[2][j])]]
  BY Entries, VectorEntries, Indices DEF Mul, productOf, N
<1>2. \A i \in Index : N(a[i][1] * v[1][1] + a[i][2] * v[2][1]) \in F
  BY Entries, VectorEntries, Indices, NormType
<1> QED BY <1>1, <1>2 DEF Vector

LEMMA AddVector ==
  ASSUME NEW v \in Vector, NEW w \in Vector
  PROVE  /\ Add(v, w) \in Vector /\ Sub(v, w) \in Vector
         /\ \A i \in Index : /\ Add(v, w)[i][1] = N(v[i][1] + w[i][1])
                             /\ Sub(v, w)[i][1] = N(v[i][1] - w[i][1])
<1>1. Add(v, w) = [i \in Index |-> [j \in {1} |-> N(v[i][j] + w[i][j])]]
  BY VectorEntries, Indices DEF Add, sumOf, N
<1>2. Sub(v, w) = [i \in Index |-> [j \in {1} |-> N(v[i][j] - w[i][j])]]
  BY VectorEntries, Indices DEF Sub, differenceOf, N
<1>3. \A i \in Index : N(v[i][1] + w[i][1]) \in F /\ N(v[i][1] - w[i][1]) \in F
  BY VectorEntries, NormType
<1> QED BY <1>1, <1>2, <1>3 DEF Vector

LEMMA MulSVector ==
  ASSUME NEW v \in Vector, NEW s \in Int
  PROVE  MulS(v, s) \in Vector /\ \A i \in Index : MulS(v, s)[i][1] = N(s * v[i][1])
<1>1. MulS(v, s) = [i \in Index |-> [j \in {1} |-> N(s * v[i][j])]]
  BY VectorEntries, Indices DEF MulS, multipleOf, N
<1>2. \A i \in Index : N(s * v[i][1]) \in F
  BY VectorEntries, NormType
<1> QED BY <1>1, <1>2 DEF Vector

LEMMA MulSingle ==
  ASSUME NEW v \in Vector, NEW u \in Single
  PROVE  Mul(v, u) \in Vector /\ \A i \in Index : Mul(v, u)[i][1] = N(v[i][1] * u[1][1] + 0)
<1>1. u \in Arrays /\ DOMAIN u = {1} /\ DOMAIN u[1] = {1} /\ u[1][1] \in F /\ u[1][1] \in Int
  BY FieldInt DEF Single, Arrays
<1>2. Mul(v, u) = [i \in Index |-> [j \in {1} |-> N(v[i][1] * u[1][j] + 0)]]
  BY <1>1, VectorEntries, Indices DEF Mul, productOf, N
<1>3. \A i \in Index : N(v[i][1] * u[1][1] + 0) \in F
  BY <1>1, VectorEntries, NormType
<1> QED BY <1>2, <1>3 DEF Vector

LEMMA MulRow ==
  ASSUME NEW v \in Vector, NEW x \in F, NEW y \in F
  PROVE  /\ Mul(v, <<<<x, y>>>>) \in Matrix
         /\ \A i \in Index : /\ Mul(v, <<<<x, y>>>>)[i][1] = N(v[i][1] * x + 0)
                             /\ Mul(v, <<<<x, y>>>>)[i][2] = N(v[i][1] * y + 0)
<1> DEFINE r == <<<<x, y>>>>
<1>0. r[1] = <<x, y>> /\ DOMAIN r = {1}
  OBVIOUS
<1>a. <<x, y>> = [i \in Index |-> IF i = 1 THEN x ELSE y]
  BY DEF Index
<1>b. r = [i \in {1} |-> [j \in Index |-> IF j = 1 THEN x ELSE y]]
  BY <1>0, <1>a
<1>1. r \in [{1} -> [Index -> F]]
  BY <1>b
<1>2. r \in Arrays /\ DOMAIN r = {1} /\ DOMAIN r[1] = Index /\ r[1][1] = x /\ r[1][2] = y
  BY <1>1 DEF Arrays
<1>3. x \in Int /\ y \in Int
  BY FieldInt
<1> HIDE DEF r
<1>4. Mul(v, r) = [i \in Index |-> [j \in Index |-> N(v[i][1] * r[1][j] + 0)]]
  <2>1. <<v, r>> \in Arrays \X Arrays /\ 2 \notin DOMAIN r /\ DOMAIN v = Index
    BY <1>2, VectorEntries
  <2>2. Mul(v, r) = [i \in DOMAIN v |-> [j \in DOMAIN r[1] |->
          (v[i][1] * r[1][j] + IF 2 \in DOMAIN r THEN v[i][2] * r[2][j] ELSE 0) % Prime]]
    BY <2>1 DEF Mul, productOf
  <2>3. Mul(v, r) = [i \in Index |-> [j \in Index |-> (v[i][1] * r[1][j] + 0) % Prime]]
    BY <1>2, <2>1, <2>2
  <2> QED BY <2>3 DEF N
<1>5. \A i, j \in Index : N(v[i][1] * r[1][j] + 0) \in F
  BY <1>2, <1>3, VectorEntries, Indices, NormType
<1>6. Mul(v, r) \in Matrix /\ \A i \in Index : /\ Mul(v, r)[i][1] = N(v[i][1] * x + 0)
                                               /\ Mul(v, r)[i][2] = N(v[i][1] * y + 0)
  BY <1>2, <1>4, <1>5, Indices DEF Matrix
<1> QED BY <1>6 DEF r

LEMMA SixNotZero == N(6) # 0
<1>1. Prime \in Int /\ Prime > 3 /\ Prime # 4 /\ Prime # 6
  BY PrimeAssumption
<1>2. CASE Prime > 6
  <2>1. \E six \in F : six = 6
    BY <1>1, <1>2 DEF F
  <2> QED BY <2>1, NormF
<1>3. CASE Prime = 5
  BY <1>3 DEF N
<1> QED BY <1>1, <1>2, <1>3

LEMMA HalfAndSixth == Recip(2) \in F /\ Recip(6) \in F /\ Recip(2) \in Int /\ Recip(6) \in Int
<1>1. Prime \in Int /\ Prime > 3 /\ Prime # 4 /\ Prime # 6
  BY PrimeAssumption
<1>2. N(2) # 0
  BY <1>1 DEF N
<1>3. N(6) # 0
  BY SixNotZero
<1>4. Recip(2) \in F
  <2> DEFINE two == 2
  <2>1. two \in Int /\ N(two) # 0
    BY <1>2
  <2> HIDE DEF two
  <2>2. Recip(two) \in F
    BY <2>1, Reciprocal
  <2> QED BY <2>2 DEF two
<1>5. Recip(6) \in F
  <2> DEFINE six == 6
  <2>1. six \in Int /\ N(six) # 0
    BY <1>3
  <2> HIDE DEF six
  <2>2. Recip(six) \in F
    BY <2>1, Reciprocal
  <2> QED BY <2>2 DEF six
<1> QED BY <1>4, <1>5, FieldInt

-----------------------------------------------------------------------------
(* Filters.                                                                *)

Filter ==
  [F : Matrix, B : Vector, H : Matrix, Q : Symmetric, R : Symmetric, P : Symmetric,
   K : Matrix, x : Vector, xmin : Vector]

SecondDegree == [a : Matrix, q : Vector, b : Vector]

-----------------------------------------------------------------------------
(* The operations stay among the matrices, the vectors and the symmetric   *)
(* matrices.                                                               *)

LEMMA MatrixClosed ==
  /\ \A a, b \in Matrix : Mul(a, b) \in Matrix /\ Add(a, b) \in Matrix /\ Sub(a, b) \in Matrix
  /\ \A a \in Matrix : Trans(a) \in Matrix
  /\ \A a \in Matrix, s \in Int : MulS(a, s) \in Matrix
BY MulIs, AddIs, SubIs, TransIs, MulSIs

LEMMA VectorClosed ==
  /\ \A v, w \in Vector : Add(v, w) \in Vector /\ Sub(v, w) \in Vector
  /\ \A a \in Matrix, v \in Vector : Mul(a, v) \in Vector
  /\ \A v \in Vector, s \in Int : MulS(v, s) \in Vector
  /\ \A v \in Vector, u \in Single : Mul(v, u) \in Vector
BY AddVector, MulVector, MulSVector, MulSingle

LEMMA SymmetricIs ==
  /\ \A m \in Symmetric : m \in Matrix /\ Trans(m) = m
  /\ \A m \in Matrix : Trans(m) = m => m \in Symmetric
BY DEF Symmetric

LEMMA SymmetricClosed ==
  /\ \A a, b \in Symmetric : Add(a, b) \in Symmetric /\ Sub(a, b) \in Symmetric
  /\ \A a \in Symmetric, s \in Int : MulS(a, s) \in Symmetric
<1>1. ASSUME NEW a \in Symmetric, NEW b \in Symmetric
      PROVE  Add(a, b) \in Symmetric /\ Sub(a, b) \in Symmetric
  <2>1. a \in Matrix /\ b \in Matrix /\ Trans(a) = a /\ Trans(b) = b
    BY SymmetricIs
  <2> QED BY <2>1, TransAdd, MatrixClosed, SymmetricIs
<1>2. ASSUME NEW a \in Symmetric, NEW s \in Int
      PROVE  MulS(a, s) \in Symmetric
  BY SymmetricIs, TransMulS, MatrixClosed
<1> QED BY <1>1, <1>2

\* a s a' is symmetric when s is.
LEMMA Congruence ==
  ASSUME NEW a \in Matrix, NEW s \in Symmetric
  PROVE  Mul(Mul(a, s), Trans(a)) \in Symmetric
<1>1. s \in Matrix /\ Trans(s) = s /\ Trans(a) \in Matrix /\ Mul(a, s) \in Matrix
      /\ Mul(s, Trans(a)) \in Matrix /\ Mul(Mul(a, s), Trans(a)) \in Matrix
  BY SymmetricIs, MatrixClosed
<1>2. Trans(Mul(Mul(a, s), Trans(a))) = Mul(Trans(Trans(a)), Trans(Mul(a, s)))
  BY <1>1, TransMul
<1>3. Trans(Mul(a, s)) = Mul(s, Trans(a)) /\ Trans(Trans(a)) = a
  BY <1>1, TransMul, TransTrans
<1>4. Mul(a, Mul(s, Trans(a))) = Mul(Mul(a, s), Trans(a))
  BY <1>1, MulAssoc
<1> QED BY <1>1, <1>2, <1>3, <1>4, SymmetricIs

LEMMA SymmetricSum ==
  ASSUME NEW a \in Matrix
  PROVE  Add(a, Trans(a)) \in Symmetric
<1>1. Trans(a) \in Matrix /\ Add(a, Trans(a)) \in Matrix /\ Trans(Trans(a)) = a
  BY MatrixClosed, TransTrans
<1>2. Trans(Add(a, Trans(a))) = Add(Trans(a), a)
  BY <1>1, TransAdd
<1>3. Add(Trans(a), a) = Add(a, Trans(a))
  BY <1>1, AddComm
<1> QED BY <1>1, <1>2, <1>3, SymmetricIs

LEMMA InvertedSymmetric ==
  ASSUME NEW r \in Symmetric, Det(r) # 0, NEW n \in Nat
  PROVE  /\ Inverted(r, n) \in Symmetric /\ Det(Inverted(r, n)) # 0
         /\ InverseOf(r) \in Symmetric /\ Det(InverseOf(r)) # 0
BY SymmetricIs, InverseSymmetric, InverseMul DEF Inverted

\* What multiplies the covariances in cDKF and in pmodel, p h' s h p.
LEMMA SandwichSymmetric ==
  ASSUME NEW p \in Symmetric, NEW h \in Matrix, NEW s \in Symmetric
  PROVE  Mul(Mul(Mul(Mul(p, Trans(h)), s), h), p) \in Symmetric
<1> DEFINE g == Mul(p, Trans(h))
<1>1. p \in Matrix /\ s \in Matrix /\ Trans(p) = p /\ Trans(h) \in Matrix
  BY SymmetricIs, MatrixClosed
<1>2. g \in Matrix /\ Trans(g) = Mul(h, p)
  BY <1>1, TransMul, TransTrans, MatrixClosed
<1> HIDE DEF g
<1>3. Mul(g, s) \in Matrix
  BY <1>1, <1>2, MatrixClosed
<1>4. Mul(Mul(Mul(g, s), h), p) = Mul(Mul(g, s), Trans(g))
  BY <1>1, <1>2, <1>3, MulAssoc
<1>5. Mul(Mul(Mul(g, s), h), p) \in Symmetric
  BY <1>2, <1>4, Congruence
<1> QED BY <1>5 DEF g

LEMMA ZeroVIs == ZeroV \in Vector
<1>1. ZeroV = [i \in Index |-> [j \in {1} |-> 0]]
  BY DEF ZeroV, Index
<1> QED BY <1>1, FieldInt DEF Vector

-----------------------------------------------------------------------------
(* The methods of the filters.                                             *)

LEMMA FilterFields ==
  ASSUME NEW k \in Filter
  PROVE  /\ k.F \in Matrix /\ k.B \in Vector /\ k.H \in Matrix
         /\ k.Q \in Symmetric /\ k.R \in Symmetric /\ k.P \in Symmetric
         /\ k.Q \in Matrix /\ k.R \in Matrix /\ k.P \in Matrix
         /\ k.K \in Matrix /\ k.x \in Vector /\ k.xmin \in Vector
BY SymmetricIs DEF Filter

LEMMA PredictDKFIs ==
  ASSUME NEW k \in Filter, NEW u \in Single
  PROVE  /\ PredictDKF(k, u) \in Filter
         /\ PredictDKF(k, u) = [k EXCEPT !.P = PredictDKF(k, u).P, !.xmin = PredictDKF(k, u).xmin]
         /\ PredictDKF(k, u).P = Add(Mul(Mul(k.F, k.P), Trans(k.F)), k.Q)
<1> DEFINE p == Add(Mul(Mul(k.F, k.P), Trans(k.F)), k.Q)
           x == Add(Mul(k.F, k.x), Mul(k.B, u))
<1>1. p \in Symmetric
  BY FilterFields, Congruence, SymmetricClosed
<1>2. x \in Vector
  BY FilterFields, VectorClosed
<1>3. PredictDKF(k, u) = [k EXCEPT !.P = p, !.xmin = x]
  BY DEF PredictDKF
<1> HIDE DEF p, x
<1>4. [k EXCEPT !.P = p, !.xmin = x] \in Filter
  BY <1>1, <1>2 DEF Filter
<1>5. [k EXCEPT !.P = p, !.xmin = x].P = p /\ [k EXCEPT !.P = p, !.xmin = x].xmin = x
  BY DEF Filter
<1>6. PredictDKF(k, u).P = p
  BY <1>3, <1>5
<1> QED BY <1>3, <1>4, <1>5, <1>6 DEF p

LEMMA InnovationSymmetric ==
  ASSUME NEW k \in Filter
  PROVE  Innovation(k) \in Symmetric
BY FilterFields, Congruence, SymmetricClosed DEF Innovation

LEMMA CorrectDKFIs ==
  ASSUME NEW k \in Filter, NEW z \in Vector, Det(Innovation(k)) # 0
  PROVE  LET K == Mul(Mul(k.P, Trans(k.H)), InverseOf(Innovation(k)))
             c == CorrectDKF(k, z)
         IN  /\ c \in Filter
             /\ K \in Matrix /\ c.K = K
             /\ c.P = Sub(k.P, Mul(Mul(K, k.H), k.P))
             /\ c = [k EXCEPT !.K = c.K, !.x = c.x, !.P = c.P]
<1> DEFINE S == Innovation(k)
           K == Mul(Mul(k.P, Trans(k.H)), InverseOf(S))
           x == Add(k.xmin, Mul(K, Sub(z, Mul(k.H, k.xmin))))
           p == Sub(k.P, Mul(Mul(K, k.H), k.P))
<1>1. InverseOf(S) \in Symmetric /\ InverseOf(S) \in Matrix
  BY InnovationSymmetric, InvertedSymmetric, SymmetricIs
<1>2. K \in Matrix
  BY <1>1, FilterFields, MatrixClosed
<1>3. x \in Vector
  BY <1>2, FilterFields, VectorClosed
<1>4. Mul(Mul(K, k.H), k.P) \in Symmetric
  BY <1>1, FilterFields, SandwichSymmetric
<1>5. p \in Symmetric
  BY <1>4, FilterFields, SymmetricClosed
<1>6. CorrectDKF(k, z) = [k EXCEPT !.K = K, !.x = x, !.P = p]
  BY DEF CorrectDKF
<1> DEFINE c == [k EXCEPT !.K = K, !.x = x, !.P = p]
<1> HIDE DEF K, x, p
<1>7. c \in Filter /\ c.K = K /\ c.x = x /\ c.P = p
  BY <1>2, <1>3, <1>5 DEF Filter
<1> QED BY <1>2, <1>6, <1>7 DEF K, p

\* pmodel of the time update, at its n-th call.
Slope(k, n, p) ==
  Add(Sub(Add(Mul(k.F, p), Mul(p, Trans(k.F))),
          Mul(Mul(Mul(Mul(k.P, Trans(k.H)), Inverted(k.R, n)), k.H), k.P)), k.Q)

LEMMA SlopeSymmetric ==
  ASSUME NEW k \in Filter, Det(k.R) # 0
  PROVE  \A n \in Nat, p \in Symmetric : Slope(k, n, p) \in Symmetric
<1> SUFFICES ASSUME NEW n \in Nat, NEW p \in Symmetric
             PROVE  Slope(k, n, p) \in Symmetric
  OBVIOUS
<1> DEFINE a == Mul(k.F, p)
           w == Mul(Mul(Mul(Mul(k.P, Trans(k.H)), Inverted(k.R, n)), k.H), k.P)
<1>1. a \in Matrix /\ Mul(p, Trans(k.F)) = Trans(a)
  <2>1. k.F \in Matrix /\ p \in Matrix /\ Trans(p) = p
    BY FilterFields, SymmetricIs
  <2>2. Trans(Mul(k.F, p)) = Mul(Trans(p), Trans(k.F))
    BY <2>1, TransMul
  <2> QED BY <2>1, <2>2, MatrixClosed
<1>2. Add(a, Mul(p, Trans(k.F))) \in Symmetric
  BY <1>1, SymmetricSum
<1>3. w \in Symmetric
  <2>1. Inverted(k.R, n) \in Symmetric
    BY FilterFields, InvertedSymmetric
  <2> QED BY <2>1, FilterFields, SandwichSymmetric
<1> DEFINE b == Add(a, Mul(p, Trans(k.F)))
<1>4. Slope(k, n, p) = Add(Sub(b, w), k.Q)
  BY DEF Slope
<1> HIDE DEF a, b, w
<1> QED BY <1>2, <1>3, <1>4, FilterFields, SymmetricClosed DEF b

\* What a Runge-Kutta step makes of its four slopes.
Combined(x, k1, k2, k3, k4) ==
  Add(x, MulS(Add(Add(Add(k1, MulS(k2, 2)), MulS(k3, 2)), k4), Recip(6)))

LEMMA CombinedIs ==
  /\ \A x, k1, k2, k3, k4 \in Symmetric : Combined(x, k1, k2, k3, k4) \in Symmetric
  /\ \A x, k1, k2, k3, k4 \in Vector : Combined(x, k1, k2, k3, k4) \in Vector
<1> DEFINE s == Recip(6)
<1>1. s \in Int /\ 2 \in Int
  BY HalfAndSixth
<1> HIDE DEF s
<1>2. ASSUME NEW x \in Symmetric, NEW k1 \in Symmetric, NEW k2 \in Symmetric,
             NEW k3 \in Symmetric, NEW k4 \in Symmetric
      PROVE  Add(x, MulS(Add(Add(Add(k1, MulS(k2, 2)), MulS(k3, 2)), k4), s)) \in Symmetric
  <2>1. Add(k1, MulS(k2, 2)) \in Symmetric /\ MulS(k3, 2) \in Symmetric
    BY <1>1, SymmetricClosed
  <2>2. Add(Add(Add(k1, MulS(k2, 2)), MulS(k3, 2)), k4) \in Symmetric
    BY <2>1, SymmetricClosed
  <2> QED BY <1>1, <2>2, SymmetricClosed
<1>3. ASSUME NEW x \in Vector, NEW k1 \in Vector, NEW k2 \in Vector,
             NEW k3 \in Vector, NEW k4 \in Vector
      PROVE  Add(x, MulS(Add(Add(Add(k1, MulS(k2, 2)), MulS(k3, 2)), k4), s)) \in Vector
  <2>1. Add(k1, MulS(k2, 2)) \in Vector /\ MulS(k3, 2) \in Vector
    BY <1>1, VectorClosed
  <2>2. Add(Add(Add(k1, MulS(k2, 2)), MulS(k3, 2)), k4) \in Vector
    BY <2>1, VectorClosed
  <2> QED BY <1>1, <2>2, VectorClosed
<1> QED BY <1>2, <1>3 DEF Combined, s

LEMMA StepInt == dt \in Int /\ Recip(2) \in Int
BY StepAssumption, FieldInt, HalfAndSixth

LEMMA TimeUpdatePIs ==
  ASSUME NEW k \in Filter, Det(k.R) # 0
  PROVE  /\ TimeUpdateP(k) \in Filter
         /\ TimeUpdateP(k).R = k.R
         /\ TimeUpdateP(k) = [k EXCEPT !.P = TimeUpdateP(k).P]
<1> DEFINE h == Recip(2)
           k1 == MulS(Slope(k, 1, k.P), dt)
           k2 == MulS(Slope(k, 2, Add(k.P, MulS(k1, h))), dt)
           k3 == MulS(Slope(k, 3, Add(k.P, MulS(k2, h))), dt)
           k4 == MulS(Slope(k, 4, Add(k.P, k3)), dt)
           p == Combined(k.P, k1, k2, k3, k4)
<1>1. k.P \in Symmetric /\ dt \in Int /\ h \in Int
  BY FilterFields, StepInt
<1>2. TimeUpdateP(k) = [k EXCEPT !.P = p, !.R = Inverted(k.R, 4)]
  BY DEF TimeUpdateP, RK, Slope, Combined
<1> HIDE DEF h
<1>3. k1 \in Symmetric
  BY <1>1, SlopeSymmetric, SymmetricClosed
<1> HIDE DEF k1
<1>4. k2 \in Symmetric
  <2>1. Add(k.P, MulS(k1, h)) \in Symmetric
    BY <1>1, <1>3, SymmetricClosed
  <2> QED BY <1>1, <2>1, SlopeSymmetric, SymmetricClosed
<1> HIDE DEF k2
<1>5. k3 \in Symmetric
  <2>1. Add(k.P, MulS(k2, h)) \in Symmetric
    BY <1>1, <1>4, SymmetricClosed
  <2> QED BY <1>1, <2>1, SlopeSymmetric, SymmetricClosed
<1> HIDE DEF k3
<1>6. k4 \in Symmetric
  <2>1. Add(k.P, k3) \in Symmetric
    BY <1>1, <1>5, SymmetricClosed
  <2> QED BY <1>1, <2>1, SlopeSymmetric, SymmetricClosed
<1> HIDE DEF k4
<1>7. p \in Symmetric
  BY <1>1, <1>3, <1>4, <1>5, <1>6, CombinedIs
<1>8. Inverted(k.R, 4) = k.R
  BY DEF Inverted
<1> HIDE DEF p
<1>9. /\ [k EXCEPT !.P = p, !.R = k.R] \in Filter
      /\ [k EXCEPT !.P = p, !.R = k.R].R = k.R /\ [k EXCEPT !.P = p, !.R = k.R].P = p
      /\ [k EXCEPT !.P = p, !.R = k.R] = [k EXCEPT !.P = p]
  BY <1>7, FilterFields DEF Filter
<1> QED BY <1>2, <1>8, <1>9

LEMMA GainOfIs ==
  ASSUME NEW k \in Filter, Det(k.R) # 0
  PROVE  /\ GainOf(k) \in Filter
         /\ GainOf(k).R = InverseOf(k.R)
         /\ GainOf(k).K = Mul(Mul(k.P, Trans(k.H)), InverseOf(k.R))
         /\ GainOf(k) = [k EXCEPT !.R = GainOf(k).R, !.K = GainOf(k).K]
<1> DEFINE r == InverseOf(k.R)  g == Mul(Mul(k.P, Trans(k.H)), r)
<1>1. r \in Symmetric /\ r \in Matrix
  BY FilterFields, InvertedSymmetric, SymmetricIs
<1>2. g \in Matrix
  BY <1>1, FilterFields, MatrixClosed
<1>3. Inverted(k.R, 1) = r
  BY DEF Inverted
<1>4. GainOf(k) = [k EXCEPT !.R = r, !.K = g]
  BY <1>3 DEF GainOf
<1> HIDE DEF r, g
<1>5. /\ [k EXCEPT !.R = r, !.K = g] \in Filter
      /\ [k EXCEPT !.R = r, !.K = g].R = r /\ [k EXCEPT !.R = r, !.K = g].K = g
  BY <1>1, <1>2 DEF Filter
<1> QED BY <1>4, <1>5 DEF r, g

\* The slopes of the state.
Flow(k, u, y)       == Add(Mul(k.F, y), Mul(k.B, u))
Pull(k, g, z, u, y) == Add(Flow(k, u, y), Mul(g.K, Sub(z, Mul(g.H, y))))
Drag(k, m, z, u, y) == Add(ModelOf(m, y, u), Mul(k.K, Sub(z, Mul(k.H, y))))

LEMMA ModelVector ==
  ASSUME NEW m \in SecondDegree, NEW u \in Single
  PROVE  \A y \in Vector : ModelOf(m, y, u) \in Vector
<1> SUFFICES ASSUME NEW y \in Vector
             PROVE  ModelOf(m, y, u) \in Vector
  OBVIOUS
<1> DEFINE s == y[1][1] * y[2][1]
<1>1. s \in Int /\ m.a \in Matrix /\ m.q \in Vector /\ m.b \in Vector
  BY VectorEntries, Indices DEF SecondDegree
<1>2. ModelOf(m, y, u) = Add(Add(Mul(m.a, y), MulS(m.q, s)), Mul(m.b, u))
  BY DEF ModelOf
<1> HIDE DEF s
<1> QED BY <1>1, <1>2, VectorClosed

LEMMA SlopesAreVectors ==
  ASSUME NEW k \in Filter, NEW g \in Filter, NEW u \in Single
  PROVE  \A y \in Vector :
           /\ Flow(k, u, y) \in Vector
           /\ \A z \in Vector : Pull(k, g, z, u, y) \in Vector
           /\ \A z \in Vector, m \in SecondDegree : Drag(k, m, z, u, y) \in Vector
BY FilterFields, VectorClosed, ModelVector DEF Flow, Pull, Drag

\* cCKF's prediction.
LEMMA FlowStep ==
  ASSUME NEW k \in Filter, NEW u \in Single
  PROVE  LET slope(n, y) == Add(Mul(k.F, y), Mul(k.B, u))
         IN  RK(slope, k.x) \in Vector
<1> DEFINE slope(n, y) == Add(Mul(k.F, y), Mul(k.B, u))
           h == Recip(2)
           k1 == MulS(Flow(k, u, k.x), dt)
           k2 == MulS(Flow(k, u, Add(k.x, MulS(k1, h))), dt)
           k3 == MulS(Flow(k, u, Add(k.x, MulS(k2, h))), dt)
           k4 == MulS(Flow(k, u, Add(k.x, k3)), dt)
<1>1. k.x \in Vector /\ h \in Int /\ dt \in Int
  BY FilterFields, StepInt
<1>2. \A y \in Vector : Flow(k, u, y) \in Vector
  BY SlopesAreVectors
<1>3. RK(slope, k.x) = Combined(k.x, k1, k2, k3, k4)
  BY DEF RK, Combined, Flow
<1> HIDE DEF h, slope
<1>4. k1 \in Vector /\ Add(k.x, MulS(k1, h)) \in Vector
  BY <1>1, <1>2, VectorClosed
<1> HIDE DEF k1
<1>5. k2 \in Vector /\ Add(k.x, MulS(k2, h)) \in Vector
  BY <1>1, <1>2, <1>4, VectorClosed
<1> HIDE DEF k2
<1>6. k3 \in Vector /\ Add(k.x, k3) \in Vector
  BY <1>1, <1>2, <1>5, VectorClosed
<1> HIDE DEF k3
<1>7. k4 \in Vector
  BY <1>1, <1>2, <1>6, VectorClosed
<1> HIDE DEF k4
<1>8. RK(slope, k.x) \in Vector
  BY <1>1, <1>3, <1>4, <1>5, <1>6, <1>7, CombinedIs
<1> QED BY <1>8 DEF slope

\* The state of a cCKF or cCDKF with a measurement.
LEMMA PullStep ==
  ASSUME NEW k \in Filter, NEW g \in Filter, NEW u \in Single, NEW z \in Vector
  PROVE  LET slope(n, y) == Add(Add(Mul(k.F, y), Mul(k.B, u)), Mul(g.K, Sub(z, Mul(g.H, y))))
         IN  RK(slope, g.x) \in Vector
<1> DEFINE slope(n, y) == Add(Add(Mul(k.F, y), Mul(k.B, u)), Mul(g.K, Sub(z, Mul(g.H, y))))
           h == Recip(2)
           k1 == MulS(Pull(k, g, z, u, g.x), dt)
           k2 == MulS(Pull(k, g, z, u, Add(g.x, MulS(k1, h))), dt)
           k3 == MulS(Pull(k, g, z, u, Add(g.x, MulS(k2, h))), dt)
           k4 == MulS(Pull(k, g, z, u, Add(g.x, k3)), dt)
<1>1. g.x \in Vector /\ h \in Int /\ dt \in Int
  BY FilterFields, StepInt
<1>2. \A y \in Vector : Pull(k, g, z, u, y) \in Vector
  BY SlopesAreVectors
<1>3. RK(slope, g.x) = Combined(g.x, k1, k2, k3, k4)
  BY DEF RK, Combined, Pull, Flow
<1> HIDE DEF h, slope
<1>4. k1 \in Vector /\ Add(g.x, MulS(k1, h)) \in Vector
  BY <1>1, <1>2, VectorClosed
<1> HIDE DEF k1
<1>5. k2 \in Vector /\ Add(g.x, MulS(k2, h)) \in Vector
  BY <1>1, <1>2, <1>4, VectorClosed
<1> HIDE DEF k2
<1>6. k3 \in Vector /\ Add(g.x, k3) \in Vector
  BY <1>1, <1>2, <1>5, VectorClosed
<1> HIDE DEF k3
<1>7. k4 \in Vector
  BY <1>1, <1>2, <1>6, VectorClosed
<1> HIDE DEF k4
<1>8. RK(slope, g.x) \in Vector
  BY <1>1, <1>3, <1>4, <1>5, <1>6, <1>7, CombinedIs
<1> QED BY <1>8 DEF slope

\* The state of a cCEKF.
LEMMA DragStep ==
  ASSUME NEW k \in Filter, NEW u \in Single, NEW z \in Vector, NEW m \in SecondDegree
  PROVE  LET slope(n, y) == Add(ModelOf(m, y, u), Mul(k.K, Sub(z, Mul(k.H, y))))
         IN  RK(slope, k.x) \in Vector
<1> DEFINE slope(n, y) == Add(ModelOf(m, y, u), Mul(k.K, Sub(z, Mul(k.H, y))))
           h == Recip(2)
           k1 == MulS(Drag(k, m, z, u, k.x), dt)
           k2 == MulS(Drag(k, m, z, u, Add(k.x, MulS(k1, h))), dt)
           k3 == MulS(Drag(k, m, z, u, Add(k.x, MulS(k2, h))), dt)
           k4 == MulS(Drag(k, m, z, u, Add(k.x, k3)), dt)
<1>1. k.x \in Vector /\ h \in Int /\ dt \in Int
  BY FilterFields, StepInt
<1>2. \A y \in Vector : Drag(k, m, z, u, y) \in Vector
  BY SlopesAreVectors
<1>3. RK(slope, k.x) = Combined(k.x, k1, k2, k3, k4)
  BY DEF RK, Combined, Drag
<1> HIDE DEF h, slope
<1>4. k1 \in Vector /\ Add(k.x, MulS(k1, h)) \in Vector
  BY <1>1, <1>2, VectorClosed
<1> HIDE DEF k1
<1>5. k2 \in Vector /\ Add(k.x, MulS(k2, h)) \in Vector
  BY <1>1, <1>2, <1>4, VectorClosed
<1> HIDE DEF k2
<1>6. k3 \in Vector /\ Add(k.x, k3) \in Vector
  BY <1>1, <1>2, <1>5, VectorClosed
<1> HIDE DEF k3
<1>7. k4 \in Vector
  BY <1>1, <1>2, <1>6, VectorClosed
<1> HIDE DEF k4
<1>8. RK(slope, k.x) \in Vector
  BY <1>1, <1>3, <1>4, <1>5, <1>6, <1>7, CombinedIs
<1> QED BY <1>8 DEF slope

\* What every update with a measurement has in common: a new state x after
\* the gain g that followed the time update of k.
LEMMA MeasuredIs ==
  ASSUME NEW k \in Filter, Det(k.R) # 0, NEW x \in Vector
  PROVE  LET g == GainOf(TimeUpdateP(k))
             c == [g EXCEPT !.x = x]
         IN  /\ g \in Filter /\ g.H = k.H /\ c \in Filter
             /\ c.F = k.F /\ c.H = k.H /\ c.Q = k.Q
             /\ c.R = InverseOf(k.R)
             /\ c.K = Mul(Mul(c.P, Trans(c.H)), c.R)
<1> DEFINE t == TimeUpdateP(k)  g == GainOf(t)
<1>1. t \in Filter /\ t.R = k.R /\ t = [k EXCEPT !.P = t.P]
  BY TimeUpdatePIs
<1>2. /\ g \in Filter /\ g.R = InverseOf(t.R)
      /\ g.K = Mul(Mul(t.P, Trans(t.H)), InverseOf(t.R))
      /\ g = [t EXCEPT !.R = g.R, !.K = g.K]
  BY <1>1, GainOfIs
<1>a. t.F = k.F /\ t.H = k.H /\ t.Q = k.Q
  <2> HIDE DEF t
  <2> QED BY <1>1 DEF Filter
<1> HIDE DEF g
<1>3. g.F = t.F /\ g.H = t.H /\ g.Q = t.Q /\ g.P = t.P
  <2> HIDE DEF t
  <2> QED BY <1>1, <1>2 DEF Filter
<1> DEFINE c == [g EXCEPT !.x = x]
<1>4. c \in Filter /\ c.F = g.F /\ c.H = g.H /\ c.Q = g.Q /\ c.P = g.P /\ c.R = g.R /\ c.K = g.K
  BY <1>2 DEF Filter
<1> HIDE DEF c, t
<1> QED BY <1>1, <1>2, <1>a, <1>3, <1>4 DEF c, g, t

LEMMA UpdateCKFIs ==
  ASSUME NEW k \in Filter, Det(k.R) # 0, NEW z \in Vector, NEW u \in Single
  PROVE  LET c == UpdateCKF(k, z, u)
         IN  /\ c \in Filter /\ c.F = k.F /\ c.H = k.H /\ c.Q = k.Q
             /\ c.R = InverseOf(k.R)
             /\ c.K = Mul(Mul(c.P, Trans(c.H)), c.R)
<1> DEFINE g == GainOf(TimeUpdateP(k))
           slope(n, y) == Add(Add(Mul(k.F, y), Mul(k.B, u)), Mul(g.K, Sub(z, Mul(g.H, y))))
           x == RK(slope, g.x)
<1>1. g \in Filter
  <2>1. k.x \in Vector
    BY FilterFields
  <2> QED BY <2>1, MeasuredIs
<1>2. UpdateCKF(k, z, u) = [g EXCEPT !.x = x]
  BY DEF UpdateCKF, TimeUpdateX
<1> HIDE DEF g
<1>3. x \in Vector
  BY <1>1, PullStep
<1> HIDE DEF x
<1> QED BY <1>2, <1>3, MeasuredIs DEF g

LEMMA UpdateCEKFIs ==
  ASSUME NEW k \in Filter, Det(k.R) # 0, NEW z \in Vector, NEW u \in Single, NEW m \in SecondDegree,
         Linearize(k, m, u) \in Filter, Linearize(k, m, u).R = k.R
  PROVE  LET c == UpdateCEKF(k, m, z, u)
             l == Linearize(k, m, u)
         IN  /\ c \in Filter /\ c.F = l.F /\ c.H = l.H /\ c.Q = l.Q
             /\ c.R = InverseOf(k.R)
             /\ c.K = Mul(Mul(c.P, Trans(c.H)), c.R)
<1> DEFINE l == Linearize(k, m, u)
           g == GainOf(TimeUpdateP(l))
           slope(n, y) == Add(ModelOf(m, y, u), Mul(g.K, Sub(z, Mul(g.H, y))))
           x == RK(slope, g.x)
<1>1. UpdateCEKF(k, m, z, u) = [g EXCEPT !.x = x]
  BY DEF UpdateCEKF, TimeUpdateX
<1>2. l \in Filter /\ l.R = k.R
  OBVIOUS
<1> HIDE DEF l
<1>3. g \in Filter
  <2>1. l.x \in Vector
    BY <1>2, FilterFields
  <2> QED BY <1>2, <2>1, MeasuredIs
<1> HIDE DEF g
<1>4. x \in Vector
  BY <1>3, DragStep
<1> HIDE DEF x
<1>5. LET c == [g EXCEPT !.x = x]
      IN  /\ c \in Filter /\ c.F = l.F /\ c.H = l.H /\ c.Q = l.Q
          /\ c.R = InverseOf(l.R)
          /\ c.K = Mul(Mul(c.P, Trans(c.H)), c.R)
  BY <1>2, <1>4, MeasuredIs DEF g
<1> QED BY <1>1, <1>2, <1>5 DEF l

\* update(u): P, and x, and nothing else.
LEMMA PredictCKFIs ==
  ASSUME NEW k \in Filter, Det(k.R) # 0, NEW u \in Single
  PROVE  LET c == PredictCKF(k, u)
         IN  c \in Filter /\ c = [k EXCEPT !.P = c.P, !.x = c.x]
<1> DEFINE t == TimeUpdateP(k)
           slope(n, y) == Add(Mul(k.F, y), Mul(k.B, u))
           x == RK(slope, t.x)
<1>1. PredictCKF(k, u) = [t EXCEPT !.x = x]
  BY DEF PredictCKF
<1>2. t \in Filter /\ t = [k EXCEPT !.P = t.P]
  BY TimeUpdatePIs
<1> HIDE DEF t
<1>3. t.x = k.x
  BY <1>2 DEF Filter
<1>4. x \in Vector
  BY <1>3, FlowStep
<1> HIDE DEF x
<1> DEFINE c == [t EXCEPT !.x = x]
<1>5. c \in Filter /\ c = [k EXCEPT !.P = c.P, !.x = c.x]
  BY <1>2, <1>4 DEF Filter
<1> QED BY <1>1, <1>5

LEMMA PredictXIs ==
  ASSUME NEW k \in Filter, NEW u \in Single
  PROVE  LET c == PredictX(k, u)
         IN  c \in Filter /\ c = [k EXCEPT !.x = c.x]
<1> DEFINE slope(n, y) == Add(Add(Mul(k.F, y), Mul(k.B, u)), Mul(k.K, Sub(ZeroV, Mul(k.H, y))))
           x == RK(slope, k.x)
<1>1. PredictX(k, u) = [k EXCEPT !.x = x]
  BY DEF PredictX, TimeUpdateX
<1>2. x \in Vector
  BY ZeroVIs, PullStep
<1> HIDE DEF x
<1> DEFINE c == [k EXCEPT !.x = x]
<1>3. c \in Filter /\ c = [k EXCEPT !.x = c.x]
  BY <1>2 DEF Filter
<1> QED BY <1>1, <1>3

LEMMA PredictCDKFIs ==
  ASSUME NEW k \in Filter, Det(k.R) # 0, NEW u \in Single
  PROVE  LET c == PredictCDKF(k, u)
         IN  c \in Filter /\ c = [k EXCEPT !.P = c.P, !.x = c.x]
<1> DEFINE l == PredictX(k, u)  c == TimeUpdateP(l)
<1>1. l \in Filter /\ l = [k EXCEPT !.x = l.x]
  BY PredictXIs
<1> HIDE DEF l
<1>2. l.R = k.R
  BY <1>1 DEF Filter
<1>3. c \in Filter /\ c = [l EXCEPT !.P = c.P]
  BY <1>1, <1>2, TimeUpdatePIs
<1> HIDE DEF c
<1>4. c = [k EXCEPT !.P = c.P, !.x = c.x]
  BY <1>1, <1>3 DEF Filter
<1>5. PredictCDKF(k, u) = c
  BY DEF PredictCDKF, c, l
<1> QED BY <1>3, <1>4, <1>5

LEMMA ModelEntries ==
  ASSUME NEW m \in SecondDegree, NEW u \in Single, NEW y \in Vector, NEW i \in Index
  PROVE  ModelOf(m, y, u)[i][1]
           = N(N(N(m.a[i][1] * y[1][1] + m.a[i][2] * y[2][1]) + N((y[1][1] * y[2][1]) * m.q[i][1]))
               + Mul(m.b, u)[i][1])
<1> DEFINE s == y[1][1] * y[2][1]
<1>1. s \in Int /\ m.a \in Matrix /\ m.q \in Vector /\ m.b \in Vector
  BY VectorEntries, Indices DEF SecondDegree
<1>2. ModelOf(m, y, u) = Add(Add(Mul(m.a, y), MulS(m.q, s)), Mul(m.b, u))
  BY DEF ModelOf
<1> HIDE DEF s
<1>3. Mul(m.a, y) \in Vector /\ MulS(m.q, s) \in Vector /\ Mul(m.b, u) \in Vector
      /\ Add(Mul(m.a, y), MulS(m.q, s)) \in Vector
  BY <1>1, VectorClosed
<1>4. ModelOf(m, y, u)[i][1] = N(Add(Mul(m.a, y), MulS(m.q, s))[i][1] + Mul(m.b, u)[i][1])
  BY <1>2, <1>3, AddVector
<1>5. Add(Mul(m.a, y), MulS(m.q, s))[i][1] = N(Mul(m.a, y)[i][1] + MulS(m.q, s)[i][1])
  BY <1>3, AddVector
<1>6. Mul(m.a, y)[i][1] = N(m.a[i][1] * y[1][1] + m.a[i][2] * y[2][1])
  BY <1>1, MulVector
<1>7. MulS(m.q, s)[i][1] = N(s * m.q[i][1])
  BY <1>1, MulSVector
<1> QED BY <1>4, <1>5, <1>6, <1>7 DEF s

\* The value of the model is a polynomial modulo Prime, whose arguments may be
\* reduced or not.
Exact(a, b, q, c, x, y)   == a * x + b * y + x * y * q + c
Reduced(a, b, q, c, x, y) == N(N(N(a * x + b * y) + N((x * y) * q)) + c)

LEMMA Polynomial ==
  ASSUME NEW a \in Int, NEW b \in Int, NEW q \in Int, NEW c \in Int, NEW x \in Int, NEW y \in Int
  PROVE  /\ Exact(a, b, q, c, x, y) \in Int
         /\ Reduced(a, b, q, c, N(x), y) = N(Exact(a, b, q, c, x, y))
         /\ Reduced(a, b, q, c, x, N(y)) = N(Exact(a, b, q, c, x, y))
<1>0. Prime \in Int
  BY PrimeIs
<1>1. ASSUME NEW s \in Int, NEW t \in Int
      PROVE  N(N(N(s) + N(t)) + c) = N(s + t + c)
  <2>1. N(N(s) + N(t)) = N(s + t) /\ s + t \in Int
    BY NormSum
  <2>2. N(N(s + t) + c) = N((s + t) + c)
    BY <2>1, NormSum
  <2> QED BY <2>1, <2>2
<1>2. PICK k \in Int : N(x) = x - Prime * k
  BY NormIs
<1>3. PICK l \in Int : N(y) = y - Prime * l
  BY NormIs
<1>4. N(x) \in Int /\ N(y) \in Int
  BY NormType
<1> DEFINE e == a * x + b * y + x * y * q + c
<1>5. N(N(N(a * N(x) + b * y) + N((N(x) * y) * q)) + c) = N(e)
  <2> DEFINE w == N(x)  s == a * w + b * y  t == (w * y) * q
             j == -(a * k + k * y * q)
  <2>1. w = x - Prime * k /\ w \in Int
    BY <1>2, <1>4
  <2> HIDE DEF w
  <2>2. s \in Int /\ t \in Int /\ j \in Int /\ e \in Int
    BY <2>1
  <2>3. s + t + c = e + Prime * j
    BY <1>0, <2>1
  <2> HIDE DEF s, t, j, e
  <2>4. N(N(N(s) + N(t)) + c) = N(e)
    BY <1>1, <2>2, <2>3, Shift
  <2> QED BY <2>4 DEF s, t, w
<1>6. N(N(N(a * x + b * N(y)) + N((x * N(y)) * q)) + c) = N(e)
  <2> DEFINE w == N(y)  s == a * x + b * w  t == (x * w) * q
             j == -(b * l + x * l * q)
  <2>1. w = y - Prime * l /\ w \in Int
    BY <1>3, <1>4
  <2> HIDE DEF w
  <2>2. s \in Int /\ t \in Int /\ j \in Int /\ e \in Int
    BY <2>1
  <2>3. s + t + c = e + Prime * j
    BY <1>0, <2>1
  <2> HIDE DEF s, t, j, e
  <2>4. N(N(N(s) + N(t)) + c) = N(e)
    BY <1>1, <2>2, <2>3, Shift
  <2> QED BY <2>4 DEF s, t, w
<1>7. e \in Int
  OBVIOUS
<1>8. /\ Exact(a, b, q, c, x, y) = e
      /\ Reduced(a, b, q, c, N(x), y) = N(N(N(a * N(x) + b * y) + N((N(x) * y) * q)) + c)
      /\ Reduced(a, b, q, c, x, N(y)) = N(N(N(a * x + b * N(y)) + N((x * N(y)) * q)) + c)
  BY Zenon DEF Exact, Reduced
<1> HIDE DEF e
<1> QED BY <1>5, <1>6, <1>7, <1>8

LEMMA DoubleStep == 2 * dt \in Int /\ N(2 * dt) # 0
<1>1. dt \in Int /\ 0 < dt /\ dt < Prime /\ Prime \in Int /\ Prime > 3
  BY StepAssumption, PrimeIs DEF F
<1>2. 2 * dt # Prime
  <2>1. Prime % 2 # 0
    BY <1>1, PrimeAssumption
  <2> QED BY <1>1, <2>1
<1>3. CASE 2 * dt < Prime
  <2> DEFINE w == 2 * dt
  <2>1. w \in F /\ w # 0
    BY <1>1, <1>3 DEF F
  <2> HIDE DEF w
  <2>2. N(w) # 0
    BY <2>1, NormF
  <2> QED BY <1>1, <2>2 DEF w
<1>4. CASE 2 * dt > Prime
  <2> DEFINE w == 2 * dt - Prime  k == 1
  <2>1. w \in F /\ w # 0 /\ 2 * dt = w + Prime * k /\ k \in Int /\ w \in Int
    BY <1>1, <1>4 DEF F
  <2> HIDE DEF w, k
  <2>2. N(2 * dt) = N(w) /\ N(w) = w
    BY <2>1, Shift, NormF
  <2> QED BY <1>1, <2>1, <2>2
<1> QED BY <1>1, <1>2, <1>3, <1>4

\* A central difference of such a polynomial.
LEMMA Difference ==
  ASSUME NEW s \in Int, NEW t \in Int, NEW w \in Int, s - t = (2 * dt) * w
  PROVE  N(Recip(2 * dt) * N(N(s) - N(t))) = N(w)
<1> DEFINE d == 2 * dt  r == Recip(d)  v == r * d
<1>1. d \in Int /\ r \in Int /\ N(d * r) = 1
  BY DoubleStep, Reciprocal, FieldInt
<1>2. s - t = d * w
  OBVIOUS
<1> HIDE DEF d, r
<1>3. v \in Int /\ N(v) = 1 /\ d * w \in Int /\ r * (d * w) = v * w
  BY <1>1
<1>4. N(N(s) - N(t)) = N(d * w)
  BY <1>2, NormSum
<1>5. N(r * N(d * w)) = N((d * w) * r)
  BY <1>1, <1>3, NormMul
<1>6. (d * w) * r = v * w
  BY <1>1
<1> HIDE DEF v
<1>7. N(N(v) * w) = N(v * w)
  BY <1>3, NormMul
<1>8. N(r * N(N(s) - N(t))) = N(1 * w)
  BY <1>3, <1>4, <1>5, <1>6, <1>7
<1> QED BY <1>8 DEF r, d

LEMMA JacobianEntries ==
  ASSUME NEW m \in SecondDegree, NEW x \in Vector
  PROVE  /\ Jacobian(m, x) \in Matrix
         /\ \A i \in Index : /\ Jacobian(m, x)[i][1] = N(m.a[i][1] + m.q[i][1] * x[2][1])
                             /\ Jacobian(m, x)[i][2] = N(m.a[i][2] + m.q[i][1] * x[1][1])
<1> DEFINE w == Mul(m.q, <<<<x[2][1], x[1][1]>>>>)
<1>1. m.a \in Matrix /\ m.q \in Vector /\ x[1][1] \in F /\ x[2][1] \in F
  BY VectorEntries, Indices DEF SecondDegree
<1>2. /\ w \in Matrix
      /\ \A i \in Index : w[i][1] = N(m.q[i][1] * x[2][1] + 0) /\ w[i][2] = N(m.q[i][1] * x[1][1] + 0)
  BY <1>1, MulRow
<1>3. Jacobian(m, x) = Add(m.a, w)
  BY DEF Jacobian
<1> HIDE DEF w
<1>4. ASSUME NEW i \in Index
      PROVE  /\ Jacobian(m, x)[i][1] = N(m.a[i][1] + m.q[i][1] * x[2][1])
             /\ Jacobian(m, x)[i][2] = N(m.a[i][2] + m.q[i][1] * x[1][1])
  <2> DEFINE a1 == m.a[i][1]  a2 == m.a[i][2]
             s1 == m.q[i][1] * x[2][1]  s2 == m.q[i][1] * x[1][1]
  <2>1. a1 \in Int /\ a2 \in Int /\ s1 \in Int /\ s2 \in Int
    BY <1>1, Entries, VectorEntries, Indices
  <2>2. Jacobian(m, x)[i][1] = N(a1 + N(s1)) /\ Jacobian(m, x)[i][2] = N(a2 + N(s2))
    <3>1. Jacobian(m, x)[i][1] = N(a1 + w[i][1]) /\ Jacobian(m, x)[i][2] = N(a2 + w[i][2])
      BY <1>1, <1>2, <1>3, AddIs, Indices
    <3>2. s1 + 0 = s1 /\ s2 + 0 = s2
      BY <2>1
    <3> QED BY <1>2, <3>1, <3>2
  <2> HIDE DEF a1, a2, s1, s2
  <2>3. N(a1 + N(s1)) = N(a1 + s1) /\ N(a2 + N(s2)) = N(a2 + s2)
    BY <2>1, NormSum
  <2> QED BY <2>2, <2>3 DEF a1, a2, s1, s2
<1> QED BY <1>1, <1>2, <1>3, <1>4, AddIs

LEMMA Moved ==
  ASSUME NEW x \in Vector, NEW i \in Index, NEW n \in F
  PROVE  /\ [x EXCEPT ![i][1] = n] \in Vector
         /\ [x EXCEPT ![i][1] = n][i][1] = n
         /\ \A j \in Index \ {i} : [x EXCEPT ![i][1] = n][j][1] = x[j][1]
BY DEF Vector

\* The columns of F that linearize computes are those of the Jacobian.
LEMMA Columns ==
  ASSUME NEW m \in SecondDegree, NEW u \in Single, NEW x \in Vector, NEW j \in Index
  PROVE  LET up   == [x EXCEPT ![j][1] = N(@ + dt)]
             down == [x EXCEPT ![j][1] = N(@ - dt)]
             column == MulS(Sub(ModelOf(m, up, u), ModelOf(m, down, u)), Recip(2 * dt))
         IN  \A i \in Index : column[i][1] = Jacobian(m, x)[i][j]
<1> DEFINE n == N(x[j][1] + dt)  l == N(x[j][1] - dt)
           up   == [x EXCEPT ![j][1] = n]
           down == [x EXCEPT ![j][1] = l]
           r == Recip(2 * dt)
           column == MulS(Sub(ModelOf(m, up, u), ModelOf(m, down, u)), r)
<1>1. x[j][1] \in Int /\ dt \in Int /\ r \in Int /\ n \in F /\ l \in F
  <2>1. x[j][1] \in Int /\ dt \in Int
    BY VectorEntries, StepInt
  <2>2. x[j][1] + dt \in Int /\ x[j][1] - dt \in Int
    BY <2>1
  <2>3. n \in F /\ l \in F
    BY <2>2, NormType
  <2>4. r \in Int
    BY DoubleStep, Reciprocal, FieldInt
  <2> QED BY <2>1, <2>3, <2>4
<1> HIDE DEF n, l
<1>2. /\ up \in Vector /\ up[j][1] = n /\ \A i \in Index \ {j} : up[i][1] = x[i][1]
      /\ down \in Vector /\ down[j][1] = l /\ \A i \in Index \ {j} : down[i][1] = x[i][1]
  BY <1>1 DEF Vector
<1> HIDE DEF up, down
<1>3. ModelOf(m, up, u) \in Vector /\ ModelOf(m, down, u) \in Vector
      /\ Sub(ModelOf(m, up, u), ModelOf(m, down, u)) \in Vector
  BY <1>2, ModelVector, VectorClosed
<1>4. ASSUME NEW i \in Index
      PROVE  column[i][1] = Jacobian(m, x)[i][j]
  <2> DEFINE a == m.a[i][1]  b == m.a[i][2]  q == m.q[i][1]  c == Mul(m.b, u)[i][1]
             y1 == x[1][1]  y2 == x[2][1]
  <2>1. a \in Int /\ b \in Int /\ q \in Int /\ c \in Int /\ y1 \in Int /\ y2 \in Int
    <3>1. m.a \in Matrix /\ m.q \in Vector /\ Mul(m.b, u) \in Vector
      BY VectorClosed DEF SecondDegree
    <3> QED BY <3>1, Entries, VectorEntries, Indices
  <2>2. column[i][1] = N(r * N(ModelOf(m, up, u)[i][1] - ModelOf(m, down, u)[i][1]))
    <3>1. column[i][1] = N(r * Sub(ModelOf(m, up, u), ModelOf(m, down, u))[i][1])
      BY <1>1, <1>3, MulSVector
    <3> QED BY <1>3, <3>1, AddVector
  <2>3. CASE j = 1
    <3> DEFINE v == y1 + dt  w == y1 - dt
               s == Exact(a, b, q, c, v, y2)
               t == Exact(a, b, q, c, w, y2)
    <3>1. v \in Int /\ w \in Int /\ s \in Int /\ t \in Int
      BY <1>1, <2>1 DEF Exact
    <3>2. s - t = (2 * dt) * (a + q * y2) /\ a + q * y2 \in Int
      BY <1>1, <2>1 DEF Exact
    <3>3. /\ up[1][1] = N(v) /\ up[2][1] = y2
          /\ down[1][1] = N(w) /\ down[2][1] = y2
      BY <1>2, <2>3, Indices DEF n, l
    <3>4. /\ ModelOf(m, up, u)[i][1] = Reduced(a, b, q, c, N(v), y2)
          /\ ModelOf(m, down, u)[i][1] = Reduced(a, b, q, c, N(w), y2)
      BY <1>2, <3>3, ModelEntries DEF Reduced
    <3>5. Jacobian(m, x)[i][j] = N(a + q * y2)
      BY <2>3, JacobianEntries
    <3> HIDE DEF v, w, a, b, q, c, y1, y2
    <3>6. ModelOf(m, up, u)[i][1] = N(s) /\ ModelOf(m, down, u)[i][1] = N(t)
      BY <2>1, <3>1, <3>4, Polynomial
    <3> HIDE DEF s, t
    <3>7. N(r * N(N(s) - N(t))) = N(a + q * y2)
      BY <3>1, <3>2, Difference
    <3> QED BY <2>2, <3>5, <3>6, <3>7
  <2>4. CASE j = 2
    <3> DEFINE v == y2 + dt  w == y2 - dt
               s == Exact(a, b, q, c, y1, v)
               t == Exact(a, b, q, c, y1, w)
    <3>1. v \in Int /\ w \in Int /\ s \in Int /\ t \in Int
      BY <1>1, <2>1 DEF Exact
    <3>2. s - t = (2 * dt) * (b + q * y1) /\ b + q * y1 \in Int
      BY <1>1, <2>1 DEF Exact
    <3>3. /\ up[1][1] = y1 /\ up[2][1] = N(v)
          /\ down[1][1] = y1 /\ down[2][1] = N(w)
      BY <1>2, <2>4, Indices DEF n, l
    <3>4. /\ ModelOf(m, up, u)[i][1] = Reduced(a, b, q, c, y1, N(v))
          /\ ModelOf(m, down, u)[i][1] = Reduced(a, b, q, c, y1, N(w))
      BY <1>2, <3>3, ModelEntries DEF Reduced
    <3>5. Jacobian(m, x)[i][j] = N(b + q * y1)
      BY <2>4, JacobianEntries
    <3> HIDE DEF v, w, a, b, q, c, y1, y2
    <3>6. ModelOf(m, up, u)[i][1] = N(s) /\ ModelOf(m, down, u)[i][1] = N(t)
      BY <2>1, <3>1, <3>4, Polynomial
    <3> HIDE DEF s, t
    <3>7. N(r * N(N(s) - N(t))) = N(b + q * y1)
      BY <3>1, <3>2, Difference
    <3> QED BY <2>2, <3>5, <3>6, <3>7
  <2> QED BY <2>3, <2>4, Indices
<1> QED BY <1>4 DEF up, down, n, l

LEMMA LinearizeIs ==
  ASSUME NEW k \in Filter, NEW m \in SecondDegree, NEW u \in Single
  PROVE  LET l == Linearize(k, m, u)
         IN  l \in Filter /\ l.F = Jacobian(m, k.x) /\ l = [k EXCEPT !.F = l.F]
<1> DEFINE up(j)   == [k.x EXCEPT ![j][1] = N(@ + dt)]
           down(j) == [k.x EXCEPT ![j][1] = N(@ - dt)]
           column(j) == MulS(Sub(ModelOf(m, up(j), u), ModelOf(m, down(j), u)), Recip(2 * dt))
           a == [i \in Index |-> [j \in Index |-> column(j)[i][1]]]
<1>1. Linearize(k, m, u) = [k EXCEPT !.F = a]
  BY DEF Linearize, N
<1>2. \A j \in Index, i \in Index : column(j)[i][1] = Jacobian(m, k.x)[i][j]
  <2>1. k.x \in Vector
    BY FilterFields
  <2> QED BY <2>1, Columns
<1> HIDE DEF column
<1>3. a = Jacobian(m, k.x) /\ a \in Matrix
  <2>1. Jacobian(m, k.x) \in Matrix
    BY FilterFields, JacobianEntries
  <2>2. a = [i \in Index |-> [j \in Index |-> Jacobian(m, k.x)[i][j]]]
    BY <1>2
  <2> QED BY <2>1, <2>2 DEF Matrix
<1> HIDE DEF a
<1>4. [k EXCEPT !.F = a] \in Filter /\ [k EXCEPT !.F = a].F = a
  BY <1>3 DEF Filter
<1> QED BY <1>1, <1>3, <1>4

-----------------------------------------------------------------------------
(* The symmetric form of cDKF's covariance.                                *)

\* With the optimal gain K = p h' S^-1, of the innovation S = h p h' + r,
\*   p - K h p  =  (I - K h) p (I - K h)' + K r K'.
LEMMA Joseph ==
  ASSUME NEW p \in Matrix, NEW h \in Matrix, NEW r \in Matrix,
         Det(Add(Mul(Mul(h, p), Trans(h)), r)) # 0
  PROVE  LET S  == Add(Mul(Mul(h, p), Trans(h)), r)
             K  == Mul(Mul(p, Trans(h)), InverseOf(S))
             IK == Sub(Eye, Mul(K, h))
         IN  Sub(p, Mul(Mul(K, h), p)) = Add(Mul(Mul(IK, p), Trans(IK)), Mul(Mul(K, r), Trans(K)))
<1> DEFINE t == Trans(h)
           w == Mul(Mul(h, p), t)
           S == Add(w, r)
           K == Mul(Mul(p, t), InverseOf(S))
           M == Mul(K, h)
           c == Sub(p, Mul(M, p))
           IK == Sub(Eye, M)
           G == Mul(Mul(K, r), Trans(K))
<1>1. t \in Matrix /\ w \in Matrix /\ S \in Matrix /\ Det(S) # 0 /\ Mul(p, t) \in Matrix
  BY MatrixClosed
<1>2. InverseOf(S) \in Matrix /\ Mul(InverseOf(S), S) = Eye
  BY <1>1, InverseMul
<1> HIDE DEF S
<1>3. K \in Matrix /\ Mul(K, S) = Mul(p, t)
  BY <1>1, <1>2, MatrixClosed, MulAssoc, EyeMul
<1> HIDE DEF K
<1>4. /\ M \in Matrix /\ Trans(M) \in Matrix /\ Trans(M) = Mul(t, Trans(K))
      /\ Trans(K) \in Matrix /\ Mul(M, p) \in Matrix /\ c \in Matrix
      /\ Mul(K, r) \in Matrix /\ G \in Matrix
  BY <1>1, <1>3, MatrixClosed, TransMul
<1>5. Mul(Mul(M, p), t) = Mul(K, w)
  <2>1. Mul(M, p) = Mul(K, Mul(h, p)) /\ Mul(h, p) \in Matrix
    BY <1>3, MulAssoc, MatrixClosed
  <2>2. Mul(Mul(K, Mul(h, p)), t) = Mul(K, Mul(Mul(h, p), t))
    BY <1>1, <1>3, <2>1, MulAssoc
  <2> QED BY <2>1, <2>2
<1> HIDE DEF w, t, M
<1>6. Mul(c, t) = Mul(K, r)
  <2>1. Mul(c, t) = Sub(Mul(p, t), Mul(Mul(M, p), t))
    BY <1>1, <1>4, SubMul
  <2>2. Mul(c, t) = Sub(Mul(K, S), Mul(K, w))
    BY <1>3, <1>5, <2>1
  <2>3. Sub(Mul(K, S), Mul(K, w)) = Mul(K, Sub(S, w))
    BY <1>1, <1>3, MulSub
  <2>4. Sub(S, w) = r
    BY <1>1, AddSub DEF S
  <2> QED BY <2>2, <2>3, <2>4
<1> HIDE DEF c
<1>7. Mul(c, Trans(M)) = G
  BY <1>1, <1>4, <1>6, MulAssoc
<1>8. Mul(IK, p) = c
  BY <1>4, EyeIs, SubMul, EyeMul DEF c
<1>9. Trans(IK) = Sub(Eye, Trans(M))
  BY <1>4, EyeIs, TransAdd, TransEye
<1>10. Mul(c, Sub(Eye, Trans(M))) = Sub(c, G)
  <2>1. Mul(c, Sub(Eye, Trans(M))) = Sub(Mul(c, Eye), Mul(c, Trans(M)))
    BY <1>4, EyeIs, MulSub
  <2>2. Mul(c, Eye) = c
    BY <1>4, EyeMul
  <2> QED BY <1>7, <2>1, <2>2
<1>11. Add(Sub(c, G), G) = c
  BY <1>4, AddSub
<1>12. c = Add(Mul(Mul(IK, p), Trans(IK)), G)
  BY <1>8, <1>9, <1>10, <1>11
<1> QED BY <1>12 DEF c, M, K, S, w, t

-----------------------------------------------------------------------------
(* Filters that have nothing to correct.                                   *)

=============================================================================
