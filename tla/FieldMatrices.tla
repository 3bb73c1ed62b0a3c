--------------------------- MODULE FieldMatrices ---------------------------
(***************************************************************************)
(* 2x2 matrices and 2x1 vectors over the integers modulo a prime, in place *)
(* of floating-point ones: an identity between two expressions that holds  *)
(* in real arithmetic holds here, and one that mixes up operands, factors  *)
(* or coefficients fails for some values.  A vector is a matrix of one     *)
(* column.                                                                 *)
(***************************************************************************)
EXTENDS Integers

CONSTANTS Prime,   \* above 3, so that 1/2 and 1/6 exist
          dt       \* time step of the filters

ASSUME PrimeAssumption == /\ Prime \in Nat /\ Prime > 3
                          /\ \A k \in 2..(Prime - 1) : Prime % k # 0

F     == 0..(Prime - 1)
Index == 1..2

ASSUME StepAssumption == dt \in F \ {0}

Matrix == [Index -> [Index -> F]]
Vector == [Index -> [{1} -> F]]
Single == [{1} -> [{1} -> F]]
Arrays    == Matrix \cup Vector \cup Single \cup [{1} -> [Index -> F]]

Recip(x) == CHOOSE y \in F : (x * y) % Prime = 1

\* The operations are functions of their operands, so that TLC evaluates an
\* operand once, however often the definition names its elements.
productOf[p \in Arrays \X Arrays] ==
  LET a == p[1] b == p[2]
  IN  [i \in DOMAIN a |-> [j \in DOMAIN b[1] |->
         (a[i][1] * b[1][j] + IF 2 \in DOMAIN b THEN a[i][2] * b[2][j] ELSE 0) % Prime]]
sumOf[p \in Arrays \X Arrays] ==
  [i \in DOMAIN p[1] |-> [j \in DOMAIN p[1][1] |-> (p[1][i][j] + p[2][i][j]) % Prime]]
differenceOf[p \in Arrays \X Arrays] ==
  [i \in DOMAIN p[1] |-> [j \in DOMAIN p[1][1] |-> (p[1][i][j] - p[2][i][j]) % Prime]]
multipleOf[p \in Arrays \X Int] ==
  [i \in DOMAIN p[1] |-> [j \in DOMAIN p[1][1] |-> (p[2] * p[1][i][j]) % Prime]]
transposeOf[a \in Arrays] == [i \in DOMAIN a[1] |-> [j \in DOMAIN a |-> a[j][i]]]

Mul(a, b)  == productOf[<<a, b>>]
Add(a, b)  == sumOf[<<a, b>>]
Sub(a, b)  == differenceOf[<<a, b>>]
MulS(a, s) == multipleOf[<<a, s>>]
Trans(a)   == transposeOf[a]

Diag(x, y) == <<<<x, 0>>, <<0, y>>>>
Eye == Diag(1, 1)

Det(a) == (a[1][1] * a[2][2] - a[1][2] * a[2][1]) % Prime
inverseOf[a \in Matrix] ==
  [i \in Index |-> [j \in Index |->
     (Recip(Det(a)) * (IF i = j THEN a[3 - i][3 - j] ELSE -a[i][j])) % Prime]]
InverseOf(a) == inverseOf[a]

\* Nonlinear models of the second degree: x' = a x + q x1 x2 + b u.
ModelOf(m, x, u) == Add(Add(Mul(m.a, x), MulS(m.q, x[1][1] * x[2][1])), Mul(m.b, u))
Jacobian(m, x) == Add(m.a, Mul(m.q, <<<<x[2][1], x[1][1]>>>>))

\* One step of the classical Runge-Kutta method for x' = f[x].
RungeKutta(f, x) ==
  LET k1 == MulS(f[x], dt)
      k2 == MulS(f[Add(x, MulS(k1, Recip(2)))], dt)
      k3 == MulS(f[Add(x, MulS(k2, Recip(2)))], dt)
      k4 == MulS(f[Add(x, k3)], dt)
  IN  Add(x, MulS(Add(Add(k1, MulS(k2, 2)), Add(MulS(k3, 2), k4)), Recip(6)))
=============================================================================
