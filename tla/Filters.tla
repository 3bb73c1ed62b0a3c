------------------------------- MODULE Filters -------------------------------
(***************************************************************************)
(* The Kalman filters of filterlib: cDKF (discrete), cCKF (continuous),    *)
(* cCDKF and cCEKF (extended).  A filter k is a record of the members of   *)
(* cKalmanFilter; an operator below is a method, and its value the filter  *)
(* after the call.                                                         *)
(*                                                                         *)
(* The matrix expressions of the code are written as they are there.  One  *)
(* of their operators has a side effect: R.inv() replaces R by its inverse *)
(* (cMatrix::inv works in place), so that whoever evaluates pmodel changes *)
(* R.  The expressions themselves are the business of TempCache, and what  *)
(* inv() does to the columns it exchanges that of GaussJordan: here the    *)
(* inverse is the inverse, as it is for the covariances that are inverted, *)
(* whose largest element is on the diagonal.                               *)
(***************************************************************************)
EXTENDS FieldMatrices

Zero  == Diag(0, 0)
ZeroV == <<<<0>>, <<0>>>>

Symmetric == {m \in Matrix : m = Trans(m)}   \* covariances

\* cKalmanFilter::init: resize clears P, K, x and xmin.
init(f, b, h) ==
  [F |-> f, B |-> b, H |-> h, Q |-> Eye, R |-> Eye, P |-> Zero, K |-> Zero,
   x |-> ZeroV, xmin |-> ZeroV]

-----------------------------------------------------------------------------
(* cDKF *)

BadPredictDKF(k, u) ==   \* the state itself is predicted, too early
  LET x == Add(Mul(k.F, k.x), Mul(k.B, u))
  IN  [k EXCEPT !.P = Add(Mul(Mul(k.F, k.P), Trans(k.F)), k.Q),
                !.x = x, !.xmin = x]

PredictDKF(k, u) ==
  [k EXCEPT !.P = Add(Mul(Mul(k.F, k.P), Trans(k.F)), k.Q),
            !.xmin = Add(Mul(k.F, k.x), Mul(k.B, u))]

Innovation(k) == Add(Mul(Mul(k.H, k.P), Trans(k.H)), k.R)

BadCorrectDKF(k, z) ==   \* the covariance is corrected with the old gain
  LET K == Mul(Mul(k.P, Trans(k.H)), InverseOf(Innovation(k)))
  IN  [k EXCEPT !.K = K,
                !.x = Add(k.xmin, Mul(K, Sub(z, Mul(k.H, k.xmin)))),
                !.P = Sub(@, Mul(Mul(k.K, k.H), @))]

CorrectDKF(k, z) ==
  LET K == Mul(Mul(k.P, Trans(k.H)), InverseOf(Innovation(k)))
  IN  [k EXCEPT !.K = K,
                !.x = Add(k.xmin, Mul(K, Sub(z, Mul(k.H, k.xmin)))),
                !.P = Sub(@, Mul(Mul(K, k.H), @))]

-----------------------------------------------------------------------------
(* cCKF, cCDKF and cCEKF *)

\* A Runge-Kutta step from x; slope(n, y) is the n-th call of the model.
RK(slope(_, _), x) ==
  LET k1 == MulS(slope(1, x), dt)
      k2 == MulS(slope(2, Add(x, MulS(k1, Recip(2)))), dt)
      k3 == MulS(slope(3, Add(x, MulS(k2, Recip(2)))), dt)
      k4 == MulS(slope(4, Add(x, k3)), dt)
  IN  Add(x, MulS(Add(Add(Add(k1, MulS(k2, 2)), MulS(k3, 2)), k4), Recip(6)))

\* R after n calls of R.inv().
Inverted(r, n) == IF n % 2 = 0 THEN r ELSE InverseOf(r)

\* P after the four calls of pmodel, each of which inverts R and reads P
\* itself, not its argument, in the last product.
BadTimeUpdateP(k) ==   \* F where F' is meant
  LET pmodel(n, p) ==
        Add(Sub(Add(Mul(k.F, p), Mul(p, k.F)),
                Mul(Mul(Mul(Mul(k.P, Trans(k.H)), Inverted(k.R, n)), k.H), k.P)), k.Q)
  IN  [k EXCEPT !.P = RK(pmodel, k.P), !.R = Inverted(k.R, 4)]

TimeUpdateP(k) ==
  LET pmodel(n, p) ==
        Add(Sub(Add(Mul(k.F, p), Mul(p, Trans(k.F))),
                Mul(Mul(Mul(Mul(k.P, Trans(k.H)), Inverted(k.R, n)), k.H), k.P)), k.Q)
  IN  [k EXCEPT !.P = RK(pmodel, k.P), !.R = Inverted(k.R, 4)]

BadGainOf(k) ==   \* with a copy of R, as inv(R) would
  [k EXCEPT !.K = Mul(Mul(k.P, Trans(k.H)), InverseOf(k.R))]

\* K = P*H'*R.inv()
GainOf(k) ==
  LET R == Inverted(k.R, 1)
  IN  [k EXCEPT !.R = R, !.K = Mul(Mul(k.P, Trans(k.H)), R)]

\* f(x, u)+K*(z-H*x), where f is F*x+B*u but for cCEKF
TimeUpdateX(k, f(_), z) ==
  LET xmodel(n, y) == Add(f(y), Mul(k.K, Sub(z, Mul(k.H, y))))
  IN  [k EXCEPT !.x = RK(xmodel, @)]

BadUpdateCKF(k, z, u) ==   \* the gain before the covariance
  LET f(y) == Add(Mul(k.F, y), Mul(k.B, u))
  IN  TimeUpdateX(TimeUpdateP(GainOf(k)), f, z)

\* cCKF::update(z, u) and cCDKF::update(z, u)
UpdateCKF(k, z, u) ==
  LET f(y) == Add(Mul(k.F, y), Mul(k.B, u))
  IN  TimeUpdateX(GainOf(TimeUpdateP(k)), f, z)

\* cCKF::update(u)
PredictCKF(k, u) ==
  LET xmodel(n, y) == Add(Mul(k.F, y), Mul(k.B, u))
  IN  [TimeUpdateP(k) EXCEPT !.x = RK(xmodel, @)]

\* cCDKF::update(u): the state goes first, with K*(-H*x).
PredictX(k, u) ==
  LET f(y) == Add(Mul(k.F, y), Mul(k.B, u))
  IN  TimeUpdateX(k, f, ZeroV)

PredictCDKF(k, u) == TimeUpdateP(PredictX(k, u))

BadLinearize(k, m, u) ==   \* the second difference starts from the first one
  LET up(j)   == [k.x EXCEPT ![j][1] = (@ + dt) % Prime]
      down(j) == k.x
      column(j) == MulS(Sub(ModelOf(m, up(j), u), ModelOf(m, down(j), u)), Recip(2 * dt))
  IN  [k EXCEPT !.F = [i \in Index |-> [j \in Index |-> column(j)[i][1]]]]

\* cCEKF::linearize: central differences of the model in every component.
Linearize(k, m, u) ==
  LET up(j)   == [k.x EXCEPT ![j][1] = (@ + dt) % Prime]
      down(j) == [k.x EXCEPT ![j][1] = (@ - dt) % Prime]
      column(j) == MulS(Sub(ModelOf(m, up(j), u), ModelOf(m, down(j), u)), Recip(2 * dt))
  IN  [k EXCEPT !.F = [i \in Index |-> [j \in Index |-> column(j)[i][1]]]]

UpdateCEKF(k, m, z, u) ==
  LET f(y) == ModelOf(m, y, u)
  IN  TimeUpdateX(GainOf(TimeUpdateP(Linearize(k, m, u))), f, z)
=============================================================================
