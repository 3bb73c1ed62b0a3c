------------------------------- MODULE KalmanC -------------------------------
(***************************************************************************)
(* The Kalman filter of cmathlib (kalman.c): createKalmanFilter, kalman    *)
(* and freeKalmanFilter.  Every function is a list of calls of the matrix  *)
(* library on members of the Kalman_Filter structure, which share a few    *)
(* scratch matrices and vectors; the order of these calls is the program.  *)
(* A function below is that list, and Run executes it.                     *)
(***************************************************************************)
EXTENDS FieldMatrices, Sequences, SequencesExt

CONSTANTS Null,      \* a pointer that was not set, or NULL
          Ms,        \* linear models [a, b] the caller may give, besides Null
          Models,    \* nonlinear models [a, q, b], besides Null (see ModelOf)
          Hs, Qs, Rs,\* output matrix, process and measurement noise
          Zs,        \* measurements
          Us,        \* control efforts (one component)
          Leftover,  \* what fresh memory may hold
          MaxCalls   \* bound: calls of kalman in a behaviour

ASSUME CallerAssumption ==
  /\ Ms \subseteq [a : Matrix, b : Vector] /\ Null \notin [a : Matrix, b : Vector]
  /\ Models \subseteq [a : Matrix, q : Vector, b : Vector]
  /\ Null \notin [a : Matrix, q : Vector, b : Vector] \cup Arrays
  /\ Hs \subseteq Matrix /\ Qs \cup Rs \subseteq {m \in Matrix : m = Trans(m)}
  /\ Zs \subseteq Vector /\ Us \subseteq Single /\ Leftover \subseteq F
  /\ MaxCalls \in Nat

Flags == [model : {"linear", "nonlinear"}, filter : {"discrete", "continuous"},
          time : {"disc", "cont"}]

VARIABLES kf,     \* the members of the structure, by name
          flags,  \* kf->flags
          fate,   \* "none", "ready", "freed", "exited" or "crashed"
          calls   \* calls of kalman so far

kalmanVars == <<kf, flags, fate, calls>>

-----------------------------------------------------------------------------
(* Calls of the matrix library *)

\* out = does(a, b); n is a scalar or the number of a column.
Call(does, a, b, n, out) == [does |-> does, a |-> a, b |-> b, n |-> n, out |-> out]

matrixMult(a, b, c)      == Call("mult", a, b, 0, c)
matrixAdd(a, b, c)       == Call("add", a, b, 0, c)
matrixSub(a, b, c)       == Call("sub", a, b, 0, c)
matrixMultS(a, s, c)     == Call("scale", a, a, s, c)
matrixCopy(a, b)         == Call("copy", a, a, 0, b)
matrixTrans(a, b)        == Call("trans", a, a, 0, b)
matrixEye(a)             == Call("eye", a, a, 0, a)
\* In place; b receives the row operations too and holds inv(a)*b afterwards.
matrixInv(a, b)          == Call("inv", a, b, 0, a)
matrixFillColV(a, j, v)  == Call("column", v, a, j, a)
callModel(x, u, out)     == Call("model", x, u, 0, out)
\* v = xk, v[j] += s
bumped(j, s, v)          == Call("bump", "xk", <<j, s>>, 0, v)

\* What a call stores.
Result(k, x) ==
  CASE x.does = "mult"   -> Mul(k[x.a], k[x.b])
    [] x.does = "add"    -> Add(k[x.a], k[x.b])
    [] x.does = "sub"    -> Sub(k[x.a], k[x.b])
    [] x.does = "scale"  -> MulS(k[x.a], x.n)
    [] x.does = "copy"   -> k[x.a]
    [] x.does = "trans"  -> Trans(k[x.a])
    [] x.does = "eye"    -> Eye
    [] x.does = "inv"    -> InverseOf(k[x.a])
    [] x.does = "column" -> [i \in Index |-> [k[x.b][i] EXCEPT ![x.n] = k[x.a][i][1]]]
    [] x.does = "model"  -> ModelOf(k["model"], k[x.a], k[x.b])
    [] x.does = "bump"   -> [k[x.a] EXCEPT ![x.b[1]][1] = (@ + x.b[2]) % Prime]

\* A call that is handed a pointer never set crashes; the inversion of a
\* singular matrix ends the program (printError).
Exec(s, x) ==
  LET used == {x.a, x.out} \cup (IF x.does = "bump" THEN {} ELSE {x.b})
                           \cup (IF x.does = "model" THEN {"model"} ELSE {})
  IN  IF s.fate # "ready" THEN s
      ELSE IF \E f \in used : s.kf[f] = Null THEN [s EXCEPT !.fate = "crashed"]
      ELSE IF x.does # "inv" THEN [s EXCEPT !.kf[x.out] = Result(s.kf, x)]
      ELSE IF Det(s.kf[x.a]) = 0 THEN [s EXCEPT !.fate = "exited"]
      ELSE [s EXCEPT !.kf[x.out] = Result(s.kf, x),
                     !.kf[x.b] = Mul(Result(s.kf, x), s.kf[x.b])]

\* (The set has one element: what follows the state s after i - 1 calls.)
Run(k, program) ==
  LET after[i \in 0..Len(program)] ==
        IF i = 0 THEN [kf |-> k, fate |-> "ready"]
        ELSE CHOOSE t \in {Exec(s, program[i]) : s \in {after[i - 1]}} : TRUE
  IN  after[Len(program)]

-----------------------------------------------------------------------------
(* The functions of kalman.c *)

BadLinearizeKalmanFilter ==   \* the state is not copied again
  FlattenSeq([j \in Index |-> <<
    bumped(j, dt, "linstate"), callModel("linstate", "u", "v1"),
    matrixCopy("xk", "linstate"), callModel("linstate", "u", "v2"),
    matrixSub("v1", "v2", "v0"), matrixMultS("v0", Recip(2 * dt), "v0"),
    matrixFillColV("Ac", j, "v0")>>])

linearizeKalmanFilter ==
  <<matrixMultS("tmpu", 0, "tmpu")>> \o FlattenSeq([j \in Index |-> <<
    bumped(j, dt, "linstate"), callModel("linstate", "u", "v1"),
    bumped(j, -dt, "linstate"), callModel("linstate", "u", "v2"),
    matrixSub("v1", "v2", "v0"), matrixMultS("v0", Recip(2 * dt), "v0"),
    matrixFillColV("Ac", j, "v0")>>])

BadC2D == <<   \* A^3 from an A^2 that is scaled already
  matrixMultS("Ac", dt, "m0"), matrixMult("Ac", "Ac", "m1"),
  matrixMultS("m1", dt * dt * Recip(2), "m1"), matrixMult("m1", "Ac", "m2"),
  matrixAdd("m0", "m1", "m0"),
  matrixMultS("m2", dt * dt * dt * Recip(6), "m2"), matrixAdd("m0", "m2", "m0"),
  matrixAdd("eye", "m0", "Ad"),
  matrixMultS("Bc", dt, "b0"), matrixMult("Ac", "Bc", "b1"),
  matrixMultS("b1", dt * dt * Recip(2), "b1"), matrixAdd("b0", "b1", "b0"),
  matrixMult("Ac", "Ac", "m0"), matrixMultS("m0", dt * dt * dt * Recip(6), "m0"),
  matrixMult("m0", "Bc", "b1"), matrixAdd("b0", "b1", "Bd")>>

C2D == <<
  matrixMultS("Ac", dt, "m0"), matrixMult("Ac", "Ac", "m1"),
  matrixMult("m1", "Ac", "m2"), matrixMultS("m1", dt * dt * Recip(2), "m1"),
  matrixAdd("m0", "m1", "m0"),
  matrixMultS("m2", dt * dt * dt * Recip(6), "m2"), matrixAdd("m0", "m2", "m0"),
  matrixAdd("eye", "m0", "Ad"),
  matrixMultS("Bc", dt, "b0"), matrixMult("Ac", "Bc", "b1"),
  matrixMultS("b1", dt * dt * Recip(2), "b1"), matrixAdd("b0", "b1", "b0"),
  matrixMult("Ac", "Ac", "m0"), matrixMultS("m0", dt * dt * dt * Recip(6), "m0"),
  matrixMult("m0", "Bc", "b1"), matrixAdd("b0", "b1", "Bd")>>

\* xk = Ad*xk, P = Ad*P*Ad'+Q
Predict == <<
  matrixMult("Ad", "xk", "v0"), matrixCopy("v0", "xk"),
  matrixMult("Ad", "P", "m0"), matrixTrans("Ad", "AdT"),
  matrixMult("m0", "AdT", "m1"), matrixAdd("m1", "Q", "P")>>

BadGain == <<   \* R is left out
  matrixMult("H", "P", "m0"), matrixTrans("H", "HT"), matrixMult("m0", "HT", "m1"),
  matrixInv("m1", "m0"),
  matrixMult("HT", "m1", "m2"), matrixMult("P", "m2", "k")>>

\* k = P*H'*inv(H*P*H'+R)
Gain == <<
  matrixMult("H", "P", "m0"), matrixTrans("H", "HT"), matrixMult("m0", "HT", "m1"),
  matrixAdd("m1", "R", "m1"), matrixInv("m1", "m0"),
  matrixMult("HT", "m1", "m2"), matrixMult("P", "m2", "k")>>

BadCorrect == <<   \* (I-k*H)' is used where I-k*H is meant
  matrixMult("H", "xk", "v0"), matrixSub("z", "v0", "v0"),
  matrixMult("k", "v0", "v1"), matrixAdd("xk", "v1", "xk"),
  matrixMult("k", "H", "m0"), matrixEye("m1"), matrixSub("m1", "m0", "m0"),
  matrixTrans("m0", "m1"), matrixMult("m0", "P", "m2"), matrixMult("m2", "m0", "m0"),
  matrixMult("k", "R", "m1"), matrixTrans("k", "m2"), matrixMult("m1", "m2", "P"),
  matrixAdd("m0", "P", "P"), matrixCopy("xk", "x_est")>>

\* xk = xk+k*(z-H*xk), P = (I-k*H)*P*(I-k*H)'+k*R*k'
Correct == <<
  matrixMult("H", "xk", "v0"), matrixSub("z", "v0", "v0"),
  matrixMult("k", "v0", "v1"), matrixAdd("xk", "v1", "xk"),
  matrixMult("k", "H", "m0"), matrixEye("m1"), matrixSub("m1", "m0", "m0"),
  matrixTrans("m0", "m1"), matrixMult("m0", "P", "m2"), matrixMult("m2", "m1", "m0"),
  matrixMult("k", "R", "m1"), matrixTrans("k", "m2"), matrixMult("m1", "m2", "P"),
  matrixAdd("m0", "P", "P"), matrixCopy("xk", "x_est")>>

discreteKalmanFilter ==
  (IF flags.model = "nonlinear" THEN linearizeKalmanFilter ELSE <<>>)
    \o (IF flags.time = "cont" THEN C2D ELSE <<>>) \o Predict \o Gain \o Correct

BadXmodel(x, Xdot) == <<   \* the state of the filter where x is meant
  callModel(x, "u", "v0"), matrixMult("H", "xk", "v1"), matrixSub("z", "v1", "v1"),
  matrixMult("k", "v1", "v2"), matrixAdd("v0", "v2", Xdot)>>

xmodel(x, Xdot) == <<
  callModel(x, "u", "v0"), matrixMult("H", x, "v1"), matrixSub("z", "v1", "v1"),
  matrixMult("k", "v1", "v2"), matrixAdd("v0", "v2", Xdot)>>

BadPmodel(P, Pdot) == <<   \* the transpose of Ac is taken for granted
  matrixMult("Ac", P, "m0"), matrixMult(P, "AcT", "m1"),
  matrixAdd("m0", "m1", "m0"), matrixTrans("H", "HT"), matrixMult(P, "HT", "m1"),
  matrixSub("m0", "m1", "m0"), matrixCopy("R", "m1"), matrixInv("m1", "m2"),
  matrixMult("m0", "m1", "m2"), matrixMult(P, "H", "m1"), matrixMult("m2", "m1", "m0"),
  matrixAdd("m0", "Q", Pdot)>>

pmodel(P, Pdot) == <<
  matrixMult("Ac", P, "m0"), matrixTrans("Ac", "AcT"), matrixMult(P, "AcT", "m1"),
  matrixAdd("m0", "m1", "m0"), matrixTrans("H", "HT"), matrixMult(P, "HT", "m1"),
  matrixSub("m0", "m1", "m0"), matrixCopy("R", "m1"), matrixInv("m1", "m2"),
  matrixMult("m0", "m1", "m2"), matrixMult(P, "H", "m1"), matrixMult("m2", "m1", "m0"),
  matrixAdd("m0", "Q", Pdot)>>

\* int_X and int_P: the same calls on vectors and on matrices.
Integrate(x, model(_, _), k1, k2, k3, k4, tmp, tmp2) ==
  model(x, tmp) \o <<matrixMultS(tmp, dt, k1), matrixMultS(k1, Recip(2), tmp),
                     matrixAdd(x, tmp, tmp)>>
    \o model(tmp, tmp2) \o <<matrixMultS(tmp2, dt, k2), matrixMultS(k2, Recip(2), tmp),
                             matrixAdd(x, tmp, tmp)>>
    \o model(tmp, tmp2) \o <<matrixMultS(tmp2, dt, k3), matrixAdd(x, k3, tmp)>>
    \o model(tmp, tmp2) \o <<matrixMultS(tmp2, dt, k4),
         matrixMultS(k2, 2, tmp), matrixMultS(k3, 2, tmp2), matrixAdd(tmp, tmp2, tmp),
         matrixAdd(tmp, k1, tmp), matrixAdd(tmp, k4, tmp),
         matrixMultS(tmp, Recip(6), tmp), matrixAdd(x, tmp, x)>>

int_P == Integrate("P", pmodel, "k1m", "k2m", "k3m", "k4m", "tmpm", "tmp2m")
int_X == Integrate("xk", xmodel, "k1x", "k2x", "k3x", "k4x", "tmpx", "tmp2x")
           \o <<matrixCopy("xk", "x_est")>>

continousKalmanFilter ==
  (IF flags.model = "nonlinear" THEN linearizeKalmanFilter ELSE <<>>)
    \o int_P
    \o <<matrixCopy("R", "m0"), matrixInv("m0", "m1"), matrixTrans("H", "HT"),
         matrixMult("P", "HT", "m1"), matrixMult("m1", "m0", "k")>>
    \o int_X

kalman == IF flags.filter = "discrete" THEN discreteKalmanFilter ELSE continousKalmanFilter

-----------------------------------------------------------------------------
(* The caller *)

Locals  == {"k1m", "k2m", "k3m", "k4m", "tmpm", "tmp2m"}
LocalVs == {"k1x", "k2x", "k3x", "k4x", "tmpx", "tmp2x"}
Members == {"Ac", "Ad", "Bc", "Bd", "H", "u", "z", "Q", "R", "P", "k", "xk", "x_est", "model",
            "eye", "linstate", "ulinstate", "AcT", "AdT", "HT", "P2", "tmpu",
            "v0", "v1", "v2", "m0", "m1", "m2", "m3", "b0", "b1"} \cup Locals \cup LocalVs

FreshM(g) == [i \in Index |-> [j \in Index |-> g]]
FreshV(g) == [i \in Index |-> [j \in {1} |-> g]]
FreshU(g) == [i \in {1} |-> [j \in {1} |-> g]]

\* What every filter has.  initMatrixEye stores the diagonal only.
Common(m, h, q, r, g) ==
  [f \in Members |->
     CASE f \in {"Ad", "AdT", "P", "P2", "k"}           -> FreshM(0)
       [] f \in {"m0", "m1", "m2", "m3"}               -> FreshM(g)
       [] f \in {"z", "x_est", "xk", "Bd"}             -> FreshV(0)
       [] f \in {"v0", "v1", "v2"}                     -> FreshV(g)
       [] f = "u"  -> FreshU(g)
       [] f = "H"  -> h
       [] f = "HT" -> Trans(h)
       [] f = "Q"  -> q
       [] f = "R"  -> r
       [] f = "eye" -> <<<<1, g>>, <<g, 1>>>>
       [] f = "model" -> m
       [] OTHER -> Null]

BadNonlinear(k, g) ==   \* without linstate
  [k EXCEPT !["Ac"] = FreshM(0), !["AcT"] = FreshM(0),
            !["Bc"] = FreshV(0), !["ulinstate"] = FreshU(g), !["tmpu"] = FreshU(g),
            !["b0"] = FreshV(g), !["b1"] = FreshV(g)]

Nonlinear(k, g) ==
  [k EXCEPT !["linstate"] = FreshV(0), !["Ac"] = FreshM(0), !["AcT"] = FreshM(0),
            !["Bc"] = FreshV(0), !["ulinstate"] = FreshU(g), !["tmpu"] = FreshU(g),
            !["b0"] = FreshV(g), !["b1"] = FreshV(g)]

Linear(k, time, s, g) ==
  IF time = "disc"
  THEN [k EXCEPT !["Ad"] = s.a, !["AdT"] = Trans(s.a), !["Bd"] = s.b]
  ELSE [k EXCEPT !["Ac"] = s.a, !["AcT"] = Trans(s.a), !["Bc"] = s.b,
                 !["b0"] = FreshV(g), !["b1"] = FreshV(g)]

KalmanInit == /\ kf = [f \in Members |-> Null]
              /\ flags \in Flags
              /\ fate = "none" /\ calls = 0

\* The initial state the caller gives is not used.
createKalmanFilter(m, s, h, q, r, g) ==
  /\ fate = "none"
  /\ IF flags.model = "nonlinear"
     THEN IF m = Null THEN fate' = "exited" /\ UNCHANGED kf
          ELSE fate' = "ready" /\ kf' = Nonlinear(Common(m, h, q, r, g), g)
     ELSE IF s = Null THEN fate' = "exited" /\ UNCHANGED kf
          ELSE fate' = "ready" /\ kf' = Linear(Common(m, h, q, r, g), flags.time, s, g)
  /\ UNCHANGED <<flags, calls>>

\* The caller stores a measurement and a control effort and calls kalman.
Supplied(z, u, g) ==
  [f \in Members |-> CASE f = "z" -> z
                       [] f = "u" -> u
                       [] f \in Locals  -> FreshM(g)
                       [] f \in LocalVs -> FreshV(g)
                       [] OTHER -> kf[f]]

Update(z, u, g) ==
  /\ fate = "ready" /\ calls < MaxCalls
  /\ LET s == Run(Supplied(z, u, g), kalman)
     IN  /\ fate' = s.fate
         /\ kf' = [f \in Members |-> IF f \in Locals \cup LocalVs THEN Null ELSE s.kf[f]]
  /\ calls' = calls + 1
  /\ UNCHANGED flags

Freed == {"P", "k", "eye", "AcT", "AdT", "HT", "P2", "m0", "m1", "m2", "m3",
          "linstate", "xk", "x_est", "z", "u", "v0", "v1", "v2"}

freeKalmanFilter ==
  /\ fate = "ready"
  /\ fate' = IF \E f \in Freed : kf[f] = Null THEN "crashed" ELSE "freed"
  /\ UNCHANGED <<kf, flags, calls>>

KalmanNext == \/ \E m \in Models \cup {Null}, s \in Ms \cup {Null}, h \in Hs, q \in Qs, r \in Rs,
                    g \in Leftover : createKalmanFilter(m, s, h, q, r, g)
              \/ \E z \in Zs, u \in Us, g \in Leftover : Update(z, u, g)
              \/ freeKalmanFilter

KalmanSpec == KalmanInit /\ [][KalmanNext]_kalmanVars

-----------------------------------------------------------------------------
(* Properties *)

Updated == calls' > calls /\ fate' = "ready"

\* One discrete update is the Kalman filter of kalman.c:26-31 (without the
\* control effort, which the code leaves out): the gain from the predicted
\* covariance, and the covariance (I-kH)P, which the code computes in the
\* longer symmetric form.
DiscreteFilter ==
  [][Updated /\ flags.filter = "discrete" =>
       LET H == kf["H"]
           x == Mul(kf'["Ad"], kf["xk"])
           P == Add(Mul(Mul(kf'["Ad"], kf["P"]), Trans(kf'["Ad"])), kf["Q"])
           K == Mul(Mul(P, Trans(H)), InverseOf(Add(Mul(Mul(H, P), Trans(H)), kf["R"])))
       IN  /\ kf'["k"] = K
           /\ kf'["xk"] = Add(x, Mul(K, Sub(kf'["z"], Mul(H, x))))
           /\ kf'["P"] = Mul(Sub(Eye, Mul(K, H)), P)
           /\ kf'["x_est"] = kf'["xk"]]_kalmanVars

\* The covariance of a discrete filter stays symmetric, update after update.
SymmetricP == flags.filter = "discrete" /\ fate = "ready" => kf["P"] = Trans(kf["P"])

\* The series of kalman.c:111 without its first term: A*dt + A^2*dt^2/2 + A^3*dt^3/6.
Series(A) == LET A2 == Mul(A, A)
             IN  Add(MulS(A, dt), Add(MulS(A2, dt * dt * Recip(2)),
                                      MulS(Mul(A2, A), dt * dt * dt * Recip(6))))
Discretized == Updated /\ flags.filter = "discrete" /\ flags.time = "cont"

\* The discrete model is the series of kalman.c:111-112 up to the third order:
\* Ad when malloc returned an eye that is zero off the diagonal, Bd always.
DiscreteModel ==
  [][Discretized =>
       LET A  == kf'["Ac"]
           dt2 == dt * dt * Recip(2)
           dt3 == dt * dt * dt * Recip(6)
       IN  /\ kf["eye"] = Eye => kf'["Ad"] = Add(Eye, Series(A))
           /\ kf'["Bd"] = Mul(Add(MulS(Eye, dt), Add(MulS(A, dt2), MulS(Mul(A, A), dt3))), kf["Bc"])]_kalmanVars

\* What kalman.c:111 and 128 say of every discrete model, Ad = I+A*dt+...:
\* violated, since eye keeps off its diagonal what the memory held before.
ExponentialModel == [][Discretized => kf'["Ad"] = Add(Eye, Series(kf'["Ac"]))]_kalmanVars

\* Central differences find the Jacobian of a model of the second degree at
\* the state before the update.
Linearized ==
  [][Updated /\ flags.model = "nonlinear" => kf'["Ac"] = Jacobian(kf["model"], kf["xk"])]_kalmanVars

\* What one call of pmodel makes of the covariance y, on members of its own.
SlopeOf(k, y) ==
  Run([f \in Members |-> IF f = "tmpm" THEN y ELSE IF f = "tmp2m" THEN FreshM(0) ELSE k[f]],
      pmodel("tmpm", "tmp2m")).kf["tmp2m"]

\* A continuous update is one Runge-Kutta step of the covariance, of which four
\* calls of pmodel that share their scratch members give the slopes that four
\* separate ones would; the gain P*H'*inv(R) of the new covariance; then one
\* Runge-Kutta step of the state with this gain held fixed.
ContinuousFilter ==
  [][Updated /\ flags.filter = "continuous" =>
       LET H == kf["H"]
           Pdot[y \in Matrix] == SlopeOf(kf', y)
           xdot[x \in Vector] == Add(ModelOf(kf["model"], x, kf'["u"]),
                          Mul(kf'["k"], Sub(kf'["z"], Mul(H, x))))
       IN  /\ kf'["P"] = RungeKutta(Pdot, kf["P"])
           /\ kf'["k"] = Mul(Mul(kf'["P"], Trans(H)), InverseOf(kf["R"]))
           /\ kf'["xk"] = RungeKutta(xdot, kf["xk"])
           /\ kf'["x_est"] = kf'["xk"]]_kalmanVars

\* The slope kalman.c:511 and 381 state, FP+PF'-PH'inv(R)HP+Q: violated, since
\* pmodel computes (FP+PF'-PH')inv(R)(PH)+Q.
Riccati ==
  [][Updated /\ flags.filter = "continuous" =>
       LET A == kf'["Ac"]
           H == kf["H"]
           Pdot[P \in Matrix] ==
             Add(Sub(Add(Mul(A, P), Mul(P, Trans(A))),
                     Mul(Mul(Mul(P, Trans(H)), InverseOf(kf["R"])), Mul(H, P))), kf["Q"])
       IN  kf'["P"] = RungeKutta(Pdot, kf["P"])]_kalmanVars

\* The scratch members carry nothing from one call to the next: what an update
\* does depends on the other members only.
Scratch == {"linstate", "ulinstate", "AcT", "AdT", "HT", "P2", "tmpu",
            "v0", "v1", "v2", "m0", "m1", "m2", "m3", "b0", "b1"}
Scrambled(k) ==
  [f \in Members |->
     IF f \in Scratch /\ k[f] # Null
     THEN [i \in DOMAIN k[f] |-> [j \in DOMAIN k[f][1] |-> (k[f][i][j] + i + 2 * j) % Prime]]
     ELSE k[f]]

ScratchDead ==
  fate = "ready" =>
    \A z \in Zs, u \in Us, g \in Leftover :
      LET s == Run(Supplied(z, u, g), kalman)
          t == Run(Scrambled(Supplied(z, u, g)), kalman)
      IN  s.fate = t.fate /\ \A f \in Members \ (Scratch \cup Locals \cup LocalVs) :
                                s.kf[f] = t.kf[f]

\* A pointer that was never set is used by linear filters only: when they are
\* freed, and when they are continuous.
WildPointers ==
  [][fate' = "crashed" => flags.model = "linear"
                          /\ (calls' > calls => flags.filter = "continuous")]_kalmanVars
=============================================================================
