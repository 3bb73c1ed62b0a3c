------------------------------ MODULE KalmanCpp ------------------------------
(***************************************************************************)
(* A program that sets up one of the filters of filterlib and updates it.  *)
(***************************************************************************)
EXTENDS Filters

CONSTANTS Fs, Bs, Hs,      \* system, input and output matrices
          Models,          \* models of the extended filter
          Qs, Rs, Ps,      \* noise and first covariance
          Zs, Us,          \* measurements, control efforts
          MaxCalls         \* bound: updates in a behaviour

ASSUME FilterAssumption ==
  /\ Fs \cup Hs \subseteq Matrix /\ Bs \cup Zs \subseteq Vector /\ Us \subseteq Single
  /\ Models \subseteq [a : Matrix, q : Vector, b : Vector]
  /\ Qs \cup Rs \cup Ps \subseteq Symmetric
  /\ MaxCalls \in Nat

VARIABLES class,   \* of the filter
          f,       \* the model of a cCEKF
          filter,  \* its members
          fate,    \* "new", "ready", or "spoiled": R is half eliminated
          calls,   \* updates so far
          \* history
          noise,   \* what setR was given
          turns,   \* gains computed since then
          last,    \* the members after the last call that did not throw
          failed   \* updates since then that threw

filterVars == <<class, f, filter, fate, calls, noise, turns, last, failed>>

Classes == {"cDKF", "cCKF", "cCDKF", "cCEKF"}

FilterInit == /\ class \in Classes
              /\ f \in Models
              /\ \E a \in Fs, b \in Bs, h \in Hs :
                   filter = IF class = "cCEKF" THEN init(Zero, ZeroV, h) ELSE init(a, b, h)
              /\ fate = "new" /\ noise = Eye
              /\ calls = 0 /\ turns = 0
              /\ last = filter /\ failed = 0

\* setQ, setR and setP
Set(q, r, p) ==
  /\ fate = "new"
  /\ fate' = "ready"
  /\ filter' = [filter EXCEPT !.Q = q, !.R = r, !.P = p]
  /\ noise' = r
  /\ last' = filter'
  /\ UNCHANGED <<class, f, calls, turns, failed>>

\* The program that catches the error of an update and goes on gives the
\* filter an R again.
Again(r) ==
  /\ fate = "spoiled"
  /\ fate' = "ready"
  /\ filter' = [filter EXCEPT !.R = r]
  /\ noise' = r /\ turns' = 0
  /\ UNCHANGED <<class, f, calls, last, failed>>

Singular(m) == Det(m) = 0

Succeeds(k) == filter' = k /\ last' = k /\ failed' = 0
Throws(k)   == filter' = k /\ failed' = failed + 1 /\ UNCHANGED last

\* The inverse of a singular matrix throws; P and xmin are assigned by then,
\* and R is as it was: the caller may as well try again.
UpdateDKF(z, u) ==
  LET k == PredictDKF(filter, u)
  IN  /\ class = "cDKF"
      /\ IF Singular(Innovation(k))
         THEN Throws(k) /\ UNCHANGED turns
         ELSE Succeeds(CorrectDKF(k, z)) /\ turns' = turns + 1
      /\ UNCHANGED fate

\* The first R.inv() throws when R is singular, and leaves it half eliminated;
\* F is assigned by then.
UpdateContinuous(z, u) ==
  /\ class # "cDKF"
  /\ IF Singular(filter.R)
     THEN /\ Throws(IF class = "cCEKF" THEN Linearize(filter, f, u) ELSE filter)
          /\ fate' = "spoiled" /\ UNCHANGED turns
     ELSE /\ Succeeds(IF class = "cCEKF" THEN UpdateCEKF(filter, f, z, u)
                      ELSE UpdateCKF(filter, z, u))
          /\ turns' = turns + 1 /\ UNCHANGED fate

\* update(u): the state of a cCDKF is assigned before R.inv() may throw.
Predict(u) ==
  /\ class \in {"cCKF", "cCDKF"}
  /\ IF Singular(filter.R)
     THEN /\ Throws(IF class = "cCDKF" THEN PredictX(filter, u) ELSE filter)
          /\ fate' = "spoiled"
     ELSE /\ Succeeds(IF class = "cCDKF" THEN PredictCDKF(filter, u) ELSE PredictCKF(filter, u))
          /\ UNCHANGED fate
  /\ UNCHANGED turns

FilterNext ==
  \/ \E q \in Qs, r \in Rs, p \in Ps : Set(q, r, p)
  \/ \E r \in Rs : Again(r)
  \/ /\ fate = "ready" /\ calls < MaxCalls
     /\ calls' = calls + 1
     /\ \E z \in Zs, u \in Us : UpdateDKF(z, u) \/ UpdateContinuous(z, u) \/ Predict(u)
     /\ UNCHANGED <<class, f, noise>>

FilterSpec == FilterInit /\ [][FilterNext]_filterVars

-----------------------------------------------------------------------------
(* Properties *)

Continuous == class # "cDKF"

\* cMatrix.cpp:533 says of inv() that "this doesn't effect the current data, it
\* makes a new matrix": between updates R would be what setR was given.
NoiseUnaffected == Continuous /\ fate = "ready" => filter.R = noise

\* The gain of a continuous filter belongs to the covariance of the same
\* update and to the R that update leaves: the inverse of what setR was given in
\* every other update only, as five calls of R.inv() turn R over.
GainOfUpdate ==
  [][Continuous /\ turns' > turns =>
       /\ filter'.K = Mul(Mul(filter'.P, Trans(filter.H)), filter'.R)
       /\ (turns % 2 = 0 => filter'.R = InverseOf(noise))]_filterVars

\* The covariance stays symmetric, update after update, in every filter.
SymmetricP == fate = "ready" => filter.P = Trans(filter.P)

\* cDKF's P-K*H*P is the symmetric form that kalman.c:90 computes.
JosephForm ==
  [][class = "cDKF" /\ turns' > turns =>
       LET P  == Add(Mul(Mul(filter.F, filter.P), Trans(filter.F)), filter.Q)
           IK == Sub(Eye, Mul(filter'.K, filter.H))
       IN  filter'.P = Add(Mul(Mul(IK, P), Trans(IK)),
                          Mul(Mul(filter'.K, filter.R), Trans(filter'.K)))]_filterVars

\* The extended filter linearizes around the state before the update.
Linearized ==
  [][class = "cCEKF" /\ calls' > calls => filter'.F = Jacobian(f, filter.x)]_filterVars

Ahead(k, n) ==   \* the covariance of k after n time updates
  LET P[i \in 0..n] ==
        IF i = 0 THEN k.P ELSE Add(Mul(Mul(k.F, P[i - 1]), Trans(k.F)), k.Q)
  IN  P[n]

\* What an update that throws leaves behind.  The continuous filters are as
\* after the last one that did not, so that a caller may catch the error, set
\* R and repeat the update; only cCDKF's prediction has moved the state.  The
\* discrete filter's covariance runs ahead of its state by one time update
\* for each failure, and a repeated update counts it again.
FailedUpdates ==
  /\ filter.K = last.K
  /\ class # "cCDKF" => filter.x = last.x
  /\ filter.P = IF class = "cDKF" THEN Ahead(last, failed) ELSE last.P
=============================================================================
