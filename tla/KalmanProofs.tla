---------------------------- MODULE KalmanProofs ----------------------------
(***************************************************************************)
(* What holds of the filters of KalmanCpp for every prime, step width,     *)
(* system, model, noise and sequence of calls.                             *)
(***************************************************************************)
EXTENDS KalmanCpp, FilterProofs

-----------------------------------------------------------------------------
(* The covariance after n time updates.                                    *)

Grow(k, p) == Add(Mul(Mul(k.F, p), Trans(k.F)), k.Q)

IsGrowth(k, n, g) == g = [i \in 0..n |-> IF i = 0 THEN k.P ELSE Grow(k, g[i - 1])]

LEMMA GrowthsAgree ==
  ASSUME NEW k, NEW m \in Nat, NEW n \in Nat, m <= n,
         NEW g, IsGrowth(k, m, g), NEW h, IsGrowth(k, n, h)
  PROVE  \A i \in 0..m : g[i] = h[i]
<1> DEFINE S == {i \in Nat : i <= m /\ g[i] # h[i]}
<1> SUFFICES ASSUME S # {} PROVE FALSE
  OBVIOUS
<1>1. PICK i \in S : \A j \in S : i <= j
  BY LeastNumber
<1>2. i \in 0..m /\ i \in 0..n /\ g[i] # h[i]
  BY <1>1
<1>3. /\ g[i] = IF i = 0 THEN k.P ELSE Grow(k, g[i - 1])
      /\ h[i] = IF i = 0 THEN k.P ELSE Grow(k, h[i - 1])
  BY <1>2 DEF IsGrowth
<1>4. i # 0 /\ i - 1 \in 0..m
  BY <1>2, <1>3
<1>5. g[i - 1] = h[i - 1]
  BY <1>1, <1>2, <1>4
<1> QED BY <1>2, <1>3, <1>4, <1>5

LEMMA GrowthExists ==
  ASSUME NEW k
  PROVE  \A n \in Nat : \E g : IsGrowth(k, n, g)
<1> DEFINE Has(n) == \E g : IsGrowth(k, n, g)
           S == {n \in Nat : ~ Has(n)}
<1> SUFFICES ASSUME S # {} PROVE FALSE
  OBVIOUS
<1>1. PICK n \in S : \A j \in S : n <= j
  BY LeastNumber
<1>2. n \in Nat /\ ~ Has(n)
  BY <1>1
<1>3. IsGrowth(k, 0, [i \in 0..0 |-> k.P])
  BY DEF IsGrowth
<1>4. n # 0
  BY <1>2, <1>3
<1>5. n - 1 \in Nat /\ ~ (n - 1 \in S)
  BY <1>1, <1>2, <1>4
<1>6. PICK g : IsGrowth(k, n - 1, g)
  BY <1>5
<1> DEFINE h == [i \in 0..n |-> IF i = n THEN Grow(k, g[n - 1]) ELSE g[i]]
<1>7. \A i \in 0..n : h[i] = IF i = 0 THEN k.P ELSE Grow(k, h[i - 1])
  <2> TAKE i \in 0..n
  <2>1. CASE i = n
    <3>1. h[n] = Grow(k, g[n - 1]) /\ h[n - 1] = g[n - 1]
      BY <1>2, <1>4
    <3> QED BY <1>4, <2>1, <3>1
  <2>2. CASE i # n
    <3>1. i \in 0..(n - 1)
      BY <1>2, <2>2
    <3>2. g[i] = IF i = 0 THEN k.P ELSE Grow(k, g[i - 1])
      BY <1>6, <3>1 DEF IsGrowth
    <3>3. h[i] = g[i] /\ (i # 0 => h[i - 1] = g[i - 1])
      BY <1>2, <2>2, <3>1
    <3> QED BY <3>2, <3>3
  <2> QED BY <2>1, <2>2
<1>8. IsGrowth(k, n, h)
  <2>1. h = [i \in 0..n |-> h[i]]
    OBVIOUS
  <2> HIDE DEF h
  <2> QED BY <1>7, <2>1 DEF IsGrowth
<1> QED BY <1>2, <1>8

LEMMA AheadIs ==
  ASSUME NEW k, NEW n \in Nat
  PROVE  Ahead(k, 0) = k.P /\ Ahead(k, n + 1) = Grow(k, Ahead(k, n))
<1> DEFINE G(m) == CHOOSE g : IsGrowth(k, m, g)
<1>1. \A m \in Nat : Ahead(k, m) = G(m)[m]
  BY DEF Ahead, IsGrowth, Grow
<1>2. \A m \in Nat : IsGrowth(k, m, G(m))
  BY GrowthExists
<1> HIDE DEF G
<1>3. Ahead(k, 0) = k.P
  BY <1>1, <1>2 DEF IsGrowth
<1>4. G(n + 1)[n + 1] = Grow(k, G(n + 1)[n])
  <2>1. n + 1 \in Nat /\ n + 1 # 0 /\ n + 1 \in 0..(n + 1) /\ (n + 1) - 1 = n
    OBVIOUS
  <2>2. G(n + 1)[n + 1] = Grow(k, G(n + 1)[(n + 1) - 1])
    BY <1>2, <2>1 DEF IsGrowth
  <2> QED BY <2>1, <2>2
<1>5. G(n)[n] = G(n + 1)[n]
  <2>1. n + 1 \in Nat /\ n <= n + 1 /\ n \in 0..n
    OBVIOUS
  <2>2. IsGrowth(k, n, G(n)) /\ IsGrowth(k, n + 1, G(n + 1))
    BY <1>2, <2>1
  <2> QED BY <2>1, <2>2, GrowthsAgree
<1> QED BY <1>1, <1>3, <1>4, <1>5

-----------------------------------------------------------------------------
(* The invariant: what the members of the filter are, and how they relate  *)
(* to what setR was given and to the last update that did not throw.       *)

TypeOK ==
  /\ class \in Classes /\ f \in SecondDegree
  /\ filter \in Filter /\ last \in Filter
  /\ fate \in {"new", "ready", "spoiled"}
  /\ noise \in Symmetric
  /\ calls \in Nat /\ turns \in Nat /\ failed \in Nat

Fresh == fate = "new" => turns = 0 /\ failed = 0

\* A gain is only computed with an R that has an inverse.
NoiseKept ==
  Continuous /\ fate = "ready" =>
    filter.R = Inverted(noise, turns) /\ (turns > 0 => Det(noise) # 0)

\* The discrete filter's model is the one of the last update.
ModelKept == class = "cDKF" => filter.F = last.F /\ filter.Q = last.Q

IInv == TypeOK /\ Fresh /\ NoiseKept /\ ModelKept /\ FailedUpdates

Constants ==
  /\ Fs \subseteq Matrix /\ Hs \subseteq Matrix /\ Bs \subseteq Vector /\ Zs \subseteq Vector
  /\ Us \subseteq Single /\ Models \subseteq SecondDegree
  /\ Qs \subseteq Symmetric /\ Rs \subseteq Symmetric /\ Ps \subseteq Symmetric

LEMMA ConstantsOK == Constants
BY FilterAssumption DEF Constants, SecondDegree

LEMMA InitIs ==
  ASSUME NEW a \in Matrix, NEW b \in Vector, NEW h \in Matrix
  PROVE  init(a, b, h) \in Filter
<1>1. Eye \in Symmetric
  BY EyeIs, TransEye, SymmetricIs
<1>2. Zero \in Matrix /\ Zero \in Symmetric
  <2>1. Zero \in Matrix /\ \A i, j \in Index : Zero[i][j] = 0
    BY DiagIs, FieldInt, Indices DEF Zero
  <2>2. \A i, j \in Index : Trans(Zero)[i][j] = Zero[i][j]
    BY <2>1, TransIs
  <2> QED BY <2>1, <2>2, TransIs, SameMatrix, SymmetricIs
<1> QED BY <1>1, <1>2, ZeroVIs DEF init, Filter

LEMMA InvInit == FilterInit => IInv
<1> SUFFICES ASSUME FilterInit PROVE IInv
  OBVIOUS
<1>1. filter \in Filter
  <2>1. Zero \in Matrix
    BY DiagIs, FieldInt DEF Zero
  <2> QED BY <2>1, InitIs, ConstantsOK, ZeroVIs DEF FilterInit, Constants
<1>2. Eye \in Symmetric
  BY EyeIs, TransEye, SymmetricIs
<1>3. TypeOK
  BY <1>1, <1>2, ConstantsOK DEF FilterInit, TypeOK, Constants
<1>4. Fresh /\ NoiseKept /\ ModelKept
  BY DEF FilterInit, Fresh, NoiseKept, ModelKept
<1>5. FailedUpdates
  BY AheadIs DEF FilterInit, FailedUpdates
<1> QED BY <1>3, <1>4, <1>5 DEF IInv

\* One more gain turns R over.
LEMMA OneMoreTurn ==
  ASSUME NEW r \in Symmetric, NEW n \in Nat, Det(Inverted(r, n)) # 0, n > 0 => Det(r) # 0
  PROVE  Det(r) # 0 /\ InverseOf(Inverted(r, n)) = Inverted(r, n + 1)
<1>1. CASE n % 2 = 0
  <2>1. (n + 1) % 2 # 0
    BY <1>1
  <2> QED BY <1>1, <2>1 DEF Inverted
<1>2. CASE n % 2 # 0
  <2>1. (n + 1) % 2 = 0 /\ n > 0
    BY <1>2
  <2> QED BY <1>2, <2>1, SymmetricIs, InverseInverse DEF Inverted
<1> QED BY <1>1, <1>2

LEMMA InvSet ==
  ASSUME IInv, NEW q \in Qs, NEW r \in Rs, NEW p \in Ps, Set(q, r, p)
  PROVE  IInv'
<1> DEFINE k == [filter EXCEPT !.Q = q, !.R = r, !.P = p]
<1>1. k \in Filter /\ k.R = r /\ k.P = p /\ k.K = filter.K /\ r \in Symmetric
  BY ConstantsOK DEF IInv, TypeOK, Filter, Constants
<1>2. filter' = k /\ last' = k /\ turns = 0 /\ failed = 0 /\ noise' = r /\ fate' = "ready"
      /\ turns' = turns /\ failed' = failed /\ class' = class /\ f' = f /\ calls' = calls
  BY DEF Set, IInv, Fresh
<1> HIDE DEF k
<1>3. TypeOK' /\ Fresh' /\ ModelKept'
  BY <1>1, <1>2 DEF IInv, TypeOK, Fresh, ModelKept
<1>4. NoiseKept'
  BY <1>1, <1>2 DEF NoiseKept, Inverted
<1>5. FailedUpdates'
  BY <1>2, AheadIs DEF FailedUpdates
<1> QED BY <1>3, <1>4, <1>5 DEF IInv

LEMMA InvAgain ==
  ASSUME IInv, NEW r \in Rs, Again(r)
  PROVE  IInv'
<1> DEFINE k == [filter EXCEPT !.R = r]
<1>1. /\ k \in Filter /\ k.R = r /\ r \in Symmetric
      /\ k.F = filter.F /\ k.Q = filter.Q /\ k.P = filter.P /\ k.K = filter.K /\ k.x = filter.x
  BY ConstantsOK DEF IInv, TypeOK, Filter, Constants
<1>2. filter' = k /\ turns' = 0 /\ noise' = r /\ fate' = "ready"
      /\ last' = last /\ failed' = failed /\ class' = class /\ f' = f /\ calls' = calls
  BY DEF Again
<1> HIDE DEF k
<1>3. TypeOK' /\ Fresh' /\ ModelKept'
  BY <1>1, <1>2 DEF IInv, TypeOK, Fresh, ModelKept
<1>4. NoiseKept'
  BY <1>1, <1>2 DEF NoiseKept, Inverted
<1>5. FailedUpdates'
  BY <1>1, <1>2 DEF IInv, FailedUpdates
<1> QED BY <1>3, <1>4, <1>5 DEF IInv

Called == fate = "ready" /\ calls' = calls + 1 /\ UNCHANGED <<class, f, noise>>

\* Whoever succeeds leaves nothing to compare with.
LEMMA InvSucceeds ==
  ASSUME IInv, Called, NEW k \in Filter, Succeeds(k), turns' \in Nat, UNCHANGED fate,
         Continuous => k.R = Inverted(noise, turns') /\ (turns' > 0 => Det(noise) # 0)
  PROVE  IInv'
<1>1. filter' = k /\ last' = k /\ failed' = 0 /\ fate' = "ready"
      /\ class' = class /\ f' = f /\ noise' = noise /\ calls' = calls + 1
  BY DEF Succeeds, Called
<1>2. TypeOK' /\ Fresh' /\ ModelKept'
  BY <1>1 DEF IInv, TypeOK, Fresh, ModelKept
<1>3. NoiseKept'
  BY <1>1 DEF NoiseKept, Continuous
<1>4. FailedUpdates'
  BY <1>1, AheadIs DEF FailedUpdates
<1> QED BY <1>2, <1>3, <1>4 DEF IInv

LEMMA InvDKF ==
  ASSUME IInv, Called, NEW z \in Zs, NEW u \in Us, UpdateDKF(z, u)
  PROVE  IInv'
<1> DEFINE k == PredictDKF(filter, u)
<1>1. /\ filter \in Filter /\ last \in Filter /\ z \in Vector /\ u \in Single /\ class = "cDKF"
      /\ turns \in Nat /\ failed \in Nat /\ UNCHANGED fate
  BY ConstantsOK DEF IInv, TypeOK, Constants, UpdateDKF
<1>2. k \in Filter /\ k = [filter EXCEPT !.P = k.P, !.xmin = k.xmin] /\ k.P = Grow(filter, filter.P)
  BY <1>1, PredictDKFIs DEF Grow
<1>3. CASE Singular(Innovation(k))
  <2>1. Throws(k) /\ turns' = turns
    BY <1>3 DEF UpdateDKF
  <2> HIDE DEF k
  <2>2. k.F = filter.F /\ k.Q = filter.Q /\ k.K = filter.K /\ k.x = filter.x
    BY <1>1, <1>2 DEF Filter
  <2>3. filter' = k /\ last' = last /\ failed' = failed + 1 /\ turns' = turns /\ fate' = "ready"
        /\ class' = class /\ f' = f /\ noise' = noise /\ calls' = calls + 1
    BY <1>1, <2>1 DEF Throws, Called
  <2>4. TypeOK' /\ Fresh' /\ ModelKept' /\ NoiseKept'
    BY <1>1, <1>2, <2>2, <2>3 DEF IInv, TypeOK, Fresh, ModelKept, NoiseKept, Continuous
  <2>5. k.P = Ahead(last, failed + 1)
    <3>1. filter.P = Ahead(last, failed) /\ filter.F = last.F /\ filter.Q = last.Q
      BY <1>1 DEF IInv, FailedUpdates, ModelKept
    <3> QED BY <1>1, <1>2, <3>1, AheadIs DEF Grow
  <2>6. FailedUpdates'
    BY <1>1, <2>2, <2>3, <2>5 DEF IInv, FailedUpdates
  <2> QED BY <2>4, <2>6 DEF IInv
<1>4. CASE ~ Singular(Innovation(k))
  <2>1. Succeeds(CorrectDKF(k, z)) /\ turns' = turns + 1
    BY <1>4 DEF UpdateDKF
  <2>2. CorrectDKF(k, z) \in Filter
    BY <1>1, <1>2, <1>4, CorrectDKFIs DEF Singular
  <2> QED BY <1>1, <2>1, <2>2, InvSucceeds DEF Continuous
<1> QED BY <1>3, <1>4

\* A continuous filter that throws has at most its F or its x changed.
LEMMA InvThrows ==
  ASSUME IInv, Called, NEW k \in Filter, Throws(k), fate' = "spoiled", UNCHANGED turns, Continuous,
         k.P = filter.P, k.K = filter.K, class # "cCDKF" => k.x = filter.x
  PROVE  IInv'
<1>1. filter' = k /\ last' = last /\ failed' = failed + 1 /\ fate' = "spoiled" /\ turns' = turns
      /\ class' = class /\ f' = f /\ noise' = noise /\ calls' = calls + 1
  BY DEF Throws, Called
<1>2. TypeOK' /\ Fresh' /\ ModelKept' /\ NoiseKept'
  BY <1>1 DEF IInv, TypeOK, Fresh, ModelKept, NoiseKept, Continuous
<1>3. FailedUpdates'
  BY <1>1 DEF IInv, FailedUpdates, Continuous
<1> QED BY <1>2, <1>3 DEF IInv

LEMMA InvContinuous ==
  ASSUME IInv, Called, NEW z \in Zs, NEW u \in Us, UpdateContinuous(z, u)
  PROVE  IInv'
<1>1. /\ filter \in Filter /\ z \in Vector /\ u \in Single /\ f \in SecondDegree /\ Continuous
      /\ turns \in Nat /\ noise \in Symmetric
      /\ filter.R = Inverted(noise, turns) /\ (turns > 0 => Det(noise) # 0)
  BY ConstantsOK DEF IInv, TypeOK, Constants, UpdateContinuous, Continuous, NoiseKept, Called
<1> DEFINE l == Linearize(filter, f, u)
<1>2. l \in Filter /\ l.R = filter.R /\ l.P = filter.P /\ l.K = filter.K /\ l.x = filter.x
  <2>1. l \in Filter /\ l = [filter EXCEPT !.F = l.F]
    BY <1>1, LinearizeIs
  <2> HIDE DEF l
  <2> QED BY <1>1, <2>1 DEF Filter
<1>3. CASE Singular(filter.R)
  <2> DEFINE k == IF class = "cCEKF" THEN l ELSE filter
  <2>1. Throws(k) /\ fate' = "spoiled" /\ UNCHANGED turns
    BY <1>3 DEF UpdateContinuous
  <2>2. k \in Filter /\ k.P = filter.P /\ k.K = filter.K /\ k.x = filter.x
    BY <1>1, <1>2
  <2> HIDE DEF k
  <2> QED BY <1>1, <2>1, <2>2, InvThrows
<1>4. CASE ~ Singular(filter.R)
  <2> DEFINE k == IF class = "cCEKF" THEN UpdateCEKF(filter, f, z, u) ELSE UpdateCKF(filter, z, u)
  <2>1. Succeeds(k) /\ turns' = turns + 1 /\ UNCHANGED fate
    BY <1>4 DEF UpdateContinuous
  <2>2. k \in Filter /\ k.R = InverseOf(filter.R)
    BY <1>1, <1>2, <1>4, UpdateCKFIs, UpdateCEKFIs DEF Singular
  <2> HIDE DEF k
  <2>3. k.R = Inverted(noise, turns') /\ Det(noise) # 0
    BY <1>1, <1>4, <2>1, <2>2, OneMoreTurn DEF Singular
  <2>4. turns' \in Nat
    BY <1>1, <2>1
  <2> QED BY <2>1, <2>2, <2>3, <2>4, InvSucceeds
<1> QED BY <1>3, <1>4

LEMMA InvPredict ==
  ASSUME IInv, Called, NEW u \in Us, Predict(u)
  PROVE  IInv'
<1>1. /\ filter \in Filter /\ u \in Single /\ class \in {"cCKF", "cCDKF"} /\ Continuous
      /\ turns \in Nat /\ turns' = turns
      /\ filter.R = Inverted(noise, turns) /\ (turns > 0 => Det(noise) # 0)
  BY ConstantsOK DEF IInv, TypeOK, Constants, Predict, Continuous, NoiseKept, Called
<1>2. CASE Singular(filter.R)
  <2> DEFINE l == PredictX(filter, u)  k == IF class = "cCDKF" THEN l ELSE filter
  <2>1. Throws(k) /\ fate' = "spoiled"
    BY <1>2 DEF Predict
  <2>2. l \in Filter /\ l = [filter EXCEPT !.x = l.x]
    BY <1>1, PredictXIs
  <2> HIDE DEF l
  <2>3. l.P = filter.P /\ l.K = filter.K
    BY <1>1, <2>2 DEF Filter
  <2>4. k \in Filter /\ k.P = filter.P /\ k.K = filter.K /\ (class # "cCDKF" => k.x = filter.x)
    BY <1>1, <2>2, <2>3
  <2> HIDE DEF k
  <2> QED BY <1>1, <2>1, <2>4, InvThrows
<1>3. CASE ~ Singular(filter.R)
  <2> DEFINE k == IF class = "cCDKF" THEN PredictCDKF(filter, u) ELSE PredictCKF(filter, u)
  <2>1. Succeeds(k) /\ UNCHANGED fate
    BY <1>3 DEF Predict
  <2>2. k \in Filter /\ k = [filter EXCEPT !.P = k.P, !.x = k.x]
    BY <1>1, <1>3, PredictCDKFIs, PredictCKFIs DEF Singular
  <2> HIDE DEF k
  <2>3. k.R = filter.R
    BY <1>1, <2>2 DEF Filter
  <2> QED BY <1>1, <2>1, <2>2, <2>3, InvSucceeds
<1> QED BY <1>2, <1>3

LEMMA InvNext == IInv /\ [FilterNext]_filterVars => IInv'
<1> SUFFICES ASSUME IInv, [FilterNext]_filterVars PROVE IInv'
  OBVIOUS
<1>1. CASE \E q \in Qs, r \in Rs, p \in Ps : Set(q, r, p)
  BY <1>1, InvSet
<1>2. CASE \E r \in Rs : Again(r)
  BY <1>2, InvAgain
<1>3. CASE Called /\ \E z \in Zs, u \in Us : UpdateDKF(z, u) \/ UpdateContinuous(z, u) \/ Predict(u)
  BY <1>3, InvDKF, InvContinuous, InvPredict
<1>4. CASE UNCHANGED filterVars
  <2>1. TypeOK' /\ Fresh' /\ NoiseKept' /\ ModelKept'
    BY <1>4 DEF filterVars, IInv, TypeOK, Fresh, NoiseKept, Continuous, ModelKept
  <2>2. FailedUpdates'
    BY <1>4 DEF filterVars, IInv, FailedUpdates
  <2> QED BY <2>1, <2>2 DEF IInv
<1> QED BY <1>1, <1>2, <1>3, <1>4 DEF FilterNext, Called

\* The members of every filter keep their shapes and symmetries, R remembers
\* what setR was given, and a filter that has thrown is what FailedUpdates says:
\* after any sequence of calls.
THEOREM Invariant == FilterSpec => []IInv
<1> QED BY InvInit, InvNext, PTL DEF FilterSpec

\* No update of any filter makes the covariance unsymmetric.
THEOREM SymmetryTheorem == FilterSpec => []SymmetricP
<1>1. IInv => SymmetricP
  BY FilterFields, SymmetricIs DEF IInv, TypeOK, SymmetricP
<1> QED BY <1>1, Invariant, PTL

\* What a failed update leaves behind is what FailedUpdates says.
THEOREM FailureTheorem == FilterSpec => []FailedUpdates
<1>1. IInv => FailedUpdates
  BY DEF IInv
<1> QED BY <1>1, Invariant, PTL

\* The steps that raise turns are the successful updates with a measurement.
LEMMA TurnsRise ==
  ASSUME IInv, [FilterNext]_filterVars, turns' > turns
  PROVE  \E z \in Zs, u \in Us : Called /\ (UpdateDKF(z, u) \/ UpdateContinuous(z, u))
<1>1. turns \in Nat
  BY DEF IInv, TypeOK
<1>2. ~ UNCHANGED filterVars
  BY <1>1 DEF filterVars
<1>3. \A q \in Qs, r \in Rs, p \in Ps : ~ Set(q, r, p)
  BY <1>1 DEF Set
<1>4. \A r \in Rs : ~ Again(r)
  BY <1>1 DEF Again
<1>5. \A u \in Us : ~ Predict(u)
  BY <1>1 DEF Predict
<1> QED BY <1>2, <1>3, <1>4, <1>5 DEF FilterNext, Called

\* Every gain of a continuous filter is P*H'*R, with the P and the R the update
\* leaves; and that R is the inverse of the noise every other time.
THEOREM GainTheorem == FilterSpec => GainOfUpdate
<1> DEFINE A == Continuous /\ turns' > turns =>
                  /\ filter'.K = Mul(Mul(filter'.P, Trans(filter.H)), filter'.R)
                  /\ (turns % 2 = 0 => filter'.R = InverseOf(noise))
<1>1. IInv /\ [FilterNext]_filterVars => [A]_filterVars
  <2> SUFFICES ASSUME IInv, [FilterNext]_filterVars, Continuous, turns' > turns
               PROVE  /\ filter'.K = Mul(Mul(filter'.P, Trans(filter.H)), filter'.R)
                      /\ (turns % 2 = 0 => filter'.R = InverseOf(noise))
    OBVIOUS
  <2>1. PICK z \in Zs, u \in Us : Called /\ UpdateContinuous(z, u)
    BY TurnsRise DEF UpdateDKF, Continuous
  <2>2. /\ filter \in Filter /\ z \in Vector /\ u \in Single /\ f \in SecondDegree /\ turns \in Nat
        /\ filter.R = Inverted(noise, turns)
    BY <2>1, ConstantsOK DEF IInv, TypeOK, Constants, NoiseKept, Called
  <2> DEFINE l == Linearize(filter, f, u)
  <2>3. l \in Filter /\ l.R = filter.R /\ l.H = filter.H
    <3>1. l \in Filter /\ l = [filter EXCEPT !.F = l.F]
      BY <2>2, LinearizeIs
    <3> HIDE DEF l
    <3> QED BY <2>2, <3>1 DEF Filter
  <2> DEFINE k == IF class = "cCEKF" THEN UpdateCEKF(filter, f, z, u) ELSE UpdateCKF(filter, z, u)
  <2>4. ~ Singular(filter.R) /\ filter' = k
    BY <2>1, <2>2 DEF UpdateContinuous, Succeeds
  <2>5. k.R = InverseOf(filter.R) /\ k.H = filter.H /\ k.K = Mul(Mul(k.P, Trans(k.H)), k.R)
    BY <2>2, <2>3, <2>4, UpdateCKFIs, UpdateCEKFIs DEF Singular
  <2> HIDE DEF k
  <2> QED BY <2>2, <2>4, <2>5 DEF Inverted
<1> QED BY <1>1, Invariant, PTL DEF FilterSpec, GainOfUpdate

\* Every covariance cDKF corrects is the symmetric form of kalman.c.
THEOREM JosephTheorem == FilterSpec => JosephForm
<1> DEFINE A == class = "cDKF" /\ turns' > turns =>
       LET P  == Add(Mul(Mul(filter.F, filter.P), Trans(filter.F)), filter.Q)
           IK == Sub(Eye, Mul(filter'.K, filter.H))
       IN  filter'.P = Add(Mul(Mul(IK, P), Trans(IK)), Mul(Mul(filter'.K, filter.R), Trans(filter'.K)))
<1>1. IInv /\ [FilterNext]_filterVars => [A]_filterVars
  <2> SUFFICES ASSUME IInv, [FilterNext]_filterVars, class = "cDKF", turns' > turns
               PROVE  LET P  == Add(Mul(Mul(filter.F, filter.P), Trans(filter.F)), filter.Q)
                          IK == Sub(Eye, Mul(filter'.K, filter.H))
                      IN  filter'.P = Add(Mul(Mul(IK, P), Trans(IK)), Mul(Mul(filter'.K, filter.R), Trans(filter'.K)))
    OBVIOUS
  <2>1. PICK z \in Zs, u \in Us : Called /\ UpdateDKF(z, u)
    BY TurnsRise DEF UpdateContinuous
  <2>2. filter \in Filter /\ z \in Vector /\ u \in Single /\ turns \in Nat
    BY ConstantsOK DEF IInv, TypeOK, Constants
  <2> DEFINE k == PredictDKF(filter, u)  S == Innovation(k)
  <2>3. /\ k \in Filter /\ k = [filter EXCEPT !.P = k.P, !.xmin = k.xmin]
        /\ k.P = Add(Mul(Mul(filter.F, filter.P), Trans(filter.F)), filter.Q)
    BY <2>2, PredictDKFIs
  <2>4. Det(S) # 0 /\ filter' = CorrectDKF(k, z)
    BY <2>1, <2>2 DEF UpdateDKF, Succeeds, Singular
  <2> HIDE DEF k
  <2>5. k.H = filter.H /\ k.R = filter.R
    BY <2>2, <2>3 DEF Filter
  <2>6. S = Add(Mul(Mul(filter.H, k.P), Trans(filter.H)), filter.R)
    BY <2>5 DEF Innovation
  <2>7. /\ filter'.K = Mul(Mul(k.P, Trans(filter.H)), InverseOf(S))
        /\ filter'.P = Sub(k.P, Mul(Mul(filter'.K, filter.H), k.P))
    BY <2>2, <2>3, <2>4, <2>5, CorrectDKFIs
  <2>8. k.P \in Matrix /\ filter.H \in Matrix /\ filter.R \in Matrix
    BY <2>2, <2>3, FilterFields
  <2> HIDE DEF S
  <2> QED BY <2>3, <2>4, <2>6, <2>7, <2>8, Joseph
<1> QED BY <1>1, Invariant, PTL DEF FilterSpec, JosephForm

\* Whether it throws or not, an update of cCEKF has linearized around the state
\* it found: the difference quotients of a model of the second degree are its
\* partial derivatives, for every step width.
THEOREM LinearizedTheorem == FilterSpec => Linearized
<1> DEFINE A == class = "cCEKF" /\ calls' > calls => filter'.F = Jacobian(f, filter.x)
<1>1. IInv /\ [FilterNext]_filterVars => [A]_filterVars
  <2> SUFFICES ASSUME IInv, [FilterNext]_filterVars, class = "cCEKF", calls' > calls
               PROVE  filter'.F = Jacobian(f, filter.x)
    OBVIOUS
  <2>1. calls \in Nat
    BY DEF IInv, TypeOK
  <2>2. PICK z \in Zs, u \in Us : UpdateContinuous(z, u)
    <3>1. ~ UNCHANGED filterVars
      BY <2>1 DEF filterVars
    <3>2. \A q \in Qs, r \in Rs, p \in Ps : ~ Set(q, r, p)
      BY <2>1 DEF Set
    <3>3. \A r \in Rs : ~ Again(r)
      BY <2>1 DEF Again
    <3>4. \A z \in Zs, u \in Us : ~ UpdateDKF(z, u) /\ ~ Predict(u)
      BY DEF UpdateDKF, Predict
    <3> QED BY <3>1, <3>2, <3>3, <3>4 DEF FilterNext
  <2>3. filter \in Filter /\ z \in Vector /\ u \in Single /\ f \in SecondDegree
    BY ConstantsOK DEF IInv, TypeOK, Constants
  <2> DEFINE l == Linearize(filter, f, u)
  <2>4. l \in Filter /\ l.F = Jacobian(f, filter.x) /\ l.R = filter.R
    <3>1. l \in Filter /\ l.F = Jacobian(f, filter.x) /\ l = [filter EXCEPT !.F = l.F]
      BY <2>3, LinearizeIs
    <3> HIDE DEF l
    <3> QED BY <2>3, <3>1 DEF Filter
  <2>5. CASE Singular(filter.R)
    BY <2>2, <2>4, <2>5 DEF UpdateContinuous, Throws
  <2>6. CASE ~ Singular(filter.R)
    <3>1. filter' = UpdateCEKF(filter, f, z, u)
      BY <2>2, <2>6 DEF UpdateContinuous, Succeeds
    <3> QED BY <2>3, <2>4, <2>6, <3>1, UpdateCEKFIs DEF Singular
  <2> QED BY <2>5, <2>6
<1> QED BY <1>1, Invariant, PTL DEF FilterSpec, Linearized
=============================================================================
