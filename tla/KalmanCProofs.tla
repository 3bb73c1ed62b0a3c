----------------------------- MODULE KalmanCProofs -----------------------------
(***************************************************************************)
(* Theorems about the Kalman filter of cmathlib, for every prime, every    *)
(* time step and every set of models, matrices and measurements.           *)
(*                                                                         *)
(* A function of kalman.c is a list of calls that share scratch members.   *)
(* The argument cuts each list into pieces that end where the program may  *)
(* end, at an inversion, proves of each piece which members it needs and   *)
(* what it leaves (its Run or Is lemma), and joins the pieces.  What an    *)
(* update leaves is then NewMember, a formula of the members before it;    *)
(* the rest are equations between matrices, which FilterProofs has lemmas  *)
(* for.                                                                    *)
(***************************************************************************)
EXTENDS KalmanC, FilterProofs, SequenceTheorems

-----------------------------------------------------------------------------
(* A program, call by call.                                                *)

\* After the calls of p, the state s has become t.
Leads(s, p, t) ==
  \E A : /\ A[1] = s /\ A[Len(p) + 1] = t
         /\ \A i \in 1..Len(p) : A[i + 1] = Exec(A[i], p[i])

After(q, x) == CHOOSE t \in {Exec(s, x) : s \in {q}} : TRUE

IsTrace(first, p, n, A) == A = [i \in 0..n |-> IF i = 0 THEN first ELSE After(A[i - 1], p[i])]

LEMMA AfterIs == ASSUME NEW q, NEW x PROVE After(q, x) = Exec(q, x)
<1> DEFINE S == {Exec(s, x) : s \in {q}}
<1>1. \A t : t \in S <=> t = Exec(q, x)
  OBVIOUS
<1>2. After(q, x) = CHOOSE t \in S : TRUE
  BY DEF After
<1> HIDE DEF S
<1>3. (CHOOSE t \in S : TRUE) \in S
  BY <1>1
<1> QED BY <1>1, <1>2, <1>3

LEMMA TraceExists ==
  ASSUME NEW first, NEW p
  PROVE  \A n \in Nat : \E A : IsTrace(first, p, n, A)
<1> DEFINE Has(n) == \E A : IsTrace(first, p, n, A)
           S == {n \in Nat : ~ Has(n)}
<1> SUFFICES ASSUME S # {} PROVE FALSE
  OBVIOUS
<1>1. PICK n \in S : \A j \in S : n <= j
  BY LeastNumber
<1>2. n \in Nat /\ ~ Has(n)
  BY <1>1
<1>3. IsTrace(first, p, 0, [i \in 0..0 |-> first])
  BY DEF IsTrace
<1>4. n # 0
  BY <1>2, <1>3
<1>5. n - 1 \in Nat /\ ~ (n - 1 \in S)
  BY <1>1, <1>2, <1>4
<1>6. PICK A : IsTrace(first, p, n - 1, A)
  BY <1>5
<1> DEFINE B == [i \in 0..n |-> IF i = n THEN After(A[n - 1], p[n]) ELSE A[i]]
<1>7. \A i \in 0..n : B[i] = IF i = 0 THEN first ELSE After(B[i - 1], p[i])
  <2> TAKE i \in 0..n
  <2>1. CASE i = n
    <3>1. B[n] = After(A[n - 1], p[n]) /\ B[n - 1] = A[n - 1]
      BY <1>2, <1>4
    <3> QED BY <1>4, <2>1, <3>1
  <2>2. CASE i # n
    <3>1. i \in 0..(n - 1)
      BY <1>2, <2>2
    <3>2. A[i] = IF i = 0 THEN first ELSE After(A[i - 1], p[i])
      BY <1>6, <3>1 DEF IsTrace
    <3>3. B[i] = A[i] /\ (i # 0 => B[i - 1] = A[i - 1])
      BY <1>2, <2>2, <3>1
    <3> QED BY <3>2, <3>3
  <2> QED BY <2>1, <2>2
<1>8. IsTrace(first, p, n, B)
  <2>1. B = [i \in 0..n |-> B[i]]
    OBVIOUS
  <2> HIDE DEF B
  <2> QED BY <1>7, <2>1 DEF IsTrace
<1> QED BY <1>2, <1>8

LEMMA RunLeads ==
  ASSUME NEW k, NEW p, Len(p) \in Nat, NEW t, Leads([kf |-> k, fate |-> "ready"], p, t)
  PROVE  Run(k, p) = t
<1> DEFINE first == [kf |-> k, fate |-> "ready"]  n == Len(p)
           T == CHOOSE A : IsTrace(first, p, n, A)
<1>1. Run(k, p) = T[n]
  BY DEF Run, IsTrace, After
<1>2. IsTrace(first, p, n, T)
  BY TraceExists
<1>3. PICK A : /\ A[1] = first /\ A[n + 1] = t
               /\ \A i \in 1..n : A[i + 1] = Exec(A[i], p[i])
  BY DEF Leads
<1> HIDE DEF T, first
<1>4. T[0] = first /\ \A i \in 1..n : T[i] = Exec(T[i - 1], p[i])
  <2>1. T[0] = first
    BY <1>2 DEF IsTrace
  <2> SUFFICES ASSUME NEW i \in 1..n PROVE T[i] = Exec(T[i - 1], p[i])
    BY <2>1
  <2>2. i \in 0..n /\ i # 0
    OBVIOUS
  <2>3. T[i] = After(T[i - 1], p[i])
    BY <1>2, <2>2 DEF IsTrace
  <2> QED BY <2>3, AfterIs
<1> DEFINE S == {i \in Nat : i <= n /\ A[i + 1] # T[i]}
<1>5. S = {}
  <2> SUFFICES ASSUME S # {} PROVE FALSE
    OBVIOUS
  <2>1. PICK i \in S : \A j \in S : i <= j
    BY LeastNumber
  <2>2. i \in 1..n /\ A[i + 1] # T[i]
    BY <2>1, <1>3, <1>4
  <2>3. i - 1 \in Nat /\ i - 1 <= n /\ ~ (i - 1 \in S)
    BY <2>1, <2>2
  <2>4. A[(i - 1) + 1] = T[i - 1] /\ (i - 1) + 1 = i
    BY <2>2, <2>3
  <2> QED BY <1>3, <1>4, <2>2, <2>4
<1> QED BY <1>1, <1>3, <1>5

LEMMA LeadsOn ==
  ASSUME NEW S, NEW p \in Seq(S), NEW q \in Seq(S), NEW s, NEW t, NEW u,
         Leads(s, p, t), Leads(t, q, u)
  PROVE  Leads(s, p \o q, u)
<1>1. PICK A : /\ A[1] = s /\ A[Len(p) + 1] = t
               /\ \A i \in 1..Len(p) : A[i + 1] = Exec(A[i], p[i])
  BY DEF Leads
<1>2. PICK B : /\ B[1] = t /\ B[Len(q) + 1] = u
               /\ \A i \in 1..Len(q) : B[i + 1] = Exec(B[i], q[i])
  BY DEF Leads
<1> DEFINE m == Len(p)  n == Len(q)  r == p \o q
           C == [i \in 1..(m + n + 1) |-> IF i <= m THEN A[i] ELSE B[i - m]]
<1>3. m \in Nat /\ n \in Nat /\ Len(r) = m + n
  OBVIOUS
<1>4. /\ \A i \in 1..m : r[i] = p[i]
      /\ \A i \in 1..n : r[m + i] = q[i]
  OBVIOUS
<1>0. A[m + 1] = t /\ B[1] = t /\ A[1] = s /\ B[n + 1] = u
  BY <1>1, <1>2
<1> HIDE DEF m, n, r
<1>5. C[1] = s /\ C[m + n + 1] = u
  BY <1>0, <1>3
<1>6. ASSUME NEW i \in 1..(m + n) PROVE C[i + 1] = Exec(C[i], r[i])
  <2>1. CASE i <= m
    <3>1. i \in 1..m /\ C[i] = A[i] /\ A[i + 1] = Exec(A[i], r[i])
      BY <1>1, <1>3, <1>4, <2>1 DEF m
    <3>2. C[i + 1] = A[i + 1]
      <4>1. CASE i = m
        <5>1. C[m + 1] = B[(m + 1) - m] /\ (m + 1) - m = 1
          BY <1>3
        <5> QED BY <1>0, <4>1, <5>1
      <4>2. CASE i # m
        BY <1>3, <2>1, <4>2
      <4> QED BY <4>1, <4>2
    <3> QED BY <3>1, <3>2
  <2>2. CASE i > m
    <3> DEFINE j == i - m
    <3>1. j \in 1..n /\ m + j = i /\ C[i] = B[j] /\ C[i + 1] = B[j + 1]
      <4>1. (i + 1) - m = (i - m) + 1
        BY <1>3
      <4> QED BY <1>3, <2>2, <4>1
    <3> HIDE DEF j
    <3>2. B[j + 1] = Exec(B[j], q[j]) /\ r[i] = q[j]
      BY <1>2, <1>4, <3>1 DEF n
    <3> QED BY <3>1, <3>2
  <2> QED BY <1>3, <2>1, <2>2
<1> HIDE DEF C
<1>7. C[Len(r) + 1] = u /\ \A i \in 1..Len(r) : C[i + 1] = Exec(C[i], r[i])
  BY <1>3, <1>5, <1>6
<1> QED BY <1>5, <1>7 DEF Leads, r

\* What ended the program stays.
LEMMA LeadsEnded ==
  ASSUME NEW S, NEW p \in Seq(S), NEW s, s.fate # "ready"
  PROVE  Leads(s, p, s)
<1> DEFINE A == [i \in 1..(Len(p) + 1) |-> s]
<1>1. \A x : Exec(s, x) = s
  BY DEF Exec
<1>2. Len(p) \in Nat /\ A[1] = s /\ A[Len(p) + 1] = s
  OBVIOUS
<1>3. \A i \in 1..Len(p) : A[i + 1] = Exec(A[i], p[i])
  BY <1>1, <1>2
<1> QED BY <1>2, <1>3 DEF Leads

LEMMA LeadsNone == ASSUME NEW s PROVE Leads(s, <<>>, s)
<1> DEFINE A == <<s>>
<1>1. A[1] = s /\ A[Len(<<>>) + 1] = s /\ 1..Len(<<>>) = {}
  OBVIOUS
<1> HIDE DEF A
<1> QED BY <1>1 DEF Leads

-----------------------------------------------------------------------------
(* What each call does to the members k of a filter that is ready.         *)

St(k) == [kf |-> k, fate |-> "ready"]

\* k with v in member f.
Put(k, f, v) == [g \in Members |-> IF g = f THEN v ELSE k[g]]

\* No pointer of L is Null.
Whole(k, L) == DOMAIN k = Members /\ k = [g \in Members |-> k[g]] /\ \A f \in L : k[f] # Null

LEMMA PutIs ==
  ASSUME NEW k, NEW f, NEW v, NEW g \in Members
  PROVE  /\ g = f => Put(k, f, v)[g] = v
         /\ g # f => Put(k, f, v)[g] = k[g]
BY DEF Put

LEMMA PutWhole ==
  ASSUME NEW k, NEW L \in SUBSET Members, Whole(k, L), NEW f \in Members, NEW v, v # Null
  PROVE  Whole(Put(k, f, v), L)
BY DEF Whole, Put

LEMMA StoreIs ==
  ASSUME NEW k, NEW L \in SUBSET Members, Whole(k, L), NEW c \in Members, NEW v
  PROVE  [St(k) EXCEPT !.kf[c] = v] = St(Put(k, c, v))
<1>1. c \in DOMAIN k
  BY DEF Whole
<1>2. [k EXCEPT ![c] = v] = Put(k, c, v)
  BY <1>1 DEF Put, Whole
<1> QED BY <1>2 DEF St


-----------------------------------------------------------------------------
(* The members by their types, and what a list of calls changes.           *)

Vectors == {"Bc", "Bd", "z", "xk", "x_est", "linstate", "v0", "v1", "v2", "b0", "b1"} \cup LocalVs
Singles == {"u", "ulinstate", "tmpu"}

TypeOf(f) == IF f \in Vectors THEN Vector
             ELSE IF f \in Singles THEN Single
             ELSE IF f = "model" THEN SecondDegree ELSE Matrix

Typed(k, L) == DOMAIN k = Members /\ k = [g \in Members |-> k[g]] /\ \A f \in L : k[f] \in TypeOf(f)

\* From k to t, the calls have written members in W only.
Changes(k, t, W) == /\ DOMAIN t = Members /\ t = [g \in Members |-> t[g]]
                    /\ \A f \in W : t[f] \in TypeOf(f)
                    /\ \A f \in Members \ W : t[f] = k[f]

LEMMA NotNull == \A f : \A v \in TypeOf(f) : v # Null
  BY CallerAssumption DEF TypeOf, Arrays, SecondDegree

LEMMA TypedWhole ==
  ASSUME NEW k, NEW L \in SUBSET Members, Typed(k, L)
  PROVE  Whole(k, L)
BY NotNull DEF Typed, Whole

LEMMA TypedAfter ==
  ASSUME NEW k, NEW t, NEW L \in SUBSET Members, NEW W \in SUBSET Members, Typed(k, L), Changes(k, t, W)
  PROVE  Typed(t, L)
BY DEF Typed, Changes

LEMMA ChangesOn ==
  ASSUME NEW k, NEW t, NEW s, NEW V \in SUBSET Members, NEW W \in SUBSET Members,
         Changes(k, t, V), Changes(t, s, W)
  PROVE  Changes(k, s, V \cup W)
BY DEF Changes

LEMMA Types ==
  /\ TypeOf("Ac") = Matrix /\ TypeOf("Ad") = Matrix /\ TypeOf("H") = Matrix
  /\ TypeOf("Q") = Matrix /\ TypeOf("R") = Matrix /\ TypeOf("P") = Matrix
  /\ TypeOf("k") = Matrix /\ TypeOf("eye") = Matrix /\ TypeOf("AcT") = Matrix
  /\ TypeOf("AdT") = Matrix /\ TypeOf("HT") = Matrix /\ TypeOf("P2") = Matrix
  /\ TypeOf("m0") = Matrix /\ TypeOf("m1") = Matrix /\ TypeOf("m2") = Matrix
  /\ TypeOf("m3") = Matrix /\ TypeOf("k1m") = Matrix /\ TypeOf("k2m") = Matrix
  /\ TypeOf("k3m") = Matrix /\ TypeOf("k4m") = Matrix /\ TypeOf("tmpm") = Matrix
  /\ TypeOf("tmp2m") = Matrix
  /\ TypeOf("Bc") = Vector /\ TypeOf("Bd") = Vector /\ TypeOf("z") = Vector
  /\ TypeOf("xk") = Vector /\ TypeOf("x_est") = Vector /\ TypeOf("linstate") = Vector
  /\ TypeOf("v0") = Vector /\ TypeOf("v1") = Vector /\ TypeOf("v2") = Vector
  /\ TypeOf("b0") = Vector /\ TypeOf("b1") = Vector /\ TypeOf("k1x") = Vector
  /\ TypeOf("k2x") = Vector /\ TypeOf("k3x") = Vector /\ TypeOf("k4x") = Vector
  /\ TypeOf("tmpx") = Vector /\ TypeOf("tmp2x") = Vector
  /\ TypeOf("u") = Single /\ TypeOf("ulinstate") = Single /\ TypeOf("tmpu") = Single
  /\ TypeOf("model") = SecondDegree
BY DEF TypeOf, Vectors, Singles, LocalVs

\* Amid a list of calls that began with the members j: those of L have their
\* types, and those outside W their first values.
Mid(j, k, L, W) == Typed(k, L) /\ Changes(j, k, W)

LEMMA MidStart ==
  ASSUME NEW k, NEW L \in SUBSET Members, NEW W \in SUBSET L, Typed(k, L)
  PROVE  Mid(k, k, L, W)
BY DEF Mid, Typed, Changes

LEMMA MidPut ==
  ASSUME NEW j, NEW k, NEW L \in SUBSET Members, NEW W \in SUBSET L, Mid(j, k, L, W),
         NEW c \in W, NEW v \in TypeOf(c)
  PROVE  Mid(j, Put(k, c, v), L, W)
<1>1. \A g \in Members : Put(k, c, v)[g] = IF g = c THEN v ELSE k[g]
  BY DEF Put
<1>2. DOMAIN Put(k, c, v) = Members /\ Put(k, c, v) = [g \in Members |-> Put(k, c, v)[g]]
  BY DEF Put
<1>3. W \subseteq Members /\ \A f \in L : k[f] \in TypeOf(f)
  BY DEF Mid, Typed
<1> QED BY <1>1, <1>2, <1>3 DEF Mid, Typed, Changes

LEMMA OneCall ==
  ASSUME NEW j, NEW k, NEW L \in SUBSET Members, NEW W \in SUBSET L, Mid(j, k, L, W),
         NEW does, NEW a \in L, NEW b \in L, NEW n, does \notin {"inv", "model", "bump"}, NEW c \in W, NEW v \in TypeOf(c), v = Result(k, Call(does, a, b, n, c))
  PROVE  Exec(St(k), Call(does, a, b, n, c)) = St(Put(k, c, v)) /\ Mid(j, Put(k, c, v), L, W)
<1> DEFINE x == Call(does, a, b, n, c)
<1>1. x.does = does /\ x.a = a /\ x.b = b /\ x.out = c
  BY DEF Call
<1>2. St(k).fate = "ready" /\ St(k).kf = k
  BY DEF St
<1>3. Whole(k, L)
  BY TypedWhole DEF Mid
<1>4. [St(k) EXCEPT !.kf[c] = v] = St(Put(k, c, v))
  BY <1>3, StoreIs
<1>5. v = Result(k, x)
  OBVIOUS
<1> HIDE DEF x
<1>6. \A f \in {a, b, c} : k[f] # Null
  BY <1>3 DEF Whole
<1>7. Exec(St(k), x) = [St(k) EXCEPT !.kf[c] = v]
  BY <1>1, <1>2, <1>5, <1>6 DEF Exec
<1> QED BY <1>4, <1>7, MidPut DEF x

LEMMA MultCall ==
  ASSUME NEW j, NEW k, NEW L \in SUBSET Members, NEW W \in SUBSET L, Mid(j, k, L, W),
         NEW a \in L, NEW b \in L, NEW c \in W, NEW v \in TypeOf(c), v = Mul(k[a], k[b])
  PROVE  Exec(St(k), matrixMult(a, b, c)) = St(Put(k, c, v)) /\ Mid(j, Put(k, c, v), L, W)
<1> DEFINE x == Call("mult", a, b, 0, c)
<1>1. x.does = "mult" /\ x.a = a /\ x.b = b /\ x.n = 0
  BY DEF Call
<1> HIDE DEF x
<1>2. Result(k, x) = v
  BY <1>1 DEF Result
<1> QED BY <1>2, OneCall DEF matrixMult, x

LEMMA AddCall ==
  ASSUME NEW j, NEW k, NEW L \in SUBSET Members, NEW W \in SUBSET L, Mid(j, k, L, W),
         NEW a \in L, NEW b \in L, NEW c \in W, NEW v \in TypeOf(c), v = Add(k[a], k[b])
  PROVE  Exec(St(k), matrixAdd(a, b, c)) = St(Put(k, c, v)) /\ Mid(j, Put(k, c, v), L, W)
<1> DEFINE x == Call("add", a, b, 0, c)
<1>1. x.does = "add" /\ x.a = a /\ x.b = b /\ x.n = 0
  BY DEF Call
<1> HIDE DEF x
<1>2. Result(k, x) = v
  BY <1>1 DEF Result
<1> QED BY <1>2, OneCall DEF matrixAdd, x

LEMMA SubCall ==
  ASSUME NEW j, NEW k, NEW L \in SUBSET Members, NEW W \in SUBSET L, Mid(j, k, L, W),
         NEW a \in L, NEW b \in L, NEW c \in W, NEW v \in TypeOf(c), v = Sub(k[a], k[b])
  PROVE  Exec(St(k), matrixSub(a, b, c)) = St(Put(k, c, v)) /\ Mid(j, Put(k, c, v), L, W)
<1> DEFINE x == Call("sub", a, b, 0, c)
<1>1. x.does = "sub" /\ x.a = a /\ x.b = b /\ x.n = 0
  BY DEF Call
<1> HIDE DEF x
<1>2. Result(k, x) = v
  BY <1>1 DEF Result
<1> QED BY <1>2, OneCall DEF matrixSub, x

LEMMA ScaleCall ==
  ASSUME NEW j, NEW k, NEW L \in SUBSET Members, NEW W \in SUBSET L, Mid(j, k, L, W),
         NEW a \in L, NEW r, NEW c \in W, NEW v \in TypeOf(c), v = MulS(k[a], r)
  PROVE  Exec(St(k), matrixMultS(a, r, c)) = St(Put(k, c, v)) /\ Mid(j, Put(k, c, v), L, W)
<1> DEFINE x == Call("scale", a, a, r, c)
<1>1. x.does = "scale" /\ x.a = a /\ x.b = a /\ x.n = r
  BY DEF Call
<1> HIDE DEF x
<1>2. Result(k, x) = v
  BY <1>1 DEF Result
<1> QED BY <1>2, OneCall DEF matrixMultS, x

LEMMA CopyCall ==
  ASSUME NEW j, NEW k, NEW L \in SUBSET Members, NEW W \in SUBSET L, Mid(j, k, L, W),
         NEW a \in L, NEW c \in W, NEW v \in TypeOf(c), v = k[a]
  PROVE  Exec(St(k), matrixCopy(a, c)) = St(Put(k, c, v)) /\ Mid(j, Put(k, c, v), L, W)
<1> DEFINE x == Call("copy", a, a, 0, c)
<1>1. x.does = "copy" /\ x.a = a /\ x.b = a /\ x.n = 0
  BY DEF Call
<1> HIDE DEF x
<1>2. Result(k, x) = v
  BY <1>1 DEF Result
<1> QED BY <1>2, OneCall DEF matrixCopy, x

LEMMA TransCall ==
  ASSUME NEW j, NEW k, NEW L \in SUBSET Members, NEW W \in SUBSET L, Mid(j, k, L, W),
         NEW a \in L, NEW c \in W, NEW v \in TypeOf(c), v = Trans(k[a])
  PROVE  Exec(St(k), matrixTrans(a, c)) = St(Put(k, c, v)) /\ Mid(j, Put(k, c, v), L, W)
<1> DEFINE x == Call("trans", a, a, 0, c)
<1>1. x.does = "trans" /\ x.a = a /\ x.b = a /\ x.n = 0
  BY DEF Call
<1> HIDE DEF x
<1>2. Result(k, x) = v
  BY <1>1 DEF Result
<1> QED BY <1>2, OneCall DEF matrixTrans, x

LEMMA EyeCall ==
  ASSUME NEW j, NEW k, NEW L \in SUBSET Members, NEW W \in SUBSET L, Mid(j, k, L, W),
         NEW c \in W, NEW v \in TypeOf(c), v = Eye
  PROVE  Exec(St(k), matrixEye(c)) = St(Put(k, c, v)) /\ Mid(j, Put(k, c, v), L, W)
<1> DEFINE x == Call("eye", c, c, 0, c)
<1>1. x.does = "eye" /\ x.a = c /\ x.b = c /\ x.n = 0
  BY DEF Call
<1> HIDE DEF x
<1>2. Result(k, x) = v
  BY <1>1 DEF Result
<1> QED BY <1>2, OneCall DEF matrixEye, x

LEMMA ColumnCall ==
  ASSUME NEW j, NEW k, NEW L \in SUBSET Members, NEW W \in SUBSET L, Mid(j, k, L, W),
         NEW a \in L, NEW i, NEW c \in W, NEW v \in TypeOf(c), v = [n \in Index |-> [k[c][n] EXCEPT ![i] = k[a][n][1]]]
  PROVE  Exec(St(k), matrixFillColV(c, i, a)) = St(Put(k, c, v)) /\ Mid(j, Put(k, c, v), L, W)
<1> DEFINE x == Call("column", a, c, i, c)
<1>1. x.does = "column" /\ x.a = a /\ x.b = c /\ x.n = i
  BY DEF Call
<1> HIDE DEF x
<1>2. Result(k, x) = v
  BY <1>1 DEF Result
<1> QED BY <1>2, OneCall DEF matrixFillColV, x

LEMMA ModelCall ==
  ASSUME NEW j, NEW k, NEW L \in SUBSET Members, NEW W \in SUBSET L, Mid(j, k, L, W),
         NEW a \in L, NEW b \in L, "model" \in L, NEW c \in W, NEW v \in TypeOf(c), v = ModelOf(k["model"], k[a], k[b])
  PROVE  Exec(St(k), callModel(a, b, c)) = St(Put(k, c, v)) /\ Mid(j, Put(k, c, v), L, W)
<1> DEFINE x == callModel(a, b, c)
<1>1. x.does = "model" /\ x.a = a /\ x.b = b /\ x.out = c
  BY DEF callModel, Call
<1> HIDE DEF x
<1>2. Result(k, x) = v
  BY <1>1 DEF Result
<1>3. Whole(k, L)
  BY TypedWhole DEF Mid
<1>4. \A f \in {a, b, c, "model"} : k[f] # Null
  BY <1>3 DEF Whole
<1>5. St(k).fate = "ready" /\ St(k).kf = k
  BY DEF St
<1>6. Exec(St(k), x) = [St(k) EXCEPT !.kf[c] = v]
  BY <1>1, <1>2, <1>4, <1>5 DEF Exec
<1> QED BY <1>3, <1>6, StoreIs, MidPut DEF x

LEMMA BumpCall ==
  ASSUME NEW j, NEW k, NEW L \in SUBSET Members, NEW W \in SUBSET L, Mid(j, k, L, W),
         NEW i, NEW r, "xk" \in L, NEW c \in W, NEW v \in TypeOf(c), v = [k["xk"] EXCEPT ![i][1] = (@ + r) % Prime]
  PROVE  Exec(St(k), bumped(i, r, c)) = St(Put(k, c, v)) /\ Mid(j, Put(k, c, v), L, W)
<1> DEFINE x == bumped(i, r, c)
<1>1. x.does = "bump" /\ x.a = "xk" /\ x.b = <<i, r>> /\ x.out = c
  BY DEF bumped, Call
<1> HIDE DEF x
<1>2. Result(k, x) = v
  BY <1>1 DEF Result
<1>3. Whole(k, L)
  BY TypedWhole DEF Mid
<1>4. \A f \in {"xk", c} : k[f] # Null
  BY <1>3 DEF Whole
<1>5. St(k).fate = "ready" /\ St(k).kf = k
  BY DEF St
<1>6. Exec(St(k), x) = [St(k) EXCEPT !.kf[c] = v]
  BY <1>1, <1>2, <1>4, <1>5 DEF Exec
<1> QED BY <1>3, <1>6, StoreIs, MidPut DEF x

LEMMA ExitCall ==
  ASSUME NEW k, NEW L \in SUBSET Members, Whole(k, L), NEW a \in L, NEW b \in L, Det(k[a]) = 0
  PROVE  Exec(St(k), matrixInv(a, b)) = [kf |-> k, fate |-> "exited"]
<1> DEFINE x == matrixInv(a, b)
<1>1. x.does = "inv" /\ x.a = a /\ x.b = b /\ x.out = a
  BY DEF matrixInv, Call
<1> HIDE DEF x
<1>2. \A f \in {a, b} : k[f] # Null
  BY DEF Whole
<1>3. St(k).fate = "ready" /\ St(k).kf = k
  BY DEF St
<1>4. Exec(St(k), x) = [St(k) EXCEPT !.fate = "exited"]
  BY <1>1, <1>2, <1>3 DEF Exec
<1>5. [St(k) EXCEPT !.fate = "exited"] = [kf |-> k, fate |-> "exited"]
  BY DEF St
<1> QED BY <1>4, <1>5 DEF x

\* The second matrix holds inv(a)*b afterwards.
LEMMA InvCall ==
  ASSUME NEW j, NEW k, NEW L \in SUBSET Members, NEW W \in SUBSET L, Mid(j, k, L, W),
         NEW a \in W, NEW b \in W, a # b, Det(k[a]) # 0,
         NEW v \in TypeOf(a), v = InverseOf(k[a]), NEW w \in TypeOf(b), w = Mul(v, k[b])
  PROVE  /\ Exec(St(k), matrixInv(a, b)) = St(Put(Put(k, a, v), b, w))
         /\ Mid(j, Put(Put(k, a, v), b, w), L, W)
<1> DEFINE x == matrixInv(a, b)
<1>1. x.does = "inv" /\ x.a = a /\ x.b = b /\ x.out = a
  BY DEF matrixInv, Call
<1> HIDE DEF x
<1>2. Result(k, x) = v
  BY <1>1 DEF Result
<1>3. Whole(k, L)
  BY TypedWhole DEF Mid
<1>4. \A f \in {a, b} : k[f] # Null
  BY <1>3 DEF Whole
<1>5. St(k).fate = "ready" /\ St(k).kf = k
  BY DEF St
<1>6. Exec(St(k), x) = [St(k) EXCEPT !.kf[a] = v, !.kf[b] = w]
  BY <1>1, <1>2, <1>4, <1>5 DEF Exec
<1>7. [St(k) EXCEPT !.kf[a] = v] = St(Put(k, a, v))
  BY <1>3, StoreIs
<1>8. Whole(Put(k, a, v), {})
  BY DEF Whole, Put
<1>9. [St(Put(k, a, v)) EXCEPT !.kf[b] = w] = St(Put(Put(k, a, v), b, w))
  BY <1>8, StoreIs
<1>10. [St(k) EXCEPT !.kf[a] = v, !.kf[b] = w] = [[St(k) EXCEPT !.kf[a] = v] EXCEPT !.kf[b] = w]
  OBVIOUS
<1>11. Mid(j, Put(k, a, v), L, W)
  BY MidPut
<1>12. Mid(j, Put(Put(k, a, v), b, w), L, W)
  BY <1>11, MidPut
<1> QED BY <1>6, <1>7, <1>9, <1>10, <1>12 DEF x


-----------------------------------------------------------------------------
(* The functions of kalman.c in pieces, between one inversion and the next. *)

GainFirst == <<matrixMult("H", "P", "m0"), matrixTrans("H", "HT"), matrixMult("m0", "HT", "m1"),
               matrixAdd("m1", "R", "m1")>>
GainLast  == <<matrixMult("HT", "m1", "m2"), matrixMult("P", "m2", "k")>>
SlopeFirst(P) == <<
  matrixMult("Ac", P, "m0"), matrixTrans("Ac", "AcT"), matrixMult(P, "AcT", "m1"),
  matrixAdd("m0", "m1", "m0"), matrixTrans("H", "HT"), matrixMult(P, "HT", "m1"),
  matrixSub("m0", "m1", "m0"), matrixCopy("R", "m1")>>
SlopeLast(P, Pdot) == <<
  matrixMult("m0", "m1", "m2"), matrixMult(P, "H", "m1"), matrixMult("m2", "m1", "m0"),
  matrixAdd("m0", "Q", Pdot)>>
ContinuousGainFirst == <<matrixCopy("R", "m0")>>
ContinuousGainLast  == <<matrixTrans("H", "HT"), matrixMult("P", "HT", "m1"), matrixMult("m1", "m0", "k")>>



HalfStep(x, slope, ki, tmp) ==
  <<matrixMultS(slope, dt, ki), matrixMultS(ki, Recip(2), tmp), matrixAdd(x, tmp, tmp)>>
WholeStep(x, slope, ki, tmp) == <<matrixMultS(slope, dt, ki), matrixAdd(x, ki, tmp)>>
LastStep(x, k1, k2, k3, k4, tmp, tmp2) == <<
  matrixMultS(tmp2, dt, k4),
  matrixMultS(k2, 2, tmp), matrixMultS(k3, 2, tmp2), matrixAdd(tmp, tmp2, tmp),
  matrixAdd(tmp, k1, tmp), matrixAdd(tmp, k4, tmp),
  matrixMultS(tmp, Recip(6), tmp), matrixAdd(x, tmp, x)>>
\* The matrix a with column j of c.
Filled(a, c, j) == [n \in Index |-> [a[n] EXCEPT ![j] = c[n][j]]]

ColumnOf(j) == <<
  bumped(j, dt, "linstate"), callModel("linstate", "u", "v1"),
  bumped(j, -dt, "linstate"), callModel("linstate", "u", "v2"),
  matrixSub("v1", "v2", "v0"), matrixMultS("v0", Recip(2 * dt), "v0"),
  matrixFillColV("Ac", j, "v0")>>

\* The time update.
LEMMA PredictRun ==
  ASSUME NEW k, Typed(k, {"Ad", "xk", "P", "Q", "v0", "m0", "AdT", "m1"})
  PROVE  \E t : /\ Leads(St(k), Predict, St(t))
               /\ Changes(k, t, {"v0", "xk", "m0", "AdT", "m1", "P"})
               /\ t["xk"] = Mul(k["Ad"], k["xk"])
               /\ t["P"] = Add(Mul(Mul(k["Ad"], k["P"]), Trans(k["Ad"])), k["Q"])
<1> DEFINE L == {"Ad", "xk", "P", "Q", "v0", "m0", "AdT", "m1"}
           W == {"v0", "xk", "m0", "AdT", "m1", "P"}  A == k["Ad"]  x == k["xk"]  P == k["P"]
           Q == k["Q"]  xp == Mul(A, x)  AP == Mul(A, P)  AT == Trans(A)  S == Mul(AP, AT)
           pp == Add(S, Q)  k1 == Put(k, "v0", xp)  k2 == Put(k1, "xk", xp)
           k3 == Put(k2, "m0", AP)  k4 == Put(k3, "AdT", AT)  k5 == Put(k4, "m1", S)
           k6 == Put(k5, "P", pp)
<1>1. L \in SUBSET Members /\ W \in SUBSET L
  BY DEF Members, Locals, LocalVs
<1>2. TypeOf("Ad") = Matrix /\ TypeOf("xk") = Vector /\ TypeOf("P") = Matrix
      /\ TypeOf("Q") = Matrix /\ TypeOf("v0") = Vector /\ TypeOf("m0") = Matrix
      /\ TypeOf("AdT") = Matrix /\ TypeOf("m1") = Matrix
  BY Types
<1>3. A \in Matrix /\ x \in Vector /\ P \in Matrix /\ Q \in Matrix
  BY <1>2 DEF Typed
<1>4. \A t : Mid(k, t, L, W) => t["Ad"] = A /\ t["Q"] = Q
  BY <1>1 DEF Mid, Changes
<1>5. Mid(k, k, L, W)
  BY <1>1, MidStart
<1>6. "Ad" \in L /\ "xk" \in L /\ "P" \in L /\ "Q" \in L /\ "v0" \in L /\ "m0" \in L
      /\ "AdT" \in L /\ "m1" \in L /\ "v0" \in W /\ "xk" \in W /\ "m0" \in W /\ "AdT" \in W
      /\ "m1" \in W /\ "P" \in W
  OBVIOUS
<1> HIDE DEF L, W, A, x, P, Q, xp, AP, AT, S, pp, k1, k2, k3, k4, k5, k6
<1>7. xp \in Vector
  BY <1>3, VectorClosed DEF xp
<1>8. Exec(St(k), matrixMult("Ad", "xk", "v0")) = St(k1) /\ Mid(k, k1, L, W)
  BY <1>1, <1>6, <1>5, <1>4, <1>7, <1>2, MultCall DEF k1, xp, x, P
<1>9. Mid(k, k1, L, W) /\ k1["v0"] = xp /\ k1["P"] = P
  BY <1>1, <1>6, <1>5, <1>8, PutIs DEF k1, x, P
<1>10. Exec(St(k1), matrixCopy("v0", "xk")) = St(k2) /\ Mid(k, k2, L, W)
  BY <1>1, <1>6, <1>9, <1>7, <1>2, CopyCall, SMTT(60) DEF k2
<1>11. Mid(k, k2, L, W) /\ k2["xk"] = xp /\ k2["P"] = P
  BY <1>1, <1>6, <1>9, <1>10, PutIs DEF k2
<1>12. AP \in Matrix
  BY <1>3, MatrixClosed DEF AP
<1>13. Exec(St(k2), matrixMult("Ad", "P", "m0")) = St(k3) /\ Mid(k, k3, L, W)
  BY <1>1, <1>6, <1>11, <1>4, <1>12, <1>2, MultCall DEF k3, AP
<1>14. Mid(k, k3, L, W) /\ k3["xk"] = xp /\ k3["m0"] = AP
  BY <1>1, <1>6, <1>11, <1>13, PutIs DEF k3
<1>15. AT \in Matrix
  BY <1>3, MatrixClosed DEF AT
<1>16. Exec(St(k3), matrixTrans("Ad", "AdT")) = St(k4) /\ Mid(k, k4, L, W)
  BY <1>1, <1>6, <1>14, <1>4, <1>15, <1>2, TransCall DEF k4, AT
<1>17. Mid(k, k4, L, W) /\ k4["xk"] = xp /\ k4["m0"] = AP /\ k4["AdT"] = AT
  BY <1>1, <1>6, <1>14, <1>16, PutIs DEF k4
<1>18. S \in Matrix
  BY <1>12, <1>15, MatrixClosed DEF S
<1>19. Exec(St(k4), matrixMult("m0", "AdT", "m1")) = St(k5) /\ Mid(k, k5, L, W)
  BY <1>1, <1>6, <1>17, <1>18, <1>2, MultCall DEF k5, S
<1>20. Mid(k, k5, L, W) /\ k5["xk"] = xp /\ k5["m1"] = S
  BY <1>1, <1>6, <1>17, <1>19, PutIs DEF k5
<1>21. pp \in Matrix
  BY <1>3, <1>18, MatrixClosed DEF pp
<1>22. Exec(St(k5), matrixAdd("m1", "Q", "P")) = St(k6) /\ Mid(k, k6, L, W)
  BY <1>1, <1>6, <1>20, <1>4, <1>21, <1>2, AddCall DEF k6, pp
<1>23. Mid(k, k6, L, W) /\ k6["xk"] = xp /\ k6["P"] = pp
  BY <1>1, <1>6, <1>20, <1>22, PutIs DEF k6
<1>24. Leads(St(k), Predict, St(k6))
  <2> DEFINE body == Predict  trace == <<St(k), St(k1), St(k2), St(k3), St(k4), St(k5), St(k6)>>
  <2>1. Len(body) = 6
        /\ body[1] = matrixMult("Ad", "xk", "v0")
        /\ body[2] = matrixCopy("v0", "xk")
        /\ body[3] = matrixMult("Ad", "P", "m0")
        /\ body[4] = matrixTrans("Ad", "AdT")
        /\ body[5] = matrixMult("m0", "AdT", "m1")
        /\ body[6] = matrixAdd("m1", "Q", "P")
    BY DEF Predict
  <2>2. trace[1] = St(k) /\ trace[2] = St(k1) /\ trace[3] = St(k2) /\ trace[4] = St(k3) /\ trace[5] = St(k4) /\ trace[6] = St(k5) /\ trace[7] = St(k6)
    OBVIOUS
  <2> HIDE DEF body, trace
  <2>3. /\ trace[1 + 1] = Exec(trace[1], body[1])
        /\ trace[2 + 1] = Exec(trace[2], body[2])
        /\ trace[3 + 1] = Exec(trace[3], body[3])
        /\ trace[4 + 1] = Exec(trace[4], body[4])
        /\ trace[5 + 1] = Exec(trace[5], body[5])
        /\ trace[6 + 1] = Exec(trace[6], body[6])
    BY <2>1, <2>2, <1>8, <1>10, <1>13, <1>16, <1>19, <1>22
  <2>4. \A i \in 1..6 : trace[i + 1] = Exec(trace[i], body[i])
    BY <2>3
  <2>5. Leads(St(k), body, St(k6))
    BY <2>1, <2>2, <2>4 DEF Leads
  <2> QED BY <2>5 DEF body
<1> QED BY <1>24, <1>23 DEF Mid, W, A, x, P, Q, xp, AP, AT, S, pp

\* What the gain inverts.
LEMMA InnovationRun ==
  ASSUME NEW k, Typed(k, {"H", "P", "R", "m0", "HT", "m1"})
  PROVE  \E t : /\ Leads(St(k), GainFirst, St(t))
               /\ Changes(k, t, {"m0", "HT", "m1"})
               /\ t["m1"] = Add(Mul(Mul(k["H"], k["P"]), Trans(k["H"])), k["R"])
               /\ t["HT"] = Trans(k["H"])
<1> DEFINE L == {"H", "P", "R", "m0", "HT", "m1"}  W == {"m0", "HT", "m1"}  H == k["H"]
           P == k["P"]  R == k["R"]  HP == Mul(H, P)  G == Trans(H)  S == Mul(HP, G)
           SR == Add(S, R)  k1 == Put(k, "m0", HP)  k2 == Put(k1, "HT", G)
           k3 == Put(k2, "m1", S)  k4 == Put(k3, "m1", SR)
<1>1. L \in SUBSET Members /\ W \in SUBSET L
  BY DEF Members, Locals, LocalVs
<1>2. TypeOf("H") = Matrix /\ TypeOf("P") = Matrix /\ TypeOf("R") = Matrix
      /\ TypeOf("m0") = Matrix /\ TypeOf("HT") = Matrix /\ TypeOf("m1") = Matrix
  BY Types
<1>3. H \in Matrix /\ P \in Matrix /\ R \in Matrix
  BY <1>2 DEF Typed
<1>4. \A t : Mid(k, t, L, W) => t["H"] = H /\ t["P"] = P /\ t["R"] = R
  BY <1>1 DEF Mid, Changes
<1>5. Mid(k, k, L, W)
  BY <1>1, MidStart
<1>6. "H" \in L /\ "P" \in L /\ "R" \in L /\ "m0" \in L /\ "HT" \in L /\ "m1" \in L
      /\ "m0" \in W /\ "HT" \in W /\ "m1" \in W
  OBVIOUS
<1> HIDE DEF L, W, H, P, R, HP, G, S, SR, k1, k2, k3, k4
<1>7. HP \in Matrix
  BY <1>3, MatrixClosed DEF HP
<1>8. Exec(St(k), matrixMult("H", "P", "m0")) = St(k1) /\ Mid(k, k1, L, W)
  BY <1>1, <1>6, <1>5, <1>4, <1>7, <1>2, MultCall DEF k1, HP
<1>9. Mid(k, k1, L, W) /\ k1["m0"] = HP
  BY <1>1, <1>6, <1>5, <1>8, PutIs DEF k1
<1>10. G \in Matrix
  BY <1>3, MatrixClosed DEF G
<1>11. Exec(St(k1), matrixTrans("H", "HT")) = St(k2) /\ Mid(k, k2, L, W)
  BY <1>1, <1>6, <1>9, <1>4, <1>10, <1>2, TransCall DEF k2, G
<1>12. Mid(k, k2, L, W) /\ k2["m0"] = HP /\ k2["HT"] = G
  BY <1>1, <1>6, <1>9, <1>11, PutIs DEF k2
<1>13. S \in Matrix
  BY <1>7, <1>10, MatrixClosed DEF S
<1>14. Exec(St(k2), matrixMult("m0", "HT", "m1")) = St(k3) /\ Mid(k, k3, L, W)
  BY <1>1, <1>6, <1>12, <1>13, <1>2, MultCall DEF k3, S
<1>15. Mid(k, k3, L, W) /\ k3["HT"] = G /\ k3["m1"] = S
  BY <1>1, <1>6, <1>12, <1>14, PutIs DEF k3
<1>16. SR \in Matrix
  BY <1>3, <1>13, MatrixClosed DEF SR
<1>17. Exec(St(k3), matrixAdd("m1", "R", "m1")) = St(k4) /\ Mid(k, k4, L, W)
  BY <1>1, <1>6, <1>15, <1>4, <1>16, <1>2, AddCall DEF k4, SR
<1>18. Mid(k, k4, L, W) /\ k4["HT"] = G /\ k4["m1"] = SR
  BY <1>1, <1>6, <1>15, <1>17, PutIs DEF k4
<1>19. Leads(St(k), GainFirst, St(k4))
  <2> DEFINE body == GainFirst  trace == <<St(k), St(k1), St(k2), St(k3), St(k4)>>
  <2>1. Len(body) = 4
        /\ body[1] = matrixMult("H", "P", "m0")
        /\ body[2] = matrixTrans("H", "HT")
        /\ body[3] = matrixMult("m0", "HT", "m1")
        /\ body[4] = matrixAdd("m1", "R", "m1")
    BY DEF GainFirst
  <2>2. trace[1] = St(k) /\ trace[2] = St(k1) /\ trace[3] = St(k2) /\ trace[4] = St(k3) /\ trace[5] = St(k4)
    OBVIOUS
  <2> HIDE DEF body, trace
  <2>3. /\ trace[1 + 1] = Exec(trace[1], body[1])
        /\ trace[2 + 1] = Exec(trace[2], body[2])
        /\ trace[3 + 1] = Exec(trace[3], body[3])
        /\ trace[4 + 1] = Exec(trace[4], body[4])
    BY <2>1, <2>2, <1>8, <1>11, <1>14, <1>17
  <2>4. \A i \in 1..4 : trace[i + 1] = Exec(trace[i], body[i])
    BY <2>3
  <2>5. Leads(St(k), body, St(k4))
    BY <2>1, <2>2, <2>4 DEF Leads
  <2> QED BY <2>5 DEF body
<1> QED BY <1>19, <1>18 DEF Mid, W, H, P, R, HP, G, S, SR

\* The gain from the inverse.
LEMMA GainRun ==
  ASSUME NEW k, Typed(k, {"HT", "m1", "P", "m2", "k"})
  PROVE  \E t : /\ Leads(St(k), GainLast, St(t))
               /\ Changes(k, t, {"m2", "k"})
               /\ t["k"] = Mul(k["P"], Mul(k["HT"], k["m1"]))
<1> DEFINE L == {"HT", "m1", "P", "m2", "k"}  W == {"m2", "k"}  G == k["HT"]  V == k["m1"]
           P == k["P"]  GV == Mul(G, V)  K == Mul(P, GV)  k1 == Put(k, "m2", GV)
           k2 == Put(k1, "k", K)
<1>1. L \in SUBSET Members /\ W \in SUBSET L
  BY DEF Members, Locals, LocalVs
<1>2. TypeOf("HT") = Matrix /\ TypeOf("m1") = Matrix /\ TypeOf("P") = Matrix
      /\ TypeOf("m2") = Matrix /\ TypeOf("k") = Matrix
  BY Types
<1>3. G \in Matrix /\ V \in Matrix /\ P \in Matrix
  BY <1>2 DEF Typed
<1>4. \A t : Mid(k, t, L, W) => t["HT"] = G /\ t["m1"] = V /\ t["P"] = P
  BY <1>1 DEF Mid, Changes
<1>5. Mid(k, k, L, W)
  BY <1>1, MidStart
<1>6. "HT" \in L /\ "m1" \in L /\ "P" \in L /\ "m2" \in L /\ "k" \in L /\ "m2" \in W
      /\ "k" \in W
  OBVIOUS
<1> HIDE DEF L, W, G, V, P, GV, K, k1, k2
<1>7. GV \in Matrix
  BY <1>3, MatrixClosed DEF GV
<1>8. Exec(St(k), matrixMult("HT", "m1", "m2")) = St(k1) /\ Mid(k, k1, L, W)
  BY <1>1, <1>6, <1>5, <1>4, <1>7, <1>2, MultCall DEF k1, GV
<1>9. Mid(k, k1, L, W) /\ k1["m2"] = GV
  BY <1>1, <1>6, <1>5, <1>8, PutIs DEF k1
<1>10. K \in Matrix
  BY <1>3, <1>7, MatrixClosed DEF K
<1>11. Exec(St(k1), matrixMult("P", "m2", "k")) = St(k2) /\ Mid(k, k2, L, W)
  BY <1>1, <1>6, <1>9, <1>4, <1>10, <1>2, MultCall DEF k2, K
<1>12. Mid(k, k2, L, W) /\ k2["k"] = K
  BY <1>1, <1>6, <1>9, <1>11, PutIs DEF k2
<1>13. Leads(St(k), GainLast, St(k2))
  <2> DEFINE body == GainLast  trace == <<St(k), St(k1), St(k2)>>
  <2>1. Len(body) = 2
        /\ body[1] = matrixMult("HT", "m1", "m2")
        /\ body[2] = matrixMult("P", "m2", "k")
    BY DEF GainLast
  <2>2. trace[1] = St(k) /\ trace[2] = St(k1) /\ trace[3] = St(k2)
    OBVIOUS
  <2> HIDE DEF body, trace
  <2>3. /\ trace[1 + 1] = Exec(trace[1], body[1])
        /\ trace[2 + 1] = Exec(trace[2], body[2])
    BY <2>1, <2>2, <1>8, <1>11
  <2>4. \A i \in 1..2 : trace[i + 1] = Exec(trace[i], body[i])
    BY <2>3
  <2>5. Leads(St(k), body, St(k2))
    BY <2>1, <2>2, <2>4 DEF Leads
  <2> QED BY <2>5 DEF body
<1> QED BY <1>13, <1>12 DEF Mid, W, G, V, P, GV, K
\* The measurement update, in Joseph's form.
LEMMA CorrectRun ==
  ASSUME NEW k, Typed(k, {"H", "xk", "z", "k", "P", "R", "v0", "v1", "m0", "m1", "m2", "x_est"})
  PROVE  \E t : /\ Leads(St(k), Correct, St(t))
               /\ Changes(k, t, {"v0", "v1", "xk", "m0", "m1", "m2", "P", "x_est"})
               /\ t["xk"] = Add(k["xk"], Mul(k["k"], Sub(k["z"], Mul(k["H"], k["xk"]))))
               /\ t["x_est"] = t["xk"]
               /\ t["P"] = LET IK == Sub(Eye, Mul(k["k"], k["H"]))
                           IN  Add(Mul(Mul(IK, k["P"]), Trans(IK)), Mul(Mul(k["k"], k["R"]), Trans(k["k"])))
<1> DEFINE L == {"H", "xk", "z", "k", "P", "R", "v0", "v1", "m0", "m1", "m2", "x_est"}
           W == {"v0", "v1", "xk", "m0", "m1", "m2", "P", "x_est"}  H == k["H"]  x == k["xk"]
           z == k["z"]  K == k["k"]  P == k["P"]  R == k["R"]  Hx == Mul(H, x)  e == Sub(z, Hx)
           Ke == Mul(K, e)  xn == Add(x, Ke)  KH == Mul(K, H)  I == Eye  IK == Sub(I, KH)
           IKT == Trans(IK)  IKP == Mul(IK, P)  J == Mul(IKP, IKT)  KR == Mul(K, R)
           KT == Trans(K)  KRK == Mul(KR, KT)  pn == Add(J, KRK)  k1 == Put(k, "v0", Hx)
           k2 == Put(k1, "v0", e)  k3 == Put(k2, "v1", Ke)  k4 == Put(k3, "xk", xn)
           k5 == Put(k4, "m0", KH)  k6 == Put(k5, "m1", I)  k7 == Put(k6, "m0", IK)
           k8 == Put(k7, "m1", IKT)  k9 == Put(k8, "m2", IKP)  k10 == Put(k9, "m0", J)
           k11 == Put(k10, "m1", KR)  k12 == Put(k11, "m2", KT)  k13 == Put(k12, "P", KRK)
           k14 == Put(k13, "P", pn)  k15 == Put(k14, "x_est", xn)
<1>1. L \in SUBSET Members /\ W \in SUBSET L
  BY DEF Members, Locals, LocalVs
<1>2. TypeOf("H") = Matrix /\ TypeOf("xk") = Vector /\ TypeOf("z") = Vector
      /\ TypeOf("k") = Matrix /\ TypeOf("P") = Matrix /\ TypeOf("R") = Matrix
      /\ TypeOf("v0") = Vector /\ TypeOf("v1") = Vector /\ TypeOf("m0") = Matrix
      /\ TypeOf("m1") = Matrix /\ TypeOf("m2") = Matrix /\ TypeOf("x_est") = Vector
  BY Types
<1>3. H \in Matrix /\ x \in Vector /\ z \in Vector /\ K \in Matrix /\ P \in Matrix
      /\ R \in Matrix
  BY <1>2 DEF Typed
<1>4. \A t : Mid(k, t, L, W) => t["H"] = H /\ t["z"] = z /\ t["k"] = K /\ t["R"] = R
  BY <1>1 DEF Mid, Changes
<1>5. Mid(k, k, L, W)
  BY <1>1, MidStart
<1>6. "H" \in L /\ "xk" \in L /\ "z" \in L /\ "k" \in L /\ "P" \in L /\ "R" \in L
      /\ "v0" \in L /\ "v1" \in L /\ "m0" \in L /\ "m1" \in L /\ "m2" \in L /\ "x_est" \in L
      /\ "v0" \in W /\ "v1" \in W /\ "xk" \in W /\ "m0" \in W /\ "m1" \in W /\ "m2" \in W
      /\ "P" \in W /\ "x_est" \in W
  OBVIOUS
<1> HIDE DEF L, W, H, x, z, K, P, R, Hx, e, Ke, xn, KH, I, IK, IKT, IKP, J, KR, KT, KRK, pn,
            k1, k2, k3, k4, k5, k6, k7, k8, k9, k10, k11, k12, k13, k14, k15
<1>7. Hx \in Vector
  BY <1>3, VectorClosed DEF Hx
<1>8. Exec(St(k), matrixMult("H", "xk", "v0")) = St(k1) /\ Mid(k, k1, L, W)
  BY <1>1, <1>6, <1>5, <1>4, <1>7, <1>2, MultCall DEF k1, Hx, x, P
<1>9. Mid(k, k1, L, W) /\ k1["v0"] = Hx /\ k1["xk"] = x /\ k1["P"] = P
  BY <1>1, <1>6, <1>5, <1>8, PutIs DEF k1, x, P
<1>10. e \in Vector
  BY <1>3, <1>7, VectorClosed DEF e
<1>11. Exec(St(k1), matrixSub("z", "v0", "v0")) = St(k2) /\ Mid(k, k2, L, W)
  BY <1>1, <1>6, <1>9, <1>4, <1>10, <1>2, SubCall DEF k2, e
<1>12. Mid(k, k2, L, W) /\ k2["v0"] = e /\ k2["xk"] = x /\ k2["P"] = P
  BY <1>1, <1>6, <1>9, <1>11, PutIs DEF k2
<1>13. Ke \in Vector
  BY <1>3, <1>10, VectorClosed DEF Ke
<1>14. Exec(St(k2), matrixMult("k", "v0", "v1")) = St(k3) /\ Mid(k, k3, L, W)
  BY <1>1, <1>6, <1>12, <1>4, <1>13, <1>2, MultCall DEF k3, Ke
<1>15. Mid(k, k3, L, W) /\ k3["v1"] = Ke /\ k3["xk"] = x /\ k3["P"] = P
  BY <1>1, <1>6, <1>12, <1>14, PutIs DEF k3
<1>16. xn \in Vector
  BY <1>3, <1>13, VectorClosed DEF xn
<1>17. Exec(St(k3), matrixAdd("xk", "v1", "xk")) = St(k4) /\ Mid(k, k4, L, W)
  BY <1>1, <1>6, <1>15, <1>16, <1>2, AddCall DEF k4, xn
<1>18. Mid(k, k4, L, W) /\ k4["xk"] = xn /\ k4["P"] = P
  BY <1>1, <1>6, <1>15, <1>17, PutIs DEF k4
<1>19. KH \in Matrix
  BY <1>3, MatrixClosed DEF KH
<1>20. Exec(St(k4), matrixMult("k", "H", "m0")) = St(k5) /\ Mid(k, k5, L, W)
  BY <1>1, <1>6, <1>18, <1>4, <1>19, <1>2, MultCall DEF k5, KH
<1>21. Mid(k, k5, L, W) /\ k5["xk"] = xn /\ k5["m0"] = KH /\ k5["P"] = P
  BY <1>1, <1>6, <1>18, <1>20, PutIs DEF k5
<1>22. I \in Matrix
  BY EyeIs DEF I
<1>23. Exec(St(k5), matrixEye("m1")) = St(k6) /\ Mid(k, k6, L, W)
  BY <1>1, <1>6, <1>21, <1>22, <1>2, EyeCall DEF k6, I
<1>24. Mid(k, k6, L, W) /\ k6["xk"] = xn /\ k6["m0"] = KH /\ k6["m1"] = I /\ k6["P"] = P
  BY <1>1, <1>6, <1>21, <1>23, PutIs DEF k6
<1>25. IK \in Matrix
  BY <1>19, <1>22, MatrixClosed DEF IK
<1>26. Exec(St(k6), matrixSub("m1", "m0", "m0")) = St(k7) /\ Mid(k, k7, L, W)
  BY <1>1, <1>6, <1>24, <1>25, <1>2, SubCall DEF k7, IK
<1>27. Mid(k, k7, L, W) /\ k7["xk"] = xn /\ k7["m0"] = IK /\ k7["P"] = P
  BY <1>1, <1>6, <1>24, <1>26, PutIs DEF k7
<1>28. IKT \in Matrix
  BY <1>25, MatrixClosed DEF IKT
<1>29. Exec(St(k7), matrixTrans("m0", "m1")) = St(k8) /\ Mid(k, k8, L, W)
  BY <1>1, <1>6, <1>27, <1>28, <1>2, TransCall DEF k8, IKT
<1>30. Mid(k, k8, L, W) /\ k8["xk"] = xn /\ k8["m0"] = IK /\ k8["m1"] = IKT /\ k8["P"] = P
  BY <1>1, <1>6, <1>27, <1>29, PutIs DEF k8
<1>31. IKP \in Matrix
  BY <1>3, <1>25, MatrixClosed DEF IKP
<1>32. Exec(St(k8), matrixMult("m0", "P", "m2")) = St(k9) /\ Mid(k, k9, L, W)
  BY <1>1, <1>6, <1>30, <1>31, <1>2, MultCall DEF k9, IKP
<1>33. Mid(k, k9, L, W) /\ k9["xk"] = xn /\ k9["m1"] = IKT /\ k9["m2"] = IKP
  BY <1>1, <1>6, <1>30, <1>32, PutIs DEF k9
<1>34. J \in Matrix
  BY <1>28, <1>31, MatrixClosed DEF J
<1>35. Exec(St(k9), matrixMult("m2", "m1", "m0")) = St(k10) /\ Mid(k, k10, L, W)
  BY <1>1, <1>6, <1>33, <1>34, <1>2, MultCall DEF k10, J
<1>36. Mid(k, k10, L, W) /\ k10["xk"] = xn /\ k10["m0"] = J
  BY <1>1, <1>6, <1>33, <1>35, PutIs DEF k10
<1>37. KR \in Matrix
  BY <1>3, MatrixClosed DEF KR
<1>38. Exec(St(k10), matrixMult("k", "R", "m1")) = St(k11) /\ Mid(k, k11, L, W)
  BY <1>1, <1>6, <1>36, <1>4, <1>37, <1>2, MultCall DEF k11, KR
<1>39. Mid(k, k11, L, W) /\ k11["xk"] = xn /\ k11["m0"] = J /\ k11["m1"] = KR
  BY <1>1, <1>6, <1>36, <1>38, PutIs DEF k11
<1>40. KT \in Matrix
  BY <1>3, MatrixClosed DEF KT
<1>41. Exec(St(k11), matrixTrans("k", "m2")) = St(k12) /\ Mid(k, k12, L, W)
  BY <1>1, <1>6, <1>39, <1>4, <1>40, <1>2, TransCall DEF k12, KT
<1>42. Mid(k, k12, L, W) /\ k12["xk"] = xn /\ k12["m0"] = J /\ k12["m1"] = KR /\ k12["m2"] = KT
  BY <1>1, <1>6, <1>39, <1>41, PutIs DEF k12
<1>43. KRK \in Matrix
  BY <1>37, <1>40, MatrixClosed DEF KRK
<1>44. Exec(St(k12), matrixMult("m1", "m2", "P")) = St(k13) /\ Mid(k, k13, L, W)
  BY <1>1, <1>6, <1>42, <1>43, <1>2, MultCall DEF k13, KRK
<1>45. Mid(k, k13, L, W) /\ k13["xk"] = xn /\ k13["m0"] = J /\ k13["P"] = KRK
  BY <1>1, <1>6, <1>42, <1>44, PutIs DEF k13
<1>46. pn \in Matrix
  BY <1>34, <1>43, MatrixClosed DEF pn
<1>47. Exec(St(k13), matrixAdd("m0", "P", "P")) = St(k14) /\ Mid(k, k14, L, W)
  BY <1>1, <1>6, <1>45, <1>46, <1>2, AddCall DEF k14, pn
<1>48. Mid(k, k14, L, W) /\ k14["xk"] = xn /\ k14["P"] = pn
  BY <1>1, <1>6, <1>45, <1>47, PutIs DEF k14
<1>49. Exec(St(k14), matrixCopy("xk", "x_est")) = St(k15) /\ Mid(k, k15, L, W)
  BY <1>1, <1>6, <1>48, <1>16, <1>2, CopyCall DEF k15
<1>50. Mid(k, k15, L, W) /\ k15["xk"] = xn /\ k15["P"] = pn /\ k15["x_est"] = xn
  BY <1>1, <1>6, <1>48, <1>49, PutIs DEF k15
<1>51. Leads(St(k), Correct, St(k15))
  <2> DEFINE body == Correct  trace == <<St(k), St(k1), St(k2), St(k3), St(k4), St(k5), St(k6), St(k7), St(k8), St(k9), St(k10), St(k11), St(k12), St(k13), St(k14), St(k15)>>
  <2>1. Len(body) = 15
        /\ body[1] = matrixMult("H", "xk", "v0")
        /\ body[2] = matrixSub("z", "v0", "v0")
        /\ body[3] = matrixMult("k", "v0", "v1")
        /\ body[4] = matrixAdd("xk", "v1", "xk")
        /\ body[5] = matrixMult("k", "H", "m0")
        /\ body[6] = matrixEye("m1")
        /\ body[7] = matrixSub("m1", "m0", "m0")
        /\ body[8] = matrixTrans("m0", "m1")
        /\ body[9] = matrixMult("m0", "P", "m2")
        /\ body[10] = matrixMult("m2", "m1", "m0")
        /\ body[11] = matrixMult("k", "R", "m1")
        /\ body[12] = matrixTrans("k", "m2")
        /\ body[13] = matrixMult("m1", "m2", "P")
        /\ body[14] = matrixAdd("m0", "P", "P")
        /\ body[15] = matrixCopy("xk", "x_est")
    BY DEF Correct
  <2>2. trace[1] = St(k) /\ trace[2] = St(k1) /\ trace[3] = St(k2) /\ trace[4] = St(k3) /\ trace[5] = St(k4) /\ trace[6] = St(k5) /\ trace[7] = St(k6) /\ trace[8] = St(k7) /\ trace[9] = St(k8) /\ trace[10] = St(k9) /\ trace[11] = St(k10) /\ trace[12] = St(k11) /\ trace[13] = St(k12) /\ trace[14] = St(k13) /\ trace[15] = St(k14) /\ trace[16] = St(k15)
    OBVIOUS
  <2> HIDE DEF body, trace
  <2>3. /\ trace[1 + 1] = Exec(trace[1], body[1])
        /\ trace[2 + 1] = Exec(trace[2], body[2])
        /\ trace[3 + 1] = Exec(trace[3], body[3])
        /\ trace[4 + 1] = Exec(trace[4], body[4])
        /\ trace[5 + 1] = Exec(trace[5], body[5])
        /\ trace[6 + 1] = Exec(trace[6], body[6])
        /\ trace[7 + 1] = Exec(trace[7], body[7])
        /\ trace[8 + 1] = Exec(trace[8], body[8])
        /\ trace[9 + 1] = Exec(trace[9], body[9])
        /\ trace[10 + 1] = Exec(trace[10], body[10])
        /\ trace[11 + 1] = Exec(trace[11], body[11])
        /\ trace[12 + 1] = Exec(trace[12], body[12])
        /\ trace[13 + 1] = Exec(trace[13], body[13])
        /\ trace[14 + 1] = Exec(trace[14], body[14])
        /\ trace[15 + 1] = Exec(trace[15], body[15])
    BY <2>1, <2>2, <1>8, <1>11, <1>14, <1>17, <1>20, <1>23, <1>26, <1>29, <1>32, <1>35, <1>38, <1>41, <1>44, <1>47, <1>49
  <2>4. \A i \in 1..15 : trace[i + 1] = Exec(trace[i], body[i])
    BY <2>3
  <2>5. Leads(St(k), body, St(k15))
    BY <2>1, <2>2, <2>4 DEF Leads
  <2> QED BY <2>5 DEF body
<1> QED BY <1>51, <1>50 DEF Mid, W, H, x, z, K, P, R, Hx, e, Ke, xn, KH, I, IK, IKT, IKP, J, KR, KT, KRK, pn
\* The first half of pmodel.
LEMMA SlopeFirstRun ==
  ASSUME NEW P \in {"P", "tmpm"},
         NEW k, Typed(k, {"Ac", "H", "R", P, "m0", "AcT", "m1", "HT"})
  PROVE  \E t : /\ Leads(St(k), SlopeFirst(P), St(t))
               /\ Changes(k, t, {"m0", "AcT", "m1", "HT"})
               /\ t["m0"] = Sub(Add(Mul(k["Ac"], k[P]), Mul(k[P], Trans(k["Ac"]))), Mul(k[P], Trans(k["H"])))
               /\ t["m1"] = k["R"]
<1> DEFINE L == {"Ac", "H", "R", P, "m0", "AcT", "m1", "HT"}  W == {"m0", "AcT", "m1", "HT"}
           A == k["Ac"]  H == k["H"]  R == k["R"]  p == k[P]  Ap == Mul(A, p)  AT == Trans(A)
           pA == Mul(p, AT)  s == Add(Ap, pA)  G == Trans(H)  pG == Mul(p, G)  d == Sub(s, pG)
           k1 == Put(k, "m0", Ap)  k2 == Put(k1, "AcT", AT)  k3 == Put(k2, "m1", pA)
           k4 == Put(k3, "m0", s)  k5 == Put(k4, "HT", G)  k6 == Put(k5, "m1", pG)
           k7 == Put(k6, "m0", d)  k8 == Put(k7, "m1", R)
<1>1. L \in SUBSET Members /\ W \in SUBSET L
  BY DEF Members, Locals, LocalVs
<1>2. TypeOf("Ac") = Matrix /\ TypeOf("H") = Matrix /\ TypeOf("R") = Matrix
      /\ TypeOf(P) = Matrix /\ TypeOf("m0") = Matrix /\ TypeOf("AcT") = Matrix
      /\ TypeOf("m1") = Matrix /\ TypeOf("HT") = Matrix
  BY Types
<1>3. A \in Matrix /\ H \in Matrix /\ R \in Matrix /\ p \in Matrix
  BY <1>2 DEF Typed
<1>4. \A t : Mid(k, t, L, W) => t["Ac"] = A /\ t["H"] = H /\ t["R"] = R /\ t[P] = p
  BY <1>1 DEF Mid, Changes
<1>5. Mid(k, k, L, W)
  BY <1>1, MidStart
<1>6. "Ac" \in L /\ "H" \in L /\ "R" \in L /\ P \in L /\ "m0" \in L /\ "AcT" \in L
      /\ "m1" \in L /\ "HT" \in L /\ "m0" \in W /\ "AcT" \in W /\ "m1" \in W /\ "HT" \in W
  OBVIOUS
<1> HIDE DEF L, W, A, H, R, p, Ap, AT, pA, s, G, pG, d, k1, k2, k3, k4, k5, k6, k7, k8
<1>7. Ap \in Matrix
  BY <1>3, MatrixClosed DEF Ap
<1>8. Exec(St(k), matrixMult("Ac", P, "m0")) = St(k1) /\ Mid(k, k1, L, W)
  BY <1>1, <1>6, <1>5, <1>4, <1>7, <1>2, MultCall DEF k1, Ap
<1>9. Mid(k, k1, L, W) /\ k1["m0"] = Ap
  BY <1>1, <1>6, <1>5, <1>8, PutIs DEF k1
<1>10. AT \in Matrix
  BY <1>3, MatrixClosed DEF AT
<1>11. Exec(St(k1), matrixTrans("Ac", "AcT")) = St(k2) /\ Mid(k, k2, L, W)
  BY <1>1, <1>6, <1>9, <1>4, <1>10, <1>2, TransCall DEF k2, AT
<1>12. Mid(k, k2, L, W) /\ k2["m0"] = Ap /\ k2["AcT"] = AT
  BY <1>1, <1>6, <1>9, <1>11, PutIs DEF k2
<1>13. pA \in Matrix
  BY <1>3, <1>10, MatrixClosed DEF pA
<1>14. Exec(St(k2), matrixMult(P, "AcT", "m1")) = St(k3) /\ Mid(k, k3, L, W)
  BY <1>1, <1>6, <1>12, <1>4, <1>13, <1>2, MultCall DEF k3, pA
<1>15. Mid(k, k3, L, W) /\ k3["m0"] = Ap /\ k3["m1"] = pA
  BY <1>1, <1>6, <1>12, <1>14, PutIs DEF k3
<1>16. s \in Matrix
  BY <1>7, <1>13, MatrixClosed DEF s
<1>17. Exec(St(k3), matrixAdd("m0", "m1", "m0")) = St(k4) /\ Mid(k, k4, L, W)
  BY <1>1, <1>6, <1>15, <1>16, <1>2, AddCall DEF k4, s
<1>18. Mid(k, k4, L, W) /\ k4["m0"] = s
  BY <1>1, <1>6, <1>15, <1>17, PutIs DEF k4
<1>19. G \in Matrix
  BY <1>3, MatrixClosed DEF G
<1>20. Exec(St(k4), matrixTrans("H", "HT")) = St(k5) /\ Mid(k, k5, L, W)
  BY <1>1, <1>6, <1>18, <1>4, <1>19, <1>2, TransCall DEF k5, G
<1>21. Mid(k, k5, L, W) /\ k5["m0"] = s /\ k5["HT"] = G
  BY <1>1, <1>6, <1>18, <1>20, PutIs DEF k5
<1>22. pG \in Matrix
  BY <1>3, <1>19, MatrixClosed DEF pG
<1>23. Exec(St(k5), matrixMult(P, "HT", "m1")) = St(k6) /\ Mid(k, k6, L, W)
  BY <1>1, <1>6, <1>21, <1>4, <1>22, <1>2, MultCall DEF k6, pG
<1>24. Mid(k, k6, L, W) /\ k6["m0"] = s /\ k6["m1"] = pG
  BY <1>1, <1>6, <1>21, <1>23, PutIs DEF k6
<1>25. d \in Matrix
  BY <1>16, <1>22, MatrixClosed DEF d
<1>26. Exec(St(k6), matrixSub("m0", "m1", "m0")) = St(k7) /\ Mid(k, k7, L, W)
  BY <1>1, <1>6, <1>24, <1>25, <1>2, SubCall DEF k7, d
<1>27. Mid(k, k7, L, W) /\ k7["m0"] = d
  BY <1>1, <1>6, <1>24, <1>26, PutIs DEF k7
<1>28. Exec(St(k7), matrixCopy("R", "m1")) = St(k8) /\ Mid(k, k8, L, W)
  BY <1>1, <1>6, <1>27, <1>4, <1>3, <1>2, CopyCall DEF k8
<1>29. Mid(k, k8, L, W) /\ k8["m0"] = d /\ k8["m1"] = R
  BY <1>1, <1>6, <1>27, <1>28, PutIs DEF k8
<1>30. Leads(St(k), SlopeFirst(P), St(k8))
  <2> DEFINE body == SlopeFirst(P)  trace == <<St(k), St(k1), St(k2), St(k3), St(k4), St(k5), St(k6), St(k7), St(k8)>>
  <2>1. Len(body) = 8
        /\ body[1] = matrixMult("Ac", P, "m0")
        /\ body[2] = matrixTrans("Ac", "AcT")
        /\ body[3] = matrixMult(P, "AcT", "m1")
        /\ body[4] = matrixAdd("m0", "m1", "m0")
        /\ body[5] = matrixTrans("H", "HT")
        /\ body[6] = matrixMult(P, "HT", "m1")
        /\ body[7] = matrixSub("m0", "m1", "m0")
        /\ body[8] = matrixCopy("R", "m1")
    BY DEF SlopeFirst
  <2>2. trace[1] = St(k) /\ trace[2] = St(k1) /\ trace[3] = St(k2) /\ trace[4] = St(k3) /\ trace[5] = St(k4) /\ trace[6] = St(k5) /\ trace[7] = St(k6) /\ trace[8] = St(k7) /\ trace[9] = St(k8)
    OBVIOUS
  <2> HIDE DEF body, trace
  <2>3. /\ trace[1 + 1] = Exec(trace[1], body[1])
        /\ trace[2 + 1] = Exec(trace[2], body[2])
        /\ trace[3 + 1] = Exec(trace[3], body[3])
        /\ trace[4 + 1] = Exec(trace[4], body[4])
        /\ trace[5 + 1] = Exec(trace[5], body[5])
        /\ trace[6 + 1] = Exec(trace[6], body[6])
        /\ trace[7 + 1] = Exec(trace[7], body[7])
        /\ trace[8 + 1] = Exec(trace[8], body[8])
    BY <2>1, <2>2, <1>8, <1>11, <1>14, <1>17, <1>20, <1>23, <1>26, <1>28
  <2>4. \A i \in 1..8 : trace[i + 1] = Exec(trace[i], body[i])
    BY <2>3
  <2>5. Leads(St(k), body, St(k8))
    BY <2>1, <2>2, <2>4 DEF Leads
  <2> QED BY <2>5 DEF body
<1> QED BY <1>30, <1>29 DEF Mid, W, A, H, R, p, Ap, AT, pA, s, G, pG, d

\* The second half.
LEMMA SlopeLastRun ==
  ASSUME NEW P \in {"P", "tmpm"},
         NEW Pdot \in {"tmpm", "tmp2m"},
         P # Pdot,
         NEW k, Typed(k, {"m0", "m1", P, "H", "Q", "m2", Pdot})
  PROVE  \E t : /\ Leads(St(k), SlopeLast(P, Pdot), St(t))
               /\ Changes(k, t, {"m2", "m1", "m0", Pdot})
               /\ t[Pdot] = Add(Mul(Mul(k["m0"], k["m1"]), Mul(k[P], k["H"])), k["Q"])
<1> DEFINE L == {"m0", "m1", P, "H", "Q", "m2", Pdot}  W == {"m2", "m1", "m0", Pdot}
           d == k["m0"]  V == k["m1"]  p == k[P]  H == k["H"]  Q == k["Q"]  dV == Mul(d, V)
           pH == Mul(p, H)  g == Mul(dV, pH)  pd == Add(g, Q)  k1 == Put(k, "m2", dV)
           k2 == Put(k1, "m1", pH)  k3 == Put(k2, "m0", g)  k4 == Put(k3, Pdot, pd)
<1>1. L \in SUBSET Members /\ W \in SUBSET L
  BY DEF Members, Locals, LocalVs
<1>2. TypeOf("m0") = Matrix /\ TypeOf("m1") = Matrix /\ TypeOf(P) = Matrix
      /\ TypeOf("H") = Matrix /\ TypeOf("Q") = Matrix /\ TypeOf("m2") = Matrix
      /\ TypeOf(Pdot) = Matrix
  BY Types
<1>3. d \in Matrix /\ V \in Matrix /\ p \in Matrix /\ H \in Matrix /\ Q \in Matrix
  BY <1>2 DEF Typed
<1>4. \A t : Mid(k, t, L, W) => t[P] = p /\ t["H"] = H /\ t["Q"] = Q
  BY <1>1 DEF Mid, Changes
<1>5. Mid(k, k, L, W)
  BY <1>1, MidStart
<1>6. "m0" \in L /\ "m1" \in L /\ P \in L /\ "H" \in L /\ "Q" \in L /\ "m2" \in L
      /\ Pdot \in L /\ "m2" \in W /\ "m1" \in W /\ "m0" \in W /\ Pdot \in W
  OBVIOUS
<1> HIDE DEF L, W, d, V, p, H, Q, dV, pH, g, pd, k1, k2, k3, k4
<1>7. dV \in Matrix
  BY <1>3, MatrixClosed DEF dV
<1>8. Exec(St(k), matrixMult("m0", "m1", "m2")) = St(k1) /\ Mid(k, k1, L, W)
  BY <1>1, <1>6, <1>5, <1>7, <1>2, MultCall DEF k1, dV, d, V
<1>9. Mid(k, k1, L, W) /\ k1["m2"] = dV
  BY <1>1, <1>6, <1>5, <1>8, PutIs DEF k1, d, V
<1>10. pH \in Matrix
  BY <1>3, MatrixClosed DEF pH
<1>11. Exec(St(k1), matrixMult(P, "H", "m1")) = St(k2) /\ Mid(k, k2, L, W)
  BY <1>1, <1>6, <1>9, <1>4, <1>10, <1>2, MultCall DEF k2, pH
<1>12. Mid(k, k2, L, W) /\ k2["m2"] = dV /\ k2["m1"] = pH
  BY <1>1, <1>6, <1>9, <1>11, PutIs DEF k2
<1>13. g \in Matrix
  BY <1>7, <1>10, MatrixClosed DEF g
<1>14. Exec(St(k2), matrixMult("m2", "m1", "m0")) = St(k3) /\ Mid(k, k3, L, W)
  BY <1>1, <1>6, <1>12, <1>13, <1>2, MultCall DEF k3, g
<1>15. Mid(k, k3, L, W) /\ k3["m0"] = g
  BY <1>1, <1>6, <1>12, <1>14, PutIs DEF k3
<1>16. pd \in Matrix
  BY <1>3, <1>13, MatrixClosed DEF pd
<1>17. Exec(St(k3), matrixAdd("m0", "Q", Pdot)) = St(k4) /\ Mid(k, k4, L, W)
  BY <1>1, <1>6, <1>15, <1>4, <1>16, <1>2, AddCall DEF k4, pd
<1>18. Mid(k, k4, L, W) /\ k4[Pdot] = pd
  BY <1>1, <1>6, <1>15, <1>17, PutIs DEF k4
<1>19. Leads(St(k), SlopeLast(P, Pdot), St(k4))
  <2> DEFINE body == SlopeLast(P, Pdot)  trace == <<St(k), St(k1), St(k2), St(k3), St(k4)>>
  <2>1. Len(body) = 4
        /\ body[1] = matrixMult("m0", "m1", "m2")
        /\ body[2] = matrixMult(P, "H", "m1")
        /\ body[3] = matrixMult("m2", "m1", "m0")
        /\ body[4] = matrixAdd("m0", "Q", Pdot)
    BY DEF SlopeLast
  <2>2. trace[1] = St(k) /\ trace[2] = St(k1) /\ trace[3] = St(k2) /\ trace[4] = St(k3) /\ trace[5] = St(k4)
    OBVIOUS
  <2> HIDE DEF body, trace
  <2>3. /\ trace[1 + 1] = Exec(trace[1], body[1])
        /\ trace[2 + 1] = Exec(trace[2], body[2])
        /\ trace[3 + 1] = Exec(trace[3], body[3])
        /\ trace[4 + 1] = Exec(trace[4], body[4])
    BY <2>1, <2>2, <1>8, <1>11, <1>14, <1>17
  <2>4. \A i \in 1..4 : trace[i + 1] = Exec(trace[i], body[i])
    BY <2>3
  <2>5. Leads(St(k), body, St(k4))
    BY <2>1, <2>2, <2>4 DEF Leads
  <2> QED BY <2>5 DEF body
<1> QED BY <1>19, <1>18 DEF Mid, W, d, V, p, H, Q, dV, pH, g, pd
\* The slope of the state.
LEMMA XmodelRun ==
  ASSUME NEW x \in {"xk", "tmpx"},
         NEW Xdot \in {"tmpx", "tmp2x"},
         x # Xdot,
         NEW k, Typed(k, {"model", x, "u", "H", "z", "k", "v0", "v1", "v2", Xdot})
  PROVE  \E t : /\ Leads(St(k), xmodel(x, Xdot), St(t))
               /\ Changes(k, t, {"v0", "v1", "v2", Xdot})
               /\ t[Xdot] = Add(ModelOf(k["model"], k[x], k["u"]), Mul(k["k"], Sub(k["z"], Mul(k["H"], k[x]))))
<1> DEFINE L == {"model", x, "u", "H", "z", "k", "v0", "v1", "v2", Xdot}
           W == {"v0", "v1", "v2", Xdot}  m == k["model"]  y == k[x]  u == k["u"]  H == k["H"]
           z == k["z"]  K == k["k"]  f == ModelOf(m, y, u)  Hy == Mul(H, y)  e == Sub(z, Hy)
           Ke == Mul(K, e)  xd == Add(f, Ke)  k1 == Put(k, "v0", f)  k2 == Put(k1, "v1", Hy)
           k3 == Put(k2, "v1", e)  k4 == Put(k3, "v2", Ke)  k5 == Put(k4, Xdot, xd)
<1>1. L \in SUBSET Members /\ W \in SUBSET L
  BY DEF Members, Locals, LocalVs
<1>2. TypeOf("model") = SecondDegree /\ TypeOf(x) = Vector /\ TypeOf("u") = Single
      /\ TypeOf("H") = Matrix /\ TypeOf("z") = Vector /\ TypeOf("k") = Matrix
      /\ TypeOf("v0") = Vector /\ TypeOf("v1") = Vector /\ TypeOf("v2") = Vector
      /\ TypeOf(Xdot) = Vector
  BY Types
<1>3. m \in SecondDegree /\ y \in Vector /\ u \in Single /\ H \in Matrix /\ z \in Vector
      /\ K \in Matrix
  BY <1>2 DEF Typed
<1>4. \A t : Mid(k, t, L, W) => t["model"] = m /\ t[x] = y /\ t["u"] = u /\ t["H"] = H
      /\ t["z"] = z /\ t["k"] = K
  BY <1>1 DEF Mid, Changes
<1>5. Mid(k, k, L, W)
  BY <1>1, MidStart
<1>6. "model" \in L /\ x \in L /\ "u" \in L /\ "H" \in L /\ "z" \in L /\ "k" \in L
      /\ "v0" \in L /\ "v1" \in L /\ "v2" \in L /\ Xdot \in L /\ "v0" \in W /\ "v1" \in W
      /\ "v2" \in W /\ Xdot \in W
  OBVIOUS
<1> HIDE DEF L, W, m, y, u, H, z, K, f, Hy, e, Ke, xd, k1, k2, k3, k4, k5
<1>7. f \in Vector
  BY <1>3, ModelVector DEF f
<1>8. Exec(St(k), callModel(x, "u", "v0")) = St(k1) /\ Mid(k, k1, L, W)
  BY <1>1, <1>6, <1>5, <1>4, <1>7, <1>2, ModelCall DEF k1, f
<1>9. Mid(k, k1, L, W) /\ k1["v0"] = f
  BY <1>1, <1>6, <1>5, <1>8, PutIs DEF k1
<1>10. Hy \in Vector
  BY <1>3, VectorClosed DEF Hy
<1>11. Exec(St(k1), matrixMult("H", x, "v1")) = St(k2) /\ Mid(k, k2, L, W)
  BY <1>1, <1>6, <1>9, <1>4, <1>10, <1>2, MultCall DEF k2, Hy
<1>12. Mid(k, k2, L, W) /\ k2["v0"] = f /\ k2["v1"] = Hy
  BY <1>1, <1>6, <1>9, <1>11, PutIs DEF k2
<1>13. e \in Vector
  BY <1>3, <1>10, VectorClosed DEF e
<1>14. Exec(St(k2), matrixSub("z", "v1", "v1")) = St(k3) /\ Mid(k, k3, L, W)
  BY <1>1, <1>6, <1>12, <1>4, <1>13, <1>2, SubCall DEF k3, e
<1>15. Mid(k, k3, L, W) /\ k3["v0"] = f /\ k3["v1"] = e
  BY <1>1, <1>6, <1>12, <1>14, PutIs DEF k3
<1>16. Ke \in Vector
  BY <1>3, <1>13, VectorClosed DEF Ke
<1>17. Exec(St(k3), matrixMult("k", "v1", "v2")) = St(k4) /\ Mid(k, k4, L, W)
  BY <1>1, <1>6, <1>15, <1>4, <1>16, <1>2, MultCall DEF k4, Ke
<1>18. Mid(k, k4, L, W) /\ k4["v0"] = f /\ k4["v2"] = Ke
  BY <1>1, <1>6, <1>15, <1>17, PutIs DEF k4
<1>19. xd \in Vector
  BY <1>7, <1>16, VectorClosed DEF xd
<1>20. Exec(St(k4), matrixAdd("v0", "v2", Xdot)) = St(k5) /\ Mid(k, k5, L, W)
  BY <1>1, <1>6, <1>18, <1>19, <1>2, AddCall DEF k5, xd
<1>21. Mid(k, k5, L, W) /\ k5[Xdot] = xd
  BY <1>1, <1>6, <1>18, <1>20, PutIs DEF k5
<1>22. Leads(St(k), xmodel(x, Xdot), St(k5))
  <2> DEFINE body == xmodel(x, Xdot)  trace == <<St(k), St(k1), St(k2), St(k3), St(k4), St(k5)>>
  <2>1. Len(body) = 5
        /\ body[1] = callModel(x, "u", "v0")
        /\ body[2] = matrixMult("H", x, "v1")
        /\ body[3] = matrixSub("z", "v1", "v1")
        /\ body[4] = matrixMult("k", "v1", "v2")
        /\ body[5] = matrixAdd("v0", "v2", Xdot)
    BY DEF xmodel
  <2>2. trace[1] = St(k) /\ trace[2] = St(k1) /\ trace[3] = St(k2) /\ trace[4] = St(k3) /\ trace[5] = St(k4) /\ trace[6] = St(k5)
    OBVIOUS
  <2> HIDE DEF body, trace
  <2>3. /\ trace[1 + 1] = Exec(trace[1], body[1])
        /\ trace[2 + 1] = Exec(trace[2], body[2])
        /\ trace[3 + 1] = Exec(trace[3], body[3])
        /\ trace[4 + 1] = Exec(trace[4], body[4])
        /\ trace[5 + 1] = Exec(trace[5], body[5])
    BY <2>1, <2>2, <1>8, <1>11, <1>14, <1>17, <1>20
  <2>4. \A i \in 1..5 : trace[i + 1] = Exec(trace[i], body[i])
    BY <2>3
  <2>5. Leads(St(k), body, St(k5))
    BY <2>1, <2>2, <2>4 DEF Leads
  <2> QED BY <2>5 DEF body
<1> QED BY <1>22, <1>21 DEF Mid, W, m, y, u, H, z, K, f, Hy, e, Ke, xd

\* The gain of a continuous filter from the inverse.
LEMMA ContinuousGainRun ==
  ASSUME NEW k, Typed(k, {"H", "P", "m0", "HT", "m1", "k"})
  PROVE  \E t : /\ Leads(St(k), ContinuousGainLast, St(t))
               /\ Changes(k, t, {"HT", "m1", "k"})
               /\ t["k"] = Mul(Mul(k["P"], Trans(k["H"])), k["m0"])
<1> DEFINE L == {"H", "P", "m0", "HT", "m1", "k"}  W == {"HT", "m1", "k"}  H == k["H"]
           P == k["P"]  V == k["m0"]  G == Trans(H)  PG == Mul(P, G)  K == Mul(PG, V)
           k1 == Put(k, "HT", G)  k2 == Put(k1, "m1", PG)  k3 == Put(k2, "k", K)
<1>1. L \in SUBSET Members /\ W \in SUBSET L
  BY DEF Members, Locals, LocalVs
<1>2. TypeOf("H") = Matrix /\ TypeOf("P") = Matrix /\ TypeOf("m0") = Matrix
      /\ TypeOf("HT") = Matrix /\ TypeOf("m1") = Matrix /\ TypeOf("k") = Matrix
  BY Types
<1>3. H \in Matrix /\ P \in Matrix /\ V \in Matrix
  BY <1>2 DEF Typed
<1>4. \A t : Mid(k, t, L, W) => t["H"] = H /\ t["P"] = P /\ t["m0"] = V
  BY <1>1 DEF Mid, Changes
<1>5. Mid(k, k, L, W)
  BY <1>1, MidStart
<1>6. "H" \in L /\ "P" \in L /\ "m0" \in L /\ "HT" \in L /\ "m1" \in L /\ "k" \in L
      /\ "HT" \in W /\ "m1" \in W /\ "k" \in W
  OBVIOUS
<1> HIDE DEF L, W, H, P, V, G, PG, K, k1, k2, k3
<1>7. G \in Matrix
  BY <1>3, MatrixClosed DEF G
<1>8. Exec(St(k), matrixTrans("H", "HT")) = St(k1) /\ Mid(k, k1, L, W)
  BY <1>1, <1>6, <1>5, <1>4, <1>7, <1>2, TransCall DEF k1, G
<1>9. Mid(k, k1, L, W) /\ k1["HT"] = G
  BY <1>1, <1>6, <1>5, <1>8, PutIs DEF k1
<1>10. PG \in Matrix
  BY <1>3, <1>7, MatrixClosed DEF PG
<1>11. Exec(St(k1), matrixMult("P", "HT", "m1")) = St(k2) /\ Mid(k, k2, L, W)
  BY <1>1, <1>6, <1>9, <1>4, <1>10, <1>2, MultCall DEF k2, PG
<1>12. Mid(k, k2, L, W) /\ k2["m1"] = PG
  BY <1>1, <1>6, <1>9, <1>11, PutIs DEF k2
<1>13. K \in Matrix
  BY <1>3, <1>10, MatrixClosed DEF K
<1>14. Exec(St(k2), matrixMult("m1", "m0", "k")) = St(k3) /\ Mid(k, k3, L, W)
  BY <1>1, <1>6, <1>12, <1>4, <1>13, <1>2, MultCall DEF k3, K
<1>15. Mid(k, k3, L, W) /\ k3["k"] = K
  BY <1>1, <1>6, <1>12, <1>14, PutIs DEF k3
<1>16. Leads(St(k), ContinuousGainLast, St(k3))
  <2> DEFINE body == ContinuousGainLast  trace == <<St(k), St(k1), St(k2), St(k3)>>
  <2>1. Len(body) = 3
        /\ body[1] = matrixTrans("H", "HT")
        /\ body[2] = matrixMult("P", "HT", "m1")
        /\ body[3] = matrixMult("m1", "m0", "k")
    BY DEF ContinuousGainLast
  <2>2. trace[1] = St(k) /\ trace[2] = St(k1) /\ trace[3] = St(k2) /\ trace[4] = St(k3)
    OBVIOUS
  <2> HIDE DEF body, trace
  <2>3. /\ trace[1 + 1] = Exec(trace[1], body[1])
        /\ trace[2 + 1] = Exec(trace[2], body[2])
        /\ trace[3 + 1] = Exec(trace[3], body[3])
    BY <2>1, <2>2, <1>8, <1>11, <1>14
  <2>4. \A i \in 1..3 : trace[i + 1] = Exec(trace[i], body[i])
    BY <2>3
  <2>5. Leads(St(k), body, St(k3))
    BY <2>1, <2>2, <2>4 DEF Leads
  <2> QED BY <2>5 DEF body
<1> QED BY <1>16, <1>15 DEF Mid, W, H, P, V, G, PG, K

\* What it inverts.
LEMMA CopyNoiseRun ==
  ASSUME NEW k, Typed(k, {"R", "m0"})
  PROVE  \E t : /\ Leads(St(k), ContinuousGainFirst, St(t))
               /\ Changes(k, t, {"m0"})
               /\ t["m0"] = k["R"]
<1> DEFINE L == {"R", "m0"}  W == {"m0"}  R == k["R"]  k1 == Put(k, "m0", R)
<1>1. L \in SUBSET Members /\ W \in SUBSET L
  BY DEF Members, Locals, LocalVs
<1>2. TypeOf("R") = Matrix /\ TypeOf("m0") = Matrix
  BY Types
<1>3. R \in Matrix
  BY <1>2 DEF Typed
<1>4. \A t : Mid(k, t, L, W) => t["R"] = R
  BY <1>1 DEF Mid, Changes
<1>5. Mid(k, k, L, W)
  BY <1>1, MidStart
<1>6. "R" \in L /\ "m0" \in L /\ "m0" \in W
  OBVIOUS
<1> HIDE DEF L, W, R, k1
<1>7. Exec(St(k), matrixCopy("R", "m0")) = St(k1) /\ Mid(k, k1, L, W)
  BY <1>1, <1>6, <1>5, <1>4, <1>3, <1>2, CopyCall DEF k1
<1>8. Mid(k, k1, L, W) /\ k1["m0"] = R
  BY <1>1, <1>6, <1>5, <1>7, PutIs DEF k1
<1>9. Leads(St(k), ContinuousGainFirst, St(k1))
  <2> DEFINE body == ContinuousGainFirst  trace == <<St(k), St(k1)>>
  <2>1. Len(body) = 1
        /\ body[1] = matrixCopy("R", "m0")
    BY DEF ContinuousGainFirst
  <2>2. trace[1] = St(k) /\ trace[2] = St(k1)
    OBVIOUS
  <2> HIDE DEF body, trace
  <2>3. /\ trace[1 + 1] = Exec(trace[1], body[1])
    BY <2>1, <2>2, <1>7
  <2>4. \A i \in 1..1 : trace[i + 1] = Exec(trace[i], body[i])
    BY <2>3
  <2>5. Leads(St(k), body, St(k1))
    BY <2>1, <2>2, <2>4 DEF Leads
  <2> QED BY <2>5 DEF body
<1> QED BY <1>9, <1>8 DEF Mid, W, R
\* C2D fills Ad and Bd.
LEMMA C2DRun ==
  ASSUME NEW k, Typed(k, {"Ac", "eye", "Bc", "m0", "m1", "m2", "Ad", "b0", "b1", "Bd"})
  PROVE  \E t : /\ Leads(St(k), C2D, St(t))
               /\ Changes(k, t, {"m0", "m1", "m2", "Ad", "b0", "b1", "Bd"})
               /\ t["Ad"] = Add(k["eye"], Add(Add(MulS(k["Ac"], dt), MulS(Mul(k["Ac"], k["Ac"]), dt * dt * Recip(2))),
                                             MulS(Mul(Mul(k["Ac"], k["Ac"]), k["Ac"]), dt * dt * dt * Recip(6))))
               /\ t["Bd"] = Add(Add(MulS(k["Bc"], dt), MulS(Mul(k["Ac"], k["Bc"]), dt * dt * Recip(2))),
                           Mul(MulS(Mul(k["Ac"], k["Ac"]), dt * dt * dt * Recip(6)), k["Bc"]))
<1> DEFINE L == {"Ac", "eye", "Bc", "m0", "m1", "m2", "Ad", "b0", "b1", "Bd"}
           W == {"m0", "m1", "m2", "Ad", "b0", "b1", "Bd"}  A == k["Ac"]  E == k["eye"]
           b == k["Bc"]  a1 == MulS(A, dt)  A2 == Mul(A, A)  A3 == Mul(A2, A)
           a2 == MulS(A2, dt * dt * Recip(2))  s2 == Add(a1, a2)
           a3 == MulS(A3, dt * dt * dt * Recip(6))  s3 == Add(s2, a3)  ad == Add(E, s3)
           c1 == MulS(b, dt)  AB == Mul(A, b)  c2 == MulS(AB, dt * dt * Recip(2))
           s == Add(c1, c2)  B2 == Mul(A, A)  a4 == MulS(B2, dt * dt * dt * Recip(6))
           c3 == Mul(a4, b)  bd == Add(s, c3)  k1 == Put(k, "m0", a1)  k2 == Put(k1, "m1", A2)
           k3 == Put(k2, "m2", A3)  k4 == Put(k3, "m1", a2)  k5 == Put(k4, "m0", s2)
           k6 == Put(k5, "m2", a3)  k7 == Put(k6, "m0", s3)  k8 == Put(k7, "Ad", ad)
           k9 == Put(k8, "b0", c1)  k10 == Put(k9, "b1", AB)  k11 == Put(k10, "b1", c2)
           k12 == Put(k11, "b0", s)  k13 == Put(k12, "m0", B2)  k14 == Put(k13, "m0", a4)
           k15 == Put(k14, "b1", c3)  k16 == Put(k15, "Bd", bd)
<1>1. L \in SUBSET Members /\ W \in SUBSET L
  BY DEF Members, Locals, LocalVs
<1>2. TypeOf("Ac") = Matrix /\ TypeOf("eye") = Matrix /\ TypeOf("Bc") = Vector
      /\ TypeOf("m0") = Matrix /\ TypeOf("m1") = Matrix /\ TypeOf("m2") = Matrix
      /\ TypeOf("Ad") = Matrix /\ TypeOf("b0") = Vector /\ TypeOf("b1") = Vector
      /\ TypeOf("Bd") = Vector
  BY Types
<1>3. A \in Matrix /\ E \in Matrix /\ b \in Vector
  BY <1>2 DEF Typed
<1>4. \A t : Mid(k, t, L, W) => t["Ac"] = A /\ t["eye"] = E /\ t["Bc"] = b
  BY <1>1 DEF Mid, Changes
<1>5. dt \in Int /\ dt * dt * Recip(2) \in Int /\ dt * dt * dt * Recip(6) \in Int
  BY StepInt, HalfAndSixth
<1>6. Mid(k, k, L, W)
  BY <1>1, MidStart
<1>7. "Ac" \in L /\ "eye" \in L /\ "Bc" \in L /\ "m0" \in L /\ "m1" \in L /\ "m2" \in L
      /\ "Ad" \in L /\ "b0" \in L /\ "b1" \in L /\ "Bd" \in L /\ "m0" \in W /\ "m1" \in W
      /\ "m2" \in W /\ "Ad" \in W /\ "b0" \in W /\ "b1" \in W /\ "Bd" \in W
  OBVIOUS
<1> HIDE DEF L, W, A, E, b, a1, A2, A3, a2, s2, a3, s3, ad, c1, AB, c2, s, B2, a4, c3, bd, k1,
            k2, k3, k4, k5, k6, k7, k8, k9, k10, k11, k12, k13, k14, k15, k16
<1>8. a1 \in Matrix
  BY <1>3, <1>5, MatrixClosed DEF a1
<1>9. Exec(St(k), matrixMultS("Ac", dt, "m0")) = St(k1) /\ Mid(k, k1, L, W)
  BY <1>1, <1>7, <1>6, <1>4, <1>8, <1>2, ScaleCall DEF k1, a1
<1>10. Mid(k, k1, L, W) /\ k1["m0"] = a1
  BY <1>1, <1>7, <1>6, <1>9, PutIs DEF k1
<1>11. A2 \in Matrix
  BY <1>3, MatrixClosed DEF A2
<1>12. Exec(St(k1), matrixMult("Ac", "Ac", "m1")) = St(k2) /\ Mid(k, k2, L, W)
  BY <1>1, <1>7, <1>10, <1>4, <1>11, <1>2, MultCall DEF k2, A2
<1>13. Mid(k, k2, L, W) /\ k2["m0"] = a1 /\ k2["m1"] = A2
  BY <1>1, <1>7, <1>10, <1>12, PutIs DEF k2
<1>14. A3 \in Matrix
  BY <1>3, <1>11, MatrixClosed DEF A3
<1>15. Exec(St(k2), matrixMult("m1", "Ac", "m2")) = St(k3) /\ Mid(k, k3, L, W)
  BY <1>1, <1>7, <1>13, <1>4, <1>14, <1>2, MultCall DEF k3, A3
<1>16. Mid(k, k3, L, W) /\ k3["m0"] = a1 /\ k3["m1"] = A2 /\ k3["m2"] = A3
  BY <1>1, <1>7, <1>13, <1>15, PutIs DEF k3
<1>17. a2 \in Matrix
  BY <1>11, <1>5, MatrixClosed DEF a2
<1>18. Exec(St(k3), matrixMultS("m1", dt * dt * Recip(2), "m1")) = St(k4) /\ Mid(k, k4, L, W)
  BY <1>1, <1>7, <1>16, <1>17, <1>2, ScaleCall DEF k4, a2
<1>19. Mid(k, k4, L, W) /\ k4["m0"] = a1 /\ k4["m1"] = a2 /\ k4["m2"] = A3
  BY <1>1, <1>7, <1>16, <1>18, PutIs DEF k4
<1>20. s2 \in Matrix
  BY <1>8, <1>17, MatrixClosed DEF s2
<1>21. Exec(St(k4), matrixAdd("m0", "m1", "m0")) = St(k5) /\ Mid(k, k5, L, W)
  BY <1>1, <1>7, <1>19, <1>20, <1>2, AddCall DEF k5, s2
<1>22. Mid(k, k5, L, W) /\ k5["m0"] = s2 /\ k5["m2"] = A3
  BY <1>1, <1>7, <1>19, <1>21, PutIs DEF k5
<1>23. a3 \in Matrix
  BY <1>14, <1>5, MatrixClosed DEF a3
<1>24. Exec(St(k5), matrixMultS("m2", dt * dt * dt * Recip(6), "m2")) = St(k6)
      /\ Mid(k, k6, L, W)
  BY <1>1, <1>7, <1>22, <1>23, <1>2, ScaleCall DEF k6, a3
<1>25. Mid(k, k6, L, W) /\ k6["m0"] = s2 /\ k6["m2"] = a3
  BY <1>1, <1>7, <1>22, <1>24, PutIs DEF k6
<1>26. s3 \in Matrix
  BY <1>20, <1>23, MatrixClosed DEF s3
<1>27. Exec(St(k6), matrixAdd("m0", "m2", "m0")) = St(k7) /\ Mid(k, k7, L, W)
  BY <1>1, <1>7, <1>25, <1>26, <1>2, AddCall DEF k7, s3
<1>28. Mid(k, k7, L, W) /\ k7["m0"] = s3
  BY <1>1, <1>7, <1>25, <1>27, PutIs DEF k7
<1>29. ad \in Matrix
  BY <1>3, <1>26, MatrixClosed DEF ad
<1>30. Exec(St(k7), matrixAdd("eye", "m0", "Ad")) = St(k8) /\ Mid(k, k8, L, W)
  BY <1>1, <1>7, <1>28, <1>4, <1>29, <1>2, AddCall DEF k8, ad
<1>31. Mid(k, k8, L, W) /\ k8["Ad"] = ad
  BY <1>1, <1>7, <1>28, <1>30, PutIs DEF k8
<1>32. c1 \in Vector
  BY <1>3, <1>5, VectorClosed DEF c1
<1>33. Exec(St(k8), matrixMultS("Bc", dt, "b0")) = St(k9) /\ Mid(k, k9, L, W)
  BY <1>1, <1>7, <1>31, <1>4, <1>32, <1>2, ScaleCall DEF k9, c1
<1>34. Mid(k, k9, L, W) /\ k9["Ad"] = ad /\ k9["b0"] = c1
  BY <1>1, <1>7, <1>31, <1>33, PutIs DEF k9
<1>35. AB \in Vector
  BY <1>3, VectorClosed DEF AB
<1>36. Exec(St(k9), matrixMult("Ac", "Bc", "b1")) = St(k10) /\ Mid(k, k10, L, W)
  BY <1>1, <1>7, <1>34, <1>4, <1>35, <1>2, MultCall DEF k10, AB
<1>37. Mid(k, k10, L, W) /\ k10["Ad"] = ad /\ k10["b0"] = c1 /\ k10["b1"] = AB
  BY <1>1, <1>7, <1>34, <1>36, PutIs DEF k10
<1>38. c2 \in Vector
  BY <1>35, <1>5, VectorClosed DEF c2
<1>39. Exec(St(k10), matrixMultS("b1", dt * dt * Recip(2), "b1")) = St(k11) /\ Mid(k, k11, L, W)
  BY <1>1, <1>7, <1>37, <1>38, <1>2, ScaleCall DEF k11, c2
<1>40. Mid(k, k11, L, W) /\ k11["Ad"] = ad /\ k11["b0"] = c1 /\ k11["b1"] = c2
  BY <1>1, <1>7, <1>37, <1>39, PutIs DEF k11
<1>41. s \in Vector
  BY <1>32, <1>38, VectorClosed DEF s
<1>42. Exec(St(k11), matrixAdd("b0", "b1", "b0")) = St(k12) /\ Mid(k, k12, L, W)
  BY <1>1, <1>7, <1>40, <1>41, <1>2, AddCall DEF k12, s
<1>43. Mid(k, k12, L, W) /\ k12["Ad"] = ad /\ k12["b0"] = s
  BY <1>1, <1>7, <1>40, <1>42, PutIs DEF k12
<1>44. B2 \in Matrix
  BY <1>3, MatrixClosed DEF B2
<1>45. Exec(St(k12), matrixMult("Ac", "Ac", "m0")) = St(k13) /\ Mid(k, k13, L, W)
  BY <1>1, <1>7, <1>43, <1>4, <1>44, <1>2, MultCall DEF k13, B2
<1>46. Mid(k, k13, L, W) /\ k13["m0"] = B2 /\ k13["Ad"] = ad /\ k13["b0"] = s
  BY <1>1, <1>7, <1>43, <1>45, PutIs DEF k13
<1>47. a4 \in Matrix
  BY <1>44, <1>5, MatrixClosed DEF a4
<1>48. Exec(St(k13), matrixMultS("m0", dt * dt * dt * Recip(6), "m0")) = St(k14)
      /\ Mid(k, k14, L, W)
  BY <1>1, <1>7, <1>46, <1>47, <1>2, ScaleCall DEF k14, a4
<1>49. Mid(k, k14, L, W) /\ k14["m0"] = a4 /\ k14["Ad"] = ad /\ k14["b0"] = s
  BY <1>1, <1>7, <1>46, <1>48, PutIs DEF k14
<1>50. c3 \in Vector
  BY <1>3, <1>47, VectorClosed DEF c3
<1>51. Exec(St(k14), matrixMult("m0", "Bc", "b1")) = St(k15) /\ Mid(k, k15, L, W)
  BY <1>1, <1>7, <1>49, <1>4, <1>50, <1>2, MultCall DEF k15, c3
<1>52. Mid(k, k15, L, W) /\ k15["Ad"] = ad /\ k15["b0"] = s /\ k15["b1"] = c3
  BY <1>1, <1>7, <1>49, <1>51, PutIs DEF k15
<1>53. bd \in Vector
  BY <1>41, <1>50, VectorClosed DEF bd
<1>54. Exec(St(k15), matrixAdd("b0", "b1", "Bd")) = St(k16) /\ Mid(k, k16, L, W)
  BY <1>1, <1>7, <1>52, <1>53, <1>2, AddCall DEF k16, bd
<1>55. Mid(k, k16, L, W) /\ k16["Ad"] = ad /\ k16["Bd"] = bd
  BY <1>1, <1>7, <1>52, <1>54, PutIs DEF k16
<1>56. Leads(St(k), C2D, St(k16))
  <2> DEFINE body == C2D  trace == <<St(k), St(k1), St(k2), St(k3), St(k4), St(k5), St(k6), St(k7), St(k8), St(k9), St(k10), St(k11), St(k12), St(k13), St(k14), St(k15), St(k16)>>
  <2>1. Len(body) = 16
        /\ body[1] = matrixMultS("Ac", dt, "m0")
        /\ body[2] = matrixMult("Ac", "Ac", "m1")
        /\ body[3] = matrixMult("m1", "Ac", "m2")
        /\ body[4] = matrixMultS("m1", dt * dt * Recip(2), "m1")
        /\ body[5] = matrixAdd("m0", "m1", "m0")
        /\ body[6] = matrixMultS("m2", dt * dt * dt * Recip(6), "m2")
        /\ body[7] = matrixAdd("m0", "m2", "m0")
        /\ body[8] = matrixAdd("eye", "m0", "Ad")
        /\ body[9] = matrixMultS("Bc", dt, "b0")
        /\ body[10] = matrixMult("Ac", "Bc", "b1")
        /\ body[11] = matrixMultS("b1", dt * dt * Recip(2), "b1")
        /\ body[12] = matrixAdd("b0", "b1", "b0")
        /\ body[13] = matrixMult("Ac", "Ac", "m0")
        /\ body[14] = matrixMultS("m0", dt * dt * dt * Recip(6), "m0")
        /\ body[15] = matrixMult("m0", "Bc", "b1")
        /\ body[16] = matrixAdd("b0", "b1", "Bd")
    BY DEF C2D
  <2>2. trace[1] = St(k) /\ trace[2] = St(k1) /\ trace[3] = St(k2) /\ trace[4] = St(k3) /\ trace[5] = St(k4) /\ trace[6] = St(k5) /\ trace[7] = St(k6) /\ trace[8] = St(k7) /\ trace[9] = St(k8) /\ trace[10] = St(k9) /\ trace[11] = St(k10) /\ trace[12] = St(k11) /\ trace[13] = St(k12) /\ trace[14] = St(k13) /\ trace[15] = St(k14) /\ trace[16] = St(k15) /\ trace[17] = St(k16)
    OBVIOUS
  <2> HIDE DEF body, trace
  <2>3. /\ trace[1 + 1] = Exec(trace[1], body[1])
        /\ trace[2 + 1] = Exec(trace[2], body[2])
        /\ trace[3 + 1] = Exec(trace[3], body[3])
        /\ trace[4 + 1] = Exec(trace[4], body[4])
        /\ trace[5 + 1] = Exec(trace[5], body[5])
        /\ trace[6 + 1] = Exec(trace[6], body[6])
        /\ trace[7 + 1] = Exec(trace[7], body[7])
        /\ trace[8 + 1] = Exec(trace[8], body[8])
        /\ trace[9 + 1] = Exec(trace[9], body[9])
        /\ trace[10 + 1] = Exec(trace[10], body[10])
        /\ trace[11 + 1] = Exec(trace[11], body[11])
        /\ trace[12 + 1] = Exec(trace[12], body[12])
        /\ trace[13 + 1] = Exec(trace[13], body[13])
        /\ trace[14 + 1] = Exec(trace[14], body[14])
        /\ trace[15 + 1] = Exec(trace[15], body[15])
        /\ trace[16 + 1] = Exec(trace[16], body[16])
    BY <2>1, <2>2, <1>9, <1>12, <1>15, <1>18, <1>21, <1>24, <1>27, <1>30, <1>33, <1>36, <1>39, <1>42, <1>45, <1>48, <1>51, <1>54
  <2>4. \A i \in 1..16 : trace[i + 1] = Exec(trace[i], body[i])
    BY <2>3
  <2>5. Leads(St(k), body, St(k16))
    BY <2>1, <2>2, <2>4 DEF Leads
  <2> QED BY <2>5 DEF body
<1> QED BY <1>56, <1>55 DEF Mid, W, A, E, b, a1, A2, A3, a2, s2, a3, s3, ad, c1, AB, c2, s, B2, a4, c3, bd

\* The steps of int_P between two slopes.
LEMMA FirstStepP ==
  ASSUME NEW k, Typed(k, {"P", "tmpm", "k1m"})
  PROVE  \E t : /\ Leads(St(k), HalfStep("P", "tmpm", "k1m", "tmpm"), St(t))
               /\ Changes(k, t, {"k1m", "tmpm"})
               /\ t["k1m"] = MulS(k["tmpm"], dt)
               /\ t["tmpm"] = Add(k["P"], MulS(t["k1m"], Recip(2)))
<1> DEFINE L == {"P", "tmpm", "k1m"}  W == {"k1m", "tmpm"}  x == k["P"]  d == k["tmpm"]
           a == MulS(d, dt)  h == MulS(a, Recip(2))  y == Add(x, h)  k1 == Put(k, "k1m", a)
           k2 == Put(k1, "tmpm", h)  k3 == Put(k2, "tmpm", y)
<1>1. L \in SUBSET Members /\ W \in SUBSET L
  BY DEF Members, Locals, LocalVs
<1>2. TypeOf("P") = Matrix /\ TypeOf("tmpm") = Matrix /\ TypeOf("k1m") = Matrix
  BY Types
<1>3. x \in Matrix /\ d \in Matrix
  BY <1>2 DEF Typed
<1>4. \A t : Mid(k, t, L, W) => t["P"] = x
  BY <1>1 DEF Mid, Changes
<1>5. dt \in Int /\ Recip(2) \in Int
  BY StepInt
<1>6. Mid(k, k, L, W)
  BY <1>1, MidStart
<1>7. "P" \in L /\ "tmpm" \in L /\ "k1m" \in L /\ "k1m" \in W /\ "tmpm" \in W
  OBVIOUS
<1> HIDE DEF L, W, x, d, a, h, y, k1, k2, k3
<1>8. a \in Matrix
  BY <1>3, <1>5, MatrixClosed DEF a
<1>9. Exec(St(k), matrixMultS("tmpm", dt, "k1m")) = St(k1) /\ Mid(k, k1, L, W)
  BY <1>1, <1>7, <1>6, <1>8, <1>2, ScaleCall DEF k1, a, d
<1>10. Mid(k, k1, L, W) /\ k1["k1m"] = a
  BY <1>1, <1>7, <1>6, <1>9, PutIs DEF k1, d
<1>11. h \in Matrix
  BY <1>8, <1>5, MatrixClosed DEF h
<1>12. Exec(St(k1), matrixMultS("k1m", Recip(2), "tmpm")) = St(k2) /\ Mid(k, k2, L, W)
  BY <1>1, <1>7, <1>10, <1>11, <1>2, ScaleCall DEF k2, h
<1>13. Mid(k, k2, L, W) /\ k2["k1m"] = a /\ k2["tmpm"] = h
  BY <1>1, <1>7, <1>10, <1>12, PutIs DEF k2
<1>14. y \in Matrix
  BY <1>3, <1>11, MatrixClosed DEF y
<1>15. Exec(St(k2), matrixAdd("P", "tmpm", "tmpm")) = St(k3) /\ Mid(k, k3, L, W)
  BY <1>1, <1>7, <1>13, <1>4, <1>14, <1>2, AddCall DEF k3, y
<1>16. Mid(k, k3, L, W) /\ k3["k1m"] = a /\ k3["tmpm"] = y
  BY <1>1, <1>7, <1>13, <1>15, PutIs DEF k3
<1>17. Leads(St(k), HalfStep("P", "tmpm", "k1m", "tmpm"), St(k3))
  <2> DEFINE body == HalfStep("P", "tmpm", "k1m", "tmpm")  trace == <<St(k), St(k1), St(k2), St(k3)>>
  <2>1. Len(body) = 3
        /\ body[1] = matrixMultS("tmpm", dt, "k1m")
        /\ body[2] = matrixMultS("k1m", Recip(2), "tmpm")
        /\ body[3] = matrixAdd("P", "tmpm", "tmpm")
    BY DEF HalfStep
  <2>2. trace[1] = St(k) /\ trace[2] = St(k1) /\ trace[3] = St(k2) /\ trace[4] = St(k3)
    OBVIOUS
  <2> HIDE DEF body, trace
  <2>3. /\ trace[1 + 1] = Exec(trace[1], body[1])
        /\ trace[2 + 1] = Exec(trace[2], body[2])
        /\ trace[3 + 1] = Exec(trace[3], body[3])
    BY <2>1, <2>2, <1>9, <1>12, <1>15
  <2>4. \A i \in 1..3 : trace[i + 1] = Exec(trace[i], body[i])
    BY <2>3
  <2>5. Leads(St(k), body, St(k3))
    BY <2>1, <2>2, <2>4 DEF Leads
  <2> QED BY <2>5 DEF body
<1> QED BY <1>17, <1>16 DEF Mid, W, x, d, a, h, y


LEMMA SecondStepP ==
  ASSUME NEW k, Typed(k, {"P", "tmp2m", "k2m", "tmpm"})
  PROVE  \E t : /\ Leads(St(k), HalfStep("P", "tmp2m", "k2m", "tmpm"), St(t))
               /\ Changes(k, t, {"k2m", "tmpm"})
               /\ t["k2m"] = MulS(k["tmp2m"], dt)
               /\ t["tmpm"] = Add(k["P"], MulS(t["k2m"], Recip(2)))
<1> DEFINE L == {"P", "tmp2m", "k2m", "tmpm"}  W == {"k2m", "tmpm"}  x == k["P"]  d == k["tmp2m"]
           a == MulS(d, dt)  h == MulS(a, Recip(2))  y == Add(x, h)  k1 == Put(k, "k2m", a)
           k2 == Put(k1, "tmpm", h)  k3 == Put(k2, "tmpm", y)
<1>1. L \in SUBSET Members /\ W \in SUBSET L
  BY DEF Members, Locals, LocalVs
<1>2. TypeOf("P") = Matrix /\ TypeOf("tmp2m") = Matrix /\ TypeOf("k2m") = Matrix
      /\ TypeOf("tmpm") = Matrix
  BY Types
<1>3. x \in Matrix /\ d \in Matrix
  BY <1>2 DEF Typed
<1>4. \A t : Mid(k, t, L, W) => t["P"] = x /\ t["tmp2m"] = d
  BY <1>1 DEF Mid, Changes
<1>5. dt \in Int /\ Recip(2) \in Int
  BY StepInt
<1>6. Mid(k, k, L, W)
  BY <1>1, MidStart
<1>7. "P" \in L /\ "tmp2m" \in L /\ "k2m" \in L /\ "tmpm" \in L /\ "k2m" \in W /\ "tmpm" \in W
  OBVIOUS
<1> HIDE DEF L, W, x, d, a, h, y, k1, k2, k3
<1>8. a \in Matrix
  BY <1>3, <1>5, MatrixClosed DEF a
<1>9. Exec(St(k), matrixMultS("tmp2m", dt, "k2m")) = St(k1) /\ Mid(k, k1, L, W)
  BY <1>1, <1>7, <1>6, <1>4, <1>8, <1>2, ScaleCall DEF k1, a
<1>10. Mid(k, k1, L, W) /\ k1["k2m"] = a
  BY <1>1, <1>7, <1>6, <1>9, PutIs DEF k1
<1>11. h \in Matrix
  BY <1>8, <1>5, MatrixClosed DEF h
<1>12. Exec(St(k1), matrixMultS("k2m", Recip(2), "tmpm")) = St(k2) /\ Mid(k, k2, L, W)
  BY <1>1, <1>7, <1>10, <1>11, <1>2, ScaleCall DEF k2, h
<1>13. Mid(k, k2, L, W) /\ k2["k2m"] = a /\ k2["tmpm"] = h
  BY <1>1, <1>7, <1>10, <1>12, PutIs DEF k2
<1>14. y \in Matrix
  BY <1>3, <1>11, MatrixClosed DEF y
<1>15. Exec(St(k2), matrixAdd("P", "tmpm", "tmpm")) = St(k3) /\ Mid(k, k3, L, W)
  BY <1>1, <1>7, <1>13, <1>4, <1>14, <1>2, AddCall DEF k3, y
<1>16. Mid(k, k3, L, W) /\ k3["k2m"] = a /\ k3["tmpm"] = y
  BY <1>1, <1>7, <1>13, <1>15, PutIs DEF k3
<1>17. Leads(St(k), HalfStep("P", "tmp2m", "k2m", "tmpm"), St(k3))
  <2> DEFINE body == HalfStep("P", "tmp2m", "k2m", "tmpm")  trace == <<St(k), St(k1), St(k2), St(k3)>>
  <2>1. Len(body) = 3
        /\ body[1] = matrixMultS("tmp2m", dt, "k2m")
        /\ body[2] = matrixMultS("k2m", Recip(2), "tmpm")
        /\ body[3] = matrixAdd("P", "tmpm", "tmpm")
    BY DEF HalfStep
  <2>2. trace[1] = St(k) /\ trace[2] = St(k1) /\ trace[3] = St(k2) /\ trace[4] = St(k3)
    OBVIOUS
  <2> HIDE DEF body, trace
  <2>3. /\ trace[1 + 1] = Exec(trace[1], body[1])
        /\ trace[2 + 1] = Exec(trace[2], body[2])
        /\ trace[3 + 1] = Exec(trace[3], body[3])
    BY <2>1, <2>2, <1>9, <1>12, <1>15
  <2>4. \A i \in 1..3 : trace[i + 1] = Exec(trace[i], body[i])
    BY <2>3
  <2>5. Leads(St(k), body, St(k3))
    BY <2>1, <2>2, <2>4 DEF Leads
  <2> QED BY <2>5 DEF body
<1> QED BY <1>17, <1>16 DEF Mid, W, x, d, a, h, y


LEMMA ThirdStepP ==
  ASSUME NEW k, Typed(k, {"P", "tmp2m", "k3m", "tmpm"})
  PROVE  \E t : /\ Leads(St(k), WholeStep("P", "tmp2m", "k3m", "tmpm"), St(t))
               /\ Changes(k, t, {"k3m", "tmpm"})
               /\ t["k3m"] = MulS(k["tmp2m"], dt)
               /\ t["tmpm"] = Add(k["P"], t["k3m"])
<1> DEFINE L == {"P", "tmp2m", "k3m", "tmpm"}  W == {"k3m", "tmpm"}  x == k["P"]  d == k["tmp2m"]
           a == MulS(d, dt)  y == Add(x, a)  k1 == Put(k, "k3m", a)  k2 == Put(k1, "tmpm", y)
<1>1. L \in SUBSET Members /\ W \in SUBSET L
  BY DEF Members, Locals, LocalVs
<1>2. TypeOf("P") = Matrix /\ TypeOf("tmp2m") = Matrix /\ TypeOf("k3m") = Matrix
      /\ TypeOf("tmpm") = Matrix
  BY Types
<1>3. x \in Matrix /\ d \in Matrix
  BY <1>2 DEF Typed
<1>4. \A t : Mid(k, t, L, W) => t["P"] = x /\ t["tmp2m"] = d
  BY <1>1 DEF Mid, Changes
<1>5. dt \in Int
  BY StepInt
<1>6. Mid(k, k, L, W)
  BY <1>1, MidStart
<1>7. "P" \in L /\ "tmp2m" \in L /\ "k3m" \in L /\ "tmpm" \in L /\ "k3m" \in W /\ "tmpm" \in W
  OBVIOUS
<1> HIDE DEF L, W, x, d, a, y, k1, k2
<1>8. a \in Matrix
  BY <1>3, <1>5, MatrixClosed DEF a
<1>9. Exec(St(k), matrixMultS("tmp2m", dt, "k3m")) = St(k1) /\ Mid(k, k1, L, W)
  BY <1>1, <1>7, <1>6, <1>4, <1>8, <1>2, ScaleCall DEF k1, a
<1>10. Mid(k, k1, L, W) /\ k1["k3m"] = a
  BY <1>1, <1>7, <1>6, <1>9, PutIs DEF k1
<1>11. y \in Matrix
  BY <1>3, <1>8, MatrixClosed DEF y
<1>12. Exec(St(k1), matrixAdd("P", "k3m", "tmpm")) = St(k2) /\ Mid(k, k2, L, W)
  BY <1>1, <1>7, <1>10, <1>4, <1>11, <1>2, AddCall DEF k2, y
<1>13. Mid(k, k2, L, W) /\ k2["k3m"] = a /\ k2["tmpm"] = y
  BY <1>1, <1>7, <1>10, <1>12, PutIs DEF k2
<1>14. Leads(St(k), WholeStep("P", "tmp2m", "k3m", "tmpm"), St(k2))
  <2> DEFINE body == WholeStep("P", "tmp2m", "k3m", "tmpm")  trace == <<St(k), St(k1), St(k2)>>
  <2>1. Len(body) = 2
        /\ body[1] = matrixMultS("tmp2m", dt, "k3m")
        /\ body[2] = matrixAdd("P", "k3m", "tmpm")
    BY DEF WholeStep
  <2>2. trace[1] = St(k) /\ trace[2] = St(k1) /\ trace[3] = St(k2)
    OBVIOUS
  <2> HIDE DEF body, trace
  <2>3. /\ trace[1 + 1] = Exec(trace[1], body[1])
        /\ trace[2 + 1] = Exec(trace[2], body[2])
    BY <2>1, <2>2, <1>9, <1>12
  <2>4. \A i \in 1..2 : trace[i + 1] = Exec(trace[i], body[i])
    BY <2>3
  <2>5. Leads(St(k), body, St(k2))
    BY <2>1, <2>2, <2>4 DEF Leads
  <2> QED BY <2>5 DEF body
<1> QED BY <1>14, <1>13 DEF Mid, W, x, d, a, y


LEMMA LastStepP ==
  ASSUME NEW k, Typed(k, {"P", "tmp2m", "k1m", "k2m", "k3m", "k4m", "tmpm"})
  PROVE  \E t : /\ Leads(St(k), LastStep("P", "k1m", "k2m", "k3m", "k4m", "tmpm", "tmp2m"), St(t))
               /\ Changes(k, t, {"k4m", "tmpm", "tmp2m", "P"})
               /\ t["P"] = Add(k["P"], MulS(Add(Add(Add(MulS(k["k2m"], 2), MulS(k["k3m"], 2)), k["k1m"]),
                                            MulS(k["tmp2m"], dt)), Recip(6)))
<1> DEFINE L == {"P", "tmp2m", "k1m", "k2m", "k3m", "k4m", "tmpm"}
           W == {"k4m", "tmpm", "tmp2m", "P"}  x == k["P"]  d == k["tmp2m"]  a1 == k["k1m"]
           a2 == k["k2m"]  a3 == k["k3m"]  a4 == MulS(d, dt)  b2 == MulS(a2, 2)
           b3 == MulS(a3, 2)  s1 == Add(b2, b3)  s2 == Add(s1, a1)  s3 == Add(s2, a4)
           s4 == MulS(s3, Recip(6))  y == Add(x, s4)  k1 == Put(k, "k4m", a4)
           k2 == Put(k1, "tmpm", b2)  k3 == Put(k2, "tmp2m", b3)  k4 == Put(k3, "tmpm", s1)
           k5 == Put(k4, "tmpm", s2)  k6 == Put(k5, "tmpm", s3)  k7 == Put(k6, "tmpm", s4)
           k8 == Put(k7, "P", y)
<1>1. L \in SUBSET Members /\ W \in SUBSET L
  BY DEF Members, Locals, LocalVs
<1>2. TypeOf("P") = Matrix /\ TypeOf("tmp2m") = Matrix /\ TypeOf("k1m") = Matrix
      /\ TypeOf("k2m") = Matrix /\ TypeOf("k3m") = Matrix /\ TypeOf("k4m") = Matrix
      /\ TypeOf("tmpm") = Matrix
  BY Types
<1>3. x \in Matrix /\ d \in Matrix /\ a1 \in Matrix /\ a2 \in Matrix /\ a3 \in Matrix
  BY <1>2 DEF Typed
<1>4. \A t : Mid(k, t, L, W) => t["k1m"] = a1 /\ t["k2m"] = a2 /\ t["k3m"] = a3
  BY <1>1 DEF Mid, Changes
<1>5. dt \in Int /\ 2 \in Int /\ Recip(6) \in Int
  BY StepInt, HalfAndSixth
<1>6. Mid(k, k, L, W)
  BY <1>1, MidStart
<1>7. "P" \in L /\ "tmp2m" \in L /\ "k1m" \in L /\ "k2m" \in L /\ "k3m" \in L /\ "k4m" \in L
      /\ "tmpm" \in L /\ "k4m" \in W /\ "tmpm" \in W /\ "tmp2m" \in W /\ "P" \in W
  OBVIOUS
<1> HIDE DEF L, W, x, d, a1, a2, a3, a4, b2, b3, s1, s2, s3, s4, y, k1, k2, k3, k4, k5, k6, k7,
            k8
<1>8. a4 \in Matrix
  BY <1>3, <1>5, MatrixClosed DEF a4
<1>9. Exec(St(k), matrixMultS("tmp2m", dt, "k4m")) = St(k1) /\ Mid(k, k1, L, W)
  BY <1>1, <1>7, <1>6, <1>8, <1>2, ScaleCall DEF k1, a4, x, d
<1>10. Mid(k, k1, L, W) /\ k1["k4m"] = a4 /\ k1["P"] = x
  BY <1>1, <1>7, <1>6, <1>9, PutIs DEF k1, x, d
<1>11. b2 \in Matrix
  BY <1>3, <1>5, MatrixClosed DEF b2
<1>12. Exec(St(k1), matrixMultS("k2m", 2, "tmpm")) = St(k2) /\ Mid(k, k2, L, W)
  BY <1>1, <1>7, <1>10, <1>4, <1>11, <1>2, ScaleCall DEF k2, b2
<1>13. Mid(k, k2, L, W) /\ k2["k4m"] = a4 /\ k2["tmpm"] = b2 /\ k2["P"] = x
  BY <1>1, <1>7, <1>10, <1>12, PutIs DEF k2
<1>14. b3 \in Matrix
  BY <1>3, <1>5, MatrixClosed DEF b3
<1>15. Exec(St(k2), matrixMultS("k3m", 2, "tmp2m")) = St(k3) /\ Mid(k, k3, L, W)
  BY <1>1, <1>7, <1>13, <1>4, <1>14, <1>2, ScaleCall DEF k3, b3
<1>16. Mid(k, k3, L, W) /\ k3["k4m"] = a4 /\ k3["tmpm"] = b2 /\ k3["tmp2m"] = b3 /\ k3["P"] = x
  BY <1>1, <1>7, <1>13, <1>15, PutIs DEF k3
<1>17. s1 \in Matrix
  BY <1>11, <1>14, MatrixClosed DEF s1
<1>18. Exec(St(k3), matrixAdd("tmpm", "tmp2m", "tmpm")) = St(k4) /\ Mid(k, k4, L, W)
  BY <1>1, <1>7, <1>16, <1>17, <1>2, AddCall DEF k4, s1
<1>19. Mid(k, k4, L, W) /\ k4["k4m"] = a4 /\ k4["tmpm"] = s1 /\ k4["P"] = x
  BY <1>1, <1>7, <1>16, <1>18, PutIs DEF k4
<1>20. s2 \in Matrix
  BY <1>3, <1>17, MatrixClosed DEF s2
<1>21. Exec(St(k4), matrixAdd("tmpm", "k1m", "tmpm")) = St(k5) /\ Mid(k, k5, L, W)
  BY <1>1, <1>7, <1>19, <1>4, <1>20, <1>2, AddCall DEF k5, s2
<1>22. Mid(k, k5, L, W) /\ k5["k4m"] = a4 /\ k5["tmpm"] = s2 /\ k5["P"] = x
  BY <1>1, <1>7, <1>19, <1>21, PutIs DEF k5
<1>23. s3 \in Matrix
  BY <1>8, <1>20, MatrixClosed DEF s3
<1>24. Exec(St(k5), matrixAdd("tmpm", "k4m", "tmpm")) = St(k6) /\ Mid(k, k6, L, W)
  BY <1>1, <1>7, <1>22, <1>23, <1>2, AddCall DEF k6, s3
<1>25. Mid(k, k6, L, W) /\ k6["tmpm"] = s3 /\ k6["P"] = x
  BY <1>1, <1>7, <1>22, <1>24, PutIs DEF k6
<1>26. s4 \in Matrix
  BY <1>23, <1>5, MatrixClosed DEF s4
<1>27. Exec(St(k6), matrixMultS("tmpm", Recip(6), "tmpm")) = St(k7) /\ Mid(k, k7, L, W)
  BY <1>1, <1>7, <1>25, <1>26, <1>2, ScaleCall DEF k7, s4
<1>28. Mid(k, k7, L, W) /\ k7["tmpm"] = s4 /\ k7["P"] = x
  BY <1>1, <1>7, <1>25, <1>27, PutIs DEF k7
<1>29. y \in Matrix
  BY <1>3, <1>26, MatrixClosed DEF y
<1>30. Exec(St(k7), matrixAdd("P", "tmpm", "P")) = St(k8) /\ Mid(k, k8, L, W)
  BY <1>1, <1>7, <1>28, <1>29, <1>2, AddCall DEF k8, y
<1>31. Mid(k, k8, L, W) /\ k8["P"] = y
  BY <1>1, <1>7, <1>28, <1>30, PutIs DEF k8
<1>32. Leads(St(k), LastStep("P", "k1m", "k2m", "k3m", "k4m", "tmpm", "tmp2m"), St(k8))
  <2> DEFINE body == LastStep("P", "k1m", "k2m", "k3m", "k4m", "tmpm", "tmp2m")  trace == <<St(k), St(k1), St(k2), St(k3), St(k4), St(k5), St(k6), St(k7), St(k8)>>
  <2>1. Len(body) = 8
        /\ body[1] = matrixMultS("tmp2m", dt, "k4m")
        /\ body[2] = matrixMultS("k2m", 2, "tmpm")
        /\ body[3] = matrixMultS("k3m", 2, "tmp2m")
        /\ body[4] = matrixAdd("tmpm", "tmp2m", "tmpm")
        /\ body[5] = matrixAdd("tmpm", "k1m", "tmpm")
        /\ body[6] = matrixAdd("tmpm", "k4m", "tmpm")
        /\ body[7] = matrixMultS("tmpm", Recip(6), "tmpm")
        /\ body[8] = matrixAdd("P", "tmpm", "P")
    BY DEF LastStep
  <2>2. trace[1] = St(k) /\ trace[2] = St(k1) /\ trace[3] = St(k2) /\ trace[4] = St(k3) /\ trace[5] = St(k4) /\ trace[6] = St(k5) /\ trace[7] = St(k6) /\ trace[8] = St(k7) /\ trace[9] = St(k8)
    OBVIOUS
  <2> HIDE DEF body, trace
  <2>3. /\ trace[1 + 1] = Exec(trace[1], body[1])
        /\ trace[2 + 1] = Exec(trace[2], body[2])
        /\ trace[3 + 1] = Exec(trace[3], body[3])
        /\ trace[4 + 1] = Exec(trace[4], body[4])
        /\ trace[5 + 1] = Exec(trace[5], body[5])
        /\ trace[6 + 1] = Exec(trace[6], body[6])
        /\ trace[7 + 1] = Exec(trace[7], body[7])
        /\ trace[8 + 1] = Exec(trace[8], body[8])
    BY <2>1, <2>2, <1>9, <1>12, <1>15, <1>18, <1>21, <1>24, <1>27, <1>30
  <2>4. \A i \in 1..8 : trace[i + 1] = Exec(trace[i], body[i])
    BY <2>3
  <2>5. Leads(St(k), body, St(k8))
    BY <2>1, <2>2, <2>4 DEF Leads
  <2> QED BY <2>5 DEF body
<1> QED BY <1>32, <1>31 DEF Mid, W, x, d, a1, a2, a3, a4, b2, b3, s1, s2, s3, s4, y
\* The same of int_X.
LEMMA FirstStepX ==
  ASSUME NEW k, Typed(k, {"xk", "tmpx", "k1x"})
  PROVE  \E t : /\ Leads(St(k), HalfStep("xk", "tmpx", "k1x", "tmpx"), St(t))
               /\ Changes(k, t, {"k1x", "tmpx"})
               /\ t["k1x"] = MulS(k["tmpx"], dt)
               /\ t["tmpx"] = Add(k["xk"], MulS(t["k1x"], Recip(2)))
<1> DEFINE L == {"xk", "tmpx", "k1x"}  W == {"k1x", "tmpx"}  x == k["xk"]  d == k["tmpx"]
           a == MulS(d, dt)  h == MulS(a, Recip(2))  y == Add(x, h)  k1 == Put(k, "k1x", a)
           k2 == Put(k1, "tmpx", h)  k3 == Put(k2, "tmpx", y)
<1>1. L \in SUBSET Members /\ W \in SUBSET L
  BY DEF Members, Locals, LocalVs
<1>2. TypeOf("xk") = Vector /\ TypeOf("tmpx") = Vector /\ TypeOf("k1x") = Vector
  BY Types
<1>3. x \in Vector /\ d \in Vector
  BY <1>2 DEF Typed
<1>4. \A t : Mid(k, t, L, W) => t["xk"] = x
  BY <1>1 DEF Mid, Changes
<1>5. dt \in Int /\ Recip(2) \in Int
  BY StepInt
<1>6. Mid(k, k, L, W)
  BY <1>1, MidStart
<1>7. "xk" \in L /\ "tmpx" \in L /\ "k1x" \in L /\ "k1x" \in W /\ "tmpx" \in W
  OBVIOUS
<1> HIDE DEF L, W, x, d, a, h, y, k1, k2, k3
<1>8. a \in Vector
  BY <1>3, <1>5, VectorClosed DEF a
<1>9. Exec(St(k), matrixMultS("tmpx", dt, "k1x")) = St(k1) /\ Mid(k, k1, L, W)
  BY <1>1, <1>7, <1>6, <1>8, <1>2, ScaleCall DEF k1, a, d
<1>10. Mid(k, k1, L, W) /\ k1["k1x"] = a
  BY <1>1, <1>7, <1>6, <1>9, PutIs DEF k1, d
<1>11. h \in Vector
  BY <1>8, <1>5, VectorClosed DEF h
<1>12. Exec(St(k1), matrixMultS("k1x", Recip(2), "tmpx")) = St(k2) /\ Mid(k, k2, L, W)
  BY <1>1, <1>7, <1>10, <1>11, <1>2, ScaleCall DEF k2, h
<1>13. Mid(k, k2, L, W) /\ k2["k1x"] = a /\ k2["tmpx"] = h
  BY <1>1, <1>7, <1>10, <1>12, PutIs DEF k2
<1>14. y \in Vector
  BY <1>3, <1>11, VectorClosed DEF y
<1>15. Exec(St(k2), matrixAdd("xk", "tmpx", "tmpx")) = St(k3) /\ Mid(k, k3, L, W)
  BY <1>1, <1>7, <1>13, <1>4, <1>14, <1>2, AddCall DEF k3, y
<1>16. Mid(k, k3, L, W) /\ k3["k1x"] = a /\ k3["tmpx"] = y
  BY <1>1, <1>7, <1>13, <1>15, PutIs DEF k3
<1>17. Leads(St(k), HalfStep("xk", "tmpx", "k1x", "tmpx"), St(k3))
  <2> DEFINE body == HalfStep("xk", "tmpx", "k1x", "tmpx")  trace == <<St(k), St(k1), St(k2), St(k3)>>
  <2>1. Len(body) = 3
        /\ body[1] = matrixMultS("tmpx", dt, "k1x")
        /\ body[2] = matrixMultS("k1x", Recip(2), "tmpx")
        /\ body[3] = matrixAdd("xk", "tmpx", "tmpx")
    BY DEF HalfStep
  <2>2. trace[1] = St(k) /\ trace[2] = St(k1) /\ trace[3] = St(k2) /\ trace[4] = St(k3)
    OBVIOUS
  <2> HIDE DEF body, trace
  <2>3. /\ trace[1 + 1] = Exec(trace[1], body[1])
        /\ trace[2 + 1] = Exec(trace[2], body[2])
        /\ trace[3 + 1] = Exec(trace[3], body[3])
    BY <2>1, <2>2, <1>9, <1>12, <1>15
  <2>4. \A i \in 1..3 : trace[i + 1] = Exec(trace[i], body[i])
    BY <2>3
  <2>5. Leads(St(k), body, St(k3))
    BY <2>1, <2>2, <2>4 DEF Leads
  <2> QED BY <2>5 DEF body
<1> QED BY <1>17, <1>16 DEF Mid, W, x, d, a, h, y


LEMMA SecondStepX ==
  ASSUME NEW k, Typed(k, {"xk", "tmp2x", "k2x", "tmpx"})
  PROVE  \E t : /\ Leads(St(k), HalfStep("xk", "tmp2x", "k2x", "tmpx"), St(t))
               /\ Changes(k, t, {"k2x", "tmpx"})
               /\ t["k2x"] = MulS(k["tmp2x"], dt)
               /\ t["tmpx"] = Add(k["xk"], MulS(t["k2x"], Recip(2)))
<1> DEFINE L == {"xk", "tmp2x", "k2x", "tmpx"}  W == {"k2x", "tmpx"}  x == k["xk"]
           d == k["tmp2x"]  a == MulS(d, dt)  h == MulS(a, Recip(2))  y == Add(x, h)
           k1 == Put(k, "k2x", a)  k2 == Put(k1, "tmpx", h)  k3 == Put(k2, "tmpx", y)
<1>1. L \in SUBSET Members /\ W \in SUBSET L
  BY DEF Members, Locals, LocalVs
<1>2. TypeOf("xk") = Vector /\ TypeOf("tmp2x") = Vector /\ TypeOf("k2x") = Vector
      /\ TypeOf("tmpx") = Vector
  BY Types
<1>3. x \in Vector /\ d \in Vector
  BY <1>2 DEF Typed
<1>4. \A t : Mid(k, t, L, W) => t["xk"] = x /\ t["tmp2x"] = d
  BY <1>1 DEF Mid, Changes
<1>5. dt \in Int /\ Recip(2) \in Int
  BY StepInt
<1>6. Mid(k, k, L, W)
  BY <1>1, MidStart
<1>7. "xk" \in L /\ "tmp2x" \in L /\ "k2x" \in L /\ "tmpx" \in L /\ "k2x" \in W /\ "tmpx" \in W
  OBVIOUS
<1> HIDE DEF L, W, x, d, a, h, y, k1, k2, k3
<1>8. a \in Vector
  BY <1>3, <1>5, VectorClosed DEF a
<1>9. Exec(St(k), matrixMultS("tmp2x", dt, "k2x")) = St(k1) /\ Mid(k, k1, L, W)
  BY <1>1, <1>7, <1>6, <1>4, <1>8, <1>2, ScaleCall DEF k1, a
<1>10. Mid(k, k1, L, W) /\ k1["k2x"] = a
  BY <1>1, <1>7, <1>6, <1>9, PutIs DEF k1
<1>11. h \in Vector
  BY <1>8, <1>5, VectorClosed DEF h
<1>12. Exec(St(k1), matrixMultS("k2x", Recip(2), "tmpx")) = St(k2) /\ Mid(k, k2, L, W)
  BY <1>1, <1>7, <1>10, <1>11, <1>2, ScaleCall DEF k2, h
<1>13. Mid(k, k2, L, W) /\ k2["k2x"] = a /\ k2["tmpx"] = h
  BY <1>1, <1>7, <1>10, <1>12, PutIs DEF k2
<1>14. y \in Vector
  BY <1>3, <1>11, VectorClosed DEF y
<1>15. Exec(St(k2), matrixAdd("xk", "tmpx", "tmpx")) = St(k3) /\ Mid(k, k3, L, W)
  BY <1>1, <1>7, <1>13, <1>4, <1>14, <1>2, AddCall DEF k3, y
<1>16. Mid(k, k3, L, W) /\ k3["k2x"] = a /\ k3["tmpx"] = y
  BY <1>1, <1>7, <1>13, <1>15, PutIs DEF k3
<1>17. Leads(St(k), HalfStep("xk", "tmp2x", "k2x", "tmpx"), St(k3))
  <2> DEFINE body == HalfStep("xk", "tmp2x", "k2x", "tmpx")  trace == <<St(k), St(k1), St(k2), St(k3)>>
  <2>1. Len(body) = 3
        /\ body[1] = matrixMultS("tmp2x", dt, "k2x")
        /\ body[2] = matrixMultS("k2x", Recip(2), "tmpx")
        /\ body[3] = matrixAdd("xk", "tmpx", "tmpx")
    BY DEF HalfStep
  <2>2. trace[1] = St(k) /\ trace[2] = St(k1) /\ trace[3] = St(k2) /\ trace[4] = St(k3)
    OBVIOUS
  <2> HIDE DEF body, trace
  <2>3. /\ trace[1 + 1] = Exec(trace[1], body[1])
        /\ trace[2 + 1] = Exec(trace[2], body[2])
        /\ trace[3 + 1] = Exec(trace[3], body[3])
    BY <2>1, <2>2, <1>9, <1>12, <1>15
  <2>4. \A i \in 1..3 : trace[i + 1] = Exec(trace[i], body[i])
    BY <2>3
  <2>5. Leads(St(k), body, St(k3))
    BY <2>1, <2>2, <2>4 DEF Leads
  <2> QED BY <2>5 DEF body
<1> QED BY <1>17, <1>16 DEF Mid, W, x, d, a, h, y


LEMMA ThirdStepX ==
  ASSUME NEW k, Typed(k, {"xk", "tmp2x", "k3x", "tmpx"})
  PROVE  \E t : /\ Leads(St(k), WholeStep("xk", "tmp2x", "k3x", "tmpx"), St(t))
               /\ Changes(k, t, {"k3x", "tmpx"})
               /\ t["k3x"] = MulS(k["tmp2x"], dt)
               /\ t["tmpx"] = Add(k["xk"], t["k3x"])
<1> DEFINE L == {"xk", "tmp2x", "k3x", "tmpx"}  W == {"k3x", "tmpx"}  x == k["xk"]
           d == k["tmp2x"]  a == MulS(d, dt)  y == Add(x, a)  k1 == Put(k, "k3x", a)
           k2 == Put(k1, "tmpx", y)
<1>1. L \in SUBSET Members /\ W \in SUBSET L
  BY DEF Members, Locals, LocalVs
<1>2. TypeOf("xk") = Vector /\ TypeOf("tmp2x") = Vector /\ TypeOf("k3x") = Vector
      /\ TypeOf("tmpx") = Vector
  BY Types
<1>3. x \in Vector /\ d \in Vector
  BY <1>2 DEF Typed
<1>4. \A t : Mid(k, t, L, W) => t["xk"] = x /\ t["tmp2x"] = d
  BY <1>1 DEF Mid, Changes
<1>5. dt \in Int
  BY StepInt
<1>6. Mid(k, k, L, W)
  BY <1>1, MidStart
<1>7. "xk" \in L /\ "tmp2x" \in L /\ "k3x" \in L /\ "tmpx" \in L /\ "k3x" \in W /\ "tmpx" \in W
  OBVIOUS
<1> HIDE DEF L, W, x, d, a, y, k1, k2
<1>8. a \in Vector
  BY <1>3, <1>5, VectorClosed DEF a
<1>9. Exec(St(k), matrixMultS("tmp2x", dt, "k3x")) = St(k1) /\ Mid(k, k1, L, W)
  BY <1>1, <1>7, <1>6, <1>4, <1>8, <1>2, ScaleCall DEF k1, a
<1>10. Mid(k, k1, L, W) /\ k1["k3x"] = a
  BY <1>1, <1>7, <1>6, <1>9, PutIs DEF k1
<1>11. y \in Vector
  BY <1>3, <1>8, VectorClosed DEF y
<1>12. Exec(St(k1), matrixAdd("xk", "k3x", "tmpx")) = St(k2) /\ Mid(k, k2, L, W)
  BY <1>1, <1>7, <1>10, <1>4, <1>11, <1>2, AddCall DEF k2, y
<1>13. Mid(k, k2, L, W) /\ k2["k3x"] = a /\ k2["tmpx"] = y
  BY <1>1, <1>7, <1>10, <1>12, PutIs DEF k2
<1>14. Leads(St(k), WholeStep("xk", "tmp2x", "k3x", "tmpx"), St(k2))
  <2> DEFINE body == WholeStep("xk", "tmp2x", "k3x", "tmpx")  trace == <<St(k), St(k1), St(k2)>>
  <2>1. Len(body) = 2
        /\ body[1] = matrixMultS("tmp2x", dt, "k3x")
        /\ body[2] = matrixAdd("xk", "k3x", "tmpx")
    BY DEF WholeStep
  <2>2. trace[1] = St(k) /\ trace[2] = St(k1) /\ trace[3] = St(k2)
    OBVIOUS
  <2> HIDE DEF body, trace
  <2>3. /\ trace[1 + 1] = Exec(trace[1], body[1])
        /\ trace[2 + 1] = Exec(trace[2], body[2])
    BY <2>1, <2>2, <1>9, <1>12
  <2>4. \A i \in 1..2 : trace[i + 1] = Exec(trace[i], body[i])
    BY <2>3
  <2>5. Leads(St(k), body, St(k2))
    BY <2>1, <2>2, <2>4 DEF Leads
  <2> QED BY <2>5 DEF body
<1> QED BY <1>14, <1>13 DEF Mid, W, x, d, a, y


LEMMA LastStepX ==
  ASSUME NEW k, Typed(k, {"xk", "tmp2x", "k1x", "k2x", "k3x", "k4x", "tmpx"})
  PROVE  \E t : /\ Leads(St(k), LastStep("xk", "k1x", "k2x", "k3x", "k4x", "tmpx", "tmp2x"), St(t))
               /\ Changes(k, t, {"k4x", "tmpx", "tmp2x", "xk"})
               /\ t["xk"] = Add(k["xk"], MulS(Add(Add(Add(MulS(k["k2x"], 2), MulS(k["k3x"], 2)), k["k1x"]),
                                            MulS(k["tmp2x"], dt)), Recip(6)))
<1> DEFINE L == {"xk", "tmp2x", "k1x", "k2x", "k3x", "k4x", "tmpx"}
           W == {"k4x", "tmpx", "tmp2x", "xk"}  x == k["xk"]  d == k["tmp2x"]  a1 == k["k1x"]
           a2 == k["k2x"]  a3 == k["k3x"]  a4 == MulS(d, dt)  b2 == MulS(a2, 2)
           b3 == MulS(a3, 2)  s1 == Add(b2, b3)  s2 == Add(s1, a1)  s3 == Add(s2, a4)
           s4 == MulS(s3, Recip(6))  y == Add(x, s4)  k1 == Put(k, "k4x", a4)
           k2 == Put(k1, "tmpx", b2)  k3 == Put(k2, "tmp2x", b3)  k4 == Put(k3, "tmpx", s1)
           k5 == Put(k4, "tmpx", s2)  k6 == Put(k5, "tmpx", s3)  k7 == Put(k6, "tmpx", s4)
           k8 == Put(k7, "xk", y)
<1>1. L \in SUBSET Members /\ W \in SUBSET L
  BY DEF Members, Locals, LocalVs
<1>2. TypeOf("xk") = Vector /\ TypeOf("tmp2x") = Vector /\ TypeOf("k1x") = Vector
      /\ TypeOf("k2x") = Vector /\ TypeOf("k3x") = Vector /\ TypeOf("k4x") = Vector
      /\ TypeOf("tmpx") = Vector
  BY Types
<1>3. x \in Vector /\ d \in Vector /\ a1 \in Vector /\ a2 \in Vector /\ a3 \in Vector
  BY <1>2 DEF Typed
<1>4. \A t : Mid(k, t, L, W) => t["k1x"] = a1 /\ t["k2x"] = a2 /\ t["k3x"] = a3
  BY <1>1 DEF Mid, Changes
<1>5. dt \in Int /\ 2 \in Int /\ Recip(6) \in Int
  BY StepInt, HalfAndSixth
<1>6. Mid(k, k, L, W)
  BY <1>1, MidStart
<1>7. "xk" \in L /\ "tmp2x" \in L /\ "k1x" \in L /\ "k2x" \in L /\ "k3x" \in L
      /\ "k4x" \in L /\ "tmpx" \in L /\ "k4x" \in W /\ "tmpx" \in W /\ "tmp2x" \in W
      /\ "xk" \in W
  OBVIOUS
<1> HIDE DEF L, W, x, d, a1, a2, a3, a4, b2, b3, s1, s2, s3, s4, y, k1, k2, k3, k4, k5, k6, k7,
            k8
<1>8. a4 \in Vector
  BY <1>3, <1>5, VectorClosed DEF a4
<1>9. Exec(St(k), matrixMultS("tmp2x", dt, "k4x")) = St(k1) /\ Mid(k, k1, L, W)
  BY <1>1, <1>7, <1>6, <1>8, <1>2, ScaleCall DEF k1, a4, x, d
<1>10. Mid(k, k1, L, W) /\ k1["k4x"] = a4 /\ k1["xk"] = x
  BY <1>1, <1>7, <1>6, <1>9, PutIs DEF k1, x, d
<1>11. b2 \in Vector
  BY <1>3, <1>5, VectorClosed DEF b2
<1>12. Exec(St(k1), matrixMultS("k2x", 2, "tmpx")) = St(k2) /\ Mid(k, k2, L, W)
  BY <1>1, <1>7, <1>10, <1>4, <1>11, <1>2, ScaleCall DEF k2, b2
<1>13. Mid(k, k2, L, W) /\ k2["k4x"] = a4 /\ k2["tmpx"] = b2 /\ k2["xk"] = x
  BY <1>1, <1>7, <1>10, <1>12, PutIs DEF k2
<1>14. b3 \in Vector
  BY <1>3, <1>5, VectorClosed DEF b3
<1>15. Exec(St(k2), matrixMultS("k3x", 2, "tmp2x")) = St(k3) /\ Mid(k, k3, L, W)
  BY <1>1, <1>7, <1>13, <1>4, <1>14, <1>2, ScaleCall DEF k3, b3
<1>16. Mid(k, k3, L, W) /\ k3["k4x"] = a4 /\ k3["tmpx"] = b2 /\ k3["tmp2x"] = b3 /\ k3["xk"] = x
  BY <1>1, <1>7, <1>13, <1>15, PutIs DEF k3
<1>17. s1 \in Vector
  BY <1>11, <1>14, VectorClosed DEF s1
<1>18. Exec(St(k3), matrixAdd("tmpx", "tmp2x", "tmpx")) = St(k4) /\ Mid(k, k4, L, W)
  BY <1>1, <1>7, <1>16, <1>17, <1>2, AddCall DEF k4, s1
<1>19. Mid(k, k4, L, W) /\ k4["k4x"] = a4 /\ k4["tmpx"] = s1 /\ k4["xk"] = x
  BY <1>1, <1>7, <1>16, <1>18, PutIs DEF k4
<1>20. s2 \in Vector
  BY <1>3, <1>17, VectorClosed DEF s2
<1>21. Exec(St(k4), matrixAdd("tmpx", "k1x", "tmpx")) = St(k5) /\ Mid(k, k5, L, W)
  BY <1>1, <1>7, <1>19, <1>4, <1>20, <1>2, AddCall DEF k5, s2
<1>22. Mid(k, k5, L, W) /\ k5["k4x"] = a4 /\ k5["tmpx"] = s2 /\ k5["xk"] = x
  BY <1>1, <1>7, <1>19, <1>21, PutIs DEF k5
<1>23. s3 \in Vector
  BY <1>8, <1>20, VectorClosed DEF s3
<1>24. Exec(St(k5), matrixAdd("tmpx", "k4x", "tmpx")) = St(k6) /\ Mid(k, k6, L, W)
  BY <1>1, <1>7, <1>22, <1>23, <1>2, AddCall DEF k6, s3
<1>25. Mid(k, k6, L, W) /\ k6["tmpx"] = s3 /\ k6["xk"] = x
  BY <1>1, <1>7, <1>22, <1>24, PutIs DEF k6
<1>26. s4 \in Vector
  BY <1>23, <1>5, VectorClosed DEF s4
<1>27. Exec(St(k6), matrixMultS("tmpx", Recip(6), "tmpx")) = St(k7) /\ Mid(k, k7, L, W)
  BY <1>1, <1>7, <1>25, <1>26, <1>2, ScaleCall DEF k7, s4
<1>28. Mid(k, k7, L, W) /\ k7["tmpx"] = s4 /\ k7["xk"] = x
  BY <1>1, <1>7, <1>25, <1>27, PutIs DEF k7
<1>29. y \in Vector
  BY <1>3, <1>26, VectorClosed DEF y
<1>30. Exec(St(k7), matrixAdd("xk", "tmpx", "xk")) = St(k8) /\ Mid(k, k8, L, W)
  BY <1>1, <1>7, <1>28, <1>29, <1>2, AddCall DEF k8, y
<1>31. Mid(k, k8, L, W) /\ k8["xk"] = y
  BY <1>1, <1>7, <1>28, <1>30, PutIs DEF k8
<1>32. Leads(St(k), LastStep("xk", "k1x", "k2x", "k3x", "k4x", "tmpx", "tmp2x"), St(k8))
  <2> DEFINE body == LastStep("xk", "k1x", "k2x", "k3x", "k4x", "tmpx", "tmp2x")  trace == <<St(k), St(k1), St(k2), St(k3), St(k4), St(k5), St(k6), St(k7), St(k8)>>
  <2>1. Len(body) = 8
        /\ body[1] = matrixMultS("tmp2x", dt, "k4x")
        /\ body[2] = matrixMultS("k2x", 2, "tmpx")
        /\ body[3] = matrixMultS("k3x", 2, "tmp2x")
        /\ body[4] = matrixAdd("tmpx", "tmp2x", "tmpx")
        /\ body[5] = matrixAdd("tmpx", "k1x", "tmpx")
        /\ body[6] = matrixAdd("tmpx", "k4x", "tmpx")
        /\ body[7] = matrixMultS("tmpx", Recip(6), "tmpx")
        /\ body[8] = matrixAdd("xk", "tmpx", "xk")
    BY DEF LastStep
  <2>2. trace[1] = St(k) /\ trace[2] = St(k1) /\ trace[3] = St(k2) /\ trace[4] = St(k3) /\ trace[5] = St(k4) /\ trace[6] = St(k5) /\ trace[7] = St(k6) /\ trace[8] = St(k7) /\ trace[9] = St(k8)
    OBVIOUS
  <2> HIDE DEF body, trace
  <2>3. /\ trace[1 + 1] = Exec(trace[1], body[1])
        /\ trace[2 + 1] = Exec(trace[2], body[2])
        /\ trace[3 + 1] = Exec(trace[3], body[3])
        /\ trace[4 + 1] = Exec(trace[4], body[4])
        /\ trace[5 + 1] = Exec(trace[5], body[5])
        /\ trace[6 + 1] = Exec(trace[6], body[6])
        /\ trace[7 + 1] = Exec(trace[7], body[7])
        /\ trace[8 + 1] = Exec(trace[8], body[8])
    BY <2>1, <2>2, <1>9, <1>12, <1>15, <1>18, <1>21, <1>24, <1>27, <1>30
  <2>4. \A i \in 1..8 : trace[i + 1] = Exec(trace[i], body[i])
    BY <2>3
  <2>5. Leads(St(k), body, St(k8))
    BY <2>1, <2>2, <2>4 DEF Leads
  <2> QED BY <2>5 DEF body
<1> QED BY <1>32, <1>31 DEF Mid, W, x, d, a1, a2, a3, a4, b2, b3, s1, s2, s3, s4, y
LEMMA BumpedVector ==
  ASSUME NEW x \in Vector, NEW j \in Index, NEW r \in Int
  PROVE  [x EXCEPT ![j][1] = (@ + r) % Prime] \in Vector
<1>1. x[j][1] + r \in Int
  BY VectorEntries
<1>2. (x[j][1] + r) % Prime \in F
  BY <1>1, NormType DEF N
<1> QED BY <1>2, Moved

LEMMA FilledColumn ==
  ASSUME NEW a \in Matrix, NEW c \in Vector, NEW j \in Index
  PROVE  [n \in Index |-> [a[n] EXCEPT ![j] = c[n][1]]] \in Matrix
BY VectorEntries DEF Matrix

\* A column of the Jacobian.
LEMMA ColumnRun ==
  ASSUME NEW j \in Index,
         NEW k, Typed(k, {"xk", "model", "u", "Ac", "linstate", "v1", "v2", "v0"})
  PROVE  \E t : /\ Leads(St(k), ColumnOf(j), St(t))
               /\ Changes(k, t, {"linstate", "v1", "v2", "v0", "Ac"})
               /\ t["Ac"] = Filled(k["Ac"], Jacobian(k["model"], k["xk"]), j)
<1> DEFINE L == {"xk", "model", "u", "Ac", "linstate", "v1", "v2", "v0"}
           W == {"linstate", "v1", "v2", "v0", "Ac"}  x == k["xk"]  m == k["model"]  u == k["u"]
           A == k["Ac"]  up == [x EXCEPT ![j][1] = (@ + dt) % Prime]  f1 == ModelOf(m, up, u)
           down == [x EXCEPT ![j][1] = (@ + (-dt)) % Prime]  f2 == ModelOf(m, down, u)
           f == Sub(f1, f2)  c == MulS(f, Recip(2 * dt))
           B == [n \in Index |-> [A[n] EXCEPT ![j] = c[n][1]]]  k1 == Put(k, "linstate", up)
           k2 == Put(k1, "v1", f1)  k3 == Put(k2, "linstate", down)  k4 == Put(k3, "v2", f2)
           k5 == Put(k4, "v0", f)  k6 == Put(k5, "v0", c)  k7 == Put(k6, "Ac", B)
<1>1. L \in SUBSET Members /\ W \in SUBSET L
  BY DEF Members, Locals, LocalVs
<1>2. TypeOf("xk") = Vector /\ TypeOf("model") = SecondDegree /\ TypeOf("u") = Single
      /\ TypeOf("Ac") = Matrix /\ TypeOf("linstate") = Vector /\ TypeOf("v1") = Vector
      /\ TypeOf("v2") = Vector /\ TypeOf("v0") = Vector
  BY Types
<1>3. x \in Vector /\ m \in SecondDegree /\ u \in Single /\ A \in Matrix
  BY <1>2 DEF Typed
<1>4. \A t : Mid(k, t, L, W) => t["xk"] = x /\ t["model"] = m /\ t["u"] = u
  BY <1>1 DEF Mid, Changes
<1>5. dt \in Int /\ -dt \in Int /\ Recip(2 * dt) \in Int
  BY StepInt, DoubleStep, Reciprocal DEF F
<1>6. Mid(k, k, L, W)
  BY <1>1, MidStart
<1>7. "xk" \in L /\ "model" \in L /\ "u" \in L /\ "Ac" \in L /\ "linstate" \in L
      /\ "v1" \in L /\ "v2" \in L /\ "v0" \in L /\ "linstate" \in W /\ "v1" \in W
      /\ "v2" \in W /\ "v0" \in W /\ "Ac" \in W
  OBVIOUS
<1> HIDE DEF L, W, x, m, u, A, up, f1, down, f2, f, c, B, k1, k2, k3, k4, k5, k6, k7
<1>8. up \in Vector
  BY <1>3, <1>5, BumpedVector DEF up
<1>9. Exec(St(k), bumped(j, dt, "linstate")) = St(k1) /\ Mid(k, k1, L, W)
  BY <1>1, <1>7, <1>6, <1>4, <1>8, <1>2, BumpCall DEF k1, up, A
<1>10. Mid(k, k1, L, W) /\ k1["linstate"] = up /\ k1["Ac"] = A
  BY <1>1, <1>7, <1>6, <1>9, PutIs DEF k1, A
<1>11. f1 \in Vector
  BY <1>3, <1>8, ModelVector DEF f1
<1>12. Exec(St(k1), callModel("linstate", "u", "v1")) = St(k2) /\ Mid(k, k2, L, W)
  BY <1>1, <1>7, <1>10, <1>4, <1>11, <1>2, ModelCall DEF k2, f1
<1>13. Mid(k, k2, L, W) /\ k2["v1"] = f1 /\ k2["Ac"] = A
  BY <1>1, <1>7, <1>10, <1>12, PutIs DEF k2
<1>14. down \in Vector
  BY <1>3, <1>5, BumpedVector DEF down
<1>15. Exec(St(k2), bumped(j, -dt, "linstate")) = St(k3) /\ Mid(k, k3, L, W)
  BY <1>1, <1>7, <1>13, <1>4, <1>14, <1>2, BumpCall DEF k3, down
<1>16. Mid(k, k3, L, W) /\ k3["linstate"] = down /\ k3["v1"] = f1 /\ k3["Ac"] = A
  BY <1>1, <1>7, <1>13, <1>15, PutIs DEF k3
<1>17. f2 \in Vector
  BY <1>3, <1>14, ModelVector DEF f2
<1>18. Exec(St(k3), callModel("linstate", "u", "v2")) = St(k4) /\ Mid(k, k4, L, W)
  BY <1>1, <1>7, <1>16, <1>4, <1>17, <1>2, ModelCall DEF k4, f2
<1>19. Mid(k, k4, L, W) /\ k4["v1"] = f1 /\ k4["v2"] = f2 /\ k4["Ac"] = A
  BY <1>1, <1>7, <1>16, <1>18, PutIs DEF k4
<1>20. f \in Vector
  BY <1>11, <1>17, VectorClosed DEF f
<1>21. Exec(St(k4), matrixSub("v1", "v2", "v0")) = St(k5) /\ Mid(k, k5, L, W)
  BY <1>1, <1>7, <1>19, <1>20, <1>2, SubCall DEF k5, f
<1>22. Mid(k, k5, L, W) /\ k5["v0"] = f /\ k5["Ac"] = A
  BY <1>1, <1>7, <1>19, <1>21, PutIs DEF k5
<1>23. c \in Vector
  BY <1>20, <1>5, VectorClosed DEF c
<1>24. Exec(St(k5), matrixMultS("v0", Recip(2 * dt), "v0")) = St(k6) /\ Mid(k, k6, L, W)
  BY <1>1, <1>7, <1>22, <1>23, <1>2, ScaleCall DEF k6, c
<1>25. Mid(k, k6, L, W) /\ k6["v0"] = c /\ k6["Ac"] = A
  BY <1>1, <1>7, <1>22, <1>24, PutIs DEF k6
<1>26. B \in Matrix
  BY <1>3, <1>23, FilledColumn DEF B
<1>27. Exec(St(k6), matrixFillColV("Ac", j, "v0")) = St(k7) /\ Mid(k, k7, L, W)
  BY <1>1, <1>7, <1>25, <1>26, <1>2, ColumnCall, ZenonT(60) DEF k7, B
<1>28. Mid(k, k7, L, W) /\ k7["Ac"] = B
  BY <1>1, <1>7, <1>25, <1>27, PutIs DEF k7
<1>29. Leads(St(k), ColumnOf(j), St(k7))
  <2> DEFINE body == ColumnOf(j)  trace == <<St(k), St(k1), St(k2), St(k3), St(k4), St(k5), St(k6), St(k7)>>
  <2>1. Len(body) = 7
        /\ body[1] = bumped(j, dt, "linstate")
        /\ body[2] = callModel("linstate", "u", "v1")
        /\ body[3] = bumped(j, -dt, "linstate")
        /\ body[4] = callModel("linstate", "u", "v2")
        /\ body[5] = matrixSub("v1", "v2", "v0")
        /\ body[6] = matrixMultS("v0", Recip(2 * dt), "v0")
        /\ body[7] = matrixFillColV("Ac", j, "v0")
    BY DEF ColumnOf
  <2>2. trace[1] = St(k) /\ trace[2] = St(k1) /\ trace[3] = St(k2) /\ trace[4] = St(k3) /\ trace[5] = St(k4) /\ trace[6] = St(k5) /\ trace[7] = St(k6) /\ trace[8] = St(k7)
    OBVIOUS
  <2> HIDE DEF body, trace
  <2>3. /\ trace[1 + 1] = Exec(trace[1], body[1])
        /\ trace[2 + 1] = Exec(trace[2], body[2])
        /\ trace[3 + 1] = Exec(trace[3], body[3])
        /\ trace[4 + 1] = Exec(trace[4], body[4])
        /\ trace[5 + 1] = Exec(trace[5], body[5])
        /\ trace[6 + 1] = Exec(trace[6], body[6])
        /\ trace[7 + 1] = Exec(trace[7], body[7])
    BY <2>1, <2>2, <1>9, <1>12, <1>15, <1>18, <1>21, <1>24, <1>27
  <2>4. \A i \in 1..7 : trace[i + 1] = Exec(trace[i], body[i])
    BY <2>3
  <2>5. Leads(St(k), body, St(k7))
    BY <2>1, <2>2, <2>4 DEF Leads
  <2> QED BY <2>5 DEF body
<1>30. \A n \in Index : c[n][1] = Jacobian(m, x)[n][j]
  <2>1. x[j][1] + (-dt) = x[j][1] - dt
    BY <1>3, <1>5, VectorEntries
  <2>2. up = [x EXCEPT ![j][1] = N(@ + dt)] /\ down = [x EXCEPT ![j][1] = N(@ - dt)]
    BY <2>1 DEF up, down, N
  <2> QED BY <1>3, <2>2, Columns, ZenonT(60) DEF c, f, f1, f2
<1>31. B = [n \in Index |-> [A[n] EXCEPT ![j] = Jacobian(m, x)[n][j]]]
  BY <1>30 DEF B
<1> QED BY <1>28, <1>29, <1>31 DEF Mid, W, x, m, u, A, Filled
-----------------------------------------------------------------------------
(* The pieces are sequences of calls. *)

Operations == {"mult", "add", "sub", "scale", "copy", "trans", "eye", "inv", "column",
               "model", "bump"}
Codes == [does : Operations, a : Members, b : Members \cup (Index \X Int), n : Int, out : Members]

LEMMA CodesAre ==
  /\ \A a, b, c \in Members : /\ matrixMult(a, b, c) \in Codes /\ matrixAdd(a, b, c) \in Codes
                              /\ matrixSub(a, b, c) \in Codes /\ callModel(a, b, c) \in Codes
  /\ \A a, c \in Members : /\ matrixCopy(a, c) \in Codes /\ matrixTrans(a, c) \in Codes
                           /\ matrixInv(a, c) \in Codes /\ matrixEye(a) \in Codes
  /\ \A a, c \in Members, r \in Int : matrixMultS(a, r, c) \in Codes /\ matrixFillColV(a, r, c) \in Codes
  /\ \A a \in Members, i \in Index, r \in Int : bumped(i, r, a) \in Codes
<1>1. "xk" \in Members /\ 0 \in Int
  BY DEF Members
<1>2. \A does \in Operations, a \in Members, b \in Members \cup (Index \X Int), n \in Int, c \in Members :
        Call(does, a, b, n, c) \in Codes
  BY DEF Call, Codes
<1>3. \A i \in Index, r \in Int : <<i, r>> \in Index \X Int
  OBVIOUS
<1>0. \A does \in Operations, a, b \in Members, n \in Int, c \in Members : Call(does, a, b, n, c) \in Codes
  BY <1>2
<1> HIDE DEF Codes
<1>4. \A a, b, c \in Members : /\ matrixMult(a, b, c) \in Codes /\ matrixAdd(a, b, c) \in Codes
                                /\ matrixSub(a, b, c) \in Codes /\ callModel(a, b, c) \in Codes
  BY <1>1, <1>0 DEF Operations, matrixMult, matrixAdd, matrixSub, callModel
<1>5. \A a, c \in Members : /\ matrixCopy(a, c) \in Codes /\ matrixTrans(a, c) \in Codes
                             /\ matrixInv(a, c) \in Codes /\ matrixEye(a) \in Codes
  BY <1>1, <1>0 DEF Operations, matrixCopy, matrixTrans, matrixInv, matrixEye
<1>6. \A a, c \in Members, r \in Int : matrixMultS(a, r, c) \in Codes /\ matrixFillColV(a, r, c) \in Codes
  BY <1>1, <1>0 DEF Operations, matrixMultS, matrixFillColV
<1>7. \A a \in Members, i \in Index, r \in Int : bumped(i, r, a) \in Codes
  <2> SUFFICES ASSUME NEW a \in Members, NEW i \in Index, NEW r \in Int PROVE bumped(i, r, a) \in Codes
    OBVIOUS
  <2>1. <<i, r>> \in Members \cup (Index \X Int)
    BY <1>3
  <2> QED BY <1>1, <1>2, <2>1 DEF bumped, Operations
<1> QED BY <1>4, <1>5, <1>6, <1>7

LEMMA Names ==
  /\ "Ac" \in Members /\ "Ad" \in Members /\ "Bc" \in Members /\ "Bd" \in Members
  /\ "H" \in Members /\ "u" \in Members /\ "z" \in Members /\ "Q" \in Members /\ "R" \in Members
  /\ "P" \in Members /\ "k" \in Members /\ "xk" \in Members /\ "x_est" \in Members
  /\ "model" \in Members /\ "eye" \in Members /\ "linstate" \in Members /\ "ulinstate" \in Members
  /\ "AcT" \in Members /\ "AdT" \in Members /\ "HT" \in Members /\ "P2" \in Members
  /\ "tmpu" \in Members /\ "v0" \in Members /\ "v1" \in Members /\ "v2" \in Members
  /\ "m0" \in Members /\ "m1" \in Members /\ "m2" \in Members /\ "m3" \in Members
  /\ "b0" \in Members /\ "b1" \in Members
  /\ "k1m" \in Members /\ "k2m" \in Members /\ "k3m" \in Members /\ "k4m" \in Members
  /\ "tmpm" \in Members /\ "tmp2m" \in Members
  /\ "k1x" \in Members /\ "k2x" \in Members /\ "k3x" \in Members /\ "k4x" \in Members
  /\ "tmpx" \in Members /\ "tmp2x" \in Members
BY DEF Members, Locals, LocalVs

LEMMA ScalarsAre == /\ dt \in Int /\ -dt \in Int /\ Recip(2) \in Int /\ Recip(6) \in Int
                    /\ Recip(2 * dt) \in Int /\ dt * dt * Recip(2) \in Int
                    /\ dt * dt * dt * Recip(6) \in Int
BY StepInt, HalfAndSixth, DoubleStep, Reciprocal DEF F

LEMMA C2DSeq == C2D \in Seq(Codes)
<1> DEFINE d2 == dt * dt * Recip(2)  d3 == dt * dt * dt * Recip(6)
<1>1. d2 \in Int /\ d3 \in Int /\ dt \in Int
  BY ScalarsAre
<1>2. C2D = <<
        matrixMultS("Ac", dt, "m0"), matrixMult("Ac", "Ac", "m1"),
        matrixMult("m1", "Ac", "m2"), matrixMultS("m1", d2, "m1"),
        matrixAdd("m0", "m1", "m0"), matrixMultS("m2", d3, "m2"), matrixAdd("m0", "m2", "m0"),
        matrixAdd("eye", "m0", "Ad"),
        matrixMultS("Bc", dt, "b0"), matrixMult("Ac", "Bc", "b1"),
        matrixMultS("b1", d2, "b1"), matrixAdd("b0", "b1", "b0"),
        matrixMult("Ac", "Ac", "m0"), matrixMultS("m0", d3, "m0"),
        matrixMult("m0", "Bc", "b1"), matrixAdd("b0", "b1", "Bd")>>
  BY DEF C2D
<1> HIDE DEF d2, d3
<1>3. /\ matrixMultS("Ac", dt, "m0") \in Codes /\ matrixMult("Ac", "Ac", "m1") \in Codes
      /\ matrixMult("m1", "Ac", "m2") \in Codes /\ matrixMultS("m1", d2, "m1") \in Codes
      /\ matrixAdd("m0", "m1", "m0") \in Codes /\ matrixMultS("m2", d3, "m2") \in Codes
      /\ matrixAdd("m0", "m2", "m0") \in Codes /\ matrixAdd("eye", "m0", "Ad") \in Codes
  BY <1>1, CodesAre, Names
<1>4. /\ matrixMultS("Bc", dt, "b0") \in Codes /\ matrixMult("Ac", "Bc", "b1") \in Codes
      /\ matrixMultS("b1", d2, "b1") \in Codes /\ matrixAdd("b0", "b1", "b0") \in Codes
      /\ matrixMultS("m0", d3, "m0") \in Codes
      /\ matrixMult("Ac", "Ac", "m0") \in Codes /\ matrixMult("m0", "Bc", "b1") \in Codes
      /\ matrixAdd("b0", "b1", "Bd") \in Codes
  BY <1>1, CodesAre, Names
<1> QED BY <1>2, <1>3, <1>4

LEMMA DiscreteSeq ==
  /\ Predict \in Seq(Codes) /\ GainFirst \in Seq(Codes) /\ GainLast \in Seq(Codes)
  /\ Correct \in Seq(Codes)
<1>1. Predict \in Seq(Codes)
  BY CodesAre, Names, SMTT(60) DEF Predict
<1>2. GainFirst \in Seq(Codes) /\ GainLast \in Seq(Codes)
  BY CodesAre, Names, SMTT(60) DEF GainFirst, GainLast
<1>3. Correct \in Seq(Codes)
  BY CodesAre, Names, SMTT(60) DEF Correct
<1> QED BY <1>1, <1>2, <1>3

LEMMA ContinuousSeq ==
  /\ \A P \in Members : SlopeFirst(P) \in Seq(Codes)
  /\ \A P, Pdot \in Members : SlopeLast(P, Pdot) \in Seq(Codes)
  /\ \A P, Pdot \in Members : xmodel(P, Pdot) \in Seq(Codes)
  /\ ContinuousGainFirst \in Seq(Codes) /\ ContinuousGainLast \in Seq(Codes)
<1>1. \A P \in Members : SlopeFirst(P) \in Seq(Codes)
  BY CodesAre, Names, SMTT(60) DEF SlopeFirst
<1>2. ASSUME NEW P \in Members, NEW Pdot \in Members PROVE SlopeLast(P, Pdot) \in Seq(Codes)
  BY CodesAre, Names, SMTT(60) DEF SlopeLast
<1>3. ASSUME NEW P \in Members, NEW Pdot \in Members PROVE xmodel(P, Pdot) \in Seq(Codes)
  BY CodesAre, Names, SMTT(60) DEF xmodel
<1>4. ContinuousGainFirst \in Seq(Codes) /\ ContinuousGainLast \in Seq(Codes)
  BY CodesAre, Names, SMTT(60) DEF ContinuousGainFirst, ContinuousGainLast
<1> QED BY <1>1, <1>2, <1>3, <1>4

LEMMA StepSeq ==
  /\ \A x, d, k, y \in Members : HalfStep(x, d, k, y) \in Seq(Codes) /\ WholeStep(x, d, k, y) \in Seq(Codes)
  /\ \A x, k1, k2, k3, k4, y, d \in Members : LastStep(x, k1, k2, k3, k4, y, d) \in Seq(Codes)
  /\ \A j \in Index : ColumnOf(j) \in Seq(Codes)
<1>1. \A x, d, k, y \in Members : HalfStep(x, d, k, y) \in Seq(Codes) /\ WholeStep(x, d, k, y) \in Seq(Codes)
  BY CodesAre, ScalarsAre DEF HalfStep, WholeStep
<1>2. \A x, k1, k2, k3, k4, y, d \in Members : LastStep(x, k1, k2, k3, k4, y, d) \in Seq(Codes)
  BY CodesAre, ScalarsAre DEF LastStep
<1>3. \A j \in Index : ColumnOf(j) \in Seq(Codes)
  <2> SUFFICES ASSUME NEW j \in Index PROVE ColumnOf(j) \in Seq(Codes)
    OBVIOUS
  <2>1. j \in Int
    BY DEF Index
  <2>2. /\ bumped(j, dt, "linstate") \in Codes /\ callModel("linstate", "u", "v1") \in Codes
        /\ bumped(j, -dt, "linstate") \in Codes /\ callModel("linstate", "u", "v2") \in Codes
        /\ matrixSub("v1", "v2", "v0") \in Codes
        /\ matrixMultS("v0", Recip(2 * dt), "v0") \in Codes
        /\ matrixFillColV("Ac", j, "v0") \in Codes
    BY <2>1, CodesAre, Names, ScalarsAre
  <2> QED BY <2>2 DEF ColumnOf
<1> QED BY <1>1, <1>2, <1>3

LEMMA LeadsOne ==
  ASSUME NEW s, NEW x, NEW u, Exec(s, x) = u
  PROVE  Leads(s, <<x>>, u)
<1> DEFINE A == <<s, u>>
<1>1. A[1] = s /\ A[2] = u /\ Len(<<x>>) = 1 /\ <<x>>[1] = x
  OBVIOUS
<1> HIDE DEF A
<1>2. \A i \in 1..1 : A[i + 1] = Exec(A[i], <<x>>[i])
  BY <1>1
<1> QED BY <1>1, <1>2 DEF Leads

\* The inversion of a, with b: it ends the program or inverts.
LEMMA InversionRun ==
  ASSUME NEW a \in {"m0", "m1"}, NEW b \in {"m0", "m1", "m2"}, a # b, NEW k, Typed(k, {a, b})
  PROVE  /\ Det(k[a]) = 0 => Leads(St(k), <<matrixInv(a, b)>>, [kf |-> k, fate |-> "exited"])
         /\ Det(k[a]) # 0 => \E t : /\ Leads(St(k), <<matrixInv(a, b)>>, St(t))
                                    /\ Changes(k, t, {a, b})
                                    /\ t[a] = InverseOf(k[a])
         /\ <<matrixInv(a, b)>> \in Seq(Codes)
<1> DEFINE L == {a, b}  v == InverseOf(k[a])  w == Mul(v, k[b])  t == Put(Put(k, a, v), b, w)
           x == matrixInv(a, b)
<1>1. L \in SUBSET Members /\ a \in L /\ b \in L
  BY Names
<1>2. TypeOf(a) = Matrix /\ TypeOf(b) = Matrix
  BY Types
<1>3. k[a] \in Matrix /\ k[b] \in Matrix
  BY <1>2 DEF Typed
<1>4. Mid(k, k, L, L)
  BY <1>1, MidStart
<1>5. x \in Codes
  BY <1>1, CodesAre
<1> HIDE DEF L
<1>7. ASSUME Det(k[a]) = 0 PROVE Leads(St(k), <<x>>, [kf |-> k, fate |-> "exited"])
  BY <1>1, <1>4, <1>7, LeadsOne, ExitCall, TypedWhole DEF Mid
<1>8. ASSUME Det(k[a]) # 0
      PROVE  Leads(St(k), <<x>>, St(t)) /\ Changes(k, t, {a, b}) /\ t[a] = InverseOf(k[a])
  <2>1. v \in Matrix
    BY <1>3, <1>8, InverseMul
  <2>2. w \in Matrix
    BY <1>3, <2>1, MatrixClosed
  <2> HIDE DEF v
  <2>3. Exec(St(k), x) = St(t) /\ Mid(k, t, L, L)
    BY <1>1, <1>2, <1>4, <1>8, <2>1, <2>2, InvCall DEF v
  <2>4. t[a] = v
    BY <1>1, PutIs
  <2> HIDE DEF t
  <2> QED BY <2>3, <2>4, LeadsOne DEF Mid, L, v
<1>9. <<x>> \in Seq(Codes)
  BY <1>5
<1> HIDE DEF t
<1> QED BY <1>7, <1>8, <1>9
LEMMA MulSOfSingle ==
  ASSUME NEW u \in Single, NEW s \in Int
  PROVE  MulS(u, s) \in Single
<1>1. u \in Arrays /\ DOMAIN u = {1} /\ DOMAIN u[1] = {1} /\ u[1][1] \in F /\ u[1][1] \in Int
  BY FieldInt DEF Single, Arrays
<1>2. N(s * u[1][1]) \in F
  BY <1>1, NormType
<1>3. <<u, s>> \in Arrays \X Int
  BY <1>1
<1>4. MulS(u, s) = [i \in {1} |-> [j \in {1} |-> N(s * u[i][j])]]
  BY <1>1, <1>3 DEF MulS, multipleOf, N
<1> QED BY <1>2, <1>4 DEF Single

-----------------------------------------------------------------------------
(* Linearization and gain, put together. *)

LEMMA ChangesMore ==
  ASSUME NEW k, NEW t, NEW V, NEW W \in SUBSET Members, V \subseteq W, Typed(k, W), Changes(k, t, V)
  PROVE  Changes(k, t, W)
BY DEF Changes, Typed

LEMMA TypedLess ==
  ASSUME NEW k, NEW L, NEW M \in SUBSET L, Typed(k, L)
  PROVE  Typed(k, M)
BY DEF Typed

LEMMA FlattenTwo ==
  ASSUME NEW p \in Seq(Codes), NEW q \in Seq(Codes), NEW s, s = [j \in 1..2 |-> IF j = 1 THEN p ELSE q]
  PROVE  FlattenSeq(s) = p \o q
<1> DEFINE Defines(f) == f = [i \in 1..Len(s) |-> IF i = 1 THEN s[i] ELSE f[i - 1] \o s[i]]
           flatten == CHOOSE f : Defines(f)
           g == [i \in 1..2 |-> IF i = 1 THEN p ELSE p \o q]
<1>1. Len(s) = 2 /\ s[1] = p /\ s[2] = q
  OBVIOUS
<1>2. Defines(g)
  <2>1. \A i \in 1..2 : g[i] = IF i = 1 THEN s[i] ELSE g[i - 1] \o s[i]
    BY <1>1
  <2>2. g = [i \in 1..2 |-> g[i]]
    OBVIOUS
  <2> HIDE DEF g
  <2> QED BY <1>1, <2>1, <2>2
<1>3. Defines(flatten)
  BY <1>2
<1>4. FlattenSeq(s) = flatten[2]
  BY <1>1 DEF FlattenSeq
<1> HIDE DEF flatten
<1>5. \A i \in 1..2 : flatten[i] = IF i = 1 THEN s[i] ELSE flatten[i - 1] \o s[i]
  BY <1>1, <1>3
<1>6. flatten[1] = s[1] /\ flatten[2] = flatten[1] \o s[2]
  BY <1>5
<1> QED BY <1>1, <1>4, <1>6

LEMMA LinearizeIsTwo ==
  /\ linearizeKalmanFilter = <<matrixMultS("tmpu", 0, "tmpu")>> \o (ColumnOf(1) \o ColumnOf(2))
  /\ linearizeKalmanFilter \in Seq(Codes)
<1> DEFINE s == [j \in Index |-> ColumnOf(j)]
<1>1. linearizeKalmanFilter = <<matrixMultS("tmpu", 0, "tmpu")>> \o FlattenSeq(s)
  BY DEF linearizeKalmanFilter, ColumnOf
<1>2. 1 \in Index /\ 2 \in Index /\ Index = 1..2
  BY DEF Index
<1>3. ColumnOf(1) \in Seq(Codes) /\ ColumnOf(2) \in Seq(Codes)
  BY <1>2, StepSeq
<1>4. s = [j \in 1..2 |-> IF j = 1 THEN ColumnOf(1) ELSE ColumnOf(2)]
  BY <1>2
<1> HIDE DEF s
<1>5. FlattenSeq(s) = ColumnOf(1) \o ColumnOf(2)
  BY <1>3, <1>4, FlattenTwo
<1>6. matrixMultS("tmpu", 0, "tmpu") \in Codes
  BY CodesAre, Names, SMTT(60)
<1>7. <<matrixMultS("tmpu", 0, "tmpu")>> \in Seq(Codes)
  BY <1>6
<1> QED BY <1>1, <1>3, <1>5, <1>7

LinearizeWrites == {"tmpu", "linstate", "v1", "v2", "v0", "Ac"}
LinearizeUses   == {"xk", "model", "u"} \cup LinearizeWrites

LEMMA LinearizeRun ==
  ASSUME NEW k, Typed(k, LinearizeUses)
  PROVE  \E t : /\ Leads(St(k), linearizeKalmanFilter, St(t))
                /\ Changes(k, t, LinearizeWrites)
                /\ t["Ac"] = Jacobian(k["model"], k["xk"])
<1> DEFINE w == MulS(k["tmpu"], 0)  k1 == Put(k, "tmpu", w)
           J == Jacobian(k["model"], k["xk"])
<1>0. LinearizeUses \in SUBSET Members /\ {"tmpu"} \in SUBSET LinearizeUses
  BY Names DEF LinearizeUses, LinearizeWrites
<1>00. 1 \in Index /\ 2 \in Index
  BY DEF Index
<1>1. /\ k["xk"] \in Vector /\ k["model"] \in SecondDegree /\ k["Ac"] \in Matrix
      /\ k["tmpu"] \in Single /\ TypeOf("tmpu") = Single
  BY Types DEF Typed, LinearizeUses, LinearizeWrites
<1>2. w \in Single
  BY <1>1, MulSOfSingle
<1>3. Mid(k, k, LinearizeUses, {"tmpu"})
  BY <1>0, MidStart
<1> HIDE DEF w, k1
<1>4. /\ Exec(St(k), matrixMultS("tmpu", 0, "tmpu")) = St(k1)
      /\ Mid(k, k1, LinearizeUses, {"tmpu"})
  BY <1>0, <1>1, <1>2, <1>3, ScaleCall DEF w, k1, LinearizeUses
<1>5. Leads(St(k), <<matrixMultS("tmpu", 0, "tmpu")>>, St(k1))
  BY <1>4, LeadsOne
<1>6. Changes(k, k1, {"tmpu"}) /\ Typed(k1, LinearizeUses)
  BY <1>4 DEF Mid
<1>7. PICK k2 : /\ Leads(St(k1), ColumnOf(1), St(k2))
                /\ Changes(k1, k2, {"linstate", "v1", "v2", "v0", "Ac"})
                /\ k2["Ac"] = Filled(k1["Ac"], Jacobian(k1["model"], k1["xk"]), 1)
  <2>1. Typed(k1, {"xk", "model", "u", "Ac", "linstate", "v1", "v2", "v0"})
    BY <1>6, TypedLess DEF LinearizeUses, LinearizeWrites
  <2> QED BY <1>00, <2>1, ColumnRun
<1>8. Typed(k2, LinearizeUses)
  BY <1>0, <1>6, <1>7, TypedAfter, Names
<1>9. PICK t : /\ Leads(St(k2), ColumnOf(2), St(t))
               /\ Changes(k2, t, {"linstate", "v1", "v2", "v0", "Ac"})
               /\ t["Ac"] = Filled(k2["Ac"], Jacobian(k2["model"], k2["xk"]), 2)
  <2>1. Typed(k2, {"xk", "model", "u", "Ac", "linstate", "v1", "v2", "v0"})
    BY <1>8, TypedLess DEF LinearizeUses, LinearizeWrites
  <2> QED BY <1>00, <2>1, ColumnRun
<1>10. Leads(St(k), linearizeKalmanFilter, St(t))
  <2>1. ColumnOf(1) \in Seq(Codes) /\ ColumnOf(2) \in Seq(Codes)
    BY <1>00, StepSeq
  <2>2. Leads(St(k1), ColumnOf(1) \o ColumnOf(2), St(t)) /\ ColumnOf(1) \o ColumnOf(2) \in Seq(Codes)
    BY <1>7, <1>9, <2>1, LeadsOn
  <2>3. <<matrixMultS("tmpu", 0, "tmpu")>> \in Seq(Codes)
    BY CodesAre, Names, SMTT(60)
  <2> QED BY <1>5, <2>2, <2>3, LeadsOn, LinearizeIsTwo
<1>11. Changes(k, t, LinearizeWrites)
  BY <1>6, <1>7, <1>9, Names DEF Changes, LinearizeWrites
<1>12. /\ k1["xk"] = k["xk"] /\ k1["model"] = k["model"] /\ k1["Ac"] = k["Ac"]
       /\ k2["xk"] = k["xk"] /\ k2["model"] = k["model"]
  BY <1>6, <1>7, Names DEF Changes
<1>13. J \in Matrix
  BY <1>1, JacobianEntries
<1> HIDE DEF J
<1>14. k2["Ac"] = Filled(k["Ac"], J, 1) /\ t["Ac"] = Filled(k2["Ac"], J, 2)
  BY <1>7, <1>9, <1>12 DEF J
<1>15. t["Ac"] = J
  BY <1>1, <1>13, <1>14 DEF Filled, Matrix, Index
<1> QED BY <1>10, <1>11, <1>15 DEF J

LEMMA GainIs ==
  /\ Gain = (GainFirst \o <<matrixInv("m1", "m0")>>) \o GainLast
  /\ GainFirst \in Seq(Codes) /\ GainLast \in Seq(Codes) /\ <<matrixInv("m1", "m0")>> \in Seq(Codes)
  /\ Gain \in Seq(Codes)
<1>1. Gain = (GainFirst \o <<matrixInv("m1", "m0")>>) \o GainLast
  BY DEF Gain, GainFirst, GainLast
<1>2. matrixInv("m1", "m0") \in Codes
  BY CodesAre, Names
<1>3. GainFirst \in Seq(Codes) /\ GainLast \in Seq(Codes) /\ <<matrixInv("m1", "m0")>> \in Seq(Codes)
  BY <1>2, DiscreteSeq
<1>4. \A p, q \in Seq(Codes) : p \o q \in Seq(Codes)
  OBVIOUS
<1> QED BY <1>1, <1>3, <1>4

\* The gain: a singular innovation ends the program.
LEMMA WholeGain ==
  ASSUME NEW k, Typed(k, {"H", "P", "R", "HT", "m0", "m1", "m2", "k"})
  PROVE  LET S == Add(Mul(Mul(k["H"], k["P"]), Trans(k["H"])), k["R"])
         IN  /\ Det(S) = 0 => \E t : /\ Leads(St(k), Gain, [kf |-> t, fate |-> "exited"])
                                     /\ Changes(k, t, {"m0", "HT", "m1", "m2"})
             /\ Det(S) # 0 => \E t : /\ Leads(St(k), Gain, St(t))
                                     /\ Changes(k, t, {"m0", "HT", "m1", "m2", "k"})
                                     /\ t["k"] = Mul(k["P"], Mul(Trans(k["H"]), InverseOf(S)))
<1> DEFINE S == Add(Mul(Mul(k["H"], k["P"]), Trans(k["H"])), k["R"])
           L == {"H", "P", "R", "HT", "m0", "m1", "m2", "k"}
<1>0. L \in SUBSET Members
  BY Names
<1>1. /\ Gain = (GainFirst \o <<matrixInv("m1", "m0")>>) \o GainLast
      /\ GainFirst \in Seq(Codes) /\ GainLast \in Seq(Codes) /\ <<matrixInv("m1", "m0")>> \in Seq(Codes)
  BY GainIs
<1>2. PICK k1 : /\ Leads(St(k), GainFirst, St(k1))
                /\ Changes(k, k1, {"m0", "HT", "m1"})
                /\ k1["m1"] = S /\ k1["HT"] = Trans(k["H"])
  <2>1. Typed(k, {"H", "P", "R", "m0", "HT", "m1"})
    BY TypedLess
  <2> QED BY <2>1, InnovationRun
<1>3. Typed(k1, L) /\ k1["P"] = k["P"]
  <2>1. {"m0", "HT", "m1"} \in SUBSET Members
    BY Names
  <2>2. Typed(k1, L)
    BY <1>0, <1>2, <2>1, TypedAfter
  <2> QED BY <1>2, <2>2, Names DEF Changes
<1>4. Typed(k1, {"m1", "m0"})
  BY <1>3, TypedLess
<1> HIDE DEF S, L
<1>5. ASSUME Det(S) = 0
      PROVE  \E t : /\ Leads(St(k), Gain, [kf |-> t, fate |-> "exited"])
                    /\ Changes(k, t, {"m0", "HT", "m1", "m2"})
  <2> DEFINE e == [kf |-> k1, fate |-> "exited"]
  <2>1. Leads(St(k1), <<matrixInv("m1", "m0")>>, e)
    BY <1>2, <1>4, <1>5, InversionRun
  <2>2. e.fate # "ready"
    OBVIOUS
  <2> HIDE DEF e
  <2>3. Leads(St(k), GainFirst \o <<matrixInv("m1", "m0")>>, e)
    BY <1>1, <1>2, <2>1, LeadsOn
  <2>4. Leads(e, GainLast, e)
    BY <1>1, <2>2, LeadsEnded
  <2>5. GainFirst \o <<matrixInv("m1", "m0")>> \in Seq(Codes)
    BY <1>1
  <2>6. Leads(St(k), Gain, e)
    BY <1>1, <2>3, <2>4, <2>5, LeadsOn
  <2>7. Changes(k, k1, {"m0", "HT", "m1", "m2"})
    <3>1. Typed(k, {"m0", "HT", "m1", "m2"})
      BY TypedLess
    <3> QED BY <1>2, <3>1, Names, ChangesMore
  <2> QED BY <2>6, <2>7 DEF e
<1>6. ASSUME Det(S) # 0
      PROVE  \E t : /\ Leads(St(k), Gain, St(t))
                    /\ Changes(k, t, {"m0", "HT", "m1", "m2", "k"})
                    /\ t["k"] = Mul(k["P"], Mul(Trans(k["H"]), InverseOf(S)))
  <2>1. PICK k2 : /\ Leads(St(k1), <<matrixInv("m1", "m0")>>, St(k2))
                  /\ Changes(k1, k2, {"m1", "m0"})
                  /\ k2["m1"] = InverseOf(S)
    BY <1>2, <1>4, <1>6, InversionRun
  <2>0. Typed(k2, L)
    BY <1>0, <1>3, <2>1, TypedAfter, Names
  <2>2. k2["P"] = k["P"] /\ k2["HT"] = Trans(k["H"])
    BY <1>2, <1>3, <2>1, Names DEF Changes
  <2>3. PICK t : /\ Leads(St(k2), GainLast, St(t))
                 /\ Changes(k2, t, {"m2", "k"})
                 /\ t["k"] = Mul(k2["P"], Mul(k2["HT"], k2["m1"]))
    <3>1. Typed(k2, {"HT", "m1", "P", "m2", "k"})
      BY <2>0, TypedLess DEF L
    <3> QED BY <3>1, GainRun
  <2>4. Leads(St(k), GainFirst \o <<matrixInv("m1", "m0")>>, St(k2))
    BY <1>1, <1>2, <2>1, LeadsOn
  <2>5. GainFirst \o <<matrixInv("m1", "m0")>> \in Seq(Codes)
    BY <1>1
  <2>6. Leads(St(k), Gain, St(t))
    BY <1>1, <2>3, <2>4, <2>5, LeadsOn
  <2>7. Changes(k, t, {"m0", "HT", "m1", "m2", "k"})
    BY <1>2, <2>1, <2>3, Names DEF Changes
  <2> QED BY <2>1, <2>2, <2>3, <2>6, <2>7
<1> QED BY <1>5, <1>6 DEF S
-----------------------------------------------------------------------------
(* A discrete update.                                                      *)

\* The members that a filter that is ready has: those of every filter, and
\* those of a continuous or nonlinear model.
Plain == {"Ad", "Bd", "H", "u", "z", "Q", "R", "P", "k", "xk", "x_est", "eye", "AdT", "HT", "P2",
          "v0", "v1", "v2", "m0", "m1", "m2", "m3"}
Uses == Plain \cup (IF flags.model = "nonlinear"
                    THEN LinearizeWrites \cup {"ulinstate", "model", "AcT", "Bc", "b0", "b1"}
                    ELSE IF flags.time = "cont" THEN {"Ac", "AcT", "Bc", "b0", "b1"} ELSE {})

LinearizePart == IF flags.model = "nonlinear" THEN linearizeKalmanFilter ELSE <<>>
C2DPart       == IF flags.time = "cont" THEN C2D ELSE <<>>
LinearizePartWrites == IF flags.model = "nonlinear" THEN LinearizeWrites ELSE {}
C2DPartWrites == IF flags.time = "cont" THEN {"m0", "m1", "m2", "Ad", "b0", "b1", "Bd"} ELSE {}
DiscreteWrites == LinearizePartWrites \cup C2DPartWrites
                    \cup {"v0", "v1", "xk", "m0", "AdT", "m1", "P", "HT", "m2", "k", "x_est"}

\* What the update computes, from the members before it.
NewAc(k) == IF flags.model = "nonlinear" THEN Jacobian(k["model"], k["xk"]) ELSE k["Ac"]
SeriesA(k) == LET A == NewAc(k)
              IN  Add(Add(MulS(A, dt), MulS(Mul(A, A), dt * dt * Recip(2))),
                      MulS(Mul(Mul(A, A), A), dt * dt * dt * Recip(6)))
SeriesB(k) == LET A == NewAc(k)
              IN  Add(Add(MulS(k["Bc"], dt), MulS(Mul(A, k["Bc"]), dt * dt * Recip(2))),
                      Mul(MulS(Mul(A, A), dt * dt * dt * Recip(6)), k["Bc"]))
NewAd(k) == IF flags.time = "cont" THEN Add(k["eye"], SeriesA(k)) ELSE k["Ad"]
NewBd(k) == IF flags.time = "cont" THEN SeriesB(k) ELSE k["Bd"]
PriorX(k) == Mul(NewAd(k), k["xk"])
PriorP(k) == Add(Mul(Mul(NewAd(k), k["P"]), Trans(NewAd(k))), k["Q"])
InnovationP(k) == Add(Mul(Mul(k["H"], PriorP(k)), Trans(k["H"])), k["R"])
NewGain(k) == Mul(PriorP(k), Mul(Trans(k["H"]), InverseOf(InnovationP(k))))
PosteriorX(k) == Add(PriorX(k), Mul(NewGain(k), Sub(k["z"], Mul(k["H"], PriorX(k)))))
PosteriorP(k) == LET K == NewGain(k)  IK == Sub(Eye, Mul(K, k["H"]))
                 IN  Add(Mul(Mul(IK, PriorP(k)), Trans(IK)), Mul(Mul(K, k["R"]), Trans(K)))

LEMMA UsesAre == Uses \in SUBSET Members /\ LinearizeUses \in SUBSET Members
BY Names DEF Uses, Plain, LinearizeWrites, LinearizeUses

LEMMA LinearizePartRun ==
  ASSUME NEW k, Typed(k, Uses)
  PROVE  /\ LinearizePart \in Seq(Codes)
         /\ \E t : /\ Leads(St(k), LinearizePart, St(t))
                   /\ Changes(k, t, LinearizePartWrites)
                   /\ t["Ac"] = NewAc(k)
<1>1. CASE flags.model = "nonlinear"
  <2>1. LinearizeUses \in SUBSET Uses
    BY <1>1 DEF Uses, Plain, LinearizeUses, LinearizeWrites
  <2>2. Typed(k, LinearizeUses)
    BY <2>1, TypedLess
  <2>3. \E t : /\ Leads(St(k), linearizeKalmanFilter, St(t))
               /\ Changes(k, t, LinearizeWrites)
               /\ t["Ac"] = Jacobian(k["model"], k["xk"])
    BY <2>2, LinearizeRun
  <2> QED BY <1>1, <2>3, LinearizeIsTwo DEF LinearizePart, LinearizePartWrites, NewAc
<1>2. CASE flags.model # "nonlinear"
  <2>1. Leads(St(k), <<>>, St(k)) /\ <<>> \in Seq(Codes)
    BY LeadsNone
  <2>2. Changes(k, k, {})
    BY DEF Typed, Changes
  <2> QED BY <1>2, <2>1, <2>2 DEF LinearizePart, LinearizePartWrites, NewAc
<1> QED BY <1>1, <1>2

LEMMA C2DPartRun ==
  ASSUME NEW k, Typed(k, Uses)
  PROVE  /\ C2DPart \in Seq(Codes)
         /\ \E t : /\ Leads(St(k), C2DPart, St(t))
                   /\ Changes(k, t, C2DPartWrites)
                   /\ LET A == k["Ac"]
                      IN  /\ t["Ad"] = IF flags.time = "cont"
                                THEN Add(k["eye"], Add(Add(MulS(A, dt), MulS(Mul(A, A), dt * dt * Recip(2))),
                                                       MulS(Mul(Mul(A, A), A), dt * dt * dt * Recip(6))))
                                ELSE k["Ad"]
                          /\ t["Bd"] = IF flags.time = "cont"
                                THEN Add(Add(MulS(k["Bc"], dt), MulS(Mul(A, k["Bc"]), dt * dt * Recip(2))),
                                         Mul(MulS(Mul(A, A), dt * dt * dt * Recip(6)), k["Bc"]))
                                ELSE k["Bd"]
<1>1. CASE flags.time = "cont"
  <2>1. {"Ac", "eye", "Bc", "m0", "m1", "m2", "Ad", "b0", "b1", "Bd"} \in SUBSET Uses
    BY <1>1 DEF Uses, Plain, LinearizeWrites
  <2>2. Typed(k, {"Ac", "eye", "Bc", "m0", "m1", "m2", "Ad", "b0", "b1", "Bd"})
    BY <2>1, TypedLess
  <2> QED BY <1>1, <2>2, C2DRun, C2DSeq DEF C2DPart, C2DPartWrites
<1>2. CASE flags.time # "cont"
  <2>1. Leads(St(k), <<>>, St(k)) /\ <<>> \in Seq(Codes)
    BY LeadsNone
  <2>2. Changes(k, k, {})
    BY DEF Typed, Changes
  <2> QED BY <1>2, <2>1, <2>2 DEF C2DPart, C2DPartWrites
<1> QED BY <1>1, <1>2

\* Linearization, discretization and the time update.
PriorPart == (LinearizePart \o C2DPart) \o Predict
PriorWrites == LinearizePartWrites \cup C2DPartWrites \cup {"v0", "xk", "m0", "AdT", "m1", "P"}

LEMMA WritesAre ==
  /\ LinearizePartWrites \in SUBSET Uses /\ C2DPartWrites \in SUBSET Uses
  /\ PriorWrites \in SUBSET Uses /\ DiscreteWrites \in SUBSET Uses
<1>1. LinearizePartWrites \in SUBSET Uses
  BY DEF LinearizePartWrites, Uses
<1>2. C2DPartWrites \in SUBSET Uses
  BY DEF C2DPartWrites, Uses, Plain
<1> QED BY <1>1, <1>2 DEF PriorWrites, DiscreteWrites, Uses, Plain

LEMMA PriorRun ==
  ASSUME NEW k, Typed(k, Uses)
  PROVE  /\ PriorPart \in Seq(Codes)
         /\ \E t : /\ Leads(St(k), PriorPart, St(t))
                   /\ Changes(k, t, PriorWrites)
                   /\ t["Ac"] = NewAc(k) /\ t["Ad"] = NewAd(k) /\ t["Bd"] = NewBd(k)
                   /\ t["xk"] = PriorX(k) /\ t["P"] = PriorP(k)
<1>1. PICK k1 : /\ Leads(St(k), LinearizePart, St(k1))
                /\ Changes(k, k1, LinearizePartWrites)
                /\ k1["Ac"] = NewAc(k)
  BY LinearizePartRun
<1>2. Typed(k1, Uses)
  BY <1>1, UsesAre, WritesAre, TypedAfter
<1>3. /\ k1["eye"] = k["eye"] /\ k1["Bc"] = k["Bc"] /\ k1["Bd"] = k["Bd"] /\ k1["Ad"] = k["Ad"]
      /\ k1["xk"] = k["xk"] /\ k1["P"] = k["P"] /\ k1["Q"] = k["Q"]
  BY <1>1, Names DEF Changes, LinearizePartWrites, LinearizeWrites
<1>4. PICK k2 : /\ Leads(St(k1), C2DPart, St(k2))
                /\ Changes(k1, k2, C2DPartWrites)
                /\ k2["Ad"] = NewAd(k) /\ k2["Bd"] = NewBd(k)
  BY <1>1, <1>2, <1>3, C2DPartRun DEF NewAd, NewBd, SeriesA, SeriesB
<1>5. Typed(k2, Uses)
  BY <1>2, <1>4, UsesAre, WritesAre, TypedAfter
<1>6. /\ k2["xk"] = k["xk"] /\ k2["P"] = k["P"] /\ k2["Q"] = k["Q"] /\ k2["Ac"] = k1["Ac"]
  BY <1>3, <1>4, Names DEF Changes, C2DPartWrites
<1>7. PICK t : /\ Leads(St(k2), Predict, St(t))
               /\ Changes(k2, t, {"v0", "xk", "m0", "AdT", "m1", "P"})
               /\ t["xk"] = PriorX(k) /\ t["P"] = PriorP(k)
  <2>1. {"Ad", "xk", "P", "Q", "v0", "m0", "AdT", "m1"} \in SUBSET Uses
    BY DEF Uses, Plain
  <2>2. Typed(k2, {"Ad", "xk", "P", "Q", "v0", "m0", "AdT", "m1"})
    BY <1>5, <2>1, TypedLess
  <2> QED BY <1>4, <1>6, <2>2, PredictRun DEF PriorX, PriorP
<1>8. t["Ac"] = NewAc(k) /\ t["Ad"] = NewAd(k) /\ t["Bd"] = NewBd(k)
  BY <1>1, <1>4, <1>6, <1>7, Names DEF Changes
<1>9. /\ LinearizePart \in Seq(Codes) /\ C2DPart \in Seq(Codes) /\ Predict \in Seq(Codes)
      /\ LinearizePart \o C2DPart \in Seq(Codes)
  <2>1. LinearizePart \in Seq(Codes) /\ C2DPart \in Seq(Codes) /\ Predict \in Seq(Codes)
    BY LinearizePartRun, C2DPartRun, DiscreteSeq
  <2> QED BY <2>1
<1>10. Leads(St(k), LinearizePart \o C2DPart, St(k2))
  BY <1>1, <1>4, <1>9, LeadsOn
<1>11. Leads(St(k), PriorPart, St(t)) /\ PriorPart \in Seq(Codes)
  <2>1. Leads(St(k), (LinearizePart \o C2DPart) \o Predict, St(t))
    BY <1>7, <1>9, <1>10, LeadsOn
  <2>2. \A p, q \in Seq(Codes) : p \o q \in Seq(Codes)
    OBVIOUS
  <2> QED BY <1>9, <2>1, <2>2 DEF PriorPart
<1>12. Changes(k, t, PriorWrites)
  <2>1. /\ LinearizePartWrites \in SUBSET Members /\ C2DPartWrites \in SUBSET Members
        /\ {"v0", "xk", "m0", "AdT", "m1", "P"} \in SUBSET Members
        /\ LinearizePartWrites \cup C2DPartWrites \in SUBSET Members
    BY UsesAre, WritesAre, Names
  <2>2. Changes(k, k2, LinearizePartWrites \cup C2DPartWrites)
    BY <1>1, <1>4, <2>1, ChangesOn
  <2> QED BY <1>7, <2>1, <2>2, ChangesOn DEF PriorWrites
<1> QED BY <1>7, <1>8, <1>11, <1>12

\* A whole discrete update, from members that have their types: it ends the
\* program where the innovation is singular.
LEMMA DiscreteRun ==
  ASSUME NEW k, Typed(k, Uses)
  PROVE  \E t : /\ Run(k, discreteKalmanFilter)
                     = [kf |-> t, fate |-> IF Det(InnovationP(k)) = 0 THEN "exited" ELSE "ready"]
                /\ Changes(k, t, DiscreteWrites)
                /\ t["Ac"] = NewAc(k) /\ t["Ad"] = NewAd(k) /\ t["Bd"] = NewBd(k)
                /\ Det(InnovationP(k)) = 0 => /\ t["k"] = k["k"] /\ t["xk"] = PriorX(k)
                                              /\ t["P"] = PriorP(k) /\ t["x_est"] = k["x_est"]
                /\ Det(InnovationP(k)) # 0 => /\ t["k"] = NewGain(k) /\ t["xk"] = PosteriorX(k)
                                              /\ t["P"] = PosteriorP(k) /\ t["x_est"] = PosteriorX(k)
<1>1. PICK k1 : /\ Leads(St(k), PriorPart, St(k1))
                /\ Changes(k, k1, PriorWrites)
                /\ k1["Ac"] = NewAc(k) /\ k1["Ad"] = NewAd(k) /\ k1["Bd"] = NewBd(k)
                /\ k1["xk"] = PriorX(k) /\ k1["P"] = PriorP(k)
  BY PriorRun
<1>2. Typed(k1, Uses)
  BY <1>1, UsesAre, WritesAre, TypedAfter
<1>3. /\ k1["H"] = k["H"] /\ k1["R"] = k["R"] /\ k1["z"] = k["z"] /\ k1["k"] = k["k"]
      /\ k1["x_est"] = k["x_est"]
  BY <1>1, Names DEF Changes, PriorWrites, LinearizePartWrites, LinearizeWrites, C2DPartWrites
<1>4. Typed(k1, {"H", "P", "R", "HT", "m0", "m1", "m2", "k"})
  <2>1. {"H", "P", "R", "HT", "m0", "m1", "m2", "k"} \in SUBSET Uses
    BY DEF Uses, Plain
  <2> QED BY <1>2, <2>1, TypedLess
<1>5. InnovationP(k) = Add(Mul(Mul(k1["H"], k1["P"]), Trans(k1["H"])), k1["R"])
  BY <1>1, <1>3 DEF InnovationP
<1>6. /\ discreteKalmanFilter = (PriorPart \o Gain) \o Correct
      /\ PriorPart \in Seq(Codes) /\ Gain \in Seq(Codes) /\ Correct \in Seq(Codes)
      /\ PriorPart \o Gain \in Seq(Codes)
      /\ (PriorPart \o Gain) \o Correct \in Seq(Codes)
  <2>1. discreteKalmanFilter = (PriorPart \o Gain) \o Correct
    BY DEF discreteKalmanFilter, PriorPart, LinearizePart, C2DPart
  <2>2. \A p, q \in Seq(Codes) : p \o q \in Seq(Codes)
    OBVIOUS
  <2>3. Gain \in Seq(Codes)
    BY GainIs
  <2> QED BY <2>1, <2>2, <2>3, PriorRun, DiscreteSeq
<1>7. Len(discreteKalmanFilter) \in Nat
  BY <1>6
<1>8. /\ PriorWrites \in SUBSET Members /\ DiscreteWrites \in SUBSET Members
      /\ {"m0", "HT", "m1", "m2"} \in SUBSET Members
      /\ {"m0", "HT", "m1", "m2", "k"} \in SUBSET Members
      /\ {"v0", "v1", "xk", "m0", "m1", "m2", "P", "x_est"} \in SUBSET Members
  BY UsesAre, WritesAre, Names
<1>9. CASE Det(InnovationP(k)) = 0
  <2>1. PICK t : /\ Leads(St(k1), Gain, [kf |-> t, fate |-> "exited"])
                 /\ Changes(k1, t, {"m0", "HT", "m1", "m2"})
    BY <1>4, <1>5, <1>9, WholeGain
  <2> DEFINE e == [kf |-> t, fate |-> "exited"]
  <2>2. e.fate # "ready"
    OBVIOUS
  <2> HIDE DEF e
  <2>3. Leads(St(k), PriorPart \o Gain, e)
    BY <1>1, <1>6, <2>1, LeadsOn DEF e
  <2>4. Leads(e, Correct, e)
    BY <1>6, <2>2, LeadsEnded
  <2>5. Leads(St(k), discreteKalmanFilter, e)
    BY <1>6, <2>3, <2>4, LeadsOn
  <2>6. Run(k, discreteKalmanFilter) = e
    BY <1>7, <2>5, RunLeads DEF St
  <2>7. Changes(k, t, PriorWrites \cup {"m0", "HT", "m1", "m2"})
    BY <1>1, <1>8, <2>1, ChangesOn
  <2>8. Changes(k, t, DiscreteWrites)
    <3>1. PriorWrites \cup {"m0", "HT", "m1", "m2"} \subseteq DiscreteWrites
      BY DEF PriorWrites, DiscreteWrites
    <3>2. Typed(k, DiscreteWrites)
      BY WritesAre, TypedLess
    <3> QED BY <1>8, <2>7, <3>1, <3>2, ChangesMore
  <2>9. /\ t["Ac"] = k1["Ac"] /\ t["Ad"] = k1["Ad"] /\ t["Bd"] = k1["Bd"] /\ t["k"] = k1["k"]
        /\ t["xk"] = k1["xk"] /\ t["P"] = k1["P"] /\ t["x_est"] = k1["x_est"]
    BY <2>1, Names DEF Changes
  <2> QED BY <1>1, <1>3, <1>9, <2>6, <2>8, <2>9 DEF e
<1>10. CASE Det(InnovationP(k)) # 0
  <2>1. PICK k2 : /\ Leads(St(k1), Gain, St(k2))
                  /\ Changes(k1, k2, {"m0", "HT", "m1", "m2", "k"})
                  /\ k2["k"] = NewGain(k)
    BY <1>1, <1>3, <1>4, <1>5, <1>10, WholeGain DEF NewGain
  <2>2. Typed(k2, Uses)
    BY <1>2, <1>8, <2>1, UsesAre, TypedAfter
  <2>3. /\ k2["H"] = k["H"] /\ k2["R"] = k["R"] /\ k2["z"] = k["z"]
        /\ k2["xk"] = PriorX(k) /\ k2["P"] = PriorP(k)
        /\ k2["Ac"] = NewAc(k) /\ k2["Ad"] = NewAd(k) /\ k2["Bd"] = NewBd(k)
    BY <1>1, <1>3, <2>1, Names DEF Changes
  <2>4. Typed(k2, {"H", "xk", "z", "k", "P", "R", "v0", "v1", "m0", "m1", "m2", "x_est"})
    <3>1. {"H", "xk", "z", "k", "P", "R", "v0", "v1", "m0", "m1", "m2", "x_est"} \in SUBSET Uses
      BY DEF Uses, Plain
    <3> QED BY <2>2, <3>1, TypedLess
  <2>5. PICK t : /\ Leads(St(k2), Correct, St(t))
                 /\ Changes(k2, t, {"v0", "v1", "xk", "m0", "m1", "m2", "P", "x_est"})
                 /\ t["xk"] = PosteriorX(k) /\ t["x_est"] = PosteriorX(k)
                 /\ t["P"] = PosteriorP(k)
    BY <2>1, <2>3, <2>4, CorrectRun DEF PosteriorX, PosteriorP
  <2>6. Leads(St(k), PriorPart \o Gain, St(k2))
    BY <1>1, <1>6, <2>1, LeadsOn
  <2>7. Leads(St(k), discreteKalmanFilter, St(t))
    BY <1>6, <2>5, <2>6, LeadsOn
  <2>8. Run(k, discreteKalmanFilter) = St(t)
    BY <1>7, <2>7, RunLeads DEF St
  <2>9. Changes(k, t, DiscreteWrites)
    <3> DEFINE V == {"m0", "HT", "m1", "m2", "k"}  X == {"v0", "v1", "xk", "m0", "m1", "m2", "P", "x_est"}
    <3>1. PriorWrites \cup V \in SUBSET Members
      BY <1>8
    <3>2. Changes(k, k2, PriorWrites \cup V)
      BY <1>1, <1>8, <2>1, ChangesOn
    <3>3. Changes(k, t, (PriorWrites \cup V) \cup X)
      BY <1>8, <2>5, <3>1, <3>2, ChangesOn
    <3>4. (PriorWrites \cup V) \cup X \subseteq DiscreteWrites
      BY DEF PriorWrites, DiscreteWrites
    <3>5. Typed(k, DiscreteWrites)
      BY WritesAre, TypedLess
    <3> QED BY <1>8, <3>3, <3>4, <3>5, ChangesMore
  <2>10. /\ t["Ac"] = k2["Ac"] /\ t["Ad"] = k2["Ad"] /\ t["Bd"] = k2["Bd"] /\ t["k"] = k2["k"]
    BY <2>5, Names DEF Changes
  <2> QED BY <1>10, <2>1, <2>3, <2>5, <2>8, <2>9, <2>10 DEF St
<1> QED BY <1>9, <1>10
-----------------------------------------------------------------------------
(* The slope of the covariance.                                            *)

LEMMA MidOn ==
  ASSUME NEW j, NEW k, NEW L \in SUBSET Members, NEW W \in SUBSET L, Mid(j, k, L, W),
         NEW V \in SUBSET W, NEW t, Changes(k, t, V)
  PROVE  Mid(j, t, L, W)
BY DEF Mid, Changes, Typed

\* A program that has ended does nothing more; one may end at its first call.
LEMMA LeadsStuck ==
  ASSUME NEW s, NEW e, NEW p \in Seq(Codes), NEW q \in Seq(Codes), e.fate # "ready", Leads(s, p, e)
  PROVE  Leads(s, p \o q, e) /\ p \o q \in Seq(Codes)
<1>1. Leads(e, q, e)
  BY LeadsEnded
<1>2. p \o q \in Seq(Codes)
  OBVIOUS
<1> QED BY <1>1, <1>2, LeadsOn

LEMMA LeadsFirst ==
  ASSUME NEW s, NEW e, NEW p \in Seq(Codes), Len(p) > 0, e.fate # "ready", Exec(s, p[1]) = e
  PROVE  Leads(s, p, e)
<1> DEFINE A == [i \in 1..(Len(p) + 1) |-> IF i = 1 THEN s ELSE e]
<1>1. \A x : Exec(e, x) = e
  BY DEF Exec
<1>2. Len(p) \in Nat /\ A[1] = s /\ A[Len(p) + 1] = e
  OBVIOUS
<1>3. \A i \in 1..Len(p) : A[i + 1] = e
  BY <1>2
<1>4. \A i \in 1..Len(p) : A[i + 1] = Exec(A[i], p[i])
  BY <1>1, <1>2, <1>3
<1> QED BY <1>2, <1>4 DEF Leads

SlopeWrites == {"m0", "AcT", "m1", "HT", "m2"}
PSlope(A, k, p) ==
  Add(Mul(Mul(Sub(Add(Mul(A, p), Mul(p, Trans(A))), Mul(p, Trans(k["H"]))), InverseOf(k["R"])),
          Mul(p, k["H"])), k["Q"])

LEMMA PmodelIs ==
  ASSUME NEW P \in Members, NEW Pdot \in Members
  PROVE  /\ pmodel(P, Pdot) = (SlopeFirst(P) \o <<matrixInv("m1", "m2")>>) \o SlopeLast(P, Pdot)
         /\ SlopeFirst(P) \in Seq(Codes) /\ SlopeLast(P, Pdot) \in Seq(Codes)
         /\ <<matrixInv("m1", "m2")>> \in Seq(Codes)
         /\ SlopeFirst(P) \o <<matrixInv("m1", "m2")>> \in Seq(Codes)
         /\ pmodel(P, Pdot) \in Seq(Codes)
<1>1. pmodel(P, Pdot) = (SlopeFirst(P) \o <<matrixInv("m1", "m2")>>) \o SlopeLast(P, Pdot)
  BY DEF pmodel, SlopeFirst, SlopeLast
<1>2. matrixInv("m1", "m2") \in Codes
  BY CodesAre, Names
<1>3. SlopeFirst(P) \in Seq(Codes) /\ SlopeLast(P, Pdot) \in Seq(Codes) /\ <<matrixInv("m1", "m2")>> \in Seq(Codes)
  BY <1>2, ContinuousSeq
<1>4. \A p, q \in Seq(Codes) : p \o q \in Seq(Codes)
  OBVIOUS
<1> QED BY <1>1, <1>3, <1>4

\* A singular measurement noise ends the program.
LEMMA PmodelRun ==
  ASSUME NEW P \in {"P", "tmpm"}, NEW Pdot \in {"tmpm", "tmp2m"}, P # Pdot,
         NEW k, Typed(k, {"Ac", "H", "R", "Q", P, Pdot} \cup SlopeWrites)
  PROVE  /\ Det(k["R"]) = 0 => \E t : /\ Leads(St(k), pmodel(P, Pdot), [kf |-> t, fate |-> "exited"])
                                      /\ Changes(k, t, SlopeWrites)
         /\ Det(k["R"]) # 0 => \E t : /\ Leads(St(k), pmodel(P, Pdot), St(t))
                                      /\ Changes(k, t, SlopeWrites \cup {Pdot})
                                      /\ t[Pdot] = PSlope(k["Ac"], k, k[P])
<1> DEFINE L == {"Ac", "H", "R", "Q", P, Pdot} \cup SlopeWrites
<1>0. L \in SUBSET Members /\ P \in Members /\ Pdot \in Members /\ SlopeWrites \in SUBSET Members
  BY Names DEF SlopeWrites
<1>1. /\ pmodel(P, Pdot) = (SlopeFirst(P) \o <<matrixInv("m1", "m2")>>) \o SlopeLast(P, Pdot)
      /\ SlopeFirst(P) \in Seq(Codes) /\ SlopeLast(P, Pdot) \in Seq(Codes)
      /\ <<matrixInv("m1", "m2")>> \in Seq(Codes)
      /\ SlopeFirst(P) \o <<matrixInv("m1", "m2")>> \in Seq(Codes)
  BY <1>0, PmodelIs
<1>2. PICK k1 : /\ Leads(St(k), SlopeFirst(P), St(k1))
                /\ Changes(k, k1, {"m0", "AcT", "m1", "HT"})
                /\ k1["m0"] = Sub(Add(Mul(k["Ac"], k[P]), Mul(k[P], Trans(k["Ac"]))), Mul(k[P], Trans(k["H"])))
                /\ k1["m1"] = k["R"]
  <2>1. Typed(k, {"Ac", "H", "R", P, "m0", "AcT", "m1", "HT"})
    BY TypedLess DEF SlopeWrites
  <2> QED BY <2>1, SlopeFirstRun
<1>3. Typed(k1, L)
  <2>1. {"m0", "AcT", "m1", "HT"} \in SUBSET Members
    BY Names
  <2> QED BY <1>0, <1>2, <2>1, TypedAfter
<1>4. k1[P] = k[P] /\ k1["H"] = k["H"] /\ k1["Q"] = k["Q"]
  BY <1>0, <1>2, Names DEF Changes
<1>5. Typed(k1, {"m1", "m2"})
  BY <1>3, TypedLess DEF SlopeWrites
<1> HIDE DEF L
<1>6. ASSUME Det(k["R"]) = 0
      PROVE  \E t : /\ Leads(St(k), pmodel(P, Pdot), [kf |-> t, fate |-> "exited"])
                    /\ Changes(k, t, SlopeWrites)
  <2> DEFINE e == [kf |-> k1, fate |-> "exited"]
  <2>1. Leads(St(k1), <<matrixInv("m1", "m2")>>, e)
    BY <1>2, <1>5, <1>6, InversionRun
  <2>2. e.fate # "ready"
    OBVIOUS
  <2> HIDE DEF e
  <2>3. Leads(St(k), SlopeFirst(P) \o <<matrixInv("m1", "m2")>>, e)
    BY <1>1, <1>2, <2>1, LeadsOn
  <2>4. Leads(St(k), pmodel(P, Pdot), e)
    <3>1. Leads(St(k), (SlopeFirst(P) \o <<matrixInv("m1", "m2")>>) \o SlopeLast(P, Pdot), e)
      BY <1>1, <2>2, <2>3, LeadsStuck
    <3> QED BY <1>1, <3>1
  <2>5. Changes(k, k1, SlopeWrites)
    <3>1. Typed(k, SlopeWrites)
      BY TypedLess DEF SlopeWrites
    <3>2. {"m0", "AcT", "m1", "HT"} \subseteq SlopeWrites
      BY DEF SlopeWrites
    <3> QED BY <1>0, <1>2, <3>1, <3>2, ChangesMore
  <2> QED BY <2>4, <2>5 DEF e
<1>7. ASSUME Det(k["R"]) # 0
      PROVE  \E t : /\ Leads(St(k), pmodel(P, Pdot), St(t))
                    /\ Changes(k, t, SlopeWrites \cup {Pdot})
                    /\ t[Pdot] = PSlope(k["Ac"], k, k[P])
  <2>1. PICK k2 : /\ Leads(St(k1), <<matrixInv("m1", "m2")>>, St(k2))
                  /\ Changes(k1, k2, {"m1", "m2"})
                  /\ k2["m1"] = InverseOf(k["R"])
    BY <1>2, <1>5, <1>7, InversionRun
  <2>2. Typed(k2, L)
    <3>1. {"m1", "m2"} \in SUBSET Members
      BY Names
    <3> QED BY <1>0, <1>3, <2>1, <3>1, TypedAfter
  <2>3. k2[P] = k[P] /\ k2["H"] = k["H"] /\ k2["Q"] = k["Q"] /\ k2["m0"] = k1["m0"]
    BY <1>0, <1>4, <2>1, Names DEF Changes
  <2>4. PICK t : /\ Leads(St(k2), SlopeLast(P, Pdot), St(t))
                 /\ Changes(k2, t, {"m2", "m1", "m0", Pdot})
                 /\ t[Pdot] = Add(Mul(Mul(k2["m0"], k2["m1"]), Mul(k2[P], k2["H"])), k2["Q"])
    <3>1. Typed(k2, {"m0", "m1", P, "H", "Q", "m2", Pdot})
      BY <2>2, TypedLess DEF L, SlopeWrites
    <3> QED BY <3>1, SlopeLastRun
  <2>5. Leads(St(k), SlopeFirst(P) \o <<matrixInv("m1", "m2")>>, St(k2))
    BY <1>1, <1>2, <2>1, LeadsOn
  <2>6. Leads(St(k), pmodel(P, Pdot), St(t))
    BY <1>1, <2>4, <2>5, LeadsOn
  <2>7. Changes(k, t, SlopeWrites \cup {Pdot})
    <3> DEFINE W == SlopeWrites \cup {Pdot}
    <3>1. W \in SUBSET L
      BY DEF L
    <3>2. Mid(k, k, L, W)
      BY <1>0, <3>1, MidStart DEF L
    <3>3. {"m0", "AcT", "m1", "HT"} \in SUBSET W /\ {"m1", "m2"} \in SUBSET W /\ {"m2", "m1", "m0", Pdot} \in SUBSET W
      BY DEF SlopeWrites
    <3> HIDE DEF W
    <3>4. Mid(k, k1, L, W)
      BY <1>0, <1>2, <3>1, <3>2, <3>3, MidOn
    <3>5. Mid(k, k2, L, W)
      BY <1>0, <2>1, <3>1, <3>3, <3>4, MidOn
    <3>6. Mid(k, t, L, W)
      BY <1>0, <2>4, <3>1, <3>3, <3>5, MidOn
    <3> QED BY <3>6 DEF Mid, W
  <2> QED BY <1>2, <2>1, <2>3, <2>4, <2>6, <2>7 DEF PSlope
<1> QED BY <1>6, <1>7
-----------------------------------------------------------------------------
(* int_P and int_X. *)

LEMMA SumOrder ==
  ASSUME NEW a \in Matrix, NEW b \in Matrix, NEW c \in Matrix, NEW d \in Matrix
  PROVE  Add(Add(Add(b, c), a), d) = Add(Add(a, b), Add(c, d))
<1>1. /\ Add(b, c) \in Matrix /\ Add(Add(b, c), a) \in Matrix /\ Add(a, b) \in Matrix
      /\ Add(c, d) \in Matrix
  BY MatrixClosed
<1>2. /\ Add(Add(Add(b, c), a), d) \in Matrix /\ Add(Add(a, b), Add(c, d)) \in Matrix
  BY <1>1, MatrixClosed
<1>3. ASSUME NEW i \in Index, NEW j \in Index
      PROVE  Add(Add(Add(b, c), a), d)[i][j] = Add(Add(a, b), Add(c, d))[i][j]
  <2> DEFINE p == a[i][j]  q == b[i][j]  r == c[i][j]  s == d[i][j]
  <2>1. p \in Int /\ q \in Int /\ r \in Int /\ s \in Int
    BY Entries
  <2>2. Add(Add(Add(b, c), a), d)[i][j] = N(N(N(q + r) + p) + s)
    BY <1>1, AddIs
  <2>3. Add(Add(a, b), Add(c, d))[i][j] = N(N(p + q) + N(r + s))
    BY <1>1, AddIs
  <2> HIDE DEF p, q, r, s
  <2>4. N(N(p + q) + N(r + s)) = N(p + q + (r + s))
    BY <2>1, NormSum
  <2>5. N(N(q + r) + p) = N(q + r + p)
    BY <2>1, NormSum
  <2>6. N(N(q + r + p) + s) = N(q + r + p + s)
    BY <2>1, NormSum
  <2>7. q + r + p + s = p + q + (r + s)
    BY <2>1
  <2> QED BY <2>2, <2>3, <2>4, <2>5, <2>6, <2>7
<1> QED BY <1>2, <1>3, SameMatrix

LEMMA SumOrderVector ==
  ASSUME NEW a \in Vector, NEW b \in Vector, NEW c \in Vector, NEW d \in Vector
  PROVE  Add(Add(Add(b, c), a), d) = Add(Add(a, b), Add(c, d))
<1>1. /\ Add(b, c) \in Vector /\ Add(Add(b, c), a) \in Vector /\ Add(a, b) \in Vector
      /\ Add(c, d) \in Vector
  BY VectorClosed
<1>2. /\ Add(Add(Add(b, c), a), d) \in Vector /\ Add(Add(a, b), Add(c, d)) \in Vector
  BY <1>1, VectorClosed
<1>3. ASSUME NEW i \in Index
      PROVE  Add(Add(Add(b, c), a), d)[i][1] = Add(Add(a, b), Add(c, d))[i][1]
  <2> DEFINE p == a[i][1]  q == b[i][1]  r == c[i][1]  s == d[i][1]
  <2>1. p \in Int /\ q \in Int /\ r \in Int /\ s \in Int
    BY VectorEntries
  <2>2. Add(Add(Add(b, c), a), d)[i][1] = N(N(N(q + r) + p) + s)
    BY <1>1, AddVector
  <2>3. Add(Add(a, b), Add(c, d))[i][1] = N(N(p + q) + N(r + s))
    BY <1>1, AddVector
  <2> HIDE DEF p, q, r, s
  <2>4. N(N(p + q) + N(r + s)) = N(p + q + (r + s))
    BY <2>1, NormSum
  <2>5. N(N(q + r) + p) = N(q + r + p)
    BY <2>1, NormSum
  <2>6. N(N(q + r + p) + s) = N(q + r + p + s)
    BY <2>1, NormSum
  <2>7. q + r + p + s = p + q + (r + s)
    BY <2>1
  <2> QED BY <2>2, <2>3, <2>4, <2>5, <2>6, <2>7
<1> QED BY <1>2, <1>3, SameVector

LEMMA PSlopeMatrix ==
  ASSUME NEW A \in Matrix, NEW k, Typed(k, {"H", "R", "Q"}), Det(k["R"]) # 0, NEW p \in Matrix
  PROVE  PSlope(A, k, p) \in Matrix
<1> DEFINE h == k["H"]  r == k["R"]  q == k["Q"]
<1>1. h \in Matrix /\ r \in Matrix /\ q \in Matrix
  BY Types DEF Typed
<1>2. InverseOf(r) \in Matrix
  BY <1>1, InverseMul
<1> HIDE DEF h, r, q
<1>3. Mul(A, p) \in Matrix /\ Trans(A) \in Matrix /\ Trans(h) \in Matrix /\ Mul(p, h) \in Matrix
  BY <1>1, MatrixClosed
<1>4. Mul(p, Trans(A)) \in Matrix /\ Mul(p, Trans(h)) \in Matrix
  BY <1>3, MatrixClosed
<1>5. Sub(Add(Mul(A, p), Mul(p, Trans(A))), Mul(p, Trans(h))) \in Matrix
  BY <1>3, <1>4, MatrixClosed
<1>6. Mul(Mul(Sub(Add(Mul(A, p), Mul(p, Trans(A))), Mul(p, Trans(h))), InverseOf(r)), Mul(p, h)) \in Matrix
  BY <1>2, <1>3, <1>5, MatrixClosed
<1> QED BY <1>1, <1>6, MatrixClosed DEF PSlope, h, r, q

XSlope(g, k, x) == Add(ModelOf(k["model"], x, k["u"]), Mul(g, Sub(k["z"], Mul(k["H"], x))))

LEMMA XSlopeVector ==
  ASSUME NEW g \in Matrix, NEW k, Typed(k, {"model", "u", "z", "H"}), NEW x \in Vector
  PROVE  XSlope(g, k, x) \in Vector
<1>1. k["model"] \in SecondDegree /\ k["u"] \in Single /\ k["z"] \in Vector /\ k["H"] \in Matrix
  BY Types DEF Typed
<1>2. ModelOf(k["model"], x, k["u"]) \in Vector
  BY <1>1, ModelVector
<1>3. Mul(g, Sub(k["z"], Mul(k["H"], x))) \in Vector
  BY <1>1, VectorClosed
<1> QED BY <1>2, <1>3, VectorClosed DEF XSlope

IntegratePWrites == SlopeWrites \cup Locals \cup {"P"}
IntegratePUses   == {"Ac", "H", "R", "Q"} \cup IntegratePWrites

\* int_P, as its pieces and the sums of the first of them.
PieceP(i) ==
  CASE i = 1 -> pmodel("P", "tmpm")
    [] i = 2 -> HalfStep("P", "tmpm", "k1m", "tmpm")
    [] i = 3 -> pmodel("tmpm", "tmp2m")
    [] i = 4 -> HalfStep("P", "tmp2m", "k2m", "tmpm")
    [] i = 5 -> pmodel("tmpm", "tmp2m")
    [] i = 6 -> WholeStep("P", "tmp2m", "k3m", "tmpm")
    [] i = 7 -> pmodel("tmpm", "tmp2m")
    [] i = 8 -> LastStep("P", "k1m", "k2m", "k3m", "k4m", "tmpm", "tmp2m")
First2P == PieceP(1) \o PieceP(2)
First3P == First2P \o PieceP(3)
First4P == First3P \o PieceP(4)
First5P == First4P \o PieceP(5)
First6P == First5P \o PieceP(6)
First7P == First6P \o PieceP(7)
First8P == First7P \o PieceP(8)

LEMMA PiecesPAre ==
  /\ PieceP(1) = pmodel("P", "tmpm")
  /\ PieceP(2) = HalfStep("P", "tmpm", "k1m", "tmpm")
  /\ PieceP(3) = pmodel("tmpm", "tmp2m")
  /\ PieceP(4) = HalfStep("P", "tmp2m", "k2m", "tmpm")
  /\ PieceP(5) = pmodel("tmpm", "tmp2m")
  /\ PieceP(6) = WholeStep("P", "tmp2m", "k3m", "tmpm")
  /\ PieceP(7) = pmodel("tmpm", "tmp2m")
  /\ PieceP(8) = LastStep("P", "k1m", "k2m", "k3m", "k4m", "tmpm", "tmp2m")
  /\ PieceP(1) \in Seq(Codes)
  /\ PieceP(2) \in Seq(Codes)
  /\ PieceP(3) \in Seq(Codes)
  /\ PieceP(4) \in Seq(Codes)
  /\ PieceP(5) \in Seq(Codes)
  /\ PieceP(6) \in Seq(Codes)
  /\ PieceP(7) \in Seq(Codes)
  /\ PieceP(8) \in Seq(Codes)
  /\ First2P \in Seq(Codes)
  /\ First3P \in Seq(Codes)
  /\ First4P \in Seq(Codes)
  /\ First5P \in Seq(Codes)
  /\ First6P \in Seq(Codes)
  /\ First7P \in Seq(Codes)
  /\ First8P \in Seq(Codes)
  /\ First8P = int_P
<1>1. PieceP(1) = pmodel("P", "tmpm") /\ PieceP(1) \in Seq(Codes)
  <2>1. PieceP(1) = pmodel("P", "tmpm")
    BY DEF PieceP
  <2> QED BY <2>1, PmodelIs, Names
<1>2. PieceP(2) = HalfStep("P", "tmpm", "k1m", "tmpm") /\ PieceP(2) \in Seq(Codes)
  <2>1. PieceP(2) = HalfStep("P", "tmpm", "k1m", "tmpm")
    BY DEF PieceP
  <2>2. "P" \in Members /\ "tmpm" \in Members /\ "k1m" \in Members
    BY Names
  <2>3. HalfStep("P", "tmpm", "k1m", "tmpm") \in Seq(Codes)
    BY <2>2, StepSeq
  <2> QED BY <2>1, <2>3
<1>3. PieceP(3) = pmodel("tmpm", "tmp2m") /\ PieceP(3) \in Seq(Codes)
  <2>1. PieceP(3) = pmodel("tmpm", "tmp2m")
    BY DEF PieceP
  <2> QED BY <2>1, PmodelIs, Names
<1>4. PieceP(4) = HalfStep("P", "tmp2m", "k2m", "tmpm") /\ PieceP(4) \in Seq(Codes)
  <2>1. PieceP(4) = HalfStep("P", "tmp2m", "k2m", "tmpm")
    BY DEF PieceP
  <2>2. "P" \in Members /\ "tmp2m" \in Members /\ "k2m" \in Members /\ "tmpm" \in Members
    BY Names
  <2>3. HalfStep("P", "tmp2m", "k2m", "tmpm") \in Seq(Codes)
    BY <2>2, StepSeq
  <2> QED BY <2>1, <2>3
<1>5. PieceP(5) = pmodel("tmpm", "tmp2m") /\ PieceP(5) \in Seq(Codes)
  <2>1. PieceP(5) = pmodel("tmpm", "tmp2m")
    BY DEF PieceP
  <2> QED BY <2>1, PmodelIs, Names
<1>6. PieceP(6) = WholeStep("P", "tmp2m", "k3m", "tmpm") /\ PieceP(6) \in Seq(Codes)
  <2>1. PieceP(6) = WholeStep("P", "tmp2m", "k3m", "tmpm")
    BY DEF PieceP
  <2>2. "P" \in Members /\ "tmp2m" \in Members /\ "k3m" \in Members /\ "tmpm" \in Members
    BY Names
  <2>3. WholeStep("P", "tmp2m", "k3m", "tmpm") \in Seq(Codes)
    BY <2>2, StepSeq
  <2> QED BY <2>1, <2>3
<1>7. PieceP(7) = pmodel("tmpm", "tmp2m") /\ PieceP(7) \in Seq(Codes)
  <2>1. PieceP(7) = pmodel("tmpm", "tmp2m")
    BY DEF PieceP
  <2> QED BY <2>1, PmodelIs, Names
<1>8. PieceP(8) = LastStep("P", "k1m", "k2m", "k3m", "k4m", "tmpm", "tmp2m") /\ PieceP(8) \in Seq(Codes)
  <2>1. PieceP(8) = LastStep("P", "k1m", "k2m", "k3m", "k4m", "tmpm", "tmp2m")
    BY DEF PieceP
  <2>2. "P" \in Members /\ "k1m" \in Members /\ "k2m" \in Members /\ "k3m" \in Members /\ "k4m" \in Members /\ "tmpm" \in Members /\ "tmp2m" \in Members
    BY Names
  <2>3. LastStep("P", "k1m", "k2m", "k3m", "k4m", "tmpm", "tmp2m") \in Seq(Codes)
    BY <2>2, StepSeq
  <2> QED BY <2>1, <2>3
<1>9. \A p, q \in Seq(Codes) : p \o q \in Seq(Codes)
  OBVIOUS
<1>10. First2P \in Seq(Codes)
  BY <1>1, <1>2, <1>9 DEF First2P
<1>11. First3P \in Seq(Codes)
  BY <1>10, <1>3, <1>9 DEF First3P
<1>12. First4P \in Seq(Codes)
  BY <1>11, <1>4, <1>9 DEF First4P
<1>13. First5P \in Seq(Codes)
  BY <1>12, <1>5, <1>9 DEF First5P
<1>14. First6P \in Seq(Codes)
  BY <1>13, <1>6, <1>9 DEF First6P
<1>15. First7P \in Seq(Codes)
  BY <1>14, <1>7, <1>9 DEF First7P
<1>16. First8P \in Seq(Codes)
  BY <1>15, <1>8, <1>9 DEF First8P
<1>17. First8P = int_P
  BY <1>1, <1>2, <1>3, <1>4, <1>5, <1>6, <1>7, <1>8
     DEF First2P, First3P, First4P, First5P, First6P, First7P, First8P, int_P, Integrate, HalfStep, WholeStep, LastStep
<1> QED BY <1>1, <1>2, <1>3, <1>4, <1>5, <1>6, <1>7, <1>8, <1>10, <1>11, <1>12, <1>13, <1>14, <1>15, <1>16, <1>17

LEMMA IntegratePRun ==
  ASSUME NEW k, Typed(k, IntegratePUses), Det(k["R"]) # 0
  PROVE  \E t : /\ Leads(St(k), First8P, St(t))
                /\ Changes(k, t, IntegratePWrites)
                /\ t["P"] = RungeKutta([y \in Matrix |-> PSlope(k["Ac"], k, y)], k["P"])
<1> DEFINE L == IntegratePUses  W == IntegratePWrites
           x == k["P"]  h == Recip(2)
           s1 == PSlope(k["Ac"], k, x)  a1 == MulS(s1, dt)  y1 == Add(x, MulS(a1, h))
           s2 == PSlope(k["Ac"], k, y1)  a2 == MulS(s2, dt)  y2 == Add(x, MulS(a2, h))
           s3 == PSlope(k["Ac"], k, y2)  a3 == MulS(s3, dt)  y3 == Add(x, a3)
           s4 == PSlope(k["Ac"], k, y3)  a4 == MulS(s4, dt)
           f == [y \in Matrix |-> PSlope(k["Ac"], k, y)]
<1>1. L \in SUBSET Members /\ W \in SUBSET L
  BY Names DEF IntegratePUses, IntegratePWrites, SlopeWrites, Locals
<1>2. Mid(k, k, L, W)
  BY <1>1, MidStart
<1>3. ASSUME NEW t, Mid(k, t, L, W)
      PROVE  /\ t["Ac"] = k["Ac"] /\ t["H"] = k["H"] /\ t["R"] = k["R"] /\ t["Q"] = k["Q"]
             /\ Typed(t, {"Ac", "H", "R", "Q", "P", "tmpm"} \cup SlopeWrites)
             /\ Typed(t, {"Ac", "H", "R", "Q", "tmpm", "tmp2m"} \cup SlopeWrites)
  <2>1. t["Ac"] = k["Ac"] /\ t["H"] = k["H"] /\ t["R"] = k["R"] /\ t["Q"] = k["Q"]
    BY <1>1, <1>3, Names DEF Mid, Changes, IntegratePWrites, SlopeWrites, Locals
  <2>2. Typed(t, L)
    BY <1>3 DEF Mid
  <2> QED BY <2>1, <2>2, TypedLess DEF IntegratePUses, IntegratePWrites, SlopeWrites, Locals
<1>4. x \in Matrix /\ h \in Int /\ dt \in Int /\ \A y \in Matrix : PSlope(k["Ac"], k, y) \in Matrix
  <2>1. Typed(k, {"H", "R", "Q"})
    BY TypedLess DEF IntegratePUses
  <2>2. x \in Matrix /\ k["Ac"] \in Matrix
    BY Types DEF Typed, IntegratePUses, IntegratePWrites
  <2>3. \A y \in Matrix : PSlope(k["Ac"], k, y) \in Matrix
    BY <2>1, <2>2, PSlopeMatrix
  <2> QED BY <2>2, <2>3, StepInt
<1>5. s1 \in Matrix /\ a1 \in Matrix /\ y1 \in Matrix
  BY <1>4, MatrixClosed
<1>6. s2 \in Matrix /\ a2 \in Matrix /\ y2 \in Matrix
  BY <1>4, <1>5, MatrixClosed
<1>7. s3 \in Matrix /\ a3 \in Matrix /\ y3 \in Matrix
  BY <1>4, <1>6, MatrixClosed
<1>8. s4 \in Matrix /\ a4 \in Matrix
  BY <1>4, <1>7, MatrixClosed
<1> HIDE DEF L, W, f, x, h, s1, s2, s3, s4, a1, a2, a3, a4, y1, y2, y3
<1>9. PICK k1 : /\ Leads(St(k), pmodel("P", "tmpm"), St(k1))
                 /\ Changes(k, k1, SlopeWrites \cup {"tmpm"})
                 /\ k1["tmpm"] = s1
  BY <1>3, <1>2, PmodelRun DEF PSlope , x, s1
<1>10. Mid(k, k1, L, W)
  <2>1. SlopeWrites \cup {"tmpm"} \in SUBSET W
    BY DEF W, IntegratePWrites, SlopeWrites, Locals
  <2> QED BY <1>1, <1>2, <1>9, <2>1, MidOn
<1>11. k1["tmpm"] = s1 /\ k1["P"] = x
  BY <1>9, Names DEF Changes, SlopeWrites, Locals , x
<1>12. Leads(St(k), PieceP(1), St(k1))
  BY <1>9, PiecesPAre
<1>13. PICK k2 : /\ Leads(St(k1), HalfStep("P", "tmpm", "k1m", "tmpm"), St(k2))
                 /\ Changes(k1, k2, {"k1m", "tmpm"})
                 /\ k2["k1m"] = a1 /\ k2["tmpm"] = y1
  <2>1. Typed(k1, {"P", "tmpm", "k1m"})
    BY <1>10, TypedLess DEF Mid, L, IntegratePUses, IntegratePWrites, SlopeWrites, Locals
  <2> QED BY <1>11, <2>1, FirstStepP DEF a1, y1, h
<1>14. Mid(k, k2, L, W)
  <2>1. {"k1m", "tmpm"} \in SUBSET W
    BY DEF W, IntegratePWrites, SlopeWrites, Locals
  <2> QED BY <1>1, <1>10, <1>13, <2>1, MidOn
<1>15. k2["k1m"] = a1 /\ k2["tmpm"] = y1 /\ k2["P"] = x
  BY <1>13, <1>11, Names DEF Changes, SlopeWrites, Locals
<1>16. Leads(St(k), First2P, St(k2))
  <2>1. Leads(St(k1), PieceP(2), St(k2))
    BY <1>13, PiecesPAre
  <2> QED BY <1>12, <2>1, PiecesPAre, LeadsOn DEF First2P
<1>17. PICK k3 : /\ Leads(St(k2), pmodel("tmpm", "tmp2m"), St(k3))
                 /\ Changes(k2, k3, SlopeWrites \cup {"tmp2m"})
                 /\ k3["tmp2m"] = s2
  BY <1>3, <1>14, <1>15, PmodelRun DEF PSlope, s2
<1>18. Mid(k, k3, L, W)
  <2>1. SlopeWrites \cup {"tmp2m"} \in SUBSET W
    BY DEF W, IntegratePWrites, SlopeWrites, Locals
  <2> QED BY <1>1, <1>14, <1>17, <2>1, MidOn
<1>19. k3["tmp2m"] = s2 /\ k3["P"] = x /\ k3["k1m"] = a1
  BY <1>17, <1>15, Names DEF Changes, SlopeWrites, Locals
<1>20. Leads(St(k), First3P, St(k3))
  <2>1. Leads(St(k2), PieceP(3), St(k3))
    BY <1>17, PiecesPAre
  <2> QED BY <1>16, <2>1, PiecesPAre, LeadsOn DEF First3P
<1>21. PICK k4 : /\ Leads(St(k3), HalfStep("P", "tmp2m", "k2m", "tmpm"), St(k4))
                 /\ Changes(k3, k4, {"k2m", "tmpm"})
                 /\ k4["k2m"] = a2 /\ k4["tmpm"] = y2
  <2>1. Typed(k3, {"P", "tmp2m", "k2m", "tmpm"})
    BY <1>18, TypedLess DEF Mid, L, IntegratePUses, IntegratePWrites, SlopeWrites, Locals
  <2> QED BY <1>19, <2>1, SecondStepP DEF a2, y2, h
<1>22. Mid(k, k4, L, W)
  <2>1. {"k2m", "tmpm"} \in SUBSET W
    BY DEF W, IntegratePWrites, SlopeWrites, Locals
  <2> QED BY <1>1, <1>18, <1>21, <2>1, MidOn
<1>23. k4["k2m"] = a2 /\ k4["tmpm"] = y2 /\ k4["P"] = x /\ k4["k1m"] = a1
  BY <1>21, <1>19, Names DEF Changes, SlopeWrites, Locals
<1>24. Leads(St(k), First4P, St(k4))
  <2>1. Leads(St(k3), PieceP(4), St(k4))
    BY <1>21, PiecesPAre
  <2> QED BY <1>20, <2>1, PiecesPAre, LeadsOn DEF First4P
<1>25. PICK k5 : /\ Leads(St(k4), pmodel("tmpm", "tmp2m"), St(k5))
                 /\ Changes(k4, k5, SlopeWrites \cup {"tmp2m"})
                 /\ k5["tmp2m"] = s3
  BY <1>3, <1>22, <1>23, PmodelRun DEF PSlope, s3
<1>26. Mid(k, k5, L, W)
  <2>1. SlopeWrites \cup {"tmp2m"} \in SUBSET W
    BY DEF W, IntegratePWrites, SlopeWrites, Locals
  <2> QED BY <1>1, <1>22, <1>25, <2>1, MidOn
<1>27. k5["tmp2m"] = s3 /\ k5["P"] = x /\ k5["k1m"] = a1 /\ k5["k2m"] = a2
  BY <1>25, <1>23, Names DEF Changes, SlopeWrites, Locals
<1>28. Leads(St(k), First5P, St(k5))
  <2>1. Leads(St(k4), PieceP(5), St(k5))
    BY <1>25, PiecesPAre
  <2> QED BY <1>24, <2>1, PiecesPAre, LeadsOn DEF First5P
<1>29. PICK k6 : /\ Leads(St(k5), WholeStep("P", "tmp2m", "k3m", "tmpm"), St(k6))
                 /\ Changes(k5, k6, {"k3m", "tmpm"})
                 /\ k6["k3m"] = a3 /\ k6["tmpm"] = y3
  <2>1. Typed(k5, {"P", "tmp2m", "k3m", "tmpm"})
    BY <1>26, TypedLess DEF Mid, L, IntegratePUses, IntegratePWrites, SlopeWrites, Locals
  <2> QED BY <1>27, <2>1, ThirdStepP DEF a3, y3
<1>30. Mid(k, k6, L, W)
  <2>1. {"k3m", "tmpm"} \in SUBSET W
    BY DEF W, IntegratePWrites, SlopeWrites, Locals
  <2> QED BY <1>1, <1>26, <1>29, <2>1, MidOn
<1>31. k6["k3m"] = a3 /\ k6["tmpm"] = y3 /\ k6["P"] = x /\ k6["k1m"] = a1 /\ k6["k2m"] = a2
  BY <1>29, <1>27, Names DEF Changes, SlopeWrites, Locals
<1>32. Leads(St(k), First6P, St(k6))
  <2>1. Leads(St(k5), PieceP(6), St(k6))
    BY <1>29, PiecesPAre
  <2> QED BY <1>28, <2>1, PiecesPAre, LeadsOn DEF First6P
<1>33. PICK k7 : /\ Leads(St(k6), pmodel("tmpm", "tmp2m"), St(k7))
                 /\ Changes(k6, k7, SlopeWrites \cup {"tmp2m"})
                 /\ k7["tmp2m"] = s4
  BY <1>3, <1>30, <1>31, PmodelRun DEF PSlope, s4
<1>34. Mid(k, k7, L, W)
  <2>1. SlopeWrites \cup {"tmp2m"} \in SUBSET W
    BY DEF W, IntegratePWrites, SlopeWrites, Locals
  <2> QED BY <1>1, <1>30, <1>33, <2>1, MidOn
<1>35. k7["tmp2m"] = s4 /\ k7["P"] = x /\ k7["k1m"] = a1 /\ k7["k2m"] = a2 /\ k7["k3m"] = a3
  BY <1>33, <1>31, Names DEF Changes, SlopeWrites, Locals
<1>36. Leads(St(k), First7P, St(k7))
  <2>1. Leads(St(k6), PieceP(7), St(k7))
    BY <1>33, PiecesPAre
  <2> QED BY <1>32, <2>1, PiecesPAre, LeadsOn DEF First7P
<1>37. PICK t : /\ Leads(St(k7), LastStep("P", "k1m", "k2m", "k3m", "k4m", "tmpm", "tmp2m"), St(t))
                 /\ Changes(k7, t, {"k4m", "tmpm", "tmp2m", "P"})
                 /\ t["P"] = Add(x, MulS(Add(Add(Add(MulS(a2, 2), MulS(a3, 2)), a1), a4), Recip(6)))
  <2>1. Typed(k7, {"P", "tmp2m", "k1m", "k2m", "k3m", "k4m", "tmpm"})
    BY <1>34, TypedLess DEF Mid, L, IntegratePUses, IntegratePWrites, SlopeWrites, Locals
  <2> QED BY <1>35, <2>1, LastStepP DEF a4
<1>38. Mid(k, t, L, W)
  <2>1. {"k4m", "tmpm", "tmp2m", "P"} \in SUBSET W
    BY DEF W, IntegratePWrites, SlopeWrites, Locals
  <2> QED BY <1>1, <1>34, <1>37, <2>1, MidOn
<1>39. Leads(St(k), First8P, St(t))
  <2>1. Leads(St(k7), PieceP(8), St(t))
    BY <1>37, PiecesPAre
  <2> QED BY <1>36, <2>1, PiecesPAre, LeadsOn DEF First8P
<1>40. Add(Add(Add(MulS(a2, 2), MulS(a3, 2)), a1), a4) = Add(Add(a1, MulS(a2, 2)), Add(MulS(a3, 2), a4))
  <2>1. MulS(a2, 2) \in Matrix /\ MulS(a3, 2) \in Matrix
    BY <1>6, <1>7, MatrixClosed
  <2> QED BY <1>5, <1>8, <2>1, SumOrder
<1>41. RungeKutta(f, x) = Add(x, MulS(Add(Add(a1, MulS(a2, 2)), Add(MulS(a3, 2), a4)), Recip(6)))
  <2>1. f[x] = s1 /\ f[y1] = s2 /\ f[y2] = s3 /\ f[y3] = s4
    BY <1>4, <1>5, <1>6, <1>7 DEF f, s1, s2, s3, s4
  <2> QED BY <2>1 DEF RungeKutta, a1, a2, a3, a4, y1, y2, y3, h
<1> QED BY <1>37, <1>38, <1>39, <1>40, <1>41 DEF f, x, Mid, W
IntegrateXWrites == {"v0", "v1", "v2"} \cup LocalVs \cup {"xk"}
IntegrateXUses   == {"model", "u", "H", "z", "k"} \cup IntegrateXWrites

\* The integral of int_X, as its pieces and the sums of the first of them.
PieceX(i) ==
  CASE i = 1 -> xmodel("xk", "tmpx")
    [] i = 2 -> HalfStep("xk", "tmpx", "k1x", "tmpx")
    [] i = 3 -> xmodel("tmpx", "tmp2x")
    [] i = 4 -> HalfStep("xk", "tmp2x", "k2x", "tmpx")
    [] i = 5 -> xmodel("tmpx", "tmp2x")
    [] i = 6 -> WholeStep("xk", "tmp2x", "k3x", "tmpx")
    [] i = 7 -> xmodel("tmpx", "tmp2x")
    [] i = 8 -> LastStep("xk", "k1x", "k2x", "k3x", "k4x", "tmpx", "tmp2x")
First2X == PieceX(1) \o PieceX(2)
First3X == First2X \o PieceX(3)
First4X == First3X \o PieceX(4)
First5X == First4X \o PieceX(5)
First6X == First5X \o PieceX(6)
First7X == First6X \o PieceX(7)
First8X == First7X \o PieceX(8)

LEMMA PiecesXAre ==
  /\ PieceX(1) = xmodel("xk", "tmpx")
  /\ PieceX(2) = HalfStep("xk", "tmpx", "k1x", "tmpx")
  /\ PieceX(3) = xmodel("tmpx", "tmp2x")
  /\ PieceX(4) = HalfStep("xk", "tmp2x", "k2x", "tmpx")
  /\ PieceX(5) = xmodel("tmpx", "tmp2x")
  /\ PieceX(6) = WholeStep("xk", "tmp2x", "k3x", "tmpx")
  /\ PieceX(7) = xmodel("tmpx", "tmp2x")
  /\ PieceX(8) = LastStep("xk", "k1x", "k2x", "k3x", "k4x", "tmpx", "tmp2x")
  /\ PieceX(1) \in Seq(Codes)
  /\ PieceX(2) \in Seq(Codes)
  /\ PieceX(3) \in Seq(Codes)
  /\ PieceX(4) \in Seq(Codes)
  /\ PieceX(5) \in Seq(Codes)
  /\ PieceX(6) \in Seq(Codes)
  /\ PieceX(7) \in Seq(Codes)
  /\ PieceX(8) \in Seq(Codes)
  /\ First2X \in Seq(Codes)
  /\ First3X \in Seq(Codes)
  /\ First4X \in Seq(Codes)
  /\ First5X \in Seq(Codes)
  /\ First6X \in Seq(Codes)
  /\ First7X \in Seq(Codes)
  /\ First8X \in Seq(Codes)
  /\ First8X = Integrate("xk", xmodel, "k1x", "k2x", "k3x", "k4x", "tmpx", "tmp2x")
<1>1. PieceX(1) = xmodel("xk", "tmpx") /\ PieceX(1) \in Seq(Codes)
  <2>1. PieceX(1) = xmodel("xk", "tmpx")
    BY DEF PieceX
  <2> QED BY <2>1, ContinuousSeq, Names
<1>2. PieceX(2) = HalfStep("xk", "tmpx", "k1x", "tmpx") /\ PieceX(2) \in Seq(Codes)
  <2>1. PieceX(2) = HalfStep("xk", "tmpx", "k1x", "tmpx")
    BY DEF PieceX
  <2>2. "xk" \in Members /\ "tmpx" \in Members /\ "k1x" \in Members
    BY Names
  <2>3. HalfStep("xk", "tmpx", "k1x", "tmpx") \in Seq(Codes)
    BY <2>2, StepSeq
  <2> QED BY <2>1, <2>3
<1>3. PieceX(3) = xmodel("tmpx", "tmp2x") /\ PieceX(3) \in Seq(Codes)
  <2>1. PieceX(3) = xmodel("tmpx", "tmp2x")
    BY DEF PieceX
  <2> QED BY <2>1, ContinuousSeq, Names
<1>4. PieceX(4) = HalfStep("xk", "tmp2x", "k2x", "tmpx") /\ PieceX(4) \in Seq(Codes)
  <2>1. PieceX(4) = HalfStep("xk", "tmp2x", "k2x", "tmpx")
    BY DEF PieceX
  <2>2. "xk" \in Members /\ "tmp2x" \in Members /\ "k2x" \in Members /\ "tmpx" \in Members
    BY Names
  <2>3. HalfStep("xk", "tmp2x", "k2x", "tmpx") \in Seq(Codes)
    BY <2>2, StepSeq
  <2> QED BY <2>1, <2>3
<1>5. PieceX(5) = xmodel("tmpx", "tmp2x") /\ PieceX(5) \in Seq(Codes)
  <2>1. PieceX(5) = xmodel("tmpx", "tmp2x")
    BY DEF PieceX
  <2> QED BY <2>1, ContinuousSeq, Names
<1>6. PieceX(6) = WholeStep("xk", "tmp2x", "k3x", "tmpx") /\ PieceX(6) \in Seq(Codes)
  <2>1. PieceX(6) = WholeStep("xk", "tmp2x", "k3x", "tmpx")
    BY DEF PieceX
  <2>2. "xk" \in Members /\ "tmp2x" \in Members /\ "k3x" \in Members /\ "tmpx" \in Members
    BY Names
  <2>3. WholeStep("xk", "tmp2x", "k3x", "tmpx") \in Seq(Codes)
    BY <2>2, StepSeq
  <2> QED BY <2>1, <2>3
<1>7. PieceX(7) = xmodel("tmpx", "tmp2x") /\ PieceX(7) \in Seq(Codes)
  <2>1. PieceX(7) = xmodel("tmpx", "tmp2x")
    BY DEF PieceX
  <2> QED BY <2>1, ContinuousSeq, Names
<1>8. PieceX(8) = LastStep("xk", "k1x", "k2x", "k3x", "k4x", "tmpx", "tmp2x") /\ PieceX(8) \in Seq(Codes)
  <2>1. PieceX(8) = LastStep("xk", "k1x", "k2x", "k3x", "k4x", "tmpx", "tmp2x")
    BY DEF PieceX
  <2>2. "xk" \in Members /\ "k1x" \in Members /\ "k2x" \in Members /\ "k3x" \in Members /\ "k4x" \in Members /\ "tmpx" \in Members /\ "tmp2x" \in Members
    BY Names
  <2>3. LastStep("xk", "k1x", "k2x", "k3x", "k4x", "tmpx", "tmp2x") \in Seq(Codes)
    BY <2>2, StepSeq
  <2> QED BY <2>1, <2>3
<1>9. \A p, q \in Seq(Codes) : p \o q \in Seq(Codes)
  OBVIOUS
<1>10. First2X \in Seq(Codes)
  BY <1>1, <1>2, <1>9 DEF First2X
<1>11. First3X \in Seq(Codes)
  BY <1>10, <1>3, <1>9 DEF First3X
<1>12. First4X \in Seq(Codes)
  BY <1>11, <1>4, <1>9 DEF First4X
<1>13. First5X \in Seq(Codes)
  BY <1>12, <1>5, <1>9 DEF First5X
<1>14. First6X \in Seq(Codes)
  BY <1>13, <1>6, <1>9 DEF First6X
<1>15. First7X \in Seq(Codes)
  BY <1>14, <1>7, <1>9 DEF First7X
<1>16. First8X \in Seq(Codes)
  BY <1>15, <1>8, <1>9 DEF First8X
<1>17. First8X = Integrate("xk", xmodel, "k1x", "k2x", "k3x", "k4x", "tmpx", "tmp2x")
  BY <1>1, <1>2, <1>3, <1>4, <1>5, <1>6, <1>7, <1>8
     DEF First2X, First3X, First4X, First5X, First6X, First7X, First8X, Integrate, HalfStep, WholeStep, LastStep
<1> QED BY <1>1, <1>2, <1>3, <1>4, <1>5, <1>6, <1>7, <1>8, <1>10, <1>11, <1>12, <1>13, <1>14, <1>15, <1>16, <1>17

LEMMA IntegrateXRun ==
  ASSUME NEW k, Typed(k, IntegrateXUses)
  PROVE  \E t : /\ Leads(St(k), First8X, St(t))
                /\ Changes(k, t, IntegrateXWrites)
                /\ t["xk"] = RungeKutta([y \in Vector |-> XSlope(k["k"], k, y)], k["xk"])
<1> DEFINE L == IntegrateXUses  W == IntegrateXWrites
           x == k["xk"]  h == Recip(2)
           s1 == XSlope(k["k"], k, x)  a1 == MulS(s1, dt)  y1 == Add(x, MulS(a1, h))
           s2 == XSlope(k["k"], k, y1)  a2 == MulS(s2, dt)  y2 == Add(x, MulS(a2, h))
           s3 == XSlope(k["k"], k, y2)  a3 == MulS(s3, dt)  y3 == Add(x, a3)
           s4 == XSlope(k["k"], k, y3)  a4 == MulS(s4, dt)
           f == [y \in Vector |-> XSlope(k["k"], k, y)]
<1>1. L \in SUBSET Members /\ W \in SUBSET L
  BY Names DEF IntegrateXUses, IntegrateXWrites, LocalVs
<1>2. Mid(k, k, L, W)
  BY <1>1, MidStart
<1>3. ASSUME NEW t, Mid(k, t, L, W)
      PROVE  /\ t["model"] = k["model"] /\ t["u"] = k["u"] /\ t["H"] = k["H"] /\ t["z"] = k["z"] /\ t["k"] = k["k"]
             /\ Typed(t, {"model", "xk", "u", "H", "z", "k", "v0", "v1", "v2", "tmpx"})
             /\ Typed(t, {"model", "tmpx", "u", "H", "z", "k", "v0", "v1", "v2", "tmp2x"})
  <2>1. t["model"] = k["model"] /\ t["u"] = k["u"] /\ t["H"] = k["H"] /\ t["z"] = k["z"] /\ t["k"] = k["k"]
    BY <1>1, <1>3, Names DEF Mid, Changes, IntegrateXWrites, LocalVs
  <2>2. Typed(t, L)
    BY <1>3 DEF Mid
  <2> QED BY <2>1, <2>2, TypedLess DEF IntegrateXUses, IntegrateXWrites, LocalVs
<1>4. x \in Vector /\ h \in Int /\ dt \in Int /\ \A y \in Vector : XSlope(k["k"], k, y) \in Vector
  <2>1. Typed(k, {"model", "u", "z", "H"})
    BY TypedLess DEF IntegrateXUses
  <2>2. x \in Vector /\ k["k"] \in Matrix
    BY Types DEF Typed, IntegrateXUses, IntegrateXWrites
  <2>3. \A y \in Vector : XSlope(k["k"], k, y) \in Vector
    BY <2>1, <2>2, XSlopeVector
  <2> QED BY <2>2, <2>3, StepInt
<1>5. s1 \in Vector /\ a1 \in Vector /\ y1 \in Vector
  BY <1>4, VectorClosed
<1>6. s2 \in Vector /\ a2 \in Vector /\ y2 \in Vector
  BY <1>4, <1>5, VectorClosed
<1>7. s3 \in Vector /\ a3 \in Vector /\ y3 \in Vector
  BY <1>4, <1>6, VectorClosed
<1>8. s4 \in Vector /\ a4 \in Vector
  BY <1>4, <1>7, VectorClosed
<1> HIDE DEF L, W, f, x, h, s1, s2, s3, s4, a1, a2, a3, a4, y1, y2, y3
<1>9. PICK k1 : /\ Leads(St(k), xmodel("xk", "tmpx"), St(k1))
                 /\ Changes(k, k1, {"v0", "v1", "v2", "tmpx"})
                 /\ k1["tmpx"] = s1
  BY <1>3, <1>2, XmodelRun DEF XSlope , x, s1
<1>10. Mid(k, k1, L, W)
  <2>1. {"v0", "v1", "v2", "tmpx"} \in SUBSET W
    BY DEF W, IntegrateXWrites, LocalVs
  <2> QED BY <1>1, <1>2, <1>9, <2>1, MidOn
<1>11. k1["tmpx"] = s1 /\ k1["xk"] = x
  BY <1>9, Names DEF Changes, LocalVs , x
<1>12. Leads(St(k), PieceX(1), St(k1))
  BY <1>9, PiecesXAre
<1>13. PICK k2 : /\ Leads(St(k1), HalfStep("xk", "tmpx", "k1x", "tmpx"), St(k2))
                 /\ Changes(k1, k2, {"k1x", "tmpx"})
                 /\ k2["k1x"] = a1 /\ k2["tmpx"] = y1
  <2>1. Typed(k1, {"xk", "tmpx", "k1x"})
    BY <1>10, TypedLess DEF Mid, L, IntegrateXUses, IntegrateXWrites, LocalVs
  <2> QED BY <1>11, <2>1, FirstStepX DEF a1, y1, h
<1>14. Mid(k, k2, L, W)
  <2>1. {"k1x", "tmpx"} \in SUBSET W
    BY DEF W, IntegrateXWrites, LocalVs
  <2> QED BY <1>1, <1>10, <1>13, <2>1, MidOn
<1>15. k2["k1x"] = a1 /\ k2["tmpx"] = y1 /\ k2["xk"] = x
  BY <1>13, <1>11, Names DEF Changes, LocalVs
<1>16. Leads(St(k), First2X, St(k2))
  <2>1. Leads(St(k1), PieceX(2), St(k2))
    BY <1>13, PiecesXAre
  <2> QED BY <1>12, <2>1, PiecesXAre, LeadsOn DEF First2X
<1>17. PICK k3 : /\ Leads(St(k2), xmodel("tmpx", "tmp2x"), St(k3))
                 /\ Changes(k2, k3, {"v0", "v1", "v2", "tmp2x"})
                 /\ k3["tmp2x"] = s2
  BY <1>3, <1>14, <1>15, XmodelRun DEF XSlope, s2
<1>18. Mid(k, k3, L, W)
  <2>1. {"v0", "v1", "v2", "tmp2x"} \in SUBSET W
    BY DEF W, IntegrateXWrites, LocalVs
  <2> QED BY <1>1, <1>14, <1>17, <2>1, MidOn
<1>19. k3["tmp2x"] = s2 /\ k3["xk"] = x /\ k3["k1x"] = a1
  BY <1>17, <1>15, Names DEF Changes, LocalVs
<1>20. Leads(St(k), First3X, St(k3))
  <2>1. Leads(St(k2), PieceX(3), St(k3))
    BY <1>17, PiecesXAre
  <2> QED BY <1>16, <2>1, PiecesXAre, LeadsOn DEF First3X
<1>21. PICK k4 : /\ Leads(St(k3), HalfStep("xk", "tmp2x", "k2x", "tmpx"), St(k4))
                 /\ Changes(k3, k4, {"k2x", "tmpx"})
                 /\ k4["k2x"] = a2 /\ k4["tmpx"] = y2
  <2>1. Typed(k3, {"xk", "tmp2x", "k2x", "tmpx"})
    BY <1>18, TypedLess DEF Mid, L, IntegrateXUses, IntegrateXWrites, LocalVs
  <2> QED BY <1>19, <2>1, SecondStepX DEF a2, y2, h
<1>22. Mid(k, k4, L, W)
  <2>1. {"k2x", "tmpx"} \in SUBSET W
    BY DEF W, IntegrateXWrites, LocalVs
  <2> QED BY <1>1, <1>18, <1>21, <2>1, MidOn
<1>23. k4["k2x"] = a2 /\ k4["tmpx"] = y2 /\ k4["xk"] = x /\ k4["k1x"] = a1
  BY <1>21, <1>19, Names DEF Changes, LocalVs
<1>24. Leads(St(k), First4X, St(k4))
  <2>1. Leads(St(k3), PieceX(4), St(k4))
    BY <1>21, PiecesXAre
  <2> QED BY <1>20, <2>1, PiecesXAre, LeadsOn DEF First4X
<1>25. PICK k5 : /\ Leads(St(k4), xmodel("tmpx", "tmp2x"), St(k5))
                 /\ Changes(k4, k5, {"v0", "v1", "v2", "tmp2x"})
                 /\ k5["tmp2x"] = s3
  BY <1>3, <1>22, <1>23, XmodelRun DEF XSlope, s3
<1>26. Mid(k, k5, L, W)
  <2>1. {"v0", "v1", "v2", "tmp2x"} \in SUBSET W
    BY DEF W, IntegrateXWrites, LocalVs
  <2> QED BY <1>1, <1>22, <1>25, <2>1, MidOn
<1>27. k5["tmp2x"] = s3 /\ k5["xk"] = x /\ k5["k1x"] = a1 /\ k5["k2x"] = a2
  BY <1>25, <1>23, Names DEF Changes, LocalVs
<1>28. Leads(St(k), First5X, St(k5))
  <2>1. Leads(St(k4), PieceX(5), St(k5))
    BY <1>25, PiecesXAre
  <2> QED BY <1>24, <2>1, PiecesXAre, LeadsOn DEF First5X
<1>29. PICK k6 : /\ Leads(St(k5), WholeStep("xk", "tmp2x", "k3x", "tmpx"), St(k6))
                 /\ Changes(k5, k6, {"k3x", "tmpx"})
                 /\ k6["k3x"] = a3 /\ k6["tmpx"] = y3
  <2>1. Typed(k5, {"xk", "tmp2x", "k3x", "tmpx"})
    BY <1>26, TypedLess DEF Mid, L, IntegrateXUses, IntegrateXWrites, LocalVs
  <2> QED BY <1>27, <2>1, ThirdStepX DEF a3, y3
<1>30. Mid(k, k6, L, W)
  <2>1. {"k3x", "tmpx"} \in SUBSET W
    BY DEF W, IntegrateXWrites, LocalVs
  <2> QED BY <1>1, <1>26, <1>29, <2>1, MidOn
<1>31. k6["k3x"] = a3 /\ k6["tmpx"] = y3 /\ k6["xk"] = x /\ k6["k1x"] = a1 /\ k6["k2x"] = a2
  BY <1>29, <1>27, Names DEF Changes, LocalVs
<1>32. Leads(St(k), First6X, St(k6))
  <2>1. Leads(St(k5), PieceX(6), St(k6))
    BY <1>29, PiecesXAre
  <2> QED BY <1>28, <2>1, PiecesXAre, LeadsOn DEF First6X
<1>33. PICK k7 : /\ Leads(St(k6), xmodel("tmpx", "tmp2x"), St(k7))
                 /\ Changes(k6, k7, {"v0", "v1", "v2", "tmp2x"})
                 /\ k7["tmp2x"] = s4
  BY <1>3, <1>30, <1>31, XmodelRun DEF XSlope, s4
<1>34. Mid(k, k7, L, W)
  <2>1. {"v0", "v1", "v2", "tmp2x"} \in SUBSET W
    BY DEF W, IntegrateXWrites, LocalVs
  <2> QED BY <1>1, <1>30, <1>33, <2>1, MidOn
<1>35. k7["tmp2x"] = s4 /\ k7["xk"] = x /\ k7["k1x"] = a1 /\ k7["k2x"] = a2 /\ k7["k3x"] = a3
  BY <1>33, <1>31, Names DEF Changes, LocalVs
<1>36. Leads(St(k), First7X, St(k7))
  <2>1. Leads(St(k6), PieceX(7), St(k7))
    BY <1>33, PiecesXAre
  <2> QED BY <1>32, <2>1, PiecesXAre, LeadsOn DEF First7X
<1>37. PICK t : /\ Leads(St(k7), LastStep("xk", "k1x", "k2x", "k3x", "k4x", "tmpx", "tmp2x"), St(t))
                 /\ Changes(k7, t, {"k4x", "tmpx", "tmp2x", "xk"})
                 /\ t["xk"] = Add(x, MulS(Add(Add(Add(MulS(a2, 2), MulS(a3, 2)), a1), a4), Recip(6)))
  <2>1. Typed(k7, {"xk", "tmp2x", "k1x", "k2x", "k3x", "k4x", "tmpx"})
    BY <1>34, TypedLess DEF Mid, L, IntegrateXUses, IntegrateXWrites, LocalVs
  <2> QED BY <1>35, <2>1, LastStepX DEF a4
<1>38. Mid(k, t, L, W)
  <2>1. {"k4x", "tmpx", "tmp2x", "xk"} \in SUBSET W
    BY DEF W, IntegrateXWrites, LocalVs
  <2> QED BY <1>1, <1>34, <1>37, <2>1, MidOn
<1>39. Leads(St(k), First8X, St(t))
  <2>1. Leads(St(k7), PieceX(8), St(t))
    BY <1>37, PiecesXAre
  <2> QED BY <1>36, <2>1, PiecesXAre, LeadsOn DEF First8X
<1>40. Add(Add(Add(MulS(a2, 2), MulS(a3, 2)), a1), a4) = Add(Add(a1, MulS(a2, 2)), Add(MulS(a3, 2), a4))
  <2>1. MulS(a2, 2) \in Vector /\ MulS(a3, 2) \in Vector
    BY <1>6, <1>7, VectorClosed
  <2> QED BY <1>5, <1>8, <2>1, SumOrderVector
<1>41. RungeKutta(f, x) = Add(x, MulS(Add(Add(a1, MulS(a2, 2)), Add(MulS(a3, 2), a4)), Recip(6)))
  <2>1. f[x] = s1 /\ f[y1] = s2 /\ f[y2] = s3 /\ f[y3] = s4
    BY <1>4, <1>5, <1>6, <1>7 DEF f, s1, s2, s3, s4
  <2> QED BY <2>1 DEF RungeKutta, a1, a2, a3, a4, y1, y2, y3, h
<1> QED BY <1>37, <1>38, <1>39, <1>40, <1>41 DEF f, x, Mid, W

-----------------------------------------------------------------------------
(* How int_P and int_X end the program.                                    *)

LEMMA CrashCall ==
  ASSUME NEW k, NEW x, k[x.a] = Null \/ (x.does = "model" /\ k["model"] = Null)
  PROVE  Exec(St(k), x) = [kf |-> k, fate |-> "crashed"]
<1>1. St(k).fate = "ready" /\ St(k).kf = k
  BY DEF St
<1>2. [St(k) EXCEPT !.fate = "crashed"] = [kf |-> k, fate |-> "crashed"]
  BY DEF St
<1>3. Exec(St(k), x) = [St(k) EXCEPT !.fate = "crashed"]
  BY <1>1 DEF Exec
<1> QED BY <1>2, <1>3

LEMMA StuckP ==
  ASSUME NEW s, NEW e, e.fate # "ready", Leads(s, PieceP(1), e)
  PROVE  Leads(s, int_P, e)
<1>1. Leads(s, First2P, e)
  BY PiecesPAre, LeadsStuck DEF First2P
<1>2. Leads(s, First3P, e)
  BY <1>1, PiecesPAre, LeadsStuck DEF First3P
<1>3. Leads(s, First4P, e)
  BY <1>2, PiecesPAre, LeadsStuck DEF First4P
<1>4. Leads(s, First5P, e)
  BY <1>3, PiecesPAre, LeadsStuck DEF First5P
<1>5. Leads(s, First6P, e)
  BY <1>4, PiecesPAre, LeadsStuck DEF First6P
<1>6. Leads(s, First7P, e)
  BY <1>5, PiecesPAre, LeadsStuck DEF First7P
<1>7. Leads(s, First8P, e)
  BY <1>6, PiecesPAre, LeadsStuck DEF First8P
<1> QED BY <1>7, PiecesPAre

LEMMA StuckX ==
  ASSUME NEW s, NEW e, e.fate # "ready", Leads(s, PieceX(1), e)
  PROVE  Leads(s, First8X, e)
<1>1. Leads(s, First2X, e)
  BY PiecesXAre, LeadsStuck DEF First2X
<1>2. Leads(s, First3X, e)
  BY <1>1, PiecesXAre, LeadsStuck DEF First3X
<1>3. Leads(s, First4X, e)
  BY <1>2, PiecesXAre, LeadsStuck DEF First4X
<1>4. Leads(s, First5X, e)
  BY <1>3, PiecesXAre, LeadsStuck DEF First5X
<1>5. Leads(s, First6X, e)
  BY <1>4, PiecesXAre, LeadsStuck DEF First6X
<1>6. Leads(s, First7X, e)
  BY <1>5, PiecesXAre, LeadsStuck DEF First7X
<1> QED BY <1>6, PiecesXAre, LeadsStuck DEF First8X

\* A measurement noise that is singular ends the program.
LEMMA IntegratePExits ==
  ASSUME NEW k, Typed(k, IntegratePUses), Det(k["R"]) = 0
  PROVE  \E t : /\ Leads(St(k), int_P, [kf |-> t, fate |-> "exited"])
                /\ Changes(k, t, SlopeWrites)
<1>1. Typed(k, {"Ac", "H", "R", "Q", "P", "tmpm"} \cup SlopeWrites)
  BY TypedLess DEF IntegratePUses, IntegratePWrites, SlopeWrites, Locals
<1>2. PICK t : /\ Leads(St(k), pmodel("P", "tmpm"), [kf |-> t, fate |-> "exited"])
               /\ Changes(k, t, SlopeWrites)
  BY <1>1, PmodelRun
<1> DEFINE e == [kf |-> t, fate |-> "exited"]
<1>3. e.fate # "ready"
  OBVIOUS
<1> HIDE DEF e
<1>4. Leads(St(k), PieceP(1), e)
  BY <1>2, PiecesPAre DEF e
<1>5. Leads(St(k), int_P, e)
  BY <1>3, <1>4, StuckP
<1> QED BY <1>2, <1>5 DEF e

\* A linear discrete model has no Ac.
LEMMA IntegratePCrashes ==
  ASSUME NEW k, k["Ac"] = Null
  PROVE  Leads(St(k), int_P, [kf |-> k, fate |-> "crashed"])
<1> DEFINE e == [kf |-> k, fate |-> "crashed"]  p == pmodel("P", "tmpm")
<1>1. p[1] = matrixMult("Ac", "P", "m0") /\ Len(p) = 13
  BY DEF pmodel
<1>2. matrixMult("Ac", "P", "m0").a = "Ac"
  BY DEF matrixMult, Call
<1>3. e.fate # "ready" /\ Exec(St(k), matrixMult("Ac", "P", "m0")) = e
  BY <1>2, CrashCall
<1>4. p \in Seq(Codes) /\ p = PieceP(1)
  BY PiecesPAre
<1> HIDE DEF e, p
<1>5. Leads(St(k), p, e)
  <2>1. e.fate # "ready" /\ Exec(St(k), p[1]) = e /\ Len(p) > 0 /\ p \in Seq(Codes)
    BY <1>1, <1>3, <1>4
  <2> QED BY <2>1, LeadsFirst
<1>6. Leads(St(k), int_P, e)
  BY <1>3, <1>4, <1>5, StuckP
<1> QED BY <1>6 DEF e

\* A linear filter may have no model function.
LEMMA IntegrateXCrashes ==
  ASSUME NEW k, k["model"] = Null
  PROVE  Leads(St(k), First8X, [kf |-> k, fate |-> "crashed"])
<1> DEFINE e == [kf |-> k, fate |-> "crashed"]  p == xmodel("xk", "tmpx")
<1>1. p[1] = callModel("xk", "u", "v0") /\ Len(p) = 5
  BY DEF xmodel
<1>2. callModel("xk", "u", "v0").does = "model"
  BY DEF callModel, Call
<1>3. e.fate # "ready" /\ Exec(St(k), callModel("xk", "u", "v0")) = e
  BY <1>2, CrashCall
<1>4. p \in Seq(Codes) /\ p = PieceX(1)
  BY PiecesXAre
<1> HIDE DEF e, p
<1>5. Leads(St(k), p, e)
  <2>1. e.fate # "ready" /\ Exec(St(k), p[1]) = e /\ Len(p) > 0 /\ p \in Seq(Codes)
    BY <1>1, <1>3, <1>4
  <2> QED BY <2>1, LeadsFirst
<1>6. Leads(St(k), First8X, e)
  BY <1>3, <1>4, <1>5, StuckX
<1> QED BY <1>6 DEF e

\* int_X: the integral, and the estimate.
LEMMA IntXIs == /\ int_X = First8X \o <<matrixCopy("xk", "x_est")>> /\ int_X \in Seq(Codes)
                /\ First8X \in Seq(Codes) /\ <<matrixCopy("xk", "x_est")>> \in Seq(Codes)
<1>1. int_X = First8X \o <<matrixCopy("xk", "x_est")>>
  BY PiecesXAre DEF int_X
<1>2. First8X \in Seq(Codes)
  BY PiecesXAre
<1>3. matrixCopy("xk", "x_est") \in Codes
  BY CodesAre, Names
<1> QED BY <1>1, <1>2, <1>3

LEMMA IntXRun ==
  ASSUME NEW k, Typed(k, IntegrateXUses \cup {"x_est"})
  PROVE  \E t : /\ Leads(St(k), int_X, St(t))
                /\ Changes(k, t, IntegrateXWrites \cup {"x_est"})
                /\ t["xk"] = RungeKutta([y \in Vector |-> XSlope(k["k"], k, y)], k["xk"])
                /\ t["x_est"] = t["xk"]
<1> DEFINE L == IntegrateXUses \cup {"x_est"}  x == RungeKutta([y \in Vector |-> XSlope(k["k"], k, y)], k["xk"])
<1>1. L \in SUBSET Members /\ IntegrateXWrites \in SUBSET Members /\ {"x_est"} \in SUBSET Members
      /\ {"x_est"} \in SUBSET L
  BY Names DEF IntegrateXUses, IntegrateXWrites, LocalVs
<1>2. Typed(k, IntegrateXUses)
  BY TypedLess
<1>3. PICK k1 : /\ Leads(St(k), First8X, St(k1))
                /\ Changes(k, k1, IntegrateXWrites)
                /\ k1["xk"] = x
  BY <1>2, IntegrateXRun
<1> HIDE DEF x
<1>4. Typed(k1, L)
  BY <1>1, <1>3, TypedAfter
<1> DEFINE t == Put(k1, "x_est", x)
<1>5. x \in Vector
  BY <1>3, <1>4, Types DEF Typed, IntegrateXUses, IntegrateXWrites
<1>6. Mid(k1, k1, L, {"x_est"})
  BY <1>1, <1>4, MidStart
<1>7. "xk" \in L /\ "x_est" \in {"x_est"} /\ TypeOf("x_est") = Vector
  BY Types DEF IntegrateXUses, IntegrateXWrites
<1> HIDE DEF L
<1>8. Exec(St(k1), matrixCopy("xk", "x_est")) = St(t) /\ Mid(k1, t, L, {"x_est"})
  BY <1>1, <1>3, <1>5, <1>6, <1>7, CopyCall
<1>9. t["x_est"] = x /\ t["xk"] = x
  BY <1>3, Names, PutIs
<1> HIDE DEF t
<1>10. Leads(St(k1), <<matrixCopy("xk", "x_est")>>, St(t))
  BY <1>8, LeadsOne
<1>11. Leads(St(k), int_X, St(t))
  BY <1>3, <1>10, IntXIs, LeadsOn
<1>12. Changes(k, t, IntegrateXWrites \cup {"x_est"})
  <2>1. Changes(k1, t, {"x_est"})
    BY <1>8 DEF Mid
  <2> QED BY <1>1, <1>3, <2>1, ChangesOn
<1> QED BY <1>9, <1>11, <1>12 DEF x

-----------------------------------------------------------------------------
(* A continuous update.                                                    *)

GainCalls == <<matrixCopy("R", "m0"), matrixInv("m0", "m1"), matrixTrans("H", "HT"),
               matrixMult("P", "HT", "m1"), matrixMult("m1", "m0", "k")>>
ContinuousGain == (ContinuousGainFirst \o <<matrixInv("m0", "m1")>>) \o ContinuousGainLast

LEMMA ContinuousGainIs ==
  /\ ContinuousGain \in Seq(Codes) /\ ContinuousGainFirst \in Seq(Codes)
  /\ <<matrixInv("m0", "m1")>> \in Seq(Codes) /\ ContinuousGainLast \in Seq(Codes)
  /\ ContinuousGainFirst \o <<matrixInv("m0", "m1")>> \in Seq(Codes)
<1>1. matrixInv("m0", "m1") \in Codes
  BY CodesAre, Names
<1>2. <<matrixInv("m0", "m1")>> \in Seq(Codes)
  BY <1>1
<1>3. \A p, q \in Seq(Codes) : p \o q \in Seq(Codes)
  OBVIOUS
<1> QED BY <1>2, <1>3, ContinuousSeq DEF ContinuousGain

LEMMA ContinuousGainWhole ==
  ASSUME NEW k, Typed(k, {"R", "H", "P", "m0", "m1", "HT", "k"}), Det(k["R"]) # 0
  PROVE  \E t : /\ Leads(St(k), ContinuousGain, St(t))
                /\ Changes(k, t, {"m0", "m1", "HT", "k"})
                /\ t["k"] = Mul(Mul(k["P"], Trans(k["H"])), InverseOf(k["R"]))
<1> DEFINE L == {"R", "H", "P", "m0", "m1", "HT", "k"}  W == {"m0", "m1", "HT", "k"}
<1>1. L \in SUBSET Members /\ W \in SUBSET L
  BY Names
<1>2. /\ {"m0"} \in SUBSET W /\ {"m0", "m1"} \in SUBSET W /\ {"HT", "m1", "k"} \in SUBSET W
      /\ {"R", "m0"} \in SUBSET L /\ {"m0", "m1"} \in SUBSET L
      /\ {"H", "P", "m0", "HT", "m1", "k"} \in SUBSET L
  OBVIOUS
<1>3. Mid(k, k, L, W)
  BY <1>1, MidStart
<1> HIDE DEF L, W
<1>4. PICK k1 : /\ Leads(St(k), ContinuousGainFirst, St(k1))
                /\ Changes(k, k1, {"m0"})
                /\ k1["m0"] = k["R"]
  BY <1>2, <1>3, TypedLess, CopyNoiseRun DEF Mid
<1>5. Mid(k, k1, L, W)
  BY <1>1, <1>2, <1>3, <1>4, MidOn
<1>6. Typed(k1, {"m0", "m1"})
  BY <1>2, <1>5, TypedLess DEF Mid
<1>7. PICK k2 : /\ Leads(St(k1), <<matrixInv("m0", "m1")>>, St(k2))
                /\ Changes(k1, k2, {"m0", "m1"})
                /\ k2["m0"] = InverseOf(k["R"])
  BY <1>4, <1>6, InversionRun
<1>8. Mid(k, k2, L, W)
  BY <1>1, <1>2, <1>5, <1>7, MidOn
<1>9. PICK t : /\ Leads(St(k2), ContinuousGainLast, St(t))
               /\ Changes(k2, t, {"HT", "m1", "k"})
               /\ t["k"] = Mul(Mul(k2["P"], Trans(k2["H"])), k2["m0"])
  BY <1>2, <1>8, TypedLess, ContinuousGainRun DEF Mid
<1>10. Mid(k, t, L, W)
  BY <1>1, <1>2, <1>8, <1>9, MidOn
<1>11. k2["P"] = k["P"] /\ k2["H"] = k["H"]
  BY <1>4, <1>7, Names DEF Changes
<1>12. Leads(St(k), ContinuousGainFirst \o <<matrixInv("m0", "m1")>>, St(k2))
  BY <1>4, <1>7, ContinuousGainIs, LeadsOn
<1>13. Leads(St(k), ContinuousGain, St(t))
  BY <1>9, <1>12, ContinuousGainIs, LeadsOn DEF ContinuousGain
<1> QED BY <1>7, <1>9, <1>10, <1>11, <1>13 DEF Mid, W

\* What the update computes, from the members before it.
NewContinuousP(k) == RungeKutta([y \in Matrix |-> PSlope(NewAc(k), k, y)], k["P"])
NewContinuousGain(k) == Mul(Mul(NewContinuousP(k), Trans(k["H"])), InverseOf(k["R"]))
NewContinuousX(k) == RungeKutta([y \in Vector |-> XSlope(NewContinuousGain(k), k, y)], k["xk"])
ContinuousFate(k) == IF Det(k["R"]) = 0 THEN "exited"
                     ELSE IF k["model"] = Null THEN "crashed" ELSE "ready"
ContinuousUses == Uses \cup Locals \cup LocalVs
ContinuousWrites == LinearizePartWrites \cup IntegratePWrites \cup {"k"}
                      \cup IntegrateXWrites \cup {"x_est"}

LEMMA ContinuousIs ==
  /\ continousKalmanFilter = ((LinearizePart \o int_P) \o ContinuousGain) \o int_X
  /\ LinearizePart \in Seq(Codes) /\ int_P \in Seq(Codes)
  /\ ContinuousGain \in Seq(Codes) /\ int_X \in Seq(Codes)
  /\ LinearizePart \o int_P \in Seq(Codes)
  /\ (LinearizePart \o int_P) \o ContinuousGain \in Seq(Codes)
  /\ continousKalmanFilter \in Seq(Codes)
  /\ Len(continousKalmanFilter) \in Nat
<1>1. continousKalmanFilter = ((LinearizePart \o int_P) \o ContinuousGain) \o int_X
  <2>1. GainCalls = ContinuousGain
    BY DEF GainCalls, ContinuousGain, ContinuousGainFirst, ContinuousGainLast
  <2>2. continousKalmanFilter = ((LinearizePart \o int_P) \o GainCalls) \o int_X
    BY DEF continousKalmanFilter, LinearizePart, GainCalls
  <2> QED BY <2>1, <2>2
<1>2. LinearizePart \in Seq(Codes)
  BY LinearizeIsTwo DEF LinearizePart
<1>3. int_P \in Seq(Codes)
  BY PiecesPAre
<1>4. \A p, q \in Seq(Codes) : p \o q \in Seq(Codes)
  OBVIOUS
<1>5. /\ LinearizePart \o int_P \in Seq(Codes)
      /\ (LinearizePart \o int_P) \o ContinuousGain \in Seq(Codes)
  BY <1>2, <1>3, <1>4, ContinuousGainIs
<1>6. continousKalmanFilter \in Seq(Codes)
  BY <1>1, <1>4, <1>5, IntXIs
<1>7. Len(continousKalmanFilter) \in Nat
  BY <1>6
<1> QED BY <1>1, <1>2, <1>3, <1>5, <1>6, <1>7, ContinuousGainIs, IntXIs

\* The program ends in int_P.
LEMMA ContinuousStops ==
  ASSUME NEW k, NEW k1, NEW e, e.fate # "ready",
         Leads(St(k), LinearizePart, St(k1)), Leads(St(k1), int_P, e)
  PROVE  Run(k, continousKalmanFilter) = e
<1>1. Leads(St(k), LinearizePart \o int_P, e)
  BY ContinuousIs, LeadsOn
<1>2. Leads(St(k), (LinearizePart \o int_P) \o ContinuousGain, e)
  BY <1>1, ContinuousIs, LeadsStuck
<1>3. Leads(St(k), continousKalmanFilter, e)
  <2>1. Leads(St(k), ((LinearizePart \o int_P) \o ContinuousGain) \o int_X, e)
    BY <1>2, ContinuousIs, LeadsStuck
  <2> QED BY <2>1, ContinuousIs
<1> QED BY <1>3, ContinuousIs, RunLeads DEF St

\* The continuous filter of a linear discrete model.
LEMMA ContinuousCrashes ==
  ASSUME NEW k, flags.model # "nonlinear", k["Ac"] = Null
  PROVE  Run(k, continousKalmanFilter) = [kf |-> k, fate |-> "crashed"]
<1> DEFINE e == [kf |-> k, fate |-> "crashed"]
<1>1. e.fate # "ready" /\ Leads(St(k), int_P, e)
  BY IntegratePCrashes
<1>2. Leads(St(k), LinearizePart, St(k))
  BY LeadsNone DEF LinearizePart
<1> HIDE DEF e
<1>3. Run(k, continousKalmanFilter) = e
  BY <1>1, <1>2, ContinuousStops
<1> QED BY <1>3 DEF e

\* The continuous filter otherwise.
LEMMA ContinuousRun ==
  ASSUME NEW k, Typed(k, ContinuousUses), flags.model = "nonlinear" \/ flags.time = "cont",
         k["model"] \in SecondDegree \cup {Null}
  PROVE  \E t : /\ Run(k, continousKalmanFilter) = [kf |-> t, fate |-> ContinuousFate(k)]
                /\ Changes(k, t, ContinuousWrites)
                /\ t["Ac"] = NewAc(k)
                /\ t["P"] = IF Det(k["R"]) = 0 THEN k["P"] ELSE NewContinuousP(k)
                /\ t["k"] = IF Det(k["R"]) = 0 THEN k["k"] ELSE NewContinuousGain(k)
                /\ t["xk"] = IF ContinuousFate(k) = "ready" THEN NewContinuousX(k) ELSE k["xk"]
                /\ t["x_est"] = IF ContinuousFate(k) = "ready" THEN NewContinuousX(k) ELSE k["x_est"]
<1> DEFINE L == ContinuousUses  W == ContinuousWrites
<1>1. L \in SUBSET Members /\ W \in SUBSET L
  <2>1. Uses \in SUBSET Members /\ LinearizePartWrites \in SUBSET Uses
    BY UsesAre, WritesAre
  <2>2. Locals \in SUBSET Members /\ LocalVs \in SUBSET Members
    BY DEF Members
  <2>3. "AcT" \in Uses
    BY DEF Uses
  <2> QED BY <2>1, <2>2, <2>3 DEF ContinuousUses, ContinuousWrites, IntegratePWrites, IntegrateXWrites,
             SlopeWrites, Uses, Plain
<1>2. /\ LinearizePartWrites \in SUBSET W /\ IntegratePWrites \in SUBSET W
      /\ SlopeWrites \in SUBSET W /\ {"m0", "m1", "HT", "k"} \in SUBSET W
      /\ IntegrateXWrites \in SUBSET W /\ IntegrateXWrites \cup {"x_est"} \in SUBSET W
  BY DEF ContinuousWrites, IntegratePWrites, SlopeWrites
<1>3. /\ IntegratePUses \in SUBSET L /\ {"R", "H", "P", "m0", "m1", "HT", "k"} \in SUBSET L
      /\ (IntegrateXUses \cup {"x_est"}) \ {"model"} \in SUBSET L
  BY DEF ContinuousUses, IntegratePUses, IntegratePWrites, IntegrateXUses, IntegrateXWrites, SlopeWrites,
         Uses, Plain, LinearizeWrites
<1>4. Mid(k, k, L, W) /\ Typed(k, Uses)
  BY <1>1, MidStart, TypedLess DEF ContinuousUses
<1> HIDE DEF L, W
<1>5. PICK k1 : /\ Leads(St(k), LinearizePart, St(k1))
                /\ Changes(k, k1, LinearizePartWrites)
                /\ k1["Ac"] = NewAc(k)
  BY <1>4, LinearizePartRun
<1>6. Mid(k, k1, L, W)
  BY <1>1, <1>2, <1>4, <1>5, MidOn
<1>7. /\ k1["H"] = k["H"] /\ k1["R"] = k["R"] /\ k1["Q"] = k["Q"] /\ k1["P"] = k["P"]
      /\ k1["k"] = k["k"] /\ k1["xk"] = k["xk"] /\ k1["x_est"] = k["x_est"]
      /\ k1["model"] = k["model"] /\ k1["u"] = k["u"] /\ k1["z"] = k["z"]
  BY <1>5, Names DEF Changes, LinearizePartWrites, LinearizeWrites
<1>8. Typed(k1, IntegratePUses)
  BY <1>3, <1>6, TypedLess DEF Mid
<1>9. CASE Det(k["R"]) = 0
  <2>1. PICK t : /\ Leads(St(k1), int_P, [kf |-> t, fate |-> "exited"])
                 /\ Changes(k1, t, SlopeWrites)
    BY <1>7, <1>8, <1>9, IntegratePExits
  <2> DEFINE e == [kf |-> t, fate |-> "exited"]
  <2>2. e.fate # "ready"
    OBVIOUS
  <2>3. ContinuousFate(k) = "exited"
    BY <1>9 DEF ContinuousFate
  <2> HIDE DEF e
  <2>4. Run(k, continousKalmanFilter) = e
    BY <1>5, <2>1, <2>2, ContinuousStops DEF e
  <2>5. Mid(k, t, L, W)
    BY <1>1, <1>2, <1>6, <2>1, MidOn
  <2>6. /\ t["Ac"] = NewAc(k) /\ t["P"] = k["P"] /\ t["k"] = k["k"]
        /\ t["xk"] = k["xk"] /\ t["x_est"] = k["x_est"]
    BY <1>5, <1>7, <2>1, Names DEF Changes, SlopeWrites
  <2>7. Run(k, continousKalmanFilter) = [kf |-> t, fate |-> ContinuousFate(k)]
    BY <2>3, <2>4 DEF e
  <2>8. Changes(k, t, ContinuousWrites)
    BY <2>5 DEF Mid, W
  <2> QED BY <1>9, <2>3, <2>6, <2>7, <2>8
<1>10. CASE Det(k["R"]) # 0
  <2>1. PICK k2 : /\ Leads(St(k1), int_P, St(k2))
                  /\ Changes(k1, k2, IntegratePWrites)
                  /\ k2["P"] = RungeKutta([y \in Matrix |-> PSlope(k1["Ac"], k1, y)], k1["P"])
    BY <1>7, <1>8, <1>10, IntegratePRun, PiecesPAre
  <2>2. k2["P"] = NewContinuousP(k)
    BY <1>5, <1>7, <2>1 DEF NewContinuousP, PSlope
  <2>3. Mid(k, k2, L, W)
    BY <1>1, <1>2, <1>6, <2>1, MidOn
  <2>4. /\ k2["H"] = k["H"] /\ k2["R"] = k["R"] /\ k2["Ac"] = NewAc(k)
        /\ k2["xk"] = k["xk"] /\ k2["x_est"] = k["x_est"]
        /\ k2["model"] = k["model"] /\ k2["u"] = k["u"] /\ k2["z"] = k["z"]
    BY <1>5, <1>7, <2>1, Names DEF Changes, IntegratePWrites, SlopeWrites, Locals
  <2>5. PICK k3 : /\ Leads(St(k2), ContinuousGain, St(k3))
                  /\ Changes(k2, k3, {"m0", "m1", "HT", "k"})
                  /\ k3["k"] = Mul(Mul(k2["P"], Trans(k2["H"])), InverseOf(k2["R"]))
    BY <1>3, <1>10, <2>3, <2>4, TypedLess, ContinuousGainWhole DEF Mid
  <2>6. k3["k"] = NewContinuousGain(k)
    BY <2>2, <2>4, <2>5 DEF NewContinuousGain
  <2>7. Mid(k, k3, L, W)
    BY <1>1, <1>2, <2>3, <2>5, MidOn
  <2>8. /\ k3["H"] = k["H"] /\ k3["Ac"] = NewAc(k) /\ k3["P"] = NewContinuousP(k)
        /\ k3["xk"] = k["xk"] /\ k3["x_est"] = k["x_est"]
        /\ k3["model"] = k["model"] /\ k3["u"] = k["u"] /\ k3["z"] = k["z"]
    BY <2>2, <2>4, <2>5, Names DEF Changes
  <2>9. Leads(St(k), (LinearizePart \o int_P) \o ContinuousGain, St(k3))
    <3>1. Leads(St(k), LinearizePart \o int_P, St(k2))
      BY <1>5, <2>1, ContinuousIs, LeadsOn
    <3> QED BY <2>5, <3>1, ContinuousIs, LeadsOn
  <2>10. CASE k["model"] = Null
    <3> DEFINE e == [kf |-> k3, fate |-> "crashed"]
    <3>1. e.fate # "ready" /\ Leads(St(k3), First8X, e)
      BY <2>8, <2>10, IntegrateXCrashes
    <3>2. ContinuousFate(k) = "crashed"
      BY <1>10, <2>10 DEF ContinuousFate
    <3> HIDE DEF e
    <3>3. Leads(St(k3), int_X, e)
      <4>1. Leads(St(k3), First8X \o <<matrixCopy("xk", "x_est")>>, e)
        BY <3>1, IntXIs, LeadsStuck
      <4> QED BY <4>1, IntXIs
    <3>4. Leads(St(k), continousKalmanFilter, e)
      BY <2>9, <3>3, ContinuousIs, LeadsOn
    <3>5. Run(k, continousKalmanFilter) = [kf |-> k3, fate |-> ContinuousFate(k)]
      <4>1. Run(k, continousKalmanFilter) = e
        BY <3>4, ContinuousIs, RunLeads DEF St
      <4> QED BY <3>2, <4>1 DEF e
    <3>6. Changes(k, k3, ContinuousWrites)
      BY <2>7 DEF Mid, W
    <3> QED BY <1>10, <2>6, <2>8, <3>2, <3>5, <3>6
  <2>11. CASE k["model"] # Null
    <3>1. k["model"] \in SecondDegree /\ ContinuousFate(k) = "ready"
      BY <1>10, <2>11 DEF ContinuousFate
    <3>2. Typed(k3, IntegrateXUses \cup {"x_est"})
      BY <1>3, <2>7, <2>8, <3>1, Types DEF Mid, Typed
    <3>3. PICK t : /\ Leads(St(k3), int_X, St(t))
                   /\ Changes(k3, t, IntegrateXWrites \cup {"x_est"})
                   /\ t["xk"] = RungeKutta([y \in Vector |-> XSlope(k3["k"], k3, y)], k3["xk"])
                   /\ t["x_est"] = t["xk"]
      BY <3>2, IntXRun
    <3>4. t["xk"] = NewContinuousX(k)
      BY <2>6, <2>8, <3>3 DEF NewContinuousX, XSlope
    <3>5. t["Ac"] = NewAc(k) /\ t["P"] = NewContinuousP(k) /\ t["k"] = NewContinuousGain(k)
      BY <2>6, <2>8, <3>3, Names DEF Changes, IntegrateXWrites, LocalVs
    <3>6. Mid(k, t, L, W)
      BY <1>1, <1>2, <2>7, <3>3, MidOn
    <3>7. Run(k, continousKalmanFilter) = [kf |-> t, fate |-> ContinuousFate(k)]
      <4>1. Leads(St(k), continousKalmanFilter, St(t))
        BY <2>9, <3>3, ContinuousIs, LeadsOn
      <4>2. Run(k, continousKalmanFilter) = St(t)
        BY <4>1, ContinuousIs, RunLeads DEF St
      <4> QED BY <3>1, <4>2 DEF St
    <3>8. Changes(k, t, ContinuousWrites)
      BY <3>6 DEF Mid, W
    <3> QED BY <1>10, <3>1, <3>3, <3>4, <3>5, <3>7, <3>8
  <2> QED BY <2>10, <2>11
<1> QED BY <1>9, <1>10

-----------------------------------------------------------------------------
(* The inductive invariant: what the members of a filter are between calls. *)

Ready(k) ==
  /\ Typed(k, Uses)
  /\ k["Q"] \in Symmetric /\ k["R"] \in Symmetric
  /\ flags.filter = "discrete" => k["P"] \in Symmetric
  /\ flags.model = "linear" => k["linstate"] = Null /\ k["model"] \in SecondDegree \cup {Null}
  /\ flags.model = "linear" /\ flags.time = "disc" => k["Ac"] = Null

IInv == /\ flags \in Flags /\ calls \in Nat
        /\ fate \in {"none", "ready", "freed", "exited", "crashed"}
        /\ fate = "ready" => Ready(kf)

LEMMA FreshIs ==
  ASSUME NEW g \in F
  PROVE  /\ FreshM(g) \in Matrix /\ FreshV(g) \in Vector /\ FreshU(g) \in Single
         /\ <<<<1, g>>, <<g, 1>>>> \in Matrix
<1>1. FreshM(g) \in Matrix /\ FreshV(g) \in Vector /\ FreshU(g) \in Single
  BY DEF FreshM, FreshV, FreshU, Matrix, Vector, Single
<1>2. <<<<1, g>>, <<g, 1>>>> \in Matrix
  BY FieldInt DEF Matrix, Index
<1> QED BY <1>1, <1>2

LEMMA ZeroSymmetric == FreshM(0) \in Symmetric
<1>1. FreshM(0) \in Matrix
  BY FreshIs, FieldInt
<1>2. Trans(FreshM(0)) \in Matrix /\ \A i, j \in Index : Trans(FreshM(0))[i][j] = FreshM(0)[j][i]
  BY <1>1, TransIs
<1>3. \A i, j \in Index : FreshM(0)[i][j] = FreshM(0)[j][i]
  BY DEF FreshM
<1>4. Trans(FreshM(0)) = FreshM(0)
  BY <1>1, <1>2, <1>3, SameMatrix
<1> QED BY <1>1, <1>4, SymmetricIs

LEMMA CommonIs ==
  ASSUME NEW m, NEW h, NEW q, NEW r, NEW g, NEW c, c = Common(m, h, q, r, g)
  PROVE  /\ DOMAIN c = Members /\ c = [f \in Members |-> c[f]]
         /\ \A f \in {"Ad", "AdT", "P", "P2", "k"} : c[f] = FreshM(0)
         /\ \A f \in {"m0", "m1", "m2", "m3"} : c[f] = FreshM(g)
         /\ \A f \in {"z", "x_est", "xk", "Bd"} : c[f] = FreshV(0)
         /\ \A f \in {"v0", "v1", "v2"} : c[f] = FreshV(g)
         /\ c["u"] = FreshU(g) /\ c["H"] = h /\ c["HT"] = Trans(h) /\ c["Q"] = q /\ c["R"] = r
         /\ c["eye"] = <<<<1, g>>, <<g, 1>>>> /\ c["model"] = m
         /\ c["linstate"] = Null /\ c["Ac"] = Null
<1>1. DOMAIN c = Members /\ c = [f \in Members |-> c[f]]
  BY DEF Common
<1>2. \A f \in {"Ad", "AdT", "P", "P2", "k"} : c[f] = FreshM(0)
  BY Names DEF Common
<1>3. \A f \in {"m0", "m1", "m2", "m3"} : c[f] = FreshM(g)
  BY Names DEF Common
<1>4. \A f \in {"z", "x_est", "xk", "Bd"} : c[f] = FreshV(0)
  BY Names DEF Common
<1>5. \A f \in {"v0", "v1", "v2"} : c[f] = FreshV(g)
  BY Names DEF Common
<1>6. c["u"] = FreshU(g) /\ c["H"] = h /\ c["HT"] = Trans(h) /\ c["Q"] = q /\ c["R"] = r
  BY Names DEF Common
<1>7. c["eye"] = <<<<1, g>>, <<g, 1>>>> /\ c["model"] = m
  BY Names DEF Common
<1>8. c["linstate"] = Null /\ c["Ac"] = Null
  BY Names DEF Common
<1> QED BY <1>1, <1>2, <1>3, <1>4, <1>5, <1>6, <1>7, <1>8

LEMMA CommonTyped ==
  ASSUME NEW m, NEW h \in Matrix, NEW q \in Matrix, NEW r \in Matrix, NEW g \in F,
         NEW c, c = Common(m, h, q, r, g)
  PROVE  Typed(c, Plain)
<1>0. 0 \in F
  BY FieldInt
<1>a. /\ FreshM(0) \in Matrix /\ FreshM(g) \in Matrix /\ FreshV(0) \in Vector /\ FreshV(g) \in Vector
      /\ <<<<1, g>>, <<g, 1>>>> \in Matrix /\ Trans(h) \in Matrix
  BY <1>0, FreshIs, MatrixClosed
<1>b. \A f \in {"Ad", "AdT", "P", "P2", "k", "m0", "m1", "m2", "m3", "H", "HT", "Q", "R", "eye"} :
        c[f] \in Matrix
  BY <1>a, CommonIs
<1>c. \A f \in {"z", "x_est", "xk", "Bd", "v0", "v1", "v2"} : c[f] \in Vector
  BY <1>a, CommonIs
<1>1. \A f \in {"Ad", "AdT", "P", "P2", "k", "m0", "m1", "m2", "m3", "H", "HT", "Q", "R", "eye"} :
        c[f] \in Matrix /\ TypeOf(f) = Matrix
  BY <1>b, Types
<1>2. \A f \in {"z", "x_est", "xk", "Bd", "v0", "v1", "v2"} : c[f] \in Vector /\ TypeOf(f) = Vector
  BY <1>c, Types
<1>3. c["u"] \in Single /\ TypeOf("u") = Single
  BY CommonIs, FreshIs, Types
<1>4. DOMAIN c = Members /\ c = [f \in Members |-> c[f]]
  BY CommonIs
<1>5. \A f \in Plain : c[f] \in TypeOf(f)
  BY <1>1, <1>2, <1>3 DEF Plain
<1> QED BY <1>4, <1>5 DEF Typed

LEMMA NonlinearIs ==
  ASSUME NEW c, DOMAIN c = Members, c = [f \in Members |-> c[f]], NEW g \in F,
         NEW t, t = Nonlinear(c, g)
  PROVE  /\ DOMAIN t = Members /\ t = [f \in Members |-> t[f]]
         /\ \A f \in {"linstate", "Bc", "b0", "b1"} : t[f] \in Vector
         /\ \A f \in {"Ac", "AcT"} : t[f] \in Matrix
         /\ \A f \in {"ulinstate", "tmpu"} : t[f] \in Single
         /\ \A f \in Members \ {"linstate", "Bc", "b0", "b1", "Ac", "AcT", "ulinstate", "tmpu"} : t[f] = c[f]
<1> DEFINE v == FreshV(0)  w == FreshV(g)  m == FreshM(0)  u == FreshU(g)
<1>1. v \in Vector /\ w \in Vector /\ m \in Matrix /\ u \in Single
  BY FreshIs, FieldInt
<1>2. t = [c EXCEPT !["linstate"] = v, !["Ac"] = m, !["AcT"] = m,
                    !["Bc"] = v, !["ulinstate"] = u, !["tmpu"] = u, !["b0"] = w, !["b1"] = w]
  BY DEF Nonlinear
<1> HIDE DEF v, w, m, u
<1>3. DOMAIN t = Members /\ t = [f \in Members |-> t[f]]
  BY <1>2
<1>4. t["linstate"] = v /\ t["Bc"] = v /\ t["b0"] = w /\ t["b1"] = w
  BY <1>2, Names
<1>5. t["Ac"] = m /\ t["AcT"] = m /\ t["ulinstate"] = u /\ t["tmpu"] = u
  BY <1>2, Names
<1>6. \A f \in Members \ {"linstate", "Bc", "b0", "b1", "Ac", "AcT", "ulinstate", "tmpu"} : t[f] = c[f]
  BY <1>2
<1> QED BY <1>1, <1>3, <1>4, <1>5, <1>6

LEMMA LinearIs ==
  ASSUME NEW c, DOMAIN c = Members, c = [f \in Members |-> c[f]], NEW g \in F,
         NEW s \in [a : Matrix, b : Vector], NEW time, NEW t, t = Linear(c, time, s, g)
  PROVE  /\ DOMAIN t = Members /\ t = [f \in Members |-> t[f]]
         /\ time = "disc" => /\ t["Ad"] \in Matrix /\ t["AdT"] \in Matrix /\ t["Bd"] \in Vector
                             /\ \A f \in Members \ {"Ad", "AdT", "Bd"} : t[f] = c[f]
         /\ time # "disc" => /\ t["Ac"] \in Matrix /\ t["AcT"] \in Matrix /\ t["Bc"] \in Vector
                             /\ t["b0"] \in Vector /\ t["b1"] \in Vector
                             /\ \A f \in Members \ {"Ac", "AcT", "Bc", "b0", "b1"} : t[f] = c[f]
<1> DEFINE a == s.a  b == s.b  w == FreshV(g)  at == Trans(a)
<1>1. a \in Matrix /\ b \in Vector /\ w \in Vector /\ at \in Matrix
  BY FreshIs, MatrixClosed
<1>2. t = IF time = "disc" THEN [c EXCEPT !["Ad"] = a, !["AdT"] = at, !["Bd"] = b]
          ELSE [c EXCEPT !["Ac"] = a, !["AcT"] = at, !["Bc"] = b, !["b0"] = w, !["b1"] = w]
  BY DEF Linear
<1> HIDE DEF a, b, w, at
<1>3. CASE time = "disc"
  <2>1. t = [c EXCEPT !["Ad"] = a, !["AdT"] = at, !["Bd"] = b]
    BY <1>2, <1>3
  <2>2. DOMAIN t = Members /\ t = [f \in Members |-> t[f]]
    BY <2>1
  <2>3. t["Ad"] = a /\ t["AdT"] = at /\ t["Bd"] = b
    BY <2>1, Names
  <2>4. \A f \in Members \ {"Ad", "AdT", "Bd"} : t[f] = c[f]
    BY <2>1
  <2> QED BY <1>1, <1>3, <2>2, <2>3, <2>4
<1>4. CASE time # "disc"
  <2>1. t = [c EXCEPT !["Ac"] = a, !["AcT"] = at, !["Bc"] = b, !["b0"] = w, !["b1"] = w]
    BY <1>2, <1>4
  <2>2. DOMAIN t = Members /\ t = [f \in Members |-> t[f]]
    BY <2>1
  <2>3. t["Ac"] = a /\ t["AcT"] = at /\ t["Bc"] = b /\ t["b0"] = w /\ t["b1"] = w
    BY <2>1, Names
  <2>4. \A f \in Members \ {"Ac", "AcT", "Bc", "b0", "b1"} : t[f] = c[f]
    BY <2>1
  <2> QED BY <1>1, <1>4, <2>2, <2>3, <2>4
<1> QED BY <1>3, <1>4

\* A filter that createKalmanFilter makes is ready.
LEMMA CreatedReady ==
  ASSUME flags \in Flags, NEW m \in Models \cup {Null}, NEW s \in Ms \cup {Null}, NEW h \in Hs,
         NEW q \in Qs, NEW r \in Rs, NEW g \in Leftover
  PROVE  /\ flags.model = "nonlinear" /\ m # Null => Ready(Nonlinear(Common(m, h, q, r, g), g))
         /\ flags.model = "linear" /\ s # Null => Ready(Linear(Common(m, h, q, r, g), flags.time, s, g))
<1> DEFINE c == Common(m, h, q, r, g)
<1>1. /\ h \in Matrix /\ q \in Matrix /\ r \in Matrix /\ g \in F /\ q \in Symmetric /\ r \in Symmetric
      /\ m \in SecondDegree \cup {Null} /\ (s # Null => s \in [a : Matrix, b : Vector])
  BY CallerAssumption DEF Symmetric, SecondDegree
<1>2. Typed(c, Plain)
  BY <1>1, CommonTyped
<1>3. DOMAIN c = Members /\ c = [f \in Members |-> c[f]]
  BY <1>2 DEF Typed
<1>4. /\ c["Q"] \in Symmetric /\ c["R"] \in Symmetric /\ c["P"] \in Symmetric
      /\ c["model"] = m /\ c["linstate"] = Null /\ c["Ac"] = Null
  BY <1>1, CommonIs, ZeroSymmetric
<1> HIDE DEF c
<1>5. ASSUME flags.model = "nonlinear", m # Null PROVE Ready(Nonlinear(c, g))
  <2> DEFINE t == Nonlinear(c, g)
             V == {"linstate", "Bc", "b0", "b1", "Ac", "AcT", "ulinstate", "tmpu"}
  <2>1. /\ DOMAIN t = Members /\ t = [f \in Members |-> t[f]]
        /\ \A f \in {"linstate", "Bc", "b0", "b1"} : t[f] \in Vector
        /\ \A f \in {"Ac", "AcT"} : t[f] \in Matrix
        /\ \A f \in {"ulinstate", "tmpu"} : t[f] \in Single
        /\ \A f \in Members \ V : t[f] = c[f]
    BY <1>1, <1>3, NonlinearIs
  <2> HIDE DEF t
  <2>2. \A f \in V : t[f] \in TypeOf(f)
    BY <2>1, Types
  <2>3. t["model"] \in TypeOf("model")
    BY <1>1, <1>4, <1>5, <2>1, Types, Names
  <2>4. \A f \in Plain : t[f] \in TypeOf(f)
    BY <1>2, <2>1, UsesAre DEF Typed, Uses, Plain
  <2>5. Uses \subseteq Plain \cup V \cup {"model"}
    BY <1>5 DEF Uses, LinearizeWrites, Plain
  <2>6. Typed(t, Uses)
    <3>1. \A f \in Uses : t[f] \in TypeOf(f)
      BY <2>2, <2>3, <2>4, <2>5
    <3> QED BY <2>1, <3>1 DEF Typed
  <2>7. t["Q"] \in Symmetric /\ t["R"] \in Symmetric /\ t["P"] \in Symmetric
    BY <1>4, <2>1, Names
  <2> QED BY <1>5, <2>6, <2>7 DEF Ready, t
<1>6. ASSUME flags.model = "linear", s # Null PROVE Ready(Linear(c, flags.time, s, g))
  <2> DEFINE time == flags.time  t == Linear(c, time, s, g)
  <2>1. /\ DOMAIN t = Members /\ t = [f \in Members |-> t[f]]
        /\ time = "disc" => /\ t["Ad"] \in Matrix /\ t["AdT"] \in Matrix /\ t["Bd"] \in Vector
                            /\ \A f \in Members \ {"Ad", "AdT", "Bd"} : t[f] = c[f]
        /\ time # "disc" => /\ t["Ac"] \in Matrix /\ t["AcT"] \in Matrix /\ t["Bc"] \in Vector
                            /\ t["b0"] \in Vector /\ t["b1"] \in Vector
                            /\ \A f \in Members \ {"Ac", "AcT", "Bc", "b0", "b1"} : t[f] = c[f]
    BY <1>1, <1>3, <1>6, LinearIs
  <2> HIDE DEF t
  <2>2. \A f \in Plain : t[f] \in TypeOf(f)
    <3>1. Plain \in SUBSET Members
      BY UsesAre DEF Uses
    <3>2. CASE time = "disc"
      <4>1. \A f \in {"Ad", "AdT", "Bd"} : t[f] \in TypeOf(f)
        BY <2>1, <3>2, Types
      <4>2. \A f \in Plain \ {"Ad", "AdT", "Bd"} : t[f] \in TypeOf(f)
        BY <1>2, <2>1, <3>1, <3>2 DEF Typed
      <4> QED BY <4>1, <4>2
    <3>3. CASE time # "disc"
      <4>1. \A f \in Plain : f \notin {"Ac", "AcT", "Bc", "b0", "b1"}
        BY DEF Plain
      <4> QED BY <1>2, <2>1, <3>1, <3>3, <4>1 DEF Typed
    <3> QED BY <3>2, <3>3
  <2>3. time # "disc" => \A f \in {"Ac", "AcT", "Bc", "b0", "b1"} : t[f] \in TypeOf(f)
    BY <2>1, Types
  <2>4. Typed(t, Uses)
    <3>1. CASE time = "disc"
      <4>1. Uses = Plain
        BY <1>6, <3>1 DEF Uses
      <4> QED BY <2>1, <2>2, <4>1 DEF Typed
    <3>2. CASE time # "disc"
      <4>1. Uses \subseteq Plain \cup {"Ac", "AcT", "Bc", "b0", "b1"}
        BY <1>6 DEF Uses
      <4>2. \A f \in Uses : t[f] \in TypeOf(f)
        BY <2>2, <2>3, <3>2, <4>1
      <4> QED BY <2>1, <4>2 DEF Typed
    <3> QED BY <3>1, <3>2
  <2>5. /\ t["Q"] = c["Q"] /\ t["R"] = c["R"] /\ t["P"] = c["P"] /\ t["model"] = c["model"]
        /\ t["linstate"] = c["linstate"] /\ (time = "disc" => t["Ac"] = c["Ac"])
    BY <2>1, Names
  <2> QED BY <1>1, <1>4, <1>6, <2>4, <2>5 DEF Ready, t
<1> QED BY <1>5, <1>6 DEF c

-----------------------------------------------------------------------------
(* What a call of kalman starts from.                                      *)

Given(k) ==
  /\ Typed(k, ContinuousUses)
  /\ flags.model = "linear" => k["model"] \in SecondDegree \cup {Null}
  /\ flags.model = "linear" /\ flags.time = "disc" => k["Ac"] = Null

LEMMA SuppliedIs ==
  ASSUME Ready(kf), NEW z \in Zs, NEW u \in Us, NEW g \in Leftover, NEW k, k = Supplied(z, u, g)
  PROVE  /\ Given(k) /\ k["z"] = z /\ k["u"] = u
         /\ \A f \in Members \ ({"z", "u"} \cup Locals \cup LocalVs) : k[f] = kf[f]
<1>1. z \in Vector /\ u \in Single /\ g \in F
  BY CallerAssumption
<1>2. FreshM(g) \in Matrix /\ FreshV(g) \in Vector
  BY <1>1, FreshIs
<1>3. DOMAIN k = Members /\ k = [f \in Members |-> k[f]]
  BY DEF Supplied
<1>4. k["z"] = z /\ k["u"] = u
  <2>1. "z" \notin Locals \cup LocalVs /\ "u" \notin Locals \cup LocalVs
    BY DEF Locals, LocalVs
  <2>2. k["z"] = z
    BY <2>1, Names DEF Supplied
  <2>3. k["u"] = u
    BY <2>1, Names DEF Supplied
  <2> QED BY <2>2, <2>3
<1>5. \A f \in Locals : k[f] = FreshM(g) /\ TypeOf(f) = Matrix
  <2>1. \A f \in Locals : f \in Members /\ f # "z" /\ f # "u"
    BY DEF Members, Locals
  <2>2. \A f \in Locals : k[f] = FreshM(g)
    <3>1. \A f \in Locals : f \notin LocalVs
      BY DEF Locals, LocalVs
    <3> QED BY <2>1, <3>1 DEF Supplied
  <2>3. \A f \in Locals : TypeOf(f) = Matrix
    BY Types DEF Locals
  <2> QED BY <2>2, <2>3
<1>6. \A f \in LocalVs : k[f] = FreshV(g) /\ TypeOf(f) = Vector
  <2>1. \A f \in LocalVs : f \in Members /\ f # "z" /\ f # "u" /\ f \notin Locals
    BY DEF Members, Locals, LocalVs
  <2>2. \A f \in LocalVs : k[f] = FreshV(g)
    BY <2>1 DEF Supplied
  <2>3. \A f \in LocalVs : TypeOf(f) = Vector
    BY Types DEF LocalVs
  <2> QED BY <2>2, <2>3
<1>7. \A f \in Members \ ({"z", "u"} \cup Locals \cup LocalVs) : k[f] = kf[f]
  BY DEF Supplied
<1>8. Typed(k, ContinuousUses)
  <2>1. \A f \in Uses : f \in Members /\ f \notin Locals /\ f \notin LocalVs
    BY UsesAre DEF Uses, Plain, LinearizeWrites, Locals, LocalVs
  <2>2. \A f \in Uses : k[f] \in TypeOf(f)
    BY <1>1, <1>4, <1>7, <2>1, Types DEF Ready, Typed
  <2> QED BY <1>2, <1>3, <1>5, <1>6, <2>2 DEF ContinuousUses, Typed
<1>9. k["model"] = kf["model"] /\ k["Ac"] = kf["Ac"]
  BY <1>7, Names DEF Locals, LocalVs
<1> QED BY <1>4, <1>7, <1>8, <1>9 DEF Given, Ready

-----------------------------------------------------------------------------
(* What an update computes depends on the members that are not scratch.    *)

Kept == Members \ (Scratch \cup Locals \cup LocalVs)

LEMMA KeptAre == /\ "Ac" \in Kept /\ "Ad" \in Kept /\ "Bc" \in Kept /\ "Bd" \in Kept /\ "H" \in Kept
                 /\ "u" \in Kept /\ "z" \in Kept /\ "Q" \in Kept /\ "R" \in Kept /\ "P" \in Kept
                 /\ "k" \in Kept /\ "xk" \in Kept /\ "x_est" \in Kept /\ "model" \in Kept
                 /\ "eye" \in Kept
BY Names DEF Kept, Scratch, Locals, LocalVs

LEMMA SameNews ==
  ASSUME NEW k, NEW l, \A f \in Kept : k[f] = l[f]
  PROVE  /\ NewAc(k) = NewAc(l) /\ NewAd(k) = NewAd(l) /\ NewBd(k) = NewBd(l)
         /\ PriorX(k) = PriorX(l) /\ PriorP(k) = PriorP(l) /\ InnovationP(k) = InnovationP(l)
         /\ NewGain(k) = NewGain(l) /\ PosteriorX(k) = PosteriorX(l) /\ PosteriorP(k) = PosteriorP(l)
         /\ NewContinuousP(k) = NewContinuousP(l) /\ NewContinuousGain(k) = NewContinuousGain(l)
         /\ NewContinuousX(k) = NewContinuousX(l) /\ ContinuousFate(k) = ContinuousFate(l)
<1>1. /\ k["Ac"] = l["Ac"] /\ k["Ad"] = l["Ad"] /\ k["Bc"] = l["Bc"] /\ k["Bd"] = l["Bd"]
      /\ k["H"] = l["H"] /\ k["u"] = l["u"] /\ k["z"] = l["z"] /\ k["Q"] = l["Q"] /\ k["R"] = l["R"]
      /\ k["P"] = l["P"] /\ k["xk"] = l["xk"] /\ k["model"] = l["model"] /\ k["eye"] = l["eye"]
  BY KeptAre
<1>2. NewAc(k) = NewAc(l)
  BY <1>1 DEF NewAc
<1>3. NewAd(k) = NewAd(l) /\ NewBd(k) = NewBd(l)
  BY <1>1, <1>2 DEF NewAd, NewBd, SeriesA, SeriesB
<1>4. PriorX(k) = PriorX(l) /\ PriorP(k) = PriorP(l)
  BY <1>1, <1>3 DEF PriorX, PriorP
<1>5. InnovationP(k) = InnovationP(l)
  BY <1>1, <1>4 DEF InnovationP
<1>6. NewGain(k) = NewGain(l)
  BY <1>1, <1>4, <1>5 DEF NewGain
<1>7. PosteriorX(k) = PosteriorX(l) /\ PosteriorP(k) = PosteriorP(l)
  BY <1>1, <1>4, <1>6 DEF PosteriorX, PosteriorP
<1>8. NewContinuousP(k) = NewContinuousP(l)
  BY <1>1, <1>2 DEF NewContinuousP, PSlope
<1>9. NewContinuousGain(k) = NewContinuousGain(l)
  BY <1>1, <1>8 DEF NewContinuousGain
<1>10. NewContinuousX(k) = NewContinuousX(l)
  BY <1>1, <1>9 DEF NewContinuousX, XSlope
<1>11. ContinuousFate(k) = ContinuousFate(l)
  BY <1>1 DEF ContinuousFate
<1> QED BY <1>2, <1>3, <1>4, <1>5, <1>6, <1>7, <1>8, <1>9, <1>10, <1>11

\* How a call ends, and the members it leaves.
Outcome(k) == IF flags.filter = "discrete"
              THEN IF Det(InnovationP(k)) = 0 THEN "exited" ELSE "ready"
              ELSE IF flags.model = "linear" /\ flags.time = "disc" THEN "crashed" ELSE ContinuousFate(k)
Computed == {"Ac", "Ad", "Bd", "P", "k", "xk", "x_est"}
NewMember(k, f) ==
  IF flags.filter = "discrete"
  THEN LET go == Det(InnovationP(k)) # 0
       IN  CASE f = "Ac"    -> NewAc(k)
             [] f = "Ad"    -> NewAd(k)
             [] f = "Bd"    -> NewBd(k)
             [] f = "P"     -> IF go THEN PosteriorP(k) ELSE PriorP(k)
             [] f = "k"     -> IF go THEN NewGain(k) ELSE k["k"]
             [] f = "xk"    -> IF go THEN PosteriorX(k) ELSE PriorX(k)
             [] f = "x_est" -> IF go THEN PosteriorX(k) ELSE k["x_est"]
  ELSE IF flags.model = "linear" /\ flags.time = "disc" THEN k[f]
  ELSE CASE f = "Ac"    -> NewAc(k)
         [] f = "Ad"    -> k["Ad"]
         [] f = "Bd"    -> k["Bd"]
         [] f = "P"     -> IF Det(k["R"]) = 0 THEN k["P"] ELSE NewContinuousP(k)
         [] f = "k"     -> IF Det(k["R"]) = 0 THEN k["k"] ELSE NewContinuousGain(k)
         [] f = "xk"    -> IF ContinuousFate(k) = "ready" THEN NewContinuousX(k) ELSE k["xk"]
         [] f = "x_est" -> IF ContinuousFate(k) = "ready" THEN NewContinuousX(k) ELSE k["x_est"]

\* What a call leaves of the members k it starts from.
Leaves(k, t) ==
  /\ Typed(t, Uses)
  /\ \A f \in Kept \ Computed : t[f] = k[f]
  /\ \A f \in Computed : t[f] = NewMember(k, f)
  /\ flags.model = "linear" => t["linstate"] = k["linstate"]

LEMMA UpdateRun ==
  ASSUME flags \in Flags, NEW k, Given(k)
  PROVE  \E t : Run(k, kalman) = [kf |-> t, fate |-> Outcome(k)] /\ Leaves(k, t)
<1>1. Typed(k, Uses)
  BY TypedLess DEF Given, ContinuousUses
<1>2. flags.model \in {"linear", "nonlinear"} /\ flags.time \in {"disc", "cont"}
      /\ flags.filter \in {"discrete", "continuous"}
  BY DEF Flags
<1>3. CASE flags.filter = "discrete"
  <2>1. PICK t : /\ Run(k, discreteKalmanFilter)
                     = [kf |-> t, fate |-> IF Det(InnovationP(k)) = 0 THEN "exited" ELSE "ready"]
                 /\ Changes(k, t, DiscreteWrites)
                 /\ t["Ac"] = NewAc(k) /\ t["Ad"] = NewAd(k) /\ t["Bd"] = NewBd(k)
                 /\ Det(InnovationP(k)) = 0 => /\ t["k"] = k["k"] /\ t["xk"] = PriorX(k)
                                               /\ t["P"] = PriorP(k) /\ t["x_est"] = k["x_est"]
                 /\ Det(InnovationP(k)) # 0 => /\ t["k"] = NewGain(k) /\ t["xk"] = PosteriorX(k)
                                               /\ t["P"] = PosteriorP(k) /\ t["x_est"] = PosteriorX(k)
    BY <1>1, DiscreteRun
  <2>2. Run(k, kalman) = [kf |-> t, fate |-> Outcome(k)]
    BY <1>3, <2>1 DEF kalman, Outcome
  <2>3. Typed(t, Uses)
    <3>1. DiscreteWrites \in SUBSET Members
      BY UsesAre, WritesAre
    <3> QED BY <1>1, <2>1, <3>1, UsesAre, TypedAfter
  <2>4. \A f \in Kept \ Computed : t[f] = k[f]
    <3>1. \A f \in Kept \ Computed : f \in Members \ DiscreteWrites
      BY DEF Kept, Computed, DiscreteWrites, LinearizePartWrites, LinearizeWrites, C2DPartWrites, Scratch
    <3> QED BY <2>1, <3>1 DEF Changes
  <2>5. \A f \in Computed : t[f] = NewMember(k, f)
    BY <1>3, <2>1 DEF Computed, NewMember
  <2>6. flags.model = "linear" => t["linstate"] = k["linstate"]
    BY <2>1, Names DEF Changes, DiscreteWrites, LinearizePartWrites, C2DPartWrites
  <2> QED BY <2>2, <2>3, <2>4, <2>5, <2>6 DEF Leaves
<1>4. CASE flags.filter = "continuous" /\ flags.model = "linear" /\ flags.time = "disc"
  <2>1. Run(k, kalman) = [kf |-> k, fate |-> Outcome(k)]
    BY <1>4, ContinuousCrashes DEF kalman, Outcome, Given
  <2>2. \A f \in Computed : k[f] = NewMember(k, f)
    BY <1>4 DEF NewMember
  <2> QED BY <1>1, <2>1, <2>2 DEF Leaves
<1>5. CASE flags.filter = "continuous" /\ (flags.model = "nonlinear" \/ flags.time = "cont")
  <2>1. k["model"] \in SecondDegree \cup {Null}
    <3>1. CASE flags.model = "nonlinear"
      BY <1>1, <3>1, Types DEF Typed, Uses
    <3> QED BY <1>2, <3>1 DEF Given
  <2>2. PICK t : /\ Run(k, continousKalmanFilter) = [kf |-> t, fate |-> ContinuousFate(k)]
                 /\ Changes(k, t, ContinuousWrites)
                 /\ t["Ac"] = NewAc(k)
                 /\ t["P"] = IF Det(k["R"]) = 0 THEN k["P"] ELSE NewContinuousP(k)
                 /\ t["k"] = IF Det(k["R"]) = 0 THEN k["k"] ELSE NewContinuousGain(k)
                 /\ t["xk"] = IF ContinuousFate(k) = "ready" THEN NewContinuousX(k) ELSE k["xk"]
                 /\ t["x_est"] = IF ContinuousFate(k) = "ready" THEN NewContinuousX(k) ELSE k["x_est"]
    BY <1>5, <2>1, ContinuousRun DEF Given
  <2>3. Run(k, kalman) = [kf |-> t, fate |-> Outcome(k)]
    BY <1>5, <2>2 DEF kalman, Outcome
  <2>4. ContinuousWrites \in SUBSET Members
    <3>1. LinearizePartWrites \in SUBSET Members
      BY UsesAre, WritesAre
    <3>2. Locals \in SUBSET Members /\ LocalVs \in SUBSET Members
      BY DEF Members
    <3> QED BY <3>1, <3>2, Names DEF ContinuousWrites, IntegratePWrites, IntegrateXWrites, SlopeWrites
  <2>5. Typed(t, Uses)
    BY <1>1, <2>2, <2>4, UsesAre, TypedAfter
  <2>6. \A f \in Kept \ Computed : t[f] = k[f]
    <3>1. \A f \in Kept \ Computed : f \in Members \ ContinuousWrites
      BY DEF Kept, Computed, ContinuousWrites, IntegratePWrites, IntegrateXWrites, SlopeWrites,
             LinearizePartWrites, LinearizeWrites, Scratch
    <3> QED BY <2>2, <3>1 DEF Changes
  <2>7. t["Ad"] = k["Ad"] /\ t["Bd"] = k["Bd"]
    BY <2>2, Names DEF Changes, ContinuousWrites, IntegratePWrites, IntegrateXWrites, SlopeWrites,
             LinearizePartWrites, LinearizeWrites, Locals, LocalVs
  <2>8. \A f \in Computed : t[f] = NewMember(k, f)
    BY <1>5, <2>2, <2>7 DEF Computed, NewMember
  <2>9. flags.model = "linear" => t["linstate"] = k["linstate"]
    BY <2>2, Names DEF Changes, ContinuousWrites, IntegratePWrites, IntegrateXWrites, SlopeWrites,
             LinearizePartWrites, Locals, LocalVs
  <2> QED BY <2>3, <2>5, <2>6, <2>8, <2>9 DEF Leaves
<1> QED BY <1>2, <1>3, <1>4, <1>5

LEMMA SameOutcome ==
  ASSUME flags \in Flags, NEW k, NEW l, Given(k), Given(l), \A f \in Kept : k[f] = l[f]
  PROVE  /\ Run(k, kalman).fate = Run(l, kalman).fate
         /\ \A f \in Kept : Run(k, kalman).kf[f] = Run(l, kalman).kf[f]
<1>1. PICK t : Run(k, kalman) = [kf |-> t, fate |-> Outcome(k)] /\ Leaves(k, t)
  BY UpdateRun
<1>2. PICK s : Run(l, kalman) = [kf |-> s, fate |-> Outcome(l)] /\ Leaves(l, s)
  BY UpdateRun
<1>3. /\ k["R"] = l["R"] /\ k["P"] = l["P"] /\ k["k"] = l["k"] /\ k["xk"] = l["xk"]
      /\ k["x_est"] = l["x_est"] /\ k["Ad"] = l["Ad"] /\ k["Bd"] = l["Bd"]
  BY KeptAre
<1>4. Outcome(k) = Outcome(l)
  BY SameNews DEF Outcome
<1>5. ASSUME NEW f \in Computed PROVE NewMember(k, f) = NewMember(l, f)
  <2>1. f \in Kept
    BY KeptAre DEF Computed
  <2>2. k[f] = l[f]
    BY <2>1
  <2> QED BY <1>3, <2>2, SameNews DEF Computed, NewMember
<1>6. \A f \in Kept : t[f] = s[f]
  BY <1>1, <1>2, <1>5 DEF Leaves
<1> QED BY <1>1, <1>2, <1>4, <1>6

LEMMA ScrambledIs ==
  ASSUME NEW k, Given(k), NEW l, l = Scrambled(k)
  PROVE  Given(l) /\ \A f \in Kept : l[f] = k[f]
<1>1. DOMAIN l = Members /\ l = [f \in Members |-> l[f]]
  BY DEF Scrambled
<1>2. \A f \in Members \ Scratch : l[f] = k[f]
  BY DEF Scrambled
<1>3. ASSUME NEW f \in ContinuousUses PROVE l[f] \in TypeOf(f)
  <2>1. f \in Members /\ k[f] \in TypeOf(f)
    <3>1. ContinuousUses \in SUBSET Members
      BY UsesAre DEF ContinuousUses, Members
    <3> QED BY <3>1 DEF Given, Typed
  <2>2. CASE f \notin Scratch
    BY <1>2, <2>1, <2>2
  <2>3. CASE f \in Scratch
    <3> DEFINE a == k[f]  b == l[f]
    <3>1. a # Null
      BY <2>1, NotNull
    <3>2. b = [i \in DOMAIN a |-> [j \in DOMAIN a[1] |-> (a[i][j] + i + 2 * j) % Prime]]
      BY <2>1, <2>3, <3>1 DEF Scrambled
    <3>3. TypeOf(f) \in {Matrix, Vector, Single}
      BY <2>3, Types DEF Scratch
    <3>4. a \in TypeOf(f)
      BY <2>1
    <3> HIDE DEF a, b
    <3>5. CASE TypeOf(f) = Matrix
      <4>1. a \in Matrix
        BY <3>4, <3>5
      <4>2. DOMAIN a = Index /\ DOMAIN a[1] = Index
        BY <4>1, Entries
      <4>3. \A i, j \in Index : (a[i][j] + i + 2 * j) % Prime \in F
        <5> SUFFICES ASSUME NEW i \in Index, NEW j \in Index PROVE (a[i][j] + i + 2 * j) % Prime \in F
          OBVIOUS
        <5>1. a[i][j] + i + 2 * j \in Int
          BY <4>1, Entries DEF Index
        <5> QED BY <5>1, NormType DEF N
      <4> QED BY <3>2, <3>5, <4>2, <4>3 DEF Matrix, b
    <3>6. CASE TypeOf(f) = Vector
      <4>1. a \in Vector
        BY <3>4, <3>6
      <4>2. DOMAIN a = Index /\ DOMAIN a[1] = {1}
        BY <4>1, VectorEntries
      <4>3. \A i \in Index, j \in {1} : (a[i][j] + i + 2 * j) % Prime \in F
        <5> SUFFICES ASSUME NEW i \in Index PROVE (a[i][1] + i + 2 * 1) % Prime \in F
          OBVIOUS
        <5>1. a[i][1] + i + 2 * 1 \in Int
          BY <4>1, VectorEntries DEF Index
        <5> QED BY <5>1, NormType DEF N
      <4> QED BY <3>2, <3>6, <4>2, <4>3 DEF Vector, b
    <3>7. CASE TypeOf(f) = Single
      <4>1. DOMAIN a = {1} /\ DOMAIN a[1] = {1} /\ a[1][1] \in Int
        BY <3>4, <3>7, FieldInt DEF Single
      <4>2. (a[1][1] + 1 + 2 * 1) % Prime \in F
        <5>1. a[1][1] + 1 + 2 * 1 \in Int
          BY <4>1
        <5> QED BY <5>1, NormType DEF N
      <4> QED BY <3>2, <3>7, <4>1, <4>2 DEF Single, b
    <3> QED BY <3>3, <3>5, <3>6, <3>7
  <2> QED BY <2>2, <2>3
<1>4. Typed(l, ContinuousUses)
  BY <1>1, <1>3 DEF Typed
<1>5. \A f \in Kept : l[f] = k[f]
  BY <1>2 DEF Kept
<1> QED BY <1>4, <1>5, KeptAre DEF Given

-----------------------------------------------------------------------------
(* The actions.                                                            *)

LEMMA UpdateIs ==
  ASSUME IInv, NEW z \in Zs, NEW u \in Us, NEW g \in Leftover, Update(z, u, g),
         NEW k, k = Supplied(z, u, g)
  PROVE  /\ fate' = Outcome(k) /\ flags' = flags /\ calls' = calls + 1
         /\ Given(k) /\ Ready(kf)
         /\ \A f \in Kept \ {"z", "u"} : k[f] = kf[f]
         /\ \A f \in Kept \ Computed : kf'[f] = k[f]
         /\ \A f \in Computed : kf'[f] = NewMember(k, f)
         /\ Typed(kf', Uses)
         /\ flags.model = "linear" => kf'["linstate"] = kf["linstate"]
<1>1. fate = "ready" /\ flags \in Flags /\ Ready(kf) /\ flags' = flags /\ calls' = calls + 1
  BY DEF IInv, Update
<1>2. /\ Given(k)
      /\ \A f \in Members \ ({"z", "u"} \cup Locals \cup LocalVs) : k[f] = kf[f]
  BY <1>1, SuppliedIs
<1>3. PICK t : Run(k, kalman) = [kf |-> t, fate |-> Outcome(k)] /\ Leaves(k, t)
  BY <1>1, <1>2, UpdateRun
<1>4. /\ fate' = Outcome(k)
      /\ kf' = [f \in Members |-> IF f \in Locals \cup LocalVs THEN Null ELSE t[f]]
  <2>1. [kf |-> t, fate |-> Outcome(k)].fate = Outcome(k) /\ [kf |-> t, fate |-> Outcome(k)].kf = t
    OBVIOUS
  <2>2. /\ fate' = Run(k, kalman).fate
        /\ kf' = [f \in Members |-> IF f \in Locals \cup LocalVs THEN Null ELSE Run(k, kalman).kf[f]]
    BY DEF Update
  <2> QED BY <1>3, <2>1, <2>2
<1>5. DOMAIN kf' = Members /\ kf' = [f \in Members |-> kf'[f]]
  BY <1>4
<1>6. \A f \in Members \ (Locals \cup LocalVs) : kf'[f] = t[f]
  BY <1>4
<1>7. \A f \in Uses : f \in Members \ (Locals \cup LocalVs)
  BY UsesAre DEF Uses, Plain, LinearizeWrites, Locals, LocalVs
<1>8. Typed(kf', Uses)
  BY <1>3, <1>5, <1>6, <1>7 DEF Leaves, Typed
<1>9. \A f \in Kept \ {"z", "u"} : k[f] = kf[f]
  BY <1>2 DEF Kept
<1>10. \A f \in Kept : kf'[f] = t[f]
  BY <1>6 DEF Kept
<1>11. Computed \subseteq Kept
  BY KeptAre DEF Computed
<1>12. /\ \A f \in Kept \ Computed : kf'[f] = k[f]
       /\ \A f \in Computed : kf'[f] = NewMember(k, f)
  BY <1>3, <1>10, <1>11 DEF Leaves
<1>13. flags.model = "linear" => kf'["linstate"] = kf["linstate"]
  <2>1. "linstate" \in Members \ ({"z", "u"} \cup Locals \cup LocalVs)
    BY Names DEF Locals, LocalVs
  <2>2. kf'["linstate"] = t["linstate"] /\ k["linstate"] = kf["linstate"]
    BY <1>2, <1>6, <2>1
  <2> QED BY <1>3, <2>2 DEF Leaves
<1> QED BY <1>1, <1>2, <1>4, <1>8, <1>9, <1>12, <1>13

\* The covariance that a discrete update leaves is symmetric.
LEMMA PosteriorSymmetric ==
  ASSUME NEW k, Typed(k, Uses), k["P"] \in Symmetric, k["Q"] \in Symmetric, k["R"] \in Symmetric,
         NewAd(k) \in Matrix, NewGain(k) \in Matrix
  PROVE  PriorP(k) \in Symmetric /\ PosteriorP(k) \in Symmetric
<1> DEFINE K == NewGain(k)  IK == Sub(Eye, Mul(K, k["H"]))
<1>1. PriorP(k) \in Symmetric
  BY Congruence, SymmetricClosed DEF PriorP
<1>2. k["H"] \in Matrix
  BY Types DEF Typed, Uses, Plain
<1>3. IK \in Matrix
  BY <1>2, EyeIs, MatrixClosed
<1>4. PosteriorP(k) = Add(Mul(Mul(IK, PriorP(k)), Trans(IK)), Mul(Mul(K, k["R"]), Trans(K)))
  BY DEF PosteriorP
<1> HIDE DEF K, IK
<1>5. Mul(Mul(IK, PriorP(k)), Trans(IK)) \in Symmetric
  BY <1>1, <1>3, Congruence
<1>6. Mul(Mul(K, k["R"]), Trans(K)) \in Symmetric
  BY Congruence DEF K
<1> QED BY <1>1, <1>4, <1>5, <1>6, SymmetricClosed

LEMMA InvInit == KalmanInit => IInv
BY DEF KalmanInit, IInv, Flags

LEMMA CreateKeeps ==
  ASSUME IInv, NEW m \in Models \cup {Null}, NEW s \in Ms \cup {Null}, NEW h \in Hs, NEW q \in Qs,
         NEW r \in Rs, NEW g \in Leftover, createKalmanFilter(m, s, h, q, r, g)
  PROVE  IInv'
<1>1. flags \in Flags /\ calls \in Nat /\ flags' = flags /\ calls' = calls
  BY DEF IInv, createKalmanFilter
<1>2. flags.model \in {"linear", "nonlinear"}
  BY <1>1 DEF Flags
<1>3. \/ fate' = "exited"
      \/ fate' = "ready" /\ Ready(kf')
  <2>1. CASE flags.model = "nonlinear"
    BY <1>1, <2>1, CreatedReady DEF createKalmanFilter
  <2>2. CASE flags.model = "linear"
    BY <1>1, <2>2, CreatedReady DEF createKalmanFilter
  <2> QED BY <1>2, <2>1, <2>2
<1>4. Ready(kf') => Ready(kf)'
  BY <1>1 DEF Ready, Typed, Uses
<1> QED BY <1>1, <1>3, <1>4 DEF IInv

LEMMA UpdateKeeps ==
  ASSUME IInv, NEW z \in Zs, NEW u \in Us, NEW g \in Leftover, Update(z, u, g)
  PROVE  IInv'
<1> DEFINE k == Supplied(z, u, g)
<1>1. /\ fate' = Outcome(k) /\ flags' = flags /\ calls' = calls + 1
      /\ Given(k) /\ Ready(kf)
      /\ \A f \in Kept \ {"z", "u"} : k[f] = kf[f]
      /\ \A f \in Kept \ Computed : kf'[f] = k[f]
      /\ \A f \in Computed : kf'[f] = NewMember(k, f)
      /\ Typed(kf', Uses)
      /\ flags.model = "linear" => kf'["linstate"] = kf["linstate"]
  BY UpdateIs
<1>2. flags \in Flags /\ calls \in Nat
  BY DEF IInv
<1> HIDE DEF k
<1>3. Outcome(k) \in {"ready", "exited", "crashed"}
  BY DEF Outcome, ContinuousFate
<1>4. /\ k["Q"] = kf["Q"] /\ k["R"] = kf["R"] /\ k["model"] = kf["model"] /\ k["Ac"] = kf["Ac"]
      /\ k["P"] = kf["P"]
  BY <1>1, KeptAre
<1>5. kf'["Q"] = kf["Q"] /\ kf'["R"] = kf["R"] /\ kf'["model"] = kf["model"]
  BY <1>1, <1>4, KeptAre DEF Computed
<1>6. ASSUME Outcome(k) = "ready", flags.filter = "discrete" PROVE kf'["P"] \in Symmetric
  <2>1. Det(InnovationP(k)) # 0
    BY <1>6 DEF Outcome
  <2>2. kf'["Ad"] = NewAd(k) /\ kf'["k"] = NewGain(k) /\ kf'["P"] = PosteriorP(k)
    BY <1>1, <1>6, <2>1 DEF Computed, NewMember
  <2>3. NewAd(k) \in Matrix /\ NewGain(k) \in Matrix
    BY <1>1, <2>2, Types DEF Typed, Uses, Plain
  <2>4. Typed(k, Uses)
    BY <1>1, TypedLess DEF Given, ContinuousUses
  <2>5. k["P"] \in Symmetric /\ k["Q"] \in Symmetric /\ k["R"] \in Symmetric
    BY <1>1, <1>4, <1>6 DEF Ready
  <2> QED BY <2>2, <2>3, <2>4, <2>5, PosteriorSymmetric
<1>7. ASSUME flags.model = "linear", flags.time = "disc" PROVE kf'["Ac"] = Null
  <2>1. k["Ac"] = Null
    BY <1>1, <1>7 DEF Given
  <2>2. kf'["Ac"] = NewMember(k, "Ac")
    BY <1>1 DEF Computed
  <2> QED BY <1>7, <2>1, <2>2 DEF NewMember, NewAc
<1>8. Outcome(k) = "ready" => Ready(kf')
  BY <1>1, <1>5, <1>6, <1>7 DEF Ready
<1>9. Ready(kf') => Ready(kf)'
  BY <1>1 DEF Ready, Typed, Uses
<1> QED BY <1>1, <1>2, <1>3, <1>8, <1>9 DEF IInv

LEMMA InvNext == IInv /\ [KalmanNext]_kalmanVars => IInv'
<1> SUFFICES ASSUME IInv, [KalmanNext]_kalmanVars PROVE IInv'
  OBVIOUS
<1>1. ASSUME NEW m \in Models \cup {Null}, NEW s \in Ms \cup {Null}, NEW h \in Hs, NEW q \in Qs,
             NEW r \in Rs, NEW g \in Leftover, createKalmanFilter(m, s, h, q, r, g)
      PROVE  IInv'
  BY <1>1, CreateKeeps
<1>2. ASSUME NEW z \in Zs, NEW u \in Us, NEW g \in Leftover, Update(z, u, g)
      PROVE  IInv'
  BY <1>2, UpdateKeeps
<1>3. CASE freeKalmanFilter
  BY <1>3 DEF freeKalmanFilter, IInv
<1>4. CASE UNCHANGED kalmanVars
  BY <1>4 DEF kalmanVars, IInv, Ready, Typed, Uses
<1> QED BY <1>1, <1>2, <1>3, <1>4 DEF KalmanNext

-----------------------------------------------------------------------------
(* Theorems.                                                               *)

\* Between two calls every member that the calls read has its type: what the
\* order of the calls and the creation of the filter are for.
THEOREM Invariant == KalmanSpec => []IInv
<1> QED BY InvInit, InvNext, PTL DEF KalmanSpec

\* The covariance of a discrete filter stays symmetric: kalman.c computes the
\* correction in the longer form, which keeps it so for every gain.
THEOREM SymmetryTheorem == KalmanSpec => []SymmetricP
<1>1. IInv => SymmetricP
  BY SymmetricIs DEF IInv, Ready, SymmetricP
<1> QED BY <1>1, Invariant, PTL

\* The scratch members of the structure carry nothing from one call of kalman
\* to the next: every path of both filters writes them before it reads them.
THEOREM ScratchTheorem == KalmanSpec => []ScratchDead
<1>1. IInv => ScratchDead
  <2> SUFFICES ASSUME IInv, fate = "ready", NEW z \in Zs, NEW u \in Us, NEW g \in Leftover
               PROVE  LET s == Run(Supplied(z, u, g), kalman)
                          t == Run(Scrambled(Supplied(z, u, g)), kalman)
                      IN  s.fate = t.fate /\ \A f \in Members \ (Scratch \cup Locals \cup LocalVs) :
                                                s.kf[f] = t.kf[f]
    BY DEF ScratchDead
  <2> DEFINE k == Supplied(z, u, g)  l == Scrambled(k)
  <2>1. flags \in Flags /\ Ready(kf)
    BY DEF IInv
  <2>2. Given(k)
    BY <2>1, SuppliedIs
  <2> HIDE DEF k
  <2>3. Given(l) /\ \A f \in Kept : l[f] = k[f]
    BY <2>2, ScrambledIs
  <2> HIDE DEF l
  <2>4. Run(k, kalman).fate = Run(l, kalman).fate /\ \A f \in Kept : Run(k, kalman).kf[f] = Run(l, kalman).kf[f]
    BY <2>1, <2>2, <2>3, SameOutcome
  <2> QED BY <2>4 DEF Kept, k, l
<1> QED BY <1>1, Invariant, PTL

\* The steps that raise calls are the updates.
LEMMA CallsRise ==
  ASSUME IInv, [KalmanNext]_kalmanVars, calls' > calls
  PROVE  \E z \in Zs, u \in Us, g \in Leftover : Update(z, u, g)
<1>1. calls \in Nat
  BY DEF IInv
<1>2. ~ UNCHANGED kalmanVars
  BY <1>1 DEF kalmanVars
<1>3. \A m \in Models \cup {Null}, s \in Ms \cup {Null}, h \in Hs, q \in Qs, r \in Rs, g \in Leftover :
        ~ createKalmanFilter(m, s, h, q, r, g)
  BY <1>1 DEF createKalmanFilter
<1>4. ~ freeKalmanFilter
  BY <1>1 DEF freeKalmanFilter
<1> QED BY <1>2, <1>3, <1>4 DEF KalmanNext

\* No filter but a linear one ever uses a pointer that was not set, and of the
\* updates only that of a linear continuous filter does.
THEOREM PointerTheorem == KalmanSpec => WildPointers
<1> DEFINE A == fate' = "crashed" => flags.model = "linear"
                                     /\ (calls' > calls => flags.filter = "continuous")
<1>1. IInv /\ [KalmanNext]_kalmanVars => [A]_kalmanVars
  <2> SUFFICES ASSUME IInv, KalmanNext, fate' = "crashed"
               PROVE  flags.model = "linear" /\ (calls' > calls => flags.filter = "continuous")
    OBVIOUS
  <2>1. calls \in Nat /\ flags \in Flags
    BY DEF IInv
  <2>2. flags.model \in {"linear", "nonlinear"} /\ flags.filter \in {"discrete", "continuous"}
    BY <2>1 DEF Flags
  <2>3. ASSUME NEW m \in Models \cup {Null}, NEW s \in Ms \cup {Null}, NEW h \in Hs, NEW q \in Qs,
               NEW r \in Rs, NEW g \in Leftover
        PROVE  ~ createKalmanFilter(m, s, h, q, r, g)
    BY DEF createKalmanFilter
  <2>4. ASSUME NEW z \in Zs, NEW u \in Us, NEW g \in Leftover, Update(z, u, g)
        PROVE  flags.model = "linear" /\ flags.filter = "continuous"
    <3> DEFINE k == Supplied(z, u, g)
    <3>1. Outcome(k) = "crashed" /\ Given(k)
      BY <2>4, UpdateIs
    <3> HIDE DEF k
    <3>2. flags.filter = "continuous"
      BY <2>2, <3>1 DEF Outcome
    <3>3. flags.model = "nonlinear" => k["model"] # Null
      <4>1. flags.model = "nonlinear" => "model" \in ContinuousUses
        BY DEF ContinuousUses, Uses
      <4> QED BY <3>1, <4>1, NotNull DEF Given, Typed
    <3>4. flags.model = "nonlinear" => k["model"] = Null
      BY <3>1, <3>2 DEF Outcome, ContinuousFate
    <3> QED BY <2>2, <3>2, <3>3, <3>4
  <2>5. CASE freeKalmanFilter
    <3>1. calls' = calls /\ Ready(kf) /\ \E f \in Freed : kf[f] = Null
      BY <2>5 DEF freeKalmanFilter, IInv
    <3>2. flags.model = "nonlinear" => Freed \subseteq Uses
      BY DEF Freed, Uses, Plain, LinearizeWrites
    <3>3. \A f \in Uses : kf[f] # Null
      BY <3>1, NotNull DEF Ready, Typed
    <3> QED BY <2>1, <2>2, <3>1, <3>2, <3>3
  <2> QED BY <2>3, <2>4, <2>5 DEF KalmanNext
<1> QED BY <1>1, Invariant, PTL DEF KalmanSpec, WildPointers

\* What a call that raises calls and leaves the filter ready has computed.
LEMMA UpdatedIs ==
  ASSUME IInv, [KalmanNext]_kalmanVars, Updated
  PROVE  \E k : /\ Outcome(k) = "ready" /\ Typed(k, Uses) /\ flags \in Flags
                /\ \A f \in Kept \ {"z", "u"} : k[f] = kf[f]
                /\ \A f \in Kept \ Computed : kf'[f] = k[f]
                /\ \A f \in Computed : kf'[f] = NewMember(k, f)
                /\ Typed(kf', Uses)
<1>1. PICK z \in Zs, u \in Us, g \in Leftover : Update(z, u, g)
  BY CallsRise DEF Updated
<1> DEFINE k == Supplied(z, u, g)
<1>2. /\ fate' = Outcome(k) /\ Given(k) /\ Typed(kf', Uses)
      /\ \A f \in Kept \ {"z", "u"} : k[f] = kf[f]
      /\ \A f \in Kept \ Computed : kf'[f] = k[f]
      /\ \A f \in Computed : kf'[f] = NewMember(k, f)
  BY <1>1, UpdateIs
<1> HIDE DEF k
<1>3. Typed(k, Uses)
  BY <1>2, TypedLess DEF Given, ContinuousUses
<1> QED BY <1>2, <1>3 DEF Updated, IInv

\* Central differences find the Jacobian of every model of the second degree,
\* in both filters, at the state before the update and for every time step.
THEOREM LinearizedTheorem == KalmanSpec => Linearized
<1> DEFINE A == Updated /\ flags.model = "nonlinear" => kf'["Ac"] = Jacobian(kf["model"], kf["xk"])
<1>1. IInv /\ [KalmanNext]_kalmanVars => [A]_kalmanVars
  <2> SUFFICES ASSUME IInv, [KalmanNext]_kalmanVars, Updated, flags.model = "nonlinear"
               PROVE  kf'["Ac"] = Jacobian(kf["model"], kf["xk"])
    OBVIOUS
  <2>1. PICK k : /\ \A f \in Kept \ {"z", "u"} : k[f] = kf[f]
                 /\ \A f \in Computed : kf'[f] = NewMember(k, f)
    BY UpdatedIs
  <2>2. kf'["Ac"] = NewMember(k, "Ac")
    BY <2>1 DEF Computed
  <2>3. NewMember(k, "Ac") = NewAc(k)
    BY DEF NewMember
  <2>4. k["model"] = kf["model"] /\ k["xk"] = kf["xk"]
    BY <2>1, KeptAre
  <2> QED BY <2>2, <2>3, <2>4 DEF NewAc
<1> QED BY <1>1, Invariant, PTL DEF KalmanSpec, Linearized

\* A discrete update that ends well, by what the members were.
LEMMA DiscreteUpdated ==
  ASSUME IInv, [KalmanNext]_kalmanVars, Updated, flags.filter = "discrete"
  PROVE  \E k : /\ Typed(k, Uses) /\ Typed(kf', Uses) /\ Det(InnovationP(k)) # 0
                /\ k["H"] = kf["H"] /\ k["P"] = kf["P"] /\ k["Q"] = kf["Q"] /\ k["R"] = kf["R"]
                /\ k["xk"] = kf["xk"] /\ k["eye"] = kf["eye"] /\ k["Bc"] = kf["Bc"]
                /\ k["z"] = kf'["z"]
                /\ kf'["Ac"] = NewAc(k) /\ kf'["Ad"] = NewAd(k) /\ kf'["Bd"] = NewBd(k)
                /\ kf'["k"] = NewGain(k) /\ kf'["xk"] = PosteriorX(k)
                /\ kf'["P"] = PosteriorP(k) /\ kf'["x_est"] = PosteriorX(k)
<1>1. PICK k : /\ Outcome(k) = "ready" /\ Typed(k, Uses)
               /\ \A f \in Kept \ {"z", "u"} : k[f] = kf[f]
               /\ \A f \in Kept \ Computed : kf'[f] = k[f]
               /\ \A f \in Computed : kf'[f] = NewMember(k, f)
               /\ Typed(kf', Uses)
  BY UpdatedIs
<1>2. Det(InnovationP(k)) # 0
  BY <1>1 DEF Outcome
<1>3. /\ k["H"] = kf["H"] /\ k["P"] = kf["P"] /\ k["Q"] = kf["Q"] /\ k["R"] = kf["R"]
      /\ k["xk"] = kf["xk"] /\ k["eye"] = kf["eye"] /\ k["Bc"] = kf["Bc"]
  BY <1>1, KeptAre
<1>4. k["z"] = kf'["z"]
  BY <1>1, KeptAre DEF Computed
<1>5. /\ kf'["Ac"] = NewAc(k) /\ kf'["Ad"] = NewAd(k) /\ kf'["Bd"] = NewBd(k)
      /\ kf'["k"] = NewGain(k) /\ kf'["xk"] = PosteriorX(k)
      /\ kf'["P"] = PosteriorP(k) /\ kf'["x_est"] = PosteriorX(k)
  BY <1>1, <1>2 DEF Computed, NewMember
<1> QED BY <1>1, <1>2, <1>3, <1>4, <1>5

\* The correction in the longer form, and the gain, by the formulas of the
\* Kalman filter.
LEMMA JosephIs ==
  ASSUME NEW k, Typed(k, Uses), Det(InnovationP(k)) # 0, PriorP(k) \in Matrix
  PROVE  /\ NewGain(k) = Mul(Mul(PriorP(k), Trans(k["H"])), InverseOf(InnovationP(k)))
         /\ PosteriorP(k) = Mul(Sub(Eye, Mul(NewGain(k), k["H"])), PriorP(k))
<1> DEFINE H == k["H"]  R == k["R"]  P == PriorP(k)  S == InnovationP(k)  K == NewGain(k)
           IK == Sub(Eye, Mul(K, H))
<1>1. H \in Matrix /\ R \in Matrix /\ P \in Matrix
  BY Types DEF Typed, Uses, Plain
<1>2. S = Add(Mul(Mul(H, P), Trans(H)), R) /\ K = Mul(P, Mul(Trans(H), InverseOf(S)))
  BY DEF InnovationP, NewGain
<1>3. PosteriorP(k) = Add(Mul(Mul(IK, P), Trans(IK)), Mul(Mul(K, R), Trans(K)))
  BY DEF PosteriorP
<1>4. Det(S) # 0
  OBVIOUS
<1> HIDE DEF H, R, P, S, K
<1>5. Trans(H) \in Matrix /\ S \in Matrix
  BY <1>1, <1>2, MatrixClosed
<1>6. InverseOf(S) \in Matrix
  BY <1>4, <1>5, InverseMul
<1>7. K = Mul(Mul(P, Trans(H)), InverseOf(S))
  BY <1>1, <1>2, <1>5, <1>6, MulAssoc
<1>8. K \in Matrix /\ Mul(K, H) \in Matrix
  BY <1>1, <1>5, <1>6, <1>7, MatrixClosed
<1>9. Sub(P, Mul(Mul(K, H), P)) = Add(Mul(Mul(IK, P), Trans(IK)), Mul(Mul(K, R), Trans(K)))
  <2> DEFINE T == Add(Mul(Mul(H, P), Trans(H)), R)  L == Mul(Mul(P, Trans(H)), InverseOf(T))
             IL == Sub(Eye, Mul(L, H))
  <2>1. Det(T) # 0
    BY <1>2, <1>4
  <2>2. Sub(P, Mul(Mul(L, H), P)) = Add(Mul(Mul(IL, P), Trans(IL)), Mul(Mul(L, R), Trans(L)))
    BY <1>1, <2>1, Joseph
  <2>3. L = K
    BY <1>2, <1>7
  <2> QED BY <2>2, <2>3
<1>10. Mul(IK, P) = Sub(P, Mul(Mul(K, H), P))
  BY <1>1, <1>8, EyeIs, EyeMul, SubMul
<1> QED BY <1>3, <1>7, <1>9, <1>10 DEF H, P, S, K

\* A discrete update is the Kalman filter the comment states, the control
\* effort left out: the longer symmetric form of the correction is (I-kH)P.
THEOREM DiscreteTheorem == KalmanSpec => DiscreteFilter
<1> DEFINE A == Updated /\ flags.filter = "discrete" =>
       LET H == kf["H"]
           x == Mul(kf'["Ad"], kf["xk"])
           P == Add(Mul(Mul(kf'["Ad"], kf["P"]), Trans(kf'["Ad"])), kf["Q"])
           K == Mul(Mul(P, Trans(H)), InverseOf(Add(Mul(Mul(H, P), Trans(H)), kf["R"])))
       IN  /\ kf'["k"] = K
           /\ kf'["xk"] = Add(x, Mul(K, Sub(kf'["z"], Mul(H, x))))
           /\ kf'["P"] = Mul(Sub(Eye, Mul(K, H)), P)
           /\ kf'["x_est"] = kf'["xk"]
<1>1. IInv /\ [KalmanNext]_kalmanVars => [A]_kalmanVars
  <2> DEFINE H == kf["H"]
             x == Mul(kf'["Ad"], kf["xk"])
             P == Add(Mul(Mul(kf'["Ad"], kf["P"]), Trans(kf'["Ad"])), kf["Q"])
             S == Add(Mul(Mul(H, P), Trans(H)), kf["R"])
             K == Mul(Mul(P, Trans(H)), InverseOf(S))
  <2> SUFFICES ASSUME IInv, [KalmanNext]_kalmanVars, Updated, flags.filter = "discrete"
               PROVE  /\ kf'["k"] = K
                      /\ kf'["xk"] = Add(x, Mul(K, Sub(kf'["z"], Mul(H, x))))
                      /\ kf'["P"] = Mul(Sub(Eye, Mul(K, H)), P)
                      /\ kf'["x_est"] = kf'["xk"]
    OBVIOUS
  <2>1. PICK k : /\ Typed(k, Uses) /\ Typed(kf', Uses) /\ Det(InnovationP(k)) # 0
                 /\ k["H"] = kf["H"] /\ k["P"] = kf["P"] /\ k["Q"] = kf["Q"] /\ k["R"] = kf["R"]
                 /\ k["xk"] = kf["xk"] /\ k["z"] = kf'["z"]
                 /\ kf'["Ad"] = NewAd(k)
                 /\ kf'["k"] = NewGain(k) /\ kf'["xk"] = PosteriorX(k)
                 /\ kf'["P"] = PosteriorP(k) /\ kf'["x_est"] = PosteriorX(k)
    BY DiscreteUpdated
  <2>2. x = PriorX(k) /\ P = PriorP(k)
    BY <2>1 DEF PriorX, PriorP
  <2>3. S = InnovationP(k)
    BY <2>1, <2>2 DEF InnovationP
  <2>4. PriorP(k) \in Matrix
    <3>1. kf'["Ad"] \in Matrix /\ k["P"] \in Matrix /\ k["Q"] \in Matrix
      BY <2>1, Types DEF Typed, Uses, Plain
    <3> QED BY <2>1, <3>1, MatrixClosed DEF PriorP
  <2>5. /\ NewGain(k) = Mul(Mul(PriorP(k), Trans(k["H"])), InverseOf(InnovationP(k)))
        /\ PosteriorP(k) = Mul(Sub(Eye, Mul(NewGain(k), k["H"])), PriorP(k))
    BY <2>1, <2>4, JosephIs
  <2>6. K = NewGain(k) /\ H = k["H"]
    BY <2>1, <2>2, <2>3, <2>5
  <2> HIDE DEF x, P, S, K, H
  <2> QED BY <2>1, <2>2, <2>5, <2>6 DEF PosteriorX
<1> QED BY <1>1, Invariant, PTL DEF KalmanSpec, DiscreteFilter

\* Laws of the operators that the series of the discrete model needs.
LEMMA AddAssoc ==
  ASSUME NEW a \in Matrix, NEW b \in Matrix, NEW c \in Matrix
  PROVE  Add(Add(a, b), c) = Add(a, Add(b, c))
<1>1. Add(a, b) \in Matrix /\ Add(b, c) \in Matrix
  BY AddIs
<1>2. ASSUME NEW i \in Index, NEW j \in Index
      PROVE  Add(Add(a, b), c)[i][j] = Add(a, Add(b, c))[i][j]
  <2>1. a[i][j] \in Int /\ b[i][j] \in Int /\ c[i][j] \in Int
    BY Entries
  <2>2. Add(Add(a, b), c)[i][j] = N(N(a[i][j] + b[i][j]) + c[i][j])
    BY <1>1, AddIs
  <2>3. Add(a, Add(b, c))[i][j] = N(a[i][j] + N(b[i][j] + c[i][j]))
    BY <1>1, AddIs
  <2> DEFINE x == a[i][j]  y == b[i][j]  z == c[i][j]  s == x + y  t == y + z
  <2> HIDE DEF x, y, z
  <2>4. s \in Int /\ t \in Int /\ s + z = x + t
    BY <2>1 DEF x, y, z
  <2> HIDE DEF s, t
  <2>5. N(N(s) + z) = N(s + z) /\ N(x + N(t)) = N(x + t)
    BY <2>1, <2>4, NormSum DEF x, z
  <2> QED BY <2>2, <2>3, <2>4, <2>5 DEF x, y, z, s, t
<1> QED BY <1>1, <1>2, AddIs, SameMatrix

LEMMA AddAssocVector ==
  ASSUME NEW a \in Vector, NEW b \in Vector, NEW c \in Vector
  PROVE  Add(Add(a, b), c) = Add(a, Add(b, c))
<1>1. Add(a, b) \in Vector /\ Add(b, c) \in Vector
  BY AddVector
<1>2. ASSUME NEW i \in Index
      PROVE  Add(Add(a, b), c)[i][1] = Add(a, Add(b, c))[i][1]
  <2>1. a[i][1] \in Int /\ b[i][1] \in Int /\ c[i][1] \in Int
    BY VectorEntries
  <2>2. Add(Add(a, b), c)[i][1] = N(N(a[i][1] + b[i][1]) + c[i][1])
    BY <1>1, AddVector
  <2>3. Add(a, Add(b, c))[i][1] = N(a[i][1] + N(b[i][1] + c[i][1]))
    BY <1>1, AddVector
  <2> DEFINE x == a[i][1]  y == b[i][1]  z == c[i][1]  s == x + y  t == y + z
  <2> HIDE DEF x, y, z
  <2>4. s \in Int /\ t \in Int /\ s + z = x + t
    BY <2>1 DEF x, y, z
  <2> HIDE DEF s, t
  <2>5. N(N(s) + z) = N(s + z) /\ N(x + N(t)) = N(x + t)
    BY <2>1, <2>4, NormSum DEF x, z
  <2> QED BY <2>2, <2>3, <2>4, <2>5 DEF x, y, z, s, t
<1>3. Add(Add(a, b), c) \in Vector /\ Add(a, Add(b, c)) \in Vector
  BY <1>1, AddVector
<1> QED BY <1>2, <1>3, SameVector

LEMMA AddMulVector ==
  ASSUME NEW a \in Matrix, NEW b \in Matrix, NEW v \in Vector
  PROVE  Mul(Add(a, b), v) = Add(Mul(a, v), Mul(b, v))
<1>1. Add(a, b) \in Matrix /\ Mul(a, v) \in Vector /\ Mul(b, v) \in Vector
  BY AddIs, MulVector
<1>2. ASSUME NEW i \in Index
      PROVE  Mul(Add(a, b), v)[i][1] = Add(Mul(a, v), Mul(b, v))[i][1]
  <2> DEFINE a1 == a[i][1]  a2 == a[i][2]
             b1 == b[i][1]  b2 == b[i][2]  c1 == v[1][1]  c2 == v[2][1]
             x == a1 * c1 + a2 * c2  y == b1 * c1 + b2 * c2
             s == a1 + b1  t == a2 + b2
  <2>1. /\ a1 \in Int /\ a2 \in Int /\ b1 \in Int /\ b2 \in Int /\ c1 \in Int /\ c2 \in Int
    BY Entries, VectorEntries, Indices
  <2>2. Mul(Add(a, b), v)[i][1] = N(N(s) * c1 + N(t) * c2)
    BY <1>1, MulVector, AddIs, Indices
  <2>3. Add(Mul(a, v), Mul(b, v))[i][1] = N(N(x) + N(y))
    BY <1>1, MulVector, AddVector
  <2> HIDE DEF a1, a2, b1, b2, c1, c2
  <2>4. x \in Int /\ y \in Int /\ s \in Int /\ t \in Int /\ s * c1 + t * c2 = x + y
    BY <2>1
  <2> HIDE DEF x, y, s, t
  <2>5. N(N(s) * c1 + N(t) * c2) = N(s * c1 + t * c2)
    BY <2>1, <2>4, NormDot
  <2>6. N(N(x) + N(y)) = N(x + y)
    BY <2>4, NormSum
  <2> QED BY <2>2, <2>3, <2>4, <2>5, <2>6
<1>3. Mul(Add(a, b), v) \in Vector /\ Add(Mul(a, v), Mul(b, v)) \in Vector
  BY <1>1, MulVector, AddVector
<1> QED BY <1>2, <1>3, SameVector

LEMMA MulSMulVector ==
  ASSUME NEW a \in Matrix, NEW s \in Int, NEW v \in Vector
  PROVE  Mul(MulS(a, s), v) = MulS(Mul(a, v), s)
<1>1. MulS(a, s) \in Matrix /\ Mul(a, v) \in Vector
  BY MulSIs, MulVector
<1>2. ASSUME NEW i \in Index
      PROVE  Mul(MulS(a, s), v)[i][1] = MulS(Mul(a, v), s)[i][1]
  <2> DEFINE a1 == a[i][1]  a2 == a[i][2]  c1 == v[1][1]  c2 == v[2][1]
             x == s * a1  y == s * a2  w == a1 * c1 + a2 * c2
  <2>1. a1 \in Int /\ a2 \in Int /\ c1 \in Int /\ c2 \in Int
    BY Entries, VectorEntries, Indices
  <2> DEFINE b == MulS(a, s)  d == Mul(a, v)
  <2>2. Mul(b, v)[i][1] = N(N(x) * c1 + N(y) * c2)
    <3>1. b[i][1] = N(x) /\ b[i][2] = N(y)
      BY MulSIs, Indices, SMTT(60)
    <3>2. b \in Matrix
      BY <1>1
    <3> HIDE DEF b, x, y
    <3> QED BY <3>1, <3>2, MulVector
  <2>3. MulS(d, s)[i][1] = N(s * N(w))
    <3>1. d[i][1] = N(w)
      BY MulVector
    <3>2. d \in Vector
      BY <1>1
    <3> HIDE DEF d, w
    <3> QED BY <3>1, <3>2, MulSVector
  <2> HIDE DEF a1, a2, c1, c2
  <2>4. x \in Int /\ y \in Int /\ w \in Int /\ x * c1 + y * c2 = w * s
    BY <2>1
  <2> HIDE DEF x, y, w
  <2>5. N(N(x) * c1 + N(y) * c2) = N(x * c1 + y * c2)
    BY <2>1, <2>4, NormDot
  <2>6. N(s * N(w)) = N(w * s)
    BY <2>4, NormMul
  <2> QED BY <2>2, <2>3, <2>4, <2>5, <2>6
<1>3. Mul(MulS(a, s), v) \in Vector /\ MulS(Mul(a, v), s) \in Vector
  BY <1>1, MulVector, MulSVector
<1> QED BY <1>2, <1>3, SameVector

LEMMA EyeMulVector == ASSUME NEW v \in Vector PROVE Mul(Eye, v) = v
<1>1. Mul(Eye, v) \in Vector
  BY EyeIs, MulVector
<1>2. ASSUME NEW i \in Index PROVE Mul(Eye, v)[i][1] = v[i][1]
  <2>1. v[1][1] \in Int /\ v[2][1] \in Int /\ v[i][1] \in F
    BY VectorEntries, Indices
  <2>2. Mul(Eye, v)[i][1] = N(Eye[i][1] * v[1][1] + Eye[i][2] * v[2][1])
    BY EyeIs, MulVector
  <2>3. Eye[i][1] * v[1][1] + Eye[i][2] * v[2][1] = v[i][1]
    <3>1. CASE i = 1
      BY <2>1, <3>1, EyeIs
    <3>2. CASE i = 2
      BY <2>1, <3>2, EyeIs
    <3> QED BY <3>1, <3>2, Indices
  <2> QED BY <2>1, <2>2, <2>3, NormF
<1> QED BY <1>1, <1>2, SameVector

\* The order in which C2D adds the terms of the series does not matter.
LEMMA SeriesIs ==
  ASSUME NEW a \in Matrix, NEW b \in Vector, NEW s \in Int, NEW t \in Int, NEW w \in Int
  PROVE  LET A2 == Mul(a, a)
         IN  /\ Add(Add(MulS(a, s), MulS(A2, t)), MulS(Mul(A2, a), w))
                  = Add(MulS(a, s), Add(MulS(A2, t), MulS(Mul(A2, a), w)))
             /\ Add(Add(MulS(a, s), MulS(A2, t)), MulS(Mul(A2, a), w)) \in Matrix
             /\ Add(Add(MulS(b, s), MulS(Mul(a, b), t)), Mul(MulS(A2, w), b))
                  = Mul(Add(MulS(Eye, s), Add(MulS(a, t), MulS(A2, w))), b)
<1> DEFINE A2 == Mul(a, a)  e == MulS(Eye, s)  f == MulS(a, t)  g == MulS(A2, w)
<1>1. A2 \in Matrix /\ Mul(A2, a) \in Matrix
  BY MatrixClosed
<1> HIDE DEF A2
<1>2. MulS(a, s) \in Matrix /\ MulS(A2, t) \in Matrix /\ MulS(Mul(A2, a), w) \in Matrix
  BY <1>1, MatrixClosed
<1>3. e \in Matrix /\ f \in Matrix /\ g \in Matrix /\ Add(f, g) \in Matrix
  BY <1>1, EyeIs, MatrixClosed
<1>4. Mul(e, b) = MulS(b, s)
  BY EyeIs, EyeMulVector, MulSMulVector
<1>5. Mul(f, b) = MulS(Mul(a, b), t)
  BY MulSMulVector
<1>6. Mul(g, b) \in Vector /\ Mul(f, b) \in Vector /\ Mul(e, b) \in Vector
  BY <1>3, VectorClosed
<1> HIDE DEF e, f, g
<1>7. Mul(Add(e, Add(f, g)), b) = Add(Mul(e, b), Add(Mul(f, b), Mul(g, b)))
  BY <1>3, AddMulVector
<1>8. Mul(Add(e, Add(f, g)), b) = Add(Add(Mul(e, b), Mul(f, b)), Mul(g, b))
  BY <1>6, <1>7, AddAssocVector
<1>9. Add(Add(MulS(b, s), MulS(Mul(a, b), t)), Mul(MulS(A2, w), b))
        = Mul(Add(MulS(Eye, s), Add(MulS(a, t), MulS(A2, w))), b)
  BY <1>4, <1>5, <1>8 DEF e, f, g
<1>10. Add(Add(MulS(a, s), MulS(A2, t)), MulS(Mul(A2, a), w))
         = Add(MulS(a, s), Add(MulS(A2, t), MulS(Mul(A2, a), w)))
  BY <1>2, AddAssoc
<1>11. Add(Add(MulS(a, s), MulS(A2, t)), MulS(Mul(A2, a), w)) \in Matrix
  BY <1>2, MatrixClosed
<1> QED BY <1>9, <1>10, <1>11 DEF A2

LEMMA StepPowers == /\ dt \in Int /\ dt * dt * Recip(2) \in Int /\ dt * dt * dt * Recip(6) \in Int
<1>1. dt \in Int /\ Recip(2) \in Int /\ Recip(6) \in Int
  BY StepInt, HalfAndSixth
<1> DEFINE s == Recip(2)  t == Recip(6)
<1> HIDE DEF s, t
<1>2. s \in Int /\ t \in Int => dt * dt * s \in Int /\ dt * dt * dt * t \in Int
  BY <1>1
<1> QED BY <1>1, <1>2 DEF s, t

\* The discrete model is the series of the exponential up to the third order
\* in the time step, Ad if kf->eye is the identity and Bd always.
THEOREM ModelTheorem == KalmanSpec => DiscreteModel
<1> DEFINE B == Discretized =>
       LET A  == kf'["Ac"]
           dt2 == dt * dt * Recip(2)
           dt3 == dt * dt * dt * Recip(6)
       IN  /\ kf["eye"] = Eye => kf'["Ad"] = Add(Eye, Series(A))
           /\ kf'["Bd"] = Mul(Add(MulS(Eye, dt), Add(MulS(A, dt2), MulS(Mul(A, A), dt3))), kf["Bc"])
<1>1. IInv /\ [KalmanNext]_kalmanVars => [B]_kalmanVars
  <2> DEFINE A  == kf'["Ac"]
             A2 == Mul(A, A)
             dt2 == dt * dt * Recip(2)
             dt3 == dt * dt * dt * Recip(6)
  <2> SUFFICES ASSUME IInv, [KalmanNext]_kalmanVars, Discretized
               PROVE  /\ kf["eye"] = Eye => kf'["Ad"] = Add(Eye, Series(A))
                      /\ kf'["Bd"] = Mul(Add(MulS(Eye, dt), Add(MulS(A, dt2), MulS(A2, dt3))), kf["Bc"])
    OBVIOUS
  <2>0. Updated /\ flags.filter = "discrete" /\ flags.time = "cont"
    BY DEF Discretized
  <2>1. PICK k : /\ Typed(k, Uses) /\ Typed(kf', Uses)
                 /\ k["eye"] = kf["eye"] /\ k["Bc"] = kf["Bc"]
                 /\ kf'["Ac"] = NewAc(k) /\ kf'["Ad"] = NewAd(k) /\ kf'["Bd"] = NewBd(k)
    BY <2>0, DiscreteUpdated
  <2>2. flags.model \in {"linear", "nonlinear"}
    BY DEF IInv, Flags
  <2>3. "Ac" \in Uses /\ "Bc" \in Uses
    BY <2>0, <2>2 DEF Uses, Plain, LinearizeWrites
  <2>4. A \in Matrix /\ kf["Bc"] \in Vector
    BY <2>1, <2>3, Types DEF Typed
  <2>5. /\ NewAd(k) = Add(kf["eye"], Add(Add(MulS(A, dt), MulS(A2, dt2)), MulS(Mul(A2, A), dt3)))
        /\ NewBd(k) = Add(Add(MulS(kf["Bc"], dt), MulS(Mul(A, kf["Bc"]), dt2)), Mul(MulS(A2, dt3), kf["Bc"]))
    BY <2>0, <2>1 DEF NewAd, NewBd, SeriesA, SeriesB
  <2>6. dt \in Int /\ dt2 \in Int /\ dt3 \in Int
    BY StepPowers
  <2>7. Series(A) = Add(MulS(A, dt), Add(MulS(A2, dt2), MulS(Mul(A2, A), dt3)))
    BY DEF Series
  <2> HIDE DEF A, dt2, dt3
  <2>8. /\ Add(Add(MulS(A, dt), MulS(A2, dt2)), MulS(Mul(A2, A), dt3))
             = Add(MulS(A, dt), Add(MulS(A2, dt2), MulS(Mul(A2, A), dt3)))
        /\ Add(Add(MulS(A, dt), MulS(A2, dt2)), MulS(Mul(A2, A), dt3)) \in Matrix
        /\ Add(Add(MulS(kf["Bc"], dt), MulS(Mul(A, kf["Bc"]), dt2)), Mul(MulS(A2, dt3), kf["Bc"]))
             = Mul(Add(MulS(Eye, dt), Add(MulS(A, dt2), MulS(A2, dt3))), kf["Bc"])
    <3> DEFINE b == kf["Bc"]
    <3>1. A \in Matrix /\ b \in Vector /\ dt \in Int /\ dt2 \in Int /\ dt3 \in Int
      BY <2>4, <2>6
    <3> HIDE DEF b
    <3>2. /\ Add(Add(MulS(A, dt), MulS(Mul(A, A), dt2)), MulS(Mul(Mul(A, A), A), dt3))
               = Add(MulS(A, dt), Add(MulS(Mul(A, A), dt2), MulS(Mul(Mul(A, A), A), dt3)))
          /\ Add(Add(MulS(A, dt), MulS(Mul(A, A), dt2)), MulS(Mul(Mul(A, A), A), dt3)) \in Matrix
          /\ Add(Add(MulS(b, dt), MulS(Mul(A, b), dt2)), Mul(MulS(Mul(A, A), dt3), b))
               = Mul(Add(MulS(Eye, dt), Add(MulS(A, dt2), MulS(Mul(A, A), dt3))), b)
      BY <3>1, SeriesIs
    <3> QED BY <3>2 DEF A2, b
  <2> HIDE DEF A2
  <2>9. kf["eye"] = Eye => kf'["Ad"] = Add(Eye, Series(A))
    BY <2>1, <2>5, <2>7, <2>8
  <2>10. kf'["Bd"] = Mul(Add(MulS(Eye, dt), Add(MulS(A, dt2), MulS(A2, dt3))), kf["Bc"])
    BY <2>1, <2>5, <2>8
  <2> QED BY <2>9, <2>10 DEF A, A2, dt2, dt3
<1> QED BY <1>1, Invariant, PTL DEF KalmanSpec, DiscreteModel

\* One call of pmodel on the members an update leaves computes PSlope.
LEMMA SlopeOfIs ==
  ASSUME NEW k, Typed(k, Uses), k["Ac"] \in Matrix, k["AcT"] \in Matrix, Det(k["R"]) # 0,
         NEW y \in Matrix
  PROVE  SlopeOf(k, y) = PSlope(k["Ac"], k, y)
<1> DEFINE j == [f \in Members |-> IF f = "tmpm" THEN y ELSE IF f = "tmp2m" THEN FreshM(0) ELSE k[f]]
           L == {"Ac", "H", "R", "Q", "tmpm", "tmp2m"} \cup SlopeWrites
<1>1. /\ j["tmpm"] = y /\ j["tmp2m"] = FreshM(0) /\ j["Ac"] = k["Ac"] /\ j["H"] = k["H"]
      /\ j["R"] = k["R"] /\ j["Q"] = k["Q"]
  BY Names
<1>2. j["m0"] = k["m0"] /\ j["AcT"] = k["AcT"] /\ j["m1"] = k["m1"] /\ j["HT"] = k["HT"] /\ j["m2"] = k["m2"]
  BY Names
<1>3. DOMAIN j = Members /\ j = [g \in Members |-> j[g]]
  OBVIOUS
<1>4. SlopeOf(k, y) = Run(j, pmodel("tmpm", "tmp2m")).kf["tmp2m"]
  BY DEF SlopeOf
<1> HIDE DEF j
<1>5. FreshM(0) \in Matrix
  BY FreshIs, FieldInt
<1>6. /\ k["H"] \in Matrix /\ k["R"] \in Matrix /\ k["Q"] \in Matrix /\ k["m0"] \in Matrix
      /\ k["m1"] \in Matrix /\ k["HT"] \in Matrix /\ k["m2"] \in Matrix /\ k["AcT"] \in Matrix
  BY Types DEF Typed, Uses, Plain
<1>7. Typed(j, L)
  BY <1>1, <1>2, <1>3, <1>5, <1>6, Types DEF Typed, SlopeWrites
<1>8. PICK t : /\ Leads(St(j), pmodel("tmpm", "tmp2m"), St(t))
               /\ t["tmp2m"] = PSlope(j["Ac"], j, j["tmpm"])
  BY <1>1, <1>7, PmodelRun
<1>9. Len(pmodel("tmpm", "tmp2m")) \in Nat
  <2>1. pmodel("tmpm", "tmp2m") \in Seq(Codes)
    BY Names, PmodelIs
  <2> QED BY <2>1
<1>10. Run(j, pmodel("tmpm", "tmp2m")) = St(t)
  BY <1>8, <1>9, RunLeads DEF St
<1>11. St(t).kf = t
  BY DEF St
<1>12. PSlope(j["Ac"], j, j["tmpm"]) = PSlope(k["Ac"], k, y)
  BY <1>1 DEF PSlope
<1> QED BY <1>4, <1>8, <1>10, <1>11, <1>12

\* A continuous update is one Runge-Kutta step of the covariance, whose slopes
\* are those of four separate calls of pmodel, the gain P*H'*inv(R) of the new
\* covariance, and one step of the state with that gain held fixed: nothing the
\* forty-odd calls do with the shared scratch members gets in between.
THEOREM ContinuousTheorem == KalmanSpec => ContinuousFilter
<1> DEFINE B == Updated /\ flags.filter = "continuous" =>
       LET H == kf["H"]
           Pdot[y \in Matrix] == SlopeOf(kf', y)
           xdot[x \in Vector] == Add(ModelOf(kf["model"], x, kf'["u"]),
                          Mul(kf'["k"], Sub(kf'["z"], Mul(H, x))))
       IN  /\ kf'["P"] = RungeKutta(Pdot, kf["P"])
           /\ kf'["k"] = Mul(Mul(kf'["P"], Trans(H)), InverseOf(kf["R"]))
           /\ kf'["xk"] = RungeKutta(xdot, kf["xk"])
           /\ kf'["x_est"] = kf'["xk"]
<1>1. IInv /\ [KalmanNext]_kalmanVars => [B]_kalmanVars
  <2> DEFINE H == kf["H"]
             Pdot[y \in Matrix] == SlopeOf(kf', y)
             xdot[x \in Vector] == Add(ModelOf(kf["model"], x, kf'["u"]),
                            Mul(kf'["k"], Sub(kf'["z"], Mul(H, x))))
  <2> SUFFICES ASSUME IInv, [KalmanNext]_kalmanVars, Updated, flags.filter = "continuous"
               PROVE  /\ kf'["P"] = RungeKutta(Pdot, kf["P"])
                      /\ kf'["k"] = Mul(Mul(kf'["P"], Trans(H)), InverseOf(kf["R"]))
                      /\ kf'["xk"] = RungeKutta(xdot, kf["xk"])
                      /\ kf'["x_est"] = kf'["xk"]
    OBVIOUS
  <2>1. PICK k : /\ Outcome(k) = "ready" /\ Typed(kf', Uses)
                 /\ \A f \in Kept \ {"z", "u"} : k[f] = kf[f]
                 /\ \A f \in Kept \ Computed : kf'[f] = k[f]
                 /\ \A f \in Computed : kf'[f] = NewMember(k, f)
    BY UpdatedIs
  <2>2. /\ k["H"] = kf["H"] /\ k["P"] = kf["P"] /\ k["Q"] = kf["Q"] /\ k["R"] = kf["R"]
        /\ k["xk"] = kf["xk"] /\ k["model"] = kf["model"]
    BY <2>1, KeptAre
  <2>3. /\ k["z"] = kf'["z"] /\ k["u"] = kf'["u"] /\ k["H"] = kf'["H"]
        /\ k["R"] = kf'["R"] /\ k["Q"] = kf'["Q"]
    BY <2>1, KeptAre DEF Computed
  <2>4. ~ (flags.model = "linear" /\ flags.time = "disc") /\ ContinuousFate(k) = "ready" /\ Det(k["R"]) # 0
    BY <2>1 DEF Outcome, ContinuousFate
  <2>5. /\ kf'["Ac"] = NewAc(k) /\ kf'["P"] = NewContinuousP(k) /\ kf'["k"] = NewContinuousGain(k)
        /\ kf'["xk"] = NewContinuousX(k) /\ kf'["x_est"] = NewContinuousX(k)
    BY <2>1, <2>4 DEF Computed, NewMember
  <2>6. Pdot = [y \in Matrix |-> PSlope(NewAc(k), k, y)]
    <3>1. kf'["Ac"] \in Matrix /\ kf'["AcT"] \in Matrix
      <4>1. flags.model \in {"linear", "nonlinear"} /\ flags.time \in {"disc", "cont"}
        BY DEF IInv, Flags
      <4>2. "Ac" \in Uses /\ "AcT" \in Uses
        BY <2>4, <4>1 DEF Uses, Plain, LinearizeWrites
      <4> QED BY <2>1, <4>2, Types DEF Typed
    <3>2. ASSUME NEW y \in Matrix PROVE SlopeOf(kf', y) = PSlope(NewAc(k), k, y)
      <4>1. SlopeOf(kf', y) = PSlope(kf'["Ac"], kf', y)
        BY <2>1, <2>3, <2>4, <3>1, SlopeOfIs
      <4>2. PSlope(kf'["Ac"], kf', y) = PSlope(NewAc(k), k, y)
        BY <2>3, <2>5 DEF PSlope
      <4> QED BY <4>1, <4>2
    <3> QED BY <3>2
  <2>7. xdot = [y \in Vector |-> XSlope(NewContinuousGain(k), k, y)]
    BY <2>2, <2>3, <2>5 DEF XSlope
  <2> HIDE DEF Pdot, xdot
  <2>8. kf'["P"] = RungeKutta(Pdot, kf["P"])
    BY <2>2, <2>5, <2>6 DEF NewContinuousP
  <2>9. kf'["k"] = Mul(Mul(kf'["P"], Trans(H)), InverseOf(kf["R"]))
    BY <2>2, <2>5 DEF NewContinuousGain
  <2>10. kf'["xk"] = RungeKutta(xdot, kf["xk"])
    BY <2>2, <2>5, <2>7 DEF NewContinuousX
  <2> QED BY <2>5, <2>8, <2>9, <2>10
<1> QED BY <1>1, Invariant, PTL DEF KalmanSpec, ContinuousFilter
=============================================================================
