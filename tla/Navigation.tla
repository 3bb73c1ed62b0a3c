----------------------------- MODULE Navigation -----------------------------
(***************************************************************************)
(* The navigation program (nav/): main reads a file of sensor records line *)
(* by line (readALine of clib/fileio.c), and from record Start on runs one *)
(* turn of the error-state filter and of the navigation equations for each *)
(* record, then saves the results.                                         *)
(*                                                                         *)
(* One axis stands for the three of every vector: the states rk->x and     *)
(* kf.x are a velocity, a position and two angles, the tilt (roll or       *)
(* pitch, which updateNav takes from the record and whose difference the   *)
(* filter is told) and the heading (which it keeps, the filter being told  *)
(* 0).  A rotation is an angle, quaternions being the subject of Attitude, *)
(* R_eb a sign, and a block skew(v) couples an axis to the others by v and *)
(* -v.  Numbers are integers modulo a prime, as in FieldMatrices.          *)
(***************************************************************************)
EXTENDS FieldMatrices, Sequences, FiniteSetsExt

CONSTANTS Files,     \* contents of data/data.dat the runs try
          Garbage,   \* what a record may hold that nothing was stored in
          Ecef,      \* gps2ecef: position on Earth of what the GPS says
          Rate,      \* rotation rate of Earth
          Gravity, Bias,
          Noise,     \* of the process, given to setQ
          SUM_LEN,   \* length of the averages (30)
          Start,     \* first record used (4400)
          Last       \* the loop stops after record Last + 1 (5700)

ASSUME LoopAssumption == {SUM_LEN, Start, Last} \subseteq Nat \ {0} /\ SUM_LEN < Prime
                         /\ Start <= Last

AnyLine == UNION {{f[i] : i \in DOMAIN f} : f \in Files}

\* A line is a record ("data") or a comment or blank line ("note"); the last
\* one may lack its newline.
Records(l) == l.is = "data"
AnyRecord  == Garbage \cup {l.record : l \in {k \in AnyLine : Records(k)}}

ASSUME FileAssumption ==
  /\ Files \subseteq Seq(AnyLine)
  /\ \A f \in Files : \A i \in DOMAIN f : f[i].newline \/ i = Len(f)

\* Every number is an integer, and positions are in the field.
ASSUME NumberAssumption ==
  /\ {Rate, Gravity, Bias, Noise} \subseteq Int
  /\ \A r \in AnyRecord : /\ r.a \in Int /\ r.w \in Int /\ r.turn \in Int
                           /\ r.tilt \in F /\ r.yaw \in F /\ Ecef[r.gps] \in F

VARIABLES pc,      \* "open", "read", "loop", "save", "exited" or "crashed"
          file,    \* data/data.dat: a sequence of lines
          lines,   \* those not read yet
          sensor,  \* the records, a vector
          index,   \* of the record the loop is at
          kf,      \* the filter, a cCKF
          x,       \* rk->x, the navigation state
          Pold, Vold, gps_old, n,   \* statics of updateKF, n its index
          data     \* the rows of results in main

vars == <<pc, file, lines, sensor, index, kf, x, Pold, Vold, gps_old, n, data>>
loop == <<kf, x, Pold, Vold, gps_old, n>>

Ring == 0..(SUM_LEN - 1)

\* The lines readALine finds the end of.
Complete(ls) == {i \in DOMAIN ls : ls[i].newline}

-----------------------------------------------------------------------------
(* States, and their integration *)

States == 1..4   \* velocity, position, tilt, heading
Pairs  == States \X States
Zeros  == [i \in States |-> 0]

Sigma(f) == f[1] + f[2] + f[3] + f[4]

\* e; TLC computes it once.
Value(e) == CHOOSE v \in {e} : v = v

\* A Runge-Kutta step from y, a state or a covariance.
Along(y, k, s) == [i \in DOMAIN y |-> (y[i] + s * k[i]) % Prime]
Integrated(slope(_), y) ==
  LET k1 == Value(slope(y))
      k2 == Value(slope(Value(Along(y, k1, dt * Recip(2)))))
      k3 == Value(slope(Value(Along(y, k2, dt * Recip(2)))))
      k4 == Value(slope(Value(Along(y, k3, dt))))
  IN  Along(y, [i \in DOMAIN y |-> k1[i] + 2 * k2[i] + 2 * k3[i] + k4[i]], dt * Recip(6))

-----------------------------------------------------------------------------
(* Setting up and reading *)

\* The system matrix: the equations of motion, and the columns of the angles,
\* R_eb*skew(a) and R_eb*skew(w).
SystemMatrix(a, w) ==
  [c \in Pairs |->
     (CASE c = <<1, 1>> -> -2 * Rate
        [] c = <<1, 2>> -> -Rate * Rate
        [] c = <<2, 1>> -> 1
        [] c = <<1, 3>> -> a
        [] c = <<1, 4>> -> -a
        [] c = <<3, 4>> -> -w
        [] c = <<4, 3>> -> w
        [] OTHER        -> 0) % Prime]

\* H and R are the identity, which R.inv() leaves as it is.
initKF == [F |-> SystemMatrix(0, 0), P |-> [c \in Pairs |-> 0],
           K |-> [c \in Pairs |-> 0], x |-> Zeros]

Init == /\ pc = "open"
        /\ file \in Files /\ lines = file
        /\ sensor = <<>> /\ index = Start /\ data = <<>>
        /\ kf = initKF
        /\ x = Zeros
        /\ Pold = [j \in Ring |-> 0] /\ Vold = [j \in Ring |-> 0]
        /\ gps_old = 0 /\ n = 0

Open == /\ pc = "open"
        /\ pc' \in {"read", "exited"}
        /\ UNCHANGED <<file, lines, sensor, index, data, loop>>

BadReadALine(g) ==   \* comments are skipped
  /\ pc = "read"
  /\ IF lines = <<>> \/ ~Head(lines).newline
     THEN pc' = "loop" /\ UNCHANGED sensor
     ELSE /\ sensor' = IF Records(Head(lines)) THEN Append(sensor, Head(lines).record)
                       ELSE sensor
          /\ UNCHANGED pc
  /\ lines' = IF lines = <<>> THEN lines ELSE Tail(lines)
  /\ UNCHANGED <<file, index, data, loop>>

\* readALine returns -1 at the end of the file, also when a line without
\* newline comes before it, which is lost; it empties a line that contains a
\* comment, so that navGetData stores nothing in the new record.
ReadALine(g) ==
  /\ pc = "read"
  /\ IF lines = <<>> \/ ~Head(lines).newline
     THEN pc' = "loop" /\ UNCHANGED sensor
     ELSE /\ sensor' = Append(sensor, IF Records(Head(lines)) THEN Head(lines).record ELSE g)
          /\ UNCHANGED pc
  /\ lines' = IF lines = <<>> THEN lines ELSE Tail(lines)
  /\ UNCHANGED <<file, index, data, loop>>

-----------------------------------------------------------------------------
(* One turn of the loop *)

gps2ecef(s) == Ecef[s.gps]

\* reset: at rest, where the GPS says, as the attitude sensor says.
reset(s) == <<0, gps2ecef(s), s.tilt, s.yaw>>

Total(array) ==
  LET sum[j \in 0..SUM_LEN] == IF j = 0 THEN 0 ELSE sum[j - 1] + array[j - 1]
  IN  sum[SUM_LEN]
Mean(array)  == (Total(array) * Recip(SUM_LEN)) % Prime

\* The part of updateKF that is static memory: the last SUM_LEN positions and
\* velocities, the first call filling them as if the vehicle had always been
\* there, at rest.
BadAverages(s) ==   \* the first velocity is measured from nowhere
  LET p == gps2ecef(s)
      P == IF n = 0 THEN [j \in Ring |-> p] ELSE Pold
      V == IF n = 0 THEN [j \in Ring |-> 0] ELSE Vold
  IN  [P |-> [P EXCEPT ![n % SUM_LEN] = p],
       V |-> [V EXCEPT ![n % SUM_LEN] = ((p - gps_old) * Recip(dt)) % Prime]]

Averages(s) ==
  LET p == gps2ecef(s)
      P == IF n = 0 THEN [j \in Ring |-> p] ELSE Pold
      V == IF n = 0 THEN [j \in Ring |-> 0] ELSE Vold
      old == IF n = 0 THEN p ELSE gps_old
  IN  [P |-> [P EXCEPT ![n % SUM_LEN] = p],
       V |-> [V EXCEPT ![n % SUM_LEN] = ((p - old) * Recip(dt)) % Prime]]

BadMeasured(s, y, means) ==   \* the tilt is compared with another angle
  <<(y[1] - Mean(means.V)) % Prime, (y[2] - Mean(means.P)) % Prime,
    (y[3] - s.yaw) % Prime, 0>>

\* What the filter is told: navigation state less averages of the GPS, tilt
\* less what the record says, and nothing of the heading.
Measured(s, y, means) ==
  <<(y[1] - Mean(means.V)) % Prime, (y[2] - Mean(means.P)) % Prime,
    (y[3] - s.tilt) % Prime, 0>>

\* cCKF::update(z, u) with u = 0: P by the Riccati equation, in whose last
\* product pmodel reads P itself, K = P, then x by F*x+K*(z-x).
Update(k, z) ==
  LET pmodel(p) == [c \in Pairs |->
        (Sigma([j \in States |-> k.F[<<c[1], j>>] * p[<<j, c[2]>>]
                                   + p[<<c[1], j>>] * k.F[<<c[2], j>>]
                                   - k.P[<<c[1], j>>] * k.P[<<j, c[2]>>]])
           + (IF c[1] = c[2] THEN Noise ELSE 0)) % Prime]
      P == Value(Integrated(pmodel, k.P))
      xmodel(y) == [i \in States |->
        Sigma([j \in States |-> k.F[<<i, j>>] * y[j] + P[<<i, j>>] * (z[j] - y[j])]) % Prime]
  IN  [F |-> k.F, P |-> P, K |-> P, x |-> Integrated(xmodel, k.x)]

\* The columns of F that updateKF stores, then kf.update.
UpdateKF(k, s, z) ==
  Update([k EXCEPT !.F = Value(SystemMatrix(s.turn * s.a, s.turn * s.w))], z)

\* nav_model with the u, A and B that updateNav stores.
Model(s, y) ==
  <<(-2 * Rate * y[1] - Rate * Rate * y[2] + s.turn * (Gravity - s.a - Bias)) % Prime,
    y[1], s.w % Prime, s.w % Prime>>

\* updateNav takes the filter's estimate of velocity and position off, and the
\* tilt from the record; then the equations are integrated.
Navigated(s, y, estimate) ==
  Integrated(LAMBDA v : Model(s, v),
             <<(y[1] - estimate[1]) % Prime, (y[2] - estimate[2]) % Prime, s.tilt, y[4]>>)

\* The copy of data that navPutData appends its row to is lost on return.
navPutData(row) == data' = data

\* One record.  (The sets have one element each, so that TLC computes it once.)
\* kf.update cannot throw: R is the identity.
Step(s) ==
  \E y \in {IF index = Start THEN reset(s) ELSE x}, means \in {Averages(s)} :
  \E k \in {UpdateKF(kf, s, Measured(s, y, means))} :
    /\ kf' = k
    /\ x' = Navigated(s, y, k.x)
    /\ Pold' = means.P /\ Vold' = means.V /\ gps_old' = gps2ecef(s) /\ n' = n + 1
    /\ navPutData([x |-> x', gps |-> s.gps])

BadTurnStays ==   \* the index is not advanced
  /\ pc = "loop" /\ index < Len(sensor)
  /\ Step(sensor[index + 1])
  /\ IF index > Last THEN pc' = "save" /\ UNCHANGED index ELSE UNCHANGED <<index, pc>>
  /\ UNCHANGED <<file, lines, sensor>>

BadTurn ==   \* one record too few
  /\ pc = "loop" /\ index < Len(sensor)
  /\ Step(sensor[index + 1])
  /\ IF index >= Last THEN pc' = "save" /\ UNCHANGED index
     ELSE index' = index + 1 /\ UNCHANGED pc
  /\ UNCHANGED <<file, lines, sensor>>

\* (Sequences count from 1, the vector from 0.)
Turn ==
  /\ pc = "loop" /\ index < Len(sensor)
  /\ Step(sensor[index + 1])
  /\ IF index > Last THEN pc' = "save" /\ UNCHANGED index
     ELSE index' = index + 1 /\ UNCHANGED pc
  /\ UNCHANGED <<file, lines, sensor>>

LoopEnds == /\ pc = "loop" /\ index >= Len(sensor)
            /\ pc' = "save"
            /\ UNCHANGED <<file, lines, sensor, index, data, loop>>

\* i < data.size()-1: the last row is not written, and when there is none the
\* difference is the largest number there is and data[0] is read.
saveData == /\ pc = "save"
            /\ pc' = IF data = <<>> THEN "crashed" ELSE "exited"
            /\ UNCHANGED <<file, lines, sensor, index, data, loop>>

Ended == pc \in {"exited", "crashed"} /\ UNCHANGED vars

Next == Open \/ (\E g \in Garbage : ReadALine(g)) \/ Turn \/ LoopEnds \/ saveData \/ Ended

Spec == Init /\ [][Next]_vars

-----------------------------------------------------------------------------
(* Properties *)

\* Each line that ends in a newline gives one record, comments included, and
\* records keep the place of their line.
RecordPerLine ==
  pc \in {"loop", "save", "crashed"} =>
    /\ Len(sensor) = Cardinality(Complete(file))
    /\ \A i \in 1..Len(sensor) : Records(file[i]) => sensor[i] = file[i].record

\* The averages of position and of velocity cover the last SUM_LEN records,
\* standing still at the first position before the first record.
Position(i)  == gps2ecef(sensor[(IF i < Start THEN Start ELSE i) + 1])
Velocity(i)  == ((Position(i) - Position(i - 1)) * Recip(dt)) % Prime
Used == Start..(Start + n - 1)
Recent(j)    == Start + n - SUM_LEN + j   \* the records of Ring, oldest first
MeansOfLast ==
  n > 0 =>
    /\ Total(Pold) = Total([j \in Ring |-> Position(Recent(j))])
    /\ Total(Vold) = Total([j \in Ring |-> IF Recent(j) > Start THEN Velocity(Recent(j)) ELSE 0])

\* The tilt a record and its rate lead to by the next turn.
Carried(s) == (s.tilt + dt * s.w) % Prime
Rest(p)    == <<0, p, 0, 0>>

\* A vehicle at rest stays where it is, however it turns on the spot: if the
\* accelerometers balance in every record and the tilts agree with the rates,
\* filter and navigation equations do not move.  (A tilt that does not agree
\* moves the vehicle: the columns of F carry it to the velocity.)
AtRest ==
  n > 0 /\ (\A i \in Used : /\ Position(i) = Position(Start)
                            /\ Model(sensor[i + 1], Rest(Position(i)))[1] = 0
                            /\ i > Start => sensor[i + 1].tilt = Carried(sensor[i]))
    => /\ x[1] = 0 /\ x[2] = Position(Start) /\ x[3] = Carried(sensor[Start + n])
       /\ kf.x = Zeros

\* The turns of a whole run: from Start to the end of the file, or Last + 1.
Turns == pc = "save" => n = Max({0, Min({Len(sensor), Last + 2}) - Start})

\* Whatever the file, the program ends: every step goes on to a later part of
\* main, or has a line or a record less before it (and some step is possible
\* until the end: the runs check for deadlock).
Part == [open |-> 1, read |-> 2, loop |-> 3, save |-> 4, exited |-> 5, crashed |-> 5]
Ends ==
  [][\/ Part[pc'] > Part[pc]
     \/ pc = "read" /\ Len(lines') < Len(lines)
     \/ pc = "loop" /\ index < index' /\ index' <= Len(sensor)]_vars

\* "create new row", "save data": at the end of the loop there is a row of
\* results for every turn.
RowPerTurn == pc = "save" => Len(data) = n
=============================================================================
