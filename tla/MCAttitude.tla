------------------------------ MODULE MCAttitude ------------------------------
(***************************************************************************)
(* Steps of 30 degrees.  Modulo 23 the points with x*x + y*y = 1 are a     *)
(* group of 24, one for each half step; First generates it.                *)
(***************************************************************************)
EXTENDS Attitude

MCPrime == 23
MCTurn  == 12

First == <<4, 13>>

Point[n \in 0..(2 * MCTurn - 1)] ==
  IF n = 0 THEN <<1, 0>>
  ELSE LET w == Point[n - 1]
       IN  <<(w[1]*First[1] - w[2]*First[2]) % MCPrime, (w[1]*First[2] + w[2]*First[1]) % MCPrime>>

MCCosine == [n \in 0..(2 * MCTurn - 1) |-> Point[n][1]]
MCSine   == [n \in 0..(2 * MCTurn - 1) |-> Point[n][2]]

\* Rates about an axis whose rotation leaves angles of whole steps: any roll
\* rate, a pitch rate without roll, a yaw rate without roll and pitch.
MCRecords ==
  {w \in [r : {-5, 0}, p : {-3, -2, 0}, y : {0, 7}, lat : {2}, lon : {-1},
          axis : Three, rate : {-1, 0, 2}] :
     /\ w.axis = 2 => w.r = 0 /\ w.p + w.rate \in -Quarter..Quarter
     /\ w.axis = 3 => w.r = 0 /\ w.p = 0
     /\ w.rate = 0 => w.axis = 1}
=============================================================================
