------------------------------- MODULE Attitude -------------------------------
(***************************************************************************)
(* The attitude of the navigation program: elements 6 to 9 of rk->x, a     *)
(* quaternion that reset sets from the first record, that updateNav turns  *)
(* into angles to exchange roll and pitch for those of the record, keeping *)
(* the yaw, and that the integration turns on by the angular rates.        *)
(*                                                                         *)
(* Numbers are integers modulo a prime; sines and cosines are those of a   *)
(* cyclic group of points with x*x + y*y = 1.                              *)
(***************************************************************************)
EXTENDS Rotations

CONSTANTS Prime,
          Records   \* what sensor records hold: angles r, p, y, position
                    \* lat, lon, and the turn by rate steps about an axis
                    \* until the next record

ASSUME RecordAssumption ==
  /\ Prime \in Nat \ {0}
  /\ \A s \in Records : {s.r, s.p, s.y, s.lat, s.lon, s.rate} \subseteq Int /\ s.axis \in Three

HalfSteps == 0..(2 * Turn - 1)

\* Sines and cosines obey the laws of addition, and lie on the circle.
ASSUME CircleAssumption ==
  /\ Cosine[0] % Prime = 1 % Prime /\ Sine[0] % Prime = 0
  /\ \A k \in HalfSteps : (Cosine[k] * Cosine[k] + Sine[k] * Sine[k] - 1) % Prime = 0
  /\ \A j, k \in HalfSteps :
       LET n == (j + k) % (2 * Turn)
       IN  /\ (Cosine[n] - (Cosine[j] * Cosine[k] - Sine[j] * Sine[k])) % Prime = 0
           /\ (Sine[n] - (Sine[j] * Cosine[k] + Cosine[j] * Sine[k])) % Prime = 0

AnyAngle == (1 - 2 * Quarter)..(2 * Quarter)
Pitches  == (1 - Quarter)..(Quarter - 1)   \* short of 90 degrees

\* Sine and cosine tell one angle from another, the sine alone up to 90 degrees
\* either way; short of that the cosine may be divided by.
ASSUME AngleIsKnown ==
  /\ \A j, k \in AnyAngle :
       (cos(j) - cos(k)) % Prime = 0 /\ (sin(j) - sin(k)) % Prime = 0 => j = k
  /\ \A j, k \in -Quarter..Quarter : (sin(j) - sin(k)) % Prime = 0 => j = k
  /\ \A k \in Pitches : \E y \in 0..(Prime - 1) : (cos(k) * y) % Prime = 1

\* A restriction on the records, which the sensors need not keep to: rates are
\* about one axis, and such that they add to one of the angles, as no other turn
\* is in between: about x always, about y without roll, about z without roll and
\* pitch.  Any other rate leads to angles outside the group.
ASSUME RateAssumption ==
  \A t \in Records :
    /\ t.p \in -Quarter..Quarter
    /\ t.axis = 2 => t.r = 0 /\ t.p + t.rate \in -Quarter..Quarter
    /\ t.axis = 3 => t.r = 0 /\ t.p = 0

VARIABLES q,       \* rk->x[6..9]
          R_eb,
          s,       \* the record of the last turn, or None
          angles,  \* history: roll, pitch and yaw the vehicle should have
          locked   \* history: the pitch has been plus or minus 90 degrees

vars == <<q, R_eb, s, angles, locked>>

None == [is |-> "none"]

Mod3(a) == <<a[1] % Prime, a[2] % Prime, a[3] % Prime>>
Mod(a)  == <<a[1] % Prime, a[2] % Prime, a[3] % Prime, a[4] % Prime>>
ModM(m) == <<Mod3(m[1]), Mod3(m[2]), Mod3(m[3])>>

Axis(i) == << <<1, 0, 0>>, <<0, 1, 0>>, <<0, 0, 1>> >>[i]
About(i, k) == Mod(initQuat(Axis(i), k))

-----------------------------------------------------------------------------
(* Angles of a quaternion *)

Recip(x) == CHOOSE y \in 0..(Prime - 1) : (x * y) % Prime = 1

asin(x) == CHOOSE k \in -Quarter..Quarter : (sin(k) - x) % Prime = 0

atan2(y, x) == CHOOSE k \in AnyAngle :
                 (cos(k) - x) % Prime = 0 /\ (sin(k) - y) % Prime = 0

\* Roll, pitch and yaw, where x/cos(pitch) are given to atan2.  At a pitch of
\* 90 degrees that is one rounding error over another: any angle.
Angles(pitch, sr, cr, sy, cy) ==
  LET c == Recip(cos(pitch))
  IN  IF pitch \in {-Quarter, Quarter}
      THEN {<<r, pitch, y>> : r, y \in AnyAngle}
      ELSE {<<atan2(sr * c, cr * c), pitch, atan2(sy * c, cy * c)>>}

Heading(k) == IF k < 0 THEN k + Turn ELSE k

\* q2e of navigation.cpp, with yaw from 0 to 360 degrees
q2e(a) ==
  {<<e[1], e[2], Heading(e[3])>> :
     e \in Angles(asin(-(2*a[1]*a[3] - 2*a[4]*a[2])),
                  2*a[2]*a[3] + 2*a[4]*a[1], 2*a[4]*a[4] - 1 + 2*a[3]*a[3],
                  2*a[1]*a[2] + 2*a[4]*a[3], 2*a[4]*a[4] - 1 + 2*a[1]*a[1])}

\* q2e3 of quaternion.c.  Its branch for gimbal lock compares a pointer with 0
\* and is never taken.
q2e3(a) ==
  {<<e[1], e[2], Heading(e[3])>> :
     e \in Angles(asin(-2 * (-(a[4]*a[2]) + a[1]*a[3])),
                  2*(a[2]*a[3] + a[4]*a[1]), 1 - 2*(a[1]*a[1] + a[2]*a[2]),
                  2*(a[1]*a[2] + a[4]*a[3]), 1 - 2*(a[2]*a[2] + a[3]*a[3]))}

BadQ2e7(a) ==   \* a sign
  Angles(asin(2*(a[1]*a[3] + a[2]*a[4])),
         2*(a[2]*a[3] - a[1]*a[4]), -a[1]*a[1] - a[2]*a[2] + a[3]*a[3] + a[4]*a[4],
         -2*(a[1]*a[2] - a[3]*a[4]), a[1]*a[1] - a[2]*a[2] - a[3]*a[3] + a[4]*a[4])

\* cQuaternion::q2e, whose one case is 7
q2e7(a) ==
  Angles(asin(2*(a[1]*a[3] + a[2]*a[4])),
         -2*(a[2]*a[3] - a[1]*a[4]), -a[1]*a[1] - a[2]*a[2] + a[3]*a[3] + a[4]*a[4],
         -2*(a[1]*a[2] - a[3]*a[4]), a[1]*a[1] - a[2]*a[2] - a[3]*a[3] + a[4]*a[4])

-----------------------------------------------------------------------------
(* The navigation program *)

\* reset
FromRecord(t) == Mod(e2q(t.r, t.p, t.y))

BadCorrected(t, yaw) == Mod(e2q(t.r, t.p, t.y))   \* the yaw of the record

\* updateNav; yaw is the e[2] of q2e.
Corrected(t, yaw) == Mod(e2q(t.r, t.p, yaw))

\* What cRK4::integrate approximates: qdot = .5*skew(w,4)*q, w about one axis.
Integrated(a, t) == Mod(Mult(a, About(t.axis, t.rate)))

Init == /\ q = <<0, 0, 0, 0>> /\ R_eb = None
        /\ s = None
        /\ angles = <<0, 0, 0>> /\ locked = FALSE

\* A turn of main's loop with record t.
Update(t) ==
  LET a   == IF s = None THEN FromRecord(t) ELSE q
      yaw == IF s = None THEN t.y ELSE angles[3]
      new == [<<t.r, t.p, yaw>> EXCEPT ![t.axis] = @ + t.rate]
  IN  /\ s' = t
      /\ R_eb' = ModM(Reb(t.lat, t.lon, t.r, t.p, t.y))
      /\ \E e \in {d[3] : d \in q2e(a)} : q' = Integrated(Corrected(t, e), t)
      /\ locked' = \/ locked \/ new[2] \in {-Quarter, Quarter}
                   \/ s = None /\ t.p \in {-Quarter, Quarter}
      /\ angles' = IF locked' THEN <<0, 0, 0>> ELSE [new EXCEPT ![3] = @ % Turn]

Next == \E t \in Records : Update(t)

Spec == Init /\ [][Next]_vars

-----------------------------------------------------------------------------
(* Properties *)

Same(a, b)       == \A i \in DOMAIN a : (a[i] - b[i]) % Prime = 0
SameMatrix(m, n) == \A i \in Three : Same(m[i], n[i])
Identity         == <<Axis(1), Axis(2), Axis(3)>>
Rotation(m)      == SameMatrix(MatMul(m, MatTrans(m)), Identity)

SameAngles(a, b) == \A i \in Three : (a[i] - b[i]) % Turn = 0

Steps == 0..(Turn - 1)

\* The quaternion, taken apart and put together again at every turn, keeps the
\* yaw it was given at the first and what the gyros have added to it since,
\* through every wrap of yaw and every change of the quaternion's sign, as long
\* as no pitch was 90 degrees; roll and pitch are those of the record.  (This is
\* about records that keep to RateAssumption only: a vehicle that turns about one
\* axis at a time, and heads elsewhere only while it is level.)
DeadReckoning ==
  (s # None /\ ~locked) => \A e \in q2e(q) : SameAngles(e, angles)

\* Each of the twelve orders of cQuaternion::e2q is the product of three
\* rotations initQuat makes, about the axes the comment names, e2q of the
\* navigation is the same order as case 12 with roll and yaw exchanged, error
\* is the product with the inverse, and slerp between two rotations about an
\* axis is a rotation about it by the angle between.
Order == << <<1,2,1>>, <<2,3,2>>, <<3,1,3>>, <<1,3,1>>, <<2,1,2>>, <<3,2,3>>,
            <<1,2,3>>, <<2,3,1>>, <<3,1,2>>, <<1,3,2>>, <<2,1,3>>, <<3,2,1>> >>

ElementaryTurns ==
  s = None => \A r, p, y \in Steps :
    /\ \A flag \in 1..12 :
         Same(e2qOf(flag, r, p, y),
              Mult(Mod(Mult(About(Order[flag][1], r), About(Order[flag][2], p))),
                   About(Order[flag][3], y)))
    /\ Same(e2q(r, p, y), e2qOf(12, y, p, r))
    /\ LET a == Mod(e2q(r, p, y))
       IN  Same(error(a, About(1, r)), Mult(conj(a), About(1, r)))
    /\ \A i \in Three :
         Same(slerp(About(i, r), About(i, r + p), p, y), [j \in 1..4 |-> About(i, r + y)[j] * sin2(p)])

\* The matrix of a quaternion is the transpose of the matrix setR123_Euler
\* fills from the same angles, of a product the product of the matrices, and
\* what rotation.c fills between the frames of the Earth are rotations; the
\* navigation program's Rec is the transpose of setR_ev.
SameRotation ==
  s = None => \A r, p, y \in Steps :
    LET a == Mod(e2q(r, p, y))
        m == ModM(q2R(a))
        d == ModM(setR123_Euler(r, p, y))
    IN  /\ SameMatrix(m, MatTrans(d)) /\ Rotation(d)
        /\ SameMatrix(q2R(Mod(Mult(a, About(2, r)))), MatMul(ModM(q2R(About(2, r))), m))
        /\ Rotation(ModM(setR_ne(r, p))) /\ Rotation(ModM(setR_iv(r, p, y)))
        /\ Rotation(ModM(setR_cv(r)))
        /\ SameMatrix(ModM(Rec(r, p)), MatTrans(ModM(setR_ev(p, r))))

\* Short of a pitch of 90 degrees the angles a quaternion was made of come back
\* from it: q2e3 from e2q3, cQuaternion::q2e(7) from cQuaternion::e2q(7).
AnglesComeBack ==
  s = None => \A r, y \in Steps, p \in Pitches :
    /\ \A e \in q2e3(Mod(e2q(r, p, y)))      : SameAngles(e, <<r, p, y>>)
    /\ \A e \in q2e7(Mod(e2qOf(7, r, p, y))) : SameAngles(e, <<r, p, y>>)

\* What rotation.c says of its matrices, for the matrix the navigation turns
\* accelerations and rates with: R_eb is a rotation.  It is not.
RebRotates == s # None => Rotation(R_eb)
=============================================================================
