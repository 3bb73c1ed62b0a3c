------------------------------ MODULE Rotations ------------------------------
(***************************************************************************)
(* Quaternions, Euler angles and rotation matrices: quaternion.c and       *)
(* rotation.c of cmathlib, cQuaternion.cpp of mathlib and the functions at *)
(* the top of navigation.cpp.  All are polynomials in the elements of a    *)
(* quaternion <<x, y, z, real>> or in sines and cosines, written here over *)
(* the integers.                                                           *)
(*                                                                         *)
(* An angle is a number of steps, Turn of them to a full turn, and         *)
(* Cosine[k] and Sine[k] belong to k half steps: the code halves angles.   *)
(***************************************************************************)
EXTENDS Integers

CONSTANTS Turn, Cosine, Sine

ASSUME AngleAssumption ==
  /\ Turn \in Nat \ {0} /\ Turn % 4 = 0
  /\ {Cosine, Sine} \subseteq [0..(2 * Turn - 1) -> Int]

Quarter == Turn \div 4

cos(k)  == Cosine[(2 * k) % (2 * Turn)]
sin(k)  == Sine[(2 * k) % (2 * Turn)]
cos2(k) == Cosine[k % (2 * Turn)]   \* cos(k/2)
sin2(k) == Sine[k % (2 * Turn)]     \* sin(k/2)

Three == 1..3

MatMul(a, b) == [i \in Three |-> [j \in Three |->
                   a[i][1] * b[1][j] + a[i][2] * b[2][j] + a[i][3] * b[3][j]]]
MatTrans(a)  == [i \in Three |-> [j \in Three |-> a[j][i]]]

-----------------------------------------------------------------------------
(* Quaternions *)

norm2(a) == a[1]*a[1] + a[2]*a[2] + a[3]*a[3] + a[4]*a[4]

conj(a) == <<-a[1], -a[2], -a[3], a[4]>>

\* The friend operator*; quatMult(b, a, out) of cmathlib computes out = a*b.
Mult(a, b) ==
  <<  a[1]*b[4] + a[2]*b[3] - a[3]*b[2] + a[4]*b[1],
    -(a[1]*b[3]) + a[2]*b[4] + a[3]*b[1] + a[4]*b[2],
      a[1]*b[2] - a[2]*b[1] + a[3]*b[4] + a[4]*b[3],
    -(a[1]*b[1]) - a[2]*b[2] - a[3]*b[3] + a[4]*b[4] >>

error(a, b) ==
  << -(a[1]*b[4]) - a[2]*b[3] + a[3]*b[2] + a[4]*b[1],
       a[1]*b[3] - a[2]*b[4] - a[3]*b[1] + a[4]*b[2],
     -(a[1]*b[2]) + a[2]*b[1] - a[3]*b[4] + a[4]*b[3],
       a[1]*b[1] + a[2]*b[2] + a[3]*b[3] + a[4]*b[4] >>

\* skew(b, 3), matrixFillSkewD; skew(b, 4), matrixFillSkew4.
skew3(b) == << <<0, -b[3], b[2]>>, <<b[3], 0, -b[1]>>, <<-b[2], b[1], 0>> >>

skew4(b) == << <<0, b[3], -b[2], b[1]>>, <<-b[3], 0, b[1], b[2]>>,
               <<b[2], -b[1], 0, b[3]>>, <<-b[1], -b[2], -b[3], 0>> >>

Times4(m, q) == [i \in 1..4 |-> m[i][1]*q[1] + m[i][2]*q[2] + m[i][3]*q[3] + m[i][4]*q[4]]

\* The axis is divided by the sum of its components, cut to an integer; the
\* model has axes of integers whose sum is 1 or -1.
initQuat(axis, k) ==
  LET sum == axis[1] + axis[2] + axis[3]
  IN  <<axis[1] * sum * sin2(k), axis[2] * sum * sin2(k), axis[3] * sum * sin2(k), cos2(k)>>

-----------------------------------------------------------------------------
(* Quaternions from Euler angles *)

\* e2q of navigation.cpp, e2q and e2q3 of quaternion.c (whose correction of the
\* magnitude has nothing to do).
e2q(r, p, y) ==
  LET cr == cos2(r)
      sr == sin2(r)
      cp == cos2(p)
      sp == sin2(p)
      cy == cos2(y)
      sy == sin2(y)
  IN  <<cy*cp*sr - sy*sp*cr, cy*sp*cr + sy*cp*sr, sy*cp*cr - cy*sp*sr, cy*cp*cr + sy*sp*sr>>

\* cQuaternion::e2q(r, p, y, flag)
RealPart(flag, r, p, y) ==
  CASE flag \in 1..6   -> cos2(p) * cos2(r + y)
    [] flag \in 7..9   -> cos2(r)*cos2(p)*cos2(y) - sin2(r)*sin2(p)*sin2(y)
    [] flag \in 10..12 -> cos2(r)*cos2(p)*cos2(y) + sin2(r)*sin2(p)*sin2(y)

\* What the code calls q1, q2 and q3 in three orders: with the first and last
\* angle about one axis (cases 1 to 6), or about three axes in cyclic (7 to 9)
\* or in the opposite order (10 to 12).
Proper(r, p, y) == <<cos2(p) * sin2(r + y), sin2(p) * cos2(r - y), sin2(p) * sin2(r - y)>>

Cyclic(r, p, y) ==
  <<sin2(r)*cos2(p)*cos2(y) + cos2(r)*sin2(p)*sin2(y),
    cos2(r)*sin2(p)*cos2(y) - sin2(r)*cos2(p)*sin2(y),
    cos2(r)*cos2(p)*sin2(y) + sin2(r)*sin2(p)*cos2(y)>>

Opposite(r, p, y) ==
  <<sin2(r)*cos2(p)*cos2(y) - cos2(r)*sin2(p)*sin2(y),
    cos2(r)*sin2(p)*cos2(y) + sin2(r)*cos2(p)*sin2(y),
    cos2(r)*cos2(p)*sin2(y) - sin2(r)*sin2(p)*cos2(y)>>

BadVectorPart(flag, r, p, y) ==   \* case 5 without its minus sign
  LET a == Proper(r, p, y)
      b == Cyclic(r, p, y)
      c == Opposite(r, p, y)
  IN  << <<a[1], a[2], a[3]>>, <<a[3], a[1], a[2]>>, <<a[2], a[3], a[1]>>,
         <<a[1], -a[3], a[2]>>, <<a[2], a[1], a[3]>>, <<-a[3], a[2], a[1]>>,
         <<b[1], b[2], b[3]>>, <<b[3], b[1], b[2]>>, <<b[2], b[3], b[1]>>,
         <<c[1], c[3], c[2]>>, <<c[2], c[1], c[3]>>, <<c[3], c[2], c[1]>> >>[flag]

VectorPart(flag, r, p, y) ==
  LET a == Proper(r, p, y)
      b == Cyclic(r, p, y)
      c == Opposite(r, p, y)
  IN  << <<a[1], a[2], a[3]>>, <<a[3], a[1], a[2]>>, <<a[2], a[3], a[1]>>,
         <<a[1], -a[3], a[2]>>, <<a[2], a[1], -a[3]>>, <<-a[3], a[2], a[1]>>,
         <<b[1], b[2], b[3]>>, <<b[3], b[1], b[2]>>, <<b[2], b[3], b[1]>>,
         <<c[1], c[3], c[2]>>, <<c[2], c[1], c[3]>>, <<c[3], c[2], c[1]>> >>[flag]

e2qOf(flag, r, p, y) ==
  LET v == VectorPart(flag, r, p, y)
  IN  <<v[1], v[2], v[3], RealPart(flag, r, p, y)>>

\* slerp between quaternions whose product is the cosine of m half steps, h of
\* the way being m1 of them; its result times sin(angle), by which it divides.
slerp(a, b, m, m1) ==
  [i \in 1..4 |-> a[i] * sin2(m - m1) + b[i] * sin2(m1)]

-----------------------------------------------------------------------------
(* Rotation matrices *)

\* q2R4 and q2R of quaternion.c, case 12 of cQuaternion::q2R; q2e takes some of
\* these elements.
q2R(q) ==
  << <<2*q[4]*q[4] - 1 + 2*q[1]*q[1], 2*q[1]*q[2] + 2*q[4]*q[3], 2*q[1]*q[3] - 2*q[4]*q[2]>>,
     <<2*q[1]*q[2] - 2*q[4]*q[3], 2*q[4]*q[4] - 1 + 2*q[2]*q[2], 2*q[2]*q[3] + 2*q[4]*q[1]>>,
     <<2*q[1]*q[3] + 2*q[4]*q[2], 2*q[2]*q[3] - 2*q[4]*q[1], 2*q[4]*q[4] - 1 + 2*q[3]*q[3]>> >>

BadEuler(r, p, y) ==   \* one sine of the wrong angle
  << <<cos(p)*cos(y), sin(r)*sin(p)*cos(y) - cos(r)*sin(y), cos(r)*sin(p)*cos(y) + sin(r)*sin(y)>>,
     <<cos(p)*sin(y), sin(r)*sin(p)*sin(y) + cos(r)*cos(y), cos(r)*sin(p)*sin(y) - sin(p)*cos(y)>>,
     <<-sin(p), sin(r)*cos(p), cos(r)*cos(p)>> >>

\* setR123_Euler of rotation.c and of navigation.cpp
setR123_Euler(r, p, y) ==
  << <<cos(p)*cos(y), sin(r)*sin(p)*cos(y) - cos(r)*sin(y), cos(r)*sin(p)*cos(y) + sin(r)*sin(y)>>,
     <<cos(p)*sin(y), sin(r)*sin(p)*sin(y) + cos(r)*cos(y), cos(r)*sin(p)*sin(y) - sin(r)*cos(y)>>,
     <<-sin(p), sin(r)*cos(p), cos(r)*cos(p)>> >>

\* The last element of the second row has the sine of the pitch where that of
\* the roll is due.
Rnb(r, p, y) ==
  << <<cos(p)*cos(y), sin(r)*sin(p)*cos(y) - cos(r)*sin(y), sin(r)*sin(y) + cos(r)*sin(p)*cos(y)>>,
     <<cos(p)*sin(y), cos(r)*cos(y) + sin(r)*sin(p)*sin(y), cos(r)*sin(p)*sin(y) - sin(p)*cos(y)>>,
     <<-sin(p), sin(r)*cos(p), cos(r)*cos(p)>> >>

\* The middle element has the cosine of the latitude.
Rne(lat, lon) ==
  << <<-sin(lat)*cos(lon), -sin(lat)*sin(lon), cos(lat)>>,
     <<-sin(lon), cos(lat), 0>>,
     <<-cos(lat)*cos(lon), -cos(lat)*sin(lon), -sin(lat)>> >>

Reb(lat, lon, r, p, y) == MatMul(MatTrans(Rne(lat, lon)), Rnb(r, p, y))

\* setR_ne of rotation.c, transposed at the end.
setR_ne(lat, lng) ==
  MatTrans(<< <<-sin(lat)*cos(lng), -sin(lat)*sin(lng), cos(lat)>>,
              <<-sin(lng), cos(lng), 0>>,
              <<-cos(lat)*cos(lng), -cos(lat)*sin(lng), -sin(lat)>> >>)

\* Rotated by the longitude the Earth has turned by in the meantime.
setR_iv(lng, lat, turned) ==
  LET i == lng + turned
  IN  << <<-cos(i)*sin(lat), -sin(i)*sin(lat), cos(lat)>>,
         <<sin(i), -cos(i), 0>>,
         <<cos(i)*cos(lat), sin(i)*cos(lat), sin(lat)>> >>

setR_ev(lng, lat) == setR_iv(lng, lat, 0)

\* (pn, pu) is p times the sine and cosine of an angle; the matrix is divided
\* by p at the end.
setR_cv(a) == << <<cos(a), 0, sin(a)>>, <<0, 1, 0>>, <<-sin(a), 0, cos(a)>> >>

\* latc is the geocentric latitude of (x, y, z).
Rec(latc, lon) ==
  << <<-cos(lon)*sin(latc), sin(lon), cos(lon)*cos(latc)>>,
     <<-sin(lon)*sin(latc), -cos(lon), sin(lon)*cos(latc)>>,
     <<cos(latc), 0, sin(latc)>> >>
=============================================================================
