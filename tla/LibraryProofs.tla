---------------------------- MODULE LibraryProofs ----------------------------
(***************************************************************************)
(* Theorems about what the programs take from the libraries: ByteOrder,    *)
(* Rotations, the attitude of the navigation that is made of them, and     *)
(* the files of PathFile.                                                  *)
(***************************************************************************)
EXTENDS Attitude, ByteOrder, PathFile,
        NaturalsInduction, SequenceTheorems, FiniteSetTheorems, TLAPS

-----------------------------------------------------------------------------
(* What the conversions of convertDataTypeLib preserve, for objects of     *)
(* every size, machines of either byte order, and messages between the two *)


\* convertDataFrom gives the number it was given, in the order of the machine
\* and in as many bytes as are asked for.
THEOREM FromKeepsNumber ==
  ASSUME NEW machine \in Orders, NEW memory \in Orders,
         NEW size \in Nat, NEW cnvSize \in Nat, cnvSize >= size,
         NEW value \in Bytes(size), NEW convert
  PROVE  SameNumber(machine, cnvSize,
                    convertDataFrom(machine, convert, cnvSize, value, size, memory),
                    memory, size, value)
<1> DEFINE padded == padZeros(memory, cnvSize, value, size)
           w == IF size # cnvSize THEN padded ELSE value
<1>1. \A k \in Nat : Digit(memory, cnvSize, w, k) = Digit(memory, size, value, k)
  BY DEF Digit, padZeros, Orders, Bytes
<1>2. \A k \in Nat : Digit(machine, cnvSize, Swapped(machine, memory, w, cnvSize), k)
                       = Digit(memory, cnvSize, w, k)
  <2> HIDE DEF w
  <2> QED BY DEF Digit, Swapped, convertDataType, Orders
<1> QED BY <1>1, <1>2 DEF SameNumber, convertDataFrom

\* convertDataTo keeps the lower digits, as many as there is room for.
THEOREM ToKeepsDigits ==
  ASSUME NEW machine \in Orders, NEW memory \in Orders,
         NEW size \in Nat, NEW cnvSize \in 0..size,
         NEW value \in Bytes(size), NEW convert, NEW k \in 0..(cnvSize - 1)
  PROVE  Digit(memory, cnvSize, convertDataTo(machine, convert, cnvSize, value, size, memory), k)
           = Digit(machine, size, value, k)
<1> DEFINE v == Swapped(machine, memory, value, size)
           w == IF size # cnvSize THEN reduceZeros(memory, cnvSize, v, size) ELSE v
<1>1. Digit(memory, size, v, k) = Digit(machine, size, value, k)
  BY DEF Digit, Swapped, convertDataType, Orders
<1>2. Digit(memory, cnvSize, w, k) = Digit(memory, size, v, k)
  <2> HIDE DEF v
  <2> QED BY DEF Digit, reduceZeros, Orders
<1> QED BY <1>1, <1>2 DEF convertDataTo

\* What convertDataTo leaves is an object of cnvSize bytes.
LEMMA ToType ==
  ASSUME NEW machine \in Orders, NEW memory \in Orders,
         NEW size \in Nat, NEW cnvSize \in 0..size, NEW value \in Bytes(size), NEW convert
  PROVE  convertDataTo(machine, convert, cnvSize, value, size, memory) \in Bytes(cnvSize)
<1> DEFINE v == Swapped(machine, memory, value, size)
<1>1. v \in Bytes(size)
  BY DEF Swapped, convertDataType, Bytes
<1>2. size # cnvSize => reduceZeros(memory, cnvSize, v, size) \in Bytes(cnvSize)
  <2> HIDE DEF v
  <2> QED BY <1>1 DEF reduceZeros, Bytes, Orders
<1> QED BY <1>1, <1>2 DEF convertDataTo

\* A number that fits into cnvSize bytes survives the way from one machine to
\* another through a message that has room for no more, whatever the byte
\* orders of the three.
THEOREM ByteRoundTrip ==
  ASSUME NEW m1 \in Orders, NEW m2 \in Orders, NEW memory \in Orders,
         NEW size \in Nat, NEW cnvSize \in 0..size, NEW value \in Bytes(size),
         \A k \in Nat : k >= cnvSize => Digit(m1, size, value, k) = 0,
         NEW convert1, NEW convert2
  PROVE  SameNumber(m1, size, value, m2, size,
           convertDataFrom(m2, convert2, size,
             convertDataTo(m1, convert1, cnvSize, value, size, memory), cnvSize, memory))
<1> DEFINE sent     == convertDataTo(m1, convert1, cnvSize, value, size, memory)
           received == convertDataFrom(m2, convert2, size, sent, cnvSize, memory)
<1>1. sent \in Bytes(cnvSize)
  BY ToType
<1>2. \A k \in 0..(cnvSize - 1) : Digit(memory, cnvSize, sent, k) = Digit(m1, size, value, k)
  BY ToKeepsDigits
<1>3. \A k \in Nat : k >= cnvSize => Digit(memory, cnvSize, sent, k) = 0
  BY DEF Digit
<1>4. SameNumber(m2, size, received, memory, cnvSize, sent)
  <2> HIDE DEF sent
  <2> QED BY <1>1, FromKeepsNumber
<1> HIDE DEF sent, received
<1>5. SUFFICES ASSUME NEW k \in Nat PROVE Digit(m1, size, value, k) = Digit(m2, size, received, k)
  BY DEF SameNumber, sent, received
<1>6. Digit(m2, size, received, k) = Digit(memory, cnvSize, sent, k)
  BY <1>4 DEF SameNumber
<1>7. CASE k < cnvSize
  <2> k \in 0..(cnvSize - 1) BY <1>7
  <2> QED BY <1>2, <1>6
<1>8. CASE k >= cnvSize
  BY <1>3, <1>6, <1>8
<1> QED BY <1>7, <1>8

\* unpackData finds what packData put at the same index of a message, on a
\* machine of either byte order.
THEOREM Unpacked ==
  ASSUME NEW m1 \in Orders, NEW m2 \in Orders, NEW len \in Nat, NEW dataString \in Bytes(len),
         NEW index \in Nat, NEW size \in Nat, index + size <= len,
         NEW data \in Bytes(size), NEW old
  PROVE  SameNumber(m1, size, data, m2, size,
           unpackData(m2, packData(m1, dataString, index, data, size), index, old, size))
<1> DEFINE cData   == convertDataTo(m1, data, size, data, size, "BIG_END")
           message == packData(m1, dataString, index, data, size)
<1>1. cData \in Bytes(size)
  BY ToType DEF Orders
<1>2. [i \in 0..(size - 1) |-> message[index + i]] = cData
  <2> HIDE DEF cData
  <2>1. \A i \in 0..(size - 1) : message[index + i] = cData[i]
    BY DEF packData, cData, Bytes
  <2> HIDE DEF message
  <2> QED BY <1>1, <2>1 DEF Bytes
<1>3. unpackData(m2, message, index, old, size) = convertDataFrom(m2, old, size, cData, size, "BIG_END")
  <2> HIDE DEF message, cData
  <2> QED BY <1>2 DEF unpackData
<1>4. \A k \in Nat : k >= size => Digit(m1, size, data, k) = 0
  BY DEF Digit
<1>5. "BIG_END" \in Orders
  BY DEF Orders
<1> QED BY <1>3, <1>4, <1>5, ByteRoundTrip

\* packData touches nothing of a message but the bytes it was given: what was
\* packed before can still be unpacked.
THEOREM PackingKeepsTheRest ==
  ASSUME NEW machine \in Orders, NEW m2 \in Orders, NEW len \in Nat, NEW dataString \in Bytes(len),
         NEW index \in Nat, NEW size \in Nat, index + size <= len, NEW data \in Bytes(size),
         NEW other \in Nat, NEW otherSize \in Nat, other + otherSize <= len,
         other + otherSize <= index \/ index + size <= other, NEW old
  PROVE  /\ packData(machine, dataString, index, data, size) \in Bytes(len)
         /\ unpackData(m2, packData(machine, dataString, index, data, size), other, old, otherSize)
              = unpackData(m2, dataString, other, old, otherSize)
<1> DEFINE cData   == convertDataTo(machine, data, size, data, size, "BIG_END")
           message == packData(machine, dataString, index, data, size)
<1>1. cData \in Bytes(size)
  BY ToType DEF Orders
<1>2. message \in Bytes(len)
  <2> HIDE DEF cData
  <2> QED BY <1>1 DEF packData, cData, Bytes
<1>3. \A i \in 0..(otherSize - 1) : message[other + i] = dataString[other + i]
  <2> HIDE DEF cData
  <2> QED BY DEF packData, Bytes
<1>4. [i \in 0..(otherSize - 1) |-> message[other + i]]
        = [i \in 0..(otherSize - 1) |-> dataString[other + i]]
  <2> HIDE DEF message
  <2> QED BY <1>3
<1> HIDE DEF message
<1>5. unpackData(m2, message, other, old, otherSize) = unpackData(m2, dataString, other, old, otherSize)
  BY <1>4 DEF unpackData
<1> QED BY <1>2, <1>5 DEF message

\* htonf and htond give the number in network order, which is BIG_END.
THEOREM NetworkOrder ==
  ASSUME NEW machine \in Orders, NEW size \in Nat, NEW value \in Bytes(size)
  PROVE  SameNumber("BIG_END", size, hton(machine, value, size), machine, size, value)
<1>1. "BIG_END" \in Orders /\ size \in 0..size
  BY DEF Orders
<1>2. \A k \in 0..(size - 1) :
        Digit("BIG_END", size, hton(machine, value, size), k) = Digit(machine, size, value, k)
  BY <1>1, ToKeepsDigits DEF hton
<1>3. SUFFICES ASSUME NEW k \in Nat
               PROVE Digit("BIG_END", size, hton(machine, value, size), k) = Digit(machine, size, value, k)
  BY DEF SameNumber
<1>4. CASE k < size
  <2> k \in 0..(size - 1) BY <1>4
  <2> QED BY <1>2
<1>5. CASE k >= size
  BY <1>5 DEF Digit
<1> QED BY <1>4, <1>5

\* ntohf and ntohd convert to the order the number already has: they change
\* nothing, and on a machine that is LITTLE_END do not undo htonf and htond.
THEOREM NotFromNetworkOrder ==
  ASSUME NEW machine \in Orders, NEW size \in Nat, NEW value \in Bytes(size)
  PROVE  /\ ntoh(machine, value, size) = value
         /\ machine = "LITTLE_END" =>
              ntoh(machine, hton(machine, value, size), size) = convertDataType(value, size)
<1>1. \A v : ntoh(machine, v, size) = v
  BY DEF ntoh, convertDataTo, Swapped
<1>2. machine = "LITTLE_END" => hton(machine, value, size) = convertDataType(value, size)
  BY DEF hton, convertDataTo, Swapped
<1> QED BY <1>1, <1>2

-----------------------------------------------------------------------------
(* The algebra of Rotations, for all integers.  Polynomials that agree on  *)
(* all integers agree on all reals, so what is proved here is what the     *)
(* code would compute without rounding; an integer quaternion stands for   *)
(* the unit quaternion it is a multiple of.                                *)
(*                                                                         *)
(* The elements of quaternions are named first: what is left is then an    *)
(* equation between two polynomials, which the SMT solver expands.         *)


Quaternion == Int \X Int \X Int \X Int

\* The matrix of a quaternion of any length: q2R where norm2(h) replaces the 1.
Stretched(h) ==
  LET n == norm2(h)
      m == q2R(h)
  IN  << <<m[1][1] + 1 - n, m[1][2], m[1][3]>>,
         <<m[2][1], m[2][2] + 1 - n, m[2][3]>>,
         <<m[3][1], m[3][2], m[3][3] + 1 - n>> >>

Scalar(x) == << <<x, 0, 0>>, <<0, x, 0>>, <<0, 0, x>> >>

Same3(m, n) == \A i, j \in Three : m[i][j] = n[i][j]

-----------------------------------------------------------------------------

LEMMA Closed == ASSUME NEW a \in Quaternion, NEW b \in Quaternion
                PROVE  Mult(a, b) \in Quaternion /\ conj(a) \in Quaternion
BY DEF Quaternion, Mult, conj

\* Rotations follow each other in any grouping: operator* is associative, so
\* that the products of the integration and of e2q may be taken as they come.
THEOREM ProductsAssociate ==
  ASSUME NEW a \in Quaternion, NEW b \in Quaternion, NEW c \in Quaternion
  PROVE  Mult(Mult(a, b), c) = Mult(a, Mult(b, c))
BY DEF Quaternion, Mult

\* The length of a product is the product of the lengths: a unit quaternion
\* stays one through every operator* and every exact turn of the integration.
THEOREM NormOfProduct ==
  ASSUME NEW a \in Quaternion, NEW b \in Quaternion
  PROVE  norm2(Mult(a, b)) = norm2(a) * norm2(b)
BY DEF Quaternion, Mult, norm2

\* inv is an inverse: both of its products are the squared length.
THEOREM ConjInverts ==
  ASSUME NEW a \in Quaternion
  PROVE  /\ Mult(a, conj(a)) = <<0, 0, 0, norm2(a)>>
         /\ Mult(conj(a), a) = <<0, 0, 0, norm2(a)>>
BY DEF Quaternion, Mult, conj, norm2

\* cQuaternion's error is the rotation that leads from a to b.
THEOREM ErrorLeadsBack ==
  ASSUME NEW a \in Quaternion, NEW b \in Quaternion
  PROVE  /\ error(a, b) = Mult(conj(a), b)
         /\ norm2(a) = 1 => Mult(a, error(a, b)) = b
<1>1. error(a, b) = Mult(conj(a), b)
  BY DEF Quaternion, Mult, conj, error
<1>2. Mult(a, error(a, b)) = Mult(Mult(a, conj(a)), b)
  BY <1>1, Closed, ProductsAssociate
<1>3. Mult(<<0, 0, 0, 1>>, b) = b
  BY DEF Quaternion, Mult
<1> QED BY <1>1, <1>2, <1>3, ConjInverts

\* The matrix of the integration, skew(w, 4) and matrixFillSkew4, multiplies
\* a quaternion by the rate, and never changes its length: its product with the
\* quaternion is at right angles to it.
THEOREM SkewIsProduct ==
  ASSUME NEW w \in Int \X Int \X Int, NEW h \in Quaternion
  PROVE  LET qdot == Times4(skew4(w), h)
         IN  /\ \A i \in 1..4 : qdot[i] = Mult(h, <<w[1], w[2], w[3], 0>>)[i]
             /\ qdot[1]*h[1] + qdot[2]*h[2] + qdot[3]*h[3] + qdot[4]*h[4] = 0
BY DEF Quaternion, Mult, Times4, skew4

-----------------------------------------------------------------------------
(* Matrices *)

LEMMA Entries ==
  ASSUME NEW m, NEW n,
         m[1][1] = n[1][1], m[1][2] = n[1][2], m[1][3] = n[1][3],
         m[2][1] = n[2][1], m[2][2] = n[2][2], m[2][3] = n[2][3],
         m[3][1] = n[3][1], m[3][2] = n[3][2], m[3][3] = n[3][3]
  PROVE  Same3(m, n)
BY DEF Same3, Three

\* The elements of Stretched, as quadratic forms.
LEMMA StretchedIs ==
  ASSUME NEW h \in Quaternion
  PROVE  LET m == Stretched(h)
         IN  /\ m[1][1] = h[4]*h[4] + h[1]*h[1] - h[2]*h[2] - h[3]*h[3]
             /\ m[2][2] = h[4]*h[4] - h[1]*h[1] + h[2]*h[2] - h[3]*h[3]
             /\ m[3][3] = h[4]*h[4] - h[1]*h[1] - h[2]*h[2] + h[3]*h[3]
             /\ m[1][2] = 2*h[1]*h[2] + 2*h[4]*h[3] /\ m[2][1] = 2*h[1]*h[2] - 2*h[4]*h[3]
             /\ m[1][3] = 2*h[1]*h[3] - 2*h[4]*h[2] /\ m[3][1] = 2*h[1]*h[3] + 2*h[4]*h[2]
             /\ m[2][3] = 2*h[2]*h[3] + 2*h[4]*h[1] /\ m[3][2] = 2*h[2]*h[3] - 2*h[4]*h[1]
<1> DEFINE m == Stretched(h)
           n == q2R(h)
<1>1. PICK q1 \in Int, q2 \in Int, q3 \in Int, q4 \in Int : h = <<q1, q2, q3, q4>>
  BY DEF Quaternion
<1>2. norm2(h) = q1*q1 + q2*q2 + q3*q3 + q4*q4
  BY <1>1 DEF norm2
<1>3. /\ m[1][1] = n[1][1] + 1 - norm2(h)
      /\ m[2][2] = n[2][2] + 1 - norm2(h)
      /\ m[3][3] = n[3][3] + 1 - norm2(h)
      /\ m[1][2] = n[1][2] /\ m[1][3] = n[1][3] /\ m[2][1] = n[2][1]
      /\ m[2][3] = n[2][3] /\ m[3][1] = n[3][1] /\ m[3][2] = n[3][2]
  BY DEF Stretched
<1>4. /\ n[1][1] = 2*q4*q4 - 1 + 2*q1*q1
      /\ n[2][2] = 2*q4*q4 - 1 + 2*q2*q2
      /\ n[3][3] = 2*q4*q4 - 1 + 2*q3*q3
      /\ n[1][2] = 2*q1*q2 + 2*q4*q3 /\ n[2][1] = 2*q1*q2 - 2*q4*q3
      /\ n[1][3] = 2*q1*q3 - 2*q4*q2 /\ n[3][1] = 2*q1*q3 + 2*q4*q2
      /\ n[2][3] = 2*q2*q3 + 2*q4*q1 /\ n[3][2] = 2*q2*q3 - 2*q4*q1
  BY <1>1 DEF q2R
<1> HIDE DEF m, n
<1> QED BY <1>1, <1>2, <1>3, <1>4 DEF m

LEMMA ProductIs ==
  ASSUME NEW m, NEW n, NEW i \in Three, NEW j \in Three
  PROVE  /\ MatMul(m, n)[i][j] = m[i][1] * n[1][j] + m[i][2] * n[2][j] + m[i][3] * n[3][j]
         /\ MatTrans(m)[i][j] = m[j][i]
BY DEF MatMul, MatTrans

\* For a unit quaternion, Stretched is the matrix of the code.
LEMMA Unstretched ==
  ASSUME NEW h \in Quaternion, norm2(h) = 1
  PROVE  Same3(Stretched(h), q2R(h))
<1> DEFINE m == Stretched(h)
           n == q2R(h)
<1>1. /\ m[1][1] = n[1][1] + 1 - 1 /\ m[2][2] = n[2][2] + 1 - 1 /\ m[3][3] = n[3][3] + 1 - 1
      /\ m[1][2] = n[1][2] /\ m[1][3] = n[1][3] /\ m[2][1] = n[2][1]
      /\ m[2][3] = n[2][3] /\ m[3][1] = n[3][1] /\ m[3][2] = n[3][2]
  BY DEF Stretched
<1>2. n[1][1] \in Int /\ n[2][2] \in Int /\ n[3][3] \in Int
  BY DEF q2R, Quaternion
<1> QED BY <1>1, <1>2, Entries

\* The matrix of a product is the product of the matrices, in the other order:
\* what the quaternion of the navigation does and what its matrices do agree.
THEOREM MatrixOfProduct ==
  ASSUME NEW a \in Quaternion, NEW b \in Quaternion
  PROVE  Same3(Stretched(Mult(a, b)), MatMul(Stretched(b), Stretched(a)))
<1> DEFINE c == Mult(a, b)
           m == Stretched(c)
           n == MatMul(Stretched(b), Stretched(a))
<1>1. PICK a1 \in Int, a2 \in Int, a3 \in Int, a4 \in Int : a = <<a1, a2, a3, a4>>
  BY DEF Quaternion
<1>2. PICK b1 \in Int, b2 \in Int, b3 \in Int, b4 \in Int : b = <<b1, b2, b3, b4>>
  BY DEF Quaternion
<1>3. PICK c1 \in Int, c2 \in Int, c3 \in Int, c4 \in Int :
        /\ c = <<c1, c2, c3, c4>>
        /\ c1 =   a1*b4 + a2*b3 - a3*b2 + a4*b1
        /\ c2 = -(a1*b3) + a2*b4 + a3*b1 + a4*b2
        /\ c3 =   a1*b2 - a2*b1 + a3*b4 + a4*b3
        /\ c4 = -(a1*b1) - a2*b2 - a3*b3 + a4*b4
  BY <1>1, <1>2 DEF Mult
<1>4. /\ m[1][1] = c4*c4 + c1*c1 - c2*c2 - c3*c3
      /\ m[2][2] = c4*c4 - c1*c1 + c2*c2 - c3*c3
      /\ m[3][3] = c4*c4 - c1*c1 - c2*c2 + c3*c3
      /\ m[1][2] = 2*c1*c2 + 2*c4*c3 /\ m[2][1] = 2*c1*c2 - 2*c4*c3
      /\ m[1][3] = 2*c1*c3 - 2*c4*c2 /\ m[3][1] = 2*c1*c3 + 2*c4*c2
      /\ m[2][3] = 2*c2*c3 + 2*c4*c1 /\ m[3][2] = 2*c2*c3 - 2*c4*c1
  <2>1. c \in Quaternion
    BY Closed
  <2> QED BY <2>1, <1>3, StretchedIs
<1>5. LET u == Stretched(a)
      IN  /\ u[1][1] = a4*a4 + a1*a1 - a2*a2 - a3*a3
          /\ u[2][2] = a4*a4 - a1*a1 + a2*a2 - a3*a3
          /\ u[3][3] = a4*a4 - a1*a1 - a2*a2 + a3*a3
          /\ u[1][2] = 2*a1*a2 + 2*a4*a3 /\ u[2][1] = 2*a1*a2 - 2*a4*a3
          /\ u[1][3] = 2*a1*a3 - 2*a4*a2 /\ u[3][1] = 2*a1*a3 + 2*a4*a2
          /\ u[2][3] = 2*a2*a3 + 2*a4*a1 /\ u[3][2] = 2*a2*a3 - 2*a4*a1
  BY <1>1, StretchedIs
<1>6. LET v == Stretched(b)
      IN  /\ v[1][1] = b4*b4 + b1*b1 - b2*b2 - b3*b3
          /\ v[2][2] = b4*b4 - b1*b1 + b2*b2 - b3*b3
          /\ v[3][3] = b4*b4 - b1*b1 - b2*b2 + b3*b3
          /\ v[1][2] = 2*b1*b2 + 2*b4*b3 /\ v[2][1] = 2*b1*b2 - 2*b4*b3
          /\ v[1][3] = 2*b1*b3 - 2*b4*b2 /\ v[3][1] = 2*b1*b3 + 2*b4*b2
          /\ v[2][3] = 2*b2*b3 + 2*b4*b1 /\ v[3][2] = 2*b2*b3 - 2*b4*b1
  BY <1>2, StretchedIs
<1>7. ASSUME NEW i \in Three, NEW j \in Three
      PROVE  n[i][j] = Stretched(b)[i][1] * Stretched(a)[1][j] + Stretched(b)[i][2] * Stretched(a)[2][j]
                         + Stretched(b)[i][3] * Stretched(a)[3][j]
  BY ProductIs
<1> HIDE DEF c, m, n
<1>11. m[1][1] = n[1][1]
  BY <1>3, <1>4, <1>5, <1>6, <1>7 DEF Three
<1>12. m[1][2] = n[1][2]
  BY <1>3, <1>4, <1>5, <1>6, <1>7 DEF Three
<1>13. m[1][3] = n[1][3]
  BY <1>3, <1>4, <1>5, <1>6, <1>7 DEF Three
<1>21. m[2][1] = n[2][1]
  BY <1>3, <1>4, <1>5, <1>6, <1>7 DEF Three
<1>22. m[2][2] = n[2][2]
  BY <1>3, <1>4, <1>5, <1>6, <1>7 DEF Three
<1>23. m[2][3] = n[2][3]
  BY <1>3, <1>4, <1>5, <1>6, <1>7 DEF Three
<1>31. m[3][1] = n[3][1]
  BY <1>3, <1>4, <1>5, <1>6, <1>7 DEF Three
<1>32. m[3][2] = n[3][2]
  BY <1>3, <1>4, <1>5, <1>6, <1>7 DEF Three
<1>33. m[3][3] = n[3][3]
  BY <1>3, <1>4, <1>5, <1>6, <1>7 DEF Three
<1> QED BY <1>11, <1>12, <1>13, <1>21, <1>22, <1>23, <1>31, <1>32, <1>33, Entries DEF c, m, n

\* The matrix of a quaternion is a rotation: its product with its transpose is
\* the identity, stretched twice by the squared length.
THEOREM MatrixRotates ==
  ASSUME NEW h \in Quaternion
  PROVE  Same3(MatMul(Stretched(h), MatTrans(Stretched(h))), Scalar(norm2(h) * norm2(h)))
<1> DEFINE m == Stretched(h)
           n == MatMul(m, MatTrans(m))
           d == Scalar(norm2(h) * norm2(h))
<1>1. PICK q1 \in Int, q2 \in Int, q3 \in Int, q4 \in Int : h = <<q1, q2, q3, q4>>
  BY DEF Quaternion
<1>2. norm2(h) = q1*q1 + q2*q2 + q3*q3 + q4*q4
  BY <1>1 DEF norm2
<1>3. /\ m[1][1] = q4*q4 + q1*q1 - q2*q2 - q3*q3
      /\ m[2][2] = q4*q4 - q1*q1 + q2*q2 - q3*q3
      /\ m[3][3] = q4*q4 - q1*q1 - q2*q2 + q3*q3
      /\ m[1][2] = 2*q1*q2 + 2*q4*q3 /\ m[2][1] = 2*q1*q2 - 2*q4*q3
      /\ m[1][3] = 2*q1*q3 - 2*q4*q2 /\ m[3][1] = 2*q1*q3 + 2*q4*q2
      /\ m[2][3] = 2*q2*q3 + 2*q4*q1 /\ m[3][2] = 2*q2*q3 - 2*q4*q1
  BY <1>1, StretchedIs
<1>4. ASSUME NEW i \in Three, NEW j \in Three
      PROVE  n[i][j] = m[i][1] * m[j][1] + m[i][2] * m[j][2] + m[i][3] * m[j][3]
  BY ProductIs DEF Three
<1>5. /\ d[1][1] = norm2(h)*norm2(h) /\ d[2][2] = norm2(h)*norm2(h) /\ d[3][3] = norm2(h)*norm2(h)
      /\ d[1][2] = 0 /\ d[1][3] = 0 /\ d[2][1] = 0 /\ d[2][3] = 0 /\ d[3][1] = 0 /\ d[3][2] = 0
  BY DEF Scalar
<1> HIDE DEF m, n, d
<1>6. n[1][1] = d[1][1] /\ n[2][2] = d[2][2] /\ n[3][3] = d[3][3]
  BY <1>2, <1>3, <1>4, <1>5 DEF Three
<1>7. n[1][2] = d[1][2] /\ n[1][3] = d[1][3] /\ n[2][3] = d[2][3]
  BY <1>2, <1>3, <1>4, <1>5 DEF Three
<1>8. n[2][1] = d[2][1] /\ n[3][1] = d[3][1] /\ n[3][2] = d[3][2]
  BY <1>2, <1>3, <1>4, <1>5 DEF Three
<1> QED BY <1>6, <1>7, <1>8, Entries DEF m, n, d

-----------------------------------------------------------------------------
(* Euler angles *)

LEMMA HalfAngles ==
  ASSUME NEW k \in Int
  PROVE  cos2(k) \in Int /\ sin2(k) \in Int
BY AngleAssumption DEF cos2, sin2

\* Whatever the tables of sines and cosines hold, cases 7 to 12 of
\* cQuaternion::e2q are products of three turns initQuat makes, about three
\* axes in the order of each case.
THEOREM ThreeAxes ==
  ASSUME NEW r \in Int, NEW p \in Int, NEW y \in Int
  PROVE  LET turn(i, k) == initQuat(<< <<1, 0, 0>>, <<0, 1, 0>>, <<0, 0, 1>> >>[i], k)
             after(i, j, k) == Mult(Mult(turn(i, r), turn(j, p)), turn(k, y))
         IN  /\ e2qOf(7, r, p, y) = after(1, 2, 3)
             /\ e2qOf(8, r, p, y) = after(2, 3, 1)
             /\ e2qOf(9, r, p, y) = after(3, 1, 2)
             /\ e2qOf(10, r, p, y) = after(1, 3, 2)
             /\ e2qOf(11, r, p, y) = after(2, 1, 3)
             /\ e2qOf(12, r, p, y) = after(3, 2, 1)
<1> DEFINE turn(i, k) == initQuat(<< <<1, 0, 0>>, <<0, 1, 0>>, <<0, 0, 1>> >>[i], k)
<1>1. \A k \in Int : /\ turn(1, k) = <<sin2(k), 0, 0, cos2(k)>>
                     /\ turn(2, k) = <<0, sin2(k), 0, cos2(k)>>
                     /\ turn(3, k) = <<0, 0, sin2(k), cos2(k)>>
  BY HalfAngles DEF initQuat
<1>2. PICK cr \in Int, sr \in Int, cp \in Int, sp \in Int, cy \in Int, sy \in Int :
        /\ cr = cos2(r) /\ sr = sin2(r) /\ cp = cos2(p) /\ sp = sin2(p)
        /\ cy = cos2(y) /\ sy = sin2(y)
  BY HalfAngles
<1>3. e2qOf(7, r, p, y) = Mult(Mult(turn(1, r), turn(2, p)), turn(3, y))
  BY <1>1, <1>2 DEF e2qOf, VectorPart, RealPart, Cyclic, Mult
<1>4. e2qOf(8, r, p, y) = Mult(Mult(turn(2, r), turn(3, p)), turn(1, y))
  BY <1>1, <1>2 DEF e2qOf, VectorPart, RealPart, Cyclic, Mult
<1>5. e2qOf(9, r, p, y) = Mult(Mult(turn(3, r), turn(1, p)), turn(2, y))
  BY <1>1, <1>2 DEF e2qOf, VectorPart, RealPart, Cyclic, Mult
<1>6. e2qOf(10, r, p, y) = Mult(Mult(turn(1, r), turn(3, p)), turn(2, y))
  BY <1>1, <1>2 DEF e2qOf, VectorPart, RealPart, Opposite, Mult
<1>7. e2qOf(11, r, p, y) = Mult(Mult(turn(2, r), turn(1, p)), turn(3, y))
  BY <1>1, <1>2 DEF e2qOf, VectorPart, RealPart, Opposite, Mult
<1>8. e2qOf(12, r, p, y) = Mult(Mult(turn(3, r), turn(2, p)), turn(1, y))
  BY <1>1, <1>2 DEF e2qOf, VectorPart, RealPart, Opposite, Mult
<1> QED BY <1>3, <1>4, <1>5, <1>6, <1>7, <1>8

\* The quaternion the navigation makes of roll, pitch and yaw turns by yaw, by
\* pitch and then by roll, and has the length of its sines and cosines.
THEOREM YawPitchRoll ==
  ASSUME NEW r \in Int, NEW p \in Int, NEW y \in Int
  PROVE  /\ e2q(r, p, y) = e2qOf(12, y, p, r)
         /\ norm2(e2q(r, p, y)) =
              (cos2(r)*cos2(r) + sin2(r)*sin2(r)) * (cos2(p)*cos2(p) + sin2(p)*sin2(p))
                * (cos2(y)*cos2(y) + sin2(y)*sin2(y))
<1>1. PICK cr \in Int, sr \in Int, cp \in Int, sp \in Int, cy \in Int, sy \in Int :
        /\ cr = cos2(r) /\ sr = sin2(r) /\ cp = cos2(p) /\ sp = sin2(p)
        /\ cy = cos2(y) /\ sy = sin2(y)
  BY HalfAngles
<1>2. e2q(r, p, y) = e2qOf(12, y, p, r)
  BY <1>1 DEF e2q, e2qOf, VectorPart, RealPart, Opposite
<1>3. norm2(e2q(r, p, y)) = (cr*cr + sr*sr) * (cp*cp + sp*sp) * (cy*cy + sy*sy)
  <2>1. e2q(r, p, y) = <<cy*cp*sr - sy*sp*cr, cy*sp*cr + sy*cp*sr, sy*cp*cr - cy*sp*sr,
                         cy*cp*cr + sy*sp*sr>>
    BY <1>1 DEF e2q
  <2> QED BY <2>1 DEF norm2
<1> QED BY <1>1, <1>2, <1>3

-----------------------------------------------------------------------------
(* Numbers modulo Prime.                                                   *)

Cong(x, y) == (x - y) % Prime = 0

LEMMA DivModPrime ==
  ASSUME NEW a \in Int
  PROVE  /\ a % Prime = a - Prime * (a \div Prime)
         /\ a \div Prime \in Int /\ a % Prime \in 0..(Prime - 1) /\ a % Prime \in Int
<1>1. Prime \in Int /\ Prime > 0
  BY RecordAssumption
<1> DEFINE n == Prime
<1> HIDE DEF n
<1>2. n \in Int /\ n > 0 => /\ a % n = a - n * (a \div n)
                            /\ a \div n \in Int /\ a % n \in 0..(n - 1) /\ a % n \in Int
  OBVIOUS
<1> QED BY <1>1, <1>2 DEF n

LEMMA MultipleOf ==
  ASSUME NEW n \in Int, n > 0, NEW k \in Int
  PROVE  (n * k) % n = 0
OBVIOUS

LEMMA CongIs ==
  ASSUME NEW x \in Int, NEW y \in Int
  PROVE  Cong(x, y) <=> \E k \in Int : x = y + Prime * k
<1>1. Prime \in Int /\ Prime > 0
  BY RecordAssumption
<1>2. ASSUME Cong(x, y) PROVE \E k \in Int : x = y + Prime * k
  <2> DEFINE k == (x - y) \div Prime
  <2>1. (x - y) % Prime = (x - y) - Prime * k /\ k \in Int
    BY DivModPrime
  <2> HIDE DEF k
  <2>2. x = y + Prime * k
    BY <1>1, <1>2, <2>1 DEF Cong
  <2> QED BY <2>1, <2>2
<1>3. ASSUME NEW k \in Int, x = y + Prime * k PROVE Cong(x, y)
  <2>1. x - y = Prime * k
    BY <1>1, <1>3
  <2> QED BY <1>1, <2>1, MultipleOf DEF Cong
<1> QED BY <1>2, <1>3

LEMMA CongEqual ==
  /\ \A x \in Int : Cong(x, x) /\ x % Prime \in Int /\ Cong(x % Prime, x) /\ Cong(x, x % Prime)
  /\ \A x, y \in Int : Cong(x, y) => Cong(y, x) /\ x % Prime = y % Prime
  /\ \A x, y, z \in Int : Cong(x, y) /\ Cong(y, z) => Cong(x, z)
<1>0. Prime \in Int /\ Prime > 0
  BY RecordAssumption
<1>1. ASSUME NEW x \in Int PROVE Cong(x, x) /\ x % Prime \in Int /\ Cong(x % Prime, x)
  <2>1. x = x + Prime * 0
    BY <1>0
  <2>2. x % Prime \in Int /\ x % Prime = x - Prime * (x \div Prime) /\ x \div Prime \in Int
    BY DivModPrime
  <2> DEFINE r == x % Prime  k == x \div Prime
  <2> HIDE DEF r, k
  <2>3. r \in Int /\ k \in Int /\ r = x - Prime * k => r = x + Prime * (0 - k) /\ 0 - k \in Int
    BY <1>0
  <2>4. r \in Int /\ 0 - k \in Int /\ r = x + Prime * (0 - k)
    BY <2>2, <2>3 DEF r, k
  <2>5. Cong(r, x)
    BY <2>4, CongIs
  <2>6. Cong(x, x)
    BY <2>1, CongIs
  <2> QED BY <2>2, <2>5, <2>6 DEF r
<1>2. ASSUME NEW x \in Int, NEW y \in Int, Cong(x, y) PROVE Cong(y, x)
  <2>1. PICK k \in Int : x = y + Prime * k
    BY <1>2, CongIs
  <2>2. y = x + Prime * (0 - k) /\ 0 - k \in Int
    BY <1>0, <2>1
  <2> QED BY <2>2, CongIs
<1>3. ASSUME NEW x \in Int, NEW y \in Int, NEW z \in Int, Cong(x, y), Cong(y, z) PROVE Cong(x, z)
  <2>1. PICK k \in Int : x = y + Prime * k
    BY <1>3, CongIs
  <2>2. PICK l \in Int : y = z + Prime * l
    BY <1>3, CongIs
  <2>3. x = z + Prime * (k + l) /\ k + l \in Int
    BY <1>0, <2>1, <2>2
  <2> QED BY <2>3, CongIs
<1>4. ASSUME NEW x \in Int, NEW y \in Int, Cong(x, y) PROVE x % Prime = y % Prime
  <2> DEFINE r == x % Prime  s0 == y % Prime
  <2>1. r \in Int /\ s0 \in Int /\ r \in 0..(Prime - 1) /\ s0 \in 0..(Prime - 1)
    BY DivModPrime
  <2>2. Cong(r, x) /\ Cong(x, s0)
    BY <1>1, <1>2, <1>4, <1>3, <2>1
  <2>3. Cong(r, s0)
    BY <1>3, <2>1, <2>2
  <2> HIDE DEF r, s0
  <2>4. PICK k \in Int : r = s0 + Prime * k
    BY <2>1, <2>3, CongIs
  <2>5. r - s0 = Prime * k /\ r - s0 < Prime /\ r - s0 > 0 - Prime
    BY <1>0, <2>1, <2>4
  <2>6. k >= 1 => Prime * k >= Prime
    BY <1>0
  <2>7. k <= 0 - 1 => Prime * k <= 0 - Prime
    BY <1>0
  <2>8. k = 0
    BY <1>0, <2>5, <2>6, <2>7
  <2> QED BY <1>0, <2>1, <2>4, <2>8 DEF r, s0
<1> QED BY <1>1, <1>2, <1>3, <1>4

LEMMA CongSum ==
  ASSUME NEW x \in Int, NEW u \in Int, NEW y \in Int, NEW v \in Int, Cong(x, u), Cong(y, v)
  PROVE  Cong(x + y, u + v) /\ Cong(x - y, u - v) /\ Cong(x * y, u * v) /\ Cong(-x, -u)
<1>0. Prime \in Int /\ Prime > 0
  BY RecordAssumption
<1>1. PICK k \in Int : x = u + Prime * k
  BY CongIs
<1>2. PICK l \in Int : y = v + Prime * l
  BY CongIs
<1>3. x + y = (u + v) + Prime * (k + l) /\ k + l \in Int /\ x + y \in Int /\ u + v \in Int
  BY <1>0, <1>1, <1>2
<1>4. x - y = (u - v) + Prime * (k - l) /\ k - l \in Int /\ x - y \in Int /\ u - v \in Int
  BY <1>0, <1>1, <1>2
<1>5. -x = -u + Prime * (0 - k) /\ 0 - k \in Int /\ -x \in Int /\ -u \in Int
  BY <1>0, <1>1
<1>6. /\ x * y = u * v + Prime * (u * l + v * k + Prime * k * l)
      /\ u * l + v * k + Prime * k * l \in Int /\ x * y \in Int /\ u * v \in Int
  BY <1>0, <1>1, <1>2
<1> QED BY <1>3, <1>4, <1>5, <1>6, CongIs

LEMMA RemainderIs ==
  ASSUME NEW n \in Int, n > 0, NEW x \in Int, NEW y \in Int, NEW k \in Int, x = y + n * k
  PROVE  x % n = y % n
<1> DEFINE r == y % n  w == y \div n
<1>1. r = y - n * w /\ w \in Int /\ r \in 0..(n - 1)
  OBVIOUS
<1> HIDE DEF r, w
<1>2. x = n * (w + k) + r /\ w + k \in Int
  BY <1>1
<1> DEFINE m == w + k
<1> HIDE DEF m
<1>3. \A a \in 0..(n - 1), b \in Int : (n * b + a) % n = a
  OBVIOUS
<1>4. (n * m + r) % n = r
  BY <1>1, <1>2, <1>3 DEF m
<1> QED BY <1>2, <1>4 DEF m, r

LEMMA RemainderOfSum ==
  ASSUME NEW n \in Int, n > 0, NEW j \in Int, NEW k \in Int
  PROVE  ((j % n) + (k % n)) % n = (j + k) % n /\ j % n \in 0..(n - 1)
<1> DEFINE a == j % n  v == j \div n  b == k % n  w == k \div n
<1>1. a = j - n * v /\ v \in Int /\ a \in 0..(n - 1)
  OBVIOUS
<1>2. b = k - n * w /\ w \in Int /\ b \in 0..(n - 1)
  OBVIOUS
<1> HIDE DEF a, v, b, w
<1>3. a + b = (j + k) + n * (0 - (v + w)) /\ 0 - (v + w) \in Int /\ a + b \in Int /\ j + k \in Int
  BY <1>1, <1>2
<1> DEFINE x == a + b  y == j + k  u == 0 - (v + w)
<1>4. x \in Int /\ y \in Int /\ u \in Int /\ x = y + n * u
  BY <1>3
<1> HIDE DEF x, y, u
<1>5. x % n = y % n
  BY <1>4, RemainderIs
<1>6. (a + b) % n = (j + k) % n
  BY <1>5 DEF x, y
<1> QED BY <1>1, <1>6 DEF a, b

-----------------------------------------------------------------------------
(* Sines and cosines.                                                      *)

LEMMA TurnIs == Turn \in Int /\ Turn > 0 /\ 2 * Turn \in Int /\ 2 * Turn > 0
BY AngleAssumption

LEMMA AddAngles ==
  ASSUME NEW j \in Int, NEW k \in Int
  PROVE  /\ Cong(cos2(j + k), cos2(j) * cos2(k) - sin2(j) * sin2(k))
         /\ Cong(sin2(j + k), sin2(j) * cos2(k) + cos2(j) * sin2(k))
<1> DEFINE n == 2 * Turn  a == j % n  b == k % n
<1>1. a \in HalfSteps /\ b \in HalfSteps /\ (a + b) % n = (j + k) % n
  BY TurnIs, RemainderOfSum DEF HalfSteps
<1> HIDE DEF a, b
<1>2. /\ (Cosine[(a + b) % n] - (Cosine[a] * Cosine[b] - Sine[a] * Sine[b])) % Prime = 0
      /\ (Sine[(a + b) % n] - (Sine[a] * Cosine[b] + Cosine[a] * Sine[b])) % Prime = 0
  BY <1>1, CircleAssumption
<1> QED BY <1>1, <1>2 DEF Cong, cos2, sin2, a, b

LEMMA Circle ==
  ASSUME NEW k \in Int
  PROVE  Cong(cos2(k) * cos2(k) + sin2(k) * sin2(k), 1)
<1> DEFINE n == 2 * Turn  a == k % n
<1>1. a \in HalfSteps
  BY TurnIs, RemainderOfSum DEF HalfSteps
<1> HIDE DEF a
<1>2. (Cosine[a] * Cosine[a] + Sine[a] * Sine[a] - 1) % Prime = 0
  BY <1>1, CircleAssumption
<1> DEFINE c == Cosine[a]  d == Sine[a]
<1>3. cos2(k) = c /\ sin2(k) = d
  BY DEF cos2, sin2, a
<1>4. c \in Int /\ d \in Int
  BY <1>3, HalfAngles
<1>5. (c * c + d * d - 1) % Prime = 0
  BY <1>2
<1> HIDE DEF c, d
<1>6. Cong(c * c + d * d, 1)
  BY <1>4, <1>5 DEF Cong
<1> QED BY <1>3, <1>6

LEMMA ZeroAngle == /\ Cong(cos2(0), 1) /\ Cong(sin2(0), 0)
                   /\ cos2(0) \in Int /\ sin2(0) \in Int
<1>1. 0 % (2 * Turn) = 0
  BY TurnIs
<1>2. cos2(0) = Cosine[0] /\ sin2(0) = Sine[0]
  BY <1>1 DEF cos2, sin2
<1>3. cos2(0) \in Int /\ sin2(0) \in Int
  BY HalfAngles
<1>4. cos2(0) % Prime = 1 % Prime /\ sin2(0) % Prime = 0
  BY <1>2, CircleAssumption
<1>5. Cong(cos2(0), cos2(0) % Prime) /\ Cong(sin2(0), sin2(0) % Prime) /\ Cong(1 % Prime, 1)
      /\ 1 % Prime \in Int
  BY <1>3, CongEqual
<1>6. Cong(cos2(0), 1)
  BY <1>3, <1>4, <1>5, CongEqual
<1> QED BY <1>3, <1>4, <1>5, <1>6

LEMMA MinusAngle ==
  ASSUME NEW k \in Int
  PROVE  Cong(cos2(-k), cos2(k)) /\ Cong(sin2(-k), -sin2(k))
<1> DEFINE c == cos2(k)  d == sin2(k)  C == cos2(-k)  D == sin2(-k)
           x == C * c - D * d  y == D * c + C * d  w == c * c + d * d
<1>1. c \in Int /\ d \in Int /\ C \in Int /\ D \in Int
  BY HalfAngles
<1>2. Cong(cos2(0), x) /\ Cong(sin2(0), y)
  <2>1. -k + k = 0
    OBVIOUS
  <2> QED BY <2>1, AddAngles
<1>3. Cong(w, 1)
  BY Circle
<1> HIDE DEF c, d, C, D
<1>4. x \in Int /\ y \in Int /\ w \in Int
  BY <1>1
<1>5. c * x + d * y = C * w /\ c * y - d * x = D * w
  BY <1>1
<1> HIDE DEF x, y, w
<1>6. Cong(x, 1) /\ Cong(y, 0)
  BY <1>2, <1>4, ZeroAngle, CongEqual
<1>7. PICK i \in Int, j \in Int, l \in Int : x = 1 + Prime * i /\ y = 0 + Prime * j /\ w = 1 + Prime * l
  BY <1>3, <1>4, <1>6, CongIs
<1> DEFINE P == Prime
<1>8. P \in Int
  BY RecordAssumption
<1> HIDE DEF P
<1>9. c * (1 + P * i) + d * (0 + P * j) = C * (1 + P * l) /\ c * (0 + P * j) - d * (1 + P * i) = D * (1 + P * l)
  BY <1>5, <1>7 DEF P
<1>10. C = c + P * (c * i + d * j - C * l) /\ D = -d + P * (c * j - d * i - D * l)
  BY <1>1, <1>7, <1>8, <1>9
<1>11. c * i + d * j - C * l \in Int /\ c * j - d * i - D * l \in Int /\ -d \in Int
  BY <1>1, <1>7
<1>12. Cong(C, c) /\ Cong(D, -d)
  BY <1>1, <1>10, <1>11, CongIs DEF P
<1> QED BY <1>12 DEF c, d, C, D

LEMMA SubAngles ==
  ASSUME NEW j \in Int, NEW k \in Int
  PROVE  /\ Cong(cos2(j - k), cos2(j) * cos2(k) + sin2(j) * sin2(k))
         /\ Cong(sin2(j - k), sin2(j) * cos2(k) - cos2(j) * sin2(k))
<1> DEFINE a == cos2(j)  b == sin2(j)  c == cos2(k)  d == sin2(k)  C == cos2(-k)  D == sin2(-k)
<1>1. -k \in Int /\ j + -k = j - k
  OBVIOUS
<1>2. a \in Int /\ b \in Int /\ c \in Int /\ d \in Int /\ C \in Int /\ D \in Int
      /\ cos2(j - k) \in Int /\ sin2(j - k) \in Int
  BY <1>1, HalfAngles
<1>3. Cong(cos2(j - k), a * C - b * D) /\ Cong(sin2(j - k), b * C + a * D)
  BY <1>1, AddAngles
<1>4. Cong(C, c) /\ Cong(D, -d)
  BY MinusAngle
<1> HIDE DEF a, b, c, d, C, D
<1>5. Cong(a * C, a * c) /\ Cong(b * D, b * (-d)) /\ Cong(b * C, b * c) /\ Cong(a * D, a * (-d))
  <2>1. -d \in Int
    BY <1>2
  <2> QED BY <1>2, <1>4, <2>1, CongSum, CongEqual
<1>6. /\ a * C \in Int /\ a * c \in Int /\ b * D \in Int /\ b * (-d) \in Int
      /\ b * C \in Int /\ b * c \in Int /\ a * D \in Int /\ a * (-d) \in Int
      /\ a * c - b * (-d) = a * c + b * d /\ b * c + a * (-d) = b * c - a * d
      /\ a * C - b * D \in Int /\ b * C + a * D \in Int
      /\ a * c + b * d \in Int /\ b * c - a * d \in Int
  BY <1>2
<1>7. Cong(a * C - b * D, a * c - b * (-d)) /\ Cong(b * C + a * D, b * c + a * (-d))
  BY <1>5, <1>6, CongSum
<1>8. Cong(cos2(j - k), a * c + b * d) /\ Cong(sin2(j - k), b * c - a * d)
  BY <1>2, <1>3, <1>6, <1>7, CongEqual
<1> QED BY <1>8 DEF a, b, c, d

\* A full angle is two half ones.
LEMMA FullIs ==
  ASSUME NEW k \in Int
  PROVE  /\ cos(k) = cos2(2 * k) /\ sin(k) = sin2(2 * k) /\ cos(k) \in Int /\ sin(k) \in Int
         /\ Cong(cos(k), cos2(k) * cos2(k) - sin2(k) * sin2(k))
         /\ Cong(sin(k), 2 * (sin2(k) * cos2(k)))
         /\ Cong(cos(k) * cos(k) + sin(k) * sin(k), 1)
<1>1. cos(k) = cos2(2 * k) /\ sin(k) = sin2(2 * k)
  BY DEF cos, sin, cos2, sin2
<1>2. 2 * k \in Int /\ 2 * k = k + k
  OBVIOUS
<1>3. cos(k) \in Int /\ sin(k) \in Int
  BY <1>1, <1>2, HalfAngles
<1>4. Cong(cos(k), cos2(k) * cos2(k) - sin2(k) * sin2(k))
  BY <1>1, <1>2, AddAngles
<1>5. Cong(sin(k), 2 * (sin2(k) * cos2(k)))
  <2>1. sin2(k) * cos2(k) + cos2(k) * sin2(k) = 2 * (sin2(k) * cos2(k))
    <3> DEFINE a == sin2(k)  b == cos2(k)
    <3>1. a \in Int /\ b \in Int
      BY HalfAngles
    <3> HIDE DEF a, b
    <3>2. a * b + b * a = 2 * (a * b)
      BY <3>1
    <3> QED BY <3>2 DEF a, b
  <2> QED BY <1>1, <1>2, <2>1, AddAngles
<1>6. Cong(cos(k) * cos(k) + sin(k) * sin(k), 1)
  BY <1>1, <1>2, Circle
<1> QED BY <1>1, <1>3, <1>4, <1>5, <1>6

LEMMA FullTurn ==
  ASSUME NEW j \in Int, NEW k \in Int, (j - k) % Turn = 0
  PROVE  cos(j) = cos(k) /\ sin(j) = sin(k)
<1> DEFINE w == (j - k) \div Turn  n == Turn
<1>0. n \in Int /\ n > 0
  BY TurnIs
<1>1. j - k = n * w /\ w \in Int
  <2> HIDE DEF n
  <2>1. \A x \in Int : x % n = 0 => x = n * (x \div n) /\ x \div n \in Int
    BY <1>0
  <2>2. j - k \in Int /\ (j - k) % n = 0
    BY DEF n
  <2> QED BY <2>1, <2>2 DEF n
<1> HIDE DEF w
<1>2. 2 * j = 2 * k + (2 * n) * w /\ 2 * n \in Int /\ 2 * n > 0 /\ 2 * j \in Int /\ 2 * k \in Int
  <2> HIDE DEF n
  <2> QED BY <1>0, <1>1
<1>3. (2 * j) % (2 * n) = (2 * k) % (2 * n)
  <2> DEFINE m == 2 * n  x == 2 * j  y == 2 * k
  <2> HIDE DEF m, x, y
  <2>1. x = y + m * w /\ m \in Int /\ m > 0 /\ x \in Int /\ y \in Int
    BY <1>2 DEF m, x, y
  <2>2. x % m = y % m
    BY <1>1, <2>1, RemainderIs
  <2> QED BY <2>2 DEF m, x, y
<1> QED BY <1>3 DEF cos, sin

-----------------------------------------------------------------------------
(* Quaternions modulo Prime.                                               *)

\* A product of two numbers modulo Prime, the rest a multiple of Prime.
LEMMA ProductRest ==
  ASSUME NEW x \in Int, NEW y \in Int, NEW u \in Int, NEW v \in Int, Cong(x, u), Cong(y, v)
  PROVE  \E k \in Int : x*y = u*v + Prime*k
<1>1. Cong(x*y, u*v)
  BY CongSum
<1>2. x*y \in Int /\ u*v \in Int
  OBVIOUS
<1> DEFINE p == x*y  r == u*v
<1> HIDE DEF p, r
<1>3. p \in Int /\ r \in Int /\ Cong(p, r)
  BY <1>1, <1>2 DEF p, r
<1>4. \E k \in Int : p = r + Prime*k
  BY <1>3, CongIs
<1> QED BY <1>4 DEF p, r

LEMMA Parts ==
  ASSUME NEW a \in Quaternion
  PROVE  /\ a[1] \in Int /\ a[2] \in Int /\ a[3] \in Int /\ a[4] \in Int
         /\ a = <<a[1], a[2], a[3], a[4]>> /\ DOMAIN a = 1..4
BY DEF Quaternion

LEMMA SameIs ==
  ASSUME NEW a \in Quaternion, NEW b \in Quaternion
  PROVE  Same(a, b) <=> /\ Cong(a[1], b[1]) /\ Cong(a[2], b[2])
                        /\ Cong(a[3], b[3]) /\ Cong(a[4], b[4])
<1>1. \A i : i \in DOMAIN a <=> i \in {1, 2, 3, 4}
  BY Parts
<1> QED BY <1>1 DEF Same, Cong

LEMMA SameEqual ==
  /\ \A a \in Quaternion : Same(a, a) /\ Mod(a) \in Quaternion /\ Same(Mod(a), a)
  /\ \A a, b \in Quaternion : Same(a, b) => Same(b, a) /\ Mod(a) = Mod(b)
  /\ \A a, b, c \in Quaternion : Same(a, b) /\ Same(b, c) => Same(a, c)
<1>1. ASSUME NEW a \in Quaternion PROVE Same(a, a) /\ Mod(a) \in Quaternion /\ Same(Mod(a), a)
  <2>1. /\ a[1] % Prime \in Int /\ a[2] % Prime \in Int /\ a[3] % Prime \in Int /\ a[4] % Prime \in Int
        /\ Cong(a[1] % Prime, a[1]) /\ Cong(a[2] % Prime, a[2])
        /\ Cong(a[3] % Prime, a[3]) /\ Cong(a[4] % Prime, a[4])
        /\ Cong(a[1], a[1]) /\ Cong(a[2], a[2]) /\ Cong(a[3], a[3]) /\ Cong(a[4], a[4])
    BY Parts, CongEqual
  <2>2. Mod(a) = <<a[1] % Prime, a[2] % Prime, a[3] % Prime, a[4] % Prime>>
    BY DEF Mod
  <2> DEFINE r1 == a[1] % Prime  r2 == a[2] % Prime  r3 == a[3] % Prime  r4 == a[4] % Prime
             b == Mod(a)
  <2> HIDE DEF r1, r2, r3, r4
  <2>3. b = <<r1, r2, r3, r4>>
    BY <2>2 DEF r1, r2, r3, r4
  <2>4. b \in Quaternion /\ b[1] = r1 /\ b[2] = r2 /\ b[3] = r3 /\ b[4] = r4
    BY <2>1, <2>3 DEF Quaternion, r1, r2, r3, r4
  <2> HIDE DEF b
  <2>5. Same(b, a)
    BY <2>1, <2>4, SameIs DEF r1, r2, r3, r4
  <2>6. Same(a, a)
    BY <2>1, SameIs
  <2> QED BY <2>4, <2>5, <2>6 DEF b
<1>2. ASSUME NEW a \in Quaternion, NEW b \in Quaternion, Same(a, b) PROVE Same(b, a) /\ Mod(a) = Mod(b)
  <2>1. Cong(a[1], b[1]) /\ Cong(a[2], b[2]) /\ Cong(a[3], b[3]) /\ Cong(a[4], b[4])
    BY <1>2, SameIs
  <2>2. /\ a[1] % Prime = b[1] % Prime /\ Cong(b[1], a[1])
        /\ a[2] % Prime = b[2] % Prime /\ Cong(b[2], a[2])
        /\ a[3] % Prime = b[3] % Prime /\ Cong(b[3], a[3])
        /\ a[4] % Prime = b[4] % Prime /\ Cong(b[4], a[4])
    BY <2>1, Parts, CongEqual
  <2> QED BY <2>2, SameIs DEF Mod
<1>3. ASSUME NEW a \in Quaternion, NEW b \in Quaternion, NEW c \in Quaternion, Same(a, b), Same(b, c)
      PROVE  Same(a, c)
  <2>1. /\ Cong(a[1], b[1]) /\ Cong(a[2], b[2]) /\ Cong(a[3], b[3]) /\ Cong(a[4], b[4])
        /\ Cong(b[1], c[1]) /\ Cong(b[2], c[2]) /\ Cong(b[3], c[3]) /\ Cong(b[4], c[4])
    BY <1>3, SameIs
  <2>2. Cong(a[1], c[1]) /\ Cong(a[2], c[2]) /\ Cong(a[3], c[3]) /\ Cong(a[4], c[4])
    BY <2>1, Parts, CongEqual
  <2> QED BY <2>2, SameIs
<1> QED BY <1>1, <1>2, <1>3

LEMMA MultSame ==
  ASSUME NEW a \in Quaternion, NEW b \in Quaternion, NEW c \in Quaternion, NEW d \in Quaternion,
         Same(a, c), Same(b, d)
  PROVE  Same(Mult(a, b), Mult(c, d)) /\ Mult(a, b) \in Quaternion /\ Mult(c, d) \in Quaternion
<1>1. PICK a1 \in Int, a2 \in Int, a3 \in Int, a4 \in Int : a = <<a1, a2, a3, a4>>
  BY DEF Quaternion
<1>2. PICK b1 \in Int, b2 \in Int, b3 \in Int, b4 \in Int : b = <<b1, b2, b3, b4>>
  BY DEF Quaternion
<1>3. PICK c1 \in Int, c2 \in Int, c3 \in Int, c4 \in Int : c = <<c1, c2, c3, c4>>
  BY DEF Quaternion
<1>4. PICK d1 \in Int, d2 \in Int, d3 \in Int, d4 \in Int : d = <<d1, d2, d3, d4>>
  BY DEF Quaternion
<1>5. /\ Cong(a1, c1) /\ Cong(a2, c2) /\ Cong(a3, c3) /\ Cong(a4, c4)
      /\ Cong(b1, d1) /\ Cong(b2, d2) /\ Cong(b3, d3) /\ Cong(b4, d4)
  BY <1>1, <1>2, <1>3, <1>4, SameIs
<1> DEFINE m == Mult(a, b)  n == Mult(c, d)
<1>6. m \in Quaternion /\ n \in Quaternion
  BY Closed
<1>7. /\ m[1] =   a1*b4 + a2*b3 - a3*b2 + a4*b1
      /\ m[2] = -(a1*b3) + a2*b4 + a3*b1 + a4*b2
      /\ m[3] =   a1*b2 - a2*b1 + a3*b4 + a4*b3
      /\ m[4] = -(a1*b1) - a2*b2 - a3*b3 + a4*b4
  BY <1>1, <1>2 DEF Mult
<1>8. /\ n[1] =   c1*d4 + c2*d3 - c3*d2 + c4*d1
      /\ n[2] = -(c1*d3) + c2*d4 + c3*d1 + c4*d2
      /\ n[3] =   c1*d2 - c2*d1 + c3*d4 + c4*d3
      /\ n[4] = -(c1*d1) - c2*d2 - c3*d3 + c4*d4
  BY <1>3, <1>4 DEF Mult
<1> HIDE DEF m, n
<1> DEFINE P == Prime
<1>9. P \in Int
  BY RecordAssumption
<1> HIDE DEF P
<1>11. Cong(m[1], n[1])
  <2>1. PICK k1 \in Int : a1*b4 = c1*d4 + P*k1
    BY <1>5, ProductRest DEF P
  <2>2. PICK k2 \in Int : a2*b3 = c2*d3 + P*k2
    BY <1>5, ProductRest DEF P
  <2>3. PICK k3 \in Int : a3*b2 = c3*d2 + P*k3
    BY <1>5, ProductRest DEF P
  <2>4. PICK k4 \in Int : a4*b1 = c4*d1 + P*k4
    BY <1>5, ProductRest DEF P
  <2>5. m[1] = n[1] + P*(k1 + k2 - k3 + k4)
    BY <1>7, <1>8, <1>9, <2>1, <2>2, <2>3, <2>4
  <2>6. m[1] \in Int /\ n[1] \in Int /\ k1 + k2 - k3 + k4 \in Int
    BY <1>6, Parts
  <2> QED BY <2>5, <2>6, CongIs DEF P
<1>12. Cong(m[2], n[2])
  <2>1. PICK k1 \in Int : a1*b3 = c1*d3 + P*k1
    BY <1>5, ProductRest DEF P
  <2>2. PICK k2 \in Int : a2*b4 = c2*d4 + P*k2
    BY <1>5, ProductRest DEF P
  <2>3. PICK k3 \in Int : a3*b1 = c3*d1 + P*k3
    BY <1>5, ProductRest DEF P
  <2>4. PICK k4 \in Int : a4*b2 = c4*d2 + P*k4
    BY <1>5, ProductRest DEF P
  <2>5. m[2] = n[2] + P*(-k1 + k2 + k3 + k4)
    BY <1>7, <1>8, <1>9, <2>1, <2>2, <2>3, <2>4
  <2>6. m[2] \in Int /\ n[2] \in Int /\ -k1 + k2 + k3 + k4 \in Int
    BY <1>6, Parts
  <2> QED BY <2>5, <2>6, CongIs DEF P
<1>13. Cong(m[3], n[3])
  <2>1. PICK k1 \in Int : a1*b2 = c1*d2 + P*k1
    BY <1>5, ProductRest DEF P
  <2>2. PICK k2 \in Int : a2*b1 = c2*d1 + P*k2
    BY <1>5, ProductRest DEF P
  <2>3. PICK k3 \in Int : a3*b4 = c3*d4 + P*k3
    BY <1>5, ProductRest DEF P
  <2>4. PICK k4 \in Int : a4*b3 = c4*d3 + P*k4
    BY <1>5, ProductRest DEF P
  <2>5. m[3] = n[3] + P*(k1 - k2 + k3 + k4)
    BY <1>7, <1>8, <1>9, <2>1, <2>2, <2>3, <2>4
  <2>6. m[3] \in Int /\ n[3] \in Int /\ k1 - k2 + k3 + k4 \in Int
    BY <1>6, Parts
  <2> QED BY <2>5, <2>6, CongIs DEF P
<1>14. Cong(m[4], n[4])
  <2>1. PICK k1 \in Int : a1*b1 = c1*d1 + P*k1
    BY <1>5, ProductRest DEF P
  <2>2. PICK k2 \in Int : a2*b2 = c2*d2 + P*k2
    BY <1>5, ProductRest DEF P
  <2>3. PICK k3 \in Int : a3*b3 = c3*d3 + P*k3
    BY <1>5, ProductRest DEF P
  <2>4. PICK k4 \in Int : a4*b4 = c4*d4 + P*k4
    BY <1>5, ProductRest DEF P
  <2>5. m[4] = n[4] + P*(-k1 - k2 - k3 + k4)
    BY <1>7, <1>8, <1>9, <2>1, <2>2, <2>3, <2>4
  <2>6. m[4] \in Int /\ n[4] \in Int /\ -k1 - k2 - k3 + k4 \in Int
    BY <1>6, Parts
  <2> QED BY <2>5, <2>6, CongIs DEF P
<1> QED BY <1>6, <1>11, <1>12, <1>13, <1>14, SameIs DEF m, n

\* A turn of k steps about one of the three axes.
Turned(i, k) == << <<sin2(k), 0, 0, cos2(k)>>, <<0, sin2(k), 0, cos2(k)>>, <<0, 0, sin2(k), cos2(k)>> >>[i]

LEMMA TurnedIs ==
  ASSUME NEW k \in Int
  PROVE  /\ Turned(1, k) = <<sin2(k), 0, 0, cos2(k)>>
         /\ Turned(2, k) = <<0, sin2(k), 0, cos2(k)>>
         /\ Turned(3, k) = <<0, 0, sin2(k), cos2(k)>>
         /\ \A i \in Three : /\ initQuat(Axis(i), k) = Turned(i, k)
                             /\ Turned(i, k) \in Quaternion
                             /\ About(i, k) \in Quaternion /\ Same(About(i, k), Turned(i, k))
<1>1. /\ Turned(1, k) = <<sin2(k), 0, 0, cos2(k)>>
      /\ Turned(2, k) = <<0, sin2(k), 0, cos2(k)>>
      /\ Turned(3, k) = <<0, 0, sin2(k), cos2(k)>>
  BY DEF Turned
<1>2. cos2(k) \in Int /\ sin2(k) \in Int
  BY HalfAngles
<1>3. ASSUME NEW i \in Three
      PROVE  initQuat(Axis(i), k) = Turned(i, k) /\ Turned(i, k) \in Quaternion
  <2>1. CASE i = 1
    BY <1>1, <1>2, <2>1 DEF initQuat, Axis, Quaternion
  <2>2. CASE i = 2
    BY <1>1, <1>2, <2>2 DEF initQuat, Axis, Quaternion
  <2>3. CASE i = 3
    BY <1>1, <1>2, <2>3 DEF initQuat, Axis, Quaternion
  <2> QED BY <2>1, <2>2, <2>3 DEF Three
<1>4. ASSUME NEW i \in Three
      PROVE  About(i, k) \in Quaternion /\ Same(About(i, k), Turned(i, k))
  BY <1>3, SameEqual DEF About
<1> QED BY <1>1, <1>3, <1>4

\* Three turns, each taken modulo Prime, are the product of the three.
LEMMA ThreeTurns ==
  ASSUME NEW i \in Three, NEW j \in Three, NEW k \in Three, NEW r \in Int, NEW p \in Int, NEW y \in Int
  PROVE  LET m == Mult(Mod(Mult(About(i, r), About(j, p))), About(k, y))
             n == Mult(Mult(Turned(i, r), Turned(j, p)), Turned(k, y))
         IN  m \in Quaternion /\ n \in Quaternion /\ Same(n, m)
<1>1. /\ About(i, r) \in Quaternion /\ Turned(i, r) \in Quaternion /\ Same(About(i, r), Turned(i, r))
      /\ About(j, p) \in Quaternion /\ Turned(j, p) \in Quaternion /\ Same(About(j, p), Turned(j, p))
      /\ About(k, y) \in Quaternion /\ Turned(k, y) \in Quaternion /\ Same(About(k, y), Turned(k, y))
  BY TurnedIs
<1> DEFINE a == Mult(About(i, r), About(j, p))  b == Mult(Turned(i, r), Turned(j, p))
<1>2. a \in Quaternion /\ b \in Quaternion /\ Same(a, b)
  BY <1>1, MultSame
<1> HIDE DEF a, b
<1>3. Mod(a) \in Quaternion /\ Same(Mod(a), b)
  BY <1>2, SameEqual
<1>4. LET m == Mult(Mod(a), About(k, y))
          n == Mult(b, Turned(k, y))
      IN  m \in Quaternion /\ n \in Quaternion /\ Same(m, n)
  BY <1>1, <1>2, <1>3, MultSame
<1> QED BY <1>4, SameEqual DEF a, b

-----------------------------------------------------------------------------
(* Twelve orders of three turns.                                           *)

After3(i, j, k, r, p, y) == Mult(Mult(Turned(i, r), Turned(j, p)), Turned(k, y))

\* Cases 1 to 6, where the first and the last angle belong to one axis and the
\* code adds and subtracts them: this takes the laws of addition.
LEMMA OneAxisTwice ==
  ASSUME NEW r \in Int, NEW p \in Int, NEW y \in Int
  PROVE  \A flag \in 1..6 : /\ e2qOf(flag, r, p, y) \in Quaternion
                            /\ Same(e2qOf(flag, r, p, y),
                                    After3(Order[flag][1], Order[flag][2], Order[flag][3], r, p, y))
<1>1. PICK cr \in Int, sr \in Int, cp \in Int, sp \in Int, cy \in Int, sy \in Int :
        /\ cr = cos2(r) /\ sr = sin2(r) /\ cp = cos2(p) /\ sp = sin2(p)
        /\ cy = cos2(y) /\ sy = sin2(y)
  BY HalfAngles
<1>2. r + y \in Int /\ r - y \in Int
  OBVIOUS
<1>3. PICK C \in Int, S \in Int, D \in Int, T \in Int :
        C = cos2(r + y) /\ S = sin2(r + y) /\ D = cos2(r - y) /\ T = sin2(r - y)
  BY <1>2, HalfAngles
<1> DEFINE c == cr*cy - sr*sy  s1 == sr*cy + cr*sy  d == cr*cy + sr*sy  t == sr*cy - cr*sy
<1>4. Cong(C, c) /\ Cong(S, s1)
  BY <1>1, <1>3, AddAngles
<1>5. Cong(D, d) /\ Cong(T, t)
  BY <1>1, <1>3, SubAngles
<1>6. c \in Int /\ s1 \in Int /\ d \in Int /\ t \in Int
  OBVIOUS
<1> DEFINE A1 == cp*S  A2 == sp*D  A3 == sp*T  A4 == cp*C
           B1 == cp*s1  B2 == sp*d  B3 == sp*t  B4 == cp*c
<1>7. Cong(cp, cp) /\ Cong(sp, sp)
  BY CongEqual
<1>8. Cong(A1, B1)
  <2> HIDE DEF s1
  <2> QED BY <1>4, <1>6, <1>7, CongSum
<1>9. Cong(A2, B2)
  <2> HIDE DEF d
  <2> QED BY <1>5, <1>6, <1>7, CongSum
<1>10. Cong(A3, B3)
  <2> HIDE DEF t
  <2> QED BY <1>5, <1>6, <1>7, CongSum
<1>11. Cong(A4, B4)
  <2> HIDE DEF c
  <2> QED BY <1>4, <1>6, <1>7, CongSum
<1>12. /\ A1 \in Int /\ A2 \in Int /\ A3 \in Int /\ A4 \in Int
       /\ B1 \in Int /\ B2 \in Int /\ B3 \in Int /\ B4 \in Int
  BY <1>6
<1>13. /\ Turned(1, r) = <<sr, 0, 0, cr>> /\ Turned(2, r) = <<0, sr, 0, cr>> /\ Turned(3, r) = <<0, 0, sr, cr>>
       /\ Turned(1, p) = <<sp, 0, 0, cp>> /\ Turned(2, p) = <<0, sp, 0, cp>> /\ Turned(3, p) = <<0, 0, sp, cp>>
       /\ Turned(1, y) = <<sy, 0, 0, cy>> /\ Turned(2, y) = <<0, sy, 0, cy>> /\ Turned(3, y) = <<0, 0, sy, cy>>
  BY <1>1, TurnedIs
<1>21. e2qOf(1, r, p, y) = <<A1, A2, A3, A4>>
  BY <1>1, <1>3 DEF e2qOf, VectorPart, RealPart, Proper
<1>31. After3(1, 2, 1, r, p, y) = <<B1, B2, B3, B4>>
  <2>1. Mult(Turned(1, r), Turned(2, p)) = <<sr*cp, cr*sp, sr*sp, cr*cp>>
    BY <1>13 DEF Mult
  <2>2. Mult(<<sr*cp, cr*sp, sr*sp, cr*cp>>, <<sy, 0, 0, cy>>) =
          <<sr*cp*cy + cr*cp*sy, cr*sp*cy + sr*sp*sy, -(cr*sp*sy) + sr*sp*cy, -(sr*cp*sy) + cr*cp*cy>>
    BY DEF Mult
  <2>3. /\ sr*cp*cy + cr*cp*sy = B1 /\ cr*sp*cy + sr*sp*sy = B2
        /\ -(cr*sp*sy) + sr*sp*cy = B3 /\ -(sr*cp*sy) + cr*cp*cy = B4
    OBVIOUS
  <2> QED BY <2>1, <2>2, <2>3, <1>13 DEF After3
<1>22. e2qOf(2, r, p, y) = <<A3, A1, A2, A4>>
  BY <1>1, <1>3 DEF e2qOf, VectorPart, RealPart, Proper
<1>32. After3(2, 3, 2, r, p, y) = <<B3, B1, B2, B4>>
  <2>1. Mult(Turned(2, r), Turned(3, p)) = <<sr*sp, sr*cp, cr*sp, cr*cp>>
    BY <1>13 DEF Mult
  <2>2. Mult(<<sr*sp, sr*cp, cr*sp, cr*cp>>, <<0, sy, 0, cy>>) =
          <<sr*sp*cy - cr*sp*sy, sr*cp*cy + cr*cp*sy, sr*sp*sy + cr*sp*cy, -(sr*cp*sy) + cr*cp*cy>>
    BY DEF Mult
  <2>3. /\ sr*sp*cy - cr*sp*sy = B3 /\ sr*cp*cy + cr*cp*sy = B1
        /\ sr*sp*sy + cr*sp*cy = B2 /\ -(sr*cp*sy) + cr*cp*cy = B4
    OBVIOUS
  <2> QED BY <2>1, <2>2, <2>3, <1>13 DEF After3
<1>23. e2qOf(3, r, p, y) = <<A2, A3, A1, A4>>
  BY <1>1, <1>3 DEF e2qOf, VectorPart, RealPart, Proper
<1>33. After3(3, 1, 3, r, p, y) = <<B2, B3, B1, B4>>
  <2>1. Mult(Turned(3, r), Turned(1, p)) = <<cr*sp, sr*sp, sr*cp, cr*cp>>
    BY <1>13 DEF Mult
  <2>2. Mult(<<cr*sp, sr*sp, sr*cp, cr*cp>>, <<0, 0, sy, cy>>) =
          <<cr*sp*cy + sr*sp*sy, -(cr*sp*sy) + sr*sp*cy, sr*cp*cy + cr*cp*sy, -(sr*cp*sy) + cr*cp*cy>>
    BY DEF Mult
  <2>3. /\ cr*sp*cy + sr*sp*sy = B2 /\ -(cr*sp*sy) + sr*sp*cy = B3
        /\ sr*cp*cy + cr*cp*sy = B1 /\ -(sr*cp*sy) + cr*cp*cy = B4
    OBVIOUS
  <2> QED BY <2>1, <2>2, <2>3, <1>13 DEF After3
<1>24. e2qOf(4, r, p, y) = <<A1, -A3, A2, A4>>
  BY <1>1, <1>3 DEF e2qOf, VectorPart, RealPart, Proper
<1>34. After3(1, 3, 1, r, p, y) = <<B1, -B3, B2, B4>>
  <2>1. Mult(Turned(1, r), Turned(3, p)) = <<sr*cp, -(sr*sp), cr*sp, cr*cp>>
    BY <1>13 DEF Mult
  <2>2. Mult(<<sr*cp, -(sr*sp), cr*sp, cr*cp>>, <<sy, 0, 0, cy>>) =
          <<sr*cp*cy + cr*cp*sy, -(sr*sp*cy) + cr*sp*sy, sr*sp*sy + cr*sp*cy, -(sr*cp*sy) + cr*cp*cy>>
    BY DEF Mult
  <2>3. /\ sr*cp*cy + cr*cp*sy = B1 /\ -(sr*sp*cy) + cr*sp*sy = -B3
        /\ sr*sp*sy + cr*sp*cy = B2 /\ -(sr*cp*sy) + cr*cp*cy = B4
    OBVIOUS
  <2> QED BY <2>1, <2>2, <2>3, <1>13 DEF After3
<1>25. e2qOf(5, r, p, y) = <<A2, A1, -A3, A4>>
  BY <1>1, <1>3 DEF e2qOf, VectorPart, RealPart, Proper
<1>35. After3(2, 1, 2, r, p, y) = <<B2, B1, -B3, B4>>
  <2>1. Mult(Turned(2, r), Turned(1, p)) = <<cr*sp, sr*cp, -(sr*sp), cr*cp>>
    BY <1>13 DEF Mult
  <2>2. Mult(<<cr*sp, sr*cp, -(sr*sp), cr*cp>>, <<0, sy, 0, cy>>) =
          <<cr*sp*cy + sr*sp*sy, cr*cp*sy + sr*cp*cy, cr*sp*sy - sr*sp*cy, -(sr*cp*sy) + cr*cp*cy>>
    BY DEF Mult
  <2>3. /\ cr*sp*cy + sr*sp*sy = B2 /\ cr*cp*sy + sr*cp*cy = B1
        /\ cr*sp*sy - sr*sp*cy = -B3 /\ -(sr*cp*sy) + cr*cp*cy = B4
    OBVIOUS
  <2> QED BY <2>1, <2>2, <2>3, <1>13 DEF After3
<1>26. e2qOf(6, r, p, y) = <<-A3, A2, A1, A4>>
  BY <1>1, <1>3 DEF e2qOf, VectorPart, RealPart, Proper
<1>36. After3(3, 2, 3, r, p, y) = <<-B3, B2, B1, B4>>
  <2>1. Mult(Turned(3, r), Turned(2, p)) = <<-(sr*sp), cr*sp, sr*cp, cr*cp>>
    BY <1>13 DEF Mult
  <2>2. Mult(<<-(sr*sp), cr*sp, sr*cp, cr*cp>>, <<0, 0, sy, cy>>) =
          <<-(sr*sp*cy) + cr*sp*sy, sr*sp*sy + cr*sp*cy, sr*cp*cy + cr*cp*sy, -(sr*cp*sy) + cr*cp*cy>>
    BY DEF Mult
  <2>3. /\ -(sr*sp*cy) + cr*sp*sy = -B3 /\ sr*sp*sy + cr*sp*cy = B2
        /\ sr*cp*cy + cr*cp*sy = B1 /\ -(sr*cp*sy) + cr*cp*cy = B4
    OBVIOUS
  <2> QED BY <2>1, <2>2, <2>3, <1>13 DEF After3
<1> HIDE DEF A1, A2, A3, A4, B1, B2, B3, B4
<1>40. Cong(-A3, -B3) /\ -A3 \in Int /\ -B3 \in Int
  BY <1>10, <1>12, CongSum
<1>41. <<A1, A2, A3, A4>> \in Quaternion /\ Same(<<A1, A2, A3, A4>>, <<B1, B2, B3, B4>>)
  <2>1. <<A1, A2, A3, A4>> \in Quaternion /\ <<B1, B2, B3, B4>> \in Quaternion
    BY <1>12, <1>40 DEF Quaternion
  <2> QED BY <2>1, <1>8, <1>9, <1>10, <1>11, <1>40, SameIs
<1>42. <<A3, A1, A2, A4>> \in Quaternion /\ Same(<<A3, A1, A2, A4>>, <<B3, B1, B2, B4>>)
  <2>1. <<A3, A1, A2, A4>> \in Quaternion /\ <<B3, B1, B2, B4>> \in Quaternion
    BY <1>12, <1>40 DEF Quaternion
  <2> QED BY <2>1, <1>8, <1>9, <1>10, <1>11, <1>40, SameIs
<1>43. <<A2, A3, A1, A4>> \in Quaternion /\ Same(<<A2, A3, A1, A4>>, <<B2, B3, B1, B4>>)
  <2>1. <<A2, A3, A1, A4>> \in Quaternion /\ <<B2, B3, B1, B4>> \in Quaternion
    BY <1>12, <1>40 DEF Quaternion
  <2> QED BY <2>1, <1>8, <1>9, <1>10, <1>11, <1>40, SameIs
<1>44. <<A1, -A3, A2, A4>> \in Quaternion /\ Same(<<A1, -A3, A2, A4>>, <<B1, -B3, B2, B4>>)
  <2>1. <<A1, -A3, A2, A4>> \in Quaternion /\ <<B1, -B3, B2, B4>> \in Quaternion
    BY <1>12, <1>40 DEF Quaternion
  <2> QED BY <2>1, <1>8, <1>9, <1>10, <1>11, <1>40, SameIs
<1>45. <<A2, A1, -A3, A4>> \in Quaternion /\ Same(<<A2, A1, -A3, A4>>, <<B2, B1, -B3, B4>>)
  <2>1. <<A2, A1, -A3, A4>> \in Quaternion /\ <<B2, B1, -B3, B4>> \in Quaternion
    BY <1>12, <1>40 DEF Quaternion
  <2> QED BY <2>1, <1>8, <1>9, <1>10, <1>11, <1>40, SameIs
<1>46. <<-A3, A2, A1, A4>> \in Quaternion /\ Same(<<-A3, A2, A1, A4>>, <<-B3, B2, B1, B4>>)
  <2>1. <<-A3, A2, A1, A4>> \in Quaternion /\ <<-B3, B2, B1, B4>> \in Quaternion
    BY <1>12, <1>40 DEF Quaternion
  <2> QED BY <2>1, <1>8, <1>9, <1>10, <1>11, <1>40, SameIs
<1> SUFFICES ASSUME NEW flag \in 1..6
             PROVE  /\ e2qOf(flag, r, p, y) \in Quaternion
                    /\ Same(e2qOf(flag, r, p, y),
                            After3(Order[flag][1], Order[flag][2], Order[flag][3], r, p, y))
  OBVIOUS
<1>51. CASE flag = 1
  <2>1. Order[flag][1] = 1 /\ Order[flag][2] = 2 /\ Order[flag][3] = 1
    BY <1>51 DEF Order
  <2> QED BY <2>1, <1>51, <1>21, <1>31, <1>41
<1>52. CASE flag = 2
  <2>1. Order[flag][1] = 2 /\ Order[flag][2] = 3 /\ Order[flag][3] = 2
    BY <1>52 DEF Order
  <2> QED BY <2>1, <1>52, <1>22, <1>32, <1>42
<1>53. CASE flag = 3
  <2>1. Order[flag][1] = 3 /\ Order[flag][2] = 1 /\ Order[flag][3] = 3
    BY <1>53 DEF Order
  <2> QED BY <2>1, <1>53, <1>23, <1>33, <1>43
<1>54. CASE flag = 4
  <2>1. Order[flag][1] = 1 /\ Order[flag][2] = 3 /\ Order[flag][3] = 1
    BY <1>54 DEF Order
  <2> QED BY <2>1, <1>54, <1>24, <1>34, <1>44
<1>55. CASE flag = 5
  <2>1. Order[flag][1] = 2 /\ Order[flag][2] = 1 /\ Order[flag][3] = 2
    BY <1>55 DEF Order
  <2> QED BY <2>1, <1>55, <1>25, <1>35, <1>45
<1>56. CASE flag = 6
  <2>1. Order[flag][1] = 3 /\ Order[flag][2] = 2 /\ Order[flag][3] = 3
    BY <1>56 DEF Order
  <2> QED BY <2>1, <1>56, <1>26, <1>36, <1>46
<1> QED BY <1>51, <1>52, <1>53, <1>54, <1>55, <1>56

-----------------------------------------------------------------------------
(* ElementaryTurns.                                                        *)

LEMMA TwelveOrders ==
  ASSUME NEW flag \in 1..12, NEW r \in Int, NEW p \in Int, NEW y \in Int
  PROVE  /\ e2qOf(flag, r, p, y) \in Quaternion
         /\ Same(e2qOf(flag, r, p, y),
                 Mult(Mod(Mult(About(Order[flag][1], r), About(Order[flag][2], p))),
                      About(Order[flag][3], y)))
<1> DEFINE i == Order[flag][1]  j == Order[flag][2]  k == Order[flag][3]
<1>1. i \in Three /\ j \in Three /\ k \in Three
  BY DEF Order, Three
<1>2. e2qOf(flag, r, p, y) \in Quaternion /\ Same(e2qOf(flag, r, p, y), After3(i, j, k, r, p, y))
  <2>1. CASE flag \in 1..6
    BY <2>1, OneAxisTwice
  <2>2. CASE flag \in 7..12
    <3>1. \A l \in Three, n \in Int :
            initQuat(<< <<1, 0, 0>>, <<0, 1, 0>>, <<0, 0, 1>> >>[l], n) = Turned(l, n)
      BY TurnedIs DEF Axis
    <3>2. 1 \in Three /\ 2 \in Three /\ 3 \in Three
      BY DEF Three
    <3>3. /\ e2qOf(7, r, p, y) = After3(1, 2, 3, r, p, y)
          /\ e2qOf(8, r, p, y) = After3(2, 3, 1, r, p, y)
          /\ e2qOf(9, r, p, y) = After3(3, 1, 2, r, p, y)
          /\ e2qOf(10, r, p, y) = After3(1, 3, 2, r, p, y)
          /\ e2qOf(11, r, p, y) = After3(2, 1, 3, r, p, y)
          /\ e2qOf(12, r, p, y) = After3(3, 2, 1, r, p, y)
      BY <3>1, <3>2, ThreeAxes DEF After3
    <3>4. \/ flag = 7 /\ i = 1 /\ j = 2 /\ k = 3
          \/ flag = 8 /\ i = 2 /\ j = 3 /\ k = 1
          \/ flag = 9 /\ i = 3 /\ j = 1 /\ k = 2
          \/ flag = 10 /\ i = 1 /\ j = 3 /\ k = 2
          \/ flag = 11 /\ i = 2 /\ j = 1 /\ k = 3
          \/ flag = 12 /\ i = 3 /\ j = 2 /\ k = 1
      <4>1. flag \in {7, 8, 9, 10, 11, 12}
        BY <2>2
      <4> QED BY <4>1 DEF Order
    <3> HIDE DEF i, j, k
    <3>5. e2qOf(flag, r, p, y) = After3(i, j, k, r, p, y)
      BY <3>3, <3>4
    <3>6. After3(i, j, k, r, p, y) \in Quaternion
      <4>1. Turned(i, r) \in Quaternion /\ Turned(j, p) \in Quaternion /\ Turned(k, y) \in Quaternion
        BY <1>1, TurnedIs DEF i, j, k
      <4>2. Mult(Turned(i, r), Turned(j, p)) \in Quaternion
        BY <4>1, Closed
      <4> QED BY <4>1, <4>2, Closed DEF After3
    <3> QED BY <3>5, <3>6, SameEqual DEF i, j, k
  <2> QED BY <2>1, <2>2
<1> DEFINE m == Mult(Mod(Mult(About(i, r), About(j, p))), About(k, y))
<1> HIDE DEF i, j, k
<1>3. m \in Quaternion /\ After3(i, j, k, r, p, y) \in Quaternion /\ Same(After3(i, j, k, r, p, y), m)
  <2>1. m \in Quaternion /\ Same(After3(i, j, k, r, p, y), m)
    BY <1>1, ThreeTurns DEF After3
  <2>2. Turned(i, r) \in Quaternion /\ Turned(j, p) \in Quaternion /\ Turned(k, y) \in Quaternion
    BY <1>1, TurnedIs
  <2>3. Mult(Turned(i, r), Turned(j, p)) \in Quaternion
    BY <2>2, Closed
  <2> QED BY <2>1, <2>2, <2>3, Closed DEF After3
<1>4. Same(e2qOf(flag, r, p, y), m)
  BY <1>2, <1>3, SameEqual
<1> QED BY <1>2, <1>4 DEF i, j, k

\* What slerp adds up, with the sine or the cosine of its ends.
LEMMA Blend ==
  ASSUME NEW r \in Int, NEW p \in Int, NEW y \in Int
  PROVE  /\ Cong(sin2(r) * sin2(p - y) + sin2(r + p) * sin2(y), sin2(r + y) * sin2(p))
         /\ Cong(cos2(r) * sin2(p - y) + cos2(r + p) * sin2(y), cos2(r + y) * sin2(p))
<1> DEFINE n == Prime
<1>0. n \in Int
  BY RecordAssumption
<1>1. PICK cr \in Int, sr \in Int, cp \in Int, sp \in Int, cy \in Int, sy \in Int :
        /\ cr = cos2(r) /\ sr = sin2(r) /\ cp = cos2(p) /\ sp = sin2(p)
        /\ cy = cos2(y) /\ sy = sin2(y)
  BY HalfAngles
<1>2. r + y \in Int /\ r + p \in Int /\ p - y \in Int
  OBVIOUS
<1>3. PICK D \in Int, S1 \in Int, C1 \in Int, S2 \in Int, C2 \in Int :
        /\ D = sin2(p - y) /\ S1 = sin2(r + p) /\ C1 = cos2(r + p)
        /\ S2 = sin2(r + y) /\ C2 = cos2(r + y)
  BY <1>2, HalfAngles
<1> HIDE DEF n
<1>4. PICK a \in Int : D = (sp*cy - cp*sy) + n*a
  <2>0. Cong(sin2(p - y), sin2(p) * cos2(y) - cos2(p) * sin2(y))
    BY SubAngles
  <2>1. Cong(D, sp*cy - cp*sy) /\ sp*cy - cp*sy \in Int
    BY <1>1, <1>3, <2>0
  <2> QED BY <2>1, CongIs DEF n
<1>5. PICK b \in Int : S1 = (sr*cp + cr*sp) + n*b
  <2>0. Cong(sin2(r + p), sin2(r) * cos2(p) + cos2(r) * sin2(p))
    BY AddAngles
  <2>1. Cong(S1, sr*cp + cr*sp) /\ sr*cp + cr*sp \in Int
    BY <1>1, <1>3, <2>0
  <2> QED BY <2>1, CongIs DEF n
<1>6. PICK c \in Int : C1 = (cr*cp - sr*sp) + n*c
  <2>0. Cong(cos2(r + p), cos2(r) * cos2(p) - sin2(r) * sin2(p))
    BY AddAngles
  <2>1. Cong(C1, cr*cp - sr*sp) /\ cr*cp - sr*sp \in Int
    BY <1>1, <1>3, <2>0
  <2> QED BY <2>1, CongIs DEF n
<1>7. PICK d \in Int : S2 = (sr*cy + cr*sy) + n*d
  <2>0. Cong(sin2(r + y), sin2(r) * cos2(y) + cos2(r) * sin2(y))
    BY AddAngles
  <2>1. Cong(S2, sr*cy + cr*sy) /\ sr*cy + cr*sy \in Int
    BY <1>1, <1>3, <2>0
  <2> QED BY <2>1, CongIs DEF n
<1>8. PICK e \in Int : C2 = (cr*cy - sr*sy) + n*e
  <2>0. Cong(cos2(r + y), cos2(r) * cos2(y) - sin2(r) * sin2(y))
    BY AddAngles
  <2>1. Cong(C2, cr*cy - sr*sy) /\ cr*cy - sr*sy \in Int
    BY <1>1, <1>3, <2>0
  <2> QED BY <2>1, CongIs DEF n
<1>9. sr*D + S1*sy = S2*sp + n*(sr*a + b*sy - d*sp)
  BY <1>0, <1>4, <1>5, <1>7
<1>10. cr*D + C1*sy = C2*sp + n*(cr*a + c*sy - e*sp)
  BY <1>0, <1>4, <1>6, <1>8
<1>11. Cong(sr*D + S1*sy, S2*sp)
  <2> DEFINE x == sr*D + S1*sy  z == S2*sp  k == sr*a + b*sy - d*sp
  <2>1. x \in Int /\ z \in Int /\ k \in Int
    OBVIOUS
  <2>2. x = z + n*k
    BY <1>9
  <2> HIDE DEF x, z, k
  <2>3. Cong(x, z)
    BY <2>1, <2>2, CongIs DEF n
  <2> QED BY <2>3 DEF x, z
<1>12. Cong(cr*D + C1*sy, C2*sp)
  <2> DEFINE x == cr*D + C1*sy  z == C2*sp  k == cr*a + c*sy - e*sp
  <2>1. x \in Int /\ z \in Int /\ k \in Int
    OBVIOUS
  <2>2. x = z + n*k
    BY <1>10
  <2> HIDE DEF x, z, k
  <2>3. Cong(x, z)
    BY <2>1, <2>2, CongIs DEF n
  <2> QED BY <2>3 DEF x, z
<1> QED BY <1>1, <1>3, <1>11, <1>12

\* The elements of a turn about an axis are its sine, its cosine and zeros.
LEMMA TurnedParts ==
  ASSUME NEW i \in Three, NEW j \in 1..4
  PROVE  \/ \A k \in Int : Turned(i, k)[j] = 0
         \/ \A k \in Int : Turned(i, k)[j] = sin2(k)
         \/ \A k \in Int : Turned(i, k)[j] = cos2(k)
<1>1. \A k \in Int : /\ Turned(1, k) = <<sin2(k), 0, 0, cos2(k)>>
                     /\ Turned(2, k) = <<0, sin2(k), 0, cos2(k)>>
                     /\ Turned(3, k) = <<0, 0, sin2(k), cos2(k)>>
  BY TurnedIs
<1>2. i \in {1, 2, 3} /\ j \in {1, 2, 3, 4}
  BY DEF Three
<1>3. CASE j = 4
  BY <1>1, <1>2, <1>3
<1>4. CASE i = j
  BY <1>1, <1>2, <1>4
<1>5. CASE i # j /\ j # 4
  BY <1>1, <1>2, <1>5
<1> QED BY <1>3, <1>4, <1>5

LEMMA SlerpTurns ==
  ASSUME NEW i \in Three, NEW r \in Int, NEW p \in Int, NEW y \in Int
  PROVE  Same(slerp(About(i, r), About(i, r + p), p, y), [j \in 1..4 |-> About(i, r + y)[j] * sin2(p)])
<1>1. r + y \in Int /\ r + p \in Int /\ p - y \in Int
  OBVIOUS
<1>2. /\ About(i, r) \in Quaternion /\ Turned(i, r) \in Quaternion /\ Same(About(i, r), Turned(i, r))
      /\ About(i, r + p) \in Quaternion /\ Turned(i, r + p) \in Quaternion
      /\ Same(About(i, r + p), Turned(i, r + p))
      /\ About(i, r + y) \in Quaternion /\ Turned(i, r + y) \in Quaternion
      /\ Same(About(i, r + y), Turned(i, r + y))
  BY <1>1, TurnedIs
<1>3. PICK D \in Int, sy \in Int, sp \in Int : D = sin2(p - y) /\ sy = sin2(y) /\ sp = sin2(p)
  BY <1>1, HalfAngles
<1>4. ASSUME NEW j \in 1..4
      PROVE  Cong(About(i, r)[j] * D + About(i, r + p)[j] * sy, About(i, r + y)[j] * sp)
  <2>0. j \in {1, 2, 3, 4}
    OBVIOUS
  <2> DEFINE x == About(i, r)[j]  a == Turned(i, r)[j]
             y1 == About(i, r + p)[j]  b == Turned(i, r + p)[j]
             z == About(i, r + y)[j]  c == Turned(i, r + y)[j]
  <2>1. /\ x \in Int /\ y1 \in Int /\ z \in Int /\ a \in Int /\ b \in Int /\ c \in Int
    BY <1>2, <2>0, Parts
  <2>2. Cong(x, a) /\ Cong(y1, b) /\ Cong(z, c)
    BY <1>2, <2>0, SameIs
  <2>3. Cong(a * D + b * sy, c * sp)
    <3>1. CASE a = 0 /\ b = 0 /\ c = 0
      <4>1. a * D + b * sy = 0 /\ c * sp = 0
        BY <3>1
      <4> QED BY <4>1, CongEqual
    <3>2. CASE a = sin2(r) /\ b = sin2(r + p) /\ c = sin2(r + y)
      BY <1>3, <3>2, Blend
    <3>3. CASE a = cos2(r) /\ b = cos2(r + p) /\ c = cos2(r + y)
      BY <1>3, <3>3, Blend
    <3> QED BY <1>1, <3>1, <3>2, <3>3, TurnedParts
  <2> HIDE DEF x, a, y1, b, z, c
  <2>4. Cong(D, D) /\ Cong(sy, sy) /\ Cong(sp, sp)
    BY CongEqual
  <2>5. Cong(x * D, a * D) /\ Cong(y1 * sy, b * sy) /\ Cong(z * sp, c * sp)
    BY <2>1, <2>2, <2>4, CongSum
  <2>6. x * D \in Int /\ a * D \in Int /\ y1 * sy \in Int /\ b * sy \in Int /\ z * sp \in Int /\ c * sp \in Int
    BY <2>1
  <2>7. Cong(x * D + y1 * sy, a * D + b * sy)
    BY <2>5, <2>6, CongSum
  <2>8. x * D + y1 * sy \in Int /\ a * D + b * sy \in Int
    BY <2>6
  <2>9. Cong(x * D + y1 * sy, c * sp) /\ Cong(c * sp, z * sp)
    BY <2>3, <2>5, <2>6, <2>7, <2>8, CongEqual
  <2>10. Cong(x * D + y1 * sy, z * sp)
    BY <2>6, <2>8, <2>9, CongEqual
  <2> QED BY <2>10 DEF x, y1, z
<1> QED BY <1>3, <1>4 DEF Same, Cong, slerp

LEMMA Elementary ==
  ASSUME NEW r \in Int, NEW p \in Int, NEW y \in Int
  PROVE  /\ e2q(r, p, y) \in Quaternion /\ Mod(e2q(r, p, y)) \in Quaternion
         /\ Same(e2q(r, p, y), e2qOf(12, y, p, r))
         /\ LET a == Mod(e2q(r, p, y))
            IN  Same(error(a, About(1, r)), Mult(conj(a), About(1, r)))
<1>1. e2q(r, p, y) = e2qOf(12, y, p, r)
  BY YawPitchRoll
<1>2. e2qOf(12, y, p, r) \in Quaternion
  BY TwelveOrders
<1>3. Mod(e2q(r, p, y)) \in Quaternion
  BY <1>1, <1>2, SameEqual
<1>4. About(1, r) \in Quaternion
  BY TurnedIs DEF Three
<1> DEFINE a == Mod(e2q(r, p, y))
<1> HIDE DEF a
<1>5. a \in Quaternion
  BY <1>3 DEF a
<1>6. error(a, About(1, r)) = Mult(conj(a), About(1, r))
  BY <1>4, <1>5, ErrorLeadsBack
<1>7. Mult(conj(a), About(1, r)) \in Quaternion
  BY <1>4, <1>5, Closed
<1> QED BY <1>1, <1>2, <1>3, <1>6, <1>7, SameEqual DEF a

LEMMA StepsInt == \A k \in Steps : k \in Int
BY TurnIs DEF Steps

\* Each of the twelve orders of cQuaternion::e2q is the product of the rotations
\* initQuat makes about the axes its comment names, e2q of the navigation is case
\* 12 with roll and yaw exchanged, error is the product with the inverse, and
\* slerp stays on the turn about one axis, for every circle and every angle.
THEOREM ElementaryTheorem == Spec => []ElementaryTurns
<1>1. ElementaryTurns
  <2> SUFFICES ASSUME NEW r \in Int, NEW p \in Int, NEW y \in Int
               PROVE  /\ \A flag \in 1..12 :
                           Same(e2qOf(flag, r, p, y),
                                Mult(Mod(Mult(About(Order[flag][1], r), About(Order[flag][2], p))),
                                     About(Order[flag][3], y)))
                      /\ Same(e2q(r, p, y), e2qOf(12, y, p, r))
                      /\ LET a == Mod(e2q(r, p, y))
                         IN  Same(error(a, About(1, r)), Mult(conj(a), About(1, r)))
                      /\ \A i \in Three :
                           Same(slerp(About(i, r), About(i, r + p), p, y),
                                [j \in 1..4 |-> About(i, r + y)[j] * sin2(p)])
    BY StepsInt DEF ElementaryTurns
  <2> QED BY TwelveOrders, Elementary, SlerpTurns
<1> QED BY <1>1, PTL

-----------------------------------------------------------------------------
(* Matrices modulo Prime.                                                  *)

IntM(m)     == \A i, j \in Three : m[i][j] \in Int
CongM(m, n) == \A i, j \in Three : Cong(m[i][j], n[i][j])
HasShape(m) == \A i \in Three : DOMAIN m[i] = Three

LEMMA CongEntries ==
  ASSUME NEW m, NEW n,
         Cong(m[1][1], n[1][1]), Cong(m[1][2], n[1][2]), Cong(m[1][3], n[1][3]),
         Cong(m[2][1], n[2][1]), Cong(m[2][2], n[2][2]), Cong(m[2][3], n[2][3]),
         Cong(m[3][1], n[3][1]), Cong(m[3][2], n[3][2]), Cong(m[3][3], n[3][3])
  PROVE  CongM(m, n)
BY DEF CongM, Three

LEMMA IntEntries ==
  ASSUME NEW m
  PROVE  IntM(m) <=> /\ m[1][1] \in Int /\ m[1][2] \in Int /\ m[1][3] \in Int
                     /\ m[2][1] \in Int /\ m[2][2] \in Int /\ m[2][3] \in Int
                     /\ m[3][1] \in Int /\ m[3][2] \in Int /\ m[3][3] \in Int
<1>1. \A i : i \in Three <=> i = 1 \/ i = 2 \/ i = 3
  BY DEF Three
<1> QED BY <1>1 DEF IntM

LEMMA CongMEqual ==
  /\ \A m, n : Same3(m, n) /\ IntM(n) => CongM(m, n) /\ IntM(m)
  /\ \A m, n : IntM(m) /\ IntM(n) /\ CongM(m, n) => CongM(n, m)
  /\ \A l, m, n : IntM(l) /\ IntM(m) /\ IntM(n) /\ CongM(l, m) /\ CongM(m, n) => CongM(l, n)
<1>1. ASSUME NEW m, NEW n, Same3(m, n), IntM(n) PROVE CongM(m, n) /\ IntM(m)
  BY <1>1, CongEqual DEF Same3, CongM, IntM
<1>2. ASSUME NEW m, NEW n, IntM(m), IntM(n), CongM(m, n) PROVE CongM(n, m)
  BY <1>2, CongEqual DEF CongM, IntM
<1>3. ASSUME NEW l, NEW m, NEW n, IntM(l), IntM(m), IntM(n), CongM(l, m), CongM(m, n) PROVE CongM(l, n)
  BY <1>3, CongEqual DEF CongM, IntM
<1> QED BY <1>1, <1>2, <1>3

LEMMA SameMatrixIs ==
  ASSUME NEW m, NEW n, HasShape(m), CongM(m, n)
  PROVE  SameMatrix(m, n)
BY DEF SameMatrix, Same, Cong, CongM, HasShape

LEMMA ModMIs ==
  ASSUME NEW m, IntM(m)
  PROVE  IntM(ModM(m)) /\ CongM(ModM(m), m) /\ HasShape(ModM(m))
<1> DEFINE n == ModM(m)
<1>1. /\ n[1] = <<m[1][1] % Prime, m[1][2] % Prime, m[1][3] % Prime>>
      /\ n[2] = <<m[2][1] % Prime, m[2][2] % Prime, m[2][3] % Prime>>
      /\ n[3] = <<m[3][1] % Prime, m[3][2] % Prime, m[3][3] % Prime>>
  BY DEF ModM, Mod3
<1> HIDE DEF n
<1>2. \A i \in Three : /\ n[i][1] = m[i][1] % Prime /\ n[i][2] = m[i][2] % Prime /\ n[i][3] = m[i][3] % Prime
                       /\ DOMAIN n[i] = Three
  BY <1>1 DEF Three
<1>3. \A i, j \in Three : n[i][j] = m[i][j] % Prime
  BY <1>2 DEF Three
<1>4. \A i, j \in Three : n[i][j] \in Int /\ Cong(n[i][j], m[i][j])
  BY <1>3, CongEqual DEF IntM
<1> QED BY <1>2, <1>4 DEF IntM, CongM, HasShape, n

LEMMA TransIs ==
  /\ \A m : IntM(m) => IntM(MatTrans(m))
  /\ \A m, n : CongM(m, n) => CongM(MatTrans(m), MatTrans(n))
  /\ \A m : HasShape(MatTrans(m)) /\ \A i, j \in Three : MatTrans(m)[i][j] = m[j][i]
BY DEF IntM, CongM, HasShape, MatTrans

LEMMA MatMulIs ==
  ASSUME NEW a, NEW b, IntM(a), IntM(b)
  PROVE  IntM(MatMul(a, b)) /\ HasShape(MatMul(a, b))
<1>1. ASSUME NEW i \in Three, NEW j \in Three PROVE MatMul(a, b)[i][j] \in Int
  <2>1. MatMul(a, b)[i][j] = a[i][1] * b[1][j] + a[i][2] * b[2][j] + a[i][3] * b[3][j]
    BY ProductIs
  <2>2. /\ a[i][1] \in Int /\ a[i][2] \in Int /\ a[i][3] \in Int
        /\ b[1][j] \in Int /\ b[2][j] \in Int /\ b[3][j] \in Int
    BY DEF IntM, Three
  <2> QED BY <2>1, <2>2
<1>2. HasShape(MatMul(a, b))
  BY DEF HasShape, MatMul
<1> QED BY <1>1, <1>2 DEF IntM

LEMMA MatMulCong ==
  ASSUME NEW a, NEW b, NEW c, NEW d, IntM(a), IntM(b), IntM(c), IntM(d), CongM(a, c), CongM(b, d)
  PROVE  CongM(MatMul(a, b), MatMul(c, d))
<1>1. ASSUME NEW i \in Three, NEW j \in Three
      PROVE  Cong(MatMul(a, b)[i][j], MatMul(c, d)[i][j])
  <2> DEFINE a1 == a[i][1]  a2 == a[i][2]  a3 == a[i][3]
             b1 == b[1][j]  b2 == b[2][j]  b3 == b[3][j]
             c1 == c[i][1]  c2 == c[i][2]  c3 == c[i][3]
             d1 == d[1][j]  d2 == d[2][j]  d3 == d[3][j]
             P  == Prime
  <2>1. /\ MatMul(a, b)[i][j] = a1 * b1 + a2 * b2 + a3 * b3
        /\ MatMul(c, d)[i][j] = c1 * d1 + c2 * d2 + c3 * d3
    BY ProductIs
  <2>2. /\ a1 \in Int /\ a2 \in Int /\ a3 \in Int /\ b1 \in Int /\ b2 \in Int /\ b3 \in Int
        /\ c1 \in Int /\ c2 \in Int /\ c3 \in Int /\ d1 \in Int /\ d2 \in Int /\ d3 \in Int
    BY DEF IntM, Three
  <2>3. /\ Cong(a1, c1) /\ Cong(a2, c2) /\ Cong(a3, c3)
        /\ Cong(b1, d1) /\ Cong(b2, d2) /\ Cong(b3, d3)
    BY DEF CongM, Three
  <2>4. P \in Int
    BY RecordAssumption
  <2> HIDE DEF a1, a2, a3, b1, b2, b3, c1, c2, c3, d1, d2, d3, P
  <2>5. PICK k1 \in Int : a1 * b1 = c1 * d1 + P * k1
    BY <2>2, <2>3, ProductRest DEF P
  <2>6. PICK k2 \in Int : a2 * b2 = c2 * d2 + P * k2
    BY <2>2, <2>3, ProductRest DEF P
  <2>7. PICK k3 \in Int : a3 * b3 = c3 * d3 + P * k3
    BY <2>2, <2>3, ProductRest DEF P
  <2> DEFINE x == a1 * b1 + a2 * b2 + a3 * b3  y == c1 * d1 + c2 * d2 + c3 * d3  k == k1 + k2 + k3
  <2>8. x = y + P * k /\ k \in Int
    BY <2>2, <2>4, <2>5, <2>6, <2>7
  <2>9. x \in Int /\ y \in Int
    BY <2>2
  <2> HIDE DEF x, y, k
  <2>10. Cong(x, y)
    BY <2>8, <2>9, CongIs DEF P
  <2> QED BY <2>1, <2>10 DEF x, y
<1> QED BY <1>1 DEF CongM

LEMMA IdentityIs ==
  /\ IntM(Identity)
  /\ Identity[1][1] = 1 /\ Identity[1][2] = 0 /\ Identity[1][3] = 0
  /\ Identity[2][1] = 0 /\ Identity[2][2] = 1 /\ Identity[2][3] = 0
  /\ Identity[3][1] = 0 /\ Identity[3][2] = 0 /\ Identity[3][3] = 1
<1>1. /\ Identity[1][1] = 1 /\ Identity[1][2] = 0 /\ Identity[1][3] = 0
      /\ Identity[2][1] = 0 /\ Identity[2][2] = 1 /\ Identity[2][3] = 0
      /\ Identity[3][1] = 0 /\ Identity[3][2] = 0 /\ Identity[3][3] = 1
  BY DEF Identity, Axis
<1> QED BY <1>1, IntEntries

\* A matrix that is a rotation modulo Prime is one when it is stored so.
LEMMA RotationStored ==
  ASSUME NEW m, NEW n, IntM(m), IntM(n), CongM(m, n), CongM(MatMul(n, MatTrans(n)), Identity)
  PROVE  Rotation(m)
<1>1. IntM(MatTrans(m)) /\ IntM(MatTrans(n)) /\ CongM(MatTrans(m), MatTrans(n))
  BY TransIs
<1>2. CongM(MatMul(m, MatTrans(m)), MatMul(n, MatTrans(n)))
  BY <1>1, MatMulCong
<1>3. IntM(MatMul(m, MatTrans(m))) /\ IntM(MatMul(n, MatTrans(n))) /\ HasShape(MatMul(m, MatTrans(m)))
  BY <1>1, MatMulIs
<1>4. CongM(MatMul(m, MatTrans(m)), Identity)
  BY <1>2, <1>3, IdentityIs, CongMEqual
<1> QED BY <1>3, <1>4, SameMatrixIs DEF Rotation

-----------------------------------------------------------------------------
(* The matrix of a quaternion modulo Prime.                                *)

LEMMA Cong3 ==
  ASSUME NEW x \in Int, NEW u \in Int, NEW y \in Int, NEW v \in Int, NEW z \in Int, NEW w \in Int,
         Cong(x, u), Cong(y, v), Cong(z, w)
  PROVE  Cong(x*y*z, u*v*w)
<1> DEFINE a == x*y  b == u*v
<1>1. Cong(a, b) /\ a \in Int /\ b \in Int
  BY CongSum
<1> HIDE DEF a, b
<1>2. Cong(a*z, b*w)
  BY <1>1, CongSum
<1> QED BY <1>2 DEF a, b

LEMMA q2RIs ==
  ASSUME NEW h \in Quaternion
  PROVE  /\ IntM(q2R(h)) /\ HasShape(q2R(h)) /\ IntM(Stretched(h)) /\ norm2(h) \in Int
         /\ q2R(h)[1][1] = 2*(h[4]*h[4]) - 1 + 2*(h[1]*h[1])
         /\ q2R(h)[2][2] = 2*(h[4]*h[4]) - 1 + 2*(h[2]*h[2])
         /\ q2R(h)[3][3] = 2*(h[4]*h[4]) - 1 + 2*(h[3]*h[3])
         /\ q2R(h)[1][2] = 2*(h[1]*h[2]) + 2*(h[4]*h[3]) /\ q2R(h)[2][1] = 2*(h[1]*h[2]) - 2*(h[4]*h[3])
         /\ q2R(h)[1][3] = 2*(h[1]*h[3]) - 2*(h[4]*h[2]) /\ q2R(h)[3][1] = 2*(h[1]*h[3]) + 2*(h[4]*h[2])
         /\ q2R(h)[2][3] = 2*(h[2]*h[3]) + 2*(h[4]*h[1]) /\ q2R(h)[3][2] = 2*(h[2]*h[3]) - 2*(h[4]*h[1])
<1> DEFINE m == q2R(h)
<1>1. PICK h1 \in Int, h2 \in Int, h3 \in Int, h4 \in Int : h = <<h1, h2, h3, h4>>
  BY DEF Quaternion
<1>2. /\ m[1][1] = 2*(h4*h4) - 1 + 2*(h1*h1)
      /\ m[2][2] = 2*(h4*h4) - 1 + 2*(h2*h2)
      /\ m[3][3] = 2*(h4*h4) - 1 + 2*(h3*h3)
      /\ m[1][2] = 2*(h1*h2) + 2*(h4*h3) /\ m[2][1] = 2*(h1*h2) - 2*(h4*h3)
      /\ m[1][3] = 2*(h1*h3) - 2*(h4*h2) /\ m[3][1] = 2*(h1*h3) + 2*(h4*h2)
      /\ m[2][3] = 2*(h2*h3) + 2*(h4*h1) /\ m[3][2] = 2*(h2*h3) - 2*(h4*h1)
  BY <1>1 DEF q2R
<1>3. norm2(h) \in Int
  BY <1>1 DEF norm2
<1>4. /\ m[1][1] \in Int /\ m[1][2] \in Int /\ m[1][3] \in Int
      /\ m[2][1] \in Int /\ m[2][2] \in Int /\ m[2][3] \in Int
      /\ m[3][1] \in Int /\ m[3][2] \in Int /\ m[3][3] \in Int
  BY <1>2
<1>5. IntM(m)
  BY <1>4, IntEntries
<1>6. HasShape(m)
  BY DEF HasShape, Three, q2R
<1>7. IntM(Stretched(h))
  <2> DEFINE n == Stretched(h)
  <2>1. /\ n[1][1] = m[1][1] + 1 - norm2(h)
        /\ n[2][2] = m[2][2] + 1 - norm2(h)
        /\ n[3][3] = m[3][3] + 1 - norm2(h)
        /\ n[1][2] = m[1][2] /\ n[1][3] = m[1][3] /\ n[2][1] = m[2][1]
        /\ n[2][3] = m[2][3] /\ n[3][1] = m[3][1] /\ n[3][2] = m[3][2]
    BY DEF Stretched
  <2> HIDE DEF m, n
  <2>2. IntM(n)
    BY <1>3, <1>4, <2>1, IntEntries
  <2> QED BY <2>2 DEF n
<1> QED BY <1>1, <1>2, <1>3, <1>5, <1>6, <1>7

LEMMA q2RSame ==
  ASSUME NEW a \in Quaternion, NEW b \in Quaternion, Same(a, b)
  PROVE  CongM(q2R(a), q2R(b)) /\ Cong(norm2(a), norm2(b))
<1>1. PICK a1 \in Int, a2 \in Int, a3 \in Int, a4 \in Int : a = <<a1, a2, a3, a4>>
  BY DEF Quaternion
<1>2. PICK b1 \in Int, b2 \in Int, b3 \in Int, b4 \in Int : b = <<b1, b2, b3, b4>>
  BY DEF Quaternion
<1>3. Cong(a1, b1) /\ Cong(a2, b2) /\ Cong(a3, b3) /\ Cong(a4, b4)
  BY <1>1, <1>2, SameIs
<1> DEFINE m == q2R(a)  n == q2R(b)  P == Prime
<1>4. P \in Int
  BY RecordAssumption
<1> HIDE DEF P
<1>11. PICK k11 \in Int : a1*a1 = b1*b1 + P*k11
  BY <1>3, ProductRest DEF P
<1>22. PICK k22 \in Int : a2*a2 = b2*b2 + P*k22
  BY <1>3, ProductRest DEF P
<1>33. PICK k33 \in Int : a3*a3 = b3*b3 + P*k33
  BY <1>3, ProductRest DEF P
<1>44. PICK k44 \in Int : a4*a4 = b4*b4 + P*k44
  BY <1>3, ProductRest DEF P
<1>12. PICK k12 \in Int : a1*a2 = b1*b2 + P*k12
  BY <1>3, ProductRest DEF P
<1>13. PICK k13 \in Int : a1*a3 = b1*b3 + P*k13
  BY <1>3, ProductRest DEF P
<1>23. PICK k23 \in Int : a2*a3 = b2*b3 + P*k23
  BY <1>3, ProductRest DEF P
<1>41. PICK k41 \in Int : a4*a1 = b4*b1 + P*k41
  BY <1>3, ProductRest DEF P
<1>42. PICK k42 \in Int : a4*a2 = b4*b2 + P*k42
  BY <1>3, ProductRest DEF P
<1>43. PICK k43 \in Int : a4*a3 = b4*b3 + P*k43
  BY <1>3, ProductRest DEF P
<1>5. IntM(m) /\ IntM(n) /\ norm2(a) \in Int /\ norm2(b) \in Int
  BY q2RIs
<1>60. Cong(m[1][1], n[1][1])
  <2> DEFINE x == 2*(a4*a4) - 1 + 2*(a1*a1)  z == 2*(b4*b4) - 1 + 2*(b1*b1)  k == 2*k44 + 2*k11
  <2>1. m[1][1] = x /\ n[1][1] = z
    BY <1>1, <1>2, q2RIs
  <2>2. x \in Int /\ z \in Int /\ k \in Int
    OBVIOUS
  <2>3. x = z + P*k
    BY <1>4, <1>44, <1>11
  <2> HIDE DEF x, z, k
  <2>4. Cong(x, z)
    BY <2>2, <2>3, CongIs DEF P
  <2> QED BY <2>1, <2>4
<1>61. Cong(m[2][2], n[2][2])
  <2> DEFINE x == 2*(a4*a4) - 1 + 2*(a2*a2)  z == 2*(b4*b4) - 1 + 2*(b2*b2)  k == 2*k44 + 2*k22
  <2>1. m[2][2] = x /\ n[2][2] = z
    BY <1>1, <1>2, q2RIs
  <2>2. x \in Int /\ z \in Int /\ k \in Int
    OBVIOUS
  <2>3. x = z + P*k
    BY <1>4, <1>44, <1>22
  <2> HIDE DEF x, z, k
  <2>4. Cong(x, z)
    BY <2>2, <2>3, CongIs DEF P
  <2> QED BY <2>1, <2>4
<1>62. Cong(m[3][3], n[3][3])
  <2> DEFINE x == 2*(a4*a4) - 1 + 2*(a3*a3)  z == 2*(b4*b4) - 1 + 2*(b3*b3)  k == 2*k44 + 2*k33
  <2>1. m[3][3] = x /\ n[3][3] = z
    BY <1>1, <1>2, q2RIs
  <2>2. x \in Int /\ z \in Int /\ k \in Int
    OBVIOUS
  <2>3. x = z + P*k
    BY <1>4, <1>44, <1>33
  <2> HIDE DEF x, z, k
  <2>4. Cong(x, z)
    BY <2>2, <2>3, CongIs DEF P
  <2> QED BY <2>1, <2>4
<1>63. Cong(m[1][2], n[1][2])
  <2> DEFINE x == 2*(a1*a2) + 2*(a4*a3)  z == 2*(b1*b2) + 2*(b4*b3)  k == 2*k12 + 2*k43
  <2>1. m[1][2] = x /\ n[1][2] = z
    BY <1>1, <1>2, q2RIs
  <2>2. x \in Int /\ z \in Int /\ k \in Int
    OBVIOUS
  <2>3. x = z + P*k
    BY <1>4, <1>12, <1>43
  <2> HIDE DEF x, z, k
  <2>4. Cong(x, z)
    BY <2>2, <2>3, CongIs DEF P
  <2> QED BY <2>1, <2>4
<1>64. Cong(m[2][1], n[2][1])
  <2> DEFINE x == 2*(a1*a2) - 2*(a4*a3)  z == 2*(b1*b2) - 2*(b4*b3)  k == 2*k12 - 2*k43
  <2>1. m[2][1] = x /\ n[2][1] = z
    BY <1>1, <1>2, q2RIs
  <2>2. x \in Int /\ z \in Int /\ k \in Int
    OBVIOUS
  <2>3. x = z + P*k
    BY <1>4, <1>12, <1>43
  <2> HIDE DEF x, z, k
  <2>4. Cong(x, z)
    BY <2>2, <2>3, CongIs DEF P
  <2> QED BY <2>1, <2>4
<1>65. Cong(m[1][3], n[1][3])
  <2> DEFINE x == 2*(a1*a3) - 2*(a4*a2)  z == 2*(b1*b3) - 2*(b4*b2)  k == 2*k13 - 2*k42
  <2>1. m[1][3] = x /\ n[1][3] = z
    BY <1>1, <1>2, q2RIs
  <2>2. x \in Int /\ z \in Int /\ k \in Int
    OBVIOUS
  <2>3. x = z + P*k
    BY <1>4, <1>13, <1>42
  <2> HIDE DEF x, z, k
  <2>4. Cong(x, z)
    BY <2>2, <2>3, CongIs DEF P
  <2> QED BY <2>1, <2>4
<1>66. Cong(m[3][1], n[3][1])
  <2> DEFINE x == 2*(a1*a3) + 2*(a4*a2)  z == 2*(b1*b3) + 2*(b4*b2)  k == 2*k13 + 2*k42
  <2>1. m[3][1] = x /\ n[3][1] = z
    BY <1>1, <1>2, q2RIs
  <2>2. x \in Int /\ z \in Int /\ k \in Int
    OBVIOUS
  <2>3. x = z + P*k
    BY <1>4, <1>13, <1>42
  <2> HIDE DEF x, z, k
  <2>4. Cong(x, z)
    BY <2>2, <2>3, CongIs DEF P
  <2> QED BY <2>1, <2>4
<1>67. Cong(m[2][3], n[2][3])
  <2> DEFINE x == 2*(a2*a3) + 2*(a4*a1)  z == 2*(b2*b3) + 2*(b4*b1)  k == 2*k23 + 2*k41
  <2>1. m[2][3] = x /\ n[2][3] = z
    BY <1>1, <1>2, q2RIs
  <2>2. x \in Int /\ z \in Int /\ k \in Int
    OBVIOUS
  <2>3. x = z + P*k
    BY <1>4, <1>23, <1>41
  <2> HIDE DEF x, z, k
  <2>4. Cong(x, z)
    BY <2>2, <2>3, CongIs DEF P
  <2> QED BY <2>1, <2>4
<1>68. Cong(m[3][2], n[3][2])
  <2> DEFINE x == 2*(a2*a3) - 2*(a4*a1)  z == 2*(b2*b3) - 2*(b4*b1)  k == 2*k23 - 2*k41
  <2>1. m[3][2] = x /\ n[3][2] = z
    BY <1>1, <1>2, q2RIs
  <2>2. x \in Int /\ z \in Int /\ k \in Int
    OBVIOUS
  <2>3. x = z + P*k
    BY <1>4, <1>23, <1>41
  <2> HIDE DEF x, z, k
  <2>4. Cong(x, z)
    BY <2>2, <2>3, CongIs DEF P
  <2> QED BY <2>1, <2>4
<1>70. CongM(m, n)
  <2> HIDE DEF m, n
  <2> QED BY <1>60, <1>61, <1>62, <1>63, <1>64, <1>65, <1>66, <1>67, <1>68, CongEntries
<1>71. Cong(norm2(a), norm2(b))
  <2> DEFINE x == a1*a1 + a2*a2 + a3*a3 + a4*a4  z == b1*b1 + b2*b2 + b3*b3 + b4*b4  k == k11 + k22 + k33 + k44
  <2>1. norm2(a) = x /\ norm2(b) = z
    BY <1>1, <1>2 DEF norm2
  <2>2. x \in Int /\ z \in Int /\ k \in Int
    OBVIOUS
  <2>3. x = z + P*k
    BY <1>4, <1>11, <1>22, <1>33, <1>44
  <2> HIDE DEF x, z, k
  <2>4. Cong(x, z)
    BY <2>2, <2>3, CongIs DEF P
  <2> QED BY <2>1, <2>4
<1> QED BY <1>70, <1>71

LEMMA q2RStretched ==
  ASSUME NEW h \in Quaternion, Cong(norm2(h), 1)
  PROVE  CongM(q2R(h), Stretched(h))
<1> DEFINE m == q2R(h)  n == Stretched(h)  w == norm2(h)
<1>1. IntM(m) /\ IntM(n) /\ w \in Int
  BY q2RIs
<1>2. /\ n[1][1] = m[1][1] + 1 - w
      /\ n[2][2] = m[2][2] + 1 - w
      /\ n[3][3] = m[3][3] + 1 - w
      /\ n[1][2] = m[1][2] /\ n[1][3] = m[1][3] /\ n[2][1] = m[2][1]
      /\ n[2][3] = m[2][3] /\ n[3][1] = m[3][1] /\ n[3][2] = m[3][2]
  BY DEF Stretched
<1>3. Cong(w, 1)
  OBVIOUS
<1> HIDE DEF m, n, w
<1>4. PICK k \in Int : w = 1 + Prime * k
  BY <1>1, <1>3, CongIs
<1>5. ASSUME NEW x \in Int, NEW z \in Int, z = x + 1 - w PROVE Cong(x, z)
  <2> DEFINE P == Prime
  <2>1. P \in Int
    BY RecordAssumption
  <2> HIDE DEF P
  <2>2. x = z + P * k
    BY <1>1, <1>4, <1>5, <2>1 DEF P
  <2> QED BY <2>2, CongIs DEF P
<1>6. /\ m[1][1] \in Int /\ m[1][2] \in Int /\ m[1][3] \in Int
      /\ m[2][1] \in Int /\ m[2][2] \in Int /\ m[2][3] \in Int
      /\ m[3][1] \in Int /\ m[3][2] \in Int /\ m[3][3] \in Int
      /\ n[1][1] \in Int /\ n[2][2] \in Int /\ n[3][3] \in Int
  BY <1>1, IntEntries
<1>7. Cong(m[1][1], n[1][1]) /\ Cong(m[2][2], n[2][2]) /\ Cong(m[3][3], n[3][3])
  BY <1>2, <1>5, <1>6
<1>8. /\ Cong(m[1][2], n[1][2]) /\ Cong(m[1][3], n[1][3]) /\ Cong(m[2][1], n[2][1])
      /\ Cong(m[2][3], n[2][3]) /\ Cong(m[3][1], n[3][1]) /\ Cong(m[3][2], n[3][2])
  BY <1>2, <1>6, CongEqual
<1>9. CongM(m, n)
  BY <1>7, <1>8, CongEntries
<1> QED BY <1>9 DEF m, n

-----------------------------------------------------------------------------
(* Euler angles and matrices.                                              *)

\* The quaternion of three angles has length 1 modulo Prime.
LEMMA UnitLength ==
  ASSUME NEW r \in Int, NEW p \in Int, NEW y \in Int
  PROVE  Cong(norm2(e2q(r, p, y)), 1)
<1> DEFINE R == cos2(r)*cos2(r) + sin2(r)*sin2(r)
           S == cos2(p)*cos2(p) + sin2(p)*sin2(p)
           T == cos2(y)*cos2(y) + sin2(y)*sin2(y)
<1>1. Cong(R, 1) /\ Cong(S, 1) /\ Cong(T, 1)
  BY Circle
<1>2. R \in Int /\ S \in Int /\ T \in Int
  BY HalfAngles
<1>3. norm2(e2q(r, p, y)) = R*S*T
  BY YawPitchRoll
<1> HIDE DEF R, S, T
<1>4. Cong(R*S*T, 1*1*1)
  BY <1>1, <1>2, Cong3
<1>5. 1*1*1 = 1
  OBVIOUS
<1> QED BY <1>3, <1>4, <1>5

\* The matrix of that quaternion, in half angles: all its elements have the
\* same degree, so that no law of sines is needed yet.
LEMMA HalfAngleMatrix ==
  ASSUME NEW r \in Int, NEW p \in Int, NEW y \in Int
  PROVE  LET cr == cos2(r)  sr == sin2(r)  cp == cos2(p)  sp == sin2(p)  cy == cos2(y)  sy == sin2(y)
             m == Stretched(e2q(r, p, y))
             N == cr*cr + sr*sr  C == cr*cr - sr*sr  S == 2*(sr*cr)
             O == cp*cp + sp*sp  D == cp*cp - sp*sp  T == 2*(sp*cp)
             Q == cy*cy + sy*sy  E == cy*cy - sy*sy  U == 2*(sy*cy)
         IN  /\ m[1][1] = N*D*E          /\ m[1][2] = N*D*U          /\ m[1][3] = -(N*T*Q)
             /\ m[2][1] = S*T*E - C*O*U  /\ m[2][2] = S*T*U + C*O*E  /\ m[2][3] = S*D*Q
             /\ m[3][1] = C*T*E + S*O*U  /\ m[3][2] = C*T*U - S*O*E  /\ m[3][3] = C*D*Q
<1> DEFINE cr == cos2(r)  sr == sin2(r)  cp == cos2(p)  sp == sin2(p)  cy == cos2(y)  sy == sin2(y)
           h == e2q(r, p, y)
           h1 == cy*cp*sr - sy*sp*cr  h2 == cy*sp*cr + sy*cp*sr
           h3 == sy*cp*cr - cy*sp*sr  h4 == cy*cp*cr + sy*sp*sr
           m == Stretched(h)
           N == cr*cr + sr*sr  C == cr*cr - sr*sr  S == 2*(sr*cr)
           O == cp*cp + sp*sp  D == cp*cp - sp*sp  T == 2*(sp*cp)
           Q == cy*cy + sy*sy  E == cy*cy - sy*sy  U == 2*(sy*cy)
<1>0. cr \in Int /\ sr \in Int /\ cp \in Int /\ sp \in Int /\ cy \in Int /\ sy \in Int
  BY HalfAngles
<1>2. h = <<h1, h2, h3, h4>>
  BY DEF e2q
<1> HIDE DEF cr, sr, cp, sp, cy, sy, h
<1>1. h1 \in Int /\ h2 \in Int /\ h3 \in Int /\ h4 \in Int
  BY <1>0
<1>3. h \in Quaternion /\ h[1] = h1 /\ h[2] = h2 /\ h[3] = h3 /\ h[4] = h4
  <2> HIDE DEF h1, h2, h3, h4
  <2> QED BY <1>1, <1>2 DEF Quaternion
<1>4. /\ m[1][1] = h4*h4 + h1*h1 - h2*h2 - h3*h3
      /\ m[2][2] = h4*h4 - h1*h1 + h2*h2 - h3*h3
      /\ m[3][3] = h4*h4 - h1*h1 - h2*h2 + h3*h3
      /\ m[1][2] = 2*h1*h2 + 2*h4*h3 /\ m[2][1] = 2*h1*h2 - 2*h4*h3
      /\ m[1][3] = 2*h1*h3 - 2*h4*h2 /\ m[3][1] = 2*h1*h3 + 2*h4*h2
      /\ m[2][3] = 2*h2*h3 + 2*h4*h1 /\ m[3][2] = 2*h2*h3 - 2*h4*h1
  <2> HIDE DEF h1, h2, h3, h4
  <2> QED BY <1>3, StretchedIs
<1>11. h4*h4 + h1*h1 - h2*h2 - h3*h3 = N*D*E
  BY <1>0
<1>12. 2*h1*h2 + 2*h4*h3 = N*D*U
  BY <1>0
<1>13. 2*h1*h3 - 2*h4*h2 = -(N*T*Q)
  BY <1>0
<1>21. 2*h1*h2 - 2*h4*h3 = S*T*E - C*O*U
  BY <1>0
<1>22. h4*h4 - h1*h1 + h2*h2 - h3*h3 = S*T*U + C*O*E
  BY <1>0
<1>23. 2*h2*h3 + 2*h4*h1 = S*D*Q
  BY <1>0
<1>31. 2*h1*h3 + 2*h4*h2 = C*T*E + S*O*U
  BY <1>0
<1>32. 2*h2*h3 - 2*h4*h1 = C*T*U - S*O*E
  BY <1>0
<1>33. h4*h4 - h1*h1 - h2*h2 + h3*h3 = C*D*Q
  BY <1>0
<1> HIDE DEF h1, h2, h3, h4, m, N, C, S, O, D, T, Q, E, U
<1> QED BY <1>4, <1>11, <1>12, <1>13, <1>21, <1>22, <1>23, <1>31, <1>32, <1>33
        DEF m, N, C, S, O, D, T, Q, E, U, cr, sr, cp, sp, cy, sy, h


LEMMA EulerIs ==
  ASSUME NEW r \in Int, NEW p \in Int, NEW y \in Int
  PROVE  LET d == setR123_Euler(r, p, y)
         IN  /\ IntM(d)
             /\ d[1][1] = cos(p)*cos(y)
             /\ d[1][2] = sin(r)*sin(p)*cos(y) - cos(r)*sin(y)
             /\ d[1][3] = cos(r)*sin(p)*cos(y) + sin(r)*sin(y)
             /\ d[2][1] = cos(p)*sin(y)
             /\ d[2][2] = sin(r)*sin(p)*sin(y) + cos(r)*cos(y)
             /\ d[2][3] = cos(r)*sin(p)*sin(y) - sin(r)*cos(y)
             /\ d[3][1] = -sin(p) /\ d[3][2] = sin(r)*cos(p) /\ d[3][3] = cos(r)*cos(p)
<1> DEFINE d == setR123_Euler(r, p, y)
<1>1. /\ d[1][1] = cos(p)*cos(y)
      /\ d[1][2] = sin(r)*sin(p)*cos(y) - cos(r)*sin(y)
      /\ d[1][3] = cos(r)*sin(p)*cos(y) + sin(r)*sin(y)
      /\ d[2][1] = cos(p)*sin(y)
      /\ d[2][2] = sin(r)*sin(p)*sin(y) + cos(r)*cos(y)
      /\ d[2][3] = cos(r)*sin(p)*sin(y) - sin(r)*cos(y)
      /\ d[3][1] = -sin(p) /\ d[3][2] = sin(r)*cos(p) /\ d[3][3] = cos(r)*cos(p)
  BY DEF setR123_Euler
<1>2. PICK a \in Int, b \in Int, c \in Int, e \in Int, f \in Int, g \in Int :
        a = cos(r) /\ b = sin(r) /\ c = cos(p) /\ e = sin(p) /\ f = cos(y) /\ g = sin(y)
  BY FullIs
<1> HIDE DEF d
<1>3. /\ d[1][1] \in Int /\ d[1][2] \in Int /\ d[1][3] \in Int
      /\ d[2][1] \in Int /\ d[2][2] \in Int /\ d[2][3] \in Int
      /\ d[3][1] \in Int /\ d[3][2] \in Int /\ d[3][3] \in Int
  BY <1>1, <1>2
<1>4. IntM(d)
  BY <1>3, IntEntries
<1> QED BY <1>1, <1>4 DEF d

\* In full angles that matrix is the transpose of the one setR123_Euler fills.
LEMMA EulerMatrix ==
  ASSUME NEW r \in Int, NEW p \in Int, NEW y \in Int
  PROVE  CongM(Stretched(e2q(r, p, y)), MatTrans(setR123_Euler(r, p, y)))
<1> DEFINE cr == cos2(r)  sr == sin2(r)  cp == cos2(p)  sp == sin2(p)  cy == cos2(y)  sy == sin2(y)
           c1 == cos(r)  s1 == sin(r)  c2 == cos(p)  s2 == sin(p)  c3 == cos(y)  s3 == sin(y)
<1>1. cr \in Int /\ sr \in Int /\ cp \in Int /\ sp \in Int /\ cy \in Int /\ sy \in Int
  BY HalfAngles
<1>2. c1 \in Int /\ s1 \in Int /\ c2 \in Int /\ s2 \in Int /\ c3 \in Int /\ s3 \in Int
  BY FullIs
<1> DEFINE h == e2q(r, p, y)  m == Stretched(h)  d == setR123_Euler(r, p, y)  n == MatTrans(d)
           N == cr*cr + sr*sr  C == cr*cr - sr*sr  S == 2*(sr*cr)
           O == cp*cp + sp*sp  D == cp*cp - sp*sp  T == 2*(sp*cp)
           Q == cy*cy + sy*sy  E == cy*cy - sy*sy  U == 2*(sy*cy)
<1>4. /\ m[1][1] = N*D*E          /\ m[1][2] = N*D*U          /\ m[1][3] = -(N*T*Q)
      /\ m[2][1] = S*T*E - C*O*U  /\ m[2][2] = S*T*U + C*O*E  /\ m[2][3] = S*D*Q
      /\ m[3][1] = C*T*E + S*O*U  /\ m[3][2] = C*T*U - S*O*E  /\ m[3][3] = C*D*Q
  BY HalfAngleMatrix
<1>5. /\ n[1][1] = c2*c3             /\ n[1][2] = c2*s3             /\ n[1][3] = -s2
      /\ n[2][1] = s1*s2*c3 - c1*s3  /\ n[2][2] = s1*s2*s3 + c1*c3  /\ n[2][3] = s1*c2
      /\ n[3][1] = c1*s2*c3 + s1*s3  /\ n[3][2] = c1*s2*s3 - s1*c3  /\ n[3][3] = c1*c2
  <2>1. \A i, j \in Three : n[i][j] = d[j][i]
    BY TransIs
  <2>2. /\ n[1][1] = d[1][1] /\ n[1][2] = d[2][1] /\ n[1][3] = d[3][1]
        /\ n[2][1] = d[1][2] /\ n[2][2] = d[2][2] /\ n[2][3] = d[3][2]
        /\ n[3][1] = d[1][3] /\ n[3][2] = d[2][3] /\ n[3][3] = d[3][3]
    <3> HIDE DEF n, d
    <3> QED BY <2>1 DEF Three
  <2>3. /\ d[1][1] = c2*c3 /\ d[1][2] = s1*s2*c3 - c1*s3 /\ d[1][3] = c1*s2*c3 + s1*s3
        /\ d[2][1] = c2*s3 /\ d[2][2] = s1*s2*s3 + c1*c3 /\ d[2][3] = c1*s2*s3 - s1*c3
        /\ d[3][1] = -s2   /\ d[3][2] = s1*c2            /\ d[3][3] = c1*c2
    BY EulerIs
  <2> HIDE DEF n, d, c1, s1, c2, s2, c3, s3
  <2> QED BY <2>2, <2>3
<1>6. /\ N \in Int /\ C \in Int /\ S \in Int /\ O \in Int /\ D \in Int /\ T \in Int
      /\ Q \in Int /\ E \in Int /\ U \in Int
  BY <1>1
<1>7. Cong(N, 1) /\ Cong(C, c1) /\ Cong(S, s1)
  <2>1. Cong(N, 1) /\ Cong(c1, C) /\ Cong(s1, S)
    BY Circle, FullIs
  <2> HIDE DEF N, C, S, c1, s1
  <2> QED BY <1>2, <1>6, <2>1, CongEqual
<1>8. Cong(O, 1) /\ Cong(D, c2) /\ Cong(T, s2)
  <2>1. Cong(O, 1) /\ Cong(c2, D) /\ Cong(s2, T)
    BY Circle, FullIs
  <2> HIDE DEF O, D, T, c2, s2
  <2> QED BY <1>2, <1>6, <2>1, CongEqual
<1>9. Cong(Q, 1) /\ Cong(E, c3) /\ Cong(U, s3)
  <2>1. Cong(Q, 1) /\ Cong(c3, E) /\ Cong(s3, U)
    BY Circle, FullIs
  <2> HIDE DEF Q, E, U, c3, s3
  <2> QED BY <1>2, <1>6, <2>1, CongEqual
<1> HIDE DEF h, m, n, d, N, C, S, O, D, T, Q, E, U, cr, sr, cp, sp, cy, sy, c1, s1, c2, s2, c3, s3
<1>11. Cong(m[1][1], n[1][1])
  <2>1. Cong(N*D*E, 1*c2*c3) /\ 1*c2*c3 = c2*c3 /\ N*D*E \in Int /\ c2*c3 \in Int
    <3>1. Cong(N*D*E, 1*c2*c3)
      BY <1>2, <1>6, <1>7, <1>8, <1>9, Cong3
    <3> QED BY <1>2, <1>6, <3>1
  <2> QED BY <1>4, <1>5, <2>1
<1>12. Cong(m[1][2], n[1][2])
  <2>1. Cong(N*D*U, 1*c2*s3) /\ 1*c2*s3 = c2*s3 /\ N*D*U \in Int /\ c2*s3 \in Int
    <3>1. Cong(N*D*U, 1*c2*s3)
      BY <1>2, <1>6, <1>7, <1>8, <1>9, Cong3
    <3> QED BY <1>2, <1>6, <3>1
  <2> QED BY <1>4, <1>5, <2>1
<1>13. Cong(m[1][3], n[1][3])
  <2>1. Cong(N*T*Q, 1*s2*1) /\ 1*s2*1 = s2 /\ N*T*Q \in Int /\ s2 \in Int
    <3>1. Cong(N*T*Q, 1*s2*1)
      BY <1>2, <1>6, <1>7, <1>8, <1>9, Cong3
    <3> QED BY <1>2, <1>6, <3>1
  <2>2. Cong(-(N*T*Q), -s2)
    BY <2>1, CongSum
  <2> QED BY <1>4, <1>5, <2>2
<1>21. Cong(m[2][1], n[2][1])
  <2>1. Cong(S*T*E, s1*s2*c3) /\ s1*s2*c3 = s1*s2*c3 /\ S*T*E \in Int /\ s1*s2*c3 \in Int
    <3>1. Cong(S*T*E, s1*s2*c3)
      BY <1>2, <1>6, <1>7, <1>8, <1>9, Cong3
    <3> QED BY <1>2, <1>6, <3>1
  <2>2. Cong(C*O*U, c1*1*s3) /\ c1*1*s3 = c1*s3 /\ C*O*U \in Int /\ c1*s3 \in Int
    <3>1. Cong(C*O*U, c1*1*s3)
      BY <1>2, <1>6, <1>7, <1>8, <1>9, Cong3
    <3> QED BY <1>2, <1>6, <3>1
  <2> DEFINE x == S*T*E  u == s1*s2*c3  z == C*O*U  w == c1*s3
  <2>3. Cong(x, u) /\ Cong(z, w) /\ x \in Int /\ u \in Int /\ z \in Int /\ w \in Int
    BY <2>1, <2>2
  <2> HIDE DEF x, u, z, w
  <2>4. Cong(x - z, u - w)
    BY <2>3, CongSum
  <2> QED BY <1>4, <1>5, <2>4 DEF x, u, z, w
<1>22. Cong(m[2][2], n[2][2])
  <2>1. Cong(S*T*U, s1*s2*s3) /\ s1*s2*s3 = s1*s2*s3 /\ S*T*U \in Int /\ s1*s2*s3 \in Int
    <3>1. Cong(S*T*U, s1*s2*s3)
      BY <1>2, <1>6, <1>7, <1>8, <1>9, Cong3
    <3> QED BY <1>2, <1>6, <3>1
  <2>2. Cong(C*O*E, c1*1*c3) /\ c1*1*c3 = c1*c3 /\ C*O*E \in Int /\ c1*c3 \in Int
    <3>1. Cong(C*O*E, c1*1*c3)
      BY <1>2, <1>6, <1>7, <1>8, <1>9, Cong3
    <3> QED BY <1>2, <1>6, <3>1
  <2> DEFINE x == S*T*U  u == s1*s2*s3  z == C*O*E  w == c1*c3
  <2>3. Cong(x, u) /\ Cong(z, w) /\ x \in Int /\ u \in Int /\ z \in Int /\ w \in Int
    BY <2>1, <2>2
  <2> HIDE DEF x, u, z, w
  <2>4. Cong(x + z, u + w)
    BY <2>3, CongSum
  <2> QED BY <1>4, <1>5, <2>4 DEF x, u, z, w
<1>23. Cong(m[2][3], n[2][3])
  <2>1. Cong(S*D*Q, s1*c2*1) /\ s1*c2*1 = s1*c2 /\ S*D*Q \in Int /\ s1*c2 \in Int
    <3>1. Cong(S*D*Q, s1*c2*1)
      BY <1>2, <1>6, <1>7, <1>8, <1>9, Cong3
    <3> QED BY <1>2, <1>6, <3>1
  <2> QED BY <1>4, <1>5, <2>1
<1>31. Cong(m[3][1], n[3][1])
  <2>1. Cong(C*T*E, c1*s2*c3) /\ c1*s2*c3 = c1*s2*c3 /\ C*T*E \in Int /\ c1*s2*c3 \in Int
    <3>1. Cong(C*T*E, c1*s2*c3)
      BY <1>2, <1>6, <1>7, <1>8, <1>9, Cong3
    <3> QED BY <1>2, <1>6, <3>1
  <2>2. Cong(S*O*U, s1*1*s3) /\ s1*1*s3 = s1*s3 /\ S*O*U \in Int /\ s1*s3 \in Int
    <3>1. Cong(S*O*U, s1*1*s3)
      BY <1>2, <1>6, <1>7, <1>8, <1>9, Cong3
    <3> QED BY <1>2, <1>6, <3>1
  <2> DEFINE x == C*T*E  u == c1*s2*c3  z == S*O*U  w == s1*s3
  <2>3. Cong(x, u) /\ Cong(z, w) /\ x \in Int /\ u \in Int /\ z \in Int /\ w \in Int
    BY <2>1, <2>2
  <2> HIDE DEF x, u, z, w
  <2>4. Cong(x + z, u + w)
    BY <2>3, CongSum
  <2> QED BY <1>4, <1>5, <2>4 DEF x, u, z, w
<1>32. Cong(m[3][2], n[3][2])
  <2>1. Cong(C*T*U, c1*s2*s3) /\ c1*s2*s3 = c1*s2*s3 /\ C*T*U \in Int /\ c1*s2*s3 \in Int
    <3>1. Cong(C*T*U, c1*s2*s3)
      BY <1>2, <1>6, <1>7, <1>8, <1>9, Cong3
    <3> QED BY <1>2, <1>6, <3>1
  <2>2. Cong(S*O*E, s1*1*c3) /\ s1*1*c3 = s1*c3 /\ S*O*E \in Int /\ s1*c3 \in Int
    <3>1. Cong(S*O*E, s1*1*c3)
      BY <1>2, <1>6, <1>7, <1>8, <1>9, Cong3
    <3> QED BY <1>2, <1>6, <3>1
  <2> DEFINE x == C*T*U  u == c1*s2*s3  z == S*O*E  w == s1*c3
  <2>3. Cong(x, u) /\ Cong(z, w) /\ x \in Int /\ u \in Int /\ z \in Int /\ w \in Int
    BY <2>1, <2>2
  <2> HIDE DEF x, u, z, w
  <2>4. Cong(x - z, u - w)
    BY <2>3, CongSum
  <2> QED BY <1>4, <1>5, <2>4 DEF x, u, z, w
<1>33. Cong(m[3][3], n[3][3])
  <2>1. Cong(C*D*Q, c1*c2*1) /\ c1*c2*1 = c1*c2 /\ C*D*Q \in Int /\ c1*c2 \in Int
    <3>1. Cong(C*D*Q, c1*c2*1)
      BY <1>2, <1>6, <1>7, <1>8, <1>9, Cong3
    <3> QED BY <1>2, <1>6, <3>1
  <2> QED BY <1>4, <1>5, <2>1
<1>50. CongM(m, n)
  BY <1>11, <1>12, <1>13, <1>21, <1>22, <1>23, <1>31, <1>32, <1>33, CongEntries
<1> QED BY <1>50 DEF m, n, h, d

-----------------------------------------------------------------------------
(* SameRotation.                                                           *)

LEMMA QuaternionMatrix ==
  ASSUME NEW r \in Int, NEW p \in Int, NEW y \in Int
  PROVE  LET a == Mod(e2q(r, p, y))
         IN  /\ a \in Quaternion /\ Cong(norm2(a), 1)
             /\ CongM(q2R(a), MatTrans(setR123_Euler(r, p, y)))
<1> DEFINE h == e2q(r, p, y)  a == Mod(h)  n == MatTrans(setR123_Euler(r, p, y))
<1>1. h \in Quaternion /\ a \in Quaternion /\ Same(a, h)
  BY Elementary, SameEqual
<1>2. Cong(norm2(h), 1)
  BY UnitLength
<1>3. CongM(Stretched(h), n)
  BY EulerMatrix
<1>4. IntM(n)
  BY EulerIs, TransIs
<1> HIDE DEF h, a, n
<1>5. CongM(q2R(a), q2R(h)) /\ Cong(norm2(a), norm2(h))
  BY <1>1, q2RSame
<1>6. norm2(a) \in Int /\ norm2(h) \in Int /\ IntM(q2R(a)) /\ IntM(q2R(h)) /\ IntM(Stretched(h))
  BY <1>1, q2RIs
<1>7. Cong(norm2(a), 1)
  BY <1>2, <1>5, <1>6, CongEqual
<1>8. CongM(q2R(h), Stretched(h))
  BY <1>1, <1>2, q2RStretched
<1>9. CongM(q2R(a), Stretched(h))
  BY <1>5, <1>6, <1>8, CongMEqual
<1>10. CongM(q2R(a), n)
  BY <1>3, <1>4, <1>6, <1>9, CongMEqual
<1> QED BY <1>1, <1>7, <1>10 DEF a, h, n

LEMMA EulerRotates ==
  ASSUME NEW r \in Int, NEW p \in Int, NEW y \in Int
  PROVE  LET d == setR123_Euler(r, p, y)
         IN  CongM(MatMul(d, MatTrans(d)), Identity)
<1> DEFINE d == setR123_Euler(r, p, y)  h == e2q(r, p, y)  g == conj(h)  n == Stretched(g)
<1>1. h \in Quaternion /\ g \in Quaternion
  BY Elementary, Closed
<1>2. Cong(norm2(h), 1) /\ norm2(h) \in Int
  BY <1>1, UnitLength, q2RIs
<1>3. CongM(Stretched(h), MatTrans(d)) /\ IntM(d) /\ IntM(MatTrans(d))
  BY EulerMatrix, EulerIs, TransIs
<1> HIDE DEF h, d, g, n
<1>4. PICK h1 \in Int, h2 \in Int, h3 \in Int, h4 \in Int : h = <<h1, h2, h3, h4>>
  BY <1>1 DEF Quaternion
<1>5. g[1] = -h1 /\ g[2] = -h2 /\ g[3] = -h3 /\ g[4] = h4
  BY <1>4 DEF conj, g
<1>6. norm2(g) = norm2(h)
  BY <1>4, <1>5 DEF norm2
<1>7. Same3(n, MatTrans(Stretched(h)))
  <2> DEFINE m == Stretched(h)  t == MatTrans(m)
  <2>1. /\ m[1][1] = h4*h4 + h1*h1 - h2*h2 - h3*h3
        /\ m[2][2] = h4*h4 - h1*h1 + h2*h2 - h3*h3
        /\ m[3][3] = h4*h4 - h1*h1 - h2*h2 + h3*h3
        /\ m[1][2] = 2*h1*h2 + 2*h4*h3 /\ m[2][1] = 2*h1*h2 - 2*h4*h3
        /\ m[1][3] = 2*h1*h3 - 2*h4*h2 /\ m[3][1] = 2*h1*h3 + 2*h4*h2
        /\ m[2][3] = 2*h2*h3 + 2*h4*h1 /\ m[3][2] = 2*h2*h3 - 2*h4*h1
    BY <1>1, <1>4, StretchedIs
  <2>2. /\ n[1][1] = g[4]*g[4] + g[1]*g[1] - g[2]*g[2] - g[3]*g[3]
        /\ n[2][2] = g[4]*g[4] - g[1]*g[1] + g[2]*g[2] - g[3]*g[3]
        /\ n[3][3] = g[4]*g[4] - g[1]*g[1] - g[2]*g[2] + g[3]*g[3]
        /\ n[1][2] = 2*g[1]*g[2] + 2*g[4]*g[3] /\ n[2][1] = 2*g[1]*g[2] - 2*g[4]*g[3]
        /\ n[1][3] = 2*g[1]*g[3] - 2*g[4]*g[2] /\ n[3][1] = 2*g[1]*g[3] + 2*g[4]*g[2]
        /\ n[2][3] = 2*g[2]*g[3] + 2*g[4]*g[1] /\ n[3][2] = 2*g[2]*g[3] - 2*g[4]*g[1]
    BY <1>1, StretchedIs DEF n
  <2>3. \A i, j \in Three : t[i][j] = m[j][i]
    BY TransIs
  <2> HIDE DEF m, t
  <2>4. /\ t[1][1] = m[1][1] /\ t[2][2] = m[2][2] /\ t[3][3] = m[3][3]
        /\ t[1][2] = m[2][1] /\ t[2][1] = m[1][2] /\ t[1][3] = m[3][1]
        /\ t[3][1] = m[1][3] /\ t[2][3] = m[3][2] /\ t[3][2] = m[2][3]
    BY <2>3 DEF Three
  <2>5. n[1][1] = t[1][1] /\ n[2][2] = t[2][2] /\ n[3][3] = t[3][3]
    BY <1>5, <2>1, <2>2, <2>4
  <2>6. n[1][2] = t[1][2] /\ n[1][3] = t[1][3] /\ n[2][1] = t[2][1]
    BY <1>5, <2>1, <2>2, <2>4
  <2>7. n[2][3] = t[2][3] /\ n[3][1] = t[3][1] /\ n[3][2] = t[3][2]
    BY <1>5, <2>1, <2>2, <2>4
  <2>8. Same3(n, t)
    BY <2>5, <2>6, <2>7, Entries
  <2> QED BY <2>8 DEF t, m
<1>8. IntM(Stretched(h)) /\ IntM(n) /\ IntM(MatTrans(Stretched(h)))
  BY <1>1, q2RIs, TransIs DEF n
<1>9. CongM(MatTrans(Stretched(h)), MatTrans(MatTrans(d)))
  BY <1>3, TransIs
<1>10. Same3(MatTrans(MatTrans(d)), d)
  BY TransIs DEF Same3
<1>11. CongM(n, d)
  <2>1. CongM(MatTrans(MatTrans(d)), d) /\ IntM(MatTrans(MatTrans(d)))
    BY <1>3, <1>10, CongMEqual
  <2>2. CongM(n, MatTrans(Stretched(h)))
    BY <1>7, <1>8, CongMEqual
  <2>3. CongM(n, MatTrans(MatTrans(d)))
    BY <1>8, <1>9, <2>1, <2>2, CongMEqual
  <2> QED BY <1>3, <1>8, <2>1, <2>3, CongMEqual
<1>12. CongM(d, n) /\ CongM(MatTrans(d), MatTrans(n)) /\ IntM(MatTrans(n))
  <2>1. CongM(d, n)
    BY <1>3, <1>8, <1>11, CongMEqual
  <2> QED BY <1>8, <2>1, TransIs
<1>13. CongM(MatMul(d, MatTrans(d)), MatMul(n, MatTrans(n)))
  BY <1>3, <1>8, <1>12, MatMulCong
<1> DEFINE w == norm2(g)
<1>14. Same3(MatMul(n, MatTrans(n)), Scalar(w * w))
  BY <1>1, MatrixRotates DEF n
<1>15. w \in Int /\ Cong(w, 1)
  BY <1>2, <1>6
<1> HIDE DEF w
<1>16. Cong(w * w, 1)
  <2>1. Cong(w * w, 1 * 1)
    BY <1>15, CongSum
  <2> QED BY <2>1
<1>17. IntM(Scalar(w * w)) /\ CongM(Scalar(w * w), Identity)
  <2> DEFINE x == w * w  m == Scalar(x)
  <2>1. x \in Int /\ Cong(x, 1)
    BY <1>15, <1>16
  <2> HIDE DEF x
  <2>2. /\ m[1][1] = x /\ m[1][2] = 0 /\ m[1][3] = 0
        /\ m[2][1] = 0 /\ m[2][2] = x /\ m[2][3] = 0
        /\ m[3][1] = 0 /\ m[3][2] = 0 /\ m[3][3] = x
    BY DEF Scalar
  <2> HIDE DEF m
  <2>3. IntM(m)
    BY <2>1, <2>2, IntEntries
  <2>4. Cong(0, 0)
    BY CongEqual
  <2>5. CongM(m, Identity)
    BY <2>1, <2>2, <2>4, IdentityIs, CongEntries
  <2> QED BY <2>3, <2>5 DEF m, x
<1>18. CongM(MatMul(n, MatTrans(n)), Scalar(w * w)) /\ IntM(MatMul(n, MatTrans(n)))
  BY <1>14, <1>17, CongMEqual
<1>19. IntM(MatMul(d, MatTrans(d)))
  BY <1>3, MatMulIs
<1>20. CongM(MatMul(d, MatTrans(d)), Scalar(w * w))
  BY <1>13, <1>17, <1>18, <1>19, CongMEqual
<1>21. CongM(MatMul(d, MatTrans(d)), Identity)
  BY <1>17, <1>19, <1>20, IdentityIs, CongMEqual
<1> QED BY <1>21 DEF d

\* The matrix of a product of quaternions, each stored modulo Prime.
LEMMA StoredProduct ==
  ASSUME NEW a \in Quaternion, NEW b \in Quaternion, Cong(norm2(a), 1), Cong(norm2(b), 1)
  PROVE  SameMatrix(q2R(Mod(Mult(a, b))), MatMul(ModM(q2R(b)), ModM(q2R(a))))
<1> DEFINE c == Mult(a, b)
<1>1. c \in Quaternion /\ norm2(c) = norm2(a) * norm2(b)
  BY Closed, NormOfProduct
<1>2. norm2(a) \in Int /\ norm2(b) \in Int
  BY q2RIs
<1>3. Same3(Stretched(c), MatMul(Stretched(b), Stretched(a)))
  BY MatrixOfProduct
<1> HIDE DEF c
<1>4. Cong(norm2(c), 1)
  <2>1. Cong(norm2(a) * norm2(b), 1 * 1)
    BY <1>2, CongSum
  <2> QED BY <1>1, <2>1
<1>5. Mod(c) \in Quaternion /\ Same(Mod(c), c)
  BY <1>1, SameEqual
<1>6. /\ CongM(q2R(Mod(c)), q2R(c)) /\ CongM(q2R(c), Stretched(c))
      /\ CongM(q2R(a), Stretched(a)) /\ CongM(q2R(b), Stretched(b))
  BY <1>1, <1>4, <1>5, q2RSame, q2RStretched
<1>7. /\ IntM(q2R(Mod(c))) /\ IntM(q2R(c)) /\ IntM(q2R(a)) /\ IntM(q2R(b)) /\ HasShape(q2R(Mod(c)))
      /\ IntM(Stretched(c)) /\ IntM(Stretched(a)) /\ IntM(Stretched(b))
  BY <1>1, <1>5, q2RIs
<1> DEFINE A == ModM(q2R(a))  B == ModM(q2R(b))
<1>8. IntM(A) /\ IntM(B) /\ CongM(A, q2R(a)) /\ CongM(B, q2R(b))
  BY <1>7, ModMIs
<1> HIDE DEF A, B
<1>9. CongM(Stretched(a), A) /\ CongM(Stretched(b), B)
  <2>1. CongM(A, Stretched(a)) /\ CongM(B, Stretched(b))
    BY <1>6, <1>7, <1>8, CongMEqual
  <2> QED BY <1>7, <1>8, <2>1, CongMEqual
<1>10. /\ IntM(MatMul(Stretched(b), Stretched(a))) /\ IntM(MatMul(B, A))
       /\ CongM(MatMul(Stretched(b), Stretched(a)), MatMul(B, A))
  BY <1>7, <1>8, <1>9, MatMulIs, MatMulCong
<1>11. CongM(Stretched(c), MatMul(Stretched(b), Stretched(a)))
  BY <1>3, <1>10, CongMEqual
<1>12. CongM(q2R(Mod(c)), Stretched(c))
  BY <1>6, <1>7, CongMEqual
<1>13. CongM(q2R(Mod(c)), MatMul(Stretched(b), Stretched(a)))
  BY <1>7, <1>10, <1>11, <1>12, CongMEqual
<1>14. CongM(q2R(Mod(c)), MatMul(B, A))
  BY <1>7, <1>10, <1>13, CongMEqual
<1> QED BY <1>7, <1>14, SameMatrixIs DEF A, B, c

LEMMA TurnLength ==
  ASSUME NEW r \in Int
  PROVE  About(2, r) \in Quaternion /\ Cong(norm2(About(2, r)), 1)
<1>0. 2 \in Three
  BY DEF Three
<1>1. /\ About(2, r) \in Quaternion /\ Turned(2, r) \in Quaternion /\ Same(About(2, r), Turned(2, r))
      /\ Turned(2, r) = <<0, sin2(r), 0, cos2(r)>>
  BY <1>0, TurnedIs
<1>2. norm2(Turned(2, r)) = cos2(r) * cos2(r) + sin2(r) * sin2(r)
  <2> DEFINE c == cos2(r)  d == sin2(r)
  <2>1. c \in Int /\ d \in Int
    BY HalfAngles
  <2>2. Turned(2, r) = <<0, d, 0, c>>
    BY <1>1
  <2> HIDE DEF c, d
  <2>3. norm2(Turned(2, r)) = c * c + d * d
    BY <2>1, <2>2 DEF norm2
  <2> QED BY <2>3 DEF c, d
<1>3. Cong(norm2(Turned(2, r)), 1)
  BY <1>2, Circle
<1>4. Cong(norm2(About(2, r)), norm2(Turned(2, r))) /\ norm2(About(2, r)) \in Int /\ norm2(Turned(2, r)) \in Int
  BY <1>1, q2RSame, q2RIs
<1> QED BY <1>1, <1>3, <1>4, CongEqual

-----------------------------------------------------------------------------
(* Between the frames of the Earth.                                        *)

LEMMA CircleRest ==
  ASSUME NEW k \in Int
  PROVE  \E n \in Int : cos(k)*cos(k) + sin(k)*sin(k) = 1 + Prime*n
<1> DEFINE x == cos(k)*cos(k) + sin(k)*sin(k)
<1>1. x \in Int /\ Cong(x, 1)
  BY FullIs
<1> HIDE DEF x
<1>2. \E n \in Int : x = 1 + Prime*n
  BY <1>1, CongIs
<1> QED BY <1>2 DEF x

\* A matrix whose rows are at right angles and of length 1, modulo Prime.
LEMMA RowsRotate ==
  ASSUME NEW m, IntM(m), NEW k11 \in Int, NEW k12 \in Int, NEW k13 \in Int,
         NEW k22 \in Int, NEW k23 \in Int, NEW k33 \in Int,
         m[1][1]*m[1][1] + m[1][2]*m[1][2] + m[1][3]*m[1][3] = 1 + Prime*k11,
         m[1][1]*m[2][1] + m[1][2]*m[2][2] + m[1][3]*m[2][3] = Prime*k12,
         m[1][1]*m[3][1] + m[1][2]*m[3][2] + m[1][3]*m[3][3] = Prime*k13,
         m[2][1]*m[2][1] + m[2][2]*m[2][2] + m[2][3]*m[2][3] = 1 + Prime*k22,
         m[2][1]*m[3][1] + m[2][2]*m[3][2] + m[2][3]*m[3][3] = Prime*k23,
         m[3][1]*m[3][1] + m[3][2]*m[3][2] + m[3][3]*m[3][3] = 1 + Prime*k33
  PROVE  CongM(MatMul(m, MatTrans(m)), Identity)
<1> DEFINE n == MatMul(m, MatTrans(m))
           a == m[1][1]  b == m[1][2]  c == m[1][3]
           d == m[2][1]  e == m[2][2]  f == m[2][3]
           g == m[3][1]  h == m[3][2]  i == m[3][3]
           P == Prime
<1>0. /\ a \in Int /\ b \in Int /\ c \in Int /\ d \in Int /\ e \in Int /\ f \in Int
      /\ g \in Int /\ h \in Int /\ i \in Int
  BY IntEntries
<1>1. P \in Int
  BY RecordAssumption
<1>2. /\ a*a + b*b + c*c = 1 + P*k11 /\ d*d + e*e + f*f = 1 + P*k22 /\ g*g + h*h + i*i = 1 + P*k33
      /\ a*d + b*e + c*f = 0 + P*k12 /\ a*g + b*h + c*i = 0 + P*k13 /\ d*g + e*h + f*i = 0 + P*k23
  <2>1. P*k12 \in Int /\ P*k13 \in Int /\ P*k23 \in Int
    BY <1>1
  <2> QED BY <2>1
<1>3. \A k, l \in Three : n[k][l] = m[k][1]*m[l][1] + m[k][2]*m[l][2] + m[k][3]*m[l][3]
  <2> SUFFICES ASSUME NEW k \in Three, NEW l \in Three
               PROVE  n[k][l] = m[k][1]*m[l][1] + m[k][2]*m[l][2] + m[k][3]*m[l][3]
    OBVIOUS
  <2>1. n[k][l] = m[k][1]*MatTrans(m)[1][l] + m[k][2]*MatTrans(m)[2][l] + m[k][3]*MatTrans(m)[3][l]
    BY ProductIs
  <2>2. MatTrans(m)[1][l] = m[l][1] /\ MatTrans(m)[2][l] = m[l][2] /\ MatTrans(m)[3][l] = m[l][3]
    BY TransIs DEF Three
  <2> QED BY <2>1, <2>2
<1>4. 1 \in Three /\ 2 \in Three /\ 3 \in Three
  BY DEF Three
<1> HIDE DEF n
<1>5. /\ n[1][1] = a*a + b*b + c*c /\ n[1][2] = a*d + b*e + c*f /\ n[1][3] = a*g + b*h + c*i
      /\ n[2][1] = d*a + e*b + f*c /\ n[2][2] = d*d + e*e + f*f /\ n[2][3] = d*g + e*h + f*i
      /\ n[3][1] = g*a + h*b + i*c /\ n[3][2] = g*d + h*e + i*f /\ n[3][3] = g*g + h*h + i*i
  BY <1>3, <1>4
<1> HIDE DEF a, b, c, d, e, f, g, h, i, P
<1>6. n[2][1] = n[1][2] /\ n[3][1] = n[1][3] /\ n[3][2] = n[2][3]
  BY <1>0, <1>5
<1>7. /\ n[1][1] = 1 + P*k11 /\ n[2][2] = 1 + P*k22 /\ n[3][3] = 1 + P*k33
      /\ n[1][2] = 0 + P*k12 /\ n[1][3] = 0 + P*k13 /\ n[2][3] = 0 + P*k23
  BY <1>2, <1>5
<1>8. ASSUME NEW x, NEW w \in Int, NEW k \in Int, x = w + P*k PROVE Cong(x, w)
  <2>1. x \in Int
    BY <1>1, <1>8
  <2> QED BY <1>8, <2>1, CongIs DEF P
<1>9. /\ Cong(n[1][1], 1) /\ Cong(n[2][2], 1) /\ Cong(n[3][3], 1)
      /\ Cong(n[1][2], 0) /\ Cong(n[1][3], 0) /\ Cong(n[2][3], 0)
  BY <1>7, <1>8
<1>10. CongM(n, Identity)
  BY <1>6, <1>9, IdentityIs, CongEntries
<1> QED BY <1>10 DEF n

LEMMA EarthFrames ==
  ASSUME NEW r \in Int, NEW p \in Int, NEW y \in Int
  PROVE  /\ Rotation(ModM(setR_ne(r, p))) /\ Rotation(ModM(setR_iv(r, p, y)))
         /\ Rotation(ModM(setR_cv(r)))
<1> DEFINE P == Prime
<1>1. P \in Int
  BY RecordAssumption
<1> HIDE DEF P
<1>2. Rotation(ModM(setR_ne(r, p)))
  <2> DEFINE m == setR_ne(r, p)
  <2>a0. PICK cl \in Int, sl \in Int, kcl \in Int : cl = cos(r) /\ sl = sin(r) /\ cl*cl + sl*sl = 1 + P*kcl
    <3>1. r \in Int
      OBVIOUS
    <3>2. cos(r) \in Int /\ sin(r) \in Int
      BY <3>1, FullIs
    <3> QED BY <3>1, <3>2, CircleRest DEF P
  <2>a1. PICK cg \in Int, sg \in Int, kcg \in Int : cg = cos(p) /\ sg = sin(p) /\ cg*cg + sg*sg = 1 + P*kcg
    <3>1. p \in Int
      OBVIOUS
    <3>2. cos(p) \in Int /\ sin(p) \in Int
      BY <3>1, FullIs
    <3> QED BY <3>1, <3>2, CircleRest DEF P
  <2>1. /\ m[1][1] = -(sl*cg) /\ m[1][2] = -sg /\ m[1][3] = -(cl*cg)
        /\ m[2][1] = -(sl*sg) /\ m[2][2] = cg /\ m[2][3] = -(cl*sg)
        /\ m[3][1] = cl /\ m[3][2] = 0 /\ m[3][3] = -sl
    <3> DEFINE u == << <<-(sl*cg), -(sl*sg), cl>>, <<-sg, cg, 0>>, <<-(cl*cg), -(cl*sg), -sl>> >>
    <3>1. m = MatTrans(u)
      BY <2>a0, <2>a1 DEF setR_ne
    <3>2. /\ m[1][1] = u[1][1] /\ m[1][2] = u[2][1] /\ m[1][3] = u[3][1]
          /\ m[2][1] = u[1][2] /\ m[2][2] = u[2][2] /\ m[2][3] = u[3][2]
          /\ m[3][1] = u[1][3] /\ m[3][2] = u[2][3] /\ m[3][3] = u[3][3]
      <4> HIDE DEF m, u
      <4> QED BY <3>1, TransIs DEF Three
    <3> HIDE DEF m
    <3> QED BY <3>2
  <2> HIDE DEF m
  <2>2. IntM(m)
    <3>1. /\ m[1][1] \in Int /\ m[1][2] \in Int /\ m[1][3] \in Int
          /\ m[2][1] \in Int /\ m[2][2] \in Int /\ m[2][3] \in Int
          /\ m[3][1] \in Int /\ m[3][2] \in Int /\ m[3][3] \in Int
      BY <2>1
    <3> QED BY <3>1, IntEntries
  <2>3. m[1][1]*m[1][1] + m[1][2]*m[1][2] + m[1][3]*m[1][3] = 1 + P*(kcg + kcl*cg*cg) /\ kcg + kcl*cg*cg \in Int
    <3> DEFINE w == cl*cl + sl*sl  u == cg*cg  v == sg*sg
    <3>1. (-(sl*cg))*(-(sl*cg)) + (-sg)*(-sg) + (-(cl*cg))*(-(cl*cg)) = w*u + v /\ u \in Int /\ v \in Int /\ w = 1 + P*kcl
      <4>1. (-(sl*cg))*(-(sl*cg)) + (-sg)*(-sg) + (-(cl*cg))*(-(cl*cg)) = w*u + v
        OBVIOUS
      <4>2. u \in Int /\ v \in Int /\ w = 1 + P*kcl
        BY <2>a0, <2>a1
      <4> QED BY <4>1, <4>2
    <3>2. u + v = 1 + P*kcg
      BY <2>a0, <2>a1
    <3>3. kcg + kcl*cg*cg = kcg + kcl*u /\ kcg + kcl*cg*cg \in Int
      OBVIOUS
    <3> HIDE DEF w, u, v
    <3>4. w*u + v = (u + v) + P*(kcl*u)
      BY <1>1, <3>1
    <3>5. (-(sl*cg))*(-(sl*cg)) + (-sg)*(-sg) + (-(cl*cg))*(-(cl*cg)) = 1 + P*(kcg + kcl*cg*cg)
      <4> DEFINE x == (-(sl*cg))*(-(sl*cg)) + (-sg)*(-sg) + (-(cl*cg))*(-(cl*cg))  z == kcg + kcl*cg*cg  f == kcl*u
      <4>1. f \in Int /\ x = (u + v) + P*f /\ z = kcg + f
        BY <3>1, <3>3, <3>4
      <4> HIDE DEF x, z, f
      <4> QED BY <1>1, <3>1, <3>2, <4>1 DEF x, z
    <3> QED BY <2>1, <3>3, <3>5
  <2>4. m[1][1]*m[2][1] + m[1][2]*m[2][2] + m[1][3]*m[2][3] = P*(kcl*cg*sg) /\ kcl*cg*sg \in Int
    <3> DEFINE w == cl*cl + sl*sl  u == cg*sg  v == -(cg*sg)
    <3>1. (-(sl*cg))*(-(sl*sg)) + (-sg)*(cg) + (-(cl*cg))*(-(cl*sg)) = w*u + v /\ u \in Int /\ v \in Int /\ w = 1 + P*kcl
      <4>1. (-(sl*cg))*(-(sl*sg)) + (-sg)*(cg) + (-(cl*cg))*(-(cl*sg)) = w*u + v
        OBVIOUS
      <4>2. u \in Int /\ v \in Int /\ w = 1 + P*kcl
        BY <2>a0, <2>a1
      <4> QED BY <4>1, <4>2
    <3>2. u + v = 0
      BY <2>a0, <2>a1
    <3>3. kcl*cg*sg = kcl*u /\ kcl*cg*sg \in Int
      OBVIOUS
    <3> HIDE DEF w, u, v
    <3>4. w*u + v = (u + v) + P*(kcl*u)
      BY <1>1, <3>1
    <3>5. (-(sl*cg))*(-(sl*sg)) + (-sg)*(cg) + (-(cl*cg))*(-(cl*sg)) = P*(kcl*cg*sg)
      <4> DEFINE x == (-(sl*cg))*(-(sl*sg)) + (-sg)*(cg) + (-(cl*cg))*(-(cl*sg))  z == kcl*cg*sg  f == kcl*u
      <4>1. f \in Int /\ x = (u + v) + P*f /\ z = f
        BY <3>1, <3>3, <3>4
      <4> HIDE DEF x, z, f
      <4> QED BY <1>1, <3>1, <3>2, <4>1 DEF x, z
    <3> QED BY <2>1, <3>3, <3>5
  <2>5. m[1][1]*m[3][1] + m[1][2]*m[3][2] + m[1][3]*m[3][3] = P*(0) /\ 0 \in Int
    <3>1. (-(sl*cg))*(cl) + (-sg)*(0) + (-(cl*cg))*(-sl) = P*(0)
      BY <1>1, <2>a0, <2>a1
    <3> QED BY <2>1, <3>1
  <2>6. m[2][1]*m[2][1] + m[2][2]*m[2][2] + m[2][3]*m[2][3] = 1 + P*(kcg + kcl*sg*sg) /\ kcg + kcl*sg*sg \in Int
    <3> DEFINE w == cl*cl + sl*sl  u == sg*sg  v == cg*cg
    <3>1. (-(sl*sg))*(-(sl*sg)) + (cg)*(cg) + (-(cl*sg))*(-(cl*sg)) = w*u + v /\ u \in Int /\ v \in Int /\ w = 1 + P*kcl
      <4>1. (-(sl*sg))*(-(sl*sg)) + (cg)*(cg) + (-(cl*sg))*(-(cl*sg)) = w*u + v
        OBVIOUS
      <4>2. u \in Int /\ v \in Int /\ w = 1 + P*kcl
        BY <2>a0, <2>a1
      <4> QED BY <4>1, <4>2
    <3>2. u + v = 1 + P*kcg
      BY <2>a0, <2>a1
    <3>3. kcg + kcl*sg*sg = kcg + kcl*u /\ kcg + kcl*sg*sg \in Int
      OBVIOUS
    <3> HIDE DEF w, u, v
    <3>4. w*u + v = (u + v) + P*(kcl*u)
      BY <1>1, <3>1
    <3>5. (-(sl*sg))*(-(sl*sg)) + (cg)*(cg) + (-(cl*sg))*(-(cl*sg)) = 1 + P*(kcg + kcl*sg*sg)
      <4> DEFINE x == (-(sl*sg))*(-(sl*sg)) + (cg)*(cg) + (-(cl*sg))*(-(cl*sg))  z == kcg + kcl*sg*sg  f == kcl*u
      <4>1. f \in Int /\ x = (u + v) + P*f /\ z = kcg + f
        BY <3>1, <3>3, <3>4
      <4> HIDE DEF x, z, f
      <4> QED BY <1>1, <3>1, <3>2, <4>1 DEF x, z
    <3> QED BY <2>1, <3>3, <3>5
  <2>7. m[2][1]*m[3][1] + m[2][2]*m[3][2] + m[2][3]*m[3][3] = P*(0) /\ 0 \in Int
    <3>1. (-(sl*sg))*(cl) + (cg)*(0) + (-(cl*sg))*(-sl) = P*(0)
      BY <1>1, <2>a0, <2>a1
    <3> QED BY <2>1, <3>1
  <2>8. m[3][1]*m[3][1] + m[3][2]*m[3][2] + m[3][3]*m[3][3] = 1 + P*(kcl) /\ kcl \in Int
    <3>1. (cl)*(cl) + (0)*(0) + (-sl)*(-sl) = 1 + P*(kcl)
      BY <1>1, <2>a0, <2>a1
    <3> QED BY <2>1, <3>1
  <2>10. CongM(MatMul(m, MatTrans(m)), Identity)
    BY <2>2, <2>3, <2>4, <2>5, <2>6, <2>7, <2>8, RowsRotate DEF P
  <2>11. IntM(ModM(m)) /\ CongM(ModM(m), m)
    BY <2>2, ModMIs
  <2> QED BY <2>2, <2>10, <2>11, RotationStored DEF m
<1>3. Rotation(ModM(setR_iv(r, p, y)))
  <2> DEFINE m == setR_iv(r, p, y)
  <2>a0. PICK ci \in Int, si \in Int, kci \in Int : ci = cos(r + y) /\ si = sin(r + y) /\ ci*ci + si*si = 1 + P*kci
    <3>1. r + y \in Int
      OBVIOUS
    <3>2. cos(r + y) \in Int /\ sin(r + y) \in Int
      BY <3>1, FullIs
    <3> QED BY <3>1, <3>2, CircleRest DEF P
  <2>a1. PICK cl \in Int, sl \in Int, kcl \in Int : cl = cos(p) /\ sl = sin(p) /\ cl*cl + sl*sl = 1 + P*kcl
    <3>1. p \in Int
      OBVIOUS
    <3>2. cos(p) \in Int /\ sin(p) \in Int
      BY <3>1, FullIs
    <3> QED BY <3>1, <3>2, CircleRest DEF P
  <2>1. /\ m[1][1] = -(ci*sl) /\ m[1][2] = -(si*sl) /\ m[1][3] = cl
        /\ m[2][1] = si /\ m[2][2] = -ci /\ m[2][3] = 0
        /\ m[3][1] = ci*cl /\ m[3][2] = si*cl /\ m[3][3] = sl
    BY <2>a0, <2>a1 DEF setR_iv
  <2> HIDE DEF m
  <2>2. IntM(m)
    <3>1. /\ m[1][1] \in Int /\ m[1][2] \in Int /\ m[1][3] \in Int
          /\ m[2][1] \in Int /\ m[2][2] \in Int /\ m[2][3] \in Int
          /\ m[3][1] \in Int /\ m[3][2] \in Int /\ m[3][3] \in Int
      BY <2>1
    <3> QED BY <3>1, IntEntries
  <2>3. m[1][1]*m[1][1] + m[1][2]*m[1][2] + m[1][3]*m[1][3] = 1 + P*(kcl + kci*sl*sl) /\ kcl + kci*sl*sl \in Int
    <3> DEFINE w == ci*ci + si*si  u == sl*sl  v == cl*cl
    <3>1. (-(ci*sl))*(-(ci*sl)) + (-(si*sl))*(-(si*sl)) + (cl)*(cl) = w*u + v /\ u \in Int /\ v \in Int /\ w = 1 + P*kci
      <4>1. (-(ci*sl))*(-(ci*sl)) + (-(si*sl))*(-(si*sl)) + (cl)*(cl) = w*u + v
        OBVIOUS
      <4>2. u \in Int /\ v \in Int /\ w = 1 + P*kci
        BY <2>a0, <2>a1
      <4> QED BY <4>1, <4>2
    <3>2. u + v = 1 + P*kcl
      BY <2>a0, <2>a1
    <3>3. kcl + kci*sl*sl = kcl + kci*u /\ kcl + kci*sl*sl \in Int
      OBVIOUS
    <3> HIDE DEF w, u, v
    <3>4. w*u + v = (u + v) + P*(kci*u)
      BY <1>1, <3>1
    <3>5. (-(ci*sl))*(-(ci*sl)) + (-(si*sl))*(-(si*sl)) + (cl)*(cl) = 1 + P*(kcl + kci*sl*sl)
      <4> DEFINE x == (-(ci*sl))*(-(ci*sl)) + (-(si*sl))*(-(si*sl)) + (cl)*(cl)  z == kcl + kci*sl*sl  f == kci*u
      <4>1. f \in Int /\ x = (u + v) + P*f /\ z = kcl + f
        BY <3>1, <3>3, <3>4
      <4> HIDE DEF x, z, f
      <4> QED BY <1>1, <3>1, <3>2, <4>1 DEF x, z
    <3> QED BY <2>1, <3>3, <3>5
  <2>4. m[1][1]*m[2][1] + m[1][2]*m[2][2] + m[1][3]*m[2][3] = P*(0) /\ 0 \in Int
    <3>1. (-(ci*sl))*(si) + (-(si*sl))*(-ci) + (cl)*(0) = P*(0)
      BY <1>1, <2>a0, <2>a1
    <3> QED BY <2>1, <3>1
  <2>5. m[1][1]*m[3][1] + m[1][2]*m[3][2] + m[1][3]*m[3][3] = P*(-(kci*sl*cl)) /\ -(kci*sl*cl) \in Int
    <3> DEFINE w == ci*ci + si*si  u == -(sl*cl)  v == cl*sl
    <3>1. (-(ci*sl))*(ci*cl) + (-(si*sl))*(si*cl) + (cl)*(sl) = w*u + v /\ u \in Int /\ v \in Int /\ w = 1 + P*kci
      <4>1. (-(ci*sl))*(ci*cl) + (-(si*sl))*(si*cl) + (cl)*(sl) = w*u + v
        OBVIOUS
      <4>2. u \in Int /\ v \in Int /\ w = 1 + P*kci
        BY <2>a0, <2>a1
      <4> QED BY <4>1, <4>2
    <3>2. u + v = 0
      BY <2>a0, <2>a1
    <3>3. -(kci*sl*cl) = kci*u /\ -(kci*sl*cl) \in Int
      OBVIOUS
    <3> HIDE DEF w, u, v
    <3>4. w*u + v = (u + v) + P*(kci*u)
      BY <1>1, <3>1
    <3>5. (-(ci*sl))*(ci*cl) + (-(si*sl))*(si*cl) + (cl)*(sl) = P*(-(kci*sl*cl))
      <4> DEFINE x == (-(ci*sl))*(ci*cl) + (-(si*sl))*(si*cl) + (cl)*(sl)  z == -(kci*sl*cl)  f == kci*u
      <4>1. f \in Int /\ x = (u + v) + P*f /\ z = f
        BY <3>1, <3>3, <3>4
      <4> HIDE DEF x, z, f
      <4> QED BY <1>1, <3>1, <3>2, <4>1 DEF x, z
    <3> QED BY <2>1, <3>3, <3>5
  <2>6. m[2][1]*m[2][1] + m[2][2]*m[2][2] + m[2][3]*m[2][3] = 1 + P*(kci) /\ kci \in Int
    <3>1. (si)*(si) + (-ci)*(-ci) + (0)*(0) = 1 + P*(kci)
      BY <1>1, <2>a0, <2>a1
    <3> QED BY <2>1, <3>1
  <2>7. m[2][1]*m[3][1] + m[2][2]*m[3][2] + m[2][3]*m[3][3] = P*(0) /\ 0 \in Int
    <3>1. (si)*(ci*cl) + (-ci)*(si*cl) + (0)*(sl) = P*(0)
      BY <1>1, <2>a0, <2>a1
    <3> QED BY <2>1, <3>1
  <2>8. m[3][1]*m[3][1] + m[3][2]*m[3][2] + m[3][3]*m[3][3] = 1 + P*(kcl + kci*cl*cl) /\ kcl + kci*cl*cl \in Int
    <3> DEFINE w == ci*ci + si*si  u == cl*cl  v == sl*sl
    <3>1. (ci*cl)*(ci*cl) + (si*cl)*(si*cl) + (sl)*(sl) = w*u + v /\ u \in Int /\ v \in Int /\ w = 1 + P*kci
      <4>1. (ci*cl)*(ci*cl) + (si*cl)*(si*cl) + (sl)*(sl) = w*u + v
        OBVIOUS
      <4>2. u \in Int /\ v \in Int /\ w = 1 + P*kci
        BY <2>a0, <2>a1
      <4> QED BY <4>1, <4>2
    <3>2. u + v = 1 + P*kcl
      BY <2>a0, <2>a1
    <3>3. kcl + kci*cl*cl = kcl + kci*u /\ kcl + kci*cl*cl \in Int
      OBVIOUS
    <3> HIDE DEF w, u, v
    <3>4. w*u + v = (u + v) + P*(kci*u)
      BY <1>1, <3>1
    <3>5. (ci*cl)*(ci*cl) + (si*cl)*(si*cl) + (sl)*(sl) = 1 + P*(kcl + kci*cl*cl)
      <4> DEFINE x == (ci*cl)*(ci*cl) + (si*cl)*(si*cl) + (sl)*(sl)  z == kcl + kci*cl*cl  f == kci*u
      <4>1. f \in Int /\ x = (u + v) + P*f /\ z = kcl + f
        BY <3>1, <3>3, <3>4
      <4> HIDE DEF x, z, f
      <4> QED BY <1>1, <3>1, <3>2, <4>1 DEF x, z
    <3> QED BY <2>1, <3>3, <3>5
  <2>10. CongM(MatMul(m, MatTrans(m)), Identity)
    BY <2>2, <2>3, <2>4, <2>5, <2>6, <2>7, <2>8, RowsRotate DEF P
  <2>11. IntM(ModM(m)) /\ CongM(ModM(m), m)
    BY <2>2, ModMIs
  <2> QED BY <2>2, <2>10, <2>11, RotationStored DEF m
<1>4. Rotation(ModM(setR_cv(r)))
  <2> DEFINE m == setR_cv(r)
  <2>a0. PICK ca \in Int, sa \in Int, kca \in Int : ca = cos(r) /\ sa = sin(r) /\ ca*ca + sa*sa = 1 + P*kca
    <3>1. r \in Int
      OBVIOUS
    <3>2. cos(r) \in Int /\ sin(r) \in Int
      BY <3>1, FullIs
    <3> QED BY <3>1, <3>2, CircleRest DEF P
  <2>1. /\ m[1][1] = ca /\ m[1][2] = 0 /\ m[1][3] = sa
        /\ m[2][1] = 0 /\ m[2][2] = 1 /\ m[2][3] = 0
        /\ m[3][1] = -sa /\ m[3][2] = 0 /\ m[3][3] = ca
    BY <2>a0 DEF setR_cv
  <2> HIDE DEF m
  <2>2. IntM(m)
    <3>1. /\ m[1][1] \in Int /\ m[1][2] \in Int /\ m[1][3] \in Int
          /\ m[2][1] \in Int /\ m[2][2] \in Int /\ m[2][3] \in Int
          /\ m[3][1] \in Int /\ m[3][2] \in Int /\ m[3][3] \in Int
      BY <2>1
    <3> QED BY <3>1, IntEntries
  <2>3. m[1][1]*m[1][1] + m[1][2]*m[1][2] + m[1][3]*m[1][3] = 1 + P*(kca) /\ kca \in Int
    <3>1. (ca)*(ca) + (0)*(0) + (sa)*(sa) = 1 + P*(kca)
      BY <1>1, <2>a0
    <3> QED BY <2>1, <3>1
  <2>4. m[1][1]*m[2][1] + m[1][2]*m[2][2] + m[1][3]*m[2][3] = P*(0) /\ 0 \in Int
    <3>1. (ca)*(0) + (0)*(1) + (sa)*(0) = P*(0)
      BY <1>1, <2>a0
    <3> QED BY <2>1, <3>1
  <2>5. m[1][1]*m[3][1] + m[1][2]*m[3][2] + m[1][3]*m[3][3] = P*(0) /\ 0 \in Int
    <3>1. (ca)*(-sa) + (0)*(0) + (sa)*(ca) = P*(0)
      BY <1>1, <2>a0
    <3> QED BY <2>1, <3>1
  <2>6. m[2][1]*m[2][1] + m[2][2]*m[2][2] + m[2][3]*m[2][3] = 1 + P*(0) /\ 0 \in Int
    <3>1. (0)*(0) + (1)*(1) + (0)*(0) = 1 + P*(0)
      BY <1>1, <2>a0
    <3> QED BY <2>1, <3>1
  <2>7. m[2][1]*m[3][1] + m[2][2]*m[3][2] + m[2][3]*m[3][3] = P*(0) /\ 0 \in Int
    <3>1. (0)*(-sa) + (1)*(0) + (0)*(ca) = P*(0)
      BY <1>1, <2>a0
    <3> QED BY <2>1, <3>1
  <2>8. m[3][1]*m[3][1] + m[3][2]*m[3][2] + m[3][3]*m[3][3] = 1 + P*(kca) /\ kca \in Int
    <3>1. (-sa)*(-sa) + (0)*(0) + (ca)*(ca) = 1 + P*(kca)
      BY <1>1, <2>a0
    <3> QED BY <2>1, <3>1
  <2>10. CongM(MatMul(m, MatTrans(m)), Identity)
    BY <2>2, <2>3, <2>4, <2>5, <2>6, <2>7, <2>8, RowsRotate DEF P
  <2>11. IntM(ModM(m)) /\ CongM(ModM(m), m)
    BY <2>2, ModMIs
  <2> QED BY <2>2, <2>10, <2>11, RotationStored DEF m
<1> QED BY <1>2, <1>3, <1>4

LEMMA OneMatrixTwice ==
  ASSUME NEW r \in Int, NEW p \in Int
  PROVE  SameMatrix(ModM(Rec(r, p)), MatTrans(ModM(setR_ev(p, r))))
<1> DEFINE m == Rec(r, p)  n == setR_ev(p, r)
<1>1. p + 0 = p
  OBVIOUS
<1>2. PICK a \in Int, b \in Int, c \in Int, d \in Int : a = cos(r) /\ b = sin(r) /\ c = cos(p) /\ d = sin(p)
  BY FullIs
<1>3. /\ m[1][1] = -c*b /\ m[1][2] = d /\ m[1][3] = c*a
      /\ m[2][1] = -d*b /\ m[2][2] = -c /\ m[2][3] = d*a
      /\ m[3][1] = a /\ m[3][2] = 0 /\ m[3][3] = b
  BY <1>2 DEF Rec
<1>4. /\ n[1][1] = -c*b /\ n[1][2] = -d*b /\ n[1][3] = a
      /\ n[2][1] = d /\ n[2][2] = -c /\ n[2][3] = 0
      /\ n[3][1] = c*a /\ n[3][2] = d*a /\ n[3][3] = b
  BY <1>1, <1>2 DEF setR_ev, setR_iv
<1> HIDE DEF m, n
<1>5. /\ m[1][1] \in Int /\ m[1][2] \in Int /\ m[1][3] \in Int
      /\ m[2][1] \in Int /\ m[2][2] \in Int /\ m[2][3] \in Int
      /\ m[3][1] \in Int /\ m[3][2] \in Int /\ m[3][3] \in Int
  BY <1>3
<1>6. IntM(m) /\ IntM(n)
  <2>1. IntM(m)
    BY <1>5, IntEntries
  <2>2. /\ n[1][1] \in Int /\ n[1][2] \in Int /\ n[1][3] \in Int
        /\ n[2][1] \in Int /\ n[2][2] \in Int /\ n[2][3] \in Int
        /\ n[3][1] \in Int /\ n[3][2] \in Int /\ n[3][3] \in Int
    BY <1>4
  <2> QED BY <2>1, <2>2, IntEntries
<1>7. Same3(m, MatTrans(n))
  <2> DEFINE t == MatTrans(n)
  <2>1. \A i, j \in Three : t[i][j] = n[j][i]
    BY TransIs
  <2> HIDE DEF t
  <2>2. /\ t[1][1] = n[1][1] /\ t[1][2] = n[2][1] /\ t[1][3] = n[3][1]
        /\ t[2][1] = n[1][2] /\ t[2][2] = n[2][2] /\ t[2][3] = n[3][2]
        /\ t[3][1] = n[1][3] /\ t[3][2] = n[2][3] /\ t[3][3] = n[3][3]
    BY <2>1 DEF Three
  <2>3. Same3(m, t)
    BY <1>3, <1>4, <2>2, Entries
  <2> QED BY <2>3 DEF t
<1>8. /\ IntM(ModM(m)) /\ CongM(ModM(m), m) /\ HasShape(ModM(m))
      /\ IntM(ModM(n)) /\ CongM(n, ModM(n))
  BY <1>6, ModMIs, CongMEqual
<1>9. /\ IntM(MatTrans(n)) /\ CongM(MatTrans(n), MatTrans(ModM(n))) /\ IntM(MatTrans(ModM(n)))
  BY <1>6, <1>8, TransIs
<1>10. CongM(m, MatTrans(n))
  BY <1>7, <1>9, CongMEqual
<1>11. CongM(ModM(m), MatTrans(n))
  BY <1>6, <1>8, <1>9, <1>10, CongMEqual
<1>12. CongM(ModM(m), MatTrans(ModM(n)))
  BY <1>8, <1>9, <1>11, CongMEqual
<1> QED BY <1>8, <1>12, SameMatrixIs DEF m, n

LEMMA OneRotation ==
  ASSUME NEW r \in Int, NEW p \in Int, NEW y \in Int
  PROVE  LET a == Mod(e2q(r, p, y))
             m == ModM(q2R(a))
             d == ModM(setR123_Euler(r, p, y))
         IN  /\ SameMatrix(m, MatTrans(d)) /\ Rotation(d)
             /\ SameMatrix(q2R(Mod(Mult(a, About(2, r)))), MatMul(ModM(q2R(About(2, r))), m))
<1> DEFINE a == Mod(e2q(r, p, y))  m == ModM(q2R(a))
           e == setR123_Euler(r, p, y)  d == ModM(e)
<1>1. a \in Quaternion /\ Cong(norm2(a), 1) /\ CongM(q2R(a), MatTrans(e)) /\ IntM(q2R(a))
  BY QuaternionMatrix, q2RIs
<1>2. IntM(e) /\ CongM(MatMul(e, MatTrans(e)), Identity)
  BY EulerIs, EulerRotates
<1> HIDE DEF a, e
<1>3. IntM(d) /\ CongM(d, e) /\ IntM(m) /\ CongM(m, q2R(a)) /\ HasShape(m)
  BY <1>1, <1>2, ModMIs
<1>4. Rotation(d)
  BY <1>2, <1>3, RotationStored
<1> HIDE DEF m, d
<1>5. CongM(e, d)
  BY <1>2, <1>3, CongMEqual
<1>6. CongM(MatTrans(e), MatTrans(d)) /\ IntM(MatTrans(e)) /\ IntM(MatTrans(d))
  BY <1>2, <1>3, <1>5, TransIs
<1>7. CongM(m, MatTrans(e))
  BY <1>1, <1>3, <1>6, CongMEqual
<1>8. CongM(m, MatTrans(d))
  BY <1>3, <1>6, <1>7, CongMEqual
<1>9. SameMatrix(m, MatTrans(d))
  BY <1>3, <1>8, SameMatrixIs
<1>10. SameMatrix(q2R(Mod(Mult(a, About(2, r)))), MatMul(ModM(q2R(About(2, r))), m))
  BY <1>1, TurnLength, StoredProduct DEF m
<1> QED BY <1>4, <1>9, <1>10 DEF a, m, d, e

\* The matrix q2R makes of a quaternion is the transpose of the one
\* setR123_Euler fills from its angles, products go to products, and the matrices
\* rotation.c fills between the frames of the Earth are rotations.
THEOREM RotationTheorem == Spec => []SameRotation
<1>1. SameRotation
  <2> SUFFICES ASSUME NEW r \in Int, NEW p \in Int, NEW y \in Int
               PROVE  LET a == Mod(e2q(r, p, y))
                          m == ModM(q2R(a))
                          d == ModM(setR123_Euler(r, p, y))
                      IN  /\ SameMatrix(m, MatTrans(d)) /\ Rotation(d)
                          /\ SameMatrix(q2R(Mod(Mult(a, About(2, r)))), MatMul(ModM(q2R(About(2, r))), m))
                          /\ Rotation(ModM(setR_ne(r, p))) /\ Rotation(ModM(setR_iv(r, p, y)))
                          /\ Rotation(ModM(setR_cv(r)))
                          /\ SameMatrix(ModM(Rec(r, p)), MatTrans(ModM(setR_ev(p, r))))
    BY StepsInt DEF SameRotation
  <2> QED BY OneRotation, EarthFrames, OneMatrixTwice
<1> QED BY <1>1, PTL

-----------------------------------------------------------------------------
(* Angles of sines and cosines.                                            *)

LEMMA TurnParts == /\ Turn = 4 * Quarter /\ Quarter \in Int /\ Quarter > 0
                   /\ \A k \in Pitches : k \in Int /\ k \in -Quarter..Quarter /\ ~ (k \in {-Quarter, Quarter})
                   /\ \A k \in AnyAngle : k \in Int
                   /\ \A k \in -Quarter..Quarter : k \in Int
<1>1. Turn \in Int /\ Turn > 0 /\ Turn % 4 = 0
  BY AngleAssumption
<1>2. Turn = 4 * (Turn \div 4) /\ Turn \div 4 \in Int
  BY <1>1
<1>3. Turn = 4 * Quarter /\ Quarter \in Int
  BY <1>2 DEF Quarter
<1>4. Quarter > 0
  BY <1>1, <1>3
<1> QED BY <1>3, <1>4 DEF Pitches, AnyAngle

LEMMA TurnsApart ==
  ASSUME NEW j \in Int, NEW k \in Int
  PROVE  (j - k) % Turn = 0 <=> \E w \in Int : j = k + Turn * w
<1> DEFINE n == Turn
<1>0. n \in Int /\ n > 0
  BY TurnIs
<1> HIDE DEF n
<1>1. \A x \in Int : x % n = 0 => x = n * (x \div n) /\ x \div n \in Int
  BY <1>0
<1>2. ASSUME (j - k) % n = 0 PROVE \E w \in Int : j = k + n * w
  <2>1. j - k \in Int
    OBVIOUS
  <2>2. j - k = n * ((j - k) \div n) /\ (j - k) \div n \in Int
    BY <1>1, <1>2, <2>1
  <2>3. PICK w \in Int : j - k = n * w
    BY <2>2
  <2>4. j = k + n * w
    <3> DEFINE v == n * w
    <3>1. v \in Int /\ j - k = v
      BY <1>0, <2>3
    <3> HIDE DEF v
    <3>2. j = k + v
      BY <3>1
    <3> QED BY <3>2 DEF v
  <2> QED BY <2>4
<1>3. ASSUME NEW w \in Int, j = k + n * w PROVE (j - k) % n = 0
  <2>1. j - k = n * w
    <3> DEFINE v == n * w
    <3>1. v \in Int /\ j = k + v
      BY <1>0, <1>3
    <3> HIDE DEF v
    <3>2. j - k = v
      BY <3>1
    <3> QED BY <3>2 DEF v
  <2>2. (n * w) % n = 0
    BY <1>0, MultipleOf
  <2> QED BY <2>1, <2>2
<1> QED BY <1>2, <1>3 DEF n

\* Every angle is one of AnyAngle and some full turns.
LEMMA OneOfAnyAngle ==
  ASSUME NEW r \in Int
  PROVE  \E k \in AnyAngle : (k - r) % Turn = 0
<1> DEFINE n == Turn  w == r \div n  k0 == r % n
<1>0. n \in Int /\ n > 0 /\ n = 4 * Quarter /\ Quarter \in Int /\ Quarter > 0
  BY TurnIs, TurnParts
<1>1. r = n * w + k0 /\ w \in Int /\ k0 \in 0..(n - 1)
  <2> HIDE DEF n
  <2> QED BY <1>0
<1> HIDE DEF n, w, k0
<1>2. k0 = r + n * (0 - w) /\ 0 - w \in Int /\ k0 \in Int
  BY <1>0, <1>1
<1>3. k0 - n = r + n * (0 - w - 1) /\ 0 - w - 1 \in Int /\ k0 - n \in Int
  BY <1>0, <1>1
<1>4. (k0 - r) % Turn = 0
  BY <1>2, TurnsApart DEF n
<1>5. ((k0 - n) - r) % Turn = 0
  BY <1>3, TurnsApart DEF n
<1>6. k0 \in AnyAngle \/ k0 - n \in AnyAngle
  BY <1>0, <1>1 DEF AnyAngle
<1> QED BY <1>4, <1>5, <1>6

LEMMA AsinIs ==
  ASSUME NEW x \in Int, NEW p \in -Quarter..Quarter, Cong(x, sin(p))
  PROVE  asin(x) = p
<1> DEFINE A(k) == (sin(k) - x) % Prime = 0
<1>1. \A k \in -Quarter..Quarter : k \in Int /\ sin(k) \in Int
  BY TurnParts, FullIs
<1>2. \A k \in -Quarter..Quarter : A(k) <=> Cong(sin(k), x)
  BY DEF Cong
<1>3. A(p)
  BY <1>1, <1>2, CongEqual
<1>4. ASSUME NEW k \in -Quarter..Quarter, A(k) PROVE k = p
  <2>1. Cong(sin(k), sin(p))
    BY <1>1, <1>2, <1>4, CongEqual
  <2> QED BY <2>1, AngleIsKnown DEF Cong
<1> HIDE DEF A
<1>5. (CHOOSE k \in -Quarter..Quarter : A(k)) = p
  BY <1>3, <1>4
<1> QED BY <1>5 DEF A, asin

LEMMA Atan2Is ==
  ASSUME NEW x \in Int, NEW z \in Int, NEW r \in Int, Cong(x, cos(r)), Cong(z, sin(r))
  PROVE  atan2(z, x) \in AnyAngle /\ (atan2(z, x) - r) % Turn = 0
<1>1. PICK k \in AnyAngle : (k - r) % Turn = 0
  BY OneOfAnyAngle
<1>2. k \in Int
  BY TurnParts
<1>3. cos(k) = cos(r) /\ sin(k) = sin(r)
  BY <1>1, <1>2, FullTurn
<1>4. \A j \in AnyAngle : cos(j) \in Int /\ sin(j) \in Int
  BY TurnParts, FullIs
<1>5. cos(r) \in Int /\ sin(r) \in Int
  BY FullIs
<1> DEFINE A(j) == (cos(j) - x) % Prime = 0 /\ (sin(j) - z) % Prime = 0
<1>6. \A j \in AnyAngle : A(j) <=> Cong(cos(j), x) /\ Cong(sin(j), z)
  BY DEF Cong
<1>7. A(k)
  BY <1>3, <1>5, <1>6, CongEqual
<1> HIDE DEF A
<1> DEFINE j == CHOOSE i \in AnyAngle : A(i)
<1>8. j \in AnyAngle /\ A(j)
  BY <1>7
<1> HIDE DEF j
<1>9. Cong(cos(j), cos(k)) /\ Cong(sin(j), sin(k))
  BY <1>3, <1>4, <1>5, <1>6, <1>8, CongEqual
<1>10. j = k
  BY <1>8, <1>9, AngleIsKnown DEF Cong
<1>11. atan2(z, x) = j
  BY DEF atan2, A, j
<1> QED BY <1>1, <1>10, <1>11

LEMMA RecipIs ==
  ASSUME NEW p \in Pitches
  PROVE  Recip(cos(p)) \in Int /\ Cong(cos(p) * Recip(cos(p)), 1)
<1> DEFINE x == cos(p)  A(y) == (x * y) % Prime = 1  c == CHOOSE y \in 0..(Prime - 1) : A(y)
<1>1. x \in Int
  BY TurnParts, FullIs
<1>2. \E y \in 0..(Prime - 1) : A(y)
  BY AngleIsKnown
<1> HIDE DEF A, x
<1>3. c \in 0..(Prime - 1) /\ A(c)
  BY <1>2
<1>4. Recip(x) = c
  BY DEF Recip, A
<1> HIDE DEF c
<1>5. c \in Int
  BY <1>3, RecordAssumption
<1>6. (x * c) % Prime = 1
  BY <1>3 DEF A
<1> DEFINE u == x * c
<1>7. u \in Int
  BY <1>1, <1>5
<1> HIDE DEF u
<1>8. u % Prime = 1 /\ Cong(u, u % Prime)
  BY <1>6, <1>7, CongEqual DEF u
<1>9. Cong(u, 1)
  BY <1>8
<1> QED BY <1>4, <1>5, <1>9 DEF u, x

\* The angles of sines and cosines that are each a multiple of the cosine of
\* the pitch.
LEMMA AnglesShort ==
  ASSUME NEW r \in Int, NEW p \in Pitches, NEW y \in Int,
         NEW x \in Int, NEW sr \in Int, NEW cr \in Int, NEW sy \in Int, NEW cy \in Int,
         Cong(x, sin(p)), Cong(sr, sin(r) * cos(p)), Cong(cr, cos(r) * cos(p)),
         Cong(sy, sin(y) * cos(p)), Cong(cy, cos(y) * cos(p)),
         NEW e \in Angles(asin(x), sr, cr, sy, cy)
  PROVE  /\ e[1] \in Int /\ e[2] = p /\ e[3] \in Int
         /\ (e[1] - r) % Turn = 0 /\ (e[3] - y) % Turn = 0
<1>1. asin(x) = p /\ p \in Int /\ ~ (p \in {-Quarter, Quarter})
  BY TurnParts, AsinIs
<1> DEFINE c == Recip(cos(p))
<1>2. e = <<atan2(sr * c, cr * c), p, atan2(sy * c, cy * c)>>
  BY <1>1 DEF Angles
<1>3. c \in Int /\ Cong(cos(p) * c, 1) /\ cos(p) \in Int
  BY <1>1, RecipIs, FullIs
<1> HIDE DEF c
<1>4. ASSUME NEW u \in Int, NEW v \in Int, Cong(u, v * cos(p)) PROVE Cong(u * c, v)
  <2> DEFINE d == cos(p)  f == v * d  g == d * c
  <2>1. d \in Int /\ f \in Int /\ g \in Int /\ Cong(g, 1) /\ Cong(u, f) /\ Cong(c, c) /\ Cong(v, v)
    BY <1>3, <1>4, CongEqual
  <2>2. f * c = v * g
    <3> HIDE DEF d
    <3> QED BY <1>3, <2>1 DEF f, g
  <2> HIDE DEF d, f, g
  <2>3. Cong(u * c, f * c)
    BY <1>3, <2>1, CongSum
  <2>4. Cong(v * g, v * 1)
    BY <2>1, CongSum
  <2>5. u * c \in Int /\ f * c \in Int /\ v * 1 = v
    BY <1>3, <2>1
  <2>6. Cong(f * c, v)
    BY <2>2, <2>4, <2>5
  <2> QED BY <2>3, <2>5, <2>6, CongEqual
<1>5. /\ sin(r) \in Int /\ cos(r) \in Int /\ sin(y) \in Int /\ cos(y) \in Int
      /\ sr * c \in Int /\ cr * c \in Int /\ sy * c \in Int /\ cy * c \in Int
  BY <1>3, FullIs
<1>6. Cong(sr * c, sin(r)) /\ Cong(cr * c, cos(r)) /\ Cong(sy * c, sin(y)) /\ Cong(cy * c, cos(y))
  BY <1>4, <1>5
<1>7. /\ atan2(sr * c, cr * c) \in AnyAngle /\ (atan2(sr * c, cr * c) - r) % Turn = 0
      /\ atan2(sy * c, cy * c) \in AnyAngle /\ (atan2(sy * c, cy * c) - y) % Turn = 0
  BY <1>5, <1>6, Atan2Is
<1> QED BY <1>2, <1>7, TurnParts

LEMMA HeadingIs ==
  ASSUME NEW k \in Int, NEW y \in Int, (k - y) % Turn = 0
  PROVE  Heading(k) \in Int /\ (Heading(k) - y) % Turn = 0
<1>1. Turn \in Int
  BY TurnIs
<1>2. PICK w \in Int : k = y + Turn * w
  BY TurnsApart
<1> DEFINE n == Turn
<1> HIDE DEF n
<1>3. k + n = y + n * (w + 1) /\ w + 1 \in Int /\ k + n \in Int
  BY <1>1, <1>2 DEF n
<1>4. ((k + n) - y) % Turn = 0
  BY <1>3, TurnsApart DEF n
<1>5. CASE k < 0
  BY <1>3, <1>4, <1>5 DEF Heading, n
<1>6. CASE ~ (k < 0)
  BY <1>6 DEF Heading
<1> QED BY <1>5, <1>6

-----------------------------------------------------------------------------
(* AnglesComeBack.                                                         *)

\* The elements of the matrix that angles are taken from.
LEMMA FiveEntries ==
  ASSUME NEW r \in Int, NEW p \in Int, NEW y \in Int
  PROVE  LET m == q2R(Mod(e2q(r, p, y)))
         IN  /\ IntM(m)
             /\ Cong(m[1][1], cos(y) * cos(p)) /\ Cong(m[1][2], sin(y) * cos(p))
             /\ Cong(-m[1][3], sin(p))
             /\ Cong(m[2][3], sin(r) * cos(p)) /\ Cong(m[3][3], cos(r) * cos(p))
<1> DEFINE a == Mod(e2q(r, p, y))  m == q2R(a)  d == setR123_Euler(r, p, y)  n == MatTrans(d)
<1>1. CongM(m, n) /\ IntM(m)
  BY QuaternionMatrix, q2RIs
<1>2. /\ d[1][1] = cos(p)*cos(y) /\ d[2][1] = cos(p)*sin(y) /\ d[3][1] = -sin(p)
      /\ d[3][2] = sin(r)*cos(p) /\ d[3][3] = cos(r)*cos(p)
  BY EulerIs
<1>3. \A i, j \in Three : n[i][j] = d[j][i]
  BY TransIs
<1> HIDE DEF a, m, d, n
<1>4. /\ n[1][1] = d[1][1] /\ n[1][2] = d[2][1] /\ n[1][3] = d[3][1] /\ n[2][3] = d[3][2] /\ n[3][3] = d[3][3]
  BY <1>3 DEF Three
<1>5. /\ Cong(m[1][1], n[1][1]) /\ Cong(m[1][2], n[1][2]) /\ Cong(m[1][3], n[1][3])
      /\ Cong(m[2][3], n[2][3]) /\ Cong(m[3][3], n[3][3])
  BY <1>1 DEF CongM, Three
<1> DEFINE u == cos(p)  v == cos(y)  w == sin(y)  x == sin(p)
<1>6. u \in Int /\ v \in Int /\ w \in Int /\ x \in Int
  BY FullIs
<1> HIDE DEF u, v, w, x
<1>7. u*v = v*u /\ u*w = w*u
  BY <1>6
<1>8. Cong(m[1][1], v*u) /\ Cong(m[1][2], w*u) /\ Cong(m[1][3], -x)
  BY <1>2, <1>4, <1>5, <1>7 DEF u, v, w, x
<1>9. Cong(-m[1][3], x)
  <2>1. m[1][3] \in Int /\ -x \in Int /\ -(-x) = x
    BY <1>1, <1>6, IntEntries
  <2>2. Cong(-m[1][3], -(-x))
    BY <1>8, <2>1, CongSum
  <2> QED BY <2>1, <2>2
<1> QED BY <1>1, <1>2, <1>4, <1>5, <1>8, <1>9 DEF u, v, w, x, m, a

LEMMA ComesBack ==
  ASSUME NEW r \in Int, NEW p \in Pitches, NEW y \in Int
  PROVE  LET a == Mod(e2q(r, p, y))
         IN  \A e \in q2e(a) \cup q2e3(a) : SameAngles(e, <<r, p, y>>) /\ e[1] \in Int /\ e[2] \in Int /\ e[3] \in Int
<1> DEFINE a == Mod(e2q(r, p, y))  m == q2R(a)
<1>0. p \in Int
  BY TurnParts
<1>1. /\ IntM(m)
      /\ Cong(m[1][1], cos(y) * cos(p)) /\ Cong(m[1][2], sin(y) * cos(p)) /\ Cong(-m[1][3], sin(p))
      /\ Cong(m[2][3], sin(r) * cos(p)) /\ Cong(m[3][3], cos(r) * cos(p))
  BY <1>0, FiveEntries
<1>2. a \in Quaternion /\ Cong(norm2(a), 1) /\ norm2(a) \in Int
  BY <1>0, QuaternionMatrix, q2RIs
<1> HIDE DEF a, m
<1>3. PICK a1 \in Int, a2 \in Int, a3 \in Int, a4 \in Int : a = <<a1, a2, a3, a4>>
  BY <1>2 DEF Quaternion
<1>4. /\ m[1][1] = 2*(a4*a4) - 1 + 2*(a1*a1)
      /\ m[3][3] = 2*(a4*a4) - 1 + 2*(a3*a3)
      /\ m[1][2] = 2*(a1*a2) + 2*(a4*a3)
      /\ m[1][3] = 2*(a1*a3) - 2*(a4*a2)
      /\ m[2][3] = 2*(a2*a3) + 2*(a4*a1)
  BY <1>2, <1>3, q2RIs DEF m
<1>5. /\ m[1][1] \in Int /\ m[1][2] \in Int /\ -m[1][3] \in Int /\ m[2][3] \in Int /\ m[3][3] \in Int
  BY <1>4
<1> DEFINE S(d) == {<<e[1], e[2], Heading(e[3])>> : e \in d}
<1>6. ASSUME NEW x \in Int, NEW z \in Int, Cong(x, cos(r) * cos(p)), Cong(z, cos(y) * cos(p)),
             NEW e \in S(Angles(asin(-m[1][3]), m[2][3], x, m[1][2], z))
      PROVE  SameAngles(e, <<r, p, y>>) /\ e[1] \in Int /\ e[2] \in Int /\ e[3] \in Int
  <2>1. PICK d \in Angles(asin(-m[1][3]), m[2][3], x, m[1][2], z) : e = <<d[1], d[2], Heading(d[3])>>
    OBVIOUS
  <2>2. d[1] \in Int /\ d[2] = p /\ d[3] \in Int /\ (d[1] - r) % Turn = 0 /\ (d[3] - y) % Turn = 0
    BY <1>1, <1>5, <1>6, AnglesShort
  <2>3. Heading(d[3]) \in Int /\ (Heading(d[3]) - y) % Turn = 0
    BY <2>2, HeadingIs
  <2>4. (p - p) % Turn = 0
    <3>1. p = p + Turn * 0
      BY <1>0, TurnIs
    <3> QED BY <1>0, <3>1, TurnsApart
  <2> DEFINE w == <<r, p, y>>
  <2>5. e[1] = d[1] /\ e[2] = p /\ e[3] = Heading(d[3]) /\ w[1] = r /\ w[2] = p /\ w[3] = y
    BY <2>1, <2>2
  <2> HIDE DEF w
  <2>6. (e[1] - w[1]) % Turn = 0 /\ (e[2] - w[2]) % Turn = 0 /\ (e[3] - w[3]) % Turn = 0
    BY <2>2, <2>3, <2>4, <2>5
  <2>7. SameAngles(e, w)
    BY <2>6 DEF SameAngles, Three
  <2> QED BY <1>0, <2>2, <2>3, <2>5, <2>7 DEF w
<1>7. ASSUME NEW e \in q2e(a) PROVE SameAngles(e, <<r, p, y>>) /\ e[1] \in Int /\ e[2] \in Int /\ e[3] \in Int
  <2>1. /\ -(2*a[1]*a[3] - 2*a[4]*a[2]) = -m[1][3]
        /\ 2*a[2]*a[3] + 2*a[4]*a[1] = m[2][3] /\ 2*a[4]*a[4] - 1 + 2*a[3]*a[3] = m[3][3]
        /\ 2*a[1]*a[2] + 2*a[4]*a[3] = m[1][2] /\ 2*a[4]*a[4] - 1 + 2*a[1]*a[1] = m[1][1]
    BY <1>3, <1>4
  <2>2. e \in S(Angles(asin(-m[1][3]), m[2][3], m[3][3], m[1][2], m[1][1]))
    BY <1>7, <2>1 DEF q2e
  <2> QED BY <1>1, <1>5, <1>6, <2>2
<1>8. ASSUME NEW e \in q2e3(a) PROVE SameAngles(e, <<r, p, y>>) /\ e[1] \in Int /\ e[2] \in Int /\ e[3] \in Int
  <2> DEFINE x == 1 - 2*(a[1]*a[1] + a[2]*a[2])  z == 1 - 2*(a[2]*a[2] + a[3]*a[3])  P == Prime
  <2>1. /\ -2 * (-(a[4]*a[2]) + a[1]*a[3]) = -m[1][3]
        /\ 2*(a[2]*a[3] + a[4]*a[1]) = m[2][3] /\ 2*(a[1]*a[2] + a[4]*a[3]) = m[1][2]
    BY <1>3, <1>4
  <2>2. P \in Int
    BY RecordAssumption
  <2> HIDE DEF P
  <2>3. PICK k \in Int : norm2(a) = 1 + P*k
    BY <1>2, CongIs DEF P
  <2>4. norm2(a) = a1*a1 + a2*a2 + a3*a3 + a4*a4
    BY <1>3 DEF norm2
  <2>5. x = 1 - 2*(a1*a1 + a2*a2) /\ z = 1 - 2*(a2*a2 + a3*a3) /\ x \in Int /\ z \in Int
    BY <1>3
  <2>6. x = m[3][3] + P*(0 - 2*k) /\ z = m[1][1] + P*(0 - 2*k) /\ 0 - 2*k \in Int
    <3> DEFINE u == P*k
    <3>1. u \in Int /\ P*(0 - 2*k) = 0 - 2*u /\ norm2(a) = 1 + u
      BY <2>2, <2>3
    <3> HIDE DEF u, x, z
    <3>2. x = m[3][3] + (0 - 2*u) /\ z = m[1][1] + (0 - 2*u)
      BY <1>4, <2>4, <2>5, <3>1
    <3> QED BY <3>1, <3>2
  <2> HIDE DEF x, z
  <2>7. Cong(x, m[3][3]) /\ Cong(z, m[1][1])
    BY <1>5, <2>5, <2>6, CongIs DEF P
  <2>8. cos(r) * cos(p) \in Int /\ cos(y) * cos(p) \in Int
    BY <1>0, FullIs
  <2>9. Cong(x, cos(r) * cos(p)) /\ Cong(z, cos(y) * cos(p))
    BY <1>1, <1>5, <2>5, <2>7, <2>8, CongEqual
  <2>10. e \in S(Angles(asin(-m[1][3]), m[2][3], x, m[1][2], z))
    BY <1>8, <2>1 DEF q2e3, x, z
  <2> QED BY <1>6, <2>5, <2>9, <2>10
<1> QED BY <1>7, <1>8 DEF a

\* Case 7 of cQuaternion::e2q in half angles, and what case 7 of q2e takes
\* from it.
LEMMA SevenHalfAngles ==
  ASSUME NEW r \in Int, NEW p \in Int, NEW y \in Int
  PROVE  LET cr == cos2(r)  sr == sin2(r)  cp == cos2(p)  sp == sin2(p)  cy == cos2(y)  sy == sin2(y)
             h == e2qOf(7, r, p, y)
             N == cr*cr + sr*sr  C == cr*cr - sr*sr  S == 2*(sr*cr)
                                 D == cp*cp - sp*sp  T == 2*(sp*cp)
             Q == cy*cy + sy*sy  E == cy*cy - sy*sy  U == 2*(sy*cy)
         IN  /\ 2*(h[1]*h[3] + h[2]*h[4]) = N*T*Q
             /\ -2*(h[2]*h[3] - h[1]*h[4]) = S*D*Q
             /\ -(h[1]*h[1]) - h[2]*h[2] + h[3]*h[3] + h[4]*h[4] = C*D*Q
             /\ -2*(h[1]*h[2] - h[3]*h[4]) = N*D*U
             /\ h[1]*h[1] - h[2]*h[2] - h[3]*h[3] + h[4]*h[4] = N*D*E
<1> DEFINE cr == cos2(r)  sr == sin2(r)  cp == cos2(p)  sp == sin2(p)  cy == cos2(y)  sy == sin2(y)
           h == e2qOf(7, r, p, y)
           N == cr*cr + sr*sr  C == cr*cr - sr*sr  S == 2*(sr*cr)
           D == cp*cp - sp*sp  T == 2*(sp*cp)
           Q == cy*cy + sy*sy  E == cy*cy - sy*sy  U == 2*(sy*cy)
           h1 == sr*cp*cy + cr*sp*sy  h2 == cr*sp*cy - sr*cp*sy
           h3 == cr*cp*sy + sr*sp*cy  h4 == cr*cp*cy - sr*sp*sy
<1>0. cr \in Int /\ sr \in Int /\ cp \in Int /\ sp \in Int /\ cy \in Int /\ sy \in Int
  BY HalfAngles
<1>1. h = <<h1, h2, h3, h4>>
  BY DEF e2qOf, VectorPart, RealPart, Cyclic
<1> HIDE DEF cr, sr, cp, sp, cy, sy, h
<1>2. h[1] = h1 /\ h[2] = h2 /\ h[3] = h3 /\ h[4] = h4
  <2> HIDE DEF h1, h2, h3, h4
  <2> QED BY <1>1
<1>3. 2*(h1*h3 + h2*h4) = N*T*Q
  BY <1>0
<1>4. -2*(h2*h3 - h1*h4) = S*D*Q
  BY <1>0
<1>5. -(h1*h1) - h2*h2 + h3*h3 + h4*h4 = C*D*Q
  BY <1>0
<1>6. -2*(h1*h2 - h3*h4) = N*D*U
  BY <1>0
<1>7. h1*h1 - h2*h2 - h3*h3 + h4*h4 = N*D*E
  BY <1>0
<1> HIDE DEF h1, h2, h3, h4, N, C, S, D, T, Q, E, U
<1> QED BY <1>2, <1>3, <1>4, <1>5, <1>6, <1>7 DEF N, C, S, D, T, Q, E, U, cr, sr, cp, sp, cy, sy, h

LEMMA SevenFullAngles ==
  ASSUME NEW r \in Int, NEW p \in Int, NEW y \in Int
  PROVE  LET h == e2qOf(7, r, p, y)
         IN  /\ Cong(2*(h[1]*h[3] + h[2]*h[4]), sin(p))
             /\ Cong(-2*(h[2]*h[3] - h[1]*h[4]), sin(r) * cos(p))
             /\ Cong(-(h[1]*h[1]) - h[2]*h[2] + h[3]*h[3] + h[4]*h[4], cos(r) * cos(p))
             /\ Cong(-2*(h[1]*h[2] - h[3]*h[4]), sin(y) * cos(p))
             /\ Cong(h[1]*h[1] - h[2]*h[2] - h[3]*h[3] + h[4]*h[4], cos(y) * cos(p))
<1> DEFINE cr == cos2(r)  sr == sin2(r)  cp == cos2(p)  sp == sin2(p)  cy == cos2(y)  sy == sin2(y)
           c1 == cos(r)  s1 == sin(r)  c2 == cos(p)  s2 == sin(p)  c3 == cos(y)  s3 == sin(y)
           h == e2qOf(7, r, p, y)
           N == cr*cr + sr*sr  C == cr*cr - sr*sr  S == 2*(sr*cr)
           D == cp*cp - sp*sp  T == 2*(sp*cp)
           Q == cy*cy + sy*sy  E == cy*cy - sy*sy  U == 2*(sy*cy)
           x1 == 2*(h[1]*h[3] + h[2]*h[4])  x2 == -2*(h[2]*h[3] - h[1]*h[4])
           x3 == -(h[1]*h[1]) - h[2]*h[2] + h[3]*h[3] + h[4]*h[4]
           x4 == -2*(h[1]*h[2] - h[3]*h[4])
           x5 == h[1]*h[1] - h[2]*h[2] - h[3]*h[3] + h[4]*h[4]
<1>1. cr \in Int /\ sr \in Int /\ cp \in Int /\ sp \in Int /\ cy \in Int /\ sy \in Int
  BY HalfAngles
<1>2. c1 \in Int /\ s1 \in Int /\ c2 \in Int /\ s2 \in Int /\ c3 \in Int /\ s3 \in Int
  BY FullIs
<1>3. x1 = N*T*Q /\ x2 = S*D*Q /\ x3 = C*D*Q /\ x4 = N*D*U /\ x5 = N*D*E
  BY SevenHalfAngles
<1>6. /\ N \in Int /\ C \in Int /\ S \in Int /\ D \in Int /\ T \in Int
      /\ Q \in Int /\ E \in Int /\ U \in Int
  BY <1>1
<1>7. Cong(N, 1) /\ Cong(C, c1) /\ Cong(S, s1)
  <2>1. Cong(N, 1) /\ Cong(c1, C) /\ Cong(s1, S)
    BY Circle, FullIs
  <2> HIDE DEF N, C, S, c1, s1
  <2> QED BY <1>2, <1>6, <2>1, CongEqual
<1>8. Cong(D, c2) /\ Cong(T, s2)
  <2>1. Cong(c2, D) /\ Cong(s2, T)
    BY FullIs
  <2> HIDE DEF D, T, c2, s2
  <2> QED BY <1>2, <1>6, <2>1, CongEqual
<1>9. Cong(Q, 1) /\ Cong(E, c3) /\ Cong(U, s3)
  <2>1. Cong(Q, 1) /\ Cong(c3, E) /\ Cong(s3, U)
    BY Circle, FullIs
  <2> HIDE DEF Q, E, U, c3, s3
  <2> QED BY <1>2, <1>6, <2>1, CongEqual
<1> HIDE DEF h, N, C, S, D, T, Q, E, U, cr, sr, cp, sp, cy, sy, c1, s1, c2, s2, c3, s3, x1, x2, x3, x4, x5
<1>11. Cong(x1, s2)
  <2>1. Cong(N*T*Q, 1*s2*1)
    BY <1>2, <1>6, <1>7, <1>8, <1>9, Cong3
  <2> QED BY <1>2, <1>3, <2>1
<1>12. Cong(x2, s1*c2)
  <2>1. Cong(S*D*Q, s1*c2*1)
    BY <1>2, <1>6, <1>7, <1>8, <1>9, Cong3
  <2> QED BY <1>2, <1>3, <2>1
<1>13. Cong(x3, c1*c2)
  <2>1. Cong(C*D*Q, c1*c2*1)
    BY <1>2, <1>6, <1>7, <1>8, <1>9, Cong3
  <2> QED BY <1>2, <1>3, <2>1
<1>14. Cong(x4, s3*c2)
  <2>1. Cong(N*D*U, 1*c2*s3)
    BY <1>2, <1>6, <1>7, <1>8, <1>9, Cong3
  <2>2. 1*c2*s3 = s3*c2
    BY <1>2
  <2> QED BY <1>3, <2>1, <2>2
<1>15. Cong(x5, c3*c2)
  <2>1. Cong(N*D*E, 1*c2*c3)
    BY <1>2, <1>6, <1>7, <1>8, <1>9, Cong3
  <2>2. 1*c2*c3 = c3*c2
    BY <1>2
  <2> QED BY <1>3, <2>1, <2>2
<1> QED BY <1>11, <1>12, <1>13, <1>14, <1>15 DEF x1, x2, x3, x4, x5, c1, s1, c2, s2, c3, s3, h

\* Those sums of a quaternion do not change when it is stored.
LEMMA SumsStored ==
  ASSUME NEW a \in Quaternion, NEW b \in Quaternion, Same(a, b)
  PROVE  /\ Cong(2*(a[1]*a[3] + a[2]*a[4]), 2*(b[1]*b[3] + b[2]*b[4]))
         /\ Cong(-2*(a[2]*a[3] - a[1]*a[4]), -2*(b[2]*b[3] - b[1]*b[4]))
         /\ Cong(-a[1]*a[1] - a[2]*a[2] + a[3]*a[3] + a[4]*a[4],
                 -(b[1]*b[1]) - b[2]*b[2] + b[3]*b[3] + b[4]*b[4])
         /\ Cong(-2*(a[1]*a[2] - a[3]*a[4]), -2*(b[1]*b[2] - b[3]*b[4]))
         /\ Cong(a[1]*a[1] - a[2]*a[2] - a[3]*a[3] + a[4]*a[4],
                 b[1]*b[1] - b[2]*b[2] - b[3]*b[3] + b[4]*b[4])
<1>1. PICK a1 \in Int, a2 \in Int, a3 \in Int, a4 \in Int : a = <<a1, a2, a3, a4>>
  BY DEF Quaternion
<1>2. PICK b1 \in Int, b2 \in Int, b3 \in Int, b4 \in Int : b = <<b1, b2, b3, b4>>
  BY DEF Quaternion
<1>3. Cong(a1, b1) /\ Cong(a2, b2) /\ Cong(a3, b3) /\ Cong(a4, b4)
  BY <1>1, <1>2, SameIs
<1> DEFINE P == Prime
<1>4. P \in Int
  BY RecordAssumption
<1> HIDE DEF P
<1>11. PICK k11 \in Int : a1*a1 = b1*b1 + P*k11
  BY <1>3, ProductRest DEF P
<1>22. PICK k22 \in Int : a2*a2 = b2*b2 + P*k22
  BY <1>3, ProductRest DEF P
<1>33. PICK k33 \in Int : a3*a3 = b3*b3 + P*k33
  BY <1>3, ProductRest DEF P
<1>44. PICK k44 \in Int : a4*a4 = b4*b4 + P*k44
  BY <1>3, ProductRest DEF P
<1>12. PICK k12 \in Int : a1*a2 = b1*b2 + P*k12
  BY <1>3, ProductRest DEF P
<1>13. PICK k13 \in Int : a1*a3 = b1*b3 + P*k13
  BY <1>3, ProductRest DEF P
<1>23. PICK k23 \in Int : a2*a3 = b2*b3 + P*k23
  BY <1>3, ProductRest DEF P
<1>14. PICK k14 \in Int : a1*a4 = b1*b4 + P*k14
  BY <1>3, ProductRest DEF P
<1>24. PICK k24 \in Int : a2*a4 = b2*b4 + P*k24
  BY <1>3, ProductRest DEF P
<1>34. PICK k34 \in Int : a3*a4 = b3*b4 + P*k34
  BY <1>3, ProductRest DEF P
<1>60. Cong(2*(a[1]*a[3] + a[2]*a[4]),
            2*(b[1]*b[3] + b[2]*b[4]))
  <2> DEFINE x == 2*(a1*a3 + a2*a4)  z == 2*(b1*b3 + b2*b4)  k == 2*(k13 + k24)
  <2>1. 2*(a[1]*a[3] + a[2]*a[4]) = x /\ 2*(b[1]*b[3] + b[2]*b[4]) = z
    BY <1>1, <1>2
  <2>2. x \in Int /\ z \in Int /\ k \in Int
    OBVIOUS
  <2>3. x = z + P*k
    BY <1>4, <1>13, <1>24
  <2> HIDE DEF x, z, k
  <2>4. Cong(x, z)
    BY <2>2, <2>3, CongIs DEF P
  <2> QED BY <2>1, <2>4
<1>61. Cong(-2*(a[2]*a[3] - a[1]*a[4]),
            -2*(b[2]*b[3] - b[1]*b[4]))
  <2> DEFINE x == -2*(a2*a3 - a1*a4)  z == -2*(b2*b3 - b1*b4)  k == -2*(k23 - k14)
  <2>1. -2*(a[2]*a[3] - a[1]*a[4]) = x /\ -2*(b[2]*b[3] - b[1]*b[4]) = z
    BY <1>1, <1>2
  <2>2. x \in Int /\ z \in Int /\ k \in Int
    OBVIOUS
  <2>3. x = z + P*k
    BY <1>4, <1>23, <1>14
  <2> HIDE DEF x, z, k
  <2>4. Cong(x, z)
    BY <2>2, <2>3, CongIs DEF P
  <2> QED BY <2>1, <2>4
<1>62. Cong(-a[1]*a[1] - a[2]*a[2] + a[3]*a[3] + a[4]*a[4],
            -(b[1]*b[1]) - b[2]*b[2] + b[3]*b[3] + b[4]*b[4])
  <2> DEFINE x == -a1*a1 - a2*a2 + a3*a3 + a4*a4  z == -(b1*b1) - b2*b2 + b3*b3 + b4*b4  k == k33 + k44 - k11 - k22
  <2>1. -a[1]*a[1] - a[2]*a[2] + a[3]*a[3] + a[4]*a[4] = x /\ -(b[1]*b[1]) - b[2]*b[2] + b[3]*b[3] + b[4]*b[4] = z
    BY <1>1, <1>2
  <2>2. x \in Int /\ z \in Int /\ k \in Int
    OBVIOUS
  <2>3. x = z + P*k
    BY <1>4, <1>11, <1>22, <1>33, <1>44
  <2> HIDE DEF x, z, k
  <2>4. Cong(x, z)
    BY <2>2, <2>3, CongIs DEF P
  <2> QED BY <2>1, <2>4
<1>63. Cong(-2*(a[1]*a[2] - a[3]*a[4]),
            -2*(b[1]*b[2] - b[3]*b[4]))
  <2> DEFINE x == -2*(a1*a2 - a3*a4)  z == -2*(b1*b2 - b3*b4)  k == -2*(k12 - k34)
  <2>1. -2*(a[1]*a[2] - a[3]*a[4]) = x /\ -2*(b[1]*b[2] - b[3]*b[4]) = z
    BY <1>1, <1>2
  <2>2. x \in Int /\ z \in Int /\ k \in Int
    OBVIOUS
  <2>3. x = z + P*k
    BY <1>4, <1>12, <1>34
  <2> HIDE DEF x, z, k
  <2>4. Cong(x, z)
    BY <2>2, <2>3, CongIs DEF P
  <2> QED BY <2>1, <2>4
<1>64. Cong(a[1]*a[1] - a[2]*a[2] - a[3]*a[3] + a[4]*a[4],
            b[1]*b[1] - b[2]*b[2] - b[3]*b[3] + b[4]*b[4])
  <2> DEFINE x == a1*a1 - a2*a2 - a3*a3 + a4*a4  z == b1*b1 - b2*b2 - b3*b3 + b4*b4  k == k11 - k22 - k33 + k44
  <2>1. a[1]*a[1] - a[2]*a[2] - a[3]*a[3] + a[4]*a[4] = x /\ b[1]*b[1] - b[2]*b[2] - b[3]*b[3] + b[4]*b[4] = z
    BY <1>1, <1>2
  <2>2. x \in Int /\ z \in Int /\ k \in Int
    OBVIOUS
  <2>3. x = z + P*k
    BY <1>4, <1>11, <1>22, <1>33, <1>44
  <2> HIDE DEF x, z, k
  <2>4. Cong(x, z)
    BY <2>2, <2>3, CongIs DEF P
  <2> QED BY <2>1, <2>4
<1> QED BY <1>60, <1>61, <1>62, <1>63, <1>64

LEMMA SevenComesBack ==
  ASSUME NEW r \in Int, NEW p \in Pitches, NEW y \in Int
  PROVE  \A e \in q2e7(Mod(e2qOf(7, r, p, y))) : SameAngles(e, <<r, p, y>>)
<1> DEFINE h == e2qOf(7, r, p, y)  a == Mod(h)
           x1 == 2*(a[1]*a[3] + a[2]*a[4])
           x2 == -2*(a[2]*a[3] - a[1]*a[4])
           x3 == -a[1]*a[1] - a[2]*a[2] + a[3]*a[3] + a[4]*a[4]
           x4 == -2*(a[1]*a[2] - a[3]*a[4])
           x5 == a[1]*a[1] - a[2]*a[2] - a[3]*a[3] + a[4]*a[4]
           z1 == 2*(h[1]*h[3] + h[2]*h[4])
           z2 == -2*(h[2]*h[3] - h[1]*h[4])
           z3 == -(h[1]*h[1]) - h[2]*h[2] + h[3]*h[3] + h[4]*h[4]
           z4 == -2*(h[1]*h[2] - h[3]*h[4])
           z5 == h[1]*h[1] - h[2]*h[2] - h[3]*h[3] + h[4]*h[4]
<1>0. p \in Int
  BY TurnParts
<1>1. h \in Quaternion /\ a \in Quaternion /\ Same(a, h)
  <2>1. 7 \in 1..12
    OBVIOUS
  <2>2. h \in Quaternion
    BY <1>0, <2>1, TwelveOrders
  <2> HIDE DEF h
  <2> QED BY <2>2, SameEqual
<1>2. /\ Cong(z1, sin(p)) /\ Cong(z2, sin(r) * cos(p)) /\ Cong(z3, cos(r) * cos(p))
      /\ Cong(z4, sin(y) * cos(p)) /\ Cong(z5, cos(y) * cos(p))
  BY <1>0, SevenFullAngles
<1> HIDE DEF h, a
<1>3. Cong(x1, z1) /\ Cong(x2, z2) /\ Cong(x3, z3) /\ Cong(x4, z4) /\ Cong(x5, z5)
  BY <1>1, SumsStored
<1>4. /\ x1 \in Int /\ x2 \in Int /\ x3 \in Int /\ x4 \in Int /\ x5 \in Int
      /\ z1 \in Int /\ z2 \in Int /\ z3 \in Int /\ z4 \in Int /\ z5 \in Int
  BY <1>1, Parts
<1>5. q2e7(a) = Angles(asin(x1), x2, x3, x4, x5)
  BY DEF q2e7
<1> HIDE DEF x1, x2, x3, x4, x5, z1, z2, z3, z4, z5
<1>6. /\ sin(p) \in Int /\ sin(r) * cos(p) \in Int /\ cos(r) * cos(p) \in Int
      /\ sin(y) * cos(p) \in Int /\ cos(y) * cos(p) \in Int
  <2>1. sin(p) \in Int /\ sin(r) \in Int /\ cos(p) \in Int /\ cos(r) \in Int /\ sin(y) \in Int /\ cos(y) \in Int
    BY <1>0, FullIs
  <2> QED BY <2>1
<1>7. /\ Cong(x1, sin(p)) /\ Cong(x2, sin(r) * cos(p)) /\ Cong(x3, cos(r) * cos(p))
      /\ Cong(x4, sin(y) * cos(p)) /\ Cong(x5, cos(y) * cos(p))
  BY <1>2, <1>3, <1>4, <1>6, CongEqual
<1>8. ASSUME NEW e \in Angles(asin(x1), x2, x3, x4, x5) PROVE SameAngles(e, <<r, p, y>>)
  <2> DEFINE w == <<r, p, y>>
  <2>1. e[1] \in Int /\ e[2] = p /\ e[3] \in Int /\ (e[1] - r) % Turn = 0 /\ (e[3] - y) % Turn = 0
    BY <1>4, <1>7, AnglesShort
  <2>2. (p - p) % Turn = 0
    <3>1. p = p + Turn * 0
      BY <1>0, TurnIs
    <3> QED BY <1>0, <3>1, TurnsApart
  <2>3. w[1] = r /\ w[2] = p /\ w[3] = y
    OBVIOUS
  <2> HIDE DEF w
  <2>4. (e[1] - w[1]) % Turn = 0 /\ (e[2] - w[2]) % Turn = 0 /\ (e[3] - w[3]) % Turn = 0
    BY <2>1, <2>2, <2>3
  <2>5. SameAngles(e, w)
    BY <2>4 DEF SameAngles, Three
  <2> QED BY <2>5 DEF w
<1> QED BY <1>5, <1>8 DEF a, h

\* q2e3 takes from a quaternion of e2q3 the angles it was made of, and
\* cQuaternion::q2e(7) those of cQuaternion::e2q(7), short of a pitch of 90
\* degrees.
THEOREM AnglesTheorem == Spec => []AnglesComeBack
<1>1. AnglesComeBack
  <2> SUFFICES ASSUME NEW r \in Int, NEW y \in Int, NEW p \in Pitches
               PROVE  /\ \A e \in q2e3(Mod(e2q(r, p, y)))      : SameAngles(e, <<r, p, y>>)
                      /\ \A e \in q2e7(Mod(e2qOf(7, r, p, y))) : SameAngles(e, <<r, p, y>>)
    BY StepsInt DEF AnglesComeBack
  <2>1. \A e \in q2e3(Mod(e2q(r, p, y))) : SameAngles(e, <<r, p, y>>)
    BY ComesBack
  <2> QED BY <2>1, SevenComesBack
<1> QED BY <1>1, PTL

-----------------------------------------------------------------------------
(* DeadReckoning.                                                          *)

One == <<0, 0, 0, 1>>

\* Two turns about one axis are one turn, and no turn leaves a quaternion.
LEMMA TurnsAdd ==
  ASSUME NEW i \in Three, NEW j \in Int, NEW k \in Int
  PROVE  /\ Turned(i, j) \in Quaternion /\ Turned(i, k) \in Quaternion /\ Turned(i, j + k) \in Quaternion
         /\ Same(Mult(Turned(i, j), Turned(i, k)), Turned(i, j + k))
<1>1. j + k \in Int
  OBVIOUS
<1>2. Turned(i, j) \in Quaternion /\ Turned(i, k) \in Quaternion /\ Turned(i, j + k) \in Quaternion
  BY <1>1, TurnedIs
<1> DEFINE a == cos2(j)  b == sin2(j)  c == cos2(k)  d == sin2(k)  C == cos2(j + k)  S == sin2(j + k)
           u == a*c - b*d  v == b*c + a*d
<1>3. a \in Int /\ b \in Int /\ c \in Int /\ d \in Int /\ C \in Int /\ S \in Int
  BY <1>1, HalfAngles
<1>4. Cong(C, u) /\ Cong(S, v)
  BY AddAngles
<1>5. /\ Turned(1, j) = <<b, 0, 0, a>> /\ Turned(2, j) = <<0, b, 0, a>> /\ Turned(3, j) = <<0, 0, b, a>>
      /\ Turned(1, k) = <<d, 0, 0, c>> /\ Turned(2, k) = <<0, d, 0, c>> /\ Turned(3, k) = <<0, 0, d, c>>
      /\ Turned(1, j + k) = <<S, 0, 0, C>> /\ Turned(2, j + k) = <<0, S, 0, C>>
      /\ Turned(3, j + k) = <<0, 0, S, C>>
  BY <1>1, TurnedIs
<1> HIDE DEF a, b, c, d, C, S
<1>6. u \in Int /\ v \in Int
  BY <1>3
<1>7. /\ Mult(Turned(1, j), Turned(1, k)) = <<v, 0, 0, u>>
      /\ Mult(Turned(2, j), Turned(2, k)) = <<0, v, 0, u>>
      /\ Mult(Turned(3, j), Turned(3, k)) = <<0, 0, v, u>>
  BY <1>3, <1>5 DEF Mult
<1> HIDE DEF u, v
<1>8. Cong(u, C) /\ Cong(v, S) /\ Cong(0, 0)
  BY <1>3, <1>4, <1>6, CongEqual
<1>9. /\ <<v, 0, 0, u>> \in Quaternion /\ <<0, v, 0, u>> \in Quaternion /\ <<0, 0, v, u>> \in Quaternion
      /\ <<S, 0, 0, C>> \in Quaternion /\ <<0, S, 0, C>> \in Quaternion /\ <<0, 0, S, C>> \in Quaternion
  BY <1>3, <1>6 DEF Quaternion
<1>10. /\ Same(<<v, 0, 0, u>>, <<S, 0, 0, C>>) /\ Same(<<0, v, 0, u>>, <<0, S, 0, C>>)
       /\ Same(<<0, 0, v, u>>, <<0, 0, S, C>>)
  BY <1>8, <1>9, SameIs
<1>11. i = 1 \/ i = 2 \/ i = 3
  BY DEF Three
<1>12. Same(Mult(Turned(i, j), Turned(i, k)), Turned(i, j + k))
  BY <1>5, <1>7, <1>10, <1>11
<1> QED BY <1>2, <1>12

LEMMA NoTurn ==
  ASSUME NEW a \in Quaternion, NEW i \in Three
  PROVE  Same(Mult(a, Turned(i, 0)), a)
<1>1. One \in Quaternion /\ Mult(a, One) = a
  <2>1. PICK a1 \in Int, a2 \in Int, a3 \in Int, a4 \in Int : a = <<a1, a2, a3, a4>>
    BY DEF Quaternion
  <2>2. Mult(a, One) = <<a1, a2, a3, a4>>
    BY <2>1 DEF Mult, One
  <2> QED BY <2>1, <2>2 DEF One, Quaternion
<1>2. Turned(i, 0) \in Quaternion
  BY TurnedIs
<1>3. Same(Turned(i, 0), One)
  <2> DEFINE c == cos2(0)  d == sin2(0)
  <2>1. Cong(c, 1) /\ Cong(d, 0) /\ Cong(0, 0) /\ c \in Int /\ d \in Int
    BY ZeroAngle, CongEqual
  <2>2. /\ Turned(1, 0) = <<d, 0, 0, c>> /\ Turned(2, 0) = <<0, d, 0, c>> /\ Turned(3, 0) = <<0, 0, d, c>>
    BY TurnedIs
  <2> HIDE DEF c, d
  <2>3. i = 1 \/ i = 2 \/ i = 3
    BY DEF Three
  <2>4. One[1] = 0 /\ One[2] = 0 /\ One[3] = 0 /\ One[4] = 1
    BY DEF One
  <2>5. CASE i = 1
    <3> DEFINE w == Turned(i, 0)
    <3>1. w[1] = d /\ w[2] = 0 /\ w[3] = 0 /\ w[4] = c
      BY <2>2, <2>5
    <3> HIDE DEF w
    <3> QED BY <1>1, <1>2, <2>1, <2>4, <3>1, SameIs DEF w
  <2>6. CASE i = 2
    <3> DEFINE w == Turned(i, 0)
    <3>1. w[1] = 0 /\ w[2] = d /\ w[3] = 0 /\ w[4] = c
      BY <2>2, <2>6
    <3> HIDE DEF w
    <3> QED BY <1>1, <1>2, <2>1, <2>4, <3>1, SameIs DEF w
  <2>7. CASE i = 3
    <3> DEFINE w == Turned(i, 0)
    <3>1. w[1] = 0 /\ w[2] = 0 /\ w[3] = d /\ w[4] = c
      BY <2>2, <2>7
    <3> HIDE DEF w
    <3> QED BY <1>1, <1>2, <2>1, <2>4, <3>1, SameIs DEF w
  <2> QED BY <2>3, <2>5, <2>6, <2>7
<1>4. Same(Mult(a, Turned(i, 0)), Mult(a, One))
  BY <1>1, <1>2, <1>3, MultSame, SameEqual
<1> QED BY <1>1, <1>4

\* The quaternion of three angles is the product of its turns: yaw, pitch, roll.
LEMMA EulerTurns ==
  ASSUME NEW r \in Int, NEW p \in Int, NEW y \in Int
  PROVE  /\ e2q(r, p, y) \in Quaternion
         /\ e2q(r, p, y) = Mult(Mult(Turned(3, y), Turned(2, p)), Turned(1, r))
<1>1. \A l \in Three, n \in Int :
        initQuat(<< <<1, 0, 0>>, <<0, 1, 0>>, <<0, 0, 1>> >>[l], n) = Turned(l, n)
  BY TurnedIs DEF Axis
<1>2. 1 \in Three /\ 2 \in Three /\ 3 \in Three
  BY DEF Three
<1>3. e2qOf(12, y, p, r) = Mult(Mult(Turned(3, y), Turned(2, p)), Turned(1, r))
  BY <1>1, <1>2, ThreeAxes
<1> QED BY <1>3, YawPitchRoll, Elementary

\* The integration turns on by the rate of the record, and the angle about its
\* axis is larger by the rate.
LEMMA TurnOn ==
  ASSUME NEW r \in Int, NEW p \in Int, NEW y \in Int, NEW k \in Int
  PROVE  LET on(i) == Mod(Mult(Mod(e2q(r, p, y)), About(i, k)))
         IN  /\ on(1) = Mod(e2q(r + k, p, y))
             /\ r = 0 => on(2) = Mod(e2q(r, p + k, y))
             /\ r = 0 /\ p = 0 => on(3) = Mod(e2q(r, p, y + k))
<1> DEFINE X(j) == Turned(1, j)  Y(j) == Turned(2, j)  Z(j) == Turned(3, j)
           on(i) == Mod(Mult(Mod(e2q(r, p, y)), About(i, k)))
<1>0. 1 \in Three /\ 2 \in Three /\ 3 \in Three /\ 0 \in Int /\ r + k \in Int /\ p + k \in Int /\ y + k \in Int
  BY DEF Three
<1>1. ASSUME NEW i \in Three
      PROVE  /\ Mult(e2q(r, p, y), Turned(i, k)) \in Quaternion
             /\ on(i) = Mod(Mult(e2q(r, p, y), Turned(i, k)))
  <2> DEFINE h == e2q(r, p, y)
  <2>1. h \in Quaternion /\ Mod(h) \in Quaternion /\ Same(Mod(h), h)
    BY EulerTurns, SameEqual
  <2>2. About(i, k) \in Quaternion /\ Turned(i, k) \in Quaternion /\ Same(About(i, k), Turned(i, k))
    BY TurnedIs
  <2> HIDE DEF h
  <2>3. /\ Same(Mult(Mod(h), About(i, k)), Mult(h, Turned(i, k)))
        /\ Mult(Mod(h), About(i, k)) \in Quaternion /\ Mult(h, Turned(i, k)) \in Quaternion
    BY <2>1, <2>2, MultSame
  <2>4. Mod(Mult(Mod(h), About(i, k))) = Mod(Mult(h, Turned(i, k)))
    BY <2>3, SameEqual
  <2> QED BY <2>3, <2>4 DEF h
<1>2. \A j \in Int : X(j) \in Quaternion /\ Y(j) \in Quaternion /\ Z(j) \in Quaternion
  BY <1>0, TurnedIs
<1>3. /\ e2q(r, p, y) = Mult(Mult(Z(y), Y(p)), X(r))
      /\ e2q(r + k, p, y) = Mult(Mult(Z(y), Y(p)), X(r + k))
      /\ e2q(r, p + k, y) = Mult(Mult(Z(y), Y(p + k)), X(r))
      /\ e2q(r, p, y + k) = Mult(Mult(Z(y + k), Y(p)), X(r))
  BY <1>0, EulerTurns
<1>4. /\ Same(Mult(X(r), X(k)), X(r + k)) /\ Same(Mult(Y(p), Y(k)), Y(p + k))
      /\ Same(Mult(Z(y), Z(k)), Z(y + k))
  BY <1>0, TurnsAdd
<1>5. \A a \in Quaternion : Same(Mult(a, X(0)), a) /\ Same(Mult(a, Y(0)), a)
  BY <1>0, NoTurn
<1> DEFINE A == Mult(Z(y), Y(p))  B == Mult(Z(y), Y(p + k))  C == Mult(Z(y + k), Y(p))
<1>6. A \in Quaternion /\ B \in Quaternion /\ C \in Quaternion
  BY <1>0, <1>2, Closed
<1>7. on(1) = Mod(e2q(r + k, p, y))
  <2>1. Mult(Mult(A, X(r)), X(k)) = Mult(A, Mult(X(r), X(k)))
    BY <1>2, <1>6, ProductsAssociate
  <2>2. Mult(X(r), X(k)) \in Quaternion /\ X(r + k) \in Quaternion /\ Same(A, A)
    BY <1>0, <1>2, <1>6, Closed, SameEqual
  <2>3. /\ Same(Mult(A, Mult(X(r), X(k))), Mult(A, X(r + k)))
        /\ Mult(A, Mult(X(r), X(k))) \in Quaternion /\ Mult(A, X(r + k)) \in Quaternion
    BY <1>4, <1>6, <2>2, MultSame
  <2>4. Mod(Mult(A, Mult(X(r), X(k)))) = Mod(Mult(A, X(r + k)))
    BY <2>3, SameEqual
  <2> HIDE DEF on
  <2> QED BY <1>0, <1>1, <1>3, <2>1, <2>4
<1>8. ASSUME r = 0 PROVE on(2) = Mod(e2q(r, p + k, y))
  <2>1. /\ Same(Mult(A, X(r)), A) /\ Same(Y(k), Y(k)) /\ Mult(A, X(r)) \in Quaternion
        /\ Y(k) \in Quaternion /\ Y(p) \in Quaternion /\ Z(y) \in Quaternion /\ X(r) \in Quaternion
        /\ Y(p + k) \in Quaternion
    BY <1>0, <1>2, <1>5, <1>6, <1>8, Closed, SameEqual
  <2>2. Same(Mult(Mult(A, X(r)), Y(k)), Mult(A, Y(k)))
        /\ Mult(Mult(A, X(r)), Y(k)) \in Quaternion /\ Mult(A, Y(k)) \in Quaternion
    <3> DEFINE f == Mult(A, X(r))  g == Y(k)
    <3>1. f \in Quaternion /\ A \in Quaternion /\ g \in Quaternion /\ Same(f, A) /\ Same(g, g)
      BY <1>6, <2>1
    <3> HIDE DEF f, g, A
    <3>2. Same(Mult(f, g), Mult(A, g)) /\ Mult(f, g) \in Quaternion /\ Mult(A, g) \in Quaternion
      BY <3>1, MultSame
    <3> QED BY <3>2 DEF f, g
  <2>3. Mult(A, Y(k)) = Mult(Z(y), Mult(Y(p), Y(k)))
    BY <2>1, ProductsAssociate
  <2>4. Mult(Y(p), Y(k)) \in Quaternion /\ Same(Z(y), Z(y))
    BY <2>1, Closed, SameEqual
  <2>5. Same(Mult(Z(y), Mult(Y(p), Y(k))), B)
    BY <1>4, <2>1, <2>4, MultSame
  <2>6. Same(Mult(B, X(r)), B) /\ Mult(B, X(r)) \in Quaternion
    BY <1>5, <1>6, <1>8, <2>1, Closed
  <2>7. Same(Mult(A, Y(k)), B) /\ Same(B, Mult(B, X(r)))
    BY <1>6, <2>3, <2>5, <2>6, SameEqual
  <2> DEFINE l == Mult(Mult(A, X(r)), Y(k))  m == Mult(A, Y(k))  n == Mult(B, X(r))
  <2>8. Same(l, m) /\ Same(m, B) /\ Same(B, n) /\ l \in Quaternion /\ m \in Quaternion /\ n \in Quaternion
    BY <2>2, <2>6, <2>7
  <2>9. Mod(l) = Mod(n)
    <3> HIDE DEF l, m, n, B
    <3>1. Mod(l) = Mod(m) /\ Mod(m) = Mod(B) /\ Mod(B) = Mod(n)
      BY <1>6, <2>8, SameEqual
    <3> QED BY <3>1
  <2> HIDE DEF on
  <2> QED BY <1>0, <1>1, <1>3, <2>9
<1>9. ASSUME r = 0, p = 0 PROVE on(3) = Mod(e2q(r, p, y + k))
  <2>1. /\ X(r) \in Quaternion /\ Y(p) \in Quaternion /\ Z(k) \in Quaternion /\ Z(y) \in Quaternion
        /\ Z(y + k) \in Quaternion /\ Mult(A, X(r)) \in Quaternion /\ Mult(C, X(r)) \in Quaternion
        /\ Mult(Z(y), Z(k)) \in Quaternion
    BY <1>0, <1>2, <1>6, Closed
  <2>2. /\ Same(Mult(A, X(r)), A) /\ Same(A, Z(y)) /\ Same(Z(k), Z(k))
        /\ Same(Mult(C, X(r)), C) /\ Same(C, Z(y + k))
    BY <1>5, <1>6, <1>9, <2>1, SameEqual
  <2> DEFINE h == Mult(A, X(r))  n == Mult(C, X(r))  l == Mult(h, Z(k))  m == Mult(Z(y), Z(k))
  <2>3. Same(h, Z(y)) /\ Same(n, Z(y + k))
    BY <1>6, <2>1, <2>2, SameEqual
  <2>4. Same(l, m) /\ l \in Quaternion /\ m \in Quaternion
    BY <2>1, <2>2, <2>3, MultSame
  <2>5. Same(m, Z(y + k))
    BY <1>4
  <2>6. Mod(l) = Mod(n)
    <3>1. Mod(l) = Mod(m) /\ Mod(m) = Mod(Z(y + k)) /\ Mod(n) = Mod(Z(y + k))
      BY <2>1, <2>3, <2>4, <2>5, SameEqual
    <3> QED BY <3>1
  <2> HIDE DEF on
  <2> QED BY <1>0, <1>1, <1>3, <2>6
<1> QED BY <1>7, <1>8, <1>9

-----------------------------------------------------------------------------

\* One of three angles, larger by k.
LEMMA Bumped ==
  ASSUME NEW a \in Int, NEW b \in Int, NEW c \in Int, NEW k \in Int
  PROVE  /\ [<<a, b, c>> EXCEPT ![1] = @ + k] = <<a + k, b, c>>
         /\ [<<a, b, c>> EXCEPT ![2] = @ + k] = <<a, b + k, c>>
         /\ [<<a, b, c>> EXCEPT ![3] = @ + k] = <<a, b, c + k>>
OBVIOUS

\* Angles that are full turns apart.
Apart(i, j) == (i - j) % Turn = 0

LEMMA ApartLaws ==
  /\ \A i \in Int : Apart(i, i) /\ (i % Turn) \in Int /\ Apart(i % Turn, i)
  /\ \A i, j \in Int : Apart(i, j) => Apart(j, i)
  /\ \A i, j, k \in Int : Apart(i, j) /\ Apart(j, k) => Apart(i, k)
  /\ \A i, j, k \in Int : Apart(i, j) => Apart(i + k, j + k)
<1> DEFINE n == Turn
<1>0. n \in Int /\ n > 0
  BY TurnIs
<1>1. \A u, v \in Int : Apart(u, v) <=> \E w \in Int : u = v + n * w
  BY TurnsApart DEF Apart
<1> HIDE DEF n
<1>2. ASSUME NEW i \in Int PROVE Apart(i, i)
  <2>1. i = i + n * 0 /\ 0 \in Int
    BY <1>0
  <2> QED BY <1>1, <2>1
<1>3. ASSUME NEW i \in Int, NEW j \in Int, Apart(i, j) PROVE Apart(j, i)
  <2>1. PICK w \in Int : i = j + n * w
    BY <1>1, <1>3
  <2>2. j = i + n * (0 - w) /\ 0 - w \in Int
    BY <1>0, <2>1
  <2> QED BY <1>1, <2>2
<1>4. ASSUME NEW i \in Int, NEW j \in Int, NEW k \in Int, Apart(i, j), Apart(j, k) PROVE Apart(i, k)
  <2>1. PICK w \in Int : i = j + n * w
    BY <1>1, <1>4
  <2>2. PICK x \in Int : j = k + n * x
    BY <1>1, <1>4
  <2>3. i = k + n * (w + x) /\ w + x \in Int
    BY <1>0, <2>1, <2>2
  <2> QED BY <1>1, <2>3
<1>5. ASSUME NEW i \in Int, NEW j \in Int, NEW k \in Int, Apart(i, j) PROVE Apart(i + k, j + k)
  <2>1. PICK w \in Int : i = j + n * w
    BY <1>1, <1>5
  <2> DEFINE v == n * w
  <2>2. v \in Int /\ i = j + v
    BY <1>0, <2>1
  <2> HIDE DEF v
  <2>3. i + k = (j + k) + v
    BY <2>2
  <2> QED BY <1>1, <2>3 DEF v
<1>6. ASSUME NEW i \in Int PROVE (i % n) \in Int /\ Apart(i % n, i)
  <2> DEFINE w == i \div n  m == i % n
  <2>1. i = n * w + m /\ w \in Int /\ m \in Int
    BY <1>0
  <2> HIDE DEF w, m
  <2>2. m = i + n * (0 - w) /\ 0 - w \in Int
    BY <1>0, <2>1
  <2>3. Apart(m, i)
    BY <1>1, <2>1, <2>2
  <2> QED BY <2>1, <2>3 DEF m
<1>7. \A i \in Int : Apart(i, i) /\ (i % Turn) \in Int /\ Apart(i % Turn, i)
  BY <1>2, <1>6 DEF n
<1>8. \A i, j \in Int : Apart(i, j) => Apart(j, i)
  BY <1>3
<1>9. \A i, j, k \in Int : Apart(i, j) /\ Apart(j, k) => Apart(i, k)
  BY <1>4
<1>10. \A i, j, k \in Int : Apart(i, j) => Apart(i + k, j + k)
  BY <1>5
<1> QED BY <1>7, <1>8, <1>9, <1>10

\* While the pitch has not been 90 degrees, the quaternion is that of the angles
\* the vehicle should have.
Reckoned ==
  s # None /\ ~locked =>
    \E r, y \in Int, p \in Pitches :
      /\ q = Mod(e2q(r, p, y))
      /\ SameAngles(angles, <<r, p, y>>)
      /\ angles[1] \in Int /\ angles[2] \in Int /\ angles[3] \in Int

LEMMA AnglesParts ==
  ASSUME NEW a, NEW b
  PROVE  SameAngles(a, b) <=> Apart(a[1], b[1]) /\ Apart(a[2], b[2]) /\ Apart(a[3], b[3])
BY DEF SameAngles, Apart, Three

\* updateNav and the integration: whatever yaw q2e finds, to full turns that of
\* the angles, the quaternion is that of the angles of the record with this yaw,
\* turned on.
LEMMA Reckons ==
  ASSUME NEW t \in Records, NEW yaw \in Int, NEW e \in Int, Apart(e, yaw)
  PROVE  LET new == [<<t.r, t.p, yaw>> EXCEPT ![t.axis] = @ + t.rate]
             ang == [new EXCEPT ![3] = @ % Turn]
         IN  new[2] \notin {-Quarter, Quarter} =>
               /\ \E r, y \in Int, p \in Pitches :
                    /\ Integrated(Corrected(t, e), t) = Mod(e2q(r, p, y))
                    /\ SameAngles(ang, <<r, p, y>>)
               /\ ang[1] \in Int /\ ang[2] \in Int /\ ang[3] \in Int
<1> DEFINE a == t.r  b == t.p  k == t.rate  i == t.axis
           new == [<<a, b, yaw>> EXCEPT ![i] = @ + k]
           ang == [new EXCEPT ![3] = @ % Turn]
           q1  == Integrated(Corrected(t, e), t)
<1> SUFFICES ASSUME new[2] \notin {-Quarter, Quarter}
             PROVE  /\ \E r, y \in Int, p \in Pitches : q1 = Mod(e2q(r, p, y)) /\ SameAngles(ang, <<r, p, y>>)
                    /\ ang[1] \in Int /\ ang[2] \in Int /\ ang[3] \in Int
  OBVIOUS
<1>1. a \in Int /\ b \in Int /\ k \in Int /\ (i = 1 \/ i = 2 \/ i = 3)
  BY RecordAssumption DEF Three
<1>2. /\ b \in -Quarter..Quarter
      /\ i = 2 => a = 0 /\ b + k \in -Quarter..Quarter
      /\ i = 3 => a = 0 /\ b = 0
  BY RateAssumption
<1>3. q1 = Mod(Mult(Mod(e2q(a, b, e)), About(i, k)))
  BY DEF Integrated, Corrected
<1>4. \A p \in -Quarter..Quarter : p \notin {-Quarter, Quarter} => p \in Pitches
  BY TurnParts DEF Pitches
<1>5. ASSUME NEW r \in Int, NEW p \in Int, NEW z \in Int, NEW y \in Int,
             new = <<r, p, z>>, p \in -Quarter..Quarter, Apart(y, z), q1 = Mod(e2q(r, p, y))
      PROVE  /\ \E r1, y1 \in Int, p1 \in Pitches : q1 = Mod(e2q(r1, p1, y1)) /\ SameAngles(ang, <<r1, p1, y1>>)
             /\ ang[1] \in Int /\ ang[2] \in Int /\ ang[3] \in Int
  <2>1. new[2] = p
    <3> HIDE DEF new
    <3> QED BY <1>5
  <2>2. p \in Pitches
    BY <1>4, <1>5, <2>1
  <2>3. ang = <<r, p, z % Turn>>
    <3> DEFINE n == Turn
    <3> HIDE DEF n
    <3>1. [<<r, p, z>> EXCEPT ![3] = @ % n] = <<r, p, z % n>>
      OBVIOUS
    <3> HIDE DEF new
    <3>2. [new EXCEPT ![3] = @ % n] = <<r, p, z % n>>
      BY <1>5, <3>1
    <3> QED BY <3>2 DEF n
  <2>4. z % Turn \in Int /\ Apart(z % Turn, z) /\ Apart(z, y)
        /\ Apart(r, r) /\ Apart(p, p)
    BY <1>5, ApartLaws
  <2> DEFINE m == z % Turn  w == <<r, p, y>>
  <2>5. Apart(m, y)
    <3>1. m \in Int /\ Apart(m, z)
      BY <2>4
    <3> HIDE DEF m
    <3> QED BY <2>4, <3>1, ApartLaws
  <2>6. ang[1] = r /\ ang[2] = p /\ ang[3] = m /\ m \in Int
    <3> HIDE DEF ang
    <3> QED BY <2>3, <2>4
  <2>7. w[1] = r /\ w[2] = p /\ w[3] = y
    OBVIOUS
  <2>8. SameAngles(ang, w)
    <3> HIDE DEF ang, w, m
    <3> QED BY <2>4, <2>5, <2>6, <2>7, AnglesParts
  <2> HIDE DEF ang, q1, m, new
  <2> QED BY <1>5, <2>2, <2>6, <2>8 DEF w
<1> HIDE DEF q1
<1>6. /\ Mod(Mult(Mod(e2q(a, b, e)), About(1, k))) = Mod(e2q(a + k, b, e))
      /\ a = 0 => Mod(Mult(Mod(e2q(a, b, e)), About(2, k))) = Mod(e2q(a, b + k, e))
      /\ a = 0 /\ b = 0 => Mod(Mult(Mod(e2q(a, b, e)), About(3, k))) = Mod(e2q(a, b, e + k))
  <2>1. \A r1, p1, y1, k1 \in Int :
          /\ Mod(Mult(Mod(e2q(r1, p1, y1)), About(1, k1))) = Mod(e2q(r1 + k1, p1, y1))
          /\ r1 = 0 => Mod(Mult(Mod(e2q(r1, p1, y1)), About(2, k1))) = Mod(e2q(r1, p1 + k1, y1))
          /\ r1 = 0 /\ p1 = 0 => Mod(Mult(Mod(e2q(r1, p1, y1)), About(3, k1))) = Mod(e2q(r1, p1, y1 + k1))
    BY TurnOn
  <2> HIDE DEF a, b, k
  <2>2. Mod(Mult(Mod(e2q(a, b, e)), About(1, k))) = Mod(e2q(a + k, b, e))
    BY <1>1, <2>1
  <2>3. a = 0 => Mod(Mult(Mod(e2q(a, b, e)), About(2, k))) = Mod(e2q(a, b + k, e))
    BY <1>1, <2>1
  <2>4. a = 0 /\ b = 0 => Mod(Mult(Mod(e2q(a, b, e)), About(3, k))) = Mod(e2q(a, b, e + k))
    BY <1>1, <2>1
  <2> QED BY <2>2, <2>3, <2>4
<1>7. a + k \in Int /\ b + k \in Int /\ yaw + k \in Int /\ e + k \in Int
  BY <1>1
<1>8. Apart(e + k, yaw + k)
  <2> HIDE DEF a, b, k
  <2> QED BY <1>1, ApartLaws
<1>9. CASE i = 1
  <2>1. new = <<a + k, b, yaw>>
    <3> HIDE DEF a, b, k, i
    <3>1. [<<a, b, yaw>> EXCEPT ![1] = @ + k] = <<a + k, b, yaw>>
      BY <1>1, Bumped
    <3> QED BY <1>9, <3>1
  <2>2. q1 = Mod(e2q(a + k, b, e))
    BY <1>3, <1>6, <1>9
  <2> HIDE DEF new, ang, a, b, k
  <2> QED BY <1>1, <1>2, <1>5, <1>7, <2>1, <2>2
<1>10. CASE i = 2
  <2>1. new = <<a, b + k, yaw>>
    <3> HIDE DEF a, b, k, i
    <3>1. [<<a, b, yaw>> EXCEPT ![2] = @ + k] = <<a, b + k, yaw>>
      BY <1>1, Bumped
    <3> QED BY <1>10, <3>1
  <2>2. q1 = Mod(e2q(a, b + k, e))
    BY <1>2, <1>3, <1>6, <1>10
  <2> HIDE DEF new, ang, a, b, k
  <2> QED BY <1>1, <1>2, <1>5, <1>7, <1>10, <2>1, <2>2
<1>11. CASE i = 3
  <2>1. new = <<a, b, yaw + k>>
    <3> HIDE DEF a, b, k, i
    <3>1. [<<a, b, yaw>> EXCEPT ![3] = @ + k] = <<a, b, yaw + k>>
      BY <1>1, Bumped
    <3> QED BY <1>11, <3>1
  <2>2. q1 = Mod(e2q(a, b, e + k))
    BY <1>2, <1>3, <1>6, <1>11
  <2> HIDE DEF new, ang, a, b, k
  <2> QED BY <1>1, <1>2, <1>5, <1>7, <1>8, <2>1, <2>2
<1> QED BY <1>1, <1>9, <1>10, <1>11

LEMMA ReckonedStep ==
  ASSUME NEW t \in Records, Reckoned, Update(t)
  PROVE  Reckoned'
<1> SUFFICES ASSUME ~locked'
             PROVE  /\ \E r, y \in Int, p \in Pitches : q' = Mod(e2q(r, p, y)) /\ SameAngles(angles', <<r, p, y>>)
                    /\ angles'[1] \in Int /\ angles'[2] \in Int /\ angles'[3] \in Int
  BY DEF Reckoned
<1> DEFINE a   == IF s = None THEN FromRecord(t) ELSE q
           yaw == IF s = None THEN t.y ELSE angles[3]
           new == [<<t.r, t.p, yaw>> EXCEPT ![t.axis] = @ + t.rate]
<1>1. /\ \E e \in {d[3] : d \in q2e(a)} : q' = Integrated(Corrected(t, e), t)
      /\ locked' = \/ locked \/ new[2] \in {-Quarter, Quarter}
                   \/ s = None /\ t.p \in {-Quarter, Quarter}
      /\ angles' = IF locked' THEN <<0, 0, 0>> ELSE [new EXCEPT ![3] = @ % Turn]
  BY DEF Update
<1>2. /\ ~locked /\ new[2] \notin {-Quarter, Quarter} /\ ~(s = None /\ t.p \in {-Quarter, Quarter})
      /\ angles' = [new EXCEPT ![3] = @ % Turn]
  <2> HIDE DEF new
  <2> QED BY <1>1
<1>3. t.r \in Int /\ t.y \in Int /\ t.p \in -Quarter..Quarter
  BY RecordAssumption, RateAssumption
<1>4. /\ yaw \in Int
      /\ \E r, y \in Int, p \in Pitches : a = Mod(e2q(r, p, y)) /\ Apart(yaw, y)
  <2>1. CASE s = None
    <3>1. t.p \in Pitches
      BY <1>2, <1>3, <2>1, TurnParts DEF Pitches
    <3>2. a = Mod(e2q(t.r, t.p, t.y)) /\ yaw = t.y
      BY <2>1 DEF FromRecord
    <3>3. Apart(t.y, t.y)
      BY <1>3, ApartLaws
    <3> HIDE DEF a, yaw
    <3> QED BY <1>3, <3>1, <3>2, <3>3
  <2>2. CASE s # None
    <3>1. PICK r \in Int, y \in Int, p \in Pitches :
            /\ q = Mod(e2q(r, p, y)) /\ SameAngles(angles, <<r, p, y>>)
            /\ angles[3] \in Int
      BY <1>2, <2>2 DEF Reckoned
    <3>2. a = q /\ yaw = angles[3]
      BY <2>2
    <3> DEFINE w == <<r, p, y>>
    <3>3. w[3] = y
      OBVIOUS
    <3>4. Apart(angles[3], w[3])
      <4> HIDE DEF w
      <4>1. SameAngles(angles, w)
        BY <3>1 DEF w
      <4> QED BY <4>1, AnglesParts
    <3> HIDE DEF a, yaw, w
    <3> QED BY <3>1, <3>2, <3>3, <3>4
  <2> QED BY <2>1, <2>2
<1> HIDE DEF a, yaw
<1>5. PICK r \in Int, y \in Int, p \in Pitches : a = Mod(e2q(r, p, y)) /\ Apart(yaw, y)
  BY <1>4
<1>6. PICK d \in q2e(a) : q' = Integrated(Corrected(t, d[3]), t)
  BY <1>1
<1>7. SameAngles(d, <<r, p, y>>) /\ d[3] \in Int
  BY <1>5, <1>6, ComesBack
<1>8. Apart(d[3], y)
  <2> DEFINE w == <<r, p, y>>
  <2>1. w[3] = y
    OBVIOUS
  <2> HIDE DEF w
  <2>2. SameAngles(d, w)
    BY <1>7 DEF w
  <2> QED BY <2>1, <2>2, AnglesParts
<1>9. Apart(d[3], yaw)
  <2>1. Apart(y, yaw)
    BY <1>4, <1>5, ApartLaws
  <2> QED BY <1>4, <1>7, <1>8, <2>1, ApartLaws
<1>10. /\ \E r1, y1 \in Int, p1 \in Pitches :
             /\ Integrated(Corrected(t, d[3]), t) = Mod(e2q(r1, p1, y1))
             /\ SameAngles([new EXCEPT ![3] = @ % Turn], <<r1, p1, y1>>)
       /\ [new EXCEPT ![3] = @ % Turn][1] \in Int /\ [new EXCEPT ![3] = @ % Turn][2] \in Int
       /\ [new EXCEPT ![3] = @ % Turn][3] \in Int
  BY <1>2, <1>4, <1>7, <1>9, Reckons
<1> HIDE DEF new
<1> QED BY <1>2, <1>6, <1>10

\* The dead reckoning of main's loop: reset's quaternion, taken apart by q2e,
\* given the roll and the pitch of each record and turned on by its rates, keeps
\* the yaw the vehicle should have, for any number of records that keep to
\* RateAssumption: rates about one axis, a yaw rate only when the vehicle is level.
THEOREM ReckoningTheorem == Spec => []DeadReckoning
<1>1. Init => Reckoned
  BY DEF Init, Reckoned
<1>2. Reckoned /\ [Next]_vars => Reckoned'
  <2> SUFFICES ASSUME Reckoned, [Next]_vars PROVE Reckoned'
    OBVIOUS
  <2>1. CASE UNCHANGED vars
    BY <2>1 DEF Reckoned, vars, SameAngles
  <2>2. CASE Next
    BY <2>2, ReckonedStep DEF Next
  <2> QED BY <2>1, <2>2
<1>3. Reckoned => DeadReckoning
  <2> SUFFICES ASSUME Reckoned, s # None, ~locked, NEW e \in q2e(q) PROVE SameAngles(e, angles)
    BY DEF DeadReckoning
  <2>1. PICK r \in Int, y \in Int, p \in Pitches :
          /\ q = Mod(e2q(r, p, y)) /\ SameAngles(angles, <<r, p, y>>)
          /\ angles[1] \in Int /\ angles[2] \in Int /\ angles[3] \in Int
    BY DEF Reckoned
  <2> DEFINE w == <<r, p, y>>
  <2>2. SameAngles(e, w) /\ e[1] \in Int /\ e[2] \in Int /\ e[3] \in Int
    BY <2>1, ComesBack
  <2>3. w[1] \in Int /\ w[2] \in Int /\ w[3] \in Int
    BY TurnParts
  <2>4. SameAngles(angles, w)
    BY <2>1
  <2> HIDE DEF w
  <2> QED BY <2>1, <2>2, <2>3, <2>4, AnglesParts, ApartLaws
<1> QED BY <1>1, <1>2, <1>3, PTL DEF Spec

-----------------------------------------------------------------------------
(* Path files: the characters of a text.                                   *)

LEMMA LeastNumber ==
  ASSUME NEW S, S \subseteq Nat, S # {}
  PROVE  \E n \in S : \A m \in S : n <= m
<1>1. \E x \in S : \A y \in S : ~ (<<y, x>> \in OpToRel(<, Nat))
  BY NatLessThanWellFounded, WFMin
<1>2. PICK x \in S : \A y \in S : ~ (<<y, x>> \in OpToRel(<, Nat))
  BY <1>1
<1>3. ASSUME NEW y \in S PROVE x <= y
  <2>1. x \in Nat /\ y \in Nat /\ ~ (<<y, x>> \in OpToRel(<, Nat))
    BY <1>2
  <2> QED BY <2>1 DEF OpToRel
<1> QED BY <1>3

Char == STRING \cup {HASH, COMMA, NL, NUL}

LEMMA CharIs == {HASH, COMMA, NL, NUL} \subseteq Char /\ STRING \subseteq Char /\ Seq(STRING) \subseteq Seq(Char)
<1>1. {HASH, COMMA, NL, NUL} \subseteq Char
  BY DEF Char
<1>2. STRING \subseteq Char
  BY DEF Char
<1>3. Seq(STRING) \subseteq Seq(Char)
  <2> HIDE DEF Char
  <2> QED BY <1>2, SeqMonotonic
<1> QED BY <1>1, <1>2, <1>3

LEMMA ConcatIs ==
  ASSUME NEW f \in Seq(Char), NEW c \in Seq(Char)
  PROVE  /\ f \o c \in Seq(Char) /\ Len(f \o c) = Len(f) + Len(c)
         /\ \A j \in 1..Len(f) : (f \o c)[j] = f[j]
         /\ \A j \in 1..Len(c) : (f \o c)[Len(f) + j] = c[j]
OBVIOUS

-----------------------------------------------------------------------------
(* The number at the front of a text.                                      *)

DigitChar == Range(Digits)

DigitOf(d) == CHOOSE v \in 0..9 : Digits[v + 1] = d

IsValue(t, n, sq) == sq = [k \in 0..n |-> IF k = 0 THEN 0 ELSE 10 * sq[k - 1] + DigitOf(t[k])]
Value(t, n)      == CHOOSE sq : IsValue(t, n, sq)

IsRun(t, n) == /\ n \in 0..Len(t) /\ \A j \in 1..n : t[j] \in DigitChar
               /\ n < Len(t) => t[n + 1] \notin DigitChar

LEMMA DigitIs == \A d \in DigitChar : DigitOf(d) \in 0..9
<1> SUFFICES ASSUME NEW d \in DigitChar PROVE DigitOf(d) \in 0..9
  OBVIOUS
<1>1. DOMAIN Digits = 1..10
  BY DEF Digits
<1>2. PICK k \in 1..10 : d = Digits[k]
  BY <1>1 DEF DigitChar, Range
<1>3. k - 1 \in 0..9 /\ Digits[(k - 1) + 1] = d
  BY <1>2
<1> QED BY <1>3 DEF DigitOf

LEMMA NoDigit == NL \notin DigitChar /\ COMMA \notin DigitChar
<1>1. DigitChar = {Digits[k] : k \in 1..10}
  BY DEF Digits, DigitChar, Range
<1>2. ASSUME NEW k \in 1..10 PROVE Digits[k] # "newline" /\ Digits[k] # "comma"
  <2>1. k = 1 \/ k = 2 \/ k = 3 \/ k = 4 \/ k = 5 \/ k = 6 \/ k = 7 \/ k = 8 \/ k = 9 \/ k = 10
    OBVIOUS
  <2>2. /\ Digits[1] = "0" /\ Digits[2] = "1" /\ Digits[3] = "2" /\ Digits[4] = "3" /\ Digits[5] = "4"
        /\ Digits[6] = "5" /\ Digits[7] = "6" /\ Digits[8] = "7" /\ Digits[9] = "8" /\ Digits[10] = "9"
    BY DEF Digits
  <2> QED BY <2>1, <2>2
<1> QED BY <1>1, <1>2 DEF NL, COMMA

LEMMA ValueExists ==
  ASSUME NEW t
  PROVE  \A n \in Nat : \E sq : IsValue(t, n, sq)
<1> DEFINE S == {n \in Nat : ~ \E sq : IsValue(t, n, sq)}
<1> SUFFICES ASSUME S # {} PROVE FALSE
  OBVIOUS
<1>1. PICK n \in S : \A m \in S : n <= m
  BY LeastNumber
<1>2. n \in Nat /\ ~ \E sq : IsValue(t, n, sq)
  BY <1>1
<1>3. n # 0
  <2>1. IsValue(t, 0, [k \in 0..0 |-> 0])
    BY DEF IsValue
  <2> QED BY <1>2, <2>1
<1>4. n - 1 \in Nat /\ n - 1 \notin S
  BY <1>1, <1>2, <1>3
<1>5. PICK sq : IsValue(t, n - 1, sq)
  BY <1>4
<1> DEFINE h == [k \in 0..n |-> IF k = n THEN 10 * sq[n - 1] + DigitOf(t[n]) ELSE sq[k]]
<1>6. ASSUME NEW k \in 0..n
      PROVE  h[k] = IF k = 0 THEN 0 ELSE 10 * h[k - 1] + DigitOf(t[k])
  <2>1. CASE k = n
    BY <1>2, <1>3, <2>1
  <2>2. CASE k # n
    <3>1. k \in 0..(n - 1) /\ h[k] = sq[k] /\ (k # 0 => h[k - 1] = sq[k - 1])
      BY <1>2, <2>2
    <3>2. sq[k] = IF k = 0 THEN 0 ELSE 10 * sq[k - 1] + DigitOf(t[k])
      BY <1>5, <3>1 DEF IsValue
    <3> QED BY <3>1, <3>2
  <2> QED BY <2>1, <2>2
<1>7. IsValue(t, n, h)
  <2>1. h = [k \in 0..n |-> h[k]]
    OBVIOUS
  <2> HIDE DEF h
  <2> QED BY <1>6, <2>1 DEF IsValue
<1> QED BY <1>2, <1>7

LEMMA ValueIs ==
  ASSUME NEW t, NEW n \in Nat, \A j \in 1..n : t[j] \in DigitChar
  PROVE  /\ Value(t, n)[0] = 0
         /\ \A k \in 1..n : Value(t, n)[k] = 10 * Value(t, n)[k - 1] + DigitOf(t[k])
         /\ \A k \in 0..n : Value(t, n)[k] \in Nat
<1> DEFINE v == Value(t, n)
<1>1. IsValue(t, n, v)
  BY ValueExists DEF Value
<1> HIDE DEF v
<1>2. v[0] = 0 /\ \A k \in 1..n : v[k] = 10 * v[k - 1] + DigitOf(t[k])
  BY <1>1 DEF IsValue
<1>3. \A k \in 0..n : v[k] \in Nat
  <2> DEFINE S == {k \in 0..n : v[k] \notin Nat}
  <2> SUFFICES ASSUME S # {} PROVE FALSE
    OBVIOUS
  <2>1. PICK k \in S : \A m \in S : k <= m
    <3>1. S \subseteq Nat /\ S # {}
      OBVIOUS
    <3> HIDE DEF S
    <3> QED BY <3>1, LeastNumber
  <2>2. k \in 1..n /\ k - 1 \in 0..n /\ k - 1 \notin S
    BY <1>2, <2>1
  <2>3. v[k] = 10 * v[k - 1] + DigitOf(t[k]) /\ v[k - 1] \in Nat /\ DigitOf(t[k]) \in 0..9
    BY <1>2, <2>2, DigitIs
  <2> QED BY <2>1, <2>3
<1> QED BY <1>2, <1>3 DEF v

LEMMA RunIs ==
  ASSUME NEW t \in Seq(Char)
  PROVE  \E n : IsRun(t, n) /\ Number(t) = IF n = 0 THEN -1 ELSE Value(t, n)[n]
<1> DEFINE R == CHOOSE k \in 0..Len(t) : /\ \A j \in 1..k : t[j] \in Range(Digits)
                                         /\ k < Len(t) => t[k + 1] \notin Range(Digits)
           V(n) == CHOOSE sq : sq = [k \in 0..n |-> IF k = 0 THEN 0 ELSE 10 * sq[k - 1] + DigitOf(t[k])]
<1>1. Number(t) = IF R = 0 THEN -1 ELSE V(R)[R]
  BY DEF Number, DigitOf
<1>2. \A n : V(n) = Value(t, n)
  BY DEF Value, IsValue
<1>3. Len(t) \in Nat
  OBVIOUS
<1>4. IsRun(t, R)
  <2> DEFINE S == {k \in 0..Len(t) : k < Len(t) => t[k + 1] \notin DigitChar}
  <2>1. Len(t) \in S /\ S \subseteq Nat
    BY <1>3
  <2>2. PICK k \in S : \A m \in S : k <= m
    BY <2>1, LeastNumber
  <2>3. \A j \in 1..k : t[j] \in DigitChar
    <3> SUFFICES ASSUME NEW j \in 1..k PROVE t[j] \in DigitChar
      OBVIOUS
    <3>1. k \in 0..Len(t)
      BY <2>2
    <3>2. j - 1 \in 0..Len(t) /\ j - 1 < Len(t) /\ (j - 1) + 1 = j /\ j - 1 < k
      BY <1>3, <3>1
    <3>3. j - 1 \notin S
      <4> HIDE DEF S
      <4> QED BY <1>3, <2>2, <3>1, <3>2
    <3> QED BY <3>2, <3>3
  <2>4. k \in 0..Len(t) /\ (k < Len(t) => t[k + 1] \notin DigitChar)
    BY <2>2
  <2>5. R \in 0..Len(t) /\ (\A j \in 1..R : t[j] \in DigitChar) /\ (R < Len(t) => t[R + 1] \notin DigitChar)
    BY <2>3, <2>4 DEF DigitChar
  <2> QED BY <2>5 DEF IsRun
<1> HIDE DEF R, V
<1> QED BY <1>1, <1>2, <1>4

LEMMA RunUnique ==
  ASSUME NEW t, NEW n, NEW m, IsRun(t, n), IsRun(t, m), Len(t) \in Nat
  PROVE  n = m
<1>1. n \in Nat /\ m \in Nat /\ n <= Len(t) /\ m <= Len(t)
  BY DEF IsRun
<1>2. ~ (n < m)
  <2> SUFFICES ASSUME n < m PROVE FALSE
    OBVIOUS
  <2>1. n + 1 \in 1..m /\ n < Len(t)
    BY <1>1
  <2> QED BY <2>1 DEF IsRun
<1>3. ~ (m < n)
  <2> SUFFICES ASSUME m < n PROVE FALSE
    OBVIOUS
  <2>1. m + 1 \in 1..n /\ m < Len(t)
    BY <1>1
  <2> QED BY <2>1 DEF IsRun
<1> QED BY <1>1, <1>2, <1>3

LEMMA ValueSame ==
  ASSUME NEW t, NEW u, NEW n \in Nat, \A j \in 1..n : t[j] \in DigitChar /\ t[j] = u[j]
  PROVE  Value(t, n)[n] = Value(u, n)[n]
<1> DEFINE v == Value(t, n)  w == Value(u, n)
           S == {k \in 0..n : v[k] # w[k]}
<1>1. v[0] = 0 /\ \A k \in 1..n : v[k] = 10 * v[k - 1] + DigitOf(t[k])
  BY ValueIs
<1>2. w[0] = 0 /\ \A k \in 1..n : w[k] = 10 * w[k - 1] + DigitOf(u[k])
  BY ValueIs
<1> HIDE DEF v, w
<1>3. S = {}
  <2> SUFFICES ASSUME S # {} PROVE FALSE
    OBVIOUS
  <2>1. PICK k \in S : \A m \in S : k <= m
    <3>1. S \subseteq Nat /\ S # {}
      OBVIOUS
    <3> HIDE DEF S
    <3> QED BY <3>1, LeastNumber
  <2>2. k \in 1..n /\ k - 1 \in 0..n /\ k - 1 \notin S
    BY <1>1, <1>2, <2>1
  <2> QED BY <1>1, <1>2, <2>1, <2>2
<1> QED BY <1>3 DEF v, w

\* The number of a text depends on its digits and what ends them.
LEMMA NumberSame ==
  ASSUME NEW t \in Seq(Char), NEW u \in Seq(Char), NEW n, IsRun(t, n), IsRun(u, n),
         \A j \in 1..n : t[j] = u[j]
  PROVE  Number(t) = Number(u)
<1>1. PICK a : IsRun(t, a) /\ Number(t) = IF a = 0 THEN -1 ELSE Value(t, a)[a]
  BY RunIs
<1>2. PICK b : IsRun(u, b) /\ Number(u) = IF b = 0 THEN -1 ELSE Value(u, b)[b]
  BY RunIs
<1>3. a = n /\ b = n
  BY <1>1, <1>2, RunUnique
<1>4. n \in Nat /\ \A j \in 1..n : t[j] \in DigitChar
  BY DEF IsRun
<1>5. Value(t, n)[n] = Value(u, n)[n]
  BY <1>4, ValueSame
<1> QED BY <1>1, <1>2, <1>3, <1>5

LEMMA NumberNat ==
  ASSUME NEW t \in Seq(Char), t # <<>>, t[1] \in DigitChar
  PROVE  Number(t) \in Nat
<1>1. PICK n : IsRun(t, n) /\ Number(t) = IF n = 0 THEN -1 ELSE Value(t, n)[n]
  BY RunIs
<1>2. n \in Nat /\ n # 0 /\ \A j \in 1..n : t[j] \in DigitChar
  BY <1>1 DEF IsRun
<1> QED BY <1>1, <1>2, ValueIs

LEMMA NumberType ==
  ASSUME NEW t \in Seq(Char)
  PROVE  Number(t) \in Nat \cup {-1}
<1>1. PICK n : IsRun(t, n) /\ Number(t) = IF n = 0 THEN -1 ELSE Value(t, n)[n]
  BY RunIs
<1>2. n \in Nat /\ \A j \in 1..n : t[j] \in DigitChar
  BY <1>1 DEF IsRun
<1> QED BY <1>1, <1>2, ValueIs

\* A path of no points whose first line is cut, its last character read twice,
\* still announces none.
LEMMA NumberZero ==
  ASSUME NEW p \in Seq(Char), Number(p) = 0, NEW x \in 1..Len(p),
         NEW t \in Seq(Char), Len(t) = x + 1, \A j \in 1..x : t[j] = p[j], t[x + 1] = p[x],
         p[1] \in DigitChar
  PROVE  Number(t) = 0
<1>1. PICK n : IsRun(p, n) /\ Number(p) = IF n = 0 THEN -1 ELSE Value(p, n)[n]
  BY RunIs
<1>2. n \in Nat /\ n # 0 /\ n <= Len(p) /\ (\A j \in 1..n : p[j] \in DigitChar) /\ Value(p, n)[n] = 0
  BY <1>1 DEF IsRun
<1> DEFINE v == Value(p, n)
<1>3. /\ \A k \in 1..n : v[k] = 10 * v[k - 1] + DigitOf(p[k])
      /\ \A k \in 0..n : v[k] \in Nat
  BY <1>2, ValueIs
<1>4. v[n] = 0
  BY <1>2
<1> HIDE DEF v
<1>5. \A k \in 0..n : v[k] = 0
  <2> DEFINE S == {j \in 0..n : v[n - j] # 0}
  <2>1. S = {}
    <3> SUFFICES ASSUME S # {} PROVE FALSE
      OBVIOUS
    <3>1. PICK j \in S : \A m \in S : j <= m
      <4>1. S \subseteq Nat /\ S # {}
        OBVIOUS
      <4> HIDE DEF S
      <4> QED BY <4>1, LeastNumber
    <3>2. j \in 1..n /\ j - 1 \in 0..n /\ j - 1 \notin S
      <4>1. j \in 0..n /\ v[n - j] # 0
        BY <3>1
      <4>2. j # 0
        BY <1>2, <1>4, <4>1
      <4>3. j \in 1..n /\ j - 1 \in 0..n /\ j - 1 \in Nat /\ ~ (j <= j - 1)
        BY <1>2, <4>1, <4>2
      <4> HIDE DEF S
      <4> QED BY <3>1, <4>3
    <3>3. n - (j - 1) \in 1..n /\ (n - (j - 1)) - 1 = n - j /\ n - j \in 0..n
      BY <1>2, <3>2
    <3>4. v[n - (j - 1)] = 0 /\ v[n - (j - 1)] = 10 * v[n - j] + DigitOf(p[n - (j - 1)])
      BY <1>3, <3>2, <3>3
    <3>5. v[n - j] \in Nat /\ DigitOf(p[n - (j - 1)]) \in 0..9
      BY <1>2, <1>3, <3>3, DigitIs
    <3>6. v[n - j] = 0
      <4> DEFINE y == v[n - j]  d == DigitOf(p[n - (j - 1)])
      <4>1. 0 = 10 * y + d /\ y \in Nat /\ d \in 0..9
        BY <3>4, <3>5
      <4> HIDE DEF y, d
      <4>2. y = 0
        BY <4>1
      <4> QED BY <4>2 DEF y
    <3> QED BY <3>1, <3>6
  <2>2. ASSUME NEW k \in 0..n PROVE v[k] = 0
    <3>1. n - k \in 0..n /\ n - (n - k) = k
      BY <1>2
    <3> QED BY <2>1, <3>1
  <2> QED BY <2>2
<1>6. \A k \in 1..n : DigitOf(p[k]) = 0
  <2> SUFFICES ASSUME NEW k \in 1..n PROVE DigitOf(p[k]) = 0
    OBVIOUS
  <2>a. k \in 0..n /\ k - 1 \in 0..n
    BY <1>2
  <2>b. v[k] = 0 /\ v[k - 1] = 0
    BY <1>5, <2>a
  <2>c. v[k] = 10 * v[k - 1] + DigitOf(p[k]) /\ DigitOf(p[k]) \in 0..9
    BY <1>2, <1>3, DigitIs
  <2>1. v[k] = 0 /\ v[k - 1] = 0 /\ v[k] = 10 * v[k - 1] + DigitOf(p[k]) /\ DigitOf(p[k]) \in 0..9
    BY <2>b, <2>c
  <2> QED BY <2>1
<1>7. PICK r : IsRun(t, r) /\ Number(t) = IF r = 0 THEN -1 ELSE Value(t, r)[r]
  BY RunIs
<1>8. r \in Nat /\ r <= x + 1 /\ (\A j \in 1..r : t[j] \in DigitChar) /\ Len(p) \in Nat /\ x \in Nat
  BY <1>7 DEF IsRun
<1>9. r # 0
  <2>1. t[1] \in DigitChar
    OBVIOUS
  <2> QED BY <1>7, <2>1 DEF IsRun
<1>10. \A k \in 1..r : DigitOf(t[k]) = 0
  <2> SUFFICES ASSUME NEW k \in 1..r PROVE DigitOf(t[k]) = 0
    OBVIOUS
  <2> DEFINE y == IF k <= x THEN k ELSE x
  <2>1. y \in 1..x /\ y <= k /\ t[k] = p[y]
    BY <1>8
  <2> HIDE DEF y
  <2>2. \A j \in 1..y : p[j] \in DigitChar
    BY <1>8, <2>1
  <2>3. y <= n
    <3> SUFFICES ASSUME n < y PROVE FALSE
      BY <1>2, <2>1
    <3>1. n + 1 \in 1..y /\ n < Len(p)
      BY <1>2, <2>1, <1>8
    <3> QED BY <1>1, <2>2, <3>1 DEF IsRun
  <2> QED BY <1>6, <2>1, <2>3
<1> DEFINE w == Value(t, r)
<1>11. w[0] = 0 /\ \A k \in 1..r : w[k] = 10 * w[k - 1] + DigitOf(t[k])
  BY <1>8, ValueIs
<1>12. w[r] = Number(t)
  BY <1>7, <1>9
<1> HIDE DEF w
<1>13. w[r] = 0
  <2> DEFINE S == {k \in 0..r : w[k] # 0}
  <2> SUFFICES ASSUME S # {} PROVE FALSE
    BY <1>8
  <2>1. PICK k \in S : \A m \in S : k <= m
    <3>1. S \subseteq Nat /\ S # {}
      OBVIOUS
    <3> HIDE DEF S
    <3> QED BY <3>1, LeastNumber
  <2>2. k \in 1..r /\ k - 1 \in 0..r /\ k - 1 \notin S
    BY <1>8, <1>11, <2>1
  <2> QED BY <1>10, <1>11, <2>1, <2>2
<1> QED BY <1>12, <1>13

-----------------------------------------------------------------------------
(* Where delimiterCount stops.                                             *)

LEMMA MinIs ==
  ASSUME NEW S, S \subseteq Nat, S # {}
  PROVE  Min(S) \in S /\ \A y \in S : Min(S) <= y
<1>1. PICK n \in S : \A m \in S : n <= m
  BY LeastNumber
<1> QED BY <1>1 DEF Min

CommaSet(p, i, j) == {k \in i..j : p[k] = COMMA}
Commas(p, j)      == Cardinality(CommaSet(p, 1, j))

LEMMA CommaSetIs ==
  ASSUME NEW p, NEW i \in Int, NEW j \in Int
  PROVE  IsFiniteSet(CommaSet(p, i, j)) /\ Cardinality(CommaSet(p, i, j)) \in Nat
<1>1. IsFiniteSet(i..j) /\ CommaSet(p, i, j) \in SUBSET (i..j)
  BY FS_Interval DEF CommaSet
<1>2. IsFiniteSet(CommaSet(p, i, j))
  BY <1>1, FS_Subset
<1> QED BY <1>2, FS_CardinalityType

LEMMA CommasType == ASSUME NEW p, NEW j \in Int PROVE Commas(p, j) \in Nat
BY CommaSetIs DEF Commas

LEMMA CommasNone == ASSUME NEW p PROVE Commas(p, 0) = 0
<1>1. CommaSet(p, 1, 0) = {}
  BY DEF CommaSet
<1> QED BY <1>1, FS_EmptySet DEF Commas

LEMMA CommasStep ==
  ASSUME NEW p, NEW j \in Nat \ {0}
  PROVE  Commas(p, j) = Commas(p, j - 1) + (IF p[j] = COMMA THEN 1 ELSE 0)
<1>0. j \notin CommaSet(p, 1, j - 1)
  BY DEF CommaSet
<1>1. IsFiniteSet(CommaSet(p, 1, j - 1)) /\ j \notin CommaSet(p, 1, j - 1)
  BY <1>0, CommaSetIs
<1>2. CASE p[j] = COMMA
  <2>1. CommaSet(p, 1, j) = CommaSet(p, 1, j - 1) \cup {j}
    BY <1>2 DEF CommaSet
  <2> QED BY <1>1, <1>2, <2>1, FS_AddElement DEF Commas
<1>3. CASE p[j] # COMMA
  <2>1. CommaSet(p, 1, j) = CommaSet(p, 1, j - 1)
    BY <1>3 DEF CommaSet
  <2> QED BY <1>3, <2>1, CommasType DEF Commas
<1> QED BY <1>2, <1>3

LEMMA CommasGrow ==
  ASSUME NEW p, NEW i \in Nat, NEW j \in Nat, i <= j
  PROVE  Commas(p, i) <= Commas(p, j)
<1>1. CommaSet(p, 1, i) \in SUBSET CommaSet(p, 1, j) /\ IsFiniteSet(CommaSet(p, 1, j))
  BY CommaSetIs DEF CommaSet
<1> QED BY <1>1, FS_Subset DEF Commas

LEMMA CommasBetween ==
  ASSUME NEW p, NEW i \in Nat \ {0}, NEW j \in Nat, i - 1 <= j
  PROVE  Cardinality(CommaSet(p, i, j)) = Commas(p, j) - Commas(p, i - 1)
<1> DEFINE S == CommaSet(p, 1, i - 1)  T == CommaSet(p, i, j)
<1>1. S \cup T = CommaSet(p, 1, j) /\ S \cap T = {}
  BY DEF CommaSet
<1>2. IsFiniteSet(S) /\ IsFiniteSet(T) /\ Cardinality(S) \in Nat /\ Cardinality(T) \in Nat
  BY CommaSetIs
<1>3. Cardinality(S \cup T) = Cardinality(S) + Cardinality(T) - Cardinality(S \cap T)
  BY <1>2, FS_Union
<1>4. Cardinality(S \cap T) = 0
  BY <1>1, FS_EmptySet
<1>5. Commas(p, j) = Cardinality(S) + Cardinality(T)
  <2>1. Commas(p, j) = Cardinality(S \cup T)
    BY <1>1 DEF Commas
  <2> HIDE DEF S, T
  <2> QED BY <1>2, <1>3, <1>4, <2>1
<1>6. Commas(p, i - 1) = Cardinality(S)
  BY DEF Commas
<1> HIDE DEF S
<1> QED BY <1>2, <1>5, <1>6

\* Commas are counted one by one, so that every number up to the last comes up,
\* first at a comma.
LEMMA CommasReach ==
  ASSUME NEW p, NEW n \in Nat, NEW c \in Nat, 0 < c, c <= Commas(p, n)
  PROVE  \E i \in 1..n : p[i] = COMMA /\ Commas(p, i) = c /\ Commas(p, i - 1) = c - 1
<1> DEFINE S == {i \in 0..n : c <= Commas(p, i)}
<1>1. S \subseteq Nat /\ n \in S
  OBVIOUS
<1>2. PICK i \in S : \A m \in S : i <= m
  <2> HIDE DEF S
  <2> QED BY <1>1, LeastNumber
<1>3. i \in 0..n /\ c <= Commas(p, i)
  BY <1>2
<1>4. i # 0
  BY <1>3, CommasNone
<1>5. i \in 1..n /\ i - 1 \in 0..n /\ ~ (i <= i - 1)
  BY <1>3, <1>4
<1>6. i - 1 \notin S
  <2> HIDE DEF S
  <2> QED BY <1>2, <1>5
<1>7. Commas(p, i - 1) < c
  BY <1>5, <1>6, CommasType
<1>8. Commas(p, i) = Commas(p, i - 1) + (IF p[i] = COMMA THEN 1 ELSE 0)
  BY <1>5, CommasStep
<1>9. Commas(p, i) \in Nat /\ Commas(p, i - 1) \in Nat
  BY <1>5, CommasType
<1>10. p[i] = COMMA /\ Commas(p, i) = c /\ Commas(p, i - 1) = c - 1
  <2> DEFINE x == Commas(p, i)  y == Commas(p, i - 1)
  <2>1. x \in Nat /\ y \in Nat /\ y < c /\ c <= x /\ x = y + (IF p[i] = COMMA THEN 1 ELSE 0)
    BY <1>3, <1>7, <1>8, <1>9
  <2> HIDE DEF x, y
  <2>2. p[i] = COMMA /\ x = c /\ y = c - 1
    BY <2>1
  <2> QED BY <2>2 DEF x, y
<1> QED BY <1>5, <1>10

\* delimiterCount goes behind the count-th comma from i on, or to the end of a
\* text that has fewer.
LEMMA DelimiterIs ==
  ASSUME NEW p \in Seq(Char), NEW count \in Nat \ {0}, NEW i \in 1..(Len(p) + 1)
  PROVE  LET d == delimiterCount(p, count, i)
         IN  /\ d \in i..(Len(p) + 1) /\ (i <= Len(p) => i < d)
             /\ \/ /\ d - 1 \in i..Len(p) /\ p[d - 1] = COMMA
                   /\ Commas(p, d - 1) = Commas(p, i - 1) + count
                   /\ Commas(p, d - 2) = Commas(p, i - 1) + count - 1
                \/ d = Len(p) + 1 /\ Commas(p, Len(p)) < Commas(p, i - 1) + count
<1> DEFINE n == Len(p)
           ends == {j \in i..n : p[j] = COMMA /\ Cardinality({k \in i..j : p[k] = COMMA}) = count}
           d == delimiterCount(p, count, i)
           before == Commas(p, i - 1)
<1>1. n \in Nat /\ i \in Nat \ {0} /\ i - 1 \in Nat /\ i <= n + 1
  OBVIOUS
<1>2. before \in Nat
  BY <1>1, CommasType
<1>3. d = IF ends = {} THEN n + 1 ELSE 1 + Min(ends)
  BY DEF delimiterCount
<1>4. \A j \in i..n : Cardinality({k \in i..j : p[k] = COMMA}) = Commas(p, j) - before
  <2> SUFFICES ASSUME NEW j \in i..n PROVE Cardinality({k \in i..j : p[k] = COMMA}) = Commas(p, j) - before
    OBVIOUS
  <2>1. j \in Nat /\ i - 1 <= j
    BY <1>1
  <2>2. Cardinality(CommaSet(p, i, j)) = Commas(p, j) - Commas(p, i - 1)
    BY <1>1, <2>1, CommasBetween
  <2> QED BY <2>2 DEF CommaSet
<1>5. \A j \in i..n : j \in ends <=> p[j] = COMMA /\ Commas(p, j) = before + count
  <2> SUFFICES ASSUME NEW j \in i..n PROVE j \in ends <=> p[j] = COMMA /\ Commas(p, j) = before + count
    OBVIOUS
  <2>1. Commas(p, j) \in Nat
    BY <1>1, CommasType
  <2>2. j \in ends <=> p[j] = COMMA /\ Commas(p, j) - before = count
    BY <1>4
  <2> DEFINE x == Commas(p, j)
  <2>3. x - before = count <=> x = before + count
    <3>1. x \in Int /\ before \in Int
      BY <1>2, <2>1
    <3> HIDE DEF x, before
    <3> QED BY <3>1
  <2> QED BY <2>2, <2>3
<1>6. ends \subseteq i..n
  OBVIOUS
<1> HIDE DEF ends, d, n, before
<1>7. CASE ends # {}
  <2> DEFINE m == Min(ends)
  <2>0. ends \subseteq Nat
    BY <1>1, <1>6
  <2>1. m \in ends /\ m \in i..n
    BY <2>0, <1>6, <1>7, MinIs
  <2>2. d = 1 + m
    BY <1>3, <1>7
  <2>3. p[m] = COMMA /\ Commas(p, m) = before + count
    BY <1>5, <2>1
  <2> HIDE DEF m
  <2>4. Commas(p, m) = Commas(p, m - 1) + 1 /\ Commas(p, m - 1) \in Nat
    BY <1>1, <2>1, <2>3, CommasStep, CommasType
  <2>5. d - 1 = m /\ d - 2 = m - 1 /\ d \in i..(n + 1) /\ i < d
    BY <1>1, <2>1, <2>2
  <2>6. Commas(p, m - 1) = before + count - 1
    <3> DEFINE x == Commas(p, m)  y == Commas(p, m - 1)
    <3>1. x = before + count /\ x = y + 1 /\ y \in Nat
      BY <2>3, <2>4
    <3> HIDE DEF x, y
    <3>2. y = before + count - 1
      BY <1>2, <3>1
    <3> QED BY <3>2 DEF y
  <2> QED BY <2>1, <2>3, <2>5, <2>6 DEF d, n, before
<1>8. CASE ends = {}
  <2>1. d = n + 1
    BY <1>3, <1>8
  <2>2. ~ (before + count <= Commas(p, n))
    <3> SUFFICES ASSUME before + count <= Commas(p, n) PROVE FALSE
      OBVIOUS
    <3>1. before + count \in Nat /\ 0 < before + count
      BY <1>2
    <3>2. PICK j \in 1..n : p[j] = COMMA /\ Commas(p, j) = before + count
      BY <1>1, <3>1, CommasReach
    <3>3. ~ (j <= i - 1)
      <4> SUFFICES ASSUME j <= i - 1 PROVE FALSE
        OBVIOUS
      <4>1. Commas(p, j) <= before
        BY <1>1, CommasGrow DEF before
      <4> QED BY <1>2, <3>2, <4>1
    <3>4. j \in i..n
      BY <1>1, <3>3
    <3> QED BY <1>5, <1>8, <3>2, <3>4
  <2>3. Commas(p, n) \in Nat
    BY <1>1, CommasType
  <2>4. Commas(p, n) < before + count
    BY <1>2, <2>2, <2>3
  <2>5. d \in i..(n + 1) /\ (i <= n => i < d)
    BY <1>1, <2>1
  <2> QED BY <2>1, <2>4, <2>5 DEF d, n, before
<1> QED BY <1>7, <1>8

-----------------------------------------------------------------------------
(* The lines pathFileWrite makes of a path: line k is the text from        *)
(* LineAt(p, k) to LineAt(p, k + 1) - 1.                                   *)

FirstPoint(p) ==
  LET from == delimiterCount(p, 1, 1)
  IN  [text  |-> Comment \o SubSeq(p, 1, from - 1) \o <<NL>> \o Comment,
       index |-> from, wild |-> FALSE]
NextPoint(p, l) ==
  LET i == delimiterCount(p, 6, l.index)
  IN  [text  |-> l.text \o SubSeq(p, l.index, i - 1) \o <<NL>>,
       index |-> i, wild |-> l.wild \/ l.index > Len(p)]

IsPoints(p, n, sq) == sq = [k \in 0..n |-> IF k = 0 THEN FirstPoint(p) ELSE NextPoint(p, sq[k - 1])]
Points(p)         == CHOOSE sq : IsPoints(p, Number(p), sq)

LineAt(p, k) == IF k = 0 THEN 1 ELSE Points(p)[k - 1].index

LEMMA PointsExist ==
  ASSUME NEW p
  PROVE  \A n \in Nat : \E sq : IsPoints(p, n, sq)
<1> DEFINE S == {n \in Nat : ~ \E sq : IsPoints(p, n, sq)}
<1> SUFFICES ASSUME S # {} PROVE FALSE
  OBVIOUS
<1>1. PICK n \in S : \A m \in S : n <= m
  BY LeastNumber
<1>2. n \in Nat /\ ~ \E sq : IsPoints(p, n, sq)
  BY <1>1
<1>3. n # 0
  <2>1. IsPoints(p, 0, [k \in 0..0 |-> FirstPoint(p)])
    BY DEF IsPoints
  <2> QED BY <1>2, <2>1
<1>4. n - 1 \in Nat /\ n - 1 \notin S
  BY <1>1, <1>2, <1>3
<1>5. PICK sq : IsPoints(p, n - 1, sq)
  BY <1>4
<1> DEFINE h == [k \in 0..n |-> IF k = n THEN NextPoint(p, sq[n - 1]) ELSE sq[k]]
<1>6. ASSUME NEW k \in 0..n
      PROVE  h[k] = IF k = 0 THEN FirstPoint(p) ELSE NextPoint(p, h[k - 1])
  <2>1. CASE k = n
    BY <1>2, <1>3, <2>1
  <2>2. CASE k # n
    <3>1. k \in 0..(n - 1) /\ h[k] = sq[k] /\ (k # 0 => h[k - 1] = sq[k - 1])
      BY <1>2, <2>2
    <3>2. sq[k] = IF k = 0 THEN FirstPoint(p) ELSE NextPoint(p, sq[k - 1])
      BY <1>5, <3>1 DEF IsPoints
    <3> QED BY <3>1, <3>2
  <2> QED BY <2>1, <2>2
<1>7. IsPoints(p, n, h)
  <2>1. h = [k \in 0..n |-> h[k]]
    OBVIOUS
  <2> HIDE DEF h
  <2> QED BY <1>6, <2>1 DEF IsPoints
<1> QED BY <1>2, <1>7

LEMMA PrintedIs == ASSUME NEW p PROVE Printed(p) = Points(p)[Number(p)]
BY DEF Printed, Points, IsPoints, FirstPoint, NextPoint

\* A text that begins with a number, as a path does.
IsPath(p) == p \in Seq(Char) /\ p # <<>> /\ p[1] \in DigitChar

LEMMA PointsAre ==
  ASSUME NEW p, IsPath(p)
  PROVE  /\ Number(p) \in Nat
         /\ Points(p)[0] = FirstPoint(p)
         /\ \A k \in 1..Number(p) : Points(p)[k] = NextPoint(p, Points(p)[k - 1])
<1>1. Number(p) \in Nat
  BY NumberNat DEF IsPath
<1> DEFINE sq == Points(p)
<1>2. IsPoints(p, Number(p), sq)
  BY <1>1, PointsExist DEF Points
<1> HIDE DEF sq
<1>3. sq[0] = FirstPoint(p) /\ \A k \in 1..Number(p) : sq[k] = NextPoint(p, sq[k - 1])
  BY <1>1, <1>2 DEF IsPoints
<1> QED BY <1>1, <1>3 DEF sq

LEMMA PointParts ==
  ASSUME NEW p, IsPath(p)
  PROVE  /\ LineAt(p, 0) = 1 /\ LineAt(p, 1) = delimiterCount(p, 1, 1)
         /\ Points(p)[0].wild = FALSE
         /\ Points(p)[0].text = Comment \o SubSeq(p, 1, LineAt(p, 1) - 1) \o <<NL>> \o Comment
         /\ \A k \in 1..Number(p) :
              /\ LineAt(p, k + 1) = delimiterCount(p, 6, LineAt(p, k))
              /\ Points(p)[k].wild = (Points(p)[k - 1].wild \/ LineAt(p, k) > Len(p))
              /\ Points(p)[k].text =
                   Points(p)[k - 1].text \o SubSeq(p, LineAt(p, k), LineAt(p, k + 1) - 1) \o <<NL>>
<1>1. Number(p) \in Nat /\ Points(p)[0] = FirstPoint(p)
  BY PointsAre
<1>2. LineAt(p, 0) = 1 /\ LineAt(p, 1) = Points(p)[0].index
  BY DEF LineAt
<1>3. ASSUME NEW k \in 1..Number(p)
      PROVE  /\ LineAt(p, k + 1) = delimiterCount(p, 6, LineAt(p, k))
             /\ Points(p)[k].wild = (Points(p)[k - 1].wild \/ LineAt(p, k) > Len(p))
             /\ Points(p)[k].text =
                  Points(p)[k - 1].text \o SubSeq(p, LineAt(p, k), LineAt(p, k + 1) - 1) \o <<NL>>
  <2>1. Points(p)[k] = NextPoint(p, Points(p)[k - 1])
    BY PointsAre
  <2>2. LineAt(p, k) = Points(p)[k - 1].index
    BY <1>1 DEF LineAt
  <2>3. LineAt(p, k + 1) = Points(p)[k].index
    <3>1. k + 1 # 0 /\ (k + 1) - 1 = k
      BY <1>1
    <3> QED BY <3>1 DEF LineAt
  <2>4. /\ Points(p)[k].index = delimiterCount(p, 6, Points(p)[k - 1].index)
        /\ Points(p)[k].wild = (Points(p)[k - 1].wild \/ Points(p)[k - 1].index > Len(p))
        /\ Points(p)[k].text = Points(p)[k - 1].text
             \o SubSeq(p, Points(p)[k - 1].index, delimiterCount(p, 6, Points(p)[k - 1].index) - 1) \o <<NL>>
    <3> DEFINE i == delimiterCount(p, 6, Points(p)[k - 1].index)
               w == Points(p)[k - 1].wild \/ Points(p)[k - 1].index > Len(p)
               x == Points(p)[k - 1].text \o SubSeq(p, Points(p)[k - 1].index, i - 1) \o <<NL>>
    <3>1. Points(p)[k] = [text |-> x, index |-> i, wild |-> w]
      BY <2>1, Zenon DEF NextPoint
    <3>2. Points(p)[k].index = i /\ Points(p)[k].wild = w /\ Points(p)[k].text = x
      <4> HIDE DEF i, w, x
      <4> QED BY <3>1
    <3> QED BY <3>2, Zenon
  <2> QED BY <2>2, <2>3, <2>4, Zenon
<1>4. /\ Points(p)[0].index = delimiterCount(p, 1, 1) /\ Points(p)[0].wild = FALSE
      /\ Points(p)[0].text = Comment \o SubSeq(p, 1, delimiterCount(p, 1, 1) - 1) \o <<NL>> \o Comment
  <2> DEFINE i == delimiterCount(p, 1, 1)
             x == Comment \o SubSeq(p, 1, i - 1) \o <<NL>> \o Comment
  <2>1. Points(p)[0] = [text |-> x, index |-> i, wild |-> FALSE]
    BY <1>1, Zenon DEF FirstPoint
  <2>2. Points(p)[0].index = i /\ Points(p)[0].wild = FALSE /\ Points(p)[0].text = x
    <3> HIDE DEF i, x
    <3> QED BY <2>1
  <2> QED BY <2>2, Zenon
<1> QED BY <1>2, <1>3, <1>4, Zenon

\* How many commas line k reaches to.
Reach(k) == IF k = 0 THEN 0 ELSE 1 + 6 * (k - 1)
Share(k) == IF k = 0 THEN 1 ELSE 6

LEMMA NextLine ==
  ASSUME NEW p, IsPath(p), NEW k \in 0..Number(p)
  PROVE  LineAt(p, k + 1) = delimiterCount(p, Share(k), LineAt(p, k))
<1>1. Number(p) \in Nat
  BY PointsAre
<1>2. CASE k = 0
  <2>1. Share(k) = 1 /\ k + 1 = 1
    BY <1>2 DEF Share
  <2> QED BY <1>2, <2>1, PointParts
<1>3. CASE k # 0
  <2>1. Share(k) = 6 /\ k \in 1..Number(p)
    BY <1>1, <1>3 DEF Share
  <2> QED BY <2>1, PointParts
<1> QED BY <1>2, <1>3

LEMMA LineRange ==
  ASSUME NEW p, IsPath(p)
  PROVE  \A k \in 0..(Number(p) + 1) : LineAt(p, k) \in 1..(Len(p) + 1)
<1> DEFINE S == {k \in 0..(Number(p) + 1) : LineAt(p, k) \notin 1..(Len(p) + 1)}
<1> SUFFICES ASSUME S # {} PROVE FALSE
  OBVIOUS
<1>1. Number(p) \in Nat /\ p \in Seq(Char) /\ Len(p) \in Nat
  BY PointsAre DEF IsPath
<1>2. PICK k \in S : \A m \in S : k <= m
  <2>1. S \subseteq Nat /\ S # {}
    OBVIOUS
  <2> HIDE DEF S
  <2> QED BY <2>1, LeastNumber
<1>3. k \in 0..(Number(p) + 1) /\ LineAt(p, k) \notin 1..(Len(p) + 1)
  BY <1>2
<1>4. k # 0
  <2>1. LineAt(p, 0) = 1
    BY PointParts
  <2> QED BY <1>1, <1>3, <2>1
<1>5. k - 1 \in 0..Number(p) /\ k - 1 \in 0..(Number(p) + 1) /\ (k - 1) + 1 = k /\ ~ (k <= k - 1)
  BY <1>1, <1>3, <1>4
<1>6. k - 1 \notin S
  <2> HIDE DEF S
  <2> QED BY <1>2, <1>5
<1>7. LineAt(p, k - 1) \in 1..(Len(p) + 1)
  BY <1>5, <1>6
<1>8. LineAt(p, k) = delimiterCount(p, Share(k - 1), LineAt(p, k - 1))
  BY <1>5, NextLine
<1>9. Share(k - 1) \in Nat \ {0}
  BY DEF Share
<1> DEFINE i == LineAt(p, k - 1)  c == Share(k - 1)  d == delimiterCount(p, c, i)
<1>10. d \in i..(Len(p) + 1)
  <2>1. i \in 1..(Len(p) + 1) /\ c \in Nat \ {0}
    BY <1>7, <1>9
  <2> HIDE DEF i, c
  <2> QED BY <1>1, <2>1, DelimiterIs
<1>11. LineAt(p, k) = d
  BY <1>8
<1>12. i \in 1..(Len(p) + 1)
  BY <1>7
<1> HIDE DEF i, d
<1> QED BY <1>1, <1>3, <1>10, <1>11, <1>12

LEMMA LineEnds ==
  ASSUME NEW p, IsPath(p), NEW k \in 0..Number(p)
  PROVE  /\ LineAt(p, k) \in 1..(Len(p) + 1) /\ LineAt(p, k + 1) \in LineAt(p, k)..(Len(p) + 1)
         /\ LineAt(p, k) <= Len(p) => LineAt(p, k) < LineAt(p, k + 1)
         /\ \/ /\ LineAt(p, k + 1) - 1 \in LineAt(p, k)..Len(p) /\ p[LineAt(p, k + 1) - 1] = COMMA
               /\ Commas(p, LineAt(p, k + 1) - 1) = Commas(p, LineAt(p, k) - 1) + Share(k)
               /\ Commas(p, LineAt(p, k + 1) - 2) = Commas(p, LineAt(p, k) - 1) + Share(k) - 1
            \/ /\ LineAt(p, k + 1) = Len(p) + 1
               /\ Commas(p, Len(p)) < Commas(p, LineAt(p, k) - 1) + Share(k)
<1> DEFINE i == LineAt(p, k)  c == Share(k)
<1>1. Number(p) \in Nat /\ p \in Seq(Char) /\ Len(p) \in Nat
  BY PointsAre DEF IsPath
<1>2. i \in 1..(Len(p) + 1)
  <2>1. k \in 0..(Number(p) + 1)
    BY <1>1
  <2> QED BY <2>1, LineRange
<1>3. c \in Nat \ {0}
  BY DEF Share
<1>4. LineAt(p, k + 1) = delimiterCount(p, c, i)
  BY NextLine
<1> HIDE DEF i, c
<1> DEFINE d == delimiterCount(p, c, i)
<1>5. /\ d \in i..(Len(p) + 1) /\ (i <= Len(p) => i < d)
      /\ \/ /\ d - 1 \in i..Len(p) /\ p[d - 1] = COMMA
            /\ Commas(p, d - 1) = Commas(p, i - 1) + c
            /\ Commas(p, d - 2) = Commas(p, i - 1) + c - 1
         \/ d = Len(p) + 1 /\ Commas(p, Len(p)) < Commas(p, i - 1) + c
  BY <1>1, <1>2, <1>3, DelimiterIs
<1>6. LineAt(p, k + 1) = d
  BY <1>4
<1> HIDE DEF d
<1> QED BY <1>2, <1>5, <1>6 DEF i, c

\* The writer runs over the end of the path when a line would begin there.
LEMMA WildIs ==
  ASSUME NEW p, IsPath(p)
  PROVE  Printed(p).wild <=> \E k \in 1..Number(p) : LineAt(p, k) > Len(p)
<1> DEFINE Late(n) == \E k \in 1..n : LineAt(p, k) > Len(p)
           S == {n \in 0..Number(p) : ~ (Points(p)[n].wild <=> Late(n))}
<1>1. Number(p) \in Nat
  BY PointsAre
<1>2. S = {}
  <2> SUFFICES ASSUME S # {} PROVE FALSE
    OBVIOUS
  <2>1. PICK n \in S : \A m \in S : n <= m
    <3>1. S \subseteq Nat /\ S # {}
      OBVIOUS
    <3> HIDE DEF S
    <3> QED BY <3>1, LeastNumber
  <2>2. n \in 0..Number(p) /\ ~ (Points(p)[n].wild <=> Late(n))
    BY <2>1
  <2>3. n # 0
    <3>1. ~ Late(0)
      OBVIOUS
    <3>2. Points(p)[0].wild = FALSE
      BY PointParts
    <3> HIDE DEF Late
    <3> QED BY <2>2, <3>1, <3>2, Zenon
  <2>4. n \in 1..Number(p) /\ n - 1 \in 0..Number(p) /\ ~ (n <= n - 1)
    BY <1>1, <2>2, <2>3
  <2>5. n - 1 \notin S
    <3> HIDE DEF S
    <3> QED BY <2>1, <2>4
  <2>6. Points(p)[n - 1].wild <=> Late(n - 1)
    <3> HIDE DEF Late
    <3> QED BY <2>4, <2>5, Zenon
  <2>7. Points(p)[n].wild = (Points(p)[n - 1].wild \/ LineAt(p, n) > Len(p))
    BY <2>4, PointParts
  <2>8. Late(n) <=> Late(n - 1) \/ LineAt(p, n) > Len(p)
    <3>1. \A k \in 1..n : k = n \/ k \in 1..(n - 1)
      BY <2>4
    <3>2. n \in 1..n /\ \A k \in 1..(n - 1) : k \in 1..n
      BY <2>4
    <3> QED BY <3>1, <3>2
  <2> HIDE DEF Late
  <2> QED BY <2>2, <2>6, <2>7, <2>8, Zenon
<1>3. Number(p) \in 0..Number(p)
  BY <1>1
<1>4. Points(p)[Number(p)].wild <=> Late(Number(p))
  <2> HIDE DEF Late
  <2> QED BY <1>2, <1>3, Zenon
<1> QED BY <1>4, PrintedIs, Zenon

\* A path whose lines all have something in them.
Tame(p) == IsPath(p) /\ ~ Printed(p).wild

LEMMA TameLines ==
  ASSUME NEW p, Tame(p)
  PROVE  /\ Number(p) \in Nat /\ p \in Seq(Char) /\ Len(p) \in Nat
         /\ LineAt(p, 0) = 1
         /\ \A k \in 0..(Number(p) + 1) : LineAt(p, k) \in 1..(Len(p) + 1)
         /\ \A k \in 0..Number(p) : /\ LineAt(p, k) \in 1..Len(p)
                                    /\ LineAt(p, k + 1) \in (LineAt(p, k) + 1)..(Len(p) + 1)
<1>0. IsPath(p)
  BY DEF Tame
<1>1. Number(p) \in Nat /\ p \in Seq(Char) /\ Len(p) \in Nat /\ p # <<>> /\ LineAt(p, 0) = 1 /\ IsPath(p)
  BY <1>0, PointsAre DEF IsPath, LineAt
<1>2. \A k \in 0..(Number(p) + 1) : LineAt(p, k) \in 1..(Len(p) + 1)
  BY <1>1, LineRange
<1>3. ASSUME NEW k \in 0..Number(p)
      PROVE  LineAt(p, k) \in 1..Len(p) /\ LineAt(p, k + 1) \in (LineAt(p, k) + 1)..(Len(p) + 1)
  <2>1. k \in 0..(Number(p) + 1) /\ LineAt(p, k) \in 1..(Len(p) + 1)
    BY <1>1, <1>2
  <2>2. LineAt(p, k) <= Len(p)
    <3>1. CASE k = 0
      BY <1>1, <3>1
    <3>2. CASE k # 0
      <4>1. k \in 1..Number(p)
        BY <1>1, <3>2
      <4>2. ~ (LineAt(p, k) > Len(p))
        BY <1>1, <4>1, WildIs DEF Tame
      <4> QED BY <1>1, <2>1, <4>2
    <3> QED BY <3>1, <3>2
  <2>3. LineAt(p, k + 1) \in LineAt(p, k)..(Len(p) + 1) /\ LineAt(p, k) < LineAt(p, k + 1)
    BY <1>1, <2>2, LineEnds
  <2> DEFINE x == LineAt(p, k)  y == LineAt(p, k + 1)
  <2>4. x \in 1..(Len(p) + 1) /\ x <= Len(p) /\ y \in x..(Len(p) + 1) /\ x < y
    BY <2>1, <2>2, <2>3
  <2>5. x \in 1..Len(p) /\ y \in (x + 1)..(Len(p) + 1)
    <3> HIDE DEF x, y
    <3> QED BY <1>1, <2>4
  <2> QED BY <2>5
<1> QED BY <1>1, <1>2, <1>3

\* The commas before line k.
LEMMA LineCommas ==
  ASSUME NEW p, IsPath(p), NEW k \in 0..(Number(p) + 1), LineAt(p, k) <= Len(p)
  PROVE  Commas(p, LineAt(p, k) - 1) = Reach(k)
<1>1. Number(p) \in Nat /\ p \in Seq(Char) /\ Len(p) \in Nat
  BY PointsAre DEF IsPath
<1> DEFINE S == {j \in 0..(Number(p) + 1) : /\ LineAt(p, j) <= Len(p)
                                            /\ Commas(p, LineAt(p, j) - 1) # Reach(j)}
<1> SUFFICES ASSUME S # {} PROVE FALSE
  OBVIOUS
<1>2. PICK n \in S : \A m \in S : n <= m
  <2>1. S \subseteq Nat /\ S # {}
    OBVIOUS
  <2> HIDE DEF S
  <2> QED BY <2>1, LeastNumber
<1>3. n \in 0..(Number(p) + 1) /\ LineAt(p, n) <= Len(p) /\ Commas(p, LineAt(p, n) - 1) # Reach(n)
  BY <1>2
<1>4. n # 0
  <2>1. LineAt(p, 0) = 1 /\ 1 - 1 = 0
    BY DEF LineAt
  <2>2. Commas(p, 0) = 0 /\ Reach(0) = 0
    BY CommasNone DEF Reach
  <2> QED BY <1>3, <2>1, <2>2
<1> DEFINE j == n - 1
<1>5. j \in 0..Number(p) /\ j \in 0..(Number(p) + 1) /\ j + 1 = n /\ ~ (n <= j)
  BY <1>1, <1>3, <1>4
<1>6. j \notin S
  <2> HIDE DEF S, j
  <2> QED BY <1>2, <1>5
<1> HIDE DEF j
<1>7. LineAt(p, j) <= Len(p)
  <2> DEFINE x == LineAt(p, j)  y == LineAt(p, j + 1)
  <2>1. x \in 1..(Len(p) + 1) /\ y \in x..(Len(p) + 1)
    BY <1>5, LineEnds
  <2>2. y <= Len(p)
    BY <1>3, <1>5
  <2> HIDE DEF x, y
  <2>3. x <= Len(p)
    BY <1>1, <2>1, <2>2
  <2> QED BY <2>3 DEF x
<1>8. Commas(p, LineAt(p, j) - 1) = Reach(j)
  BY <1>5, <1>6, <1>7
<1>9. Commas(p, LineAt(p, n) - 1) = Commas(p, LineAt(p, j) - 1) + Share(j)
  <2>1. LineAt(p, j + 1) # Len(p) + 1
    BY <1>1, <1>3, <1>5
  <2>2. Commas(p, LineAt(p, j + 1) - 1) = Commas(p, LineAt(p, j) - 1) + Share(j)
    BY <1>5, <2>1, LineEnds
  <2> QED BY <1>5, <2>2
<1>10. Reach(n) = Reach(j) + Share(j)
  BY <1>1, <1>5 DEF Reach, Share
<1> QED BY <1>3, <1>8, <1>9, <1>10

LEMMA ReachNext ==
  ASSUME NEW k \in Nat
  PROVE  Reach(k) + Share(k) = 1 + 6 * k /\ Reach(k) \in Nat /\ Share(k) \in Nat
BY DEF Reach, Share

\* Counted is what lies before the end of the last line.
LEMMA CountedIs ==
  ASSUME NEW p, Tame(p)
  PROVE  Counted(p) = SubSeq(p, 1, LineAt(p, Number(p) + 1) - 1)
<1> DEFINE N == Number(p)  n == Len(p)  b == LineAt(p, N)  e == LineAt(p, N + 1)
           ends == {i \in DOMAIN p : Cardinality({k \in 1..i : p[k] = COMMA}) = 1 + 6 * N}
<1>1. /\ N \in Nat /\ p \in Seq(Char) /\ n \in Nat /\ N \in 0..N /\ N \in 0..(N + 1)
      /\ b \in 1..n /\ e \in (b + 1)..(n + 1) /\ DOMAIN p = 1..n /\ IsPath(p)
  BY TameLines DEF Tame
<1>2. ends = {i \in 1..n : Commas(p, i) = 1 + 6 * N}
  BY <1>1 DEF Commas, CommaSet
<1>3. Commas(p, b - 1) + Share(N) = 1 + 6 * N
  <2>1. Commas(p, b - 1) = Reach(N)
    BY <1>1, LineCommas
  <2> QED BY <1>1, <2>1, ReachNext
<1>4. Counted(p) = IF ends = {} THEN p ELSE SubSeq(p, 1, Min(ends))
  BY DEF Counted
<1>5. \/ /\ e - 1 \in b..n /\ p[e - 1] = COMMA
         /\ Commas(p, e - 1) = Commas(p, b - 1) + Share(N)
         /\ Commas(p, e - 2) = Commas(p, b - 1) + Share(N) - 1
      \/ e = n + 1 /\ Commas(p, n) < Commas(p, b - 1) + Share(N)
  BY <1>1, LineEnds
<1> HIDE DEF N, n, b, e, ends
<1>6. CASE e - 1 \in b..n /\ Commas(p, e - 1) = 1 + 6 * N /\ Commas(p, e - 2) = 1 + 6 * N - 1
  <2>1. e - 1 \in 1..n /\ e - 1 \in ends /\ e - 2 \in Nat
    BY <1>1, <1>2, <1>6
  <2>2. ASSUME NEW i \in ends PROVE e - 1 <= i
    <3> SUFFICES ASSUME i < e - 1 PROVE FALSE
      BY <1>1, <1>2
    <3>1. i \in Nat /\ i <= e - 2 /\ Commas(p, i) = 1 + 6 * N
      BY <1>1, <1>2
    <3>2. Commas(p, i) <= Commas(p, e - 2)
      BY <2>1, <3>1, CommasGrow
    <3> QED BY <1>1, <1>6, <3>1, <3>2
  <2>3. ends \subseteq Nat /\ ends # {}
    BY <1>2, <2>1
  <2>4. Min(ends) \in ends /\ \A i \in ends : Min(ends) <= i
    BY <2>3, MinIs
  <2>5. Min(ends) = e - 1
    <3> DEFINE m == Min(ends)
    <3>0. m \in ends /\ \A i \in ends : m <= i
      BY <2>4
    <3> HIDE DEF m
    <3>1. m <= e - 1 /\ e - 1 <= m /\ m \in Int
      BY <2>1, <2>2, <2>3, <3>0
    <3> HIDE DEF m
    <3>2. m = e - 1
      BY <1>1, <3>1
    <3> QED BY <3>2 DEF m
  <2> QED BY <1>4, <2>3, <2>5 DEF e, N
<1>7. CASE e = n + 1 /\ Commas(p, n) < 1 + 6 * N
  <2>1. ends = {}
    <3> SUFFICES ASSUME NEW i \in ends PROVE FALSE
      OBVIOUS
    <3>1. i \in 1..n /\ Commas(p, i) = 1 + 6 * N
      BY <1>2
    <3>2. Commas(p, i) <= Commas(p, n)
      BY <1>1, <3>1, CommasGrow
    <3>3. Commas(p, n) \in Nat
      BY <1>1, CommasType
    <3> QED BY <1>1, <1>7, <3>1, <3>2, <3>3
  <2>2. e - 1 = n
    BY <1>1, <1>7
  <2>3. SubSeq(p, 1, n) = p
    BY <1>1, SubSeqFull DEF n
  <2>4. Counted(p) = SubSeq(p, 1, e - 1)
    BY <1>4, <2>1, <2>2, <2>3
  <2> QED BY <2>4 DEF e, N
<1>8. \/ e - 1 \in b..n /\ Commas(p, e - 1) = 1 + 6 * N /\ Commas(p, e - 2) = 1 + 6 * N - 1
      \/ e = n + 1 /\ Commas(p, n) < 1 + 6 * N
  <2> DEFINE u == Commas(p, b - 1)  v == Share(N)  y == Commas(p, e - 1)  z == Commas(p, e - 2)  w == Commas(p, n)
  <2>1. u + v = 1 + 6 * N /\ u \in Nat /\ v \in Nat
    BY <1>1, <1>3, CommasType, ReachNext
  <2>2. \/ e - 1 \in b..n /\ y = u + v /\ z = u + v - 1
        \/ e = n + 1 /\ w < u + v
    BY <1>5, Zenon
  <2> HIDE DEF u, v, y, z, w
  <2>3. \/ e - 1 \in b..n /\ y = 1 + 6 * N /\ z = 1 + 6 * N - 1
        \/ e = n + 1 /\ w < 1 + 6 * N
    BY <1>1, <2>1, <2>2
  <2> QED BY <2>3, Zenon DEF y, z, w
<1> QED BY <1>6, <1>7, <1>8

\* A path that has the points it announces does not send the writer astray.
LEMMA WholeIsTame ==
  ASSUME NEW p, IsPath(p), HasItsPoints(p)
  PROVE  Tame(p)
<1> SUFFICES ASSUME Printed(p).wild PROVE FALSE
  BY DEF Tame
<1> DEFINE N == Number(p)  n == Len(p)
           S == {k \in 1..N : LineAt(p, k) > n}
<1>1. N \in Nat /\ p \in Seq(Char) /\ n \in Nat /\ n # 0 /\ DOMAIN p = 1..n /\ p # <<>>
  BY PointsAre DEF IsPath
<1>2. S # {}
  BY WildIs
<1>3. PICK k \in S : \A m \in S : k <= m
  <2>1. S \subseteq Nat
    OBVIOUS
  <2> HIDE DEF S
  <2> QED BY <1>2, <2>1, LeastNumber
<1> DEFINE j == k - 1  b == LineAt(p, j)
<1>4. k \in 1..N /\ LineAt(p, k) > n
  BY <1>3
<1>5. j \in 0..N /\ j + 1 = k /\ ~ (k <= j) /\ k <= N /\ j \in Nat /\ j \in 0..(N + 1)
  BY <1>1, <1>4
<1>6. b <= n
  <2>1. CASE j = 0
    <3>1. b = 1
      BY <2>1 DEF LineAt
    <3> HIDE DEF b
    <3> QED BY <1>1, <3>1
  <2>2. CASE j # 0
    <3>1. j \in 1..N
      BY <1>1, <1>5, <2>2
    <3>2. j \notin S
      <4> HIDE DEF S, j
      <4> QED BY <1>3, <1>5
    <3>3. b \in 1..(n + 1)
      BY <1>5, LineEnds
    <3> HIDE DEF j
    <3> QED BY <1>1, <3>1, <3>2, <3>3
  <2> QED BY <2>1, <2>2
<1>7. LineAt(p, k) = n + 1
  <2>1. LineAt(p, k) \in 1..(n + 1)
    BY <1>1, <1>4, LineRange
  <2> QED BY <1>1, <1>4, <2>1
<1>8. Commas(p, b - 1) + Share(j) = 1 + 6 * j
  <2>1. Commas(p, b - 1) = Reach(j)
    BY <1>5, <1>6, LineCommas
  <2> HIDE DEF j
  <2> QED BY <1>5, <2>1, ReachNext
<1>9. \/ p[n] = COMMA /\ Commas(p, n) = 1 + 6 * j
      \/ Commas(p, n) < 1 + 6 * j
  <2>1. \/ /\ p[LineAt(p, j + 1) - 1] = COMMA
           /\ Commas(p, LineAt(p, j + 1) - 1) = Commas(p, b - 1) + Share(j)
        \/ Commas(p, n) < Commas(p, b - 1) + Share(j)
    BY <1>5, LineEnds
  <2>2. LineAt(p, j + 1) - 1 = n
    BY <1>1, <1>5, <1>7
  <2> QED BY <1>8, <2>1, <2>2
<1>10. Fields(p) = Commas(p, n) + (IF p[n] = COMMA THEN 0 ELSE 1) - 1
  BY <1>1 DEF Fields, Last, Commas, CommaSet
<1>11. Fields(p) > 6 * (N - 1)
  BY DEF HasItsPoints
<1>12. Commas(p, n) \in Nat
  BY <1>1, CommasType
<1> DEFINE x == Commas(p, n)
<1>13. 6 * j <= 6 * (N - 1)
  <2> HIDE DEF j, N
  <2> QED BY <1>1, <1>5
<1>14. x + (IF p[n] = COMMA THEN 0 ELSE 1) - 1 > 6 * (N - 1)
  BY <1>10, <1>11
<1> HIDE DEF x, j, N, n
<1> QED BY <1>1, <1>5, <1>9, <1>12, <1>13, <1>14 DEF x

-----------------------------------------------------------------------------
(* The lines of a file that are not comments.                              *)

Content(f, i) == (i = 1 \/ f[i - 1] = NL) /\ f[i] # HASH
Starts(f, i)  == {j \in 1..(i - 1) : Content(f, j)}
Before(f, i)  == Cardinality(Starts(f, i))

LEMMA StartsAre ==
  ASSUME NEW f, NEW i \in Int
  PROVE  IsFiniteSet(Starts(f, i)) /\ Before(f, i) \in Nat
<1>1. IsFiniteSet(1..(i - 1)) /\ Starts(f, i) \in SUBSET (1..(i - 1))
  BY FS_Interval DEF Starts
<1>2. IsFiniteSet(Starts(f, i))
  BY <1>1, FS_Subset
<1> QED BY <1>2, FS_CardinalityType DEF Before

LEMMA BeforeFirst == ASSUME NEW f PROVE Before(f, 1) = 0
<1>1. Starts(f, 1) = {}
  BY DEF Starts
<1> QED BY <1>1, FS_EmptySet DEF Before

LEMMA BeforeStep ==
  ASSUME NEW f, NEW i \in Nat \ {0}
  PROVE  Before(f, i + 1) = Before(f, i) + (IF Content(f, i) THEN 1 ELSE 0)
<1>1. IsFiniteSet(Starts(f, i)) /\ i \notin Starts(f, i) /\ Before(f, i) \in Nat
  BY StartsAre DEF Starts
<1>2. CASE Content(f, i)
  <2>1. Starts(f, i + 1) = Starts(f, i) \cup {i}
    BY <1>2 DEF Starts
  <2> QED BY <1>1, <1>2, <2>1, FS_AddElement DEF Before
<1>3. CASE ~ Content(f, i)
  <2>1. Starts(f, i + 1) = Starts(f, i)
    BY <1>3 DEF Starts
  <2> QED BY <1>1, <1>3, <2>1 DEF Before
<1> QED BY <1>2, <1>3

LEMMA BeforeFlat ==
  ASSUME NEW f, NEW i \in Nat \ {0}, NEW j \in Nat, i <= j, \A h \in i..(j - 1) : ~ Content(f, h)
  PROVE  Before(f, j) = Before(f, i)
<1>1. Starts(f, j) = Starts(f, i)
  BY DEF Starts
<1> QED BY <1>1 DEF Before

LEMMA BeforeSame ==
  ASSUME NEW f, NEW g, NEW i \in Nat, \A h \in 1..(i - 1) : f[h] = g[h]
  PROVE  Before(f, i) = Before(g, i)
<1>1. \A h \in 1..(i - 1) : Content(f, h) <=> Content(g, h)
  <2> SUFFICES ASSUME NEW h \in 1..(i - 1) PROVE Content(f, h) <=> Content(g, h)
    OBVIOUS
  <2>1. f[h] = g[h] /\ (h # 1 => h - 1 \in 1..(i - 1))
    OBVIOUS
  <2> QED BY <2>1 DEF Content
<1>2. Starts(f, i) = Starts(g, i)
  BY <1>1 DEF Starts
<1> QED BY <1>2 DEF Before

LEMMA BeforeGrow ==
  ASSUME NEW f, NEW i \in Int, NEW j \in Int, i <= j
  PROVE  Before(f, i) <= Before(f, j)
<1>0. 1..(i - 1) \subseteq 1..(j - 1)
  OBVIOUS
<1>1. Starts(f, i) \in SUBSET Starts(f, j) /\ IsFiniteSet(Starts(f, j))
  BY <1>0, StartsAre, Zenon DEF Starts
<1> QED BY <1>1, FS_Subset DEF Before

LEMMA BegunIs ==
  ASSUME NEW f \in Seq(Char)
  PROVE  Begun(f) = Before(f, Len(f) + 1)
<1>1. DOMAIN f = 1..Len(f) /\ 1..((Len(f) + 1) - 1) = 1..Len(f)
  OBVIOUS
<1>2. {i \in DOMAIN f : (i = 1 \/ f[i - 1] = NL) /\ f[i] # HASH} = Starts(f, Len(f) + 1)
  BY <1>1, Zenon DEF Starts, Content
<1> QED BY <1>2 DEF Begun, Before

\* From i on, up to the end of the line or of what there is of it, f holds line
\* k of the path.
Size(p, k) == LineAt(p, k + 1) - LineAt(p, k)
HoldsLine(f, i, p, k) ==
  \A j \in i..Len(f) : (\A h \in i..(j - 1) : f[h] # NL) =>
    /\ j - i <= Size(p, k)
    /\ f[j] = IF j - i < Size(p, k) THEN p[LineAt(p, k) + (j - i)] ELSE NL

Shape(f, p) ==
  /\ f \in Seq(Char)
  /\ \A i \in 1..Len(f) : Content(f, i) =>
       Before(f, i) \in 0..Number(p) /\ HoldsLine(f, i, p, Before(f, i))

EndsLine(f)    == f = <<>> \/ f[Len(f)] = NL
Whole(f, p, k) == Shape(f, p) /\ Before(f, Len(f) + 1) = k /\ EndsLine(f)

LEMMA ShapePrefix ==
  ASSUME NEW p, NEW f, Shape(f, p), NEW g \in Seq(Char), Len(g) <= Len(f),
         \A j \in 1..Len(g) : g[j] = f[j]
  PROVE  Shape(g, p)
<1> DEFINE n == Len(g)  m == Len(f)
<1>1. n \in Nat /\ m \in Nat /\ n <= m /\ \A j \in 1..n : g[j] = f[j]
  BY DEF Shape
<1>2. SUFFICES ASSUME NEW i \in 1..n, Content(g, i)
               PROVE  Before(g, i) \in 0..Number(p) /\ HoldsLine(g, i, p, Before(g, i))
  BY DEF Shape
<1> HIDE DEF n, m
<1>3. i \in 1..m /\ Content(f, i)
  <2>1. i \in 1..m /\ i \in 1..n /\ (i # 1 => i - 1 \in 1..n)
    BY <1>1, <1>2
  <2>2. g[i] = f[i] /\ (i # 1 => g[i - 1] = f[i - 1])
    BY <1>1, <2>1
  <2> QED BY <1>2, <2>1, <2>2 DEF Content
<1>4. Before(g, i) = Before(f, i)
  <2>1. i \in Nat /\ \A h \in 1..(i - 1) : g[h] = f[h]
    BY <1>1
  <2> QED BY <2>1, BeforeSame
<1>5. Before(f, i) \in 0..Number(p) /\ HoldsLine(f, i, p, Before(f, i))
  BY <1>3 DEF Shape, m
<1> DEFINE k == Before(f, i)
<1>6. HoldsLine(f, i, p, k)
  BY <1>5
<1> HIDE DEF k
<1>7. HoldsLine(g, i, p, k)
  <2> SUFFICES ASSUME NEW j \in i..n, \A h \in i..(j - 1) : g[h] # NL
               PROVE  /\ j - i <= Size(p, k)
                      /\ g[j] = IF j - i < Size(p, k) THEN p[LineAt(p, k) + (j - i)] ELSE NL
    BY DEF HoldsLine, n
  <2>1. j \in i..m /\ g[j] = f[j]
    BY <1>1
  <2>2. \A h \in i..(j - 1) : f[h] # NL
    <3> SUFFICES ASSUME NEW h \in i..(j - 1) PROVE f[h] # NL
      OBVIOUS
    <3>1. h \in 1..n
      BY <1>1
    <3> QED BY <1>1, <3>1
  <2>3. /\ j - i <= Size(p, k)
        /\ f[j] = IF j - i < Size(p, k) THEN p[LineAt(p, k) + (j - i)] ELSE NL
    BY <1>6, <2>1, <2>2 DEF HoldsLine, m
  <2> QED BY <2>1, <2>3
<1> QED BY <1>4, <1>5, <1>7 DEF k

\* A comment between two lines is no line.
LEMMA ShapeComment ==
  ASSUME NEW p, NEW f, NEW k, Whole(f, p, k), NEW i \in 1..(Len(f) + 1), i = 1 \/ f[i - 1] = NL,
         NEW n \in Nat, 2 <= n, NEW g \in Seq(Char), Len(g) = Len(f) + n,
         \A j \in 1..(i - 1) : g[j] = f[j], \A j \in i..Len(f) : g[j + n] = f[j],
         g[i] = HASH, g[(i + n) - 1] = NL, \A j \in i..((i + n) - 2) : g[j] # NL
  PROVE  Whole(g, p, k)
<1> DEFINE m == Len(f)
<1>1. /\ m \in Nat /\ i \in 1..(m + 1) /\ n \in Nat /\ 2 <= n /\ Len(g) = m + n /\ (i = 1 \/ f[i - 1] = NL)
      /\ Shape(f, p) /\ Before(f, m + 1) = k /\ EndsLine(f) /\ f \in Seq(Char)
  BY DEF Whole, Shape
<1>2. (\A j \in 1..(i - 1) : g[j] = f[j]) /\ (\A j \in i..m : g[j + n] = f[j])
  OBVIOUS
<1> HIDE DEF m
<1>3. \A j \in 1..(i - 1) : Content(g, j) <=> Content(f, j)
  <2> SUFFICES ASSUME NEW j \in 1..(i - 1) PROVE Content(g, j) <=> Content(f, j)
    OBVIOUS
  <2>1. j # 1 => j - 1 \in 1..(i - 1)
    BY <1>1
  <2>2. g[j] = f[j] /\ (j # 1 => g[j - 1] = f[j - 1])
    BY <1>2, <2>1
  <2> QED BY <2>2, Zenon DEF Content
<1>4. \A j \in i..((i + n) - 1) : ~ Content(g, j)
  <2> SUFFICES ASSUME NEW j \in i..((i + n) - 1) PROVE ~ Content(g, j)
    OBVIOUS
  <2>1. CASE j = i
    BY <2>1 DEF Content
  <2>2. CASE j # i
    <3>1. j # 1 /\ j - 1 \in i..((i + n) - 2)
      BY <1>1, <2>2
    <3>2. g[j - 1] # NL
      BY <3>1
    <3> QED BY <3>1, <3>2, Zenon DEF Content
  <2> QED BY <2>1, <2>2
<1>5. \A j \in i..m : Content(g, j + n) <=> Content(f, j)
  <2> SUFFICES ASSUME NEW j \in i..m PROVE Content(g, j + n) <=> Content(f, j)
    OBVIOUS
  <2>1. g[j + n] = f[j] /\ j + n # 1
    BY <1>1, <1>2
  <2>2. (g[(j + n) - 1] = NL) <=> (j = 1 \/ f[j - 1] = NL)
    <3>1. CASE j = i
      <4>1. g[(j + n) - 1] = NL
        BY <3>1
      <4> QED BY <1>1, <3>1, <4>1
    <3>2. CASE j # i
      <4>1. j # 1 /\ j - 1 \in i..m /\ (j - 1) + n = (j + n) - 1
        BY <1>1, <3>2
      <4>2. g[(j - 1) + n] = f[j - 1]
        BY <1>2, <4>1
      <4> QED BY <4>1, <4>2
    <3> QED BY <3>1, <3>2
  <2> QED BY <2>1, <2>2, Zenon DEF Content
<1>6. \A j \in 1..i : Before(g, j) = Before(f, j)
  <2> SUFFICES ASSUME NEW j \in 1..i PROVE Before(g, j) = Before(f, j)
    OBVIOUS
  <2>1. j \in Nat /\ \A h \in 1..(j - 1) : g[h] = f[h]
    BY <1>1, <1>2
  <2> QED BY <2>1, BeforeSame
<1>7. Before(g, i + n) = Before(f, i)
  <2>1. i \in Nat \ {0} /\ i + n \in Nat /\ i <= i + n /\ i \in 1..i
    BY <1>1
  <2>2. Before(g, i + n) = Before(g, i)
    <3>1. \A h \in i..((i + n) - 1) : ~ Content(g, h)
      BY <1>4
    <3> DEFINE e == i + n
    <3>2. e \in Nat /\ i <= e /\ \A h \in i..(e - 1) : ~ Content(g, h)
      BY <2>1, <3>1
    <3> HIDE DEF e
    <3>3. Before(g, e) = Before(g, i)
      BY <2>1, <3>2, BeforeFlat
    <3> QED BY <3>3 DEF e
  <2> QED BY <1>6, <2>1, <2>2
<1>8. \A j \in i..(m + 1) : Before(g, j + n) = Before(f, j)
  <2> DEFINE S == {j \in i..(m + 1) : Before(g, j + n) # Before(f, j)}
  <2> SUFFICES ASSUME S # {} PROVE FALSE
    OBVIOUS
  <2>1. PICK j \in S : \A h \in S : j <= h
    <3>1. S \subseteq Nat /\ S # {}
      BY <1>1
    <3> HIDE DEF S
    <3> QED BY <3>1, LeastNumber
  <2>2. j \in i..(m + 1) /\ Before(g, j + n) # Before(f, j)
    BY <2>1
  <2>3. j # i
    BY <1>7, <2>2
  <2>4. j - 1 \in i..m /\ j - 1 \in i..(m + 1) /\ ~ (j <= j - 1) /\ j - 1 \in Nat \ {0}
        /\ (j - 1) + n \in Nat \ {0} /\ (j - 1) + 1 = j /\ ((j - 1) + n) + 1 = j + n
    BY <1>1, <2>2, <2>3
  <2>5. j - 1 \notin S
    <3> HIDE DEF S
    <3> QED BY <2>1, <2>4
  <2>6. Before(g, (j - 1) + n) = Before(f, j - 1)
    BY <2>4, <2>5
  <2>7. Before(g, ((j - 1) + n) + 1) = Before(g, (j - 1) + n) + (IF Content(g, (j - 1) + n) THEN 1 ELSE 0)
    BY <2>4, BeforeStep
  <2>8. Before(f, (j - 1) + 1) = Before(f, j - 1) + (IF Content(f, j - 1) THEN 1 ELSE 0)
    BY <2>4, BeforeStep
  <2>9. Content(g, (j - 1) + n) <=> Content(f, j - 1)
    BY <1>5, <2>4
  <2> QED BY <2>2, <2>4, <2>6, <2>7, <2>8, <2>9
<1>9. ASSUME NEW j \in 1..Len(g), Content(g, j)
      PROVE  Before(g, j) \in 0..Number(p) /\ HoldsLine(g, j, p, Before(g, j))
  <2>0. j < i \/ j \in i..((i + n) - 1) \/ (i + n <= j /\ j <= m + n)
    BY <1>1
  <2>1. CASE j < i
    <3>1. j \in 1..(i - 1) /\ j \in 1..m /\ j \in 1..i /\ i # 1
      BY <1>1, <2>1
    <3>2. Content(f, j) /\ Before(g, j) = Before(f, j)
      BY <1>3, <1>6, <1>9, <3>1
    <3>3. Before(f, j) \in 0..Number(p) /\ HoldsLine(f, j, p, Before(f, j))
      BY <1>1, <3>1, <3>2 DEF Shape, m
    <3> DEFINE k0 == Before(f, j)
    <3>4. HoldsLine(f, j, p, k0)
      BY <3>3
    <3> HIDE DEF k0
    <3>5. HoldsLine(g, j, p, k0)
      <4> SUFFICES ASSUME NEW h \in j..Len(g), \A l \in j..(h - 1) : g[l] # NL
                   PROVE  /\ h - j <= Size(p, k0)
                          /\ g[h] = IF h - j < Size(p, k0) THEN p[LineAt(p, k0) + (h - j)] ELSE NL
        BY DEF HoldsLine
      <4>1. h < i
        <5> SUFFICES ASSUME i <= h PROVE FALSE
          BY <1>1
        <5>1. i - 1 \in 1..(i - 1) /\ i - 1 \in j..(h - 1)
          BY <1>1, <3>1
        <5>2. g[i - 1] = f[i - 1] /\ f[i - 1] = NL
          BY <1>1, <1>2, <3>1, <5>1
        <5> QED BY <5>1, <5>2
      <4>2. h \in j..m /\ h \in 1..(i - 1) /\ g[h] = f[h]
        BY <1>1, <1>2, <3>1, <4>1
      <4>3. \A l \in j..(h - 1) : f[l] # NL
        <5> SUFFICES ASSUME NEW l \in j..(h - 1) PROVE f[l] # NL
          OBVIOUS
        <5>1. l \in 1..(i - 1)
          BY <1>1, <3>1, <4>1
        <5> QED BY <1>2, <5>1
      <4> QED BY <3>4, <4>2, <4>3 DEF HoldsLine, m
    <3> QED BY <3>2, <3>3, <3>5 DEF k0
  <2>2. CASE j \in i..((i + n) - 1)
    BY <1>4, <1>9, <2>2
  <2>3. CASE i + n <= j /\ j <= m + n
    <3> DEFINE a == j - n
    <3>1. a \in i..m /\ a \in 1..m /\ a \in i..(m + 1) /\ j = a + n
      BY <1>1, <2>3
    <3> HIDE DEF a
    <3>2. Content(f, a) /\ Before(g, j) = Before(f, a)
      BY <1>5, <1>8, <1>9, <3>1
    <3>3. Before(f, a) \in 0..Number(p) /\ HoldsLine(f, a, p, Before(f, a))
      BY <1>1, <3>1, <3>2 DEF Shape, m
    <3> DEFINE k0 == Before(f, a)
    <3>4. HoldsLine(f, a, p, k0)
      BY <3>3
    <3> HIDE DEF k0
    <3>5. HoldsLine(g, j, p, k0)
      <4> SUFFICES ASSUME NEW h \in j..Len(g), \A l \in j..(h - 1) : g[l] # NL
                   PROVE  /\ h - j <= Size(p, k0)
                          /\ g[h] = IF h - j < Size(p, k0) THEN p[LineAt(p, k0) + (h - j)] ELSE NL
        BY DEF HoldsLine
      <4> DEFINE b == h - n
      <4>1. b \in a..m /\ b \in i..m /\ h = b + n /\ b - a = h - j
        BY <1>1, <3>1
      <4> HIDE DEF b
      <4>2. g[h] = f[b]
        BY <1>2, <4>1
      <4>3. \A l \in a..(b - 1) : f[l] # NL
        <5> SUFFICES ASSUME NEW l \in a..(b - 1) PROVE f[l] # NL
          OBVIOUS
        <5>1. l \in i..m /\ l + n \in j..(h - 1)
          BY <1>1, <3>1, <4>1
        <5> QED BY <1>2, <5>1
      <4>4. /\ b - a <= Size(p, k0)
            /\ f[b] = IF b - a < Size(p, k0) THEN p[LineAt(p, k0) + (b - a)] ELSE NL
        BY <3>4, <4>1, <4>3 DEF HoldsLine, m
      <4> QED BY <4>1, <4>2, <4>4
    <3> QED BY <3>2, <3>3, <3>5 DEF k0
  <2> QED BY <2>0, <2>1, <2>2, <2>3
<1>10. Shape(g, p)
  BY <1>9 DEF Shape
<1>11. Before(g, Len(g) + 1) = k
  <2> DEFINE l == Len(g)
  <2>0. m \in Nat /\ i \in Nat /\ i <= m + 1 /\ l = m + n
    BY <1>1
  <2> HIDE DEF l
  <2>2. m + 1 \in i..(m + 1)
    BY <2>0
  <2>3. (m + 1) + n = l + 1
    <3>1. m \in Nat /\ n \in Nat /\ l = m + n
      BY <2>0
    <3> QED BY <3>1
  <2>1. m + 1 \in i..(m + 1) /\ (m + 1) + n = l + 1
    BY <2>2, <2>3, Zenon
  <2> QED BY <1>1, <1>8, <2>1
<1>12. EndsLine(g)
  <2>1. CASE i = m + 1
    <3>1. (i + n) - 1 = Len(g)
      BY <1>1, <2>1
    <3> QED BY <3>1 DEF EndsLine
  <2>2. CASE i # m + 1
    <3>a. m \in Nat /\ i \in 1..(m + 1)
      BY <1>1, Zenon
    <3>b. i \in Nat /\ 1 <= i /\ i <= m + 1
      BY <3>a
    <3>c. m + n = Len(g)
      BY <1>1, Zenon
    <3>0. m \in Nat /\ i \in Nat /\ 1 <= i /\ i <= m + 1 /\ m + n = Len(g)
      BY <3>a, <3>b, <3>c, Zenon
    <3>1. m \in i..m /\ m # 0 /\ m + n = Len(g)
      BY <2>2, <3>0
    <3>2. g[m + n] = f[m]
      BY <1>2, <3>1
    <3>3. f[m] = NL
      <4>1. f # <<>>
        BY <1>1, <3>1 DEF m
      <4> QED BY <1>1, <4>1 DEF EndsLine, m
    <3> QED BY <3>1, <3>2, <3>3 DEF EndsLine
  <2> QED BY <2>1, <2>2
<1> QED BY <1>10, <1>11, <1>12 DEF Whole

\* A path with neither '#', nor newline, nor '\0', whose lines all have something in them.
Good(p) == Tame(p) /\ \A i \in 1..Len(p) : p[i] \notin {HASH, NL, NUL}

LEMMA ShapeLine ==
  ASSUME NEW p, Good(p), NEW f, NEW k \in 0..Number(p), Whole(f, p, k),
         NEW g \in Seq(Char), Len(g) = (Len(f) + Size(p, k)) + 1,
         \A j \in 1..Len(f) : g[j] = f[j],
         \A j \in 1..Size(p, k) : g[Len(f) + j] = p[LineAt(p, k) + (j - 1)],
         g[Len(g)] = NL
  PROVE  Whole(g, p, k + 1)
<1> DEFINE m == Len(f)  d == Size(p, k)  b == LineAt(p, k)  N == Number(p)
<1>1. /\ N \in Nat /\ k \in 0..N /\ d \in Nat \ {0} /\ b \in Nat \ {0}
      /\ \A j \in 1..d : b + (j - 1) \in 1..Len(p)
  <2>1. LineAt(p, k) \in 1..Len(p) /\ LineAt(p, k + 1) \in (LineAt(p, k) + 1)..(Len(p) + 1) /\ N \in Nat
    BY TameLines DEF Good
  <2>2. Len(p) \in Nat
    BY TameLines DEF Good
  <2> DEFINE x == LineAt(p, k)  y == LineAt(p, k + 1)
  <2>3. x \in 1..Len(p) /\ y \in (x + 1)..(Len(p) + 1) /\ d = y - x
    BY <2>1 DEF Size
  <2>4. b = x
    OBVIOUS
  <2> HIDE DEF x, y, d, b, N
  <2>5. d \in Nat \ {0} /\ b \in Nat \ {0} /\ \A j \in 1..d : b + (j - 1) \in 1..Len(p)
    BY <2>2, <2>3, <2>4
  <2> QED BY <2>1, <2>5 DEF N
<1>2. \A j \in 1..d : p[b + (j - 1)] # NL /\ p[b + (j - 1)] # HASH
  <2> SUFFICES ASSUME NEW j \in 1..d PROVE p[b + (j - 1)] # NL /\ p[b + (j - 1)] # HASH
    OBVIOUS
  <2>1. b + (j - 1) \in 1..Len(p)
    BY <1>1
  <2> DEFINE i == b + (j - 1)
  <2>2. i \in 1..Len(p)
    BY <2>1
  <2> HIDE DEF i
  <2>3. p[i] \notin {HASH, NL, NUL}
    BY <2>2 DEF Good
  <2>4. p[i] # NL /\ p[i] # HASH
    BY <2>3
  <2> QED BY <2>4 DEF i
<1>3. /\ f \in Seq(Char) /\ m \in Nat /\ Shape(f, p) /\ Before(f, m + 1) = k /\ EndsLine(f)
  BY DEF Whole, Shape
<1>4. /\ Len(g) = (m + d) + 1 /\ (\A j \in 1..m : g[j] = f[j])
      /\ (\A j \in 1..d : g[m + j] = p[b + (j - 1)]) /\ g[(m + d) + 1] = NL
  OBVIOUS
<1> HIDE DEF m, d, b, N
<1>5. \A j \in 1..m : Content(g, j) <=> Content(f, j)
  <2> SUFFICES ASSUME NEW j \in 1..m PROVE Content(g, j) <=> Content(f, j)
    OBVIOUS
  <2>1. j # 1 => j - 1 \in 1..m
    BY <1>3
  <2>2. g[j] = f[j] /\ (j # 1 => g[j - 1] = f[j - 1])
    BY <1>4, <2>1
  <2> QED BY <2>2, Zenon DEF Content
<1>6. \A j \in 1..(m + 1) : Before(g, j) = Before(f, j)
  <2> SUFFICES ASSUME NEW j \in 1..(m + 1) PROVE Before(g, j) = Before(f, j)
    OBVIOUS
  <2>1. j \in Nat /\ \A h \in 1..(j - 1) : g[h] = f[h]
    BY <1>3, <1>4
  <2> QED BY <2>1, BeforeSame
<1>7. g[m + 1] # HASH /\ g[m + 1] # NL
  <2>1. 1 \in 1..d
    BY <1>1
  <2> QED BY <1>2, <1>4, <2>1
<1>8. m # 0 => f[m] = NL /\ g[m] = NL
  <2> SUFFICES ASSUME m # 0 PROVE f[m] = NL /\ g[m] = NL
    OBVIOUS
  <2>1. f # <<>> /\ m \in 1..m
    BY <1>3 DEF m
  <2> QED BY <1>3, <1>4, <2>1 DEF EndsLine, m
<1>9. Content(g, m + 1)
  <2>1. m + 1 = 1 \/ (m # 0 /\ (m + 1) - 1 = m)
    BY <1>3
  <2>2. m + 1 = 1 \/ g[(m + 1) - 1] = NL
    BY <1>8, <2>1
  <2> QED BY <1>7, <2>2, Zenon DEF Content
<1>10. \A h \in (m + 2)..((m + d) + 1) : ~ Content(g, h)
  <2> SUFFICES ASSUME NEW h \in (m + 2)..((m + d) + 1) PROVE ~ Content(g, h)
    OBVIOUS
  <2> DEFINE j == (h - 1) - m
  <2>1. j \in 1..d /\ m + j = h - 1 /\ h # 1
    BY <1>1, <1>3
  <2> HIDE DEF j
  <2>2. g[h - 1] # NL
    BY <1>2, <1>4, <2>1
  <2> QED BY <2>1, <2>2 DEF Content
<1>11. Before(g, m + 1) = k /\ Before(g, (m + 1) + 1) = k + 1
  <2>1. m + 1 \in 1..(m + 1) /\ m + 1 \in Nat \ {0}
    BY <1>3
  <2>2. Before(g, m + 1) = k
    BY <1>3, <1>6, <2>1
  <2> QED BY <1>1, <1>9, <2>1, <2>2, BeforeStep
<1>12. Before(g, Len(g) + 1) = k + 1
  <2> DEFINE u == (m + 1) + 1  v == Len(g) + 1
  <2>0. u = (m + 1) + 1 /\ v = ((m + d) + 1) + 1
    BY <1>4, Zenon
  <2> HIDE DEF u, v
  <2>1. u \in Nat \ {0} /\ v \in Nat /\ u <= v /\ u = m + 2 /\ v - 1 = (m + d) + 1
    BY <1>1, <1>3, <2>0
  <2>2. \A h \in u..(v - 1) : ~ Content(g, h)
    BY <1>10, <2>1
  <2>3. Before(g, v) = Before(g, u)
    BY <2>1, <2>2, BeforeFlat
  <2> QED BY <1>11, <2>3 DEF u, v
<1>13. ASSUME NEW i \in 1..Len(g), Content(g, i)
       PROVE  Before(g, i) \in 0..Number(p) /\ HoldsLine(g, i, p, Before(g, i))
  <2>0. i \in 1..m \/ i = m + 1 \/ i \in (m + 2)..((m + d) + 1)
    BY <1>1, <1>3, <1>4
  <2>1. CASE i \in 1..m
    <3>1. Content(f, i) /\ Before(g, i) = Before(f, i)
      <4>1. i \in 1..(m + 1)
        BY <1>3, <2>1
      <4> QED BY <1>5, <1>6, <1>13, <2>1, <4>1
    <3>2. Before(f, i) \in 0..Number(p) /\ HoldsLine(f, i, p, Before(f, i))
      BY <1>3, <2>1, <3>1 DEF Shape, m
    <3> DEFINE k0 == Before(f, i)
    <3>3. HoldsLine(f, i, p, k0)
      BY <3>2
    <3> HIDE DEF k0
    <3>4. HoldsLine(g, i, p, k0)
      <4> SUFFICES ASSUME NEW h \in i..Len(g), \A l \in i..(h - 1) : g[l] # NL
                   PROVE  /\ h - i <= Size(p, k0)
                          /\ g[h] = IF h - i < Size(p, k0) THEN p[LineAt(p, k0) + (h - i)] ELSE NL
        BY DEF HoldsLine
      <4>1. h <= m
        <5> SUFFICES ASSUME m < h PROVE FALSE
          BY <1>3, <2>1
        <5>1. m \in i..(h - 1) /\ m # 0
          BY <1>3, <2>1
        <5> QED BY <1>8, <5>1
      <4>2. h \in i..m /\ h \in 1..m /\ g[h] = f[h]
        BY <1>3, <1>4, <2>1, <4>1
      <4>3. \A l \in i..(h - 1) : f[l] # NL
        <5> SUFFICES ASSUME NEW l \in i..(h - 1) PROVE f[l] # NL
          OBVIOUS
        <5>1. l \in 1..m
          BY <1>3, <2>1, <4>1
        <5> QED BY <1>4, <5>1
      <4> QED BY <3>3, <4>2, <4>3 DEF HoldsLine, m
    <3> QED BY <3>1, <3>2, <3>4 DEF k0
  <2>2. CASE i = m + 1
    <3>1. Before(g, i) = k
      BY <1>11, <2>2
    <3>2. HoldsLine(g, i, p, k)
      <4> SUFFICES ASSUME NEW h \in i..Len(g)
                   PROVE  /\ h - i <= d
                          /\ g[h] = IF h - i < d THEN p[b + (h - i)] ELSE NL
        BY DEF HoldsLine, d, b
      <4> DEFINE j == h - m
      <4>1. h = m + j /\ j \in 1..(d + 1) /\ h - i = j - 1
        BY <1>1, <1>3, <1>4, <2>2
      <4> HIDE DEF j
      <4>2. CASE j \in 1..d
        BY <1>1, <1>4, <4>1, <4>2
      <4>3. CASE j = d + 1
        <5>1. h = (m + d) + 1 /\ h - i = d
          BY <1>1, <1>3, <4>1, <4>3
        <5> QED BY <1>1, <1>4, <5>1
      <4> QED BY <1>1, <4>1, <4>2, <4>3
    <3> QED BY <1>1, <3>1, <3>2 DEF N
  <2>3. CASE i \in (m + 2)..((m + d) + 1)
    BY <1>10, <1>13, <2>3
  <2> QED BY <2>0, <2>1, <2>2, <2>3
<1>14. Shape(g, p)
  BY <1>13 DEF Shape
<1> QED BY <1>12, <1>14 DEF Whole, EndsLine

\* What pathFileWrite prints is the lines of the path, in order, one after the other.
LEMMA ShapePrinted ==
  ASSUME NEW p, Good(p)
  PROVE  Whole(Printed(p).text, p, Number(p) + 1)
<1> DEFINE N == Number(p)  T(k) == Points(p)[k].text
<1>1. N \in Nat /\ IsPath(p) /\ p \in Seq(Char) /\ Len(p) \in Nat
  BY TameLines DEF Good, Tame
<1>2. \A k \in 0..N : LineAt(p, k) \in 1..Len(p) /\ LineAt(p, k + 1) \in (LineAt(p, k) + 1)..(Len(p) + 1)
  BY TameLines DEF Good
<1> HIDE DEF N
<1>3. ASSUME NEW k \in 0..N, NEW f, Whole(f, p, k)
      PROVE  Whole(f \o SubSeq(p, LineAt(p, k), LineAt(p, k + 1) - 1) \o <<NL>>, p, k + 1)
  <2> DEFINE b == LineAt(p, k)  e == LineAt(p, k + 1)  sq == SubSeq(p, b, e - 1)
             g == f \o sq \o <<NL>>  d == Size(p, k)
  <2>1. b \in 1..Len(p) /\ e \in (b + 1)..(Len(p) + 1) /\ d = e - b
    BY <1>2 DEF Size
  <2>2. f \in Seq(Char)
    BY <1>3 DEF Whole, Shape
  <2> HIDE DEF b, e, d
  <2>3. b \in Nat \ {0} /\ e - 1 \in b..Len(p) /\ ((e - 1) - b) + 1 = d /\ d \in Nat
    BY <1>1, <2>1
  <2>4. sq \in Seq(Char) /\ Len(sq) = d /\ \A j \in 1..d : sq[j] = p[b + (j - 1)]
    <3>1. Len(sq) = d
      BY <1>1, <2>3
    <3>2. sq \in Seq(Char)
      BY <1>1, <2>3
    <3>3. ASSUME NEW j \in 1..d PROVE sq[j] = p[b + (j - 1)]
      <4>1. j \in 1..(((e - 1) - b) + 1) /\ (b + j) - 1 = b + (j - 1)
        BY <2>3
      <4> QED BY <1>1, <2>3, <4>1
    <3> QED BY <3>1, <3>2, <3>3
  <2> HIDE DEF sq
  <2>5. NL \in Char
    BY CharIs
  <2> DEFINE h == f \o sq
  <2>a. /\ h \in Seq(Char) /\ Len(h) = Len(f) + d
        /\ (\A j \in 1..Len(f) : h[j] = f[j]) /\ (\A j \in 1..d : h[Len(f) + j] = sq[j])
    BY <2>2, <2>4, ConcatIs
  <2>b. <<NL>> \in Seq(Char) /\ Len(<<NL>>) = 1 /\ <<NL>>[1] = NL
    BY <2>5
  <2> DEFINE c == <<NL>>
  <2>c. g = h \o c
    OBVIOUS
  <2> HIDE DEF h, c
  <2>d. /\ g \in Seq(Char) /\ Len(g) = Len(h) + 1
        /\ (\A j \in 1..Len(h) : g[j] = h[j]) /\ g[Len(h) + 1] = NL
    <3>1. c \in Seq(Char) /\ Len(c) = 1 /\ c[1] = NL
      BY <2>b DEF c
    <3>2. /\ h \o c \in Seq(Char) /\ Len(h \o c) = Len(h) + Len(c)
          /\ (\A j \in 1..Len(h) : (h \o c)[j] = h[j]) /\ (\A j \in 1..Len(c) : (h \o c)[Len(h) + j] = c[j])
      BY <2>a, <3>1, ConcatIs
    <3>3. 1 \in 1..Len(c)
      BY <3>1
    <3> HIDE DEF g
    <3> QED BY <2>c, <3>1, <3>2, <3>3, Zenon
  <2> HIDE DEF g
  <2>6. g \in Seq(Char) /\ Len(g) = (Len(f) + d) + 1
    BY <2>a, <2>d
  <2>7. \A j \in 1..Len(f) : g[j] = f[j]
    <3> SUFFICES ASSUME NEW j \in 1..Len(f) PROVE g[j] = f[j]
      OBVIOUS
    <3>1. j \in 1..Len(h)
      BY <2>2, <2>3, <2>a
    <3> QED BY <2>a, <2>d, <3>1
  <2>8. \A j \in 1..d : g[Len(f) + j] = p[b + (j - 1)]
    <3> SUFFICES ASSUME NEW j \in 1..d PROVE g[Len(f) + j] = p[b + (j - 1)]
      OBVIOUS
    <3>1. Len(f) + j \in 1..Len(h)
      BY <2>2, <2>3, <2>a
    <3>2. g[Len(f) + j] = h[Len(f) + j] /\ h[Len(f) + j] = sq[j]
      BY <2>a, <2>d, <3>1
    <3> QED BY <2>4, <3>2
  <2>9. g[(Len(f) + d) + 1] = NL
    BY <2>a, <2>d
  <2> HIDE DEF g
  <2>10. Whole(g, p, k + 1)
    <3>1. k \in 0..Number(p) /\ Len(g) = (Len(f) + Size(p, k)) + 1 /\ g[Len(g)] = NL
      BY <2>6, <2>9 DEF N, d
    <3>2. \A j \in 1..Size(p, k) : g[Len(f) + j] = p[LineAt(p, k) + (j - 1)]
      BY <2>8 DEF d, b
    <3> QED BY <1>3, <2>6, <2>7, <3>1, <3>2, ShapeLine
  <2> QED BY <2>10 DEF g, sq, b, e
<1>4. Whole(Comment, p, 0)
  <2>1. Whole(<<>>, p, 0)
    <3>1. Shape(<<>>, p)
      BY DEF Shape
    <3>2. Before(<<>>, 1) = 0 /\ Len(<<>>) + 1 = 1
      BY BeforeFirst
    <3> QED BY <3>1, <3>2 DEF Whole, EndsLine
  <2>2. /\ Comment \in Seq(Char) /\ Len(Comment) = 2
        /\ Comment[1] = HASH /\ Comment[2] = NL
    BY CharIs DEF Comment
  <2>3. HASH # NL
    BY DEF HASH, NL
  <2> DEFINE g == Comment  f == <<>>
  <2>4. Len(f) = 0 /\ Len(g) = Len(f) + 2 /\ Len(f) + 1 = 1 /\ (1 + 2) - 1 = 2 /\ (1 + 2) - 2 = 1
    BY <2>2
  <2>5. (\A j \in 1..(1 - 1) : g[j] = f[j]) /\ (\A j \in 1..Len(f) : g[j + 2] = f[j])
    BY <2>4
  <2>6. \A j \in 1..((1 + 2) - 2) : g[j] # NL
    BY <2>2, <2>3
  <2>7. 1 \in 1..(Len(f) + 1) /\ 2 \in Nat /\ 2 <= 2
    BY <2>4
  <2>8. g \in Seq(Char) /\ g[1] = HASH /\ g[(1 + 2) - 1] = NL /\ Whole(f, p, 0)
    BY <2>1, <2>2, <2>4
  <2> HIDE DEF g, f
  <2> DEFINE i == 1  n == 2
  <2>9. /\ i \in 1..(Len(f) + 1) /\ i = 1 /\ n \in Nat /\ 2 <= n /\ Len(g) = Len(f) + n
        /\ (\A j \in 1..(i - 1) : g[j] = f[j]) /\ (\A j \in i..Len(f) : g[j + n] = f[j])
        /\ g[i] = HASH /\ g[(i + n) - 1] = NL /\ \A j \in i..((i + n) - 2) : g[j] # NL
    BY <2>4, <2>5, <2>6, <2>7, <2>8
  <2> HIDE DEF i, n
  <2>10. Whole(g, p, 0)
    BY <2>8, <2>9, ShapeComment
  <2> QED BY <2>10 DEF g
<1>5. ASSUME NEW f, Whole(f, p, 1)
      PROVE  Whole(f \o Comment, p, 1)
  <2> DEFINE g == f \o Comment  i == Len(f) + 1  n == 2
  <2>1. /\ Comment \in Seq(Char) /\ Len(Comment) = 2 /\ f \in Seq(Char)
        /\ Comment[1] = HASH /\ Comment[2] = NL /\ HASH # NL
    <3>1. HASH \in Char /\ NL \in Char
      BY CharIs
    <3>2. HASH # NL
      BY DEF HASH, NL
    <3> QED BY <1>5, <3>1, <3>2 DEF Comment, Whole, Shape
  <2>2. g \in Seq(Char) /\ Len(g) = Len(f) + 2 /\ \A j \in 1..Len(f) : g[j] = f[j]
    <3>1. /\ f \o Comment \in Seq(Char) /\ Len(f \o Comment) = Len(f) + Len(Comment)
          /\ \A j \in 1..Len(f) : (f \o Comment)[j] = f[j]
      BY <2>1, ConcatIs, Zenon
    <3>2. Len(g) = Len(f) + 2
      BY <2>1, <3>1, Zenon
    <3> QED BY <3>1, <3>2, Zenon
  <2>3. g[Len(f) + 1] = HASH /\ g[Len(f) + 2] = NL
    <3>1. \A j \in 1..Len(Comment) : g[Len(f) + j] = Comment[j]
      BY <2>1, ConcatIs
    <3>2. 1 \in 1..Len(Comment) /\ 2 \in 1..Len(Comment)
      BY <2>1
    <3> HIDE DEF g
    <3> QED BY <2>1, <3>1, <3>2, Zenon
  <2>4. i = 1 \/ f[i - 1] = NL
    <3>1. f # <<>> => f[Len(f)] = NL
      BY <1>5 DEF Whole, EndsLine
    <3>2. f = <<>> => Len(f) = 0
      OBVIOUS
    <3>3. Len(f) \in Nat /\ (Len(f) + 1) - 1 = Len(f)
      BY <2>1
    <3> QED BY <3>1, <3>2, <3>3
  <2> HIDE DEF g
  <2>5. /\ Len(f) \in Nat /\ i \in 1..(Len(f) + 1) /\ n \in Nat /\ 2 <= n /\ Len(g) = Len(f) + n
        /\ (\A j \in 1..(i - 1) : g[j] = f[j]) /\ (\A j \in i..Len(f) : g[j + n] = f[j])
        /\ g[i] = HASH /\ g[(i + n) - 1] = NL /\ \A j \in i..((i + n) - 2) : g[j] # NL
    <3>1. Len(f) \in Nat
      BY <2>1
    <3>2. (i + n) - 1 = Len(f) + 2 /\ (i + n) - 2 = Len(f) + 1 /\ i - 1 = Len(f)
      BY <3>1
    <3>3. (\A j \in 1..(i - 1) : g[j] = f[j]) /\ (\A j \in i..Len(f) : g[j + n] = f[j])
      BY <2>2, <3>1, <3>2
    <3>4. g[i] = HASH /\ g[(i + n) - 1] = NL
      BY <2>3, <3>2
    <3>5. \A j \in i..((i + n) - 2) : g[j] # NL
      <4>1. \A j \in i..((i + n) - 2) : j = i
        BY <3>1
      <4> QED BY <2>1, <3>4, <4>1
    <3> QED BY <2>2, <3>1, <3>3, <3>4, <3>5
  <2> HIDE DEF i, n
  <2>6. Whole(g, p, 1)
    BY <1>5, <2>2, <2>4, <2>5, ShapeComment
  <2> QED BY <2>6 DEF g
<1>6. Whole(T(0), p, 1)
  <2> DEFINE sq == SubSeq(p, 1, LineAt(p, 1) - 1)
  <2>1. T(0) = Comment \o sq \o <<NL>> \o Comment
    BY <1>1, PointParts
  <2>2. 0 \in 0..N /\ LineAt(p, 0) = 1 /\ 0 + 1 = 1
    BY <1>1 DEF LineAt
  <2>3. Whole(Comment \o SubSeq(p, LineAt(p, 0), LineAt(p, 0 + 1) - 1) \o <<NL>>, p, 0 + 1)
    BY <1>3, <1>4, <2>2
  <2>4. Whole(Comment \o sq \o <<NL>>, p, 1)
    BY <2>2, <2>3
  <2>5. Whole((Comment \o sq \o <<NL>>) \o Comment, p, 1)
    BY <1>5, <2>4
  <2> QED BY <2>1, <2>5
<1> DEFINE S == {k \in 0..N : ~ Whole(T(k), p, k + 1)}
<1>7. S = {}
  <2> SUFFICES ASSUME S # {} PROVE FALSE
    OBVIOUS
  <2>1. PICK k \in S : \A h \in S : k <= h
    <3>1. S \subseteq Nat /\ S # {}
      OBVIOUS
    <3> HIDE DEF S
    <3> QED BY <3>1, LeastNumber
  <2>2. k \in 0..N /\ ~ Whole(T(k), p, k + 1)
    BY <2>1
  <2>3. k # 0
    BY <1>6, <2>2
  <2>4. k \in 1..N /\ k - 1 \in 0..N /\ ~ (k <= k - 1) /\ (k - 1) + 1 = k
    BY <1>1, <2>2, <2>3
  <2>5. k - 1 \notin S
    <3> HIDE DEF S
    <3> QED BY <2>1, <2>4
  <2>6. Whole(T(k - 1), p, k)
    BY <2>4, <2>5
  <2>7. T(k) = T(k - 1) \o SubSeq(p, LineAt(p, k), LineAt(p, k + 1) - 1) \o <<NL>>
    <3>1. k \in 1..Number(p)
      BY <2>4 DEF N
    <3> QED BY <1>1, <3>1, PointParts, Zenon
  <2>8. Whole(T(k - 1) \o SubSeq(p, LineAt(p, k), LineAt(p, k + 1) - 1) \o <<NL>>, p, k + 1)
    <3> HIDE DEF T
    <3> QED BY <1>3, <2>2, <2>6
  <2> QED BY <2>2, <2>7, <2>8
<1>8. N \in 0..N /\ N \notin S
  BY <1>1, <1>7
<1>9. Whole(T(N), p, N + 1)
  BY <1>8
<1>10. Printed(p).text = T(N)
  BY PrintedIs DEF N
<1> QED BY <1>9, <1>10 DEF N

-----------------------------------------------------------------------------
(* What the readers read.                                                  *)

LEMMA FrontIs ==
  ASSUME NEW sq \in Seq(Char), NEW z \in Char
  PROVE  Front(sq \o <<z>>) = sq /\ Front(<<z>>) = <<>> /\ sq \o <<>> = sq
<1> DEFINE c == <<z>>  g == sq \o c
<1>1. c \in Seq(Char) /\ Len(c) = 1
  OBVIOUS
<1>2. Len(g) = Len(sq) + 1 /\ (\A j \in 1..Len(sq) : g[j] = sq[j]) /\ g \in Seq(Char)
  <2> HIDE DEF c
  <2> QED BY <1>1, ConcatIs
<1>3. Len(g) - 1 = Len(sq) /\ Len(sq) \in Nat
  <2> HIDE DEF g
  <2> QED BY <1>2
<1>4. SubSeq(g, 1, Len(g) - 1) = sq
  <2> HIDE DEF g
  <2> DEFINE n == Len(sq)  t == SubSeq(g, 1, n)
  <2>1. t \in Seq(Char) /\ Len(t) = n /\ \A j \in 1..n : t[j] = g[j]
    BY <1>2, <1>3
  <2>2. t = sq
    <3> HIDE DEF t
    <3> QED BY <1>2, <2>1
  <2> QED BY <1>3, <2>2
<1>5. SubSeq(c, 1, Len(c) - 1) = <<>>
  <2>1. Len(c) - 1 = 0
    BY <1>1
  <2> QED BY <1>1, <2>1
<1> QED BY <1>4, <1>5 DEF Front

\* A line is read to its newline, or to the end of the file.
LEMMA LineRead ==
  ASSUME NEW f \in Seq(Char), NEW c, NEW i \in 1..Len(f)
  PROVE  \E e \in i..Len(f) :
           /\ \A h \in i..(e - 1) : f[h] # NL
           /\ readLine(f, i, c).next = e + 1
           /\ \/ f[e] = NL /\ readLine(f, i, c).line = SubSeq(f, i, e)
              \/ /\ e = Len(f) /\ f[e] # NL
                 /\ readLine(f, i, c).line = SubSeq(f, i, e) \o <<f[e]>>
<1> DEFINE n == Len(f)  ends == {j \in i..n : f[j] = NL}
<1>1. n \in Nat /\ i \in 1..n /\ ends \subseteq Nat
  OBVIOUS
<1>2. CASE ends = {}
  <2>1. readLine(f, i, c) = [line |-> SubSeq(f, i, n) \o <<f[n]>>, next |-> n + 1]
    <3>1. ~ (i > n) /\ i <= n
      BY <1>1
    <3> QED BY <1>2, <3>1 DEF readLine
  <2>2. \A j \in i..n : f[j] # NL
    BY <1>2
  <2>3. n \in i..n /\ \A h \in i..(n - 1) : h \in i..n
    BY <1>1
  <2>4. (\A h \in i..(n - 1) : f[h] # NL) /\ f[n] # NL
    BY <2>2, <2>3
  <2>5. readLine(f, i, c).next = n + 1 /\ readLine(f, i, c).line = SubSeq(f, i, n) \o <<f[n]>>
    BY <2>1
  <2> QED BY <2>3, <2>4, <2>5
<1>3. CASE ends # {}
  <2>1. readLine(f, i, c) = [line |-> SubSeq(f, i, Min(ends)), next |-> Min(ends) + 1]
    <3>1. ~ (i > n) /\ i <= n
      BY <1>1
    <3> QED BY <1>3, <3>1 DEF readLine
  <2> DEFINE e == Min(ends)
  <2>2. e \in ends /\ \A y \in ends : e <= y
    <3> HIDE DEF ends
    <3> QED BY <1>1, <1>3, MinIs
  <2> HIDE DEF e
  <2>3. e \in i..n /\ f[e] = NL
    BY <2>2
  <2>4. \A h \in i..(e - 1) : f[h] # NL
    <3> SUFFICES ASSUME NEW h \in i..(e - 1), f[h] = NL PROVE FALSE
      OBVIOUS
    <3>1. h \in i..n /\ ~ (e <= h)
      BY <1>1, <2>3
    <3> QED BY <2>2, <3>1
  <2>5. readLine(f, i, c).next = e + 1 /\ readLine(f, i, c).line = SubSeq(f, i, e)
    <3> DEFINE x == SubSeq(f, i, e)  y == e + 1  r == readLine(f, i, c)
    <3>1. r = [line |-> x, next |-> y]
      BY <2>1, Zenon DEF e
    <3> HIDE DEF x, y, r
    <3>2. r.next = y /\ r.line = x
      BY <3>1
    <3> QED BY <3>2 DEF r, x, y
  <2> QED BY <2>3, <2>4, <2>5
<1> QED BY <1>2, <1>3

LEMMA LineFirst ==
  ASSUME NEW f \in Seq(Char), NEW c, NEW i \in 1..Len(f)
  PROVE  readLine(f, i, c).line[1] = f[i]
<1>1. PICK e \in i..Len(f) :
           \/ f[e] = NL /\ readLine(f, i, c).line = SubSeq(f, i, e)
           \/ e = Len(f) /\ readLine(f, i, c).line = SubSeq(f, i, e) \o <<f[e]>>
  BY LineRead
<1> DEFINE sq == SubSeq(f, i, e)
<1>2. e \in Nat /\ i \in Nat /\ e \in 1..Len(f) /\ f[e] \in Char
  OBVIOUS
<1>3. sq \in Seq(Char) /\ Len(sq) = (e - i) + 1 /\ sq[1] = f[i]
  BY <1>2
<1>4. 1 \in 1..Len(sq)
  <2> HIDE DEF sq
  <2> QED BY <1>2, <1>3
<1> DEFINE t == <<f[e]>>
<1>5. t \in Seq(Char)
  BY <1>2
<1>6. (sq \o t)[1] = sq[1]
  <2> HIDE DEF sq, t
  <2> QED BY <1>3, <1>4, <1>5, ConcatIs
<1> QED BY <1>1, <1>3, <1>6

LEMMA LineAfter ==
  ASSUME NEW f \in Seq(Char), NEW c
  PROVE  readLine(f, Len(f) + 1, c) = [line |-> <<c>>, next |-> Len(f) + 1]
<1>1. Len(f) + 1 > Len(f) /\ ~ (Len(f) + 1 <= Len(f))
  OBVIOUS
<1>2. {j \in (Len(f) + 1)..Len(f) : f[j] = NL} = {}
  OBVIOUS
<1> QED BY <1>1, <1>2 DEF readLine

-----------------------------------------------------------------------------
(* Skip: the first line from i on that does not begin with a skipped       *)
(* character.                                                              *)

SkipFrom(f, c, skipped, j, g) ==
  LET l == readLine(f, j, c)
  IN  IF l.line[1] \notin skipped THEN l
      ELSE IF j <= Len(f) THEN g[l.next]
      ELSE [line |-> <<>>, next |-> 0]
IsSkip(f, c, skipped, i, g) == g = [j \in i..(Len(f) + 1) |-> SkipFrom(f, c, skipped, j, g)]

LEMMA SkipRules ==
  ASSUME NEW f, NEW c, NEW skipped, NEW j, NEW g, NEW l, l = readLine(f, j, c)
  PROVE  /\ l.line[1] \notin skipped => SkipFrom(f, c, skipped, j, g) = l
         /\ l.line[1] \in skipped /\ j <= Len(f) => SkipFrom(f, c, skipped, j, g) = g[l.next]
         /\ l.line[1] \in skipped /\ ~ (j <= Len(f)) =>
              SkipFrom(f, c, skipped, j, g) = [line |-> <<>>, next |-> 0]
<1>1. SkipFrom(f, c, skipped, j, g) = IF l.line[1] \notin skipped THEN l
                                      ELSE IF j <= Len(f) THEN g[l.next]
                                      ELSE [line |-> <<>>, next |-> 0]
  BY DEF SkipFrom
<1> QED BY <1>1

LEMMA SkipExists ==
  ASSUME NEW f \in Seq(Char), NEW c, NEW skipped
  PROVE  \A i \in 1..(Len(f) + 1) : \E g : IsSkip(f, c, skipped, i, g)
<1> DEFINE n == Len(f)
           S == {m \in 0..n : ~ \E g : IsSkip(f, c, skipped, (n + 1) - m, g)}
<1>1. n \in Nat
  OBVIOUS
<1>2. S = {}
  <2> SUFFICES ASSUME S # {} PROVE FALSE
    OBVIOUS
  <2>1. PICK m \in S : \A h \in S : m <= h
    <3>1. S \subseteq Nat /\ S # {}
      OBVIOUS
    <3> HIDE DEF S
    <3> QED BY <3>1, LeastNumber
  <2> DEFINE i == (n + 1) - m
  <2>2. m \in 0..n /\ ~ \E g : IsSkip(f, c, skipped, i, g)
    BY <2>1
  <2>3. i \in 1..(n + 1)
    BY <1>1, <2>2
  <2>4. PICK g : i = n + 1 \/ IsSkip(f, c, skipped, i + 1, g)
    <3>1. CASE m = 0
      <4>1. i = n + 1
        BY <1>1, <3>1
      <4> QED BY <4>1
    <3>2. CASE m # 0
      <4>1. m - 1 \in 0..n /\ ~ (m <= m - 1) /\ (n + 1) - (m - 1) = i + 1
        BY <1>1, <2>2, <3>2
      <4>2. m - 1 \notin S
        <5> HIDE DEF S
        <5> QED BY <2>1, <4>1
      <4>3. \E g : IsSkip(f, c, skipped, (n + 1) - (m - 1), g)
        BY <4>1, <4>2
      <4> QED BY <4>1, <4>3
    <3> QED BY <3>1, <3>2
  <2> HIDE DEF i, S
  <2> DEFINE h == [j \in i..(n + 1) |-> IF j = i THEN SkipFrom(f, c, skipped, i, g) ELSE g[j]]
  <2>5. ASSUME NEW j \in i..(n + 1) PROVE h[j] = SkipFrom(f, c, skipped, j, h)
    <3> DEFINE l == readLine(f, j, c)
    <3>1. j <= n => l.next \in (j + 1)..(n + 1)
      <4> SUFFICES ASSUME j <= n PROVE l.next \in (j + 1)..(n + 1)
        OBVIOUS
      <4>1. j \in 1..Len(f)
        BY <1>1, <2>3
      <4>2. PICK e \in j..Len(f) : readLine(f, j, c).next = e + 1
        BY <4>1, LineRead
      <4>3. l.next = e + 1
        BY <4>2
      <4>4. e + 1 \in (j + 1)..(n + 1)
        BY <1>1, <4>1
      <4> QED BY <4>3, <4>4
    <3>2. j <= n => h[l.next] = g[l.next]
      <4> DEFINE x == l.next
      <4>1. j <= n => x \in (j + 1)..(n + 1)
        BY <3>1
      <4> HIDE DEF x
      <4>2. j <= n => x \in i..(n + 1) /\ x # i
        BY <1>1, <2>3, <4>1
      <4>3. j <= n => h[x] = g[x]
        BY <4>2
      <4> QED BY <4>3 DEF x
    <3>3. SkipFrom(f, c, skipped, j, g) = SkipFrom(f, c, skipped, j, h)
      <4>1. l = readLine(f, j, c)
        OBVIOUS
      <4> HIDE DEF h, l
      <4> DEFINE G == SkipFrom(f, c, skipped, j, g)  H == SkipFrom(f, c, skipped, j, h)
      <4>2. /\ l.line[1] \notin skipped => G = l
            /\ l.line[1] \in skipped /\ j <= n => G = g[l.next]
            /\ l.line[1] \in skipped /\ ~ (j <= n) => G = [line |-> <<>>, next |-> 0]
        BY <4>1, SkipRules
      <4>3. /\ l.line[1] \notin skipped => H = l
            /\ l.line[1] \in skipped /\ j <= n => H = h[l.next]
            /\ l.line[1] \in skipped /\ ~ (j <= n) => H = [line |-> <<>>, next |-> 0]
        BY <4>1, SkipRules
      <4> HIDE DEF G, H
      <4>4. G = H
        BY <3>2, <4>2, <4>3
      <4> QED BY <4>4 DEF G, H
    <3>4. h[j] = SkipFrom(f, c, skipped, j, g)
      <4>1. CASE j = i
        BY <4>1
      <4>2. CASE j # i
        <5>1. i # n + 1 /\ j \in (i + 1)..(n + 1)
          BY <1>1, <2>3, <4>2
        <5>2. IsSkip(f, c, skipped, i + 1, g)
          BY <2>4, <5>1
        <5>3. g[j] = SkipFrom(f, c, skipped, j, g)
          BY <5>1, <5>2 DEF IsSkip
        <5> QED BY <4>2, <5>3
      <4> QED BY <4>1, <4>2
    <3> QED BY <3>3, <3>4
  <2>6. IsSkip(f, c, skipped, i, h)
    <3>1. h = [j \in i..(n + 1) |-> h[j]]
      OBVIOUS
    <3> HIDE DEF h
    <3> QED BY <2>5, <3>1 DEF IsSkip
  <2> QED BY <2>2, <2>6
<1>3. ASSUME NEW i \in 1..(n + 1) PROVE \E g : IsSkip(f, c, skipped, i, g)
  <2>1. (n + 1) - i \in 0..n /\ (n + 1) - ((n + 1) - i) = i
    BY <1>1
  <2> QED BY <1>2, <2>1
<1> QED BY <1>3

\* There is a line from i on that is no comment, or the file ends.
Found(f, c, skipped, i, l) ==
  \/ \E j \in i..Len(f) : Content(f, j) /\ Before(f, j) = Before(f, i) /\ l = readLine(f, j, c)
  \/ /\ Before(f, Len(f) + 1) = Before(f, i)
     /\ \/ l = [line |-> <<c>>, next |-> Len(f) + 1]
        \/ l = [line |-> <<>>, next |-> 0] /\ c \in skipped

LEMMA SkipIs ==
  ASSUME NEW f, NEW c, NEW skipped, NEW i
  PROVE  Skip(f, i, c, skipped) = (CHOOSE g : IsSkip(f, c, skipped, i, g))[i]
BY DEF Skip, IsSkip, SkipFrom

LEMMA SkipFinds ==
  ASSUME NEW f \in Seq(Char), NEW c, NEW skipped, HASH \in skipped,
         \A j \in 1..Len(f) : Content(f, j) => f[j] \notin skipped,
         NEW i \in 1..(Len(f) + 1), i = 1 \/ f[i - 1] = NL \/ i = Len(f) + 1
  PROVE  Found(f, c, skipped, i, Skip(f, i, c, skipped))
<1> DEFINE n == Len(f)  g == CHOOSE sq : IsSkip(f, c, skipped, i, sq)
           At(j) == j = 1 \/ f[j - 1] = NL \/ j = n + 1
           S == {m \in 0..((n + 1) - i) : At((n + 1) - m) /\ ~ Found(f, c, skipped, (n + 1) - m, g[(n + 1) - m])}
<1>1. n \in Nat /\ i \in 1..(n + 1)
  OBVIOUS
<1>2. Skip(f, i, c, skipped) = g[i]
  BY SkipIs
<1>3. IsSkip(f, c, skipped, i, g)
  <2>1. \E sq : IsSkip(f, c, skipped, i, sq)
    BY SkipExists
  <2> QED BY <2>1
<1> HIDE DEF g
<1>4. \A j \in i..(n + 1) : g[j] = SkipFrom(f, c, skipped, j, g)
  BY <1>3 DEF IsSkip
<1>5. S = {}
  <2> SUFFICES ASSUME S # {} PROVE FALSE
    OBVIOUS
  <2>1. PICK m \in S : \A h \in S : m <= h
    <3>0. 0..((n + 1) - i) \subseteq Nat
      OBVIOUS
    <3>1. S \subseteq Nat /\ S # {}
      <4> HIDE DEF At, n
      <4> QED BY <3>0, Zenon
    <3> HIDE DEF S
    <3> QED BY <3>1, LeastNumber
  <2> DEFINE j == (n + 1) - m
  <2>2. m \in 0..((n + 1) - i) /\ At(j) /\ ~ Found(f, c, skipped, j, g[j])
    BY <2>1
  <2>a. m \in 0..((n + 1) - i)
    BY <2>2, Zenon
  <2>3. j \in i..(n + 1) /\ j \in Nat \ {0}
    <3> HIDE DEF n
    <3> QED BY <1>1, <2>a
  <2>4. m = (n + 1) - j
    <3> HIDE DEF n
    <3> QED BY <1>1, <2>a
  <2>5. \A h \in (j + 1)..(n + 1) : At(h) => Found(f, c, skipped, h, g[h])
    <3> SUFFICES ASSUME NEW h \in (j + 1)..(n + 1), At(h) PROVE Found(f, c, skipped, h, g[h])
      OBVIOUS
    <3> DEFINE u == (n + 1) - h
    <3>1. u \in 0..((n + 1) - i) /\ ~ (m <= u) /\ (n + 1) - u = h
      <4> HIDE DEF j
      <4> QED BY <1>1, <2>2, <2>3, <2>4
    <3> HIDE DEF u
    <3>2. u \notin S
      <4> HIDE DEF S, j
      <4> QED BY <2>1, <3>1
    <3> QED BY <3>1, <3>2, Zenon
  <2> HIDE DEF j, S
  <2> DEFINE l == readLine(f, j, c)
  <2>6. /\ l.line[1] \notin skipped => g[j] = l
        /\ l.line[1] \in skipped /\ j <= n => g[j] = g[l.next]
        /\ l.line[1] \in skipped /\ ~ (j <= n) => g[j] = [line |-> <<>>, next |-> 0]
    <3>1. l = readLine(f, j, c) /\ g[j] = SkipFrom(f, c, skipped, j, g)
      BY <1>4, <2>3
    <3> HIDE DEF l, n
    <3> DEFINE G == SkipFrom(f, c, skipped, j, g)
    <3>2. /\ l.line[1] \notin skipped => G = l
          /\ l.line[1] \in skipped /\ j <= Len(f) => G = g[l.next]
          /\ l.line[1] \in skipped /\ ~ (j <= Len(f)) => G = [line |-> <<>>, next |-> 0]
      BY <3>1, SkipRules
    <3> QED BY <3>1, <3>2, Zenon DEF n
  <2>7. CASE j = n + 1
    <3>1. l = [line |-> <<c>>, next |-> n + 1]
      BY <2>7, LineAfter, Zenon
    <3>2. l.line[1] = c
      <4> HIDE DEF l
      <4> QED BY <3>1
    <3>3. ~ (j <= n)
      BY <1>1, <2>7
    <3>4. Before(f, Len(f) + 1) = Before(f, j)
      BY <2>7
    <3>5. \/ g[j] = [line |-> <<c>>, next |-> Len(f) + 1]
          \/ g[j] = [line |-> <<>>, next |-> 0] /\ c \in skipped
      <4> HIDE DEF l
      <4> QED BY <2>6, <3>1, <3>2, <3>3, Zenon DEF n
    <3> QED BY <2>2, <3>4, <3>5, Zenon DEF Found
  <2>8. CASE j # n + 1
    <3>1. j \in 1..n /\ j \in i..n /\ j <= n
      BY <1>1, <2>3, <2>8
    <3>2. l.line[1] = f[j]
      BY <3>1, LineFirst
    <3>3. CASE f[j] # HASH
      <4>1. Content(f, j)
        BY <2>2, <2>8, <3>3, Zenon DEF Content
      <4>2. g[j] = l
        <5> HIDE DEF l
        <5> QED BY <2>6, <3>1, <3>2, <4>1, Zenon DEF n
      <4>3. j \in j..Len(f)
        BY <3>1
      <4> QED BY <2>2, <4>1, <4>2, <4>3, Zenon DEF Found
    <3>4. CASE f[j] = HASH
      <4>1. g[j] = g[l.next]
        BY <2>6, <3>1, <3>2, <3>4, Zenon
      <4>2. PICK e \in j..n : /\ \A h \in j..(e - 1) : f[h] # NL
                              /\ readLine(f, j, c).next = e + 1
                              /\ f[e] = NL \/ e = n
        BY <3>1, LineRead
      <4> DEFINE v == e + 1
      <4>3. v \in (j + 1)..(n + 1) /\ v - 1 = e /\ v \in Nat /\ j <= v
        BY <1>1, <2>3, <3>1
      <4>4. l.next = v
        BY <4>2
      <4> HIDE DEF v
      <4>5. At(v)
        <5>1. e = n => v = n + 1
          BY DEF v
        <5> QED BY <4>2, <4>3, <5>1, Zenon
      <4>6. \A h \in j..(v - 1) : ~ Content(f, h)
        <5> SUFFICES ASSUME NEW h \in j..(v - 1) PROVE ~ Content(f, h)
          OBVIOUS
        <5>1. CASE h = j
          BY <3>4, <5>1 DEF Content
        <5>2. CASE h # j
          <6>1. h # 1 /\ h - 1 \in j..(e - 1)
            BY <2>3, <4>3, <5>2
          <6>2. f[h - 1] # NL
            BY <4>2, <6>1
          <6> QED BY <6>1, <6>2, Zenon DEF Content
        <5> QED BY <5>1, <5>2
      <4>7. Before(f, v) = Before(f, j)
        BY <2>3, <4>3, <4>6, BeforeFlat
      <4>8. Found(f, c, skipped, v, g[v])
        BY <2>5, <4>3, <4>5
      <4>9. Found(f, c, skipped, j, g[v])
        <5>1. \A h \in v..Len(f) : h \in j..Len(f)
          BY <2>3, <4>3
        <5> QED BY <4>7, <4>8, <5>1, Zenon DEF Found
      <4>10. g[j] = g[v]
        BY <4>1, <4>4, Zenon
      <4> QED BY <2>2, <4>9, <4>10, Zenon
    <3> QED BY <3>3, <3>4
  <2> QED BY <2>7, <2>8
<1>6. (n + 1) - i \in 0..((n + 1) - i) /\ (n + 1) - ((n + 1) - i) = i
  BY <1>1
<1>7. At(i)
  OBVIOUS
<1>8. Found(f, c, skipped, i, g[i])
  <2> DEFINE u == (n + 1) - i
  <2>1. u \in 0..((n + 1) - i) /\ (n + 1) - u = i
    BY <1>6
  <2> HIDE DEF u
  <2>2. u \notin S
    BY <1>5
  <2> HIDE DEF At
  <2> QED BY <1>7, <2>1, <2>2, Zenon
<1> QED BY <1>2, <1>8

\* A line that begins in the file is a line of the path, whole, or cut and with its last
\* character twice.
LineOf(f, p, k, l) ==
  \E x \in LineAt(p, k)..(LineAt(p, k + 1) - 1), z \in Char :
    /\ l.line = SubSeq(p, LineAt(p, k), x) \o <<z>>
    /\ l.next \in 2..(Len(f) + 1)
    /\ Before(f, l.next) = k + 1
    /\ \/ z = NL /\ x = LineAt(p, k + 1) - 1 /\ f[l.next - 1] = NL
       \/ z = p[x] /\ l.next = Len(f) + 1 /\ ~ EndsLine(f)

LEMMA LineIs ==
  ASSUME NEW p, Good(p), NEW f, Shape(f, p), NEW c, NEW j \in 1..Len(f), Content(f, j),
         NEW k, k = Before(f, j)
  PROVE  k \in 0..Number(p) /\ LineOf(f, p, k, readLine(f, j, c)) /\ f[j] = p[LineAt(p, k)]
<1> DEFINE b == LineAt(p, k)  d == Size(p, k)  y == LineAt(p, k + 1)  n == Len(f)  l == readLine(f, j, c)
<1>1. f \in Seq(Char) /\ n \in Nat /\ k \in 0..Number(p) /\ HoldsLine(f, j, p, k)
  BY DEF Shape
<1>2. /\ b \in 1..Len(p) /\ y \in (b + 1)..(Len(p) + 1) /\ d = y - b /\ Len(p) \in Nat /\ p \in Seq(Char)
      /\ Number(p) \in Nat
  BY <1>1, TameLines DEF Good, Size
<1>3. \A i \in 1..Len(p) : p[i] # NL /\ p[i] \in Char
  <2> SUFFICES ASSUME NEW i \in 1..Len(p) PROVE p[i] # NL /\ p[i] \in Char
    OBVIOUS
  <2>1. p[i] \notin {HASH, NL, NUL}
    BY DEF Good
  <2>2. p[i] \in Char
    BY <1>2
  <2> QED BY <2>1, <2>2
<1>4. PICK e \in j..n :
           /\ \A h \in j..(e - 1) : f[h] # NL
           /\ l.next = e + 1
           /\ \/ f[e] = NL /\ l.line = SubSeq(f, j, e)
              \/ e = n /\ f[e] # NL /\ l.line = SubSeq(f, j, e) \o <<f[e]>>
  BY <1>1, LineRead
<1>5. ASSUME NEW h \in j..e
      PROVE  h - j <= d /\ f[h] = IF h - j < d THEN p[b + (h - j)] ELSE NL
  <2>1. h \in j..Len(f) /\ \A i \in j..(h - 1) : i \in j..(e - 1)
    BY <1>1
  <2>2. \A i \in j..(h - 1) : f[i] # NL
    BY <1>4, <2>1
  <2> QED BY <1>1, <2>1, <2>2 DEF HoldsLine
<1> HIDE DEF b, d, y, n, l
<1>6. j \in Nat \ {0} /\ e \in Nat /\ j <= e /\ e <= n /\ j \in 1..n
  BY <1>1 DEF n
<1>7. f[j] = p[b]
  <2>1. j \in j..e /\ j - j = 0 /\ 0 < d /\ b + 0 = b
    BY <1>2, <1>6
  <2>2. f[j] = IF j - j < d THEN p[b + (j - j)] ELSE NL
    BY <1>5, <2>1
  <2> QED BY <2>1, <2>2
<1>8. Before(f, e + 1) = k + 1
  <2>1. Before(f, j + 1) = k + 1
    BY <1>1, <1>2, <1>6, BeforeStep
  <2>2. \A h \in (j + 1)..e : ~ Content(f, h)
    <3> SUFFICES ASSUME NEW h \in (j + 1)..e PROVE ~ Content(f, h)
      OBVIOUS
    <3>1. h # 1 /\ h - 1 \in j..(e - 1)
      BY <1>6
    <3>2. f[h - 1] # NL
      BY <1>4, <3>1
    <3> QED BY <3>1, <3>2, Zenon DEF Content
  <2> DEFINE u == j + 1  v == e + 1
  <2>3. u \in Nat \ {0} /\ v \in Nat /\ u <= v /\ \A h \in u..(v - 1) : ~ Content(f, h)
    BY <1>6, <2>2
  <2>4. Before(f, u) = k + 1
    BY <2>1
  <2> HIDE DEF u, v
  <2>5. Before(f, v) = Before(f, u)
    BY <2>3, BeforeFlat
  <2> QED BY <2>4, <2>5 DEF v
<1>9. l.next \in 2..(n + 1) /\ l.next = e + 1
  BY <1>1, <1>4, <1>6
<1>10. Before(f, l.next) = k + 1
  BY <1>8, <1>9
<1> DEFINE rd == SubSeq(f, j, e)
<1>11. rd \in Seq(Char) /\ Len(rd) = (e - j) + 1 /\ \A h \in 1..((e - j) + 1) : rd[h] = f[j + (h - 1)]
  <2>1. e \in 1..Len(f) /\ j \in 1..Len(f)
    BY <1>1, <1>6 DEF n
  <2>2. rd \in Seq(Char) /\ Len(rd) = (e - j) + 1
    BY <1>1, <1>6, <2>1
  <2>3. ASSUME NEW h \in 1..((e - j) + 1) PROVE rd[h] = f[j + (h - 1)]
    <3>1. (j + h) - 1 = j + (h - 1)
      BY <1>6
    <3> QED BY <1>1, <1>6, <2>1, <3>1
  <2> QED BY <2>2, <2>3
<1> HIDE DEF rd
<1>12. CASE f[e] = NL
  <2>1. e - j = d
    <3>1. e \in j..e
      BY <1>6
    <3>2. e - j <= d /\ (e - j < d => f[e] = p[b + (e - j)])
      BY <1>5, <3>1
    <3>3. e - j < d => b + (e - j) \in 1..Len(p)
      BY <1>2, <1>6
    <3>4. ~ (e - j < d)
      BY <1>3, <1>12, <3>2, <3>3
    <3>5. d \in Int /\ e \in Int /\ j \in Int
      BY <1>2, <1>6
    <3> QED BY <3>2, <3>4, <3>5
  <2> DEFINE x == y - 1  sq == SubSeq(p, b, x)  t == <<NL>>
  <2>2. x \in b..(y - 1) /\ x \in 1..Len(p) /\ (x - b) + 1 = d /\ d \in Nat \ {0}
    BY <1>2
  <2>3. sq \in Seq(Char) /\ Len(sq) = d /\ \A h \in 1..d : sq[h] = p[b + (h - 1)]
    <3>0. p \in Seq(Char) /\ b \in 1..Len(p) /\ x \in 1..Len(p) /\ b <= x /\ (x - b) + 1 = d /\ Len(p) \in Nat
      BY <1>2, <2>2
    <3> HIDE DEF x
    <3>1. sq \in Seq(Char) /\ Len(sq) = d
      BY <3>0
    <3>2. ASSUME NEW h \in 1..d PROVE sq[h] = p[b + (h - 1)]
      <4>1. (b + h) - 1 = b + (h - 1) /\ h \in 1..((x - b) + 1)
        BY <3>0
      <4> QED BY <3>0, <4>1
    <3> QED BY <3>1, <3>2
  <2>4. t \in Seq(Char) /\ Len(t) = 1 /\ t[1] = NL
    BY CharIs
  <2>5. rd = sq \o t
    <3> HIDE DEF sq, t
    <3> DEFINE r == sq \o t
    <3>1. r \in Seq(Char) /\ Len(r) = d + 1 /\ (\A h \in 1..d : r[h] = sq[h]) /\ r[d + 1] = NL
      <4>1. /\ r \in Seq(Char) /\ Len(r) = Len(sq) + Len(t) /\ (\A h \in 1..Len(sq) : r[h] = sq[h])
            /\ \A h \in 1..Len(t) : r[Len(sq) + h] = t[h]
        BY <2>3, <2>4, ConcatIs
      <4>2. 1 \in 1..Len(t)
        BY <2>4
      <4> HIDE DEF r
      <4> QED BY <2>3, <2>4, <4>1, <4>2, Zenon
    <3>2. Len(rd) = d + 1
      BY <1>11, <2>1
    <3>3. ASSUME NEW h \in 1..(d + 1) PROVE rd[h] = r[h]
      <4>1. rd[h] = f[j + (h - 1)]
        BY <1>11, <2>1
      <4>2. CASE h = d + 1
        <5>1. j + (h - 1) = e
          BY <1>6, <2>1, <2>2, <4>2
        <5> QED BY <1>12, <3>1, <4>1, <4>2, <5>1
      <4>3. CASE h # d + 1
        <5>1. h \in 1..d /\ j + (h - 1) \in j..e /\ (j + (h - 1)) - j = h - 1 /\ h - 1 < d
          BY <1>6, <2>1, <2>2, <4>3
        <5> DEFINE i == j + (h - 1)
        <5>2. i \in j..e /\ i - j = h - 1
          BY <5>1
        <5> HIDE DEF i
        <5>3. f[i] = IF i - j < d THEN p[b + (i - j)] ELSE NL
          BY <1>5, <5>2
        <5>4. f[i] = p[b + (h - 1)]
          BY <5>1, <5>2, <5>3
        <5>5. rd[h] = p[b + (h - 1)]
          BY <4>1, <5>4 DEF i
        <5> HIDE DEF r
        <5> QED BY <2>3, <3>1, <5>1, <5>5
      <4> QED BY <4>2, <4>3
    <3> HIDE DEF r
    <3>4. rd = r
      BY <1>11, <3>1, <3>2, <3>3
    <3> QED BY <3>4 DEF r
  <2>6. l.line = rd
    BY <1>4, <1>12 DEF rd
  <2>7. f[l.next - 1] = NL
    <3>1. l.next - 1 = e
      BY <1>6, <1>9
    <3> QED BY <1>12, <3>1
  <2>8. x \in b..(y - 1) /\ NL \in Char /\ l.line = SubSeq(p, b, x) \o <<NL>>
    BY <2>2, <2>5, <2>6, CharIs
  <2> HIDE DEF x
  <2>9. x = y - 1
    BY DEF x
  <2>10. LineOf(f, p, k, l)
    BY <1>9, <1>10, <2>7, <2>8, <2>9, Zenon DEF LineOf, b, y, n
  <2> QED BY <1>1, <1>7, <2>10 DEF b, l
<1>13. CASE f[e] # NL
  <2>1. e - j < d /\ f[e] = p[b + (e - j)]
    <3>1. e \in j..e
      BY <1>6
    <3> QED BY <1>5, <1>13, <3>1
  <2>0. e = n /\ l.line = rd \o <<f[e]>>
    BY <1>4, <1>13 DEF rd
  <2> DEFINE x == b + (e - j)  sq == SubSeq(p, b, x)  z == p[x]
  <2>2. x \in b..(y - 1) /\ x \in 1..Len(p) /\ (x - b) + 1 = (e - j) + 1
    BY <1>2, <1>6, <2>1
  <2>3. z \in Char /\ f[e] = z
    BY <1>3, <2>1, <2>2
  <2> DEFINE m == (e - j) + 1
  <2>4. m \in Nat \ {0} /\ (x - b) + 1 = m
    BY <1>6, <2>2
  <2> HIDE DEF x, m
  <2>5. sq \in Seq(Char) /\ Len(sq) = m /\ \A h \in 1..m : sq[h] = p[b + (h - 1)]
    <3>1. sq \in Seq(Char) /\ Len(sq) = m
      BY <1>2, <2>2, <2>4
    <3>2. ASSUME NEW h \in 1..m PROVE sq[h] = p[b + (h - 1)]
      <4>1. (b + h) - 1 = b + (h - 1) /\ h \in 1..((x - b) + 1)
        BY <1>2, <2>4
      <4> QED BY <1>2, <2>2, <4>1
    <3> QED BY <3>1, <3>2
  <2> HIDE DEF sq
  <2>6. rd = sq
    <3>1. ASSUME NEW h \in 1..m PROVE rd[h] = sq[h]
      <4>1. rd[h] = f[j + (h - 1)]
        BY <1>11 DEF m
      <4>2. j + (h - 1) \in j..e /\ (j + (h - 1)) - j = h - 1 /\ h - 1 < d
        BY <1>2, <1>6, <2>1 DEF m
      <4> DEFINE i == j + (h - 1)
      <4>3. i \in j..e /\ i - j = h - 1
        BY <4>2
      <4> HIDE DEF i
      <4>4. f[i] = IF i - j < d THEN p[b + (i - j)] ELSE NL
        BY <1>5, <4>3
      <4>5. f[i] = p[b + (h - 1)]
        BY <4>2, <4>3, <4>4
      <4>6. rd[h] = p[b + (h - 1)]
        BY <4>1, <4>5 DEF i
      <4> QED BY <2>5, <4>6
    <3>2. rd \in Seq(Char) /\ Len(rd) = m
      BY <1>11 DEF m
    <3> QED BY <2>5, <3>1, <3>2
  <2>7. ~ EndsLine(f)
    <3>1. f # <<>>
      BY <1>6 DEF n
    <3> QED BY <1>13, <2>0, <3>1 DEF EndsLine, n
  <2>8. l.line = sq \o <<z>>
    BY <2>0, <2>3, <2>6, Zenon
  <2> HIDE DEF z
  <2>9. z = p[x] /\ l.next = n + 1
    BY <1>9, <2>0 DEF z
  <2>10. LineOf(f, p, k, l)
    BY <1>9, <1>10, <2>2, <2>3, <2>7, <2>8, <2>9, Zenon DEF LineOf, b, y, n, sq
  <2> QED BY <1>1, <1>7, <2>10 DEF b, l
<1> QED BY <1>12, <1>13

-----------------------------------------------------------------------------
(* pathFileRead puts the lines together.                                   *)

Fates == {"path", "wild", "loops"}
Reading(i, t, n) == [is |-> i, text |-> t, next |-> n]

HeadOf(f, c)  == Skip(f, 1, c, {HASH})
FirstOf(f, c) == [is |-> "path", text |-> Stripped(HeadOf(f, c).line), next |-> HeadOf(f, c).next]
MoreOf(f, c, rd) ==
  LET l == Skip(f, rd.next, c, {HASH})
  IN  CASE rd.is # "path" -> rd
        [] rd.is = "path" /\ l.next = 0 -> [rd EXCEPT !.is = "loops"]
        [] rd.is = "path" /\ l.next # 0 /\ l.line[1] = NUL -> [rd EXCEPT !.is = "wild"]
        [] OTHER -> [is |-> "path", text |-> rd.text \o Stripped(l.line), next |-> l.next]
IsRead(f, c, n, sq) == sq = [k \in 0..n |-> IF k = 0 THEN FirstOf(f, c) ELSE MoreOf(f, c, sq[k - 1])]
LinesOf(f, c)      == CHOOSE sq : IsRead(f, c, Number(HeadOf(f, c).line), sq)

LEMMA ReadIs ==
  ASSUME NEW f, NEW c
  PROVE  pathFileRead(f, c) =
           CASE HeadOf(f, c).next = 0 -> [is |-> "loops", text |-> <<>>]
             [] HeadOf(f, c).next # 0 /\ Number(HeadOf(f, c).line) = -1 -> [is |-> "wild", text |-> <<>>]
             [] OTHER -> [is   |-> LinesOf(f, c)[Number(HeadOf(f, c).line)].is,
                          text |-> LinesOf(f, c)[Number(HeadOf(f, c).line)].text]
BY DEF pathFileRead, HeadOf, FirstOf, MoreOf, IsRead, LinesOf

MoreRules(f, c, i, t, n, l) ==
  /\ i # "path" => MoreOf(f, c, Reading(i, t, n)) = Reading(i, t, n)
  /\ i = "path" /\ l.next = 0 => MoreOf(f, c, Reading(i, t, n)) = Reading("loops", t, n)
  /\ i = "path" /\ l.next # 0 /\ l.line[1] = NUL => MoreOf(f, c, Reading(i, t, n)) = Reading("wild", t, n)
  /\ i = "path" /\ l.next # 0 /\ l.line[1] # NUL =>
       MoreOf(f, c, Reading(i, t, n)) = Reading("path", t \o Stripped(l.line), l.next)

LEMMA MoreIs ==
  ASSUME NEW f, NEW c, NEW i, NEW t, NEW n
  PROVE  MoreRules(f, c, i, t, n, Skip(f, n, c, {HASH}))
<1> DEFINE l == Skip(f, n, c, {HASH})
<1>0. l = Skip(f, n, c, {HASH})
  OBVIOUS
<1> HIDE DEF l
<1> DEFINE rd == Reading(i, t, n)  u == Stripped(l.line)
<1>1. rd.is = i /\ rd.text = t /\ rd.next = n /\ rd = Reading(i, t, n)
  BY DEF Reading
<1> HIDE DEF rd
<1>2. MoreOf(f, c, rd) = CASE rd.is # "path" -> rd
        [] rd.is = "path" /\ l.next = 0 -> [rd EXCEPT !.is = "loops"]
        [] rd.is = "path" /\ l.next # 0 /\ l.line[1] = NUL -> [rd EXCEPT !.is = "wild"]
        [] OTHER -> Reading("path", t \o u, l.next)
  BY <1>0, <1>1 DEF MoreOf, Reading
<1>3. [rd EXCEPT !.is = "loops"] = Reading("loops", t, n) /\ [rd EXCEPT !.is = "wild"] = Reading("wild", t, n)
  BY <1>1 DEF Reading
<1> DEFINE M == MoreOf(f, c, rd)
           a1 == [rd EXCEPT !.is = "loops"]  a2 == [rd EXCEPT !.is = "wild"]
           a3 == Reading("path", t \o u, l.next)
<1>5. M = CASE rd.is # "path" -> rd
        [] rd.is = "path" /\ l.next = 0 -> a1
        [] rd.is = "path" /\ l.next # 0 /\ l.line[1] = NUL -> a2
        [] OTHER -> a3
  BY <1>2, Zenon
<1> HIDE DEF M, a1, a2, a3
<1>6. /\ i # "path" => M = rd
      /\ i = "path" /\ l.next = 0 => M = a1
      /\ i = "path" /\ l.next # 0 /\ l.line[1] = NUL => M = a2
      /\ i = "path" /\ l.next # 0 /\ l.line[1] # NUL => M = a3
  BY <1>1, <1>5
<1>7. MoreRules(f, c, i, t, n, l)
  BY <1>1, <1>3, <1>6, Zenon DEF MoreRules, M, a1, a2, a3, u
<1> QED BY <1>7 DEF l

LEMMA LinesExist ==
  ASSUME NEW f, NEW c
  PROVE  \A n \in Nat : \E sq : IsRead(f, c, n, sq)
<1> DEFINE S == {n \in Nat : ~ \E sq : IsRead(f, c, n, sq)}
<1> SUFFICES ASSUME S # {} PROVE FALSE
  OBVIOUS
<1>1. PICK n \in S : \A m \in S : n <= m
  BY LeastNumber
<1>2. n \in Nat /\ ~ \E sq : IsRead(f, c, n, sq)
  BY <1>1
<1>3. n # 0
  <2>1. IsRead(f, c, 0, [k \in 0..0 |-> FirstOf(f, c)])
    BY DEF IsRead
  <2> QED BY <1>2, <2>1
<1>4. n - 1 \in Nat /\ n - 1 \notin S
  BY <1>1, <1>2, <1>3
<1>5. PICK sq : IsRead(f, c, n - 1, sq)
  BY <1>4
<1> DEFINE h == [k \in 0..n |-> IF k = n THEN MoreOf(f, c, sq[n - 1]) ELSE sq[k]]
<1>6. ASSUME NEW k \in 0..n
      PROVE  h[k] = IF k = 0 THEN FirstOf(f, c) ELSE MoreOf(f, c, h[k - 1])
  <2>1. CASE k = n
    BY <1>2, <1>3, <2>1
  <2>2. CASE k # n
    <3>1. k \in 0..(n - 1) /\ h[k] = sq[k] /\ (k # 0 => h[k - 1] = sq[k - 1])
      BY <1>2, <2>2
    <3>2. sq[k] = IF k = 0 THEN FirstOf(f, c) ELSE MoreOf(f, c, sq[k - 1])
      BY <1>5, <3>1 DEF IsRead
    <3> QED BY <3>1, <3>2
  <2> QED BY <2>1, <2>2
<1>7. IsRead(f, c, n, h)
  <2>1. h = [k \in 0..n |-> h[k]]
    OBVIOUS
  <2> HIDE DEF h
  <2> QED BY <1>6, <2>1 DEF IsRead
<1> QED BY <1>2, <1>7

LEMMA LinesAre ==
  ASSUME NEW f, NEW c, NEW n \in Nat, n = Number(HeadOf(f, c).line)
  PROVE  /\ LinesOf(f, c)[0] = FirstOf(f, c)
         /\ \A k \in 1..n : LinesOf(f, c)[k] = MoreOf(f, c, LinesOf(f, c)[k - 1])
<1> DEFINE sq == LinesOf(f, c)
<1>1. IsRead(f, c, n, sq)
  BY LinesExist DEF LinesOf
<1> HIDE DEF sq
<1>2. sq[0] = FirstOf(f, c) /\ \A k \in 1..n : sq[k] = MoreOf(f, c, sq[k - 1])
  BY <1>1 DEF IsRead
<1> QED BY <1>2 DEF sq

\* Behind the end of the file nothing is added to the text.
LEMMA MoreAtEnd ==
  ASSUME NEW f \in Seq(Char), NEW c \in Char, NEW t \in Seq(Char), NEW i \in Fates
  PROVE  \E r \in Fates : /\ MoreOf(f, c, Reading(i, t, Len(f) + 1)) = Reading(r, t, Len(f) + 1)
                          /\ i # "path" => r = i
<1> DEFINE n == Len(f) + 1  l == Skip(f, n, c, {HASH})
<1>0. /\ i # "path" => MoreOf(f, c, Reading(i, t, n)) = Reading(i, t, n)
      /\ i = "path" /\ l.next = 0 => MoreOf(f, c, Reading(i, t, n)) = Reading("loops", t, n)
      /\ i = "path" /\ l.next # 0 /\ l.line[1] = NUL => MoreOf(f, c, Reading(i, t, n)) = Reading("wild", t, n)
      /\ i = "path" /\ l.next # 0 /\ l.line[1] # NUL =>
           MoreOf(f, c, Reading(i, t, n)) = Reading("path", t \o Stripped(l.line), l.next)
  <2>1. MoreRules(f, c, i, t, n, l)
    BY MoreIs, Zenon
  <2> HIDE DEF l, n
  <2> QED BY <2>1, Zenon DEF MoreRules
<1>1. CASE i # "path"
  <2> HIDE DEF l, n
  <2>1. MoreOf(f, c, Reading(i, t, n)) = Reading(i, t, n)
    BY <1>0, <1>1, Zenon
  <2> QED BY <1>1, <2>1, Zenon DEF n
<1>2. CASE i = "path"
  <2>1. \/ l = [line |-> <<c>>, next |-> n]
        \/ l = [line |-> <<>>, next |-> 0]
    <3>1. Found(f, c, {HASH}, n, l)
      <4>1. n \in 1..(Len(f) + 1) /\ HASH \in {HASH} /\ n = Len(f) + 1
        OBVIOUS
      <4>2. \A j \in 1..Len(f) : Content(f, j) => f[j] \notin {HASH}
        BY DEF Content
      <4> HIDE DEF n
      <4> QED BY <4>1, <4>2, SkipFinds
    <3>2. n..Len(f) = {}
      OBVIOUS
    <3> QED BY <3>1, <3>2, Zenon DEF Found
  <2>2. n # 0 /\ l = Skip(f, n, c, {HASH})
    OBVIOUS
  <2> HIDE DEF l, n
  <2>3. CASE l = [line |-> <<>>, next |-> 0]
    <3>1. l.next = 0
      BY <2>3
    <3>2. MoreOf(f, c, Reading(i, t, n)) = Reading("loops", t, n)
      BY <1>0, <1>2, <3>1, Zenon
    <3> QED BY <1>2, <3>2 DEF Fates, n
  <2>4. CASE l = [line |-> <<c>>, next |-> n]
    <3>1. l.next = n /\ l.line = <<c>> /\ l.line[1] = c
      BY <2>4
    <3>2. CASE c = NUL
      <4>1. MoreOf(f, c, Reading(i, t, n)) = Reading("wild", t, n)
        BY <1>0, <1>2, <2>2, <3>1, <3>2, Zenon
      <4> QED BY <1>2, <4>1 DEF Fates, n
    <3>3. CASE c # NUL
      <4>1. MoreOf(f, c, Reading(i, t, n)) = Reading("path", t \o Stripped(l.line), n)
        BY <1>0, <1>2, <2>2, <3>1, <3>3, Zenon
      <4>2. Stripped(l.line) = <<>>
        BY <3>1, FrontIs DEF Stripped
      <4>3. t \o <<>> = t
        BY FrontIs
      <4> QED BY <1>2, <4>1, <4>2, <4>3 DEF Fates, n
    <3> QED BY <3>2, <3>3
  <2> QED BY <2>1, <2>3, <2>4
<1> QED BY <1>1, <1>2

LEMMA AllAtEnd ==
  ASSUME NEW f \in Seq(Char), NEW c \in Char, NEW t \in Seq(Char), NEW n \in Nat,
         n = Number(HeadOf(f, c).line), FirstOf(f, c) = Reading("path", t, Len(f) + 1)
  PROVE  \E r \in Fates : LinesOf(f, c)[n] = Reading(r, t, Len(f) + 1) /\ (n = 0 => r = "path")
<1> DEFINE sq == LinesOf(f, c)  e == Len(f) + 1
           S == {k \in 0..n : ~ \E r \in Fates : sq[k] = Reading(r, t, e) /\ (k = 0 => r = "path")}
<1>1. sq[0] = Reading("path", t, e) /\ \A k \in 1..n : sq[k] = MoreOf(f, c, sq[k - 1])
  BY LinesAre
<1> HIDE DEF sq, e
<1>2. S = {}
  <2> SUFFICES ASSUME S # {} PROVE FALSE
    OBVIOUS
  <2>1. PICK k \in S : \A h \in S : k <= h
    <3>1. S \subseteq Nat /\ S # {}
      OBVIOUS
    <3> HIDE DEF S
    <3> QED BY <3>1, LeastNumber
  <2>2. k \in 0..n /\ ~ \E r \in Fates : sq[k] = Reading(r, t, e) /\ (k = 0 => r = "path")
    BY <2>1
  <2>3. k # 0
    BY <1>1, <2>2 DEF Fates
  <2>4. k \in 1..n /\ k - 1 \in 0..n /\ ~ (k <= k - 1)
    BY <2>2, <2>3
  <2>5. k - 1 \notin S
    <3> HIDE DEF S
    <3> QED BY <2>1, <2>4
  <2>6. PICK r \in Fates : sq[k - 1] = Reading(r, t, e)
    BY <2>4, <2>5
  <2>7. PICK x \in Fates : MoreOf(f, c, Reading(r, t, e)) = Reading(x, t, e)
    BY MoreAtEnd DEF e
  <2>8. sq[k] = Reading(x, t, e)
    BY <1>1, <2>4, <2>6, <2>7
  <2> QED BY <2>2, <2>3, <2>8
<1>3. n \in 0..n
  OBVIOUS
<1> QED BY <1>2, <1>3 DEF sq, e

\* The first line a reader finds.
LEMMA FirstFound ==
  ASSUME NEW p, Good(p), NEW f, Shape(f, p), NEW c \in Char, NEW skipped, skipped \in {{HASH}, {HASH, NL}},
         NEW i \in 1..(Len(f) + 1), i = 1 \/ f[i - 1] = NL, NEW k, k = Before(f, i),
         NEW l, l = Skip(f, i, c, skipped)
  PROVE  \/ k \in 0..Number(p) /\ LineOf(f, p, k, l)
         \/ /\ Before(f, Len(f) + 1) = k
            /\ l = [line |-> <<c>>, next |-> Len(f) + 1] \/ l = [line |-> <<>>, next |-> 0]
<1>1. f \in Seq(Char) /\ HASH \in skipped
  BY DEF Shape
<1>2. ASSUME NEW j \in 1..Len(f), Content(f, j)
      PROVE  f[j] \notin skipped /\ Before(f, j) \in 0..Number(p) /\ LineOf(f, p, Before(f, j), readLine(f, j, c))
  <2> DEFINE b == Before(f, j)
  <2>1. b \in 0..Number(p) /\ LineOf(f, p, b, readLine(f, j, c)) /\ f[j] = p[LineAt(p, b)]
    <3>1. b = Before(f, j)
      OBVIOUS
    <3> HIDE DEF b
    <3> QED BY <1>2, <3>1, LineIs
  <2>2. LineAt(p, b) \in 1..Len(p)
    <3> HIDE DEF b
    <3> QED BY <2>1, TameLines DEF Good
  <2>3. f[j] # NL
    <3> DEFINE x == LineAt(p, b)
    <3>1. x \in 1..Len(p) /\ f[j] = p[x]
      BY <2>1, <2>2
    <3> HIDE DEF x
    <3>2. p[x] \notin {HASH, NL, NUL}
      BY <3>1 DEF Good
    <3> QED BY <3>1, <3>2
  <2>4. f[j] # HASH
    BY <1>2 DEF Content
  <2> QED BY <2>1, <2>3, <2>4
<1>3. Found(f, c, skipped, i, l)
  <2>1. \A j \in 1..Len(f) : Content(f, j) => f[j] \notin skipped
    BY <1>2
  <2> QED BY <1>1, <2>1, SkipFinds
<1>4. CASE \E j \in i..Len(f) : Content(f, j) /\ Before(f, j) = Before(f, i) /\ l = readLine(f, j, c)
  <2>1. PICK j \in i..Len(f) : Content(f, j) /\ Before(f, j) = k /\ l = readLine(f, j, c)
    BY <1>4
  <2>2. j \in 1..Len(f)
    <3>1. i \in Nat /\ 1 <= i
      OBVIOUS
    <3> QED BY <3>1
  <2> QED BY <1>2, <2>1, <2>2
<1> QED BY <1>3, <1>4, Zenon DEF Found

LineHas(f, p, k, l) ==
  \E x \in LineAt(p, k)..(LineAt(p, k + 1) - 1), z \in Char :
    /\ x \in 1..Len(p)
    /\ l.line = SubSeq(p, LineAt(p, k), x) \o <<z>>
    /\ Stripped(l.line) = SubSeq(p, LineAt(p, k), x) /\ Stripped(l.line) \in Seq(Char)
    /\ l.line \in Seq(Char) /\ l.line # <<>>
    /\ Len(l.line) = ((x - LineAt(p, k)) + 1) + 1
    /\ \A h \in 1..((x - LineAt(p, k)) + 1) : l.line[h] = p[LineAt(p, k) + (h - 1)]
    /\ l.line[((x - LineAt(p, k)) + 1) + 1] = z
    /\ l.line[1] = p[LineAt(p, k)] /\ l.line[1] # NUL
    /\ l.next \in 2..(Len(f) + 1) /\ Before(f, l.next) = k + 1
    /\ \/ z = NL /\ x = LineAt(p, k + 1) - 1 /\ f[l.next - 1] = NL
       \/ z = p[x] /\ l.next = Len(f) + 1 /\ ~ EndsLine(f)

LEMMA LineParts ==
  ASSUME NEW p, Good(p), NEW f \in Seq(Char), NEW k \in 0..Number(p), NEW l, LineOf(f, p, k, l)
  PROVE  LineHas(f, p, k, l)
<1> DEFINE b == LineAt(p, k)  y == LineAt(p, k + 1)
<1>1. /\ b \in 1..Len(p) /\ y \in (b + 1)..(Len(p) + 1) /\ Len(p) \in Nat /\ p \in Seq(Char)
  BY TameLines DEF Good
<1> HIDE DEF b, y
<1>2. PICK x \in b..(y - 1), z \in Char :
        /\ l.line = SubSeq(p, b, x) \o <<z>>
        /\ l.next \in 2..(Len(f) + 1) /\ Before(f, l.next) = k + 1
        /\ \/ z = NL /\ x = y - 1 /\ f[l.next - 1] = NL
           \/ z = p[x] /\ l.next = Len(f) + 1 /\ ~ EndsLine(f)
  BY Zenon DEF LineOf, b, y
<1> DEFINE sq == SubSeq(p, b, x)  t == <<z>>  m == (x - b) + 1  w == l.line
<1>3. x \in 1..Len(p) /\ b <= x /\ m \in Nat \ {0}
  BY <1>1
<1>4. sq \in Seq(Char) /\ Len(sq) = m /\ \A h \in 1..m : sq[h] = p[b + (h - 1)]
  <2>0. p \in Seq(Char) /\ b \in 1..Len(p) /\ x \in 1..Len(p) /\ b <= x /\ (x - b) + 1 = m /\ Len(p) \in Nat
    BY <1>1, <1>3
  <2> HIDE DEF m
  <2>1. sq \in Seq(Char) /\ Len(sq) = m
    BY <2>0
  <2>2. ASSUME NEW h \in 1..m PROVE sq[h] = p[b + (h - 1)]
    <3>1. (b + h) - 1 = b + (h - 1) /\ h \in 1..((x - b) + 1)
      BY <2>0
    <3> QED BY <2>0, <3>1
  <2> QED BY <2>1, <2>2
<1>5. t \in Seq(Char) /\ Len(t) = 1 /\ t[1] = z
  OBVIOUS
<1>6. w = sq \o t
  BY <1>2
<1>7. Front(w) = sq
  BY <1>4, <1>6, FrontIs
<1> HIDE DEF sq, t, m, w
<1>8. w \in Seq(Char) /\ Len(w) = m + 1 /\ (\A h \in 1..m : w[h] = p[b + (h - 1)]) /\ w[m + 1] = z
  <2>0. /\ sq \o t \in Seq(Char) /\ Len(sq \o t) = Len(sq) + Len(t) /\ (\A h \in 1..Len(sq) : (sq \o t)[h] = sq[h])
        /\ \A h \in 1..Len(t) : (sq \o t)[Len(sq) + h] = t[h]
    BY <1>4, <1>5, ConcatIs
  <2>1. /\ w \in Seq(Char) /\ Len(w) = Len(sq) + Len(t) /\ (\A h \in 1..Len(sq) : w[h] = sq[h])
        /\ \A h \in 1..Len(t) : w[Len(sq) + h] = t[h]
    BY <1>6, <2>0, Zenon
  <2>2. 1 \in 1..Len(t)
    BY <1>5
  <2> QED BY <1>4, <1>5, <2>1, <2>2, Zenon
<1>9. w[1] = p[b] /\ w # <<>>
  <2>1. 1 \in 1..m /\ b + (1 - 1) = b
    BY <1>1, <1>3
  <2>2. w[1] = p[b]
    BY <1>8, <2>1
  <2> QED BY <1>3, <1>8, <2>2
<1>10. p[b] # NUL
  <2>1. p[b] \notin {HASH, NL, NUL}
    BY <1>1 DEF Good
  <2> QED BY <2>1
<1>11. Stripped(w) = sq
  BY <1>7 DEF Stripped
<1> QED BY <1>2, <1>3, <1>4, <1>6, <1>8, <1>9, <1>10, <1>11, Zenon DEF LineHas, b, y, sq, m, w

\* The text after k lines: the path so far, and more to come, or the end of the file.
ReadTo(f, p, k, rd) ==
  \/ \E n \in 1..(Len(f) + 1) :
       /\ rd = Reading("path", SubSeq(p, 1, LineAt(p, k + 1) - 1), n)
       /\ n = 1 \/ f[n - 1] = NL
       /\ Before(f, n) = k + 1
  \/ \E i \in Fates, x \in 0..(LineAt(p, Number(p) + 1) - 1), n \in 0..(Len(f) + 1) :
       /\ rd = Reading(i, SubSeq(p, 1, x), n)
       /\ i = "path" => n = Len(f) + 1
       /\ Before(f, Len(f) + 1) <= k + 1
       /\ EndsLine(f) => Before(f, Len(f) + 1) <= k
       /\ i # "path" => Before(f, Len(f) + 1) <= Number(p)

LEMMA Joined ==
  ASSUME NEW p \in Seq(Char), NEW b \in 1..Len(p), NEW x \in b..Len(p)
  PROVE  SubSeq(p, 1, b - 1) \o SubSeq(p, b, x) = SubSeq(p, 1, x)
<1> DEFINE sq == SubSeq(p, 1, b - 1)  t == SubSeq(p, b, x)  u == SubSeq(p, 1, x)  m == (x - b) + 1  a == b - 1
<1>1. a \in Nat /\ a <= Len(p) /\ m \in Nat /\ x \in 1..Len(p) /\ a + m = x /\ Len(p) \in Nat /\ b = a + 1 /\ x \in Nat
  OBVIOUS
<1>2. sq \in Seq(Char) /\ Len(sq) = a /\ \A h \in 1..a : sq[h] = p[h]
  OBVIOUS
<1>3. u \in Seq(Char) /\ Len(u) = x /\ \A h \in 1..x : u[h] = p[h]
  OBVIOUS
<1>4. t \in Seq(Char) /\ Len(t) = m
  OBVIOUS
<1>5. ASSUME NEW h \in 1..m PROVE t[h] = p[a + h]
  <2>1. (b + h) - 1 = a + h
    OBVIOUS
  <2> QED BY <2>1
<1> HIDE DEF sq, t, u, a, m
<1> DEFINE w == sq \o t
<1>6. /\ w \in Seq(Char) /\ Len(w) = a + m /\ (\A h \in 1..a : w[h] = sq[h])
      /\ \A h \in 1..m : w[a + h] = t[h]
  <2>1. /\ w \in Seq(Char) /\ Len(w) = Len(sq) + Len(t) /\ (\A h \in 1..Len(sq) : w[h] = sq[h])
        /\ \A h \in 1..Len(t) : w[Len(sq) + h] = t[h]
    BY <1>2, <1>4, ConcatIs
  <2> HIDE DEF w
  <2> QED BY <1>2, <1>4, <2>1, Zenon
<1> HIDE DEF w
<1>7. ASSUME NEW h \in 1..x PROVE w[h] = u[h]
  <2>1. CASE h <= a
    <3>1. h \in 1..a
      BY <1>1, <2>1
    <3> QED BY <1>2, <1>3, <1>6, <3>1
  <2>2. CASE ~ (h <= a)
    <3> DEFINE g == h - a
    <3>1. g \in 1..m /\ h = a + g
      BY <1>1, <2>2
    <3> HIDE DEF g
    <3>2. w[a + g] = t[g] /\ t[g] = p[a + g]
      BY <1>5, <1>6, <3>1
    <3> QED BY <1>3, <3>1, <3>2
  <2> QED BY <2>1, <2>2
<1>8. w = u
  BY <1>1, <1>3, <1>6, <1>7
<1> QED BY <1>8 DEF w, u, sq, t, a

LEMMA LineLimits ==
  ASSUME NEW p, Good(p), NEW k \in 0..Number(p)
  PROVE  /\ LineAt(p, k) <= LineAt(p, Number(p)) /\ LineAt(p, k + 1) <= LineAt(p, Number(p) + 1)
<1> DEFINE N == Number(p)  S == {j \in 0..N : ~ (LineAt(p, N - j) <= LineAt(p, N))}
           T == {j \in 0..N : ~ (LineAt(p, (N - j) + 1) <= LineAt(p, N + 1))}
<1>1. /\ N \in Nat /\ \A j \in 0..N : /\ LineAt(p, j) \in 1..Len(p) /\ Len(p) \in Nat
                                      /\ LineAt(p, j + 1) \in (LineAt(p, j) + 1)..(Len(p) + 1)
  BY TameLines DEF Good
<1>0. k \in 0..N
  OBVIOUS
<1> HIDE DEF N
<1>2. \A j \in 0..N : /\ LineAt(p, j) \in Nat /\ LineAt(p, j + 1) \in Nat /\ LineAt(p, j) <= LineAt(p, j + 1)
  <2> SUFFICES ASSUME NEW j \in 0..N
               PROVE  LineAt(p, j) \in Nat /\ LineAt(p, j + 1) \in Nat /\ LineAt(p, j) <= LineAt(p, j + 1)
    OBVIOUS
  <2> DEFINE x == LineAt(p, j)  y == LineAt(p, j + 1)
  <2>1. x \in 1..Len(p) /\ Len(p) \in Nat /\ y \in (x + 1)..(Len(p) + 1)
    BY <1>1
  <2> HIDE DEF x, y
  <2>2. x \in Nat /\ y \in Nat /\ x <= y
    BY <2>1
  <2> QED BY <2>2 DEF x, y
<1>3. S = {}
  <2> SUFFICES ASSUME S # {} PROVE FALSE
    OBVIOUS
  <2>1. PICK j \in S : \A h \in S : j <= h
    <3>1. S \subseteq Nat /\ S # {}
      OBVIOUS
    <3> HIDE DEF S
    <3> QED BY <3>1, LeastNumber
  <2>2. j \in 0..N /\ ~ (LineAt(p, N - j) <= LineAt(p, N))
    BY <2>1
  <2>3. j # 0
    <3>1. N - 0 = N /\ N \in 0..N
      BY <1>1
    <3>2. LineAt(p, N) <= LineAt(p, N)
      BY <1>2, <3>1
    <3> QED BY <2>2, <3>1, <3>2
  <2>4. j - 1 \in 0..N /\ ~ (j <= j - 1) /\ N - j \in 0..N /\ N - (j - 1) = (N - j) + 1 /\ N \in 0..N
    BY <1>1, <2>2, <2>3
  <2>5. j - 1 \notin S
    <3> HIDE DEF S
    <3> QED BY <2>1, <2>4
  <2>6. LineAt(p, (N - j) + 1) <= LineAt(p, N)
    BY <2>4, <2>5
  <2> DEFINE x == LineAt(p, N - j)  y == LineAt(p, (N - j) + 1)  z == LineAt(p, N)
  <2>7. x \in Nat /\ y \in Nat /\ x <= y /\ z \in Nat /\ y <= z /\ ~ (x <= z)
    BY <1>2, <2>2, <2>4, <2>6
  <2> HIDE DEF x, y, z
  <2> QED BY <2>7
<1>4. T = {}
  <2> SUFFICES ASSUME T # {} PROVE FALSE
    OBVIOUS
  <2>1. PICK j \in T : \A h \in T : j <= h
    <3>1. T \subseteq Nat /\ T # {}
      OBVIOUS
    <3> HIDE DEF T
    <3> QED BY <3>1, LeastNumber
  <2>2. j \in 0..N /\ ~ (LineAt(p, (N - j) + 1) <= LineAt(p, N + 1))
    BY <2>1
  <2>3. j # 0
    <3>1. N - 0 = N /\ N \in 0..N
      BY <1>1
    <3>2. LineAt(p, N + 1) <= LineAt(p, N + 1)
      BY <1>2, <3>1
    <3> QED BY <2>2, <3>1, <3>2
  <2>4. j - 1 \in 0..N /\ ~ (j <= j - 1) /\ (N - j) + 1 \in 0..N /\ N - (j - 1) = (N - j) + 1 /\ N \in 0..N
    BY <1>1, <2>2, <2>3
  <2>5. j - 1 \notin T
    <3> HIDE DEF T
    <3> QED BY <2>1, <2>4
  <2>6. LineAt(p, ((N - j) + 1) + 1) <= LineAt(p, N + 1)
    BY <2>4, <2>5
  <2> DEFINE x == LineAt(p, (N - j) + 1)  y == LineAt(p, ((N - j) + 1) + 1)  z == LineAt(p, N + 1)
  <2>7. x \in Nat /\ y \in Nat /\ x <= y /\ z \in Nat /\ y <= z /\ ~ (x <= z)
    BY <1>2, <2>2, <2>4, <2>6
  <2> HIDE DEF x, y, z
  <2> QED BY <2>7
<1>5. N - k \in 0..N /\ N - (N - k) = k
  BY <1>0, <1>1
<1>6. LineAt(p, k) <= LineAt(p, N) /\ LineAt(p, k + 1) <= LineAt(p, N + 1)
  BY <1>3, <1>4, <1>5
<1> QED BY <1>6 DEF N

LEMMA PrefixType ==
  ASSUME NEW p, Good(p), NEW x \in 0..Len(p)
  PROVE  /\ SubSeq(p, 1, x) \in Seq(Char) /\ Len(SubSeq(p, 1, x)) = x
         /\ \A h \in 1..x : SubSeq(p, 1, x)[h] = p[h]
<1>1. p \in Seq(Char) /\ Len(p) \in Nat
  BY TameLines DEF Good
<1> QED BY <1>1

LEMMA ReadNext ==
  ASSUME NEW p, Good(p), NEW f, Shape(f, p), NEW c \in Char, NEW k \in Nat, k + 1 <= Number(p),
         NEW rd, ReadTo(f, p, k, rd)
  PROVE  ReadTo(f, p, k + 1, MoreOf(f, c, rd))
<1> DEFINE N == Number(p)  L == Len(f) + 1  B == Before(f, L)  E == LineAt(p, N + 1)  j == k + 1  b == LineAt(p, j)
<1>1. /\ f \in Seq(Char) /\ N \in Nat /\ j \in 0..N /\ L \in Nat \ {0} /\ p \in Seq(Char) /\ Len(p) \in Nat
      /\ b \in 1..Len(p) /\ LineAt(p, j + 1) <= E /\ E \in 1..(Len(p) + 1) /\ LineAt(p, j + 1) \in (b + 1)..(Len(p) + 1)
  <2>1. f \in Seq(Char) /\ N \in Nat /\ p \in Seq(Char) /\ Len(p) \in Nat
    BY TameLines DEF Good, Shape
  <2>2. j \in 0..N /\ L \in Nat \ {0} /\ N + 1 \in 0..(N + 1)
    BY <2>1
  <2>3. E \in 1..(Len(p) + 1)
    BY <2>2, TameLines DEF Good
  <2>4. b \in 1..Len(p) /\ LineAt(p, j + 1) \in (b + 1)..(Len(p) + 1)
    <3> HIDE DEF j
    <3> QED BY <2>2, TameLines DEF Good
  <2>5. LineAt(p, j + 1) <= E
    <3> HIDE DEF j
    <3> QED BY <2>2, LineLimits
  <2> QED BY <2>1, <2>2, <2>3, <2>4, <2>5
<1>2. B \in Nat
  BY <1>1, StartsAre
<1>3. k \in Nat /\ j = k + 1 /\ j <= N
  OBVIOUS
<1>a. /\ ReadTo(f, p, k, rd) <=>
          \/ \E n \in 1..L : rd = Reading("path", SubSeq(p, 1, b - 1), n) /\ (n = 1 \/ f[n - 1] = NL) /\ Before(f, n) = j
          \/ \E i \in Fates, x \in 0..(E - 1), n \in 0..L :
               /\ rd = Reading(i, SubSeq(p, 1, x), n)
               /\ i = "path" => n = L
               /\ B <= j
               /\ EndsLine(f) => B <= k
               /\ i # "path" => B <= N
  BY Zenon DEF ReadTo
<1>b. \A r : ReadTo(f, p, j, r) <=>
          \/ \E n \in 1..L : /\ r = Reading("path", SubSeq(p, 1, LineAt(p, j + 1) - 1), n)
                             /\ n = 1 \/ f[n - 1] = NL
                             /\ Before(f, n) = j + 1
          \/ \E i \in Fates, x \in 0..(E - 1), n \in 0..L :
               /\ r = Reading(i, SubSeq(p, 1, x), n)
               /\ i = "path" => n = L
               /\ B <= j + 1
               /\ EndsLine(f) => B <= j
               /\ i # "path" => B <= N
  BY Zenon DEF ReadTo
<1>c. Good(p) /\ Shape(f, p) /\ ReadTo(f, p, k, rd)
  OBVIOUS
<1>d. /\ \A x \in 0..(E - 1) : SubSeq(p, 1, x) \in Seq(Char)
  <2> SUFFICES ASSUME NEW x \in 0..(E - 1) PROVE SubSeq(p, 1, x) \in Seq(Char)
    OBVIOUS
  <2> HIDE DEF E, N
  <2>1. x \in 0..Len(p)
    BY <1>1
  <2> QED BY <2>1, PrefixType
<1> SUFFICES ReadTo(f, p, j, MoreOf(f, c, rd))
  OBVIOUS
<1>4. CASE \E i \in Fates, x \in 0..(E - 1), n \in 0..L :
             /\ rd = Reading(i, SubSeq(p, 1, x), n)
             /\ i = "path" => n = L
             /\ B <= j
             /\ EndsLine(f) => B <= k
             /\ i # "path" => B <= N
  <2> HIDE DEF L, B, E, N, j, b
  <2>1. PICK i \in Fates, x \in 0..(E - 1), n \in 0..L :
             /\ rd = Reading(i, SubSeq(p, 1, x), n)
             /\ i = "path" => n = L
             /\ B <= j
             /\ EndsLine(f) => B <= k
    BY <1>4
  <2> DEFINE t == SubSeq(p, 1, x)
  <2>2. t \in Seq(Char)
    BY <1>d
  <2>3. PICK r \in Fates, m \in 0..L : MoreOf(f, c, Reading(i, t, n)) = Reading(r, t, m) /\ (r = "path" => m = L)
    <3> HIDE DEF t
    <3>1. CASE i = "path"
      <4>1. n = L /\ L \in 0..L
        BY <1>1, <2>1, <3>1
      <4>2. PICK r \in Fates : MoreOf(f, c, Reading(i, t, L)) = Reading(r, t, L)
        BY <1>1, <2>2, MoreAtEnd DEF L
      <4> QED BY <4>1, <4>2
    <3>2. CASE i # "path"
      <4>1. MoreOf(f, c, Reading(i, t, n)) = Reading(i, t, n)
        <5>1. MoreRules(f, c, i, t, n, Skip(f, n, c, {HASH}))
          BY MoreIs, Zenon
        <5> QED BY <3>2, <5>1, Zenon DEF MoreRules
      <4> QED BY <3>2, <4>1, Zenon
    <3> QED BY <3>1, <3>2
  <2>4. B <= j + 1 /\ (EndsLine(f) => B <= j) /\ B <= N
    BY <1>1, <1>2, <1>3, <2>1
  <2>5. MoreOf(f, c, rd) = Reading(r, t, m)
    BY <2>1, <2>3, Zenon
  <2> QED BY <1>b, <2>3, <2>4, <2>5, Zenon
<1>5. CASE \E n \in 1..L : rd = Reading("path", SubSeq(p, 1, b - 1), n) /\ (n = 1 \/ f[n - 1] = NL) /\ Before(f, n) = j
  <2>1. PICK n \in 1..L : rd = Reading("path", SubSeq(p, 1, b - 1), n) /\ (n = 1 \/ f[n - 1] = NL) /\ Before(f, n) = j
    BY <1>5
  <2> DEFINE l == Skip(f, n, c, {HASH})  t == SubSeq(p, 1, b - 1)  M == MoreOf(f, c, rd)
  <2>2. MoreRules(f, c, "path", t, n, l)
    BY MoreIs, Zenon
  <2>3. \/ LineOf(f, p, j, l)
        \/ B = j /\ (l = [line |-> <<c>>, next |-> L] \/ l = [line |-> <<>>, next |-> 0])
    <3>1. l = Skip(f, n, c, {HASH}) /\ {HASH} \in {{HASH}, {HASH, NL}}
      OBVIOUS
    <3>2. n \in 1..(Len(f) + 1) /\ (n = 1 \/ f[n - 1] = NL) /\ j = Before(f, n)
      BY <2>1
    <3> HIDE DEF l, j
    <3>3. \/ j \in 0..Number(p) /\ LineOf(f, p, j, l)
          \/ /\ Before(f, Len(f) + 1) = j
             /\ l = [line |-> <<c>>, next |-> Len(f) + 1] \/ l = [line |-> <<>>, next |-> 0]
      BY <1>c, <3>1, <3>2, FirstFound
    <3> QED BY <3>3, Zenon
  <2>4. rd = Reading("path", t, n)
    BY <2>1
  <2> HIDE DEF l, t, L, B, E, N, j, b
  <2>5. /\ l.next = 0 => M = Reading("loops", t, n)
        /\ l.next # 0 /\ l.line[1] = NUL => M = Reading("wild", t, n)
        /\ l.next # 0 /\ l.line[1] # NUL => M = Reading("path", t \o Stripped(l.line), l.next)
    BY <2>2, <2>4, Zenon DEF MoreRules
  <2>6. t \in Seq(Char) /\ b - 1 \in 0..(E - 1) /\ b - 1 \in 0..Len(p)
    <3> DEFINE y == LineAt(p, j + 1)
    <3>1. b \in 1..Len(p) /\ y <= E /\ y \in (b + 1)..(Len(p) + 1) /\ E \in 1..(Len(p) + 1) /\ Len(p) \in Nat
      BY <1>1
    <3> HIDE DEF y
    <3>2. b - 1 \in 0..(E - 1) /\ b - 1 \in 0..Len(p)
      BY <3>1
    <3> QED BY <1>d, <3>2 DEF t
  <2> HIDE DEF M
  <2>7. CASE LineOf(f, p, j, l)
    <3>1. PICK x \in b..(LineAt(p, j + 1) - 1), z \in Char :
           /\ x \in 1..Len(p)
           /\ Stripped(l.line) = SubSeq(p, b, x)
           /\ l.line[1] # NUL
           /\ l.next \in 2..(Len(f) + 1) /\ Before(f, l.next) = j + 1
           /\ \/ z = NL /\ x = LineAt(p, j + 1) - 1 /\ f[l.next - 1] = NL
              \/ z = p[x] /\ l.next = Len(f) + 1 /\ ~ EndsLine(f)
      <4>1. j \in 0..Number(p) /\ f \in Seq(Char) /\ Good(p)
        BY <1>1, <1>c DEF N
      <4>2. LineHas(f, p, j, l)
        BY <2>7, <4>1, LineParts
      <4> QED BY <4>2, Zenon DEF LineHas, b
    <3>2. l.next # 0 /\ l.next \in 1..L /\ l.next \in 0..L
      <4> DEFINE y == l.next
      <4>1. y \in 2..L /\ L \in Nat
        BY <1>1, <3>1, Zenon DEF L
      <4> HIDE DEF y
      <4>2. y # 0 /\ y \in 1..L /\ y \in 0..L
        BY <4>1
      <4> QED BY <4>2 DEF y
    <3>3. t \o SubSeq(p, b, x) = SubSeq(p, 1, x)
      <4>1. p \in Seq(Char) /\ b \in 1..Len(p) /\ x \in b..Len(p)
        BY <1>1, <3>1
      <4>2. SubSeq(p, 1, b - 1) \o SubSeq(p, b, x) = SubSeq(p, 1, x)
        BY <4>1, Joined
      <4> QED BY <4>2 DEF t
    <3>4. M = Reading("path", SubSeq(p, 1, x), l.next)
      BY <2>5, <3>1, <3>2, <3>3, Zenon
    <3>5. CASE x = LineAt(p, j + 1) - 1 /\ f[l.next - 1] = NL
      <4>1. M = Reading("path", SubSeq(p, 1, LineAt(p, j + 1) - 1), l.next)
        BY <3>4, <3>5, Zenon
      <4>2. f[l.next - 1] = NL /\ Before(f, l.next) = j + 1 /\ l.next \in 1..L
        BY <3>1, <3>2, <3>5, Zenon
      <4> QED BY <1>b, <4>1, <4>2, Zenon DEF M
    <3>6. CASE l.next = Len(f) + 1 /\ ~ EndsLine(f)
      <4>1. l.next = L /\ B = j + 1
        BY <3>1, <3>6, Zenon DEF L, B
      <4>2. x \in 0..(E - 1) /\ B <= j + 1
        <5> DEFINE y == LineAt(p, j + 1)
        <5>1. b \in 1..Len(p) /\ y <= E /\ y \in (b + 1)..(Len(p) + 1) /\ E \in 1..(Len(p) + 1) /\ Len(p) \in Nat
              /\ x \in b..(y - 1) /\ j \in 0..N
          BY <1>1, <3>1
        <5> HIDE DEF y
        <5>2. x \in 0..(E - 1)
          BY <5>1
        <5>3. B <= B
          BY <1>2
        <5> QED BY <4>1, <5>2, <5>3
      <4>3. "path" \in Fates
        BY DEF Fates
      <4> QED BY <1>b, <3>2, <3>4, <3>6, <4>1, <4>2, <4>3, Zenon DEF M
    <3> QED BY <3>1, <3>5, <3>6, Zenon
  <2>8. CASE B = j /\ (l = [line |-> <<c>>, next |-> L] \/ l = [line |-> <<>>, next |-> 0])
    <3>1. B <= j + 1 /\ B <= j /\ B <= N
      BY <1>1, <1>2, <1>3, <2>8
    <3>2. PICK r \in Fates, m \in 0..L : M = Reading(r, t, m) /\ (r = "path" => m = L)
      <4>0. n \in 0..L /\ L \in 0..L /\ L # 0
        BY <1>1
      <4>1. CASE l = [line |-> <<>>, next |-> 0]
        <5>1. l.next = 0
          BY <4>1
        <5>2. M = Reading("loops", t, n) /\ "loops" \in Fates /\ "loops" # "path"
          BY <2>5, <5>1 DEF Fates
        <5> QED BY <4>0, <5>2
      <4>2. CASE l = [line |-> <<c>>, next |-> L]
        <5>1. l.next = L /\ l.line = <<c>> /\ l.line[1] = c
          BY <4>2
        <5>2. Stripped(l.line) = <<>>
          BY <1>1, <5>1, FrontIs DEF Stripped
        <5>3. t \o <<>> = t
          BY <2>6, FrontIs
        <5>4. "wild" \in Fates /\ "wild" # "path" /\ "path" \in Fates
          BY DEF Fates
        <5>5. CASE c = NUL
          <6>1. M = Reading("wild", t, n)
            BY <2>5, <4>0, <5>1, <5>5, Zenon
          <6> QED BY <4>0, <5>4, <6>1, Zenon
        <5>6. CASE c # NUL
          <6>1. M = Reading("path", t, L)
            BY <2>5, <4>0, <5>1, <5>2, <5>3, <5>6, Zenon
          <6> QED BY <4>0, <5>4, <6>1, Zenon
        <5> QED BY <5>5, <5>6
      <4> QED BY <2>8, <4>1, <4>2
    <3>3. M = Reading(r, SubSeq(p, 1, b - 1), m)
      BY <3>2 DEF t
    <3> QED BY <1>b, <2>6, <3>1, <3>2, <3>3, Zenon DEF M
  <2> QED BY <2>3, <2>7, <2>8
<1> QED BY <1>a, <1>c, <1>4, <1>5, Zenon

\* The first line announces as many points as the path.
LEMMA NumberWhole ==
  ASSUME NEW p, Good(p), NEW w \in Seq(Char), NEW m \in Nat, m = LineAt(p, 1) - 1, Len(w) = m + 1,
         \A h \in 1..m : w[h] = p[h], w[m + 1] = NL
  PROVE  Number(w) = Number(p)
<1>1. p \in Seq(Char) /\ Len(p) \in Nat /\ IsPath(p) /\ Number(p) \in Nat /\ LineAt(p, 0) = 1
  BY TameLines DEF Good, Tame
<1>2. PICK n : IsRun(p, n) /\ Number(p) = IF n = 0 THEN -1 ELSE Value(p, n)[n]
  BY <1>1, RunIs
<1>3. /\ n \in Nat /\ n <= Len(p) /\ (\A j \in 1..n : p[j] \in DigitChar)
      /\ n < Len(p) => p[n + 1] \notin DigitChar
  BY <1>2 DEF IsRun
<1> DEFINE e == LineAt(p, 1)
<1>4. \/ e - 1 \in 1..Len(p) /\ p[e - 1] = COMMA
      \/ e = Len(p) + 1
  <2>1. 0 \in 0..Number(p) /\ 0 + 1 = 1
    BY <1>1
  <2>2. \/ LineAt(p, 0 + 1) - 1 \in LineAt(p, 0)..Len(p) /\ p[LineAt(p, 0 + 1) - 1] = COMMA
        \/ LineAt(p, 0 + 1) = Len(p) + 1
    BY <1>1, <2>1, LineEnds
  <2> QED BY <1>1, <2>1, <2>2
<1>5. \/ m \in 1..Len(p) /\ p[m] = COMMA
      \/ m = Len(p)
  <2>1. e - 1 = m
    OBVIOUS
  <2>2. CASE e - 1 \in 1..Len(p) /\ p[e - 1] = COMMA
    BY <2>1, <2>2
  <2>3. CASE e = Len(p) + 1
    BY <1>1, <2>1, <2>3
  <2> QED BY <1>4, <2>2, <2>3
<1>6. n <= m /\ (n = m => m = Len(p))
  <2>1. CASE m = Len(p)
    BY <1>3, <2>1
  <2>2. CASE m \in 1..Len(p) /\ p[m] = COMMA
    <3>1. ~ (m <= n)
      <4> SUFFICES ASSUME m <= n PROVE FALSE
        OBVIOUS
      <4>1. m \in 1..n
        BY <1>3, <2>2
      <4>2. p[m] \in DigitChar
        BY <1>3, <4>1
      <4> QED BY <2>2, <4>2, NoDigit
    <3> QED BY <1>3, <3>1
  <2> QED BY <1>5, <2>1, <2>2
<1>7. IsRun(w, n)
  <2>1. n \in 0..Len(w) /\ \A j \in 1..n : j \in 1..m
    BY <1>3, <1>6
  <2>2. \A j \in 1..n : w[j] \in DigitChar
    BY <1>3, <2>1
  <2>3. w[n + 1] \notin DigitChar
    <3>1. CASE n = m
      BY <3>1, NoDigit
    <3>2. CASE n # m
      <4>1. n + 1 \in 1..m /\ n < Len(p)
        BY <1>1, <1>3, <1>5, <1>6, <3>2
      <4>2. w[n + 1] = p[n + 1]
        BY <4>1
      <4> QED BY <1>3, <4>1, <4>2
    <3> QED BY <3>1, <3>2
  <2> QED BY <2>1, <2>2, <2>3 DEF IsRun
<1>8. \A j \in 1..n : w[j] = p[j]
  <2>1. \A j \in 1..n : j \in 1..m
    BY <1>3, <1>6
  <2> QED BY <2>1
<1> QED BY <1>1, <1>2, <1>7, <1>8, NumberSame

\* What pathFileRead returns.
ReadsPath(f, p, r) ==
  /\ r.is \in Fates
  /\ r.is = "path" => \E x \in 0..(LineAt(p, Number(p) + 1) - 1) : r.text = SubSeq(p, 1, x)
  /\ r.is # "path" => Before(f, Len(f) + 1) <= Number(p)
  /\ Whole(f, p, Number(p) + 1) => r = [is |-> "path", text |-> SubSeq(p, 1, LineAt(p, Number(p) + 1) - 1)]

LEMMA ReadResult ==
  ASSUME NEW p, Good(p), NEW f, Shape(f, p), NEW c \in Char
  PROVE  ReadsPath(f, p, pathFileRead(f, c))
<1> DEFINE N == Number(p)  L == Len(f) + 1  B == Before(f, L)  E == LineAt(p, N + 1)
           h == HeadOf(f, c)  r == pathFileRead(f, c)  count == Number(h.line)  ls == LinesOf(f, c)
           Told(x) == [is |-> ls[x].is, text |-> ls[x].text]
<1>1. /\ f \in Seq(Char) /\ N \in Nat /\ L \in Nat \ {0} /\ p \in Seq(Char) /\ Len(p) \in Nat
      /\ E \in 1..(Len(p) + 1) /\ B \in Nat /\ IsPath(p) /\ LineAt(p, 0) = 1 /\ LineAt(p, 1) <= E
      /\ LineAt(p, 1) \in 2..(Len(p) + 1)
  <2>1. f \in Seq(Char) /\ N \in Nat /\ p \in Seq(Char) /\ Len(p) \in Nat /\ IsPath(p) /\ LineAt(p, 0) = 1
    BY TameLines DEF Good, Shape, Tame
  <2>2. L \in Nat \ {0} /\ N + 1 \in 0..(N + 1) /\ 0 \in 0..N /\ 0 + 1 = 1
    BY <2>1
  <2>3. E \in 1..(Len(p) + 1)
    BY <2>2, TameLines DEF Good
  <2>4. B \in Nat
    BY <2>2, StartsAre
  <2>5. LineAt(p, 0 + 1) <= E
    BY <2>2, LineLimits
  <2>6. LineAt(p, 0 + 1) \in (LineAt(p, 0) + 1)..(Len(p) + 1)
    BY <2>2, TameLines DEF Good
  <2> QED BY <2>1, <2>2, <2>3, <2>4, <2>5, <2>6
<1>2. r = CASE h.next = 0 -> [is |-> "loops", text |-> <<>>]
            [] h.next # 0 /\ count = -1 -> [is |-> "wild", text |-> <<>>]
            [] OTHER -> Told(count)
  BY ReadIs, Zenon
<1>3. \/ LineOf(f, p, 0, h)
      \/ B = 0 /\ (h = [line |-> <<c>>, next |-> L] \/ h = [line |-> <<>>, next |-> 0])
  <2> DEFINE i == 1  k == 0  sq == {HASH}
  <2>0. i \in 1..(Len(f) + 1) /\ i = 1
    <3>1. L \in Nat \ {0}
      BY <1>1
    <3> HIDE DEF L
    <3>2. i \in 1..L /\ i = 1
      BY <3>1
    <3> QED BY <3>2 DEF L
  <2>5. k = Before(f, i)
    BY BeforeFirst
  <2>6. sq \in {{HASH}, {HASH, NL}}
    OBVIOUS
  <2>7. h = Skip(f, i, c, sq)
    BY Zenon DEF HeadOf
  <2>1. i \in 1..(Len(f) + 1) /\ i = 1 /\ k = Before(f, i) /\ sq \in {{HASH}, {HASH, NL}} /\ h = Skip(f, i, c, sq)
    BY <2>0, <2>5, <2>6, <2>7
  <2>2. Good(p) /\ Shape(f, p)
    OBVIOUS
  <2> HIDE DEF i, sq, h
  <2>3. k \in Nat
    OBVIOUS
  <2> HIDE DEF k
  <2>4. \/ k \in 0..Number(p) /\ LineOf(f, p, k, h)
        \/ /\ Before(f, Len(f) + 1) = k
           /\ h = [line |-> <<c>>, next |-> Len(f) + 1] \/ h = [line |-> <<>>, next |-> 0]
    BY <2>1, <2>2, FirstFound
  <2> QED BY <2>4, Zenon DEF k
<1>4. Whole(f, p, N + 1) => B = N + 1 /\ EndsLine(f)
  BY DEF Whole
<1>5. FirstOf(f, c) = Reading("path", Stripped(h.line), h.next)
  BY Zenon DEF FirstOf, Reading
<1>6. \A x \in 0..(E - 1) : SubSeq(p, 1, x) \in Seq(Char)
  <2> SUFFICES ASSUME NEW x \in 0..(E - 1) PROVE SubSeq(p, 1, x) \in Seq(Char)
    OBVIOUS
  <2> HIDE DEF E
  <2>1. x \in 0..Len(p)
    BY <1>1
  <2> QED BY <2>1, PrefixType
<1>7. "path" \in Fates /\ "wild" \in Fates /\ "loops" \in Fates /\ "wild" # "path" /\ "loops" # "path"
  BY DEF Fates
\* A text that ends at the end of the file, with a line missing unless the path has no points.
<1>8. ASSUME NEW x \in 0..(E - 1), count \in Nat, Stripped(h.line) = SubSeq(p, 1, x), h.next = L,
             count # 0 => B <= N, ~ Whole(f, p, N + 1)
      PROVE  ReadsPath(f, p, r)
  <2> DEFINE t == SubSeq(p, 1, x)
  <2>1. t \in Seq(Char) /\ FirstOf(f, c) = Reading("path", t, L)
    BY <1>5, <1>6, <1>8
  <2> HIDE DEF t
  <2>2. PICK v \in Fates : ls[count] = Reading(v, t, L) /\ (count = 0 => v = "path")
    <3> DEFINE n == count
    <3>1. n \in Nat /\ n = Number(HeadOf(f, c).line) /\ FirstOf(f, c) = Reading("path", t, Len(f) + 1)
      BY <1>8, <2>1
    <3> HIDE DEF n
    <3>2. \E v \in Fates : LinesOf(f, c)[n] = Reading(v, t, Len(f) + 1) /\ (n = 0 => v = "path")
      BY <1>1, <2>1, <3>1, AllAtEnd
    <3> QED BY <3>2 DEF n
  <2>3. r = Told(count)
    <3>1. h.next # 0 /\ count # -1
      BY <1>1, <1>8
    <3> HIDE DEF h, count, Told
    <3> QED BY <1>2, <3>1
  <2>4. Told(count) = [is |-> v, text |-> t]
    <3> DEFINE n == count
    <3>1. ls[n].is = v /\ ls[n].text = t
      <4> HIDE DEF ls, n
      <4> QED BY <2>2 DEF Reading, n
    <3> QED BY <3>1
  <2>5. r.is = v /\ r.text = t
    <3> HIDE DEF r
    <3> QED BY <2>3, <2>4
  <2>6. v # "path" => B <= N
    BY <1>8, <2>2
  <2> QED BY <1>8, <2>2, <2>5, <2>6, Zenon DEF ReadsPath, t
<1>9. CASE B = 0 /\ (h = [line |-> <<c>>, next |-> L] \/ h = [line |-> <<>>, next |-> 0])
  <2>1. B <= N /\ ~ Whole(f, p, N + 1)
    BY <1>1, <1>4, <1>9
  <2>2. CASE h = [line |-> <<>>, next |-> 0]
    <3>1. h.next = 0
      BY <2>2
    <3>2. r = [is |-> "loops", text |-> <<>>]
      <4> HIDE DEF h, count, Told
      <4> QED BY <1>2, <3>1
    <3>3. r.is = "loops"
      <4> HIDE DEF r
      <4> QED BY <3>2
    <3> QED BY <1>7, <2>1, <3>3, Zenon DEF ReadsPath
  <2>3. CASE h = [line |-> <<c>>, next |-> L]
    <3>1. h.next = L /\ h.line = <<c>> /\ h.next # 0
      <4>1. h.next = L /\ h.line = <<c>>
        <5> HIDE DEF L, h
        <5> QED BY <2>3
      <4> QED BY <1>1, <4>1
    <3>2. Stripped(h.line) = <<>>
      BY <1>1, <3>1, FrontIs DEF Stripped
    <3>3. count \in Nat \cup {-1}
      <4>1. h.line \in Seq(Char)
        BY <3>1
      <4> QED BY <4>1, NumberType
    <3>4. CASE count = -1
      <4>1. r = [is |-> "wild", text |-> <<>>]
        <5> HIDE DEF h, count, Told
        <5> QED BY <1>2, <3>1, <3>4
      <4>2. r.is = "wild"
        <5> HIDE DEF r
        <5> QED BY <4>1
      <4> QED BY <1>7, <2>1, <4>2, Zenon DEF ReadsPath
    <3>5. CASE count \in Nat
      <4>1. 0 \in 0..(E - 1) /\ SubSeq(p, 1, 0) = <<>>
        <5> HIDE DEF E
        <5> QED BY <1>1
      <4>2. Stripped(h.line) = SubSeq(p, 1, 0) /\ (count # 0 => B <= N) /\ h.next = L
        <5> HIDE DEF h, r, count, L, B, E, N
        <5> QED BY <2>1, <3>1, <3>2, <4>1
      <4> HIDE DEF h, r, count, L, B, E, N
      <4>3. ReadsPath(f, p, r)
        BY <1>8, <2>1, <3>5, <4>1, <4>2, Zenon
      <4> QED BY <4>3 DEF r
    <3> QED BY <3>3, <3>4, <3>5
  <2> QED BY <1>9, <2>2, <2>3
<1>10. CASE LineOf(f, p, 0, h)
  <2>1. LineHas(f, p, 0, h)
    <3>1. 0 \in 0..Number(p)
      BY <1>1
    <3> HIDE DEF h
    <3> QED BY <1>1, <1>10, <3>1, LineParts
  <2> DEFINE w == h.line  e == LineAt(p, 1)
  <2>2. PICK x \in 1..(e - 1), z \in Char :
           /\ x \in 1..Len(p)
           /\ Stripped(w) = SubSeq(p, 1, x)
           /\ w \in Seq(Char) /\ w # <<>>
           /\ Len(w) = ((x - 1) + 1) + 1
           /\ \A g \in 1..((x - 1) + 1) : w[g] = p[1 + (g - 1)]
           /\ w[((x - 1) + 1) + 1] = z
           /\ w[1] = p[1]
           /\ h.next \in 2..L /\ Before(f, h.next) = 0 + 1
           /\ \/ z = NL /\ x = e - 1 /\ f[h.next - 1] = NL
              \/ z = p[x] /\ h.next = L /\ ~ EndsLine(f)
    <3> HIDE DEF h
    <3>1. 0 + 1 = 1
      OBVIOUS
    <3> QED BY <1>1, <2>1, <3>1, Zenon DEF LineHas
  <2>3. Len(w) = x + 1 /\ (\A g \in 1..x : w[g] = p[g]) /\ w[x + 1] = z /\ w \in Seq(Char)
    <3> HIDE DEF w, h
    <3>1. (x - 1) + 1 = x /\ x \in Nat
      OBVIOUS
    <3>2. Len(w) = x + 1 /\ w[x + 1] = z /\ w \in Seq(Char) /\ \A g \in 1..x : w[g] = p[1 + (g - 1)]
      BY <2>2, <3>1, Zenon
    <3>3. \A g \in 1..x : 1 + (g - 1) = g
      OBVIOUS
    <3> QED BY <3>2, <3>3, Zenon
  <2>4. count \in Nat
    <3>1. w \in Seq(Char) /\ w # <<>> /\ w[1] \in DigitChar
      BY <1>1, <2>2 DEF IsPath
    <3> HIDE DEF w
    <3>2. Number(w) \in Nat
      BY <3>1, NumberNat
    <3> QED BY <3>2 DEF w
  <2>5. x \in 0..(E - 1) /\ h.next # 0 /\ e - 1 \in 1..Len(p)
    <3> DEFINE y == h.next
    <3>1. y \in 2..L /\ x \in 1..(e - 1) /\ e <= E /\ e \in 2..(Len(p) + 1) /\ E \in 1..(Len(p) + 1)
          /\ Len(p) \in Nat /\ L \in Nat
      BY <1>1, <2>2
    <3> HIDE DEF y, e, E, L
    <3>2. x \in 0..(E - 1) /\ y # 0 /\ e - 1 \in 1..Len(p)
      BY <3>1
    <3> QED BY <3>2 DEF y
  <2>6. CASE z = p[x] /\ h.next = L /\ ~ EndsLine(f)
    <3>1. B = 1
      BY <2>2, <2>6
    <3>2. ~ Whole(f, p, N + 1)
      BY <1>4, <2>6
    <3>3. count # 0 => B <= N
      <4>0. N # 0 => B <= N
        <5>1. N \in Nat /\ B = 1
          BY <1>1, <3>1
        <5> HIDE DEF N, B
        <5> QED BY <5>1
      <4> SUFFICES ASSUME N = 0 PROVE count = 0
        <5> HIDE DEF N, B, count
        <5> QED BY <4>0
      <4> HIDE DEF w, h, e
      <4>1. w \in Seq(Char) /\ p \in Seq(Char) /\ Number(p) = 0 /\ Len(w) = x + 1 /\ w[x + 1] = p[x]
            /\ (\A g \in 1..x : w[g] = p[g]) /\ p[1] \in DigitChar /\ x \in 1..Len(p)
        BY <1>1, <2>2, <2>3, <2>6 DEF IsPath
      <4>2. Number(w) = 0
        BY <4>1, NumberZero
      <4> QED BY <4>2 DEF w
    <3>4. Stripped(h.line) = SubSeq(p, 1, x) /\ h.next = L
      BY <2>2, <2>6
    <3> HIDE DEF h, r, count, L, B, E, N
    <3>5. ReadsPath(f, p, r)
      BY <1>8, <2>4, <2>5, <3>2, <3>3, <3>4, Zenon
    <3> QED BY <3>5 DEF r
  <2>7. CASE z = NL /\ x = e - 1 /\ f[h.next - 1] = NL
    <3>1. count = N
      <4> DEFINE m == e - 1
      <4>1. m \in Nat /\ m = LineAt(p, 1) - 1 /\ Len(w) = m + 1 /\ (\A g \in 1..m : w[g] = p[g]) /\ w[m + 1] = NL
            /\ w \in Seq(Char)
        <5>1. m \in Nat /\ x = m
          BY <2>5, <2>7
        <5> HIDE DEF w, m, h
        <5> QED BY <2>3, <2>7, <5>1 DEF m
      <4> HIDE DEF w, m, h
      <4>2. Number(w) = Number(p)
        BY <4>1, NumberWhole
      <4> QED BY <4>2 DEF w
    <3>2. ReadTo(f, p, 0, ls[0])
      <4>1. ls[0] = FirstOf(f, c)
        <5> DEFINE n == N
        <5>1. n \in Nat /\ n = Number(HeadOf(f, c).line)
          BY <1>1, <3>1
        <5> HIDE DEF n
        <5> QED BY <5>1, LinesAre
      <4>2. ls[0] = Reading("path", SubSeq(p, 1, e - 1), h.next)
        BY <1>5, <2>2, <2>7, <4>1
      <4>3. h.next \in 1..L
        <5> DEFINE y == h.next
        <5>1. y \in 2..L /\ L \in Nat
          BY <1>1, <2>2
        <5> HIDE DEF y, L
        <5>2. y \in 1..L
          BY <5>1
        <5> QED BY <5>2 DEF y
      <4>4. 0 + 1 = 1
        OBVIOUS
      <4> HIDE DEF h, ls
      <4> QED BY <2>2, <2>7, <4>2, <4>3, <4>4, Zenon DEF ReadTo
    <3>3. \A k \in 1..N : ls[k] = MoreOf(f, c, ls[k - 1])
      <4> DEFINE n == N
      <4>1. n \in Nat /\ n = Number(HeadOf(f, c).line)
        BY <1>1, <3>1
      <4> HIDE DEF n
      <4>2. \A k \in 1..n : ls[k] = MoreOf(f, c, ls[k - 1])
        BY <4>1, LinesAre
      <4> QED BY <4>2 DEF n
    <3> DEFINE S == {k \in 0..N : ~ ReadTo(f, p, k, ls[k])}
    <3>4. S = {}
      <4> HIDE DEF ls
      <4> SUFFICES ASSUME S # {} PROVE FALSE
        OBVIOUS
      <4>1. PICK k \in S : \A g \in S : k <= g
        <5>1. S \subseteq Nat /\ S # {}
          OBVIOUS
        <5> HIDE DEF S
        <5> QED BY <5>1, LeastNumber
      <4>2. k \in 0..N /\ ~ ReadTo(f, p, k, ls[k])
        BY <4>1
      <4>3. k # 0
        BY <3>2, <4>2
      <4> DEFINE j == k - 1
      <4>4. j \in 0..N /\ ~ (k <= j) /\ k \in 1..N /\ j \in Nat /\ j + 1 = k /\ j + 1 <= N
        <5>1. N \in Nat /\ k \in 0..N
          BY <1>1, <4>2
        <5> HIDE DEF N, S
        <5> QED BY <4>3, <5>1
      <4>5. j \notin S
        <5> HIDE DEF S, j
        <5> QED BY <4>1, <4>4
      <4>6. ReadTo(f, p, j, ls[j])
        <5> HIDE DEF j
        <5> QED BY <4>4, <4>5
      <4>7. ls[k] = MoreOf(f, c, ls[j])
        BY <3>3, <4>4
      <4> DEFINE rd == ls[j]
      <4>8. ReadTo(f, p, j, rd) /\ j \in Nat /\ j + 1 <= Number(p) /\ Good(p) /\ Shape(f, p)
        BY <4>4, <4>6
      <4> HIDE DEF j, rd, N
      <4>9. ReadTo(f, p, j + 1, MoreOf(f, c, rd))
        BY <4>8, ReadNext
      <4> QED BY <4>2, <4>4, <4>7, <4>9 DEF rd
    <3>5. ReadTo(f, p, N, ls[N])
      <4>1. N \in 0..N
        BY <1>1
      <4> HIDE DEF N
      <4> QED BY <3>4, <4>1
    <3>6. r = Told(N)
      <4>1. h.next # 0 /\ count # -1
        BY <1>1, <2>5, <3>1
      <4> HIDE DEF h, count, Told, r
      <4> QED BY <1>2, <3>1, <4>1
    <3> DEFINE rd == ls[N]
    <3>7. r = [is |-> rd.is, text |-> rd.text]
      BY <3>6
    <3> HIDE DEF rd, r
    <3>8. r.is = rd.is /\ r.text = rd.text
      BY <3>7
    <3>9. \A i, t, n : rd = Reading(i, t, n) => rd.is = i /\ rd.text = t
      BY DEF Reading
    <3>10. ReadTo(f, p, N, rd)
      BY <3>5 DEF rd
    <3>11. CASE \E n \in 1..L : rd = Reading("path", SubSeq(p, 1, E - 1), n)
      <4>1. rd.is = "path" /\ rd.text = SubSeq(p, 1, E - 1)
        BY <3>9, <3>11, Zenon
      <4>2. r = [is |-> "path", text |-> SubSeq(p, 1, E - 1)]
        BY <3>7, <4>1, Zenon
      <4>3. E - 1 \in 0..(E - 1)
        <5> HIDE DEF E
        <5> QED BY <1>1
      <4> QED BY <1>7, <3>8, <4>1, <4>2, <4>3, Zenon DEF ReadsPath, r
    <3>12. CASE \E i \in Fates, y \in 0..(E - 1), n \in 0..L :
                  /\ rd = Reading(i, SubSeq(p, 1, y), n)
                  /\ EndsLine(f) => B <= N
                  /\ i # "path" => B <= N
      <4>1. PICK i \in Fates, y \in 0..(E - 1), n \in 0..L :
                  /\ rd = Reading(i, SubSeq(p, 1, y), n)
                  /\ EndsLine(f) => B <= N
                  /\ i # "path" => B <= N
        BY <3>12
      <4>2. r.is = i /\ r.text = SubSeq(p, 1, y)
        BY <3>8, <3>9, <4>1, Zenon
      <4>3. ~ Whole(f, p, N + 1)
        <5>1. N \in Nat /\ (EndsLine(f) => B <= N) /\ (Whole(f, p, N + 1) => B = N + 1 /\ EndsLine(f))
          BY <1>1, <1>4, <4>1
        <5> HIDE DEF N, B
        <5> QED BY <5>1
      <4> QED BY <4>1, <4>2, <4>3, Zenon DEF ReadsPath, r
    <3> QED BY <3>10, <3>11, <3>12, Zenon DEF ReadTo
  <2> QED BY <2>2, <2>6, <2>7
<1> QED BY <1>3, <1>9, <1>10

\* What readComments returns.
LEMMA CommentsResult ==
  ASSUME NEW p, Good(p), NEW f, Shape(f, p), NEW c \in Char, 0 < Before(f, Len(f) + 1)
  PROVE  /\ readComments(f, c).is = "line"
         /\ \E x \in 1..Len(p) : Front(readComments(f, c).text) = SubSeq(p, 1, x)
<1> DEFINE i == 1  k == 0  sq == {HASH, NL}  l == Skip(f, i, c, sq)
<1>1. /\ f \in Seq(Char) /\ Len(f) \in Nat /\ LineAt(p, 0) = 1 /\ 0 \in 0..Number(p)
  BY TameLines DEF Good, Shape
<1>2. i \in 1..(Len(f) + 1) /\ i = 1 /\ k = Before(f, i) /\ sq \in {{HASH}, {HASH, NL}} /\ l = Skip(f, i, c, sq) /\ k = 0
  BY <1>1, BeforeFirst
<1>3. readComments(f, c) = [is |-> IF l.next = 0 THEN "nothing" ELSE "line", text |-> l.line]
  BY DEF readComments
<1> HIDE DEF i, k, sq, l
<1>4. \/ k \in 0..Number(p) /\ LineOf(f, p, k, l)
      \/ Before(f, Len(f) + 1) = k
  BY <1>2, FirstFound
<1>5. LineOf(f, p, 0, l)
  BY <1>2, <1>4
<1>6. LineHas(f, p, 0, l)
  BY <1>1, <1>5, LineParts
<1>7. PICK x \in 1..Len(p) : Stripped(l.line) = SubSeq(p, 1, x) /\ l.next \in 2..(Len(f) + 1)
  BY <1>1, <1>6, Zenon DEF LineHas
<1>8. l.next # 0
  <2> DEFINE y == l.next
  <2>1. y \in 2..(Len(f) + 1)
    BY <1>7
  <2> HIDE DEF y
  <2>2. y # 0
    BY <2>1
  <2> QED BY <2>2 DEF y
<1> DEFINE t == l.line
<1>9. readComments(f, c) = [is |-> "line", text |-> t]
  BY <1>3, <1>8
<1>10. Front(t) = SubSeq(p, 1, x)
  BY <1>7 DEF Stripped
<1> HIDE DEF t
<1>11. readComments(f, c).is = "line" /\ readComments(f, c).text = t
  BY <1>9
<1> QED BY <1>10, <1>11

-----------------------------------------------------------------------------
(* The states of the program.                                              *)

LEMMA PathGood ==
  ASSUME NEW p \in Paths
  PROVE  IsPath(p) /\ (~ Printed(p).wild => Good(p))
<1>1. p \in Seq(STRING) /\ p # <<>> /\ p[1] \in Range(Digits) /\ Range(p) \cap {HASH, NL, NUL} = {}
  BY PathAssumption
<1>2. p \in Seq(Char)
  <2> HIDE DEF Char
  <2> QED BY <1>1, CharIs
<1>3. \A i \in 1..Len(p) : p[i] \notin {HASH, NL, NUL}
  <2>1. DOMAIN p = 1..Len(p)
    BY <1>1
  <2>2. \A i \in 1..Len(p) : p[i] \in Range(p)
    BY <2>1 DEF Range
  <2> QED BY <1>1, <2>2
<1>4. IsPath(p)
  BY <1>1, <1>2 DEF IsPath, DigitChar
<1> QED BY <1>3, <1>4, Zenon DEF Good, Tame

LEMMA ConcatEmpty ==
  ASSUME NEW t \in Seq(Char)
  PROVE  <<>> \o t = t /\ t \o <<>> = t
OBVIOUS

\* Handing a piece of what was printed to the file changes nothing in the two together.
LEMMA Flushed ==
  ASSUME NEW d \in Seq(Char), NEW t \in Seq(Char), NEW n \in 1..Len(t)
  PROVE  /\ d \o SubSeq(t, 1, n) \in Seq(Char) /\ SubSeq(t, n + 1, Len(t)) \in Seq(Char)
         /\ (d \o SubSeq(t, 1, n)) \o SubSeq(t, n + 1, Len(t)) = d \o t
<1> DEFINE a == SubSeq(t, 1, n)  b == SubSeq(t, n + 1, Len(t))  m == Len(t)  l == Len(d)
           e == d \o a  g == e \o b  h == d \o t
<1>1. m \in Nat /\ l \in Nat /\ n \in 1..m
  OBVIOUS
<1>2. a \in Seq(Char) /\ Len(a) = n /\ \A j \in 1..n : a[j] = t[j]
  BY <1>1
<1>3. b \in Seq(Char) /\ Len(b) = m - n /\ \A j \in 1..(m - n) : b[j] = t[n + j]
  BY <1>1
<1>4. h \in Seq(Char) /\ Len(h) = l + m /\ (\A j \in 1..l : h[j] = d[j]) /\ \A j \in 1..m : h[l + j] = t[j]
  BY ConcatIs
<1> HIDE DEF a, b, h
<1>5. e \in Seq(Char) /\ Len(e) = l + n /\ (\A j \in 1..l : e[j] = d[j]) /\ \A j \in 1..n : e[l + j] = a[j]
  BY <1>2, ConcatIs
<1> HIDE DEF e
<1>6. /\ g \in Seq(Char) /\ Len(g) = (l + n) + (m - n) /\ (\A j \in 1..(l + n) : g[j] = e[j])
      /\ \A j \in 1..(m - n) : g[(l + n) + j] = b[j]
  <2>1. (\A j \in 1..Len(e) : (e \o b)[j] = e[j]) /\ (\A j \in 1..Len(b) : (e \o b)[Len(e) + j] = b[j])
        /\ e \o b \in Seq(Char) /\ Len(e \o b) = Len(e) + Len(b)
    BY <1>3, <1>5, ConcatIs
  <2> HIDE DEF m, l
  <2> QED BY <1>3, <1>5, <2>1, Zenon
<1> HIDE DEF g, m, l
<1>7. Len(g) = Len(h) /\ Len(h) = l + m
  BY <1>1, <1>4, <1>6
<1>8. \A j \in 1..(l + m) : g[j] = h[j]
  <2> SUFFICES ASSUME NEW j \in 1..(l + m) PROVE g[j] = h[j]
    OBVIOUS
  <2>1. CASE j <= l
    <3>1. j \in 1..l /\ j \in 1..(l + n)
      BY <1>1, <2>1
    <3> QED BY <1>4, <1>5, <1>6, <3>1, Zenon
  <2>2. CASE l < j /\ j <= l + n
    <3> DEFINE y == j - l
    <3>1. y \in 1..n /\ y \in 1..m /\ j \in 1..(l + n) /\ j = l + y
      BY <1>1, <2>2
    <3> HIDE DEF y
    <3>2. g[j] = e[j] /\ e[l + y] = a[y] /\ a[y] = t[y] /\ h[l + y] = t[y]
      BY <1>2, <1>4, <1>5, <1>6, <3>1, Zenon
    <3> QED BY <3>1, <3>2, Zenon
  <2>3. CASE l + n < j
    <3> DEFINE y == j - (l + n)
    <3>1. y \in 1..(m - n) /\ n + y \in 1..m /\ j = (l + n) + y /\ j = l + (n + y)
      BY <1>1, <2>3
    <3> HIDE DEF y
    <3>2. g[(l + n) + y] = b[y] /\ b[y] = t[n + y] /\ h[l + (n + y)] = t[n + y]
      BY <1>3, <1>4, <1>6, <3>1, Zenon
    <3> QED BY <3>1, <3>2, Zenon
  <2> QED BY <1>1, <2>1, <2>2, <2>3
<1>9. g = h
  <2>1. g \in Seq(Char) /\ h \in Seq(Char)
    BY <1>4, <1>6
  <2> QED BY <1>7, <1>8, <2>1, SeqEqual
<1> QED BY <1>2, <1>3, <1>5, <1>9, Zenon DEF g, h, e, a, b

\* A comment line between two lines of a file.
IsNoted(f, i, t) ==
  /\ t \in Seq(Char) /\ Len(t) = Len(f) + 3
  /\ \A j \in 1..(i - 1) : t[j] = f[j]
  /\ \A j \in i..Len(f) : t[j + 3] = f[j]
  /\ t[i] = HASH /\ t[i + 1] = COMMA /\ t[i + 2] = NL

LEMMA Noted ==
  ASSUME NEW f \in Seq(Char), NEW i \in 1..Len(f)
  PROVE  IsNoted(f, i, SubSeq(f, 1, i - 1) \o <<HASH, COMMA, NL>> \o SubSeq(f, i, Len(f)))
<1> DEFINE m == Len(f)  a == SubSeq(f, 1, i - 1)  b == <<HASH, COMMA, NL>>  d == SubSeq(f, i, m)
           e == a \o b  g == e \o d
<1>1. m \in Nat /\ i \in 1..m
  OBVIOUS
<1>0. ASSUME NEW x \in 1..(m + 1), NEW y \in 0..m, x <= y + 1
      PROVE  /\ SubSeq(f, x, y) \in Seq(Char) /\ Len(SubSeq(f, x, y)) = (y - x) + 1
             /\ \A j \in 1..((y - x) + 1) : SubSeq(f, x, y)[j] = f[x + (j - 1)]
  <2> DEFINE u == SubSeq(f, x, y)  z == (y - x) + 1
  <2>0. z \in Nat /\ x \in Int /\ y \in Int /\ \A j \in 1..z : x + (j - 1) \in 1..m /\ x + (j - 1) = x + j - 1
    <3> HIDE DEF m
    <3> QED BY <1>0, <1>1
  <2>1. u = [j \in 1..z |-> f[x + (j - 1)]]
    <3>1. u = [j \in 1..((y - x) + 1) |-> f[x + j - 1]]
      BY <2>0
    <3> HIDE DEF u
    <3> QED BY <2>0, <3>1
  <2>2. \A j \in 1..z : f[x + (j - 1)] \in Char
    <3>1. \A j \in 1..m : f[j] \in Char
      BY ElementOfSeq
    <3> HIDE DEF m, z
    <3> QED BY <2>0, <3>1
  <2> HIDE DEF u, z
  <2>3. u \in Seq(Char) /\ Len(u) = z /\ \A j \in 1..z : u[j] = f[x + (j - 1)]
    BY <2>0, <2>1, <2>2
  <2> QED BY <2>3 DEF u, z
<1>2. a \in Seq(Char) /\ Len(a) = i - 1 /\ \A j \in 1..(i - 1) : a[j] = f[j]
  <2> HIDE DEF m
  <2>1. 1 \in 1..(m + 1) /\ i - 1 \in 0..m /\ 1 <= (i - 1) + 1 /\ ((i - 1) - 1) + 1 = i - 1
    BY <1>1
  <2>2. \A j \in 1..(i - 1) : 1 + (j - 1) = j
    OBVIOUS
  <2>3. /\ SubSeq(f, 1, i - 1) \in Seq(Char) /\ Len(SubSeq(f, 1, i - 1)) = ((i - 1) - 1) + 1
        /\ \A j \in 1..(((i - 1) - 1) + 1) : SubSeq(f, 1, i - 1)[j] = f[1 + (j - 1)]
    BY <1>0, <2>1, Zenon
  <2> QED BY <2>1, <2>2, <2>3, Zenon
<1>3. d \in Seq(Char) /\ Len(d) = (m - i) + 1 /\ \A j \in 1..((m - i) + 1) : d[j] = f[i + (j - 1)]
  <2>1. i \in 1..(m + 1) /\ m \in 0..m /\ i <= m + 1
    BY <1>1
  <2> HIDE DEF m
  <2> QED BY <1>0, <2>1, Zenon
<1>4. b \in Seq(Char) /\ Len(b) = 3 /\ b[1] = HASH /\ b[2] = COMMA /\ b[3] = NL
  <2>1. HASH \in Char /\ COMMA \in Char /\ NL \in Char
    BY CharIs
  <2> HIDE DEF Char
  <2> QED BY <2>1
<1> HIDE DEF a, b, d
<1>5. e \in Seq(Char) /\ Len(e) = (i - 1) + 3 /\ (\A j \in 1..(i - 1) : e[j] = a[j]) /\ \A j \in 1..3 : e[(i - 1) + j] = b[j]
  <2>1. e \in Seq(Char) /\ Len(e) = Len(a) + Len(b) /\ (\A j \in 1..Len(a) : e[j] = a[j])
        /\ \A j \in 1..Len(b) : e[Len(a) + j] = b[j]
    BY <1>2, <1>4, ConcatIs, Zenon
  <2> HIDE DEF e
  <2> QED BY <1>2, <1>4, <2>1, Zenon
<1> HIDE DEF e
<1>6. /\ g \in Seq(Char) /\ Len(g) = ((i - 1) + 3) + ((m - i) + 1) /\ (\A j \in 1..((i - 1) + 3) : g[j] = e[j])
      /\ \A j \in 1..((m - i) + 1) : g[((i - 1) + 3) + j] = d[j]
  <2>1. g \in Seq(Char) /\ Len(g) = Len(e) + Len(d) /\ (\A j \in 1..Len(e) : g[j] = e[j])
        /\ \A j \in 1..Len(d) : g[Len(e) + j] = d[j]
    BY <1>3, <1>5, ConcatIs, Zenon
  <2> HIDE DEF g, m
  <2> QED BY <1>3, <1>5, <2>1, Zenon
<1>7. g = SubSeq(f, 1, i - 1) \o <<HASH, COMMA, NL>> \o SubSeq(f, i, Len(f))
  BY Zenon DEF g, e, a, b, d
<1> HIDE DEF g, m
<1>8. Len(g) = m + 3
  BY <1>1, <1>6
<1>9. ASSUME NEW j \in 1..(i - 1) PROVE g[j] = f[j]
  <2>1. j \in 1..((i - 1) + 3)
    BY <1>1
  <2> QED BY <1>2, <1>5, <1>6, <2>1, Zenon
<1>10. ASSUME NEW j \in i..m PROVE g[j + 3] = f[j]
  <2> DEFINE y == (j - i) + 1
  <2>1. y \in 1..((m - i) + 1) /\ j + 3 = ((i - 1) + 3) + y /\ i + (y - 1) = j
    BY <1>1
  <2> HIDE DEF y
  <2> QED BY <1>3, <1>6, <2>1, Zenon
<1>11. g[i] = HASH /\ g[i + 1] = COMMA /\ g[i + 2] = NL
  <2>1. i = (i - 1) + 1 /\ i + 1 = (i - 1) + 2 /\ i + 2 = (i - 1) + 3 /\ 1 \in 1..3 /\ 2 \in 1..3 /\ 3 \in 1..3
    BY <1>1
  <2>2. i \in 1..((i - 1) + 3) /\ i + 1 \in 1..((i - 1) + 3) /\ i + 2 \in 1..((i - 1) + 3)
    BY <1>1
  <2>3. e[i] = HASH /\ e[i + 1] = COMMA /\ e[i + 2] = NL
    <3>1. e[(i - 1) + 1] = b[1] /\ e[(i - 1) + 2] = b[2] /\ e[(i - 1) + 3] = b[3]
      BY <1>5, <2>1, Zenon
    <3> QED BY <1>4, <2>1, <3>1, Zenon
  <2> QED BY <1>6, <2>2, <2>3, Zenon
<1>12. IsNoted(f, i, g)
  BY <1>6, <1>8, <1>9, <1>10, <1>11, Zenon DEF IsNoted, m
<1> QED BY <1>7, <1>12, Zenon

\* The file and what is not yet in it are, together, the lines of the path, with
\* comments between them; after the writer's end, the front of them.
PathIInv ==
  /\ writer \in {"none", "open", "closed", "dead", "wild"}
  /\ writer = "none" => path = <<>>
  /\ writer # "none" => path \in Paths
  /\ writer = "wild" => Printed(path).wild
  /\ writer \in {"open", "closed", "dead"} =>
       Good(path) /\ disk \in Seq(Char) /\ pending \in Seq(Char) /\ Shape(disk \o pending, path)
  /\ writer \in {"open", "closed"} => Whole(disk \o pending, path, Number(path) + 1)
  /\ writer # "open" => pending = <<>>
  /\ \/ result = NoResult
     \/ /\ writer \in {"open", "closed", "dead"}
        /\ \E c \in Stale : result \in {pathFileRead(disk, c), readComments(disk, c)}

LEMMA PathInvNext ==
  ASSUME PathIInv, [PathNext]_pathVars
  PROVE  PathIInv'
<1>1. ASSUME NEW p \in Paths, pathFileWrite(p) PROVE PathIInv'
  <2>1. path' = p /\ disk' = <<>> /\ result' = NoResult
    BY <1>1 DEF pathFileWrite
  <2>2. CASE Printed(p).wild
    <3>1. writer' = "wild" /\ pending' = <<>>
      BY <1>1, <2>2 DEF pathFileWrite
    <3> QED BY <2>1, <2>2, <3>1 DEF PathIInv
  <2>3. CASE ~ Printed(p).wild
    <3>1. writer' = "open" /\ pending' = Printed(p).text
      BY <1>1, <2>3 DEF pathFileWrite
    <3>2. Good(p)
      BY <2>3, PathGood
    <3>3. Whole(Printed(p).text, p, Number(p) + 1)
      BY <3>2, ShapePrinted
    <3>4. pending' \in Seq(Char) /\ Whole(pending', path', Number(path') + 1) /\ Good(path')
      BY <2>1, <3>1, <3>2, <3>3 DEF Whole, Shape
    <3>5. disk' \o pending' = pending' /\ disk' \in Seq(Char)
      BY <2>1, <3>4, ConcatEmpty
    <3>6. Shape(disk' \o pending', path') /\ Whole(disk' \o pending', path', Number(path') + 1)
      <4>1. Shape(pending', path')
        BY <3>4 DEF Whole
      <4> QED BY <3>4, <3>5, <4>1, Zenon
    <3> QED BY <2>1, <3>1, <3>4, <3>5, <3>6 DEF PathIInv
  <2> QED BY <2>2, <2>3
<1>2. ASSUME NEW n \in 1..Len(pending), Flush(n) PROVE PathIInv'
  <2>1. /\ writer = "open" /\ writer' \in {"open", "closed"} /\ (writer' # "open" => pending' = <<>>)
        /\ disk' = disk \o SubSeq(pending, 1, n) /\ pending' = SubSeq(pending, n + 1, Len(pending))
        /\ path' = path /\ result' = NoResult
    BY <1>2 DEF Flush
  <2>2. /\ Good(path) /\ disk \in Seq(Char) /\ pending \in Seq(Char) /\ path \in Paths
        /\ Shape(disk \o pending, path) /\ Whole(disk \o pending, path, Number(path) + 1)
    BY <2>1 DEF PathIInv
  <2>3. disk' \in Seq(Char) /\ pending' \in Seq(Char) /\ disk' \o pending' = disk \o pending
    BY <2>1, <2>2, Flushed
  <2>4. Shape(disk' \o pending', path') /\ Whole(disk' \o pending', path', Number(path') + 1)
    BY <2>1, <2>2, <2>3, Zenon
  <2> QED BY <2>1, <2>2, <2>3, <2>4 DEF PathIInv
<1>3. ASSUME Crash PROVE PathIInv'
  <2>1. /\ writer = "open" /\ writer' = "dead" /\ pending' = <<>>
        /\ path' = path /\ disk' = disk /\ result' = result
    BY <1>3 DEF Crash
  <2>2. /\ Good(path) /\ disk \in Seq(Char) /\ pending \in Seq(Char) /\ path \in Paths
        /\ Shape(disk \o pending, path)
    BY <2>1 DEF PathIInv
  <2>3. Shape(disk, path)
    <3>1. Len(disk) <= Len(disk \o pending) /\ \A j \in 1..Len(disk) : disk[j] = (disk \o pending)[j]
      BY <2>2, ConcatIs
    <3> QED BY <2>2, <3>1, ShapePrefix
  <2>4. disk' \o pending' = disk /\ pending' \in Seq(Char) /\ disk' \in Seq(Char)
    BY <2>1, <2>2, ConcatEmpty
  <2>5. Shape(disk' \o pending', path')
    BY <2>1, <2>3, <2>4, Zenon
  <2>6. \/ result' = NoResult
        \/ \E c \in Stale : result' \in {pathFileRead(disk', c), readComments(disk', c)}
    BY <2>1, Zenon DEF PathIInv
  <2> QED BY <2>1, <2>2, <2>4, <2>5, <2>6 DEF PathIInv
<1>4. ASSUME NEW i \in 1..Len(disk), Note(i) PROVE PathIInv'
  <2>1. /\ writer = "closed" /\ writer' = writer /\ path' = path /\ pending' = pending /\ result' = NoResult
        /\ i > 1 => disk[i - 1] = NL
        /\ disk' = SubSeq(disk, 1, i - 1) \o <<HASH, COMMA, NL>> \o SubSeq(disk, i, Len(disk))
    BY <1>4 DEF Note
  <2>2. /\ Good(path) /\ disk \in Seq(Char) /\ pending = <<>> /\ path \in Paths /\ pending \in Seq(Char)
        /\ Whole(disk \o pending, path, Number(path) + 1)
    BY <2>1 DEF PathIInv
  <2>3. Whole(disk, path, Number(path) + 1)
    <3>1. disk \o pending = disk
      BY <2>2, ConcatEmpty
    <3> QED BY <2>2, <3>1, Zenon
  <2> DEFINE t == disk'
  <2>4. /\ t \in Seq(Char) /\ Len(t) = Len(disk) + 3
        /\ \A j \in 1..(i - 1) : t[j] = disk[j]
        /\ \A j \in i..Len(disk) : t[j + 3] = disk[j]
        /\ t[i] = HASH /\ t[i + 1] = COMMA /\ t[i + 2] = NL
    <3>1. IsNoted(disk, i, t)
      BY <2>1, <2>2, Noted, Zenon
    <3> QED BY <3>1, Zenon DEF IsNoted
  <2> HIDE DEF t
  <2>5. Whole(t, path, Number(path) + 1)
    <3>1. i \in 1..(Len(disk) + 1) /\ (i = 1 \/ disk[i - 1] = NL) /\ (i + 3) - 1 = i + 2
      BY <2>1, <2>2
    <3>2. \A j \in i..((i + 3) - 2) : j = i \/ j = i + 1
      BY <3>1
    <3>3. \A j \in i..((i + 3) - 2) : t[j] # NL
      BY <2>4, <3>2 DEF HASH, COMMA, NL
    <3>4. t[(i + 3) - 1] = NL
      BY <2>4, <3>1
    <3> DEFINE n == 3
    <3>5. n \in Nat /\ 2 <= n /\ Len(t) = Len(disk) + n /\ (\A j \in i..Len(disk) : t[j + n] = disk[j])
          /\ t[(i + n) - 1] = NL /\ \A j \in i..((i + n) - 2) : t[j] # NL
      BY <2>4, <3>3, <3>4
    <3> HIDE DEF n
    <3> QED BY <2>3, <2>4, <3>1, <3>5, ShapeComment
  <2>6. t \o pending' = t /\ Shape(t, path)
    BY <2>1, <2>2, <2>4, <2>5, ConcatEmpty DEF Whole
  <2>7. disk' \in Seq(Char) /\ Shape(disk' \o pending', path') /\ Whole(disk' \o pending', path', Number(path') + 1)
    <3>1. t \in Seq(Char) /\ Shape(t \o pending', path') /\ Whole(t \o pending', path', Number(path') + 1)
      BY <2>1, <2>4, <2>5, <2>6, Zenon
    <3> QED BY <3>1 DEF t
  <2> QED BY <2>1, <2>2, <2>7 DEF PathIInv
<1>5. ASSUME Read PROVE PathIInv'
  <2>1. /\ writer \notin {"none", "wild"}
        /\ \E c \in Stale : result' \in {pathFileRead(disk, c), readComments(disk, c)}
        /\ writer' = writer /\ path' = path /\ pending' = pending /\ disk' = disk
    BY <1>5, Zenon DEF Read
  <2>2. writer' \in {"open", "closed", "dead"}
    BY <2>1 DEF PathIInv
  <2>3. \E c \in Stale : result' \in {pathFileRead(disk', c), readComments(disk', c)}
    BY <2>1, Zenon
  <2> QED BY <2>1, <2>2, <2>3 DEF PathIInv
<1>6. ASSUME UNCHANGED pathVars PROVE PathIInv'
  <2>1. writer' = writer /\ path' = path /\ pending' = pending /\ disk' = disk /\ result' = result
    BY <1>6 DEF pathVars
  <2> QED BY <2>1, Zenon DEF PathIInv
<1> QED BY <1>1, <1>2, <1>3, <1>4, <1>5, <1>6, Zenon DEF PathNext

LEMMA PathInvariant == PathSpec => []PathIInv
<1>1. PathInit => PathIInv
  BY DEF PathInit, PathIInv
<1>2. PathIInv /\ [PathNext]_pathVars => PathIInv'
  BY PathInvNext
<1> QED BY <1>1, <1>2, PTL DEF PathSpec

\* The fronts of a path lie one in the other.
LEMMA FrontsNest ==
  ASSUME NEW p, Good(p), NEW y \in 0..Len(p), NEW x \in 0..y
  PROVE  IsPrefix(SubSeq(p, 1, x), SubSeq(p, 1, y))
<1> DEFINE n == Len(p)  a == SubSeq(p, 1, x)  b == SubSeq(p, 1, y)  d == SubSeq(b, 1, x)
<1>1. p \in Seq(Char) /\ n \in Nat /\ x \in 0..n /\ y \in Nat /\ x <= y /\ x \in Nat
  BY TameLines DEF Good
<1>2. a \in Seq(Char) /\ Len(a) = x /\ \A h \in 1..x : a[h] = p[h]
  BY <1>1, PrefixType
<1>3. b \in Seq(Char) /\ Len(b) = y /\ \A h \in 1..y : b[h] = p[h]
  BY PrefixType
<1> HIDE DEF n, a, b
<1>4. d \in Seq(Char) /\ Len(d) = x /\ \A h \in 1..x : d[h] = b[h]
  BY <1>1, <1>3
<1>5. SubSeq(a, 1, x) \in Seq(Char) /\ Len(SubSeq(a, 1, x)) = x /\ \A h \in 1..x : SubSeq(a, 1, x)[h] = a[h]
  BY <1>1, <1>2
<1> HIDE DEF d
<1>6. \A h \in 1..x : SubSeq(a, 1, x)[h] = d[h]
  <2> SUFFICES ASSUME NEW h \in 1..x PROVE SubSeq(a, 1, x)[h] = d[h]
    OBVIOUS
  <2>1. h \in 1..y
    BY <1>1
  <2> QED BY <1>2, <1>3, <1>4, <1>5, <2>1, Zenon
<1>7. SubSeq(a, 1, x) = d
  BY <1>4, <1>5, <1>6, SeqEqual
<1>8. IsPrefix(a, b)
  BY <1>1, <1>2, <1>3, <1>7 DEF IsPrefix, d
<1> QED BY <1>8 DEF a, b

\* What readComments returns.
ReadsLine(f, p, r) ==
  /\ r.is \in {"line", "nothing"}
  /\ 0 < Before(f, Len(f) + 1) => r.is = "line" /\ \E x \in 1..Len(p) : Front(r.text) = SubSeq(p, 1, x)

\* What a reader of a file has returned.
LEMMA ResultIs ==
  ASSUME PathIInv
  PROVE  \/ result = NoResult
         \/ /\ path \in Paths /\ Good(path) /\ Shape(disk, path)
            /\ writer = "closed" => Whole(disk, path, Number(path) + 1)
            /\ ReadsPath(disk, path, result) \/ ReadsLine(disk, path, result)
<1> SUFFICES ASSUME result # NoResult
             PROVE  /\ path \in Paths /\ Good(path) /\ Shape(disk, path)
                    /\ writer = "closed" => Whole(disk, path, Number(path) + 1)
                    /\ ReadsPath(disk, path, result) \/ ReadsLine(disk, path, result)
  OBVIOUS
<1>1. /\ writer \in {"open", "closed", "dead"} /\ path \in Paths /\ Good(path) /\ disk \in Seq(Char) /\ pending \in Seq(Char)
      /\ Shape(disk \o pending, path)
  BY DEF PathIInv
<1>2. PICK c \in Stale : result \in {pathFileRead(disk, c), readComments(disk, c)}
  BY Zenon DEF PathIInv
<1>3. c \in Char
  BY PathAssumption, CharIs
<1>4. Shape(disk, path)
  <2>1. Len(disk) <= Len(disk \o pending) /\ \A j \in 1..Len(disk) : disk[j] = (disk \o pending)[j]
    BY <1>1, ConcatIs
  <2> QED BY <1>1, <2>1, ShapePrefix
<1>5. writer = "closed" => Whole(disk, path, Number(path) + 1)
  <2> SUFFICES ASSUME writer = "closed" PROVE Whole(disk, path, Number(path) + 1)
    OBVIOUS
  <2>1. pending = <<>> /\ Whole(disk \o pending, path, Number(path) + 1)
    BY DEF PathIInv
  <2>2. disk \o pending = disk
    BY <1>1, <2>1, ConcatEmpty
  <2> QED BY <2>1, <2>2, Zenon
<1>6. ReadsPath(disk, path, pathFileRead(disk, c))
  BY <1>1, <1>3, <1>4, ReadResult
<1>7. 0 < Before(disk, Len(disk) + 1) =>
        /\ readComments(disk, c).is = "line"
        /\ \E x \in 1..Len(path) : Front(readComments(disk, c).text) = SubSeq(path, 1, x)
  BY <1>1, <1>3, <1>4, CommentsResult
<1>8. readComments(disk, c).is \in {"line", "nothing"}
  <2> DEFINE l == Skip(disk, 1, c, {HASH, NL})  b == l.next = 0  t == l.line
  <2>1. readComments(disk, c) = [is |-> IF b THEN "nothing" ELSE "line", text |-> t]
    BY Zenon DEF readComments
  <2> HIDE DEF b, t
  <2> QED BY <2>1
<1>9. CASE result = pathFileRead(disk, c)
  BY <1>1, <1>4, <1>5, <1>6, <1>9, Zenon
<1>10. CASE result = readComments(disk, c)
  <2>1. ReadsLine(disk, path, readComments(disk, c))
    BY <1>7, <1>8, Zenon DEF ReadsLine
  <2> QED BY <1>1, <1>4, <1>5, <1>10, <2>1, Zenon
<1> QED BY <1>2, <1>9, <1>10, Zenon

LEMMA NoResultIs == NoResult.is = "none"
BY DEF NoResult

\* pathFileRead: a path with the points it announces comes back from a file
\* that was closed as pathFileWrite was given it, and the writer does not run
\* over its end.
THEOREM RoundTripTheorem == PathSpec => []RoundTrip
<1>1. ASSUME PathIInv PROVE RoundTrip
  <2> SUFFICES ASSUME HasItsPoints(path)
               PROVE  /\ writer # "wild"
                      /\ (writer = "closed" /\ result.is \in {"path", "wild", "loops"}) =>
                           result = [is |-> "path", text |-> Counted(path)]
    BY DEF RoundTrip
  <2>1. writer # "none"
    BY <1>1 DEF PathIInv, HasItsPoints
  <2>2. Tame(path)
    BY <1>1, <2>1, PathGood, WholeIsTame DEF PathIInv
  <2>3. writer # "wild"
    BY <1>1, <2>2 DEF PathIInv, Tame
  <2>4. ASSUME writer = "closed", result.is \in {"path", "wild", "loops"}
        PROVE  result = [is |-> "path", text |-> Counted(path)]
    <3>1. result # NoResult
      BY <2>4, NoResultIs
    <3>2. /\ Whole(disk, path, Number(path) + 1)
          /\ ReadsPath(disk, path, result) \/ ReadsLine(disk, path, result)
      BY <1>1, <2>4, <3>1, ResultIs, Zenon
    <3>3. ~ ReadsLine(disk, path, result)
      BY <2>4 DEF ReadsLine
    <3>4. result = [is |-> "path", text |-> SubSeq(path, 1, LineAt(path, Number(path) + 1) - 1)]
      BY <3>2, <3>3, Zenon DEF ReadsPath
    <3>5. Counted(path) = SubSeq(path, 1, LineAt(path, Number(path) + 1) - 1)
      BY <2>2, CountedIs
    <3> QED BY <3>4, <3>5, Zenon
  <2> QED BY <2>3, <2>4
<1> QED BY <1>1, PathInvariant, PTL

\* pathFileRead: from a file that is not finished, or never was, and is not
\* written anew during the read, come the front of the path and nothing else; a
\* reader goes astray only where a line is missing.
THEOREM TornTheorem == PathSpec => []TornFile
<1>1. ASSUME PathIInv PROVE TornFile
  <2>1. CASE result = NoResult
    BY <2>1, NoResultIs DEF TornFile
  <2>2. CASE result # NoResult
    <3>1. /\ Good(path) /\ Shape(disk, path)
          /\ ReadsPath(disk, path, result) \/ ReadsLine(disk, path, result)
      BY <1>1, <2>2, ResultIs, Zenon
    <3>2. CASE ReadsLine(disk, path, result)
      BY <3>2 DEF TornFile, ReadsLine
    <3>3. CASE ReadsPath(disk, path, result)
      <4> DEFINE E == LineAt(path, Number(path) + 1)
      <4>1. E - 1 \in 0..Len(path) /\ Number(path) \in Nat /\ Counted(path) = SubSeq(path, 1, E - 1)
        <5>1. Tame(path)
          BY <3>1 DEF Good
        <5>2. Number(path) \in Nat /\ Len(path) \in Nat
              /\ \A k \in 0..(Number(path) + 1) : LineAt(path, k) \in 1..(Len(path) + 1)
          BY <5>1, TameLines
        <5>3. E \in 1..(Len(path) + 1)
          BY <5>2
        <5>4. Counted(path) = SubSeq(path, 1, E - 1)
          BY <5>1, CountedIs
        <5> HIDE DEF E
        <5> QED BY <5>2, <5>3, <5>4
      <4>2. ASSUME result.is = "path" PROVE IsPrefix(result.text, Counted(path))
        <5>1. PICK x \in 0..(E - 1) : result.text = SubSeq(path, 1, x)
          BY <3>3, <4>2, Zenon DEF ReadsPath
        <5> DEFINE y == E - 1
        <5>2. y \in 0..Len(path) /\ x \in 0..y
          BY <4>1
        <5> HIDE DEF y
        <5>3. IsPrefix(SubSeq(path, 1, x), SubSeq(path, 1, y))
          BY <3>1, <5>2, FrontsNest
        <5> QED BY <4>1, <5>1, <5>3, Zenon DEF y
      <4>3. ASSUME result.is \in {"wild", "loops"} PROVE Begun(disk) < 1 + Number(path)
        <5>1. result.is # "path"
          BY <4>3
        <5>2. Before(disk, Len(disk) + 1) <= Number(path)
          BY <3>3, <5>1, Zenon DEF ReadsPath
        <5>3. disk \in Seq(Char)
          BY <3>1 DEF Shape
        <5>4. Begun(disk) = Before(disk, Len(disk) + 1)
          BY <5>3, BegunIs
        <5>5. Before(disk, Len(disk) + 1) \in Nat
          <6>1. Len(disk) + 1 \in Int
            BY <5>3
          <6> QED BY <6>1, StartsAre
        <5> QED BY <4>1, <5>2, <5>4, <5>5
      <4> QED BY <4>2, <4>3 DEF TornFile
    <3> QED BY <3>1, <3>2, <3>3
  <2> QED BY <2>1, <2>2
<1> QED BY <1>1, PathInvariant, PTL

\* readComments: as soon as a line that is no comment has begun, it is returned.
THEOREM FirstLineTheorem == PathSpec => []FirstLine
<1>1. ASSUME PathIInv PROVE FirstLine
  <2>1. CASE result = NoResult
    BY <2>1, NoResultIs DEF FirstLine
  <2>2. CASE result # NoResult
    <3>1. /\ Good(path) /\ Shape(disk, path)
          /\ ReadsPath(disk, path, result) \/ ReadsLine(disk, path, result)
      BY <1>1, <2>2, ResultIs, Zenon
    <3>2. CASE ReadsPath(disk, path, result)
      BY <3>2 DEF FirstLine, ReadsPath, Fates
    <3>3. CASE ReadsLine(disk, path, result)
      <4> SUFFICES ASSUME Begun(disk) > 0
                   PROVE  result.is # "nothing" /\ (result.is = "line" => IsPrefix(Front(result.text), path))
        BY DEF FirstLine
      <4>1. disk \in Seq(Char)
        BY <3>1 DEF Shape
      <4>2. 0 < Before(disk, Len(disk) + 1)
        <5>1. Len(disk) + 1 \in Int
          BY <4>1
        <5>2. Before(disk, Len(disk) + 1) \in Nat
          BY <5>1, StartsAre
        <5> QED BY <4>1, <5>2, BegunIs
      <4>3. PICK x \in 1..Len(path) : result.is = "line" /\ Front(result.text) = SubSeq(path, 1, x)
        BY <3>3, <4>2, Zenon DEF ReadsLine
      <4> DEFINE n == Len(path)
      <4>4. path \in Seq(Char) /\ n \in Nat
        BY <3>1, TameLines DEF Good
      <4>5. n \in 0..n /\ x \in 0..n
        BY <4>4
      <4>6. IsPrefix(SubSeq(path, 1, x), SubSeq(path, 1, n))
        BY <3>1, <4>5, FrontsNest
      <4>7. SubSeq(path, 1, n) = path
        BY <4>4
      <4>8. IsPrefix(Front(result.text), path)
        BY <4>3, <4>6, <4>7, Zenon
      <4>9. result.is # "nothing"
        BY <4>3
      <4> QED BY <4>8, <4>9
    <3> QED BY <3>1, <3>2, <3>3
  <2> QED BY <2>1, <2>2
<1> QED BY <1>1, PathInvariant, PTL

=============================================================================
